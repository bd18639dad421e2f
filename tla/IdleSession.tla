----------------------------- MODULE IdleSession -----------------------------
(***************************************************************************)
(* The two timers that end an unattended wallet session of one browser:    *)
(* src/web/lib/useActivityTimeout.ts (a warning and a countdown after four *)
(* hours) and src/web/lib/useIdleDisconnect24h.ts (a day, by a time stamp  *)
(* in the browser's storage that outlives the page), as                    *)
(* components/Wallet.tsx and SessionTimeoutDialog.tsx use them.  The page  *)
(* is closed and opened again, and the computer sleeps.                    *)
(***************************************************************************)
EXTENDS Integers

CONSTANTS
    INACTIVITY_TIMEOUT,  \* until the warning
    WARNING_COUNTDOWN,   \* from the warning to the disconnect
    IDLE_LIMIT,          \* until the hard disconnect
    THROTTLE,            \* least time between two writes of the time stamp
    MaxTime,             \* bound: the clock stops here
    NoTime               \* no time stamp, no timer

ASSUME LimitsAssumption ==
    /\ {INACTIVITY_TIMEOUT, WARNING_COUNTDOWN, IDLE_LIMIT, THROTTLE, MaxTime} \subseteq Nat \ {0}
    /\ INACTIVITY_TIMEOUT + WARNING_COUNTDOWN < IDLE_LIMIT /\ WARNING_COUNTDOWN < INACTIVITY_TIMEOUT
    /\ NoTime \notin Nat

VARIABLES
    now,
    open, hasMounted,    \* the page; its first effects have run
    session,             \* a wallet session is in the browser's storage
    isConnected,
    lastActivityAt,      \* prism.lastActivityAt in localStorage
    lastWrite, expiryAt, inactivityAt,
    warning, countdownAt,
    active,              \* history: when the user last did something
    since,               \* history: when this page was connected
    slept                \* history: timers have been late

idleVars == <<now, open, hasMounted, session, isConnected, lastActivityAt, lastWrite,
          expiryAt, inactivityAt, warning, countdownAt, active, since, slept>>

Times == (0 .. MaxTime + IDLE_LIMIT) \cup {NoTime}

IdleTypeOK ==
    /\ now \in 0 .. MaxTime /\ active \in 0 .. MaxTime /\ since \in 0 .. MaxTime
    /\ {open, hasMounted, session, isConnected, warning, slept} \subseteq BOOLEAN
    /\ {lastActivityAt, lastWrite, expiryAt, inactivityAt, countdownAt} \subseteq Times

IdleInit ==
    /\ now = 0 /\ open = TRUE /\ hasMounted = FALSE /\ session \in BOOLEAN
    /\ isConnected = FALSE /\ lastActivityAt = NoTime /\ lastWrite = NoTime
    /\ expiryAt = NoTime /\ inactivityAt = NoTime /\ countdownAt = NoTime
    /\ warning = FALSE /\ active = 0 /\ since = 0 /\ slept = FALSE

Due(t) == t # NoTime /\ t <= now

Overdue == Due(expiryAt) \/ Due(inactivityAt) \/ Due(countdownAt)

Tick ==
    /\ now < MaxTime /\ ~Overdue /\ now' = now + 1
    /\ UNCHANGED <<open, hasMounted, session, isConnected, lastActivityAt, lastWrite,
                   expiryAt, inactivityAt, warning, countdownAt, active, since, slept>>

\* The computer sleeps: the clock goes on and the timers do not.
Sleep ==
    /\ open /\ now < MaxTime /\ now' = now + 1 /\ slept' = TRUE
    /\ UNCHANGED <<open, hasMounted, session, isConnected, lastActivityAt, lastWrite,
                   expiryAt, inactivityAt, warning, countdownAt, active, since>>

NoTimers ==
    /\ expiryAt' = NoTime /\ inactivityAt' = NoTime /\ countdownAt' = NoTime
    /\ warning' = FALSE

ClosePage ==
    /\ open /\ open' = FALSE /\ hasMounted' = FALSE /\ isConnected' = FALSE /\ NoTimers
    /\ lastWrite' = NoTime
    /\ UNCHANGED <<now, session, lastActivityAt, active, since, slept>>

OpenPage ==
    /\ ~open /\ open' = TRUE
    /\ UNCHANGED <<now, hasMounted, session, isConnected, lastActivityAt, lastWrite,
                   expiryAt, inactivityAt, warning, countdownAt, active, since, slept>>

\* The effects of the first render: no signer is bound yet, since
\* initializeOnMount awaits the connector first.
FirstEffects ==
    /\ open /\ ~hasMounted /\ hasMounted' = TRUE
    /\ UNCHANGED <<now, open, session, isConnected, lastActivityAt, lastWrite,
                   expiryAt, inactivityAt, warning, countdownAt, active, since, slept>>

-----------------------------------------------------------------------------
\* disconnect, and the effects that see the wallet go.
EndSession ==
    /\ isConnected' = FALSE /\ session' = FALSE /\ NoTimers

\* triggerDisconnect
triggerDisconnect == EndSession /\ lastActivityAt' = NoTime

\* recordActivity: throttled unless forced, and the timer starts again.
recordActivity(force) ==
    IF force \/ lastWrite = NoTime \/ now - lastWrite >= THROTTLE
    THEN lastWrite' = now /\ lastActivityAt' = now /\ expiryAt' = now + IDLE_LIMIT
    ELSE UNCHANGED <<lastWrite, lastActivityAt, expiryAt>>

startInactivityTimer == inactivityAt' = now + INACTIVITY_TIMEOUT

\* Mutant: a connection does not start the timer of the warning.
connectedQuietly ==
    /\ recordActivity(TRUE) /\ isConnected' = TRUE /\ since' = now
    /\ UNCHANGED <<warning, countdownAt, inactivityAt>>

\* The effects that see the wallet come.  A connection that is not there at
\* the first effects counts as fresh; one that is would be judged by the time
\* stamp.
Connected ==
    /\ since' = now
    /\ IF hasMounted \/ lastActivityAt = NoTime
       THEN /\ recordActivity(TRUE) /\ startInactivityTimer
            /\ isConnected' = TRUE /\ UNCHANGED <<warning, countdownAt>>
       ELSE /\ UNCHANGED lastWrite
            /\ IF now - lastActivityAt > IDLE_LIMIT
               THEN isConnected' = FALSE /\ lastActivityAt' = NoTime /\ NoTimers
               ELSE /\ isConnected' = TRUE /\ expiryAt' = lastActivityAt + IDLE_LIMIT
                    /\ startInactivityTimer /\ UNCHANGED <<lastActivityAt, warning, countdownAt>>

\* initializeOnMount binds the session of the storage.
Restore ==
    /\ open /\ hasMounted /\ session /\ ~isConnected /\ Connected
    /\ UNCHANGED <<now, open, hasMounted, session, active, slept>>

\* The user pairs his wallet.
Pair ==
    /\ open /\ hasMounted /\ ~session /\ ~isConnected /\ Connected
    /\ session' = TRUE /\ active' = now
    /\ UNCHANGED <<now, open, hasMounted, slept>>

\* handleActivity of both hooks: mouse, keys, scrolling, touch.  While the
\* warning is shown it does not put off the countdown.
handleActivity ==
    /\ open /\ isConnected /\ active' = now /\ recordActivity(FALSE)
    /\ IF warning THEN UNCHANGED inactivityAt ELSE startInactivityTimer
    /\ UNCHANGED <<now, open, hasMounted, session, isConnected, warning, countdownAt, since, slept>>

\* The warning: its effect starts the countdown, after the clean-up of the
\* listeners' effect has cleared all timers.
Warn ==
    /\ open /\ Due(inactivityAt) /\ warning' = TRUE
    /\ countdownAt' = now + WARNING_COUNTDOWN /\ startInactivityTimer
    /\ UNCHANGED <<now, open, hasMounted, session, isConnected, lastActivityAt, lastWrite,
                   expiryAt, active, since, slept>>

handleStayConnected ==
    /\ open /\ warning /\ warning' = FALSE /\ countdownAt' = NoTime
    /\ active' = now /\ recordActivity(FALSE) /\ startInactivityTimer
    /\ UNCHANGED <<now, open, hasMounted, session, isConnected, since, slept>>

\* handleDisconnect: the countdown ends, or the user agrees in the dialog.
handleDisconnect ==
    /\ open /\ isConnected /\ warning /\ EndSession
    /\ UNCHANGED <<now, open, hasMounted, lastActivityAt, lastWrite, active, since, slept>>

\* The user disconnects in the menu, or the wallet drops the session.
SessionDropped ==
    /\ open /\ isConnected /\ ~warning /\ EndSession
    /\ UNCHANGED <<now, open, hasMounted, lastActivityAt, lastWrite, active, since, slept>>

\* The timer of scheduleExpiry.
IdleExpires ==
    /\ open /\ isConnected /\ Due(expiryAt) /\ triggerDisconnect
    /\ UNCHANGED <<now, open, hasMounted, lastWrite, active, since, slept>>

\* handleVisibility: the tab is shown again.
handleVisibility ==
    /\ open /\ isConnected /\ lastActivityAt # NoTime
    /\ IF now - lastActivityAt >= IDLE_LIMIT
       THEN triggerDisconnect
       ELSE /\ expiryAt' = lastActivityAt + IDLE_LIMIT
            /\ UNCHANGED <<isConnected, session, lastActivityAt, inactivityAt, countdownAt, warning>>
    /\ UNCHANGED <<now, open, hasMounted, lastWrite, active, since, slept>>

IdleNext ==
    \/ Tick \/ Sleep \/ ClosePage \/ OpenPage \/ FirstEffects
    \/ Restore \/ Pair \/ handleActivity \/ Warn \/ handleStayConnected
    \/ handleDisconnect \/ SessionDropped \/ IdleExpires \/ handleVisibility

IdleSpec == IdleInit /\ [][IdleNext]_idleVars
-----------------------------------------------------------------------------
Later(s, t) == IF s > t THEN s ELSE t

(* useActivityTimeout.ts: a connected wallet nobody has touched since it    *)
(* was connected is disconnected when the countdown that follows the        *)
(* warning ends, whatever clicks, reloads and timers went before, as long   *)
(* as timers fire on time.                                                  *)
UnattendedEnds ==
    isConnected /\ ~slept =>
        now - Later(active, since) <= INACTIVITY_TIMEOUT + WARNING_COUNTDOWN

(* The countdown is running whenever the warning is shown, and otherwise    *)
(* the timer of the warning is: also after a sleep in which all of them     *)
(* were due at once.                                                        *)
TimersArmed ==
    isConnected => /\ expiryAt # NoTime /\ expiryAt <= Later(active, since) + IDLE_LIMIT
                   /\ IF warning THEN countdownAt # NoTime ELSE inactivityAt # NoTime

UnattendedSessionEnds == UnattendedEnds /\ TimersArmed

=============================================================================
