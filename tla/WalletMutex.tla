----------------------------- MODULE WalletMutex -----------------------------
(***************************************************************************)
(* src/web/lib/walletMutex.ts with the timeouts its callers wrap around    *)
(* the wallet (signWithWallet.ts, hedera.ts withTimeout): one wallet       *)
(* prompt at a time per lock, and no lock held for ever.  The wallet is    *)
(* external: a prompt is answered whenever it likes, or never.             *)
(* A lock handed over is one step: markReleased, the finally block of run  *)
(* and the promise of the caller settle in one turn of the event loop.     *)
(***************************************************************************)
EXTENDS Integers, Sequences, FiniteSets

CONSTANTS
  Calls,         \* one call of withWalletLock each
  Tabs,          \* browser tabs of the origin
  TabOf,         \* the tab that makes a call
  Locks,         \* with Web Locks one lock for all tabs, without one per tab
  LockOf,        \* the lock the calls of a tab queue for
  Timed,         \* calls whose fn has its own timeout around the wallet
  CallTimeout,   \* DEFAULT_TIMEOUT_MS, 300 s
  HoldCeiling,   \* HOLD_CEILING_MS, 310 s
  CancelGrace,   \* CANCEL_GRACE_MS, 10 s
  NoCall           \* no call

ASSUME LockAssumption ==
  /\ TabOf \in [Calls -> Tabs] /\ LockOf \in [Tabs -> Locks]
  /\ Timed \subseteq Calls /\ NoCall \notin Calls

ASSUME TimeAssumption ==
  /\ CallTimeout \in Nat /\ HoldCeiling \in Nat /\ CancelGrace \in Nat
  /\ 0 < CancelGrace /\ CancelGrace < CallTimeout /\ CallTimeout < HoldCeiling

VARIABLES
  queue,    \* calls waiting for a lock, first come first
  holder,   \* the call whose run() has the lock
  held,     \* how long it has had it
  grace,    \* how long ago a cancellation left it the lock, or NoGrace
  caller,   \* the promise withWalletLock returned
  prompt,   \* the request in the wallet
  left,     \* why a call gave the lock up
  open      \* the tabs that have not been closed

lockVars == <<queue, holder, held, grace, caller, prompt, left, open>>

NoGrace == -1

Lock(c) == LockOf[TabOf[c]]

Holds(c) == holder[Lock(c)] = c

Settled == {"resolved", "rejected", "gone"}

TypeOK ==
  /\ queue \in [Locks -> Seq(Calls)]
  /\ holder \in [Locks -> Calls \cup {NoCall}]
  /\ held \in [Locks -> 0..HoldCeiling]
  /\ grace \in [Locks -> {NoGrace} \cup 0..CancelGrace]
  /\ caller \in [Calls -> {"new", "pending"} \cup Settled]
  /\ prompt \in [Calls -> {"none", "live", "answered"}]
  /\ left \in [Calls -> {"no", "settled", "timeout", "ceiling", "grace",
                         "reset", "closed"}]
  /\ open \in SUBSET Tabs

LockInit ==
  /\ queue = [l \in Locks |-> <<>>]
  /\ holder = [l \in Locks |-> NoCall]
  /\ held = [l \in Locks |-> 0]
  /\ grace = [l \in Locks |-> NoGrace]
  /\ caller = [c \in Calls |-> "new"]
  /\ prompt = [c \in Calls |-> "none"]
  /\ left = [c \in Calls |-> "no"]
  /\ open = Tabs
-----------------------------------------------------------------------------
(* settleResolve and settleReject: the first outcome counts. *)
Settle(c, outcome) ==
  IF caller[c] \in Settled THEN caller ELSE [caller EXCEPT ![c] = outcome]

(* markReleased and the finally block of run(). *)
Release(c, why) ==
  /\ holder' = [holder EXCEPT ![Lock(c)] = NoCall]
  /\ held' = [held EXCEPT ![Lock(c)] = 0]
  /\ grace' = [grace EXCEPT ![Lock(c)] = NoGrace]
  /\ left' = [left EXCEPT ![c] = why]

withWalletLock(c) ==
  /\ caller[c] = "new" /\ TabOf[c] \in open
  /\ caller' = [caller EXCEPT ![c] = "pending"]
  /\ queue' = [queue EXCEPT ![Lock(c)] = Append(@, c)]
  /\ UNCHANGED <<holder, held, grace, prompt, left, open>>

(* The lock is free: run() of the first call in the queue sends its request *)
(* to the wallet.                                                           *)
run(l) ==
  /\ holder[l] = NoCall /\ queue[l] # <<>>
  /\ holder' = [holder EXCEPT ![l] = Head(queue[l])]
  /\ queue' = [queue EXCEPT ![l] = Tail(@)]
  /\ prompt' = [prompt EXCEPT ![Head(queue[l])] = "live"]
  /\ UNCHANGED <<held, grace, caller, left, open>>

(* The wallet answers, with a result or an error.  The answer to a call that *)
(* has given the lock up is discarded.                                       *)
WalletAnswers(c, outcome) ==
  /\ prompt[c] = "live"
  /\ prompt' = [prompt EXCEPT ![c] = "answered"]
  /\ IF Holds(c)
       THEN Release(c, "settled") /\ caller' = Settle(c, outcome)
       ELSE UNCHANGED <<holder, held, grace, left, caller>>
  /\ UNCHANGED <<queue, open>>

TimeoutDue(c) == c \in Timed /\ Holds(c) /\ held[Lock(c)] = CallTimeout

CeilingDue(c) == Holds(c) /\ held[Lock(c)] = HoldCeiling

GraceDue(c) == Holds(c) /\ grace[Lock(c)] = CancelGrace

(* withHardTimeout or withTimeout rejects.  It is the promise the lock waits *)
(* for, so the lock goes too, and the prompt stays in the wallet.            *)
HardTimeout(c) ==
  /\ TimeoutDue(c)
  /\ caller' = Settle(c, "rejected")
  /\ Release(c, "timeout")
  /\ UNCHANGED <<queue, prompt, open>>

CeilingReached(c) ==
  /\ CeilingDue(c)
  /\ caller' = Settle(c, "rejected")
  /\ Release(c, "ceiling")
  /\ UNCHANGED <<queue, prompt, open>>

GraceOver(c) ==
  /\ GraceDue(c)
  /\ Release(c, "grace")
  /\ UNCHANGED <<queue, caller, prompt, open>>

(* abortActiveWalletCall(reason, { releaseLock: false }): the call of this *)
(* tab that has the lock is rejected, the lock stays for a while.          *)
abortActiveWalletCall(c) ==
  /\ Holds(c) /\ TabOf[c] \in open
  /\ caller' = Settle(c, "rejected")
  /\ grace' = [grace EXCEPT ![Lock(c)] = IF @ = NoGrace THEN 0 ELSE @]
  /\ UNCHANGED <<queue, holder, held, prompt, left, open>>

(* disconnect (useWallet.ts) or the debug panel. *)
forceResetWalletLock(c) ==
  /\ Holds(c) /\ TabOf[c] \in open
  /\ caller' = Settle(c, "rejected")
  /\ Release(c, "reset")
  /\ UNCHANGED <<queue, prompt, open>>

(* The browser drops the requests of a closed tab and the lock it has. *)
TabCloses(t) ==
  LET mine == {c \in Calls : TabOf[c] = t}
      l == LockOf[t]
      releases == holder[l] \in mine
  IN  /\ t \in open
      /\ open' = open \ {t}
      /\ queue' = [queue EXCEPT ![l] = SelectSeq(@, LAMBDA c : c \notin mine)]
      /\ caller' = [c \in Calls |->
                      IF c \in mine /\ caller[c] = "pending" THEN "gone" ELSE caller[c]]
      /\ holder' = IF releases THEN [holder EXCEPT ![l] = NoCall] ELSE holder
      /\ held' = IF releases THEN [held EXCEPT ![l] = 0] ELSE held
      /\ grace' = IF releases THEN [grace EXCEPT ![l] = NoGrace] ELSE grace
      /\ left' = IF releases THEN [left EXCEPT ![holder[l]] = "closed"] ELSE left
      /\ UNCHANGED prompt

(* A unit of time: no timer that is due is passed over. *)
Tick ==
  /\ \E l \in Locks : holder[l] # NoCall
  /\ \A c \in Calls : ~TimeoutDue(c) /\ ~CeilingDue(c) /\ ~GraceDue(c)
  /\ held' = [l \in Locks |-> IF holder[l] = NoCall THEN held[l] ELSE held[l] + 1]
  /\ grace' = [l \in Locks |-> IF grace[l] = NoGrace THEN NoGrace ELSE grace[l] + 1]
  /\ UNCHANGED <<queue, holder, caller, prompt, left, open>>
-----------------------------------------------------------------------------
LockTimers ==
  \/ \E c \in Calls : HardTimeout(c) \/ CeilingReached(c) \/ GraceOver(c)
  \/ Tick

LockNext ==
  \/ \E c \in Calls : withWalletLock(c)
  \/ \E l \in Locks : run(l)
  \/ \E c \in Calls, o \in {"resolved", "rejected"} : WalletAnswers(c, o)
  \/ LockTimers
  \/ \E c \in Calls : abortActiveWalletCall(c) \/ forceResetWalletLock(c)
  \/ \E t \in Tabs : TabCloses(t)

-----------------------------------------------------------------------------
(* A call that waits is in the queue or has the lock, with its timers: none *)
(* is left hanging by a reset, a cancellation or the end of another call.   *)
NoCallForgotten ==
  \A c \in Calls : caller[c] = "pending" =>
    \/ Holds(c)
    \/ \E i \in 1..Len(queue[Lock(c)]) : queue[Lock(c)][i] = c

(* Two requests of one lock are live in the wallet together only if one of  *)
(* them has given the lock up by a timer, a reset or the end of its tab.    *)
OnePromptPerLock ==
  \A c, d \in Calls :
    (c # d /\ Lock(c) = Lock(d) /\ prompt[c] = "live" /\ prompt[d] = "live")
      => left[c] # "no" \/ left[d] # "no"

=============================================================================
