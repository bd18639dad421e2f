---------------------------- MODULE WalletSession ----------------------------
(***************************************************************************)
(* The wallet session of one tab: the connector singleton of               *)
(* src/web/lib/appkit.ts, the pairing flows of lib/connectWallet.ts and    *)
(* components/ConnectWalletSheet.tsx, and lib/useWallet.ts, which binds    *)
(* the signer and looks up its account on a mirror node.  The wallet       *)
(* changes account or drops the session, the user switches the network,    *)
(* pairs and disconnects, and every await lets the others in.              *)
(***************************************************************************)
EXTENDS Integers, FiniteSets

CONSTANTS
    Accounts,     \* accounts the wallet may pair
    Networks,     \* ledgers of the network selector
    NoAccount,    \* no account
    MaxSelects,   \* bound: how often the network is changed
    MaxLookups    \* bound: account lookups in flight at once, per account

ASSUME SessionAssumption ==
    /\ NoAccount \notin Accounts /\ {"init", "done"} \cap Accounts = {}
    /\ {MaxSelects, MaxLookups} \subseteq Nat

VARIABLES
    networkSelected,   \* the network of the selector
    currentNetwork,    \* _currentNetwork
    dapp,              \* _dapp: its network, generation and session
    signerZero, userAccountInfo, isWalletLoading,
    mount,             \* initializeOnMount: "init", the account it awaits, "done"
    listening,         \* the generation whose session events are listened to
    lookups,           \* account lookups in flight
    switches,          \* handleNetworkChange calls in flight
    pairing,           \* generation a pairing runs on, or 0
    disconnecting,     \* generation disconnect() tears down, or 0
    selects,           \* how often the network was changed
    missed,            \* history: a session event came while nobody listened,
                       \* or crossed the teardown of a disconnect
    kept               \* history: a teardown failed and left its session

sessionVars == <<networkSelected, currentNetwork, dapp, signerZero, userAccountInfo,
          isWalletLoading, mount, listening, lookups, switches, pairing,
          disconnecting, selects, missed, kept>>

Sessions == Accounts \cup {NoAccount}

SwitchPhases == {"waiting", "disconnecting", "starting"}

SessionTypeOK ==
    /\ networkSelected \in Networks /\ currentNetwork \in Networks
    /\ dapp \in [net : Networks, gen : 0 .. MaxSelects + 1, session : Sessions]
    /\ signerZero \in Sessions /\ userAccountInfo \in Sessions
    /\ isWalletLoading \in BOOLEAN /\ missed \in BOOLEAN /\ kept \in BOOLEAN
    /\ mount \in {"init", "done"} \cup Accounts
    /\ listening \in {0, 1} /\ lookups \in [Accounts -> 0 .. MaxLookups]
    /\ switches \subseteq [n : 1 .. MaxSelects, net : Networks, phase : SwitchPhases,
                           of : 0 .. MaxSelects + 1, left : Sessions]
    /\ {pairing, disconnecting, selects} \subseteq 0 .. MaxSelects + 1

\* The page has loaded: the connector of the default network is being set up
\* and a session may be waiting in the browser's storage.
SessionInit ==
    /\ networkSelected \in Networks /\ currentNetwork = networkSelected
    /\ \E a \in Sessions : dapp = [net |-> networkSelected, gen |-> 0, session |-> a]
    /\ signerZero = NoAccount /\ userAccountInfo = NoAccount /\ isWalletLoading = FALSE
    /\ mount = "init" /\ listening = 0 /\ lookups = [a \in Accounts |-> 0]
    /\ switches = {} /\ pairing = 0 /\ disconnecting = 0 /\ selects = 0
    /\ missed = FALSE /\ kept = FALSE

\* getDAppConnector() # undefined
Ready == dapp.gen > 0

-----------------------------------------------------------------------------
\* bindFromSession: the signer of the session, and a lookup of its account.
bindFromSession(session) ==
    /\ signerZero' = session
    /\ IF session = NoAccount
       THEN userAccountInfo' = NoAccount /\ UNCHANGED lookups
       ELSE /\ lookups[session] < MaxLookups
            /\ lookups' = [lookups EXCEPT ![session] = @ + 1]
            /\ UNCHANGED userAccountInfo

Unbind == signerZero' = NoAccount /\ userAccountInfo' = NoAccount

\* The mirror node answers, or fails, which is not fatal.
LookupReturns(a, ok) ==
    /\ lookups[a] > 0
    /\ lookups' = [lookups EXCEPT ![a] = @ - 1]
    /\ userAccountInfo' = IF ok THEN a ELSE userAccountInfo
    /\ UNCHANGED <<networkSelected, currentNetwork, dapp, signerZero, isWalletLoading,
                   mount, listening, switches, pairing, disconnecting, selects, missed, kept>>

\* initDAppConnector ends and initializeOnMount binds the stored session.
initializeOnMount ==
    /\ mount = "init"
    /\ dapp' = [dapp EXCEPT !.gen = 1]
    /\ signerZero' = dapp.session
    /\ IF dapp.session = NoAccount THEN mount' = "done" /\ listening' = 1
                              ELSE mount' = dapp.session /\ UNCHANGED listening
    /\ UNCHANGED <<networkSelected, currentNetwork, userAccountInfo, isWalletLoading, lookups,
                   switches, pairing, disconnecting, selects, missed, kept>>

\* ... and listens to session events once the account lookup has ended.
MountBound(ok) ==
    /\ mount \in Accounts
    /\ userAccountInfo' = IF ok THEN mount ELSE userAccountInfo
    /\ mount' = "done" /\ listening' = 1
    /\ UNCHANGED <<networkSelected, currentNetwork, dapp, signerZero, isWalletLoading, lookups,
                   switches, pairing, disconnecting, selects, missed, kept>>

Listens == listening = dapp.gen

\* Mutant: an update of the session is ignored.
updateIgnored(a) ==
    /\ Ready /\ dapp.session # NoAccount /\ a # dapp.session
    /\ dapp' = [dapp EXCEPT !.session = a]
    /\ missed' = (missed \/ ~Listens \/ disconnecting > 0)
    /\ UNCHANGED <<networkSelected, currentNetwork, isWalletLoading, mount, listening,
                   switches, pairing, disconnecting, selects, kept, signerZero, lookups, userAccountInfo>>

\* session_event, session_update: the wallet changes the account.
SessionUpdate(a) ==
    /\ Ready /\ dapp.session # NoAccount /\ a # dapp.session
    /\ dapp' = [dapp EXCEPT !.session = a]
    /\ missed' = (missed \/ ~Listens \/ disconnecting > 0)
    /\ IF Listens THEN bindFromSession(a) ELSE UNCHANGED <<signerZero, lookups, userAccountInfo>>
    /\ UNCHANGED <<networkSelected, currentNetwork, isWalletLoading, mount, listening,
                   switches, pairing, disconnecting, selects, kept>>

\* session_delete: the wallet drops the session.
SessionDelete ==
    /\ Ready /\ dapp.session # NoAccount
    /\ dapp' = [dapp EXCEPT !.session = NoAccount]
    /\ missed' = (missed \/ ~Listens \/ disconnecting > 0)
    /\ IF Listens THEN Unbind ELSE UNCHANGED <<signerZero, userAccountInfo>>
    /\ UNCHANGED <<networkSelected, currentNetwork, isWalletLoading, mount, listening, lookups,
                   switches, pairing, disconnecting, selects, kept>>

\* connect and handlePick: the sheet is there while no wallet is bound.
Connect ==
    /\ Ready /\ signerZero = NoAccount /\ ~isWalletLoading /\ pairing = 0
    /\ pairing' = dapp.gen
    /\ UNCHANGED <<networkSelected, currentNetwork, dapp, signerZero, userAccountInfo,
                   isWalletLoading, mount, listening, lookups, switches, disconnecting,
                   selects, missed, kept>>

\* connectExtension, connectWalletConnect: paired, or given up.  The session
\* change is announced to the window; the signer comes from the connector that
\* is there by then.
PairingEnds(a) ==
    LET session == IF pairing = dapp.gen THEN a ELSE dapp.session
    IN  /\ pairing > 0 /\ pairing' = 0
        /\ IF a = NoAccount
           THEN UNCHANGED <<dapp, signerZero, userAccountInfo, lookups, missed>>
           ELSE /\ dapp' = [dapp EXCEPT !.session = session]
                /\ missed' = (missed \/ listening = 0 \/ disconnecting > 0)
                /\ IF listening # 0 THEN bindFromSession(session)
                   ELSE UNCHANGED <<signerZero, userAccountInfo, lookups>>
        /\ UNCHANGED <<networkSelected, currentNetwork, isWalletLoading, mount, listening,
                       switches, disconnecting, selects, kept>>

\* disconnect: the page first, the relay after it.
Disconnect ==
    /\ signerZero # NoAccount /\ disconnecting = 0
    /\ Unbind /\ isWalletLoading' = TRUE /\ disconnecting' = dapp.gen
    /\ UNCHANGED <<networkSelected, currentNetwork, dapp, mount, listening, lookups, switches,
                   pairing, selects, missed, kept>>

DisconnectEnds(ok) ==
    /\ disconnecting > 0 /\ disconnecting' = 0 /\ isWalletLoading' = FALSE
    /\ dapp' = IF ok /\ disconnecting = dapp.gen THEN [dapp EXCEPT !.session = NoAccount] ELSE dapp
    /\ kept' = (kept \/ ~ok)
    /\ UNCHANGED <<networkSelected, currentNetwork, signerZero, userAccountInfo, mount,
                   listening, lookups, switches, pairing, selects, missed>>

-----------------------------------------------------------------------------
\* NetworkSelector; the effect of Wallet.tsx calls handleNetworkChange.
SelectNetwork(net) ==
    /\ net # networkSelected /\ selects < MaxSelects
    /\ networkSelected' = net /\ selects' = selects + 1
    /\ switches' = switches \cup {[n |-> selects + 1, net |-> net, phase |-> "waiting",
                                   of |-> 0, left |-> NoAccount]}
    /\ UNCHANGED <<currentNetwork, dapp, signerZero, userAccountInfo, isWalletLoading, mount,
                   listening, lookups, pairing, disconnecting, missed, kept>>

\* Calls that wait for initDAppConnector go on in the order they were made.
FirstWaiting(s) ==
    s.phase = "waiting" /\ \A t \in switches : t.phase = "waiting" => s.n <= t.n

Advance(s, t) == switches' = (switches \ {s}) \cup {t}

\* setActiveNetwork returns at once when the connector has that network.
SameNetwork(s) ==
    /\ Ready /\ FirstWaiting(s) /\ currentNetwork = s.net
    /\ switches' = switches \ {s}
    /\ bindFromSession(dapp.session)
    /\ UNCHANGED <<networkSelected, currentNetwork, dapp, isWalletLoading, mount, listening,
                   pairing, disconnecting, selects, missed, kept>>

setActiveNetwork(s) ==
    /\ Ready /\ FirstWaiting(s) /\ currentNetwork # s.net
    /\ currentNetwork' = s.net
    /\ Advance(s, [s EXCEPT !.phase = "disconnecting", !.of = dapp.gen])
    /\ UNCHANGED <<networkSelected, dapp, signerZero, userAccountInfo, isWalletLoading, mount,
                   listening, lookups, pairing, disconnecting, selects, missed, kept>>

\* disconnectAll of the old connector, which may fail.
OldTornDown(s, ok) ==
    /\ s.phase = "disconnecting"
    /\ LET mine == s.of = dapp.gen
       IN  /\ dapp' = IF ok /\ mine THEN [dapp EXCEPT !.session = NoAccount] ELSE dapp
           /\ Advance(s, [s EXCEPT !.phase = "starting",
                                   !.left = IF ok \/ ~mine THEN NoAccount ELSE dapp.session])
    /\ kept' = (kept \/ ~ok)
    /\ UNCHANGED <<networkSelected, currentNetwork, signerZero, userAccountInfo,
                   isWalletLoading, mount, listening, lookups, pairing, disconnecting,
                   selects, missed>>

\* init of the new connector ends; its session is bound, or the user is told
\* to connect again.
NewStarted(s) ==
    /\ s.phase = "starting"
    /\ dapp' = [net |-> s.net, gen |-> s.n + 1, session |-> s.left]
    /\ switches' = switches \ {s}
    /\ bindFromSession(s.left)
    /\ UNCHANGED <<networkSelected, currentNetwork, isWalletLoading, mount, listening,
                   pairing, disconnecting, selects, missed, kept>>

SessionNext ==
    \/ initializeOnMount \/ SessionDelete \/ Connect \/ Disconnect
    \/ \E ok \in BOOLEAN : MountBound(ok) \/ DisconnectEnds(ok)
    \/ \E a \in Accounts, ok \in BOOLEAN : LookupReturns(a, ok)
    \/ \E a \in Accounts : SessionUpdate(a)
    \/ \E a \in Sessions : PairingEnds(a)
    \/ \E net \in Networks : SelectNetwork(net)
    \/ \E s \in switches : \/ SameNetwork(s) \/ setActiveNetwork(s) \/ NewStarted(s)
                           \/ \E ok \in BOOLEAN : OldTornDown(s, ok)

\* A teardown settles, one way or the other.
SessionFairness == WF_sessionVars(\E ok \in BOOLEAN : DisconnectEnds(ok))

SessionSpec == SessionInit /\ [][SessionNext]_sessionVars /\ SessionFairness
-----------------------------------------------------------------------------
\* No switch of the network and no start of the page is under way.
AtRest == mount = "done" /\ switches = {}

(* useWallet.ts: a bound signer is the account of the session the connector *)
(* has, through account changes, pairings that end after the connector was  *)
(* replaced and overlapping network switches; the only exceptions are       *)
(* events nobody listens to and those that cross a disconnect.              *)
SignerFollows ==
    AtRest /\ signerZero # NoAccount => signerZero = dapp.session \/ missed

(* initializeOnMount, handleNetworkChange: a session the connector has is   *)
(* bound, so that after a reload or a switch the wallet is usable; unless a *)
(* teardown failed and left the session behind.                             *)
SessionIsBound ==
    AtRest /\ ~isWalletLoading /\ dapp.session # NoAccount /\ signerZero = NoAccount =>
        kept \/ missed

SignerIsSession == SignerFollows /\ SessionIsBound

=============================================================================
