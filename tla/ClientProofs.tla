---------------------------- MODULE ClientProofs ----------------------------
(***************************************************************************)
(* What the web client keeps of an account: the wallet session, the timers *)
(* that end it, the allowance, the redemption of winnings, the shares that *)
(* are for sale, the order form, and its cancellations and claims, for any *)
(* numbers of accounts, networks, contracts, markets, requests and         *)
(* switches and any time limits.  In each of them the user, the wallet and *)
(* late answers interleave freely.                                         *)
(***************************************************************************)
EXTENDS WalletSession, IdleSession, Allowance, RedeemFlow, SellGuard, TradeForm,
        Requests, MatchingProofs

-----------------------------------------------------------------------------
(* The wallet session (useWallet.ts, appkit.ts). *)

Generations == 0 .. selects + 1

\* The connector is there when, and only when, the page has started.
StartInv ==
    /\ mount = "init" <=> dapp.gen = 0
    /\ mount = "init" => /\ signerZero = NoAccount /\ pairing = 0 /\ disconnecting = 0
                         /\ \A s \in switches : s.phase = "waiting"
    /\ isWalletLoading <=> disconnecting > 0

\* Every switch gets a generation of its own, which no connector has had, is
\* being torn down with, or is paired on.
GenerationInv ==
    /\ {dapp.gen, disconnecting} \subseteq Generations
    /\ \A s \in switches : /\ s.n <= selects
                           /\ s.n + 1 \notin {dapp.gen, disconnecting}
    /\ \A s, t \in switches : s.n = t.n => s = t

Waiting == {s \in switches : s.phase = "waiting"}

\* The switches that wait are the last ones made, each to another network than
\* the one before it: setActiveNetwork never finds the connector it wants.
WaitingInv ==
    /\ \A s \in Waiting : \A n \in s.n .. selects : \E t \in Waiting : t.n = n
    /\ \A s, t \in Waiting : t.n = s.n + 1 => t.net # s.net
    /\ \A s \in Waiting : s.n = selects => s.net = networkSelected
    /\ Waiting = {} => currentNetwork = networkSelected
    /\ \A s \in Waiting : FirstWaiting(s) => currentNetwork # s.net

\* While a disconnect tears its connector down the page has no signer.
TeardownInv ==
    disconnecting > 0 /\ disconnecting = dapp.gen => signerZero = NoAccount \/ missed

\* A signer without its session is about to be replaced by a starting connector.
SignerInv ==
    signerZero # NoAccount =>
        \/ signerZero = dapp.session \/ missed
        \/ \E s \in switches : s.phase = "starting"

\* A session without its signer is one the page has not started with, or one
\* that is being torn down.
SessionInv ==
    dapp.session # NoAccount /\ signerZero = NoAccount =>
        \/ mount = "init" \/ kept \/ missed
        \/ disconnecting > 0 /\ disconnecting = dapp.gen

SessionIInv == /\ SessionTypeOK /\ StartInv /\ GenerationInv /\ WaitingInv
               /\ TeardownInv /\ SignerInv /\ SessionInv

Switches == [n : 1 .. MaxSelects, net : Networks, phase : SwitchPhases,
             of : 0 .. MaxSelects + 1, left : Sessions]

LEMMA SessionStarts == SessionInit => SessionIInv
<1> SUFFICES ASSUME SessionInit
             PROVE  SessionIInv
  OBVIOUS
<1>1. PICK a \in Sessions : dapp = [net |-> networkSelected, gen |-> 0, session |-> a]
  BY DEF SessionInit
<1>2. 0 \in 0 .. MaxSelects + 1 /\ 0 \in 0 .. MaxLookups /\ selects = 0
  BY SessionAssumption DEF SessionInit
<1>3. SessionTypeOK
  <2>1. dapp \in [net : Networks, gen : 0 .. MaxSelects + 1, session : Sessions]
    BY <1>1, <1>2 DEF SessionInit
  <2>2. lookups \in [Accounts -> 0 .. MaxLookups]
    BY <1>2 DEF SessionInit
  <2>3. switches = {} /\ {pairing, disconnecting, selects} \subseteq 0 .. MaxSelects + 1
    BY <1>2 DEF SessionInit
  <2> QED  BY <2>1, <2>2, <2>3 DEF SessionInit, SessionTypeOK, Sessions
<1>4. StartInv /\ GenerationInv
  BY <1>1, <1>2 DEF SessionInit, StartInv, GenerationInv, Generations
<1>5. WaitingInv /\ TeardownInv /\ SignerInv /\ SessionInv
  BY <1>1 DEF SessionInit, WaitingInv, Waiting, TeardownInv, SignerInv, SessionInv
<1> QED  BY <1>3, <1>4, <1>5 DEF SessionIInv

LEMMA SwitchTypes ==
    ASSUME SessionTypeOK
    PROVE  /\ switches \subseteq Switches
           /\ \A s \in switches : s.n \in Nat /\ s.n >= 1 /\ s.n <= MaxSelects
           /\ selects \in Nat /\ disconnecting \in Nat /\ pairing \in Nat /\ dapp.gen \in Nat
           /\ MaxSelects \in Nat /\ MaxLookups \in Nat
BY SessionAssumption DEF SessionTypeOK, Switches

\* The signer of a session and the lookup of its account.
LEMMA Binding ==
    ASSUME SessionTypeOK, NEW account \in Sessions, bindFromSession(account)
    PROVE  /\ signerZero' = account /\ userAccountInfo' \in Sessions
           /\ lookups' \in [Accounts -> 0 .. MaxLookups]
<1>1. CASE account = NoAccount
  BY <1>1 DEF bindFromSession, SessionTypeOK, Sessions
<1>2. CASE account # NoAccount
  <2>1. account \in Accounts /\ lookups[account] < MaxLookups /\ MaxLookups \in Nat
    BY <1>2, SwitchTypes DEF bindFromSession, Sessions
  <2> QED  BY <1>2, <2>1 DEF bindFromSession, SessionTypeOK
<1> QED  BY <1>1, <1>2

\* What does not touch the switches leaves their order alone.
LEMMA SwitchesStand ==
    ASSUME SessionIInv, UNCHANGED <<switches, selects, networkSelected, currentNetwork>>
    PROVE  /\ WaitingInv'
           /\ dapp'.gen \in {0, 1, dapp.gen} /\ disconnecting' \in {0, disconnecting, dapp.gen} =>
                  GenerationInv'
<1>1. WaitingInv'
  BY DEF SessionIInv, WaitingInv, Waiting, FirstWaiting
<1>2. ASSUME dapp'.gen \in {0, 1, dapp.gen}, disconnecting' \in {0, disconnecting, dapp.gen}
      PROVE  GenerationInv'
  <2>1. \A s \in switches : s.n \in Nat /\ s.n >= 1
    BY SwitchTypes DEF SessionIInv
  <2>2. selects \in Nat
    BY SwitchTypes DEF SessionIInv
  <2> QED  BY <1>2, <2>1, <2>2 DEF SessionIInv, GenerationInv, Generations
<1> QED  BY <1>1, <1>2

\* No switch finds the connector it wants: each one replaces the connector.
LEMMA AlwaysReplaced ==
    ASSUME SessionIInv, NEW s \in switches
    PROVE  ~SameNetwork(s)
BY DEF SessionIInv, WaitingInv, Waiting, SameNetwork, FirstWaiting

LEMMA SessionKeeps ==
    ASSUME SessionIInv, [SessionNext]_sessionVars
    PROVE  SessionIInv'
<1>1. /\ SessionTypeOK /\ StartInv /\ GenerationInv /\ WaitingInv
      /\ TeardownInv /\ SignerInv /\ SessionInv
      /\ missed \in BOOLEAN /\ kept \in BOOLEAN /\ isWalletLoading \in BOOLEAN
      /\ selects \in Nat /\ disconnecting \in Nat /\ dapp.gen \in Nat
      /\ dapp.session \in Sessions /\ dapp.gen \in 0 .. MaxSelects + 1
      /\ NoAccount \in Sessions /\ 0 \in 0 .. MaxSelects + 1 /\ 1 \in 0 .. MaxSelects + 1
  BY SwitchTypes DEF SessionIInv, SessionTypeOK, Sessions
<1>2. CASE UNCHANGED sessionVars
  BY <1>1, <1>2, SwitchesStand
     DEF sessionVars, SessionIInv, SessionTypeOK, StartInv, GenerationInv, Generations,
         TeardownInv, SignerInv, SessionInv
<1>3. CASE initializeOnMount
  <2> DEFINE began == [dapp EXCEPT !.gen = 1]
  <2>1. /\ mount = "init" /\ dapp' = began /\ signerZero' = dapp.session
        /\ mount' \in {"done", dapp.session} /\ (mount' = "done" \/ dapp.session # NoAccount)
        /\ listening' \in {1, listening}
        /\ UNCHANGED <<networkSelected, currentNetwork, userAccountInfo, isWalletLoading, lookups,
                       switches, pairing, disconnecting, selects, missed, kept>>
    BY <1>3 DEF initializeOnMount
  <2>2. /\ began \in [net : Networks, gen : 0 .. MaxSelects + 1, session : Sessions]
        /\ began.gen = 1 /\ began.session = dapp.session
    BY <1>1 DEF SessionTypeOK
  <2> HIDE DEF began
  <2>3. mount' \in {"done"} \cup Accounts /\ mount' # "init"
    BY <1>1, <2>1, SessionAssumption DEF Sessions
  <2>4. SessionTypeOK'
    BY <1>1, <2>1, <2>2, <2>3 DEF SessionTypeOK
  <2>5. StartInv' /\ TeardownInv' /\ SignerInv' /\ SessionInv'
    BY <1>1, <2>1, <2>2, <2>3 DEF StartInv, TeardownInv, SignerInv, SessionInv
  <2>6. WaitingInv' /\ GenerationInv'
    BY <1>1, <2>1, <2>2, SwitchesStand
  <2> QED  BY <2>4, <2>5, <2>6 DEF SessionIInv
\* Without a step of the connector, the session, the signer or a teardown.
<1>4. ASSUME UNCHANGED <<networkSelected, currentNetwork, dapp, signerZero, isWalletLoading, switches,
                         disconnecting, selects, missed, kept>>,
             userAccountInfo' \in Sessions, listening' \in {0, 1},
             lookups' \in [Accounts -> 0 .. MaxLookups],
             mount' = mount \/ (mount # "init" /\ mount' = "done"),
             pairing' = pairing \/ (dapp.gen > 0 /\ pairing' \in {0, dapp.gen})
      PROVE  SessionIInv'
  <2>1. SessionTypeOK'
    BY <1>1, <1>4 DEF SessionTypeOK
  <2>2. StartInv' /\ TeardownInv' /\ SignerInv' /\ SessionInv'
    BY <1>1, <1>4 DEF StartInv, TeardownInv, SignerInv, SessionInv
  <2>3. WaitingInv' /\ GenerationInv'
    BY <1>1, <1>4, SwitchesStand
  <2> QED  BY <2>1, <2>2, <2>3 DEF SessionIInv
<1>5. CASE Connect
  <2>1. /\ UNCHANGED <<networkSelected, currentNetwork, dapp, signerZero, isWalletLoading, switches,
                       disconnecting, selects, missed, kept, userAccountInfo, listening, lookups, mount>>
        /\ dapp.gen > 0 /\ pairing' = dapp.gen
    BY <1>5 DEF Connect, Ready
  <2> QED  BY <1>1, <1>4, <2>1 DEF SessionTypeOK
<1>6. ASSUME NEW ok \in BOOLEAN, MountBound(ok)
      PROVE  SessionIInv'
  <2>1. mount \in Accounts /\ mount # "init"
    BY <1>6, SessionAssumption DEF MountBound
  <2>2. userAccountInfo' \in {mount, userAccountInfo} /\ mount' = "done" /\ listening' = 1
    BY <1>6 DEF MountBound
  <2>3. UNCHANGED <<networkSelected, currentNetwork, dapp, signerZero, isWalletLoading, lookups,
                    switches, pairing, disconnecting, selects, missed, kept>>
    BY <1>6 DEF MountBound
  <2> QED  BY <1>1, <1>4, <2>1, <2>2, <2>3 DEF SessionTypeOK, Sessions
<1>7. ASSUME NEW a \in Accounts, NEW ok \in BOOLEAN, LookupReturns(a, ok)
      PROVE  SessionIInv'
  <2>1. /\ userAccountInfo' \in {a, userAccountInfo} /\ lookups' = [lookups EXCEPT ![a] = @ - 1]
        /\ lookups[a] > 0
    BY <1>7 DEF LookupReturns
  <2>2. UNCHANGED <<networkSelected, currentNetwork, dapp, signerZero, isWalletLoading, mount,
                    listening, switches, pairing, disconnecting, selects, missed, kept>>
    BY <1>7 DEF LookupReturns
  <2>3. lookups' \in [Accounts -> 0 .. MaxLookups]
    BY <1>1, <2>1, SwitchTypes DEF SessionTypeOK
  <2> QED  BY <1>1, <1>4, <2>1, <2>2, <2>3 DEF SessionTypeOK, Sessions
\* The wallet or a pairing changes the session, and the page hears of it or not.
<1>8. ASSUME NEW account \in Sessions, dapp' = [dapp EXCEPT !.session = account],
             missed' \in BOOLEAN, missed => missed', disconnecting > 0 => missed',
             \/ missed' /\ signerZero' = signerZero
             \/ signerZero' = account,
             userAccountInfo' \in Sessions, lookups' \in [Accounts -> 0 .. MaxLookups],
             dapp.gen > 0, pairing' \in {0, pairing},
             UNCHANGED <<networkSelected, currentNetwork, isWalletLoading, mount, listening, switches,
                         disconnecting, selects, kept>>
      PROVE  SessionIInv'
  <2> DEFINE paired == [dapp EXCEPT !.session = account]
  <2>1. /\ paired \in [net : Networks, gen : 0 .. MaxSelects + 1, session : Sessions]
        /\ paired.gen = dapp.gen /\ paired.session = account
    BY <1>1 DEF SessionTypeOK
  <2>2. dapp' = paired
    BY <1>8
  <2> HIDE DEF paired
  <2>3. SessionTypeOK'
    BY <1>1, <1>8, <2>1, <2>2 DEF SessionTypeOK
  <2>4. StartInv' /\ TeardownInv' /\ SignerInv' /\ SessionInv'
    BY <1>1, <1>8, <2>1, <2>2 DEF StartInv, TeardownInv, SignerInv, SessionInv
  <2>5. WaitingInv' /\ GenerationInv'
    BY <1>1, <1>8, <2>1, <2>2, SwitchesStand
  <2> QED  BY <2>3, <2>4, <2>5 DEF SessionIInv
<1>9. ASSUME NEW a \in Accounts, SessionUpdate(a)
      PROVE  SessionIInv'
  <2>1. /\ dapp.gen > 0 /\ dapp' = [dapp EXCEPT !.session = a]
        /\ missed' = (missed \/ ~Listens \/ disconnecting > 0)
        /\ UNCHANGED <<networkSelected, currentNetwork, isWalletLoading, mount, listening,
                       switches, pairing, disconnecting, selects, kept>>
        /\ \/ Listens /\ bindFromSession(a)
           \/ ~Listens /\ UNCHANGED <<signerZero, lookups, userAccountInfo>>
    BY <1>9 DEF SessionUpdate, Ready
  <2>2. a \in Sessions
    BY DEF Sessions
  <2>3. /\ userAccountInfo' \in Sessions /\ lookups' \in [Accounts -> 0 .. MaxLookups]
        /\ Listens => signerZero' = a
    BY <1>1, <2>1, <2>2, Binding DEF SessionTypeOK
  <2> QED  BY <1>1, <1>8, <2>1, <2>2, <2>3
<1>10. CASE SessionDelete
  <2>1. /\ dapp.gen > 0 /\ dapp' = [dapp EXCEPT !.session = NoAccount]
        /\ missed' = (missed \/ ~Listens \/ disconnecting > 0)
        /\ UNCHANGED <<networkSelected, currentNetwork, isWalletLoading, mount, listening,
                       switches, pairing, disconnecting, selects, kept, lookups>>
        /\ \/ Listens /\ signerZero' = NoAccount /\ userAccountInfo' = NoAccount
           \/ ~Listens /\ UNCHANGED <<signerZero, userAccountInfo>>
    BY <1>10 DEF SessionDelete, Ready, Unbind
  <2>2. userAccountInfo' \in Sessions /\ lookups' \in [Accounts -> 0 .. MaxLookups]
    BY <1>1, <2>1 DEF SessionTypeOK
  <2> QED  BY <1>1, <1>8, <2>1, <2>2
<1>11. ASSUME NEW a \in Sessions, PairingEnds(a)
       PROVE  SessionIInv'
  <2>1. /\ pairing > 0 /\ pairing' = 0
        /\ UNCHANGED <<networkSelected, currentNetwork, isWalletLoading, mount, listening,
                       switches, disconnecting, selects, kept>>
    BY <1>11 DEF PairingEnds
  <2>2. dapp.gen > 0
    BY <1>1, <2>1 DEF StartInv
  <2>3. CASE a = NoAccount
    <3>1. UNCHANGED <<dapp, signerZero, userAccountInfo, lookups, missed>>
      BY <1>11, <2>3 DEF PairingEnds
    <3> QED  BY <1>1, <1>4, <2>1, <2>2, <3>1 DEF SessionTypeOK
  <2>4. CASE a # NoAccount
    <3> DEFINE account == IF pairing = dapp.gen THEN a ELSE dapp.session
    <3>1. account \in Sessions
      BY <1>1
    <3>2. /\ dapp' = [dapp EXCEPT !.session = account]
          /\ missed' = (missed \/ listening = 0 \/ disconnecting > 0)
          /\ \/ listening # 0 /\ bindFromSession(account)
             \/ listening = 0 /\ UNCHANGED <<signerZero, userAccountInfo, lookups>>
      BY <1>11, <2>4 DEF PairingEnds
    <3> HIDE DEF account
    <3>3. /\ userAccountInfo' \in Sessions /\ lookups' \in [Accounts -> 0 .. MaxLookups]
          /\ listening # 0 => signerZero' = account
      BY <1>1, <3>1, <3>2, Binding DEF SessionTypeOK
    <3> QED  BY <1>1, <1>8, <2>1, <2>2, <3>1, <3>2, <3>3
  <2> QED  BY <2>3, <2>4
<1>12. CASE Disconnect
  <2>1. /\ signerZero # NoAccount /\ disconnecting = 0 /\ signerZero' = NoAccount
        /\ userAccountInfo' = NoAccount /\ isWalletLoading' = TRUE /\ disconnecting' = dapp.gen
        /\ UNCHANGED <<networkSelected, currentNetwork, dapp, mount, listening, lookups, switches,
                       pairing, selects, missed, kept>>
    BY <1>12 DEF Disconnect, Unbind
  <2>2. mount # "init" /\ dapp.gen > 0
    BY <1>1, <2>1 DEF StartInv
  <2>3. SessionTypeOK'
    BY <1>1, <2>1 DEF SessionTypeOK
  <2>4. StartInv' /\ TeardownInv' /\ SignerInv' /\ SessionInv'
    BY <1>1, <2>1, <2>2 DEF StartInv, TeardownInv, SignerInv, SessionInv
  <2>5. WaitingInv' /\ GenerationInv'
    BY <1>1, <2>1, SwitchesStand
  <2> QED  BY <2>3, <2>4, <2>5 DEF SessionIInv
<1>13. ASSUME NEW ok \in BOOLEAN, DisconnectEnds(ok)
       PROVE  SessionIInv'
  <2> DEFINE cleared == [dapp EXCEPT !.session = NoAccount]
  <2>1. /\ disconnecting > 0 /\ disconnecting' = 0 /\ isWalletLoading' = FALSE
        /\ kept' = (kept \/ ~ok)
        /\ dapp' = IF ok /\ disconnecting = dapp.gen THEN cleared ELSE dapp
        /\ UNCHANGED <<networkSelected, currentNetwork, signerZero, userAccountInfo, mount,
                       listening, lookups, switches, pairing, selects, missed>>
    BY <1>13 DEF DisconnectEnds
  <2>2. /\ cleared \in [net : Networks, gen : 0 .. MaxSelects + 1, session : Sessions]
        /\ cleared.gen = dapp.gen /\ cleared.session = NoAccount
    BY <1>1 DEF SessionTypeOK
  <2> HIDE DEF cleared
  <2>3. SessionTypeOK'
    BY <1>1, <2>1, <2>2 DEF SessionTypeOK
  <2>4. StartInv'
    BY <1>1, <2>1, <2>2 DEF StartInv
  <2>5. TeardownInv'
    BY <1>1, <2>1 DEF TeardownInv
  <2>6. SignerInv' /\ SessionInv'
    <3>1. CASE ok /\ disconnecting = dapp.gen
      <4>1. dapp'.session = NoAccount /\ (signerZero = NoAccount \/ missed)
        BY <1>1, <2>1, <2>2, <3>1 DEF TeardownInv
      <4> QED  BY <2>1, <4>1 DEF SignerInv, SessionInv
    <3>2. CASE ~(ok /\ disconnecting = dapp.gen)
      <4>1. dapp' = dapp /\ (kept' \/ disconnecting # dapp.gen)
        BY <1>1, <2>1, <3>2
      <4> QED  BY <1>1, <2>1, <4>1 DEF SignerInv, SessionInv
    <3> QED  BY <3>1, <3>2
  <2>7. WaitingInv' /\ GenerationInv'
    BY <1>1, <2>1, <2>2, SwitchesStand
  <2> QED  BY <2>3, <2>4, <2>5, <2>6, <2>7 DEF SessionIInv
<1>14. ASSUME NEW net \in Networks, SelectNetwork(net)
       PROVE  SessionIInv'
  <2> DEFINE added == [n |-> selects + 1, net |-> net, phase |-> "waiting", of |-> 0,
                       left |-> NoAccount]
  <2>1. /\ net # networkSelected /\ selects < MaxSelects /\ networkSelected' = net
        /\ selects' = selects + 1 /\ switches' = switches \cup {added}
        /\ UNCHANGED <<currentNetwork, dapp, signerZero, userAccountInfo, isWalletLoading, mount,
                       listening, lookups, pairing, disconnecting, missed, kept>>
    BY <1>14 DEF SelectNetwork
  <2>2. /\ added.n = selects + 1 /\ added.net = net /\ added.phase = "waiting"
        /\ added \in Switches
    BY <1>1, <2>1, SwitchTypes DEF Switches, SwitchPhases
  <2> HIDE DEF added
  <2>3. \A s \in switches : s.n \in Nat /\ s.n >= 1 /\ s.n <= selects
    BY <1>1, SwitchTypes DEF GenerationInv
  <2>4. SessionTypeOK'
    <3>1. selects + 1 \in 0 .. MaxSelects + 1
      BY <1>1, <2>1, SwitchTypes
    <3> QED  BY <1>1, <2>1, <2>2, <3>1 DEF SessionTypeOK, Switches
  <2>5. StartInv'
    BY <1>1, <2>1, <2>2 DEF StartInv
  <2>6. GenerationInv'
    <3>1. {dapp.gen, disconnecting} \subseteq 0 .. selects + 1
      BY <1>1 DEF GenerationInv, Generations
    <3>2. ASSUME NEW s \in switches'
          PROVE  s.n <= selects' /\ s.n + 1 \notin {dapp.gen, disconnecting}
      <4>1. CASE s = added
        BY <1>1, <2>1, <2>2, <3>1, <4>1
      <4>2. CASE s \in switches
        BY <1>1, <2>1, <2>3, <4>2 DEF GenerationInv
      <4> QED  BY <2>1, <4>1, <4>2
    <3>3. ASSUME NEW s \in switches', NEW t \in switches', s.n = t.n
          PROVE  s = t
      BY <1>1, <2>1, <2>2, <2>3, <3>3 DEF GenerationInv
    <3> QED  BY <1>1, <2>1, <3>1, <3>2, <3>3 DEF GenerationInv, Generations
  <2>7. WaitingInv'
    <3>1. Waiting' = Waiting \cup {added}
      BY <2>1, <2>2 DEF Waiting
    <3>2. \A s \in Waiting : s \in switches /\ s.phase = "waiting"
      BY DEF Waiting
    <3>3. ASSUME NEW s \in Waiting', NEW n \in s.n .. selects'
          PROVE  \E t \in Waiting' : t.n = n
      <4>1. CASE n = selects + 1
        BY <2>2, <3>1, <4>1
      <4>2. CASE n # selects + 1
        <5>1. s \in Waiting /\ n \in s.n .. selects
          BY <1>1, <2>1, <2>2, <2>3, <3>1, <3>2, <4>2
        <5> QED  BY <1>1, <3>1, <5>1 DEF WaitingInv
      <4> QED  BY <4>1, <4>2
    <3>4. ASSUME NEW s \in Waiting', NEW t \in Waiting', t.n = s.n + 1
          PROVE  t.net # s.net
      <4>1. CASE t = added
        <5>1. s \in Waiting /\ s.n = selects
          BY <1>1, <2>2, <2>3, <3>1, <3>2, <3>4, <4>1
        <5> QED  BY <1>1, <2>1, <2>2, <4>1, <5>1 DEF WaitingInv
      <4>2. CASE t # added
        <5>1. t \in Waiting /\ s \in Waiting
          BY <1>1, <2>2, <2>3, <3>1, <3>2, <3>4, <4>2
        <5> QED  BY <1>1, <3>4, <5>1 DEF WaitingInv
      <4> QED  BY <4>1, <4>2
    <3>5. ASSUME NEW s \in Waiting', s.n = selects'
          PROVE  s.net = networkSelected'
      BY <1>1, <2>1, <2>2, <2>3, <3>1, <3>2, <3>5
    <3>6. ASSUME NEW s \in Waiting', FirstWaiting(s)'
          PROVE  currentNetwork' # s.net
      <4>1. CASE Waiting = {}
        BY <1>1, <2>1, <2>2, <3>1, <4>1 DEF WaitingInv
      <4>2. CASE Waiting # {}
        <5>1. s \in Waiting
          <6>1. PICK t \in Waiting : TRUE
            BY <4>2
          <6>2. s.n <= t.n
            BY <2>1, <3>2, <3>6, <6>1 DEF FirstWaiting
          <6> QED  BY <1>1, <2>2, <2>3, <3>1, <3>2, <6>1, <6>2
        <5>2. FirstWaiting(s)
          BY <2>1, <3>6 DEF FirstWaiting
        <5> QED  BY <1>1, <2>1, <5>1, <5>2 DEF WaitingInv
      <4> QED  BY <4>1, <4>2
    <3>7. Waiting' # {}
      BY <3>1
    <3> QED  BY <3>3, <3>4, <3>5, <3>6, <3>7 DEF WaitingInv
  <2>8. TeardownInv' /\ SignerInv' /\ SessionInv'
    BY <1>1, <2>1 DEF TeardownInv, SignerInv, SessionInv
  <2> QED  BY <2>4, <2>5, <2>6, <2>7, <2>8 DEF SessionIInv
<1>15. ASSUME NEW s \in switches, setActiveNetwork(s)
       PROVE  SessionIInv'
  <2> DEFINE begun == [s EXCEPT !.phase = "disconnecting", !.of = dapp.gen]
  <2>1. /\ dapp.gen > 0 /\ FirstWaiting(s) /\ currentNetwork # s.net /\ currentNetwork' = s.net
        /\ switches' = (switches \ {s}) \cup {begun}
        /\ UNCHANGED <<networkSelected, dapp, signerZero, userAccountInfo, isWalletLoading, mount,
                       listening, lookups, pairing, disconnecting, selects, missed, kept>>
    BY <1>15 DEF setActiveNetwork, Advance, Ready
  <2>2. /\ begun \in Switches /\ begun.n = s.n /\ begun.phase = "disconnecting" /\ s \in Switches
    <3>1. s \in Switches
      BY <1>1, SwitchTypes
    <3> QED  BY <1>1, <3>1 DEF Switches, SwitchPhases
  <2> HIDE DEF begun
  <2>3. \A t \in switches : t.n \in Nat /\ t.n >= 1 /\ t.n <= selects
    BY <1>1, SwitchTypes DEF GenerationInv
  <2>4. SessionTypeOK'
    BY <1>1, <2>1, <2>2 DEF SessionTypeOK, Switches
  <2>5. StartInv'
    BY <1>1, <2>1 DEF StartInv
  <2>6. GenerationInv'
    BY <1>1, <2>1, <2>2 DEF GenerationInv, Generations
  <2>7. WaitingInv'
    <3>1. s \in Waiting /\ Waiting' = Waiting \ {s}
      BY <2>1, <2>2 DEF Waiting, FirstWaiting
    <3>2. \A t \in Waiting : t \in switches /\ t.phase = "waiting"
      BY DEF Waiting
    <3>3. \A t \in Waiting' : s.n < t.n
      BY <1>1, <2>1, <2>3, <3>1, <3>2 DEF FirstWaiting, GenerationInv
    <3>4. ASSUME NEW u \in Waiting', NEW n \in u.n .. selects'
          PROVE  \E t \in Waiting' : t.n = n
      <4>1. u \in Waiting /\ n \in u.n .. selects
        BY <2>1, <3>1
      <4>2. PICK t \in Waiting : t.n = n
        BY <1>1, <4>1 DEF WaitingInv
      <4>3. t # s
        BY <2>3, <3>1, <3>2, <3>3, <4>1, <4>2
      <4> QED  BY <3>1, <4>2, <4>3
    <3>5. ASSUME Waiting' = {}
          PROVE  currentNetwork' = networkSelected'
      <4>1. selects \in s.n .. selects
        BY <1>1, <2>3
      <4>2. PICK t \in Waiting : t.n = selects
        BY <1>1, <3>1, <4>1 DEF WaitingInv
      <4>3. t = s
        BY <3>1, <3>5
      <4> QED  BY <1>1, <2>1, <3>1, <4>2, <4>3 DEF WaitingInv
    <3>6. ASSUME NEW u \in Waiting', FirstWaiting(u)'
          PROVE  currentNetwork' # u.net
      <4>1. s.n < u.n /\ u \in Waiting /\ u.n \in Nat /\ s.n \in Nat /\ u.n <= selects
        BY <2>3, <3>1, <3>2, <3>3
      <4>2. PICK t \in Waiting : t.n = s.n + 1
        <5>1. s.n + 1 \in s.n .. selects
          BY <1>1, <4>1
        <5> QED  BY <1>1, <3>1, <5>1 DEF WaitingInv
      <4>3. t \in Waiting'
        BY <3>1, <4>1, <4>2
      <4>4. u.n <= t.n
        <5>1. t \in switches' /\ t.phase = "waiting"
          BY <4>3 DEF Waiting
        <5> QED  BY <3>6, <5>1 DEF FirstWaiting
      <4>5. u.n = s.n + 1
        BY <4>1, <4>2, <4>4
      <4> QED  BY <1>1, <2>1, <3>1, <4>1, <4>5 DEF WaitingInv
    <3> QED  BY <1>1, <2>1, <3>1, <3>4, <3>5, <3>6 DEF WaitingInv
  <2>8. SignerInv'
    BY <1>1, <2>1 DEF SignerInv, FirstWaiting
  <2>9. TeardownInv' /\ SessionInv'
    BY <1>1, <2>1 DEF TeardownInv, SessionInv
  <2> QED  BY <2>4, <2>5, <2>6, <2>7, <2>8, <2>9 DEF SessionIInv
<1>16. ASSUME NEW s \in switches, NEW ok \in BOOLEAN, OldTornDown(s, ok)
       PROVE  SessionIInv'
  <2> DEFINE cleared == [dapp EXCEPT !.session = NoAccount]
             rest == IF ok \/ s.of # dapp.gen THEN NoAccount ELSE dapp.session
             ready == [s EXCEPT !.phase = "starting", !.left = rest]
  <2>1. /\ s.phase = "disconnecting" /\ kept' = (kept \/ ~ok)
        /\ dapp' \in {dapp, cleared} /\ switches' = (switches \ {s}) \cup {ready}
        /\ UNCHANGED <<networkSelected, currentNetwork, signerZero, userAccountInfo,
                       isWalletLoading, mount, listening, lookups, pairing, disconnecting,
                       selects, missed>>
    BY <1>16 DEF OldTornDown, Advance
  <2>2. /\ ready \in Switches /\ ready.n = s.n /\ ready.phase = "starting" /\ s \in Switches
    <3>1. s \in Switches /\ rest \in Sessions
      BY <1>1, SwitchTypes
    <3> HIDE DEF rest
    <3> QED  BY <3>1 DEF Switches, SwitchPhases
  <2>3. /\ cleared \in [net : Networks, gen : 0 .. MaxSelects + 1, session : Sessions]
        /\ cleared.gen = dapp.gen /\ cleared.session = NoAccount
    BY <1>1 DEF SessionTypeOK
  <2> HIDE DEF ready, cleared
  <2>4. SessionTypeOK'
    BY <1>1, <2>1, <2>2, <2>3 DEF SessionTypeOK, Switches
  <2>5. StartInv'
    BY <1>1, <2>1, <2>3 DEF StartInv
  <2>6. GenerationInv'
    BY <1>1, <2>1, <2>2, <2>3 DEF GenerationInv, Generations
  <2>7. WaitingInv'
    <3>1. Waiting' = Waiting
      BY <2>1, <2>2 DEF Waiting
    <3>2. \A t \in Waiting : FirstWaiting(t)' <=> FirstWaiting(t)
      BY <2>1, <2>2 DEF FirstWaiting, Waiting
    <3> QED  BY <1>1, <2>1, <3>1, <3>2 DEF WaitingInv
  <2>8. SignerInv'
    BY <2>1, <2>2 DEF SignerInv
  <2>9. TeardownInv' /\ SessionInv'
    BY <1>1, <2>1, <2>3 DEF TeardownInv, SessionInv
  <2> QED  BY <2>4, <2>5, <2>6, <2>7, <2>8, <2>9 DEF SessionIInv
<1>17. ASSUME NEW s \in switches, NewStarted(s)
       PROVE  SessionIInv'
  <2> DEFINE fresh == [net |-> s.net, gen |-> s.n + 1, session |-> s.left]
  <2>1. /\ s.phase = "starting" /\ dapp' = fresh /\ switches' = switches \ {s}
        /\ bindFromSession(s.left)
        /\ UNCHANGED <<networkSelected, currentNetwork, isWalletLoading, mount, listening,
                       pairing, disconnecting, selects, missed, kept>>
    BY <1>17 DEF NewStarted
  <2>2. s \in Switches /\ s.n \in Nat /\ s.n >= 1 /\ s.n <= MaxSelects /\ s.n <= selects
    BY <1>1, SwitchTypes DEF GenerationInv
  <2>3. /\ fresh \in [net : Networks, gen : 0 .. MaxSelects + 1, session : Sessions]
        /\ fresh.gen = s.n + 1 /\ fresh.session = s.left
    BY <2>2, SwitchTypes, <1>1 DEF Switches
  <2>4. /\ signerZero' = s.left /\ userAccountInfo' \in Sessions
        /\ lookups' \in [Accounts -> 0 .. MaxLookups]
    BY <1>1, <2>1, <2>2, Binding DEF Switches
  <2> HIDE DEF fresh
  <2>5. mount # "init"
    BY <1>1, <2>1 DEF StartInv
  <2>6. SessionTypeOK'
    BY <1>1, <2>1, <2>2, <2>3, <2>4 DEF SessionTypeOK, Switches
  <2>7. StartInv'
    BY <1>1, <2>1, <2>2, <2>3, <2>5 DEF StartInv
  <2>8. GenerationInv'
    <3>1. \A t \in switches' : t \in switches /\ t.n \in Nat /\ t.n # s.n
      BY <1>1, <2>1, SwitchTypes DEF GenerationInv
    <3> QED  BY <1>1, <2>1, <2>2, <2>3, <3>1 DEF GenerationInv, Generations
  <2>9. WaitingInv'
    <3>1. Waiting' = Waiting
      BY <2>1 DEF Waiting
    <3>2. \A t \in Waiting : FirstWaiting(t)' <=> FirstWaiting(t)
      BY <2>1 DEF FirstWaiting, Waiting
    <3> QED  BY <1>1, <2>1, <3>1, <3>2 DEF WaitingInv
  <2>10. TeardownInv'
    BY <1>1, <2>1, <2>3 DEF TeardownInv, GenerationInv
  <2>11. SignerInv' /\ SessionInv'
    BY <2>1, <2>3, <2>4 DEF SignerInv, SessionInv
  <2> QED  BY <2>6, <2>7, <2>8, <2>9, <2>10, <2>11 DEF SessionIInv
<1> QED
  BY <1>2, <1>3, <1>5, <1>6, <1>7, <1>9, <1>10, <1>11, <1>12, <1>13, <1>14, <1>15, <1>16, <1>17,
     AlwaysReplaced DEF SessionNext

LEMMA SessionInvariant == SessionSpec => []SessionIInv
<1>1. SessionIInv /\ [SessionNext]_sessionVars => SessionIInv'
  BY SessionKeeps
<1> QED  BY SessionStarts, <1>1, PTL DEF SessionSpec

(* useWallet.ts, appkit.ts: for any accounts and ledgers and however often  *)
(* the network is switched, when no switch and no start of the page is under *)
(* way the signer the page has is that of the session the connector has, and *)
(* a session the connector has is bound; the exceptions are session events   *)
(* nobody listens to, those that cross a disconnect, and failed teardowns.   *)
THEOREM SignerBound == SessionSpec => []SignerIsSession
<1>1. SessionIInv => SignerIsSession
  <2> SUFFICES ASSUME SessionIInv
               PROVE  SignerIsSession
    OBVIOUS
  <2>1. SignerFollows
    BY DEF SessionIInv, SignerInv, SignerFollows, AtRest
  <2>2. SessionIsBound
    BY DEF SessionIInv, SessionInv, StartInv, SessionIsBound, AtRest
  <2> QED  BY <2>1, <2>2 DEF SignerIsSession
<1> QED  BY SessionInvariant, <1>1, PTL

-----------------------------------------------------------------------------
(* Redeeming winnings (useRedeem.ts, hedera.ts, redeemSuppression.ts).      *)

\* What confirmTx may come to for each fate.
LEMMA Confirmed ==
    ASSUME NEW fate \in Fates, NEW verdict \in confirmTx(fate)
    PROVE  /\ verdict \in {"success", "failed", "pending"}
           /\ verdict = "success" => fate = "done"
           /\ verdict = "failed" => fate = "reverted"
<1>1. PICK receipt \in Receipt(fate), mirrored \in waitForMirrorTxResult(fate) :
          verdict = Settle(receipt, mirrored)
  BY DEF confirmTx
<1>2. PICK found \in MirrorRows(fate) : mirrored = Verdict(found)
  BY <1>1 DEF waitForMirrorTxResult
<1>3. CASE fate = "none"
  <2>1. found = {} /\ receipt = "error"
    BY <1>1, <1>2, <1>3 DEF MirrorRows, Receipt
  <2> QED  BY <1>1, <1>2, <1>3, <2>1 DEF Verdict, Settle
<1>4. CASE fate = "done"
  <2>1. found \in {{}, {"SUCCESS"}} /\ receipt \in {"error", "success"}
    BY <1>1, <1>2, <1>4 DEF MirrorRows, Receipt
  <2>2. mirrored \in {"pending", "success"}
    BY <1>2, <2>1 DEF Verdict
  <2> QED  BY <1>1, <1>4, <2>1, <2>2 DEF Settle
<1>5. CASE fate = "reverted"
  <2>1. receipt \in {"error", "failed"}
    BY <1>1, <1>5 DEF Receipt
  <2>2. mirrored \in {"pending", "failed"}
    <3>1. found = {} \/ "CONTRACT_REVERT_EXECUTED" \in found
      BY <1>2, <1>5 DEF MirrorRows
    <3> QED  BY <1>2, <3>1 DEF Verdict
  <2> QED  BY <1>1, <1>5, <2>1, <2>2 DEF Settle
<1> QED  BY <1>3, <1>4, <1>5 DEF Fates

RedeemFields == {"phase", "acct", "market", "view", "prompt", "submitted", "expired", "fate"}

\* A call the wallet shows has not been submitted, and one that has not been
\* submitted has no fate.
HonestCall(r) ==
    /\ DOMAIN r = RedeemFields /\ r.fate \in Fates
    /\ r.prompt => ~r.submitted
    /\ ~r.submitted => r.fate = "none"
    /\ r.phase \in {"none", "queued"} => ~r.prompt /\ ~r.submitted
    /\ r.phase = "sent" => r.submitted

\* A call that is over and has expired, or was never submitted and is not shown any
\* more, is not executed.
Final(r) == r.phase = "over" /\ (r.expired \/ (~r.prompt /\ ~r.submitted))

\* What a step may do to a call.
Evolves(old, new) ==
    /\ HonestCall(new)
    /\ old.fate # "none" => new.fate = old.fate /\ new.market = old.market
    /\ Final(old) => new = old

\* The first of the calls that have asked for the lock, and no other call, is in the
\* wallet; the others wait.
QueueInv ==
    /\ redeemQueue \in Seq(Redeems)
    /\ \A j, k \in 1 .. Len(redeemQueue) : j # k => redeemQueue[j] # redeemQueue[k]
    /\ \A k \in 1 .. Len(redeemQueue) : redeemOp[redeemQueue[k]].phase = IF k = 1 THEN "wallet" ELSE "queued"
    /\ \A i \in Redeems : redeemOp[i].phase = "wallet" => Len(redeemQueue) > 0 /\ redeemQueue[1] = i

\* What a view was told is true and final.
TellInv ==
    /\ DOMAIN told = Views
    /\ \A v \in Views :
          LET r == redeemOp[told[v].op]
          IN  /\ told[v].outcome \in {"success", "failed", "refused", "timeout"} => told[v].op \in Redeems
              /\ told[v].outcome = "success" => r.fate = "done"
              /\ told[v].outcome = "failed"  => r.fate = "reverted"
              /\ told[v].outcome = "refused" => Final(r) /\ r.fate = "none"
              /\ told[v].outcome = "timeout" => Final(r)

\* What is hidden was paid.
HiddenInv == \A m \in suppressed : \E i \in Redeems : redeemOp[i].market = m /\ redeemOp[i].fate = "done"

RedeemIInv ==
    /\ DOMAIN redeemOp = Redeems /\ (\A i \in Redeems : HonestCall(redeemOp[i]))
    /\ QueueInv /\ TellInv /\ HiddenInv

\* Nothing has been asked for, hidden or said when the page is opened.
LEMMA RedeemStarts == RedeemInit => RedeemIInv
<1> SUFFICES ASSUME RedeemInit PROVE RedeemIInv
  OBVIOUS
<1>1. HonestCall(NoRedeem) /\ NoRedeem.phase = "none"
  BY DEF NoRedeem, HonestCall, RedeemFields, Fates
<1>2. DOMAIN redeemOp = Redeems /\ \A i \in Redeems : redeemOp[i] = NoRedeem
  BY DEF RedeemInit
<1>3. redeemQueue \in Seq(Redeems) /\ Len(redeemQueue) = 0
  BY DEF RedeemInit
<1>4. TellInv /\ HiddenInv
  BY DEF RedeemInit, TellInv, HiddenInv
<1> QED
  BY <1>1, <1>2, <1>3, <1>4 DEF RedeemIInv, QueueInv

\* What was said and hidden before a step stays right.
LEMMA SaidStands ==
  ASSUME RedeemIInv, DOMAIN redeemOp' = Redeems, \A i \in Redeems : Evolves(redeemOp[i], redeemOp'[i])
  PROVE  /\ told' = told => TellInv'
         /\ suppressed' = suppressed => HiddenInv'
<1>1. ASSUME told' = told PROVE TellInv'
  BY <1>1 DEF RedeemIInv, TellInv, Evolves
<1>2. ASSUME suppressed' = suppressed PROVE HiddenInv'
  BY <1>2 DEF RedeemIInv, HiddenInv, Evolves
<1> QED
  BY <1>1, <1>2

\* What becomes of a call is told to the view that waits for it, if any.
LEMMA SettledStands ==
  ASSUME RedeemIInv, NEW i \in Redeems, NEW verdict, Settled(i, verdict),
         DOMAIN redeemOp' = Redeems, \A j \in Redeems : Evolves(redeemOp[j], redeemOp'[j]),
         verdict = "success" => redeemOp[i].fate = "done",
         verdict = "failed" => redeemOp[i].fate = "reverted",
         verdict = "refused" => Final(redeemOp'[i]) /\ redeemOp'[i].fate = "none",
         verdict = "timeout" => Final(redeemOp'[i])
  PROVE  TellInv' /\ HiddenInv'
<1>1. CASE UNCHANGED <<told, suppressed>>
  BY <1>1, SaidStands
<1>2. CASE ~UNCHANGED <<told, suppressed>>
  <2>1. PICK v : /\ told' = [told EXCEPT ![v] = [op |-> i, outcome |-> verdict]]
                 /\ IF verdict = "success" THEN suppressed' = suppressed \cup {redeemOp[i].market}
                    ELSE suppressed' = suppressed
    BY <1>2 DEF Settled, markMarketRedeemed
  <2>2. DOMAIN told' = Views /\ \A w \in Views : told'[w] = IF w = v THEN [op |-> i, outcome |-> verdict] ELSE told[w]
    BY <2>1 DEF RedeemIInv, TellInv
  <2>3. /\ verdict = "success" => redeemOp'[i].fate = "done" /\ redeemOp'[i].market = redeemOp[i].market
        /\ verdict = "failed" => redeemOp'[i].fate = "reverted"
    BY DEF Evolves
  <2>4. TellInv'
    <3> SUFFICES ASSUME NEW w \in Views
                 PROVE  LET r == redeemOp'[told'[w].op]
                        IN  /\ told'[w].outcome \in {"success", "failed", "refused", "timeout"} => told'[w].op \in Redeems
                            /\ told'[w].outcome = "success" => r.fate = "done"
                            /\ told'[w].outcome = "failed"  => r.fate = "reverted"
                            /\ told'[w].outcome = "refused" => Final(r) /\ r.fate = "none"
                            /\ told'[w].outcome = "timeout" => Final(r)
      BY <2>2 DEF TellInv, Final
    <3>1. CASE w = v
      <4>1. told'[w].op = i /\ told'[w].outcome = verdict
        BY <2>2, <3>1
      <4> QED
        BY <2>3, <4>1
    <3>2. CASE w # v
      <4>1. told'[w] = told[w]
        BY <2>2, <3>2
      <4> QED
        BY <4>1 DEF RedeemIInv, TellInv, Evolves
    <3> QED
      BY <3>1, <3>2
  <2>5. HiddenInv'
    <3>1. \A m \in suppressed : \E j \in Redeems : redeemOp'[j].market = m /\ redeemOp'[j].fate = "done"
      BY DEF RedeemIInv, HiddenInv, Evolves
    <3> QED
      BY <2>1, <2>3, <3>1 DEF HiddenInv
  <2> QED
    BY <2>4, <2>5
<1> QED
  BY <1>1, <1>2

\* The call that has the lock goes on, and the lock goes to the next call.
LEMMA UnlockKeeps ==
  ASSUME RedeemIInv, NEW i \in Redeems, redeemOp[i].phase = "wallet", NEW after,
         Evolves(redeemOp[i], after), after.phase # "wallet", Unlock([redeemOp EXCEPT ![i] = after])
  PROVE  /\ DOMAIN redeemOp' = Redeems /\ redeemOp'[i] = after /\ QueueInv'
         /\ \A j \in Redeems : Evolves(redeemOp[j], redeemOp'[j])
<1>1. PICK ops : ops = [redeemOp EXCEPT ![i] = after]
  OBVIOUS
<1>2. DOMAIN ops = Redeems /\ ops[i] = after /\ (\A j \in Redeems \ {i} : ops[j] = redeemOp[j])
  BY <1>1 DEF RedeemIInv
<1>3. \A j \in Redeems : Evolves(redeemOp[j], ops[j])
  BY <1>2 DEF RedeemIInv, Evolves
<1>4. /\ redeemQueue \in Seq(Redeems) /\ Len(redeemQueue) \in Nat /\ Len(redeemQueue) > 0 /\ redeemQueue[1] = i
      /\ redeemQueue' = Tail(redeemQueue) /\ redeemQueue' \in Seq(Redeems)
      /\ Len(redeemQueue') = Len(redeemQueue) - 1
      /\ \A k \in 1 .. Len(redeemQueue') : redeemQueue'[k] = redeemQueue[k + 1] /\ redeemQueue'[k] \in Redeems
      /\ redeemQueue' = << >> <=> Len(redeemQueue') = 0
  <2>1. redeemQueue \in Seq(Redeems) /\ Len(redeemQueue) \in Nat /\ Len(redeemQueue) > 0 /\ redeemQueue[1] = i
    BY DEF RedeemIInv, QueueInv
  <2>2. redeemQueue' = Tail(redeemQueue) /\ redeemQueue # << >>
    BY <2>1 DEF Unlock
  <2>3. /\ redeemQueue' \in Seq(Redeems) /\ Len(redeemQueue') = Len(redeemQueue) - 1
        /\ \A k \in 1 .. Len(redeemQueue') : redeemQueue'[k] = redeemQueue[k + 1]
    BY <2>1, <2>2
  <2>4. /\ \A k \in 1 .. Len(redeemQueue') : redeemQueue'[k] \in Redeems
        /\ redeemQueue' = << >> <=> Len(redeemQueue') = 0
    BY <2>3
  <2> QED
    BY <2>1, <2>2, <2>3, <2>4
<1>5. \A j, k \in 1 .. Len(redeemQueue') : j # k => redeemQueue'[j] # redeemQueue'[k]
  BY <1>4 DEF RedeemIInv, QueueInv
<1>6. \A k \in 1 .. Len(redeemQueue') : redeemQueue'[k] # i /\ redeemOp[redeemQueue'[k]].phase = "queued"
  <2> SUFFICES ASSUME NEW k \in 1 .. Len(redeemQueue')
               PROVE  redeemQueue'[k] # i /\ redeemOp[redeemQueue'[k]].phase = "queued"
    OBVIOUS
  <2>1. k + 1 \in 1 .. Len(redeemQueue) /\ 1 \in 1 .. Len(redeemQueue) /\ k + 1 # 1
    BY <1>4
  <2> QED
    BY <1>4, <2>1 DEF RedeemIInv, QueueInv
<1>7. \A j \in Redeems \ {i} : redeemOp[j].phase # "wallet"
  BY <1>4 DEF RedeemIInv, QueueInv
<1>8. CASE redeemQueue' = << >>
  <2>1. redeemOp' = ops
    BY <1>1, <1>4, <1>8 DEF Unlock
  <2> QED
    BY <1>2, <1>3, <1>4, <1>7, <1>8, <2>1 DEF QueueInv
<1>9. CASE redeemQueue' # << >>
  <2>1. PICK next \in Redeems : next = redeemQueue[2] /\ next = redeemQueue'[1] /\ 1 \in 1 .. Len(redeemQueue')
    <3>1. 1 \in 1 .. Len(redeemQueue')
      BY <1>4, <1>9
    <3> QED
      BY <1>4, <3>1
  <2>2. next # i /\ redeemOp[next].phase = "queued" /\ ops[next] = redeemOp[next]
    BY <1>2, <1>6, <2>1
  <2>3. redeemOp' = [ops EXCEPT ![next] = Prompted(ops[next])]
    BY <1>1, <1>4, <1>9, <2>1 DEF Unlock
  <2>4. Evolves(redeemOp[next], Prompted(redeemOp[next])) /\ Prompted(redeemOp[next]).phase = "wallet"
    BY <2>2 DEF RedeemIInv, HonestCall, RedeemFields, Evolves, Final, Prompted
  <2>5. /\ DOMAIN redeemOp' = Redeems /\ redeemOp'[next] = Prompted(redeemOp[next])
        /\ \A j \in Redeems \ {next} : redeemOp'[j] = ops[j]
    BY <1>2, <2>2, <2>3
  <2>6. \A j \in Redeems : Evolves(redeemOp[j], redeemOp'[j])
    BY <1>3, <2>4, <2>5
  <2>7. \A k \in 1 .. Len(redeemQueue') : redeemOp'[redeemQueue'[k]].phase = IF k = 1 THEN "wallet" ELSE "queued"
    <3> SUFFICES ASSUME NEW k \in 1 .. Len(redeemQueue')
                 PROVE  redeemOp'[redeemQueue'[k]].phase = IF k = 1 THEN "wallet" ELSE "queued"
      OBVIOUS
    <3>1. CASE k = 1
      BY <2>1, <2>4, <2>5, <3>1
    <3>2. CASE k # 1
      <4>1. redeemQueue'[k] \in Redeems \ {next, i}
        BY <1>4, <1>5, <1>6, <2>1, <3>2
      <4> QED
        BY <1>2, <1>6, <2>5, <3>2, <4>1
    <3> QED
      BY <3>1, <3>2
  <2>8. \A j \in Redeems : redeemOp'[j].phase = "wallet" => Len(redeemQueue') > 0 /\ redeemQueue'[1] = j
    <3> SUFFICES ASSUME NEW j \in Redeems \ {next} PROVE redeemOp'[j].phase # "wallet"
      BY <1>4, <2>1
    <3> QED
      BY <1>2, <1>7, <2>5
  <2>9. redeemOp'[i] = after
    BY <1>2, <2>2, <2>5
  <2> QED
    BY <1>4, <1>5, <2>5, <2>6, <2>7, <2>8, <2>9 DEF QueueInv
<1> QED
  BY <1>8, <1>9

\* A call that stays where it is with regard to the lock.
LEMMA OneKeeps ==
  ASSUME RedeemIInv, NEW i \in Redeems, NEW after, Evolves(redeemOp[i], after),
         \/ after.phase = redeemOp[i].phase
         \/ redeemOp[i].phase = "sent" /\ after.phase = "over",
         redeemOp' = [redeemOp EXCEPT ![i] = after], redeemQueue' = redeemQueue
  PROVE  /\ DOMAIN redeemOp' = Redeems /\ redeemOp'[i] = after /\ QueueInv'
         /\ \A j \in Redeems : Evolves(redeemOp[j], redeemOp'[j])
<1>1. DOMAIN redeemOp' = Redeems /\ redeemOp'[i] = after /\ (\A j \in Redeems \ {i} : redeemOp'[j] = redeemOp[j])
  BY DEF RedeemIInv
<1>2. \A j \in Redeems : Evolves(redeemOp[j], redeemOp'[j])
  BY <1>1 DEF RedeemIInv, Evolves
<1>3. /\ \A j \in Redeems : redeemOp'[j].phase = "wallet" <=> redeemOp[j].phase = "wallet"
      /\ \A j \in Redeems : redeemOp'[j].phase = "queued" <=> redeemOp[j].phase = "queued"
  BY <1>1
<1>4. QueueInv'
  <2>1. \A k \in 1 .. Len(redeemQueue) : redeemQueue[k] \in Redeems
    BY DEF RedeemIInv, QueueInv
  <2>2. \A k \in 1 .. Len(redeemQueue) : redeemOp'[redeemQueue[k]].phase = IF k = 1 THEN "wallet" ELSE "queued"
    BY <1>3, <2>1 DEF RedeemIInv, QueueInv
  <2> QED
    BY <1>3, <2>2 DEF RedeemIInv, QueueInv
<1> QED
  BY <1>1, <1>2, <1>4

\* Every step keeps what was said true and final.
LEMMA RedeemSteps ==
  ASSUME RedeemIInv, [RedeemNext]_redeemVars
  PROVE  RedeemIInv' /\ (\A j \in Redeems : Evolves(redeemOp[j], redeemOp'[j]))
<1> DEFINE Goal == RedeemIInv' /\ (\A j \in Redeems : Evolves(redeemOp[j], redeemOp'[j]))
<1> HIDE DEF Goal
<1> SUFFICES Goal
  BY DEF Goal
<1>0. ASSUME UNCHANGED <<redeemOp, redeemQueue, told, suppressed>> PROVE Goal
  <2>1. \A j \in Redeems : Evolves(redeemOp[j], redeemOp'[j])
    BY <1>0 DEF RedeemIInv, Evolves
  <2>2. QueueInv'
    BY <1>0 DEF RedeemIInv, QueueInv
  <2> QED
    BY <1>0, <2>1, <2>2, SaidStands DEF Goal, RedeemIInv, Evolves
\* Enough for the steps of a call.
<1>1. ASSUME DOMAIN redeemOp' = Redeems, QueueInv', \A j \in Redeems : Evolves(redeemOp[j], redeemOp'[j]),
             TellInv', HiddenInv'
      PROVE  Goal
  BY <1>1 DEF Goal, RedeemIInv, Evolves
<1>2. CASE UNCHANGED redeemVars
  BY <1>0, <1>2 DEF redeemVars
<1>3. CASE RefreshButton
  BY <1>0, <1>3 DEF RefreshButton
<1>4. ASSUME NEW a, WalletChanges(a) PROVE Goal
  BY <1>0, <1>4 DEF WalletChanges
<1>5. ASSUME NEW f, Serve(f) \/ FetchFails(f) \/ Deliver(f) PROVE Goal
  BY <1>0, <1>5 DEF Serve, FetchFails, Deliver
<1>6. ASSUME NEW m, Resolve(m) PROVE Goal
  BY <1>0, <1>6 DEF Resolve, pageVars
<1>7. ASSUME NEW a, NEW m, Ingest(a, m) PROVE Goal
  BY <1>0, <1>7 DEF Ingest, pageVars
<1>8. ASSUME NEW v \in Views, NEW m \in Markets, NEW i \in Redeems, redeem(v, m, i) PROVE Goal
  <2> DEFINE call == [NoRedeem EXCEPT !.phase = "queued", !.acct = acct, !.market = m, !.view = v]
             after == IF redeemQueue = << >> THEN Prompted(call) ELSE call
  <2>1. /\ redeemOp[i] = NoRedeem /\ redeemOp' = [redeemOp EXCEPT ![i] = after]
        /\ redeemQueue' = Append(redeemQueue, i) /\ UNCHANGED <<told, suppressed>>
    BY <1>8 DEF redeem, pageVars
  <2>2. HonestCall(NoRedeem) /\ NoRedeem.phase = "none" /\ NoRedeem.fate = "none"
    BY DEF NoRedeem, HonestCall, RedeemFields, Fates
  <2>3. HonestCall(call) /\ call.phase = "queued" /\ call.fate = "none"
    BY <2>2 DEF HonestCall, RedeemFields
  <2> HIDE DEF call
  <2>4. HonestCall(Prompted(call)) /\ Prompted(call).phase = "wallet"
    BY <2>3 DEF HonestCall, RedeemFields, Prompted
  <2>5. HonestCall(after) /\ after.phase = IF redeemQueue = << >> THEN "wallet" ELSE "queued"
    BY <2>3, <2>4
  <2> HIDE DEF after
  <2>6. Evolves(redeemOp[i], after)
    BY <2>1, <2>2, <2>5 DEF Evolves, Final
  <2>7. /\ DOMAIN redeemOp' = Redeems /\ redeemOp'[i] = after
        /\ (\A j \in Redeems \ {i} : redeemOp'[j] = redeemOp[j])
    BY <2>1 DEF RedeemIInv
  <2>8. \A j \in Redeems : Evolves(redeemOp[j], redeemOp'[j])
    BY <2>6, <2>7 DEF RedeemIInv, Evolves
  <2>9. /\ redeemQueue \in Seq(Redeems) /\ Len(redeemQueue) \in Nat /\ redeemQueue' \in Seq(Redeems)
        /\ Len(redeemQueue') = Len(redeemQueue) + 1 /\ redeemQueue'[Len(redeemQueue) + 1] = i
        /\ \A k \in 1 .. Len(redeemQueue) : redeemQueue'[k] = redeemQueue[k]
        /\ (redeemQueue = << >> <=> Len(redeemQueue) = 0)
    BY <2>1 DEF RedeemIInv, QueueInv
  <2>10. \A k \in 1 .. Len(redeemQueue) : redeemQueue[k] \in Redeems \ {i}
    BY <2>1, <2>2, <2>9 DEF RedeemIInv, QueueInv
  <2>11. \A j, k \in 1 .. Len(redeemQueue') : j # k => redeemQueue'[j] # redeemQueue'[k]
    <3> SUFFICES ASSUME NEW j \in 1 .. Len(redeemQueue'), NEW k \in 1 .. Len(redeemQueue'), j # k
                 PROVE  redeemQueue'[j] # redeemQueue'[k]
      OBVIOUS
    <3>1. j \in 1 .. Len(redeemQueue) \/ j = Len(redeemQueue) + 1
      BY <2>9
    <3>2. k \in 1 .. Len(redeemQueue) \/ k = Len(redeemQueue) + 1
      BY <2>9
    <3> QED
      BY <2>9, <2>10, <3>1, <3>2 DEF RedeemIInv, QueueInv
  <2>12. \A k \in 1 .. Len(redeemQueue') : redeemOp'[redeemQueue'[k]].phase = IF k = 1 THEN "wallet" ELSE "queued"
    <3> SUFFICES ASSUME NEW k \in 1 .. Len(redeemQueue')
                 PROVE  redeemOp'[redeemQueue'[k]].phase = IF k = 1 THEN "wallet" ELSE "queued"
      OBVIOUS
    <3>1. CASE k \in 1 .. Len(redeemQueue)
      <4>1. redeemQueue'[k] = redeemQueue[k] /\ redeemOp'[redeemQueue[k]] = redeemOp[redeemQueue[k]]
        BY <2>7, <2>9, <2>10, <3>1
      <4> QED
        BY <3>1, <4>1 DEF RedeemIInv, QueueInv
    <3>2. CASE k = Len(redeemQueue) + 1
      BY <2>5, <2>7, <2>9, <3>2
    <3> QED
      BY <2>9, <3>1, <3>2
  <2>13. \A j \in Redeems : redeemOp'[j].phase = "wallet" => Len(redeemQueue') > 0 /\ redeemQueue'[1] = j
    <3> SUFFICES ASSUME NEW j \in Redeems, redeemOp'[j].phase = "wallet"
                 PROVE  Len(redeemQueue') > 0 /\ redeemQueue'[1] = j
      OBVIOUS
    <3>1. CASE j = i
      BY <2>5, <2>7, <2>9, <3>1
    <3>2. CASE j # i
      <4>1. redeemOp[j].phase = "wallet"
        BY <2>7, <3>2
      <4>2. Len(redeemQueue) > 0 /\ redeemQueue[1] = j
        BY <4>1 DEF RedeemIInv, QueueInv
      <4> QED
        BY <2>9, <4>2
    <3> QED
      BY <3>1, <3>2
  <2>14. QueueInv'
    BY <2>9, <2>11, <2>12, <2>13 DEF QueueInv
  <2> QED
    BY <1>1, <2>1, <2>7, <2>8, <2>14, SaidStands
<1>9. ASSUME NEW v \in Views, cancelRedeem(v) PROVE Goal
  <2>1. /\ UNCHANGED <<redeemOp, redeemQueue, suppressed>>
        /\ told' = [told EXCEPT ![v] = [op |-> pending[v], outcome |-> "cancelled"]]
    BY <1>9 DEF cancelRedeem, pageVars
  <2>2. DOMAIN redeemOp' = Redeems /\ \A j \in Redeems : Evolves(redeemOp[j], redeemOp'[j])
    BY <2>1 DEF RedeemIInv, Evolves
  <2>3. TellInv'
    <3>1. /\ DOMAIN told' = Views /\ told'[v].outcome = "cancelled"
          /\ \A w \in Views \ {v} : told'[w] = told[w]
      BY <2>1 DEF RedeemIInv, TellInv
    <3>2. \A w \in Views : w = v \/ w \in Views \ {v}
      OBVIOUS
    <3> QED
      BY <2>1, <3>1, <3>2 DEF RedeemIInv, TellInv
  <2>4. QueueInv' /\ HiddenInv'
    BY <2>1 DEF RedeemIInv, QueueInv, HiddenInv
  <2> QED
    BY <1>1, <2>2, <2>3, <2>4
<1>10. ASSUME NEW i \in Redeems, ExpireRedeem(i) PROVE Goal
  <2> DEFINE after == [redeemOp[i] EXCEPT !.expired = TRUE]
  <2>1. /\ redeemOp' = [redeemOp EXCEPT ![i] = after] /\ UNCHANGED <<redeemQueue, told, suppressed>>
        /\ HonestCall(redeemOp[i]) /\ redeemOp[i].phase # "over"
    BY <1>10 DEF ExpireRedeem, RedeemIInv, pageVars
  <2>2. Evolves(redeemOp[i], after) /\ after.phase = redeemOp[i].phase
    BY <2>1 DEF Evolves, HonestCall, RedeemFields, Final
  <2> HIDE DEF after
  <2> QED
    BY <1>1, <2>1, <2>2, OneKeeps, SaidStands
<1>11. ASSUME NEW i \in Redeems, Approve(i) PROVE Goal
  <2> DEFINE after == [redeemOp[i] EXCEPT !.prompt = FALSE, !.submitted = TRUE]
  <2>1. /\ redeemOp' = [redeemOp EXCEPT ![i] = after] /\ UNCHANGED <<redeemQueue, told, suppressed>>
        /\ HonestCall(redeemOp[i]) /\ redeemOp[i].prompt /\ ~redeemOp[i].expired
    BY <1>11 DEF Approve, RedeemIInv, pageVars
  <2>2. Evolves(redeemOp[i], after) /\ after.phase = redeemOp[i].phase
    BY <2>1 DEF Evolves, HonestCall, RedeemFields, Final
  <2> HIDE DEF after
  <2> QED
    BY <1>1, <2>1, <2>2, OneKeeps, SaidStands
<1>12. ASSUME NEW i \in Redeems, Answered(i) PROVE Goal
  <2> DEFINE after == [redeemOp[i] EXCEPT !.phase = "sent", !.expired = FALSE]
  <2>1. /\ Unlock([redeemOp EXCEPT ![i] = after]) /\ UNCHANGED <<told, suppressed>>
        /\ HonestCall(redeemOp[i]) /\ redeemOp[i].phase = "wallet" /\ redeemOp[i].submitted
    BY <1>12 DEF Answered, RedeemIInv, pageVars
  <2>2. Evolves(redeemOp[i], after) /\ after.phase # "wallet"
    BY <2>1 DEF Evolves, HonestCall, RedeemFields, Final
  <2> HIDE DEF after
  <2> QED
    BY <1>1, <2>1, <2>2, UnlockKeeps, SaidStands
<1>13. ASSUME NEW i \in Redeems, Refused(i) PROVE Goal
  <2> DEFINE after == [redeemOp[i] EXCEPT !.phase = "over", !.prompt = FALSE, !.expired = FALSE]
  <2>1. /\ Unlock([redeemOp EXCEPT ![i] = after]) /\ Settled(i, "refused")
        /\ HonestCall(redeemOp[i]) /\ redeemOp[i].phase = "wallet" /\ redeemOp[i].prompt
    BY <1>13 DEF Refused, RedeemIInv
  <2>2. /\ Evolves(redeemOp[i], after) /\ after.phase # "wallet" /\ Final(after) /\ after.fate = "none"
    BY <2>1 DEF Evolves, HonestCall, RedeemFields, Final
  <2> HIDE DEF after
  <2>3. /\ DOMAIN redeemOp' = Redeems /\ redeemOp'[i] = after /\ QueueInv'
        /\ \A j \in Redeems : Evolves(redeemOp[j], redeemOp'[j])
    BY <2>1, <2>2, UnlockKeeps
  <2>4. TellInv' /\ HiddenInv'
    BY <2>1, <2>2, <2>3, SettledStands
  <2> QED
    BY <1>1, <2>3, <2>4
<1>14. ASSUME NEW i \in Redeems, TimesOut(i) PROVE Goal
  <2> DEFINE after == [redeemOp[i] EXCEPT !.phase = "over"]
  <2>1. /\ Unlock([redeemOp EXCEPT ![i] = after]) /\ Settled(i, "timeout")
        /\ HonestCall(redeemOp[i]) /\ redeemOp[i].phase = "wallet" /\ redeemOp[i].expired
    BY <1>14 DEF TimesOut, RedeemIInv
  <2>2. /\ Evolves(redeemOp[i], after) /\ after.phase # "wallet" /\ Final(after)
    BY <2>1 DEF Evolves, HonestCall, RedeemFields, Final
  <2> HIDE DEF after
  <2>3. /\ DOMAIN redeemOp' = Redeems /\ redeemOp'[i] = after /\ QueueInv'
        /\ \A j \in Redeems : Evolves(redeemOp[j], redeemOp'[j])
    BY <2>1, <2>2, UnlockKeeps
  <2>4. TellInv' /\ HiddenInv'
    BY <2>1, <2>2, <2>3, SettledStands
  <2> QED
    BY <1>1, <2>3, <2>4
<1>15. ASSUME NEW i \in Redeems, Execute(i) PROVE Goal
  <2>1. PICK fate \in {"done", "reverted"} : redeemOp' = [redeemOp EXCEPT ![i].fate = fate]
    <3>1. CASE redeemOp[i].market \in won[redeemOp[i].acct]
      BY <1>15, <3>1 DEF Execute
    <3>2. CASE redeemOp[i].market \notin won[redeemOp[i].acct]
      BY <1>15, <3>2 DEF Execute
    <3> QED
      BY <3>1, <3>2
  <2> DEFINE after == [redeemOp[i] EXCEPT !.fate = fate]
  <2>2. /\ redeemOp' = [redeemOp EXCEPT ![i] = after] /\ UNCHANGED <<redeemQueue, told, suppressed>>
        /\ HonestCall(redeemOp[i]) /\ redeemOp[i].submitted /\ ~redeemOp[i].expired /\ redeemOp[i].fate = "none"
    BY <1>15, <2>1 DEF Execute, RedeemIInv, pageVars
  <2>3. Evolves(redeemOp[i], after) /\ after.phase = redeemOp[i].phase
    BY <2>2 DEF Evolves, HonestCall, RedeemFields, Final, Fates
  <2> HIDE DEF after
  <2> QED
    BY <1>1, <2>2, <2>3, OneKeeps, SaidStands
<1>16. ASSUME NEW i \in Redeems, Confirm(i) PROVE Goal
  <2> DEFINE after == [redeemOp[i] EXCEPT !.phase = "over"]
  <2>1. PICK verdict \in confirmTx(redeemOp[i].fate) : Settled(i, verdict)
    BY <1>16 DEF Confirm
  <2>2. /\ redeemOp' = [redeemOp EXCEPT ![i] = after] /\ redeemQueue' = redeemQueue
        /\ HonestCall(redeemOp[i]) /\ redeemOp[i].phase = "sent"
    BY <1>16 DEF Confirm, RedeemIInv
  <2>3. Evolves(redeemOp[i], after) /\ after.phase = "over"
    BY <2>2 DEF Evolves, HonestCall, RedeemFields, Final
  <2>4. redeemOp[i].fate \in Fates
    BY <2>2 DEF HonestCall
  <2>5. /\ verdict \in {"success", "failed", "pending"}
        /\ verdict = "success" => redeemOp[i].fate = "done"
        /\ verdict = "failed" => redeemOp[i].fate = "reverted"
    BY <2>1, <2>4, Confirmed
  <2> HIDE DEF after
  <2>6. /\ DOMAIN redeemOp' = Redeems /\ redeemOp'[i] = after /\ QueueInv'
        /\ \A j \in Redeems : Evolves(redeemOp[j], redeemOp'[j])
    BY <2>2, <2>3, OneKeeps
  <2>7. TellInv' /\ HiddenInv'
    BY <2>1, <2>5, <2>6, SettledStands
  <2> QED
    BY <1>1, <2>6, <2>7
<1> QED
  BY <1>2, <1>3, <1>4, <1>5, <1>6, <1>7, <1>8, <1>9, <1>10, <1>11, <1>12, <1>13, <1>14, <1>15, <1>16 DEF RedeemNext

LEMMA RedeemInvariant == RedeemSpec => []RedeemIInv
<1>1. RedeemIInv /\ [RedeemNext]_redeemVars => RedeemIInv'
  BY RedeemSteps
<1> QED  BY RedeemStarts, <1>1, PTL DEF RedeemSpec

(* useRedeem.ts, hedera.ts, redeemSuppression.ts: for any accounts, markets  *)
(* and numbers of calls, although an answer of the wallet may be lost, what  *)
(* a view says of a redemption is true and final, and a market is taken from *)
(* the offers only when a redemption of this page was paid.                  *)
THEOREM RedemptionHonest == RedeemSpec => RedeemIsHonest
<1>1. RedeemIInv => \A m \in suppressed :
          \E i \in DOMAIN redeemOp : redeemOp[i].market = m /\ redeemOp[i].fate = "done"
  BY DEF RedeemIInv, HiddenInv
<1>2. RedeemIInv => ToldTheTruth
  BY DEF RedeemIInv, TellInv, ToldTheTruth
<1>3. RedeemIInv /\ [RedeemNext]_redeemVars
        => [\A v \in Views : told[v].outcome \in {"success", "failed", "refused", "timeout"} =>
              redeemOp'[told[v].op].fate = redeemOp[told[v].op].fate]_redeemVars
  <2>1. ASSUME RedeemIInv, [RedeemNext]_redeemVars, NEW v \in Views,
               told[v].outcome \in {"success", "failed", "refused", "timeout"}
        PROVE  redeemOp'[told[v].op].fate = redeemOp[told[v].op].fate
    BY <2>1, RedeemSteps DEF RedeemIInv, TellInv, Evolves
  <2> QED
    BY <2>1
<1> QED
  BY RedeemInvariant, <1>1, <1>2, <1>3, PTL DEF RedeemSpec, RedeemIsHonest
-----------------------------------------------------------------------------
(* The timers of an unattended session (useActivityTimeout.ts,              *)
(* useIdleDisconnect24h.ts).                                                *)

Latest == Later(active, since)

\* Time stamps are of the past; without a connection no timer runs.
StampInv ==
    /\ active <= now /\ since <= now
    /\ lastActivityAt # NoTime => lastActivityAt <= now
    /\ isConnected /\ lastActivityAt # NoTime => lastActivityAt <= Latest
    /\ ~isConnected => /\ expiryAt = NoTime /\ inactivityAt = NoTime /\ countdownAt = NoTime
                       /\ ~warning

\* While timers fire on time the next one is ahead, and not further than the
\* last activity allows; the countdown ends before a second warning.
PunctualInv ==
    isConnected /\ ~slept =>
        IF warning
        THEN /\ now <= countdownAt /\ countdownAt < inactivityAt /\ inactivityAt # NoTime
             /\ countdownAt <= Latest + INACTIVITY_TIMEOUT + WARNING_COUNTDOWN
        ELSE now <= inactivityAt /\ inactivityAt <= Latest + INACTIVITY_TIMEOUT

IdleIInv == IdleTypeOK /\ StampInv /\ TimersArmed /\ PunctualInv

LEMMA Limits ==
    /\ INACTIVITY_TIMEOUT \in Nat /\ WARNING_COUNTDOWN \in Nat /\ IDLE_LIMIT \in Nat
    /\ MaxTime \in Nat /\ WARNING_COUNTDOWN > 0 /\ NoTime \notin Nat
    /\ INACTIVITY_TIMEOUT + WARNING_COUNTDOWN < IDLE_LIMIT /\ WARNING_COUNTDOWN < INACTIVITY_TIMEOUT
BY LimitsAssumption DEF LimitsAssumption

\* The last activity, of the user or of the connection, as a number.
LEMMA LatestIs ==
    ASSUME IdleTypeOK
    PROVE  /\ now \in Nat /\ active \in Nat /\ since \in Nat /\ Latest \in Nat
           /\ Latest >= active /\ Latest >= since /\ Latest \in {active, since}
BY Limits DEF IdleTypeOK, Latest, Later

LEMMA IdleStarts == IdleInit => IdleIInv
<1> SUFFICES ASSUME IdleInit
             PROVE  IdleIInv
  OBVIOUS
<1>1. now \in 0 .. MaxTime /\ active \in 0 .. MaxTime /\ since \in 0 .. MaxTime
  BY Limits DEF IdleInit
<1>2. {open, hasMounted, session, isConnected, warning, slept} \subseteq BOOLEAN
  BY DEF IdleInit
<1>3. {lastActivityAt, lastWrite, expiryAt, inactivityAt, countdownAt} \subseteq Times
  BY DEF IdleInit, Times
<1>4. StampInv /\ TimersArmed /\ PunctualInv
  BY DEF IdleInit, StampInv, TimersArmed, PunctualInv
<1> QED  BY <1>1, <1>2, <1>3, <1>4 DEF IdleIInv, IdleTypeOK

\* What recordActivity and the timer of the warning leave, now being the last activity.
LEMMA Recording ==
    ASSUME IdleIInv, NEW force \in BOOLEAN, recordActivity(force), now' = now,
           force \/ isConnected, Latest' = now
    PROVE  /\ lastWrite' \in Times /\ lastActivityAt' \in Times /\ expiryAt' \in Times
           /\ lastActivityAt' # NoTime => lastActivityAt' <= now
           /\ expiryAt' # NoTime /\ expiryAt' <= now + IDLE_LIMIT
<1>1. now \in Nat /\ now <= MaxTime /\ Latest \in Nat /\ Latest <= now
  BY LatestIs, Limits DEF IdleIInv, IdleTypeOK, StampInv
<1>2. CASE lastWrite' = now /\ lastActivityAt' = now /\ expiryAt' = now + IDLE_LIMIT
  <2>1. now \in Times /\ now + IDLE_LIMIT \in Times /\ now + IDLE_LIMIT # NoTime
    BY <1>1, Limits DEF Times
  <2> QED  BY <1>1, <1>2, <2>1
<1>3. CASE ~force /\ UNCHANGED <<lastWrite, lastActivityAt, expiryAt>>
  <2>1. expiryAt # NoTime /\ expiryAt <= Latest + IDLE_LIMIT
    BY <1>3 DEF IdleIInv, TimersArmed, Latest
  <2>2. expiryAt \in Nat
    BY <2>1, Limits DEF IdleIInv, IdleTypeOK, Times
  <2> QED  BY <1>1, <1>3, <2>1, <2>2, Limits DEF IdleIInv, IdleTypeOK, StampInv
<1> QED  BY <1>2, <1>3 DEF recordActivity

LEMMA IdleKeeps ==
    ASSUME IdleIInv, [IdleNext]_idleVars
    PROVE  IdleIInv'
<1>1. /\ IdleTypeOK /\ StampInv /\ TimersArmed /\ PunctualInv
      /\ isConnected \in BOOLEAN /\ warning \in BOOLEAN /\ slept \in BOOLEAN
  BY DEF IdleIInv, IdleTypeOK
<1>2. CASE UNCHANGED idleVars
  BY <1>1, <1>2 DEF idleVars, IdleIInv, IdleTypeOK, StampInv, TimersArmed, PunctualInv, Latest
<1>3. CASE Tick
  <2>1. now' = now + 1 /\ now' \in 0 .. MaxTime /\ now \in Nat
    BY <1>1, <1>3, Limits DEF Tick, IdleTypeOK
  <2>2. UNCHANGED <<open, hasMounted, session, isConnected, lastActivityAt, lastWrite,
                    expiryAt, inactivityAt, warning, countdownAt, active, since, slept, Latest>>
    BY <1>3 DEF Tick, Latest
  <2>3. \A t \in {inactivityAt, countdownAt} : t # NoTime => t \in Nat /\ now < t
    <3>1. \A t \in {inactivityAt, countdownAt} : t # NoTime => t \in Nat
      BY <1>1, Limits DEF IdleTypeOK, Times
    <3> QED  BY <1>3, <2>1, <3>1 DEF Tick, Overdue, Due
  <2>4. PunctualInv'
    <3>1. isConnected => IF warning THEN countdownAt # NoTime ELSE inactivityAt # NoTime
      BY <1>1 DEF TimersArmed
    <3> QED  BY <1>1, <2>1, <2>2, <2>3, <3>1 DEF PunctualInv
  <2>5. StampInv'
    <3>1. active \in Nat /\ since \in Nat /\ (lastActivityAt # NoTime => lastActivityAt \in Nat)
      BY <1>1, Limits DEF IdleTypeOK, Times
    <3> QED  BY <1>1, <2>1, <2>2, <3>1 DEF StampInv
  <2> QED  BY <1>1, <2>1, <2>2, <2>4, <2>5 DEF IdleIInv, IdleTypeOK, TimersArmed, Latest
<1>4. CASE Sleep
  <2>1. now' = now + 1 /\ now' \in 0 .. MaxTime /\ now \in Nat /\ slept'
    BY <1>1, <1>4, Limits DEF Sleep, IdleTypeOK
  <2>2. UNCHANGED <<open, hasMounted, session, isConnected, lastActivityAt, lastWrite,
                    expiryAt, inactivityAt, warning, countdownAt, active, since, Latest>>
    BY <1>4 DEF Sleep, Latest
  <2>3. StampInv'
    <3>1. active \in Nat /\ since \in Nat /\ (lastActivityAt # NoTime => lastActivityAt \in Nat)
      BY <1>1, Limits DEF IdleTypeOK, Times
    <3> QED  BY <1>1, <2>1, <2>2, <3>1 DEF StampInv
  <2>4. slept' = TRUE
    BY <1>4 DEF Sleep
  <2> QED  BY <1>1, <2>1, <2>2, <2>3, <2>4 DEF IdleIInv, IdleTypeOK, TimersArmed, PunctualInv, Latest
<1>5. CASE OpenPage \/ FirstEffects
  <2>1. /\ UNCHANGED <<now, session, isConnected, lastActivityAt, lastWrite, expiryAt, inactivityAt,
                       warning, countdownAt, active, since, slept>>
        /\ open' \in BOOLEAN /\ hasMounted' \in BOOLEAN
    BY <1>1, <1>5 DEF OpenPage, FirstEffects, IdleTypeOK
  <2> QED  BY <1>1, <2>1 DEF IdleIInv, IdleTypeOK, StampInv, TimersArmed, PunctualInv, Latest
\* A page without a connection runs no timer.
<1>6. ASSUME isConnected' = FALSE, NoTimers, UNCHANGED <<now, active, since, slept>>,
             open' \in BOOLEAN, hasMounted' \in BOOLEAN, session' \in BOOLEAN,
             lastActivityAt' \in {lastActivityAt, NoTime}, lastWrite' \in {lastWrite, NoTime}
      PROVE  IdleIInv'
  <2>1. NoTime \in Times
    BY DEF Times
  <2>2. IdleTypeOK'
    BY <1>1, <1>6, <2>1 DEF IdleTypeOK, NoTimers
  <2>3. StampInv' /\ TimersArmed' /\ PunctualInv'
    BY <1>1, <1>6 DEF StampInv, TimersArmed, PunctualInv, NoTimers
  <2> QED  BY <2>2, <2>3 DEF IdleIInv
<1>7. CASE ClosePage
  <2>1. /\ isConnected' = FALSE /\ NoTimers /\ open' = FALSE /\ hasMounted' = FALSE
        /\ lastWrite' = NoTime /\ UNCHANGED <<now, session, lastActivityAt, active, since, slept>>
    BY <1>7 DEF ClosePage
  <2> QED  BY <1>1, <1>6, <2>1 DEF IdleTypeOK
<1>8. CASE handleDisconnect \/ SessionDropped \/ IdleExpires
  <2>1. /\ isConnected' = FALSE /\ NoTimers /\ session' = FALSE
        /\ lastActivityAt' \in {lastActivityAt, NoTime}
        /\ UNCHANGED <<now, open, hasMounted, lastWrite, active, since, slept>>
    BY <1>8 DEF handleDisconnect, SessionDropped, IdleExpires, triggerDisconnect, EndSession
  <2> QED  BY <1>1, <1>6, <2>1 DEF IdleTypeOK
<1>9. CASE Restore \/ Pair
  <2>1. /\ hasMounted /\ ~isConnected /\ Connected /\ session' \in BOOLEAN /\ active' \in {active, now}
        /\ UNCHANGED <<now, open, hasMounted, slept>>
    BY <1>1, <1>9 DEF Restore, Pair, IdleTypeOK
  <2>2. /\ since' = now /\ recordActivity(TRUE) /\ inactivityAt' = now + INACTIVITY_TIMEOUT
        /\ isConnected' = TRUE /\ UNCHANGED <<warning, countdownAt>>
    BY <2>1 DEF Connected, startInactivityTimer
  <2>3. now \in 0 .. MaxTime /\ now \in Nat /\ active \in 0 .. MaxTime /\ active <= now
    BY <1>1, Limits DEF IdleTypeOK, StampInv
  <2>4. Latest' = now
    BY <2>1, <2>2, <2>3 DEF Latest, Later
  <2>5. /\ lastWrite' \in Times /\ lastActivityAt' \in Times /\ expiryAt' \in Times
        /\ lastActivityAt' # NoTime => lastActivityAt' <= now
        /\ expiryAt' # NoTime /\ expiryAt' <= now + IDLE_LIMIT
    BY <2>1, <2>2, <2>4, Recording
  <2>6. now + INACTIVITY_TIMEOUT \in Times /\ now + INACTIVITY_TIMEOUT # NoTime
    BY <2>3, Limits DEF Times
  <2>7. warning' = FALSE /\ countdownAt' = NoTime
    BY <1>1, <2>1, <2>2 DEF StampInv
  <2>8. IdleTypeOK'
    BY <1>1, <2>1, <2>2, <2>3, <2>5, <2>6 DEF IdleTypeOK
  <2>9. StampInv'
    BY <2>1, <2>2, <2>3, <2>4, <2>5 DEF StampInv
  <2>10. TimersArmed'
    BY <2>2, <2>4, <2>5, <2>6, <2>7 DEF TimersArmed, Latest
  <2>11. PunctualInv'
    BY <2>1, <2>2, <2>3, <2>4, <2>7, Limits DEF PunctualInv
  <2> QED  BY <2>8, <2>9, <2>10, <2>11 DEF IdleIInv
<1>10. CASE handleActivity \/ handleStayConnected
  <2>1. /\ isConnected /\ active' = now /\ recordActivity(FALSE)
        /\ UNCHANGED <<now, open, hasMounted, session, isConnected, since, slept>>
        /\ \/ warning /\ UNCHANGED <<warning, countdownAt, inactivityAt>>
           \/ /\ inactivityAt' = now + INACTIVITY_TIMEOUT /\ warning' = FALSE
              /\ countdownAt' \in {countdownAt, NoTime}
    <3>1. CASE handleActivity
      BY <1>1, <3>1 DEF handleActivity, startInactivityTimer
    <3>2. CASE handleStayConnected
      BY <1>1, <3>2 DEF handleStayConnected, startInactivityTimer, StampInv
    <3> QED  BY <1>10, <3>1, <3>2
  <2>3. now \in 0 .. MaxTime /\ now \in Nat /\ since \in 0 .. MaxTime /\ since <= now
    BY <1>1, Limits DEF IdleTypeOK, StampInv
  <2>4. Latest' = now /\ Latest <= now /\ Latest \in Nat
    BY <1>1, <2>1, <2>3, LatestIs DEF Latest, Later, StampInv
  <2>5. /\ lastWrite' \in Times /\ lastActivityAt' \in Times /\ expiryAt' \in Times
        /\ lastActivityAt' # NoTime => lastActivityAt' <= now
        /\ expiryAt' # NoTime /\ expiryAt' <= now + IDLE_LIMIT
    BY <2>1, <2>4, Recording
  <2>6. now + INACTIVITY_TIMEOUT \in Times /\ now + INACTIVITY_TIMEOUT # NoTime /\ NoTime \in Times
    BY <2>3, Limits DEF Times
  <2>7. IdleTypeOK'
    BY <1>1, <2>1, <2>3, <2>5, <2>6 DEF IdleTypeOK
  <2>8. StampInv'
    BY <1>1, <2>1, <2>3, <2>4, <2>5 DEF StampInv
  <2>9. TimersArmed'
    BY <1>1, <2>1, <2>4, <2>5, <2>6 DEF TimersArmed, Latest
  <2>10. PunctualInv'
    <3>1. CASE warning /\ UNCHANGED <<warning, countdownAt, inactivityAt>>
      <4>1. countdownAt # NoTime
        BY <1>1, <2>1, <3>1 DEF TimersArmed
      <4>2. countdownAt \in Nat
        BY <1>1, <4>1, Limits DEF IdleTypeOK, Times
      <4> QED  BY <1>1, <2>1, <2>3, <2>4, <3>1, <4>2, Limits DEF PunctualInv
    <3>2. CASE inactivityAt' = now + INACTIVITY_TIMEOUT /\ warning' = FALSE
      BY <2>1, <2>3, <2>4, <3>2, Limits DEF PunctualInv
    <3> QED  BY <2>1, <3>1, <3>2
  <2> QED  BY <2>7, <2>8, <2>9, <2>10 DEF IdleIInv
<1>11. CASE Warn
  <2>1. /\ inactivityAt # NoTime /\ inactivityAt <= now /\ warning' = TRUE
        /\ countdownAt' = now + WARNING_COUNTDOWN /\ inactivityAt' = now + INACTIVITY_TIMEOUT
        /\ UNCHANGED <<now, open, hasMounted, session, isConnected, lastActivityAt, lastWrite,
                       expiryAt, active, since, slept, Latest>>
    BY <1>11 DEF Warn, Due, startInactivityTimer, Latest
  <2>2. isConnected
    BY <1>1, <2>1 DEF StampInv
  <2>3. now \in 0 .. MaxTime /\ now \in Nat /\ Latest \in Nat
    BY <1>1, Limits, LatestIs DEF IdleTypeOK
  <2>4. /\ now + INACTIVITY_TIMEOUT \in Times /\ now + INACTIVITY_TIMEOUT # NoTime
        /\ now + WARNING_COUNTDOWN \in Times /\ now + WARNING_COUNTDOWN # NoTime
    BY <2>3, Limits DEF Times
  <2>5. inactivityAt \in Nat
    BY <1>1, <2>1, Limits DEF IdleTypeOK, Times
  <2>6. IdleTypeOK'
    BY <1>1, <2>1, <2>4 DEF IdleTypeOK
  <2>7. StampInv' /\ TimersArmed'
    BY <1>1, <2>1, <2>2, <2>4 DEF StampInv, TimersArmed, Latest
  <2>8. PunctualInv'
    <3>1. CASE slept
      BY <2>1, <3>1 DEF PunctualInv
    <3>2. CASE ~slept
      <4>1. ~warning
        <5> SUFFICES ASSUME warning
                     PROVE  FALSE
          BY <1>1
        <5>1. countdownAt # NoTime
          BY <1>1, <2>2 DEF TimersArmed
        <5>2. countdownAt \in Nat
          BY <1>1, <5>1, Limits DEF IdleTypeOK, Times
        <5> QED  BY <1>1, <2>1, <2>2, <2>3, <2>5, <3>2, <5>2 DEF PunctualInv
      <4>2. now <= inactivityAt /\ inactivityAt <= Latest + INACTIVITY_TIMEOUT
        BY <1>1, <2>2, <3>2, <4>1 DEF PunctualInv
      <4> QED  BY <2>1, <2>2, <2>3, <2>4, <2>5, <3>2, <4>2, Limits DEF PunctualInv
    <3> QED  BY <3>1, <3>2
  <2> QED  BY <2>6, <2>7, <2>8 DEF IdleIInv
<1>12. CASE handleVisibility
  <2>1. CASE triggerDisconnect /\ UNCHANGED <<now, open, hasMounted, lastWrite, active, since, slept>>
    <3>1. isConnected' = FALSE /\ NoTimers /\ session' = FALSE /\ lastActivityAt' = NoTime
      BY <2>1 DEF triggerDisconnect, EndSession
    <3> QED  BY <1>1, <1>6, <2>1, <3>1 DEF IdleTypeOK
  <2>2. CASE /\ expiryAt' = lastActivityAt + IDLE_LIMIT
             /\ UNCHANGED <<now, open, hasMounted, lastWrite, active, since, slept, isConnected,
                            session, lastActivityAt, inactivityAt, countdownAt, warning>>
    <3>1. isConnected /\ lastActivityAt # NoTime
      BY <1>12 DEF handleVisibility
    <3>2. /\ lastActivityAt \in Nat /\ lastActivityAt <= now /\ lastActivityAt <= Latest
          /\ now \in 0 .. MaxTime /\ Latest \in Nat
      BY <1>1, <3>1, Limits, LatestIs DEF IdleTypeOK, Times, StampInv
    <3>3. expiryAt' \in Times /\ expiryAt' # NoTime /\ expiryAt' <= Latest + IDLE_LIMIT
      BY <2>2, <3>2, Limits DEF Times
    <3>4. Latest' = Latest
      BY <2>2 DEF Latest
    <3>5. IdleTypeOK'
      BY <1>1, <2>2, <3>3 DEF IdleTypeOK
    <3>6. StampInv'
      BY <1>1, <2>2, <3>1, <3>4 DEF StampInv
    <3>7. TimersArmed'
      BY <1>1, <2>2, <3>3 DEF TimersArmed, Latest
    <3>8. PunctualInv'
      BY <1>1, <2>2, <3>4 DEF PunctualInv
    <3> QED  BY <3>5, <3>6, <3>7, <3>8 DEF IdleIInv
  <2> QED  BY <1>12, <2>1, <2>2 DEF handleVisibility
<1> QED
  BY <1>2, <1>3, <1>4, <1>5, <1>7, <1>8, <1>9, <1>10, <1>11, <1>12 DEF IdleNext

LEMMA IdleInvariant == IdleSpec => []IdleIInv
<1>1. IdleIInv /\ [IdleNext]_idleVars => IdleIInv'
  BY IdleKeeps
<1> QED  BY IdleStarts, <1>1, PTL DEF IdleSpec

(* useActivityTimeout.ts, useIdleDisconnect24h.ts: for any limits that leave *)
(* the warning time to be seen before the day is over, a connection has its  *)
(* timers running, and while they fire on time it does not outlive the last  *)
(* activity by more than warning and countdown, whatever the user clicked,   *)
(* however often he reloaded the page and for however long the clock runs.   *)
THEOREM UnattendedEnded == IdleSpec => []UnattendedSessionEnds
<1>1. IdleIInv => UnattendedSessionEnds
  <2> SUFFICES ASSUME IdleIInv
               PROVE  UnattendedSessionEnds
    OBVIOUS
  <2>1. ASSUME isConnected, ~slept
        PROVE  now - Latest <= INACTIVITY_TIMEOUT + WARNING_COUNTDOWN
    <3>1. now \in Nat /\ Latest \in Nat
      BY LatestIs DEF IdleIInv
    <3>2. CASE warning
      <4>1. countdownAt \in Nat
        BY <2>1, <3>2, Limits DEF IdleIInv, IdleTypeOK, Times, TimersArmed
      <4> QED  BY <2>1, <3>1, <3>2, <4>1, Limits DEF IdleIInv, PunctualInv
    <3>3. CASE ~warning
      <4>1. inactivityAt \in Nat
        BY <2>1, <3>3, Limits DEF IdleIInv, IdleTypeOK, Times, TimersArmed
      <4> QED  BY <2>1, <3>1, <3>3, <4>1, Limits DEF IdleIInv, PunctualInv
    <3> QED  BY <3>2, <3>3
  <2> QED  BY <2>1 DEF IdleIInv, UnattendedSessionEnds, UnattendedEnds, Latest
<1> QED  BY IdleInvariant, <1>1, PTL

-----------------------------------------------------------------------------
(* The allowance (AllowanceManager.tsx, grantAllowanceUsd of hedera.ts).    *)
(* What a call says follows from what the wallet has answered, and when it  *)
(* has timed out, the wallet has had the transaction for longer than it is  *)
(* valid.                                                                   *)

CallFields == {"kind", "contract", "amount", "phase", "live", "prompt", "age", "shownFor",
               "cancelled", "answer", "fate", "said"}

\* A call the wallet shows has no fate yet; one that is accepted has; one that has
\* ended with a verdict is not shown any more, or has expired.
CallInv(r) ==
    /\ DOMAIN r = CallFields
    /\ r.fate \in Fates /\ r.age \in 0 .. Patience /\ r.shownFor \in 0 .. Patience /\ r.shownFor <= r.age
    /\ r.prompt => r.answer = "none"
    /\ r.answer = "accepted" <=> r.fate # "none"
    /\ r.phase \in {"none", "freezing", "queued"} => ~r.prompt /\ r.answer = "none" /\ r.said = "none"
    /\ r.phase \in {"confirm", "reconcile"} => r.answer = "accepted"
    /\ r.phase = "reconcile" => r.fate = "done"
    /\ r.said \in {"active", "revoked"} => r.fate = "done"
    /\ r.said \in {"failed", "rejected"} => r.fate # "done"
    /\ r.said \notin {"none", "cancelled"} => ~r.prompt \/ r.age >= Validity

\* The calls of this tab that have asked for the lock: the first is in the wallet,
\* the others wait.
LockInv ==
    /\ lock \in Seq(Requests \cup {Elsewhere})
    /\ \A j, k \in 1 .. Len(lock) : j # k => lock[j] # lock[k]
    /\ \A k \in 1 .. Len(lock) :
          lock[k] # Elsewhere => request[lock[k]].phase = IF k = 1 THEN "wallet" ELSE "queued"

AllowanceIInv == DOMAIN request = Requests /\ (\A i \in Requests : CallInv(request[i])) /\ LockInv

\* What a step may do to a call.
Stands(old, new) == CallInv(new) /\ (old.said \notin {"none", "cancelled"} => new.fate = old.fate)

\* No call has been made when the page is opened.
LEMMA AllowanceStarts == AllowanceInit => AllowanceIInv
<1> SUFFICES ASSUME AllowanceInit PROVE AllowanceIInv
  OBVIOUS
<1>1. CallInv(NoRequest)
  BY AllowanceAssumption DEF NoRequest, CallInv, CallFields, Fates
<1>2. LockInv
  BY DEF AllowanceInit, LockInv
<1> QED
  BY <1>1, <1>2 DEF AllowanceInit, AllowanceIInv

\* A call that waits is shown.
LEMMA ShowStands ==
  ASSUME NEW r, CallInv(r), r.phase \in {"freezing", "queued"}
  PROVE  Stands(r, Show(r)) /\ Show(r).phase = "wallet"
BY DEF CallInv, CallFields, Stands, Show

\* A call ends with a verdict that is true and final.
LEMMA EndStands ==
  ASSUME NEW r, CallInv(r), NEW saying,
         r.live => /\ saying \in {"active", "revoked"} => r.fate = "done"
                   /\ saying \in {"failed", "rejected"} => r.fate # "done"
                   /\ saying \notin {"none", "cancelled"} => ~r.prompt \/ r.age >= Validity
  PROVE  Stands(r, RequestEnded(r, saying))
<1>1. CASE r.live
  <2>1. RequestEnded(r, saying) = [r EXCEPT !.phase = "over", !.live = FALSE, !.said = saying]
    BY <1>1 DEF RequestEnded
  <2> QED
    BY <1>1, <2>1 DEF CallInv, CallFields, Stands
<1>2. CASE ~r.live
  <2>1. RequestEnded(r, saying) = [r EXCEPT !.phase = "over", !.live = FALSE, !.said = r.said]
    BY <1>2 DEF RequestEnded
  <2> QED
    BY <1>2, <2>1 DEF CallInv, CallFields, Stands
<1> QED
  BY <1>1, <1>2

\* The lock goes to the next call, which the wallet shows.
LEMMA UnlockStands ==
  ASSUME AllowanceIInv, lock # << >>, NEW calls, DOMAIN calls = Requests, UnlockRequest(calls),
         \A i \in Requests : Stands(request[i], calls[i]),
         \A k \in 2 .. Len(lock) : lock[k] # Elsewhere => calls[lock[k]] = request[lock[k]]
  PROVE  AllowanceIInv' /\ (\A i \in Requests : Stands(request[i], request'[i]))
<1>1. /\ lock \in Seq(Requests \cup {Elsewhere}) /\ lock' = Tail(lock) /\ lock' \in Seq(Requests \cup {Elsewhere})
      /\ Len(lock) \in Nat /\ Len(lock') = Len(lock) - 1 /\ Len(lock) >= 1
      /\ \A k \in 1 .. Len(lock') : lock'[k] = lock[k + 1]
      /\ \A j, k \in 1 .. Len(lock) : j # k => lock[j] # lock[k]
  BY DEF AllowanceIInv, LockInv, UnlockRequest
<1>2. \A j, k \in 1 .. Len(lock') : j # k => lock'[j] # lock'[k]
  BY <1>1
<1>3. \A k \in 2 .. Len(lock) : lock[k] # Elsewhere => lock[k] \in Requests /\ calls[lock[k]].phase = "queued"
  <2> SUFFICES ASSUME NEW k \in 2 .. Len(lock), lock[k] # Elsewhere
               PROVE  lock[k] \in Requests /\ calls[lock[k]].phase = "queued"
    OBVIOUS
  <2>1. k \in 1 .. Len(lock) /\ k # 1 /\ lock[k] \in Requests
    BY <1>1
  <2> QED
    BY <2>1 DEF AllowanceIInv, LockInv
<1>4. CASE Tail(lock) = << >> \/ lock[2] = Elsewhere
  <2>1. request' = calls
    BY <1>4 DEF UnlockRequest
  <2>2. \A k \in 1 .. Len(lock') : lock'[k] # Elsewhere
              => request'[lock'[k]].phase = IF k = 1 THEN "wallet" ELSE "queued"
    <3> SUFFICES ASSUME NEW k \in 1 .. Len(lock'), lock'[k] # Elsewhere
                 PROVE  request'[lock'[k]].phase = IF k = 1 THEN "wallet" ELSE "queued"
      OBVIOUS
    <3>1. k + 1 \in 2 .. Len(lock) /\ lock'[k] = lock[k + 1]
      BY <1>1
    <3>2. lock[2] = Elsewhere
      <4>1. ASSUME lock' = << >> PROVE FALSE
        BY <4>1
      <4> QED
        BY <1>1, <1>4, <4>1
    <3>3. k # 1
      BY <3>1, <3>2
    <3> QED
      BY <1>3, <2>1, <3>1, <3>3
  <2> QED
    BY <1>1, <1>2, <2>1, <2>2 DEF AllowanceIInv, LockInv, Stands
<1>5. CASE Tail(lock) # << >> /\ lock[2] # Elsewhere
  <2>1. PICK next \in Requests : next = lock[2] /\ 2 \in 2 .. Len(lock)
    BY <1>1, <1>3, <1>5
  <2>2. request' = [calls EXCEPT ![next] = Show(calls[next])]
    BY <1>5, <2>1 DEF UnlockRequest
  <2>3. calls[next] = request[next] /\ calls[next].phase = "queued"
    BY <1>3, <1>5, <2>1
  <2>4. Stands(request[next], Show(request[next])) /\ Show(request[next]).phase = "wallet"
    BY <2>3, ShowStands DEF AllowanceIInv
  <2>5. /\ DOMAIN request' = Requests /\ request'[next] = Show(request[next])
        /\ \A i \in Requests \ {next} : request'[i] = calls[i]
    BY <2>2, <2>3
  <2>6. \A i \in Requests : Stands(request[i], request'[i])
    BY <2>4, <2>5
  <2>7. \A k \in 1 .. Len(lock') : lock'[k] # Elsewhere
              => request'[lock'[k]].phase = IF k = 1 THEN "wallet" ELSE "queued"
    <3> SUFFICES ASSUME NEW k \in 1 .. Len(lock'), lock'[k] # Elsewhere
                 PROVE  request'[lock'[k]].phase = IF k = 1 THEN "wallet" ELSE "queued"
      OBVIOUS
    <3>1. k + 1 \in 2 .. Len(lock) /\ lock'[k] = lock[k + 1]
      BY <1>1
    <3>2. CASE k = 1
      BY <2>1, <2>4, <2>5, <3>1, <3>2
    <3>3. CASE k # 1
      <4>1. lock[k + 1] # next
        BY <1>1, <2>1, <3>1, <3>3
      <4> QED
        BY <1>3, <2>5, <3>1, <3>3, <4>1
    <3> QED
      BY <3>2, <3>3
  <2> QED
    BY <1>1, <1>2, <2>5, <2>6, <2>7 DEF AllowanceIInv, LockInv, Stands
<1> QED
  BY <1>4, <1>5

\* The holder of the lock ends, or goes on to its confirmation.
LEMMA HolderStands ==
  ASSUME AllowanceIInv, NEW i \in Requests, Holds(i), NEW after, Stands(request[i], after),
         UnlockRequest([request EXCEPT ![i] = after])
  PROVE  AllowanceIInv' /\ (\A j \in Requests : Stands(request[j], request'[j]))
<1>1. PICK calls : calls = [request EXCEPT ![i] = after]
  OBVIOUS
<1>2. DOMAIN calls = Requests /\ calls[i] = after /\ (\A j \in Requests \ {i} : calls[j] = request[j])
  BY <1>1 DEF AllowanceIInv
<1>3. \A j \in Requests : Stands(request[j], calls[j])
  BY <1>2 DEF AllowanceIInv, Stands
<1>4. lock # << >> /\ lock \in Seq(Requests \cup {Elsewhere}) /\ lock[1] = i
  BY DEF Holds, AllowanceIInv, LockInv
<1>5. \A k \in 2 .. Len(lock) : lock[k] # Elsewhere => calls[lock[k]] = request[lock[k]]
  <2> SUFFICES ASSUME NEW k \in 2 .. Len(lock), lock[k] # Elsewhere
               PROVE  calls[lock[k]] = request[lock[k]]
    OBVIOUS
  <2>1. k \in 1 .. Len(lock) /\ 1 \in 1 .. Len(lock) /\ k # 1 /\ lock[k] \in Requests
    BY <1>4
  <2>2. lock[k] # i
    BY <1>4, <2>1 DEF AllowanceIInv, LockInv
  <2> QED
    BY <1>2, <2>1, <2>2
<1> QED
  BY <1>1, <1>2, <1>3, <1>4, <1>5, UnlockStands

\* A call that stays where it is with regard to the lock.
LEMMA CallStands ==
  ASSUME AllowanceIInv, NEW i \in Requests, NEW after, Stands(request[i], after),
         \/ after.phase = request[i].phase
         \/ request[i].phase \notin {"wallet", "queued"},
         request' = [request EXCEPT ![i] = after], lock' = lock
  PROVE  AllowanceIInv' /\ (\A j \in Requests : Stands(request[j], request'[j]))
<1>1. DOMAIN request' = Requests /\ request'[i] = after /\ (\A j \in Requests \ {i} : request'[j] = request[j])
  BY DEF AllowanceIInv
<1>2. \A j \in Requests : Stands(request[j], request'[j])
  BY <1>1 DEF AllowanceIInv, Stands
<1>3. \A k \in 1 .. Len(lock) : lock[k] # Elsewhere
              => request'[lock[k]].phase = IF k = 1 THEN "wallet" ELSE "queued"
  <2> SUFFICES ASSUME NEW k \in 1 .. Len(lock), lock[k] # Elsewhere
               PROVE  request'[lock[k]].phase = IF k = 1 THEN "wallet" ELSE "queued"
    OBVIOUS
  <2>1. lock[k] \in Requests
    BY DEF AllowanceIInv, LockInv
  <2>2. request[lock[k]].phase = IF k = 1 THEN "wallet" ELSE "queued"
    BY DEF AllowanceIInv, LockInv
  <2> QED
    BY <1>1, <2>1, <2>2
<1> QED
  BY <1>1, <1>2, <1>3 DEF AllowanceIInv, LockInv, Stands

\* The calls are left alone.
LEMMA CallsIdle ==
  ASSUME AllowanceIInv, UNCHANGED <<request, lock>>
  PROVE  AllowanceIInv' /\ (\A j \in Requests : Stands(request[j], request'[j]))
BY DEF AllowanceIInv, LockInv, Stands

\* Every step keeps what the calls say true, and lets a verdict be final.
LEMMA AllowanceSteps ==
  ASSUME AllowanceIInv, [AllowanceNext]_allowanceVars
  PROVE  AllowanceIInv' /\ (\A j \in Requests : Stands(request[j], request'[j]))
<1> DEFINE Goal == AllowanceIInv' /\ (\A j \in Requests : Stands(request[j], request'[j]))
<1> HIDE DEF Goal
<1> SUFFICES Goal
  BY DEF Goal
<1>0. ASSUME UNCHANGED <<request, lock>> PROVE Goal
  BY <1>0, CallsIdle DEF Goal
<1>1. CASE UNCHANGED allowanceVars
  BY <1>0, <1>1 DEF allowanceVars
<1>2. CASE MarketsLoad \/ CloseSidebar \/ refreshBalances \/ refreshAllowance \/ MirrorCatchesUp
  BY <1>0, <1>2 DEF MarketsLoad, CloseSidebar, refreshBalances, refreshAllowance, MirrorCatchesUp, flow
<1>3. ASSUME NEW c \in Contracts, PickContract(c) \/ OpenSidebar(c) \/ fetchMarketAllowance(c) \/ Spend(c)
      PROVE  Goal
  BY <1>0, <1>3 DEF PickContract, OpenSidebar, fetchMarketAllowance, Spend, flow
<1>4. ASSUME NEW r \in reading, MirrorAnswers(r) \/ ReadFails(r) PROVE Goal
  BY <1>0, <1>4 DEF MirrorAnswers, ReadFails, flow
<1>5. ASSUME NEW a \in arrived, Arrive(a) PROVE Goal
  BY <1>0, <1>5 DEF Arrive, flow
<1>6. ASSUME NEW i \in Requests, NEW kind, NEW total, grantAllowanceUsd(i, kind, total) PROVE Goal
  <2> DEFINE after == [NoRequest EXCEPT !.kind = kind, !.contract = smartContractId, !.amount = total,
                                        !.phase = "freezing", !.live = TRUE]
  <2>1. request[i] = NoRequest /\ request' = [request EXCEPT ![i] = after] /\ lock' = lock
    BY <1>6 DEF grantAllowanceUsd
  <2>2. CallInv(NoRequest) /\ NoRequest.phase = "none" /\ NoRequest.said = "none"
    BY AllowanceAssumption DEF NoRequest, CallInv, CallFields, Fates
  <2>3. Stands(NoRequest, after)
    BY <2>2 DEF Stands, CallInv, CallFields
  <2> HIDE DEF after
  <2>4. request[i].phase \notin {"wallet", "queued"} /\ Stands(request[i], after)
    BY <2>1, <2>2, <2>3
  <2> QED
    BY <2>1, <2>4, CallStands DEF Goal
<1>7. ASSUME NEW i \in Requests, handleRevokeAllowance(i) PROVE Goal
  BY <1>6, <1>7 DEF handleRevokeAllowance
<1>8. ASSUME NEW i \in Requests, NEW amount \in Amounts, NEW max \in BOOLEAN, handleGrantAllowance(i, amount, max)
      PROVE  Goal
  BY <1>6, <1>8 DEF handleGrantAllowance
<1>9. CASE handleCancel
  <2>1. CASE activeWalletLabel /\ request[Head(lock)].live
    <3>1. PICK i \in Requests : i = Head(lock)
      BY <2>1 DEF activeWalletLabel, AllowanceIInv, LockInv
    <3> DEFINE after == [request[i] EXCEPT !.live = FALSE, !.cancelled = TRUE, !.said = "cancelled"]
    <3>2. request' = [request EXCEPT ![i] = after] /\ lock' = lock
      BY <1>9, <2>1, <3>1 DEF handleCancel
    <3>3. CallInv(request[i])
      BY DEF AllowanceIInv
    <3>4. request[i].phase \notin {"none", "freezing", "queued"}
      <4>1. lock # << >> /\ lock[1] = i /\ i # Elsewhere /\ 1 \in 1 .. Len(lock)
        BY <2>1, <3>1 DEF activeWalletLabel, AllowanceIInv, LockInv
      <4> QED
        BY <4>1 DEF AllowanceIInv, LockInv
    <3>5. Stands(request[i], after) /\ after.phase = request[i].phase
      BY <3>3, <3>4 DEF Stands, CallInv, CallFields
    <3> HIDE DEF after
    <3> QED
      BY <3>2, <3>5, CallStands DEF Goal
  <2>2. CASE ~(activeWalletLabel /\ request[Head(lock)].live)
    BY <1>0, <1>9, <2>2 DEF handleCancel
  <2> QED
    BY <2>1, <2>2
<1>10. ASSUME NEW i \in Requests, Frozen(i) PROVE Goal
  <2>1. CallInv(request[i]) /\ request[i].phase = "freezing"
    BY <1>10 DEF Frozen, AllowanceIInv
  <2>2. PICK after : /\ request' = [request EXCEPT ![i] = after] /\ Stands(request[i], after)
                    /\ after.phase = IF lock = << >> THEN "wallet" ELSE "queued"
    <3>1. CASE lock = << >>
      BY <1>10, <2>1, <3>1, ShowStands DEF Frozen
    <3>2. CASE lock # << >>
      <4>1. request' = [request EXCEPT ![i] = [request[i] EXCEPT !.phase = "queued"]]
        BY <1>10, <3>2 DEF Frozen
      <4>2. /\ Stands(request[i], [request[i] EXCEPT !.phase = "queued"])
            /\ [request[i] EXCEPT !.phase = "queued"].phase = "queued"
        BY <2>1 DEF Stands, CallInv, CallFields
      <4> QED
        BY <3>2, <4>1, <4>2
    <3> QED
      BY <3>1, <3>2
  <2>3. /\ DOMAIN request' = Requests /\ request'[i] = after
        /\ (\A j \in Requests \ {i} : request'[j] = request[j])
    BY <2>2 DEF AllowanceIInv
  <2>4. /\ lock' = Append(lock, i) /\ lock \in Seq(Requests \cup {Elsewhere}) /\ Len(lock) \in Nat
        /\ lock' \in Seq(Requests \cup {Elsewhere}) /\ Len(lock') = Len(lock) + 1 /\ lock'[Len(lock) + 1] = i
        /\ \A k \in 1 .. Len(lock) : lock'[k] = lock[k]
        /\ i # Elsewhere /\ (lock = << >> <=> Len(lock) = 0)
    BY <1>10 DEF Frozen, AllowanceIInv, LockInv, Requests, Elsewhere
  <2>5. \A k \in 1 .. Len(lock) : lock[k] # i
    BY <2>1, <2>4 DEF AllowanceIInv, LockInv
  <2>6. \A j, k \in 1 .. Len(lock') : j # k => lock'[j] # lock'[k]
    <3> SUFFICES ASSUME NEW j \in 1 .. Len(lock'), NEW k \in 1 .. Len(lock'), j # k
                 PROVE  lock'[j] # lock'[k]
      OBVIOUS
    <3>1. j \in 1 .. Len(lock) \/ j = Len(lock) + 1
      BY <2>4
    <3>2. k \in 1 .. Len(lock) \/ k = Len(lock) + 1
      BY <2>4
    <3> QED
      BY <2>4, <2>5, <3>1, <3>2 DEF AllowanceIInv, LockInv
  <2>7. \A k \in 1 .. Len(lock') : lock'[k] # Elsewhere
              => request'[lock'[k]].phase = IF k = 1 THEN "wallet" ELSE "queued"
    <3> SUFFICES ASSUME NEW k \in 1 .. Len(lock'), lock'[k] # Elsewhere
                 PROVE  request'[lock'[k]].phase = IF k = 1 THEN "wallet" ELSE "queued"
      OBVIOUS
    <3>1. CASE k \in 1 .. Len(lock)
      <4>1. lock'[k] = lock[k] /\ lock[k] \in Requests \ {i}
        BY <2>4, <2>5, <3>1
      <4>2. request[lock[k]].phase = IF k = 1 THEN "wallet" ELSE "queued"
        BY <3>1, <4>1 DEF AllowanceIInv, LockInv
      <4> QED
        BY <2>3, <4>1, <4>2
    <3>2. CASE k = Len(lock) + 1
      BY <2>2, <2>3, <2>4, <3>2
    <3> QED
      BY <2>4, <3>1, <3>2
  <2>8. \A j \in Requests : Stands(request[j], request'[j])
    BY <2>2, <2>3 DEF AllowanceIInv, Stands
  <2> QED
    BY <2>3, <2>4, <2>6, <2>7, <2>8 DEF Goal, AllowanceIInv, LockInv, Stands
<1>11. ASSUME NEW i \in Requests, FreezeFails(i) PROVE Goal
  <2>1. CallInv(request[i]) /\ request[i].phase = "freezing"
    BY <1>11 DEF FreezeFails, AllowanceIInv
  <2>2. Stands(request[i], RequestEnded(request[i], "failed"))
    <3>1. request[i].fate # "done" /\ ~request[i].prompt
      BY <2>1 DEF CallInv
    <3> QED
      BY <2>1, <3>1, EndStands
  <2>3. request' = [request EXCEPT ![i] = RequestEnded(request[i], "failed")] /\ lock' = lock
    BY <1>11 DEF FreezeFails
  <2> QED
    BY <2>1, <2>2, <2>3, CallStands DEF Goal
<1>12. ASSUME NEW i \in Requests, ApproveRequest(i) PROVE Goal
  <2>1. CallInv(request[i]) /\ request[i].prompt
    BY <1>12 DEF ApproveRequest, AllowanceIInv
  <2>2. PICK fate \in IF request[i].age < Validity THEN {"done", "reverted"} ELSE {"none"} :
            request' = [request EXCEPT ![i].prompt = FALSE, ![i].fate = fate,
                                       ![i].answer = IF fate = "none" THEN "refused" ELSE "accepted"]
    BY <1>12 DEF ApproveRequest
  <2> DEFINE after == [request[i] EXCEPT !.prompt = FALSE, !.fate = fate,
                                         !.answer = IF fate = "none" THEN "refused" ELSE "accepted"]
  <2>3. request' = [request EXCEPT ![i] = after] /\ lock' = lock
    BY <1>12, <2>2 DEF ApproveRequest, AllowanceIInv
  <2>4. request[i].answer = "none" /\ request[i].fate = "none"
    BY <2>1 DEF CallInv
  <2>5. CASE request[i].age < Validity
    <3>1. fate \in {"done", "reverted"} /\ request[i].said \in {"none", "cancelled"}
      <4>1. request[i].age \in Nat /\ Validity \in Nat
        BY <2>1, AllowanceAssumption DEF CallInv
      <4> QED
        BY <2>1, <2>2, <2>5, <4>1 DEF CallInv
    <3>2. Stands(request[i], after) /\ after.phase = request[i].phase
      BY <2>1, <2>4, <3>1 DEF Stands, CallInv, CallFields, Fates
    <3> HIDE DEF after
    <3> QED
      BY <2>3, <3>2, CallStands DEF Goal
  <2>6. CASE ~(request[i].age < Validity)
    <3>1. fate = "none"
      BY <2>2, <2>6
    <3>2. Stands(request[i], after) /\ after.phase = request[i].phase
      BY <2>1, <2>4, <3>1 DEF Stands, CallInv, CallFields, Fates
    <3> HIDE DEF after
    <3> QED
      BY <2>3, <3>2, CallStands DEF Goal
  <2> QED
    BY <2>5, <2>6
<1>13. ASSUME NEW i \in Requests, Reject(i) PROVE Goal
  <2>1. CallInv(request[i]) /\ request[i].prompt
    BY <1>13 DEF Reject, AllowanceIInv
  <2> DEFINE after == [request[i] EXCEPT !.prompt = FALSE, !.answer = "rejected"]
  <2>2. request' = [request EXCEPT ![i] = after] /\ lock' = lock
    BY <1>13 DEF Reject, AllowanceIInv
  <2>3. Stands(request[i], after) /\ after.phase = request[i].phase
    BY <2>1 DEF Stands, CallInv, CallFields
  <2> HIDE DEF after
  <2> QED
    BY <2>2, <2>3, CallStands DEF Goal
<1>14. ASSUME NEW i \in Requests, WalletAnswers(i) PROVE Goal
  <2>1. CallInv(request[i]) /\ Holds(i) /\ request[i].answer # "none" /\ ~request[i].prompt
    BY <1>14 DEF WalletAnswers, AllowanceIInv, CallInv
  <2>2. CASE request[i].answer = "accepted" /\ request[i].live
    <3> DEFINE after == [request[i] EXCEPT !.phase = "confirm"]
    <3>1. UnlockRequest([request EXCEPT ![i] = after])
      BY <1>14, <2>2 DEF WalletAnswers, AllowanceIInv
    <3>2. Stands(request[i], after)
      BY <2>1, <2>2 DEF Stands, CallInv, CallFields
    <3> HIDE DEF after
    <3> QED
      BY <2>1, <3>1, <3>2, HolderStands DEF Goal
  <2>3. CASE ~(request[i].answer = "accepted" /\ request[i].live)
    <3> DEFINE saying == IF request[i].answer = "rejected" THEN "rejected" ELSE "failed"
    <3>1. UnlockRequest([request EXCEPT ![i] = RequestEnded(request[i], saying)])
      BY <1>14, <2>3 DEF WalletAnswers
    <3>2. request[i].live => request[i].fate # "done"
      BY <2>1, <2>3 DEF CallInv
    <3>3. Stands(request[i], RequestEnded(request[i], saying))
      BY <2>1, <3>2, EndStands
    <3> QED
      BY <2>1, <3>1, <3>3, HolderStands DEF Goal
  <2> QED
    BY <2>2, <2>3
<1>15. ASSUME NEW i \in Requests, Timeout(i) PROVE Goal
  <2>1. CallInv(request[i]) /\ Holds(i) /\ request[i].shownFor = Patience
    BY <1>15 DEF Timeout, AllowanceIInv
  <2>2. request[i].age >= Validity
    BY <2>1, AllowanceAssumption DEF CallInv
  <2>3. Stands(request[i], RequestEnded(request[i], "timeout"))
    BY <2>1, <2>2, EndStands
  <2> QED
    BY <1>15, <2>1, <2>3, HolderStands DEF Timeout, Goal
<1>16. ASSUME NEW i \in Requests, GraceOver(i) PROVE Goal
  <2>1. CallInv(request[i]) /\ Holds(i)
    BY <1>16 DEF GraceOver, AllowanceIInv
  <2>2. Stands(request[i], RequestEnded(request[i], "none"))
    BY <2>1, EndStands
  <2> QED
    BY <1>16, <2>1, <2>2, HolderStands DEF GraceOver, Goal
<1>17. ASSUME NEW i \in Requests, ConfirmRequest(i) PROVE Goal
  <2>1. CallInv(request[i]) /\ request[i].phase = "confirm"
    BY <1>17 DEF ConfirmRequest, AllowanceIInv
  <2>2. request[i].answer = "accepted" /\ ~request[i].prompt /\ request[i].fate \in Fates
    BY <2>1 DEF CallInv
  <2>3. PICK verdict \in confirmTx(request[i].fate) :
            IF verdict = "success" THEN request' = [request EXCEPT ![i].phase = "reconcile"]
            ELSE request' = [request EXCEPT ![i] = RequestEnded(request[i], verdict)]
    BY <1>17 DEF ConfirmRequest
  <2>4. /\ verdict \in {"success", "failed", "pending"}
        /\ verdict = "success" => request[i].fate = "done"
        /\ verdict = "failed" => request[i].fate = "reverted"
    BY <2>2, <2>3, Confirmed
  <2>5. lock' = lock
    BY <1>17 DEF ConfirmRequest
  <2>6. CASE verdict = "success"
    <3> DEFINE after == [request[i] EXCEPT !.phase = "reconcile"]
    <3>1. request' = [request EXCEPT ![i] = after]
      BY <2>3, <2>6 DEF AllowanceIInv
    <3>2. Stands(request[i], after)
      BY <2>1, <2>2, <2>4, <2>6 DEF Stands, CallInv, CallFields
    <3> HIDE DEF after
    <3> QED
      BY <2>1, <2>5, <3>1, <3>2, CallStands DEF Goal
  <2>7. CASE verdict # "success"
    <3>1. Stands(request[i], RequestEnded(request[i], verdict))
      BY <2>1, <2>2, <2>4, <2>7, EndStands
    <3> QED
      BY <2>1, <2>3, <2>5, <2>7, <3>1, CallStands DEF Goal
  <2> QED
    BY <2>6, <2>7
<1>18. ASSUME NEW i \in Requests, Reconcile(i) PROVE Goal
  <2> DEFINE saying == IF request[i].kind = "grant" THEN "active" ELSE "revoked"
  <2>1. CallInv(request[i]) /\ request[i].phase = "reconcile"
    BY <1>18 DEF Reconcile, AllowanceIInv
  <2>2. request[i].fate = "done" /\ ~request[i].prompt
    BY <2>1 DEF CallInv
  <2>3. Stands(request[i], RequestEnded(request[i], saying))
    BY <2>1, <2>2, EndStands
  <2>4. request' = [request EXCEPT ![i] = RequestEnded(request[i], saying)] /\ lock' = lock
    BY <1>18 DEF Reconcile
  <2> QED
    BY <2>1, <2>3, <2>4, CallStands DEF Goal
<1>19. CASE OtherTabAsks
  <2>1. /\ lock' = Append(lock, Elsewhere) /\ request' = request /\ lock \in Seq(Requests \cup {Elsewhere})
        /\ Len(lock) \in Nat /\ lock' \in Seq(Requests \cup {Elsewhere}) /\ Len(lock') = Len(lock) + 1
        /\ lock'[Len(lock) + 1] = Elsewhere /\ \A k \in 1 .. Len(lock) : lock'[k] = lock[k]
        /\ \A k \in 1 .. Len(lock) : lock[k] # Elsewhere
    BY <1>19 DEF OtherTabAsks, AllowanceIInv, LockInv
  <2>2. \A j, k \in 1 .. Len(lock') : j # k => lock'[j] # lock'[k]
    <3> SUFFICES ASSUME NEW j \in 1 .. Len(lock'), NEW k \in 1 .. Len(lock'), j # k
                 PROVE  lock'[j] # lock'[k]
      OBVIOUS
    <3>1. j \in 1 .. Len(lock) \/ j = Len(lock) + 1
      BY <2>1
    <3>2. k \in 1 .. Len(lock) \/ k = Len(lock) + 1
      BY <2>1
    <3> QED
      BY <2>1, <3>1, <3>2 DEF AllowanceIInv, LockInv
  <2>3. \A k \in 1 .. Len(lock') : lock'[k] # Elsewhere
              => request'[lock'[k]].phase = IF k = 1 THEN "wallet" ELSE "queued"
    <3> SUFFICES ASSUME NEW k \in 1 .. Len(lock'), lock'[k] # Elsewhere
                 PROVE  request'[lock'[k]].phase = IF k = 1 THEN "wallet" ELSE "queued"
      OBVIOUS
    <3>1. k \in 1 .. Len(lock)
      BY <2>1
    <3> QED
      BY <2>1, <3>1 DEF AllowanceIInv, LockInv
  <2> QED
    BY <2>1, <2>2, <2>3 DEF Goal, AllowanceIInv, LockInv, Stands
<1>20. CASE OtherTabEnds
  <2>1. /\ lock # << >> /\ lock[1] = Elsewhere /\ UnlockRequest(request)
    BY <1>20 DEF OtherTabEnds, Holds, AllowanceIInv, LockInv
  <2>2. \A j \in Requests : Stands(request[j], request[j])
    BY DEF AllowanceIInv, Stands
  <2> QED
    BY <2>1, <2>2, UnlockStands DEF Goal, AllowanceIInv
<1>21. CASE AllowanceTick
  <2>1. ASSUME NEW j \in Requests
        PROVE  Stands(request[j], request'[j]) /\ request'[j].phase = request[j].phase
    <3> DEFINE a == IF request[j].phase \in {"queued", "wallet"} \/ request[j].prompt
                    THEN OneMore(request[j].age) ELSE request[j].age
               s == IF request[j].phase = "wallet" THEN OneMore(request[j].shownFor) ELSE request[j].shownFor
    <3>1. request'[j] = [request[j] EXCEPT !.age = a, !.shownFor = s]
      BY <1>21 DEF AllowanceTick
    <3>2. CallInv(request[j])
      BY DEF AllowanceIInv
    <3>3. a \in 0 .. Patience /\ s \in 0 .. Patience /\ s <= a /\ request[j].age <= a
      BY <3>2, AllowanceAssumption DEF CallInv, OneMore
    <3> HIDE DEF a, s
    <3>4. request[j].age \in Nat /\ Validity \in Nat /\ (request[j].age >= Validity => a >= Validity)
      BY <3>2, <3>3, AllowanceAssumption DEF CallInv
    <3> QED
      BY <3>1, <3>2, <3>3, <3>4 DEF Stands, CallInv, CallFields
  <2>2. DOMAIN request' = Requests /\ lock' = lock
    BY <1>21 DEF AllowanceTick
  <2>3. LockInv'
    BY <2>1, <2>2 DEF AllowanceIInv, LockInv
  <2> QED
    BY <2>1, <2>2, <2>3 DEF Goal, AllowanceIInv, Stands
<1> QED
  BY <1>1, <1>2, <1>3, <1>4, <1>5, <1>7, <1>8, <1>9, <1>10, <1>11, <1>12, <1>13, <1>14, <1>15, <1>16, <1>17,
     <1>18, <1>19, <1>20, <1>21 DEF AllowanceNext

LEMMA AllowanceInvariant == AllowanceSpec => []AllowanceIInv
<1>1. AllowanceIInv /\ [AllowanceNext]_allowanceVars => AllowanceIInv'
  BY AllowanceSteps
<1> QED  BY AllowanceStarts, <1>1, PTL DEF AllowanceSpec

(* AllowanceManager.tsx, hedera.ts: for any contracts, amounts, numbers of   *)
(* requests and times, although an answer of the wallet may be lost, what    *)
(* the page has said of a grant or a revocation is true, and stays so when   *)
(* the user approves in the wallet what the page has given up.               *)
THEOREM GrantsSafe == AllowanceSpec => GrantIsSafe
<1>1. AllowanceIInv => SaidIsTrue
  BY DEF AllowanceIInv, SaidIsTrue, CallInv
<1>2. AllowanceIInv /\ [AllowanceNext]_allowanceVars
        => [\A i \in DOMAIN request :
              request[i].said \notin {"none", "cancelled"} => request'[i].fate = request[i].fate]_allowanceVars
  <2>1. ASSUME AllowanceIInv, [AllowanceNext]_allowanceVars, NEW i \in DOMAIN request,
               request[i].said \notin {"none", "cancelled"}
        PROVE  request'[i].fate = request[i].fate
    BY <2>1, AllowanceSteps DEF AllowanceIInv, Stands
  <2> QED
    BY <2>1
<1> QED
  BY AllowanceInvariant, <1>1, <1>2, PTL DEF AllowanceSpec, GrantIsSafe
-----------------------------------------------------------------------------
(* The open sells of a market.  A request reads the position, then the open *)
(* sells, and is inserted last, while fills execute and are recorded and    *)
(* other requests do the same: what it has read is worth as much as it was  *)
(* unless it was crossed.                                                   *)

Intakes == [step : IntakeSteps, held : 0 .. Shares, crossed : BOOLEAN]
Fetched == [found : SUBSET Ids, phase : {"portfolio", "book"}]
Executed == {i \in Ids : row[i] = "executed"}

\* An order has its row when its request is through.
RowInv == \A i \in Ids : row[i] # "none" => intake[i].step \in {"inserted", "over"}

\* What a request that was not crossed has read: the fills that have executed since
\* it read the position are not recorded yet, and while it waits to insert, its
\* share is not promised to another.
ReadInv(i) ==
    ~intake[i].crossed =>
        /\ intake[i].step = "position" => intake[i].held <= position + Cardinality(Executed)
        /\ intake[i].step = "checked" => Cardinality(Outstanding) + 1 <= position

CoverInv == Cardinality(Outstanding) <= position + Cardinality(Crossed)

\* What is or was in the book has a row, and an open order the panel has seen in the
\* book is still there.
PolledInv == \A i \in book \cup panelBook : row[i] # "none" /\ (row[i] = "open" => i \in book)

ListedInv == \A i \in Ids : row[i] = "open" => i \in Counted \cup slipped

SellInv == SellTypeOK /\ RowInv /\ CoverInv /\ (\A i \in Ids : ReadInv(i)) /\ PolledInv /\ ListedInv

\* The counted sets are finite.
LEMMA SellsFinite ==
  /\ IsFiniteSet(Open) /\ Cardinality(Open) \in Nat
  /\ IsFiniteSet(Outstanding) /\ Cardinality(Outstanding) \in Nat
  /\ IsFiniteSet(Executed) /\ Cardinality(Executed) \in Nat
  /\ IsFiniteSet(Crossed) /\ Cardinality(Crossed) \in Nat
  /\ Cardinality(Open) = Cardinality(Outstanding) + Cardinality(Executed)
<1>1. /\ Open \subseteq Ids /\ Outstanding \subseteq Ids /\ Executed \subseteq Ids /\ Crossed \subseteq Ids
      /\ Open = Outstanding \cup Executed /\ Outstanding \cap Executed = {}
  BY DEF Open, Outstanding, Executed, Crossed
<1>2. IsFiniteSet(Ids)
  BY SellAssumption
<1>3. /\ IsFiniteSet(Open) /\ IsFiniteSet(Outstanding) /\ IsFiniteSet(Executed) /\ IsFiniteSet(Crossed)
  BY <1>1, <1>2, FS_Subset
<1>4. Cardinality(Open) \in Nat /\ Cardinality(Outstanding) \in Nat /\ Cardinality(Executed) \in Nat
      /\ Cardinality(Crossed) \in Nat
  BY <1>3, FS_CardinalityType
<1>5. Cardinality(Open) = Cardinality(Outstanding) + Cardinality(Executed) - Cardinality(Outstanding \cap Executed)
  BY <1>1, <1>3, FS_Union
<1>6. Cardinality(Outstanding \cap Executed) = 0
  BY <1>1, FS_EmptySet
<1> QED
  BY <1>3, <1>4, <1>5, <1>6

\* Nothing is open when the page is opened.
LEMMA SellsStart == SellInit => SellInv
<1> SUFFICES ASSUME SellInit PROVE SellInv
  OBVIOUS
<1>0. /\ Shares \in 0 .. Shares /\ NotPending \in -1 .. TTL /\ NotPending \in -1 .. SUPPRESS
      /\ "none" \in States /\ NoIntake \in Intakes
  BY SellAssumption DEF States, NotPending, NoIntake, Intakes, IntakeSteps
<1>1. SellTypeOK
  BY <1>0 DEF SellInit, SellTypeOK, Intakes
<1>2. Outstanding = {} /\ Crossed = {}
  BY DEF SellInit, Outstanding, Crossed
<1>3. CoverInv
  BY <1>2, FS_EmptySet, SellAssumption DEF CoverInv, SellInit
<1>4. \A i \in Ids : ReadInv(i)
  BY DEF SellInit, ReadInv, NoIntake
<1> QED
  BY <1>1, <1>3, <1>4 DEF SellInv, SellInit, RowInv, PolledInv, ListedInv

\* A step that leaves rows and position alone, and of the requests changes none that
\* has its row: what was read is worth what it was.
LEMMA ReadsStand ==
  ASSUME SellInv, UNCHANGED <<row, position>>,
         \A j \in Ids : \/ intake'[j].crossed = intake[j].crossed
                           /\ (intake'[j].step \in {"position", "checked"} => intake'[j] = intake[j])
                        \/ row[j] = "none" /\ ReadInv(j)'
  PROVE  CoverInv' /\ (\A j \in Ids : ReadInv(j)') /\ Outstanding' = Outstanding /\ Executed' = Executed
<1>1. Outstanding' = Outstanding /\ Executed' = Executed /\ Crossed' = Crossed
  BY DEF Outstanding, Executed, Crossed
<1>2. CoverInv'
  BY <1>1 DEF SellInv, CoverInv
<1>3. ASSUME NEW j \in Ids PROVE ReadInv(j)'
  BY <1>1 DEF SellInv, ReadInv
<1> QED
  BY <1>1, <1>2, <1>3

\* One row moves among the states in which its order is in the system.
LEMMA RowMoves ==
  ASSUME NEW i \in Ids, NEW s \in States, row \in [Ids -> States], row' = [row EXCEPT ![i] = s]
  PROVE  /\ row' \in [Ids -> States] /\ row'[i] = s /\ \A j \in Ids \ {i} : row'[j] = row[j]
         /\ row[i] \in {"open", "matched"} /\ s \in {"open", "matched"} => Outstanding' = Outstanding
         /\ row[i] \in {"open", "matched"} /\ s \notin {"open", "matched"}
              => Cardinality(Outstanding') = Cardinality(Outstanding) - 1
         /\ row[i] \notin {"open", "matched"} /\ s \in {"open", "matched"}
              => Cardinality(Outstanding') = Cardinality(Outstanding) + 1
         /\ row[i] \notin {"open", "matched"} /\ s \notin {"open", "matched"} => Outstanding' = Outstanding
         /\ row[i] # "executed" /\ s = "executed" => Cardinality(Executed') = Cardinality(Executed) + 1
         /\ row[i] # "executed" /\ s # "executed" => Executed' = Executed
<1>1. row' \in [Ids -> States] /\ row'[i] = s /\ \A j \in Ids \ {i} : row'[j] = row[j]
  OBVIOUS
<1>2. row[i] \in {"open", "matched"} /\ s \in {"open", "matched"} => Outstanding' = Outstanding
  BY <1>1 DEF Outstanding
<1>3. ASSUME row[i] \in {"open", "matched"}, s \notin {"open", "matched"}
      PROVE  Cardinality(Outstanding') = Cardinality(Outstanding) - 1
  <2>1. i \in Outstanding /\ Outstanding' = Outstanding \ {i}
    BY <1>1, <1>3 DEF Outstanding
  <2> QED
    BY <2>1, SellsFinite, FS_RemoveElement
<1>4. ASSUME row[i] \notin {"open", "matched"}, s \in {"open", "matched"}
      PROVE  Cardinality(Outstanding') = Cardinality(Outstanding) + 1
  <2>1. i \notin Outstanding /\ Outstanding' = Outstanding \cup {i}
    BY <1>1, <1>4 DEF Outstanding
  <2> QED
    BY <2>1, SellsFinite, FS_AddElement
<1>5. row[i] \notin {"open", "matched"} /\ s \notin {"open", "matched"} => Outstanding' = Outstanding
  BY <1>1 DEF Outstanding
<1>6. ASSUME row[i] # "executed", s = "executed" PROVE Cardinality(Executed') = Cardinality(Executed) + 1
  <2>1. i \notin Executed /\ Executed' = Executed \cup {i}
    BY <1>1, <1>6 DEF Executed
  <2> QED
    BY <2>1, SellsFinite, FS_AddElement
<1>7. row[i] # "executed" /\ s # "executed" => Executed' = Executed
  BY <1>1 DEF Executed
<1> QED
  BY <1>1, <1>2, <1>3, <1>4, <1>5, <1>6, <1>7

\* The page lists what it listed when only requests it still has, and rows that are
\* not open, change on the server.
LEMMA ListStands ==
  ASSUME SellInv, UNCHANGED <<panelBook, intents>>,
         \A j \in Ids : row'[j] = "open" /\ row[j] # "open" => j \in Asking' \cup slipped',
         \A j \in Ids : row'[j] = "open" /\ row[j] = "open" /\ j \in Asking
                          => j \in Asking' \cup slipped' \cup snapshotPendingSells',
         \A j \in Ids : row'[j] = "open" /\ row[j] = "open" /\ j \in snapshotPendingSells \cup slipped
                          => j \in snapshotPendingSells' \cup slipped'
  PROVE  ListedInv'
  BY DEF SellInv, ListedInv, Counted, actual

-----------------------------------------------------------------------------
\* The steps of a request.
LEMMA IntakeSells ==
  ASSUME SellInv, NEW i \in Ids,
         Submit(i) \/ SubmitElsewhere(i) \/ ReadPosition(i) \/ ReadOpenSells(i) \/ Accepted(i) \/ AnswerLost(i)
  PROVE  SellInv'
<1>0. /\ row \in [Ids -> States] /\ intake \in [Ids -> Intakes] /\ position \in 0 .. Shares /\ Shares \in Nat
      /\ slipped \subseteq Ids /\ pendingSells \in [Ids -> -1 .. TTL] /\ 0 \in -1 .. TTL
  BY SellAssumption DEF SellInv, SellTypeOK, Intakes
<1>1. /\ UNCHANGED <<row, book, position>> /\ PageOnly
  BY DEF Submit, SubmitElsewhere, ReadPosition, ReadOpenSells, Accepted, AnswerLost, ServerOnly
<1>2. /\ \A j \in Ids \ {i} : intake'[j] = intake[j]
      /\ intake' \in [Ids -> Intakes]
  <2>1. CASE Submit(i) \/ SubmitElsewhere(i) \/ ReadOpenSells(i) \/ Accepted(i) \/ AnswerLost(i)
    <3>1. PICK s \in IntakeSteps, h \in 0 .. Shares, c \in BOOLEAN :
              intake' = [intake EXCEPT ![i] = [step |-> s, held |-> h, crossed |-> c]] \/ intake' = intake
      <4>1. intake[i] \in Intakes /\ intake[i] = [step |-> intake[i].step, held |-> intake[i].held,
                                                  crossed |-> intake[i].crossed]
        BY <1>0 DEF Intakes
      <4>2. CASE Submit(i) \/ SubmitElsewhere(i)
        <5>1. intake' = [intake EXCEPT ![i] = [step |-> "asked", held |-> intake[i].held,
                                                crossed |-> intake[i].crossed]]
          BY <1>0, <4>1, <4>2 DEF Submit, SubmitElsewhere, Intakes
        <5> QED
          BY <4>1, <5>1 DEF Intakes, IntakeSteps
      <4>3. CASE ReadOpenSells(i)
        <5>1. intake' = [intake EXCEPT ![i] = [step |-> IF Reserves(i) THEN "checked" ELSE "over", held |-> 0,
                                                crossed |-> intake[i].crossed]]
          BY <1>0, <4>3 DEF ReadOpenSells
        <5>2. 0 \in 0 .. Shares /\ intake[i].crossed \in BOOLEAN
          BY <1>0, <4>1 DEF Intakes
        <5>3. CASE Reserves(i)
          BY <5>1, <5>2, <5>3 DEF IntakeSteps
        <5>4. CASE ~Reserves(i)
          BY <5>1, <5>2, <5>4 DEF IntakeSteps
        <5> QED
          BY <5>3, <5>4
      <4>4. CASE Accepted(i) \/ AnswerLost(i)
        <5>1. PICK s \in IntakeSteps : intake' = [intake EXCEPT ![i] = [step |-> s, held |-> intake[i].held,
                                                                        crossed |-> intake[i].crossed]]
          BY <1>0, <4>1, <4>4 DEF Accepted, AnswerLost, Intakes, IntakeSteps
        <5> QED
          BY <4>1, <5>1 DEF Intakes
      <4> QED
        BY <2>1, <4>2, <4>3, <4>4
    <3> QED
      BY <1>0, <3>1 DEF Intakes
  <2>2. CASE ReadPosition(i)
    <3>1. PICK held \in position .. Shares : intake' = [intake EXCEPT ![i] =
              [step |-> "position", held |-> held, crossed |-> held # position]]
      BY <2>2 DEF ReadPosition
    <3> QED
      BY <1>0, <3>1 DEF Intakes, IntakeSteps
  <2> QED
    BY <2>1, <2>2
<1>3. /\ slipped' \subseteq Ids /\ pendingSells' \in [Ids -> -1 .. TTL] /\ slipped \subseteq slipped'
      /\ \A j \in Ids \ {i} : (j \in slipped' <=> j \in slipped) /\ pendingSells'[j] = pendingSells[j]
  BY <1>0 DEF Submit, SubmitElsewhere, ReadPosition, ReadOpenSells, Accepted, AnswerLost, ServerOnly,
              recordPendingSell
<1>4. SellTypeOK'
  BY <1>0, <1>1, <1>2, <1>3 DEF SellInv, SellTypeOK, Intakes, PageOnly, tableVars
<1>5. row[i] = "none" \/ intake[i].step \in {"inserted", "over"}
  BY DEF SellInv, RowInv
<1>6. RowInv'
  <2>1. row' = row /\ (row[i] # "none" => intake'[i].step \in {"inserted", "over"})
    <3>1. CASE row[i] = "none"
      BY <1>1, <3>1
    <3>2. CASE row[i] # "none"
      <4>1. Accepted(i) \/ AnswerLost(i)
        BY <1>5, <3>2 DEF Submit, SubmitElsewhere, ReadPosition, ReadOpenSells
      <4> QED
        BY <1>0, <1>1, <1>5, <3>2, <4>1 DEF Accepted, AnswerLost, Intakes
    <3> QED
      BY <3>1, <3>2
  <2> QED
    BY <1>2, <2>1 DEF SellInv, RowInv
<1>7. \/ intake'[i].crossed = intake[i].crossed
         /\ (intake'[i].step \in {"position", "checked"} => intake'[i] = intake[i])
      \/ row[i] = "none" /\ ReadInv(i)'
  <2>1. CASE Submit(i) \/ SubmitElsewhere(i) \/ Accepted(i)
    BY <1>0, <2>1 DEF Submit, SubmitElsewhere, Accepted, Intakes
  <2>2. CASE AnswerLost(i)
    <3>1. CASE intake[i].step = "inserted"
      BY <1>0, <2>2, <3>1 DEF AnswerLost, Intakes
    <3>2. CASE intake[i].step # "inserted"
      BY <1>0, <2>2, <3>2 DEF AnswerLost, Intakes
    <3> QED
      BY <3>1, <3>2
  <2>3. CASE ReadPosition(i)
    <3>1. row[i] = "none"
      BY <1>5, <2>3 DEF ReadPosition
    <3>2. PICK held \in position .. Shares : intake'[i] = [step |-> "position", held |-> held, crossed |-> held # position]
      BY <1>0, <2>3 DEF ReadPosition
    <3>3. Executed' = Executed /\ position' = position
      BY <1>1 DEF Executed
    <3>4. ReadInv(i)'
      <4> SUFFICES ASSUME ~intake'[i].crossed PROVE intake'[i].held <= position' + Cardinality(Executed')
        BY <3>2 DEF ReadInv
      <4>1. held = position
        <5> SUFFICES ASSUME held # position PROVE FALSE
          OBVIOUS
        <5>1. (held # position) = TRUE
          OBVIOUS
        <5>2. intake'[i] = [step |-> "position", held |-> held, crossed |-> TRUE]
          BY ONLY <3>2, <5>1, Zenon
        <5> QED
          BY <5>2
      <4>2. intake'[i].held = held
        BY <3>2
      <4>3. position \in Nat /\ Cardinality(Executed) \in Nat
        BY <1>0, SellsFinite
      <4> QED
        BY <3>3, <4>1, <4>2, <4>3
    <3> QED
      BY <3>1, <3>4
  <2>4. CASE ReadOpenSells(i)
    <3>1. row[i] = "none" /\ intake[i].step = "position"
      BY <1>5, <2>4 DEF ReadOpenSells
    <3>2. /\ intake'[i].step = IF Reserves(i) THEN "checked" ELSE "over"
          /\ intake'[i].crossed = intake[i].crossed
      BY <1>0, <2>4 DEF ReadOpenSells, Intakes
    <3>3. Outstanding' = Outstanding /\ position' = position
      BY <1>1 DEF Outstanding
    <3>4. intake[i].held \in Nat
      BY <1>0 DEF Intakes
    <3>5. ~intake[i].crossed => intake[i].held <= position + Cardinality(Executed)
      BY <3>1 DEF SellInv, ReadInv
    <3>6. ASSUME Reserves(i) PROVE ReadInv(i)'
      <4> SUFFICES ASSUME ~intake'[i].crossed PROVE Cardinality(Outstanding') + 1 <= position'
        BY <3>2, <3>6 DEF ReadInv
      <4>1. Cardinality(Open) + 1 <= intake[i].held /\ intake[i].held <= position + Cardinality(Executed)
        BY <3>2, <3>5, <3>6 DEF Reserves
      <4> QED
        BY <1>0, <3>3, <3>4, <4>1, SellsFinite
    <3>7. ASSUME ~Reserves(i) PROVE ReadInv(i)'
      BY <3>2, <3>7 DEF ReadInv
    <3> QED
      BY <3>1, <3>6, <3>7
  <2> QED
    BY <2>1, <2>2, <2>3, <2>4
<1>8. CoverInv' /\ (\A j \in Ids : ReadInv(j)')
  BY <1>1, <1>2, <1>7, ReadsStand
<1>9. PolledInv'
  BY <1>1 DEF SellInv, PolledInv, PageOnly
<1>10. ListedInv'
  <2>1. UNCHANGED <<panelBook, intents, row>>
    BY <1>1 DEF PageOnly
  <2>2. \A j \in Ids : row[j] = "open" /\ j \in Asking => j \in Asking' \cup slipped' \cup snapshotPendingSells'
    <3> SUFFICES ASSUME NEW j \in Ids, row[j] = "open", j \in Asking
                 PROVE  j \in Asking' \cup slipped' \cup snapshotPendingSells'
      OBVIOUS
    <3>1. CASE j # i
      BY <1>2, <1>3, <3>1 DEF Asking
    <3>2. CASE j = i
      <4>1. intake[i].step = "inserted"
        BY <3>2 DEF SellInv, RowInv, Asking
      <4>2. Accepted(i) \/ AnswerLost(i)
        BY <4>1 DEF Submit, SubmitElsewhere, ReadPosition, ReadOpenSells
      <4> QED
        BY <1>0, <3>2, <4>2 DEF Accepted, AnswerLost, recordPendingSell, snapshotPendingSells, NotPending
    <3> QED
      BY <3>1, <3>2
  <2>3. \A j \in snapshotPendingSells \cup slipped : j \in snapshotPendingSells' \cup slipped'
    BY <1>0, <1>3 DEF Submit, SubmitElsewhere, ReadPosition, ReadOpenSells, Accepted, AnswerLost, ServerOnly,
                recordPendingSell, snapshotPendingSells, NotPending
  <2> QED
    BY <2>1, <2>2, <2>3, ListStands
<1> QED
  BY <1>4, <1>6, <1>8, <1>9, <1>10 DEF SellInv

-----------------------------------------------------------------------------
\* Rows that exist move on, the position shrinks with what is outstanding, and a
\* fill that is recorded crosses who has read the position.
LEMMA RowsStand ==
  ASSUME SellInv, row' \in [Ids -> States], intake' \in [Ids -> Intakes], position' \in 0 .. Shares,
         \A j \in Ids : /\ row'[j] # "none" <=> row[j] # "none"
                        /\ intake'[j].step = intake[j].step /\ intake'[j].held = intake[j].held
                        /\ intake[j].crossed => intake'[j].crossed
                        /\ row[j] # "none" => intake'[j].crossed = intake[j].crossed
                        /\ intake'[j].step = "position" /\ ~intake'[j].crossed
                             => position + Cardinality(Executed) <= position' + Cardinality(Executed'),
         IsFiniteSet(Outstanding') /\ IsFiniteSet(Executed'),
         Cardinality(Outstanding') + position <= Cardinality(Outstanding) + position'
  PROVE  RowInv' /\ CoverInv' /\ (\A j \in Ids : ReadInv(j)')
<1>1. /\ position \in Nat /\ position' \in Nat /\ Cardinality(Outstanding) \in Nat
      /\ Cardinality(Outstanding') \in Nat /\ Cardinality(Executed) \in Nat /\ Cardinality(Executed') \in Nat
      /\ Cardinality(Crossed) \in Nat
  <2>1. Shares \in Nat /\ position \in 0 .. Shares
    BY SellAssumption DEF SellInv, SellTypeOK
  <2> QED
    BY <2>1, SellsFinite, FS_CardinalityType
<1>2. RowInv'
  BY DEF SellInv, RowInv
<1>3. Crossed' = Crossed
  BY DEF Crossed
<1>4. CoverInv'
  <2>1. Cardinality(Outstanding) <= position + Cardinality(Crossed)
    BY DEF SellInv, CoverInv
  <2>2. Cardinality(Outstanding') <= position' + Cardinality(Crossed)
    BY <1>1, <2>1
  <2> QED
    BY <1>3, <2>2 DEF CoverInv
<1>5. ASSUME NEW j \in Ids PROVE ReadInv(j)'
  <2> SUFFICES ASSUME ~intake'[j].crossed
               PROVE  /\ intake'[j].step = "position" => intake'[j].held <= position' + Cardinality(Executed')
                      /\ intake'[j].step = "checked" => Cardinality(Outstanding') + 1 <= position'
    BY DEF ReadInv
  <2>1. ~intake[j].crossed /\ ReadInv(j) /\ intake[j].held \in Nat
    <3>1. intake[j].held \in 0 .. Shares
      BY DEF SellInv, SellTypeOK
    <3> QED
      BY <3>1, SellAssumption DEF SellInv
  <2>2. ASSUME intake'[j].step = "position" PROVE intake'[j].held <= position' + Cardinality(Executed')
    <3>1. intake[j].held <= position + Cardinality(Executed)
      BY <2>1, <2>2 DEF ReadInv
    <3>2. position + Cardinality(Executed) <= position' + Cardinality(Executed')
      BY <2>2
    <3>3. intake'[j].held = intake[j].held
      OBVIOUS
    <3> QED
      BY <1>1, <2>1, <3>1, <3>2, <3>3
  <2>3. ASSUME intake'[j].step = "checked" PROVE Cardinality(Outstanding') + 1 <= position'
    <3>1. Cardinality(Outstanding) + 1 <= position
      BY <2>1, <2>3 DEF ReadInv
    <3> QED
      BY <1>1, <3>1
  <2> QED
    BY <2>2, <2>3
<1> QED
  BY <1>2, <1>4, <1>5

\* What the page has stays as it was.
LEMMA PageStands ==
  ASSUME SellInv, ServerOnly, row' \in [Ids -> States], intake' \in [Ids -> Intakes],
         position' \in 0 .. Shares, book' \subseteq Ids
  PROVE  SellTypeOK'
BY DEF SellInv, SellTypeOK, ServerOnly, PageOnly, tableVars, Intakes

\* The insertion of a row, the last step of its request.
LEMMA InsertSells ==
  ASSUME SellInv, NEW i \in Ids, Insert(i)
  PROVE  SellInv'
<1>0. /\ row \in [Ids -> States] /\ intake \in [Ids -> Intakes] /\ position \in 0 .. Shares /\ Shares \in Nat
      /\ book \subseteq Ids
  BY SellAssumption DEF SellInv, SellTypeOK, Intakes
<1>1. intake[i].step = "checked" /\ row[i] = "none" /\ row' = [row EXCEPT ![i] = "open"]
  BY DEF Insert, SellInv, RowInv
<1>2. UNCHANGED <<book, position>> /\ ServerOnly
  BY DEF Insert
<1>3. /\ row' \in [Ids -> States] /\ row'[i] = "open" /\ (\A j \in Ids \ {i} : row'[j] = row[j])
      /\ Cardinality(Outstanding') = Cardinality(Outstanding) + 1 /\ Executed' = Executed
  <2>1. "open" \in States
    BY DEF States
  <2> QED
    BY <1>0, <1>1, <2>1, RowMoves
<1>4. ASSUME NEW j \in Ids
      PROVE  /\ intake'[j] \in Intakes /\ intake'[j].held = intake[j].held
             /\ j # i => intake'[j].step = intake[j].step
             /\ j # i => (intake'[j].crossed <=> (intake[j].crossed \/ intake[j].step = "checked"))
             /\ j = i => intake'[j].step = (IF i \in slipped THEN "over" ELSE "inserted")
             /\ j = i => intake'[j].crossed = intake[j].crossed
  <2>1. /\ intake[j] \in Intakes
        /\ intake'[j] = IF j = i THEN [intake[i] EXCEPT !.step = IF i \in slipped THEN "over" ELSE "inserted"]
                        ELSE [intake[j] EXCEPT !.crossed = @ \/ intake[j].step = "checked"]
    BY <1>0 DEF Insert
  <2>2. CASE j = i
    BY <2>1, <2>2 DEF Intakes, IntakeSteps
  <2>3. CASE j # i
    <3>1. PICK c \in BOOLEAN : /\ c <=> (intake[j].crossed \/ intake[j].step = "checked")
                               /\ intake'[j] = [intake[j] EXCEPT !.crossed = c]
      BY <2>1, <2>3 DEF Intakes
    <3> QED
      BY <2>1, <2>3, <3>1 DEF Intakes
  <2> QED
    BY <2>2, <2>3
<1>5. intake' \in [Ids -> Intakes]
  BY <1>4 DEF Insert
<1>6. SellTypeOK'
  BY <1>0, <1>2, <1>3, <1>5, PageStands
<1>7. RowInv'
  BY <1>3, <1>4 DEF SellInv, RowInv
<1>8. CoverInv'
  <2>1. \A j \in Ids \ {i} : j \in Crossed' <=> j \in Crossed
    BY <1>3, <1>4 DEF Crossed, SellInv, RowInv
  <2>2. i \notin Crossed /\ (i \in Crossed' <=> intake[i].crossed)
    BY <1>1, <1>3, <1>4 DEF Crossed
  <2>3. Crossed \subseteq Ids /\ Crossed' \subseteq Ids
    BY DEF Crossed
  <2>4. CASE intake[i].crossed
    <3>1. Crossed' = Crossed \cup {i}
      BY <2>1, <2>2, <2>3, <2>4
    <3>2. Cardinality(Crossed') = Cardinality(Crossed) + 1
      BY <2>2, <3>1, SellsFinite, FS_AddElement
    <3>3. Cardinality(Outstanding) <= position + Cardinality(Crossed)
      BY DEF SellInv, CoverInv
    <3>4. Cardinality(Outstanding') <= position + Cardinality(Crossed')
      BY <1>0, <1>3, <3>2, <3>3, SellsFinite
    <3> QED
      BY <1>2, <3>4 DEF CoverInv
  <2>5. CASE ~intake[i].crossed
    <3>1. Crossed' = Crossed
      BY <2>1, <2>2, <2>3, <2>5
    <3>2. Cardinality(Outstanding) + 1 <= position
      BY <1>1, <2>5 DEF SellInv, ReadInv
    <3>3. Cardinality(Outstanding') <= position + Cardinality(Crossed)
      BY <1>0, <1>3, <3>2, SellsFinite
    <3> QED
      BY <1>2, <3>1, <3>3 DEF CoverInv
  <2> QED
    BY <2>4, <2>5
<1>9. ASSUME NEW j \in Ids PROVE ReadInv(j)'
  <2>1. CASE j = i
    BY <1>4, <2>1 DEF ReadInv
  <2>2. CASE j # i /\ intake[j].step = "checked"
    BY <1>4, <2>2 DEF ReadInv
  <2>3. CASE j # i /\ intake[j].step # "checked"
    BY <1>2, <1>3, <1>4, <2>3 DEF ReadInv, SellInv
  <2> QED
    BY <2>1, <2>2, <2>3
<1>10. PolledInv'
  <2>1. i \notin book \cup panelBook /\ panelBook' = panelBook /\ panelBook \subseteq Ids
    BY <1>1, <1>2 DEF SellInv, PolledInv, ServerOnly, PageOnly, SellTypeOK
  <2> QED
    BY <1>0, <1>2, <1>3, <2>1 DEF SellInv, PolledInv
<1>11. ListedInv'
  <2>1. UNCHANGED <<panelBook, intents, pendingSells, slipped>>
    BY <1>2 DEF ServerOnly, PageOnly
  <2>2. snapshotPendingSells' = snapshotPendingSells
    BY <2>1 DEF snapshotPendingSells
  <2>3. i \in Asking' \cup slipped'
    BY <1>4, <2>1 DEF Asking
  <2>4. \A j \in Ids \ {i} : j \in Asking => j \in Asking'
    BY <1>4, <2>1 DEF Asking
  <2> QED
    BY <1>1, <1>3, <2>1, <2>2, <2>3, <2>4, ListStands
<1> QED
  BY <1>6, <1>7, <1>8, <1>9, <1>10, <1>11 DEF SellInv

\* The book, the fills and the cancellations.
LEMMA ServerSells ==
  ASSUME SellInv, NEW i \in Ids,
         EnterBook(i) \/ Match(i) \/ FillExecutes(i) \/ Record(i) \/ LeaveBook(i) \/ handleConfirmCancel(i)
  PROVE  SellInv'
<1>0. /\ row \in [Ids -> States] /\ intake \in [Ids -> Intakes] /\ position \in 0 .. Shares /\ Shares \in Nat
      /\ book \subseteq Ids /\ panelBook \subseteq Ids
  BY SellAssumption DEF SellInv, SellTypeOK, Intakes
<1>1. row[i] # "none"
  BY <1>0 DEF EnterBook, Match, FillExecutes, Record, LeaveBook, handleConfirmCancel
<1>2. PICK s \in States : /\ row' = [row EXCEPT ![i] = s]
                          /\ EnterBook(i) \/ LeaveBook(i) => s = row[i]
                          /\ Match(i) => s = "matched"
                          /\ FillExecutes(i) => s = "executed"
                          /\ Record(i) => s = "settled"
                          /\ handleConfirmCancel(i) => s = "cancelled"
  <2>1. CASE EnterBook(i)
    BY <1>0, <2>1 DEF EnterBook, Match, FillExecutes, Record, LeaveBook, handleConfirmCancel, States
  <2>2. CASE LeaveBook(i)
    BY <1>0, <2>2 DEF EnterBook, Match, FillExecutes, Record, LeaveBook, handleConfirmCancel, States
  <2>3. CASE Match(i)
    BY <2>3 DEF EnterBook, Match, FillExecutes, Record, LeaveBook, handleConfirmCancel, States
  <2>4. CASE FillExecutes(i)
    BY <2>4 DEF EnterBook, Match, FillExecutes, Record, LeaveBook, handleConfirmCancel, States
  <2>5. CASE Record(i)
    BY <2>5 DEF EnterBook, Match, FillExecutes, Record, LeaveBook, handleConfirmCancel, States
  <2>6. CASE handleConfirmCancel(i)
    BY <1>0, <2>6 DEF EnterBook, Match, FillExecutes, Record, LeaveBook, handleConfirmCancel, States
  <2> QED
    BY <2>1, <2>2, <2>3, <2>4, <2>5, <2>6
<1>3. /\ row' \in [Ids -> States] /\ row'[i] = s /\ \A j \in Ids \ {i} : row'[j] = row[j]
      /\ row[i] \in {"open", "matched"} /\ s \in {"open", "matched"} => Outstanding' = Outstanding
      /\ row[i] \in {"open", "matched"} /\ s \notin {"open", "matched"}
           => Cardinality(Outstanding') = Cardinality(Outstanding) - 1
      /\ row[i] \notin {"open", "matched"} /\ s \notin {"open", "matched"} => Outstanding' = Outstanding
      /\ row[i] # "executed" /\ s = "executed" => Cardinality(Executed') = Cardinality(Executed) + 1
      /\ row[i] # "executed" /\ s # "executed" => Executed' = Executed
  BY <1>0, <1>2, RowMoves
<1>4. s # "none" /\ (s = "open" => EnterBook(i) \/ LeaveBook(i))
  BY <1>1, <1>2
<1>5. /\ book' \subseteq Ids /\ position' \in 0 .. Shares
      /\ FillExecutes(i) => position' = position - 1 /\ row[i] = "matched"
      /\ ~FillExecutes(i) => position' = position
  BY <1>0 DEF EnterBook, Match, FillExecutes, Record, LeaveBook, handleConfirmCancel
<1>6. UNCHANGED <<panelBook, panelHeld, intents, pendingSells, portfolioFetches, graphBook, slipped>>
  BY DEF EnterBook, Match, FillExecutes, Record, LeaveBook, handleConfirmCancel, ServerOnly, PageOnly, tableVars
<1>7. cancelledTxIds' \in [Ids -> -1 .. SUPPRESS]
  <2>1. 0 \in -1 .. SUPPRESS /\ cancelledTxIds \in [Ids -> -1 .. SUPPRESS]
    BY SellAssumption DEF SellInv, SellTypeOK
  <2>2. cancelledTxIds' = cancelledTxIds \/ cancelledTxIds' = [cancelledTxIds EXCEPT ![i] = 0]
    BY DEF EnterBook, Match, FillExecutes, Record, LeaveBook, handleConfirmCancel, ServerOnly, PageOnly, tableVars
  <2> QED
    BY <2>1, <2>2
<1>8. /\ intake' \in [Ids -> Intakes]
      /\ \A j \in Ids : /\ intake'[j].step = intake[j].step /\ intake'[j].held = intake[j].held
                        /\ intake[j].crossed => intake'[j].crossed
                        /\ row[j] # "none" => intake'[j].crossed = intake[j].crossed
                        /\ Record(i) /\ intake'[j].step = "position" => intake'[j].crossed
  <2>1. CASE ~Record(i)
    <3>1. intake' = intake
      BY <2>1 DEF EnterBook, Match, FillExecutes, LeaveBook, handleConfirmCancel
    <3> QED
      BY <1>0, <2>1, <3>1
  <2>2. CASE Record(i)
    <3>1. ASSUME NEW j \in Ids, intake[j].step = "position"
          PROVE  intake'[j] = [intake[j] EXCEPT !.crossed = TRUE] /\ row[j] = "none"
      <4>1. (intake[j].crossed \/ intake[j].step = "position") = TRUE
        BY <3>1
      <4>2. intake'[j] = [intake[j] EXCEPT !.crossed = intake[j].crossed \/ intake[j].step = "position"]
        BY <2>2 DEF Record
      <4>3. row[j] = "none"
        BY <3>1 DEF SellInv, RowInv
      <4> QED
        BY <4>1, <4>2, <4>3, Zenon
    <3>2. ASSUME NEW j \in Ids, intake[j].step # "position" PROVE intake'[j] = intake[j]
      <4>1. intake[j] \in Intakes /\ intake[j].crossed \in BOOLEAN
        BY <1>0 DEF Intakes
      <4>2. (intake[j].crossed \/ intake[j].step = "position") = intake[j].crossed
        BY <3>2, <4>1
      <4>3. intake'[j] = [intake[j] EXCEPT !.crossed = intake[j].crossed \/ intake[j].step = "position"]
        BY <2>2 DEF Record
      <4>4. intake'[j] = [intake[j] EXCEPT !.crossed = intake[j].crossed]
        BY ONLY <4>2, <4>3, Zenon
      <4> QED
        BY <4>1, <4>4 DEF Intakes
    <3>3. ASSUME NEW j \in Ids
          PROVE  /\ intake'[j] \in Intakes
                 /\ intake'[j].step = intake[j].step /\ intake'[j].held = intake[j].held
                 /\ intake[j].crossed => intake'[j].crossed
                 /\ row[j] # "none" => intake'[j].crossed = intake[j].crossed
                 /\ intake'[j].step = "position" => intake'[j].crossed
      <4>1. intake[j] \in Intakes
        BY <1>0
      <4>2. CASE intake[j].step = "position"
        BY <3>1, <4>1, <4>2 DEF Intakes
      <4>3. CASE intake[j].step # "position"
        BY <3>2, <4>1, <4>3
      <4> QED
        BY <4>2, <4>3
    <3>4. intake' \in [Ids -> Intakes]
      BY <2>2, <3>3 DEF Record
    <3> QED
      BY <3>3, <3>4
  <2> QED
    BY <2>1, <2>2
<1>9. SellTypeOK'
  BY <1>0, <1>3, <1>5, <1>6, <1>7, <1>8 DEF SellInv, SellTypeOK, Intakes
<1>10. RowInv' /\ CoverInv' /\ (\A j \in Ids : ReadInv(j)')
  <2>1. \A j \in Ids : row'[j] # "none" <=> row[j] # "none"
    BY <1>1, <1>3, <1>4
  <2>2. /\ position \in Nat /\ Cardinality(Outstanding) \in Nat /\ Cardinality(Executed) \in Nat
    BY <1>0, SellsFinite
  <2>3. IsFiniteSet(Outstanding') /\ IsFiniteSet(Executed')
    <3>1. Outstanding' \subseteq Ids /\ Executed' \subseteq Ids
      BY DEF Outstanding, Executed
    <3> QED
      BY <3>1, SellAssumption, FS_Subset
  <2>4. Cardinality(Outstanding') + position <= Cardinality(Outstanding) + position'
    <3>1. CASE FillExecutes(i)
      BY <1>2, <1>3, <1>5, <2>2, <3>1
    <3>2. CASE Match(i)
      BY <1>2, <1>3, <1>5, <2>2, <3>2 DEF Match, FillExecutes
    <3>3. CASE Record(i)
      BY <1>2, <1>3, <1>5, <2>2, <3>3 DEF Record, FillExecutes
    <3>4. CASE handleConfirmCancel(i)
      BY <1>2, <1>3, <1>5, <2>2, <3>4 DEF handleConfirmCancel, FillExecutes
    <3>5. CASE EnterBook(i) \/ LeaveBook(i)
      <4>1. row' = row /\ position' = position
        BY <3>5 DEF EnterBook, LeaveBook
      <4>2. Outstanding' = Outstanding
        BY <4>1 DEF Outstanding
      <4> QED
        BY <2>2, <4>1, <4>2
    <3> QED
      BY <3>1, <3>2, <3>3, <3>4, <3>5
  <2>5. ~Record(i) => position + Cardinality(Executed) <= position' + Cardinality(Executed')
    <3>1. CASE FillExecutes(i)
      BY <1>2, <1>3, <1>5, <2>2, <3>1
    <3>2. CASE Match(i)
      BY <1>2, <1>3, <1>5, <2>2, <3>2 DEF Match, FillExecutes
    <3>4. CASE handleConfirmCancel(i)
      BY <1>2, <1>3, <1>5, <2>2, <3>4 DEF handleConfirmCancel, FillExecutes
    <3>5. CASE EnterBook(i) \/ LeaveBook(i)
      <4>1. row' = row /\ position' = position
        BY <3>5 DEF EnterBook, LeaveBook
      <4>2. Executed' = Executed
        BY <4>1 DEF Executed
      <4> QED
        BY <2>2, <4>1, <4>2
    <3> QED
      BY <3>1, <3>2, <3>4, <3>5
  <2> QED
    BY <1>3, <1>5, <1>8, <2>1, <2>3, <2>4, <2>5, RowsStand
<1>11. PolledInv'
  <2>1. \A j \in Ids \ {i} : j \in book' <=> j \in book
    BY DEF EnterBook, Match, FillExecutes, Record, LeaveBook, handleConfirmCancel
  <2>2. panelBook' = panelBook
    BY <1>6
  <2>3. \A j \in Ids \ {i} : j \in book' \cup panelBook' => row'[j] # "none" /\ (row'[j] = "open" => j \in book')
    BY <1>3, <2>1, <2>2 DEF SellInv, PolledInv
  <2>4. row'[i] # "none" /\ (row'[i] = "open" /\ i \in book' \cup panelBook' => i \in book')
    <3>1. CASE EnterBook(i)
      BY <1>3, <1>4, <3>1 DEF EnterBook
    <3>2. CASE LeaveBook(i)
      BY <1>0, <1>3, <1>4, <3>2 DEF LeaveBook
    <3> QED
      BY <1>3, <1>4, <3>1, <3>2
  <2> QED
    BY <1>0, <1>5, <2>2, <2>3, <2>4 DEF PolledInv
<1>12. ListedInv'
  <2>1. Asking' = Asking /\ snapshotPendingSells' = snapshotPendingSells
    BY <1>6, <1>8 DEF Asking, snapshotPendingSells
  <2>2. \A j \in Ids : row'[j] = "open" => row[j] = "open"
    BY <1>2, <1>3, <1>4
  <2> QED
    BY <1>6, <2>1, <2>2, ListStands
<1> QED
  BY <1>9, <1>10, <1>11, <1>12 DEF SellInv

-----------------------------------------------------------------------------
\* The server's part stands while the page does something.
LEMMA ServerStands ==
  ASSUME SellInv, UNCHANGED serverVars
  PROVE  RowInv' /\ CoverInv' /\ (\A j \in Ids : ReadInv(j)') /\ UNCHANGED <<row, intake, book, position>>
<1>1. UNCHANGED <<row, intake, book, position>>
  BY DEF serverVars
<1>2. CoverInv' /\ (\A j \in Ids : ReadInv(j)')
  BY <1>1, ReadsStand
<1> QED
  BY <1>1, <1>2 DEF SellInv, RowInv

\* What the header's hook has seen leaves the store, and is let go of unless the
\* panel lists it.
LEMMA ReconcileStands ==
  ASSUME SellInv, NEW found \in SUBSET Ids, reconcilePendingSells(found), slipped' = slipped \cup SeenFirst(found),
         UNCHANGED <<row, intake, book, panelBook, intents>>
  PROVE  /\ pendingSells' \in [Ids -> -1 .. TTL] /\ slipped' \subseteq Ids /\ ListedInv'
<1>0. pendingSells \in [Ids -> -1 .. TTL] /\ slipped \subseteq Ids /\ NotPending \in -1 .. TTL
  BY SellAssumption DEF SellInv, SellTypeOK, NotPending
<1>1. \A j \in Ids : pendingSells'[j] = IF j \in found THEN NotPending ELSE pendingSells[j]
  BY DEF reconcilePendingSells
<1>2. pendingSells' \in [Ids -> -1 .. TTL]
  BY <1>0 DEF reconcilePendingSells
<1>3. slipped' \subseteq Ids
  <2>1. SeenFirst(found) \subseteq Ids
    BY <1>0 DEF SeenFirst, SellInv, SellTypeOK
  <2> QED
    BY <1>0, <2>1
<1>4. \A j \in Asking : j \in Asking' \cup slipped'
  BY DEF Asking
<1>5. \A j \in snapshotPendingSells : j \in snapshotPendingSells' \cup slipped' \cup actual(panelBook)
  BY <1>1 DEF snapshotPendingSells, SeenFirst
<1>6. ListedInv'
  BY <1>4, <1>5 DEF SellInv, ListedInv, Counted, actual
<1> QED
  BY <1>2, <1>3, <1>6

\* The steps of the page.
LEMMA PageSells ==
  ASSUME SellInv,
         \/ PollBook \/ PollPosition \/ LoadPage \/ PollGraph \/ Elapse \/ fetchPortfolio
         \/ \E f \in portfolioFetches : PortfolioReply(f) \/ BooksRead(f) \/ PortfolioFails(f)
  PROVE  SellInv'
<1>0. /\ pendingSells \in [Ids -> -1 .. TTL] /\ cancelledTxIds \in [Ids -> -1 .. SUPPRESS]
      /\ NotPending \in -1 .. TTL /\ NotPending \in -1 .. SUPPRESS /\ TTL \in Nat /\ SUPPRESS \in Nat
      /\ slipped \subseteq Ids /\ book \subseteq Ids /\ panelBook \subseteq Ids /\ position \in 0 .. Shares
      /\ Shares \in Nat /\ portfolioFetches \subseteq Fetched /\ Open \subseteq Ids
  BY SellAssumption DEF SellInv, SellTypeOK, NotPending, Fetched, Open
<1>1. UNCHANGED serverVars
  BY DEF PollBook, PollPosition, LoadPage, PollGraph, Elapse, fetchPortfolio, PortfolioReply, BooksRead,
         PortfolioFails
<1>2. /\ RowInv' /\ CoverInv' /\ (\A j \in Ids : ReadInv(j)') /\ UNCHANGED <<row, intake, book, position>>
  BY <1>1, ServerStands
<1>3. CASE PollBook
  <2>1. /\ panelBook' = book /\ UNCHANGED <<panelHeld, intents, portfolioFetches, tableVars, slipped>>
        /\ \A j \in Ids : pendingSells'[j] = IF j \in actual(book) THEN NotPending ELSE pendingSells[j]
        /\ pendingSells' \in [Ids -> -1 .. TTL]
    BY <1>0, <1>3 DEF PollBook, reconcilePendingSells
  <2>2. SellTypeOK'
    BY <1>0, <1>2, <2>1 DEF SellInv, SellTypeOK, tableVars
  <2>3. PolledInv'
    BY <1>2, <2>1 DEF SellInv, PolledInv
  <2>4. ListedInv'
    <3>1. ASSUME NEW j \in Ids, row[j] = "open" PROVE j \in Counted' \cup slipped'
      <4>1. j \in Counted \cup slipped
        BY <3>1 DEF SellInv, ListedInv
      <4>2. CASE j \in panelBook
        BY <2>1, <3>1, <4>2 DEF SellInv, PolledInv, Counted, actual
      <4>3. CASE j \in intents \cup slipped \cup Asking
        BY <1>2, <2>1, <4>3 DEF Counted, actual, Asking
      <4>4. CASE j \in snapshotPendingSells
        BY <2>1, <4>4 DEF Counted, actual, snapshotPendingSells
      <4> QED
        BY <4>1, <4>2, <4>3, <4>4 DEF Counted, actual
    <3> QED
      BY <1>2, <3>1 DEF ListedInv
  <2> QED
    BY <1>2, <2>2, <2>3, <2>4 DEF SellInv
<1>4. CASE PollPosition \/ PollGraph \/ fetchPortfolio
  <2>1. UNCHANGED <<panelBook, intents, pendingSells, slipped>>
    BY <1>4 DEF PollPosition, PollGraph, fetchPortfolio
  <2>2. SellTypeOK'
    <3>1. panelHeld' \in 0 .. Shares /\ graphBook' \subseteq Ids
      BY <1>0, <1>4 DEF PollPosition, PollGraph, fetchPortfolio, SellInv, SellTypeOK, tableVars
    <3>2. cancelledTxIds' \in [Ids -> -1 .. SUPPRESS]
      BY <1>0, <1>4 DEF PollPosition, PollGraph, fetchPortfolio, tableVars, Forget
    <3>3. portfolioFetches' \subseteq Fetched
      <4>1. CASE fetchPortfolio
        BY <1>0, <4>1 DEF fetchPortfolio, Fetched
      <4>2. CASE PollPosition \/ PollGraph
        BY <1>0, <4>2 DEF PollPosition, PollGraph
      <4> QED
        BY <1>4, <4>1, <4>2
    <3> QED
      BY <1>2, <2>1, <3>1, <3>2, <3>3 DEF SellInv, SellTypeOK, Fetched
  <2>3. PolledInv'
    BY <1>2, <2>1 DEF SellInv, PolledInv
  <2>4. ListedInv'
    BY <1>2, <2>1 DEF SellInv, ListedInv, Counted, actual, Asking, snapshotPendingSells
  <2> QED
    BY <1>2, <2>2, <2>3, <2>4 DEF SellInv
<1>5. CASE LoadPage
  <2>1. /\ intents' = Open /\ panelBook' = {} /\ graphBook' = {} /\ panelHeld' = 0 /\ portfolioFetches' = {}
        /\ pendingSells' = [j \in Ids |-> NotPending] /\ cancelledTxIds' = [j \in Ids |-> NotPending]
        /\ slipped' = slipped \cup Asking
    BY <1>5 DEF LoadPage
  <2>2. SellTypeOK'
    BY <1>0, <1>2, <2>1 DEF SellInv, SellTypeOK, Asking
  <2>3. PolledInv'
    BY <1>2, <2>1 DEF SellInv, PolledInv
  <2>4. ListedInv'
    BY <1>2, <2>1 DEF ListedInv, Counted, actual, Open
  <2> QED
    BY <1>2, <2>2, <2>3, <2>4 DEF SellInv
<1>6. CASE Elapse
  <2>1. /\ UNCHANGED <<panelBook, panelHeld, intents, portfolioFetches, graphBook>>
        /\ \A j \in Ids : pendingSells'[j] = Older(pendingSells[j], TTL)
        /\ slipped' = slipped \cup {j \in Ids : pendingSells[j] = TTL}
    BY <1>6 DEF Elapse
  <2>2. ASSUME NEW limit \in Nat, NEW age \in -1 .. limit
        PROVE  /\ Older(age, limit) \in -1 .. limit
               /\ age \notin {NotPending, limit} => Older(age, limit) # NotPending
    BY DEF Older, NotPending
  <2>3. pendingSells' \in [Ids -> -1 .. TTL] /\ cancelledTxIds' \in [Ids -> -1 .. SUPPRESS]
    BY <1>0, <1>6, <2>2 DEF Elapse
  <2>4. SellTypeOK'
    BY <1>0, <1>2, <2>1, <2>3 DEF SellInv, SellTypeOK
  <2>5. PolledInv'
    BY <1>2, <2>1 DEF SellInv, PolledInv
  <2>6. \A j \in snapshotPendingSells : j \in snapshotPendingSells' \cup slipped'
    BY <1>0, <2>1, <2>2 DEF snapshotPendingSells
  <2>7. \A j \in Asking : j \in Asking' \cup slipped'
    BY <1>2 DEF Asking
  <2>8. ListedInv'
    BY <1>2, <2>1, <2>6, <2>7 DEF SellInv, ListedInv, Counted, actual
  <2> QED
    BY <1>2, <2>4, <2>5, <2>8 DEF SellInv
<1>7. ASSUME NEW f \in portfolioFetches, PortfolioReply(f) \/ BooksRead(f) \/ PortfolioFails(f)
      PROVE  SellInv'
  <2>1. UNCHANGED <<panelBook, panelHeld, intents, tableVars>>
    BY <1>7 DEF PortfolioReply, BooksRead, PortfolioFails
  <2>2. portfolioFetches' \subseteq Fetched
    <3>1. [f EXCEPT !.phase = "book"] \in Fetched
      BY <1>0 DEF Fetched
    <3> QED
      BY <1>0, <1>7, <3>1 DEF PortfolioReply, BooksRead, PortfolioFails
  <2>3. \/ \E found \in SUBSET Ids : reconcilePendingSells(found) /\ slipped' = slipped \cup SeenFirst(found)
        \/ UNCHANGED <<pendingSells, slipped>>
    <3>1. f.found \in SUBSET Ids /\ f.found \cup book \in SUBSET Ids
      BY <1>0 DEF Fetched
    <3> QED
      BY <1>7, <3>1 DEF PortfolioReply, BooksRead, PortfolioFails
  <2>4. /\ pendingSells' \in [Ids -> -1 .. TTL] /\ slipped' \subseteq Ids /\ ListedInv'
    <3>1. CASE UNCHANGED <<pendingSells, slipped>>
      BY <1>0, <1>2, <2>1, <3>1 DEF SellInv, ListedInv, Counted, actual, Asking, snapshotPendingSells
    <3>2. CASE \E found \in SUBSET Ids : reconcilePendingSells(found) /\ slipped' = slipped \cup SeenFirst(found)
      <4>1. PICK found \in SUBSET Ids : reconcilePendingSells(found) /\ slipped' = slipped \cup SeenFirst(found)
        BY <3>2
      <4> QED
        BY <1>2, <2>1, <4>1, ReconcileStands
    <3> QED
      BY <2>3, <3>1, <3>2
  <2>5. SellTypeOK'
    BY <1>2, <2>1, <2>2, <2>4 DEF SellInv, SellTypeOK, tableVars, Fetched
  <2>6. PolledInv'
    BY <1>2, <2>1 DEF SellInv, PolledInv
  <2> QED
    BY <1>2, <2>4, <2>5, <2>6 DEF SellInv
<1> QED
  BY <1>3, <1>4, <1>5, <1>6, <1>7

\* Every step keeps the bound.
LEMMA SellSteps == SellInv /\ [SellNext]_sellVars => SellInv'
<1> SUFFICES ASSUME SellInv, [SellNext]_sellVars PROVE SellInv'
  OBVIOUS
<1>1. CASE UNCHANGED sellVars
  <2>1. UNCHANGED <<row, intake, book, position, panelBook, panelHeld, intents, pendingSells, portfolioFetches,
                    graphBook, cancelledTxIds, slipped>>
    BY <1>1 DEF sellVars, serverVars, tableVars
  <2>2. SellTypeOK'
    BY <2>1 DEF SellInv, SellTypeOK
  <2>3. /\ RowInv' /\ CoverInv' /\ (\A j \in Ids : ReadInv(j)')
    BY <2>1, ServerStands DEF serverVars
  <2>4. PolledInv' /\ ListedInv'
    BY <2>1 DEF SellInv, PolledInv, ListedInv, Counted, actual, Asking, snapshotPendingSells
  <2> QED
    BY <2>2, <2>3, <2>4 DEF SellInv
<1>2. CASE SellNext
  BY <1>2, IntakeSells, InsertSells, ServerSells, PageSells DEF SellNext
<1> QED
  BY <1>1, <1>2

\* The sells of an account never exceed its shares by more than one per request that
\* was crossed, and the panel counts every order but those it let go of
\* (CreatePredictionIntent, pendingSells.ts, TradePanel.tsx): for any number of orders
\* and shares, whatever the clients submit, with lost answers, a lagging mirror node,
\* overlapping fetches, reloads, and for any lifetime of the client's memory.
THEOREM SellsCovered == SellSpec => []OpenSellsCovered
<1>1. SellInv => OpenSellsCovered
  BY DEF SellInv, CoverInv, ListedInv, OpenSellsCovered
<1> QED
  BY SellsStart, SellSteps, <1>1, PTL DEF SellSpec
-----------------------------------------------------------------------------
(* The prices of the trade form.  A price on the 0.1 cent grid is a number   *)
(* of ticks; the two roundings of roundToTick only ever meet multiples of    *)
(* the tick they round to, except for the first one of a polled price.       *)

\* The scale in ticks and cents.
LEMMA MilFacts ==
    /\ Mil \in Nat /\ Mil > 0 /\ PRICE_SCALE = 1000 * Mil
    /\ PRICE_SCALE \div 100 = 10 * Mil /\ PRICE_SCALE \div 2 = 500 * Mil
<1>1. PRICE_SCALE \in Nat /\ PRICE_SCALE > 0 /\ PRICE_SCALE % 1000 = 0
  BY MatchingAssumption, FormAssumption
<1> QED
  BY <1>1 DEF Mil

\* Half-up rounding to a tick: at most half a tick away.
LEMMA Rounding ==
    ASSUME NEW p \in Nat, NEW t \in Nat, t > 0
    PROVE  /\ RoundDiv(p, t) \in Nat
           /\ 2 * (RoundDiv(p, t) * t) <= 2 * p + t
           /\ 2 * p + t < 2 * (RoundDiv(p, t) * t) + 2 * t
<1> DEFINE q == (2 * p + t) \div (2 * t)
<1>1. 2 * p + t \in Nat /\ 2 * t \in Nat /\ 2 * t > 0
  OBVIOUS
<1>2. q \in Nat /\ q * (2 * t) <= 2 * p + t /\ 2 * p + t < q * (2 * t) + 2 * t
  BY <1>1, Quotient
<1>3. q * (2 * t) = 2 * (q * t)
  BY <1>2
<1> QED
  BY <1>2, <1>3 DEF RoundDiv

\* Rounding stays between two multiples of the tick.
LEMMA RoundingBetween ==
    ASSUME NEW p \in Nat, NEW t \in Nat, t > 0, NEW lo \in Nat, NEW hi \in Nat,
           lo * t <= p, p <= hi * t
    PROVE  RoundDiv(p, t) \in lo .. hi
<1> DEFINE q == RoundDiv(p, t)
<1>1. q \in Nat /\ 2 * (q * t) <= 2 * p + t /\ 2 * p + t < 2 * (q * t) + 2 * t
  BY Rounding
<1> HIDE DEF q
<1>2. q * t \in Nat /\ lo * t \in Nat /\ hi * t \in Nat
  BY <1>1
<1>3. lo * t < q * t + t /\ q * t < hi * t + t
  BY <1>1, <1>2
<1>4. lo <= q /\ q <= hi
  BY <1>1, <1>3, ProductCancel
<1> QED
  BY <1>1, <1>4 DEF q

\* A multiple of the tick is left alone.
LEMMA RoundingExact ==
    ASSUME NEW c \in Nat, NEW t \in Nat, t > 0
    PROVE  SnapTo(c * t, t) = c * t
<1>1. c * t \in Nat /\ c * t <= c * t
  OBVIOUS
<1>2. RoundDiv(c * t, t) \in c .. c
  BY <1>1, RoundingBetween
<1> QED
  BY <1>2 DEF SnapTo

Ticks(m) == m * Mil

OnGrid(p) == p \in Nat /\ Mil <= p /\ p <= 999 * Mil /\ Orderable(p)

\* The prices of the grid are the multiples of Mil,
LEMMA TicksFacts ==
    ASSUME NEW m \in Nat, 1 <= m, m <= 999
    PROVE  OnGrid(Ticks(m)) /\ Complement(Ticks(m)) = Ticks(1000 - m)
<1>1. m * Mil \in Nat
  BY MilFacts
<1>2. 1 * Mil <= m * Mil /\ m * Mil <= 999 * Mil
  BY MilFacts, ProductMonotone
<1>3. (m * Mil) \div Mil = m
  <2>1. /\ (m * Mil) \div Mil \in Nat /\ ((m * Mil) \div Mil) * Mil <= m * Mil
        /\ m * Mil < ((m * Mil) \div Mil) * Mil + Mil
    BY <1>1, MilFacts, Quotient
  <2>2. ((m * Mil) \div Mil) * Mil < m * Mil + Mil
    BY <2>1, <1>1, MilFacts
  <2> QED
    BY <2>1, <2>2, MilFacts, ProductCancel
<1>4. (m * Mil) % Mil = 0
  BY <1>1, <1>3, MilFacts
<1>5. (1000 - m) * Mil = 1000 * Mil - m * Mil
  BY MilFacts
<1>6. Complement(Ticks(m)) = Ticks(1000 - m)
  BY <1>5, MilFacts DEF Ticks, Complement
<1>7. Orderable(m * Mil)
  BY <1>1, <1>2, <1>4, MilFacts DEF Orderable
<1> QED
  BY <1>1, <1>2, <1>6, <1>7, MilFacts DEF Ticks, OnGrid

\* and there are no others.
LEMMA OnTheGrid ==
    ASSUME NEW p \in Nat, Orderable(p)
    PROVE  \E m \in Nat : 1 <= m /\ m <= 999 /\ p = Ticks(m)
<1> DEFINE m == p \div Mil
<1>1. m \in Nat /\ m * Mil <= p /\ p < m * Mil + Mil
  BY MilFacts, Quotient
<1>2. p = m * Mil
  BY MilFacts DEF Orderable
<1> HIDE DEF m
<1>3. m # 0
  BY <1>2, MilFacts DEF Orderable
<1>4. m * Mil < 999 * Mil + Mil
  BY <1>2, MilFacts DEF Orderable
<1>5. m <= 999
  BY <1>1, <1>4, MilFacts, ProductCancel
<1> QED
  BY <1>1, <1>2, <1>3, <1>5 DEF Ticks

\* The tick size of a multiple of Mil.
LEMMA TickOf ==
    ASSUME NEW p \in Nat
    PROVE  getTickSize(p) = IF p < 50 * Mil \/ p > 950 * Mil THEN Mil ELSE 10 * Mil
  BY MilFacts DEF getTickSize, Mil

\* Rounding between the ends of a range of ticks.
LEMMA RoundingEnds ==
    ASSUME NEW p \in Nat
    PROVE  /\ 1 * Mil <= p /\ p <= 50 * Mil => RoundDiv(p, Mil) \in 1 .. 50
           /\ 950 * Mil <= p /\ p <= 999 * Mil => RoundDiv(p, Mil) \in 950 .. 999
           /\ 5 * (10 * Mil) <= p /\ p <= 95 * (10 * Mil) => RoundDiv(p, 10 * Mil) \in 5 .. 95
<1> DEFINE Within(lo, hi, t) == lo * t <= p /\ p <= hi * t => RoundDiv(p, t) \in lo .. hi
<1>1. \A lo, hi, t \in Nat : t > 0 => Within(lo, hi, t)
  BY RoundingBetween
<1> HIDE DEF Within
<1>2. Within(1, 50, Mil) /\ Within(950, 999, Mil) /\ Within(5, 95, 10 * Mil)
  BY <1>1, MilFacts
<1> QED
  BY <1>2 DEF Within

\* A multiple of either tick is left alone.
LEMMA ExactTicks ==
    \A c \in Nat : /\ SnapTo(c * Mil, Mil) = c * Mil
                    /\ SnapTo(c * (10 * Mil), 10 * Mil) = c * (10 * Mil)
<1> DEFINE Exact(c, t) == SnapTo(c * t, t) = c * t
<1>1. \A c, t \in Nat : t > 0 => Exact(c, t)
  BY RoundingExact
<1> HIDE DEF Exact
<1>2. \A c \in Nat : Exact(c, Mil) /\ Exact(c, 10 * Mil)
  BY <1>1, MilFacts
<1> QED
  BY <1>2 DEF Exact

\* Grid prices whose distance to the edge fits their tick are left alone.
LEMMA TicksKeep ==
    ASSUME NEW m \in 1 .. 999,
           m < 50 \/ m > 950 \/ \E d \in 5 .. 95 : m = 10 * d
    PROVE  SnapTo(m * Mil, getTickSize(m * Mil)) = m * Mil
<1>1. m * Mil \in Nat
  BY MilFacts
<1>2. CASE m < 50 \/ m > 950
  <2>1. m * Mil < 50 * Mil \/ m * Mil > 950 * Mil
    <3>1. CASE m <= 49
      <4>1. m * Mil <= 49 * Mil
        BY <3>1, MilFacts, ProductMonotone
      <4> QED
        BY <4>1, <1>1, MilFacts
    <3>2. CASE 951 <= m
      <4>1. 951 * Mil <= m * Mil
        BY <3>2, MilFacts, ProductMonotone
      <4> QED
        BY <4>1, <1>1, MilFacts
    <3> QED
      BY <1>2, <3>1, <3>2
  <2>2. getTickSize(m * Mil) = Mil
    BY <1>1, <2>1, TickOf
  <2> QED
    BY <2>2, ExactTicks
<1>3. ASSUME NEW d \in 5 .. 95, m = 10 * d PROVE SnapTo(m * Mil, getTickSize(m * Mil)) = m * Mil
  <2>1. 50 * Mil <= m * Mil /\ m * Mil <= 950 * Mil
    BY <1>3, MilFacts, ProductMonotone
  <2>2. getTickSize(m * Mil) = 10 * Mil
    BY <1>1, <2>1, MilFacts, TickOf
  <2>3. m * Mil = d * (10 * Mil)
    BY <1>3, MilFacts
  <2>4. SnapTo(d * (10 * Mil), 10 * Mil) = d * (10 * Mil)
    BY ExactTicks
  <2> QED
    BY <2>2, <2>3, <2>4
<1> QED
  BY <1>2, <1>3

\* From a tick to 999 ticks, roundToTick returns a price that can be ordered.
LEMMA RoundedIsOrderable ==
    ASSUME NEW p \in Nat, Mil <= p, p <= 999 * Mil
    PROVE  OnGrid(roundToTick(p))
<1>1. PICK m \in 1 .. 999 : /\ SnapTo(p, getTickSize(p)) = m * Mil
                            /\ m < 50 \/ m > 950 \/ \E d \in 5 .. 95 : m = 10 * d
  <2>1. CASE p < 50 * Mil
    <3>1. 1 * Mil <= p /\ p <= 50 * Mil /\ getTickSize(p) = Mil
      BY <2>1, MilFacts, TickOf
    <3>2. RoundDiv(p, Mil) \in 1 .. 50
      BY <3>1, RoundingEnds
    <3>3. RoundDiv(p, Mil) < 50 \/ RoundDiv(p, Mil) = 10 * 5
      BY <3>2
    <3> QED
      BY <3>1, <3>2, <3>3 DEF SnapTo
  <2>2. CASE p > 950 * Mil
    <3>1. 950 * Mil <= p /\ p <= 999 * Mil /\ getTickSize(p) = Mil
      BY <2>2, MilFacts, TickOf
    <3>2. RoundDiv(p, Mil) \in 950 .. 999
      BY <3>1, RoundingEnds
    <3>3. RoundDiv(p, Mil) > 950 \/ RoundDiv(p, Mil) = 10 * 95
      BY <3>2
    <3> QED
      BY <3>1, <3>2, <3>3 DEF SnapTo
  <2>3. CASE 50 * Mil <= p /\ p <= 950 * Mil
    <3> DEFINE d == RoundDiv(p, 10 * Mil)
    <3>1. 5 * (10 * Mil) <= p /\ p <= 95 * (10 * Mil) /\ getTickSize(p) = 10 * Mil
      BY <2>3, MilFacts, TickOf
    <3>2. d \in 5 .. 95
      BY <3>1, RoundingEnds
    <3>3. SnapTo(p, getTickSize(p)) = d * (10 * Mil)
      BY <3>1 DEF SnapTo
    <3> HIDE DEF d
    <3>4. d * (10 * Mil) = (10 * d) * Mil /\ 10 * d \in 1 .. 999
      BY <3>2, MilFacts
    <3> QED
      BY <3>2, <3>3, <3>4
  <2> QED
    BY <2>1, <2>2, <2>3, MilFacts
<1>2. roundToTick(p) = m * Mil
  BY <1>1, TicksKeep DEF roundToTick
<1>3. roundToTick(p) = Ticks(m)
  BY <1>2 DEF Ticks
<1>4. m \in Nat /\ 1 <= m /\ m <= 999
  OBVIOUS
<1> QED
  BY <1>3, <1>4, TicksFacts
-----------------------------------------------------------------------------
(* The trade form (TradePanel.tsx, useTradingForm.ts, Market.tsx).           *)

\* The numbers of VALID_CENTS.
Cents == (1 .. 49) \cup {10 * c : c \in 5 .. 95} \cup (951 .. 999)

LEMMA ValidTicks == ValidPrices = {Ticks(c) : c \in Cents}
  BY DEF ValidPrices, Cents, Ticks

\* The entries of VALID_CENTS are grid prices, which the roundings leave alone,
\* and the complement of one is another.
LEMMA ValidFacts ==
    ASSUME NEW p \in ValidPrices
    PROVE  /\ OnGrid(p) /\ roundToTick(p) = p
           /\ Complement(p) \in ValidPrices /\ Complement(Complement(p)) = p
<1>1. PICK c \in Cents : p = Ticks(c)
  BY ValidTicks
<1>2. c \in Nat /\ 1 <= c /\ c <= 999 /\ (c < 50 \/ c > 950 \/ \E d \in 5 .. 95 : c = 10 * d)
  BY DEF Cents
<1>3. SnapTo(Ticks(c), getTickSize(Ticks(c))) = Ticks(c)
  BY <1>2, TicksKeep DEF Ticks
<1>4. 1000 - c \in Cents
  <2>1. CASE c \in 1 .. 49 \/ c \in 951 .. 999
    BY <2>1 DEF Cents
  <2>2. ASSUME NEW d \in 5 .. 95, c = 10 * d PROVE 1000 - c \in Cents
    <3>1. 100 - d \in 5 .. 95 /\ 1000 - c = 10 * (100 - d)
      BY <2>2
    <3> QED
      BY <3>1 DEF Cents
  <2>3. c \in 1 .. 49 \/ c \in 951 .. 999 \/ \E d \in 5 .. 95 : c = 10 * d
    BY DEF Cents
  <2> QED
    BY <2>1, <2>2, <2>3
<1>5. OnGrid(p) /\ Complement(p) = Ticks(1000 - c)
  BY <1>1, <1>2, TicksFacts
<1>6. Complement(Complement(p)) = p
  BY <1>5, MatchingAssumption DEF Complement, OnGrid
<1>7. Complement(p) \in ValidPrices
  BY <1>4, <1>5, ValidTicks
<1> QED
  BY <1>1, <1>3, <1>5, <1>6, <1>7 DEF roundToTick

\* Turning the outcome there and back restores a price of VALID_CENTS.
LEMMA TurnRestores == TurnIsExact
<1> SUFFICES ASSUME limitPrice \in ValidPrices
             PROVE  roundToTick(Complement(roundToTick(Complement(limitPrice)))) = limitPrice
  BY DEF TurnIsExact, Turned
<1>1. Complement(limitPrice) \in ValidPrices
  BY ValidFacts
<1>2. roundToTick(Complement(limitPrice)) = Complement(limitPrice)
  BY <1>1, ValidFacts
<1> QED
  BY <1>2, ValidFacts

\* A turned price can be ordered.
LEMMA TurnedOrderable ==
    ASSUME NEW p, OnGrid(p), NEW from, NEW to
    PROVE  OnGrid(Turned(from, to, p))
<1>1. PICK m \in Nat : 1 <= m /\ m <= 999 /\ p = Ticks(m)
  BY OnTheGrid DEF OnGrid
<1>2. Complement(p) = Ticks(1000 - m) /\ 1000 - m \in Nat /\ 1 <= 1000 - m /\ 1000 - m <= 999
  BY <1>1, TicksFacts
<1>3. OnGrid(Complement(p))
  BY <1>2, TicksFacts
<1>4. OnGrid(roundToTick(Complement(p)))
  BY <1>3, RoundedIsOrderable DEF OnGrid
<1> QED
  BY <1>4 DEF Turned

\* The arrows move to an entry of VALID_CENTS.
LEMMA SteppedIsValid ==
    ASSUME NEW p, NEW up
    PROVE  stepLimitPrice(p, up) \in ValidPrices
<1>1. ValidPrices \subseteq Nat /\ ValidPrices \in SUBSET (0 .. PRICE_SCALE) /\ PRICE_SCALE \in Nat
  BY ValidFacts, MatchingAssumption DEF Orderable, OnGrid
<1>2. ASSUME NEW S \in SUBSET ValidPrices, S # {} PROVE LeastOf(S) \in S
  <2>1. \E x \in S : \A y \in S : x <= y
    BY <1>1, <1>2, LeastOne
  <2> QED
    BY <2>1 DEF LeastOf
<1>3. ASSUME NEW S \in SUBSET ValidPrices, S # {} PROVE GreatestOf(S) \in S
  <2>1. \E x \in S : \A y \in S : y <= x
    BY <1>1, <1>3, BoundedMax
  <2> QED
    BY <2>1 DEF GreatestOf
<1>4. ValidPrices # {}
  <2>1. 1 \in Cents
    BY DEF Cents
  <2> QED
    BY <2>1, ValidTicks
<1> DEFINE least == LeastOf({q \in ValidPrices : q >= p})
           from == IF \E q \in ValidPrices : q >= p THEN least ELSE GreatestOf(ValidPrices)
<1>5. from \in ValidPrices
  <2>1. CASE \E q \in ValidPrices : q >= p
    <3>1. least \in {q \in ValidPrices : q >= p}
      BY <1>2, <2>1
    <3> QED
      BY <2>1, <3>1
  <2>2. CASE ~\E q \in ValidPrices : q >= p
    <3>1. GreatestOf(ValidPrices) \in ValidPrices
      BY <1>3, <1>4
    <3> QED
      BY <2>2, <3>1
  <2> QED
    BY <2>1, <2>2
<1> HIDE DEF from
<1>6. Higher(from) \subseteq ValidPrices /\ Lower(from) \subseteq ValidPrices
  BY DEF Higher, Lower
<1>7. Higher(from) # {} => LeastOf(Higher(from)) \in ValidPrices
  BY <1>2, <1>6
<1>8. Lower(from) # {} => GreatestOf(Lower(from)) \in ValidPrices
  BY <1>3, <1>6
<1> QED
  BY <1>5, <1>7, <1>8 DEF stepLimitPrice, from

\* Every price that can be ordered is a number of ticks.
LEMMA GridIsOrderable ==
    ASSUME NEW p \in Nat, Orderable(p)
    PROVE  OnGrid(p)
<1>1. PICK m \in Nat : 1 <= m /\ m <= 999 /\ p = Ticks(m)
  BY OnTheGrid
<1> QED
  BY <1>1, TicksFacts

\* A price polled from a book of signed orders.
LEMMA PolledOnGrid ==
    ASSUME NEW b \in Books
    PROVE  OnGrid(roundToTick(yesProbability(BestPrices(b))))
<1> DEFINE bids == {o.limitYesPrice : o \in {q \in b : isBidSide(q)}}
           asks == {o.limitYesPrice : o \in {q \in b : ~isBidSide(q)}}
           best == BestPrices(b)
           Fits(p) == p \in Nat /\ Mil <= p /\ p <= 999 * Mil
<1>1. \A o \in b : o.limitYesPrice \in Nat /\ Orderable(o.limitYesPrice)
  BY FormAssumption
<1>2. \A p \in bids \cup asks : p \in Nat /\ Fits(p) /\ p <= PRICE_SCALE
  BY <1>1, GridIsOrderable, MatchingAssumption DEF OnGrid, Orderable
<1>3. Fits(PRICE_SCALE \div 2)
  BY MilFacts
<1>4. best.hasYesBids = (bids # {}) /\ best.hasNoBids = (asks # {})
  BY DEF BestPrices
<1>5. Fits(best.bid)
  <2>1. CASE bids = {}
    BY <1>3, <2>1 DEF BestPrices
  <2>2. CASE bids # {}
    <3>1. PRICE_SCALE \in Nat /\ bids \in SUBSET (0 .. PRICE_SCALE)
      BY <1>2, MatchingAssumption
    <3>2. \E p \in bids : \A q \in bids : q <= p
      BY <2>2, <3>1, BoundedMax
    <3>3. best.bid \in bids
      BY <2>2, <3>2 DEF BestPrices
    <3> QED
      BY <1>2, <3>3
  <2> QED
    BY <2>1, <2>2
<1>6. Fits(best.ask)
  <2>1. CASE asks = {}
    BY <1>3, <2>1 DEF BestPrices
  <2>2. CASE asks # {}
    <3>1. asks \subseteq Nat
      BY <1>2
    <3>2. \E p \in asks : \A q \in asks : p <= q
      BY <2>2, <3>1, LeastOne
    <3>3. best.ask \in asks
      BY <2>2, <3>2 DEF BestPrices
    <3> QED
      BY <1>2, <3>3
  <2> QED
    BY <2>1, <2>2
<1> HIDE DEF best
<1>7. Fits((best.bid + best.ask) \div 2)
  BY <1>5, <1>6, MilFacts
<1>8. Fits(yesProbability(best))
  BY <1>5, <1>6, <1>7 DEF yesProbability
<1> HIDE DEF bids, asks
<1>9. OnGrid(roundToTick(yesProbability(best)))
  BY <1>8, RoundedIsOrderable
<1> QED
  BY <1>9 DEF best

\* The price prefillOrder takes from a row of the order book.
LEMMA PickedOnGrid ==
    ASSUME NEW ask \in Nat
    PROVE  LET cent == PRICE_SCALE \div 100
               bumped == SnapTo(ask + cent, cent)
               capped == IF bumped > PRICE_SCALE - cent THEN PRICE_SCALE - cent ELSE bumped
           IN  OnGrid(roundToTick(capped))
<1> DEFINE cent == PRICE_SCALE \div 100
           bumped == SnapTo(ask + cent, cent)
           capped == IF bumped > PRICE_SCALE - cent THEN PRICE_SCALE - cent ELSE bumped
<1>1. cent = 10 * Mil /\ cent \in Nat /\ cent > 0 /\ ask + cent \in Nat
  BY MilFacts
<1> HIDE DEF cent
<1>2. /\ RoundDiv(ask + cent, cent) \in Nat
      /\ 2 * (ask + cent) + cent < 2 * (RoundDiv(ask + cent, cent) * cent) + 2 * cent
  BY <1>1, Rounding
<1>3. bumped \in Nat /\ 2 * ask + cent < 2 * bumped
  BY <1>1, <1>2 DEF SnapTo
<1>4. RoundDiv(ask + cent, cent) # 0
  BY <1>1, <1>3 DEF SnapTo
<1>5. 1 * cent <= RoundDiv(ask + cent, cent) * cent
  BY <1>1, <1>2, <1>4, ProductMonotone
<1>6. cent <= bumped
  BY <1>1, <1>5 DEF SnapTo
<1> HIDE DEF bumped
<1>7. capped \in Nat /\ Mil <= capped /\ capped <= 999 * Mil
  BY <1>1, <1>3, <1>6, MilFacts
<1> HIDE DEF capped
<1>8. OnGrid(roundToTick(capped))
  BY <1>7, RoundedIsOrderable
<1> QED
  BY <1>8 DEF capped, bumped, cent

\* The price the text field keeps.
LEMMA TypedOnGrid ==
    ASSUME NEW p \in Nat
    PROVE  OnGrid(SnapTo(IF p < Mil THEN Mil ELSE IF p > 999 * Mil THEN 999 * Mil ELSE p, Mil))
<1> DEFINE clamped == IF p < Mil THEN Mil ELSE IF p > 999 * Mil THEN 999 * Mil ELSE p
<1>1. clamped \in Nat /\ 1 * Mil <= clamped /\ clamped <= 999 * Mil
  BY MilFacts
<1> HIDE DEF clamped
<1> DEFINE Between(lo, hi) == lo * Mil <= clamped /\ clamped <= hi * Mil => RoundDiv(clamped, Mil) \in lo .. hi
<1>2. \A lo, hi \in Nat : Between(lo, hi)
  BY <1>1, MilFacts, RoundingBetween
<1> HIDE DEF Between
<1>3. Between(1, 999)
  BY <1>2
<1>4. RoundDiv(clamped, Mil) \in Nat /\ 1 <= RoundDiv(clamped, Mil) /\ RoundDiv(clamped, Mil) <= 999
  BY <1>1, <1>3 DEF Between
<1>5. OnGrid(Ticks(RoundDiv(clamped, Mil)))
  BY <1>4, TicksFacts
<1>6. OnGrid(SnapTo(clamped, Mil))
  BY <1>5 DEF Ticks, SnapTo
<1> QED
  BY <1>6 DEF clamped

\* The URL is read once; the panel follows it until its first effects have run, and
\* the user chooses only after that.
UrlInv ==
    /\ urlRead => url = Nothing
    /\ mounted /\ fx # FormEffects /\ url # Nothing => outcome = url
    /\ chosen # Nothing => urlRead /\ mounted

\* The form before its first effects, and before it is on the page.
FreshInv ==
    /\ ~mounted \/ fx = FormEffects => outcome = "YES" /\ selectedSide = "YES" /\ chosen = Nothing
    /\ ~mounted => fx = {}

\* A polled price is taken over alone.  Before the user has chosen, the panel and
\* the order book differ only on the outcome's way to the order book.
EffectInv ==
    /\ "price" \in fx => fx = FormEffects \/ (fx = {"price"} /\ urlRead)
    /\ "side" \in fx /\ "outcome" \in fx => fx = FormEffects
    /\ chosen = Nothing /\ "side" \in fx => outcome = selectedSide
    /\ outcome # selectedSide => "side" \in fx \/ "outcome" \in fx

\* The last choice is in both, or in one of them with its effect on the way to the
\* other and none on the way back.
ChosenInv ==
    chosen # Nothing => \/ outcome = chosen /\ selectedSide = chosen
                        \/ outcome = chosen /\ "outcome" \in fx /\ "side" \notin fx
                        \/ selectedSide = chosen /\ "side" \in fx /\ "outcome" \notin fx

PriceInv == OnGrid(limitPrice) /\ OnGrid(initialLimitPrice)

FormInv == FormTypeOK /\ UrlInv /\ FreshInv /\ EffectInv /\ ChosenInv /\ PriceInv

LEMMA FormStarts == FormInit => FormInv
<1> SUFFICES ASSUME FormInit PROVE FormInv
  OBVIOUS
<1>1. OnGrid(PRICE_SCALE \div 2)
  <2>1. PRICE_SCALE \div 2 = Ticks(500)
    BY MilFacts DEF Ticks
  <2>2. OnGrid(Ticks(500))
    BY TicksFacts
  <2> QED
    BY <2>1, <2>2
<1>2. PriceInv
  BY <1>1 DEF FormInit, PriceInv
<1>3. limitPrice \in 0 .. PRICE_SCALE /\ initialLimitPrice \in 0 .. PRICE_SCALE
  BY <1>2, MatchingAssumption DEF PriceInv, OnGrid, Orderable
<1>4. FormTypeOK
  BY <1>3 DEF FormInit, FormTypeOK, Sides
<1>5. /\ urlRead = FALSE /\ chosen = Nothing /\ outcome = "YES" /\ selectedSide = "YES"
      /\ (mounted => fx = FormEffects) /\ (~mounted => fx = {})
  BY DEF FormInit
<1>6. UrlInv /\ FreshInv /\ EffectInv /\ ChosenInv
  BY <1>5 DEF UrlInv, FreshInv, EffectInv, ChosenInv
<1> QED
  BY <1>2, <1>4, <1>6 DEF FormInv

\* The market clears the URL, and the panel comes on the page.
LEMMA PageSteps ==
    ASSUME FormInv, ClearUrl \/ MarketLoads
    PROVE  FormInv'
<1> USE DEF FormInv
<1>1. CASE ClearUrl
  <2>1. FormTypeOK' /\ PriceInv'
    BY <1>1 DEF ClearUrl, FormTypeOK, PriceInv, FormEffects
  <2>2. /\ fx # FormEffects /\ urlRead' = TRUE /\ url' = Nothing
        /\ fx' = IF mounted THEN fx \cup {"url"} ELSE fx
        /\ UNCHANGED <<mounted, outcome, selectedSide, chosen>>
    BY <1>1 DEF ClearUrl
  <2>3. "price" \notin fx
    BY <1>1 DEF ClearUrl, EffectInv
  <2>4. ~(fx' = FormEffects)
    BY <2>2, <2>3 DEF FormTypeOK, FormEffects
  <2> QED
    BY <2>1, <2>2, <2>3, <2>4 DEF UrlInv, FreshInv, EffectInv, ChosenInv
<1>2. CASE MarketLoads
  BY <1>2 DEF MarketLoads, FormTypeOK, UrlInv, FreshInv, EffectInv, ChosenInv, PriceInv, FormEffects
<1> QED
  BY <1>1, <1>2

\* The effects, each with the outcome and the side of the render.
LEMMA EffectStep ==
    ASSUME FormInv, RunEffects
    PROVE  FormInv'
<1> USE DEF FormInv
<1> DEFINE price == IF "price" \in fx THEN initialLimitPrice ELSE limitPrice
           wanted == IF "url" \in fx /\ url # Nothing THEN url ELSE outcome
           bySide == "side" \in fx /\ selectedSide # outcome
           turnsTo == IF bySide THEN selectedSide ELSE wanted
           turned == Turned(outcome, wanted, price)
<1>1. /\ fx # {} /\ outcome' = turnsTo
      /\ limitPrice' = IF bySide THEN Turned(outcome, turnsTo, turned) ELSE turned
      /\ selectedSide' = IF "outcome" \in fx /\ outcome # selectedSide THEN outcome ELSE selectedSide
      /\ fx' = (IF outcome' # outcome THEN {"url", "outcome"} ELSE {})
               \cup (IF selectedSide' # selectedSide THEN {"side"} ELSE {})
      /\ UNCHANGED <<asked, url, urlRead, mounted, initialLimitPrice, chosen>>
      /\ typed' \in BOOLEAN
  BY DEF RunEffects
<1>2. OnGrid(price)
  BY DEF PriceInv
<1> HIDE DEF price
<1>3. OnGrid(turned)
  BY <1>2, TurnedOrderable
<1> HIDE DEF turned
<1>4. OnGrid(Turned(outcome, turnsTo, turned))
  BY <1>3, TurnedOrderable
<1>5. PriceInv'
  BY <1>1, <1>3, <1>4 DEF PriceInv
<1>6. limitPrice' \in 0 .. PRICE_SCALE /\ initialLimitPrice' \in 0 .. PRICE_SCALE
  BY <1>5, MatchingAssumption DEF PriceInv, OnGrid, Orderable
<1>7. wanted \in Sides /\ turnsTo \in Sides
  BY DEF FormTypeOK
<1>8. FormTypeOK'
  BY <1>1, <1>6, <1>7 DEF FormTypeOK, FormEffects
<1>9. mounted
  BY <1>1 DEF FreshInv
<1>10. fx' # FormEffects /\ "price" \notin fx'
  BY <1>1 DEF FormEffects
<1>11. CASE fx = FormEffects
  <2>1. ~bySide /\ outcome = "YES" /\ selectedSide = "YES" /\ chosen = Nothing /\ selectedSide' = "YES"
    BY <1>1, <1>11 DEF FreshInv
  <2>2. outcome' = IF url # Nothing THEN url ELSE "YES"
    BY <1>1, <1>11, <2>1 DEF FormEffects
  <2>3. fx' = IF outcome' # "YES" THEN {"url", "outcome"} ELSE {}
    BY <1>1, <2>1
  <2> QED
    BY <1>1, <1>5, <1>8, <1>9, <1>10, <2>1, <2>2, <2>3
    DEF UrlInv, FreshInv, EffectInv, ChosenInv, Nothing
<1>12. CASE fx # FormEffects
  <2>1. wanted = outcome
    BY <1>9, <1>12 DEF UrlInv
  <2>2. ~("side" \in fx /\ "outcome" \in fx)
    BY <1>12 DEF EffectInv
  <2>3. CASE "side" \in fx
    <3>1. outcome' = selectedSide /\ selectedSide' = selectedSide
      BY <1>1, <2>1, <2>2, <2>3
    <3>2. fx' = IF outcome # selectedSide THEN {"url", "outcome"} ELSE {}
      BY <1>1, <3>1
    <3>3. chosen = Nothing => outcome = selectedSide
      BY <2>3 DEF EffectInv
    <3>4. chosen # Nothing => selectedSide = chosen
      BY <2>2, <2>3 DEF ChosenInv
    <3>5. UrlInv' /\ FreshInv' /\ EffectInv'
      BY <1>1, <1>9, <1>10, <1>12, <3>1, <3>2, <3>3 DEF UrlInv, FreshInv, EffectInv, Nothing
    <3>6. ChosenInv'
      BY <1>1, <3>1, <3>4 DEF ChosenInv
    <3> QED
      BY <1>5, <1>8, <3>5, <3>6
  <2>4. CASE "side" \notin fx
    <3>1. outcome' = outcome
      BY <1>1, <2>1, <2>4
    <3>2. selectedSide' = outcome
      BY <1>1, <2>4 DEF EffectInv
    <3>3. fx' = IF outcome # selectedSide THEN {"side"} ELSE {}
      BY <1>1, <3>1, <3>2
    <3>4. chosen # Nothing => outcome = chosen
      BY <2>4 DEF ChosenInv
    <3>5. UrlInv' /\ FreshInv' /\ EffectInv'
      BY <1>1, <1>9, <1>10, <1>12, <3>1, <3>2, <3>3 DEF UrlInv, FreshInv, EffectInv, Nothing
    <3>6. ChosenInv'
      BY <1>1, <3>1, <3>2, <3>4 DEF ChosenInv
    <3> QED
      BY <1>5, <1>8, <3>5, <3>6
  <2> QED
    BY <2>3, <2>4
<1> QED
  BY <1>11, <1>12

\* A page at rest shows one side, the one the user chose last.
LEMMA RestShowsOne ==
    ASSUME FormInv, FormAtRest
    PROVE  /\ fx = {} /\ mounted /\ urlRead /\ url = Nothing /\ outcome = selectedSide
           /\ chosen # Nothing => outcome = chosen
  BY DEF FormInv, FormAtRest, UrlInv, EffectInv, ChosenInv

\* A poll, and what the user does with the price.
LEMMA PriceSteps ==
    ASSUME FormInv,
           \/ \E b \in Books : PollPrice(b)
           \/ \E p \in Typed : TypePrice(p)
           \/ \E up \in BOOLEAN : StepPrice(up)
    PROVE  FormInv'
<1> USE DEF FormInv
<1>0. FormAtRest
  BY DEF PollPrice, TypePrice, StepPrice
<1>1. fx = {} /\ mounted /\ urlRead /\ url = Nothing /\ outcome = selectedSide
      /\ (chosen # Nothing => outcome = chosen)
  BY <1>0, RestShowsOne
<1>2. /\ UNCHANGED <<asked, url, urlRead, mounted, outcome, selectedSide, chosen>>
      /\ fx' \in {{}, {"price"}} /\ typed' \in BOOLEAN
  BY <1>1 DEF PollPrice, TypePrice, StepPrice, FormTypeOK
<1>3. PriceInv'
  <2>1. ASSUME NEW b \in Books, PollPrice(b) PROVE PriceInv'
    BY <2>1, PolledOnGrid DEF PollPrice, PriceInv
  <2>2. ASSUME NEW p \in Typed, TypePrice(p) PROVE PriceInv'
    <3>1. p \in Nat
      BY FormAssumption
    <3> QED
      BY <2>2, <3>1, TypedOnGrid DEF TypePrice, PriceInv
  <2>3. ASSUME NEW up \in BOOLEAN, StepPrice(up) PROVE PriceInv'
    BY <2>3, SteppedIsValid, ValidFacts DEF StepPrice, PriceInv
  <2> QED
    BY <2>1, <2>2, <2>3
<1>4. limitPrice' \in 0 .. PRICE_SCALE /\ initialLimitPrice' \in 0 .. PRICE_SCALE
  BY <1>3, MatchingAssumption DEF PriceInv, OnGrid, Orderable
<1>5. FormTypeOK'
  BY <1>2, <1>4 DEF FormTypeOK, FormEffects
<1>6. UrlInv' /\ FreshInv' /\ EffectInv' /\ ChosenInv'
  BY <1>1, <1>2 DEF UrlInv, FreshInv, EffectInv, ChosenInv, FormEffects
<1> QED
  BY <1>3, <1>5, <1>6

\* The user chooses a side, in the panel, the order book or one of its rows.
LEMMA ChoiceSteps ==
    ASSUME FormInv, NEW s \in Sides,
           ChooseOutcome(s) \/ ChooseSide(s) \/ \E p \in Typed : prefillOrder(s, p)
    PROVE  FormInv'
<1> USE DEF FormInv
<1>0. FormAtRest
  BY DEF ChooseOutcome, ChooseSide, prefillOrder
<1>1. fx = {} /\ mounted /\ urlRead /\ url = Nothing /\ outcome = selectedSide
  BY <1>0, RestShowsOne
<1>2. s # Nothing
  BY DEF Sides, Nothing
<1>3. CASE ChooseOutcome(s)
  <2>1. PriceInv'
    BY <1>3, TurnedOrderable DEF ChooseOutcome, PriceInv
  <2>2. limitPrice' \in 0 .. PRICE_SCALE /\ initialLimitPrice' \in 0 .. PRICE_SCALE
    BY <2>1, MatchingAssumption DEF PriceInv, OnGrid, Orderable
  <2>3. FormTypeOK'
    BY <1>3, <2>2 DEF ChooseOutcome, FormTypeOK, FormEffects
  <2> QED
    BY <1>1, <1>2, <1>3, <2>1, <2>3 DEF ChooseOutcome, UrlInv, FreshInv, EffectInv, ChosenInv, FormEffects
<1>4. CASE ChooseSide(s)
  BY <1>1, <1>2, <1>4
  DEF ChooseSide, FormTypeOK, PriceInv, UrlInv, FreshInv, EffectInv, ChosenInv, FormEffects
<1>5. ASSUME NEW p \in Typed, prefillOrder(s, p) PROVE FormInv'
  <2>1. PriceInv'
    <3>1. p \in Nat
      BY FormAssumption
    <3> QED
      BY <1>5, <3>1, PickedOnGrid DEF prefillOrder, PriceInv
  <2>2. limitPrice' \in 0 .. PRICE_SCALE /\ initialLimitPrice' \in 0 .. PRICE_SCALE
    BY <2>1, MatchingAssumption DEF PriceInv, OnGrid, Orderable
  <2>3. /\ outcome' = s /\ chosen' = s /\ typed' = TRUE
        /\ fx' = (IF s # outcome THEN {"url", "outcome"} ELSE {})
        /\ UNCHANGED <<asked, url, urlRead, mounted, selectedSide>>
    BY <1>5 DEF prefillOrder
  <2>4. FormTypeOK'
    BY <2>2, <2>3 DEF FormTypeOK, FormEffects
  <2> QED
    BY <1>1, <1>2, <2>1, <2>3, <2>4 DEF UrlInv, FreshInv, EffectInv, ChosenInv, FormEffects
<1> QED
  BY <1>3, <1>4, <1>5

\* Every step keeps the invariant.
LEMMA FormSteps == FormInv /\ [FormNext]_formVars => FormInv'
<1> SUFFICES ASSUME FormInv, [FormNext]_formVars PROVE FormInv'
  OBVIOUS
<1>1. CASE FormNext
  <2>1. CASE RunEffects
    BY <2>1, EffectStep
  <2>2. CASE ClearUrl \/ MarketLoads
    BY <2>2, PageSteps
  <2>3. ASSUME NEW s \in Sides,
               ChooseOutcome(s) \/ ChooseSide(s) \/ \E p \in Typed : prefillOrder(s, p)
        PROVE  FormInv'
    BY <2>3, ChoiceSteps
  <2>4. CASE \/ \E b \in Books : PollPrice(b)
             \/ \E p \in Typed : TypePrice(p)
             \/ \E up \in BOOLEAN : StepPrice(up)
    BY <2>4, PriceSteps
  <2> QED
    BY <1>1, <2>1, <2>2, <2>3, <2>4 DEF FormNext
<1>2. CASE UNCHANGED formVars
  BY <1>2 DEF formVars, FormInv, FormTypeOK, UrlInv, FreshInv, EffectInv, ChosenInv, PriceInv
<1> QED
  BY <1>1, <1>2

\* Whatever the order of polls, effects and choices, in the panel or the order book:
\* at rest both show the side chosen last, every price the form holds can be ordered,
\* and turning the outcome there and back restores it; for any scale of prices that
\* is a multiple of the 1000 ticks and any books of signed orders.
THEOREM FormKeepsStep == FormSpec => []FormInStep
<1>1. FormInv => FormInStep
  <2> SUFFICES ASSUME FormInv PROVE FormInStep
    OBVIOUS
  <2>1. ChoiceKept
    BY RestShowsOne DEF ChoiceKept
  <2>2. PriceOrderable
    BY DEF FormInv, PriceInv, OnGrid, PriceOrderable
  <2> QED
    BY <2>1, <2>2, TurnRestores DEF FormInStep
<1> QED
  BY <1>1, FormStarts, FormSteps, PTL DEF FormSpec

-----------------------------------------------------------------------------
(* Cancellations and claims (Portfolio.tsx, ClaimPrismDialog.tsx and the API's  *)
(* CancelPredictionIntent and ClaimPrism).                                   *)

\* One element of a sequence is replaced.
LEMMA OneReplaced ==
    ASSUME NEW S, NEW s \in Seq(S), NEW i \in DOMAIN s, NEW c \in S, NEW s1,
           s1 = [s EXCEPT ![i] = c]
    PROVE  /\ s1 \in Seq(S) /\ DOMAIN s1 = DOMAIN s /\ s1[i] = c
           /\ \A j \in DOMAIN s : j # i => s1[j] = s[j]
  OBVIOUS

\* One element is appended.
LEMMA OneAppended ==
    ASSUME NEW S, NEW s \in Seq(S), NEW c \in S, NEW s1, s1 = Append(s, c)
    PROVE  /\ s1 \in Seq(S) /\ DOMAIN s1 = DOMAIN s \cup {Len(s) + 1}
           /\ Len(s) + 1 \notin DOMAIN s /\ s1[Len(s) + 1] = c
           /\ \A j \in DOMAIN s : s1[j] = s[j]
  OBVIOUS

\* A set of which any two members are one has at most one.
LEMMA OneAtMost ==
    ASSUME NEW S, \A x, y \in S : x = y
    PROVE  Cardinality(S) <= 1
  <1>1. CASE S = {}
    BY <1>1, FS_EmptySet
  <1>2. CASE S # {}
    <2>1. PICK x : x \in S
      BY <1>2
    <2>2. S = {x}
      BY <2>1
    <2> QED
      BY <2>2, FS_Singleton
  <1> QED
    BY <1>1, <1>2

\* A cancellation as handleConfirm starts it and the API answers it.
CancelSigs ==
    [by : Traders,
     message : {buildCancelSigningPayload(o, DEFAULT_CANCEL_PAYLOAD_MODE) : o \in Intents}]
CancelAnswers ==
    {"none", "no_key", "not_signed", "public_key_mismatch", "does_not_own",
     "already_cancelled", "invalid_signature", "ok", "not_found", "clob"}
CancelCall ==
    [mount : Nat, order : Intents, account : Traders, key : Traders \cup {NoIntent},
     sig : CancelSigs \cup {NoIntent}, step : CancelSteps, answer : CancelAnswers]

CancelTypes ==
    /\ cancelRow \in [Intents -> {"open", "cancelled", "matched"}]
    /\ cancelBook \subseteq lut /\ lut \subseteq Intents
    /\ wallet \in [signer : Traders, info : Traders \cup {NoIntent}]
    /\ page \in [mount : Nat, shown : SUBSET Intents,
                 orderToCancel : Intents \cup {NoIntent}, isLoading : BOOLEAN]
    /\ cancelCalls \in Seq(CancelCall)

\* What is known of a cancellation at each of its steps: what was sent is signed by
\* its account's key, what passed the guards is of its account's own order, and what
\* was marked is no longer open.  No page but the present one and those before
\* it has any.
CallSound(c) ==
    /\ c.mount <= page.mount
    /\ c.step \in {"sent", "verified", "marked"} =>
         /\ c.sig = [by |-> c.account,
                     message |-> buildCancelSigningPayload(c.order, DEFAULT_CANCEL_PAYLOAD_MODE)]
         /\ <<c.account, c.order>> \in signed
    /\ c.step \in {"verified", "marked"} => Owner[c.order] = c.account
    /\ c.step = "marked" => cancelRow[c.order] # "open"
    /\ c.answer = "ok" => c.order \in lut \ cancelBook /\ cancelRow[c.order] # "open"
    /\ c.answer # "invalid_signature"

CancelInv ==
    /\ CancelTypes
    /\ \A i \in DOMAIN cancelCalls : CallSound(cancelCalls[i])
    /\ CancelledByOwner
    /\ OneCancelAtATime

LEMMA CallIsTyped ==
    ASSUME CancelTypes
    PROVE  \A i \in DOMAIN cancelCalls : cancelCalls[i] \in CancelCall
  BY DEF CancelTypes

\* The invariant has what is claimed.
LEMMA CancelInvIsHonest == CancelInv => CancelIsHonest
  BY DEF CancelInv, CallSound, CancelIsHonest, ToldIsOut, SignatureAccepted

LEMMA CancelStarts == CancelInit => CancelInv
  <1> SUFFICES ASSUME CancelInit PROVE CancelInv
    OBVIOUS
  <1>1. CancelTypes
    BY DEF CancelInit, CancelTypes, FreshPage
  <1> QED
    BY <1>1 DEF CancelInit, CancelInv, CancelledByOwner, OneCancelAtATime, FreshPage

\* A step of the order service leaves the pages and the calls alone, opens no row,
\* cancels none, and takes no order back into the book that was in it before.
LEMMA ServiceKeeps ==
    ASSUME CancelInv, UNCHANGED clientVars,
           cancelRow' \in [Intents -> {"open", "cancelled", "matched"}],
           \A o \in Intents : /\ cancelRow'[o] = "open" => cancelRow[o] = "open"
                              /\ cancelRow'[o] = "cancelled" => cancelRow[o] = "cancelled",
           lut \subseteq lut', lut' \subseteq Intents, cancelBook' \subseteq lut',
           cancelBook' \cap lut \subseteq cancelBook
    PROVE  CancelInv'
  <1>1. CancelTypes'
    BY DEF CancelInv, CancelTypes, clientVars
  <1>2. ASSUME NEW i \in DOMAIN cancelCalls' PROVE CallSound(cancelCalls[i])'
    <2>1. CallSound(cancelCalls[i]) /\ cancelCalls' = cancelCalls /\ i \in DOMAIN cancelCalls
      BY DEF CancelInv, clientVars
    <2>2. cancelCalls[i].order \in Intents
      BY <2>1, CallIsTyped DEF CancelInv, CancelCall
    <2> QED
      BY <2>1, <2>2 DEF CallSound, clientVars
  <1>3. CancelledByOwner' /\ OneCancelAtATime'
    BY DEF CancelInv, clientVars, CancelledByOwner, OneCancelAtATime, CancelRunning
  <1> QED
    BY <1>1, <1>2, <1>3 DEF CancelInv

\* A step that changes of a page only what it shows.
LEMMA PageKeeps ==
    ASSUME CancelInv, UNCHANGED <<serviceVars, cancelCalls, signed>>, CancelTypes',
           page'.mount = page.mount, page'.isLoading = page.isLoading
    PROVE  CancelInv'
  <1>1. \A i \in DOMAIN cancelCalls' : CallSound(cancelCalls[i])'
    BY DEF CancelInv, CallSound, serviceVars
  <1>2. CancelledByOwner' /\ OneCancelAtATime'
    BY DEF CancelInv, serviceVars, CancelledByOwner, OneCancelAtATime, CancelRunning
  <1> QED
    BY <1>1, <1>2 DEF CancelInv

\* A cancellation under way on another page is not ended: a step of call i that
\* leaves it running, or of which the page does not change, keeps one per page.
LEMMA CallKeeps ==
    ASSUME CancelInv, NEW i \in DOMAIN cancelCalls, NEW c \in CancelCall,
           cancelCalls' = [cancelCalls EXCEPT ![i] = c],
           c.mount = cancelCalls[i].mount, c.order = cancelCalls[i].order,
           cancelCalls[i].step # "done", c.step # "done",
           UNCHANGED page, CallSound(c)', signed \subseteq signed',
           CancelTypes', CancelledByOwner',
           \A o \in Intents : cancelRow'[o] = "open" => cancelRow[o] = "open",
           lut' = lut, cancelBook' \subseteq cancelBook
    PROVE  CancelInv'
  <1>1. /\ DOMAIN cancelCalls' = DOMAIN cancelCalls /\ cancelCalls'[i] = c
        /\ \A j \in DOMAIN cancelCalls : j # i => cancelCalls'[j] = cancelCalls[j]
        /\ \A j \in DOMAIN cancelCalls : cancelCalls[j] \in CancelCall
    BY OneReplaced DEF CancelInv, CancelTypes
  <1>2. ASSUME NEW j \in DOMAIN cancelCalls' PROVE CallSound(cancelCalls[j])'
    <2>1. CASE j = i
      BY <1>1, <2>1 DEF CallSound
    <2>2. CASE j # i
      <3>1. CallSound(cancelCalls[j]) /\ cancelCalls'[j] = cancelCalls[j]
        BY <1>1, <2>2 DEF CancelInv
      <3>2. cancelCalls[j].order \in Intents
        BY <1>1 DEF CancelCall
      <3> QED
        BY <3>1, <3>2 DEF CallSound
    <2> QED
      BY <2>1, <2>2
  <1>3. OneCancelAtATime'
    <2>1. \A j \in DOMAIN cancelCalls :
             /\ cancelCalls'[j].mount = cancelCalls[j].mount
             /\ CancelRunning(j)' <=> CancelRunning(j)
      BY <1>1 DEF CancelRunning
    <2> QED
      BY <1>1, <2>1 DEF CancelInv, OneCancelAtATime
  <1> QED
    BY <1>2, <1>3 DEF CancelInv
LEMMA CancelServiceSteps ==
    ASSUME CancelInv, NEW o \in Intents,
           \/ publishIntent(o) \/ FillOnClob(o) \/ AddPredictionIntentFill(o)
           \/ \E acked \in BOOLEAN : consumeIntent(o, acked)
    PROVE  CancelInv'
  <1> USE DEF CancelInv, CancelTypes
  <1>1. CASE publishIntent(o)
    BY <1>1, ServiceKeeps DEF publishIntent
  <1>2. CASE FillOnClob(o)
    BY <1>2, ServiceKeeps DEF FillOnClob
  <1>3. CASE AddPredictionIntentFill(o)
    BY <1>3, ServiceKeeps DEF AddPredictionIntentFill
  <1>4. ASSUME NEW acked \in BOOLEAN, consumeIntent(o, acked) PROVE CancelInv'
    BY <1>4, ServiceKeeps DEF consumeIntent, place_unseen
  <1> QED
    BY <1>1, <1>2, <1>3, <1>4

LEMMA CancelPageSteps ==
    ASSUME CancelInv,
           \/ \E o \in Intents : onRequestCancel(o)
           \/ \E a \in Traders, info \in Traders \cup {NoIntent} : SwitchAccount(a, info)
           \/ refreshPortfolio \/ onOpenChange \/ LeavePage
    PROVE  CancelInv'
  <1>1. CancelTypes
    BY DEF CancelInv
  <1>2. ASSUME NEW o \in Intents, onRequestCancel(o) PROVE CancelInv'
    BY <1>1, <1>2, PageKeeps DEF onRequestCancel, CancelTypes, serviceVars
  <1>3. ASSUME NEW a \in Traders, NEW info \in Traders \cup {NoIntent}, SwitchAccount(a, info)
        PROVE  CancelInv'
    BY <1>1, <1>3, PageKeeps DEF SwitchAccount, CancelTypes, serviceVars
  <1>4. CASE refreshPortfolio
    BY <1>1, <1>4, PageKeeps DEF refreshPortfolio, Listed, CancelTypes, serviceVars
  <1>5. CASE onOpenChange
    BY <1>1, <1>5, PageKeeps DEF onOpenChange, CancelTypes, serviceVars
  <1>6. CASE LeavePage
    <2>1. CancelTypes'
      BY <1>1, <1>6 DEF LeavePage, FreshPage, CancelTypes, serviceVars
    <2>2. \A i \in DOMAIN cancelCalls : /\ cancelCalls[i].mount \in Nat
                                        /\ cancelCalls[i].mount <= page.mount
      BY <1>1, CallIsTyped DEF CancelInv, CallSound, CancelCall
    <2>3. page.mount \in Nat /\ page'.mount = page.mount + 1 /\ page'.isLoading = FALSE
      BY <1>1, <1>6 DEF LeavePage, FreshPage, CancelTypes
    <2>4. ASSUME NEW i \in DOMAIN cancelCalls' PROVE CallSound(cancelCalls[i])'
      <3>1. /\ CallSound(cancelCalls[i]) /\ i \in DOMAIN cancelCalls
            /\ UNCHANGED <<serviceVars, cancelCalls, signed>>
        BY <1>6 DEF CancelInv, LeavePage
      <3>2. cancelCalls[i].mount <= page'.mount
        BY <2>2, <2>3, <3>1
      <3> QED
        BY <3>1, <3>2 DEF CallSound, serviceVars
    <2>5. CancelledByOwner'
      BY <1>6 DEF CancelInv, LeavePage, serviceVars, CancelledByOwner
    <2>6. OneCancelAtATime'
      BY <1>6, <2>2, <2>3 DEF CancelInv, LeavePage, OneCancelAtATime, CancelRunning
    <2> QED
      BY <2>1, <2>4, <2>5, <2>6 DEF CancelInv
  <1> QED
    BY <1>2, <1>3, <1>4, <1>5, <1>6

\* A page whose buttons are enabled has no cancellation under way, so one may start.
LEMMA ConfirmKeeps ==
    ASSUME CancelInv, handleConfirm
    PROVE  CancelInv'
  <1>1. CancelTypes
    BY DEF CancelInv
  <1>n. PICK n \in Nat : n = Len(cancelCalls) + 1
    BY <1>1 DEF CancelTypes
  <1>2. NewCancel \in CancelCall
    BY <1>1 DEF handleConfirm, CancelTypes, NewCancel, CancelCall, CancelSteps, CancelAnswers
  <1>3. /\ cancelCalls' \in Seq(CancelCall) /\ DOMAIN cancelCalls' = DOMAIN cancelCalls \cup {n}
        /\ n \notin DOMAIN cancelCalls /\ cancelCalls'[n] = NewCancel
        /\ \A j \in DOMAIN cancelCalls : cancelCalls'[j] = cancelCalls[j]
    BY <1>1, <1>n, <1>2, OneAppended DEF CancelTypes, handleConfirm
  <1>4. /\ page'.mount = page.mount /\ page.mount \in Nat
        /\ page'.isLoading = TRUE /\ page.isLoading = FALSE
    BY <1>1 DEF CancelTypes, handleConfirm
  <1>5. CancelTypes'
    BY <1>1, <1>3 DEF CancelTypes, handleConfirm, serviceVars
  <1>6. NewCancel.step \in {"lookup", "signing"} /\ NewCancel.answer = "none"
        /\ NewCancel.mount = page.mount
    BY DEF NewCancel
  <1>7. ASSUME NEW j \in DOMAIN cancelCalls' PROVE CallSound(cancelCalls[j])'
    <2>1. CASE j = n
      BY <1>3, <1>4, <1>6, <2>1 DEF CallSound
    <2>2. CASE j \in DOMAIN cancelCalls
      BY <1>3, <1>4, <2>2 DEF CancelInv, CallSound, handleConfirm, serviceVars
    <2> QED
      BY <1>3, <2>1, <2>2
  <1>8. OneCancelAtATime'
    <2>1. \A j \in DOMAIN cancelCalls :
             /\ CancelRunning(j) => cancelCalls[j].mount # page.mount
             /\ CancelRunning(j)' <=> CancelRunning(j)
             /\ cancelCalls'[j].mount = cancelCalls[j].mount
      BY <1>3, <1>4 DEF CancelInv, OneCancelAtATime, CancelRunning
    <2>2. CancelRunning(n)' /\ cancelCalls'[n].mount = page'.mount
      BY <1>3, <1>4, <1>6 DEF CancelRunning
    <2> QED
      BY <1>3, <1>4, <2>1, <2>2 DEF CancelInv, OneCancelAtATime
  <1>9. CancelledByOwner'
    BY DEF CancelInv, handleConfirm, serviceVars, CancelledByOwner
  <1> QED
    BY <1>5, <1>7, <1>8, <1>9 DEF CancelInv
\* A step that writes a call's step and answer.
LEMMA CallWritten ==
    ASSUME CancelTypes, NEW i \in DOMAIN cancelCalls,
           NEW step \in CancelSteps, NEW answer \in CancelAnswers, SetCancel(i, step, answer)
    PROVE  /\ cancelCalls' \in Seq(CancelCall)
           /\ \E c \in CancelCall :
                 /\ cancelCalls' = [cancelCalls EXCEPT ![i] = c]
                 /\ c.step = step /\ c.answer = answer
                 /\ c.mount = cancelCalls[i].mount /\ c.order = cancelCalls[i].order
                 /\ c.account = cancelCalls[i].account /\ c.sig = cancelCalls[i].sig
  <1> DEFINE c == [cancelCalls[i] EXCEPT !.step = step, !.answer = answer]
  <1>1. cancelCalls[i] \in CancelCall
    BY CallIsTyped
  <1>2. c \in CancelCall
    BY <1>1 DEF CancelCall
  <1>3. cancelCalls' = [cancelCalls EXCEPT ![i] = c]
    BY DEF SetCancel, CancelTypes
  <1>4. /\ c.step = step /\ c.answer = answer
        /\ c.mount = cancelCalls[i].mount /\ c.order = cancelCalls[i].order
        /\ c.account = cancelCalls[i].account /\ c.sig = cancelCalls[i].sig
    BY <1>1 DEF CancelCall
  <1> QED
    BY <1>2, <1>3, <1>4, OneReplaced DEF CancelTypes

\* The key is looked up.
LEMMA LookupKeeps ==
    ASSUME CancelInv, NEW i \in DOMAIN cancelCalls, NEW found \in BOOLEAN,
           handleCancelOrder(i, found)
    PROVE  CancelInv'
  <1> DEFINE d == [cancelCalls[i] EXCEPT
                     !.step = IF found THEN "signing" ELSE "answered",
                     !.key = IF found THEN cancelCalls[i].account ELSE NoIntent,
                     !.answer = IF found THEN "none" ELSE "no_key"]
  <1>1. CancelTypes /\ cancelCalls[i] \in CancelCall /\ CallSound(cancelCalls[i])
    BY CallIsTyped DEF CancelInv
  <1>2. d \in CancelCall
    BY <1>1 DEF CancelCall, CancelSteps, CancelAnswers
  <1>3. cancelCalls' = [cancelCalls EXCEPT ![i] = d]
    BY <1>1 DEF handleCancelOrder, CancelTypes
  <1>4. /\ d.mount = cancelCalls[i].mount /\ d.order = cancelCalls[i].order
        /\ d.step \in {"signing", "answered"} /\ d.answer \in {"none", "no_key"}
    BY <1>1 DEF CancelCall
  <1>5. PICK c \in CancelCall : /\ cancelCalls' = [cancelCalls EXCEPT ![i] = c]
                                /\ c.mount = cancelCalls[i].mount
                                /\ c.order = cancelCalls[i].order
                                /\ c.step \in {"signing", "answered"}
                                /\ c.answer \in {"none", "no_key"}
    BY <1>2, <1>3, <1>4
  <1> HIDE DEF d
  <1>6. cancelCalls' \in Seq(CancelCall)
    BY <1>1, <1>5, OneReplaced DEF CancelTypes
  <1>7. UNCHANGED <<cancelRow, cancelBook, lut, wallet, page, signed>>
    BY DEF handleCancelOrder, serviceVars
  <1>8. CancelTypes' /\ CancelledByOwner'
    BY <1>1, <1>6, <1>7 DEF CancelTypes, CancelInv, CancelledByOwner
  <1>9. CallSound(c)' /\ cancelCalls[i].step # "done" /\ c.step # "done"
    BY <1>1, <1>5, <1>7 DEF CallSound, handleCancelOrder, StandsAt
  <1> QED
    BY <1>5, <1>7, <1>8, <1>9, CallKeeps

\* The wallet signs the order's id with the key of the call's account.
LEMMA SignedKeeps ==
    ASSUME CancelInv, NEW i \in DOMAIN cancelCalls, submitSignedCancel(i)
    PROVE  CancelInv'
  <1> DEFINE s == [by |-> cancelCalls[i].account,
                   message |-> buildCancelSigningPayload(cancelCalls[i].order,
                                                         DEFAULT_CANCEL_PAYLOAD_MODE)]
             d == [cancelCalls[i] EXCEPT !.step = "sent", !.sig = s]
  <1>1. CancelTypes /\ cancelCalls[i] \in CancelCall /\ CallSound(cancelCalls[i])
    BY CallIsTyped DEF CancelInv
  <1>2. s \in CancelSigs
    BY <1>1 DEF CancelSigs, CancelCall
  <1>3. d \in CancelCall
    BY <1>1, <1>2 DEF CancelCall, CancelSteps
  <1>4. cancelCalls' = [cancelCalls EXCEPT ![i] = d]
    BY <1>1 DEF submitSignedCancel, CancelTypes
  <1>5. /\ d.mount = cancelCalls[i].mount /\ d.order = cancelCalls[i].order
        /\ d.account = cancelCalls[i].account /\ d.sig = s
        /\ d.step = "sent" /\ d.answer = cancelCalls[i].answer
    BY <1>1 DEF CancelCall
  <1>6. PICK c \in CancelCall : /\ cancelCalls' = [cancelCalls EXCEPT ![i] = c]
                                /\ c.mount = cancelCalls[i].mount
                                /\ c.order = cancelCalls[i].order
                                /\ c.account = cancelCalls[i].account /\ c.step = "sent"
                                /\ c.sig = [by |-> c.account, message |->
                                     buildCancelSigningPayload(c.order,
                                                               DEFAULT_CANCEL_PAYLOAD_MODE)]
                               /\ c.answer = cancelCalls[i].answer
    BY <1>3, <1>4, <1>5
  <1> HIDE DEF d, s
  <1>7. cancelCalls' \in Seq(CancelCall)
    BY <1>1, <1>6, OneReplaced DEF CancelTypes
  <1>8. /\ UNCHANGED <<cancelRow, cancelBook, lut, wallet, page>>
        /\ signed' = signed \cup {<<cancelCalls[i].account, cancelCalls[i].order>>}
    BY DEF submitSignedCancel, serviceVars
  <1>9. CancelTypes' /\ CancelledByOwner'
    BY <1>1, <1>7, <1>8 DEF CancelTypes, CancelInv, CancelledByOwner
  <1>10. CallSound(c)' /\ cancelCalls[i].step # "done" /\ c.step # "done"
    BY <1>1, <1>6, <1>8 DEF CallSound, submitSignedCancel, StandsAt
  <1> QED
    BY <1>6, <1>8, <1>9, <1>10, CallKeeps

\* What the guards of CancelPredictionIntent let pass is the account's own, and a
\* signature with the account's own key is never what they refuse.
LEMMA GuardsHold ==
    ASSUME NEW c \in CancelCall, CallSound(c), c.step = "sent"
    PROVE  /\ Refusal(c) = "none" => Owner[c.order] = c.account
           /\ Refusal(c) \in CancelAnswers \ {"ok", "invalid_signature"}
  BY DEF Refusal, CallSound, VerifySig, buildCancelSigningPayload, PayloadBytes,
         DEFAULT_CANCEL_PAYLOAD_MODE, CancelAnswers

\* The steps that write a call's step and answer.
LEMMA WrittenKeeps ==
    ASSUME CancelInv, NEW i \in DOMAIN cancelCalls,
           \/ CancelNotSigned(i) \/ CancelPredictionIntent(i)
           \/ MarkCancelled(i) \/ cancel_order(i) \/ ClobFails(i)
    PROVE  CancelInv'
  <1> DEFINE CallSoundWith(step, answer) ==
               \A c \in CancelCall :
                  /\ c.step = step /\ c.answer = answer
                  /\ c.mount = cancelCalls[i].mount /\ c.order = cancelCalls[i].order
                  /\ c.account = cancelCalls[i].account /\ c.sig = cancelCalls[i].sig
                  => CallSound(c)'
  <1>1. CancelTypes /\ cancelCalls[i] \in CancelCall /\ CallSound(cancelCalls[i])
    BY CallIsTyped DEF CancelInv
  <1>2. ASSUME NEW step \in CancelSteps \ {"done"}, NEW answer \in CancelAnswers,
               SetCancel(i, step, answer), cancelCalls[i].step # "done",
               UNCHANGED <<lut, wallet, page, signed>>,
               cancelRow' \in [Intents -> {"open", "cancelled", "matched"}],
               \A o \in Intents : cancelRow'[o] = "open" => cancelRow[o] = "open",
               cancelBook' \subseteq cancelBook, CancelledByOwner',
               CallSoundWith(step, answer)
        PROVE  CancelInv'
    <2>1. PICK c \in CancelCall :
                 /\ cancelCalls' = [cancelCalls EXCEPT ![i] = c]
                 /\ c.step = step /\ c.answer = answer
                 /\ c.mount = cancelCalls[i].mount /\ c.order = cancelCalls[i].order
                 /\ c.account = cancelCalls[i].account /\ c.sig = cancelCalls[i].sig
      BY <1>1, <1>2, CallWritten
    <2>2. CancelTypes'
      BY <1>1, <1>2, CallWritten DEF CancelTypes
    <2> QED
      BY <1>2, <2>1, <2>2, CallKeeps
  <1>3. CASE CancelNotSigned(i)
    <2>1. /\ UNCHANGED <<cancelRow, cancelBook, lut, wallet, page, signed>>
          /\ cancelCalls[i].step = "signing" /\ SetCancel(i, "answered", "not_signed")
      BY <1>3 DEF CancelNotSigned, StandsAt, serviceVars
    <2>2. CancelledByOwner'
      BY <2>1 DEF CancelInv, CancelledByOwner
    <2>3. CallSoundWith("answered", "not_signed")
      BY <1>1, <2>1 DEF CallSound
    <2>4. "answered" \in CancelSteps \ {"done"} /\ "not_signed" \in CancelAnswers
      BY DEF CancelSteps, CancelAnswers
    <2> QED
      BY <1>1, <1>2, <2>1, <2>2, <2>3, <2>4 DEF CancelTypes
  <1>4. CASE CancelPredictionIntent(i)
    <2>1. /\ UNCHANGED <<cancelRow, cancelBook, lut, wallet, page, signed>>
          /\ cancelCalls[i].step = "sent"
      BY <1>4 DEF CancelPredictionIntent, StandsAt, serviceVars
    <2>2. CancelledByOwner'
      BY <2>1 DEF CancelInv, CancelledByOwner
    <2>3. CASE Refusal(cancelCalls[i]) = "none"
      <3>1. SetCancel(i, "verified", "none") /\ Owner[cancelCalls[i].order] = cancelCalls[i].account
        BY <1>1, <1>4, <2>1, <2>3, GuardsHold DEF CancelPredictionIntent
      <3> QED
        <4>1. CallSoundWith("verified", "none")
          BY <1>1, <2>1, <3>1 DEF CallSound
        <4>2. "verified" \in CancelSteps \ {"done"} /\ "none" \in CancelAnswers
          BY DEF CancelSteps, CancelAnswers
        <4> QED
          BY <1>1, <1>2, <2>1, <2>2, <3>1, <4>1, <4>2 DEF CancelTypes
    <2>4. CASE Refusal(cancelCalls[i]) # "none"
      <3>1. PICK e \in CancelAnswers \ {"ok", "invalid_signature"} : SetCancel(i, "answered", e)
        BY <1>1, <1>4, <2>1, <2>4, GuardsHold DEF CancelPredictionIntent
      <3> QED
        BY <1>1, <1>2, <2>1, <2>2, <3>1 DEF CancelSteps, CallSound, CancelTypes
    <2> QED
      BY <2>3, <2>4
  <1>5. CASE MarkCancelled(i)
    <2>1. /\ UNCHANGED <<cancelBook, lut, wallet, page, signed>> /\ cancelCalls[i].step = "verified"
          /\ SetCancel(i, "marked", "none") /\ cancelCalls[i].order \in Intents
          /\ cancelRow' = [cancelRow EXCEPT ![cancelCalls[i].order] =
                              IF @ = "open" THEN "cancelled" ELSE @]
      BY <1>1, <1>5 DEF MarkCancelled, StandsAt, CancelCall
    <2>2. /\ cancelRow' \in [Intents -> {"open", "cancelled", "matched"}]
          /\ \A o \in Intents : cancelRow'[o] = "open" => cancelRow[o] = "open"
          /\ cancelRow'[cancelCalls[i].order] # "open"
      BY <1>1, <2>1 DEF CancelTypes
    <2>3. CancelledByOwner'
      BY <1>1, <2>1 DEF CancelInv, CancelledByOwner, CallSound, CancelTypes
    <2>4. CallSoundWith("marked", "none")
      BY <1>1, <2>1, <2>2 DEF CallSound
    <2>5. "marked" \in CancelSteps \ {"done"} /\ "none" \in CancelAnswers
      BY DEF CancelSteps, CancelAnswers
    <2> QED
      BY <1>2, <2>1, <2>2, <2>3, <2>4, <2>5
  <1>6. CASE cancel_order(i)
    <2>1. /\ UNCHANGED <<cancelRow, lut, wallet, page, signed>> /\ cancelCalls[i].step = "marked"
          /\ cancelBook' = cancelBook \ {cancelCalls[i].order}
      BY <1>6 DEF cancel_order, StandsAt
    <2>2. CancelledByOwner'
      BY <2>1 DEF CancelInv, CancelledByOwner
    <2>3. CASE cancelCalls[i].order \in cancelBook
      <3>1. SetCancel(i, "answered", "ok")
        BY <1>6, <2>3 DEF cancel_order
      <3> QED
        BY <1>1, <1>2, <2>1, <2>2, <2>3, <3>1 DEF CancelSteps, CancelAnswers, CallSound, CancelTypes
    <2>4. CASE cancelCalls[i].order \notin cancelBook
      <3>1. SetCancel(i, "answered", "not_found")
        BY <1>6, <2>4 DEF cancel_order
      <3> QED
        BY <1>1, <1>2, <2>1, <2>2, <3>1 DEF CancelSteps, CancelAnswers, CallSound, CancelTypes
    <2> QED
      BY <2>3, <2>4
  <1>7. CASE ClobFails(i)
    <2>1. /\ UNCHANGED <<cancelRow, cancelBook, lut, wallet, page, signed>>
          /\ cancelCalls[i].step = "marked" /\ SetCancel(i, "answered", "clob")
      BY <1>7 DEF ClobFails, StandsAt, serviceVars
    <2>2. CancelledByOwner'
      BY <2>1 DEF CancelInv, CancelledByOwner
    <2>3. CallSoundWith("answered", "clob")
      BY <1>1, <2>1 DEF CallSound
    <2>4. "answered" \in CancelSteps \ {"done"} /\ "clob" \in CancelAnswers
      BY DEF CancelSteps, CancelAnswers
    <2> QED
      BY <1>1, <1>2, <2>1, <2>2, <2>3, <2>4 DEF CancelTypes
  <1> QED
    BY <1>3, <1>4, <1>5, <1>6, <1>7

\* The page that waits for the answer is the page that gets it.
LEMMA AnsweredKeeps ==
    ASSUME CancelInv, NEW i \in DOMAIN cancelCalls, CancelAnswered(i)
    PROVE  CancelInv'
  <1> DEFINE d == [cancelCalls[i] EXCEPT !.step = "done"]
  <1>1. CancelTypes /\ cancelCalls[i] \in CancelCall /\ CallSound(cancelCalls[i])
    BY CallIsTyped DEF CancelInv
  <1>2. d \in CancelCall
    BY <1>1 DEF CancelCall, CancelSteps
  <1>3. cancelCalls' = [cancelCalls EXCEPT ![i] = d]
    BY <1>1 DEF CancelAnswered, CancelTypes
  <1>4. /\ d.mount = cancelCalls[i].mount /\ d.order = cancelCalls[i].order
        /\ d.step = "done" /\ d.answer = cancelCalls[i].answer
    BY <1>1 DEF CancelCall
  <1>5. PICK c \in CancelCall : /\ cancelCalls' = [cancelCalls EXCEPT ![i] = c]
                                /\ c.mount = cancelCalls[i].mount
                                /\ c.order = cancelCalls[i].order
                                /\ c.step = "done" /\ c.answer = cancelCalls[i].answer
    BY <1>2, <1>3, <1>4
  <1> HIDE DEF d
  <1>6. /\ cancelCalls' \in Seq(CancelCall) /\ DOMAIN cancelCalls' = DOMAIN cancelCalls
        /\ cancelCalls'[i] = c
        /\ \A j \in DOMAIN cancelCalls : j # i => cancelCalls'[j] = cancelCalls[j]
    BY <1>1, <1>5, OneReplaced DEF CancelTypes
  <1>7. /\ UNCHANGED <<cancelRow, cancelBook, lut, wallet, signed>>
        /\ cancelCalls[i].step = "answered" /\ page'.mount = page.mount
        /\ page'.isLoading = IF cancelCalls[i].mount = page.mount THEN FALSE ELSE page.isLoading
    BY <1>1 DEF CancelAnswered, StandsAt, serviceVars, Done, CancelTypes
  <1>8. CancelTypes'
    BY <1>1, <1>6, <1>7 DEF CancelTypes, CancelAnswered, Done
  <1>9. ASSUME NEW j \in DOMAIN cancelCalls' PROVE CallSound(cancelCalls[j])'
    <2>1. CallSound(cancelCalls[j]) /\ j \in DOMAIN cancelCalls
      BY <1>6 DEF CancelInv
    <2>2. CASE j = i
      BY <1>1, <1>5, <1>6, <1>7, <2>2 DEF CallSound
    <2>3. CASE j # i
      BY <1>6, <1>7, <2>1, <2>3 DEF CallSound
    <2> QED
      BY <2>2, <2>3
  <1>10. CancelledByOwner'
    BY <1>7 DEF CancelInv, CancelledByOwner
  <1>11. OneCancelAtATime'
    <2>1. \A j \in DOMAIN cancelCalls :
             /\ CancelRunning(j)' <=> CancelRunning(j) /\ j # i
             /\ cancelCalls'[j].mount = cancelCalls[j].mount
      BY <1>5, <1>6 DEF CancelRunning
    <2>2. CancelRunning(i)
      BY <1>7 DEF CancelRunning
    <2> QED
      BY <1>6, <1>7, <2>1, <2>2 DEF CancelInv, OneCancelAtATime
  <1> QED
    BY <1>8, <1>9, <1>10, <1>11 DEF CancelInv

LEMMA CancelInvSteps ==
    ASSUME CancelInv, CancelNext
    PROVE  CancelInv'
  <1>1. ASSUME NEW i \in DOMAIN cancelCalls, CancelStep(i) PROVE CancelInv'
    BY <1>1, LookupKeeps, SignedKeeps, WrittenKeeps, AnsweredKeeps DEF CancelStep
  <1> QED
    BY <1>1, CancelServiceSteps, CancelPageSteps, ConfirmKeeps DEF CancelNext

LEMMA CancelInvStutters ==
    ASSUME CancelInv, UNCHANGED cancelVars
    PROVE  CancelInv'
  BY DEF CancelInv, CancelTypes, CallSound, CancelledByOwner, OneCancelAtATime, CancelRunning,
         cancelVars, serviceVars, clientVars
-----------------------------------------------------------------------------
(* Claims. *)

ClaimSteps == {"signing", "received", "transfer", "mark", "done"}
ClaimErrors ==
    {"no_answer", "rejected", "no_key", "not_associated", "nothing_open", "transfer_failed",
     "receipt_failed"}
ClaimCall ==
    [tab : Tabs, step : ClaimSteps, total : SUBSET Rewards,
     answer : ClaimErrors \cup {"none", "ok"}]
Told ==
    {"nothing", "claimed", "associate_first", "nothing_to_claim", "wallet_did_not_respond",
     "rejected", "failed"}
ClaimDialog ==
    [open : BOOLEAN, claiming : {"idle", "waiting", "refreshing"}, call : Nat \cup {NoClaim},
     cached : SUBSET Rewards, told : Told, got : SUBSET Rewards, stale : BOOLEAN]

ClaimTypes ==
    /\ reward \in [Rewards -> {"none", "open", "claimed"}]
    /\ paid \in [Rewards -> Nat]
    /\ ui \in [Tabs -> ClaimDialog]
    /\ claims \in Seq(ClaimCall)
    /\ leaves \in Nat

\* What a claim covers: a reward that was open when the total was read stays open or is
\* claimed, it is paid once the transfer is made, and claimed once the claim succeeded.
ClaimSound(c) ==
    /\ c.step = "done" <=> c.answer # "none"
    /\ c.step \in {"transfer", "mark"} => \A r \in c.total : reward[r] # "none"
    /\ c.step = "mark" => \A r \in c.total : paid[r] > 0
    /\ c.answer = "ok" => \A r \in c.total : paid[r] > 0 /\ reward[r] = "claimed"

\* What a dialog has been told, with the claim it waits for.
DialogSound(u) ==
    u.told = "claimed" => /\ \A r \in u.got : paid[r] > 0 /\ reward[r] = "claimed"
                          /\ u.claiming = "idle" /\ ~u.stale => u.got \cap u.cached = {}

\* An unfinished claim of a tab that never left is the one its dialog waits for.
WaitsForItsClaim ==
    leaves = 0 => \A i \in DOMAIN claims : claims[i].step # "done" =>
        ui[claims[i].tab].claiming = "waiting" /\ ui[claims[i].tab].call = i

ClaimInv ==
    /\ ClaimTypes
    /\ \A i \in DOMAIN claims : ClaimSound(claims[i])
    /\ \A t \in Tabs : DialogSound(ui[t])
    /\ \A t \in Tabs : ui[t].claiming = "waiting" => ui[t].call \in DOMAIN claims
    /\ WaitsForItsClaim

LEMMA ClaimIsTyped ==
    ASSUME ClaimTypes
    PROVE  /\ \A i \in DOMAIN claims : claims[i] \in ClaimCall
           /\ \A t \in Tabs : ui[t] \in ClaimDialog
  BY DEF ClaimTypes

\* The invariant has what is claimed.
LEMMA ClaimInvIsHonest == ClaimInv => OneClaimAtATime /\ ClaimedNotOffered
  <1> SUFFICES ASSUME ClaimInv PROVE OneClaimAtATime /\ ClaimedNotOffered
    OBVIOUS
  <1>1. OneClaimAtATime
    <2> SUFFICES ASSUME leaves = 0, NEW t \in Tabs
                 PROVE  Cardinality({i \in DOMAIN claims :
                                       claims[i].tab = t /\ claims[i].step # "done"}) <= 1
      BY DEF OneClaimAtATime
    <2>1. \A i, j \in {i \in DOMAIN claims : claims[i].tab = t /\ claims[i].step # "done"} : i = j
      BY DEF ClaimInv, WaitsForItsClaim
    <2> QED
      BY <2>1, OneAtMost
  <1>2. ClaimedNotOffered
    BY DEF ClaimInv, DialogSound, ClaimedNotOffered
  <1> QED
    BY <1>1, <1>2

LEMMA ClaimStarts == ClaimInit => ClaimInv
  <1> SUFFICES ASSUME ClaimInit PROVE ClaimInv
    OBVIOUS
  <1>1. PICK u \in ClaimDialog :
            ui = [t \in Tabs |-> u] /\ u.told = "nothing" /\ u.claiming = "idle"
    <2>1. ASSUME NEW C \in SUBSET Rewards
          PROVE  /\ FreshDialog(C) \in ClaimDialog /\ FreshDialog(C).told = "nothing"
                 /\ FreshDialog(C).claiming = "idle"
      BY DEF FreshDialog, ClaimDialog, Told
    <2> QED
      BY <2>1 DEF ClaimInit
  <1>2. ClaimTypes
    BY <1>1 DEF ClaimInit, ClaimTypes
  <1> QED
    BY <1>1, <1>2 DEF ClaimInit, ClaimInv, DialogSound, WaitsForItsClaim

\* The cron, the account and the mirror node: no reward that was ever open is "none"
\* again, and none that is claimed is open again.
LEMMA RewardsKeep ==
    ASSUME ClaimInv, UNCHANGED <<ui, claims, paid, leaves>>,
           reward' \in [Rewards -> {"none", "open", "claimed"}],
           \A r \in Rewards : /\ reward'[r] = "none" => reward[r] = "none"
                              /\ reward[r] = "claimed" => reward'[r] = "claimed"
    PROVE  ClaimInv'
  <1>1. ClaimTypes'
    BY DEF ClaimInv, ClaimTypes
  <1>2. ASSUME NEW i \in DOMAIN claims' PROVE ClaimSound(claims[i])'
    <2>1. ClaimSound(claims[i]) /\ claims[i].total \subseteq Rewards /\ claims' = claims
      BY ClaimIsTyped DEF ClaimInv, ClaimCall
    <2> QED
      BY <2>1 DEF ClaimSound
  <1>3. ASSUME NEW t \in Tabs PROVE DialogSound(ui[t])'
    <2>1. DialogSound(ui[t]) /\ ui[t].got \subseteq Rewards /\ ui' = ui
      BY ClaimIsTyped DEF ClaimInv, ClaimDialog
    <2> QED
      BY <2>1 DEF DialogSound
  <1> QED
    BY <1>1, <1>2, <1>3 DEF ClaimInv, WaitsForItsClaim

\* A step of a dialog that neither starts nor ends its wait.
LEMMA DialogKeeps ==
    ASSUME ClaimInv, NEW t \in Tabs, NEW u \in ClaimDialog, ui' = [ui EXCEPT ![t] = u],
           UNCHANGED <<reward, claims, paid>>, leaves' \in Nat,
           leaves' = 0 => leaves = 0,
           DialogSound(u), u.claiming = "waiting" => u.call \in DOMAIN claims,
           leaves' = 0 => \A i \in DOMAIN claims : claims[i].step # "done" /\ claims[i].tab = t
                            => u.claiming = "waiting" /\ u.call = i
    PROVE  ClaimInv'
  <1>1. ClaimTypes' /\ ui'[t] = u /\ \A v \in Tabs \ {t} : ui'[v] = ui[v]
    BY DEF ClaimInv, ClaimTypes
  <1>2. \A i \in DOMAIN claims' : ClaimSound(claims[i])'
    BY DEF ClaimInv, ClaimSound
  <1>3. ASSUME NEW v \in Tabs PROVE DialogSound(ui[v])'
    <2>1. CASE v = t
      BY <1>1, <2>1 DEF DialogSound
    <2>2. CASE v # t
      BY <1>1, <2>2 DEF ClaimInv, DialogSound
    <2> QED
      BY <2>1, <2>2
  <1>4. \A v \in Tabs : ui'[v].claiming = "waiting" => ui'[v].call \in DOMAIN claims'
    BY <1>1 DEF ClaimInv
  <1>5. WaitsForItsClaim'
    <2>1. \A i \in DOMAIN claims : claims[i].tab \in Tabs
      BY ClaimIsTyped DEF ClaimInv, ClaimCall
    <2> QED
      BY <1>1, <2>1 DEF ClaimInv, WaitsForItsClaim
  <1> QED
    BY <1>1, <1>2, <1>3, <1>4, <1>5 DEF ClaimInv

\* A step of claim i.
LEMMA ClaimCallKeeps ==
    ASSUME ClaimInv, NEW i \in DOMAIN claims, NEW c \in ClaimCall,
           claims' = [claims EXCEPT ![i] = c], c.tab = claims[i].tab, claims[i].step # "done",
           UNCHANGED <<ui, leaves>>,
           reward' \in [Rewards -> {"none", "open", "claimed"}],
           paid' \in [Rewards -> Nat],
           \A r \in Rewards : /\ reward'[r] = "none" => reward[r] = "none"
                              /\ reward[r] = "claimed" => reward'[r] = "claimed"
                              /\ paid[r] <= paid'[r],
           ClaimSound(c)'
    PROVE  ClaimInv'
  <1>1. /\ claims' \in Seq(ClaimCall) /\ DOMAIN claims' = DOMAIN claims /\ claims'[i] = c
        /\ \A j \in DOMAIN claims : j # i => claims'[j] = claims[j]
    BY OneReplaced DEF ClaimInv, ClaimTypes
  <1>2. ClaimTypes'
    BY <1>1 DEF ClaimInv, ClaimTypes
  <1>3. \A r \in Rewards : paid[r] \in Nat /\ paid'[r] \in Nat /\ (paid[r] > 0 => paid'[r] > 0)
    BY DEF ClaimInv, ClaimTypes
  <1>4. ASSUME NEW j \in DOMAIN claims' PROVE ClaimSound(claims[j])'
    <2>1. CASE j = i
      BY <1>1, <2>1 DEF ClaimSound
    <2>2. CASE j # i
      <3>1. ClaimSound(claims[j]) /\ claims[j].total \subseteq Rewards /\ claims'[j] = claims[j]
        BY <1>1, <2>2, ClaimIsTyped DEF ClaimInv, ClaimCall
      <3> QED
        BY <1>3, <3>1 DEF ClaimSound
    <2> QED
      BY <2>1, <2>2
  <1>5. ASSUME NEW t \in Tabs PROVE DialogSound(ui[t])'
    <2>1. DialogSound(ui[t]) /\ ui[t].got \subseteq Rewards /\ ui' = ui
      BY ClaimIsTyped DEF ClaimInv, ClaimDialog
    <2> QED
      BY <1>3, <2>1 DEF DialogSound
  <1>6. \A j \in DOMAIN claims :
            claims'[j].tab = claims[j].tab /\ (claims[j].step = "done" => claims'[j].step = "done")
    BY <1>1
  <1> QED
    BY <1>1, <1>2, <1>4, <1>5, <1>6 DEF ClaimInv, WaitsForItsClaim
LEMMA ClaimServiceSteps ==
    ASSUME ClaimInv,
           \/ \E r \in Rewards : CreatePrismReward(r)
           \/ MarkPrismAsClaimable \/ Associate
    PROVE  ClaimInv'
  <1>1. ASSUME NEW r \in Rewards, CreatePrismReward(r) PROVE ClaimInv'
    BY <1>1, RewardsKeep DEF CreatePrismReward, ClaimInv, ClaimTypes
  <1>2. CASE MarkPrismAsClaimable
    BY <1>2, RewardsKeep DEF MarkPrismAsClaimable, ClaimInv, ClaimTypes
  <1>3. CASE Associate
    BY <1>3, RewardsKeep DEF Associate, ClaimInv, ClaimTypes
  <1> QED
    BY <1>1, <1>2, <1>3

\* The dialog opens and closes, reads the balances, or the page is left.
LEMMA DialogSteps ==
    ASSUME ClaimInv, NEW t \in Tabs,
           usePrism(t) \/ OpenDialog(t) \/ CloseDialog(t) \/ LeaveClaim(t)
    PROVE  ClaimInv'
  <1>1. /\ ClaimTypes /\ ui[t] \in ClaimDialog /\ DialogSound(ui[t])
        /\ leaves = 0 => \A i \in DOMAIN claims : claims[i].step # "done" /\ claims[i].tab = t
                            => ui[t].claiming = "waiting" /\ ui[t].call = i
        /\ ui[t].claiming = "waiting" => ui[t].call \in DOMAIN claims
    BY ClaimIsTyped DEF ClaimInv, WaitsForItsClaim
  <1>2. CASE usePrism(t)
    <2> DEFINE u == Reread(ui[t])
    <2>1. /\ u \in ClaimDialog /\ u.claiming = ui[t].claiming /\ u.call = ui[t].call
          /\ u.told = ui[t].told /\ u.got = ui[t].got /\ u.cached = OpenRewards
      BY <1>1 DEF ClaimDialog, OpenRewards, Reread
    <2>2. ui' = [ui EXCEPT ![t] = u] /\ UNCHANGED <<reward, claims, paid, leaves>>
      BY <1>1, <1>2 DEF usePrism, ClaimTypes
    <2> HIDE DEF u
    <2>3. DialogSound(u)
      BY <1>1, <2>1 DEF DialogSound, OpenRewards
    <2> QED
      BY <1>1, <2>1, <2>2, <2>3, DialogKeeps DEF ClaimTypes
  <1>3. CASE OpenDialog(t) \/ CloseDialog(t)
    <2>1. PICK opens \in BOOLEAN : ui' = [ui EXCEPT ![t].open = opens]
      BY <1>3 DEF OpenDialog, CloseDialog
    <2> DEFINE u == [ui[t] EXCEPT !.open = opens]
    <2>2. /\ u \in ClaimDialog /\ u.claiming = ui[t].claiming /\ u.call = ui[t].call
          /\ u.told = ui[t].told /\ u.got = ui[t].got /\ u.cached = ui[t].cached
          /\ u.stale = ui[t].stale
      BY <1>1 DEF ClaimDialog
    <2>3. ui' = [ui EXCEPT ![t] = u] /\ UNCHANGED <<reward, claims, paid, leaves>>
      BY <1>1, <1>3, <2>1 DEF OpenDialog, CloseDialog, ClaimTypes
    <2> HIDE DEF u
    <2>4. DialogSound(u)
      BY <1>1, <2>2 DEF DialogSound
    <2> QED
      BY <1>1, <2>2, <2>3, <2>4, DialogKeeps DEF ClaimTypes
  <1>4. CASE LeaveClaim(t)
    <2>1. PICK u \in ClaimDialog : /\ ui' = [ui EXCEPT ![t] = u]
                                   /\ u.told = "nothing" /\ u.claiming = "idle"
      <3> DEFINE u == FreshDialog(ui[t].cached)
      <3>1. u \in ClaimDialog /\ u.told = "nothing" /\ u.claiming = "idle"
        BY <1>1 DEF FreshDialog, ClaimDialog, Told
      <3> QED
        BY <1>4, <3>1 DEF LeaveClaim
    <2>2. leaves' \in Nat /\ leaves' # 0 /\ UNCHANGED <<reward, claims, paid>>
      BY <1>1, <1>4 DEF LeaveClaim, ClaimTypes
    <2>3. DialogSound(u)
      BY <2>1 DEF DialogSound
    <2> QED
      BY <2>1, <2>2, <2>3, DialogKeeps
  <1> QED
    BY <1>2, <1>3, <1>4

\* The answer comes, and the balances are read again.
LEMMA AnswerSteps ==
    ASSUME ClaimInv, NEW t \in Tabs, ClaimAnswered(t) \/ Refreshed(t) \/ RefreshFails(t)
    PROVE  ClaimInv'
  <1>1. /\ ClaimTypes /\ ui[t] \in ClaimDialog /\ DialogSound(ui[t])
        /\ leaves = 0 => \A i \in DOMAIN claims : claims[i].step # "done" /\ claims[i].tab = t
                            => ui[t].claiming = "waiting" /\ ui[t].call = i
        /\ ui[t].claiming = "waiting" => ui[t].call \in DOMAIN claims
    BY ClaimIsTyped DEF ClaimInv, WaitsForItsClaim
  <1>2. CASE Refreshed(t)
    <2> DEFINE u == Reread(BackToIdle(ui[t]))
    <2>1. /\ u \in ClaimDialog /\ u.claiming = "idle"
          /\ u.told = ui[t].told /\ u.got = ui[t].got /\ u.cached = OpenRewards
      BY <1>1 DEF ClaimDialog, OpenRewards, Reread, BackToIdle
    <2>2. ui' = [ui EXCEPT ![t] = u] /\ UNCHANGED <<reward, claims, paid, leaves>>
      BY <1>1, <1>2 DEF Refreshed, ClaimTypes
    <2> HIDE DEF u
    <2>3. DialogSound(u)
      BY <1>1, <2>1 DEF DialogSound, OpenRewards
    <2>4. leaves = 0 => \A i \in DOMAIN claims : ~(claims[i].step # "done" /\ claims[i].tab = t)
      BY <1>1, <1>2 DEF Refreshed
    <2> QED
      BY <1>1, <2>1, <2>2, <2>3, <2>4, DialogKeeps DEF ClaimTypes
  <1>3. CASE RefreshFails(t)
    <2> DEFINE u == [BackToIdle(ui[t]) EXCEPT !.stale = TRUE]
    <2>1. /\ u \in ClaimDialog /\ u.claiming = "idle" /\ u.stale
          /\ u.told = ui[t].told /\ u.got = ui[t].got
      BY <1>1 DEF ClaimDialog, BackToIdle
    <2>2. ui' = [ui EXCEPT ![t] = u] /\ UNCHANGED <<reward, claims, paid, leaves>>
      BY <1>1, <1>3 DEF RefreshFails, ClaimTypes
    <2> HIDE DEF u
    <2>3. DialogSound(u)
      BY <1>1, <2>1 DEF DialogSound
    <2>4. leaves = 0 => \A i \in DOMAIN claims : ~(claims[i].step # "done" /\ claims[i].tab = t)
      BY <1>1, <1>3 DEF RefreshFails
    <2> QED
      BY <1>1, <2>1, <2>2, <2>3, <2>4, DialogKeeps DEF ClaimTypes
  <1>4. CASE ClaimAnswered(t)
    <2> DEFINE c == claims[ui[t].call]
    <2>1. /\ c \in ClaimCall /\ ClaimSound(c) /\ ui[t].claiming = "waiting" /\ c.answer # "none"
      BY <1>1, <1>4, ClaimIsTyped DEF ClaimInv, ClaimAnswered
    <2>2. c.step = "done"
      BY <2>1 DEF ClaimSound
    <2>3. leaves = 0 => \A i \in DOMAIN claims : ~(claims[i].step # "done" /\ claims[i].tab = t)
      BY <1>1, <2>2
    <2>4. PICK u \in ClaimDialog : /\ ui' = [ui EXCEPT ![t] = u] /\ u.claiming # "waiting"
                                   /\ DialogSound(u)
      <3>1. CASE c.answer = "ok"
        <4> DEFINE u == [ui[t] EXCEPT !.claiming = "refreshing", !.told = "claimed",
                                      !.got = c.total]
        <4>1. /\ u \in ClaimDialog /\ u.claiming = "refreshing" /\ u.got = c.total
          BY <1>1, <2>1 DEF ClaimDialog, ClaimCall, Told
        <4>2. ui' = [ui EXCEPT ![t] = u]
          BY <1>1, <1>4, <3>1 DEF ClaimAnswered, ClaimTypes
        <4>3. DialogSound(u)
          BY <2>1, <3>1, <4>1 DEF DialogSound, ClaimSound
        <4> QED
          BY <4>1, <4>2, <4>3
      <3>2. CASE c.answer # "ok"
        <4> DEFINE u == ClaimFailed(ui[t], c.answer)
        <4>1. mapClaimError(c.answer) \in Told \ {"claimed"}
          BY DEF mapClaimError, Told
        <4>2. /\ u \in ClaimDialog /\ u.claiming = "idle" /\ u.told # "claimed"
          BY <1>1, <4>1 DEF ClaimDialog, ClaimFailed
        <4>3. ui' = [ui EXCEPT ![t] = u]
          BY <1>1, <1>4, <3>2 DEF ClaimAnswered, ClaimTypes
        <4>4. DialogSound(u)
          BY <4>2 DEF DialogSound
        <4> QED
          BY <4>2, <4>3, <4>4
      <3> QED
        BY <3>1, <3>2
    <2>5. UNCHANGED <<reward, claims, paid, leaves>>
      BY <1>4 DEF ClaimAnswered
    <2> QED
      BY <1>1, <2>3, <2>4, <2>5, DialogKeeps DEF ClaimTypes
  <1> QED
    BY <1>2, <1>4, <1>3

\* A dialog that waits for no claim has none unfinished, so one may start.
LEMMA ClaimBegins ==
    ASSUME ClaimInv, NEW t \in Tabs, claim(t)
    PROVE  ClaimInv'
  <1>1. /\ ClaimTypes /\ ui[t] \in ClaimDialog /\ ui[t].claiming = "idle"
        /\ leaves = 0 => \A i \in DOMAIN claims : claims[i].step # "done" => claims[i].tab # t
    BY ClaimIsTyped DEF ClaimInv, WaitsForItsClaim, claim
  <1>2. PICK n \in Nat : n = Len(claims) + 1
    BY <1>1 DEF ClaimTypes
  <1>3. /\ NewClaim(t) \in ClaimCall /\ NewClaim(t).tab = t
        /\ NewClaim(t).step = "signing" /\ NewClaim(t).answer = "none"
    BY DEF NewClaim, ClaimCall, ClaimSteps
  <1>4. /\ claims' \in Seq(ClaimCall) /\ DOMAIN claims' = DOMAIN claims \cup {n}
        /\ n \notin DOMAIN claims /\ claims'[n] = NewClaim(t)
        /\ \A j \in DOMAIN claims : claims'[j] = claims[j]
    BY <1>1, <1>2, <1>3, OneAppended DEF ClaimTypes, claim
  <1>5. PICK u \in ClaimDialog : /\ ui' = [ui EXCEPT ![t] = u] /\ u.claiming = "waiting"
                                 /\ u.told = "nothing" /\ u.call = n
    <2> DEFINE u == [ui[t] EXCEPT !.claiming = "waiting", !.told = "nothing", !.call = n]
    <2>1. u \in ClaimDialog /\ u.claiming = "waiting" /\ u.told = "nothing" /\ u.call = n
      BY <1>1, <1>2 DEF ClaimDialog, Told
    <2>2. ui' = [ui EXCEPT ![t] = u]
      BY <1>1, <1>2 DEF claim, ClaimTypes
    <2> QED
      BY <2>1, <2>2
  <1>6. UNCHANGED <<reward, paid, leaves>>
    BY DEF claim
  <1>7. ClaimTypes' /\ ui'[t] = u /\ \A v \in Tabs \ {t} : ui'[v] = ui[v]
    BY <1>1, <1>4, <1>5, <1>6 DEF ClaimTypes
  <1>8. ASSUME NEW j \in DOMAIN claims' PROVE ClaimSound(claims[j])'
    <2>1. CASE j = n
      BY <1>3, <1>4, <2>1 DEF ClaimSound
    <2>2. CASE j \in DOMAIN claims
      BY <1>4, <1>6, <2>2 DEF ClaimInv, ClaimSound
    <2> QED
      BY <1>4, <2>1, <2>2
  <1>9. ASSUME NEW v \in Tabs PROVE DialogSound(ui[v])'
    BY <1>5, <1>6, <1>7 DEF ClaimInv, DialogSound
  <1>10. \A v \in Tabs : ui'[v].claiming = "waiting" => ui'[v].call \in DOMAIN claims'
    BY <1>4, <1>5, <1>7 DEF ClaimInv
  <1>11. WaitsForItsClaim'
    <2>1. \A i \in DOMAIN claims : claims[i].tab \in Tabs
      BY <1>1, ClaimIsTyped DEF ClaimCall
    <2> QED
      BY <1>1, <1>3, <1>4, <1>5, <1>6, <1>7, <2>1 DEF ClaimInv, WaitsForItsClaim
  <1> QED
    BY <1>7, <1>8, <1>9, <1>10, <1>11 DEF ClaimInv
\* A step that writes a claim's step and answer.
LEMMA ClaimWritten ==
    ASSUME ClaimTypes, NEW i \in DOMAIN claims, NEW step \in ClaimSteps,
           NEW answer \in ClaimErrors \cup {"none", "ok"}, SetClaim(i, step, answer)
    PROVE  \E c \in ClaimCall :
              /\ claims' = [claims EXCEPT ![i] = c] /\ c.tab = claims[i].tab
              /\ c.step = step /\ c.answer = answer /\ c.total = claims[i].total
  <1> DEFINE c == [claims[i] EXCEPT !.step = step, !.answer = answer]
  <1>1. claims[i] \in ClaimCall
    BY ClaimIsTyped
  <1>2. /\ c \in ClaimCall /\ c.tab = claims[i].tab
        /\ c.step = step /\ c.answer = answer /\ c.total = claims[i].total
    BY <1>1 DEF ClaimCall
  <1>3. claims' = [claims EXCEPT ![i] = c]
    BY DEF SetClaim, ClaimTypes
  <1> QED
    BY <1>2, <1>3

\* A step of the wallet or of ClaimPrism.
LEMMA ClaimCallSteps ==
    ASSUME ClaimInv, NEW i \in DOMAIN claims, ClaimWallet(i) \/ ClaimPrism(i)
    PROVE  ClaimInv'
  <1> DEFINE SoundWith(step, answer) ==
               \A c \in ClaimCall :
                  c.step = step /\ c.answer = answer /\ c.total = claims[i].total
                  => ClaimSound(c)'
  <1>1. /\ ClaimTypes /\ claims[i] \in ClaimCall /\ ClaimSound(claims[i])
        /\ claims[i].total \subseteq Rewards
    BY ClaimIsTyped DEF ClaimInv, ClaimCall
  <1>2. ASSUME NEW step \in ClaimSteps, NEW answer \in ClaimErrors \cup {"none", "ok"},
               SetClaim(i, step, answer), claims[i].step # "done", UNCHANGED <<ui, leaves>>,
               reward' \in [Rewards -> {"none", "open", "claimed"}],
               paid' \in [Rewards -> Nat],
               \A r \in Rewards : /\ reward'[r] = "none" => reward[r] = "none"
                                  /\ reward[r] = "claimed" => reward'[r] = "claimed"
                                  /\ paid[r] <= paid'[r],
               SoundWith(step, answer)
        PROVE  ClaimInv'
    <2>1. PICK c \in ClaimCall :
              /\ claims' = [claims EXCEPT ![i] = c] /\ c.tab = claims[i].tab
              /\ c.step = step /\ c.answer = answer /\ c.total = claims[i].total
      BY <1>1, <1>2, ClaimWritten
    <2> QED
      BY <1>2, <2>1, ClaimCallKeeps
  \* A claim that fails, or that is sent: neither rewards nor payments change.
  <1>3. ASSUME NEW step \in {"done", "received"}, NEW answer \in ClaimErrors \cup {"none"},
               step = "done" <=> answer # "none",
               SetClaim(i, step, answer), claims[i].step # "done",
               UNCHANGED <<ui, leaves, reward, paid>>
        PROVE  ClaimInv'
    <2>1. SoundWith(step, answer)
      BY <1>3 DEF ClaimSound, ClaimErrors
    <2>2. step \in ClaimSteps /\ \A r \in Rewards : paid[r] <= paid'[r]
      BY <1>1, <1>3 DEF ClaimSteps, ClaimTypes
    <2>3. /\ reward' \in [Rewards -> {"none", "open", "claimed"}] /\ paid' \in [Rewards -> Nat]
          /\ UNCHANGED <<reward, ui, leaves>>
      BY <1>1, <1>3 DEF ClaimTypes
    <2> HIDE DEF SoundWith
    <2> QED
      BY <1>2, <1>3, <2>1, <2>2, <2>3
  <1>4. CASE ClaimWallet(i)
    <2>1. CASE submitClaimPrism(i)
      BY <1>3, <2>1 DEF submitClaimPrism
    <2>2. ASSUME NEW e \in {"no_answer", "rejected", "no_key"}, ClaimNotSigned(i, e)
          PROVE  ClaimInv'
      BY <1>3, <2>2 DEF ClaimNotSigned, ClaimErrors
    <2> QED
      BY <1>4, <2>1, <2>2 DEF ClaimWallet
  <1>5. CASE ReadTotal(i)
    <2>1. CASE SetClaim(i, "done", "not_associated") \/ SetClaim(i, "done", "nothing_open")
      BY <1>3, <1>5, <2>1 DEF ReadTotal, ClaimErrors
    <2>2. CASE claims' = [claims EXCEPT ![i].step = "transfer", ![i].total = OpenRewards]
      <3> DEFINE d == [claims[i] EXCEPT !.step = "transfer", !.total = OpenRewards]
      <3>1. UNCHANGED <<ui, leaves, reward, paid>> /\ claims[i].step = "received"
        BY <1>5 DEF ReadTotal
      <3>2. /\ d \in ClaimCall /\ d.tab = claims[i].tab /\ d.step = "transfer"
            /\ d.total = OpenRewards /\ d.answer = claims[i].answer
        BY <1>1 DEF ClaimCall, ClaimSteps, OpenRewards
      <3>3. claims' = [claims EXCEPT ![i] = d]
        BY <1>1, <2>2 DEF ClaimTypes
      <3>4. PICK c \in ClaimCall :
               /\ claims' = [claims EXCEPT ![i] = c] /\ c.tab = claims[i].tab
               /\ c.step = "transfer" /\ c.answer = claims[i].answer
               /\ \A r \in c.total : reward[r] = "open"
        BY <3>2, <3>3 DEF OpenRewards
      <3>5. ClaimSound(c)'
        BY <1>1, <3>1, <3>4 DEF ClaimSound
      <3>6. /\ reward' \in [Rewards -> {"none", "open", "claimed"}] /\ paid' \in [Rewards -> Nat]
            /\ \A r \in Rewards : paid[r] <= paid'[r]
        BY <1>1, <3>1 DEF ClaimTypes
      <3> QED
        BY <3>1, <3>4, <3>5, <3>6, ClaimCallKeeps
    <2> QED
      BY <1>5, <2>1, <2>2 DEF ReadTotal
  <1>6. CASE Transfer(i)
    <2>1. /\ paid' = [r \in Rewards |-> IF r \in claims[i].total THEN paid[r] + 1 ELSE paid[r]]
          /\ SetClaim(i, "mark", "none") /\ claims[i].step = "transfer"
          /\ UNCHANGED <<reward, ui, leaves>>
      BY <1>6 DEF Transfer
    <2>2. /\ paid' \in [Rewards -> Nat] /\ \A r \in Rewards : paid[r] <= paid'[r]
          /\ \A r \in claims[i].total : paid'[r] > 0
          /\ reward' \in [Rewards -> {"none", "open", "claimed"}]
      BY <1>1, <2>1 DEF ClaimTypes
    <2>3. SoundWith("mark", "none")
      BY <1>1, <2>1, <2>2 DEF ClaimSound
    <2>4. "mark" \in ClaimSteps
      BY DEF ClaimSteps
    <2> HIDE DEF SoundWith
    <2> QED
      BY <1>2, <2>1, <2>2, <2>3, <2>4
  <1>7. CASE TransferRefused(i)
    BY <1>3, <1>7 DEF TransferRefused, ClaimErrors
  <1>8. CASE ReceiptLost(i)
    BY <1>3, <1>8 DEF ReceiptLost, ClaimErrors
  <1>9. CASE MarkAllPrismClaimed(i)
    <2>1. /\ reward' = [r \in Rewards |-> IF reward[r] = "open" THEN "claimed" ELSE reward[r]]
          /\ SetClaim(i, "done", "ok") /\ claims[i].step = "mark"
          /\ UNCHANGED <<paid, ui, leaves>>
      BY <1>9 DEF MarkAllPrismClaimed
    <2>2. /\ reward' \in [Rewards -> {"none", "open", "claimed"}] /\ paid' \in [Rewards -> Nat]
          /\ \A r \in Rewards : /\ reward'[r] = "none" => reward[r] = "none"
                                /\ reward[r] = "claimed" => reward'[r] = "claimed"
                                /\ paid[r] <= paid'[r]
          /\ \A r \in Rewards : reward[r] # "none" => reward'[r] = "claimed"
      BY <1>1, <2>1 DEF ClaimTypes
    <2>3. SoundWith("done", "ok")
      BY <1>1, <2>1, <2>2 DEF ClaimSound
    <2>4. "done" \in ClaimSteps
      BY DEF ClaimSteps
    <2> HIDE DEF SoundWith
    <2> QED
      BY <1>2, <2>1, <2>2, <2>3, <2>4
  <1> QED
    BY <1>4, <1>5, <1>6, <1>7, <1>8, <1>9 DEF ClaimPrism

LEMMA ClaimInvSteps ==
    ASSUME ClaimInv, ClaimNext
    PROVE  ClaimInv'
  <1>1. ASSUME NEW t \in Tabs, ClaimPage(t) PROVE ClaimInv'
    BY <1>1, DialogSteps, AnswerSteps, ClaimBegins DEF ClaimPage
  <1> QED
    BY <1>1, ClaimServiceSteps, ClaimCallSteps DEF ClaimNext

LEMMA ClaimInvStutters ==
    ASSUME ClaimInv, UNCHANGED claimVars
    PROVE  ClaimInv'
  BY DEF ClaimInv, ClaimTypes, ClaimSound, DialogSound, WaitsForItsClaim, claimVars

-----------------------------------------------------------------------------
(* How often a reward is paid. *)

Unfinished == {i \in DOMAIN claims : claims[i].step # "done"}
\* The claims that are under way and that a dialog waits for; the rest of them a tab has
\* walked away from.
Awaited ==
    {i \in Unfinished : ui[claims[i].tab].claiming = "waiting" /\ ui[claims[i].tab].call = i}
Abandoned == Unfinished \ Awaited
HalfDone == {i \in DOMAIN claims : claims[i].answer \in {"transfer_failed", "receipt_failed"}}
Covering(r) == {i \in DOMAIN claims : r \in claims[i].total}
Paying(r) ==
    {i \in Covering(r) : claims[i].step = "mark" \/ claims[i].answer \in {"ok", "receipt_failed"}}

\* Each payment of a reward is one of a claim that covers it.  Until the reward is marked
\* these claims are under way or have failed half way; afterwards no claim covers it anew.
PaidInv ==
    /\ claimFaults \in Nat
    /\ Cardinality(Abandoned) <= leaves
    /\ Cardinality(HalfDone) <= claimFaults
    /\ \A i \in DOMAIN claims : claims[i].step \in {"signing", "received"} => claims[i].total = {}
    /\ \A r \in Rewards : reward[r] # "claimed" => Covering(r) \subseteq Unfinished \cup HalfDone
    /\ \A r \in Rewards : Cardinality(Covering(r)) <= Cardinality(Tabs) + leaves + claimFaults
    /\ \A r \in Rewards : paid[r] <= Cardinality(Paying(r))

LEMMA ClaimSetsFinite ==
    ASSUME ClaimTypes
    PROVE  /\ IsFiniteSet(Unfinished) /\ IsFiniteSet(Awaited) /\ IsFiniteSet(Abandoned)
           /\ IsFiniteSet(HalfDone)
           /\ \A r \in Rewards : IsFiniteSet(Covering(r)) /\ IsFiniteSet(Paying(r))
  <1>1. IsFiniteSet(DOMAIN claims)
    <2>1. PICK n \in Nat : DOMAIN claims = 1 .. n
      BY DEF ClaimTypes
    <2> QED
      BY <2>1, FS_Interval
  <1>2. /\ Unfinished \in SUBSET DOMAIN claims /\ Awaited \in SUBSET DOMAIN claims
        /\ Abandoned \in SUBSET DOMAIN claims /\ HalfDone \in SUBSET DOMAIN claims
        /\ \A r : Covering(r) \in SUBSET DOMAIN claims /\ Paying(r) \in SUBSET DOMAIN claims
    BY DEF Unfinished, Awaited, Abandoned, HalfDone, Covering, Paying
  <1> QED
    BY <1>1, <1>2, FS_Subset

\* A set with at most one element more than one of n, or of n + 1.
LEMMA AtMostOneMore ==
    ASSUME NEW S, IsFiniteSet(S), NEW n \in Nat, Cardinality(S) <= n, NEW x, NEW S1,
           S1 \subseteq S \cup {x}
    PROVE  /\ Cardinality(S1) <= n + 1
           /\ S1 \subseteq S => Cardinality(S1) <= n
  <1>1. /\ IsFiniteSet(S \cup {x}) /\ Cardinality(S) \in Nat
        /\ Cardinality(S \cup {x}) \in Nat /\ Cardinality(S \cup {x}) <= Cardinality(S) + 1
    BY FS_AddElement, FS_CardinalityType
  <1>2. Cardinality(S1) \in Nat /\ Cardinality(S1) <= Cardinality(S \cup {x})
    BY <1>1, FS_Subset, FS_CardinalityType
  <1>3. S1 \subseteq S => Cardinality(S1) <= Cardinality(S)
    BY FS_Subset
  <1> QED
    BY <1>1, <1>2, <1>3

\* What three sets cover is no more than they have together.
LEMMA CoveredByThree ==
    ASSUME NEW A, NEW B, NEW C, IsFiniteSet(A), IsFiniteSet(B), IsFiniteSet(C),
           NEW k \in Nat, NEW l \in Nat, NEW m \in Nat,
           Cardinality(A) <= k, Cardinality(B) <= l, Cardinality(C) <= m,
           NEW S, S \subseteq (A \cup B) \cup C
    PROVE  Cardinality(S) <= k + l + m
  <1>1. /\ IsFiniteSet(A \cup B)
        /\ Cardinality(A \cup B) = Cardinality(A) + Cardinality(B) - Cardinality(A \cap B)
        /\ IsFiniteSet(A \cap B)
    BY FS_Union, FS_Intersection
  <1>2. /\ IsFiniteSet((A \cup B) \cup C)
        /\ Cardinality((A \cup B) \cup C)
             = Cardinality(A \cup B) + Cardinality(C) - Cardinality((A \cup B) \cap C)
        /\ IsFiniteSet((A \cup B) \cap C)
    BY <1>1, FS_Union, FS_Intersection
  <1>3. /\ Cardinality(A) \in Nat /\ Cardinality(B) \in Nat /\ Cardinality(C) \in Nat
        /\ Cardinality(A \cup B) \in Nat /\ Cardinality(A \cap B) \in Nat
        /\ Cardinality((A \cup B) \cup C) \in Nat /\ Cardinality((A \cup B) \cap C) \in Nat
    BY <1>1, <1>2, FS_CardinalityType
  <1>4. Cardinality(S) \in Nat /\ Cardinality(S) <= Cardinality((A \cup B) \cup C)
    BY <1>2, FS_Subset, FS_CardinalityType
  <1> QED
    BY <1>1, <1>2, <1>3, <1>4

LEMMA PaidIsBounded == ClaimInv /\ PaidInv => PaidPerRace
  <1> SUFFICES ASSUME ClaimInv, PaidInv, NEW r \in Rewards
               PROVE  paid[r] <= Cardinality(Tabs) + leaves + claimFaults
    BY DEF PaidPerRace
  <1>1. /\ IsFiniteSet(Covering(r)) /\ IsFiniteSet(Paying(r)) /\ Paying(r) \in SUBSET Covering(r)
        /\ paid[r] \in Nat /\ leaves \in Nat /\ claimFaults \in Nat
    BY ClaimSetsFinite DEF ClaimInv, ClaimTypes, Paying, PaidInv
  <1>2. /\ Cardinality(Paying(r)) \in Nat /\ Cardinality(Covering(r)) \in Nat
        /\ Cardinality(Tabs) \in Nat /\ Cardinality(Paying(r)) <= Cardinality(Covering(r))
    BY <1>1, FS_Subset, FS_CardinalityType, ClaimAssumption
  <1>3. /\ Cardinality(Covering(r)) <= Cardinality(Tabs) + leaves + claimFaults
        /\ paid[r] <= Cardinality(Paying(r))
    BY DEF PaidInv
  <1> QED
    BY <1>1, <1>2, <1>3

LEMMA PaidStarts == ClaimInit => PaidInv
  <1> SUFFICES ASSUME ClaimInit PROVE PaidInv
    OBVIOUS
  <1>1. /\ Abandoned = {} /\ HalfDone = {} /\ \A r \in Rewards : Covering(r) = {} /\ Paying(r) = {}
    BY DEF ClaimInit, Unfinished, Awaited, Abandoned, HalfDone, Covering, Paying
  <1>2. Cardinality(Tabs) \in Nat
    BY ClaimAssumption, FS_CardinalityType
  <1>3. claims = <<>> /\ leaves = 0 /\ claimFaults = 0 /\ \A r \in Rewards : paid[r] = 0
    BY DEF ClaimInit
  <1>4. DOMAIN claims = {} /\ Cardinality({}) = 0
    BY <1>3, FS_EmptySet
  <1>5. /\ Cardinality(Abandoned) <= leaves /\ Cardinality(HalfDone) <= claimFaults
        /\ claimFaults \in Nat
    BY <1>1, <1>3, <1>4
  <1>6. ASSUME NEW r \in Rewards
        PROVE  /\ Covering(r) \subseteq Unfinished \cup HalfDone
               /\ Cardinality(Covering(r)) <= Cardinality(Tabs) + leaves + claimFaults
               /\ paid[r] <= Cardinality(Paying(r))
    <2>1. Covering(r) = {} /\ Paying(r) = {} /\ paid[r] = 0
      BY <1>1, <1>3
    <2> QED
      BY <1>2, <1>3, <1>4, <2>1
  <1> QED
    BY <1>4, <1>5, <1>6 DEF PaidInv

\* A step abandons one claim for each leave, fails one half way for each fault, adds to the
\* claims that cover a reward only what is not marked, and pays with one more claim.
LEMMA PaidKeeps ==
    ASSUME ClaimTypes, ClaimTypes', PaidInv,
           \/ leaves' = leaves /\ Abandoned' \subseteq Abandoned
           \/ leaves' = leaves + 1 /\ \E x : Abandoned' \subseteq Abandoned \cup {x},
           \/ claimFaults' = claimFaults /\ HalfDone' \subseteq HalfDone
           \/ claimFaults' = claimFaults + 1 /\ \E x : HalfDone' \subseteq HalfDone \cup {x},
           \A i \in DOMAIN claims' :
               claims'[i].step \in {"signing", "received"} => claims'[i].total = {},
           \A r \in Rewards :
               reward'[r] # "claimed" => Covering(r)' \subseteq Unfinished' \cup HalfDone',
           \A r \in Rewards : reward'[r] = "claimed" => Covering(r)' \subseteq Covering(r),
           \A r \in Rewards :
               \/ paid'[r] = paid[r] /\ Paying(r) \subseteq Paying(r)'
               \/ /\ paid'[r] = paid[r] + 1
                  /\ \E x : x \notin Paying(r) /\ Paying(r) \cup {x} \subseteq Paying(r)'
    PROVE  PaidInv'
  <1>1. /\ claimFaults \in Nat /\ leaves \in Nat /\ claimFaults' \in Nat /\ leaves' \in Nat
        /\ leaves <= leaves' /\ claimFaults <= claimFaults' /\ Cardinality(Tabs) \in Nat
    BY ClaimAssumption, FS_CardinalityType DEF PaidInv, ClaimTypes
  <1>2. /\ IsFiniteSet(Awaited') /\ IsFiniteSet(Abandoned') /\ IsFiniteSet(HalfDone')
        /\ \A r \in Rewards : IsFiniteSet(Covering(r)') /\ IsFiniteSet(Paying(r)')
    <2>1. IsFiniteSet(DOMAIN claims')
      <3>1. PICK n \in Nat : DOMAIN claims' = 1 .. n
        BY DEF ClaimTypes
      <3> QED
        BY <3>1, FS_Interval
    <2>2. /\ Awaited' \in SUBSET DOMAIN claims' /\ Abandoned' \in SUBSET DOMAIN claims'
          /\ HalfDone' \in SUBSET DOMAIN claims'
          /\ \A r \in Rewards : /\ Covering(r)' \in SUBSET DOMAIN claims'
                                /\ Paying(r)' \in SUBSET DOMAIN claims'
      BY DEF Unfinished, Awaited, Abandoned, HalfDone, Covering, Paying
    <2> QED
      BY <2>1, <2>2, FS_Subset
  <1>3. Cardinality(Abandoned') <= leaves'
    <2>1. IsFiniteSet(Abandoned) /\ Cardinality(Abandoned) <= leaves
      BY ClaimSetsFinite DEF PaidInv
    <2>2. PICK x : \/ leaves' = leaves /\ Abandoned' \subseteq Abandoned
                   \/ leaves' = leaves + 1 /\ Abandoned' \subseteq Abandoned \cup {x}
      OBVIOUS
    <2>3. Abandoned' \subseteq Abandoned \cup {x}
      BY <2>2
    <2>4. /\ Cardinality(Abandoned') <= leaves + 1
          /\ Abandoned' \subseteq Abandoned => Cardinality(Abandoned') <= leaves
      BY ONLY <1>1, <2>1, <2>3, AtMostOneMore
    <2> QED
      BY <2>2, <2>4
  <1>4. Cardinality(HalfDone') <= claimFaults'
    <2>1. IsFiniteSet(HalfDone) /\ Cardinality(HalfDone) <= claimFaults
      BY ClaimSetsFinite DEF PaidInv
    <2>2. PICK x : \/ claimFaults' = claimFaults /\ HalfDone' \subseteq HalfDone
                   \/ claimFaults' = claimFaults + 1 /\ HalfDone' \subseteq HalfDone \cup {x}
      OBVIOUS
    <2>3. HalfDone' \subseteq HalfDone \cup {x}
      BY <2>2
    <2>4. /\ Cardinality(HalfDone') <= claimFaults + 1
          /\ HalfDone' \subseteq HalfDone => Cardinality(HalfDone') <= claimFaults
      BY ONLY <1>1, <2>1, <2>3, AtMostOneMore
    <2> QED
      BY <2>2, <2>4
  \* A dialog waits for one claim at most.
  <1>5. Cardinality(Awaited)' <= Cardinality(Tabs)
    <2> DEFINE f == [i \in Awaited' |-> claims'[i].tab]
    <2>1. \A i \in DOMAIN claims' : claims'[i] \in ClaimCall
      BY DEF ClaimTypes
    <2>2. \A i \in Awaited' : claims'[i].tab \in Tabs /\ ui'[claims'[i].tab].call = i
      BY <2>1 DEF Awaited, Unfinished, ClaimCall
    <2>3. f \in Injection(Awaited', Tabs)
      BY <2>2 DEF Injection, IsInjective
    <2> QED
      BY <2>3, FS_Injection, ClaimAssumption
  <1>6. ASSUME NEW r \in Rewards
        PROVE  Cardinality(Covering(r)') <= Cardinality(Tabs) + leaves' + claimFaults'
    <2>1. CASE reward'[r] # "claimed"
      <3>1. Covering(r)' \subseteq (Awaited' \cup Abandoned') \cup HalfDone'
        BY <2>1 DEF Awaited, Abandoned
      <3> QED
        BY <1>1, <1>2, <1>3, <1>4, <1>5, <3>1, CoveredByThree
    <2>2. CASE reward'[r] = "claimed"
      <3>1. /\ Covering(r)' \in SUBSET Covering(r) /\ IsFiniteSet(Covering(r))
            /\ Cardinality(Covering(r)) <= Cardinality(Tabs) + leaves + claimFaults
        BY <2>2, ClaimSetsFinite DEF PaidInv
      <3>2. /\ Cardinality(Covering(r)') <= Cardinality(Covering(r))
            /\ Cardinality(Covering(r)') \in Nat /\ Cardinality(Covering(r)) \in Nat
        BY <1>2, <3>1, FS_Subset, FS_CardinalityType
      <3> QED
        BY <1>1, <3>1, <3>2
    <2> QED
      BY <2>1, <2>2
  <1>7. ASSUME NEW r \in Rewards PROVE paid'[r] <= Cardinality(Paying(r)')
    <2>1. /\ paid[r] <= Cardinality(Paying(r)) /\ paid[r] \in Nat
          /\ IsFiniteSet(Paying(r)) /\ IsFiniteSet(Paying(r)')
          /\ Cardinality(Paying(r)) \in Nat /\ Cardinality(Paying(r)') \in Nat
      BY <1>2, ClaimSetsFinite, FS_CardinalityType DEF PaidInv, ClaimTypes
    <2>2. CASE paid'[r] = paid[r] /\ Paying(r) \subseteq Paying(r)'
      BY <2>1, <2>2, FS_Subset
    <2>3. ASSUME NEW x, x \notin Paying(r), Paying(r) \cup {x} \subseteq Paying(r)',
                 paid'[r] = paid[r] + 1
          PROVE  paid'[r] <= Cardinality(Paying(r)')
      <3>1. Cardinality(Paying(r) \cup {x}) = Cardinality(Paying(r)) + 1
        BY <2>1, <2>3, FS_AddElement
      <3>2. Cardinality(Paying(r) \cup {x}) <= Cardinality(Paying(r)')
        BY <2>1, <2>3, FS_Subset
      <3> QED
        BY <2>1, <2>3, <3>1, <3>2
    <2> QED
      BY <2>2, <2>3
  <1> QED
    BY <1>1, <1>3, <1>4, <1>6, <1>7 DEF PaidInv

\* The rewards as the cron writes them, and what is not a claim's.
LEMMA PaidServiceSteps ==
    ASSUME ClaimTypes, ClaimTypes', PaidInv, UNCHANGED <<ui, claims, paid, claimFaults, leaves>>,
           \A r \in Rewards : reward[r] = "claimed" => reward'[r] = "claimed"
    PROVE  PaidInv'
  BY DEF PaidInv, Unfinished, Awaited, Abandoned, HalfDone, Covering, Paying

\* A step of a tab's dialog goes on waiting for an unfinished claim or leaves it.
LEMMA PaidDialog ==
    ASSUME ClaimTypes, ClaimTypes', PaidInv, NEW t \in Tabs,
           \A v \in Tabs \ {t} : ui'[v] = ui[v],
           UNCHANGED <<reward, claims, paid, claimFaults>>,
           \/ leaves' = leaves + 1
           \/ /\ leaves' = leaves
              /\ ui[t].claiming = "waiting" /\ ui[t].call \in Unfinished
                 => ui'[t].claiming = "waiting" /\ ui'[t].call = ui[t].call
    PROVE  PaidInv'
  <1>1. \A i \in DOMAIN claims : claims[i].tab \in Tabs
    BY ClaimIsTyped DEF ClaimCall
  <1>2. Unfinished' = Unfinished /\ HalfDone' = HalfDone
    BY DEF Unfinished, HalfDone
  <1>3. \A r \in Rewards : Covering(r)' = Covering(r) /\ Paying(r)' = Paying(r)
    BY DEF Covering, Paying
  <1>4. \A i \in Awaited : claims[i].tab = t \/ i \in Awaited'
    BY <1>1, <1>2 DEF Awaited, Unfinished
  <1>5. \A i \in Awaited : claims[i].tab = t => i = ui[t].call /\ ui[t].claiming = "waiting"
    BY DEF Awaited
  <1>6. Abandoned' \subseteq Abandoned \cup {ui[t].call}
    BY <1>2, <1>4, <1>5 DEF Abandoned
  <1>7. ASSUME leaves' = leaves PROVE Abandoned' \subseteq Abandoned
    <2>1. \A i \in Awaited : claims[i].tab = t => i \in Awaited'
      BY <1>2, <1>5, <1>7 DEF Awaited, ClaimTypes
    <2> QED
      BY <1>2, <1>4, <2>1 DEF Abandoned
  <1>8. \A r \in Rewards : reward'[r] # "claimed" => Covering(r)' \subseteq Unfinished' \cup HalfDone'
    BY <1>2, <1>3 DEF PaidInv
  <1>9. \A i \in DOMAIN claims' :
            claims'[i].step \in {"signing", "received"} => claims'[i].total = {}
    BY DEF PaidInv
  <1> QED
    BY <1>2, <1>3, <1>6, <1>7, <1>8, <1>9, PaidKeeps

\* A claim that starts is awaited, covers nothing yet and leaves the others as they are.
LEMMA PaidBegins ==
    ASSUME ClaimTypes, ClaimTypes', PaidInv, NEW t \in Tabs, claim(t)
    PROVE  PaidInv'
  <1>1. PICK n \in Nat : n = Len(claims) + 1
    BY DEF ClaimTypes
  <1>2. PICK c \in ClaimCall : /\ c = NewClaim(t) /\ c.tab = t /\ c.total = {}
                               /\ c.step = "signing" /\ c.answer = "none"
    <2>1. /\ NewClaim(t) \in ClaimCall /\ NewClaim(t).tab = t /\ NewClaim(t).total = {}
          /\ NewClaim(t).step = "signing" /\ NewClaim(t).answer = "none"
      BY DEF NewClaim, ClaimCall, ClaimSteps
    <2> QED
      BY <2>1
  <1>3. /\ DOMAIN claims' = DOMAIN claims \cup {n} /\ n \notin DOMAIN claims
        /\ claims'[n] = c /\ \A j \in DOMAIN claims : claims'[j] = claims[j]
    BY <1>1, <1>2, OneAppended DEF ClaimTypes, claim
  <1>4. /\ ui[t].claiming = "idle" /\ ui'[t].claiming = "waiting" /\ ui'[t].call = n
        /\ \A v \in Tabs \ {t} : ui'[v] = ui[v]
    BY <1>1, ClaimIsTyped DEF ClaimTypes, claim, ClaimDialog
  <1>5. UNCHANGED <<reward, paid, claimFaults, leaves>>
    BY DEF claim
  <1>6. \A i \in DOMAIN claims : claims[i].tab \in Tabs
    BY ClaimIsTyped DEF ClaimCall
  <1>7. Unfinished' = Unfinished \cup {n} /\ HalfDone' = HalfDone
    BY <1>2, <1>3 DEF Unfinished, HalfDone
  <1>8. \A r \in Rewards : Covering(r)' = Covering(r) /\ Paying(r)' = Paying(r)
    BY <1>2, <1>3 DEF Covering, Paying
  <1>9. \A i \in Awaited : i \in DOMAIN claims /\ claims[i].tab # t /\ i \in Unfinished
    BY <1>4 DEF Awaited, Unfinished
  <1>10. n \in Awaited' /\ \A i \in Awaited : i \in Awaited'
    BY <1>2, <1>3, <1>4, <1>6, <1>7, <1>9 DEF Awaited
  <1>11. Abandoned' \subseteq Abandoned
    BY <1>7, <1>10 DEF Abandoned
  <1>12. \A i \in DOMAIN claims' :
            claims'[i].step \in {"signing", "received"} => claims'[i].total = {}
    BY <1>2, <1>3 DEF PaidInv
  <1>13. \A r \in Rewards :
            reward'[r] # "claimed" => Covering(r)' \subseteq Unfinished' \cup HalfDone'
    BY <1>5, <1>7, <1>8 DEF PaidInv
  <1> QED
    BY <1>5, <1>7, <1>8, <1>11, <1>12, <1>13, PaidKeeps

HalfWay == {"transfer_failed", "receipt_failed"}

\* A step of claim i: it covers anew only what is not marked, it ends only if it failed half
\* way or if what it covers is marked, and a payment is its transfer.
LEMMA PaidCall ==
    ASSUME ClaimTypes, ClaimTypes', PaidInv, NEW i \in DOMAIN claims, NEW c \in ClaimCall,
           claims' = [claims EXCEPT ![i] = c], c.tab = claims[i].tab,
           claims[i].step # "done", claims[i].answer = "none", UNCHANGED <<ui, leaves>>,
           \/ claimFaults' = claimFaults /\ c.answer \notin HalfWay
           \/ claimFaults' = claimFaults + 1,
           c.step \in {"signing", "received"} => c.total = {},
           \A r \in c.total : r \in claims[i].total \/ reward'[r] # "claimed",
           \A r \in Rewards :
               reward'[r] # "claimed" => /\ reward[r] # "claimed"
                                         /\ r \in c.total => c.step # "done" \/ c.answer \in HalfWay,
           \A r \in Rewards :
               \/ /\ paid'[r] = paid[r]
                  /\ r \in claims[i].total /\ claims[i].step = "mark"
                     => r \in c.total /\ (c.step = "mark" \/ c.answer \in {"ok", "receipt_failed"})
               \/ /\ paid'[r] = paid[r] + 1 /\ claims[i].step # "mark"
                  /\ r \in c.total /\ c.step = "mark"
    PROVE  PaidInv'
  <1>1. /\ DOMAIN claims' = DOMAIN claims /\ claims'[i] = c
        /\ \A j \in DOMAIN claims : j # i => claims'[j] = claims[j]
    BY OneReplaced DEF ClaimTypes
  <1>2. Unfinished' \subseteq Unfinished /\ \A j \in Unfinished : j # i => j \in Unfinished'
    BY <1>1 DEF Unfinished
  <1>3. Abandoned' \subseteq Abandoned
    BY <1>1, <1>2 DEF Abandoned, Awaited
  <1>4. HalfDone' \subseteq HalfDone \cup {i} /\ \A j \in HalfDone : j \in HalfDone' /\ j # i
    BY <1>1 DEF HalfDone
  <1>5. c.answer \notin HalfWay => HalfDone' \subseteq HalfDone
    BY <1>1 DEF HalfDone, HalfWay
  <1>6. \A j \in DOMAIN claims' :
            claims'[j].step \in {"signing", "received"} => claims'[j].total = {}
    BY <1>1 DEF PaidInv
  <1>7. ASSUME NEW r \in Rewards, reward'[r] # "claimed"
        PROVE  Covering(r)' \subseteq Unfinished' \cup HalfDone'
    <2>1. ASSUME NEW j \in Covering(r)' PROVE j \in Unfinished' \cup HalfDone'
      <3>1. CASE j = i
        BY <1>1, <1>7, <2>1, <3>1 DEF Covering, Unfinished, HalfDone, HalfWay
      <3>2. CASE j # i
        <4>1. j \in Covering(r)
          BY <1>1, <2>1, <3>2 DEF Covering
        <4>2. j \in Unfinished \/ j \in HalfDone
          BY <1>7, <4>1 DEF PaidInv
        <4> QED
          BY <1>2, <1>4, <3>2, <4>2
      <3> QED
        BY <3>1, <3>2
    <2> QED
      BY <2>1
  <1>8. ASSUME NEW r \in Rewards, reward'[r] = "claimed"
        PROVE  Covering(r)' \subseteq Covering(r)
    BY <1>1, <1>8 DEF Covering
  <1>9. ASSUME NEW r \in Rewards
        PROVE  \/ paid'[r] = paid[r] /\ Paying(r) \subseteq Paying(r)'
               \/ /\ paid'[r] = paid[r] + 1
                  /\ \E x : x \notin Paying(r) /\ Paying(r) \cup {x} \subseteq Paying(r)'
    <2>1. \A j \in Paying(r) : j # i => j \in Paying(r)'
      BY <1>1 DEF Paying, Covering
    <2>2. i \in Paying(r) => r \in claims[i].total /\ claims[i].step = "mark"
      BY DEF Paying, Covering
    <2>3. i \in Paying(r)' <=>
             r \in c.total /\ (c.step = "mark" \/ c.answer \in {"ok", "receipt_failed"})
      BY <1>1 DEF Paying, Covering
    <2> QED
      BY <2>1, <2>2, <2>3
  <1> QED
    BY <1>3, <1>4, <1>5, <1>6, <1>7, <1>8, <1>9, PaidKeeps

\* Every step of the claims.
LEMMA PaidPageSteps ==
    ASSUME ClaimInv, ClaimTypes', PaidInv, NEW t \in Tabs, ClaimPage(t)
    PROVE  PaidInv'
  <1>1. ClaimTypes /\ ui \in [Tabs -> ClaimDialog] /\ leaves \in Nat
    BY DEF ClaimInv, ClaimTypes
  <1>2. CASE usePrism(t) \/ OpenDialog(t) \/ CloseDialog(t)
    <2>1. /\ \A v \in Tabs \ {t} : ui'[v] = ui[v]
          /\ ui'[t].claiming = ui[t].claiming /\ ui'[t].call = ui[t].call
          /\ UNCHANGED <<reward, claims, paid, claimFaults, leaves>>
      <3>1. PICK u : /\ ui' = [ui EXCEPT ![t] = u]
                     /\ u.claiming = ui[t].claiming /\ u.call = ui[t].call
        <4>1. ui[t] \in ClaimDialog
          BY <1>1
        <4>2. CASE usePrism(t)
          <5>1. /\ Reread(ui[t]).claiming = ui[t].claiming /\ Reread(ui[t]).call = ui[t].call
            BY <4>1 DEF Reread, ClaimDialog
          <5>2. ui' = [ui EXCEPT ![t] = Reread(ui[t])]
            BY <1>1, <4>2 DEF usePrism
          <5> QED
            BY <5>1, <5>2
        <4>3. CASE OpenDialog(t)
          <5>1. /\ [ui[t] EXCEPT !.open = TRUE].claiming = ui[t].claiming
                /\ [ui[t] EXCEPT !.open = TRUE].call = ui[t].call
            BY <4>1 DEF ClaimDialog
          <5>2. ui' = [ui EXCEPT ![t] = [ui[t] EXCEPT !.open = TRUE]]
            BY <1>1, <4>3 DEF OpenDialog
          <5> QED
            BY <5>1, <5>2
        <4>4. CASE CloseDialog(t)
          <5>1. /\ [ui[t] EXCEPT !.open = FALSE].claiming = ui[t].claiming
                /\ [ui[t] EXCEPT !.open = FALSE].call = ui[t].call
            BY <4>1 DEF ClaimDialog
          <5>2. ui' = [ui EXCEPT ![t] = [ui[t] EXCEPT !.open = FALSE]]
            BY <1>1, <4>4 DEF CloseDialog
          <5> QED
            BY <5>1, <5>2
        <4> QED
          BY <1>2, <4>2, <4>3, <4>4
      <3> QED
        BY <1>1, <1>2, <3>1 DEF usePrism, OpenDialog, CloseDialog
    <2> QED
      BY <1>1, <2>1, PaidDialog
  <1>3. CASE claim(t)
    BY <1>1, <1>3, PaidBegins
  <1>4. CASE LeaveClaim(t)
    <2>1. /\ \A v \in Tabs \ {t} : ui'[v] = ui[v]
          /\ UNCHANGED <<reward, claims, paid, claimFaults>> /\ leaves' = leaves + 1
      BY <1>1, <1>4 DEF LeaveClaim
    <2> QED
      BY <1>1, <2>1, PaidDialog
  <1>5. CASE ClaimAnswered(t)
    <2>1. /\ \A v \in Tabs \ {t} : ui'[v] = ui[v]
          /\ UNCHANGED <<reward, claims, paid, claimFaults, leaves>>
          /\ claims[ui[t].call].answer # "none"
      BY <1>1, <1>5 DEF ClaimAnswered
    <2>2. ui[t].call \notin Unfinished
      BY <2>1 DEF ClaimInv, ClaimSound, Unfinished
    <2> QED
      BY <1>1, <2>1, <2>2, PaidDialog
  <1>6. CASE Refreshed(t) \/ RefreshFails(t)
    <2>1. /\ \A v \in Tabs \ {t} : ui'[v] = ui[v]
          /\ UNCHANGED <<reward, claims, paid, claimFaults, leaves>>
          /\ ui[t].claiming = "refreshing"
      BY <1>1, <1>6 DEF Refreshed, RefreshFails
    <2> QED
      BY <1>1, <2>1, PaidDialog
  <1> QED
    BY <1>2, <1>3, <1>4, <1>5, <1>6 DEF ClaimPage

LEMMA PaidCallSteps ==
    ASSUME ClaimInv, ClaimTypes', PaidInv, NEW i \in DOMAIN claims, ClaimWallet(i) \/ ClaimPrism(i)
    PROVE  PaidInv'
  <1>1. /\ ClaimTypes /\ claims[i] \in ClaimCall /\ claims[i].total \subseteq Rewards
        /\ claims[i].step # "done" => claims[i].answer = "none"
        /\ claims[i].step \in {"signing", "received"} => claims[i].total = {}
    BY ClaimIsTyped DEF ClaimInv, ClaimCall, ClaimSound, PaidInv
  \* A claim that ends before it has read its total, or is sent.
  <1>2. ASSUME NEW step \in {"done", "received"},
               NEW answer \in {"none", "no_answer", "rejected", "no_key", "not_associated",
                               "nothing_open"},
               SetClaim(i, step, answer), claims[i].step \in {"signing", "received"},
               UNCHANGED <<ui, leaves, reward, paid, claimFaults>>
        PROVE  PaidInv'
    <2>1. PICK c \in ClaimCall :
              /\ claims' = [claims EXCEPT ![i] = c] /\ c.tab = claims[i].tab
              /\ c.step = step /\ c.answer = answer /\ c.total = claims[i].total
      BY <1>1, <1>2, ClaimWritten DEF ClaimSteps, ClaimErrors
    <2>2. c.total = {} /\ c.answer \notin HalfWay /\ claims[i].step \notin {"done", "mark"}
      BY <1>1, <1>2, <2>1 DEF HalfWay
    <2> QED
      BY <1>1, <1>2, <2>1, <2>2, PaidCall
  <1>3. CASE ClaimWallet(i)
    BY <1>2, <1>3 DEF ClaimWallet, submitClaimPrism, ClaimNotSigned
  <1>4. CASE ReadTotal(i)
    <2>1. CASE SetClaim(i, "done", "not_associated") \/ SetClaim(i, "done", "nothing_open")
      BY <1>2, <1>4, <2>1 DEF ReadTotal
    <2>2. CASE claims' = [claims EXCEPT ![i].step = "transfer", ![i].total = OpenRewards]
      <3> DEFINE d == [claims[i] EXCEPT !.step = "transfer", !.total = OpenRewards]
      <3>1. /\ UNCHANGED <<ui, leaves, reward, paid, claimFaults>> /\ claims[i].step = "received"
        BY <1>4 DEF ReadTotal
      <3>2. /\ d \in ClaimCall /\ d.tab = claims[i].tab /\ d.step = "transfer"
            /\ d.total = OpenRewards /\ d.answer = claims[i].answer
        BY <1>1 DEF ClaimCall, ClaimSteps, OpenRewards
      <3>3. claims' = [claims EXCEPT ![i] = d]
        BY <1>1, <2>2 DEF ClaimTypes
      <3>4. PICK c \in ClaimCall :
               /\ claims' = [claims EXCEPT ![i] = c] /\ c.tab = claims[i].tab
               /\ c.step = "transfer" /\ c.answer = "none"
               /\ \A r \in c.total : reward[r] = "open"
        BY <1>1, <3>1, <3>2, <3>3 DEF OpenRewards
      <3>5. c.answer \notin HalfWay /\ \A r \in c.total : reward'[r] # "claimed"
        BY <3>1, <3>4 DEF HalfWay
      <3> QED
        BY <1>1, <3>1, <3>4, <3>5, PaidCall
    <2> QED
      BY <1>4, <2>1, <2>2 DEF ReadTotal
  <1>5. CASE Transfer(i)
    <2>1. /\ paid' = [r \in Rewards |-> IF r \in claims[i].total THEN paid[r] + 1 ELSE paid[r]]
          /\ SetClaim(i, "mark", "none") /\ claims[i].step = "transfer"
          /\ UNCHANGED <<reward, ui, leaves, claimFaults>>
      BY <1>5 DEF Transfer
    <2>2. PICK c \in ClaimCall :
              /\ claims' = [claims EXCEPT ![i] = c] /\ c.tab = claims[i].tab
              /\ c.step = "mark" /\ c.answer = "none" /\ c.total = claims[i].total
      BY <1>1, <2>1, ClaimWritten DEF ClaimSteps
    <2>3. \A r \in Rewards : paid'[r] = IF r \in c.total THEN paid[r] + 1 ELSE paid[r]
      BY <2>1, <2>2
    <2>4. c.answer \notin HalfWay
      BY <2>2 DEF HalfWay
    <2> QED
      BY <1>1, <2>1, <2>2, <2>3, <2>4, PaidCall
  <1>6. CASE TransferRefused(i) \/ ReceiptLost(i)
    <2>1. PICK answer \in HalfWay :
              /\ SetClaim(i, "done", answer) /\ claims[i].step \in {"transfer", "mark"}
              /\ claims[i].step = "mark" => answer = "receipt_failed"
              /\ claimFaults' = claimFaults + 1 /\ UNCHANGED <<reward, ui, leaves, paid>>
      BY <1>6 DEF TransferRefused, ReceiptLost, ClaimFault, HalfWay
    <2>2. PICK c \in ClaimCall :
              /\ claims' = [claims EXCEPT ![i] = c] /\ c.tab = claims[i].tab
              /\ c.step = "done" /\ c.answer = answer /\ c.total = claims[i].total
      BY <1>1, <2>1, ClaimWritten DEF ClaimSteps, ClaimErrors, HalfWay
    <2> QED
      BY <1>1, <2>1, <2>2, PaidCall
  <1>7. CASE MarkAllPrismClaimed(i)
    <2>1. /\ reward' = [r \in Rewards |-> IF reward[r] = "open" THEN "claimed" ELSE reward[r]]
          /\ SetClaim(i, "done", "ok") /\ claims[i].step = "mark"
          /\ UNCHANGED <<paid, ui, leaves, claimFaults>>
      BY <1>7 DEF MarkAllPrismClaimed
    <2>2. PICK c \in ClaimCall :
              /\ claims' = [claims EXCEPT ![i] = c] /\ c.tab = claims[i].tab
              /\ c.step = "done" /\ c.answer = "ok" /\ c.total = claims[i].total
      BY <1>1, <2>1, ClaimWritten DEF ClaimSteps
    <2>3. \A r \in Rewards : reward'[r] # "claimed" => reward[r] # "claimed" /\ r \notin c.total
      <3>1. \A r \in claims[i].total : reward[r] # "none"
        BY <2>1 DEF ClaimInv, ClaimSound
      <3> QED
        BY <1>1, <2>1, <2>2, <3>1 DEF ClaimTypes
    <2>4. c.answer \notin HalfWay
      BY <2>2 DEF HalfWay
    <2> QED
      BY <1>1, <2>1, <2>2, <2>3, <2>4, PaidCall
  <1> QED
    BY <1>3, <1>4, <1>5, <1>6, <1>7 DEF ClaimPrism

LEMMA PaidInvSteps ==
    ASSUME ClaimInv, ClaimInv', PaidInv, ClaimNext
    PROVE  PaidInv'
  <1>1. ClaimTypes /\ ClaimTypes'
    BY DEF ClaimInv
  <1>2. ASSUME \/ \E r \in Rewards : CreatePrismReward(r)
               \/ MarkPrismAsClaimable \/ Associate
        PROVE  PaidInv'
    <2>1. /\ UNCHANGED <<ui, claims, paid, claimFaults, leaves>>
          /\ \A r \in Rewards : reward[r] = "claimed" => reward'[r] = "claimed"
      BY <1>1, <1>2 DEF CreatePrismReward, MarkPrismAsClaimable, Associate, ClaimTypes
    <2> QED
      BY <1>1, <2>1, PaidServiceSteps
  <1> QED
    BY <1>1, <1>2, PaidPageSteps, PaidCallSteps DEF ClaimNext

LEMMA PaidInvStutters ==
    ASSUME PaidInv, UNCHANGED claimVars
    PROVE  PaidInv'
  BY DEF PaidInv, Unfinished, Awaited, Abandoned, HalfDone, Covering, Paying, claimVars

\* Whatever the user opens, closes, confirms and leaves, whichever account is bound, and
\* in whatever order outbox, stream, book and API go on, with the balances read again or
\* not: only an owner's signature cancels, "cancelled" is final, a page has one
\* cancellation and a tab one claim under way, what a claim says was received is paid and
\* not on offer where the balances were read, and a reward is paid at most once for each
\* tab, each claim walked away from and each one failed half way
\* (CancelPredictionIntent, ClaimPrism and their dialogs).
THEOREM RequestsSafe == RequestsSpec => []RequestsAreHonest
  <1>1. RequestsInit => CancelInv /\ ClaimInv /\ PaidInv
    BY CancelStarts, ClaimStarts, PaidStarts DEF RequestsInit
  <1>2. CancelInv /\ ClaimInv /\ PaidInv /\ [RequestsNext]_requestVars
        => CancelInv' /\ ClaimInv' /\ PaidInv'
    BY CancelInvSteps, CancelInvStutters, ClaimInvSteps, ClaimInvStutters, PaidInvSteps,
       PaidInvStutters DEF RequestsNext, requestVars
  <1>3. CancelInv /\ ClaimInv /\ PaidInv => RequestsAreHonest
    BY CancelInvIsHonest, ClaimInvIsHonest, PaidIsBounded DEF RequestsAreHonest, ClaimIsHonest
  <1> QED
    BY <1>1, <1>2, <1>3, PTL DEF RequestsSpec
=============================================================================
