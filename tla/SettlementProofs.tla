-------------------------- MODULE SettlementProofs --------------------------
(***************************************************************************)
(* Settlement implements MatchLedger, for any number of matches, orders    *)
(* and API instances, any delivery limit and any number of crashes.        *)
(***************************************************************************)
EXTENDS Settlement, FiniteSums


\* What the mirror node shows has executed.
MirrorOK == mirror \subseteq executed

\* Whoever has seen a successful receipt or is about to finalize is right.
KnownOK ==
    \A w \in Workers :
        (workers[w].tx = "success" \/ workers[w].pc = "finalize") => workers[w].m \in executed

FinalOK == Finalized \subseteq executed

\* Whoever is about to book has made the row final, nobody has booked the
\* match yet and nobody else is about to.
BookOK ==
    \A w \in Workers : workers[w].pc = "book" =>
        /\ workers[w].m \in Finalized
        /\ booked[workers[w].m] = 0
        /\ \A v \in Workers : workers[v].pc = "book" /\ workers[v].m = workers[w].m => v = w

\* The inductive invariant.
SettleInv == TypeOK /\ MirrorOK /\ KnownOK /\ FinalOK /\ BookOK /\ BookedAtMostOnce

-----------------------------------------------------------------------------
(* Types. *)

\* Crediting a match keeps the fill state of the orders well typed.
LEMMA CreditedType ==
    ASSUME NEW f \in [Orders -> [shares : Nat, collateral : Nat]], NEW m \in Matches
    PROVE  Credited(f, m) \in [Orders -> [shares : Nat, collateral : Nat]]
<1> SUFFICES ASSUME NEW o \in Orders
             PROVE  /\ f[o].shares + Shares[m] \in Nat
                    /\ f[o].collateral + Collateral[m][o] \in Nat
  BY DEF Credited
<1>1. Shares[m] \in Nat
  BY SettlementAssumption
<1>2. Collateral[m] \in [Orders -> Nat]
  BY SettlementAssumption
<1> QED
  BY <1>1, <1>2

\* An idle instance is well typed.
LEMMA IdleType == Idle \in WorkerType /\ Idle.pc = "idle"
  BY DEF Idle, Working, WorkerType

\* An instance that took a delivery is well typed and at work on that match.
LEMMA WorkingType ==
    ASSUME NEW m \in Matches
    PROVE  Working(m) \in WorkerType /\ Working(m).m = m
  BY DEF Working, WorkerType

\* The initial state is well typed.
LEMMA InitType == Init => TypeOK
<1> SUFFICES ASSUME Init PROVE TypeOK
  OBVIOUS
<1>1. StreamTypeOK
  BY SettlementAssumption DEF Init, StreamTypeOK
<1>2. WorkersTypeOK
  BY IdleType DEF Init, WorkersTypeOK
<1>3. DbTypeOK
  BY DEF Init, DbTypeOK, RowType, Zero
<1>4. ChainTypeOK
  BY DEF Init, ChainTypeOK
<1>5. crashes \in 0 .. MaxCrashes
  BY SettlementAssumption DEF Init
<1> QED
  BY <1>1, <1>2, <1>3, <1>4, <1>5 DEF TypeOK

\* A part nobody touches keeps its type.
LEMMA StreamUnchanged == StreamTypeOK /\ UNCHANGED streamVars => StreamTypeOK'
  BY DEF StreamTypeOK, streamVars
\* A step that leaves the tables alone keeps their types.
LEMMA DbUnchanged == DbTypeOK /\ UNCHANGED dbVars => DbTypeOK'
  BY DEF DbTypeOK, dbVars
\* A step that leaves the chain alone keeps its types.
LEMMA ChainUnchanged == ChainTypeOK /\ UNCHANGED chainVars => ChainTypeOK'
  BY DEF ChainTypeOK, chainVars

\* One worker moves to another well-typed state.
LEMMA WorkerMoves ==
    ASSUME WorkersTypeOK, NEW w \in Workers, NEW k \in WorkerType,
           k.pc # "idle" => k.m \in Matches,
           workers' = [workers EXCEPT ![w] = k]
    PROVE  WorkersTypeOK'
  BY DEF WorkersTypeOK

\* The steps of a worker all stay busy with the same match.
LEMMA StepType ==
    ASSUME WorkersTypeOK, NEW w \in Workers, Step(w)
    PROVE  WorkersTypeOK'
<1> USE DEF WorkersTypeOK, WorkerType, At, Goto, Reply
<1>1. CASE LoadOrders(w)
  <2> DEFINE k == [workers[w] EXCEPT !.pc = "create",
                                        !.clear = /\ Legs(workers[w].m) \cap cancelled = {}
                                                  /\ \A o \in Legs(workers[w].m) : Fits(filled, o, workers[w].m)]
  <2>1. workers' = [workers EXCEPT ![w] = k]
    BY <1>1 DEF LoadOrders
  <2>2. k \in WorkerType /\ k.m \in Matches
    BY <1>1 DEF LoadOrders
  <2> HIDE DEF k, WorkersTypeOK, WorkerType
  <2> QED
    BY <2>1, <2>2, WorkerMoves
<1>2. CASE CreateMatchV2(w)
  BY <1>2 DEF CreateMatchV2
<1>3. CASE CheckExecuted(w)
  BY <1>3 DEF CheckExecuted
<1>4. CASE ExecuteAccepted(w)
  <2> DEFINE k == [workers[w] EXCEPT !.pc = "markSubmitted", !.tx = "pending"]
  <2>1. workers' = [workers EXCEPT ![w] = k]
    BY <1>4 DEF ExecuteAccepted
  <2>2. k \in WorkerType /\ k.m \in Matches
    BY <1>4 DEF ExecuteAccepted
  <2> HIDE DEF k, WorkersTypeOK, WorkerType
  <2> QED
    BY <2>1, <2>2, WorkerMoves
<1>5. CASE ExecuteFails(w)
  BY <1>5 DEF ExecuteFails
<1>6. CASE MarkMatchSubmitted(w)
  BY <1>6 DEF MarkMatchSubmitted
<1>7. CASE GetReceipt(w)
  BY <1>7 DEF GetReceipt
<1>8. CASE Recheck(w)
  BY <1>8 DEF Recheck
<1>9. CASE MarkMatchFailed(w)
  BY <1>9 DEF MarkMatchFailed
<1>10. CASE FinalizeMatchV2(w)
  BY <1>10 DEF FinalizeMatchV2
<1>11. CASE recordFillBookkeeping(w)
  <2> DEFINE k == [workers[w] EXCEPT !.pc = "reply", !.outcome = "done"]
  <2>1. workers' = [workers EXCEPT ![w] = k]
    BY <1>11 DEF recordFillBookkeeping
  <2>2. k \in WorkerType /\ k.m \in Matches
    BY <1>11 DEF recordFillBookkeeping
  <2> HIDE DEF k, WorkersTypeOK, WorkerType
  <2> QED
    BY <2>1, <2>2, WorkerMoves
<1>12. CASE CallFails(w)
  <2> DEFINE k == [workers[w] EXCEPT !.pc = "reply", !.outcome = "retry"]
  <2>1. workers' = [workers EXCEPT ![w] = k]
    BY <1>12 DEF CallFails
  <2>2. k \in WorkerType /\ k.m \in Matches
    BY <1>12 DEF CallFails
  <2> HIDE DEF k, WorkersTypeOK, WorkerType
  <2> QED
    BY <2>1, <2>2, WorkerMoves
<1>13. CASE Respond(w)
  BY <1>13, IdleType, WorkerMoves DEF Respond
<1> QED
  BY <1>1, <1>2, <1>3, <1>4, <1>5, <1>6, <1>7, <1>8, <1>9, <1>10, <1>11, <1>12, <1>13 DEF Step
\* The instances stay well typed, whichever step of a worker is taken.
LEMMA WorkersType ==
    ASSUME TypeOK, NEW w \in Workers, Deliver(w) \/ Step(w) \/ Crash(w) \/ Consensus(w)
    PROVE  WorkersTypeOK'
<1> USE DEF TypeOK
<1>1. CASE Deliver(w)
  <2>1. Head(queue) \in Matches
    BY <1>1 DEF Deliver, StreamTypeOK
  <2>2. workers' = [workers EXCEPT ![w] = Working(Head(queue))]
    BY <1>1 DEF Deliver
  <2> QED
    BY <2>1, <2>2, WorkingType, WorkerMoves
<1>2. CASE Step(w)
  BY <1>2, StepType
<1>3. CASE Crash(w)
  BY <1>3, IdleType, WorkerMoves DEF Crash
<1>4. CASE Consensus(w)
  BY <1>4 DEF Consensus, WorkersTypeOK, WorkerType
<1> QED
  BY <1>1, <1>2, <1>3, <1>4

\* The tables stay well typed.
LEMMA DbType ==
    ASSUME TypeOK, NEW w \in Workers, Step(w)
    PROVE  DbTypeOK'
<1> USE DEF TypeOK
<1> DEFINE m == workers[w].m
<1>1. ASSUME workers[w].pc # "idle" PROVE m \in Matches
  BY <1>1 DEF WorkersTypeOK
<1>2. CASE UNCHANGED dbVars
  BY <1>2, DbUnchanged
<1>3. CASE CreateMatchV2(w)
  <2>1. m \in Matches
    BY <1>1, <1>3 DEF CreateMatchV2, At
  <2> QED
    BY <1>3, <2>1 DEF CreateMatchV2, DbTypeOK, RowType
<1>4. CASE MarkMatchSubmitted(w)
  <2>1. m \in Matches
    BY <1>1, <1>4 DEF MarkMatchSubmitted, At
  <2> DEFINE submitted == [status |-> "submitted", attempted |-> TRUE]
  <2>2. submitted \in RowType
    BY DEF RowType
  <2>3. rows' = rows \/ rows' = [rows EXCEPT ![m] = submitted]
    BY <1>4 DEF MarkMatchSubmitted
  <2> HIDE DEF submitted, m
  <2>4. rows' \in [Matches -> RowType]
    BY <2>1, <2>2, <2>3 DEF DbTypeOK
  <2> QED
    BY <1>4, <2>4 DEF MarkMatchSubmitted, DbTypeOK
<1>5. CASE MarkMatchFailed(w)
  <2>1. m \in Matches
    BY <1>1, <1>5 DEF MarkMatchFailed, At
  <2> QED
    BY <1>5, <2>1 DEF MarkMatchFailed, DbTypeOK, RowType
<1>6. CASE FinalizeMatchV2(w)
  <2>1. m \in Matches
    BY <1>1, <1>6 DEF FinalizeMatchV2, At
  <2>2. Credited(filled, m) \in [Orders -> [shares : Nat, collateral : Nat]]
    BY <2>1, CreditedType DEF DbTypeOK
  <2>3. filled' \in {filled, Credited(filled, m)}
    BY <1>6 DEF FinalizeMatchV2
  <2>4. rows' \in [Matches -> RowType]
    BY <1>6, <2>1 DEF FinalizeMatchV2, DbTypeOK, RowType
  <2> QED
    BY <1>6, <2>2, <2>3, <2>4 DEF FinalizeMatchV2, DbTypeOK
<1>7. CASE recordFillBookkeeping(w)
  <2>1. m \in Matches
    BY <1>1, <1>7 DEF recordFillBookkeeping, At
  <2> QED
    BY <1>7, <2>1 DEF recordFillBookkeeping, DbTypeOK
<1> QED
  BY <1>2, <1>3, <1>4, <1>5, <1>6, <1>7
     DEF Step, LoadOrders, CheckExecuted, ExecuteAccepted, ExecuteFails, GetReceipt, Recheck, CallFails, Respond

\* The chain and its mirror stay well typed.
LEMMA ChainType ==
    ASSUME TypeOK, NEW w \in Workers, Step(w) \/ Crash(w) \/ Consensus(w)
    PROVE  ChainTypeOK'
<1> USE DEF TypeOK
<1>1. ASSUME workers[w].pc # "idle" PROVE workers[w].m \in Matches
  BY <1>1 DEF WorkersTypeOK
<1>2. CASE UNCHANGED chainVars
  BY <1>2, ChainUnchanged
<1>3. CASE ExecuteFails(w)
  BY <1>3, <1>1 DEF ExecuteFails, At, ChainTypeOK
<1>4. CASE GetReceipt(w)
  BY <1>4, <1>1 DEF GetReceipt, At, ChainTypeOK
<1>5. CASE Crash(w)
  BY <1>5, <1>1 DEF Crash, ChainTypeOK
<1>6. CASE Consensus(w)
  BY <1>6, <1>1 DEF Consensus, ChainTypeOK
<1> QED
  BY <1>2, <1>3, <1>4, <1>5, <1>6
     DEF Step, LoadOrders, CreateMatchV2, CheckExecuted, ExecuteAccepted, MarkMatchSubmitted, Recheck,
         MarkMatchFailed, FinalizeMatchV2, recordFillBookkeeping, CallFails, Respond
\* What happens outside the workers.
World ==
    \/ AckWaitExpires \/ GiveUp
    \/ \E m \in Matches : OrphanConsensus(m) \/ MirrorCatchesUp(m)
    \/ \E o \in CancelArgs : CancelOrder(o)
    \/ \E o \in ExpireArgs : Expire(o)

\* What happens around the workers keeps all types.
LEMMA WorldType ==
    ASSUME TypeOK, World
    PROVE  TypeOK'
<1> USE DEF TypeOK
<1>1. WorkersTypeOK' /\ (crashes \in 0 .. MaxCrashes)'
  BY DEF World, AckWaitExpires, GiveUp, OrphanConsensus, MirrorCatchesUp, CancelOrder, Expire, WorkersTypeOK
<1>2. StreamTypeOK'
  <2>1. CASE UNCHANGED streamVars
    BY <2>1, StreamUnchanged
  <2>2. CASE AckWaitExpires
    BY <2>2 DEF AckWaitExpires, StreamTypeOK
  <2>3. CASE GiveUp
    BY <2>3 DEF GiveUp, StreamTypeOK
  <2> QED
    BY <2>1, <2>2, <2>3 DEF World, OrphanConsensus, MirrorCatchesUp, CancelOrder, Expire
<1>3. DbTypeOK'
  <2>1. CASE UNCHANGED dbVars
    BY <2>1, DbUnchanged
  <2>2. ASSUME NEW o \in CancelArgs, CancelOrder(o) PROVE DbTypeOK'
    BY <2>2, SettlementAssumption DEF CancelOrder, DbTypeOK
  <2> QED
    BY <2>1, <2>2 DEF World, AckWaitExpires, GiveUp, OrphanConsensus, MirrorCatchesUp, Expire
<1>4. ChainTypeOK'
  <2>1. CASE UNCHANGED chainVars
    BY <2>1, ChainUnchanged
  <2>2. ASSUME NEW o \in ExpireArgs, Expire(o) PROVE ChainTypeOK'
    BY <2>2, SettlementAssumption DEF Expire, ChainTypeOK
  <2>3. ASSUME NEW m \in Matches, OrphanConsensus(m) PROVE ChainTypeOK'
    BY <2>3 DEF OrphanConsensus, ChainTypeOK
  <2>4. ASSUME NEW m \in Matches, MirrorCatchesUp(m) PROVE ChainTypeOK'
    BY <2>4 DEF MirrorCatchesUp, ChainTypeOK
  <2> QED
    BY <2>1, <2>2, <2>3, <2>4 DEF World, AckWaitExpires, GiveUp, CancelOrder
<1> QED
  BY <1>1, <1>2, <1>3, <1>4

\* The stream stays well typed.
LEMMA StreamType ==
    ASSUME TypeOK, NEW w \in Workers, Deliver(w) \/ Step(w) \/ Crash(w) \/ Consensus(w)
    PROVE  StreamTypeOK'
<1> USE DEF TypeOK
<1>1. CASE UNCHANGED streamVars
  BY <1>1, StreamUnchanged
<1>2. CASE Deliver(w)
  <2>1. Head(queue) \in Matches
    BY <1>2 DEF Deliver, StreamTypeOK
  <2>2. deliveries[Head(queue)] + 1 \in Nat
    BY <2>1 DEF StreamTypeOK
  <2>3. deliveries' \in [Matches -> Nat]
    BY <1>2, <2>1, <2>2 DEF Deliver, StreamTypeOK
  <2> QED
    BY <1>2, <2>3 DEF Deliver, StreamTypeOK
<1>3. CASE Respond(w)
  <2>1. workers[w].m \in Matches
    BY <1>3 DEF Respond, At, WorkersTypeOK
  <2>2. refused' \in SUBSET Matches
    BY <1>3, <2>1 DEF Respond, StreamTypeOK
  <2>3. queue' \in Seq(Matches)
    <3>1. queue \in Seq(Matches)
      BY DEF StreamTypeOK
    <3>2. queue' = queue \/ (queue # <<>> /\ queue' = Tail(queue))
      BY <1>3 DEF Respond
    <3> QED
      BY <3>1, <3>2
  <2>4. leased' \in BOOLEAN
    <3>1. leased \in BOOLEAN
      BY DEF StreamTypeOK
    <3>2. leased' = leased \/ \E answered \in BOOLEAN : leased' = (leased /\ answered)
      BY <1>3 DEF Respond
    <3> QED
      BY <3>1, <3>2
  <2>5. deliveries' = deliveries
    BY <1>3 DEF Respond
  <2> QED
    BY <2>2, <2>3, <2>4, <2>5 DEF StreamTypeOK
<1> QED
  BY <1>1, <1>2, <1>3
     DEF Step, LoadOrders, CreateMatchV2, CheckExecuted, ExecuteAccepted, ExecuteFails, MarkMatchSubmitted,
         GetReceipt, Recheck, MarkMatchFailed, FinalizeMatchV2, recordFillBookkeeping, CallFails, Crash, Consensus

\* Every step keeps the types.
LEMMA NextType ==
    ASSUME TypeOK, [Next]_vars
    PROVE  TypeOK'
<1>1. CASE UNCHANGED vars
  BY <1>1 DEF vars, streamVars, dbVars, chainVars, TypeOK, StreamTypeOK, WorkersTypeOK, DbTypeOK, ChainTypeOK
<1>2. CASE World
  BY <1>2, WorldType
<1>3. ASSUME NEW w \in Workers, Deliver(w) \/ Step(w) \/ Crash(w) \/ Consensus(w)
      PROVE  TypeOK'
  <2>1. WorkersTypeOK' /\ StreamTypeOK'
    BY <1>3, WorkersType, StreamType
  <2>2. CASE Step(w)
    <3>1. crashes' = crashes
      BY <2>2 DEF Step, LoadOrders, CreateMatchV2, CheckExecuted, ExecuteAccepted, ExecuteFails,
                  MarkMatchSubmitted, GetReceipt, Recheck, MarkMatchFailed, FinalizeMatchV2,
                  recordFillBookkeeping, CallFails, Respond
    <3> QED
      BY <2>1, <2>2, <3>1, DbType, ChainType DEF TypeOK
  <2>3. CASE Deliver(w)
    BY <2>1, <2>3, DbUnchanged, ChainUnchanged DEF Deliver, TypeOK
  <2>4. CASE Crash(w)
    <3>1. crashes' \in 0 .. MaxCrashes
      BY <2>4, SettlementAssumption DEF Crash, TypeOK
    <3> QED
      BY <2>1, <2>4, <3>1, ChainType, DbUnchanged DEF Crash, TypeOK
  <2>5. CASE Consensus(w)
    BY <2>1, <2>5, ChainType, DbUnchanged DEF Consensus, TypeOK
  <2> QED
    BY <1>3, <2>2, <2>3, <2>4, <2>5
<1> QED
  BY <1>1, <1>2, <1>3 DEF Next, World

\* The variables of the settlement model keep their types, whatever fails.
THEOREM SettlementTypes == Spec => []TypeOK
  BY InitType, NextType, PTL DEF Spec

-----------------------------------------------------------------------------
(* What the steps do to the ledger. *)

\* Only the final transaction changes which rows are final or the fill state.
LEMMA OnlyFinalizeRecords ==
    ASSUME TypeOK, NEW w \in Workers,
           Deliver(w) \/ Step(w) \/ Crash(w) \/ Consensus(w), ~FinalizeMatchV2(w)
    PROVE  Finalized' = Finalized /\ filled' = filled
<1> USE DEF TypeOK
<1>1. CASE UNCHANGED dbVars
  BY <1>1 DEF dbVars, Finalized
<1>2. CASE CreateMatchV2(w)
  BY <1>2 DEF CreateMatchV2, Finalized, DbTypeOK, RowType
<1>3. CASE MarkMatchSubmitted(w)
  BY <1>3 DEF MarkMatchSubmitted, Finalized, DbTypeOK, RowType
<1>4. CASE MarkMatchFailed(w)
  BY <1>4 DEF MarkMatchFailed, Finalized, DbTypeOK, RowType
<1>5. CASE recordFillBookkeeping(w)
  BY <1>5 DEF recordFillBookkeeping, Finalized
<1> QED
  BY <1>1, <1>2, <1>3, <1>4, <1>5
     DEF Step, LoadOrders, CheckExecuted, ExecuteAccepted, ExecuteFails, GetReceipt, Recheck, CallFails,
         Respond, Deliver, Crash, Consensus

\* And it records a match that was not recorded before, or nothing.
LEMMA FinalizeRecords ==
    ASSUME TypeOK, NEW w \in Workers, FinalizeMatchV2(w)
    PROVE  \/ Finalized' = Finalized /\ filled' = filled
           \/ /\ workers[w].m \notin Finalized
              /\ Finalized' = Finalized \cup {workers[w].m}
              /\ filled' = Credited(filled, workers[w].m)
<1>1. workers[w].m \in Matches
  BY DEF FinalizeMatchV2, At, TypeOK, WorkersTypeOK
<1>2. CASE rows[workers[w].m].status = "finalized"
  BY <1>2 DEF FinalizeMatchV2, Finalized
<1>3. CASE rows[workers[w].m].status # "finalized"
  BY <1>1, <1>3 DEF FinalizeMatchV2, Finalized, TypeOK, DbTypeOK, RowType
<1> QED
  BY <1>2, <1>3
\* Nothing that has executed is undone.
LEMMA ExecutedGrows ==
    ASSUME [Next]_vars
    PROVE  executed \subseteq executed'
  BY DEF Next, vars, chainVars, Deliver, Step, LoadOrders, CreateMatchV2, CheckExecuted, ExecuteAccepted,
         ExecuteFails, MarkMatchSubmitted, GetReceipt, Recheck, MarkMatchFailed, FinalizeMatchV2,
         recordFillBookkeeping, CallFails, Respond, Crash, Consensus, AckWaitExpires, GiveUp,
         OrphanConsensus, MirrorCatchesUp, CancelOrder, Expire

\* A step of one worker leaves the others where they are.
LEMMA OthersStay ==
    ASSUME TypeOK, NEW w \in Workers, Deliver(w) \/ Step(w) \/ Crash(w) \/ Consensus(w),
           NEW v \in Workers, v # w
    PROVE  workers'[v] = workers[v]
  BY DEF TypeOK, WorkersTypeOK, Goto, Reply, Deliver, Step, LoadOrders, CreateMatchV2, CheckExecuted,
         ExecuteAccepted, ExecuteFails, MarkMatchSubmitted, GetReceipt, Recheck, MarkMatchFailed,
         FinalizeMatchV2, recordFillBookkeeping, CallFails, Respond, Crash, Consensus

\* Who gets to know of an execution: by the mirror node, or by a receipt.
LEMMA KnownStep ==
    ASSUME SettleInv, NEW w \in Workers, Deliver(w) \/ Step(w) \/ Crash(w) \/ Consensus(w),
           workers'[w].tx = "success" \/ workers'[w].pc = "finalize"
    PROVE  workers'[w].m \in executed'
<1> USE DEF SettleInv, TypeOK, WorkersTypeOK, WorkerType, At, Goto, Reply
<1>1. executed \subseteq executed'
  BY ExecutedGrows DEF Next
<1>2. CASE Deliver(w)
  BY <1>2 DEF Deliver, Working
<1>3. CASE Crash(w) \/ Respond(w)
  BY <1>3 DEF Crash, Respond, Idle, Working
<1>4. CASE Consensus(w)
  <2>1. workers'[w].m = workers[w].m /\ workers'[w].pc = workers[w].pc
    BY <1>4 DEF Consensus
  <2>2. workers'[w].tx = "success" => workers[w].m \in executed'
    BY <1>4 DEF Consensus
  <2> QED
    BY <2>1, <2>2, <1>1 DEF KnownOK
<1>5. CASE CheckExecuted(w)
  BY <1>1, <1>5 DEF CheckExecuted, KnownOK, MirrorOK
<1>6. CASE Recheck(w)
  BY <1>1, <1>6 DEF Recheck, KnownOK, MirrorOK
<1>7. CASE GetReceipt(w)
  BY <1>1, <1>7 DEF GetReceipt, KnownOK
<1>8. CASE LoadOrders(w) \/ CreateMatchV2(w)
  BY <1>1, <1>8 DEF LoadOrders, CreateMatchV2, KnownOK
<1>9. CASE ExecuteAccepted(w) \/ ExecuteFails(w) \/ MarkMatchSubmitted(w)
  BY <1>1, <1>9 DEF ExecuteAccepted, ExecuteFails, MarkMatchSubmitted, KnownOK
<1>10. CASE MarkMatchFailed(w) \/ FinalizeMatchV2(w)
  BY <1>1, <1>10 DEF MarkMatchFailed, FinalizeMatchV2, KnownOK
<1>11. CASE recordFillBookkeeping(w) \/ CallFails(w)
  BY <1>1, <1>11 DEF recordFillBookkeeping, CallFails, KnownOK
<1> QED
  BY <1>2, <1>3, <1>4, <1>5, <1>6, <1>7, <1>8, <1>9, <1>10, <1>11 DEF Step

\* Only the final transaction sends a worker to the bookkeeping.
LEMMA BookStep ==
    ASSUME TypeOK, NEW w \in Workers, Deliver(w) \/ Step(w) \/ Crash(w) \/ Consensus(w),
           workers'[w].pc = "book"
    PROVE  /\ workers'[w].m = workers[w].m
           /\ \/ workers[w].pc = "book" /\ ~recordFillBookkeeping(w) /\ booked' = booked
              \/ FinalizeMatchV2(w) /\ workers[w].m \notin Finalized
<1> USE DEF TypeOK, WorkersTypeOK, WorkerType, At, Goto, Reply
<1>1. CASE Deliver(w) \/ Crash(w) \/ Respond(w)
  BY <1>1 DEF Deliver, Crash, Respond, Idle, Working
<1>2. CASE Consensus(w)
  BY <1>2 DEF Consensus, recordFillBookkeeping, dbVars
<1>3. CASE FinalizeMatchV2(w)
  BY <1>3 DEF FinalizeMatchV2, Finalized
<1>4. CASE LoadOrders(w) \/ CreateMatchV2(w) \/ CheckExecuted(w)
  BY <1>4 DEF LoadOrders, CreateMatchV2, CheckExecuted
<1>5. CASE ExecuteAccepted(w) \/ ExecuteFails(w) \/ MarkMatchSubmitted(w)
  BY <1>5 DEF ExecuteAccepted, ExecuteFails, MarkMatchSubmitted
<1>6. CASE GetReceipt(w) \/ Recheck(w) \/ MarkMatchFailed(w)
  BY <1>6 DEF GetReceipt, Recheck, MarkMatchFailed
<1>7. CASE recordFillBookkeeping(w) \/ CallFails(w)
  BY <1>7 DEF recordFillBookkeeping, CallFails
<1> QED
  BY <1>1, <1>2, <1>3, <1>4, <1>5, <1>6, <1>7 DEF Step
\* The inductive invariant holds initially.
LEMMA InvInit == Init => SettleInv
<1> SUFFICES ASSUME Init PROVE SettleInv
  OBVIOUS
<1>1. TypeOK
  BY InitType
<1>2. Finalized = {}
  BY DEF Init, Finalized
<1>3. \A w \in Workers : workers[w].pc = "idle" /\ workers[w].tx = "none"
  BY DEF Init, Idle, Working
<1>4. BookedAtMostOnce
  BY <1>2 DEF Init, BookedAtMostOnce
<1> QED
  BY <1>1, <1>2, <1>3, <1>4 DEF Init, SettleInv, MirrorOK, KnownOK, FinalOK, BookOK

\* A step of a worker keeps the invariant.
LEMMA WorkerKeepsInv ==
    ASSUME SettleInv, NEW w \in Workers, Deliver(w) \/ Step(w) \/ Crash(w) \/ Consensus(w)
    PROVE  SettleInv'
<1> DEFINE m == workers[w].m
<1>1. TypeOK'
  BY NextType DEF SettleInv, Next
<1>2. executed \subseteq executed'
  BY ExecutedGrows DEF Next
<1>3. MirrorOK'
  <2>1. mirror' = mirror
    BY DEF Deliver, Step, LoadOrders, CreateMatchV2, CheckExecuted, ExecuteAccepted, ExecuteFails,
           MarkMatchSubmitted, GetReceipt, Recheck, MarkMatchFailed, FinalizeMatchV2,
           recordFillBookkeeping, CallFails, Respond, Crash, Consensus, chainVars
  <2> QED
    BY <1>2, <2>1 DEF SettleInv, MirrorOK
<1>4. KnownOK'
  <2> SUFFICES ASSUME NEW v \in Workers, workers'[v].tx = "success" \/ workers'[v].pc = "finalize"
               PROVE  workers'[v].m \in executed'
    BY DEF KnownOK
  <2>1. CASE v = w
    BY <2>1, KnownStep
  <2>2. CASE v # w
    BY <2>2, <1>2, OthersStay DEF SettleInv, KnownOK
  <2> QED
    BY <2>1, <2>2
<1>5. Finalized' = Finalized \/ (FinalizeMatchV2(w) /\ m \notin Finalized /\ Finalized' = Finalized \cup {m})
  BY OnlyFinalizeRecords, FinalizeRecords DEF SettleInv
<1>6. FinalOK'
  <2>1. FinalizeMatchV2(w) => m \in executed
    BY DEF FinalizeMatchV2, At, SettleInv, KnownOK
  <2> QED
    BY <1>2, <1>5, <2>1 DEF SettleInv, FinalOK
<1>7. booked' = booked \/ (recordFillBookkeeping(w) /\ booked' = [booked EXCEPT ![m] = @ + 1])
  BY DEF Deliver, Step, LoadOrders, CreateMatchV2, CheckExecuted, ExecuteAccepted, ExecuteFails,
         MarkMatchSubmitted, GetReceipt, Recheck, MarkMatchFailed, FinalizeMatchV2,
         recordFillBookkeeping, CallFails, Respond, Crash, Consensus, dbVars
<1>8. recordFillBookkeeping(w) => /\ m \in Finalized /\ booked[m] = 0 /\ m \in Matches
                                  /\ workers[w].pc = "book" /\ workers'[w].pc # "book"
  BY DEF recordFillBookkeeping, At, Reply, SettleInv, BookOK, TypeOK, WorkersTypeOK, WorkerType
<1>9. BookedAtMostOnce'
  <2> SUFFICES ASSUME NEW n \in Matches
               PROVE  booked'[n] <= IF n \in Finalized' THEN 1 ELSE 0
    BY DEF BookedAtMostOnce
  <2>1. booked[n] <= IF n \in Finalized THEN 1 ELSE 0
    BY DEF SettleInv, BookedAtMostOnce
  <2>2. booked \in [Matches -> Nat] /\ Finalized \subseteq Finalized'
    BY <1>5 DEF SettleInv, TypeOK, DbTypeOK
  <2>3. CASE booked' = booked
    BY <2>1, <2>2, <2>3
  <2>4. CASE recordFillBookkeeping(w) /\ booked' = [booked EXCEPT ![m] = @ + 1]
    BY <2>1, <2>2, <2>4, <1>8
  <2> QED
    BY <2>3, <2>4, <1>7
<1>10. BookOK'
  <2> SUFFICES ASSUME NEW v \in Workers, workers'[v].pc = "book"
               PROVE  /\ workers'[v].m \in Finalized'
                      /\ booked'[workers'[v].m] = 0
                      /\ \A u \in Workers : workers'[u].pc = "book" /\ workers'[u].m = workers'[v].m => u = v
    BY DEF BookOK
  <2>1. ASSUME NEW u \in Workers, u # w, workers'[u].pc = "book"
        PROVE  /\ workers'[u].m = workers[u].m
               /\ workers[u].pc = "book"
               /\ workers[u].m \in Finalized /\ booked[workers[u].m] = 0
               /\ booked'[workers[u].m] = 0
    <3>1. workers'[u] = workers[u]
      BY <2>1, OthersStay DEF SettleInv
    <3>2. workers[u].m \in Finalized /\ booked[workers[u].m] = 0 /\ workers[u].pc = "book"
      BY <2>1, <3>1 DEF SettleInv, BookOK
    <3>3. recordFillBookkeeping(w) => m # workers[u].m
      BY <2>1, <3>2, <1>8 DEF SettleInv, BookOK
    <3>4. workers[u].m \in Matches /\ booked \in [Matches -> Nat]
      BY <3>2 DEF Finalized, SettleInv, TypeOK, DbTypeOK
    <3>5. booked'[workers[u].m] = 0
      BY <3>2, <3>3, <3>4, <1>7
    <3> QED
      BY <3>1, <3>2, <3>5
  <2>2. ASSUME workers'[w].pc = "book"
        PROVE  /\ workers'[w].m = m
               /\ m \in Finalized' /\ booked'[m] = 0
               /\ \A u \in Workers : u # w /\ workers'[u].pc = "book" => workers'[u].m # m
    <3>1. workers'[w].m = m
      BY <2>2, BookStep DEF SettleInv
    <3>2. CASE workers[w].pc = "book" /\ ~recordFillBookkeeping(w) /\ booked' = booked
      <4>1. m \in Finalized /\ booked[m] = 0
        BY <3>2 DEF SettleInv, BookOK
      <4>2. \A u \in Workers : u # w /\ workers'[u].pc = "book" => workers'[u].m # m
        BY <2>1, <3>2 DEF SettleInv, BookOK
      <4> QED
        BY <3>1, <3>2, <4>1, <4>2, <1>5
    <3>3. CASE FinalizeMatchV2(w) /\ m \notin Finalized
      <4>1. m \in Matches
        BY <3>3 DEF FinalizeMatchV2, At, SettleInv, TypeOK, WorkersTypeOK
      <4>2. m \in Finalized'
        BY <4>1, <3>3 DEF FinalizeMatchV2, Finalized, SettleInv, TypeOK, DbTypeOK, RowType
      <4>3. booked[m] = 0 /\ booked' = booked
        BY <4>1, <3>3 DEF FinalizeMatchV2, SettleInv, BookedAtMostOnce, TypeOK, DbTypeOK
      <4>4. \A u \in Workers : u # w /\ workers'[u].pc = "book" => workers'[u].m # m
        BY <2>1, <3>3
      <4> QED
        BY <3>1, <4>2, <4>3, <4>4
    <3> QED
      BY <2>2, <3>2, <3>3, BookStep DEF SettleInv
  <2>3. CASE v = w
    BY <2>2, <2>3
  <2>4. CASE v # w
    <3>1. /\ workers'[v].m = workers[v].m /\ workers[v].pc = "book"
          /\ workers[v].m \in Finalized /\ booked'[workers[v].m] = 0
      BY <2>1, <2>4
    <3>2. ASSUME NEW u \in Workers, workers'[u].pc = "book", workers'[u].m = workers'[v].m
          PROVE  u = v
      <4>1. CASE u = w
        BY <4>1, <2>2, <2>4, <3>2
      <4>2. CASE u # w
        BY <4>2, <2>1, <3>1, <3>2 DEF SettleInv, BookOK
      <4> QED
        BY <4>1, <4>2
    <3> QED
      BY <3>1, <3>2, <1>5
  <2> QED
    BY <2>3, <2>4
<1> QED
  BY <1>1, <1>3, <1>4, <1>6, <1>9, <1>10 DEF SettleInv

\* So does whatever happens outside the workers.
LEMMA WorldKeepsInv ==
    ASSUME SettleInv, World
    PROVE  SettleInv'
<1>1. TypeOK'
  BY WorldType DEF SettleInv
<1>2. executed \subseteq executed'
  BY ExecutedGrows DEF World, Next
<1>3. workers' = workers /\ rows' = rows /\ booked' = booked
  BY DEF World, AckWaitExpires, GiveUp, OrphanConsensus, MirrorCatchesUp, CancelOrder, Expire, dbVars
<1>4. mirror' \subseteq executed'
  BY <1>2 DEF SettleInv, MirrorOK, World, AckWaitExpires, GiveUp, OrphanConsensus, MirrorCatchesUp,
              CancelOrder, Expire, chainVars
<1>5. Finalized' = Finalized
  BY <1>3 DEF Finalized
<1> QED
  BY <1>1, <1>2, <1>3, <1>4, <1>5 DEF SettleInv, MirrorOK, KnownOK, FinalOK, BookOK, BookedAtMostOnce

\* The invariant is inductive.
LEMMA InvInductive == SettleInv /\ [Next]_vars => SettleInv'
<1> SUFFICES ASSUME SettleInv, [Next]_vars PROVE SettleInv'
  OBVIOUS
<1>1. CASE UNCHANGED vars
  <2>1. TypeOK'
    BY NextType DEF SettleInv
  <2>2. /\ workers' = workers /\ rows' = rows /\ booked' = booked
        /\ mirror' = mirror /\ executed' = executed
    BY <1>1 DEF vars, dbVars, chainVars
  <2>3. Finalized' = Finalized
    BY <2>2 DEF Finalized
  <2> QED
    BY <2>1, <2>2, <2>3 DEF SettleInv, MirrorOK, KnownOK, FinalOK, BookOK, BookedAtMostOnce
<1>2. CASE World
  BY <1>2, WorldKeepsInv
<1>3. ASSUME NEW w \in Workers, Deliver(w) \/ Step(w) \/ Crash(w) \/ Consensus(w) PROVE SettleInv'
  BY <1>3, WorkerKeepsInv
<1> QED
  BY <1>1, <1>2, <1>3 DEF Next, World

\* The bookkeeping of a fill (recordFillBookkeeping, settlementV2.go:278-304)
\* never runs twice and never runs for a fill that is not recorded.
THEOREM BookkeepingOnce == Spec => []BookedAtMostOnce
<1>1. SettleInv => BookedAtMostOnce
  BY DEF SettleInv
<1> QED
  BY InvInit, InvInductive, <1>1, PTL DEF Spec

-----------------------------------------------------------------------------
(* The refinement. *)

\* Every step of settlement is a step of MatchLedger or leaves it alone:
\* Consensus and OrphanConsensus execute, FinalizeMatchV2 records, the rest
\* stutters.
LEMMA StepImplements ==
    ASSUME SettleInv, [Next]_vars
    PROVE  [Ledger!LedgerNext]_(Ledger!ledgerVars)
<1> DEFINE Stutters == executed' = executed /\ Finalized' = Finalized /\ filled' = filled
<1>1. Stutters => [Ledger!LedgerNext]_(Ledger!ledgerVars)
  BY DEF Ledger!ledgerVars
<1>2. ASSUME NEW m \in Matches, m \notin executed, executed' = executed \cup {m},
             Finalized' = Finalized, filled' = filled
      PROVE  Ledger!LedgerNext
  BY <1>2 DEF Ledger!LedgerNext, Ledger!Execute
<1>3. CASE UNCHANGED vars
  BY <1>1, <1>3 DEF vars, dbVars, chainVars, Finalized
<1>4. CASE World
  <2>1. Finalized' = Finalized /\ filled' = filled
    BY <1>4 DEF World, AckWaitExpires, GiveUp, OrphanConsensus, MirrorCatchesUp, CancelOrder, Expire,
                dbVars, Finalized
  <2>2. CASE executed' = executed
    BY <1>1, <2>1, <2>2
  <2>3. ASSUME NEW m \in Matches, OrphanConsensus(m), executed' # executed
        PROVE  Ledger!LedgerNext
    BY <1>2, <2>1, <2>3 DEF OrphanConsensus, Accepts
  <2> QED
    BY <1>4, <2>2, <2>3 DEF World, AckWaitExpires, GiveUp, MirrorCatchesUp, CancelOrder, Expire, chainVars
<1>5. ASSUME NEW w \in Workers, Deliver(w) \/ Step(w) \/ Crash(w) \/ Consensus(w)
      PROVE  [Ledger!LedgerNext]_(Ledger!ledgerVars)
  <2>1. CASE FinalizeMatchV2(w)
    <3>1. executed' = executed /\ workers[w].pc = "finalize"
      BY <2>1 DEF FinalizeMatchV2, chainVars, At
    <3>2. workers[w].m \in executed /\ workers[w].m \in Matches
      BY <3>1 DEF SettleInv, KnownOK, TypeOK, WorkersTypeOK
    <3>3. CASE Finalized' = Finalized /\ filled' = filled
      BY <1>1, <3>1, <3>3
    <3>4. CASE /\ workers[w].m \notin Finalized
               /\ Finalized' = Finalized \cup {workers[w].m}
               /\ filled' = Credited(filled, workers[w].m)
      <4>1. Ledger!Record(workers[w].m)
        BY <3>1, <3>2, <3>4 DEF Ledger!Record, Ledger!Credited, Ledger!Legs, Credited, Legs
      <4> QED
        BY <3>2, <4>1 DEF Ledger!LedgerNext
    <3> QED
      BY <2>1, <3>3, <3>4, FinalizeRecords DEF SettleInv
  <2>2. CASE ~FinalizeMatchV2(w)
    <3>1. Finalized' = Finalized /\ filled' = filled
      BY <1>5, <2>2, OnlyFinalizeRecords DEF SettleInv
    <3>2. CASE Consensus(w)
      <4>1. workers[w].m \in Matches
        BY <3>2 DEF Consensus, SettleInv, TypeOK, WorkersTypeOK
      <4>2. executed' = executed \/ (workers[w].m \notin executed /\ executed' = executed \cup {workers[w].m})
        BY <3>2 DEF Consensus, Accepts
      <4> QED
        BY <1>1, <1>2, <3>1, <4>1, <4>2
    <3>3. CASE Deliver(w) \/ Step(w) \/ Crash(w)
      <4>1. executed' = executed
        BY <3>3 DEF Deliver, Step, LoadOrders, CreateMatchV2, CheckExecuted, ExecuteAccepted, ExecuteFails,
                    MarkMatchSubmitted, GetReceipt, Recheck, MarkMatchFailed, FinalizeMatchV2,
                    recordFillBookkeeping, CallFails, Respond, Crash, chainVars
      <4> QED
        BY <1>1, <3>1, <4>1
    <3> QED
      BY <1>5, <3>2, <3>3
  <2> QED
    BY <2>1, <2>2
<1> QED
  BY <1>3, <1>4, <1>5 DEF Next, World

\* Settlement implements MatchLedger: whatever is redelivered, lost, repeated
\* or crashes, a fill is recorded only after the chain has executed it and is
\* added to the fill state of its orders exactly once.
THEOREM SettlementImplements == Spec => ImplementsLedger
<1>1. Init => Ledger!LedgerInit
  BY DEF Init, Zero, Finalized, Ledger!LedgerInit
<1>2. SettleInv /\ [Next]_vars => [Ledger!LedgerNext]_(Ledger!ledgerVars)
  BY StepImplements
<1> QED
  BY InvInit, InvInductive, <1>1, <1>2, PTL DEF Spec, ImplementsLedger, Ledger!LedgerSpec
-----------------------------------------------------------------------------
(* The tables and the contract. *)

\* What the fills of a set add up to for an order.
Mine(o, S) == {m \in S : o \in Legs(m)}
CollateralOf(o) == [m \in Matches |-> Collateral[m][o]]

\* The fill state of an order is the sum of the recorded fills it is part of.
FilledIsSum(o) ==
    /\ filled[o].shares = SumFunctionOnSet(Shares, Mine(o, Finalized))
    /\ filled[o].collateral = SumFunctionOnSet(CollateralOf(o), Mine(o, Finalized))
FillsInv == \A o \in Orders : FilledIsSum(o)

\* The fills of an order are finitely many, and none is negative.
LEMMA MineType ==
    ASSUME NEW o \in Orders, NEW S \in SUBSET Matches
    PROVE  /\ IsFiniteSet(Mine(o, S)) /\ Mine(o, S) \subseteq Matches
           /\ \A m \in Matches : Shares[m] \in Nat /\ CollateralOf(o)[m] \in Nat
<1>1. Mine(o, S) \subseteq Matches
  BY DEF Mine
<1>2. IsFiniteSet(Mine(o, S))
  BY <1>1, FS_Subset, SettlementAssumption
<1>3. ASSUME NEW m \in Matches PROVE Shares[m] \in Nat /\ CollateralOf(o)[m] \in Nat
  <2>1. Shares[m] \in Nat /\ Collateral[m] \in [Orders -> Nat]
    BY SettlementAssumption
  <2> QED
    BY <2>1 DEF CollateralOf
<1> QED
  BY <1>1, <1>2, <1>3

\* One more fill adds what Credited adds.
LEMMA OneMoreFill ==
    ASSUME NEW o \in Orders, NEW S \in SUBSET Matches, NEW n \in Matches, n \notin S
    PROVE  /\ o \in Legs(n) =>
                /\ SumFunctionOnSet(Shares, Mine(o, S \cup {n}))
                     = Shares[n] + SumFunctionOnSet(Shares, Mine(o, S))
                /\ SumFunctionOnSet(CollateralOf(o), Mine(o, S \cup {n}))
                     = Collateral[n][o] + SumFunctionOnSet(CollateralOf(o), Mine(o, S))
           /\ o \notin Legs(n) => Mine(o, S \cup {n}) = Mine(o, S)
<1>1. o \notin Legs(n) => Mine(o, S \cup {n}) = Mine(o, S)
  BY DEF Mine
<1>2. ASSUME o \in Legs(n)
      PROVE  Mine(o, S \cup {n}) = Mine(o, S) \cup {n} /\ n \notin Mine(o, S)
  BY <1>2 DEF Mine
<1>3. /\ IsFiniteSet(Mine(o, S)) /\ Mine(o, S) \subseteq Matches
      /\ \A m \in Matches : Shares[m] \in Nat /\ CollateralOf(o)[m] \in Nat
  BY MineType
<1>4. CollateralOf(o)[n] = Collateral[n][o]
  BY DEF CollateralOf
<1>5. ASSUME n \notin Mine(o, S)
      PROVE  SumFunctionOnSet(Shares, Mine(o, S) \cup {n}) = Shares[n] + SumFunctionOnSet(Shares, Mine(o, S))
  BY <1>3, <1>5, SumOfAdded
<1>6. ASSUME n \notin Mine(o, S)
      PROVE  SumFunctionOnSet(CollateralOf(o), Mine(o, S) \cup {n})
               = CollateralOf(o)[n] + SumFunctionOnSet(CollateralOf(o), Mine(o, S))
  BY <1>3, <1>6, SumOfAdded
<1> QED
  BY <1>1, <1>2, <1>4, <1>5, <1>6

\* Nothing is recorded at first.
LEMMA FillsInit == Init => FillsInv
<1> SUFFICES ASSUME Init, NEW o \in Orders PROVE FilledIsSum(o)
  BY DEF FillsInv
<1>1. Mine(o, Finalized) = {} /\ IsFiniteSet({})
  BY FS_EmptySet DEF Init, Finalized, Mine
<1>2. SumFunctionOnSet(Shares, {}) = 0 /\ SumFunctionOnSet(CollateralOf(o), {}) = 0
  BY <1>1, SumOfZeros
<1> QED
  BY <1>1, <1>2 DEF Init, Zero, FilledIsSum

\* Recording a fill keeps the fill state the sum of what is recorded.
LEMMA RecordKeepsFills ==
    ASSUME SettleInv, FillsInv, NEW n \in Matches, n \notin Finalized,
           Finalized' = Finalized \cup {n}, filled' = Credited(filled, n)
    PROVE  FillsInv'
<1> SUFFICES ASSUME NEW o \in Orders PROVE FilledIsSum(o)'
  BY DEF FillsInv
<1>1. Finalized \in SUBSET Matches
  BY DEF Finalized
<1>2. FilledIsSum(o)
  BY DEF FillsInv
<1>3. /\ filled \in [Orders -> [shares : Nat, collateral : Nat]]
      /\ Shares[n] \in Nat /\ Collateral[n] \in [Orders -> Nat]
  BY SettlementAssumption DEF SettleInv, TypeOK, DbTypeOK
<1>4. CASE o \in Legs(n)
  <2>1. filled'[o] = [shares |-> filled[o].shares + Shares[n],
                      collateral |-> filled[o].collateral + Collateral[n][o]]
    BY <1>4 DEF Credited
  <2>2. /\ SumFunctionOnSet(Shares, Mine(o, Finalized \cup {n}))
             = Shares[n] + SumFunctionOnSet(Shares, Mine(o, Finalized))
        /\ SumFunctionOnSet(CollateralOf(o), Mine(o, Finalized \cup {n}))
             = Collateral[n][o] + SumFunctionOnSet(CollateralOf(o), Mine(o, Finalized))
    BY <1>1, <1>4, OneMoreFill
  <2>3. filled[o].shares \in Nat /\ filled[o].collateral \in Nat /\ Collateral[n][o] \in Nat
    BY <1>3
  <2> HIDE DEF Finalized
  <2> QED
    BY <1>2, <1>3, <2>1, <2>2, <2>3 DEF FilledIsSum
<1>5. CASE o \notin Legs(n)
  <2>1. filled'[o] = filled[o]
    BY <1>5 DEF Credited
  <2>2. Mine(o, Finalized \cup {n}) = Mine(o, Finalized)
    BY <1>1, <1>5, OneMoreFill
  <2> QED
    BY <1>2, <2>1, <2>2 DEF FilledIsSum
<1> QED
  BY <1>4, <1>5

\* Every step does.
LEMMA FillsInductive == SettleInv /\ FillsInv /\ [Next]_vars => FillsInv'
<1> SUFFICES ASSUME SettleInv, FillsInv, [Next]_vars PROVE FillsInv'
  OBVIOUS
<1>1. CASE Finalized' = Finalized /\ filled' = filled
  BY <1>1 DEF FillsInv, FilledIsSum
<1>2. CASE UNCHANGED vars
  BY <1>1, <1>2 DEF vars, dbVars, Finalized
<1>3. CASE World
  BY <1>1, <1>3 DEF World, AckWaitExpires, GiveUp, OrphanConsensus, MirrorCatchesUp, CancelOrder, Expire,
                    dbVars, Finalized
<1>4. ASSUME NEW w \in Workers, Deliver(w) \/ Step(w) \/ Crash(w) \/ Consensus(w) PROVE FillsInv'
  <2>1. CASE FinalizeMatchV2(w)
    <3>1. workers[w].m \in Matches
      BY <2>1 DEF FinalizeMatchV2, At, SettleInv, TypeOK, WorkersTypeOK
    <3> QED
      BY <1>1, <2>1, <3>1, FinalizeRecords, RecordKeepsFills DEF SettleInv
  <2>2. CASE ~FinalizeMatchV2(w)
    BY <1>1, <1>4, <2>2, OnlyFinalizeRecords DEF SettleInv
  <2> QED
    BY <2>1, <2>2
<1> QED
  BY <1>2, <1>3, <1>4 DEF Next, World

\* A sum over what is recorded is at most one over what has executed.
LEMMA RecordedIsLess ==
    ASSUME SettleInv, FillsInv
    PROVE  NeverAheadOfChain
<1> SUFFICES ASSUME NEW o \in Orders
             PROVE  /\ filled[o].shares <= OnChain(o).shares
                    /\ filled[o].collateral <= OnChain(o).collateral
  BY DEF NeverAheadOfChain
<1>1. OnChain(o) = [shares |-> SumFunctionOnSet(Shares, Mine(o, executed)),
                    collateral |-> SumFunctionOnSet(CollateralOf(o), Mine(o, executed))]
  BY DEF OnChain, Mine, CollateralOf
<1>2. executed \in SUBSET Matches /\ Finalized \subseteq executed
  BY DEF SettleInv, TypeOK, ChainTypeOK, FinalOK
<1>3. Mine(o, Finalized) \in SUBSET Mine(o, executed)
  BY <1>2 DEF Mine
<1>4. /\ IsFiniteSet(Mine(o, executed)) /\ Mine(o, executed) \subseteq Matches
      /\ \A m \in Matches : Shares[m] \in Nat /\ CollateralOf(o)[m] \in Nat
  BY <1>2, MineType
<1>5. SumFunctionOnSet(Shares, Mine(o, Finalized)) <= SumFunctionOnSet(Shares, Mine(o, executed))
  BY <1>3, <1>4, SumMonotone
<1>6. SumFunctionOnSet(CollateralOf(o), Mine(o, Finalized))
        <= SumFunctionOnSet(CollateralOf(o), Mine(o, executed))
  BY <1>3, <1>4, SumMonotone
<1> QED
  BY <1>1, <1>5, <1>6 DEF FillsInv, FilledIsSum

\* The fill state of an order in the database is never ahead of what the contract
\* has consumed of it ("counts only finalized fills, exactly like the contract",
\* settlementV2.go:178), whatever is redelivered, lost or crashes.
THEOREM LedgerBehindChain == Spec => []NeverAheadOfChain
<1>1. SettleInv /\ FillsInv => NeverAheadOfChain
  BY RecordedIsLess
<1> QED
  BY InvInit, InvInductive, FillsInit, FillsInductive, <1>1, PTL DEF Spec
=============================================================================
