-------------------------- MODULE ComponentProofs --------------------------
(***************************************************************************)
(* The components around book, contract and settlement: what the wallet    *)
(* lock and the order ticket promise (walletMutex.ts, useOrderLifecycle.ts)*)
(* for any number of calls, tabs, locks and orders and any time limits; the*)
(* administration of markets (MarketAdmin) for any number of markets and   *)
(* jobs; and the funds behind orders (OrderFunding) for any orders, funds  *)
(* and movements of them.                                                  *)
(***************************************************************************)
EXTENDS OrderLifecycle, MarketAdmin, OrderFunding, FiniteSums

-----------------------------------------------------------------------------
(* The lock.  The call that has it is the one whose prompt is live and that *)
(* has not given it up; a call that waits has not reached the wallet, waits *)
(* once and in the queue of its own lock; only a call whose promise has     *)
(* settled may be left the lock for the time of grace.                      *)

HolderInv ==
  /\ \A l \in Locks : holder[l] # NoCall =>
       /\ Lock(holder[l]) = l /\ prompt[holder[l]] = "live" /\ left[holder[l]] = "no"
  /\ \A c \in Calls : prompt[c] = "live" /\ left[c] = "no" => Holds(c)

QueueInv ==
  \A l \in Locks : \A i \in 1..Len(queue[l]) :
    /\ Lock(queue[l][i]) = l /\ caller[queue[l][i]] = "pending"
    /\ prompt[queue[l][i]] = "none" /\ left[queue[l][i]] = "no"
    /\ \A j \in 1..Len(queue[l]) : queue[l][i] = queue[l][j] => i = j

GraceInv ==
  \A l \in Locks : grace[l] # NoGrace => holder[l] # NoCall /\ caller[holder[l]] \in Settled

NewInv ==
  \A c \in Calls : caller[c] = "new" => prompt[c] = "none" /\ left[c] = "no"

LockInv == TypeOK /\ HolderInv /\ QueueInv /\ GraceInv /\ NewInv /\ NoCallForgotten

(* A promise that has settled stays as it is, and none settles that has not *)
(* been made.                                                               *)
PromisesKept ==
  \A c \in Calls : caller[c] \in Settled \cup {"new"} => caller'[c] = caller[c]

LEMMA LockStarts == LockInit => LockInv
  BY LockAssumption, TimeAssumption
     DEF LockInit, LockInv, TypeOK, HolderInv, QueueInv, GraceInv, NewInv, NoCallForgotten, NoGrace,
         Settled

LEMMA LockOfCall == \A c \in Calls : Lock(c) \in Locks
  BY LockAssumption DEF Lock

(* The invariant says that two live prompts of one lock are not both of a   *)
(* call that still counts on it.                                            *)
LEMMA PromptsByHolder == LockInv => OnePromptPerLock
  BY LockAssumption DEF LockInv, HolderInv, OnePromptPerLock, Holds

LEMMA Joining ==
  ASSUME LockInv, NEW c \in Calls, withWalletLock(c)
  PROVE  /\ LockInv' /\ caller'[c] = "pending"
         /\ \A d \in Calls \ {c} : caller'[d] = caller[d]
  <1> DEFINE l0 == Lock(c)
  <1>1. l0 \in Locks /\ l0 = Lock(c)
    BY LockOfCall
  <1> HIDE DEF l0
  <1>2. /\ queue \in [Locks -> Seq(Calls)] /\ caller[c] = "new"
        /\ caller \in [Calls -> {"new", "pending"} \cup Settled]
        /\ queue' = [queue EXCEPT ![l0] = Append(queue[l0], c)]
        /\ caller' = [caller EXCEPT ![c] = "pending"]
        /\ UNCHANGED <<holder, held, grace, prompt, left, open>>
    BY <1>1 DEF withWalletLock, LockInv, TypeOK
  <1>3. \A l \in Locks : \A i \in 1..Len(queue[l]) : queue[l][i] # c
    BY <1>2 DEF LockInv, QueueInv
  <1>4. /\ Len(queue'[l0]) = Len(queue[l0]) + 1
        /\ queue'[l0][Len(queue[l0]) + 1] = c
        /\ \A i \in 1..Len(queue[l0]) : queue'[l0][i] = queue[l0][i]
        /\ \A l \in Locks \ {l0} : queue'[l] = queue[l]
        /\ queue' \in [Locks -> Seq(Calls)]
    BY <1>1, <1>2
  <1>5. caller'[c] = "pending" /\ \A d \in Calls \ {c} : caller'[d] = caller[d]
    BY <1>2
  <1>6. TypeOK'
    BY <1>2, <1>4 DEF LockInv, TypeOK, Settled
  <1>7. HolderInv'
    BY <1>2 DEF LockInv, HolderInv, Holds
  <1>8. QueueInv'
    <2> SUFFICES ASSUME NEW l \in Locks, NEW i \in 1..Len(queue'[l])
                 PROVE  /\ Lock(queue'[l][i]) = l /\ caller'[queue'[l][i]] = "pending"
                        /\ prompt[queue'[l][i]] = "none" /\ left[queue'[l][i]] = "no"
                        /\ \A j \in 1..Len(queue'[l]) : queue'[l][i] = queue'[l][j] => i = j
      BY <1>2 DEF QueueInv, Lock
    <2>1. CASE l # l0
      <3>1. queue'[l] = queue[l] /\ queue[l][i] \in Calls \ {c}
        BY <2>1, <1>4, <1>3, <1>2
      <3> QED
        BY <3>1, <1>5, <2>1 DEF LockInv, QueueInv
    <2>2. CASE l = l0
      <3>0. Len(queue[l0]) \in Nat
        BY <1>1, <1>2
      <3>1. CASE i = Len(queue[l0]) + 1
        <4>1. queue'[l][i] = c /\ Lock(c) = l /\ prompt'[c] = "none" /\ left'[c] = "no"
          BY <3>1, <2>2, <1>1, <1>2, <1>4 DEF LockInv, NewInv
        <4>2. \A j \in 1..Len(queue'[l]) : queue'[l][j] = c => j = i
          BY <3>0, <3>1, <2>2, <1>1, <1>3, <1>4
        <4> QED
          BY <4>1, <4>2, <1>2, <1>5
      <3>2. CASE i # Len(queue[l0]) + 1
        <4>1. i \in 1..Len(queue[l0]) /\ queue'[l][i] = queue[l0][i] /\ queue[l0][i] \in Calls \ {c}
          BY <3>0, <3>2, <2>2, <1>1, <1>2, <1>3, <1>4
        <4>2. \A j \in 1..Len(queue'[l]) : j = Len(queue[l0]) + 1 \/ j \in 1..Len(queue[l0])
          BY <3>0, <2>2, <1>4
        <4>3. \A j \in 1..Len(queue'[l]) : queue'[l][i] = queue'[l][j] => i = j
          <5> SUFFICES ASSUME NEW j \in 1..Len(queue'[l]), queue'[l][i] = queue'[l][j] PROVE i = j
            OBVIOUS
          <5>1. j \in 1..Len(queue[l0]) /\ queue'[l][j] = queue[l0][j]
            BY <4>1, <4>2, <2>2, <1>4
          <5> QED
            BY <5>1, <4>1, <1>1 DEF LockInv, QueueInv
        <4> DEFINE d == queue[l0][i]
        <4>4. /\ queue'[l][i] = d /\ d \in Calls \ {c} /\ Lock(d) = l0 /\ caller[d] = "pending"
              /\ prompt[d] = "none" /\ left[d] = "no"
          BY <4>1, <1>1, <1>2 DEF LockInv, QueueInv
        <4> HIDE DEF d
        <4>5. caller'[d] = "pending" /\ prompt'[d] = "none" /\ left'[d] = "no"
          BY <4>4, <1>2, <1>5
        <4> QED
          BY <4>3, <4>4, <4>5, <2>2
      <3> QED
        BY <3>1, <3>2
    <2> QED
      BY <2>1, <2>2
  <1>9. GraceInv'
    BY <1>2, <1>5 DEF LockInv, GraceInv, TypeOK, Settled
  <1>10. NewInv'
    BY <1>2, <1>5 DEF LockInv, NewInv
  <1>11. NoCallForgotten'
    <2> SUFFICES ASSUME NEW d \in Calls, caller'[d] = "pending"
                 PROVE  \/ holder[Lock(d)] = d
                        \/ \E i \in 1..Len(queue'[Lock(d)]) : queue'[Lock(d)][i] = d
      BY <1>2 DEF NoCallForgotten, Holds, Lock
    <2>1. CASE d = c
      BY <2>1, <1>1, <1>2, <1>4
    <2>2. CASE d # c
      <3>1. \/ holder[Lock(d)] = d
            \/ \E i \in 1..Len(queue[Lock(d)]) : queue[Lock(d)][i] = d
        BY <2>2, <1>5 DEF LockInv, NoCallForgotten, Holds
      <3>2. Lock(d) \in Locks /\ Len(queue[l0]) \in Nat
        BY LockOfCall, <1>1, <1>2
      <3> QED
        BY <3>1, <3>2, <1>1, <1>4
    <2> QED
      BY <2>1, <2>2
  <1> QED
    BY <1>5, <1>6, <1>7, <1>8, <1>9, <1>10, <1>11 DEF LockInv

LEMMA Starting ==
  ASSUME LockInv, NEW l \in Locks, run(l)
  PROVE  LockInv' /\ PromisesKept
  <1> DEFINE c == queue[l][1]
  <1>1. /\ queue \in [Locks -> Seq(Calls)] /\ Len(queue[l]) \in Nat \ {0}
        /\ c \in Calls /\ c = Head(queue[l])
    BY DEF run, LockInv, TypeOK
  <1> HIDE DEF c
  <1>2. /\ holder[l] = NoCall
        /\ holder' = [holder EXCEPT ![l] = c] /\ queue' = [queue EXCEPT ![l] = Tail(queue[l])]
        /\ prompt' = [prompt EXCEPT ![c] = "live"]
        /\ UNCHANGED <<held, grace, caller, left, open>>
    BY <1>1 DEF run
  <1>3. /\ Len(queue'[l]) = Len(queue[l]) - 1
        /\ \A i \in 1..Len(queue'[l]) : i + 1 \in 1..Len(queue[l]) /\ queue'[l][i] = queue[l][i + 1]
        /\ \A k \in Locks \ {l} : queue'[k] = queue[k]
        /\ queue' \in [Locks -> Seq(Calls)]
    BY <1>1, <1>2
  <1>4. /\ Lock(c) = l /\ caller[c] = "pending" /\ left[c] = "no"
        /\ \A i \in 1..Len(queue[l]) : queue[l][i] = c => i = 1
    BY <1>1 DEF LockInv, QueueInv, c
  <1>5. TypeOK'
    BY <1>1, <1>2, <1>3 DEF LockInv, TypeOK
  <1>6. HolderInv'
    <2>1. \A k \in Locks : holder'[k] # NoCall =>
             Lock(holder'[k]) = k /\ prompt'[holder'[k]] = "live" /\ left'[holder'[k]] = "no"
      <3> TAKE k \in Locks
      <3>1. CASE k = l
        BY <3>1, <1>1, <1>2, <1>4 DEF LockInv, TypeOK
      <3>2. CASE k # l
        BY <3>2, <1>1, <1>2, <1>4 DEF LockInv, TypeOK, HolderInv
      <3> QED
        BY <3>1, <3>2
    <2>2. \A d \in Calls : prompt'[d] = "live" /\ left'[d] = "no" => holder'[Lock(d)] = d
      <3> TAKE d \in Calls
      <3>1. CASE d = c
        BY <3>1, <1>2, <1>4 DEF LockInv, TypeOK
      <3>2. CASE d # c
        <4>1. prompt'[d] = "live" /\ left'[d] = "no" => holder[Lock(d)] = d
          BY <3>2, <1>1, <1>2 DEF LockInv, TypeOK, HolderInv, Holds
        <4>2. Lock(d) \in Locks /\ d # NoCall
          BY LockOfCall, LockAssumption
        <4> QED
          BY <4>1, <4>2, <1>2 DEF LockInv, TypeOK
      <3> QED
        BY <3>1, <3>2
    <2> QED
      BY <2>1, <2>2 DEF HolderInv, Holds, Lock
  <1>7. QueueInv'
    <2> SUFFICES ASSUME NEW k \in Locks, NEW i \in 1..Len(queue'[k])
                 PROVE  /\ Lock(queue'[k][i]) = k /\ caller'[queue'[k][i]] = "pending"
                        /\ prompt'[queue'[k][i]] = "none" /\ left'[queue'[k][i]] = "no"
                        /\ \A j \in 1..Len(queue'[k]) : queue'[k][i] = queue'[k][j] => i = j
      BY DEF QueueInv, Lock
    <2>1. CASE k = l
      <3>1. i + 1 \in 1..Len(queue[l]) /\ queue'[k][i] = queue[l][i + 1] /\ i + 1 # 1
        BY <2>1, <1>1, <1>3
      <3>2. queue'[k][i] \in Calls \ {c} /\ prompt'[queue'[k][i]] = prompt[queue'[k][i]]
        BY <3>1, <1>1, <1>2, <1>4 DEF LockInv, TypeOK
      <3>3. \A j \in 1..Len(queue'[k]) : queue'[k][i] = queue'[k][j] => i = j
        <4> SUFFICES ASSUME NEW j \in 1..Len(queue'[k]), queue'[k][i] = queue'[k][j] PROVE i = j
          OBVIOUS
        <4>1. j + 1 \in 1..Len(queue[l]) /\ queue[l][i + 1] = queue[l][j + 1]
          BY <2>1, <3>1, <1>3
        <4>2. i + 1 = j + 1
          BY <4>1, <3>1 DEF LockInv, QueueInv
        <4> QED
          BY <4>2
      <3> QED
        BY <3>1, <3>2, <3>3, <2>1, <1>2, SMTT(30) DEF LockInv, QueueInv
    <2>2. CASE k # l
      <3>1. queue'[k] = queue[k] /\ queue[k][i] \in Calls /\ Lock(queue[k][i]) = k
        BY <2>2, <1>1, <1>3 DEF LockInv, QueueInv
      <3>2. queue[k][i] # c
        BY <3>1, <1>4, <2>2
      <3>3. prompt'[queue[k][i]] = prompt[queue[k][i]]
        BY <3>1, <3>2, <1>2 DEF LockInv, TypeOK
      <3> QED
        BY <3>1, <3>3, <1>2 DEF LockInv, QueueInv
    <2> QED
      BY <2>1, <2>2
  <1>8. GraceInv'
    BY <1>2 DEF LockInv, TypeOK, GraceInv
  <1>9. NewInv'
    BY <1>1, <1>2, <1>4 DEF LockInv, TypeOK, NewInv
  <1>10. NoCallForgotten'
    <2> SUFFICES ASSUME NEW d \in Calls, caller[d] = "pending"
                 PROVE  \/ holder'[Lock(d)] = d
                        \/ \E i \in 1..Len(queue'[Lock(d)]) : queue'[Lock(d)][i] = d
      BY <1>2 DEF NoCallForgotten, Holds, Lock
    <2>1. \/ holder[Lock(d)] = d
          \/ \E i \in 1..Len(queue[Lock(d)]) : queue[Lock(d)][i] = d
      BY DEF LockInv, NoCallForgotten, Holds
    <2>2. Lock(d) \in Locks /\ d # NoCall
      BY LockOfCall, LockAssumption
    <2>3. CASE Lock(d) # l
      BY <2>1, <2>2, <2>3, <1>2, <1>3 DEF LockInv, TypeOK
    <2>4. CASE Lock(d) = l
      <3>1. PICK i \in 1..Len(queue[l]) : queue[l][i] = d
        BY <2>1, <2>2, <2>4, <1>2
      <3>2. CASE i = 1
        BY <3>1, <3>2, <2>4, <1>2 DEF c, LockInv, TypeOK
      <3>3. CASE i # 1
        <4>1. i - 1 \in 1..Len(queue'[l]) /\ queue'[l][i - 1] = d
          BY <3>1, <3>3, <1>1, <1>3
        <4> QED
          BY <4>1, <2>4
      <3> QED
        BY <3>2, <3>3
    <2> QED
      BY <2>3, <2>4
  <1>11. PromisesKept
    BY <1>2 DEF PromisesKept
  <1> QED
    BY <1>5, <1>6, <1>7, <1>8, <1>9, <1>10, <1>11 DEF LockInv

(* A call gives the lock up: its promise has settled, now or by an earlier  *)
(* cancellation, and its prompt is answered or stays in the wallet.         *)
LEMMA Releasing ==
  ASSUME LockInv, NEW c \in Calls, Holds(c),
         NEW why \in {"settled", "timeout", "ceiling", "grace", "reset", "closed"}, Release(c, why),
         caller' \in [Calls -> {"new", "pending"} \cup Settled], caller'[c] \in Settled,
         caller[c] \in Settled => caller'[c] = caller[c],
         \A d \in Calls \ {c} : caller'[d] = caller[d],
         prompt' = prompt \/ prompt' = [prompt EXCEPT ![c] = "answered"],
         UNCHANGED <<queue, open>>
  PROVE  LockInv' /\ PromisesKept
  <1> DEFINE l == Lock(c)
  <1>1. l \in Locks /\ l = Lock(c) /\ holder[l] = c /\ c # NoCall
    BY LockOfCall, LockAssumption DEF Holds
  <1> HIDE DEF l
  <1>2. /\ holder' = [holder EXCEPT ![l] = NoCall] /\ held' = [held EXCEPT ![l] = 0]
        /\ grace' = [grace EXCEPT ![l] = NoGrace] /\ left' = [left EXCEPT ![c] = why]
    BY <1>1 DEF Release
  <1>3. prompt[c] = "live" /\ left[c] = "no" /\ caller[c] # "new"
    BY <1>1 DEF LockInv, HolderInv, NewInv
  <1>4. /\ \A d \in Calls \ {c} : prompt'[d] = prompt[d] /\ left'[d] = left[d]
        /\ left'[c] = why /\ prompt' \in [Calls -> {"none", "live", "answered"}]
    BY <1>2 DEF LockInv, TypeOK
  <1>5. TypeOK'
    <2>1. held' \in [Locks -> 0..HoldCeiling] /\ grace' \in [Locks -> {NoGrace} \cup 0..CancelGrace]
      BY <1>1, <1>2, TimeAssumption DEF LockInv, TypeOK
    <2>2. holder' \in [Locks -> Calls \cup {NoCall}]
      BY <1>1, <1>2 DEF LockInv, TypeOK
    <2>3. left' \in [Calls -> {"no", "settled", "timeout", "ceiling", "grace", "reset", "closed"}]
      BY <1>2 DEF LockInv, TypeOK
    <2> QED
      BY <2>1, <2>2, <2>3, <1>4 DEF LockInv, TypeOK
  <1>6. HolderInv'
    <2>1. \A k \in Locks : holder'[k] # NoCall =>
             Lock(holder'[k]) = k /\ prompt'[holder'[k]] = "live" /\ left'[holder'[k]] = "no"
      <3> SUFFICES ASSUME NEW k \in Locks, holder'[k] # NoCall
                   PROVE  Lock(holder'[k]) = k /\ prompt'[holder'[k]] = "live" /\ left'[holder'[k]] = "no"
        OBVIOUS
      <3>1. k # l /\ holder'[k] = holder[k] /\ holder[k] \in Calls
        BY <1>1, <1>2 DEF LockInv, TypeOK
      <3>2. Lock(holder[k]) = k /\ holder[k] # c
        BY <3>1, <1>1 DEF LockInv, HolderInv
      <3> QED
        BY <3>1, <3>2, <1>4 DEF LockInv, HolderInv
    <2>2. \A d \in Calls : prompt'[d] = "live" /\ left'[d] = "no" => holder'[Lock(d)] = d
      <3> SUFFICES ASSUME NEW d \in Calls, prompt'[d] = "live", left'[d] = "no" PROVE holder'[Lock(d)] = d
        OBVIOUS
      <3>1. d # c
        BY <1>4
      <3>2. holder[Lock(d)] = d /\ Lock(d) \in Locks
        BY <3>1, <1>4, LockOfCall DEF LockInv, HolderInv, Holds
      <3> QED
        BY <3>1, <3>2, <1>1, <1>2 DEF LockInv, TypeOK
    <2> QED
      BY <2>1, <2>2 DEF HolderInv, Holds, Lock
  <1>7. QueueInv'
    <2> SUFFICES ASSUME NEW k \in Locks, NEW i \in 1..Len(queue[k])
                 PROVE  /\ Lock(queue[k][i]) = k /\ caller'[queue[k][i]] = "pending"
                        /\ prompt'[queue[k][i]] = "none" /\ left'[queue[k][i]] = "no"
                        /\ \A j \in 1..Len(queue[k]) : queue[k][i] = queue[k][j] => i = j
      BY DEF QueueInv, Lock
    <2>1. queue[k][i] \in Calls /\ prompt[queue[k][i]] = "none"
      BY DEF LockInv, TypeOK, QueueInv
    <2>2. queue[k][i] \in Calls \ {c}
      BY <2>1, <1>3
    <2> QED
      BY <2>2, <1>4 DEF LockInv, QueueInv
  <1>8. GraceInv'
    <2> SUFFICES ASSUME NEW k \in Locks, grace'[k] # NoGrace
                 PROVE  holder'[k] # NoCall /\ caller'[holder'[k]] \in Settled
      BY DEF GraceInv, NoGrace, Settled
    <2>1. k # l /\ grace'[k] = grace[k] /\ holder'[k] = holder[k]
      BY <1>1, <1>2 DEF LockInv, TypeOK
    <2>2. holder[k] \in Calls /\ caller[holder[k]] \in Settled
      BY <2>1 DEF LockInv, TypeOK, GraceInv
    <2>3. caller'[holder[k]] \in Settled
      BY <2>2
    <2> QED
      BY <2>1, <2>2, <2>3, LockAssumption
  <1>9. NewInv'
    BY <1>3, <1>4 DEF LockInv, NewInv, Settled
  <1>10. NoCallForgotten'
    <2> SUFFICES ASSUME NEW d \in Calls, caller'[d] = "pending"
                 PROVE  \/ holder'[Lock(d)] = d
                        \/ \E i \in 1..Len(queue[Lock(d)]) : queue[Lock(d)][i] = d
      BY DEF NoCallForgotten, Holds, Lock
    <2>1. d # c
      BY DEF Settled
    <2>2. \/ holder[Lock(d)] = d
          \/ \E i \in 1..Len(queue[Lock(d)]) : queue[Lock(d)][i] = d
      BY <2>1 DEF LockInv, NoCallForgotten, Holds
    <2>3. holder[Lock(d)] = d => holder'[Lock(d)] = d
      BY <2>1, <1>1, <1>2, LockOfCall DEF LockInv, TypeOK
    <2> QED
      BY <2>2, <2>3
  <1>11. PromisesKept
    BY <1>3 DEF PromisesKept
  <1> QED
    BY <1>5, <1>6, <1>7, <1>8, <1>9, <1>10, <1>11 DEF LockInv

LEMMA Settling ==
  ASSUME LockInv, NEW c \in Calls, NEW outcome \in Settled
  PROVE  /\ Settle(c, outcome) \in [Calls -> {"new", "pending"} \cup Settled]
         /\ Settle(c, outcome)[c] \in Settled
         /\ caller[c] \in Settled => Settle(c, outcome)[c] = caller[c]
         /\ \A d \in Calls \ {c} : Settle(c, outcome)[d] = caller[d]
  BY DEF LockInv, TypeOK, Settle

LEMMA Answering ==
  ASSUME LockInv, NEW c \in Calls, NEW o \in {"resolved", "rejected"}, WalletAnswers(c, o)
  PROVE  LockInv' /\ PromisesKept
  <1>1. CASE Holds(c)
    <2>1. /\ Release(c, "settled") /\ caller' = Settle(c, o)
          /\ prompt' = [prompt EXCEPT ![c] = "answered"] /\ UNCHANGED <<queue, open>>
      BY <1>1 DEF WalletAnswers
    <2>2. o \in Settled
      BY DEF Settled
    <2>3. /\ caller' \in [Calls -> {"new", "pending"} \cup Settled] /\ caller'[c] \in Settled
          /\ caller[c] \in Settled => caller'[c] = caller[c]
          /\ \A d \in Calls \ {c} : caller'[d] = caller[d]
      BY <2>1, <2>2, Settling
    <2> QED
      BY <1>1, <2>1, <2>3, Releasing
  <1>2. CASE ~Holds(c)
    <2>1. /\ prompt[c] = "live" /\ prompt' = [prompt EXCEPT ![c] = "answered"]
          /\ UNCHANGED <<queue, holder, held, grace, caller, left, open>>
      BY <1>2 DEF WalletAnswers
    <2>2. \A d \in Calls : IF d = c THEN prompt'[d] = "answered" ELSE prompt'[d] = prompt[d]
      BY <2>1 DEF LockInv, TypeOK
    <2>3. TypeOK'
      BY <2>1 DEF LockInv, TypeOK
    <2>4. HolderInv'
      <3>1. \A l \in Locks : holder[l] # NoCall =>
               Lock(holder[l]) = l /\ prompt'[holder[l]] = "live" /\ left[holder[l]] = "no"
        <4> TAKE l \in Locks
        <4>1. holder[l] # NoCall => holder[l] # c /\ holder[l] \in Calls
          BY <1>2 DEF LockInv, TypeOK, HolderInv, Holds
        <4> QED
          BY <4>1, <2>2 DEF LockInv, HolderInv
      <3>2. \A d \in Calls : prompt'[d] = "live" /\ left[d] = "no" => Holds(d)
        BY <2>2 DEF LockInv, HolderInv
      <3> QED
        BY <3>1, <3>2, <2>1 DEF HolderInv, Holds, Lock
    <2>5. QueueInv'
      <3> SUFFICES ASSUME NEW k \in Locks, NEW i \in 1..Len(queue[k])
                   PROVE  prompt'[queue[k][i]] = "none"
        BY <2>1 DEF LockInv, QueueInv, Lock
      <3>1. queue[k][i] \in Calls /\ prompt[queue[k][i]] = "none"
        BY DEF LockInv, TypeOK, QueueInv
      <3> QED
        BY <3>1, <2>1, <2>2
    <2>6. NewInv'
      BY <2>1, <2>2 DEF LockInv, NewInv
    <2> QED
      BY <2>1, <2>3, <2>4, <2>5, <2>6
         DEF LockInv, GraceInv, NoCallForgotten, PromisesKept, Holds, Lock, NoGrace, Settled
  <1> QED
    BY <1>1, <1>2

LEMMA Aborting ==
  ASSUME LockInv, NEW c \in Calls, abortActiveWalletCall(c)
  PROVE  LockInv' /\ PromisesKept
  <1> DEFINE l == Lock(c)
  <1>1. l \in Locks /\ l = Lock(c) /\ holder[l] = c /\ c # NoCall
    BY LockOfCall, LockAssumption DEF abortActiveWalletCall, Holds
  <1> HIDE DEF l
  <1>2. /\ caller' = Settle(c, "rejected")
        /\ grace' = [grace EXCEPT ![l] = IF grace[l] = NoGrace THEN 0 ELSE grace[l]]
        /\ UNCHANGED <<queue, holder, held, prompt, left, open>>
    BY <1>1 DEF abortActiveWalletCall, LockInv, TypeOK
  <1>3. /\ caller' \in [Calls -> {"new", "pending"} \cup Settled] /\ caller'[c] \in Settled
        /\ caller[c] \in Settled => caller'[c] = caller[c]
        /\ \A d \in Calls \ {c} : caller'[d] = caller[d]
    BY <1>2, Settling DEF Settled
  <1>4. prompt[c] = "live" /\ left[c] = "no" /\ caller[c] # "new"
    BY <1>1 DEF LockInv, HolderInv, NewInv
  <1>5. TypeOK'
    <2>1. grace' \in [Locks -> {NoGrace} \cup 0..CancelGrace]
      BY <1>1, <1>2, TimeAssumption DEF LockInv, TypeOK
    <2> QED
      BY <1>2, <1>3, <2>1 DEF LockInv, TypeOK
  <1>6. HolderInv'
    BY <1>2 DEF LockInv, HolderInv, Holds, Lock
  <1>7. QueueInv'
    <2> SUFFICES ASSUME NEW k \in Locks, NEW i \in 1..Len(queue[k])
                 PROVE  caller'[queue[k][i]] = "pending"
      BY <1>2 DEF LockInv, QueueInv, Lock
    <2>1. queue[k][i] \in Calls \ {c}
      BY <1>4 DEF LockInv, TypeOK, QueueInv
    <2> QED
      BY <2>1, <1>3 DEF LockInv, QueueInv
  <1>8. GraceInv'
    <2> SUFFICES ASSUME NEW k \in Locks, grace'[k] # NoGrace
                 PROVE  holder[k] # NoCall /\ caller'[holder[k]] \in Settled
      BY <1>2 DEF GraceInv, NoGrace, Settled
    <2>1. CASE k = l
      BY <2>1, <1>1, <1>3
    <2>2. CASE k # l
      <3>1. holder[k] \in Calls /\ caller[holder[k]] \in Settled
        BY <2>2, <1>1, <1>2 DEF LockInv, TypeOK, GraceInv
      <3> QED
        BY <3>1, <1>3, LockAssumption
    <2> QED
      BY <2>1, <2>2
  <1>9. NewInv'
    BY <1>2, <1>3, <1>4 DEF LockInv, NewInv, Settled
  <1>10. NoCallForgotten'
    BY <1>2, <1>3 DEF LockInv, NoCallForgotten, Holds, Lock, Settled
  <1>11. PromisesKept
    BY <1>3, <1>4 DEF PromisesKept
  <1> QED
    BY <1>5, <1>6, <1>7, <1>8, <1>9, <1>10, <1>11 DEF LockInv

LEMMA Resetting ==
  ASSUME LockInv, NEW c \in Calls, forceResetWalletLock(c)
  PROVE  LockInv' /\ PromisesKept
  BY Settling, Releasing DEF forceResetWalletLock, Settled

LEMMA Timing ==
  ASSUME LockInv, LockTimers
  PROVE  LockInv' /\ PromisesKept
  <1>1. ASSUME NEW c \in Calls, HardTimeout(c) PROVE LockInv' /\ PromisesKept
    BY <1>1, Settling, Releasing DEF HardTimeout, TimeoutDue, Settled
  <1>2. ASSUME NEW c \in Calls, CeilingReached(c) PROVE LockInv' /\ PromisesKept
    BY <1>2, Settling, Releasing DEF CeilingReached, CeilingDue, Settled
  <1>3. ASSUME NEW c \in Calls, GraceOver(c) PROVE LockInv' /\ PromisesKept
    <2>1. Holds(c) /\ Lock(c) \in Locks /\ grace[Lock(c)] # NoGrace
      BY <1>3, LockOfCall, TimeAssumption DEF GraceOver, GraceDue, NoGrace
    <2>2. caller[c] \in Settled
      BY <2>1 DEF LockInv, GraceInv, Holds
    <2> QED
      BY <1>3, <2>1, <2>2, Releasing DEF GraceOver, LockInv, TypeOK
  <1>4. CASE Tick
    <2>1. /\ held' = [l \in Locks |-> IF holder[l] = NoCall THEN held[l] ELSE held[l] + 1]
          /\ grace' = [l \in Locks |-> IF grace[l] = NoGrace THEN NoGrace ELSE grace[l] + 1]
          /\ UNCHANGED <<queue, holder, caller, prompt, left, open>>
      BY <1>4 DEF Tick
    <2>2. \A l \in Locks : holder[l] # NoCall => held[l] # HoldCeiling /\ grace[l] # CancelGrace
      <3> SUFFICES ASSUME NEW l \in Locks, holder[l] # NoCall
                   PROVE  held[l] # HoldCeiling /\ grace[l] # CancelGrace
        OBVIOUS
      <3>1. holder[l] \in Calls /\ Lock(holder[l]) = l
        BY DEF LockInv, TypeOK, HolderInv
      <3>2. ~CeilingDue(holder[l]) /\ ~GraceDue(holder[l])
        BY <3>1, <1>4 DEF Tick
      <3> QED
        BY <3>1, <3>2 DEF CeilingDue, GraceDue, Holds
    <2>3. \A l \in Locks : grace[l] # NoGrace => holder[l] # NoCall
      BY DEF LockInv, GraceInv
    <2>4. held' \in [Locks -> 0..HoldCeiling]
      <3>1. \A l \in Locks : held[l] \in 0..HoldCeiling
        BY DEF LockInv, TypeOK
      <3> QED
        BY <3>1, <2>1, <2>2, TimeAssumption
    <2>5. grace' \in [Locks -> {NoGrace} \cup 0..CancelGrace]
      <3>1. \A l \in Locks : grace[l] # NoGrace => grace[l] \in 0..CancelGrace /\ grace[l] # CancelGrace
        BY <2>2, <2>3 DEF LockInv, TypeOK
      <3> QED
        BY <3>1, <2>1, TimeAssumption
    <2>6. TypeOK'
      BY <2>1, <2>4, <2>5 DEF LockInv, TypeOK
    <2>7. GraceInv'
      BY <2>1 DEF LockInv, GraceInv, Settled
    <2> QED
      BY <2>1, <2>6, <2>7
         DEF LockInv, HolderInv, QueueInv, NewInv, NoCallForgotten, Holds, Lock, PromisesKept
  <1> QED
    BY <1>1, <1>2, <1>3, <1>4 DEF LockTimers

LEMMA LockIdle ==
  ASSUME LockInv, UNCHANGED lockVars
  PROVE  LockInv' /\ PromisesKept
  BY DEF lockVars, LockInv, TypeOK, HolderInv, QueueInv, GraceInv, NewInv, NoCallForgotten, Holds, Lock,
         PromisesKept

-----------------------------------------------------------------------------
(* The panel.  signAbortRef is the one signing that was not cancelled and   *)
(* has not ended; the ticket and what was sent are of orders whose signing  *)
(* has ended with a signature and was not cancelled.                        *)

PanelTypeOK ==
  /\ phase \in [Orders -> {"none", "account", "wallet", "done"}]
  /\ cancelled \subseteq Orders /\ sent \subseteq Orders /\ accepted \subseteq sent
  /\ signAbortRef \in Orders \cup {NoCall}
  /\ processingStep \in {"idle", "signing", "submitting"}
  /\ {pendingIntent, signatureB64, signedKeccakB64} \subseteq Orders \cup {NoCall}
  /\ sub \in {"none", "creating", "allowance"}
  /\ {connected, accountKnown, late} \subseteq BOOLEAN

SigningInv ==
  /\ \A o \in Orders : phase[o] \in {"none", "account"} => caller[o] = "new"
  /\ \A o \in Orders : signAbortRef = o <=> o \notin cancelled /\ phase[o] \in {"account", "wallet"}
  /\ \A o \in cancelled : phase[o] # "none"
  /\ processingStep = "signing" <=> signAbortRef # NoCall
  /\ processingStep = "submitting" <=> sub # "none"

\* An order whose signing has ended, signed and not cancelled.
Signed(o) == phase[o] = "done" /\ caller[o] = "resolved" /\ o \notin cancelled

TicketInv ==
  /\ pendingIntent = signatureB64
  /\ pendingIntent # NoCall => signedKeccakB64 = pendingIntent /\ Signed(pendingIntent)
  /\ \A o \in sent : Signed(o)
  /\ sub = "creating" => pendingIntent \in sent

PanelInv == PanelTypeOK /\ SigningInv /\ TicketInv

LEMMA PanelStarts == Init => LockInv /\ PanelInv
  <1> SUFFICES ASSUME Init PROVE LockInv /\ PanelInv
    OBVIOUS
  <1>1. LockInv
    BY LockStarts DEF Init
  <1>2. NoCall \notin Orders /\ \A o \in Orders : caller[o] = "new"
    BY OrderAssumption, LockAssumption DEF Init, LockInit
  <1> QED
    BY <1>1, <1>2 DEF Init, PanelInit, PanelInv, PanelTypeOK, SigningInv, TicketInv

LEMMA PanelIsSafe == LockInv /\ PanelInv => SigningIsSafe
  <1> SUFFICES ASSUME LockInv, PanelInv PROVE SigningIsSafe
    OBVIOUS
  <1>0. NoCall \notin Orders
    BY OrderAssumption, LockAssumption
  <1>1. CancelledNeverSent
    BY <1>0 DEF CancelledNeverSent, PanelInv, PanelTypeOK, TicketInv, Signed
  <1>2. StepIsHonest
    BY <1>0 DEF StepIsHonest, PanelInv, PanelTypeOK, SigningInv
  <1>3. TicketIsOneOrder
    BY DEF TicketIsOneOrder, isSigned, PanelInv, TicketInv, Signed
  <1> QED
    BY <1>1, <1>2, <1>3, PromptsByHolder DEF SigningIsSafe, LockInv

(* A step of the lock that makes no promise of an order leaves the panel's  *)
(* invariant as it is.                                                      *)
LEMMA PanelWaits ==
  ASSUME PanelInv, UNCHANGED panelVars,
         \A o \in Orders : caller[o] \in Settled \cup {"new"} => caller'[o] = caller[o]
  PROVE  PanelInv'
  <1>1. PanelTypeOK'
    BY DEF PanelInv, PanelTypeOK, panelVars
  <1>2. SigningInv'
    BY DEF PanelInv, SigningInv, panelVars
  <1>3. \A o \in Orders : Signed(o) => Signed(o)'
    BY DEF Signed, panelVars, Settled
  <1>4. TicketInv'
    BY <1>3 DEF PanelInv, PanelTypeOK, TicketInv, panelVars
  <1> QED
    BY <1>1, <1>2, <1>4 DEF PanelInv

LEMMA PanelTurns ==
  ASSUME LockInv, PanelInv, Connect \/ Disconnect
  PROVE  LockInv' /\ PanelInv'
  <1>1. /\ connected' \in BOOLEAN /\ accountKnown' \in BOOLEAN
        /\ UNCHANGED <<phase, cancelled, signAbortRef, processingStep, ticket, server>>
    BY DEF Connect, Disconnect
  <1>2. LockInv' /\ PromisesKept
    BY LockIdle, Resetting DEF Connect, Disconnect
  <1>3. \A o \in Orders : caller[o] \in Settled \cup {"new"} => caller'[o] = caller[o]
    BY <1>2, OrderAssumption DEF PromisesKept
  <1>4. PanelTypeOK'
    BY <1>1 DEF PanelInv, PanelTypeOK, ticket, server
  <1>5. SigningInv'
    BY <1>1, <1>3 DEF PanelInv, SigningInv, server
  <1>6. \A o \in Orders : Signed(o) => Signed(o)'
    BY <1>1, <1>3 DEF Signed, Settled
  <1>7. TicketInv'
    BY <1>1, <1>6 DEF PanelInv, PanelTypeOK, TicketInv, ticket, server
  <1> QED
    BY <1>2, <1>4, <1>5, <1>7 DEF PanelInv

LEMMA PanelSigns ==
  ASSUME LockInv, PanelInv, NEW o \in Orders, signOrder(o)
  PROVE  LockInv' /\ PanelInv'
  <1>0. o \in Calls /\ NoCall \notin Orders
    BY OrderAssumption, LockAssumption
  <1>1. /\ phase[o] = "none" /\ processingStep = "idle" /\ signAbortRef = NoCall
        /\ o \notin cancelled /\ o \notin sent /\ pendingIntent # o /\ o # NoCall
    BY <1>0 DEF signOrder, SignButton, PanelInv, PanelTypeOK, SigningInv, TicketInv, Signed
  <1>2. /\ processingStep' = "signing" /\ signAbortRef' = o
        /\ UNCHANGED <<session, cancelled, ticket, server>>
    BY DEF signOrder
  <1>3. /\ phase' \in [Orders -> {"none", "account", "wallet", "done"}]
        /\ \A p \in Orders \ {o} : phase'[p] = phase[p]
        /\ \/ phase'[o] = "wallet"
           \/ phase'[o] = "account" /\ UNCHANGED lockVars
    BY DEF signOrder, PanelInv, PanelTypeOK
  <1>4. /\ LockInv' /\ \A p \in Orders \ {o} : caller'[p] = caller[p]
        /\ phase'[o] = "account" => caller'[o] = "new"
    <2>1. CASE accountKnown
      <3>1. withWalletLock(o) /\ phase'[o] = "wallet"
        BY <2>1 DEF signOrder, PanelInv, PanelTypeOK
      <3> QED
        BY <3>1, <1>0, Joining, OrderAssumption
    <2>2. CASE ~accountKnown
      <3>1. UNCHANGED lockVars
        BY <2>2 DEF signOrder
      <3> QED
        BY <3>1, <1>1, LockIdle DEF lockVars, PanelInv, SigningInv
    <2> QED
      BY <2>1, <2>2
  <1>5. PanelTypeOK'
    BY <1>2, <1>3 DEF PanelInv, PanelTypeOK, session, ticket, server
  <1>6. SigningInv'
    BY <1>0, <1>1, <1>2, <1>3, <1>4 DEF PanelInv, PanelTypeOK, SigningInv, server
  <1>7. \A p \in Orders \ {o} : Signed(p) => Signed(p)'
    BY <1>2, <1>3, <1>4 DEF Signed
  <1>8. TicketInv'
    BY <1>1, <1>2, <1>7 DEF PanelInv, PanelTypeOK, TicketInv, ticket, server
  <1> QED
    BY <1>4, <1>5, <1>6, <1>8 DEF PanelInv

(* The end of a signing, whose order may have come into the ticket. *)
LEMMA PanelSigningEnds ==
  ASSUME PanelInv, NEW o \in Orders, SignEnds(o), phase[o] \in {"account", "wallet"},
         UNCHANGED <<lockVars, session, cancelled, server>>,
         \/ UNCHANGED ticket
         \/ /\ caller[o] = "resolved" /\ o \notin cancelled /\ late' = FALSE
            /\ pendingIntent' = o /\ signatureB64' = o /\ signedKeccakB64' = o
  PROVE  PanelInv'
  <1>0. NoCall \notin Orders /\ caller' = caller
    BY OrderAssumption, LockAssumption DEF lockVars
  <1>1. /\ phase'[o] = "done" /\ \A p \in Orders \ {o} : phase'[p] = phase[p]
        /\ phase' \in [Orders -> {"none", "account", "wallet", "done"}]
    BY DEF SignEnds, PanelInv, PanelTypeOK
  <1>2. PanelTypeOK'
    BY <1>1, ZenonT(60) DEF SignEnds, PanelInv, PanelTypeOK, session, ticket, server
  <1>3. SigningInv'
    <2>1. \A p \in Orders : phase'[p] \in {"none", "account"} => caller'[p] = "new"
      BY <1>0, <1>1 DEF PanelInv, SigningInv
    <2>2. \A p \in Orders : signAbortRef' = p <=> p \notin cancelled /\ phase'[p] \in {"account", "wallet"}
      BY <1>0, <1>1 DEF SignEnds, PanelInv, SigningInv
    <2>3. \A p \in cancelled : phase'[p] # "none"
      BY <1>1 DEF PanelInv, PanelTypeOK, SigningInv
    <2>4. /\ processingStep' = "signing" <=> signAbortRef' # NoCall
          /\ processingStep' = "submitting" <=> sub # "none"
      <3>1. CASE o \in cancelled
        <4>1. signAbortRef # o /\ processingStep' = processingStep /\ signAbortRef' = signAbortRef
          BY <3>1 DEF SignEnds, PanelInv, SigningInv
        <4> QED
          BY <4>1 DEF PanelInv, SigningInv
      <3>2. CASE o \notin cancelled
        <4>1. signAbortRef = o /\ processingStep' = "idle" /\ signAbortRef' = NoCall
          BY <3>2 DEF SignEnds, PanelInv, SigningInv
        <4> QED
          BY <4>1, <1>0 DEF PanelInv, SigningInv
      <3> QED
        BY <3>1, <3>2
    <2> QED
      BY <2>1, <2>2, <2>3, <2>4 DEF SigningInv, server
  <1>4. \A p \in Orders : Signed(p) => Signed(p)'
    BY <1>0, <1>1 DEF Signed
  <1>5. TicketInv'
    <2>1. CASE UNCHANGED ticket
      BY <2>1, <1>4 DEF PanelInv, PanelTypeOK, TicketInv, ticket, server
    <2>2. CASE /\ caller[o] = "resolved" /\ o \notin cancelled
               /\ pendingIntent' = o /\ signatureB64' = o /\ signedKeccakB64' = o
      <3>1. Signed(o)'
        BY <2>2, <1>0, <1>1 DEF Signed
      <3>2. signAbortRef = o /\ sub = "none"
        BY <2>2, <1>0 DEF PanelInv, SigningInv
      <3>3. \A p \in sent' : Signed(p)'
        BY <1>4 DEF PanelInv, PanelTypeOK, TicketInv, server
      <3> QED
        BY <2>2, <3>1, <3>2, <3>3 DEF TicketInv, server
    <2> QED
      BY <2>1, <2>2
  <1> QED
    BY <1>2, <1>3, <1>5 DEF PanelInv

LEMMA PanelLooksUp ==
  ASSUME LockInv, PanelInv, NEW o \in Orders, AccountLookup(o)
  PROVE  LockInv' /\ PanelInv'
  <1>1. CASE SignEnds(o) /\ UNCHANGED lockVars
    BY <1>1, LockIdle, PanelSigningEnds DEF AccountLookup
  <1>2. CASE /\ withWalletLock(o) /\ phase' = [phase EXCEPT ![o] = "wallet"]
             /\ UNCHANGED <<processingStep, signAbortRef>>
    <2>1. /\ phase[o] = "account" /\ UNCHANGED <<session, cancelled, ticket, server>>
      BY DEF AccountLookup
    <2>2. LockInv' /\ \A p \in Orders \ {o} : caller'[p] = caller[p]
      BY <1>2, Joining, OrderAssumption
    <2>3. /\ phase'[o] = "wallet" /\ \A p \in Orders \ {o} : phase'[p] = phase[p]
          /\ phase' \in [Orders -> {"none", "account", "wallet", "done"}]
      BY <1>2 DEF PanelInv, PanelTypeOK
    <2>4. PanelTypeOK'
      BY <1>2, <2>1, <2>3 DEF PanelInv, PanelTypeOK, session, ticket, server
    <2>5. SigningInv'
      BY <1>2, <2>1, <2>2, <2>3 DEF PanelInv, PanelTypeOK, SigningInv, server
    <2>6. \A p \in Orders : Signed(p) => Signed(p)'
      BY <2>1, <2>2, <2>3 DEF Signed
    <2>7. TicketInv'
      BY <2>1, <2>6 DEF PanelInv, PanelTypeOK, TicketInv, ticket, server
    <2> QED
      BY <2>2, <2>4, <2>5, <2>7 DEF PanelInv
  <1> QED
    BY <1>1, <1>2 DEF AccountLookup

LEMMA PanelSigned ==
  ASSUME LockInv, PanelInv, NEW o \in Orders, SignReturns(o)
  PROVE  LockInv' /\ PanelInv'
  BY LockIdle, PanelSigningEnds DEF SignReturns

LEMMA PanelCancels ==
  ASSUME LockInv, PanelInv, cancelSigning
  PROVE  LockInv' /\ PanelInv'
  <1>0. NoCall \notin Orders /\ Orders \subseteq Calls
    BY OrderAssumption, LockAssumption
  <1> DEFINE s == signAbortRef
  <1>1. /\ s \in Orders /\ s \notin cancelled /\ phase[s] \in {"account", "wallet"}
        /\ \A o \in Orders : o \notin cancelled /\ phase[o] \in {"account", "wallet"} => o = s
        /\ sub = "none"
    BY <1>0 DEF cancelSigning, CancelSigningButton, PanelInv, PanelTypeOK, SigningInv
  <1>2. /\ cancelled' = cancelled \cup {s} /\ signAbortRef' = NoCall /\ processingStep' = "idle"
        /\ UNCHANGED <<session, phase, ticket, server>>
    BY <1>0, <1>1 DEF cancelSigning
  <1>3. LockInv' /\ PromisesKept
    BY LockIdle, Aborting DEF cancelSigning
  <1>4. \A o \in Orders : caller[o] \in Settled \cup {"new"} => caller'[o] = caller[o]
    BY <1>0, <1>3 DEF PromisesKept
  <1> HIDE DEF s
  <1>5. PanelTypeOK'
    BY <1>1, <1>2 DEF PanelInv, PanelTypeOK, session, ticket, server
  <1>6. SigningInv'
    BY <1>0, <1>1, <1>2, <1>4 DEF PanelInv, PanelTypeOK, SigningInv, server
  <1>7. \A o \in Orders : Signed(o) => Signed(o)'
    BY <1>1, <1>2, <1>4 DEF Signed, Settled
  <1>8. TicketInv'
    BY <1>2, <1>7 DEF PanelInv, PanelTypeOK, TicketInv, ticket, server
  <1> QED
    BY <1>3, <1>5, <1>6, <1>8 DEF PanelInv

(* Steps of the panel alone that leave the wallet and the signings alone.   *)
LEMMA PanelWorks ==
  ASSUME LockInv, PanelInv,
         UNCHANGED <<lockVars, session, phase, cancelled, signAbortRef>>,
         cancelOrder \/ submitOrder \/ AllowanceLookup \/ DeadlineNears
           \/ \E r \in {"placed", "lost", "badSignature", "refused"} : createPredictionIntent(r)
  PROVE  LockInv' /\ PanelInv'
  <1>0. NoCall \notin Orders /\ caller' = caller /\ LockInv'
    BY OrderAssumption, LockAssumption, LockIdle DEF lockVars
  <1>1. \A o \in Orders : Signed(o) => Signed(o)'
    BY <1>0 DEF Signed
  <1>2. CASE cancelOrder
    <2>1. PanelTypeOK' /\ SigningInv'
      BY <1>0, <1>2 DEF cancelOrder, PanelInv, PanelTypeOK, SigningInv, session, server
    <2>2. TicketInv'
      BY <1>1, <1>2 DEF cancelOrder, SignedButtons, PanelInv, PanelTypeOK, SigningInv, TicketInv, server
    <2> QED
      BY <1>0, <2>1, <2>2 DEF PanelInv
  <1>3. CASE submitOrder
    <2>1. /\ processingStep = "idle" /\ sub = "none" /\ signAbortRef = NoCall
          /\ pendingIntent \in Orders /\ Signed(pendingIntent)
      BY <1>0, <1>3 DEF submitOrder, SignedButtons, isSigned, PanelInv, PanelTypeOK, SigningInv, TicketInv
    <2>2. CASE /\ late
               /\ pendingIntent' = NoCall /\ signatureB64' = NoCall /\ late' = FALSE
               /\ UNCHANGED <<signedKeccakB64, processingStep, server>>
      BY <1>0, <1>1, <2>1, <2>2 DEF PanelInv, PanelTypeOK, SigningInv, TicketInv, session, server
    <2>3. CASE /\ ~late /\ processingStep' = "submitting" /\ sub' = "creating"
               /\ sent' = sent \cup {pendingIntent} /\ UNCHANGED <<ticket, accepted>>
      <3>1. PanelTypeOK'
        BY <2>1, <2>3 DEF PanelInv, PanelTypeOK, session, ticket
      <3>2. SigningInv'
        BY <1>0, <2>1, <2>3 DEF PanelInv, SigningInv
      <3>3. TicketInv'
        BY <1>1, <2>1, <2>3 DEF PanelInv, PanelTypeOK, TicketInv, ticket
      <3> QED
        BY <1>0, <3>1, <3>2, <3>3 DEF PanelInv
    <2> QED
      BY <1>3, <2>2, <2>3 DEF submitOrder
  <1>4. CASE AllowanceLookup
    BY <1>0, <1>1, <1>4 DEF AllowanceLookup, PanelInv, PanelTypeOK, SigningInv, TicketInv, session, ticket
  <1>5. CASE DeadlineNears
    BY <1>0, <1>1, <1>5 DEF DeadlineNears, PanelInv, PanelTypeOK, SigningInv, TicketInv, session, server
  <1>6. ASSUME NEW r \in {"placed", "lost", "badSignature", "refused"}, createPredictionIntent(r)
        PROVE  PanelInv'
    <2>1. /\ sub = "creating" /\ processingStep = "submitting" /\ pendingIntent \in sent
          /\ accepted' \subseteq sent /\ sent' = sent /\ signAbortRef = NoCall
          /\ sub' \in {"none", "allowance"}
          /\ processingStep' = IF sub' = "none" THEN "idle" ELSE "submitting"
      BY <1>0, <1>6 DEF createPredictionIntent, PanelInv, PanelTypeOK, SigningInv, TicketInv
    <2>2. \/ UNCHANGED ticket
          \/ /\ pendingIntent' = NoCall /\ signatureB64' = NoCall /\ late' = FALSE
             /\ signedKeccakB64' \in {signedKeccakB64, NoCall}
      BY <1>6 DEF createPredictionIntent
    <2>3. PanelTypeOK'
      BY <2>1, <2>2 DEF PanelInv, PanelTypeOK, session, ticket
    <2>4. SigningInv'
      BY <1>0, <2>1 DEF PanelInv, SigningInv
    <2>5. TicketInv'
      BY <1>1, <2>1, <2>2 DEF PanelInv, PanelTypeOK, TicketInv, ticket
    <2> QED
      BY <2>3, <2>4, <2>5 DEF PanelInv
  <1> QED
    BY <1>0, <1>2, <1>3, <1>4, <1>5, <1>6

LEMMA WalletWorks ==
  ASSUME LockInv, PanelInv,
         (\E c \in Calls : OtherCall(c)) \/ WalletStep \/ TimerStep \/ UNCHANGED vars
  PROVE  LockInv' /\ PanelInv'
  <1>1. /\ LockInv' /\ UNCHANGED panelVars
        /\ \A o \in Orders : caller[o] \in Settled \cup {"new"} => caller'[o] = caller[o]
    <2>1. ASSUME NEW c \in Calls, OtherCall(c)
          PROVE  LockInv' /\ UNCHANGED panelVars /\ \A o \in Orders : caller'[o] = caller[o]
      BY <2>1, Joining, OrderAssumption DEF OtherCall
    <2>2. ASSUME WalletStep \/ TimerStep \/ UNCHANGED vars
          PROVE  LockInv' /\ UNCHANGED panelVars /\ PromisesKept
      BY <2>2, Starting, Answering, Timing, LockIdle DEF WalletStep, TimerStep, vars
    <2> QED
      BY <2>1, <2>2, OrderAssumption DEF PromisesKept
  <1> QED
    BY <1>1, PanelWaits

LEMMA SigningSteps == LockInv /\ PanelInv /\ [Next]_vars => LockInv' /\ PanelInv'
  <1> SUFFICES ASSUME LockInv, PanelInv, [Next]_vars PROVE LockInv' /\ PanelInv'
    OBVIOUS
  <1>1. ASSUME NEW o \in Orders, SignReturns(o) PROVE LockInv' /\ PanelInv'
    BY <1>1, PanelSigned
  <1>2. CASE UserStep
    BY <1>2, PanelTurns, PanelSigns, PanelCancels, PanelWorks, WalletWorks
       DEF UserStep, cancelOrder, submitOrder
  <1>3. CASE WalletStep \/ TimerStep \/ UNCHANGED vars
    BY <1>3, WalletWorks
  <1>4. CASE DeadlineNears
    BY <1>4, PanelWorks DEF DeadlineNears
  <1>5. CASE Reply
    <2>1. ASSUME NEW o \in Orders, AccountLookup(o) PROVE LockInv' /\ PanelInv'
      BY <2>1, PanelLooksUp
    <2>2. ASSUME NEW r \in {"placed", "lost", "badSignature", "refused"}, createPredictionIntent(r)
          PROVE  LockInv' /\ PanelInv'
      <3>1. UNCHANGED <<lockVars, session, phase, cancelled, signAbortRef>>
        BY <2>2 DEF createPredictionIntent
      <3> QED
        BY <2>2, <3>1, PanelWorks
    <2>3. CASE AllowanceLookup
      BY <2>3, PanelWorks DEF AllowanceLookup
    <2> QED
      BY <1>5, <2>1, <2>2, <2>3 DEF Reply
  <1> QED
    BY <1>1, <1>2, <1>3, <1>4, <1>5 DEF Next

(* The wallet lock and the ticket keep their types (walletMutex.ts,         *)
(* useOrderLifecycle.ts): no lock is held longer than the ceiling, and the  *)
(* server takes no order that was not sent.                                 *)
THEOREM SigningTypeOK == Spec => [](TypeOK /\ PanelTypeOK)
  <1>1. LockInv /\ PanelInv => TypeOK /\ PanelTypeOK
    BY DEF LockInv, PanelInv
  <1> QED
    BY <1>1, PanelStarts, SigningSteps, PTL DEF Spec

(* The order ticket over the wallet lock (useOrderLifecycle.ts,             *)
(* walletMutex.ts): however signings are cancelled and repeated, prompts    *)
(* answered late, timed out or reset, a cancelled order is never sent, the  *)
(* panel's step is true, the ticket is all of one order, no call is         *)
(* forgotten and one prompt per lock counts.                                *)
THEOREM SigningSafe == Spec => []SigningIsSafe
  BY PanelStarts, SigningSteps, PanelIsSafe, PTL DEF Spec

(* What reaches the server was signed: every order that was ever sent is    *)
(* one whose signing ended, not cancelled, with the wallet's approval.      *)
THEOREM SentWasSigned ==
  Spec => [](\A o \in sent : phase[o] = "done" /\ caller[o] = "resolved" /\ o \notin cancelled)
  <1>1. PanelInv => \A o \in sent : phase[o] = "done" /\ caller[o] = "resolved" /\ o \notin cancelled
    BY DEF PanelInv, TicketInv, Signed
  <1> QED
    BY <1>1, PanelStarts, SigningSteps, PTL DEF Spec

-----------------------------------------------------------------------------
(* The life of a market.  The mirror node shows what the contract said      *)
(* once; a job that is past its submission or its record has left it where  *)
(* the later steps rely on it; a rebuild works on markets the database has. *)

Decisions == Outcomes \cup {"uninitialized", "open"}

PlacesTypeOK ==
  /\ chain \in [Markets -> Decisions] /\ mirror \in [Markets -> Decisions]
  /\ row \in [Markets -> [st : {Unset, "live", "deleted"}, outcome : Outcomes \cup {Unset},
                         paused : BOOLEAN]]
  /\ book \subseteq Markets /\ logged \subseteq Markets
  /\ rebuild \in [step : {"idle", "read", "create"}, todo : SUBSET Markets]
  /\ rebuild.todo # {} => rebuild.step = "create"

AllSteps == {"idle", "failed", "done", "lookup", "submit", "clob", "row", "categories", "hcs"}

StepsOf(c) ==
  {"idle", "failed", "done"} \cup
    (IF c.op = "create" THEN {"lookup", "submit", "clob", "row", "categories"}
     ELSE IF c.op = "resolve" THEN {"lookup", "submit", "row", "clob", "hcs"}
     ELSE {"row", "clob"})

MirrorInv ==
  \A m \in Markets : /\ mirror[m] # "uninitialized" => chain[m] # "uninitialized"
                     /\ mirror[m] \in Outcomes => chain[m] = mirror[m]

JobInv(c) ==
  /\ step[c] \in StepsOf(c)
  /\ c.op = "create" /\ step[c] \in {"clob", "row"} => chain[c.market] # "uninitialized"
  /\ c.op = "resolve" /\ step[c] = "row" => chain[c.market] = c.outcome
  /\ step[c] = "hcs" => row[c.market].outcome # Unset
  /\ c.op = "resolve" /\ step[c] = "clob" => row[c.market].outcome # Unset

PlacesInv ==
  /\ PlacesTypeOK /\ MirrorInv
  /\ step \in [Jobs -> AllSteps] /\ \A c \in Jobs : JobInv(c)
  /\ RecordedIsDecided /\ ContractFirst
  /\ \A m \in rebuild.todo : row[m].st # Unset

LEMMA UnsetIsNoOutcome == Unset \notin Outcomes /\ "open" \notin Outcomes /\ "uninitialized" \notin Outcomes
  BY DEF Unset, Outcomes

LEMMA PlacesStart == AdminInit => PlacesInv
  <1> SUFFICES ASSUME AdminInit PROVE PlacesInv
    OBVIOUS
  <1>1. PlacesTypeOK
    BY DEF AdminInit, PlacesTypeOK, Decisions
  <1>2. /\ rebuild.todo = {} /\ book = {} /\ logged = {}
        /\ \A m \in Markets : row[m].st = Unset /\ row[m].outcome = Unset
    BY DEF AdminInit
  <1>5. MirrorInv
    BY UnsetIsNoOutcome DEF AdminInit, MirrorInv
  <1>3. step \in [Jobs -> AllSteps] /\ \A c \in Jobs : step[c] = "idle"
    BY DEF AdminInit, AllSteps
  <1>4. \A c \in Jobs : JobInv(c)
    BY <1>3 DEF JobInv, StepsOf
  <1> QED
    BY <1>1, <1>2, <1>3, <1>4, <1>5 DEF PlacesInv, RecordedIsDecided, ContractFirst

(* What the contract has decided and the database has recorded stays, so    *)
(* the jobs that rely on it may: a job moves on, the others are where they  *)
(* were.                                                                    *)
LEMMA JobsKeep ==
  ASSUME PlacesInv, NEW c \in Jobs, NEW s \in StepsOf(c), step' = [step EXCEPT ![c] = s],
         \A m \in Markets : /\ chain[m] # "uninitialized" => chain'[m] # "uninitialized"
                            /\ chain[m] \in Outcomes => chain'[m] = chain[m]
                            /\ row[m].outcome # Unset => row'[m].outcome # Unset,
         c.op = "create" /\ s \in {"clob", "row"} => chain'[c.market] # "uninitialized",
         c.op = "resolve" /\ s = "row" => chain'[c.market] = c.outcome,
         s = "hcs" \/ (c.op = "resolve" /\ s = "clob") => row'[c.market].outcome # Unset
  PROVE  step' \in [Jobs -> AllSteps] /\ \A d \in Jobs : JobInv(d)'
  <1>1. s \in AllSteps
    BY DEF StepsOf, AllSteps
  <1>2. step' \in [Jobs -> AllSteps] /\ step'[c] = s /\ \A d \in Jobs \ {c} : step'[d] = step[d]
    BY <1>1 DEF PlacesInv
  <1>3. JobInv(c)'
    BY <1>2 DEF JobInv, StepsOf
  <1>4. ASSUME NEW d \in Jobs \ {c} PROVE JobInv(d)'
    <2>1. d.market \in Markets /\ d.outcome \in Outcomes
      BY AdminAssumption
    <2> QED
      BY <2>1, <1>2 DEF PlacesInv, JobInv, StepsOf
  <1> QED
    BY <1>2, <1>3, <1>4

(* A step of one job that leaves the places alone.                          *)
LEMMA JobMoves ==
  ASSUME PlacesInv, NEW c \in Jobs, UNCHANGED <<places, around>>,
         NEW s \in StepsOf(c), step' = [step EXCEPT ![c] = s],
         c.op = "create" /\ s \in {"clob", "row"} => chain[c.market] # "uninitialized",
         c.op = "resolve" /\ s = "row" => chain[c.market] = c.outcome,
         s # "hcs" /\ (c.op = "resolve" => s # "clob")
  PROVE  PlacesInv'
  <1>1. step' \in [Jobs -> AllSteps] /\ \A d \in Jobs : JobInv(d)'
    BY JobsKeep DEF places
  <1> QED
    BY <1>1
       DEF PlacesInv, PlacesTypeOK, MirrorInv, RecordedIsDecided, ContractFirst, places, around

LEMMA JobBegins ==
  ASSUME PlacesInv, NEW c \in Jobs, Begin(c) \/ Abort(c)
  PROVE  PlacesInv'
  <1>0. c.op \in {"create", "resolve", "delete"}
    BY AdminAssumption
  <1>1. UNCHANGED <<places, around>>
    BY DEF Begin, Abort
  <1>2. \/ step' = [step EXCEPT ![c] = "failed"]
        \/ c.op \in {"create", "resolve"} /\ step' = [step EXCEPT ![c] = "lookup"]
        \/ c.op = "delete" /\ step' = [step EXCEPT ![c] = "row"]
    BY <1>0 DEF Begin, Abort, StepTo
  <1>3. CASE step' = [step EXCEPT ![c] = "failed"]
    BY <1>1, <1>3, JobMoves DEF StepsOf
  <1>4. CASE c.op \in {"create", "resolve"} /\ step' = [step EXCEPT ![c] = "lookup"]
    BY <1>1, <1>4, JobMoves DEF StepsOf
  <1>5. CASE c.op = "delete" /\ step' = [step EXCEPT ![c] = "row"]
    BY <1>1, <1>5, JobMoves DEF StepsOf
  <1> QED
    BY <1>2, <1>3, <1>4, <1>5

LEMMA JobLooksUp ==
  ASSUME PlacesInv, NEW c \in Jobs, Lookup(c)
  PROVE  PlacesInv'
  <1>0. c.op \in {"create", "resolve"} /\ c.market \in Markets /\ c.outcome \in Outcomes
    BY AdminAssumption DEF Lookup, PlacesInv, JobInv, StepsOf
  <1>1. UNCHANGED <<places, around>>
    BY DEF Lookup
  <1>2. \/ step' = [step EXCEPT ![c] = "submit"] \/ step' = [step EXCEPT ![c] = "failed"]
        \/ /\ mirror[c.market] = Target(c)
           /\ step' = [step EXCEPT ![c] = IF c.op = "create" THEN "clob" ELSE "row"]
    BY DEF Lookup, StepTo
  <1>3. CASE step' = [step EXCEPT ![c] = "submit"]
    BY <1>0, <1>1, <1>3, JobMoves DEF StepsOf
  <1>4. CASE step' = [step EXCEPT ![c] = "failed"]
    BY <1>1, <1>4, JobMoves DEF StepsOf
  <1>5. CASE c.op = "create" /\ mirror[c.market] = Target(c) /\ step' = [step EXCEPT ![c] = "clob"]
    <2>1. chain[c.market] # "uninitialized"
      BY <1>0, <1>5 DEF Target, PlacesInv, MirrorInv
    <2> QED
      BY <2>1, <1>1, <1>5, JobMoves DEF StepsOf
  <1>6. CASE c.op = "resolve" /\ mirror[c.market] = Target(c) /\ step' = [step EXCEPT ![c] = "row"]
    <2>1. chain[c.market] = c.outcome
      BY <1>0, <1>6 DEF Target, PlacesInv, MirrorInv
    <2> QED
      BY <2>1, <1>1, <1>6, JobMoves DEF StepsOf
  <1> QED
    BY <1>0, <1>2, <1>3, <1>4, <1>5, <1>6

LEMMA JobSubmits ==
  ASSUME PlacesInv, NEW c \in Jobs, executeAdminCall(c)
  PROVE  PlacesInv'
  <1>0. c.op \in {"create", "resolve"} /\ c.market \in Markets /\ c.outcome \in Outcomes
    BY AdminAssumption DEF executeAdminCall, PlacesInv, JobInv, StepsOf
  <1>1. CASE ~Accepted(c)
    <2>1. UNCHANGED <<places, around>> /\ step' = [step EXCEPT ![c] = "failed"]
      BY <1>1 DEF executeAdminCall, StepTo, places
    <2> QED
      BY <2>1, JobMoves DEF StepsOf
  <1>2. CASE Accepted(c)
    <2> DEFINE m == c.market
               s == IF c.op = "create" THEN "clob" ELSE "row"
    <2>1. /\ chain' = [chain EXCEPT ![m] = Target(c)]
          /\ \/ step' = [step EXCEPT ![c] = s] \/ step' = [step EXCEPT ![c] = "failed"]
          /\ UNCHANGED <<row, book, logged, around>>
      BY <1>2 DEF executeAdminCall, Answered, StepTo
    <2>2. /\ chain[m] = IF c.op = "create" THEN "uninitialized" ELSE "open"
          /\ Target(c) = IF c.op = "create" THEN "open" ELSE c.outcome
      BY <1>0, <1>2 DEF Accepted, Target
    <2>3. /\ chain' \in [Markets -> Decisions] /\ chain'[m] = Target(c)
          /\ \A k \in Markets \ {m} : chain'[k] = chain[k]
          /\ chain[m] \notin Outcomes /\ chain'[m] # "uninitialized"
      BY <1>0, <2>1, <2>2, UnsetIsNoOutcome DEF PlacesInv, PlacesTypeOK, Decisions
    <2>4. step' \in [Jobs -> AllSteps] /\ \A d \in Jobs : JobInv(d)'
      <3>1. \A k \in Markets : /\ chain[k] # "uninitialized" => chain'[k] # "uninitialized"
                               /\ chain[k] \in Outcomes => chain'[k] = chain[k]
                               /\ row[k].outcome # Unset => row'[k].outcome # Unset
        BY <2>1, <2>3
      <3>2. CASE step' = [step EXCEPT ![c] = "failed"]
        BY <3>1, <3>2, JobsKeep DEF StepsOf
      <3>3. CASE c.op = "create" /\ step' = [step EXCEPT ![c] = "clob"]
        BY <3>1, <3>3, <2>3, JobsKeep DEF StepsOf
      <3>4. CASE c.op = "resolve" /\ step' = [step EXCEPT ![c] = "row"]
        BY <3>1, <3>4, <2>2, <2>3, JobsKeep DEF StepsOf
      <3> QED
        BY <1>0, <2>1, <3>2, <3>3, <3>4
    <2>5. PlacesTypeOK' /\ \A k \in rebuild'.todo : row'[k].st # Unset
      BY <2>1, <2>3 DEF PlacesInv, PlacesTypeOK, around
    <2>6. MirrorInv'
      BY <2>1, <2>3 DEF PlacesInv, MirrorInv, around
    <2>7. RecordedIsDecided'
      <3>1. row[m].outcome = Unset
        BY <1>0, <2>3 DEF PlacesInv, PlacesTypeOK, RecordedIsDecided
      <3> QED
        BY <3>1, <2>1, <2>3 DEF PlacesInv, RecordedIsDecided
    <2>8. ContractFirst'
      BY <2>1, <2>3 DEF PlacesInv, ContractFirst
    <2> QED
      BY <2>4, <2>5, <2>6, <2>7, <2>8 DEF PlacesInv
  <1> QED
    BY <1>1, <1>2

LEMMA JobOnClob ==
  ASSUME PlacesInv, NEW c \in Jobs, CreateMarketOnClob(c) \/ CloseMarketOnClob(c)
  PROVE  PlacesInv'
  <1>0. c.op \in {"create", "resolve", "delete"} /\ c.market \in Markets
    BY AdminAssumption
  <1>1. UNCHANGED <<chain, row, logged, around>>
    BY DEF CreateMarketOnClob, CloseMarketOnClob
  <1>2. \A m \in Markets : /\ chain[m] # "uninitialized" => chain'[m] # "uninitialized"
                           /\ chain[m] \in Outcomes => chain'[m] = chain[m]
                           /\ row[m].outcome # Unset => row'[m].outcome # Unset
    BY <1>1
  <1>3. /\ book' \subseteq Markets /\ \A m \in book' : chain[m] # "uninitialized"
        /\ step' \in [Jobs -> AllSteps] /\ \A d \in Jobs : JobInv(d)'
    <2>1. CASE UNCHANGED book /\ step' = [step EXCEPT ![c] = "failed"]
      BY <1>2, <2>1, JobsKeep DEF StepsOf, PlacesInv, PlacesTypeOK, ContractFirst
    <2>2. CASE /\ CreateMarketOnClob(c) /\ book' = book \cup {c.market}
               /\ \/ step' = [step EXCEPT ![c] = "row"] \/ step' = [step EXCEPT ![c] = "failed"]
      <3>1. c.op = "create" /\ chain[c.market] # "uninitialized"
        BY <2>2 DEF CreateMarketOnClob, PlacesInv, JobInv
      <3>2. step' \in [Jobs -> AllSteps] /\ \A d \in Jobs : JobInv(d)'
        BY <1>1, <1>2, <2>2, <3>1, JobsKeep DEF StepsOf
      <3> QED
        BY <1>0, <2>2, <3>1, <3>2 DEF PlacesInv, PlacesTypeOK, ContractFirst
    <2>3. CASE /\ CloseMarketOnClob(c) /\ book' = book \ {c.market}
               /\ \/ c.op = "resolve" /\ step' = [step EXCEPT ![c] = "hcs"]
                  \/ c.op = "delete" /\ step' = [step EXCEPT ![c] = "done"]
                  \/ step' = [step EXCEPT ![c] = "failed"]
      <3>1. c.op = "resolve" => row[c.market].outcome # Unset
        BY <2>3 DEF CloseMarketOnClob, PlacesInv, JobInv
      <3>2. step' \in [Jobs -> AllSteps] /\ \A d \in Jobs : JobInv(d)'
        BY <1>1, <1>2, <2>3, <3>1, JobsKeep DEF StepsOf
      <3> QED
        BY <2>3, <3>2 DEF PlacesInv, PlacesTypeOK, ContractFirst
    <2> QED
      BY <1>0, <2>1, <2>2, <2>3 DEF CreateMarketOnClob, CloseMarketOnClob, Answered, StepTo
  <1> QED
    BY <1>1, <1>3
       DEF PlacesInv, PlacesTypeOK, MirrorInv, RecordedIsDecided, ContractFirst, around

(* A row after one of its fields was written.                               *)
Rows == [st : {Unset, "live", "deleted"}, outcome : Outcomes \cup {Unset}, paused : BOOLEAN]

LEMMA RowWrites ==
  ASSUME NEW r \in Rows
  PROVE  /\ \A x \in {Unset, "live", "deleted"} :
              LET q == [r EXCEPT !.st = x] IN q \in Rows /\ q.st = x /\ q.outcome = r.outcome
         /\ LET q == [r EXCEPT !.paused = ~r.paused]
            IN q \in Rows /\ q.st = r.st /\ q.outcome = r.outcome
  BY DEF Rows

(* What the writers of a row have in common: it stays, keeps what it has    *)
(* recorded, and records only what the contract has decided.                *)
RowWritten(m, o) ==
  \E q \in Rows : /\ row' = [row EXCEPT ![m] = q]
                  /\ q.st # Unset => row[m].st # Unset \/ chain[m] # "uninitialized"
                  /\ row[m].st # Unset => q.st # Unset
                  /\ q.outcome = row[m].outcome \/ (q.outcome = o /\ chain[m] = o)

LEMMA RowsKeep ==
  ASSUME PlacesInv, NEW m \in Markets, NEW o \in Outcomes, RowWritten(m, o)
  PROVE  /\ row' \in [Markets -> Rows]
         /\ \A k \in Markets : /\ row[k].outcome # Unset => row'[k].outcome # Unset
                               /\ row[k].st # Unset => row'[k].st # Unset
                               /\ row'[k].st # Unset => chain[k] # "uninitialized"
                               /\ row'[k].outcome # Unset => chain[k] = row'[k].outcome
  <1>1. PICK q \in Rows : /\ row' = [row EXCEPT ![m] = q]
                          /\ q.st # Unset => row[m].st # Unset \/ chain[m] # "uninitialized"
                          /\ row[m].st # Unset => q.st # Unset
                          /\ q.outcome = row[m].outcome \/ (q.outcome = o /\ chain[m] = o)
    BY DEF RowWritten
  <1>2. row \in [Markets -> Rows]
    BY DEF PlacesInv, PlacesTypeOK, Rows
  <1>3. row' \in [Markets -> Rows] /\ row'[m] = q /\ \A k \in Markets \ {m} : row'[k] = row[k]
    BY <1>1, <1>2
  <1>4. \A k \in Markets : /\ row[k].st # Unset => chain[k] # "uninitialized"
                           /\ row[k].outcome # Unset => chain[k] = row[k].outcome
    BY DEF PlacesInv, RecordedIsDecided, ContractFirst
  <1>5. q.outcome # Unset => chain[m] = q.outcome
    BY <1>1, <1>4
  <1>6. row[m].outcome # Unset => q.outcome # Unset
    BY <1>1, UnsetIsNoOutcome
  <1>7. q.st # Unset => chain[m] # "uninitialized"
    BY <1>1, <1>4
  <1> QED
    BY <1>1, <1>3, <1>4, <1>5, <1>6, <1>7

LEMMA RowWriters ==
  ASSUME PlacesInv, NEW c \in Jobs, CreateMarket(c) \/ ResolveMarket(c) \/ SoftDeleteMarket(c)
  PROVE  \/ UNCHANGED row /\ step' = [step EXCEPT ![c] = "failed"]
         \/ /\ RowWritten(c.market, c.outcome)
            /\ \/ step' = [step EXCEPT ![c] = "failed"]
               \/ c.op = "create" /\ step' = [step EXCEPT ![c] = "categories"]
               \/ /\ c.op = "resolve" /\ row'[c.market].outcome # Unset
                  /\ step' = [step EXCEPT ![c] = "clob"]
               \/ c.op = "delete" /\ step' = [step EXCEPT ![c] = "clob"]
  <1> DEFINE m == c.market
  <1>0. c.op \in {"create", "resolve", "delete"} /\ m \in Markets /\ c.outcome \in Outcomes
        /\ row[m] \in Rows
    BY AdminAssumption DEF PlacesInv, PlacesTypeOK, Rows
  <1>1. CASE CreateMarket(c) /\ row[m].st = Unset
    <2> DEFINE q == [row[m] EXCEPT !.st = "live"]
    <2>1. /\ c.op = "create" /\ chain[m] # "uninitialized" /\ row' = [row EXCEPT ![m] = q]
          /\ \/ step' = [step EXCEPT ![c] = "categories"] \/ step' = [step EXCEPT ![c] = "failed"]
      BY <1>1 DEF CreateMarket, Answered, StepTo, PlacesInv, JobInv
    <2>2. q \in Rows /\ q.outcome = row[m].outcome
      BY <1>0, RowWrites
    <2> HIDE DEF q
    <2>3. RowWritten(m, c.outcome)
      BY <1>1, <2>1, <2>2 DEF RowWritten
    <2> QED
      BY <2>1, <2>3
  <1>2. CASE ResolveMarket(c)
    <2> DEFINE q == [row[m] EXCEPT !.outcome = c.outcome]
    <2>1. /\ c.op = "resolve" /\ chain[m] = c.outcome /\ row' = [row EXCEPT ![m] = q]
          /\ \/ step' = [step EXCEPT ![c] = "clob"] \/ step' = [step EXCEPT ![c] = "failed"]
      BY <1>2 DEF ResolveMarket, Answered, StepTo, PlacesInv, JobInv
    <2>2. q \in Rows /\ q.st = row[m].st /\ q.outcome = c.outcome
      <3> DEFINE r == row[m]
                 o == c.outcome
      <3>1. r \in Rows /\ o \in Outcomes
        BY <1>0
      <3> HIDE DEF r, o
      <3>2. LET w == [r EXCEPT !.outcome = o] IN w \in Rows /\ w.st = r.st /\ w.outcome = o
        BY <3>1 DEF Rows
      <3> QED
        BY <3>2 DEF r, o
    <2> HIDE DEF q
    <2>3. RowWritten(m, c.outcome)
      <3>1. row' = [row EXCEPT ![m] = q] /\ chain[m] = c.outcome
        BY <2>1
      <3> QED
        BY <2>2, <3>1, ZenonT(60) DEF RowWritten
    <2>4. row'[m].outcome # Unset
      <3>1. row'[m] = q
        BY <1>0, <2>1 DEF PlacesInv, PlacesTypeOK
      <3> QED
        BY <1>0, <2>2, <3>1, UnsetIsNoOutcome
    <2> QED
      BY <2>1, <2>3, <2>4
  <1>3. CASE SoftDeleteMarket(c)
    <2> DEFINE x == IF row[m].st = Unset THEN Unset ELSE "deleted"
               q == [row[m] EXCEPT !.st = x]
    <2>1. /\ c.op = "delete" /\ row' = [row EXCEPT ![m] = q]
          /\ \/ step' = [step EXCEPT ![c] = "clob"] \/ step' = [step EXCEPT ![c] = "failed"]
      BY <1>3 DEF SoftDeleteMarket, Answered, StepTo
    <2>2. x \in {Unset, "live", "deleted"} /\ (x # Unset <=> row[m].st # Unset)
      BY DEF Unset
    <2> HIDE DEF x
    <2>3. q \in Rows /\ q.st = x /\ q.outcome = row[m].outcome
      BY <1>0, <2>2, RowWrites
    <2> HIDE DEF q
    <2>4. RowWritten(m, c.outcome)
      BY <2>1, <2>2, <2>3 DEF RowWritten
    <2> QED
      BY <2>1, <2>4
  <1> QED
    BY <1>1, <1>2, <1>3 DEF CreateMarket, StepTo

LEMMA JobOnRow ==
  ASSUME PlacesInv, NEW c \in Jobs, CreateMarket(c) \/ ResolveMarket(c) \/ SoftDeleteMarket(c)
  PROVE  PlacesInv'
  <1> DEFINE m == c.market
  <1>0. c.op \in {"create", "resolve", "delete"} /\ m \in Markets /\ c.outcome \in Outcomes
        /\ row[m] \in Rows
    BY AdminAssumption DEF PlacesInv, PlacesTypeOK, Rows
  <1>1. UNCHANGED <<chain, book, logged, around>>
    BY DEF CreateMarket, ResolveMarket, SoftDeleteMarket
  <1>2. CASE UNCHANGED row /\ step' = [step EXCEPT ![c] = "failed"]
    <2>1. UNCHANGED <<places, around>>
      BY <1>1, <1>2 DEF places
    <2> QED
      BY <2>1, <1>2, JobMoves DEF StepsOf
  <1>3. CASE /\ RowWritten(m, c.outcome)
             /\ \/ step' = [step EXCEPT ![c] = "failed"]
                \/ c.op = "create" /\ step' = [step EXCEPT ![c] = "categories"]
                \/ c.op = "resolve" /\ row'[m].outcome # Unset /\ step' = [step EXCEPT ![c] = "clob"]
                \/ c.op = "delete" /\ step' = [step EXCEPT ![c] = "clob"]
    <2>1. /\ row' \in [Markets -> Rows]
          /\ \A k \in Markets : /\ row[k].outcome # Unset => row'[k].outcome # Unset
                                /\ row[k].st # Unset => row'[k].st # Unset
                                /\ row'[k].st # Unset => chain[k] # "uninitialized"
                                /\ row'[k].outcome # Unset => chain[k] = row'[k].outcome
      BY <1>0, <1>3, RowsKeep
    <2>2. step' \in [Jobs -> AllSteps] /\ \A d \in Jobs : JobInv(d)'
      <3>1. CASE step' = [step EXCEPT ![c] = "failed"]
        BY <1>1, <2>1, <3>1, JobsKeep DEF StepsOf
      <3>2. CASE c.op = "create" /\ step' = [step EXCEPT ![c] = "categories"]
        BY <1>1, <2>1, <3>2, JobsKeep DEF StepsOf
      <3>3. CASE c.op = "resolve" /\ row'[m].outcome # Unset /\ step' = [step EXCEPT ![c] = "clob"]
        BY <1>1, <2>1, <3>3, JobsKeep DEF StepsOf
      <3>4. CASE c.op = "delete" /\ step' = [step EXCEPT ![c] = "clob"]
        BY <1>1, <2>1, <3>4, JobsKeep DEF StepsOf
      <3> QED
        BY <1>3, <3>1, <3>2, <3>3, <3>4
    <2>3. RecordedIsDecided' /\ ContractFirst' /\ \A k \in rebuild'.todo : row'[k].st # Unset
      BY <1>1, <2>1 DEF PlacesInv, PlacesTypeOK, RecordedIsDecided, ContractFirst, around
    <2> QED
      BY <1>1, <2>1, <2>2, <2>3 DEF PlacesInv, PlacesTypeOK, MirrorInv, around, Rows
  <1> QED
    BY <1>2, <1>3, RowWriters

LEMMA JobEnds ==
  ASSUME PlacesInv, NEW c \in Jobs, SetCategoriesForMarket(c) \/ LogMarketResolvedEvent(c)
  PROVE  PlacesInv'
  <1>0. c.op \in {"create", "resolve", "delete"} /\ c.market \in Markets
    BY AdminAssumption
  <1>1. \/ step' = [step EXCEPT ![c] = "done"] \/ step' = [step EXCEPT ![c] = "failed"]
    BY DEF SetCategoriesForMarket, LogMarketResolvedEvent, Answered, StepTo
  <1>2. UNCHANGED <<chain, row, book, around>>
    BY DEF SetCategoriesForMarket, LogMarketResolvedEvent, places
  <1>3. \/ UNCHANGED logged
        \/ logged' = logged \cup {c.market} /\ row[c.market].outcome # Unset
    BY <1>0 DEF SetCategoriesForMarket, LogMarketResolvedEvent, places, PlacesInv, JobInv
  <1>4. step' \in [Jobs -> AllSteps] /\ \A d \in Jobs : JobInv(d)'
    <2>1. CASE step' = [step EXCEPT ![c] = "done"]
      BY <1>2, <2>1, JobsKeep DEF StepsOf
    <2>2. CASE step' = [step EXCEPT ![c] = "failed"]
      BY <1>2, <2>2, JobsKeep DEF StepsOf
    <2> QED
      BY <1>1, <2>1, <2>2
  <1>5. RecordedIsDecided' /\ logged' \subseteq Markets
    BY <1>0, <1>2, <1>3 DEF PlacesInv, PlacesTypeOK, RecordedIsDecided
  <1> QED
    BY <1>2, <1>4, <1>5 DEF PlacesInv, PlacesTypeOK, MirrorInv, ContractFirst, around

(* The mirror node catches up, a market closes, and the CLOB crashes and is *)
(* rebuilt: contract, rows and topic are only read.                         *)
LEMMA AroundWorks ==
  ASSUME PlacesInv,
         \/ MirrorCatchesUp \/ (\E m \in Markets : Close(m))
         \/ ClobRestarts \/ ReadMarkets \/ RecreateMarket
  PROVE  PlacesInv'
  <1>1. UNCHANGED <<chain, row, logged, step>>
    BY DEF MirrorCatchesUp, Close, ClobRestarts, ReadMarkets, RecreateMarket, places
  <1>2. \A c \in Jobs : JobInv(c)'
    BY <1>1 DEF PlacesInv, JobInv, StepsOf
  <1>3. MirrorInv' /\ mirror' \in [Markets -> Decisions]
    BY <1>1 DEF PlacesInv, PlacesTypeOK, MirrorInv, MirrorCatchesUp, Close, ClobRestarts, ReadMarkets,
                RecreateMarket
  <1> DEFINE Rebuilt == /\ book' \subseteq Markets /\ \A m \in book' : chain[m] # "uninitialized"
                        /\ rebuild' \in [step : {"idle", "read", "create"}, todo : SUBSET Markets]
                        /\ rebuild'.todo # {} => rebuild'.step = "create"
                        /\ \A m \in rebuild'.todo : row[m].st # Unset
  <1>4. Rebuilt
    <2>1. CASE UNCHANGED <<book, rebuild>>
      BY <2>1 DEF PlacesInv, PlacesTypeOK, ContractFirst
    <2>2. CASE book' = {} /\ rebuild' = [step |-> "read", todo |-> {}]
      BY <2>2
    <2>3. CASE ReadMarkets
      BY <2>3 DEF ReadMarkets, Tradeable, Unset, PlacesInv, PlacesTypeOK, ContractFirst, places
    <2>4. CASE /\ rebuild.step = "create" /\ rebuild' = [rebuild EXCEPT !.step = "idle"]
               /\ rebuild.todo = {} /\ UNCHANGED book
      BY <2>4 DEF PlacesInv, PlacesTypeOK, ContractFirst
    <2>5. ASSUME rebuild.step = "create", NEW m \in rebuild.todo, book' = book \cup {m},
                 rebuild' = [rebuild EXCEPT !.todo = @ \ {m}]
          PROVE  Rebuilt
      BY <2>5 DEF PlacesInv, PlacesTypeOK, ContractFirst
    <2> QED
      BY <2>1, <2>2, <2>3, <2>4, <2>5
         DEF MirrorCatchesUp, Close, ClobRestarts, RecreateMarket, places
  <1> QED
    BY <1>1, <1>2, <1>3, <1>4 DEF PlacesInv, PlacesTypeOK, RecordedIsDecided, ContractFirst

LEMMA RowPaused ==
  ASSUME PlacesInv, NEW m \in Markets, ToggleMarketPause(m)
  PROVE  /\ row' \in [Markets -> Rows]
         /\ \A k \in Markets : /\ row[k].outcome # Unset => row'[k].outcome # Unset
                               /\ row[k].st # Unset => row'[k].st # Unset
                               /\ row'[k].st # Unset => chain[k] # "uninitialized"
                               /\ row'[k].outcome # Unset => chain[k] = row'[k].outcome
  <1>1. row[m] \in Rows
    BY DEF PlacesInv, PlacesTypeOK, Rows
  <1> DEFINE q == [row[m] EXCEPT !.paused = ~row[m].paused]
  <1>2. row' = [row EXCEPT ![m] = q] /\ "yes" \in Outcomes
    BY DEF ToggleMarketPause, Outcomes
  <1>3. q \in Rows /\ q.st = row[m].st /\ q.outcome = row[m].outcome
    BY <1>1, <1>2, RowWrites
  <1> HIDE DEF q
  <1>4. RowWritten(m, "yes")
    BY <1>2, <1>3 DEF RowWritten
  <1> QED
    BY <1>2, <1>4, RowsKeep

LEMMA MarketPauses ==
  ASSUME PlacesInv, NEW m \in Markets, ToggleMarketPause(m)
  PROVE  PlacesInv'
  <1>1. UNCHANGED <<chain, book, logged, mirror, closed, rebuild, step>>
    BY DEF ToggleMarketPause
  <1>2. \A c \in Jobs : JobInv(c)'
    BY <1>1, RowPaused, AdminAssumption DEF PlacesInv, JobInv, StepsOf
  <1> QED
    BY <1>1, <1>2, RowPaused
       DEF PlacesInv, PlacesTypeOK, MirrorInv, RecordedIsDecided, ContractFirst, Rows

LEMMA PlacesSteps == PlacesInv /\ [AdminNext]_adminVars => PlacesInv'
  <1> SUFFICES ASSUME PlacesInv, [AdminNext]_adminVars PROVE PlacesInv'
    OBVIOUS
  <1>1. ASSUME NEW c \in Jobs, Begin(c) \/ Work(c) \/ Abort(c) PROVE PlacesInv'
    BY <1>1, JobBegins, JobLooksUp, JobSubmits, JobOnClob, JobOnRow, JobEnds DEF Work
  <1>2. CASE UNCHANGED adminVars
    BY <1>2
       DEF adminVars, PlacesInv, PlacesTypeOK, MirrorInv, JobInv, StepsOf, RecordedIsDecided, ContractFirst
  <1> QED
    BY <1>1, <1>2, AroundWorks, MarketPauses DEF AdminNext

(* Type correctness of the four places, the jobs and the rebuild.           *)
THEOREM PlacesTypes == AdminSpec => []AdminTypeOK
  <1>1. PlacesInv => AdminTypeOK
    BY DEF PlacesInv, PlacesTypeOK, AdminTypeOK, Decisions
  <1> QED
    BY <1>1, PlacesStart, PlacesSteps, PTL DEF AdminSpec

(* Whatever fails, is repeated or runs at the same time, the contract, the  *)
(* CLOB, the database and the topic agree on a market as far as each knows  *)
(* of it: for any markets, any jobs and any number of failures.             *)
THEOREM PlacesAlwaysAgree == AdminSpec => []PlacesAgree
  <1>1. PlacesInv => PlacesAgree
    BY DEF PlacesInv, PlacesAgree
  <1> QED
    BY <1>1, PlacesStart, PlacesSteps, PTL DEF AdminSpec

(* What the contract has decided and the database has recorded of a market  *)
(* stays as it is: no repetition of a job, however late, changes it.        *)
OutcomesStay ==
  [][\A m \in Markets : /\ chain[m] \in Outcomes => chain'[m] = chain[m]
                        /\ row[m].outcome # Unset => row'[m].outcome = row[m].outcome]_adminVars

LEMMA OutcomesKept ==
  ASSUME PlacesInv, PlacesInv', AdminNext, NEW m \in Markets
  PROVE  /\ chain[m] \in Outcomes => chain'[m] = chain[m]
         /\ row[m].outcome # Unset => row'[m].outcome = row[m].outcome
  <1>1. chain[m] \in Outcomes => chain'[m] = chain[m]
    <2>1. ASSUME NEW c \in Jobs, executeAdminCall(c), chain[m] \in Outcomes PROVE chain'[m] = chain[m]
      BY <2>1, UnsetIsNoOutcome DEF executeAdminCall, Accepted, PlacesInv, PlacesTypeOK
    <2>2. UNCHANGED chain \/ \E c \in Jobs : executeAdminCall(c)
      BY DEF AdminNext, Work, Begin, Abort, Lookup, CreateMarketOnClob, CloseMarketOnClob, CreateMarket,
             SetCategoriesForMarket, ResolveMarket, LogMarketResolvedEvent, SoftDeleteMarket, Close,
             ToggleMarketPause, MirrorCatchesUp, ClobRestarts, ReadMarkets, RecreateMarket, places
    <2> QED
      BY <2>1, <2>2
  <1>2. row[m].outcome # Unset => row'[m].outcome # Unset
    <2>1. ASSUME NEW c \in Jobs, CreateMarket(c) \/ ResolveMarket(c) \/ SoftDeleteMarket(c)
          PROVE  row[m].outcome # Unset => row'[m].outcome # Unset
      BY <2>1, RowWriters, RowsKeep, AdminAssumption
    <2>2. ASSUME NEW k \in Markets, ToggleMarketPause(k) PROVE row[m].outcome # Unset => row'[m].outcome # Unset
      BY <2>2, RowPaused
    <2>3. \/ UNCHANGED row \/ \E k \in Markets : ToggleMarketPause(k)
          \/ \E c \in Jobs : CreateMarket(c) \/ ResolveMarket(c) \/ SoftDeleteMarket(c)
      BY DEF AdminNext, Work, Begin, Abort, Lookup, executeAdminCall, CreateMarketOnClob, CloseMarketOnClob,
             SetCategoriesForMarket, LogMarketResolvedEvent, Close,
             MirrorCatchesUp, ClobRestarts, ReadMarkets, RecreateMarket, places
    <2> QED
      BY <2>1, <2>2, <2>3
  <1>3. /\ row[m].outcome # Unset => chain[m] = row[m].outcome /\ row[m].outcome \in Outcomes
        /\ row'[m].outcome # Unset => chain'[m] = row'[m].outcome
    BY DEF PlacesInv, PlacesTypeOK, RecordedIsDecided
  <1> QED
    BY <1>1, <1>2, <1>3

(* No job, however late or often repeated, undoes a decision of the        *)
(* contract or overwrites a recorded outcome (utils.go, markets.go).        *)
THEOREM DecisionsStay == AdminSpec => OutcomesStay
  <1>1. PlacesInv /\ PlacesInv' /\ [AdminNext]_adminVars
          => [\A m \in Markets : /\ chain[m] \in Outcomes => chain'[m] = chain[m]
                                 /\ row[m].outcome # Unset => row'[m].outcome = row[m].outcome]_adminVars
    BY OutcomesKept
  <1> QED
    BY <1>1, PlacesStart, PlacesSteps, PTL DEF AdminSpec, OutcomesStay


-----------------------------------------------------------------------------
(* The funds behind orders.  A SELL that was found to be covered stays so   *)
(* while nothing it has read changes; what a pass keeps was, with all that  *)
(* it has counted before, within the funds it had read.                     *)

Listings == [order : PlacedOrders, rem : Nat]

\* The part of kept orders K that is taken from the asset a.
KeptOn(K, a) == {e \in K : Asset(e.order) = a}
KeptSum(K, a) == SumFunctionOnSet([e \in K |-> e.rem], KeptOn(K, a))

OrderRows == [st : {"none", "open", "cancelled", "evicted"}, filled : Nat]
RequestStates ==
    [step : {"none", "held", "checked", "refused", "sent", "done"}, held : Nat, quiet : BOOLEAN]
PassStates ==
    [step : {"idle", "market", "rows", "orders", "balances", "evict", "clob", "mark"},
     todo : SUBSET FundedMarkets, market : Nat, available : [Assets -> Nat], required : [Assets -> Nat],
     list : Seq(Listings), sells : Seq(Listings), kept : SUBSET Listings]

FundingTypes ==
    /\ holdings \in [Assets -> Nat] /\ holdingsMirror \in [Assets -> Nat]
    /\ orderRow \in [PlacedOrders -> OrderRows]
    /\ resting \subseteq PlacedOrders /\ spent \in [PlacedOrders -> Nat]
    /\ req \in [PlacedOrders -> RequestStates]
    /\ pass \in PassStates

\* The row of an order lags behind its fills, and they end with its quantity.
FillsInv ==
    \A o \in PlacedOrders :
        /\ orderRow[o].filled <= spent[o] /\ spent[o] <= Terms[o].qty
        /\ o \in resting => spent[o] < Terms[o].qty
        /\ req[o].step # "done" => spent[o] = 0 /\ o \notin resting

\* What a request knows of the account is true as long as nothing has changed.
AdmitInv ==
    \A o \in PlacedOrders :
        /\ req[o].step \in {"none", "held", "checked", "refused"} => orderRow[o].st = "none"
        /\ req[o].step \in {"held", "checked"} /\ req[o].quiet => req[o].held = holdings[Asset(o)]
        /\ req[o].step = "checked" /\ req[o].quiet /\ Terms[o].action = "SELL"
               => reserved(o) + Terms[o].qty <= req[o].held

\* The list of a pass: orders that were inserted, the BUYs before the SELLs.
ListInv ==
    /\ \A i \in DOMAIN pass.list : orderRow[pass.list[i].order].st # "none"
    /\ \A i \in DOMAIN pass.sells : orderRow[pass.sells[i].order].st # "none"
    /\ pass.step \in {"evict", "clob", "mark"} => pass.list # <<>>
    /\ pass.step \in {"clob", "mark"} => ~Open(Head(pass.list).order)
    /\ pass.step = "balances" => pass.sells # <<>>
    /\ pass.step = "rows" => pass.kept = {} /\ pass.list = <<>> /\ pass.sells = <<>>
    /\ pass.sells # <<>> =>
           /\ \A i \in DOMAIN pass.list : Terms[pass.list[i].order].action = "BUY"
           /\ \A e \in pass.kept : Terms[e.order].action = "BUY"

\* Kept orders are part of what was counted and fit into what was read.
KeptInv ==
    /\ IsFiniteSet(pass.kept)
    /\ \A a \in Assets : /\ KeptSum(pass.kept, a) <= pass.required[a]
                         /\ KeptSum(pass.kept, a) <= pass.available[a]

FundingInv == FundingTypes /\ FillsInv /\ AdmitInv /\ ListInv /\ KeptInv

\* An order takes from one of the assets, and only a BUY takes collateral.
LEMMA AssetFacts ==
    ASSUME NEW o \in PlacedOrders
    PROVE  /\ Asset(o) \in Assets /\ Terms[o].qty \in Nat /\ Terms[o].qty > 0
           /\ Terms[o].action = "BUY" <=> Asset(o) = USDC
           /\ Terms[o].action # "BUY" => Terms[o].action = "SELL"
<1>1. Terms[o] \in [market : FundedMarkets, action : {"BUY", "SELL"}, side : Sides, qty : Nat \ {0}]
  BY FundingAssumption
<1>2. <<Terms[o].market, Terms[o].side>> # USDC
  BY <1>1 DEF Sides, USDC
<1> QED
  BY <1>1, <1>2 DEF Asset, Assets

\* One more kept order adds no more than its own remainder, to its own asset.
LEMMA KeptSumGrows ==
    ASSUME NEW K \in SUBSET Listings, IsFiniteSet(K), NEW e \in Listings, NEW a
    PROVE  /\ KeptSum(K, a) \in Nat
           /\ KeptSum(K \cup {e}, a) <= KeptSum(K, a) + (IF Asset(e.order) = a THEN e.rem ELSE 0)
<1> DEFINE T == KeptOn(K, a)
           f == [x \in K |-> x.rem]
           g == [x \in K \cup {e} |-> x.rem]
<1>1. IsFiniteSet(T) /\ T \subseteq K /\ \A x \in T : f[x] \in Nat
  BY FS_Subset DEF KeptOn, Listings
<1>2. KeptSum(K, a) = SumFunctionOnSet(f, T) /\ SumFunctionOnSet(f, T) \in Nat
  BY <1>1, SumType DEF KeptSum
<1>3. SumFunctionOnSet(f, T) = SumFunctionOnSet(g, T) /\ \A x \in T : g[x] \in Nat
  <2>1. \A x \in T : f[x] = g[x] /\ g[x] \in Nat
    BY <1>1
  <2> HIDE DEF f, g, T
  <2> QED
    BY <1>1, <2>1, SumCongruence
<1>4. e.rem \in Nat /\ g[e] = e.rem
  BY DEF Listings
<1>5. KeptSum(K \cup {e}, a) = SumFunctionOnSet(g, KeptOn(K \cup {e}, a))
  BY DEF KeptSum
<1>6. CASE Asset(e.order) = a /\ e \notin K
  <2>1. KeptOn(K \cup {e}, a) = T \cup {e} /\ e \notin T
    BY <1>6 DEF KeptOn
  <2> HIDE DEF f, g, T
  <2>2. SumFunctionOnSet(g, T \cup {e}) = g[e] + SumFunctionOnSet(g, T)
    BY <1>1, <1>3, <1>4, <2>1, SumOfAdded
  <2>3. KeptSum(K \cup {e}, a) = e.rem + KeptSum(K, a)
    BY <1>2, <1>3, <1>4, <1>5, <2>1, <2>2
  <2>4. KeptSum(K, a) \in Nat
    BY <1>2
  <2> QED
    BY <1>4, <1>6, <2>3, <2>4
<1>7. CASE ~(Asset(e.order) = a /\ e \notin K)
  <2>1. KeptOn(K \cup {e}, a) = T
    BY <1>7 DEF KeptOn
  <2> HIDE DEF f, g, T
  <2> QED
    BY <1>2, <1>3, <1>4, <1>5, <2>1
<1> QED
  BY <1>2, <1>6, <1>7

\* Nothing kept: the sum is zero.
LEMMA KeptSumEmpty ==
    ASSUME NEW K, NEW a, KeptOn(K, a) = {}
    PROVE  KeptSum(K, a) = 0
  BY FS_EmptySet, SumUnfolds DEF KeptSum

\* The idle pass keeps nothing.
LEMMA IdleKeeps ==
    ASSUME NEW A \in [Assets -> Nat], pass'.kept = {}, pass'.available = A,
           pass'.required = [a \in Assets |-> 0]
    PROVE  KeptInv'
<1>1. \A a \in Assets : KeptOn({}, a) = {}
  BY DEF KeptOn
<1>2. \A a \in Assets : KeptSum({}, a) = 0
  BY <1>1, KeptSumEmpty
<1> QED
  BY <1>2, FS_EmptySet DEF KeptInv

\* What a permutation of a finite set is.
LEMMA PermutationIsSeq ==
    ASSUME NEW S, IsFiniteSet(S), NEW s \in SetToSeqs(S)
    PROVE  s \in Seq(S) /\ \A i \in DOMAIN s : s[i] \in S
<1>1. Cardinality(S) \in Nat
  BY FS_CardinalityType
<1> QED
  BY <1>1 DEF SetToSeqs

\* The invariant holds at first.
LEMMA FundingStarts == FundingInit => FundingInv
<1> SUFFICES ASSUME FundingInit PROVE FundingInv
  OBVIOUS
<1>0. Idle \in PassStates
  BY DEF Idle, PassStates
<1>1. FundingTypes
  BY <1>0, FundingAssumption DEF FundingInit, FundingTypes, OrderRows, RequestStates
<1>2. FillsInv
  BY AssetFacts DEF FundingInit, FillsInv
<1>3. AdmitInv
  BY DEF FundingInit, AdmitInv
<1>4. ListInv
  BY DEF FundingInit, ListInv, Idle
<1>5. KeptInv
  <2>1. \A a \in Assets : KeptOn({}, a) = {}
    BY DEF KeptOn
  <2>2. \A a \in Assets : KeptSum({}, a) = 0
    BY <2>1, KeptSumEmpty
  <2> QED
    BY <2>2, FS_EmptySet DEF FundingInit, KeptInv, Idle
<1> QED
  BY <1>1, <1>2, <1>3, <1>4, <1>5 DEF FundingInv

\* The elements of a sequence over S.
LEMMA ListElements ==
    ASSUME NEW S, NEW s \in Seq(S)
    PROVE  \A i \in DOMAIN s : s[i] \in S
  OBVIOUS

\* What a pass lists are orders.
LEMMA ListsAreOrders ==
    ASSUME FundingInv
    PROVE  /\ pass.list \in Seq(Listings) /\ pass.sells \in Seq(Listings)
           /\ \A i \in DOMAIN pass.list : pass.list[i].order \in PlacedOrders
           /\ \A i \in DOMAIN pass.sells : pass.sells[i].order \in PlacedOrders
<1>1. pass.list \in Seq(Listings) /\ pass.sells \in Seq(Listings)
  BY DEF FundingInv, FundingTypes, PassStates
<1>2. /\ \A i \in DOMAIN pass.list : pass.list[i] \in Listings
      /\ \A i \in DOMAIN pass.sells : pass.sells[i] \in Listings
  BY <1>1, ListElements
<1> QED
  BY <1>1, <1>2 DEF Listings

-----------------------------------------------------------------------------
(* What leaves the account, the requests or the pass alone.                 *)

\* A pass that stands still minds only that rows are not taken back and that
\* what was not open stays so.
LEMMA PassStands ==
    ASSUME FundingInv, pass' = pass,
           \A o \in PlacedOrders : orderRow[o].st # "none" =>
               orderRow'[o].st # "none" /\ (~Open(o) => ~Open(o)')
    PROVE  ListInv' /\ KeptInv'
<1>1. pass.list # <<>> => Head(pass.list) = pass.list[1] /\ 1 \in DOMAIN pass.list
  BY ListsAreOrders
<1>2. ListInv'
  BY <1>1, ListsAreOrders DEF FundingInv, ListInv
<1>3. KeptInv'
  BY DEF FundingInv, KeptInv, KeptSum, KeptOn
<1> QED
  BY <1>2, <1>3

\* After a disturbance no request is quiet any more; it is where it was.
LEMMA DisturbFacts ==
    ASSUME FundingInv
    PROVE  /\ Disturb \in [PlacedOrders -> RequestStates]
           /\ \A o \in PlacedOrders : Disturb[o].step = req[o].step /\ ~Disturb[o].quiet
  BY DEF Disturb, FundingInv, FundingTypes, RequestStates

\* What the open SELLs reserve depends on what is open and on what is left of it.
LEMMA ReservedStays ==
    ASSUME NEW o \in PlacedOrders,
           \A p \in PlacedOrders : (Open(p)' <=> Open(p)) /\ orderRow'[p].filled = orderRow[p].filled
    PROVE  reserved(o)' = reserved(o)
<1>1. OpenSells(o)' = OpenSells(o)
  BY DEF OpenSells, Asset
<1>2. [p \in PlacedOrders |-> Rem(p)]' = [p \in PlacedOrders |-> Rem(p)]
  BY DEF Rem
<1> QED
  BY <1>1, <1>2 DEF reserved

\* It is a natural number.
LEMMA ReservedType ==
    ASSUME FundingInv, NEW o \in PlacedOrders
    PROVE  reserved(o) \in Nat
<1> DEFINE f == [p \in PlacedOrders |-> Rem(p)]
<1>1. IsFiniteSet(OpenSells(o)) /\ OpenSells(o) \subseteq PlacedOrders
  BY FundingAssumption, FS_Subset DEF OpenSells
<1>2. \A p \in OpenSells(o) : f[p] \in Nat
  BY AssetFacts DEF OpenSells, Open, Rem, FundingInv, FundingTypes, OrderRows, RequestStates
<1> HIDE DEF f
<1>3. SumFunctionOnSet(f, OpenSells(o)) \in Nat
  BY <1>1, <1>2, SumType
<1> QED
  BY <1>3 DEF reserved, f

\* RequestStates that stand still, in front of the same account and rows.
LEMMA RequestsStand ==
    ASSUME FundingInv, req' = req, holdings' = holdings, spent' = spent, resting' \subseteq resting,
           \A p \in PlacedOrders :
               /\ (Open(p)' <=> Open(p)) /\ orderRow'[p].filled = orderRow[p].filled
               /\ orderRow[p].st = "none" => orderRow'[p].st = "none"
    PROVE  FillsInv' /\ AdmitInv'
<1>1. \A o \in PlacedOrders : reserved(o)' = reserved(o)
  BY ReservedStays
<1>2. FillsInv'
  BY DEF FundingInv, FillsInv
<1>3. AdmitInv'
  BY <1>1 DEF FundingInv, AdmitInv
<1> QED
  BY <1>2, <1>3

-----------------------------------------------------------------------------
(* The steps around the pass.                                               *)

LEMMA MoveKeepsFunding ==
    ASSUME FundingInv, NEW a \in Assets, NEW n \in 0 .. Funds[a], Move(a, n)
    PROVE  FundingInv'
<1> USE DEF Move
<1>0. n \in Nat
  BY FundingAssumption
<1>1. FundingTypes'
  BY <1>0, DisturbFacts DEF FundingInv, FundingTypes
<1>2. FillsInv'
  BY DisturbFacts DEF FundingInv, FillsInv
<1>3. AdmitInv'
  BY DisturbFacts DEF FundingInv, AdmitInv
<1>4. ListInv' /\ KeptInv'
  <2>1. \A o \in PlacedOrders : Open(o)' <=> Open(o)
    BY DEF Open, Rem
  <2> QED
    BY <2>1, PassStands
<1> QED
  BY <1>1, <1>2, <1>3, <1>4 DEF FundingInv

LEMMA CatchUpKeepsFunding ==
    ASSUME FundingInv, HoldingsCatchUp
    PROVE  FundingInv'
<1> USE DEF HoldingsCatchUp
<1>0. \A o \in PlacedOrders : Open(o)' <=> Open(o)
  BY DEF Open, Rem
<1>1. FundingTypes'
  BY DEF FundingInv, FundingTypes
<1>2. FillsInv' /\ AdmitInv'
  BY <1>0, RequestsStand
<1>3. ListInv' /\ KeptInv'
  BY <1>0, PassStands
<1> QED
  BY <1>1, <1>2, <1>3 DEF FundingInv

LEMMA PublishKeepsFunding ==
    ASSUME FundingInv, NEW o \in PlacedOrders, Publish(o)
    PROVE  FundingInv'
<1> USE DEF Publish
<1>0. \A p \in PlacedOrders : (Open(p)' <=> Open(p)) /\ reserved(p)' = reserved(p)
  <2>1. \A p \in PlacedOrders : Open(p)' <=> Open(p)
    BY DEF Open, Rem
  <2> QED
    BY <2>1, ReservedStays
<1>1. FundingTypes'
  BY DEF FundingInv, FundingTypes, OrderRows, RequestStates
<1>2. FillsInv'
  BY AssetFacts DEF FundingInv, FundingTypes, FillsInv
<1>3. AdmitInv'
  BY <1>0 DEF FundingInv, FundingTypes, AdmitInv
<1>4. ListInv' /\ KeptInv'
  BY <1>0, PassStands
<1> QED
  BY <1>1, <1>2, <1>3, <1>4 DEF FundingInv

LEMMA SettleKeepsFunding ==
    ASSUME FundingInv, NEW o \in PlacedOrders, SettleFill(o)
    PROVE  FundingInv'
<1> USE DEF SettleFill
<1>0. holdings[Asset(o)] \in Nat /\ spent[o] \in Nat /\ spent'[o] = spent[o] + 1
  BY AssetFacts DEF FundingInv, FundingTypes
<1>1. FundingTypes'
  BY <1>0, DisturbFacts, AssetFacts DEF FundingInv, FundingTypes
<1>2. FillsInv'
  <2> SUFFICES ASSUME NEW p \in PlacedOrders
               PROVE  /\ orderRow'[p].filled <= spent'[p] /\ spent'[p] <= Terms[p].qty
                      /\ p \in resting' => spent'[p] < Terms[p].qty
                      /\ req'[p].step # "done" => spent'[p] = 0 /\ p \notin resting'
    BY DEF FillsInv
  <2>1. orderRow[p].filled \in Nat /\ spent[p] \in Nat /\ Terms[p].qty \in Nat /\ req'[p].step = req[p].step
    BY DisturbFacts, AssetFacts DEF FundingInv, FundingTypes, OrderRows, RequestStates
  <2>2. CASE p = o
    BY <1>0, <2>1, <2>2 DEF FundingInv, FillsInv
  <2>3. CASE p # o
    <3>1. spent'[p] = spent[p] /\ (p \in resting' <=> p \in resting)
      BY <2>3 DEF FundingInv, FundingTypes
    <3> QED
      BY <2>1, <3>1 DEF FundingInv, FillsInv
  <2> QED
    BY <2>2, <2>3
<1>3. AdmitInv'
  BY DisturbFacts DEF FundingInv, AdmitInv
<1>4. ListInv' /\ KeptInv'
  <2>1. \A p \in PlacedOrders : Open(p)' <=> Open(p)
    BY DEF Open, Rem
  <2> QED
    BY <2>1, PassStands
<1> QED
  BY <1>1, <1>2, <1>3, <1>4 DEF FundingInv

LEMMA BookedKeepsFunding ==
    ASSUME FundingInv, NEW o \in PlacedOrders, FillIsBooked(o)
    PROVE  FundingInv'
<1> USE DEF FillIsBooked
<1>0. /\ \A p \in PlacedOrders : orderRow'[p].st = orderRow[p].st
      /\ \A p \in PlacedOrders : ~Open(p) => ~Open(p)'
  <2>1. \A p \in PlacedOrders :
            /\ orderRow'[p].st = orderRow[p].st /\ orderRow'[p].filled >= orderRow[p].filled
            /\ orderRow'[p].filled \in Nat /\ orderRow[p].filled \in Nat
    BY DEF FundingInv, FundingTypes, OrderRows, RequestStates
  <2> QED
    BY <2>1, AssetFacts DEF Open, Rem
<1>1. FundingTypes'
  <2>1. orderRow' \in [PlacedOrders -> OrderRows]
    BY DEF FundingInv, FundingTypes, OrderRows
  <2> QED
    BY <2>1, DisturbFacts DEF FundingInv, FundingTypes
<1>2. FillsInv'
  BY DisturbFacts DEF FundingInv, FundingTypes, OrderRows, RequestStates, FillsInv
<1>3. AdmitInv'
  BY <1>0, DisturbFacts DEF FundingInv, AdmitInv
<1>4. ListInv' /\ KeptInv'
  BY <1>0, PassStands
<1> QED
  BY <1>1, <1>2, <1>3, <1>4 DEF FundingInv

-----------------------------------------------------------------------------
(* The steps of a request.                                                  *)

LEMMA ReadKeepsFunding ==
    ASSUME FundingInv, NEW o \in PlacedOrders, ReadHeld(o)
    PROVE  FundingInv'
<1> USE DEF ReadHeld
<1>0. \A p \in PlacedOrders : (Open(p)' <=> Open(p)) /\ reserved(p)' = reserved(p)
  <2>1. \A p \in PlacedOrders : Open(p)' <=> Open(p)
    BY DEF Open, Rem
  <2> QED
    BY <2>1, ReservedStays
<1>1. FundingTypes'
  BY AssetFacts DEF FundingInv, FundingTypes, OrderRows, RequestStates
<1>2. FillsInv'
  BY DEF FundingInv, FundingTypes, FillsInv
<1>3. AdmitInv'
  <2>1. /\ req'[o] = [step |-> "held", held |-> holdingsMirror[Asset(o)], quiet |-> holdingsMirror = holdings]
        /\ \A p \in PlacedOrders : p # o => req'[p] = req[p]
    BY DEF FundingInv, FundingTypes
  <2>2. req'[o].quiet => req'[o].held = holdings'[Asset(o)]
    <3>1. CASE holdingsMirror = holdings
      BY <2>1, <3>1
    <3>2. CASE holdingsMirror # holdings
      <4>1. (holdingsMirror = holdings) = FALSE
        BY <3>2
      <4>2. req'[o] = [step |-> "held", held |-> holdingsMirror[Asset(o)], quiet |-> FALSE]
        BY <2>1, <4>1, Zenon
      <4> QED
        BY <4>2
    <3> QED
      BY <3>1, <3>2
  <2> QED
    BY <1>0, <2>1, <2>2 DEF FundingInv, AdmitInv
<1>4. ListInv' /\ KeptInv'
  BY <1>0, PassStands
<1> QED
  BY <1>1, <1>2, <1>3, <1>4 DEF FundingInv

LEMMA CheckKeepsFunding ==
    ASSUME FundingInv, NEW o \in PlacedOrders, CheckHeld(o)
    PROVE  FundingInv'
<1> USE DEF CheckHeld
<1>0. \A p \in PlacedOrders : (Open(p)' <=> Open(p)) /\ reserved(p)' = reserved(p)
  <2>1. \A p \in PlacedOrders : Open(p)' <=> Open(p)
    BY DEF Open, Rem
  <2> QED
    BY <2>1, ReservedStays
<1>1. FundingTypes'
  BY DEF FundingInv, FundingTypes, OrderRows, RequestStates
<1>2. FillsInv'
  BY DEF FundingInv, FundingTypes, FillsInv
<1>3. AdmitInv'
  <2>1. /\ req'[o].held = req[o].held /\ req'[o].quiet = req[o].quiet
        /\ req'[o].step = IF reserved(o) + Terms[o].qty > req[o].held THEN "refused" ELSE "checked"
        /\ \A p \in PlacedOrders : p # o => req'[p] = req[p]
    BY DEF FundingInv, FundingTypes
  <2>2. reserved(o) \in Nat /\ req[o].held \in Nat /\ Terms[o].qty \in Nat
    BY ReservedType, AssetFacts DEF FundingInv, FundingTypes, OrderRows, RequestStates
  <2>3. req'[o].step = "checked" => reserved(o) + Terms[o].qty <= req[o].held
    BY <2>1, <2>2
  <2> QED
    BY <1>0, <2>1, <2>3 DEF FundingInv, AdmitInv
<1>4. ListInv' /\ KeptInv'
  BY <1>0, PassStands
<1> QED
  BY <1>1, <1>2, <1>3, <1>4 DEF FundingInv

LEMMA CreateKeepsFunding ==
    ASSUME FundingInv, NEW o \in PlacedOrders, CreateOrderIntent(o)
    PROVE  FundingInv'
<1> USE DEF CreateOrderIntent
<1>0. /\ \A p \in PlacedOrders : p # o => orderRow'[p] = orderRow[p]
      /\ orderRow'[o].st = "open" /\ orderRow[o].st = "none"
      /\ \A p \in PlacedOrders : orderRow'[p].filled = orderRow[p].filled
      /\ \A p \in PlacedOrders : p # o => req'[p].step = req[p].step
      /\ \A p \in PlacedOrders : ~req'[p].quiet
      /\ req'[o].step = "sent"
  BY DisturbFacts DEF FundingInv, FundingTypes, AdmitInv
<1>1. FundingTypes'
  <2>1. orderRow' \in [PlacedOrders -> OrderRows]
    BY DEF FundingInv, FundingTypes, OrderRows
  <2>2. [Disturb EXCEPT ![o].step = "sent"] \in [PlacedOrders -> RequestStates]
    BY DisturbFacts DEF RequestStates
  <2> QED
    BY <2>1, <2>2 DEF FundingInv, FundingTypes
<1>2. FillsInv'
  BY <1>0 DEF FundingInv, FillsInv
<1>3. AdmitInv'
  BY <1>0 DEF FundingInv, AdmitInv
<1>4. ListInv' /\ KeptInv'
  BY <1>0, PassStands DEF Open, Rem
<1> QED
  BY <1>1, <1>2, <1>3, <1>4 DEF FundingInv

-----------------------------------------------------------------------------
(* The steps of the pass.                                                   *)

\* A pass that is not at work.
LEMMA IdleFacts ==
    /\ Idle \in PassStates /\ Idle.kept = {} /\ Idle.list = <<>> /\ Idle.sells = <<>>
    /\ Idle.available \in [Assets -> Nat] /\ Idle.required = [a \in Assets |-> 0]
  BY DEF Idle, PassStates

\* The first order of a list, and what is left without it.
LEMMA HeadAndTail ==
    ASSUME FundingInv, pass.list # <<>>
    PROVE  /\ Head(pass.list) \in Listings /\ Tail(pass.list) \in Seq(Listings)
           /\ 1 \in DOMAIN pass.list /\ Head(pass.list) = pass.list[1]
           /\ Head(pass.list).order \in PlacedOrders /\ Head(pass.list).rem \in Nat
           /\ \A i \in DOMAIN Tail(pass.list) : i + 1 \in DOMAIN pass.list /\ Tail(pass.list)[i] = pass.list[i + 1]
<1>1. pass.list \in Seq(Listings)
  BY DEF FundingInv, FundingTypes, PassStates
<1>2. 1 \in DOMAIN pass.list /\ Head(pass.list) = pass.list[1] /\ Tail(pass.list) \in Seq(Listings)
  BY <1>1
<1>3. Head(pass.list) \in Listings
  BY <1>1, <1>2, ListElements
<1>4. \A i \in DOMAIN Tail(pass.list) : i + 1 \in DOMAIN pass.list /\ Tail(pass.list)[i] = pass.list[i + 1]
  BY <1>1
<1>5. Head(pass.list).order \in PlacedOrders /\ Head(pass.list).rem \in Nat
  BY <1>3 DEF Listings
<1> QED
  BY <1>2, <1>3, <1>4, <1>5

\* A step of the pass alone.
LEMMA OnlyPass ==
    ASSUME FundingInv, pass' \in PassStates,
           UNCHANGED <<holdings, holdingsMirror, orderRow, resting, spent, req>>
    PROVE  FundingTypes' /\ FillsInv' /\ AdmitInv' /\ \A p \in PlacedOrders : Open(p)' <=> Open(p)
<1>1. \A p \in PlacedOrders : Open(p)' <=> Open(p)
  BY DEF Open, Rem
<1>2. FundingTypes'
  BY DEF FundingInv, FundingTypes
<1>3. FillsInv' /\ AdmitInv'
  BY <1>1, RequestsStand
<1> QED
  BY <1>1, <1>2, <1>3

\* The next order of the list, with the rows as they are now.
LEMMA NextOrderKeeps ==
    ASSUME FundingInv, pass.list # <<>>, pass' = NextOrder(pass),
           \A o \in PlacedOrders : orderRow[o].st # "none" => orderRow'[o].st # "none"
    PROVE  pass' \in PassStates /\ ListInv' /\ KeptInv'
<1> USE DEF NextOrder
<1>0. /\ pass.sells \in Seq(Listings) /\ pass'.list = Tail(pass.list) /\ pass'.step = "orders"
      /\ pass'.sells = pass.sells /\ pass'.kept = pass.kept
      /\ pass'.required = pass.required /\ pass'.available = pass.available
  BY DEF FundingInv, FundingTypes, PassStates
<1>1. pass' \in PassStates
  BY HeadAndTail DEF FundingInv, FundingTypes, PassStates
<1>2. ListInv'
  <2>1. \A i \in DOMAIN pass.list : orderRow'[pass.list[i].order].st # "none"
    BY ListsAreOrders DEF FundingInv, ListInv
  <2>2. \A i \in DOMAIN pass.sells : orderRow'[pass.sells[i].order].st # "none"
    BY ListsAreOrders DEF FundingInv, ListInv
  <2>3. \A i \in DOMAIN Tail(pass.list) :
            /\ orderRow'[Tail(pass.list)[i].order].st # "none"
            /\ pass.sells # <<>> => Terms[Tail(pass.list)[i].order].action = "BUY"
    BY <2>1, HeadAndTail DEF FundingInv, ListInv
  <2> QED
    BY <1>0, <2>2, <2>3 DEF FundingInv, ListInv
<1>3. KeptInv'
  BY <1>0 DEF FundingInv, KeptInv, KeptSum, KeptOn
<1> QED
  BY <1>1, <1>2, <1>3

LEMMA StartKeepsFunding ==
    ASSUME FundingInv, StartPass
    PROVE  FundingInv'
<1>1. pass' = [Idle EXCEPT !.step = "market", !.todo = FundedMarkets]
  BY DEF StartPass
<1>2. /\ pass' \in PassStates /\ pass'.step = "market" /\ pass'.kept = {} /\ pass'.list = <<>> /\ pass'.sells = <<>>
      /\ pass'.available = Idle.available /\ pass'.required = Idle.required
  BY <1>1, IdleFacts DEF PassStates
<1>3. FundingTypes' /\ FillsInv' /\ AdmitInv'
  BY <1>2, OnlyPass DEF StartPass
<1>4. ListInv'
  BY <1>2 DEF ListInv
<1>5. KeptInv'
  BY <1>2, IdleFacts, IdleKeeps
<1> QED
  BY <1>3, <1>4, <1>5 DEF FundingInv

LEMMA AvailableKeepsFunding ==
    ASSUME FundingInv, ReadAvailable
    PROVE  FundingInv'
<1>1. /\ pass' \in PassStates /\ pass'.step \in {"idle", "rows"} /\ pass'.kept = {} /\ pass'.list = <<>>
      /\ pass'.sells = <<>> /\ pass'.available \in [Assets -> Nat] /\ pass'.required = [a \in Assets |-> 0]
  <2>1. CASE pass.todo = {}
    <3>1. pass' = Idle
      BY <2>1 DEF ReadAvailable
    <3>2. Idle.step = "idle"
      BY DEF Idle
    <3> QED
      BY <3>1, <3>2, IdleFacts
  <2>2. CASE pass.todo # {}
    <3>1. PICK m \in pass.todo :
              pass' = [Idle EXCEPT !.step = "rows", !.todo = pass.todo \ {m}, !.market = m,
                                   !.available = [@ EXCEPT ![USDC] = holdingsMirror[USDC]]]
      BY <2>2 DEF ReadAvailable
    <3>2. pass.todo \subseteq FundedMarkets /\ m \in Nat
      BY <3>1, FundingAssumption DEF FundingInv, FundingTypes, PassStates
    <3>3. USDC \in Assets
      BY DEF Assets
    <3>4. [Idle.available EXCEPT ![USDC] = holdingsMirror[USDC]] \in [Assets -> Nat]
      BY <3>3, IdleFacts DEF FundingInv, FundingTypes
    <3> QED
      BY <3>1, <3>2, <3>4, IdleFacts DEF PassStates
  <2> QED
    BY <2>1, <2>2
<1>2. FundingTypes' /\ FillsInv' /\ AdmitInv'
  BY <1>1, OnlyPass DEF ReadAvailable
<1>3. ListInv'
  BY <1>1 DEF ListInv
<1>4. KeptInv'
  BY <1>1, IdleKeeps
<1> QED
  BY <1>2, <1>3, <1>4 DEF FundingInv

LEMMA PassFailsKeepsFunding ==
    ASSUME FundingInv, PassFails
    PROVE  FundingInv'
<1>1. pass' = [Idle EXCEPT !.step = "market", !.todo = pass.todo] /\ pass.todo \subseteq FundedMarkets
  BY DEF PassFails, FundingInv, FundingTypes, PassStates
<1>2. /\ pass' \in PassStates /\ pass'.step = "market" /\ pass'.kept = {} /\ pass'.list = <<>> /\ pass'.sells = <<>>
      /\ pass'.available = Idle.available /\ pass'.required = Idle.required
  BY <1>1, IdleFacts DEF PassStates
<1>3. FundingTypes' /\ FillsInv' /\ AdmitInv'
  BY <1>2, OnlyPass DEF PassFails
<1>4. ListInv'
  BY <1>2 DEF ListInv
<1>5. KeptInv'
  BY <1>2, IdleFacts, IdleKeeps
<1> QED
  BY <1>3, <1>4, <1>5 DEF FundingInv

\* The orders that are open now, in some order.
LEMMA OrdersReadKeepsFunding ==
    ASSUME FundingInv, ReadOpenOrders
    PROVE  FundingInv'
<1> DEFINE chosen(action) == {p \in PlacedOrders :
                                 Open(p) /\ Terms[p].market = pass.market /\ Terms[p].action = action}
           listed(action) == {[order |-> o, rem |-> Rem(o)] : o \in chosen(action)}
<1>1. PICK buys \in SetToSeqs(listed("BUY")), sells \in SetToSeqs(listed("SELL")) :
          pass' = [pass EXCEPT !.step = "orders", !.list = buys, !.sells = sells]
  BY DEF ReadOpenOrders
<1>2. ASSUME NEW action
      PROVE  /\ IsFiniteSet(listed(action)) /\ listed(action) \subseteq Listings
             /\ \A e \in listed(action) : orderRow[e.order].st # "none" /\ Terms[e.order].action = action
  <2>1. IsFiniteSet(chosen(action))
    BY FundingAssumption, FS_Subset
  <2> DEFINE f == [o \in chosen(action) |-> [order |-> o, rem |-> Rem(o)]]
  <2>2. f \in Surjection(chosen(action), listed(action))
    BY DEF Surjection
  <2>3. IsFiniteSet(listed(action))
    <3> HIDE DEF f, chosen, listed
    <3> QED
      BY <2>1, <2>2, FS_Surjection
  <2>4. \A o \in chosen(action) : Rem(o) \in Nat
    BY AssetFacts DEF Open, Rem, FundingInv, FundingTypes, OrderRows
  <2>5. listed(action) \subseteq Listings
    BY <2>4 DEF Listings
  <2>6. \A e \in listed(action) : orderRow[e.order].st # "none" /\ Terms[e.order].action = action
    BY DEF Open
  <2> QED
    BY <2>3, <2>5, <2>6
<1>3. /\ buys \in Seq(listed("BUY")) /\ \A i \in DOMAIN buys : buys[i] \in listed("BUY")
      /\ sells \in Seq(listed("SELL")) /\ \A i \in DOMAIN sells : sells[i] \in listed("SELL")
  <2>1. IsFiniteSet(listed("BUY")) /\ IsFiniteSet(listed("SELL"))
    BY <1>2
  <2> HIDE DEF listed
  <2> QED
    BY <2>1, PermutationIsSeq
<1>4. buys \in Seq(Listings) /\ sells \in Seq(Listings)
  <2>1. listed("BUY") \subseteq Listings /\ listed("SELL") \subseteq Listings
    BY <1>2
  <2> HIDE DEF listed
  <2> QED
    BY <1>3, <2>1
<1>5. /\ pass' \in PassStates /\ pass'.step = "orders" /\ pass'.list = buys /\ pass'.sells = sells
      /\ pass'.kept = pass.kept /\ pass'.required = pass.required /\ pass'.available = pass.available
  BY <1>1, <1>4 DEF FundingInv, FundingTypes, PassStates
<1>6. FundingTypes' /\ FillsInv' /\ AdmitInv'
  BY <1>5, OnlyPass DEF ReadOpenOrders
<1>7. ListInv'
  <2>1. pass.kept = {} /\ orderRow' = orderRow
    BY DEF ReadOpenOrders, FundingInv, ListInv
  <2>2. /\ \A i \in DOMAIN buys : orderRow[buys[i].order].st # "none" /\ Terms[buys[i].order].action = "BUY"
        /\ \A i \in DOMAIN sells : orderRow[sells[i].order].st # "none"
    <3> HIDE DEF listed
    <3> QED
      BY <1>2, <1>3
  <2> HIDE DEF listed
  <2> QED
    BY <1>5, <2>1, <2>2 DEF ListInv
<1>8. KeptInv'
  BY <1>5 DEF FundingInv, KeptInv, KeptSum, KeptOn
<1> QED
  BY <1>6, <1>7, <1>8 DEF FundingInv

\* The balances are new; what is kept so far takes nothing from them.
LEMMA BalancesKeepsFunding ==
    ASSUME FundingInv, ReadBalances
    PROVE  FundingInv'
<1>1. pass' = [pass EXCEPT !.step = "orders", !.list = pass.sells, !.sells = <<>>,
                   !.available = [a \in Assets |-> IF a = USDC THEN @[a] ELSE holdingsMirror[a]]]
  BY DEF ReadBalances
<1>2. /\ pass'.step = "orders" /\ pass'.list = pass.sells /\ pass'.sells = <<>>
      /\ pass'.kept = pass.kept /\ pass'.required = pass.required
      /\ pass'.available = [a \in Assets |-> IF a = USDC THEN pass.available[a] ELSE holdingsMirror[a]]
  BY <1>1 DEF FundingInv, FundingTypes, PassStates
<1>3. pass'.available \in [Assets -> Nat]
  BY <1>2 DEF FundingInv, FundingTypes, PassStates
<1>4. pass' \in PassStates
  <2>1. PICK A \in [Assets -> Nat] :
            pass' = [pass EXCEPT !.step = "orders", !.list = pass.sells, !.sells = <<>>, !.available = A]
    BY <1>1, <1>2, <1>3
  <2>2. pass \in PassStates /\ <<>> \in Seq(Listings)
    BY DEF FundingInv, FundingTypes
  <2> QED
    BY <2>1, <2>2 DEF PassStates
<1>5. FundingTypes' /\ FillsInv' /\ AdmitInv'
  BY <1>4, OnlyPass DEF ReadBalances
<1>6. ListInv'
  BY <1>2 DEF ReadBalances, FundingInv, ListInv
<1>7. KeptInv'
  <2>1. \A e \in pass.kept : Terms[e.order].action = "BUY" /\ e.order \in PlacedOrders
    BY DEF ReadBalances, FundingInv, ListInv, FundingTypes, PassStates, Listings
  <2>2. ASSUME NEW a \in Assets, a # USDC PROVE KeptSum(pass.kept, a) = 0
    <3>1. KeptOn(pass.kept, a) = {}
      BY <2>1, <2>2, AssetFacts DEF KeptOn
    <3> QED
      BY <3>1, KeptSumEmpty
  <2>3. \A a \in Assets : holdingsMirror[a] >= 0
    BY DEF FundingInv, FundingTypes
  <2> QED
    BY <1>2, <2>2, <2>3 DEF FundingInv, KeptInv, KeptSum, KeptOn
<1> QED
  BY <1>5, <1>6, <1>7 DEF FundingInv

\* An order is counted, and evicted or kept.
LEMMA ValidateKeepsFunding ==
    ASSUME FundingInv, validateAndKickout
    PROVE  FundingInv'
<1>0. pass \in PassStates /\ UNCHANGED <<holdings, holdingsMirror, orderRow, resting, spent, req>>
  BY DEF validateAndKickout, FundingInv, FundingTypes
<1>1. CASE pass.list = <<>>
  <2>1. pass' = [pass EXCEPT !.step = IF pass.sells = <<>> THEN "market" ELSE "balances"]
    BY <1>1 DEF validateAndKickout
  <2>2. /\ pass' \in PassStates /\ pass'.step \in {"market", "balances"}
        /\ pass'.step = "balances" => pass.sells # <<>>
        /\ pass'.list = pass.list /\ pass'.sells = pass.sells /\ pass'.kept = pass.kept
        /\ pass'.required = pass.required /\ pass'.available = pass.available
    BY <1>0, <2>1 DEF PassStates
  <2>3. FundingTypes' /\ FillsInv' /\ AdmitInv'
    BY <1>0, <2>2, OnlyPass
  <2>4. ListInv'
    BY <1>0, <2>2 DEF FundingInv, ListInv
  <2>5. KeptInv'
    BY <2>2 DEF FundingInv, KeptInv, KeptSum, KeptOn
  <2> QED
    BY <2>3, <2>4, <2>5 DEF FundingInv
<1>2. CASE pass.list # <<>>
  <2> DEFINE e == Head(pass.list)
             b == Asset(e.order)
             counted == [pass EXCEPT !.required = [@ EXCEPT ![b] = required]]
  <2>1. /\ e \in Listings /\ e.order \in PlacedOrders /\ e.rem \in Nat
        /\ Tail(pass.list) \in Seq(Listings) /\ e = pass.list[1] /\ 1 \in DOMAIN pass.list
        /\ \A i \in DOMAIN Tail(pass.list) :
               i + 1 \in DOMAIN pass.list /\ Tail(pass.list)[i] = pass.list[i + 1]
    BY <1>2, HeadAndTail
  <2>2. b \in Assets
    BY <2>1, AssetFacts
  <2>3. /\ pass.required \in [Assets -> Nat] /\ pass.available \in [Assets -> Nat]
        /\ pass.kept \in SUBSET Listings /\ IsFiniteSet(pass.kept)
    BY <1>0 DEF PassStates, FundingInv, KeptInv
  <2>4. required = pass.required[b] + e.rem /\ required \in Nat
    BY <2>1, <2>2, <2>3 DEF required
  <2>5. /\ counted \in PassStates /\ counted.required = [pass.required EXCEPT ![b] = required]
        /\ counted.available = pass.available /\ counted.kept = pass.kept
        /\ counted.list = pass.list /\ counted.sells = pass.sells
        /\ counted.step = pass.step
    BY <1>0, <2>3, <2>4 DEF PassStates
  <2>6. pass' = IF Unbacked THEN [counted EXCEPT !.step = "evict"]
                ELSE [counted EXCEPT !.list = Tail(@), !.kept = @ \cup {e}]
    BY <1>2 DEF validateAndKickout
  <2>7. pass.step = "orders"
    BY DEF validateAndKickout
  <2>8. \A a \in Assets : /\ KeptSum(pass.kept, a) \in Nat /\ KeptSum(pass.kept, a) <= pass.required[a]
                          /\ KeptSum(pass.kept, a) <= pass.available[a]
    BY <2>1, <2>3, KeptSumGrows DEF FundingInv, KeptInv
  <2> HIDE DEF counted, b, e
  <2>9. \A a \in Assets : counted.required[a] = IF a = b THEN pass.required[a] + e.rem ELSE pass.required[a]
    BY <2>2, <2>3, <2>4, <2>5
  <2>10. CASE Unbacked
    <3>1. /\ pass' \in PassStates /\ pass'.step = "evict" /\ pass'.list = pass.list /\ pass'.sells = pass.sells
          /\ pass'.kept = pass.kept /\ pass'.required = counted.required /\ pass'.available = pass.available
      BY <2>5, <2>6, <2>10 DEF PassStates
    <3>2. FundingTypes' /\ FillsInv' /\ AdmitInv'
      BY <1>0, <3>1, OnlyPass
    <3>3. ListInv'
      BY <1>0, <1>2, <3>1 DEF FundingInv, ListInv
    <3>4. KeptInv'
      <4>1. ASSUME NEW a \in Assets PROVE KeptSum(pass.kept, a) <= counted.required[a]
        <5>1. /\ pass.required[a] \in Nat /\ e.rem \in Nat /\ KeptSum(pass.kept, a) \in Nat
              /\ KeptSum(pass.kept, a) <= pass.required[a]
          BY <2>1, <2>3, <2>8
        <5>2. counted.required[a] \in {pass.required[a], pass.required[a] + e.rem}
          BY <2>9
        <5> QED
          BY <5>1, <5>2
      <4> QED
        BY <2>3, <2>8, <3>1, <4>1 DEF KeptInv, KeptSum, KeptOn
    <3> QED
      BY <3>2, <3>3, <3>4 DEF FundingInv
  <2>11. CASE ~Unbacked
    <3>1. /\ pass' \in PassStates /\ pass'.step = "orders" /\ pass'.list = Tail(pass.list)
          /\ pass'.sells = pass.sells /\ pass'.kept = pass.kept \cup {e}
          /\ pass'.required = counted.required /\ pass'.available = pass.available
      <4>1. pass' = [counted EXCEPT !.list = Tail(@), !.kept = @ \cup {e}]
        BY <2>6, <2>11
      <4>2. pass.kept \cup {e} \in SUBSET Listings
        BY <2>1, <2>3
      <4> QED
        BY <2>1, <2>5, <2>7, <4>1, <4>2 DEF PassStates
    <3>2. FundingTypes' /\ FillsInv' /\ AdmitInv'
      BY <1>0, <3>1, OnlyPass
    <3>3. ListInv'
      BY <1>0, <2>1, <3>1 DEF FundingInv, ListInv
    <3>4. KeptInv'
      <4>1. IsFiniteSet(pass.kept \cup {e})
        BY <2>3, FS_AddElement
      <4>2. required <= pass.available[b]
        BY <2>2, <2>3, <2>4, <2>11 DEF Unbacked, b, e
      <4>3. ASSUME NEW a \in Assets
            PROVE  /\ KeptSum(pass.kept \cup {e}, a) <= counted.required[a]
                   /\ KeptSum(pass.kept \cup {e}, a) <= pass.available[a]
        <5>1. /\ KeptSum(pass.kept \cup {e}, a) <= KeptSum(pass.kept, a) + (IF b = a THEN e.rem ELSE 0)
              /\ KeptSum(pass.kept \cup {e}, a) \in Nat
          <6>1. pass.kept \cup {e} \in SUBSET Listings /\ IsFiniteSet(pass.kept \cup {e})
            BY <2>1, <2>3, <4>1
          <6> QED
            BY <2>1, <2>3, <6>1, KeptSumGrows DEF b
        <5>2. pass.required[a] \in Nat /\ pass.available[a] \in Nat /\ e.rem \in Nat
          BY <2>1, <2>3
        <5> QED
          BY <2>4, <2>8, <2>9, <4>2, <5>1, <5>2
      <4> QED
        BY <3>1, <4>1, <4>3 DEF KeptInv, KeptSum, KeptOn
    <3> QED
      BY <3>2, <3>3, <3>4 DEF FundingInv
  <2> QED
    BY <2>10, <2>11
<1> QED
  BY <1>1, <1>2

LEMMA CancelRowKeepsFunding ==
    ASSUME FundingInv, CancelRow
    PROVE  FundingInv'
<1> DEFINE o == Head(pass.list).order
<1>0. /\ pass.list # <<>> /\ o \in PlacedOrders /\ pass \in PassStates /\ pass.step = "evict"
      /\ UNCHANGED <<holdings, holdingsMirror, resting, spent>>
  BY HeadAndTail DEF CancelRow, FundingInv, FundingTypes, ListInv
<1>1. CASE pass' = NextOrder(pass) /\ UNCHANGED <<orderRow, req>>
  <2>1. pass' \in PassStates /\ ListInv' /\ KeptInv'
    BY <1>0, <1>1, NextOrderKeeps
  <2> QED
    BY <1>0, <1>1, <2>1, OnlyPass DEF FundingInv
<1>2. CASE ~Open(o) /\ pass' = [pass EXCEPT !.step = "clob"] /\ UNCHANGED <<orderRow, req>>
  <2>1. /\ pass' \in PassStates /\ pass'.step = "clob" /\ pass'.list = pass.list /\ pass'.sells = pass.sells
        /\ pass'.kept = pass.kept /\ pass'.required = pass.required /\ pass'.available = pass.available
    BY <1>0, <1>2 DEF PassStates
  <2>2. FundingTypes' /\ FillsInv' /\ AdmitInv' /\ \A p \in PlacedOrders : Open(p)' <=> Open(p)
    BY <1>0, <1>2, <2>1, OnlyPass
  <2>3. ~Open(Head(pass.list).order)'
    BY <1>0, <1>2, <2>1, <2>2
  <2>4. ListInv'
    BY <1>0, <1>2, <2>1, <2>3 DEF FundingInv, ListInv
  <2>5. KeptInv'
    BY <2>1 DEF FundingInv, KeptInv, KeptSum, KeptOn
  <2> QED
    BY <2>2, <2>4, <2>5 DEF FundingInv
<1>3. CASE /\ Open(o) /\ pass' = [pass EXCEPT !.step = "clob"]
           /\ orderRow' = [orderRow EXCEPT ![o].st = "cancelled"] /\ req' = Disturb
  <2>1. /\ pass' \in PassStates /\ pass'.step = "clob" /\ pass'.list = pass.list /\ pass'.sells = pass.sells
        /\ pass'.kept = pass.kept /\ pass'.required = pass.required /\ pass'.available = pass.available
    BY <1>0, <1>3 DEF PassStates
  <2>2. /\ orderRow' \in [PlacedOrders -> OrderRows] /\ orderRow'[o].st = "cancelled" /\ orderRow[o].st = "open"
        /\ \A p \in PlacedOrders : p # o => orderRow'[p] = orderRow[p]
        /\ \A p \in PlacedOrders : orderRow'[p].filled = orderRow[p].filled
    BY <1>0, <1>3 DEF FundingInv, FundingTypes, OrderRows, Open
  <2> HIDE DEF o
  <2>3. FundingTypes'
    BY <1>0, <1>3, <2>1, <2>2, DisturbFacts DEF FundingInv, FundingTypes
  <2>4. FillsInv'
    BY <1>0, <1>3, <2>2, DisturbFacts DEF FundingInv, FillsInv
  <2>5. AdmitInv'
    BY <1>0, <1>3, <2>2, DisturbFacts DEF FundingInv, AdmitInv
  <2>6. ListInv'
    <3>1. \A p \in PlacedOrders : orderRow[p].st # "none" => orderRow'[p].st # "none"
      BY <1>0, <2>2
    <3>2. ~Open(Head(pass.list).order)'
      BY <2>1, <2>2 DEF Open, o
    <3> QED
      BY <1>0, <2>1, <3>1, <3>2, ListsAreOrders DEF FundingInv, ListInv
  <2>7. KeptInv'
    BY <2>1 DEF FundingInv, KeptInv, KeptSum, KeptOn
  <2> QED
    BY <2>3, <2>4, <2>5, <2>6, <2>7 DEF FundingInv
<1> QED
  BY <1>1, <1>2, <1>3 DEF CancelRow

LEMMA CancelOnClobKeepsFunding ==
    ASSUME FundingInv, CancelOnClob
    PROVE  FundingInv'
<1> DEFINE o == Head(pass.list).order
<1>0. /\ pass.list # <<>> /\ o \in PlacedOrders /\ pass \in PassStates /\ pass.step = "clob"
      /\ UNCHANGED <<holdings, holdingsMirror, orderRow, spent, req>> /\ resting' \subseteq resting
  BY HeadAndTail DEF CancelOnClob, FundingInv, FundingTypes, ListInv
<1>1. \A p \in PlacedOrders : Open(p)' <=> Open(p)
  BY <1>0 DEF Open, Rem
<1>2. FillsInv' /\ AdmitInv'
  BY <1>0, <1>1, RequestsStand
<1>3. CASE pass' = NextOrder(pass)
  <2>1. pass' \in PassStates /\ ListInv' /\ KeptInv'
    BY <1>0, <1>3, NextOrderKeeps
  <2>2. FundingTypes'
    BY <1>0, <2>1 DEF FundingInv, FundingTypes
  <2> QED
    BY <1>2, <2>1, <2>2 DEF FundingInv
<1>4. CASE pass' = [pass EXCEPT !.step = "mark"]
  <2>1. /\ pass' \in PassStates /\ pass'.step = "mark" /\ pass'.list = pass.list /\ pass'.sells = pass.sells
        /\ pass'.kept = pass.kept /\ pass'.required = pass.required /\ pass'.available = pass.available
    BY <1>0, <1>4 DEF PassStates
  <2>2. FundingTypes'
    BY <1>0, <2>1 DEF FundingInv, FundingTypes
  <2>3. ~Open(Head(pass.list).order)'
    BY <1>0, <1>1, <2>1 DEF FundingInv, ListInv
  <2>4. ListInv'
    BY <1>0, <2>1, <2>3 DEF FundingInv, ListInv
  <2>5. KeptInv'
    BY <2>1 DEF FundingInv, KeptInv, KeptSum, KeptOn
  <2> QED
    BY <1>2, <2>2, <2>4, <2>5 DEF FundingInv
<1> QED
  BY <1>3, <1>4 DEF CancelOnClob

\* The row that is marked was not open any more.
LEMMA MarkKeepsFunding ==
    ASSUME FundingInv, MarkPredictionIntentAsEvicted
    PROVE  FundingInv'
<1> DEFINE o == Head(pass.list).order
<1>0. /\ pass.list # <<>> /\ o \in PlacedOrders /\ pass.step = "mark" /\ ~Open(o)
      /\ orderRow[o].st # "none" /\ pass' = NextOrder(pass)
      /\ UNCHANGED <<holdings, holdingsMirror, resting, spent, req>>
      /\ orderRow' \in {orderRow, [orderRow EXCEPT ![o].st = "evicted"]}
  <2>1. pass.step = "mark" /\ pass.list # <<>>
    BY DEF MarkPredictionIntentAsEvicted, FundingInv, ListInv
  <2>2. o \in PlacedOrders /\ orderRow[o].st # "none"
    BY <2>1, HeadAndTail DEF FundingInv, ListInv
  <2> QED
    BY <2>1, <2>2 DEF MarkPredictionIntentAsEvicted, FundingInv, ListInv
<1>1. /\ orderRow' \in [PlacedOrders -> OrderRows]
      /\ \A p \in PlacedOrders : p # o => orderRow'[p] = orderRow[p]
      /\ \A p \in PlacedOrders : orderRow'[p].filled = orderRow[p].filled
      /\ orderRow'[o].st \in {orderRow[o].st, "evicted"}
  <2> HIDE DEF o
  <2>1. orderRow \in [PlacedOrders -> OrderRows] /\ o \in PlacedOrders
    BY <1>0 DEF FundingInv, FundingTypes
  <2>2. CASE orderRow' = orderRow
    BY <2>1, <2>2
  <2>3. CASE orderRow' = [orderRow EXCEPT ![o].st = "evicted"]
    BY <2>1, <2>3 DEF OrderRows
  <2> QED
    BY <1>0, <2>2, <2>3
<1> HIDE DEF o
<1>2. \A p \in PlacedOrders : /\ Open(p)' <=> Open(p)
                              /\ orderRow[p].st = "none" <=> orderRow'[p].st = "none"
  BY <1>0, <1>1 DEF Open, Rem
<1>3. FillsInv' /\ AdmitInv'
  BY <1>0, <1>1, <1>2, RequestsStand
<1>4. pass' \in PassStates /\ ListInv' /\ KeptInv'
  BY <1>0, <1>2, NextOrderKeeps
<1>5. FundingTypes'
  BY <1>0, <1>1, <1>4 DEF FundingInv, FundingTypes
<1> QED
  BY <1>3, <1>4, <1>5 DEF FundingInv

-----------------------------------------------------------------------------
(* The theorems.                                                            *)

\* Every step keeps the invariant.
LEMMA FundingKeeps == FundingInv /\ [FundingNext]_fundingVars => FundingInv'
<1> SUFFICES ASSUME FundingInv, [FundingNext]_fundingVars PROVE FundingInv'
  OBVIOUS
<1>1. CASE UNCHANGED fundingVars
  <2>1. pass \in PassStates /\ UNCHANGED <<holdings, holdingsMirror, orderRow, resting, spent, req, pass>>
    BY <1>1 DEF fundingVars, FundingInv, FundingTypes
  <2>2. FundingTypes' /\ FillsInv' /\ AdmitInv' /\ \A p \in PlacedOrders : Open(p)' <=> Open(p)
    BY <2>1, OnlyPass
  <2>3. ListInv' /\ KeptInv'
    BY <2>1, <2>2, PassStands
  <2> QED
    BY <2>2, <2>3 DEF FundingInv
<1>2. CASE HoldingsCatchUp
  BY <1>2, CatchUpKeepsFunding
<1>3. CASE Cron
  BY <1>3, StartKeepsFunding, AvailableKeepsFunding, OrdersReadKeepsFunding, BalancesKeepsFunding,
     ValidateKeepsFunding, CancelRowKeepsFunding, CancelOnClobKeepsFunding, MarkKeepsFunding DEF Cron
<1>4. CASE PassFails
  BY <1>4, PassFailsKeepsFunding
<1>5. CASE \E a \in Assets : \E n \in 0 .. Funds[a] : Move(a, n)
  BY <1>5, MoveKeepsFunding
<1>6. CASE \E o \in PlacedOrders : Publish(o) \/ SettleFill(o) \/ FillIsBooked(o) \/ Request(o)
  BY <1>6, PublishKeepsFunding, SettleKeepsFunding, BookedKeepsFunding, ReadKeepsFunding,
     CheckKeepsFunding, CreateKeepsFunding DEF Request
<1> QED
  BY <1>1, <1>2, <1>3, <1>4, <1>5, <1>6 DEF FundingNext

\* The one step that opens an order is its insertion.
LEMMA OnlyInsertionOpens ==
    ASSUME FundingInv, FundingNext, NEW o \in PlacedOrders,
           orderRow[o].st = "none", orderRow'[o].st = "open"
    PROVE  CreateOrderIntent(o)
<1>1. orderRow \in [PlacedOrders -> OrderRows] /\ orderRow' # orderRow
  BY DEF FundingInv, FundingTypes
<1>2. PICK p \in PlacedOrders : CreateOrderIntent(p) \/ FillIsBooked(p) \/ CancelRow \/ MarkPredictionIntentAsEvicted
  BY <1>1 DEF FundingNext, Cron, Request, HoldingsCatchUp, PassFails, Move, Publish, SettleFill, ReadHeld,
     CheckHeld, StartPass, ReadAvailable, ReadOpenOrders, ReadBalances, validateAndKickout, CancelOnClob
<1>3. CASE CreateOrderIntent(p)
  BY <1>1, <1>3 DEF CreateOrderIntent, OrderRows
<1>4. CASE FillIsBooked(p)
  BY <1>1, <1>4 DEF FillIsBooked, OrderRows
<1>5. CASE CancelRow
  <2>1. PICK q : orderRow' = [orderRow EXCEPT ![q].st = "cancelled"]
    BY <1>1, <1>5 DEF CancelRow
  <2> QED
    BY <1>1, <2>1 DEF OrderRows
<1>6. CASE MarkPredictionIntentAsEvicted
  <2>1. PICK q : orderRow' = [orderRow EXCEPT ![q].st = "evicted"]
    BY <1>1, <1>6 DEF MarkPredictionIntentAsEvicted
  <2> QED
    BY <1>1, <2>1 DEF OrderRows
<1> QED
  BY <1>2, <1>3, <1>4, <1>5, <1>6

\* What the open SELLs of a side can still take is no more than what the request
\* has counted as reserved, which does not know the latest fills, and its own.
LEMMA InsertionIsCovered ==
    ASSUME FundingInv, NEW o \in PlacedOrders, CreateOrderIntent(o), req[o].quiet, Terms[o].action = "SELL"
    PROVE  Demand(Asset(o), PlacedOrders)' <= holdings[Asset(o)]
<1> DEFINE S == OpenSells(o)
           f == [p \in PlacedOrders |-> Rem(p)]
           g == [p \in PlacedOrders |-> Terms[p].qty - spent[p]]
<1>1. /\ req[o].step = "checked" /\ orderRow[o].st = "none" /\ spent[o] = 0 /\ spent' = spent
      /\ orderRow' = [orderRow EXCEPT ![o].st = "open"] /\ orderRow \in [PlacedOrders -> OrderRows]
      /\ reserved(o) + Terms[o].qty <= holdings[Asset(o)]
  BY DEF CreateOrderIntent, FundingInv, FundingTypes, FillsInv, AdmitInv
<1>2. IsFiniteSet(S) /\ S \subseteq PlacedOrders /\ o \notin S
  BY <1>1, FundingAssumption, FS_Subset DEF OpenSells, Open
<1>3. \A p \in PlacedOrders : Open(p)' <=> (Open(p) \/ p = o)
  <2>1. Open(o)'
    BY <1>1, AssetFacts DEF FundingInv, FillsInv, Open, Rem, OrderRows
  <2>2. \A p \in PlacedOrders : p # o => orderRow'[p] = orderRow[p]
    BY <1>1
  <2> QED
    BY <2>1, <2>2 DEF Open, Rem
<1>4. Demand(Asset(o), PlacedOrders)' = SumFunctionOnSet(g, S \cup {o})
  <2>1. Demanding(Asset(o), PlacedOrders)' = S \cup {o}
    BY <1>3 DEF Demanding, OpenSells, Asset
  <2>2. [p \in PlacedOrders |-> Terms[p].qty - spent[p]]' = g
    BY <1>1
  <2> QED
    BY <2>1, <2>2 DEF Demand
<1>5. \A p \in S : f[p] \in Nat /\ g[p] \in Nat /\ g[p] <= f[p]
  <2> SUFFICES ASSUME NEW p \in PlacedOrders
               PROVE  /\ Terms[p].qty - orderRow[p].filled \in Nat /\ Terms[p].qty - spent[p] \in Nat
                      /\ Terms[p].qty - spent[p] <= Terms[p].qty - orderRow[p].filled
    BY <1>2 DEF Rem
  <2>1. /\ orderRow[p].filled \in Nat /\ spent[p] \in Nat /\ Terms[p].qty \in Nat
        /\ orderRow[p].filled <= spent[p] /\ spent[p] <= Terms[p].qty
    BY AssetFacts DEF FundingInv, FundingTypes, FillsInv, OrderRows
  <2> QED
    BY <2>1
<1>6. g[o] = Terms[o].qty /\ Terms[o].qty \in Nat
  BY <1>1, AssetFacts
<1>7. reserved(o) = SumFunctionOnSet(f, S)
  BY DEF reserved
<1>8. holdings[Asset(o)] \in Nat /\ reserved(o) \in Nat
  BY ReservedType, AssetFacts DEF FundingInv, FundingTypes
<1> HIDE DEF S, f, g
<1>9. SumFunctionOnSet(g, S \cup {o}) = Terms[o].qty + SumFunctionOnSet(g, S)
  BY <1>2, <1>5, <1>6, SumOfAdded
<1>10. SumFunctionOnSet(g, S) <= SumFunctionOnSet(f, S) /\ SumFunctionOnSet(g, S) \in Nat
  BY <1>2, <1>5, SumPointwise, SumType
<1>11. SumFunctionOnSet(g, S \cup {o}) <= holdings[Asset(o)]
  BY <1>1, <1>6, <1>7, <1>8, <1>9, <1>10
<1> QED
  BY <1>4, <1>11

\* The types of account, rows and book, and that the row of an order lags behind its
\* fills and these end with its quantity, for any orders, funds and number of moves.
THEOREM FundingTyped == FundingSpec => []FundingTypeOK
<1>1. FundingInv => FundingTypeOK
  BY DEF FundingInv, FundingTypes, FillsInv, FundingTypeOK, OrderRows
<1> QED
  BY <1>1, FundingStarts, FundingKeeps, PTL DEF FundingSpec

\* OrdersAreBacked (CreatePredictionIntent, cronKickOutUnfunded.go): for any orders and
\* funds and however they move, what a pass keeps fits into what it read of the account,
\* and a SELL whose reads nothing disturbed is covered with the other open SELLs.
THEOREM FundingSafe == FundingSpec => OrdersAreBacked
<1>1. FundingInv => \A a \in Assets : KeptOf(a) <= pass.available[a]
  BY DEF FundingInv, KeptInv, KeptSum, KeptOn, KeptOf
<1>2. FundingInv /\ [FundingNext]_fundingVars => [SellCovered]_fundingVars
  <2> SUFFICES ASSUME FundingInv, FundingNext PROVE SellCovered
    OBVIOUS
  <2> QED
    BY OnlyInsertionOpens, InsertionIsCovered DEF SellCovered
<1> QED
  BY <1>1, <1>2, FundingStarts, FundingKeeps, PTL DEF FundingSpec, OrdersAreBacked
=============================================================================
