------------------------------ MODULE MaxFill ------------------------------
(***************************************************************************)
(* max_fill of clob/src/matching.rs, lines 47-68, as the loop the code     *)
(* runs: a binary search for the largest fill that keeps both purchases    *)
(* within their caps, and then the check that both legs are paid.          *)
(***************************************************************************)
EXTENDS Matching

CONSTANTS
    Bids, Asks,   \* bound: the orders max_fill is called with
    MaxUpper      \* bound: largest fill asked for

OrderType ==
    [side : {"YES", "NO"}, action : {"BUY", "SELL"}, collateralFilled : Nat, collateralCap : Nat]

ASSUME MaxFillAssumption ==
    /\ Bids \subseteq OrderType
    /\ Asks \subseteq OrderType
    /\ MaxUpper \in Nat

VARIABLES
    bid, ask, price, upper,   \* the arguments
    lo, hi,
    result,
    pc

args == <<bid, ask, price, upper>>
searchVars == <<args, lo, hi, result, pc>>

SearchInit ==
    /\ bid \in Bids /\ ask \in Asks
    /\ price \in 0 .. PRICE_SCALE
    /\ upper \in 0 .. MaxUpper
    /\ lo = 0 /\ hi = 0
    /\ result = None
    /\ pc = "enter"

\* A guess below the whole of upper starts the search at zero.
Enter ==
    /\ pc = "enter"
    /\ IF upper = 0 \/ price = 0 \/ price >= PRICE_SCALE
       THEN pc' = "done" /\ UNCHANGED <<lo, hi>>
       ELSE /\ pc' = "search"
            /\ hi' = upper
            /\ lo' = IF CapsOk(bid, ask, upper, price) THEN upper ELSE 0
    /\ UNCHANGED <<args, result>>

\* Mutant: mid is rounded down.
HalveDown ==
    LET mid == lo + (hi - lo) \div 2
    IN  /\ pc = "search"
        /\ lo < hi
        /\ IF CapsOk(bid, ask, mid, price)
           THEN lo' = mid /\ hi' = hi
           ELSE lo' = lo /\ hi' = mid - 1
        /\ UNCHANGED <<args, result, pc>>

Halve ==
    LET mid == lo + (hi - lo + 1) \div 2
    IN  /\ pc = "search"
        /\ lo < hi
        /\ IF CapsOk(bid, ask, mid, price)
           THEN lo' = mid /\ hi' = hi
           ELSE lo' = lo /\ hi' = mid - 1
        /\ UNCHANGED <<args, result, pc>>

\* Mutant: a fill that leaves a leg unpaid is returned.
FinishUnsplit ==
    /\ pc = "search"
    /\ lo >= hi
    /\ result' = lo
    /\ pc' = "done"
    /\ UNCHANGED <<args, lo, hi>>

Finish ==
    /\ pc = "search"
    /\ lo >= hi
    /\ result' = IF split_collateral(lo, price) THEN lo ELSE None
    /\ pc' = "done"
    /\ UNCHANGED <<args, lo, hi>>

SearchNext == Enter \/ Halve \/ Finish

SearchSpec == SearchInit /\ [][SearchNext]_searchVars

\* A function that is called runs to its end.
FairSearch == SearchSpec /\ WF_searchVars(SearchNext)

-----------------------------------------------------------------------------
(* Properties. *)

\* Type invariant: both ends of the search stay within 0 .. upper.
SearchTypeOK ==
    /\ bid \in OrderType /\ ask \in OrderType
    /\ price \in 0 .. PRICE_SCALE
    /\ upper \in Nat /\ lo \in 0 .. upper /\ hi \in 0 .. upper
    /\ result \in 0 .. upper \cup {None}
    /\ pc \in {"enter", "search", "done"}

\* A fill the contract accepts from both orders.
Admissible(fill) == split_collateral(fill, price) /\ CapsOk(bid, ask, fill, price)

\* "invariant: caps_ok(lo); answer in [lo, hi]" (matching.rs:60): every fill
\* up to lo is within the caps (unless lo is still the untested zero) and
\* every fill above hi breaks one.
SearchInvariant ==
    pc = "search" =>
        /\ lo <= hi
        /\ lo # 0 => CapsOk(bid, ask, lo, price)
        /\ \A fill \in (hi + 1) .. upper : ~CapsOk(bid, ask, fill, price)

\* "Largest fill <= upper that keeps both BUY legs within their collateral
\* caps and gives both legs a positive payment" (matching.rs:47-49): the
\* search misses no larger one, and gives up only if there is none at all.
ResultIsLargest ==
    pc = "done" =>
        /\ result # None => Admissible(result)
        /\ \A fill \in 1 .. upper : Admissible(fill) => result # None /\ fill <= result

\* The function the book's model calls is this loop.
LoopIsMaxFill == pc = "done" => result = max_fill(bid, ask, price, upper)

\* The search ends (matching.rs:63-66 rounds mid up for this).
SearchEnds == <>(pc = "done")
=============================================================================
