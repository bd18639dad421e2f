------------------------------ MODULE Requests ------------------------------
(***************************************************************************)
(* What an account asks of the API about what is its own: the cancellation *)
(* of an order and the claim of its rewards.  The two share no variable;   *)
(* a step is one of either.                                                *)
(***************************************************************************)
EXTENDS CancelOrder, RewardsClaim

requestVars == <<cancelVars, claimVars>>

RequestsInit == CancelInit /\ ClaimInit

RequestsNext ==
    \/ CancelNext /\ UNCHANGED claimVars
    \/ ClaimNext /\ UNCHANGED cancelVars

RequestsSpec == RequestsInit /\ [][RequestsNext]_requestVars

-----------------------------------------------------------------------------
(* Properties. *)

\* A cancellation (CancelPredictionIntent, Portfolio.tsx): only an owner's
\* signature cancels, "cancelled" is final, no own signature is refused, and a
\* page has one cancellation under way.
CancelIsHonest ==
    CancelledByOwner /\ ToldIsOut /\ SignatureAccepted /\ OneCancelAtATime

\* A claim (ClaimPrism, useClaimPrism.ts): a tab has one under way, what it was told
\* it received is paid and no longer offered once the balances are read, and a
\* reward is paid no more often than claims of it can race or fail half way.
ClaimIsHonest == OneClaimAtATime /\ ClaimedNotOffered /\ PaidPerRace

\* What the API is asked for and what it answers are true: both of the above.
RequestsAreHonest == CancelIsHonest /\ ClaimIsHonest
=============================================================================
