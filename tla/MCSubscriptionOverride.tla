----------------------- MODULE MCSubscriptionOverride -----------------------
(***************************************************************************)
(* Instances for TLC of SubscriptionLifecycle and SubscriptionOverride.    *)
(* MCSpec has two, side by side: events in order with an administrator who *)
(* sets the status by hand, and events that arrive in any order; the       *)
(* constants of the module are those of the first, about which             *)
(* SubscriptionLifecycleProofs has a theorem.  PlainFairSpec has the       *)
(* events alone, in the order and with the constants its cfg says.         *)
(***************************************************************************)
EXTENDS SubscriptionOverride

VARIABLE byHand     \* which of the two a behaviour is of

AnyOrder == INSTANCE SubscriptionOverride WITH
    InOrder <- FALSE, Remind <- {1, 2}, Grace <- 3, MaxActions <- 4, MaxNow <- 6

MCInit ==
    \/ byHand = TRUE /\ OInit
    \/ byHand = FALSE /\ AnyOrder!OInit

MCNext ==
    \/ byHand /\ ONext /\ UNCHANGED byHand
    \/ ~byHand /\ AnyOrder!Next /\ UNCHANGED <<byHand, overrides, standing, before>>

MCSpec == MCInit /\ [][MCNext]_<<ovars, byHand>>

\* Events alone, with the fairness of SubscriptionLifecycle; the clock stops at MaxNow.
PlainInit == byHand = FALSE /\ OInit
PlainNext == Next /\ now' <= MaxNow /\ UNCHANGED <<byHand, overrides, standing, before>>
PlainFairSpec == PlainInit /\ [][PlainNext]_<<ovars, byHand>> /\ Fairness

\* What an administrator set stands until Stripe's next event about the status is read, and
\* not longer (Heals of SubscriptionOverride; admin.py 2142-2190).
HealsByHand == byHand => Heals
=============================================================================
