-------------------------- MODULE SubscriptionOverride --------------------------
(***************************************************************************)
(* SubscriptionLifecycle with the administrator's endpoint that sets the   *)
(* status of the latest subscription by hand: it locks the row, writes the *)
(* status and leaves the ordering mark, payment_failed_at and Stripe's own *)
(* record as they are.                                                     *)
(***************************************************************************)
EXTENDS SubscriptionLifecycle

CONSTANT MaxOverrides   \* bound: interventions

ASSUME OverrideAssumption == MaxOverrides \in Nat

VARIABLES
    overrides,  \* how many interventions there were
    standing,   \* history: no event read after the last one has set the status since
    before      \* history: requests that read the row before the last intervention

ovars == <<vars, overrides, standing, before>>

OInit == Init /\ overrides = 0 /\ standing = FALSE /\ before = {}

\* grant (active), revoke (expired) and reset_status (any status)
Override(st) ==
    /\ row.status # "absent" /\ overrides < MaxOverrides
    /\ row' = [row EXCEPT !.status = st]
    /\ overrides' = overrides + 1
    /\ standing' = TRUE
    /\ before' = {w \in Workers : job[w] # Idle}
    /\ UNCHANGED <<world, job, outbox, reminded, now>>

\* A handler in progress finishes; the intervention no longer stands when the handler
\* read the row after it, and takes the status from Stripe's.
Finish(w) ==
    /\ Apply(w)
    /\ standing' = (standing /\ ~(/\ w \notin before
                                  /\ job[w].event.type \in Snapshot \cup {"deleted"}
                                  /\ ~OutOfOrder(job[w].event, job[w].copy)))
    /\ before' = before \ {w}
    /\ UNCHANGED overrides

Refuse(w) == Reject(w) /\ before' = before \ {w} /\ UNCHANGED <<overrides, standing>>

Others ==
    /\ StripeActs \/ Tick \/ Clock \/ \E w \in Workers, e \in pending : Load(w, e)
    /\ UNCHANGED <<overrides, standing, before>>

ONext ==
    \/ \E st \in Statuses \ {"absent"} : Override(st)
    \/ \E w \in Workers : Finish(w) \/ Refuse(w)
    \/ Others

OSpec == OInit /\ [][ONext]_ovars
OFairSpec == OSpec /\ Fairness

(***************************************************************************)
(* Properties                                                              *)
(***************************************************************************)
\* What an administrator set stands until Stripe's next event about the status is read,
\* and not longer: then the row says again what Stripe says.
Heals ==
    Settled /\ ~standing /\ stripe.status # "none" => row.status \in Expected

(***************************************************************************)
(* A claim the code does not keep                                          *)
(***************************************************************************)
\* No subscription stays in grace for ever, one an administrator put there included
\* (grace_tick.py:12); refuted by TLC (README, section 5).
GraceEndsToo == GraceEnds
=============================================================================
