--------------------------- MODULE MCWebhookInbox ---------------------------
(***************************************************************************)
(* An instance of WebhookInbox for TLC that remembers whether two          *)
(* deliveries were ever in flight together.                                *)
(***************************************************************************)
EXTENDS WebhookInbox

VARIABLE overlapped

mcVars == <<vars, overlapped>>

MCInit == Init /\ overlapped = FALSE

MCNext ==
    /\ Next
    /\ overlapped' = (overlapped \/ \E c, d \in Deliveries :
                                       c # d /\ pc'[c] # "idle" /\ pc'[d] # "idle")

MCSpec == MCInit /\ [][MCNext]_mcVars
MCFairSpec == MCSpec /\ Fairness

\* As long as deliveries came one after the other, an event that Stripe will not send again
\* and that had no effect is parked for review (NothingLost of WebhookInbox; billing.py
\* 1076-1140).
SerialNothingLost == ~overlapped => NothingLost

\* As long as deliveries came one after the other, the event has its effects at most once,
\* wherever a handler failed, an answer was lost or the process died in between: a repeated
\* delivery finds what the one before it has committed (EffectsOnce of WebhookInbox;
\* billing.py 1076 and 1150).
SerialEffectsOnce == ~overlapped => EffectsOnce
=============================================================================
