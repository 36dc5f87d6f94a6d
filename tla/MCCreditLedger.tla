--------------------------- MODULE MCCreditLedger ---------------------------
(***************************************************************************)
(* Instances of CreditLedger for TLC: which requests arrive.               *)
(***************************************************************************)
EXTENDS CreditLedger, TLC

CONSTANTS Pack, e1

Q(op, kind, amount, event) ==
    [op |-> op, kind |-> kind, amount |-> amount, event |-> event]

\* Spends and claw-backs against each other.
MCRevoke ==
    {Q("consume", Free, 1, NoEvent), Q("deduct", Free, 2, NoEvent),
     Q("revoke", Free, 1, NoEvent), Q("revoke", Pack, 1, NoEvent),
     Q("grant", Pack, 1, e1)}

\* One revoke beside one spend: no two transactions serve the same request.
MCRevokeRace == {Q("consume", Free, 1, NoEvent), Q("revoke", Free, 1, NoEvent)}
Apart == \A t, u \in Txns : t # u => req[t] # req[u]
RaceSpec == Init /\ Apart /\ [][Next]_vars

\* Writers, and one reader that keeps polling.
MCPolling ==
    {Q("consume", Free, 1, NoEvent), Q("deduct", Free, 2, NoEvent),
     Q("grant", Free, 1, NoEvent), Q("reverse", Free, 1, NoEvent),
     Q("heal", Free, 1, NoEvent)}

Symmetry == Permutations(Txns)
=============================================================================
