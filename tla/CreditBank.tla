----------------------------- MODULE CreditBank -----------------------------
(***************************************************************************)
(* What the credit ledger promises its callers: one balance per credit     *)
(* kind, changed by operations that each take effect at one instant.       *)
(*                                                                         *)
(* A grant adds credits, and a grant that carries a Stripe event id takes  *)
(* effect once per (event, kind).  A spend takes effect only while the     *)
(* balance covers it.  A claw-back (an administrator's revoke) removes     *)
(* credits whatever the balance is at that instant, and is accounted for   *)
(* apart from the spends (revoked).                                        *)
(***************************************************************************)
EXTENDS Integers

CONSTANTS
    Kinds,      \* the credit kinds that partition the ledger
    Amounts,    \* how many credits one operation moves (positive)
    Events,     \* Stripe event ids
    NoEvent     \* the operation carries no event id (not in Events)

VARIABLES balance, revoked, keyed

bankVars == <<balance, revoked, keyed>>

BankInit ==
    /\ balance \in [Kinds -> Nat]
    /\ revoked = [k \in Kinds |-> 0]
    /\ keyed = [key \in Events \X Kinds |-> 0]

BankGrant(k, n, e) ==
    /\ e # NoEvent => keyed[<<e, k>>] = 0
    /\ balance' = [balance EXCEPT ![k] = @ + n]
    /\ keyed' = IF e = NoEvent THEN keyed ELSE [keyed EXCEPT ![<<e, k>>] = n]
    /\ UNCHANGED revoked

BankSpend(k, n) ==
    /\ balance[k] >= n
    /\ balance' = [balance EXCEPT ![k] = @ - n]
    /\ UNCHANGED <<revoked, keyed>>

BankClawBack(k, n) ==
    /\ balance' = [balance EXCEPT ![k] = @ - n]
    /\ revoked' = [revoked EXCEPT ![k] = @ + n]
    /\ UNCHANGED keyed

BankNext ==
    \E k \in Kinds, n \in Amounts :
        \/ \E e \in Events \cup {NoEvent} : BankGrant(k, n, e)
        \/ BankSpend(k, n)
        \/ BankClawBack(k, n)

BankSpec == BankInit /\ [][BankNext]_bankVars
=============================================================================
