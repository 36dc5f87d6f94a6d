----------------------------- MODULE PromoCodes -----------------------------
(***************************************************************************)
(* One promotion code, the users who redeem it or take its discount to     *)
(* checkout, and the administrator who changes it.                         *)
(*                                                                         *)
(* A request loads the row of the code, then locks it with SELECT ... FOR  *)
(* UPDATE.  The session keeps the object it loaded first: the locked       *)
(* SELECT does not refresh its attributes, so what a request decides on is *)
(* the row as it was before it waited (seen), while the redemptions it     *)
(* looks up next are current.                                              *)
(***************************************************************************)
EXTENDS Integers, FiniteSets

CONSTANTS
    Users,
    Requests,   \* requests and webhook deliveries; each is served once
    Nobody,     \* no request holds the row lock
    MaxLimit,   \* bound: the largest max_redemptions
    Overlap     \* requests may overlap

\* What the modules that instantiate this one assume of its constants.
PromoAssumption ==
    /\ Nobody \notin Requests
    /\ MaxLimit \in Nat \ {0}
    /\ Overlap \in BOOLEAN

VARIABLES
    row,        \* the committed PromoCode
    grantType,  \* its grant_type: a grant, or a discount at checkout
    allowed,    \* the users it is not restricted against
    clock,      \* now
    redeemed,   \* committed PromoRedemption rows
    granted,    \* committed AdminUserGrant rows of each user
    sessions,   \* open Stripe checkouts of each user that carry the discount
    paid,       \* payments of each user made with the discount
    lock,       \* the request that holds the row lock
    pc, job, seen

vars == <<row, grantType, allowed, clock, redeemed, granted, sessions, paid,
          lock, pc, job, seen>>
code == <<row, grantType, allowed, clock>>
stripe == <<sessions, paid>>

\* expires_at is a tick of the clock; the last one is never reached.
Dues == 1 .. 2
Clock == 0 .. 1
Row == [limit : 1 .. MaxLimit, count : Nat, active : BOOLEAN, due : Dues]
Unseen == [limit |-> 1, count |-> 0, active |-> TRUE, due |-> 1]

\* redeem: POST /promo/redeem.  checkout: create_checkout_session.
\* record: checkout.session.completed of a payment with the discount.
Job == [op : {"redeem", "checkout", "record"}, user : Users]

Init ==
    /\ row \in [limit : 1 .. MaxLimit, count : {0}, active : {TRUE}, due : Dues]
    /\ grantType \in {"grant", "discount"}
    /\ allowed \in {Users} \cup {{u} : u \in Users}
    /\ clock = 0
    /\ redeemed = {}
    /\ granted = [u \in Users |-> 0]
    /\ sessions = [u \in Users |-> 0]
    /\ paid = [u \in Users |-> 0]
    /\ lock = Nobody
    /\ pc = [r \in Requests |-> "idle"]
    /\ job \in [Requests -> Job]
    /\ seen = [r \in Requests |-> Unseen]

Goto(r, l) == pc' = [pc EXCEPT ![r] = l]
Running(r) == pc[r] \in {"lock", "decide", "commit"}
Quiet == \A r \in Requests : ~Running(r)
User(r) == job[r].user

\* is_redeemable, and the same three tests in redeem_promo_code.
Redeemable(p) == p.active /\ clock < p.due /\ p.count < p.limit

\* _lookup_promo_for_compare.  A code of the wrong type is unknown here, for a
\* redemption it is found to be one after the lock.
Lookup(r) ==
    /\ pc[r] = "idle"
    /\ Overlap \/ Quiet
    /\ job[r].op = "record" => paid[User(r)] > 0
    /\ IF job[r].op = "redeem" \/ grantType = "discount"
       THEN Goto(r, "lock") /\ seen' = [seen EXCEPT ![r] = row]
       ELSE Goto(r, "done") /\ UNCHANGED seen
    /\ UNCHANGED <<code, redeemed, granted, stripe, lock, job>>

\* SELECT ... FOR UPDATE: waits, keeps the attributes already loaded.
Lock(r) ==
    /\ pc[r] = "lock" /\ lock = Nobody
    /\ lock' = r
    /\ Goto(r, "decide")
    /\ UNCHANGED <<code, redeemed, granted, stripe, job, seen>>

Leave(r, l) ==
    /\ Goto(r, l)
    /\ lock' = IF lock = r THEN Nobody ELSE lock
    /\ seen' = [seen EXCEPT ![r] = Unseen]

\* The webhook does not ask whom the code is restricted to.
Admitted(r) ==
    /\ job[r].op = "redeem" => grantType = "grant"
    /\ job[r].op # "record" => User(r) \in allowed

Accepts(r) ==
    /\ Admitted(r)
    /\ User(r) \notin redeemed
    /\ Redeemable(seen[r])

\* An error, or for a redemption made before the answer of that one.
Refuse(r) ==
    /\ pc[r] = "decide" /\ ~Accepts(r)
    /\ Leave(r, "done")
    /\ UNCHANGED <<code, redeemed, granted, stripe, job>>

\* The checkout goes to Stripe with the discount; nothing is reserved.
Discount(r) ==
    /\ pc[r] = "decide" /\ Accepts(r)
    /\ job[r].op = "checkout"
    /\ sessions' = [sessions EXCEPT ![User(r)] = @ + 1]
    /\ Leave(r, "done")
    /\ UNCHANGED <<code, redeemed, granted, paid, job>>

\* The redemption, the count and the grant are added to the session.
Accept(r) ==
    /\ pc[r] = "decide" /\ Accepts(r)
    /\ job[r].op # "checkout"
    /\ Goto(r, "commit")
    /\ UNCHANGED <<code, redeemed, granted, stripe, lock, job, seen>>

NextCountTwice(r) == seen[r].count + 2

\* redemption_count += 1 on the loaded object
NextCount(r) == seen[r].count + 1

Commit(r) ==
    /\ pc[r] = "commit"
    /\ redeemed' = redeemed \cup {User(r)}
    /\ row' = [row EXCEPT !.count = NextCount(r)]
    /\ granted' = IF job[r].op = "redeem" THEN [granted EXCEPT ![User(r)] = @ + 1]
                  ELSE granted
    /\ Leave(r, "done")
    /\ UNCHANGED <<grantType, allowed, clock, stripe, job>>

Crash(r) ==
    /\ pc[r] \in {"lock", "decide", "commit"}
    /\ Leave(r, "lost")
    /\ UNCHANGED <<code, redeemed, granted, stripe, job>>

\* The user pays an open checkout.
Pay(u) ==
    /\ sessions[u] > 0
    /\ sessions' = [sessions EXCEPT ![u] = @ - 1]
    /\ paid' = [paid EXCEPT ![u] = @ + 1]
    /\ UNCHANGED <<code, redeemed, granted, lock, pc, job, seen>>

\* admin_promo_codes_update: one locked transaction on a row loaded under the lock.
Update ==
    /\ lock = Nobody
    /\ Overlap \/ Quiet
    /\ \E l \in 1 .. MaxLimit, a \in BOOLEAN, d \in Dues :
          row' = [row EXCEPT !.limit = l, !.active = a, !.due = d]
    /\ UNCHANGED <<grantType, allowed, clock, redeemed, granted, stripe, lock, pc, job, seen>>

Tick ==
    /\ clock = 0 /\ clock' = 1
    /\ UNCHANGED <<row, grantType, allowed, redeemed, granted, stripe, lock, pc, job, seen>>

Next ==
    \/ \E r \in Requests :
        \/ Lookup(r) \/ Lock(r) \/ Refuse(r) \/ Discount(r) \/ Accept(r)
        \/ Commit(r) \/ Crash(r)
    \/ \E u \in Users : Pay(u)
    \/ Update \/ Tick

Spec == Init /\ [][Next]_vars

-----------------------------------------------------------------------------
TypeOK ==
    /\ row \in Row
    /\ grantType \in {"grant", "discount"}
    /\ allowed \in SUBSET Users
    /\ clock \in Clock
    /\ redeemed \in SUBSET Users
    /\ granted \in [Users -> Nat]
    /\ sessions \in [Users -> Nat]
    /\ paid \in [Users -> Nat]
    /\ lock \in Requests \cup {Nobody}
    /\ pc \in [Requests -> {"idle", "lock", "decide", "commit", "lost", "done"}]
    /\ job \in [Requests -> Job]
    /\ seen \in [Requests -> Row]

\* Redeeming twice at the same moment never fails on UNIQUE (promo_code_id,
\* user_id): the second request waits for the first and finds its redemption.
NoDuplicateError == \A r \in Requests : pc[r] = "commit" => User(r) \notin redeemed

\* A user who redeemed a grant has exactly one, and nobody else has any.
GrantedOnce ==
    grantType = "grant" => \A u \in Users : granted[u] = IF u \in redeemed THEN 1 ELSE 0

\* The count never runs ahead of the redemptions, whatever overlaps: nobody is
\* told that a code is used up while some of it is left.
CountNotAhead == row.count <= Cardinality(redeemed)

\* Requests one at a time: the count is the number of redemptions, and a redemption
\* is added only below the limit of a live code.
CountTrue == ~Overlap => row.count = Cardinality(redeemed)
BelowLimit == ~Overlap /\ redeemed' # redeemed => Cardinality(redeemed) < row.limit
WithinLimit == [][BelowLimit]_vars

(***************************************************************************)
(* Why it holds: the lock is held from the decision to the commit, a       *)
(* request in it is of the kind of the code, and a loaded row is never     *)
(* ahead of the redemptions.  One at a time, it is the committed row.      *)
(***************************************************************************)
LockSound == \A r \in Requests : pc[r] \in {"decide", "commit"} <=> lock = r

KindSound ==
    \A r \in Requests :
        /\ Running(r) => job[r].op = "redeem" \/ grantType = "discount"
        /\ pc[r] = "commit" => job[r].op # "checkout"

SeenNotAhead == \A r \in Requests : seen[r].count <= Cardinality(redeemed)

SeenInTurn ==
    ~Overlap => \A r \in Requests : Running(r) =>
        /\ seen[r] = row
        /\ \A o \in Requests : Running(o) => o = r
        /\ pc[r] = "commit" => row.count < row.limit

PromoInv ==
    /\ TypeOK /\ IsFiniteSet(redeemed)
    /\ LockSound /\ KindSound /\ SeenNotAhead /\ SeenInTurn
    /\ NoDuplicateError /\ GrantedOnce /\ CountNotAhead /\ CountTrue

(***************************************************************************)
(* Claims the code does not keep                                           *)
(***************************************************************************)
\* A code that may be redeemed max_redemptions times is not redeemed more often
\* (tests/unit/test_promo_redeem.py:231 test_promo_redeem_exhausted_code).
LimitKept ==
    [][redeemed' # redeemed => Cardinality(redeemed) < row.limit]_vars

\* Every payment made with the discount is recorded when its webhook has been
\* handled (promo_offers.py:213 "Persist a checkout discount redemption after
\* successful payment.").
PaidIsRecorded ==
    \A r \in Requests :
        pc[r] = "done" /\ job[r].op = "record" /\ Quiet => User(r) \in redeemed
=============================================================================
