----------------------------- MODULE RefundDesk -----------------------------
(***************************************************************************)
(* Refund requests, the administrators who decide them and Stripe.         *)
(*                                                                         *)
(* A refund record is created by a request that queues it or by the        *)
(* self-service path, which refunds at once; administrators approve or     *)
(* deny records.  Each request is one database transaction that locks the  *)
(* record with SELECT ... FOR UPDATE and calls Stripe in the middle; what  *)
(* Stripe has done stays done when the transaction rolls back.  The row,   *)
(* the credit reversal and the audit entry are committed together.         *)
(***************************************************************************)
EXTENDS Integers, Sequences, FiniteSets

CONSTANTS
    Records,    \* refund records (uuids)
    Workers,    \* requests; each is served once
    Nobody      \* no request holds the lock

\* What the modules that instantiate this one assume of its constants.
DeskAssumption == Nobody \notin Workers

VARIABLES
    rid,        \* committed stripe_refund_id of each record
    trail,      \* committed audit entries about each record, in order
    reversals,  \* committed refund_reverse ledger rows of each record
    refunds,    \* Stripe: the record each refund was made for, by refund id
    window,     \* the 24 hours after the subscription began have not passed
    pc,         \* the step a request is about to take
    job,        \* what it was asked to do
    saw,        \* stripe_refund_id on the row it loaded
    new,        \* stripe_refund_id it is going to commit
    lock        \* the request that holds the row lock of each record

vars == <<rid, trail, reversals, refunds, window, pc, job, saw, new, lock>>

\* stripe_refund_id: no row, "pending_...", "denied_...", or the id from Stripe.
Absent == -3
Denied == -2
Pending == -1
RefundIds == Nat \ {0}
Ids == {Absent, Denied, Pending} \cup RefundIds

Creates == {"queue", "self"}
Decides == {"approve", "deny"}
\* reverse: the administrator's body carries a credit_reverse_delta.
Job == {j \in [op : Creates \cup Decides, rec : Records, reverse : BOOLEAN] :
            j.op \in Creates => ~j.reverse}
Entry == [act : Creates \cup Decides, before : Ids, after : Ids]

Init ==
    /\ rid = [r \in Records |-> Absent]
    /\ trail = [r \in Records |-> << >>]
    /\ reversals = [r \in Records |-> 0]
    /\ refunds = << >>
    /\ window \in BOOLEAN
    /\ pc = [w \in Workers |-> "idle"]
    /\ job \in [Workers -> Job]
    /\ saw = [w \in Workers |-> Absent]
    /\ new = [w \in Workers |-> Absent]
    /\ lock = [r \in Records |-> Nobody]

Rec(w) == job[w].rec
Goto(w, l) == pc' = [pc EXCEPT ![w] = l]
Unlocked(w) == [r \in Records |-> IF lock[r] = w THEN Nobody ELSE lock[r]]

\* The record's uuid is new: no other request creates the same one.
Fresh(w) == \A u \in Workers \ {w} : job[u].op \in Creates => Rec(u) # Rec(w)

\* The queue branch of subscriptions_refund_request inserts a pending record.
Queue(w) ==
    /\ pc[w] = "idle" /\ job[w].op = "queue" /\ Fresh(w)
    /\ new' = [new EXCEPT ![w] = Pending]
    /\ Goto(w, "commit")
    /\ UNCHANGED <<rid, trail, reversals, refunds, window, job, saw, lock>>

\* self_service_refund: outside the window RefundError, else an own pending row.
SelfService(w) ==
    /\ pc[w] = "idle" /\ job[w].op = "self" /\ Fresh(w)
    /\ Goto(w, IF window THEN "stripe" ELSE "done")
    /\ new' = [new EXCEPT ![w] = Pending]
    /\ UNCHANGED <<rid, trail, reversals, refunds, window, job, saw, lock>>

LookupUnlocked(w) ==
    /\ pc[w] = "idle" /\ job[w].op \in Decides
    /\ rid[Rec(w)] # Absent
    /\ saw' = [saw EXCEPT ![w] = rid[Rec(w)]]
    /\ Goto(w, IF job[w].op = "approve" THEN "stripe" ELSE "write")
    /\ UNCHANGED <<rid, trail, reversals, refunds, window, job, new, lock>>

\* approve_refund and deny_refund lock the record; nothing asks for its state.
Lookup(w) ==
    /\ pc[w] = "idle" /\ job[w].op \in Decides
    /\ rid[Rec(w)] # Absent
    /\ lock[Rec(w)] = Nobody
    /\ lock' = [lock EXCEPT ![Rec(w)] = w]
    /\ saw' = [saw EXCEPT ![w] = rid[Rec(w)]]
    /\ Goto(w, IF job[w].op = "approve" THEN "stripe" ELSE "write")
    /\ UNCHANGED <<rid, trail, reversals, refunds, window, job, new>>

\* refund_not_found
NotFound(w) ==
    /\ pc[w] = "idle" /\ job[w].op \in Decides
    /\ rid[Rec(w)] = Absent
    /\ Goto(w, "done")
    /\ UNCHANGED <<rid, trail, reversals, refunds, window, job, saw, new, lock>>

\* stripe.Refund.create makes a refund and its id comes back.
StripeRefunds(w) ==
    /\ pc[w] = "stripe"
    /\ refunds' = Append(refunds, Rec(w))
    /\ new' = [new EXCEPT ![w] = Len(refunds) + 1]
    /\ Goto(w, "commit")
    /\ UNCHANGED <<rid, trail, reversals, window, job, saw, lock>>

\* The request ends with an error or with its process: the transaction rolls back.
Rollback(w) ==
    /\ Goto(w, "done")
    /\ lock' = Unlocked(w)
    /\ UNCHANGED <<rid, trail, reversals, window, job, saw, new>>

\* Stripe refuses, or refunds and the answer is lost: RefundError either way.
StripeFails(w) ==
    /\ pc[w] = "stripe"
    /\ refunds' \in {refunds, Append(refunds, Rec(w))}
    /\ Rollback(w)

Crash(w) ==
    /\ pc[w] \in {"stripe", "write", "commit"}
    /\ UNCHANGED refunds
    /\ Rollback(w)

DenialAlways(before) == Denied
\* deny_refund rewrites only a pending id.
Denial(before) == IF before = Pending THEN Denied ELSE before

Deny(w) ==
    /\ pc[w] = "write"
    /\ new' = [new EXCEPT ![w] = Denial(saw[w])]
    /\ Goto(w, "commit")
    /\ UNCHANGED <<rid, trail, reversals, refunds, window, job, saw, lock>>

\* The audit entry of w's decision; a queued request writes none.
EntryOf(w) == [act |-> job[w].op, before |-> saw[w], after |-> new[w]]

\* _emit_credit_reverse: an approval whose body gives a delta; a denial ignores it.
Reversed(w) == job[w].reverse /\ job[w].op = "approve"

\* COMMIT: the row, the ledger row and the audit entry.
Commit(w) ==
    /\ pc[w] = "commit"
    /\ rid' = [rid EXCEPT ![Rec(w)] = new[w]]
    /\ trail' = IF job[w].op = "queue" THEN trail
                ELSE [trail EXCEPT ![Rec(w)] = Append(@, EntryOf(w))]
    /\ reversals' = IF Reversed(w) THEN [reversals EXCEPT ![Rec(w)] = @ + 1] ELSE reversals
    /\ lock' = Unlocked(w)
    /\ Goto(w, "done")
    /\ UNCHANGED <<refunds, window, job, saw, new>>

WindowEnds ==
    /\ window /\ window' = FALSE
    /\ UNCHANGED <<rid, trail, reversals, refunds, pc, job, saw, new, lock>>

Next ==
    \/ \E w \in Workers :
        \/ Queue(w) \/ SelfService(w) \/ Lookup(w) \/ NotFound(w)
        \/ StripeRefunds(w) \/ StripeFails(w) \/ Deny(w)
        \/ Commit(w) \/ Crash(w)
    \/ WindowEnds

Spec == Init /\ [][Next]_vars

-----------------------------------------------------------------------------
TypeOK ==
    /\ rid \in [Records -> Ids]
    /\ trail \in [Records -> Seq(Entry)]
    /\ reversals \in [Records -> Nat]
    /\ refunds \in Seq(Records)
    /\ window \in BOOLEAN
    /\ pc \in [Workers -> {"idle", "stripe", "write", "commit", "done"}]
    /\ job \in [Workers -> Job]
    /\ saw \in [Workers -> Ids]
    /\ new \in [Workers -> Ids]
    /\ lock \in [Records -> Workers \cup {Nobody}]

\* The state of a record before any decision on it was committed.
Undecided(r) == IF trail[r] # << >> /\ trail[r][1].act = "self" THEN Absent ELSE Pending

\* The audit trail of a record is one chain: every decision names as its "before"
\* what the decision before it left, and the row is where the last one left it,
\* whatever administrators decide at the same time.
TrailTells ==
    \A r \in Records :
        LET t == trail[r] IN
        /\ \A i \in 1 .. Len(t) : t[i].before = IF i = 1 THEN Undecided(r) ELSE t[i - 1].after
        /\ t # << >> => rid[r] = t[Len(t)].after

\* Every refund id in the books is a refund Stripe made for that record.
BooksTrue ==
    \A r \in Records :
        /\ rid[r] \in RefundIds => rid[r] \in DOMAIN refunds /\ refunds[rid[r]] = r
        /\ \A i \in DOMAIN trail[r] :
              trail[r][i].act \in {"approve", "self"} =>
                  /\ trail[r][i].after \in DOMAIN refunds
                  /\ refunds[trail[r][i].after] = r

\* Credits are reversed at most once for each refund Stripe made for the record.
ReversedWithMoney ==
    \A r \in Records : reversals[r] <= Cardinality({i \in DOMAIN refunds : refunds[i] = r})

\* A record whose money has gone back is never shown as pending or denied again.
StillPaid == \A r \in Records : rid[r] \in RefundIds => rid'[r] \in RefundIds
PaidStays == [][StillPaid]_vars

(***************************************************************************)
(* Claims the code does not keep                                           *)
(***************************************************************************)
\* When no request is running, every refund at Stripe has its audit entry
\* (routers/admin.py:2476 "the Stripe call ... the audit log row, and the user
\* notification all happen in one transaction").
AllAudited ==
    (\A w \in Workers : pc[w] \in {"idle", "done"}) =>
        \A i \in DOMAIN refunds :
            \E k \in DOMAIN trail[refunds[i]] : trail[refunds[i]][k].after = i

\* Only a queued record is approved (refund.py:242 "Approve a queued refund and
\* execute the Stripe refund."): no record is refunded after it was decided.
OnlyQueued ==
    [][\A w \in Workers :
          StripeRefunds(w) /\ job[w].op = "approve" => rid[Rec(w)] = Pending]_vars

-----------------------------------------------------------------------------
(***************************************************************************)
(* For every number of records and requests                                *)
(*                                                                         *)
(* A request that decides on a record holds its row lock from the lookup   *)
(* to the end, so that what it saw is what the row still says (Deciding);  *)
(* a request that creates a record is alone with it (Creating).  The proof *)
(* that DeskInv is an invariant is in MCBilling, of the instance there.    *)
(***************************************************************************)
InFlight(w) == pc[w] \in {"stripe", "write", "commit"}
Deciding(w) == InFlight(w) /\ job[w].op \in Decides
Creating(w) == InFlight(w) /\ job[w].op \in Creates

MadeFor(r) == {i \in DOMAIN refunds : refunds[i] = r}
Paid == [r \in Records |-> Cardinality(MadeFor(r))]

\* What a request knows at each of its steps.
Sound(w) ==
    /\ Deciding(w) => lock[Rec(w)] = w /\ saw[w] = rid[Rec(w)] /\ saw[w] # Absent
    /\ Creating(w) => Fresh(w) /\ saw[w] = Absent /\ rid[Rec(w)] = Absent
    /\ pc[w] = "idle" => saw[w] = Absent
    /\ pc[w] = "stripe" => job[w].op \in {"self", "approve"}
    /\ pc[w] = "write" => job[w].op = "deny"
    /\ pc[w] = "commit" =>
         /\ job[w].op = "queue" => new[w] = Pending
         /\ job[w].op = "deny" => new[w] = Denial(saw[w])
         /\ job[w].op \in {"self", "approve"} =>
              new[w] \in DOMAIN refunds /\ refunds[new[w]] = Rec(w)
         /\ job[w].op = "approve" => reversals[Rec(w)] < Paid[Rec(w)]

RequestsSound == \A w \in Workers : Sound(w)
LocksSound ==
    \A r \in Records, w \in Workers : lock[r] = w => Deciding(w) /\ Rec(w) = r

UndecidedSound ==
    \A r \in Records :
        /\ trail[r] = << >> => rid[r] \in {Absent, Pending}
        /\ trail[r] # << >> => rid[r] # Absent

\* A record that exists was created by a request that is done.
CreatedSound ==
    \A r \in Records : rid[r] # Absent =>
        \E w \in Workers : job[w].op \in Creates /\ Rec(w) = r /\ pc[w] = "done"

DeskInv ==
    /\ TypeOK /\ LocksSound /\ RequestsSound /\ UndecidedSound
    /\ CreatedSound /\ TrailTells /\ BooksTrue /\ ReversedWithMoney
=============================================================================
