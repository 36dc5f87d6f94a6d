---------------------------- MODULE WebhookInbox ----------------------------
(***************************************************************************)
(* One Stripe event and the deliveries of it that POST /webhooks/stripe    *)
(* serves, one action per committed transaction of _persist_and_dispatch.  *)
(*                                                                         *)
(* The row of stripe_webhook_event is status, attempts and error.  A       *)
(* delivery works on its own copy of the row (seen), read once; the ORM    *)
(* writes back only the columns whose value it changed in that copy.       *)
(*                                                                         *)
(* dispatch() runs in one transaction with the final status=processed.     *)
(* When it raises, the way on depends on whether the handler had run a     *)
(* query: the rollback then expires the ORM's row, the next read of        *)
(* row.attempts fails, and the error path ends there with a plain 500.     *)
(***************************************************************************)
EXTENDS Integers, FiniteSets

CONSTANTS
    Deliveries,  \* HTTP requests that may be in flight at once
    MaxAttempts, \* STRIPE_WEBHOOK_MAX_ATTEMPTS
    EarlyFaults, \* the handler may raise before its first query
    MaxCrashes   \* bound: deliveries cut off by a dying process or connection

ASSUME InboxAssumption ==
    /\ MaxAttempts \in Nat \ {0}
    /\ EarlyFaults \in BOOLEAN
    /\ MaxCrashes \in Nat

VARIABLES
    status,    \* the row's status, "absent" before the first insert
    attempts,  \* the row's attempts
    error,     \* the row's last_error is set
    audits,    \* admin audit rows written for the event
    effects,   \* how often dispatch has been committed with its effects
    tries,     \* history: how often the row was claimed, counted up to MaxAttempts
    refused,   \* history: some delivery was answered 500
    pc,        \* what each delivery does next
    seen,      \* each delivery's copy of the row, and whether it inserted it
    acked,     \* Stripe has received a 200
    crashes    \* how many deliveries have been cut off

record == <<status, attempts, error>>
vars == <<status, attempts, error, audits, effects, tries, refused, pc, seen,
          acked, crashes>>

Statuses == {"received", "processing", "failed", "processed", "needs_review"}
Steps == {"idle", "insert", "read", "decide", "dispatch", "audit", "ok", "error"}
Terminal == {"processed", "needs_review"}
Copy == [status : Statuses, attempts : 0..MaxAttempts, inserted : BOOLEAN]

\* The row, the deliveries' copies of it and the histories have their types; attempts
\* never passes STRIPE_WEBHOOK_MAX_ATTEMPTS.
TypeOK ==
    /\ status \in Statuses \cup {"absent"}
    /\ attempts \in 0..MaxAttempts
    /\ error \in BOOLEAN
    /\ audits \in Nat
    /\ effects \in Nat
    /\ tries \in 0..MaxAttempts
    /\ refused \in BOOLEAN
    /\ pc \in [Deliveries -> Steps]
    /\ seen \in [Deliveries -> Copy]
    /\ acked \in BOOLEAN
    /\ crashes \in 0..MaxCrashes

Blank == [status |-> "received", attempts |-> 0, inserted |-> FALSE]

Init ==
    /\ status = "absent"
    /\ attempts = 0
    /\ error = FALSE
    /\ audits = 0
    /\ effects = 0
    /\ tries = 0
    /\ refused = FALSE
    /\ pc = [d \in Deliveries |-> "idle"]
    /\ seen = [d \in Deliveries |-> Blank]
    /\ acked = FALSE
    /\ crashes = 0

Goto(d, step) == pc' = [pc EXCEPT ![d] = step]

(***************************************************************************)
(* The delivery's transactions                                             *)
(***************************************************************************)
\* Stripe sends the event, and sends it again until it has seen a 200.
Deliver(d) ==
    /\ ~acked
    /\ pc[d] = "idle"
    /\ Goto(d, "insert")
    /\ UNCHANGED <<record, audits, effects, tries, refused, seen, acked, crashes>>

\* INSERT ... ON CONFLICT (event_id) DO NOTHING
InsertRow(d) ==
    /\ pc[d] = "insert"
    /\ status' = IF status = "absent" THEN "received" ELSE status
    /\ seen' = [seen EXCEPT ![d].inserted = (status = "absent")]
    /\ Goto(d, "read")
    /\ UNCHANGED <<attempts, error, audits, effects, tries, refused, acked, crashes>>

ReadRow(d) ==
    /\ pc[d] = "read"
    /\ seen' = [seen EXCEPT ![d].status = status, ![d].attempts = attempts]
    /\ Goto(d, "decide")
    /\ UNCHANGED <<record, audits, effects, tries, refused, acked, crashes>>

DuplicateOnceClaimed(d) == ~seen[d].inserted /\ seen[d].status # "received"

DuplicateOnceParked(d) == ~seen[d].inserted /\ seen[d].status = "needs_review"

\* Some earlier delivery has settled the event.
Duplicate(d) == ~seen[d].inserted /\ seen[d].status \in Terminal

NeverExhausted(n) == FALSE
Exhausted(n) == n >= MaxAttempts

AckDuplicate(d) ==
    /\ pc[d] = "decide"
    /\ Duplicate(d)
    /\ Goto(d, "ok")
    /\ UNCHANGED <<record, audits, effects, tries, refused, seen, acked, crashes>>

\* No attempt is left: park the event, then write the audit row.
Park(d) ==
    /\ pc[d] = "decide"
    /\ ~Duplicate(d)
    /\ Exhausted(seen[d].attempts)
    /\ status' = "needs_review"
    /\ Goto(d, "audit")
    /\ UNCHANGED <<attempts, error, audits, effects, tries, refused, seen, acked,
                   crashes>>

UncountedAttempt(d) == seen[d].attempts
NextAttempt(d) == seen[d].attempts + 1

\* status=processing and attempts+1, from the copy: a status that already read
\* "processing" is not written.
Claim(d) ==
    /\ pc[d] = "decide"
    /\ ~Duplicate(d)
    /\ ~Exhausted(seen[d].attempts)
    /\ status' = IF seen[d].status = "processing" THEN status ELSE "processing"
    /\ attempts' = NextAttempt(d)
    /\ seen' = [seen EXCEPT ![d].status = "processing", ![d].attempts = NextAttempt(d)]
    /\ tries' = IF tries < MaxAttempts THEN tries + 1 ELSE tries
    /\ Goto(d, "dispatch")
    /\ UNCHANGED <<error, audits, effects, refused, acked, crashes>>

\* dispatch() returns: its effects and status=processed commit together.
Succeed(d) ==
    /\ pc[d] = "dispatch"
    /\ status' = "processed"
    /\ error' = FALSE
    /\ effects' = effects + 1
    /\ Goto(d, "ok")
    /\ UNCHANGED <<attempts, audits, tries, refused, seen, acked, crashes>>

FailedAtLast(d) == "failed"
Verdict(d) == IF Exhausted(seen[d].attempts) THEN "needs_review" ELSE "failed"
AfterVerdict(d) == IF Exhausted(seen[d].attempts) THEN "audit" ELSE "error"

\* The handler raises before its first query: the rollback has nothing to undo,
\* the error is recorded, and the last attempt parks the event.
FailEarly(d) ==
    /\ pc[d] = "dispatch"
    /\ EarlyFaults
    /\ error' = TRUE
    /\ status' = Verdict(d)
    /\ Goto(d, AfterVerdict(d))
    /\ UNCHANGED <<attempts, audits, effects, tries, refused, seen, acked, crashes>>

\* The handler raises after a query: the row stays as it is.
FailLate(d) ==
    /\ pc[d] = "dispatch"
    /\ Goto(d, "error")
    /\ UNCHANGED <<record, audits, effects, tries, refused, seen, acked, crashes>>

WriteAudit(d) ==
    /\ pc[d] = "audit"
    /\ audits' = audits + 1
    /\ Goto(d, "ok")
    /\ UNCHANGED <<record, effects, tries, refused, seen, acked, crashes>>

\* The answer reaches Stripe and the request is over.
Respond(d) ==
    /\ pc[d] \in {"ok", "error"}
    /\ acked' = (acked \/ pc[d] = "ok")
    /\ refused' = (refused \/ pc[d] = "error")
    /\ pc' = [pc EXCEPT ![d] = "idle"]
    /\ seen' = [seen EXCEPT ![d] = Blank]
    /\ UNCHANGED <<record, audits, effects, tries, crashes>>

\* The process or the connection dies: the open transaction and the answer are lost.
Crash(d) ==
    /\ pc[d] # "idle"
    /\ crashes < MaxCrashes
    /\ crashes' = crashes + 1
    /\ pc' = [pc EXCEPT ![d] = "idle"]
    /\ seen' = [seen EXCEPT ![d] = Blank]
    /\ UNCHANGED <<record, audits, effects, tries, refused, acked>>

Serve(d) ==
    \/ InsertRow(d) \/ ReadRow(d)
    \/ AckDuplicate(d) \/ Park(d) \/ Claim(d)
    \/ Succeed(d) \/ FailEarly(d) \/ FailLate(d)
    \/ WriteAudit(d) \/ Respond(d)

Next == \E d \in Deliveries : Deliver(d) \/ Serve(d) \/ Crash(d)

Spec == Init /\ [][Next]_vars

\* The server serves the requests it has accepted, and Stripe keeps delivering an
\* event it has no 200 for.
Fairness ==
    /\ \A d \in Deliveries : WF_vars(Serve(d))
    /\ WF_vars(\E d \in Deliveries : Deliver(d))

FairSpec == Spec /\ Fairness

(***************************************************************************)
(* Properties                                                              *)
(***************************************************************************)
\* The handler's effect is committed, or the handler had all its attempts.
Earned == effects > 0 \/ tries >= MaxAttempts

\* Stripe is told 200 only after the handler's effect is committed or the
\* handler has been tried MaxAttempts times, whatever deliveries overlap and
\* wherever one is cut off (the early 200 of a duplicate, the 200 of a parked
\* event).
AckIsEarned == acked => Earned

\* An event that Stripe will not send again and that had no effect is parked for
\* review.
NothingLost == acked /\ effects = 0 => status = "needs_review"

\* Whatever fails, Stripe is answered 200 in the end: the retries stop.
RetriesStop == <>acked

(***************************************************************************)
(* Claims the code does not keep                                           *)
(***************************************************************************)
\* When a request was answered 500 and nothing is in flight, the row says why
\* (billing.py:16 "persist last_error"); refuted by TLC (README,
\* section 5).
FailureRecorded ==
    refused /\ (\A d \in Deliveries : pc[d] = "idle") /\ effects = 0 => error

\* The event is dispatched with success at most once, however often it is delivered
\* (billing.py:13); refuted by TLC when deliveries overlap.  Credits are granted once all
\* the same, by their key (BankRefined of MCCreditLedger); what has no key, such as the
\* notifications of handle_trial_will_end, relies on the duplicate check alone.
EffectsOnce == effects <= 1

\* An event parked for review has its audit row once nothing is in flight
\* (billing.py:1118); refuted by TLC.  NothingLost is refuted when deliveries overlap
\* (README, section 5).
ParkedIsAudited ==
    status = "needs_review" /\ (\A d \in Deliveries : pc[d] = "idle") => audits > 0
=============================================================================
