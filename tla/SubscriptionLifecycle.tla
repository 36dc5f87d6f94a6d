----------------------- MODULE SubscriptionLifecycle -----------------------
(***************************************************************************)
(* One subscription: Stripe's own record of it, the events Stripe emits    *)
(* about it, the handlers of webhook_handler.py that apply them to the     *)
(* subscriptions row, and the grace tick.                                  *)
(*                                                                         *)
(* A handler loads the row without a lock and writes at its flush the      *)
(* columns it changed in its copy: two steps, between which another        *)
(* handler or the tick may run.  The tick takes the row FOR UPDATE, reads  *)
(* it afresh and is one step.                                              *)
(*                                                                         *)
(* Time is counted in coarse units; 0 stands for NULL.                     *)
(***************************************************************************)
EXTENDS Integers, FiniteSets

CONSTANTS
    Workers,    \* webhook requests served at once
    Idle,       \* a request that works on no event
    InOrder,    \* Stripe's events arrive action by action
    Spaced,     \* no two things happen at Stripe in the same instant
    Remind,     \* REMINDER_HOURS, the set of offsets
    Grace,      \* SUBSCRIPTION_GRACE_HOURS
    MaxActions, \* bound: what happens to the subscription at Stripe
    MaxNow      \* bound: the last instant

ASSUME LifecycleAssumption ==
    /\ InOrder \in BOOLEAN
    /\ Spaced \in BOOLEAN
    /\ Grace \in Nat \ {0}
    /\ Remind \subseteq 1..Grace - 1
    /\ MaxActions \in Nat
    /\ MaxNow \in Nat /\ MaxNow > Grace

VARIABLES
    stripe,   \* Stripe's record of the subscription
    actions,  \* how many things happened to it
    pending,  \* events Stripe has emitted and not seen accepted
    dueSince, \* history: when the latest payment failure began
    failures, \* history: how many such failures began
    row,      \* the subscriptions row
    job,      \* what each request works on: an event and its copy of the row
    outbox,   \* how often each kind of notification was written
    reminded, \* the reminders written for the subscription
    now       \* the clock

world == <<stripe, actions, pending, dueSince, failures>>
vars == <<stripe, actions, pending, dueSince, failures, row, job, outbox, reminded, now>>

Times == 0..MaxNow
StripeStatuses == {"none", "trialing", "active", "past_due", "canceled"}
StripeSub == [status : StripeStatuses, cape : BOOLEAN, paused : BOOLEAN, at : Times]
EventTypes == {"created", "updated", "deleted", "succeeded", "failed", "will_end"}
Snapshots == [status : StripeStatuses \ {"none"}, cape : BOOLEAN,
              paused : BOOLEAN, at : 1..MaxNow]
Event == [type : EventTypes, no : 1..MaxActions, sub : Snapshots]
Statuses == {"absent", "trialing", "active", "grace", "paused",
             "cancel_at_period_end", "expired"}
Row == [status : Statuses, failedAt : Times, last : Times, cape : BOOLEAN]
Notices == {"trial", "started", "recovered", "expired"}

\* Stripe's record, the events, the row and the copies have their types; no time lies
\* beyond the clock's bound.
TypeOK ==
    /\ stripe \in StripeSub
    /\ actions \in 0..MaxActions
    /\ pending \subseteq Event
    /\ dueSince \in Times
    /\ failures \in Nat
    /\ row \in Row
    /\ job \in [Workers -> {Idle} \cup [event : Event, copy : Row]]
    /\ outbox \in [Notices -> Nat]
    /\ reminded \subseteq Remind
    /\ now \in 1..MaxNow

NoRow == [status |-> "absent", failedAt |-> 0, last |-> 0, cape |-> FALSE]

Init ==
    /\ stripe = [status |-> "none", cape |-> FALSE, paused |-> FALSE, at |-> 0]
    /\ actions = 0
    /\ pending = {}
    /\ dueSince = 0
    /\ failures = 0
    /\ row = NoRow
    /\ job = [w \in Workers |-> Idle]
    /\ outbox = [n \in Notices |-> 0]
    /\ reminded = {}
    /\ now = 1

(***************************************************************************)
(* Stripe                                                                  *)
(***************************************************************************)
\* Something happens to the subscription: s is what it becomes, and one event of
\* each type is emitted, with that snapshot and its time (event.created).  The last
\* Grace units of time are left to the tick.
Emit(s, types) ==
    /\ actions < MaxActions
    /\ now <= MaxNow - Grace
    /\ Spaced => stripe.at < now
    /\ actions' = actions + 1
    /\ stripe' = [s EXCEPT !.at = now]
    /\ pending' = pending \cup
           {[type |-> k, no |-> actions', sub |-> stripe'] : k \in types}
    /\ UNCHANGED <<row, job, outbox, reminded, now>>

Quietly(s, types) == Emit(s, types) /\ UNCHANGED <<dueSince, failures>>
Become(st) == [stripe EXCEPT !.status = st]

Subscribe ==
    /\ stripe.status = "none"
    /\ \E st \in {"trialing", "active"} : Quietly(Become(st), {"created"})

TrialEnding == stripe.status = "trialing" /\ Quietly(stripe, {"will_end"})

TrialPaid ==
    /\ stripe.status = "trialing"
    /\ ~stripe.cape
    /\ Quietly(Become("active"), {"succeeded", "updated"})

Renew ==
    /\ stripe.status = "active"
    /\ ~stripe.cape /\ ~stripe.paused
    /\ Quietly(stripe, {"succeeded"})

\* A charge fails.  Stripe does not charge a subscription that is to end with its
\* period, nor one whose collection is paused.
PaymentFails ==
    /\ stripe.status \in {"trialing", "active"}
    /\ ~stripe.cape /\ ~stripe.paused
    /\ Emit(Become("past_due"), {"failed", "updated"})
    /\ dueSince' = now
    /\ failures' = failures + 1

RetryFails ==
    /\ stripe.status = "past_due"
    /\ ~stripe.paused
    /\ Quietly(stripe, {"failed"})

Recover ==
    /\ stripe.status = "past_due"
    /\ Quietly(Become("active"), {"succeeded", "updated"})

Alive == stripe.status \in {"trialing", "active", "past_due"}
Entitled == row.status \in {"trialing", "active", "grace", "cancel_at_period_end"}

\* The user cancels at period end, or takes that back.
ToggleCancel ==
    /\ Alive /\ Entitled
    /\ Quietly([stripe EXCEPT !.cape = ~@], {"updated"})

\* The user pauses the subscription, or resumes it.
TogglePause ==
    /\ Alive
    /\ IF stripe.paused THEN row.status \in {"paused", "active"} ELSE Entitled
    /\ Quietly([stripe EXCEPT !.paused = ~@], {"updated"})

Cancel ==
    /\ stripe.status \notin {"none", "canceled"}
    /\ Quietly(Become("canceled"), {"deleted"})

StripeActs ==
    \/ Subscribe \/ TrialEnding \/ TrialPaid \/ Renew \/ PaymentFails
    \/ RetryFails \/ Recover \/ ToggleCancel \/ TogglePause \/ Cancel

(***************************************************************************)
(* The webhook handlers                                                    *)
(***************************************************************************)
StatusMap(st) ==
    CASE st = "past_due" -> "grace"
      [] st = "canceled" -> "expired"
      [] OTHER -> st

\* The status the code derives from Stripe's record.
InternalCapeIgnored(s) == IF s.paused THEN "paused" ELSE StatusMap(s.status)
Internal(s) ==
    IF s.paused THEN "paused"
    ELSE IF s.cape /\ s.status = "active" THEN "cancel_at_period_end"
    ELSE StatusMap(s.status)

NeverOutOfOrder(e, r) == FALSE
OutOfOrder(e, r) == e.sub.at < r.last

Snapshot == {"created", "updated"}
Chargeable == {"trialing", "active", "grace"}

NewStatus(e, r) ==
    CASE e.type \in Snapshot -> Internal(e.sub)
      [] e.type = "deleted" -> "expired"
      [] e.type = "succeeded" /\ r.status = "grace" -> "active"
      [] e.type = "failed" /\ r.status \in Chargeable -> "grace"
      [] OTHER -> r.status

NewFailedAtOnEntry(e, r) ==
    CASE e.type = "succeeded" /\ r.status = "grace" -> 0
      [] e.type = "failed" /\ r.status \in {"trialing", "active"} -> e.sub.at
      [] OTHER -> r.failedAt

NewFailedAtDeadline(e, r) ==
    CASE e.type = "succeeded" /\ r.status = "grace" -> 0
      [] e.type = "failed" /\ r.status \in Chargeable -> e.sub.at + MaxNow
      [] OTHER -> r.failedAt

NewFailedAt(e, r) ==
    CASE e.type = "succeeded" /\ r.status = "grace" -> 0
      [] e.type = "failed" /\ r.status \in Chargeable -> e.sub.at
      [] OTHER -> r.failedAt

\* What the handler makes of its copy of the row.
Applied(e, r) ==
    IF (r.status = "absent" /\ e.type # "created") \/ OutOfOrder(e, r)
    THEN r
    ELSE [status |-> NewStatus(e, r),
          failedAt |-> NewFailedAt(e, r),
          last |-> e.sub.at,
          cape |-> IF e.type \in Snapshot THEN e.sub.cape ELSE r.cape]

NoticesAnyFailure(e, r) ==
    IF OutOfOrder(e, r) THEN {}
    ELSE CASE e.type = "failed" /\ r.status \in Chargeable -> {"started"}
           [] e.type = "succeeded" /\ r.status = "grace" -> {"recovered"}
           [] e.type = "will_end" /\ r.status # "absent" -> {"trial"}
           [] OTHER -> {}

\* The notifications it writes with it.
NoticesOf(e, r) ==
    IF OutOfOrder(e, r) THEN {}
    ELSE CASE e.type = "failed" /\ r.status \in {"trialing", "active"} -> {"started"}
           [] e.type = "succeeded" /\ r.status = "grace" -> {"recovered"}
           [] e.type = "will_end" /\ r.status # "absent" -> {"trial"}
           [] OTHER -> {}

\* The flush writes the columns that differ from the copy.
Flushed(old, new) ==
    [status |-> IF new.status # old.status THEN new.status ELSE row.status,
     failedAt |-> IF new.failedAt # old.failedAt THEN new.failedAt ELSE row.failedAt,
     last |-> IF new.last # old.last THEN new.last ELSE row.last,
     cape |-> IF new.cape # old.cape THEN new.cape ELSE row.cape]

Write(ns) == outbox' = [n \in Notices |-> IF n \in ns THEN outbox[n] + 1 ELSE outbox[n]]

Deliverable(e) == InOrder => \A f \in pending : e.no <= f.no

Load(w, e) ==
    /\ job[w] = Idle
    /\ e \in pending
    /\ Deliverable(e)
    /\ \A v \in Workers : job[v] # Idle => job[v].event # e
    /\ job' = [job EXCEPT ![w] = [event |-> e, copy |-> row]]
    /\ UNCHANGED <<world, row, outbox, reminded, now>>

\* customer.subscription.updated for a subscription with no row: the handler
\* raises and Stripe keeps the event.
Reject(w) ==
    /\ job[w] # Idle
    /\ job[w].copy.status = "absent"
    /\ job[w].event.type = "updated"
    /\ job' = [job EXCEPT ![w] = Idle]
    /\ UNCHANGED <<world, row, outbox, reminded, now>>

\* The handler runs to its end and commits.
Apply(w) ==
    /\ job[w] # Idle
    /\ ~(job[w].copy.status = "absent" /\ job[w].event.type = "updated")
    /\ LET e == job[w].event
           old == job[w].copy
           new == Applied(e, old)
       IN /\ row' = Flushed(old, new)
          /\ Write(NoticesOf(e, old))
          /\ pending' = pending \ {e}
    /\ job' = [job EXCEPT ![w] = Idle]
    /\ UNCHANGED <<stripe, actions, dueSince, failures, reminded, now>>

(***************************************************************************)
(* The grace tick and the clock                                            *)
(***************************************************************************)
Elapsed == now - row.failedAt
OverdueEarly == Elapsed >= Grace - 1
Overdue == Elapsed >= Grace

\* The reminders that are due and were never written for this subscription.
DueReminders == {h \in Remind \ reminded : Elapsed >= h /\ Elapsed < Grace}

Tick ==
    /\ row.status = "grace"
    /\ row.failedAt # 0
    /\ DueReminders # {} \/ Overdue
    /\ reminded' = reminded \cup DueReminders
    /\ IF Overdue
       THEN row' = [row EXCEPT !.status = "expired"] /\ Write({"expired"})
       ELSE UNCHANGED <<row, outbox>>
    /\ UNCHANGED <<world, job, now>>

Clock ==
    /\ now < MaxNow
    /\ now' = now + 1
    /\ UNCHANGED <<world, row, job, outbox, reminded>>

Next ==
    \/ StripeActs
    \/ \E w \in Workers : Reject(w) \/ Apply(w) \/ \E e \in pending : Load(w, e)
    \/ Tick
    \/ Clock

Spec == Init /\ [][Next]_vars

\* Requests in progress finish, Stripe delivers every event it has emitted, and
\* EventBridge runs the tick every 15 minutes.
Fairness ==
    /\ \A w \in Workers : WF_vars(Reject(w) \/ Apply(w))
    /\ WF_vars(\E w \in Workers, e \in pending : Load(w, e))
    /\ WF_vars(Tick)
    /\ WF_vars(Clock)

FairSpec == Spec /\ Fairness

(***************************************************************************)
(* Properties                                                              *)
(***************************************************************************)
Settled == pending = {}

\* What the row should say of Stripe's record; a subscription that is past due
\* may have been expired by the tick.
Expected ==
    IF stripe.status = "canceled" THEN {"expired"}
    ELSE IF stripe.paused THEN {"paused"}
    ELSE IF stripe.status = "past_due" THEN {"grace", "expired"}
    ELSE IF stripe.cape /\ stripe.status = "active" THEN {"cancel_at_period_end"}
    ELSE {stripe.status}

\* When every event has been applied, through whatever races of handlers with the
\* tick, the row says what Stripe says.
Converges ==
    Settled /\ stripe.status # "none" =>
        row.status \in Expected /\ row.cape = stripe.cape

\* The row's ordering mark never goes back: an older event is never applied over a
\* newer one (_is_out_of_order is decided on the loaded copy).
NeverOlder == [][row'.last >= row.last]_vars

\* However often Stripe retries, one payment failure is announced at most once.
AnnouncedOnce == outbox["started"] <= failures

\* The tick expires a past-due subscription less than a full grace period after
\* its payment failed.
CutShort ==
    /\ row.status = "grace" /\ row'.status = "expired"
    /\ stripe.status = "past_due"
    /\ now - dueSince < Grace

\* The tick never cuts short the grace period of the first payment failure, however its
\* events race the tick, other handlers and the recovery (payment_failed_at is the time of
\* an event of that failure; webhook_handler.py:507-560, grace_tick.py).
FirstGraceWhole == [][failures <= 1 => ~CutShort]_vars

\* No subscription stays in grace for ever.
GraceEnds == row.status = "grace" ~> row.status # "grace"

(***************************************************************************)
(* Claims the code does not keep                                           *)
(***************************************************************************)
\* Once every event has been applied, the tick never cuts a grace period short; refuted by
\* TLC with two failures: the snapshot of the recovery takes the row out of grace before
\* payment_succeeded, which then leaves the mark of the first failure (README, section 5).
SettledGrace == [][Settled => ~CutShort]_vars

\* A payment failure whose events have all been applied has been announced
\* (grace_tick.py:3); refuted by TLC (README, section 5).
Announced == Settled /\ row.status = "grace" => outbox["started"] = failures

\* The tick cuts no grace period short once Stripe stands still, even while its
\* events are being applied (webhook_handler.py:557 "within 72 hours"); refuted by
\* TLC (README, section 5).
FullGrace == [][(\A e \in pending : e.sub = stripe) => ~CutShort]_vars

\* A cancellation at period end, or its withdrawal, reaches the row with its event
\* (subscription.py:332); refuted by TLC, as
\* GraceEnds is, when events are delivered out of order; NeverOlder is refuted with two
\* requests at a time (README, section 5).
CancellationArrives ==
    Settled /\ stripe.status \notin {"none", "canceled"} => row.cape = stripe.cape
=============================================================================
