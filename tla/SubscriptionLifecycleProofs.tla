--------------------- MODULE SubscriptionLifecycleProofs ---------------------
(***************************************************************************)
(* Proofs about SubscriptionLifecycle and SubscriptionOverride.  For any   *)
(* order of the events and any number of requests: the types, and the      *)
(* grace period of the first failure.  With one request at a time: the     *)
(* ordering guard.  With the events in order as well: the row converges to *)
(* Stripe's record, a failure is announced once, and a status set by hand  *)
(* does not outlive the next event about it.                               *)
(***************************************************************************)
EXTENDS MCSubscriptionOverride, FiniteSetTheorems, TLAPS

\* What a handler makes of a well-typed row is a well-typed row
\* (the handlers of webhook_handler.py set every column from the event or leave it).
LEMMA AppliedType ==
  ASSUME NEW e \in Event, NEW r \in Row
  PROVE  Applied(e, r) \in Row
<1>1. e.sub \in Snapshots /\ e.type \in EventTypes
  BY DEF Event
<1>2. r.status \in Statuses /\ r.failedAt \in Times /\ r.last \in Times /\ r.cape \in BOOLEAN
  BY DEF Row
<1>3. NewStatus(e, r) \in Statuses
  <2>1. Internal(e.sub) \in Statuses
    BY <1>1 DEF Internal, StatusMap, Snapshots, StripeStatuses, Statuses
  <2> QED
    BY <1>1, <1>2, <2>1 DEF NewStatus, Statuses
<1>4. NewFailedAt(e, r) \in Times
  BY <1>1, <1>2, LifecycleAssumption DEF NewFailedAt, Snapshots, Times
<1>5. e.sub.at \in Times /\ e.sub.cape \in BOOLEAN
  BY <1>1 DEF Snapshots, Times
<1> QED
  BY <1>2, <1>3, <1>4, <1>5 DEF Applied, Row

\* So is what the flush leaves in the row.
LEMMA FlushedType ==
  ASSUME NEW old \in Row, NEW new \in Row, row \in Row
  PROVE  Flushed(old, new) \in Row
  BY DEF Flushed, Row

\* Every event carries a snapshot of an existing subscription.
LEMMA EmitType ==
  ASSUME TypeOK, NEW s \in StripeSub, s.status # "none",
         NEW types \in SUBSET EventTypes, Emit(s, types),
         dueSince' \in Times, failures' \in Nat
  PROVE  TypeOK'
<1> USE LifecycleAssumption DEF TypeOK
<1>1. stripe' \in Snapshots /\ stripe' \in StripeSub
  BY DEF Emit, StripeSub, Snapshots, Times
<1>2. actions' \in 1..MaxActions /\ actions' \in 0..MaxActions
  BY DEF Emit
<1>3. pending' \subseteq Event
  BY <1>1, <1>2 DEF Emit, Event
<1> QED
  BY <1>1, <1>2, <1>3 DEF Emit

\* What Stripe does keeps every variable in its type.
LEMMA StripeType == TypeOK /\ StripeActs => TypeOK'
<1> SUFFICES ASSUME TypeOK, StripeActs PROVE TypeOK'
  OBVIOUS
<1>1. stripe \in StripeSub /\ dueSince \in Times /\ failures \in Nat /\ now \in Times
  BY LifecycleAssumption DEF TypeOK, Times
<1>2. \A st \in StripeStatuses : Become(st) \in StripeSub /\ Become(st).status = st
  BY <1>1 DEF Become, StripeSub
<1>3. ASSUME NEW s \in StripeSub, s.status # "none", NEW types \in SUBSET EventTypes,
             Quietly(s, types)
      PROVE  TypeOK'
  BY <1>1, <1>3, EmitType DEF Quietly
<1>4. CASE Subscribe
  BY <1>2, <1>3, <1>4 DEF Subscribe, StripeStatuses, EventTypes
<1>5. CASE TrialEnding
  BY <1>1, <1>3, <1>5 DEF TrialEnding, EventTypes
<1>6. CASE TrialPaid
  BY <1>2, <1>3, <1>6 DEF TrialPaid, StripeStatuses, EventTypes
<1>7. CASE Renew
  BY <1>1, <1>3, <1>7 DEF Renew, EventTypes
<1>8. CASE PaymentFails
  <2>1. dueSince' \in Times /\ failures' \in Nat
    BY <1>1, <1>8 DEF PaymentFails
  <2> QED
    BY <1>2, <1>8, <2>1, EmitType DEF PaymentFails, StripeStatuses, EventTypes
<1>9. CASE RetryFails
  BY <1>1, <1>3, <1>9 DEF RetryFails, EventTypes
<1>10. CASE Recover
  BY <1>2, <1>3, <1>10 DEF Recover, StripeStatuses, EventTypes
<1>11. CASE ToggleCancel
  <2>1. [stripe EXCEPT !.cape = ~@] \in StripeSub
    BY <1>1 DEF StripeSub
  <2>2. [stripe EXCEPT !.cape = ~@].status # "none"
    BY <1>1, <1>11 DEF ToggleCancel, Alive, StripeSub
  <2> QED
    BY <1>3, <1>11, <2>1, <2>2 DEF ToggleCancel, EventTypes
<1>12. CASE TogglePause
  <2>1. [stripe EXCEPT !.paused = ~@] \in StripeSub
    BY <1>1 DEF StripeSub
  <2>2. [stripe EXCEPT !.paused = ~@].status # "none"
    BY <1>1, <1>12 DEF TogglePause, Alive, StripeSub
  <2> QED
    BY <1>3, <1>12, <2>1, <2>2 DEF TogglePause, EventTypes
<1>13. CASE Cancel
  BY <1>2, <1>3, <1>13 DEF Cancel, StripeStatuses, EventTypes
<1> QED
  BY <1>4, <1>5, <1>6, <1>7, <1>8, <1>9, <1>10, <1>11, <1>12, <1>13 DEF StripeActs

\* The initial state is well typed.
LEMMA LifecycleInit == Init => TypeOK
<1> SUFFICES ASSUME Init PROVE TypeOK
  OBVIOUS
<1> USE LifecycleAssumption DEF Init
<1>1. stripe \in StripeSub
  BY DEF StripeSub, StripeStatuses, Times
<1>2. row \in Row
  BY DEF NoRow, Row, Statuses, Times
<1>3. now \in 1..MaxNow /\ dueSince \in Times /\ actions \in 0..MaxActions
  BY DEF Times
<1> QED
  BY <1>1, <1>2, <1>3 DEF TypeOK

\* Every step keeps every variable in its type.
LEMMA LifecycleStep == TypeOK /\ [Next]_vars => TypeOK'
<1> SUFFICES ASSUME TypeOK, [Next]_vars PROVE TypeOK'
  OBVIOUS
<1> USE DEF TypeOK
<1>1. CASE StripeActs
  BY <1>1, StripeType
<1>2. ASSUME NEW w \in Workers, Reject(w) PROVE TypeOK'
  BY <1>2 DEF Reject, world
<1>3. ASSUME NEW w \in Workers, Apply(w) PROVE TypeOK'
  <2>1. job[w].event \in Event /\ job[w].copy \in Row
    BY <1>3 DEF Apply
  <2>2. row' \in Row
    BY <1>3, <2>1, AppliedType, FlushedType DEF Apply
  <2>3. outbox' \in [Notices -> Nat]
    BY <1>3 DEF Apply, Write
  <2> QED
    BY <1>3, <2>2, <2>3 DEF Apply
<1>4. ASSUME NEW w \in Workers, NEW e \in pending, Load(w, e) PROVE TypeOK'
  BY <1>4 DEF Load, world
<1>5. CASE Tick
  <2>1. row' \in Row
    BY <1>5 DEF Tick, Row, Statuses
  <2>2. outbox' \in [Notices -> Nat]
    BY <1>5 DEF Tick, Write
  <2>3. reminded' \subseteq Remind
    BY <1>5 DEF Tick, DueReminders
  <2> QED
    BY <1>5, <2>1, <2>2, <2>3 DEF Tick, world
<1>6. CASE Clock
  BY <1>6, LifecycleAssumption DEF Clock, world
<1>7. CASE UNCHANGED vars
  BY <1>7 DEF vars
<1> QED
  BY <1>1, <1>2, <1>3, <1>4, <1>5, <1>6, <1>7 DEF Next

\* Type correctness; payment_failed_at and last_event_created_at never lie ahead
\* of the clock's range.
THEOREM LifecycleTypeCorrect == Spec => []TypeOK
  BY LifecycleInit, LifecycleStep, PTL DEF Spec

\* With a single request at a time a loaded copy still carries the row's mark:
\* the tick does not touch it.
CopyIsCurrent == \A w \in Workers : job[w] # Idle => job[w].copy.last = row.last

\* When requests are served one at a time, in whatever order the events arrive and
\* wherever the tick runs, no older event is applied over a newer one: the guard of
\* _is_out_of_order is enough without a lock.
THEOREM OneAtATimeNeverOlder ==
  ASSUME \A v, w \in Workers : v = w
  PROVE  Spec => NeverOlder
<1>1. Init => CopyIsCurrent
  BY DEF Init, CopyIsCurrent
<1>2. TypeOK /\ CopyIsCurrent /\ [Next]_vars => CopyIsCurrent' /\ [row'.last >= row.last]_vars
  <2> SUFFICES ASSUME TypeOK, CopyIsCurrent, [Next]_vars
               PROVE  CopyIsCurrent' /\ row'.last >= row.last
    OBVIOUS
  <2>0. row \in Row /\ row.last \in Int
    BY DEF TypeOK, Row, Times
  <2>1. CASE StripeActs
    <3>1. row' = row /\ job' = job
      BY <2>1 DEF StripeActs, Subscribe, TrialEnding, TrialPaid, Renew, PaymentFails,
                  RetryFails, Recover, ToggleCancel, TogglePause, Cancel, Quietly, Emit
    <3> QED
      BY <2>0, <3>1 DEF CopyIsCurrent
  <2>2. ASSUME NEW w \in Workers, Reject(w) PROVE CopyIsCurrent' /\ row'.last >= row.last
    BY <2>0, <2>2 DEF Reject, CopyIsCurrent, TypeOK
  <2>3. ASSUME NEW w \in Workers, Apply(w) PROVE CopyIsCurrent' /\ row'.last >= row.last
    <3> DEFINE e == job[w].event
               old == job[w].copy
               new == Applied(e, old)
    <3>1. e \in Event /\ old \in Row /\ old.last = row.last
      BY <2>3 DEF Apply, TypeOK, CopyIsCurrent
    <3>2. e.sub.at \in Int /\ old.last \in Int
      BY <3>1 DEF Event, Snapshots, Row, Times
    <3>3. new.last >= old.last
      <4>1. CASE (old.status = "absent" /\ e.type # "created") \/ OutOfOrder(e, old)
        BY <3>2, <4>1 DEF Applied
      <4>2. CASE ~((old.status = "absent" /\ e.type # "created") \/ OutOfOrder(e, old))
        BY <3>2, <4>2 DEF Applied, OutOfOrder
      <4> QED
        BY <4>1, <4>2
    <3>4. row' = Flushed(old, new)
      BY <2>3 DEF Apply
    <3>5. row'.last = IF new.last # old.last THEN new.last ELSE row.last
      BY <3>4 DEF Flushed
    <3>6. \A v \in Workers : job'[v] = Idle
      BY <2>3 DEF Apply, TypeOK
    <3> QED
      BY <2>0, <3>1, <3>3, <3>5, <3>6 DEF CopyIsCurrent
  <2>4. ASSUME NEW w \in Workers, NEW e \in pending, Load(w, e)
        PROVE  CopyIsCurrent' /\ row'.last >= row.last
    BY <2>0, <2>4 DEF Load, CopyIsCurrent, TypeOK
  <2>5. CASE Tick
    <3>1. row'.last = row.last /\ job' = job
      BY <2>0, <2>5 DEF Tick, Row
    <3> QED
      BY <2>0, <3>1 DEF CopyIsCurrent
  <2>6. CASE Clock
    BY <2>0, <2>6 DEF Clock, CopyIsCurrent
  <2>7. CASE UNCHANGED vars
    BY <2>0, <2>7 DEF vars, CopyIsCurrent
  <2> QED
    BY <2>1, <2>2, <2>3, <2>4, <2>5, <2>6, <2>7 DEF Next
<1> QED
  BY <1>1, <1>2, LifecycleTypeCorrect, PTL DEF Spec, NeverOlder

(***************************************************************************)
(* What Stripe does, in one formula: an action emits events of some types, *)
(* all with its own number and with the record it leaves behind; a change  *)
(* of the record that the row must show comes with an event that sets it.  *)
(***************************************************************************)
Setter == Snapshot \cup {"deleted"}
Occurrence(k) == [type |-> k, no |-> actions + 1, sub |-> stripe']

Emitted(types) ==
    /\ actions' = actions + 1
    /\ stripe' \in Snapshots /\ stripe'.at = now
    /\ pending' = pending \cup {Occurrence(k) : k \in types}
    /\ <<row, job, outbox, reminded, now>>' = <<row, job, outbox, reminded, now>>
    /\ stripe.status # "canceled"
    /\ "created" \in types => stripe.status = "none"
    /\ stripe.status = "none" => types = {"created"}
    /\ "deleted" \in types => stripe'.status = "canceled"
    /\ stripe'.status = "canceled" => types = {"deleted"}
    /\ "succeeded" \in types => stripe'.status = "active"
    /\ "failed" \in types => stripe'.status = "past_due" /\ ~stripe'.paused
    /\ stripe'.cape = stripe.cape \/ "created" \in types \/ "updated" \in types
    /\ \/ \A x \in {"status", "cape", "paused"} : stripe'[x] = stripe[x]
       \/ types \cap Setter # {}
    /\ \/ /\ stripe.status # "past_due" /\ types = {"failed", "updated"}
          /\ dueSince' = now /\ failures' = failures + 1
       \/ /\ stripe'.status = "past_due" => stripe.status = "past_due"
          /\ ~({"failed", "updated"} \subseteq types)
          /\ dueSince' = dueSince /\ failures' = failures

\* Every action of Stripe is of this form.
LEMMA StripeEmits ==
  ASSUME TypeOK, StripeActs
  PROVE  \E types \in SUBSET EventTypes : Emitted(types)
<1> DEFINE Goal == \E types \in SUBSET EventTypes : Emitted(types)
<1>1. /\ stripe \in StripeSub /\ now \in 1..MaxNow
      /\ stripe = [status |-> stripe.status, cape |-> stripe.cape,
                   paused |-> stripe.paused, at |-> stripe.at]
  BY DEF TypeOK, StripeSub
<1> USE DEF Emit, Emitted, Occurrence, Setter, Snapshot
<1>2. ASSUME NEW s \in StripeSub, s.status # "none", NEW types \in SUBSET EventTypes,
             Emit(s, types)
      PROVE  /\ stripe' \in Snapshots /\ stripe'.at = now
             /\ stripe'.status = s.status /\ stripe'.cape = s.cape /\ stripe'.paused = s.paused
             /\ actions' = actions + 1
             /\ pending' = pending \cup {Occurrence(k) : k \in types}
             /\ <<row, job, outbox, reminded, now>>' = <<row, job, outbox, reminded, now>>
  BY <1>1, <1>2 DEF StripeSub, Snapshots
<1>3. \A st \in StripeStatuses :
          /\ Become(st) \in StripeSub
          /\ Become(st).status = st /\ Become(st).cape = stripe.cape
          /\ Become(st).paused = stripe.paused
  BY <1>1 DEF Become, StripeSub
<1> HIDE DEF Emit, Emitted, Occurrence
<1> USE DEF StripeStatuses, EventTypes, Quietly
<1>4. CASE Subscribe
  <2>1. PICK st \in {"trialing", "active"} : Quietly(Become(st), {"created"})
    BY <1>4 DEF Subscribe
  <2>2. Emitted({"created"})
    BY <1>1, <1>2, <1>3, <1>4, <2>1 DEF Subscribe, Emitted
  <2> QED
    BY <2>2
<1>5. CASE TrialEnding
  <2>1. Emitted({"will_end"})
    BY <1>1, <1>2, <1>5 DEF TrialEnding, Emitted
  <2> QED
    BY <2>1
<1>6. CASE TrialPaid
  <2>1. Emitted({"succeeded", "updated"})
    BY <1>1, <1>2, <1>3, <1>6 DEF TrialPaid, Emitted
  <2> QED
    BY <2>1
<1>7. CASE Renew
  <2>1. Emitted({"succeeded"})
    BY <1>1, <1>2, <1>7 DEF Renew, Emitted
  <2> QED
    BY <2>1
<1>8. CASE PaymentFails
  <2>1. Emitted({"failed", "updated"})
    BY <1>1, <1>2, <1>3, <1>8 DEF PaymentFails, Emitted
  <2> QED
    BY <2>1
<1>9. CASE RetryFails
  <2>1. Emitted({"failed"})
    BY <1>1, <1>2, <1>9 DEF RetryFails, Emitted
  <2> QED
    BY <2>1
<1>10. CASE Recover
  <2>1. Emitted({"succeeded", "updated"})
    BY <1>1, <1>2, <1>3, <1>10 DEF Recover, Emitted
  <2> QED
    BY <2>1
<1>11. CASE ToggleCancel
  <2> DEFINE s == [stripe EXCEPT !.cape = ~@]
  <2>1. s \in StripeSub /\ s.status = stripe.status /\ s.paused = stripe.paused
    BY <1>1 DEF StripeSub
  <2>2. Alive /\ Quietly(s, {"updated"})
    BY <1>11 DEF ToggleCancel
  <2>3. Emitted({"updated"})
    BY <1>1, <1>2, <2>1, <2>2 DEF Alive, Emitted
  <2> QED
    BY <2>3
<1>12. CASE TogglePause
  <2> DEFINE s == [stripe EXCEPT !.paused = ~@]
  <2>1. s \in StripeSub /\ s.status = stripe.status /\ s.cape = stripe.cape
    BY <1>1 DEF StripeSub
  <2>2. Alive /\ Quietly(s, {"updated"})
    BY <1>12 DEF TogglePause
  <2>3. Emitted({"updated"})
    BY <1>1, <1>2, <2>1, <2>2 DEF Alive, Emitted
  <2> QED
    BY <2>3
<1>13. CASE Cancel
  <2>1. Emitted({"deleted"})
    BY <1>1, <1>2, <1>3, <1>13 DEF Cancel, Emitted
  <2> QED
    BY <2>1
<1> QED
  BY <1>4, <1>5, <1>6, <1>7, <1>8, <1>9, <1>10, <1>11, <1>12, <1>13 DEF StripeActs

(***************************************************************************)
(* The grace period of the first failure.  The tick decides on the mark of *)
(* the row, payment_failed_at, so the invariant says what a mark may be,   *)
(* wherever it is: in the row, in a copy a request holds, or in an event   *)
(* that is still to be applied.  Nothing is assumed of the order of the    *)
(* events or the number of requests.                                       *)
(***************************************************************************)
\* No mark without a failure, and while there was one only, none older than it.
Marked(t) == t # 0 => failures >= 1 /\ (failures = 1 => t >= dueSince)

GraceInv ==
    /\ dueSince <= now
    /\ stripe.status = "past_due" => failures >= 1
    /\ Marked(row.failedAt)
    /\ \A e \in pending : e.type = "failed" => Marked(e.sub.at)
    /\ \A e \in pending :
          e.type = "deleted" \/ e.sub.status = "canceled" => stripe.status = "canceled"
    /\ \A w \in Workers : job[w] # Idle =>
          /\ job[w].event \in pending
          /\ Marked(job[w].copy.failedAt)
          /\ \A v \in Workers : v # w /\ job[v] # Idle => job[v].event # job[w].event

\* The handlers take a mark from the row they loaded or from a failure's event.
LEMMA AppliedMark ==
  ASSUME NEW e, NEW r, Marked(r.failedAt), e.type = "failed" => Marked(e.sub.at)
  PROVE  Marked(Applied(e, r).failedAt)
<1>1. Marked(NewFailedAt(e, r))
  <2>1. Marked(0)
    BY DEF Marked
  <2> QED
    BY <2>1 DEF NewFailedAt
<1> QED
  BY <1>1 DEF Applied

\* What Stripe does leaves every mark sound, the new failure's included.
LEMMA GraceInvStripe == TypeOK /\ GraceInv /\ StripeActs => GraceInv'
<1> SUFFICES ASSUME TypeOK, GraceInv, StripeActs PROVE GraceInv'
  OBVIOUS
<1>1. PICK types \in SUBSET EventTypes : Emitted(types)
  BY StripeEmits
<1>2. /\ now \in Int /\ dueSince \in Int /\ failures \in Nat /\ now >= 1
      /\ row \in Row /\ pending \subseteq Event
  BY LifecycleAssumption DEF TypeOK, Times
<1>3. row' = row /\ job' = job /\ now' = now
  BY <1>1 DEF Emitted
<1>4. \A t \in Int : Marked(t) => Marked(t)'
  BY <1>1, <1>2 DEF Emitted, Marked
<1>5. dueSince' <= now' /\ (stripe'.status = "past_due" => failures' >= 1)
  BY <1>1, <1>2, <1>3 DEF Emitted, GraceInv
<1>6. Marked(row.failedAt)'
  BY <1>2, <1>3, <1>4 DEF GraceInv, Row, Times
<1>7. ASSUME NEW e \in pending', e.type = "failed"
      PROVE  Marked(e.sub.at)'
  <2>1. CASE e \in pending
    BY <1>2, <1>4, <1>7, <2>1 DEF GraceInv, Event, Snapshots
  <2>2. CASE e \notin pending
    <3>1. e.sub = stripe' /\ "failed" \in types
      BY <1>1, <1>7, <2>2 DEF Emitted, Occurrence
    <3>2. failures' >= 1 /\ dueSince' <= now
      BY <1>1, <1>3, <1>5, <3>1 DEF Emitted
    <3> QED
      BY <1>1, <3>1, <3>2 DEF Marked, Emitted
  <2> QED
    BY <2>1, <2>2
<1>8. ASSUME NEW e \in pending', e.type = "deleted" \/ e.sub.status = "canceled"
      PROVE  stripe'.status = "canceled"
  <2>1. CASE e \in pending
    BY <1>1, <1>8, <2>1 DEF GraceInv, Emitted
  <2>2. CASE e \notin pending
    BY <1>1, <1>8, <2>2 DEF Emitted, Occurrence
  <2> QED
    BY <2>1, <2>2
<1>9. ASSUME NEW w \in Workers, job'[w] # Idle
      PROVE  /\ job'[w].event \in pending'
             /\ Marked(job[w].copy.failedAt)'
             /\ \A v \in Workers : v # w /\ job'[v] # Idle => job'[v].event # job'[w].event
  <2>1. job[w].event \in pending /\ job[w].copy \in Row /\ Marked(job[w].copy.failedAt)
    BY <1>3, <1>9 DEF GraceInv, TypeOK
  <2>2. Marked(job[w].copy.failedAt)'
    BY <1>3, <1>4, <2>1 DEF Row, Times
  <2> QED
    BY <1>1, <1>3, <1>9, <2>1, <2>2 DEF GraceInv, Emitted
<1> QED
  BY <1>5, <1>6, <1>7, <1>8, <1>9 DEF GraceInv

\* So does every other step.
LEMMA GraceInvStep == TypeOK /\ GraceInv /\ [Next]_vars => GraceInv'
<1> SUFFICES ASSUME TypeOK, GraceInv, [Next]_vars PROVE GraceInv'
  OBVIOUS
<1>1. CASE StripeActs
  BY <1>1, GraceInvStripe
<1>2. ASSUME NEW w \in Workers, Reject(w) PROVE GraceInv'
  BY <1>2 DEF Reject, world, GraceInv, TypeOK, Marked
<1>3. ASSUME NEW w \in Workers, Apply(w) PROVE GraceInv'
  <2> DEFINE e == job[w].event
             old == job[w].copy
             new == Applied(e, old)
  <2>1. /\ job[w] # Idle /\ row' = Flushed(old, new) /\ pending' = pending \ {e}
        /\ job' = [job EXCEPT ![w] = Idle]
        /\ <<stripe, dueSince, failures, now>>' = <<stripe, dueSince, failures, now>>
    BY <1>3 DEF Apply
  <2>2. Marked(new.failedAt)
    BY <2>1, AppliedMark DEF GraceInv
  <2>3. Marked(row'.failedAt)
    BY <2>1, <2>2 DEF Flushed, GraceInv
  <2>4. \A t : Marked(t)' <=> Marked(t)
    BY <2>1 DEF Marked
  <2>5. Marked(row.failedAt)'
    BY <2>1, <2>3 DEF Marked
  <2>6. \A v \in Workers : job'[v] # Idle => v # w /\ job'[v] = job[v]
    BY <2>1 DEF TypeOK
  <2>7. \A v \in Workers : job'[v] # Idle => job'[v].event \in pending'
    BY <2>1, <2>6 DEF GraceInv
  <2>8. \A v \in Workers : job'[v] # Idle => Marked(job[v].copy.failedAt)'
    BY <2>1, <2>6 DEF GraceInv, Marked
  <2>9. \A v, u \in Workers : job'[v] # Idle /\ job'[u] # Idle /\ u # v
                                  => job'[u].event # job'[v].event
    BY <2>6 DEF GraceInv
  <2>10. \A f \in pending' : f.type = "failed" => Marked(f.sub.at)'
    BY <2>1 DEF GraceInv, Marked
  <2> QED
    BY <2>1, <2>5, <2>7, <2>8, <2>9, <2>10 DEF GraceInv
<1>4. ASSUME NEW w \in Workers, NEW e \in pending, Load(w, e) PROVE GraceInv'
  <2>1. /\ job[w] = Idle /\ job' = [job EXCEPT ![w] = [event |-> e, copy |-> row]]
        /\ \A v \in Workers : job[v] # Idle => job[v].event # e
        /\ <<stripe, pending, dueSince, failures, row, now>>'
               = <<stripe, pending, dueSince, failures, row, now>>
    BY <1>4 DEF Load, world
  <2>2. \A v \in Workers : job'[v] = IF v = w THEN [event |-> e, copy |-> row] ELSE job[v]
    BY <2>1 DEF TypeOK
  <2> QED
    BY <2>1, <2>2 DEF GraceInv, Marked
<1>5. CASE Tick
  <2>1. row'.failedAt = row.failedAt
    BY <1>5 DEF Tick, TypeOK, Row
  <2> QED
    BY <1>5, <2>1 DEF Tick, world, GraceInv, Marked
<1>6. CASE Clock
  <2>1. dueSince <= now'
    BY <1>6, LifecycleAssumption DEF Clock, GraceInv, TypeOK, Times
  <2> QED
    BY <1>6, <2>1 DEF Clock, world, GraceInv, Marked
<1>7. CASE UNCHANGED vars
  BY <1>7 DEF vars, GraceInv, Marked
<1> QED
  BY <1>1, <1>2, <1>3, <1>4, <1>5, <1>6, <1>7 DEF Next

\* A step that expires a past-due subscription is the tick's, and the row's mark
\* justifies it.
LEMMA GraceIsWhole == TypeOK /\ GraceInv /\ Next /\ failures <= 1 => ~CutShort
<1> SUFFICES ASSUME TypeOK, GraceInv, Next, failures <= 1, CutShort PROVE FALSE
  OBVIOUS
<1>1. row.status = "grace" /\ row'.status = "expired" /\ stripe.status = "past_due"
  BY DEF CutShort
<1>2. CASE StripeActs
  <2>1. row' = row
    BY <1>2, StripeEmits DEF Emitted
  <2> QED
    BY <1>1, <2>1
<1>3. ASSUME NEW w \in Workers, Reject(w) PROVE FALSE
  BY <1>1, <1>3 DEF Reject
<1>4. ASSUME NEW w \in Workers, Apply(w) PROVE FALSE
  <2> DEFINE e == job[w].event
             old == job[w].copy
  <2>1. e \in pending /\ e \in Event /\ row' = Flushed(old, Applied(e, old))
    BY <1>4 DEF Apply, GraceInv, TypeOK
  <2>2. Applied(e, old).status = "expired" /\ Applied(e, old).status # old.status
    BY <1>1, <2>1 DEF Flushed
  <2>3. NewStatus(e, old) = "expired" /\ old.status # "expired"
    BY <2>2 DEF Applied
  <2>4. e.type = "deleted" \/ (e.type \in Snapshot /\ Internal(e.sub) = "expired")
    BY <2>3 DEF NewStatus
  <2>5. e.type = "deleted" \/ e.sub.status = "canceled"
    BY <2>1, <2>4 DEF Internal, StatusMap, Event, Snapshots, StripeStatuses
  <2> QED
    BY <1>1, <2>1, <2>5 DEF GraceInv
<1>5. ASSUME NEW w \in Workers, NEW e \in pending, Load(w, e) PROVE FALSE
  BY <1>1, <1>5 DEF Load
<1>6. CASE Tick
  <2>1. now \in Int /\ dueSince \in Int /\ row.failedAt \in Int /\ Grace \in Int /\ failures \in Nat
    BY LifecycleAssumption DEF TypeOK, Row, Times
  <2>2. row.failedAt # 0 /\ now - row.failedAt >= Grace
    BY <1>1, <1>6 DEF Tick, Overdue, Elapsed
  <2>3. row.failedAt >= dueSince
    BY <2>1, <2>2 DEF GraceInv, Marked
  <2> QED
    BY <2>1, <2>2, <2>3 DEF CutShort
<1>7. CASE Clock
  BY <1>1, <1>7 DEF Clock
<1> QED
  BY <1>2, <1>3, <1>4, <1>5, <1>6, <1>7 DEF Next

\* The tick never cuts short the grace period of the first payment failure, in whatever
\* order the events arrive and however many requests serve them.
THEOREM FirstFailureGetsItsGrace == Spec => FirstGraceWhole
<1>1. Init => GraceInv
  BY DEF Init, NoRow, GraceInv, Marked
<1>2. TypeOK /\ GraceInv /\ [Next]_vars => [failures <= 1 => ~CutShort]_vars
  BY GraceIsWhole
<1> QED
  BY <1>1, <1>2, GraceInvStep, LifecycleTypeCorrect, PTL DEF Spec, FirstGraceWhole

(***************************************************************************)
(* Events in order, one request at a time: convergence.                    *)
(*                                                                         *)
(* The pending events and Stripe's record are points on a line, ordered by *)
(* number.  Between two points that disagree there is a pending event that *)
(* sets what they disagree on, and so there is between the row and every   *)
(* point.  A handler applies the first event of the line, which no other   *)
(* pair of points needs; the tick may have expired the row under it.  When *)
(* the line has no event left, nothing can stand between row and record.   *)
(* The invariant has two parameters for the last section: whether the      *)
(* status is loose (set by hand, nothing is said of it) and which requests *)
(* read the row before that.  Without interventions: FALSE and {}.         *)
(***************************************************************************)
ExpectedOf(s) ==
    IF s.status = "none" THEN {"absent"}
    ELSE IF s.status = "canceled" THEN {"expired"}
    ELSE IF s.paused THEN {"paused"}
    ELSE IF s.status = "past_due" THEN {"grace", "expired"}
    ELSE IF s.cape /\ s.status = "active" THEN {"cancel_at_period_end"}
    ELSE {s.status}

Point(n, s) == [no |-> n, sub |-> s]
Points == {Point(e.no, e.sub) : e \in pending} \cup {Point(actions, stripe)}

\* One of the events is of one of the types and comes after number m, up to number n.
Between(evs, m, n, types) == \E g \in evs : g.type \in types /\ m < g.no /\ g.no <= n

EventSound(e) ==
    /\ e.type = "created" <=> e.no = 1
    /\ e.type = "deleted" => e.sub.status = "canceled"
    /\ e.type \in Snapshot => e.sub.status # "canceled"
    /\ e.type = "succeeded" => e.sub.status = "active"
    /\ e.type = "failed" => e.sub.status = "past_due" /\ ~e.sub.paused

EventsSound == \A e \in pending : e.no <= actions /\ EventSound(e)

StripeSound == stripe.at <= now /\ (stripe.status = "none" <=> actions = 0)

AbsentSound ==
    row.status = "absent" /\ pending # {} => \E g \in pending : g.type = "created"

Line ==
    \A p, q \in Points :
        /\ p.no = q.no => p.sub = q.sub
        /\ p.no < q.no =>
              /\ p.sub.at <= q.sub.at
              /\ p.sub.cape = q.sub.cape \/ Between(pending, p.no, q.no, Snapshot)
              /\ ExpectedOf(p.sub) = ExpectedOf(q.sub) \/ Between(pending, p.no, q.no, Setter)

\* The status is on the line as well, unless it is loose: set by hand.
RowOnLine(loose) ==
    /\ loose => row.status # "absent"
    /\ \A p \in Points :
          /\ row.last <= p.sub.at
          /\ row.cape = p.sub.cape \/ Between(pending, 0, p.no, Snapshot)
          /\ loose \/ row.status \in ExpectedOf(p.sub) \/ Between(pending, 0, p.no, Setter)

\* A copy is the row, unless the tick has expired the row since.
Copied(r) == row = r \/ (r.status = "grace" /\ row = [r EXCEPT !.status = "expired"])

\* A copy of before an intervention may have another status; both rows exist.
Differs(r) ==
    /\ r.last = row.last /\ r.cape = row.cape
    /\ r.status # "absent" /\ row.status # "absent"

\* Requests work on the first event; those of old read the row before an intervention.
JobsSound(loose, old) ==
    \A w \in Workers : job[w] # Idle =>
        /\ job[w].event \in pending
        /\ \A f \in pending : job[w].event.no <= f.no
        /\ IF w \in old THEN loose /\ Differs(job[w].copy) ELSE Copied(job[w].copy)

\* The failures still to be announced: those that began with a change of the record.
Fresh == {e \in pending : e.type = "failed" /\
                          \E f \in pending : f.type = "updated" /\ f.no = e.no}
Told == IsFiniteSet(pending) /\ outbox["started"] + Cardinality(Fresh) <= failures

OrderInv(loose, old) ==
    /\ EventsSound /\ StripeSound /\ AbsentSound
    /\ Line /\ RowOnLine(loose) /\ JobsSound(loose, old)

\* Points have numbers and times.
LEMMA PointType ==
  ASSUME TypeOK
  PROVE  /\ actions \in Nat /\ stripe \in StripeSub
         /\ \A e \in pending : e.no \in Nat /\ e.no >= 1 /\ e.sub \in StripeSub
         /\ \A p \in Points : p.no \in Nat /\ p.sub \in StripeSub
<1>1. Snapshots \subseteq StripeSub
  BY DEF Snapshots, StripeSub, Times
<1>2. actions \in Nat /\ stripe \in StripeSub
  BY LifecycleAssumption DEF TypeOK
<1>3. \A e \in pending : e.no \in Nat /\ e.no >= 1 /\ e.sub \in StripeSub
  BY <1>1, LifecycleAssumption DEF TypeOK, Event
<1> QED
  BY <1>2, <1>3 DEF Points, Point

\* Records that agree on the three fields expect the same of the row.
LEMMA SameExpected ==
  ASSUME NEW s, NEW t, \A x \in {"status", "cape", "paused"} : s[x] = t[x]
  PROVE  ExpectedOf(s) = ExpectedOf(t)
  BY DEF ExpectedOf

\* What Stripe emits prolongs the line by one point.
LEMMA LineGrows ==
  ASSUME TypeOK, NEW loose \in BOOLEAN, NEW old, OrderInv(loose, old),
         NEW types \in SUBSET EventTypes, Emitted(types)
  PROVE  Line' /\ RowOnLine(loose)'
<1> DEFINE last == Point(actions, stripe)
           new == Point(actions + 1, stripe')
<1>1. /\ actions' = actions + 1 /\ pending' = pending \cup {Occurrence(k) : k \in types}
      /\ row' = row /\ stripe'.at = now
  BY DEF Emitted
<1>2. /\ actions \in Nat /\ stripe.at \in Int /\ now \in Int
      /\ \A p \in Points : p.no \in Nat /\ p.sub.at \in Int
      /\ row.last \in Int
  BY PointType, LifecycleAssumption DEF StripeSub, Times, TypeOK, Row
<1>3. Points' \subseteq Points \cup {new}
  BY <1>1 DEF Points, Point, Occurrence
<1>4. last \in Points /\ \A p \in Points : p.no <= actions
  BY <1>2 DEF Points, Point, OrderInv, EventsSound, EventSound
<1>5. \A m, n, ts : Between(pending, m, n, ts) => Between(pending', m, n, ts)
  BY <1>1 DEF Between
<1>6. \A k \in types, m \in Nat : \A ts : m <= actions /\ k \in ts => Between(pending', m, actions + 1, ts)
  <2> SUFFICES ASSUME NEW k \in types, NEW m \in Nat, NEW ts, m <= actions, k \in ts
               PROVE  Between(pending', m, actions + 1, ts)
    OBVIOUS
  <2>1. Occurrence(k) \in pending'
    BY <1>1
  <2>2. Occurrence(k).type = k /\ Occurrence(k).no = actions + 1
    BY DEF Occurrence
  <2> QED
    BY <1>2, <2>1, <2>2 DEF Between
<1>7. \A m, ts : m \in Nat /\ Between(pending, m, actions, ts) => Between(pending', m, actions + 1, ts)
  BY <1>1, <1>2, PointType DEF Between
<1>8. stripe.at <= stripe'.at
  BY <1>1 DEF OrderInv, StripeSound
<1>9. stripe'.cape = stripe.cape \/ \A m \in Nat : m <= actions => Between(pending', m, actions + 1, Snapshot)
  BY <1>6 DEF Emitted, Snapshot
<1>10. \/ ExpectedOf(stripe') = ExpectedOf(stripe)
       \/ \A m \in Nat : m <= actions => Between(pending', m, actions + 1, Setter)
  <2>1. CASE \A x \in {"status", "cape", "paused"} : stripe'[x] = stripe[x]
    BY <2>1, SameExpected
  <2>2. CASE types \cap Setter # {}
    BY <1>6, <2>2
  <2> QED
    BY <2>1, <2>2 DEF Emitted
<1>11. ASSUME NEW p \in Points
       PROVE  /\ p.no < new.no /\ p.sub.at <= new.sub.at
              /\ p.sub.cape = new.sub.cape \/ Between(pending', p.no, new.no, Snapshot)
              /\ ExpectedOf(p.sub) = ExpectedOf(new.sub) \/ Between(pending', p.no, new.no, Setter)
  <2>1. new.no = actions + 1 /\ new.sub = stripe' /\ last.no = actions /\ last.sub = stripe
    BY DEF Point
  <2>2. p.no <= actions /\ p.no \in Nat
    BY <1>2, <1>4
  <2>3. p.sub.at <= stripe.at
    BY <1>2, <1>4, <2>1, <2>2 DEF OrderInv, Line
  <2>4. p.sub.cape = stripe.cape \/ Between(pending, p.no, actions, Snapshot)
    BY <1>2, <1>4, <2>1, <2>2 DEF OrderInv, Line
  <2>5. ExpectedOf(p.sub) = ExpectedOf(stripe) \/ Between(pending, p.no, actions, Setter)
    BY <1>2, <1>4, <2>1, <2>2 DEF OrderInv, Line
  <2>6. p.sub.cape = stripe'.cape \/ Between(pending', p.no, actions + 1, Snapshot)
    BY <1>7, <1>9, <2>2, <2>4
  <2>7. ExpectedOf(p.sub) = ExpectedOf(stripe') \/ Between(pending', p.no, actions + 1, Setter)
    BY <1>7, <1>10, <2>2, <2>5
  <2> QED
    BY <1>1, <1>2, <1>8, <2>1, <2>2, <2>3, <2>6, <2>7
<1>12. Line'
  <2> SUFFICES ASSUME NEW p \in Points', NEW q \in Points'
               PROVE  /\ p.no = q.no => p.sub = q.sub
                      /\ p.no < q.no =>
                         /\ p.sub.at <= q.sub.at
                         /\ p.sub.cape = q.sub.cape \/ Between(pending', p.no, q.no, Snapshot)
                         /\ ExpectedOf(p.sub) = ExpectedOf(q.sub) \/ Between(pending', p.no, q.no, Setter)
    BY DEF Line
  <2>1. CASE p \in Points /\ q \in Points
    BY <1>5, <2>1 DEF OrderInv, Line
  <2>2. CASE p \in Points /\ q = new
    BY <1>2, <1>4, <1>11, <2>2 DEF Point
  <2>3. CASE p = new /\ q \in Points
    BY <1>2, <1>4, <2>3 DEF Point
  <2>4. CASE p = new /\ q = new
    BY <1>2, <2>4 DEF Point
  <2> QED
    BY <1>3, <2>1, <2>2, <2>3, <2>4
<1>13. RowOnLine(loose)'
  <2> SUFFICES ASSUME NEW p \in Points'
               PROVE  /\ row.last <= p.sub.at
                      /\ row.cape = p.sub.cape \/ Between(pending', 0, p.no, Snapshot)
                      /\ \/ loose \/ row.status \in ExpectedOf(p.sub)
                         \/ Between(pending', 0, p.no, Setter)
    BY <1>1 DEF OrderInv, RowOnLine
  <2>1. CASE p \in Points
    BY <1>5, <2>1 DEF OrderInv, RowOnLine
  <2>2. CASE p = new
    <3>1. p.no = actions + 1 /\ p.sub = stripe' /\ last.no = actions /\ last.sub = stripe
      BY <2>2 DEF Point
    <3>2. /\ row.last <= stripe.at
          /\ row.cape = stripe.cape \/ Between(pending, 0, actions, Snapshot)
          /\ loose \/ row.status \in ExpectedOf(stripe) \/ Between(pending, 0, actions, Setter)
      BY <1>4, <3>1 DEF OrderInv, RowOnLine
    <3>3. row.last <= stripe'.at
      BY <1>1, <1>2, <1>8, <3>2
    <3>4. row.cape = stripe'.cape \/ Between(pending', 0, actions + 1, Snapshot)
      BY <1>2, <1>7, <1>9, <3>2
    <3>5. loose \/ row.status \in ExpectedOf(stripe') \/ Between(pending', 0, actions + 1, Setter)
      BY <1>2, <1>7, <1>10, <3>2
    <3> QED
      BY <3>1, <3>3, <3>4, <3>5
  <2> QED
    BY <1>3, <2>1, <2>2
<1> QED
  BY <1>12, <1>13

\* The first event of the line is never older than the row.
LEMMA InTime ==
  ASSUME TypeOK, NEW loose \in BOOLEAN, NEW B, OrderInv(loose, B), NEW w \in Workers, Apply(w)
  PROVE  ~OutOfOrder(job[w].event, job[w].copy)
<1> DEFINE e == job[w].event
           old == job[w].copy
<1>1. e \in pending /\ e \in Event /\ old \in Row
  BY DEF Apply, OrderInv, JobsSound, TypeOK
<1>2. old.last = row.last
  <2>1. IF w \in B THEN Differs(old) ELSE Copied(old)
    BY DEF Apply, OrderInv, JobsSound
  <2> QED
    BY <1>1, <2>1 DEF Copied, Differs, Row, TypeOK
<1>3. Point(e.no, e.sub) \in Points
  BY <1>1 DEF Points
<1>4. row.last <= e.sub.at
  BY <1>3 DEF OrderInv, RowOnLine, Point
<1>5. row.last \in Int /\ e.sub.at \in Int
  BY <1>1 DEF TypeOK, Row, Times, Event, Snapshots
<1> QED
  BY <1>2, <1>4, <1>5 DEF OutOfOrder

\* What a request makes of the row with the first event of the line, whether or not the
\* tick expired the row in the meantime.
LEMMA RowAfter ==
  ASSUME TypeOK, NEW loose \in BOOLEAN, NEW B, OrderInv(loose, B), NEW w \in Workers, Apply(w)
  PROVE  LET e == job[w].event
             old == job[w].copy
         IN  /\ e \in pending /\ e \in Event /\ \A f \in pending : e.no <= f.no
             /\ pending' = pending \ {e}
             /\ w \notin B => old = row \/ (old.status = "grace" /\ row.status = "expired")
             /\ old.status = "absent" <=> row.status = "absent"
             /\ row'.last = e.sub.at
             /\ row'.cape = IF e.type \in Snapshot THEN e.sub.cape ELSE row.cape
             /\ row'.status = IF NewStatus(e, old) # old.status
                              THEN NewStatus(e, old) ELSE row.status
<1> DEFINE e == job[w].event
           old == job[w].copy
<1>1. /\ e \in pending /\ e \in Event /\ old \in Row /\ row \in Row
      /\ \A f \in pending : e.no <= f.no
      /\ pending' = pending \ {e} /\ row' = Flushed(old, Applied(e, old))
      /\ ~(old.status = "absent" /\ e.type = "updated")
  BY DEF Apply, OrderInv, JobsSound, TypeOK
<1>2. IF w \in B THEN Differs(old) ELSE Copied(old)
  BY DEF Apply, OrderInv, JobsSound
<1>3. /\ old.last = row.last /\ old.cape = row.cape
      /\ w \notin B => old = row \/ (old.status = "grace" /\ row.status = "expired")
      /\ old.status = "absent" <=> row.status = "absent"
  BY <1>1, <1>2 DEF Copied, Differs, Row
<1>4. old.status = "absent" => e.type = "created"
  <2> SUFFICES ASSUME old.status = "absent" PROVE e.type = "created"
    OBVIOUS
  <2>1. row.status = "absent"
    BY <1>3
  <2>2. PICK g \in pending : g.type = "created"
    BY <1>1, <2>1 DEF OrderInv, AbsentSound
  <2>3. g.no = 1 /\ e.no >= 1 /\ e.no <= g.no /\ e.no \in Nat
    BY <1>1, <2>2, PointType DEF OrderInv, EventsSound, EventSound
  <2>4. e.no = 1
    BY <2>3
  <2> QED
    BY <1>1, <2>4 DEF OrderInv, EventsSound, EventSound
<1>5. ~OutOfOrder(e, old)
  BY InTime
<1>6. Applied(e, old) = [status |-> NewStatus(e, old), failedAt |-> NewFailedAt(e, old),
                         last |-> e.sub.at,
                         cape |-> IF e.type \in Snapshot THEN e.sub.cape ELSE old.cape]
  BY <1>4, <1>5 DEF Applied
<1>7. row'.last = e.sub.at /\ row'.cape = IF e.type \in Snapshot THEN e.sub.cape ELSE row.cape
  BY <1>1, <1>3, <1>6 DEF Flushed
<1>8. row'.status = IF NewStatus(e, old) # old.status THEN NewStatus(e, old) ELSE row.status
  BY <1>1, <1>6 DEF Flushed
<1> QED
  BY <1>1, <1>3, <1>7, <1>8

\* The row after an event that sets the status is what the record of the event calls for;
\* any other event leaves a status alone that its own record calls for.
LEMMA StatusAfter ==
  ASSUME TypeOK, NEW loose \in BOOLEAN, NEW B, OrderInv(loose, B), NEW w \in Workers, Apply(w),
         NEW e, e = job[w].event
  PROVE  /\ w \notin B /\ e.type \in Setter => row'.status \in ExpectedOf(e.sub)
         /\ w \notin B /\ e.type \notin Setter /\ row.status \in ExpectedOf(e.sub)
               => row'.status \in ExpectedOf(e.sub)
         /\ row'.status # "absent"
<1> DEFINE old == job[w].copy
<1>1. /\ e \in pending /\ e \in Event
      /\ w \notin B => old = row \/ (old.status = "grace" /\ row.status = "expired")
      /\ old.status = "absent" <=> row.status = "absent"
      /\ row'.status = IF NewStatus(e, old) # old.status THEN NewStatus(e, old) ELSE row.status
  BY RowAfter
<1>2. EventSound(e) /\ e.type \in EventTypes
  BY <1>1 DEF OrderInv, EventsSound, Event
<1>3. /\ e.sub.status \in {"trialing", "active", "past_due", "canceled"}
      /\ e.sub.paused \in BOOLEAN /\ e.sub.cape \in BOOLEAN
  BY <1>1 DEF Event, Snapshots, StripeStatuses
<1>4. e.type \in Snapshot => /\ NewStatus(e, old) = Internal(e.sub)
                             /\ Internal(e.sub) \in ExpectedOf(e.sub)
                             /\ Internal(e.sub) # "absent"
                             /\ Internal(e.sub) = "grace" => "expired" \in ExpectedOf(e.sub)
  BY <1>2, <1>3 DEF NewStatus, EventSound, Internal, StatusMap, ExpectedOf, Snapshot
<1>5. e.type = "deleted" => NewStatus(e, old) = "expired" /\ ExpectedOf(e.sub) = {"expired"}
  BY <1>2 DEF NewStatus, EventSound, ExpectedOf, Snapshot
<1>6. w \notin B /\ e.type \in Setter => row'.status \in ExpectedOf(e.sub)
  BY <1>1, <1>4, <1>5 DEF Setter
<1>7. ASSUME w \notin B, e.type \notin Setter, row.status \in ExpectedOf(e.sub)
      PROVE  row'.status \in ExpectedOf(e.sub)
  <2>1. CASE e.type = "succeeded"
    <3>1. "grace" \notin ExpectedOf(e.sub) /\ "expired" \notin ExpectedOf(e.sub)
      BY <1>2, <1>3, <2>1 DEF EventSound, ExpectedOf
    <3>2. old = row /\ row.status # "grace"
      BY <1>1, <1>7, <3>1
    <3>3. NewStatus(e, old) = row.status
      BY <2>1, <3>2 DEF NewStatus, Snapshot
    <3> QED
      BY <1>1, <1>7, <3>2, <3>3
  <2>2. CASE e.type = "failed"
    <3>1. ExpectedOf(e.sub) = {"grace", "expired"}
      BY <1>2, <1>3, <2>2 DEF EventSound, ExpectedOf
    <3>2. NewStatus(e, old) = IF old.status \in Chargeable THEN "grace" ELSE old.status
      BY <2>2 DEF NewStatus, Snapshot
    <3>3. NewStatus(e, old) = "grace" \/ NewStatus(e, old) = row.status
      BY <1>1, <1>7, <3>2 DEF Chargeable
    <3> QED
      BY <1>1, <1>7, <3>1, <3>3
  <2>3. CASE e.type = "will_end"
    <3>1. NewStatus(e, old) = old.status
      BY <2>3 DEF NewStatus, Snapshot
    <3> QED
      BY <1>1, <1>7, <3>1
  <2> QED
    BY <1>2, <1>7, <2>1, <2>2, <2>3 DEF EventTypes, Setter, Snapshot
<1>8. row'.status # "absent"
  <2> SUFFICES ASSUME NewStatus(e, old) = "absent" PROVE FALSE
    BY <1>1
  <2>1. e.type \notin Setter /\ old.status = "absent"
    <3>1. e.type \notin Setter
      BY <1>4, <1>5 DEF Setter
    <3> QED
      BY <3>1 DEF NewStatus, Setter
  <2>2. row.status = "absent"
    BY <1>1, <2>1
  <2>3. PICK g \in pending : g.type = "created"
    BY <1>1, <2>2 DEF OrderInv, AbsentSound
  <2>4. g.no = 1 /\ e.no >= 1 /\ e.no <= g.no /\ e.no \in Nat
    BY <1>1, <2>3, PointType, RowAfter DEF OrderInv, EventsSound, EventSound
  <2>5. e.no = 1
    BY <2>4
  <2> QED
    BY <1>2, <2>1, <2>5 DEF EventSound, Setter, Snapshot
<1> QED
  BY <1>6, <1>7, <1>8

\* Applying the first event leaves a line, and the row on it.
LEMMA LineShrinks ==
  ASSUME TypeOK, NEW loose \in BOOLEAN, NEW B, OrderInv(loose, B), NEW w \in Workers, Apply(w),
         NEW left \in BOOLEAN, left <=> loose /\ ~(w \notin B /\ job[w].event.type \in Setter)
  PROVE  Line' /\ RowOnLine(left)'
<1> DEFINE e == job[w].event
           first == Point(e.no, e.sub)
<1>1. /\ e \in pending /\ \A f \in pending : e.no <= f.no
      /\ pending' = pending \ {e}
      /\ row'.last = e.sub.at
      /\ row'.cape = IF e.type \in Snapshot THEN e.sub.cape ELSE row.cape
  BY RowAfter
<1>2. actions' = actions /\ stripe' = stripe
  BY DEF Apply
<1>3. /\ \A p \in Points : p.no \in Nat
      /\ \A f \in pending : f.no \in Nat /\ f.no >= 1
  BY PointType
<1>4. Points' \subseteq Points /\ first \in Points /\ first.no = e.no /\ first.sub = e.sub
  BY <1>1, <1>2 DEF Points, Point
<1>5. \A p \in Points : e.no <= p.no
  BY <1>1 DEF Points, Point, OrderInv, EventsSound, EventSound
<1>6. ASSUME NEW m \in Nat, NEW n \in Nat, NEW ts, e.no <= m, Between(pending, m, n, ts)
      PROVE  Between(pending', m, n, ts) /\ Between(pending', 0, n, ts)
  <2>1. PICK g \in pending : g.type \in ts /\ m < g.no /\ g.no <= n
    BY <1>6 DEF Between
  <2>2. g # e
    BY <1>1, <1>3, <1>6, <2>1
  <2> QED
    BY <1>1, <1>3, <2>1, <2>2 DEF Between
<1>7. ASSUME NEW n \in Nat, NEW ts, e.type \notin ts, Between(pending, 0, n, ts)
      PROVE  Between(pending', 0, n, ts)
  BY <1>1, <1>7 DEF Between
<1>8. Line'
  <2> SUFFICES ASSUME NEW p \in Points', NEW q \in Points'
               PROVE  /\ p.no = q.no => p.sub = q.sub
                      /\ p.no < q.no =>
                         /\ p.sub.at <= q.sub.at
                         /\ p.sub.cape = q.sub.cape \/ Between(pending', p.no, q.no, Snapshot)
                         /\ \/ ExpectedOf(p.sub) = ExpectedOf(q.sub)
                            \/ Between(pending', p.no, q.no, Setter)
    BY DEF Line
  <2>1. /\ p \in Points /\ q \in Points /\ p.no \in Nat /\ q.no \in Nat /\ e.no <= p.no
    BY <1>3, <1>4, <1>5
  <2> QED
    BY <1>6, <2>1 DEF OrderInv, Line
<1>9. ASSUME NEW q \in Points
      PROVE  /\ e.sub.at <= q.sub.at
             /\ e.sub.cape = q.sub.cape \/ Between(pending', 0, q.no, Snapshot)
             /\ ExpectedOf(e.sub) = ExpectedOf(q.sub) \/ Between(pending', 0, q.no, Setter)
  <2>1. e.no \in Nat /\ q.no \in Nat /\ e.no <= q.no /\ e.sub.at \in Int
    BY <1>1, <1>3, <1>5, PointType DEF StripeSub, Times
  <2>2. CASE e.no = q.no
    <3>1. e.sub = q.sub
      BY <1>4, <2>2 DEF OrderInv, Line
    <3> QED
      BY <2>1, <3>1
  <2>3. CASE e.no < q.no
    <3>1. /\ e.sub.at <= q.sub.at
          /\ e.sub.cape = q.sub.cape \/ Between(pending, e.no, q.no, Snapshot)
          /\ ExpectedOf(e.sub) = ExpectedOf(q.sub) \/ Between(pending, e.no, q.no, Setter)
      BY <1>4, <2>3 DEF OrderInv, Line
    <3> QED
      BY <1>6, <2>1, <3>1
  <2> QED
    BY <2>1, <2>2, <2>3
<1>10. left \/ row'.status \in ExpectedOf(e.sub) \/ Between(pending', 0, e.no, Setter)
  <2> SUFFICES ASSUME ~left
               PROVE  row'.status \in ExpectedOf(e.sub) \/ Between(pending', 0, e.no, Setter)
    OBVIOUS
  <2>0. w \notin B
    BY DEF OrderInv, JobsSound, Apply
  <2>1. CASE e.type \in Setter
    BY <2>0, <2>1, StatusAfter
  <2>2. CASE e.type \notin Setter
    <3>1. row.status \in ExpectedOf(e.sub) \/ Between(pending, 0, e.no, Setter)
      BY <1>4, <2>2 DEF OrderInv, RowOnLine
    <3> QED
      BY <1>1, <1>3, <1>7, <2>0, <2>2, <3>1, StatusAfter
  <2> QED
    BY <2>1, <2>2
<1>11. RowOnLine(left)'
  <2> SUFFICES ASSUME NEW q \in Points'
               PROVE  /\ row'.last <= q.sub.at
                      /\ row'.cape = q.sub.cape \/ Between(pending', 0, q.no, Snapshot)
                      /\ \/ left \/ row'.status \in ExpectedOf(q.sub)
                         \/ Between(pending', 0, q.no, Setter)
    BY StatusAfter DEF RowOnLine
  <2>1. q \in Points /\ q.no \in Nat /\ e.no <= q.no /\ e.no \in Nat
    BY <1>1, <1>3, <1>4, <1>5
  <2>2. row'.cape = q.sub.cape \/ Between(pending', 0, q.no, Snapshot)
    <3>1. CASE e.type \in Snapshot
      BY <1>1, <1>9, <2>1, <3>1
    <3>2. CASE e.type \notin Snapshot
      <4>1. row.cape = q.sub.cape \/ Between(pending, 0, q.no, Snapshot)
        BY <2>1 DEF OrderInv, RowOnLine
      <4> QED
        BY <1>1, <1>7, <2>1, <3>2, <4>1
    <3> QED
      BY <3>1, <3>2
  <2>3. Between(pending', 0, e.no, Setter) => Between(pending', 0, q.no, Setter)
    BY <1>1, <1>3, <2>1 DEF Between
  <2> QED
    BY <1>1, <1>9, <1>10, <2>1, <2>2, <2>3
<1> QED
  BY <1>8, <1>11

\* A failure is announced with the first event of a failure whose change of the record
\* is still to come; the row has not yet gone into grace.
LEMMA StartedIsFresh ==
  ASSUME TypeOK, OrderInv(FALSE, {}), NEW w \in Workers, Apply(w),
         "started" \in NoticesOf(job[w].event, job[w].copy)
  PROVE  job[w].event \in Fresh
<1> DEFINE e == job[w].event
           old == job[w].copy
<1>1. /\ e \in pending /\ e \in Event /\ \A f \in pending : e.no <= f.no
      /\ old = row \/ (old.status = "grace" /\ row.status = "expired")
  <2>1. e \in pending /\ e \in Event /\ \A f \in pending : e.no <= f.no
    BY RowAfter
  <2>2. Copied(old) /\ row \in Row
    BY DEF OrderInv, JobsSound, Apply, TypeOK
  <2> QED
    BY <2>1, <2>2 DEF Copied, Row
<1>2. e.type = "failed" /\ old.status \in {"trialing", "active"}
  BY DEF NoticesOf
<1>3. ExpectedOf(e.sub) = {"grace", "expired"}
  BY <1>1, <1>2 DEF OrderInv, EventsSound, EventSound, ExpectedOf, Event, Snapshots
<1>4. row.status \notin ExpectedOf(e.sub)
  BY <1>1, <1>2, <1>3
<1>5. Between(pending, 0, e.no, Setter)
  <2>1. Point(e.no, e.sub) \in Points
    BY <1>1 DEF Points
  <2> QED
    BY <1>4, <2>1 DEF OrderInv, RowOnLine, Point
<1>6. PICK g \in pending : g.type \in Setter /\ g.no <= e.no
  BY <1>5 DEF Between
<1>7. g.no = e.no /\ g.sub = e.sub
  <2>1. g.no = e.no
    BY <1>1, <1>6, PointType
  <2>2. Point(e.no, e.sub) \in Points /\ Point(g.no, g.sub) \in Points
    BY <1>1 DEF Points
  <2> QED
    BY <2>1, <2>2 DEF OrderInv, Line, Point
<1>8. EventSound(e) /\ EventSound(g)
  BY <1>1 DEF OrderInv, EventsSound
<1>9. g.type = "updated"
  BY <1>2, <1>6, <1>7, <1>8 DEF EventSound, Setter, Snapshot
<1> QED
  BY <1>1, <1>2, <1>7, <1>9 DEF Fresh

\* Emitting events keeps the count of announcements below that of the failures.
LEMMA ToldEmitted ==
  ASSUME TypeOK, OrderInv(FALSE, {}), Told, NEW types \in SUBSET EventTypes, Emitted(types)
  PROVE  Told'
<1> DEFINE news == {Occurrence(k) : k \in types}
<1>1. pending' = pending \cup news /\ outbox' = outbox
  BY DEF Emitted
<1>2. IsFiniteSet(pending')
  <2>1. news \subseteq {Occurrence(k) : k \in EventTypes}
    OBVIOUS
  <2> DEFINE two(k, l) == {Occurrence(k)} \cup {Occurrence(l)}
  <2>2. {Occurrence(k) : k \in EventTypes}
          = (two("created", "updated") \cup two("deleted", "succeeded")) \cup two("failed", "will_end")
    BY DEF EventTypes
  <2>3. IsFiniteSet({Occurrence(k) : k \in EventTypes})
    <3>1. \A k, l : IsFiniteSet(two(k, l))
      BY FS_Singleton, FS_Union
    <3>2. IsFiniteSet(two("created", "updated") \cup two("deleted", "succeeded"))
      BY <3>1, FS_Union
    <3> HIDE DEF two
    <3> QED
      BY <2>2, <3>1, <3>2, FS_Union
  <2> QED
    BY <1>1, <2>1, <2>3, FS_Subset, FS_Union DEF Told
<1>3. IsFiniteSet(Fresh) /\ Fresh \subseteq pending
  BY FS_Subset DEF Told, Fresh
<1>4. Cardinality(Fresh) \in Nat /\ outbox["started"] \in Nat /\ failures \in Nat
  BY <1>3, FS_CardinalityType DEF TypeOK, Notices
<1>5. ASSUME NEW e \in Fresh', e \notin Fresh
      PROVE  e = Occurrence("failed") /\ {"failed", "updated"} \subseteq types
  <2>1. PICK f \in pending' : f.type = "updated" /\ f.no = e.no
    BY DEF Fresh
  <2>2. e \in pending' /\ e.type = "failed"
    BY DEF Fresh
  <2>3. \A g \in pending : g.no <= actions /\ g.no \in Nat
    BY PointType DEF OrderInv, EventsSound, EventSound
  <2>4. \A g \in news : g.no = actions + 1 /\ g.type \in types
    BY DEF Occurrence
  <2>5. e \in news /\ f \in news
    BY <1>1, <1>5, <2>1, <2>2, <2>3, <2>4, PointType DEF Fresh
  <2> QED
    BY <2>1, <2>2, <2>5 DEF Occurrence
<1>6. CASE {"failed", "updated"} \subseteq types
  <2>1. Fresh' \subseteq Fresh \cup {Occurrence("failed")} /\ failures' = failures + 1
    BY <1>5, <1>6 DEF Emitted
  <2>2. /\ IsFiniteSet(Fresh \cup {Occurrence("failed")})
        /\ Cardinality(Fresh \cup {Occurrence("failed")}) \in {Cardinality(Fresh), Cardinality(Fresh) + 1}
    BY <1>3, FS_AddElement
  <2>3. Cardinality(Fresh') <= Cardinality(Fresh) + 1 /\ Cardinality(Fresh') \in Nat
    BY <1>4, <2>1, <2>2, FS_Subset, FS_CardinalityType
  <2> QED
    BY <1>1, <1>2, <1>4, <2>1, <2>3 DEF Told
<1>7. CASE ~({"failed", "updated"} \subseteq types)
  <2>1. Fresh' \subseteq Fresh /\ failures' = failures
    BY <1>5, <1>7 DEF Emitted
  <2>2. Cardinality(Fresh') <= Cardinality(Fresh) /\ Cardinality(Fresh') \in Nat
    BY <1>3, <2>1, FS_Subset, FS_CardinalityType
  <2> QED
    BY <1>1, <1>2, <1>4, <2>1, <2>2 DEF Told
<1> QED
  BY <1>6, <1>7

\* Applying an event announces at most the failure it takes out of Fresh.
LEMMA ToldApplied ==
  ASSUME TypeOK, OrderInv(FALSE, {}), Told, NEW w \in Workers, Apply(w)
  PROVE  Told'
<1> DEFINE e == job[w].event
           ns == NoticesOf(e, job[w].copy)
<1>1. e \in pending /\ pending' = pending \ {e} /\ failures' = failures
  BY RowAfter DEF Apply
<1>2. outbox'["started"] = IF "started" \in ns THEN outbox["started"] + 1 ELSE outbox["started"]
  BY DEF Apply, Write, Notices
<1>3. IsFiniteSet(pending') /\ IsFiniteSet(Fresh)
  BY <1>1, FS_Subset DEF Told, Fresh
<1>4. Cardinality(Fresh) \in Nat /\ outbox["started"] \in Nat /\ failures \in Nat
  BY <1>3, FS_CardinalityType DEF TypeOK, Notices
<1>5. Fresh' \subseteq Fresh \ {e}
  BY <1>1 DEF Fresh
<1>6. CASE "started" \in ns
  <2>1. e \in Fresh
    BY <1>6, StartedIsFresh
  <2>2. /\ IsFiniteSet(Fresh \ {e})
        /\ Cardinality(Fresh \ {e}) = Cardinality(Fresh) - 1
    BY <1>3, <2>1, FS_RemoveElement
  <2>3. Cardinality(Fresh') <= Cardinality(Fresh) - 1 /\ Cardinality(Fresh') \in Nat
    BY <1>5, <2>2, FS_Subset, FS_CardinalityType
  <2> QED
    BY <1>1, <1>2, <1>3, <1>4, <1>6, <2>3 DEF Told
<1>7. CASE "started" \notin ns
  <2>1. Cardinality(Fresh') <= Cardinality(Fresh) /\ Cardinality(Fresh') \in Nat
    BY <1>3, <1>5, FS_Subset, FS_CardinalityType
  <2> QED
    BY <1>1, <1>2, <1>3, <1>4, <1>7, <2>1 DEF Told
<1> QED
  BY <1>6, <1>7

\* The invariant holds through every action of Stripe.
LEMMA OrderStripe ==
  ASSUME TypeOK, NEW loose \in BOOLEAN, NEW old, OrderInv(loose, old), StripeActs
  PROVE  OrderInv(loose, old)'
<1>1. PICK types \in SUBSET EventTypes : Emitted(types)
  BY StripeEmits
<1>2. /\ actions' = actions + 1 /\ pending' = pending \cup {Occurrence(k) : k \in types}
      /\ row' = row /\ job' = job /\ now' = now
      /\ stripe'.at = now /\ stripe' \in Snapshots
  BY <1>1 DEF Emitted
<1>3. actions \in Nat /\ now \in Int /\ \A e \in pending : e.no \in Nat /\ e.no <= actions
  BY PointType, LifecycleAssumption DEF TypeOK, OrderInv, EventsSound, EventSound
<1>4. stripe'.status # "none"
  BY <1>2 DEF Snapshots
<1>5. ASSUME NEW k \in types PROVE EventSound(Occurrence(k))
  <2>1. k = "created" <=> actions + 1 = 1
    BY <1>1, <1>3, <1>5 DEF Emitted, OrderInv, StripeSound
  <2>2. k \in Snapshot => stripe'.status # "canceled"
    BY <1>1, <1>5 DEF Emitted, Snapshot
  <2> QED
    BY <1>1, <1>3, <1>5, <2>1, <2>2 DEF Emitted, EventSound, Occurrence
<1>6. EventsSound'
  <2> SUFFICES ASSUME NEW e \in pending' PROVE e.no <= actions' /\ EventSound(e)
    BY DEF EventsSound
  <2>1. CASE e \in pending
    BY <1>2, <1>3, <2>1 DEF OrderInv, EventsSound, EventSound
  <2>2. CASE e \notin pending
    <3>1. PICK k \in types : e = Occurrence(k)
      BY <1>2, <2>2
    <3>2. e.no = actions'
      BY <1>2, <3>1 DEF Occurrence
    <3> QED
      BY <1>2, <1>3, <1>5, <3>1, <3>2
  <2> QED
    BY <2>1, <2>2
<1>7. StripeSound'
  BY <1>2, <1>3, <1>4 DEF StripeSound
<1>8. AbsentSound'
  <2> SUFFICES ASSUME row.status = "absent" PROVE \E g \in pending' : g.type = "created"
    BY <1>2 DEF AbsentSound
  <2>1. CASE pending # {}
    BY <1>2, <2>1 DEF OrderInv, AbsentSound
  <2>2. CASE pending = {}
    <3>1. Point(actions, stripe).no = actions /\ Point(actions, stripe).sub = stripe
      BY DEF Point
    <3>2. row.status \in ExpectedOf(stripe)
      BY <2>2, <3>1 DEF OrderInv, RowOnLine, Points, Between
    <3>3. stripe.status = "none"
      BY <3>2 DEF ExpectedOf, TypeOK, StripeSub, StripeStatuses
    <3>4. "created" \in types
      BY <1>1, <3>3 DEF Emitted
    <3>5. Occurrence("created") \in pending' /\ Occurrence("created").type = "created"
      BY <1>2, <3>4 DEF Occurrence
    <3> QED
      BY <3>5
  <2> QED
    BY <2>1, <2>2
<1>9. JobsSound(loose, old)'
  <2> SUFFICES ASSUME NEW w \in Workers, job[w] # Idle
               PROVE  /\ job[w].event \in pending'
                      /\ \A f \in pending' : job[w].event.no <= f.no
                      /\ IF w \in old THEN loose /\ Differs(job[w].copy) ELSE Copied(job[w].copy)
    BY <1>2 DEF JobsSound, Copied, Differs
  <2>1. /\ job[w].event \in pending /\ \A f \in pending : job[w].event.no <= f.no
        /\ IF w \in old THEN loose /\ Differs(job[w].copy) ELSE Copied(job[w].copy)
    BY <1>2 DEF OrderInv, JobsSound
  <2> QED
    BY <1>2, <1>3, <2>1 DEF Occurrence
<1> QED
  BY <1>1, <1>6, <1>7, <1>8, <1>9, LineGrows DEF OrderInv

\* It holds when an event is applied, by which a loose status may be set.
LEMMA OrderApply ==
  ASSUME \A v, w \in Workers : v = w, TypeOK,
         NEW loose \in BOOLEAN, NEW B, OrderInv(loose, B), NEW w \in Workers, Apply(w),
         NEW left \in BOOLEAN, left <=> loose /\ ~(w \notin B /\ job[w].event.type \in Setter),
         NEW C
  PROVE  OrderInv(left, C)'
<1>1. /\ <<stripe, actions, failures, now>>' = <<stripe, actions, failures, now>>
      /\ pending' \subseteq pending
      /\ \A v \in Workers : job'[v] = Idle
  BY DEF Apply, TypeOK
<1>2. EventsSound' /\ StripeSound'
  BY <1>1 DEF OrderInv, EventsSound, EventSound, StripeSound
<1>3. AbsentSound'
  BY StatusAfter DEF AbsentSound
<1>4. JobsSound(left, C)'
  BY <1>1 DEF JobsSound
<1> QED
  BY <1>2, <1>3, <1>4, LineShrinks DEF OrderInv

\* It holds when only the requests change, as far as their copies are sound.
LEMMA OrderSame ==
  ASSUME NEW loose \in BOOLEAN, NEW B, OrderInv(loose, B), NEW C, JobsSound(loose, C)',
         UNCHANGED <<stripe, actions, pending, row, now>>
  PROVE  OrderInv(loose, C)'
<1>1. Points' = Points
  BY DEF Points
<1> QED
  BY <1>1 DEF OrderInv, EventsSound, EventSound, StripeSound, AbsentSound, Line, RowOnLine

\* A request that gives its event back holds no copy any more.
LEMMA OrderReject ==
  ASSUME \A v, w \in Workers : v = w, TypeOK,
         NEW loose \in BOOLEAN, NEW B, OrderInv(loose, B), NEW w \in Workers, Reject(w), NEW C
  PROVE  OrderInv(loose, C)'
<1>1. /\ UNCHANGED <<stripe, actions, pending, row, now>>
      /\ \A v \in Workers : job'[v] = Idle
  BY DEF Reject, world, TypeOK
<1>2. JobsSound(loose, C)'
  BY <1>1 DEF JobsSound
<1> QED
  BY <1>1, <1>2, OrderSame

\* A request reads the row with the first event.
LEMMA OrderLoad ==
  ASSUME InOrder, \A v, w \in Workers : v = w, TypeOK,
         NEW loose \in BOOLEAN, NEW B, OrderInv(loose, B), NEW w \in Workers, w \notin B,
         NEW e \in pending, Load(w, e)
  PROVE  OrderInv(loose, B)'
<1>1. /\ UNCHANGED <<stripe, actions, pending, row, now>>
      /\ \A f \in pending : e.no <= f.no
      /\ job' = [job EXCEPT ![w] = [event |-> e, copy |-> row]]
  BY DEF Load, Deliverable, world
<1>2. \A v \in Workers : v \notin B /\ job'[v] = [event |-> e, copy |-> row]
  BY <1>1 DEF TypeOK
<1>3. JobsSound(loose, B)'
  BY <1>1, <1>2 DEF JobsSound, Copied
<1> QED
  BY <1>1, <1>3, OrderSame

\* The tick expires a row that is in grace, under the copies of it.
LEMMA OrderTick ==
  ASSUME TypeOK, NEW loose \in BOOLEAN, NEW B, OrderInv(loose, B), Tick
  PROVE  OrderInv(loose, B)'
<1>1. /\ UNCHANGED <<stripe, actions, pending, job, now>>
      /\ row.status = "grace"
      /\ row' = row \/ row' = [row EXCEPT !.status = "expired"]
  BY DEF Tick, world
<1>2. row \in Row
  BY DEF TypeOK
<1>3. row'.last = row.last /\ row'.cape = row.cape /\ row'.status \in {"grace", "expired"}
  BY <1>1, <1>2 DEF Row
<1>4. \A s \in StripeSub : "grace" \in ExpectedOf(s) => "expired" \in ExpectedOf(s)
  BY DEF ExpectedOf, StripeSub, StripeStatuses
<1>5. Points' = Points
  BY <1>1 DEF Points
<1>6. RowOnLine(loose)'
  <2> SUFFICES ASSUME NEW p \in Points
               PROVE  /\ row.last <= p.sub.at
                      /\ row.cape = p.sub.cape \/ Between(pending, 0, p.no, Snapshot)
                      /\ \/ loose \/ row'.status \in ExpectedOf(p.sub)
                         \/ Between(pending, 0, p.no, Setter)
    BY <1>1, <1>3, <1>5 DEF RowOnLine
  <2> QED
    BY <1>1, <1>3, <1>4, PointType DEF OrderInv, RowOnLine
<1>7. JobsSound(loose, B)'
  <2> SUFFICES ASSUME NEW w \in Workers, job[w] # Idle
               PROVE  IF w \in B THEN loose /\ Differs(job[w].copy)' ELSE Copied(job[w].copy)'
    BY <1>1 DEF OrderInv, JobsSound
  <2>1. CASE w \in B
    BY <1>1, <1>3, <2>1 DEF OrderInv, JobsSound, Differs
  <2>2. CASE w \notin B
    <3>1. row = job[w].copy
      BY <1>1, <1>2, <2>2 DEF OrderInv, JobsSound, Copied, Row
    <3> QED
      BY <1>1, <2>2, <3>1 DEF Copied
  <2> QED
    BY <2>1, <2>2
<1>8. EventsSound' /\ StripeSound' /\ AbsentSound' /\ Line'
  BY <1>1, <1>3, <1>5
     DEF OrderInv, EventsSound, EventSound, StripeSound, AbsentSound, Line
<1> QED
  BY <1>6, <1>7, <1>8 DEF OrderInv

\* It holds when time goes by, or nothing happens.
LEMMA OrderClock ==
  ASSUME TypeOK, NEW loose \in BOOLEAN, NEW B, OrderInv(loose, B), Clock \/ UNCHANGED vars
  PROVE  OrderInv(loose, B)'
<1>1. UNCHANGED <<stripe, actions, pending, row, job>> /\ now' >= now
  BY LifecycleAssumption DEF Clock, vars, world, TypeOK
<1>2. StripeSound'
  <2>1. stripe.at \in Int /\ now \in Int /\ now' \in Int
    BY LifecycleAssumption DEF TypeOK, StripeSub, Times, Clock, vars
  <2> QED
    BY <1>1, <2>1 DEF OrderInv, StripeSound
<1>3. Points' = Points
  BY <1>1 DEF Points
<1> QED
  BY <1>1, <1>2, <1>3
     DEF OrderInv, EventsSound, EventSound, AbsentSound, Line, RowOnLine, JobsSound, Copied, Differs

\* Nobody sets the status by hand in Spec: there it is never loose.
LEMMA OrderStep ==
  ASSUME InOrder, \A v, w \in Workers : v = w, TypeOK, OrderInv(FALSE, {}), Told, [Next]_vars
  PROVE  OrderInv(FALSE, {})' /\ Told'
<1> FALSE \in BOOLEAN
  OBVIOUS
<1>1. CASE StripeActs
  BY <1>1, OrderStripe, StripeEmits, ToldEmitted
<1>2. ASSUME NEW w \in Workers, Apply(w) PROVE OrderInv(FALSE, {})' /\ Told'
  <2>1. OrderInv(FALSE, {})'
    BY <1>2, OrderApply
  <2> QED
    BY <1>2, <2>1, ToldApplied
<1>3. CASE ~StripeActs /\ ~(\E w \in Workers : Apply(w))
  <2>1. Told'
    <3>1. UNCHANGED <<pending, failures>> /\ outbox'["started"] = outbox["started"]
      BY <1>3 DEF Next, Reject, Load, Tick, Clock, Write, world, vars, TypeOK, Notices
    <3> QED
      BY <3>1 DEF Told, Fresh
  <2>2. OrderInv(FALSE, {})'
    <3>1. ASSUME NEW w \in Workers, Reject(w) PROVE OrderInv(FALSE, {})'
      BY <3>1, OrderReject
    <3>2. ASSUME NEW w \in Workers, NEW e \in pending, Load(w, e) PROVE OrderInv(FALSE, {})'
      BY <3>2, OrderLoad
    <3>3. Tick => OrderInv(FALSE, {})'
      BY OrderTick
    <3>4. Clock \/ UNCHANGED vars => OrderInv(FALSE, {})'
      BY OrderClock
    <3> QED
      BY <1>3, <3>1, <3>2, <3>3, <3>4 DEF Next
  <2> QED
    BY <2>1, <2>2
<1> QED
  BY <1>1, <1>2, <1>3

\* Nothing has happened yet, and the row is absent.
LEMMA OrderInit == Init => OrderInv(FALSE, {}) /\ Told
<1> SUFFICES ASSUME Init PROVE OrderInv(FALSE, {}) /\ Told
  OBVIOUS
<1> USE DEF Init
<1>1. Points = {Point(0, stripe)} /\ Point(0, stripe).no = 0 /\ Point(0, stripe).sub = stripe
  BY DEF Points, Point
<1>2. Fresh = {} /\ IsFiniteSet(pending) /\ Cardinality(Fresh) = 0
  BY FS_EmptySet DEF Fresh
<1>3. Told
  BY <1>2 DEF Told, Notices
<1>4. Line
  BY <1>1 DEF Line
<1>5. RowOnLine(FALSE)
  <2>1. row.last <= stripe.at /\ row.cape = stripe.cape
    BY DEF NoRow
  <2>2. stripe.status = "none" /\ row.status = "absent"
    BY DEF NoRow
  <2>3. row.status \in ExpectedOf(stripe)
    BY <2>2 DEF ExpectedOf
  <2> HIDE DEF Init
  <2> QED
    BY <1>1, <2>1, <2>3 DEF RowOnLine
<1>6. JobsSound(FALSE, {})
  BY DEF JobsSound
<1>7. EventsSound /\ StripeSound /\ AbsentSound
  BY DEF EventsSound, StripeSound, AbsentSound
<1> HIDE DEF Init
<1> QED
  BY <1>3, <1>4, <1>5, <1>6, <1>7 DEF OrderInv

\* So it holds for ever.
LEMMA OrderInvariant ==
  ASSUME InOrder, \A v, w \in Workers : v = w
  PROVE  Spec => [](OrderInv(FALSE, {}) /\ Told)
<1> DEFINE Inv == OrderInv(FALSE, {}) /\ Told
<1>1. TypeOK /\ Inv /\ [Next]_vars => Inv'
  BY OrderStep
<1> QED
  BY <1>1, OrderInit, LifecycleTypeCorrect, PTL DEF Spec

\* When events come in order, one request at a time, the row ends up saying what Stripe
\* says, however the tick runs between a handler's load and its commit.
THEOREM InOrderConverges ==
  ASSUME InOrder, \A v, w \in Workers : v = w
  PROVE  Spec => []Converges
<1>1. TypeOK /\ OrderInv(FALSE, {}) => Converges
  <2> SUFFICES ASSUME TypeOK, OrderInv(FALSE, {}), pending = {}, stripe.status # "none"
               PROVE  row.status \in Expected /\ row.cape = stripe.cape
    BY DEF Converges, Settled
  <2>1. Point(actions, stripe) \in Points
    BY DEF Points
  <2>2. row.status \in ExpectedOf(stripe) /\ row.cape = stripe.cape
    BY <2>1 DEF OrderInv, RowOnLine, Between, Point
  <2> QED
    BY <2>2 DEF ExpectedOf, Expected
<1> QED
  BY <1>1, OrderInvariant, LifecycleTypeCorrect, PTL

\* Under the same assumptions one payment failure is announced at most once, however often
\* Stripe retries the charge.
THEOREM InOrderAnnouncedOnce ==
  ASSUME InOrder, \A v, w \in Workers : v = w
  PROVE  Spec => []AnnouncedOnce
<1>1. TypeOK /\ Told => AnnouncedOnce
  <2> SUFFICES ASSUME TypeOK, Told PROVE outbox["started"] <= failures
    BY DEF AnnouncedOnce
  <2>1. Cardinality(Fresh) \in Nat
    BY FS_Subset, FS_CardinalityType DEF Told, Fresh
  <2> QED
    BY <2>1 DEF Told, TypeOK, Notices
<1> QED
  BY <1>1, OrderInvariant, LifecycleTypeCorrect, PTL

(***************************************************************************)
(* An administrator beside them                                            *)
(*                                                                         *)
(* Setting the status by hand takes the row off the line, its mark and its *)
(* flag stay.  While the status is loose nothing is known of it; the first *)
(* event that sets it and is read after the intervention puts it back,     *)
(* since what such an event writes does not depend on the row.  An event   *)
(* that was read before the intervention may not: where the handler has    *)
(* nothing to change in its copy it leaves what the administrator wrote.   *)
(***************************************************************************)
HandInv ==
    /\ standing \in BOOLEAN
    /\ before \subseteq {w \in Workers : job[w] # Idle}
    /\ OrderInv(standing, before)

\* An intervention makes the status loose and every copy one of before.
LEMMA OverrideStep ==
  ASSUME TypeOK, HandInv, NEW st \in Statuses \ {"absent"}, Override(st)
  PROVE  TypeOK' /\ HandInv'
<1>1. /\ UNCHANGED <<stripe, actions, pending, dueSince, failures, job, outbox, reminded, now>>
      /\ row' = [row EXCEPT !.status = st] /\ row.status # "absent"
      /\ standing' = TRUE /\ before' = {w \in Workers : job[w] # Idle}
  BY DEF Override, world
<1>2. row \in Row /\ row' \in Row
  BY <1>1 DEF TypeOK, Row
<1>3. row'.status # "absent" /\ row'.last = row.last /\ row'.cape = row.cape
  BY <1>1, <1>2 DEF Row
<1>4. TypeOK'
  BY <1>1, <1>2 DEF TypeOK
<1>5. Points' = Points
  BY <1>1 DEF Points
<1>6. EventsSound' /\ StripeSound' /\ AbsentSound' /\ Line'
  BY <1>1, <1>3, <1>5
     DEF HandInv, OrderInv, EventsSound, EventSound, StripeSound, AbsentSound, Line
<1>7. RowOnLine(standing)'
  <2>1. \A p \in Points : row.last <= p.sub.at
                          /\ (row.cape = p.sub.cape \/ Between(pending, 0, p.no, Snapshot))
    BY DEF HandInv, OrderInv, RowOnLine
  <2> QED
    BY <1>1, <1>3, <1>5, <2>1 DEF RowOnLine
<1>8. JobsSound(standing, before)'
  <2> SUFFICES ASSUME NEW w \in Workers, job[w] # Idle
               PROVE  Differs(job[w].copy)'
    BY <1>1 DEF HandInv, OrderInv, JobsSound
  <2>1. IF w \in before THEN Differs(job[w].copy) ELSE Copied(job[w].copy)
    BY DEF HandInv, OrderInv, JobsSound
  <2>2. job[w].copy \in Row
    BY DEF TypeOK
  <2>3. job[w].copy.last = row.last /\ job[w].copy.cape = row.cape /\ job[w].copy.status # "absent"
    BY <1>1, <1>2, <2>1, <2>2 DEF Differs, Copied, Row
  <2> QED
    BY <1>1, <1>3, <2>3 DEF Differs
<1> QED
  BY <1>1, <1>4, <1>6, <1>7, <1>8 DEF HandInv, OrderInv

\* Every step of a request, of Stripe, of the tick and of the clock keeps it.
LEMMA HandStep ==
  ASSUME InOrder, \A v, w \in Workers : v = w, TypeOK, HandInv, [ONext]_ovars
  PROVE  TypeOK' /\ HandInv'
<1> PICK loose, old, left, C :
       loose = standing /\ old = before /\ left = standing' /\ C = before'
  OBVIOUS
<1>1. loose \in BOOLEAN /\ OrderInv(loose, old)
  BY DEF HandInv, OrderInv, RowOnLine, JobsSound
<1>2. ASSUME OrderInv(left, C)', left \in BOOLEAN, before' \subseteq {w \in Workers : job'[w] # Idle}
      PROVE  HandInv'
  BY <1>2 DEF HandInv, OrderInv, RowOnLine, JobsSound
<1>3. ASSUME NEW w \in Workers, Finish(w) PROVE TypeOK' /\ HandInv'
  <2>1. Apply(w) /\ TypeOK'
    BY <1>3, LifecycleStep DEF Finish, Next
  <2>2. ~OutOfOrder(job[w].event, job[w].copy)
    BY <1>1, <2>1, InTime
  <2>3. left \in BOOLEAN /\ (left <=> loose /\ ~(w \notin old /\ job[w].event.type \in Setter))
    BY <1>3, <2>2 DEF Finish, Setter, HandInv
  <2>4. before' \subseteq {v \in Workers : job'[v] # Idle}
    BY <1>3 DEF Finish, HandInv, Apply, TypeOK
  <2>5. OrderInv(left, C)'
    BY <1>1, <2>1, <2>3, OrderApply
  <2> QED
    BY <1>2, <2>1, <2>3, <2>4, <2>5
<1>4. ASSUME NEW w \in Workers, Refuse(w) PROVE TypeOK' /\ HandInv'
  <2>1. Reject(w) /\ TypeOK' /\ left = loose
    BY <1>4, LifecycleStep DEF Refuse, Next
  <2>2. before' \subseteq {v \in Workers : job'[v] # Idle}
    BY <1>4 DEF Refuse, HandInv, Reject, TypeOK
  <2>3. OrderInv(left, C)'
    BY <1>1, <2>1, OrderReject
  <2> QED
    BY <1>1, <1>2, <2>1, <2>2, <2>3
<1>5. ASSUME NEW st \in Statuses \ {"absent"}, Override(st) PROVE TypeOK' /\ HandInv'
  BY <1>5, OverrideStep
<1>6. CASE Others
  <2>1. left = loose /\ C = old
    BY <1>6 DEF Others
  <2>2. TypeOK'
    BY <1>6, LifecycleStep DEF Others, Next
  <2>3. CASE StripeActs
    <3>1. OrderInv(left, C)' /\ job' = job
      BY <1>1, <2>1, <2>3, OrderStripe, StripeEmits DEF Emitted
    <3> QED
      BY <1>1, <1>2, <2>1, <2>2, <3>1 DEF HandInv
  <2>4. CASE Tick
    <3>1. OrderInv(left, C)' /\ job' = job
      BY <1>1, <2>1, <2>4, OrderTick DEF Tick
    <3> QED
      BY <1>1, <1>2, <2>1, <2>2, <3>1 DEF HandInv
  <2>5. CASE Clock
    <3>1. OrderInv(left, C)' /\ job' = job
      BY <1>1, <2>1, <2>5, OrderClock DEF Clock
    <3> QED
      BY <1>1, <1>2, <2>1, <2>2, <3>1 DEF HandInv
  <2>6. ASSUME NEW w \in Workers, NEW e \in pending, Load(w, e) PROVE HandInv'
    <3>1. w \notin old /\ old = {}
      BY <2>6 DEF Load, HandInv
    <3>2. OrderInv(left, C)'
      BY <1>1, <2>1, <2>6, <3>1, OrderLoad
    <3> QED
      BY <1>1, <1>2, <2>1, <3>1, <3>2
  <2> QED
    BY <1>6, <2>2, <2>3, <2>4, <2>5, <2>6 DEF Others
<1>7. CASE UNCHANGED ovars
  <2>1. left = loose /\ C = old /\ TypeOK' /\ UNCHANGED vars /\ job' = job
    BY <1>7, LifecycleStep DEF ovars, vars
  <2>2. OrderInv(left, C)'
    BY <1>1, <2>1, OrderClock
  <2> QED
    BY <1>1, <1>2, <2>1, <2>2 DEF HandInv
<1> QED
  BY <1>3, <1>4, <1>5, <1>6, <1>7 DEF ONext

\* It holds before the first event, and says that the row heals.
LEMMA HandInit == InOrder /\ OInit => TypeOK /\ HandInv
<1> SUFFICES ASSUME InOrder, OInit PROVE HandInv
  BY LifecycleInit DEF OInit
<1>1. OrderInv(FALSE, {}) /\ standing = FALSE /\ before = {}
  BY OrderInit DEF OInit
<1> QED
  BY <1>1 DEF HandInv, OrderInv, RowOnLine, JobsSound

LEMMA HandHeals == TypeOK /\ HandInv => Heals
<1> SUFFICES ASSUME TypeOK, HandInv, pending = {}, ~standing, stripe.status # "none"
             PROVE  row.status \in Expected
  BY DEF Heals, Settled
<1>1. Point(actions, stripe) \in Points
  BY DEF Points
<1>2. row.status \in ExpectedOf(stripe)
  BY <1>1 DEF HandInv, OrderInv, RowOnLine, Between, Point
<1> QED
  BY <1>2 DEF ExpectedOf, Expected

\* When events come in order, one request at a time, a status set by hand stands until an
\* event about the status is read after it, and not longer: once every event has been
\* applied, the row then says again what Stripe says (admin.py 2142-2190).
THEOREM InOrderHeals ==
  ASSUME InOrder, \A v, w \in Workers : v = w
  PROVE  OSpec => []Heals
<1>1. TypeOK /\ HandInv /\ [ONext]_ovars => TypeOK' /\ HandInv'
  BY HandStep
<1> QED
  BY <1>1, HandInit, HandHeals, PTL DEF OSpec

\* The same of the behaviours by hand that MCSubscriptionOverride checks (HealsByHand).
THEOREM ByHandHeals ==
  ASSUME InOrder, \A v, w \in Workers : v = w
  PROVE  MCSpec => []HealsByHand
<1> DEFINE Inv == byHand => TypeOK /\ HandInv
<1>1. MCInit => Inv
  BY HandInit DEF MCInit
<1>2. Inv /\ [MCNext]_<<ovars, byHand>> => Inv'
  <2> SUFFICES ASSUME Inv, [MCNext]_<<ovars, byHand>>, byHand' PROVE TypeOK' /\ HandInv'
    OBVIOUS
  <2>1. byHand /\ [ONext]_ovars
    BY DEF MCNext
  <2> QED
    BY <2>1, HandStep
<1>3. Inv => HealsByHand
  BY HandHeals DEF HealsByHand
<1> QED
  BY <1>1, <1>2, <1>3, PTL DEF MCSpec
=============================================================================
