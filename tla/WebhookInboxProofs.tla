------------------------- MODULE WebhookInboxProofs -------------------------
(***************************************************************************)
(* What WebhookInbox promises for any number of overlapping deliveries and *)
(* any number of attempts.                                                 *)
(*                                                                         *)
(* AckIsEarned alone is not inductive: a delivery acknowledges on the      *)
(* strength of a copy it read earlier, and attempts may go DOWN when a     *)
(* slow delivery writes back an old copy.  The invariant therefore ties    *)
(* every copy to the history: no counter exceeds the number of tries, and  *)
(* no copy says "settled" before the event is.  At the end: what holds     *)
(* while no two deliveries overlap.                                        *)
(***************************************************************************)
EXTENDS MCWebhookInbox, TLAPS

Counted ==
    /\ attempts <= tries
    /\ \A d \in Deliveries : seen[d].attempts <= tries

Settled ==
    /\ status \in Terminal => Earned
    /\ \A d \in Deliveries : seen[d].status \in Terminal => Earned
    /\ \A d \in Deliveries : pc[d] \in {"audit", "ok"} => Earned
    /\ acked => Earned

\* A delivery that is past its insert finds the row.
Present == \A d \in Deliveries : pc[d] \notin {"idle", "insert"} => status # "absent"

IInv == TypeOK /\ Present /\ Counted /\ Settled

\* The initial state has every variable in its type and nothing settled.
LEMMA InboxInit == Init => IInv
<1> SUFFICES ASSUME Init PROVE IInv
  OBVIOUS
<1> USE InboxAssumption DEF Init
<1>1. Blank \in Copy
  BY DEF Blank, Copy, Statuses
<1>2. TypeOK
  <2>1. attempts \in 0..MaxAttempts /\ crashes \in 0..MaxCrashes
    OBVIOUS
  <2>2. seen \in [Deliveries -> Copy] /\ pc \in [Deliveries -> Steps]
    BY <1>1 DEF Steps
  <2>3. audits \in Nat /\ effects \in Nat /\ tries \in Nat
    OBVIOUS
  <2>4. error \in BOOLEAN /\ refused \in BOOLEAN /\ acked \in BOOLEAN
    OBVIOUS
  <2> QED
    BY <2>1, <2>2, <2>3, <2>4 DEF TypeOK
<1>3. Present
  BY DEF Present
<1>4. Counted
  BY DEF Counted, Blank
<1>5. Settled
  BY DEF Settled, Blank, Terminal
<1> QED
  BY <1>2, <1>3, <1>4, <1>5 DEF IInv

\* Every action of a delivery preserves the invariant (the requests of
\* _persist_and_dispatch, the answers, and a delivery that is cut off).
LEMMA InboxStep == IInv /\ [Next]_vars => IInv'
<1> SUFFICES ASSUME IInv, [Next]_vars PROVE IInv'
  OBVIOUS
<1> USE InboxAssumption DEF IInv, TypeOK
<1>1. ASSUME NEW d \in Deliveries, Deliver(d) PROVE IInv'
  <2> USE <1>1 DEF Deliver, Goto, record
  <2>1. TypeOK'
    BY DEF Present, Steps, Statuses, Copy
  <2>2. Present'
    BY DEF Present
  <2>3. Counted'
    BY DEF Counted, Copy
  <2>4. Settled'
    BY <2>1 DEF Settled, Counted, Earned, Terminal, Copy
  <2> QED
    BY <2>1, <2>2, <2>3, <2>4
<1>2. ASSUME NEW d \in Deliveries, InsertRow(d) PROVE IInv'
  <2> USE <1>2 DEF InsertRow, Goto, record
  <2>1. TypeOK'
    BY DEF Present, Steps, Statuses, Copy
  <2>2. Present'
    BY DEF Present
  <2>3. Counted'
    BY DEF Counted, Copy
  <2>4. Settled'
    BY <2>1 DEF Settled, Counted, Earned, Terminal, Copy
  <2> QED
    BY <2>1, <2>2, <2>3, <2>4
<1>3. ASSUME NEW d \in Deliveries, ReadRow(d) PROVE IInv'
  <2> USE <1>3 DEF ReadRow, Goto, record
  <2>1. TypeOK'
    BY DEF Present, Steps, Statuses, Copy
  <2>2. Present'
    BY DEF Present
  <2>3. Counted'
    BY DEF Counted, Copy
  <2>4. Settled'
    BY <2>1 DEF Settled, Counted, Earned, Terminal, Copy
  <2> QED
    BY <2>1, <2>2, <2>3, <2>4
<1>4. ASSUME NEW d \in Deliveries, AckDuplicate(d) PROVE IInv'
  <2> USE <1>4 DEF AckDuplicate, Duplicate, Goto, record
  <2>1. TypeOK'
    BY DEF Present, Steps, Statuses, Copy
  <2>2. Present'
    BY DEF Present
  <2>3. Counted'
    BY DEF Counted, Copy
  <2>4. Settled'
    BY <2>1 DEF Settled, Counted, Earned, Terminal, Copy
  <2> QED
    BY <2>1, <2>2, <2>3, <2>4
<1>5. ASSUME NEW d \in Deliveries, Park(d) PROVE IInv'
  <2> USE <1>5 DEF Park, Exhausted, Duplicate, Goto, record
  <2>1. TypeOK'
    BY DEF Present, Steps, Statuses, Copy
  <2>2. Present'
    BY DEF Present
  <2>3. Counted'
    BY DEF Counted, Copy
  <2>4. Settled'
    BY <2>1 DEF Settled, Counted, Earned, Terminal, Copy
  <2> QED
    BY <2>1, <2>2, <2>3, <2>4
<1>6. ASSUME NEW d \in Deliveries, Claim(d) PROVE IInv'
  <2> USE <1>6 DEF Claim, Exhausted, Duplicate, NextAttempt, Goto, record
  <2>1. TypeOK'
    BY DEF Present, Steps, Statuses, Copy
  <2>2. Present'
    BY DEF Present
  <2>3. Counted'
    BY DEF Counted, Copy
  <2>4. Settled'
    <3>1. Earned => Earned'
      BY DEF Earned
    <3>2. (status' \in Terminal => status \in Terminal) \/ Earned'
      BY DEF Terminal, Earned
    <3>3. \A e \in Deliveries : seen'[e].status \in Terminal => seen[e].status \in Terminal
      BY DEF Terminal, Copy
    <3>4. \A e \in Deliveries : pc'[e] \in {"audit", "ok"} => pc[e] \in {"audit", "ok"} \/ Earned'
      BY DEF Earned
    <3> QED
      BY <3>1, <3>2, <3>3, <3>4 DEF Settled
  <2> QED
    BY <2>1, <2>2, <2>3, <2>4
<1>7. ASSUME NEW d \in Deliveries, Succeed(d) PROVE IInv'
  <2> USE <1>7 DEF Succeed, Goto, record
  <2>1. TypeOK'
    <3>1. effects' \in Nat
      OBVIOUS
    <3> QED
      BY <3>1 DEF Present, Steps, Statuses, Copy
  <2>2. Present'
    BY DEF Present
  <2>3. Counted'
    BY DEF Counted, Copy
  <2>4. Settled'
    <3>1. Earned => Earned'
      BY DEF Earned
    <3>2. (status' \in Terminal => status \in Terminal) \/ Earned'
      BY DEF Terminal, Earned
    <3>3. \A e \in Deliveries : seen'[e].status \in Terminal => seen[e].status \in Terminal
      BY DEF Terminal, Copy
    <3>4. \A e \in Deliveries : pc'[e] \in {"audit", "ok"} => pc[e] \in {"audit", "ok"} \/ Earned'
      BY DEF Earned
    <3> QED
      BY <3>1, <3>2, <3>3, <3>4 DEF Settled
  <2> QED
    BY <2>1, <2>2, <2>3, <2>4
<1>8. ASSUME NEW d \in Deliveries, FailEarly(d) PROVE IInv'
  <2> USE <1>8 DEF FailEarly, Exhausted, Verdict, AfterVerdict, Goto, record
  <2>1. TypeOK'
    BY DEF Present, Steps, Statuses, Copy
  <2>2. Present'
    BY DEF Present
  <2>3. Counted'
    BY DEF Counted, Copy
  <2>4. Settled'
    BY <2>1 DEF Settled, Counted, Earned, Terminal, Copy
  <2> QED
    BY <2>1, <2>2, <2>3, <2>4
<1>9. ASSUME NEW d \in Deliveries, FailLate(d) PROVE IInv'
  <2> USE <1>9 DEF FailLate, Goto, record
  <2>1. TypeOK'
    BY DEF Present, Steps, Statuses, Copy
  <2>2. Present'
    BY DEF Present
  <2>3. Counted'
    BY DEF Counted, Copy
  <2>4. Settled'
    BY <2>1 DEF Settled, Counted, Earned, Terminal, Copy
  <2> QED
    BY <2>1, <2>2, <2>3, <2>4
<1>10. ASSUME NEW d \in Deliveries, WriteAudit(d) PROVE IInv'
  <2> USE <1>10 DEF WriteAudit, Goto, record
  <2>1. TypeOK'
    BY DEF Present, Steps, Statuses, Copy
  <2>2. Present'
    BY DEF Present
  <2>3. Counted'
    BY DEF Counted, Copy
  <2>4. Settled'
    BY <2>1 DEF Settled, Counted, Earned, Terminal, Copy
  <2> QED
    BY <2>1, <2>2, <2>3, <2>4
<1>11. ASSUME NEW d \in Deliveries, Respond(d) PROVE IInv'
  <2> USE <1>11 DEF Respond, Blank, Goto, record
  <2>1. TypeOK'
    BY DEF Present, Steps, Statuses, Copy
  <2>2. Present'
    BY DEF Present
  <2>3. Counted'
    BY DEF Counted, Copy
  <2>4. Settled'
    BY <2>1 DEF Settled, Counted, Earned, Terminal, Copy
  <2> QED
    BY <2>1, <2>2, <2>3, <2>4
<1>12. ASSUME NEW d \in Deliveries, Crash(d) PROVE IInv'
  <2> USE <1>12 DEF Crash, Blank, Goto, record
  <2>1. TypeOK'
    BY DEF Present, Steps, Statuses, Copy
  <2>2. Present'
    BY DEF Present
  <2>3. Counted'
    BY DEF Counted, Copy
  <2>4. Settled'
    BY <2>1 DEF Settled, Counted, Earned, Terminal, Copy
  <2> QED
    BY <2>1, <2>2, <2>3, <2>4
<1>13. CASE UNCHANGED vars
  BY <1>13 DEF vars, Present, Counted, Settled, Earned
<1> QED
  BY <1>1, <1>2, <1>3, <1>4, <1>5, <1>6, <1>7, <1>8, <1>9, <1>10, <1>11, <1>12,
     <1>13 DEF Next, Serve

\* The invariant holds in every reachable state.
THEOREM InboxInvariant == Spec => []IInv
  BY InboxInit, InboxStep, PTL DEF Spec

\* Type correctness; attempts never exceeds STRIPE_WEBHOOK_MAX_ATTEMPTS.
THEOREM InboxTypeCorrect == Spec => []TypeOK
<1>1. IInv => TypeOK
  BY DEF IInv
<1> QED
  BY <1>1, InboxInvariant, PTL

\* _persist_and_dispatch answers 200 only when the event's effect is committed or
\* the handler has been tried MaxAttempts times.
THEOREM AcksAreEarned == Spec => []AckIsEarned
<1>1. IInv => AckIsEarned
  BY DEF IInv, Settled, AckIsEarned
<1> QED
  BY <1>1, InboxInvariant, PTL

-----------------------------------------------------------------------------
\* What holds while deliveries come one after the other: the copy a delivery decides on
\* is the row, the row tells whether the effect is there, and a 200 is the last word.
Alone == \A c, d \in Deliveries : pc[c] # "idle" /\ pc[d] # "idle" => c = d

Faithful ==
    /\ \A d \in Deliveries : pc[d] = "decide" =>
          seen[d].status = status /\ (seen[d].inserted => status = "received")
    /\ \A d \in Deliveries : pc[d] = "read" /\ seen[d].inserted => status = "received"
    /\ \A d \in Deliveries : pc[d] = "dispatch" => status = "processing"
    /\ \A d \in Deliveries : pc[d] = "audit" => status = "needs_review"
    /\ \A d \in Deliveries : pc[d] = "ok" => status \in Terminal
    /\ status = "processed" <=> effects > 0
    /\ effects <= 1
    /\ acked => status \in Terminal /\ \A d \in Deliveries : pc[d] = "idle"

SerialInv == ~overlapped => Alone /\ Faithful

\* A step that leaves the deliveries alone one at a time keeps the row faithful.
LEMMA SerialStep ==
    ASSUME TypeOK, Alone, Faithful, [Next]_vars, Alone'
    PROVE  Faithful'
<1> USE InboxAssumption DEF TypeOK, Alone, Faithful, Goto, record, Steps, Copy, Statuses,
                            Terminal
<1>1. ASSUME NEW d \in Deliveries, Deliver(d) PROVE Faithful'
  BY <1>1 DEF Deliver
<1>2. ASSUME NEW d \in Deliveries, InsertRow(d) PROVE Faithful'
  BY <1>2 DEF InsertRow
<1>3. ASSUME NEW d \in Deliveries, ReadRow(d) PROVE Faithful'
  BY <1>3 DEF ReadRow
<1>4. ASSUME NEW d \in Deliveries, AckDuplicate(d) PROVE Faithful'
  BY <1>4 DEF AckDuplicate, Duplicate
<1>5. ASSUME NEW d \in Deliveries, Park(d) PROVE Faithful'
  BY <1>5 DEF Park, Duplicate
<1>6. ASSUME NEW d \in Deliveries, Claim(d) PROVE Faithful'
  BY <1>6 DEF Claim, Duplicate
<1>7. ASSUME NEW d \in Deliveries, Succeed(d) PROVE Faithful'
  BY <1>7 DEF Succeed
<1>8. ASSUME NEW d \in Deliveries, FailEarly(d) PROVE Faithful'
  BY <1>8 DEF FailEarly, Verdict, AfterVerdict
<1>9. ASSUME NEW d \in Deliveries, FailLate(d) PROVE Faithful'
  BY <1>9 DEF FailLate
<1>10. ASSUME NEW d \in Deliveries, WriteAudit(d) PROVE Faithful'
  BY <1>10 DEF WriteAudit
<1>11. ASSUME NEW d \in Deliveries, Respond(d) PROVE Faithful'
  BY <1>11 DEF Respond, Blank
<1>12. ASSUME NEW d \in Deliveries, Crash(d) PROVE Faithful'
  BY <1>12 DEF Crash, Blank
<1>13. CASE UNCHANGED vars
  BY <1>13 DEF vars
<1> QED
  BY <1>1, <1>2, <1>3, <1>4, <1>5, <1>6, <1>7, <1>8, <1>9, <1>10, <1>11, <1>12,
     <1>13 DEF Next, Serve

\* Deliveries that never overlap keep it.
LEMMA SerialInvariant == MCSpec => [](IInv /\ SerialInv)
<1>1. MCInit => IInv /\ SerialInv
  <2>1. Init => Alone /\ Faithful
    BY DEF Init, Alone, Faithful, Terminal, Blank
  <2> QED
    BY <2>1, InboxInit DEF MCInit, SerialInv
<1>2. IInv /\ SerialInv /\ [MCNext]_mcVars => (IInv /\ SerialInv)'
  <2> SUFFICES ASSUME IInv, SerialInv, [MCNext]_mcVars PROVE IInv' /\ SerialInv'
    OBVIOUS
  <2>1. [Next]_vars
    BY DEF MCNext, mcVars
  <2>2. IInv'
    BY <2>1, InboxStep
  <2>3. SerialInv'
    <3> SUFFICES ASSUME ~overlapped' PROVE Alone' /\ Faithful'
      BY DEF SerialInv
    <3>1. ~overlapped
      BY DEF MCNext, mcVars
    <3>2. Alone /\ Faithful
      BY <3>1 DEF SerialInv
    <3>3. Alone'
      BY <3>2 DEF MCNext, mcVars, vars, Alone
    <3> QED
      BY <2>1, <3>2, <3>3, SerialStep DEF IInv
  <2> QED
    BY <2>2, <2>3
<1> QED
  BY <1>1, <1>2, PTL DEF MCSpec

\* While deliveries of the event come one after the other, however many are cut off, an
\* event that Stripe will not send again has had its effect or is parked for review.
THEOREM SerialLosesNothing == MCSpec => []SerialNothingLost
<1>1. SerialInv => SerialNothingLost
  BY DEF SerialInv, Faithful, SerialNothingLost, NothingLost, Terminal
<1> QED
  BY <1>1, SerialInvariant, PTL

\* Then the event has its effects at most once, whatever fails and however often the process
\* dies (billing.py 1076 and 1150): the row says "processed" exactly when they are committed.
THEOREM RedeliveriesChangeNothing == MCSpec => []SerialEffectsOnce
<1>1. SerialInv => SerialEffectsOnce
  BY DEF SerialInv, Faithful, SerialEffectsOnce, EffectsOnce
<1> QED
  BY <1>1, SerialInvariant, PTL
=============================================================================
