-------------------------- MODULE NotificationOutbox --------------------------
(***************************************************************************)
(* The notifications table as an outbox, and the scheduler runs that       *)
(* deliver what is pending in it to one user.  A run locks its batch,      *)
(* delivers and retries inside one transaction and commits every status at *)
(* the end: what a provider accepted stays accepted when it does not.      *)
(*                                                                         *)
(* A provider refuses a message, accepts it, or accepts it and its answer  *)
(* is lost.  The push service may also say that the subscription is gone.  *)
(***************************************************************************)
EXTENDS Integers, FiniteSets

CONSTANTS
    Notes,
    Runs,       \* scheduler runs that may overlap; each runs again and again
    Nothing,    \* no notification
    Channels,   \* the channels notes may have
    MaxFaults   \* bound: lost answers and runs cut off

\* What the modules that instantiate this one assume of its constants.
OutboxAssumption ==
    /\ Nothing \notin Notes
    /\ Channels \subseteq {"in_app", "email", "web_push", "sms", "multi"}
    /\ MaxFaults \in Nat

VARIABLES
    channel,    \* of each notification
    wants,      \* the channels the user's preferences enable for its category
    subscribed, \* the user has a push subscription
    status,     \* delivery_status: none before it is written, gone when deleted
    emails,     \* e-mails the user was sent for it
    others,     \* pushes and text messages
    batch,      \* the rows a run has locked
    local,      \* the statuses it has not committed
    current, tries,
    dropped,    \* the run has deleted the subscription
    faults

row == <<channel, wants, subscribed, status>>
run == <<batch, local, current, tries, dropped>>
vars == <<row, emails, others, run, faults>>

MaxAttempts == 3

Init ==
    /\ channel \in [Notes -> Channels]
    /\ wants \in SUBSET {"in_app", "email", "web_push", "sms"}
    /\ subscribed \in BOOLEAN
    /\ status = [n \in Notes |-> "none"]
    /\ emails = [n \in Notes |-> 0]
    /\ others = [n \in Notes |-> 0]
    /\ batch = [d \in Runs |-> {}]
    /\ local = [d \in Runs |-> [n \in Notes |-> "pending"]]
    /\ current = [d \in Runs |-> Nothing]
    /\ tries = [d \in Runs |-> 0]
    /\ dropped = [d \in Runs |-> FALSE]
    /\ faults = 0

(***************************************************************************)
(* One delivery: whether it counts as sent, what reached the user, how     *)
(* many answers were lost, whether the subscription is to go.              *)
(***************************************************************************)
Result(sent, e, o, lost, unsub) ==
    [sent |-> sent, emails |-> e, others |-> o, lost |-> lost, unsub |-> unsub]

Unsent == Result(FALSE, 0, 0, 0, FALSE)

Email ==
    IF "email" \in wants
    THEN {Unsent, Result(TRUE, 1, 0, 0, FALSE), Result(FALSE, 1, 0, 1, FALSE)}
    ELSE {Unsent}

Sms ==
    IF "sms" \in wants
    THEN {Unsent, Result(TRUE, 0, 1, 0, FALSE), Result(FALSE, 0, 1, 1, FALSE)}
    ELSE {Unsent}

\* A subscription that is gone is deleted, and an e-mail goes out instead.
Push(d) ==
    IF "web_push" \in wants /\ subscribed /\ ~dropped[d]
    THEN {Unsent, Result(TRUE, 0, 1, 0, FALSE), Result(FALSE, 0, 1, 1, FALSE)}
         \cup {[e EXCEPT !.unsub = TRUE] : e \in Email}
    ELSE {Unsent}

Both(a, b) ==
    Result(a.sent \/ b.sent, a.emails + b.emails, a.others + b.others,
           a.lost + b.lost, a.unsub \/ b.unsub)

Tried == Result("in_app" \in wants, 0, 0, 0, FALSE)

\* _deliver_once; of a multi notification every channel is tried, and one is enough.
Deliver(d, n) ==
    CASE channel[n] = "email" -> Email
      [] channel[n] = "sms" -> Sms
      [] channel[n] = "web_push" -> Push(d)
      [] channel[n] = "multi" ->
            {Both(Tried, Both(e, Both(p, s))) : e \in Email, p \in Push(d), s \in Sms}
      [] OTHER -> {Unsent}

(***************************************************************************)
(* Rows                                                                    *)
(***************************************************************************)
Locked(n) == \E d \in Runs : n \in batch[d]

\* A notification is written and its scheduled_at has come.
Post(n) ==
    /\ status[n] = "none"
    /\ status' = [status EXCEPT ![n] = "pending"]
    /\ UNCHANGED <<channel, wants, subscribed, emails, others, run, faults>>

\* dismiss_notification and delete_reminder: the DELETE waits for a run.
Dismiss(n) ==
    /\ status[n] \notin {"none", "gone"} /\ ~Locked(n)
    /\ status' = [status EXCEPT ![n] = "gone"]
    /\ UNCHANGED <<channel, wants, subscribed, emails, others, run, faults>>

(***************************************************************************)
(* Runs                                                                    *)
(***************************************************************************)
PollUnlocked(d) ==
    LET ready == {n \in Notes : status[n] = "pending"} IN
    /\ batch[d] = {} /\ ready # {}
    /\ batch' = [batch EXCEPT ![d] = ready]
    /\ UNCHANGED <<row, emails, others, local, current, tries, dropped, faults>>

\* FOR UPDATE SKIP LOCKED
Poll(d) ==
    LET ready == {n \in Notes : status[n] = "pending" /\ ~Locked(n)} IN
    /\ batch[d] = {} /\ ready # {}
    /\ batch' = [batch EXCEPT ![d] = ready]
    /\ UNCHANGED <<row, emails, others, local, current, tries, dropped, faults>>

Todo(d) == {n \in batch[d] : local[d][n] = "pending"}

\* dispatch_notification of a row that only the application shows
Show(d) ==
    /\ current[d] = Nothing
    /\ \E n \in Todo(d) : channel[n] = "in_app"
                          /\ local' = [local EXCEPT ![d][n] = "delivered"]
    /\ UNCHANGED <<row, emails, others, batch, current, tries, dropped, faults>>

Begin(d) ==
    /\ current[d] = Nothing
    /\ \E n \in Todo(d) : channel[n] # "in_app" /\ current' = [current EXCEPT ![d] = n]
    /\ UNCHANGED <<row, emails, others, batch, local, tries, dropped, faults>>

\* The status after attempt t.
Ends(sent, t) ==
    CASE sent -> "sent"
      [] ~sent /\ t = MaxAttempts -> "failed"
      [] OTHER -> "pending"

Attempt(d) ==
    LET n == current[d]
        t == tries[d] + 1 IN
    /\ n # Nothing
    /\ \E r \in Deliver(d, n) :
        LET end == Ends(r.sent, t) IN
        /\ faults + r.lost <= MaxFaults
        /\ faults' = faults + r.lost
        /\ emails' = [emails EXCEPT ![n] = @ + r.emails]
        /\ others' = [others EXCEPT ![n] = @ + r.others]
        /\ dropped' = [dropped EXCEPT ![d] = @ \/ r.unsub]
        /\ local' = [local EXCEPT ![d][n] = end]
        /\ tries' = [tries EXCEPT ![d] = IF end = "pending" THEN t ELSE 0]
        /\ current' = [current EXCEPT ![d] = IF end = "pending" THEN n ELSE Nothing]
    /\ UNCHANGED <<row, batch>>

Reset(d) ==
    /\ batch' = [batch EXCEPT ![d] = {}]
    /\ local' = [local EXCEPT ![d] = [n \in Notes |-> "pending"]]
    /\ current' = [current EXCEPT ![d] = Nothing]
    /\ tries' = [tries EXCEPT ![d] = 0]
    /\ dropped' = [dropped EXCEPT ![d] = FALSE]

Commit(d) ==
    /\ batch[d] # {} /\ Todo(d) = {}
    /\ status' = [n \in Notes |-> IF n \in batch[d] THEN local[d][n] ELSE status[n]]
    /\ subscribed' = (subscribed /\ ~dropped[d])
    /\ Reset(d)
    /\ UNCHANGED <<channel, wants, emails, others, faults>>

\* The run is cut off, or a failed statement (the preferences another request has just
\* created) makes its session unusable: the batch rolls back.
Crash(d) ==
    /\ batch[d] # {} /\ faults < MaxFaults
    /\ faults' = faults + 1
    /\ Reset(d)
    /\ UNCHANGED <<row, emails, others>>

Work(d) == Poll(d) \/ Show(d) \/ Begin(d) \/ Attempt(d) \/ Commit(d)

Next ==
    \/ \E n \in Notes : Post(n) \/ Dismiss(n)
    \/ \E d \in Runs : Work(d) \/ Crash(d)

Spec == Init /\ [][Next]_vars

\* The scheduler runs every five minutes, and a run goes on to its end.
Fairness == \A d \in Runs : WF_vars(Work(d))
FairSpec == Spec /\ Fairness

(***************************************************************************)
(* What holds                                                              *)
(***************************************************************************)
Statuses == {"none", "pending", "sent", "delivered", "failed", "gone"}

TypeOK ==
    /\ channel \in [Notes -> Channels]
    /\ wants \subseteq {"in_app", "email", "web_push", "sms"} /\ subscribed \in BOOLEAN
    /\ status \in [Notes -> Statuses]
    /\ emails \in [Notes -> Nat] /\ others \in [Notes -> Nat]
    /\ batch \in [Runs -> SUBSET Notes] /\ local \in [Runs -> [Notes -> Statuses]]
    /\ current \in [Runs -> Notes \cup {Nothing}]
    /\ tries \in [Runs -> 0 .. MaxAttempts - 1] /\ dropped \in [Runs -> BOOLEAN]
    /\ faults \in 0 .. MaxFaults

\* A notification of one channel reaches the user once, and once more for each lost
\* answer and each run cut off: neither overlapping runs nor retries add a copy.
NoSpareCopies ==
    \A n \in Notes : channel[n] # "multi" => emails[n] + others[n] <= 1 + faults

\* What is marked as sent has reached the user, unless the application is to show it.
SentReached ==
    \A n \in Notes :
        status[n] = "sent" => \/ emails[n] + others[n] > 0
                              \/ channel[n] = "multi" /\ "in_app" \in wants

\* A notification that was dismissed is sent no more.
SilentIfGone ==
    \A n \in Notes : status[n] = "gone" => emails'[n] = emails[n] /\ others'[n] = others[n]
NothingAfterDismissal == [][SilentIfGone]_vars

\* Every notification is decided: refusals, lost answers and runs cut off do not leave
\* one pending for ever.
EveryEnds == \A n \in Notes : status[n] = "pending" ~> status[n] # "pending"

(***************************************************************************)
(* What does not hold                                                      *)
(***************************************************************************)
\* list_notifications shows the rows of channel in_app.
Shown(n) == channel[n] = "in_app"

\* A notification that is done and not failed is one the user can see somewhere.
SentIsSeen ==
    \A n \in Notes : status[n] \in {"sent", "delivered"} => emails[n] + others[n] > 0 \/ Shown(n)
=============================================================================
