---------------------------- MODULE AccountClosure ----------------------------
(***************************************************************************)
(* The closing of accounts: the requests that schedule and cancel it, the  *)
(* scheduled tick that reminds and then deletes, and the two requests of   *)
(* the account that meet it, the upload of an attachment and the export of *)
(* the account's data.                                                     *)
(*                                                                         *)
(* S3 and the e-mail are outside the transaction: what the tick did there  *)
(* stays when the transaction does not commit.  One failed statement       *)
(* aborts the whole transaction of a tick: those that follow it fail too,  *)
(* and its COMMIT rolls back.                                              *)
(***************************************************************************)
EXTENDS Integers, FiniteSets

CONSTANTS
    Users,
    Requests,   \* each is served once; an upload names its attachment
    Ticks,      \* scheduler runs that may overlap; each runs again and again
    Nobody,     \* no user
    Ops,        \* what requests may ask for
    Grace,      \* from the request to the deletion
    Notice,     \* how long before the deletion the reminder may go out
    MaxTime,    \* bound: the clock
    MaxFaults   \* bound: crashes, failed statements and failed S3 deletions

\* What the modules that instantiate this one assume of its constants.
ClosureAssumption ==
    /\ Nobody \notin Users
    /\ Ops \subseteq {"close", "cancel", "upload", "export"}
    /\ Grace \in Nat /\ Notice \in Nat /\ MaxTime \in Nat /\ MaxFaults \in Nat

VARIABLES
    now,
    gone,       \* users whose row is deleted
    closing,    \* closure_requested_at is set
    closure,    \* the user's ClosureRequest: none, open or cancelled
    due,        \* its scheduled_delete_at
    reminded,   \* day23_reminder_sent_at is set
    reminders,  \* reminder notifications written
    renews,     \* subscriptions Stripe will renew
    attached,   \* committed attachment rows
    files,      \* their objects in S3
    job,        \* the export job of an export request
    pc, op, user, answer,
    tpc,
    remind,     \* closures the tick has locked to remind
    batch,      \* closures the tick has locked to delete
    todo,       \* those of batch it has not come to
    current,    \* the user whose files and row it is deleting
    dropped,    \* users it has deleted in its transaction
    failed,     \* users whose deletion failed
    faults

account == <<gone, closing, closure, due, reminded, reminders>>
storage == <<attached, files>>
request == <<pc, op, user, answer>>
tick == <<tpc, remind, batch, todo, current, dropped, failed>>
vars == <<now, account, renews, storage, job, request, tick, faults>>

Init ==
    /\ now = 0
    /\ gone = {}
    /\ closing = {}
    /\ closure = [u \in Users |-> "none"]
    /\ due = [u \in Users |-> 0]
    /\ reminded = {}
    /\ reminders = [u \in Users |-> 0]
    /\ renews = Users
    /\ attached = {} /\ files = {}
    /\ job = [r \in Requests |-> "none"]
    /\ pc = [r \in Requests |-> "idle"]
    /\ op \in [Requests -> Ops]
    /\ user \in [Requests -> Users]
    /\ answer = [r \in Requests |-> "none"]
    /\ tpc = [t \in Ticks |-> "idle"]
    /\ remind = [t \in Ticks |-> {}]
    /\ batch = [t \in Ticks |-> {}]
    /\ todo = [t \in Ticks |-> {}]
    /\ current = [t \in Ticks |-> Nobody]
    /\ dropped = [t \in Ticks |-> {}]
    /\ failed = [t \in Ticks |-> {}]
    /\ faults = 0

\* A tick holds the lock of the user's closure_requests row.
Held(u) == \E t \in Ticks : u \in remind[t] \cup batch[t]
\* A tick has deleted the user and not committed.
Dropped(u) == \E t \in Ticks : u \in dropped[t]
Owned(u) == {r \in Requests : user[r] = u}

Goto(r, l) == pc' = [pc EXCEPT ![r] = l] /\ UNCHANGED <<op, user, answer>>
Respond(r, a) ==
    /\ pc' = [pc EXCEPT ![r] = "done"]
    /\ answer' = [answer EXCEPT ![r] = a]
    /\ UNCHANGED <<op, user>>

Begins(r, o) == pc[r] = "idle" /\ op[r] = o /\ user[r] \notin gone

(***************************************************************************)
(* Requests                                                                *)
(***************************************************************************)
\* close_account, schedule_closure: an open closure is answered as it is; or else
\* Stripe is told before the row is written.
Close(r) ==
    /\ Begins(r, "close")
    /\ IF user[r] \in closing \/ closure[user[r]] = "open"
       THEN Respond(r, "ok") /\ UNCHANGED renews
       ELSE Goto(r, "insert") /\ renews' \in {renews, renews \ {user[r]}}
    /\ UNCHANGED <<now, account, storage, job, tick, faults>>

\* user_id is the primary key of closure_requests.
Insert(r) ==
    LET u == user[r] IN
    /\ pc[r] = "insert" /\ ~Dropped(u)
    /\ IF u \in gone \/ closure[u] # "none"
       THEN Respond(r, "error") /\ UNCHANGED <<closing, closure, due>>
       ELSE /\ closing' = closing \cup {u}
            /\ closure' = [closure EXCEPT ![u] = "open"]
            /\ due' = [due EXCEPT ![u] = now + Grace]
            /\ Respond(r, "ok")
    /\ UNCHANGED <<now, gone, reminded, reminders, renews, storage, job, tick, faults>>

\* cancel_closure reads without a lock...
Cancel(r) ==
    /\ Begins(r, "cancel")
    /\ IF closure[user[r]] # "open" /\ user[r] \notin closing
       THEN Respond(r, "missing") ELSE Goto(r, "update")
    /\ UNCHANGED <<now, account, renews, storage, job, tick, faults>>

UpdateUnlocked(r) ==
    LET u == user[r] IN
    /\ pc[r] = "update"
    /\ IF u \in gone
       THEN Respond(r, "error") /\ UNCHANGED <<closing, closure>>
       ELSE /\ closing' = closing \ {u}
            /\ closure' = [closure EXCEPT ![u] = "cancelled"]
            /\ Respond(r, "ok")
    /\ UNCHANGED <<now, gone, due, reminded, reminders, renews, storage, job, tick, faults>>

\* ...and its UPDATE waits for a tick that holds the row.
Update(r) ==
    LET u == user[r] IN
    /\ pc[r] = "update" /\ ~Held(u)
    /\ IF u \in gone
       THEN Respond(r, "error") /\ UNCHANGED <<closing, closure>>
       ELSE /\ closing' = closing \ {u}
            /\ closure' = [closure EXCEPT ![u] = "cancelled"]
            /\ Respond(r, "ok")
    /\ UNCHANGED <<now, gone, due, reminded, reminders, renews, storage, job, tick, faults>>

\* upload_application_attachment: the object first, under the application's row lock.
Upload(r) ==
    /\ Begins(r, "upload") /\ ~Dropped(user[r])
    /\ files' = files \cup {r}
    /\ Goto(r, "row")
    /\ UNCHANGED <<now, account, renews, attached, job, tick, faults>>

Attach(r) ==
    /\ pc[r] = "row"
    /\ attached' = attached \cup {r}
    /\ Respond(r, "ok")
    /\ UNCHANGED <<now, account, renews, files, job, tick, faults>>

\* create_export: the background task runs with the response, in a session of its
\* own, before get_db commits the job.
Export(r) ==
    /\ Begins(r, "export") /\ ~Dropped(user[r])
    /\ Goto(r, "background")
    /\ UNCHANGED <<now, account, renews, storage, job, tick, faults>>

\* _run_export_background: a job it does not find is left alone.
Background(r) ==
    /\ pc[r] = "background"
    /\ job' = [job EXCEPT ![r] = IF @ = "pending" THEN "ready" ELSE @]
    /\ Goto(r, "commit")
    /\ UNCHANGED <<now, account, renews, storage, tick, faults>>

CommitJob(r) ==
    /\ pc[r] = "commit"
    /\ job' = [job EXCEPT ![r] = "pending"]
    /\ Respond(r, "ok")
    /\ UNCHANGED <<now, account, renews, storage, tick, faults>>

(***************************************************************************)
(* The tick                                                                *)
(***************************************************************************)
ToRemind ==
    {u \in Users : closure[u] = "open" /\ u \notin reminded
                   /\ due[u] > now /\ due[u] <= now + Notice}
Due == {u \in Users : closure[u] = "open" /\ due[u] <= now}

\* FOR UPDATE SKIP LOCKED
Start(t) ==
    LET free == {u \in Users : ~Held(u)} IN
    /\ tpc[t] = "idle" /\ (ToRemind \cup Due) \cap free # {}
    /\ tpc' = [tpc EXCEPT ![t] = "work"]
    /\ remind' = [remind EXCEPT ![t] = ToRemind \cap free]
    /\ batch' = [batch EXCEPT ![t] = Due \cap free]
    /\ todo' = [todo EXCEPT ![t] = Due \cap free]
    /\ UNCHANGED <<now, account, renews, storage, job, request, current, dropped, failed, faults>>

\* execute_closure, outside the database: the attachments whose rows it finds, as far
\* as S3 deletes them, and the e-mail.
Erase(t) ==
    /\ tpc[t] = "work" /\ current[t] = Nobody /\ failed[t] = {}
    /\ \E u \in todo[t] :
        /\ current' = [current EXCEPT ![t] = u]
        /\ \/ files' = files \ (attached \cap Owned(u)) /\ UNCHANGED faults
           \/ /\ attached \cap Owned(u) # {} /\ faults < MaxFaults
              /\ faults' = faults + 1
              /\ UNCHANGED files
    /\ UNCHANGED <<now, account, renews, attached, job, request,
                   tpc, remind, batch, todo, dropped, failed>>

\* The DELETE waits for an upload that holds an application, and for the INSERT of an
\* export job, which holds the user.
Drop(t) ==
    LET u == current[t] IN
    /\ tpc[t] = "work" /\ u # Nobody
    /\ \A r \in Owned(u) : pc[r] \notin {"row", "background", "commit"}
    /\ dropped' = [dropped EXCEPT ![t] = @ \cup {u}]
    /\ todo' = [todo EXCEPT ![t] = @ \ {u}]
    /\ current' = [current EXCEPT ![t] = Nobody]
    /\ UNCHANGED <<now, account, renews, storage, job, request, tpc, remind, batch, failed, faults>>

\* It fails, and the tick goes on with a transaction in which nothing succeeds.
DropFails(t) ==
    /\ tpc[t] = "work" /\ current[t] # Nobody /\ faults < MaxFaults
    /\ faults' = faults + 1
    /\ failed' = [failed EXCEPT ![t] = @ \cup {current[t]}]
    /\ todo' = [todo EXCEPT ![t] = {}]
    /\ current' = [current EXCEPT ![t] = Nobody]
    /\ UNCHANGED <<now, account, renews, storage, job, request, tpc, remind, batch, dropped>>

Ended(t) ==
    /\ tpc' = [tpc EXCEPT ![t] = "idle"]
    /\ remind' = [remind EXCEPT ![t] = {}]
    /\ batch' = [batch EXCEPT ![t] = {}]
    /\ todo' = [todo EXCEPT ![t] = {}]
    /\ current' = [current EXCEPT ![t] = Nobody]
    /\ dropped' = [dropped EXCEPT ![t] = {}]
    /\ failed' = [failed EXCEPT ![t] = {}]

\* The reminders, and the deletions with what refers to the user.
Commit(t) ==
    LET out == {r \in Requests : user[r] \in dropped[t]} IN
    /\ tpc[t] = "work" /\ todo[t] = {} /\ failed[t] = {}
    /\ gone' = gone \cup dropped[t]
    /\ closing' = closing \ dropped[t]
    /\ closure' = [u \in Users |-> IF u \in dropped[t] THEN "none" ELSE closure[u]]
    /\ reminded' = reminded \cup remind[t]
    /\ reminders' = [u \in Users |-> IF u \in remind[t] THEN reminders[u] + 1 ELSE reminders[u]]
    /\ attached' = attached \ out
    /\ job' = [r \in Requests |-> IF r \in out THEN "none" ELSE job[r]]
    /\ Ended(t)
    /\ UNCHANGED <<now, due, renews, files, request, faults>>

\* COMMIT of a transaction one of whose statements has failed
Rollback(t) ==
    /\ tpc[t] = "work" /\ failed[t] # {}
    /\ Ended(t)
    /\ UNCHANGED <<now, account, renews, storage, job, request, faults>>

Crash(t) ==
    /\ tpc[t] = "work" /\ faults < MaxFaults
    /\ faults' = faults + 1
    /\ Ended(t)
    /\ UNCHANGED <<now, account, renews, storage, job, request>>

Clock ==
    /\ now < MaxTime
    /\ now' = now + 1
    /\ UNCHANGED <<account, renews, storage, job, request, tick, faults>>

Serve(r) ==
    \/ Close(r) \/ Insert(r) \/ Cancel(r) \/ Update(r)
    \/ Upload(r) \/ Attach(r) \/ Export(r) \/ Background(r) \/ CommitJob(r)

Work(t) == Start(t) \/ Erase(t) \/ Drop(t) \/ Commit(t) \/ Rollback(t)

Next ==
    \/ Clock
    \/ \E r \in Requests : Serve(r)
    \/ \E t \in Ticks : Work(t) \/ DropFails(t) \/ Crash(t)

Spec == Init /\ [][Next]_vars

\* A request that has begun is served to its end, and the tick runs every hour.
Fairness ==
    /\ \A r \in Requests : WF_vars(pc[r] # "idle" /\ Serve(r))
    /\ \A t \in Ticks : WF_vars(Work(t))
FairSpec == Spec /\ Fairness

(***************************************************************************)
(* What holds                                                              *)
(***************************************************************************)
TypeOK ==
    /\ now \in 0 .. MaxTime /\ gone \subseteq Users /\ closing \subseteq Users
    /\ closure \in [Users -> {"none", "open", "cancelled"}]
    /\ due \in [Users -> 0 .. MaxTime + Grace]
    /\ reminded \subseteq Users /\ reminders \in [Users -> Nat] /\ renews \subseteq Users
    /\ attached \subseteq Requests /\ files \subseteq Requests
    /\ job \in [Requests -> {"none", "pending", "ready"}]
    /\ pc \in [Requests -> {"idle", "insert", "update", "row", "background", "commit", "done"}]
    /\ op \in [Requests -> Ops] /\ user \in [Requests -> Users]
    /\ answer \in [Requests -> {"none", "ok", "missing", "error"}]
    /\ tpc \in [Ticks -> {"idle", "work"}]
    /\ remind \in [Ticks -> SUBSET Users] /\ batch \in [Ticks -> SUBSET Users]
    /\ todo \in [Ticks -> SUBSET Users] /\ current \in [Ticks -> Users \cup {Nobody}]
    /\ dropped \in [Ticks -> SUBSET Users] /\ failed \in [Ticks -> SUBSET Users]
    /\ faults \in 0 .. MaxFaults

\* An account goes only while its closure is open and due, although the tick decided
\* earlier and the user may cancel while it works (FOR UPDATE in run_closure_tick).
DueIfGone == gone' \ gone \subseteq Due
OnlyDueDeleted == [][DueIfGone]_vars

\* However many ticks overlap or are cut off, one reminder is written.
RemindedOnce == \A u \in Users : reminders[u] <= 1

\* A closure that is due ends, by deletion or by cancellation, whether or not a tick
\* ran in its last week.
DueEnds == \A u \in Users : u \in Due ~> closure[u] # "open"

(***************************************************************************)
(* What they rest on                                                       *)
(***************************************************************************)
\* No two ticks have locked the same closure, and what a tick has locked to delete is due
\* until the tick ends: a cancellation waits for it.
LocksKept ==
    /\ \A t \in Ticks :
         /\ tpc[t] = "idle" => remind[t] = {} /\ batch[t] = {}
         /\ batch[t] \subseteq Due
         /\ dropped[t] \cup todo[t] \cup ({current[t]} \ {Nobody}) \subseteq batch[t]
    /\ \A t, s \in Ticks :
         t # s => (remind[t] \cup batch[t]) \cap (remind[s] \cup batch[s]) = {}

\* A closure that a tick is to remind of was not reminded of before.
CountedReminders ==
    /\ \A t \in Ticks : remind[t] \cap reminded = {}
    /\ \A u \in Users : reminders[u] = IF u \in reminded THEN 1 ELSE 0

ClosureInv == TypeOK /\ LocksKept /\ CountedReminders

(***************************************************************************)
(* What does not hold                                                      *)
(***************************************************************************)
\* A user who has cancelled a closure can schedule another.
CanCloseAgain ==
    [][\A r \in Requests : op[r] = "close" /\ pc[r] # "done" /\ answer'[r] = "error"
                           => closure[user[r]] # "cancelled"]_vars

\* Cancelling restores the account: its attachments are there.
RestoresFiles ==
    \A r \in attached : closure[user[r]] = "cancelled" => r \in files

\* A tick deletes the accounts of its batch whose own deletion did not fail.
OthersProgress ==
    [][\A t \in Ticks : tpc[t] = "work" /\ tpc'[t] = "idle" /\ faults' = faults
                        => batch[t] \ failed[t] \subseteq gone']_vars

\* Deleting an account deletes its objects in S3, when S3 does not fail.
NothingLeft ==
    \A r \in files : user[r] \in gone => faults > 0

\* A requested export is assembled.
ExportIsReady ==
    \A r \in Requests : op[r] = "export" /\ answer[r] = "ok"
                        ~> job[r] = "ready" \/ user[r] \in gone
=============================================================================
