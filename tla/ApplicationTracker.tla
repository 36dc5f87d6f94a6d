-------------------------- MODULE ApplicationTracker --------------------------
(***************************************************************************)
(* One user's job applications with their status history, interview        *)
(* rounds, offer and attachments, under requests that overlap.             *)
(*                                                                         *)
(* A request reads its application, decides, and writes the columns it     *)
(* changed in one flush before it commits.  Creating and un-archiving      *)
(* first take the user's advisory lock when the plan limits the number of  *)
(* active applications; an upload locks its application's row.  An object  *)
(* in S3 comes and goes at once, whatever becomes of the transaction.      *)
(*                                                                         *)
(* An application, a round and an attachment are named after the request   *)
(* that made them.                                                         *)
(***************************************************************************)
EXTENDS Integers, Sequences, FiniteSets

CONSTANTS
    Requests,   \* each is served once
    Nobody,     \* no request
    Roles,      \* normalized titles and companies
    Ops,        \* what requests may ask for
    Limited,    \* the plan has a tracker_active_limit
    Limit,      \* and this is it
    MaxFiles,   \* MAX_ATTACHMENTS_PER_APPLICATION
    MaxCrashes  \* bound: how many requests are cut off

AllOps == {"create", "confirm", "archive", "unarchive", "patch", "delete",
           "round", "unround", "offer", "upload", "detach"}

\* What the modules that instantiate this one assume of its constants.
TrackerAssumption ==
    /\ Nobody \notin Requests
    /\ Ops \subseteq AllOps
    /\ Limited \in BOOLEAN /\ Limit \in Nat /\ MaxFiles \in Nat /\ MaxCrashes \in Nat

VARIABLES
    app,        \* none, active, archived or deleted
    shelved,    \* applications that have been archived at some time
    role, status, history,
    offered,    \* applications with an offer
    round,      \* the number of a round, or 0
    attached,   \* attachment rows
    files,      \* their objects in S3
    pc, op, target,
    seen,       \* what the request has read of its application
    holder,     \* who holds the advisory lock
    crashes

rows == <<app, shelved, role, status, history, offered, round, attached>>
request == <<pc, op, target, seen>>
vars == <<rows, files, request, holder, crashes>>

Statuses == {"draft", "applied", "interviewing"}
Unread == [archived |-> FALSE, status |-> "draft", history |-> <<>>, next |-> 0, file |-> Nobody]

Init ==
    /\ app = [a \in Requests |-> "none"]
    /\ shelved = {}
    /\ role \in [Requests -> Roles]
    /\ status = [a \in Requests |-> "draft"]
    /\ history = [a \in Requests |-> <<>>]
    /\ offered = {}
    /\ round = [r \in Requests |-> 0]
    /\ attached = {} /\ files = {}
    /\ pc = [r \in Requests |-> "idle"]
    /\ op \in [Requests -> Ops]
    /\ target = [r \in Requests |-> Nobody]
    /\ seen = [r \in Requests |-> Unread]
    /\ holder = Nobody
    /\ crashes = 0

Exists(a) == a \in Requests /\ app[a] \in {"active", "archived"}
Active == {a \in Requests : app[a] = "active"}
Of(a) == {r \in Requests : target[r] = a}
Attached(a) == Of(a) \cap attached

\* An upload to a is under way and holds its row.
Free(a) == \A r \in Of(a) : pc[r] \notin {"put", "commit"}

NextRound(a) ==
    LET numbers == {round[r] : r \in Of(a)} \cup {0}
    IN  1 + (CHOOSE n \in numbers : \A m \in numbers : m <= n)

Goto(r, l) == pc' = [pc EXCEPT ![r] = l]
Done(r) ==
    /\ Goto(r, "done")
    /\ seen' = [seen EXCEPT ![r] = Unread]
    /\ holder' = IF holder = r THEN Nobody ELSE holder

Creates == {"create", "confirm"}

\* get_owned_application and what else the handler reads before it decides
Read(r) ==
    /\ pc[r] = "idle" /\ op[r] \notin Creates
    /\ \E a \in Requests :
        /\ Exists(a)
        /\ target' = [target EXCEPT ![r] = a]
        /\ seen' = [seen EXCEPT ![r] = [archived |-> app[a] = "archived", status |-> status[a],
                                        history |-> history[a], next |-> NextRound(a),
                                        file |-> Nobody]]
    /\ Goto(r, CASE op[r] = "unarchive" -> "admit"
                 [] op[r] = "upload" -> "lock"
                 [] op[r] \in {"delete", "detach"} -> "erase"
                 [] OTHER -> "write")
    /\ UNCHANGED <<rows, files, op, holder, crashes>>

Open(r) ==
    /\ pc[r] = "idle" /\ op[r] \in Creates
    /\ Goto(r, "admit")
    /\ UNCHANGED <<rows, files, op, target, seen, holder, crashes>>

AdmitUnlocked(r) ==
    /\ pc[r] = "admit"
    /\ IF \/ Limited /\ Cardinality(Active) >= Limit
          \/ op[r] = "create" /\ \E a \in Active : role[a] = role[r]
       THEN Done(r)
       ELSE Goto(r, "write") /\ UNCHANGED <<seen, holder>>
    /\ UNCHANGED <<rows, files, op, target, crashes>>

\* lock_user_for_tracker_write, the count of active applications, and for a new one
\* the search for an active application to the same role
Admit(r) ==
    /\ pc[r] = "admit"
    /\ Limited => holder = Nobody
    /\ IF \/ /\ op[r] \in Creates \/ seen[r].archived
             /\ Limited /\ Cardinality(Active) >= Limit
          \/ op[r] = "create" /\ \E a \in Active : role[a] = role[r]
          \/ op[r] = "unarchive" /\ ~seen[r].archived
       THEN Done(r)
       ELSE /\ Goto(r, "write")
            /\ holder' = IF Limited THEN r ELSE holder
            /\ UNCHANGED seen
    /\ UNCHANGED <<rows, files, op, target, crashes>>

Insert(r) ==
    /\ pc[r] = "write" /\ op[r] \in Creates
    /\ app' = [app EXCEPT ![r] = "active"]
    /\ \E s \in {"draft", "applied"} :
        /\ status' = [status EXCEPT ![r] = s]
        /\ history' = [history EXCEPT ![r] = <<s>>]
    /\ Done(r)
    /\ UNCHANGED <<shelved, role, offered, round, attached, files, op, target, crashes>>

\* The flush of a handler: it waits for an upload, and fails if the row is gone.
Writes(r, o) == pc[r] = "write" /\ op[r] = o /\ Free(target[r])

Missing(r) ==
    /\ pc[r] = "write" /\ op[r] \notin Creates \cup {"unround", "detach"}
    /\ Free(target[r]) /\ ~Exists(target[r])
    /\ Done(r)
    /\ UNCHANGED <<rows, files, op, target, crashes>>

Archive(r) ==
    LET a == target[r] IN
    /\ Writes(r, "archive") /\ Exists(a)
    /\ IF seen[r].archived THEN UNCHANGED <<app, shelved>>
       ELSE app' = [app EXCEPT ![a] = "archived"] /\ shelved' = shelved \cup {a}
    /\ Done(r)
    /\ UNCHANGED <<role, status, history, offered, round, attached, files, op, target, crashes>>

Unarchive(r) ==
    /\ Writes(r, "unarchive") /\ Exists(target[r])
    /\ app' = [app EXCEPT ![target[r]] = "active"]
    /\ Done(r)
    /\ UNCHANGED <<shelved, role, status, history, offered, round, attached, files, op, target, crashes>>

\* append_status_history: a new list made of the one that was read
Move(r, s) ==
    /\ status' = [status EXCEPT ![target[r]] = s]
    /\ history' = [history EXCEPT ![target[r]] = Append(seen[r].history, s)]

Patch(r) ==
    /\ Writes(r, "patch") /\ Exists(target[r])
    /\ \E s \in Statuses \ {seen[r].status} : Move(r, s)
    /\ Done(r)
    /\ UNCHANGED <<app, shelved, role, offered, round, attached, files, op, target, crashes>>

\* add_interview_round: an application that was read as applied is interviewing.
AddRound(r) ==
    /\ Writes(r, "round") /\ Exists(target[r])
    /\ round' = [round EXCEPT ![r] = seen[r].next]
    /\ IF seen[r].status = "applied" THEN Move(r, "interviewing") ELSE UNCHANGED <<status, history>>
    /\ Done(r)
    /\ UNCHANGED <<app, shelved, role, offered, attached, files, op, target, crashes>>

\* One DELETE of a round of the application, or of none
DeleteRound(r) ==
    /\ pc[r] = "write" /\ op[r] = "unround"
    /\ \E o \in Of(target[r]) : round' = [round EXCEPT ![o] = 0]
    /\ Done(r)
    /\ UNCHANGED <<app, shelved, role, status, history, offered, attached, files, op, target, crashes>>

\* create_offer, patch_offer: application_id is unique in offer_details.
Offer(r) ==
    /\ Writes(r, "offer") /\ Exists(target[r])
    /\ offered' = offered \cup {target[r]}
    /\ Done(r)
    /\ UNCHANGED <<app, shelved, role, status, history, round, attached, files, op, target, crashes>>

\* upload_application_attachment: the row lock, the count and the object
Lock(r) ==
    /\ pc[r] = "lock" /\ Free(target[r])
    /\ IF ~Exists(target[r]) \/ Cardinality(Attached(target[r])) >= MaxFiles
       THEN Done(r) /\ UNCHANGED files
       ELSE Goto(r, "put") /\ files' = files \cup {r} /\ UNCHANGED <<seen, holder>>
    /\ UNCHANGED <<rows, op, target, crashes>>

\* ...and the INSERT, which a trigger refuses beyond the limit.
Put(r) ==
    /\ pc[r] = "put"
    /\ IF Cardinality(Attached(target[r])) < MaxFiles
       THEN Goto(r, "commit") /\ UNCHANGED <<seen, holder>>
       ELSE Done(r)
    /\ UNCHANGED <<rows, files, op, target, crashes>>

CommitFile(r) ==
    /\ pc[r] = "commit"
    /\ attached' = attached \cup {r}
    /\ Done(r)
    /\ UNCHANGED <<app, shelved, role, status, history, offered, round, files, op, target, crashes>>

\* The objects go before the rows: those of an application, or the one that is named.
Erase(r) ==
    /\ pc[r] = "erase"
    /\ IF op[r] = "delete"
       THEN files' = files \ Attached(target[r]) /\ UNCHANGED seen
       ELSE \E f \in Attached(target[r]) \cup {Nobody} :
                files' = files \ {f} /\ seen' = [seen EXCEPT ![r].file = f]
    /\ Goto(r, "write")
    /\ UNCHANGED <<rows, op, target, holder, crashes>>

\* delete_application with what refers to it
Delete(r) ==
    LET a == target[r] IN
    /\ Writes(r, "delete") /\ Exists(a)
    /\ app' = [app EXCEPT ![a] = "deleted"]
    /\ offered' = offered \ {a}
    /\ round' = [o \in Requests |-> IF o \in Of(a) THEN 0 ELSE round[o]]
    /\ attached' = attached \ Of(a)
    /\ Done(r)
    /\ UNCHANGED <<shelved, role, status, history, files, op, target, crashes>>

\* delete_application_attachment
Detach(r) ==
    /\ pc[r] = "write" /\ op[r] = "detach"
    /\ attached' = attached \ {seen[r].file}
    /\ Done(r)
    /\ UNCHANGED <<app, shelved, role, status, history, offered, round, files, op, target, crashes>>

Crash(r) ==
    /\ pc[r] \notin {"idle", "done"} /\ crashes < MaxCrashes
    /\ crashes' = crashes + 1
    /\ Done(r)
    /\ UNCHANGED <<rows, files, op, target>>

Serve(r) ==
    \/ Read(r) \/ Open(r) \/ Admit(r) \/ Insert(r) \/ Missing(r) \/ Archive(r) \/ Unarchive(r)
    \/ Patch(r) \/ AddRound(r) \/ DeleteRound(r) \/ Offer(r)
    \/ Lock(r) \/ Put(r) \/ CommitFile(r) \/ Erase(r) \/ Delete(r) \/ Detach(r)

Next == \E r \in Requests : Serve(r) \/ Crash(r)

Spec == Init /\ [][Next]_vars

(***************************************************************************)
(* What holds                                                              *)
(***************************************************************************)
TypeOK ==
    /\ app \in [Requests -> {"none", "active", "archived", "deleted"}]
    /\ shelved \subseteq Requests /\ role \in [Requests -> Roles]
    /\ status \in [Requests -> Statuses] /\ history \in [Requests -> Seq(Statuses)]
    /\ offered \subseteq Requests /\ round \in [Requests -> Nat]
    /\ attached \subseteq Requests /\ files \subseteq Requests
    /\ pc \in [Requests -> {"idle", "admit", "lock", "put", "commit", "erase", "write", "done"}]
    /\ op \in [Requests -> Ops] /\ target \in [Requests -> Requests \cup {Nobody}]
    /\ holder \in Requests \cup {Nobody} /\ crashes \in 0 .. MaxCrashes

\* The plan's limit on active applications, however creations and un-archivings overlap.
WithinLimit == Limited => Cardinality(Active) <= Limit

\* On a limited plan no two active applications to one role were both created without
\* the user's confirmation, unless one was archived in between.
NoSilentTwin ==
    Limited => \A a, b \in Active \ shelved :
        a # b /\ role[a] = role[b] => "confirm" \in {op[a], op[b]}

\* The history ends with the status, although both are written from what was read.
HistoryEndsAtStatus ==
    \A a \in Requests : Exists(a) => history[a] # <<>> /\ history[a][Len(history[a])] = status[a]

\* Overlapping uploads do not exceed the attachments of an application.
AttachmentsWithin == \A a \in Requests : Cardinality(Attached(a)) <= MaxFiles

(***************************************************************************)
(* What does not hold                                                      *)
(***************************************************************************)
\* The rows are authoritative for the objects: a row that no deletion is at work on has
\* its object.
RowsHaveObjects ==
    \A f \in attached \ files :
        \E r \in Of(target[f]) : op[r] \in {"delete", "detach"} /\ pc[r] = "write"
=============================================================================
