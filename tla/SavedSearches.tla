----------------------------- MODULE SavedSearches -----------------------------
(***************************************************************************)
(* The saved searches of one user: requests that add or change one lock    *)
(* the users row, count and write; a deletion takes no lock.  The alert    *)
(* dispatcher looks for jobs that match a search and writes notifications  *)
(* in one transaction.                                                     *)
(***************************************************************************)
EXTENDS Integers, FiniteSets

CONSTANTS
    Searches, Requests, Nobody,
    MaxSaved,       \* MAX_SAVED_SEARCHES
    MaxAlerts       \* MAX_ALERT_SEARCHES

\* What the modules that instantiate this one assume of its constants.
SavedSearchesAssumption ==
    /\ Nobody \notin Requests
    /\ MaxSaved \in Nat /\ MaxAlerts \in Nat

VARIABLES
    freq,       \* alert_frequency of each saved_search row, "none" without a row
    lock,       \* who has locked the users row
    req,
    matched,    \* searches a job of the window matches
    alerted     \* searches whose matches were notified

vars == <<freq, lock, req, matched, alerted>>

Frequencies == {"off", "daily", "weekly"}
Asked == Frequencies \cup {"hourly"}      \* what a body may ask for
Idle == [pc |-> "idle"]

Init ==
    /\ freq = [s \in Searches |-> "none"]
    /\ lock = Nobody
    /\ req = [r \in Requests |-> Idle]
    /\ matched = {} /\ alerted = {}

Saved == {s \in Searches : freq[s] # "none"}
Alerting == {s \in Saved : freq[s] # "off"}

(***************************************************************************)
(* Requests                                                                *)
(***************************************************************************)
Op(s) == IF freq[s] = "none" THEN "create" ELSE "update"

\* The id of a row that is created is not the id of another request's row.
Taken == {req[q].search : q \in {q \in Requests : req[q].pc # "idle"}}
Fresh(s) == Op(s) = "update" \/ s \notin Taken

\* SELECT ... FOR UPDATE of the users row, for a new search or a stored one
Lock(r, s, f) ==
    /\ req[r].pc = "idle" /\ lock = Nobody
    /\ Fresh(s)
    /\ lock' = r
    /\ req' = [req EXCEPT ![r] = [pc |-> "locked", op |-> Op(s), search |-> s, to |-> f]]
    /\ UNCHANGED <<freq, matched, alerted>>

Release(r) ==
    /\ req' = [req EXCEPT ![r] = Idle]
    /\ lock' = IF lock = r THEN Nobody ELSE lock

\* The frequency is parsed, the counts compared; an update needs its row
Accepted(r) ==
    LET q == req[r] IN
    /\ q.to \in Frequencies
    /\ q.op = "create" => Cardinality(Saved) < MaxSaved
    /\ q.op = "update" => freq[q.search] # "none"
    /\ q.to # "off" /\ (q.op = "create" \/ freq[q.search] = "off") =>
            Cardinality(Alerting) < MaxAlerts

Decide(r) ==
    /\ req[r].pc = "locked"
    /\ IF Accepted(r)
       THEN req' = [req EXCEPT ![r].pc = "decided"] /\ UNCHANGED lock
       ELSE Release(r)
    /\ UNCHANGED <<freq, matched, alerted>>

\* The row is written; an update whose row was deleted since then fails.
Commit(r) ==
    LET q == req[r] IN
    /\ req[r].pc = "decided"
    /\ freq' = IF q.op = "update" /\ freq[q.search] = "none" THEN freq
               ELSE [freq EXCEPT ![q.search] = q.to]
    /\ Release(r)
    /\ UNCHANGED <<matched, alerted>>

Delete(s) ==
    /\ freq[s] # "none"
    /\ freq' = [freq EXCEPT ![s] = "none"]
    /\ matched' = matched \ {s} /\ alerted' = alerted \ {s}
    /\ UNCHANGED <<lock, req>>

(***************************************************************************)
(* The dispatcher                                                          *)
(***************************************************************************)
JobCached(s) ==
    /\ freq[s] # "none"
    /\ matched' = matched \cup {s} /\ alerted' = alerted \ {s}
    /\ UNCHANGED <<freq, lock, req>>

\* The columns of notifications since revision 0011, and those the dispatcher names
Columns == {"id", "user_id", "type", "category", "channel", "title", "body", "data", "read_at",
            "scheduled_at", "sent_at", "delivery_status", "error", "created_at"}
Named == {"id", "user_id", "type", "channel", "status", "payload", "created_at"}

Emits == Named \subseteq Columns

\* Every search of the frequency that has matches, in one transaction: an INSERT that
\* fails rolls all of it back.
Dispatch(f) ==
    /\ alerted' = IF Emits THEN alerted \cup {s \in matched : freq[s] = f} ELSE alerted
    /\ UNCHANGED <<freq, lock, req, matched>>

Next ==
    \/ \E r \in Requests, s \in Searches, f \in Asked : Lock(r, s, f)
    \/ \E r \in Requests : Decide(r) \/ Commit(r)
    \/ \E s \in Searches : Delete(s) \/ JobCached(s)
    \/ \E f \in {"daily", "weekly"} : Dispatch(f)

Spec == Init /\ [][Next]_vars

\* The two schedules fire.
FairSpec == Spec /\ \A f \in {"daily", "weekly"} : WF_vars(Dispatch(f))

(***************************************************************************)
(* What holds                                                              *)
(***************************************************************************)
TypeOK ==
    /\ freq \in [Searches -> Frequencies \cup {"none"}]
    /\ lock \in Requests \cup {Nobody}
    /\ \A r \in Requests :
        \/ req[r] = Idle
        \/ req[r] \in [pc : {"locked", "decided"}, op : {"create", "update"},
                       search : Searches, to : Asked]
    /\ matched \subseteq Saved /\ alerted \subseteq matched

\* However requests overlap, each of the two counts stays within its limit.
WithinSaved == Cardinality(Saved) <= MaxSaved
WithinAlerts == Cardinality(Alerting) <= MaxAlerts

(***************************************************************************)
(* What the code does not keep                                             *)
(***************************************************************************)
\* The matches of a search that asks for alerts are notified in the end.
MatchesNotified ==
    \A s \in Searches :
        (s \in matched /\ freq[s] = "daily") ~> (s \in alerted \/ s \notin matched \/ freq[s] # "daily")
=============================================================================
