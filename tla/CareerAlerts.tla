------------------------------ MODULE CareerAlerts ------------------------------
(***************************************************************************)
(* Watchlists and the alerts made from them.  A request counts the user's  *)
(* watches and then writes one.  A run of the matcher is one transaction:  *)
(* it reads the active watches, inserts an alert for every open job that   *)
(* matches, picks pending alerts and writes a notification for each.  Runs *)
(* overlap and die; the user removes watches and dismisses alerts in the   *)
(* meantime.                                                               *)
(***************************************************************************)
EXTENDS Integers, FiniteSets

CONSTANTS
    Users, Companies, Jobs,
    CompanyOf,      \* of a job
    Requests,       \* requests that add a watch
    Runs,           \* matcher runs that may overlap
    Batch,          \* CAREER_WATCH_MATCH_BATCH, for watches and for pending alerts
    Limit,          \* career_watch_companies of the plan
    MaxFaults       \* bound: runs that die

\* What the modules that instantiate this one assume of its constants.
CareerAlertsAssumption ==
    /\ CompanyOf \in [Jobs -> Companies]
    /\ Batch \in Nat \ {0} /\ Limit \in Nat /\ MaxFaults \in Nat

VARIABLES
    watch,      \* user_watched_companies: "none", "active" or "removed"
    job,        \* "new", "open", "closed", or "past" seven days after it was first seen
    alert,      \* committed status, "none" without a row
    notices,    \* notifications written for an alert
    add, run, faults

vars == <<watch, job, alert, notices, add, run, faults>>

Watches == Users \X Companies
Alerts == Users \X Jobs
Resting == [pc |-> "idle"]
Idle == [pc |-> "idle", todo |-> {}, made |-> {}, picked |-> {}, sent |-> {}]
At(r, pc) == run[r].pc = pc

Init ==
    /\ watch = [w \in Watches |-> "none"]
    /\ job = [j \in Jobs |-> "new"]
    /\ alert = [a \in Alerts |-> "none"] /\ notices = [a \in Alerts |-> 0]
    /\ add = [q \in Requests |-> Resting]
    /\ run = [r \in Runs |-> Idle]
    /\ faults = 0

(***************************************************************************)
(* The watchlist                                                           *)
(***************************************************************************)
Counted(u) == Cardinality({c \in Companies : watch[u, c] = "active"})

\* assert_can_add_watch, then the look for a row of this user and company
Count(q, u, c) ==
    /\ add[q].pc = "idle" /\ Counted(u) < Limit
    /\ add' = [add EXCEPT ![q] = [pc |-> "counted", user |-> u, company |-> c, found |-> watch[u, c]]]
    /\ UNCHANGED <<watch, job, alert, notices, run, faults>>

\* The found row becomes active again, or a row is inserted; a row inserted meanwhile by
\* another request is a unique violation.
Store(q) ==
    LET w == <<add[q].user, add[q].company>> IN
    /\ add[q].pc = "counted"
    /\ watch' = IF add[q].found = "none" /\ watch[w] # "none" THEN watch
                ELSE IF add[q].found = "active" THEN watch      \* nothing to update
                ELSE [watch EXCEPT ![w] = "active"]
    /\ add' = [add EXCEPT ![q] = Resting]
    /\ UNCHANGED <<job, alert, notices, run, faults>>

Remove(u, c) ==
    /\ watch[u, c] = "active"
    /\ watch' = [watch EXCEPT ![u, c] = "removed"]
    /\ UNCHANGED <<job, alert, notices, add, run, faults>>

(***************************************************************************)
(* Jobs, as CareerFeed writes them                                         *)
(***************************************************************************)
JobSeen(j) ==
    /\ job[j] \in {"new", "closed"}
    /\ job' = [job EXCEPT ![j] = "open"]
    /\ UNCHANGED <<watch, alert, notices, add, run, faults>>

JobCloses(j) ==
    /\ job[j] = "open"
    /\ job' = [job EXCEPT ![j] = "closed"]
    /\ UNCHANGED <<watch, alert, notices, add, run, faults>>

\* Seven days after it was first seen.
JobPasses(j) ==
    /\ job[j] \in {"open", "closed"}
    /\ job' = [job EXCEPT ![j] = "past"]
    /\ UNCHANGED <<watch, alert, notices, add, run, faults>>

(***************************************************************************)
(* The matcher                                                             *)
(***************************************************************************)
\* What LIMIT without ORDER BY may return.
SomeOf(rows) == {s \in SUBSET rows : Cardinality(s) = IF Cardinality(rows) < Batch
                                                      THEN Cardinality(rows) ELSE Batch}

\* SELECT of the active watches
Scan(r) ==
    /\ At(r, "idle")
    /\ \E ws \in SomeOf({w \in Watches : watch[w] = "active"}) :
        run' = [run EXCEPT ![r] = [Idle EXCEPT !.pc = "scanned", !.todo = ws]]
    /\ UNCHANGED <<watch, job, alert, notices, add, faults>>

\* Alerts whose rows the open transaction of another run has inserted or updated
Held(r) == UNION {run[s].made \cup run[s].sent : s \in Runs \ {r}}

Matching(w) == {<<w[1], j>> : j \in {j \in Jobs : CompanyOf[j] = w[2] /\ job[j] = "open"}}

\* INSERT ... ON CONFLICT DO NOTHING for every job of one watch: it waits for another
\* run that has inserted the same row.
Match(r, w) ==
    /\ At(r, "scanned") /\ w \in run[r].todo
    /\ Matching(w) \cap Held(r) = {}
    /\ run' = [run EXCEPT ![r].todo = @ \ {w},
                          ![r].made = @ \cup {a \in Matching(w) : alert[a] = "none"}]
    /\ UNCHANGED <<watch, job, alert, notices, add, faults>>

\* SELECT of the pending alerts, the run's own among them
Pick(r) ==
    /\ At(r, "scanned") /\ run[r].todo = {}
    /\ \E as \in SomeOf({a \in Alerts : alert[a] = "pending"} \cup run[r].made) :
        run' = [run EXCEPT ![r].pc = "picked", ![r].picked = as]
    /\ UNCHANGED <<watch, job, alert, notices, add, faults>>

\* The notification is inserted and the alert marked, after a wait for its row.
Send(r, a) ==
    /\ At(r, "picked") /\ a \in run[r].picked /\ a \notin Held(r)
    /\ run' = [run EXCEPT ![r].picked = @ \ {a}, ![r].sent = @ \cup {a}]
    /\ UNCHANGED <<watch, job, alert, notices, add, faults>>

\* The status a run leaves on an alert
StatusAfter(r, a) ==
    IF a \in run[r].sent THEN "sent" ELSE IF a \in run[r].made THEN "pending" ELSE alert[a]

Commit(r) ==
    /\ At(r, "picked") /\ run[r].picked = {}
    /\ alert' = [a \in Alerts |-> StatusAfter(r, a)]
    /\ notices' = [a \in Alerts |-> IF a \in run[r].sent THEN notices[a] + 1 ELSE notices[a]]
    /\ run' = [run EXCEPT ![r] = Idle]
    /\ UNCHANGED <<watch, job, add, faults>>

\* The run dies, or is the victim of a deadlock, and all it wrote is rolled back.
Die(r) ==
    /\ ~At(r, "idle") /\ faults < MaxFaults
    /\ run' = [run EXCEPT ![r] = Idle]
    /\ faults' = faults + 1
    /\ UNCHANGED <<watch, job, alert, notices, add>>

\* The user dismisses an alert of the list, which holds pending and sent ones.
Dismiss(a) ==
    /\ alert[a] \in {"pending", "sent"}
    /\ \A r \in Runs : a \notin run[r].sent
    /\ alert' = [alert EXCEPT ![a] = "dismissed"]
    /\ UNCHANGED <<watch, job, notices, add, run, faults>>

MatcherStep(r) ==
    \/ Scan(r) \/ Pick(r) \/ Commit(r)
    \/ \E w \in Watches : Match(r, w)
    \/ \E a \in Alerts : Send(r, a)

Next ==
    \/ \E q \in Requests : Store(q) \/ \E u \in Users, c \in Companies : Count(q, u, c)
    \/ \E u \in Users, c \in Companies : Remove(u, c)
    \/ \E j \in Jobs : JobSeen(j) \/ JobCloses(j) \/ JobPasses(j)
    \/ \E r \in Runs : MatcherStep(r) \/ Die(r)
    \/ \E a \in Alerts : Dismiss(a)

Spec == Init /\ [][Next]_vars

\* The matcher is started every fifteen minutes and runs to its end.
FairSpec == Spec /\ \A r \in Runs : WF_vars(MatcherStep(r))

(***************************************************************************)
(* What holds                                                              *)
(***************************************************************************)
Statuses == {"none", "pending", "sent", "dismissed"}

TypeOK ==
    /\ watch \in [Watches -> {"none", "active", "removed"}]
    /\ job \in [Jobs -> {"new", "open", "closed", "past"}]
    /\ alert \in [Alerts -> Statuses] /\ notices \in [Alerts -> Nat]
    /\ \A q \in Requests :
        \/ add[q] = Resting
        \/ add[q] \in [pc : {"counted"}, user : Users, company : Companies,
                       found : {"none", "active", "removed"}]
    /\ run \in [Runs -> [pc : {"idle", "scanned", "picked"}, todo : SUBSET Watches,
                          made : SUBSET Alerts, picked : SUBSET Alerts, sent : SUBSET Alerts]]
    /\ faults \in 0 .. MaxFaults

\* The user is told of a job once, while runs overlap (if no batch leaves alerts pending)
\* and when batches leave alerts pending (if runs do not overlap), and runs die.
NotifiedOnce == \A a \in Alerts : notices[a] <= 1

\* An alert counts as sent exactly when its notification was written, or it was dismissed.
StatusTells ==
    \A a \in Alerts :
        /\ alert[a] = "sent" => notices[a] > 0
        /\ notices[a] > 0 => alert[a] \in {"sent", "dismissed"}

\* A job that matches an active watch leads to an alert, unless the job or the watch goes first.
Wanted(a) == watch[a[1], CompanyOf[a[2]]] = "active" /\ job[a[2]] = "open"
MatchesAlerted == \A a \in Alerts : Wanted(a) ~> (alert[a] # "none" \/ ~Wanted(a))

\* Requests one at a time keep the plan's limit; see below.
WithinLimit == \A u \in Users : Counted(u) <= Limit

(***************************************************************************)
(* What the code does not keep                                             *)
(***************************************************************************)
\* A dismissed alert stays dismissed.
DismissedStays == [][\A a \in Alerts : alert[a] = "dismissed" => alert'[a] = "dismissed"]_vars
=============================================================================
