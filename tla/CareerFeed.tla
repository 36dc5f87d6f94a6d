------------------------------- MODULE CareerFeed -------------------------------
(***************************************************************************)
(* The polling of careers pages.  A scheduler queues the companies that    *)
(* are due, a worker takes one company from the queue, reads its page and  *)
(* writes what it saw into two caches in one transaction: the cache the    *)
(* alerts are made from and the shared job search cache.  Messages may be  *)
(* queued twice, workers overlap, fail and die, and a page changes between *)
(* a worker's look and its commit.                                         *)
(***************************************************************************)
EXTENDS Integers, FiniteSets

CONSTANTS
    Companies,
    Supported,      \* those whose applicant tracking system the worker reads
    Jobs,           \* job ids on a page
    Rank,           \* position of a company in ORDER BY priority, id
    Namesakes,      \* pairs of companies with one lower-case name on one system
    Workers,
    Batch,          \* CAREER_WATCH_SCHEDULER_BATCH
    MaxQueued,      \* bound: messages of one company
    MaxChanges,     \* bound: changes of the pages
    MaxFaults       \* bound: failed fetches, database errors and dead workers

\* What the modules that instantiate this one assume of its constants.
CareerFeedAssumption ==
    /\ Supported \subseteq Companies
    /\ Rank \in [Companies -> Nat]
    /\ Namesakes \subseteq Companies \X Companies
    /\ Batch \in Nat \ {0} /\ {MaxQueued, MaxChanges, MaxFaults} \subseteq Nat

VARIABLES
    board,      \* what each page lists
    open,       \* career_job_cache rows with is_open
    listed,     \* job_cache rows with is_active, by company and job
    due,        \* last_polled_at is older than the interval
    queued,     \* messages of each company in the queue
    worker, changes, faults

vars == <<board, open, listed, due, queued, worker, changes, faults>>
cache == <<open, listed>>
bounds == <<changes, faults>>

Idle == [pc |-> "idle"]
At(w, pc) == worker[w].pc = pc

Init ==
    /\ board \in [Companies -> SUBSET Jobs]
    /\ open = [c \in Companies |-> {}]
    /\ listed = {}
    /\ due = [c \in Companies |-> TRUE]
    /\ queued = [c \in Companies |-> 0]
    /\ worker = [w \in Workers |-> Idle]
    /\ changes = 0 /\ faults = 0

(***************************************************************************)
(* The page, the clock and the scheduler                                   *)
(***************************************************************************)
PageChanges(c) ==
    /\ changes < MaxChanges
    /\ \E page \in SUBSET Jobs : page # board[c] /\ board' = [board EXCEPT ![c] = page]
    /\ changes' = changes + 1
    /\ UNCHANGED <<cache, due, queued, worker, faults>>

IntervalPasses(c) ==
    /\ ~due[c]
    /\ due' = [due EXCEPT ![c] = TRUE]
    /\ UNCHANGED <<board, cache, queued, worker, bounds>>

Due == {c \in Companies : due[c]}

\* The due companies, the first Batch of them in the order of the query.
Scheduled == {c \in Due : Cardinality({d \in Due : Rank[d] < Rank[c]}) < Batch}

\* One message per scheduled company, whether or not one is queued already.
Tick ==
    /\ queued' = [c \in Companies |->
                    IF c \in Scheduled /\ queued[c] < MaxQueued THEN queued[c] + 1 ELSE queued[c]]
    /\ UNCHANGED <<board, cache, due, worker, bounds>>

(***************************************************************************)
(* The worker                                                              *)
(***************************************************************************)
Take(c) == queued[c] > 0 /\ queued' = [queued EXCEPT ![c] = @ - 1]

\* The company's row and its page are read.
Fetch(w, c) ==
    /\ At(w, "idle") /\ c \in Supported /\ Take(c)
    /\ worker' = [worker EXCEPT ![w] =
                    [pc |-> "fetched", company |-> c, seen |-> board[c], gone |-> {}, delisted |-> {}]]
    /\ UNCHANGED <<board, cache, due, bounds>>

\* Any other system: the message is used up and the row left as it is.
Skip(w, c) ==
    /\ At(w, "idle") /\ c \notin Supported /\ Take(c)
    /\ UNCHANGED <<board, cache, due, worker, bounds>>

Rows(c, js) == {c} \X js

\* Rows the open transaction of w has written; a job's two rows are locked together.
Locked(w) ==
    CASE At(w, "upserted") -> Rows(worker[w].company, worker[w].seen)
      [] At(w, "closed")   -> Rows(worker[w].company, worker[w].seen \cup worker[w].gone)
                                \cup worker[w].delisted
      [] OTHER             -> {}

Free(w, rows) == \A v \in Workers \ {w} : Locked(v) \cap rows = {}

Alike(c, d) == c = d \/ <<c, d>> \in Namesakes \/ <<d, c>> \in Namesakes

Gone(w) == open[worker[w].company] \ worker[w].seen

DelistedNone(w) == {}

\* Rows of the shared cache are found by the company's name.
Delisted(w) ==
    {row \in listed : Alike(row[1], worker[w].company) /\ row[2] \notin worker[w].seen}

\* What the two closing statements write.
Closing(w) == Rows(worker[w].company, Gone(w)) \cup Delisted(w)

\* INSERT ... ON CONFLICT DO UPDATE of every job on the page, in both caches
Upsert(w) ==
    /\ At(w, "fetched")
    /\ Free(w, Rows(worker[w].company, worker[w].seen))
    /\ worker' = [worker EXCEPT ![w].pc = "upserted"]
    /\ UNCHANGED <<board, cache, due, queued, bounds>>

\* The rows of jobs not on the page, of those committed by now
Close(w) ==
    /\ At(w, "upserted") /\ Free(w, Closing(w))
    /\ worker' = [worker EXCEPT ![w].pc = "closed", ![w].gone = Gone(w), ![w].delisted = Delisted(w)]
    /\ UNCHANGED <<board, cache, due, queued, bounds>>

\* last_polled_at is written and everything becomes visible.
Commit(w) ==
    LET c == worker[w].company IN
    /\ At(w, "closed")
    /\ open' = [open EXCEPT ![c] = (@ \ worker[w].gone) \cup worker[w].seen]
    /\ listed' = (listed \ worker[w].delisted) \cup Rows(c, worker[w].seen)
    /\ due' = [due EXCEPT ![c] = FALSE]
    /\ worker' = [worker EXCEPT ![w] = Idle]
    /\ UNCHANGED <<board, queued, bounds>>

\* An error is logged, the transaction rolled back and the message used up.
Fail(w) ==
    /\ ~At(w, "idle") /\ faults < MaxFaults
    /\ worker' = [worker EXCEPT ![w] = Idle]
    /\ faults' = faults + 1
    /\ UNCHANGED <<board, cache, due, queued, changes>>

\* Two transactions wait for rows of each other: the database aborts one.
DeadlockVictim(w) ==
    /\ At(w, "upserted")
    /\ \E v \in Workers \ {w} :
        /\ At(v, "upserted")
        /\ Closing(w) \cap Locked(v) # {} /\ Closing(v) \cap Locked(w) # {}
    /\ worker' = [worker EXCEPT ![w] = Idle]
    /\ UNCHANGED <<board, cache, due, queued, bounds>>

\* The worker dies: its message is delivered again.
Die(w) ==
    /\ ~At(w, "idle") /\ faults < MaxFaults
    /\ queued' = [queued EXCEPT ![worker[w].company] = @ + 1]
    /\ worker' = [worker EXCEPT ![w] = Idle]
    /\ faults' = faults + 1
    /\ UNCHANGED <<board, cache, due, changes>>

Work(w) ==
    \/ \E c \in Companies : Fetch(w, c) \/ Skip(w, c)
    \/ Upsert(w) \/ Close(w) \/ Commit(w)

Next ==
    \/ \E c \in Companies : PageChanges(c) \/ IntervalPasses(c)
    \/ Tick
    \/ \E w \in Workers : Work(w) \/ Fail(w) \/ DeadlockVictim(w) \/ Die(w)

Spec == Init /\ [][Next]_vars

\* The schedule fires every five minutes, a queued message is received in time, whatever
\* its company, time passes, and a lock wait that cannot end is broken.
Fairness ==
    /\ WF_vars(Tick)
    /\ \A c \in Companies : WF_vars(IntervalPasses(c))
    /\ \A c \in Companies : SF_vars(\E w \in Workers : Fetch(w, c) \/ Skip(w, c))
    /\ \A w \in Workers : WF_vars(Upsert(w) \/ Close(w) \/ Commit(w) \/ DeadlockVictim(w))

FairSpec == Spec /\ Fairness

(***************************************************************************)
(* What holds                                                              *)
(***************************************************************************)
TypeOK ==
    /\ board \in [Companies -> SUBSET Jobs] /\ open \in [Companies -> SUBSET Jobs]
    /\ listed \subseteq Companies \X Jobs
    /\ due \in [Companies -> BOOLEAN]
    /\ queued \in [Companies -> 0 .. MaxQueued + MaxFaults]
    /\ \A w \in Workers :
        \/ worker[w] = Idle
        \/ worker[w] \in [pc : {"fetched", "upserted", "closed"}, company : Supported,
                          seen : SUBSET Jobs, gone : SUBSET Jobs, delisted : SUBSET (Companies \X Jobs)]
    /\ changes \in 0 .. MaxChanges /\ faults \in 0 .. MaxFaults

\* A job is offered by the search exactly while the watchlist holds it for open, in every
\* order of two polls of one company.  It needs names that are not shared: see below.
CachesAgree == \A c \in Companies : \A j \in Jobs : j \in open[c] <=> <<c, j>> \in listed

\* When the pages stop changing, the caches come to say what they list and stay so,
\* though a failed poll is not tried again and an old look may be committed after a new one.
Converges == <>[](\A c \in Supported : open[c] = board[c])

\* A company that is due is polled.  It needs a batch that holds every company that is
\* due: see below.
DuePolled == \A c \in Supported : due[c] ~> ~due[c]
=============================================================================
