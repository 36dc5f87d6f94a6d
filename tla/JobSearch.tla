------------------------------- MODULE JobSearch -------------------------------
(***************************************************************************)
(* The shared table of jobs and those who read and write it: searches,     *)
(* which look in the table first and ask a paid provider for more, matches *)
(* of a resume, batches of a scraper that are delivered through a queue,   *)
(* polls of a careers page and public feeds.  A job has two rows at most:  *)
(* the provider and the scraper write one that is found by its particulars *)
(* and polls and feeds one that is found by its address.  Every job        *)
(* matches the query.                                                      *)
(***************************************************************************)
EXTENDS Integers, FiniteSets, TLC

CONSTANTS
    Jobs,
    Blocked,        \* jobs of a company the user blocked, which is not the polled one
    Verbatim,       \* jobs the provider lists with the very address of the careers page
    Requests,       \* of one user
    Messages,       \* batches of the scraper
    Ops,            \* "search", "match", "poll", "feed", "expire", "resume"
    MinResults,     \* JOB_SEARCH_DB_MIN_RESULTS
    Configured,     \* whether the provider has a key
    MaxTexts,       \* bound: versions of the resume
    None

\* What the modules that instantiate this one assume of its constants.
JobSearchAssumption ==
    /\ Blocked \subseteq Jobs /\ Verbatim \subseteq Jobs /\ Requests \cap Messages = {}
    /\ Ops \subseteq {"search", "match", "poll", "feed", "expire", "resume"}
    /\ MinResults \in Nat /\ Configured \in BOOLEAN /\ MaxTexts \in Nat \ {0}

Sources == {"hirebase", "apify", "corpus", "feed"}

\* compute_dedup_key, and compute_dedup_key_v2 of a job with an address
Keys == {"particulars", "address"} \X Jobs
Particulars(j) == <<"particulars", j>>
Address(j) == <<"address", j>>

\* tag: ats_type, of the company's own system or of a feed
Row == [src : SUBSET Sources, fresh : BOOLEAN, active : BOOLEAN, tag : {"none", "ats", "feed"}]

VARIABLES
    job,        \* job_cache rows that are committed
    page,       \* what the last poll found on the careers page
    text,       \* version of the resume
    artifact,   \* the version the provider has embedded, 0 before that
    task        \* what each request and message does

vars == <<job, page, text, artifact, task>>

Tasks == Requests \cup Messages
Idle == [pc |-> "idle"]
At(t, pc) == task[t].pc = pc
Step(t, r) == task' = [task EXCEPT ![t] = r]

Init ==
    /\ job = [k \in Keys |-> None]
    /\ page = {}
    /\ text = 1 /\ artifact = 0
    /\ task = [t \in Tasks |-> Idle]

Stored == {k \in Keys : job[k] # None}

(***************************************************************************)
(* Looking in the table                                                    *)
(***************************************************************************)
\* search_active_job_cache and search_cache
Active == {k \in Stored : job[k].active /\ (job[k].fresh \/ "corpus" \in job[k].src)}
Unexpired == {k \in Stored : job[k].fresh}

Unblocked(ks) == {k \in ks : k[2] \notin Blocked}

\* An answer without the provider: what is active, or else what has not expired.
Fallback == IF Unblocked(Active) # {} THEN Unblocked(Active) ELSE Unblocked(Unexpired)

Answer(shown, stale, live) == [pc |-> "done", shown |-> shown, stale |-> stale, live |-> live]

Refused(paid) == [pc |-> "refused", paid |-> paid]

(***************************************************************************)
(* Requests                                                                *)
(***************************************************************************)
\* A free user with preferred titles may search the table but not ask for more.
Admitted(paid, expand) == paid \/ ~expand

Call(kind, paid, found, of) ==
    [pc |-> "calling", kind |-> kind, paid |-> paid, found |-> found, of |-> of]

\* The circuit is read, then the table is searched.
Search(r, paid, expand, open) ==
    /\ "search" \in Ops /\ At(r, "idle") /\ Admitted(paid, expand)
    /\ IF Cardinality(Active) >= MinResults /\ ~expand
       THEN Step(r, Answer(Unblocked(Active), FALSE, FALSE))
       ELSE IF open \/ ~Configured
       THEN Step(r, Answer(Fallback, TRUE, FALSE))
       ELSE Step(r, Call("search", paid, Unblocked(Active), 0))
    /\ UNCHANGED <<job, page, text, artifact>>

\* The version a match is about: the resume is embedded unless one has been.
Embedded == IF artifact = 0 THEN text ELSE artifact

\* The resume is matched, or not if the circuit is open.
Match(r, open) ==
    /\ "match" \in Ops /\ At(r, "idle")
    /\ Step(r, IF ~open THEN Call("match", TRUE, {}, Embedded)
               ELSE IF Unblocked(Unexpired) = {} THEN Refused(TRUE)
               ELSE Answer(Unblocked(Unexpired), TRUE, FALSE))
    /\ artifact' = IF open /\ Unblocked(Unexpired) # {} THEN Embedded ELSE artifact
    /\ UNCHANGED <<job, page, text>>

\* The resume cannot be embedded: nothing catches that.
EmbedFails(r) ==
    /\ "match" \in Ops /\ At(r, "idle") /\ artifact = 0
    /\ Step(r, [pc |-> "error"])
    /\ UNCHANGED <<job, page, text, artifact>>

\* The provider does not answer, or with an error.
CallFails(r) ==
    /\ At(r, "calling")
    /\ LET shown == IF task[r].kind = "search" THEN Fallback ELSE Unblocked(Unexpired) IN
       /\ Step(r, IF task[r].kind = "match" /\ shown = {} THEN Refused(TRUE)
                  ELSE Answer(shown, TRUE, FALSE))
       /\ artifact' = IF task[r].kind = "match" /\ shown # {} THEN task[r].of ELSE artifact
    /\ UNCHANGED <<job, page, text>>

CallReturns(r, listed) ==
    /\ At(r, "calling")
    /\ Step(r, [pc |-> "merging", kind |-> task[r].kind, paid |-> task[r].paid,
                found |-> task[r].found, of |-> task[r].of, listed |-> listed,
                left |-> listed, at |-> None, read |-> None, wrote |-> << >>])
    /\ UNCHANGED <<job, page, text, artifact>>

(***************************************************************************)
(* Writing what the provider or the scraper found                          *)
(***************************************************************************)
Listed == [src |-> {"hirebase"}, fresh |-> TRUE, active |-> TRUE, tag |-> "none"]
Scraped == [Listed EXCEPT !.src = {"apify"}]

\* The columns of a stored row that an upsert of this kind leaves: is_active and ats_type.
Merged(stored, new) == [stored EXCEPT !.src = @ \cup new.src, !.fresh = TRUE]

Upsert(stored, new) == IF stored = None THEN new ELSE Merged(stored, new)

Open(t) == task[t].pc \in {"merging", "writing"}
Held(t) == IF Open(t) THEN DOMAIN task[t].wrote ELSE {}
Free(t, k) == \A u \in Tasks \ {t} : k \notin Held(u)

Put(wrote, k, r) == [x \in DOMAIN wrote \cup {k} |-> IF x = k THEN r ELSE wrote[x]]
Visible(wrote) == [k \in Keys |-> IF k \in DOMAIN wrote THEN wrote[k] ELSE job[k]]

\* SELECT ... WHERE dedup_key of the next job of an answer
Select(r) ==
    /\ r \in Requests /\ At(r, "merging")
    /\ \E j \in task[r].left :
        Step(r, [task[r] EXCEPT !.pc = "writing", !.at = j, !.left = @ \ {j},
                                !.read = job[Particulars(j)]])
    /\ UNCHANGED <<job, page, text, artifact>>

\* The INSERT or UPDATE of it, of what was read; a row that has been inserted meanwhile is
\* an error that nothing catches.
Write(r) ==
    /\ At(r, "writing") /\ Free(r, Particulars(task[r].at))
    /\ LET k == Particulars(task[r].at) IN
       IF task[r].read = None /\ job[k] # None
       THEN Step(r, [pc |-> "error"])
       ELSE Step(r, [task[r] EXCEPT !.pc = "merging",
                        !.wrote = Put(@, k, Upsert(task[r].read, Listed))])
    /\ UNCHANGED <<job, page, text, artifact>>

Repeated(found) == {j \in Verbatim : Address(j) \in found}

\* What the answer shows: the rows found in the table and those of other addresses.
Shown(r) ==
    task[r].found
      \cup {Particulars(j) : j \in task[r].listed \ (Blocked \cup Repeated(task[r].found))}

Ready(r, kind) == At(r, "merging") /\ task[r].left = {} /\ task[r].kind = kind
Done(r) == [of |-> task[r].of] @@ Answer(Shown(r), FALSE, TRUE)

\* The search is charged, and everything is committed or nothing: a free user has no searches.
Finish(r, within) ==
    /\ r \in Requests /\ Ready(r, "search")
    /\ IF task[r].paid /\ within
       THEN job' = Visible(task[r].wrote) /\ Step(r, Done(r))
       ELSE Step(r, Refused(task[r].paid)) /\ UNCHANGED job
    /\ UNCHANGED <<page, text, artifact>>

FinishMatch(r, within) ==
    /\ r \in Requests /\ Ready(r, "match")
    /\ IF within
       THEN /\ job' = Visible(task[r].wrote) /\ artifact' = task[r].of
            /\ Step(r, Done(r))
       ELSE Step(r, Refused(TRUE)) /\ UNCHANGED <<job, artifact>>
    /\ UNCHANGED <<page, text>>

\* A message is received: its jobs are written in one transaction.
Receive(m, listed) ==
    /\ m \in Messages /\ At(m, "idle") /\ listed # {}
    /\ Step(m, [pc |-> "merging", left |-> listed, at |-> None, wrote |-> << >>])
    /\ UNCHANGED <<job, page, text, artifact>>

\* INSERT ... ON CONFLICT DO UPDATE, which sees what is committed when it writes.
Load(m) ==
    /\ m \in Messages /\ At(m, "merging")
    /\ \E j \in task[m].left :
        LET k == Particulars(j) IN
        /\ Free(m, k)
        /\ Step(m, [task[m] EXCEPT !.left = @ \ {j},
                        !.wrote = Put(@, k, Upsert(job[k], Scraped))])
    /\ UNCHANGED <<job, page, text, artifact>>

Loaded(m) ==
    /\ m \in Messages /\ At(m, "merging") /\ task[m].left = {}
    /\ job' = Visible(task[m].wrote)
    /\ Step(m, [pc |-> "done"])
    /\ UNCHANGED <<page, text, artifact>>

\* An error rolls back and the message is delivered again.
Redelivered(m) ==
    /\ m \in Messages /\ At(m, "merging")
    /\ Step(m, Idle)
    /\ UNCHANGED <<job, page, text, artifact>>

\* The row a task waits for
Wanted(t) ==
    CASE At(t, "writing") -> {Particulars(task[t].at)}
      [] t \in Messages /\ At(t, "merging") -> {Particulars(j) : j \in task[t].left}
      [] OTHER -> {}

\* Each of two tasks waits for a row of the other: the database aborts one.
DeadlockVictim(r) ==
    /\ At(r, "writing")
    /\ \E t \in Tasks \ {r} :
        /\ Wanted(r) \subseteq Held(t)
        /\ Wanted(t) # {} /\ Wanted(t) \subseteq Held(r)
    /\ Step(r, [pc |-> "error"])
    /\ UNCHANGED <<job, page, text, artifact>>

(***************************************************************************)
(* Polls of the careers page, feeds and time                               *)
(***************************************************************************)
OnPage == Jobs \ Blocked

\* A row of a job that was seen again is active again and belongs to who saw it.
Seen(stored, sources, tag) ==
    [src |-> sources \cup (IF stored = None THEN {} ELSE stored.src),
     fresh |-> TRUE, active |-> TRUE, tag |-> tag]

SeenOnPage(stored) == Seen(stored, {"corpus"}, "ats")
SeenByFeed(stored) == Seen(stored, {"corpus", "feed"}, "feed")

\* Rows of the company's own system whose job is not on the page any more
Stale(found) ==
    {k \in Stored : job[k].active /\ job[k].tag = "ats" /\ k[2] \in OnPage \ found}

\* The jobs of a careers page are written, and those that are gone are closed.
Poll(found) ==
    /\ "poll" \in Ops /\ found \subseteq OnPage
    /\ job' = [k \in Keys |->
                 IF k \in {Address(j) : j \in found} THEN SeenOnPage(job[k])
                 ELSE IF k \in Stale(found) THEN [job[k] EXCEPT !.active = FALSE]
                 ELSE job[k]]
    /\ page' = found
    /\ UNCHANGED <<text, artifact, task>>

\* A feed closes nothing.
Feed(found) ==
    /\ "feed" \in Ops
    /\ job' = [k \in Keys |-> IF k \in {Address(j) : j \in found}
                              THEN SeenByFeed(job[k]) ELSE job[k]]
    /\ UNCHANGED <<page, text, artifact, task>>

Expire(k) ==
    /\ "expire" \in Ops /\ k \in Stored /\ job[k].fresh
    /\ job' = [job EXCEPT ![k].fresh = FALSE]
    /\ UNCHANGED <<page, text, artifact, task>>

\* Another resume is uploaded: its text changes, the artifact stays.
NewResume ==
    /\ "resume" \in Ops /\ text < MaxTexts
    /\ text' = text + 1
    /\ UNCHANGED <<job, page, artifact, task>>

Next ==
    \/ \E r \in Requests :
        \/ \E paid, expand, open \in BOOLEAN : Search(r, paid, expand, open)
        \/ \E open \in BOOLEAN : Match(r, open)
        \/ EmbedFails(r) \/ CallFails(r)
        \/ \E listed \in SUBSET Jobs : CallReturns(r, listed)
        \/ Select(r) \/ Write(r) \/ DeadlockVictim(r)
        \/ \E within \in BOOLEAN : Finish(r, within) \/ FinishMatch(r, within)
    \/ \E m \in Messages :
        \/ \E listed \in SUBSET Jobs : Receive(m, listed)
        \/ Load(m) \/ Loaded(m) \/ Redelivered(m)
    \/ \E found \in SUBSET Jobs : Poll(found) \/ Feed(found)
    \/ \E k \in Keys : Expire(k)
    \/ NewResume

Spec == Init /\ [][Next]_vars

(***************************************************************************)
(* What holds                                                              *)
(***************************************************************************)
TypeOK ==
    /\ job \in [Keys -> Row \cup {None}]
    /\ page \subseteq OnPage
    /\ text \in 1 .. MaxTexts /\ artifact \in 0 .. text
    /\ \A t \in Tasks : task[t].pc \in {"idle", "calling", "merging", "writing", "done",
                                        "refused", "error"}

\* A job that the last poll found on the careers page is found by every search, whatever
\* searches, batches and feeds wrote about it and however old its row is
\* (corpus_sync.py 137-178, job_service.py 191-196).
PageIsFound == \A j \in page : Address(j) \in Active

\* A job that is gone from the page is not found under its address, unless a feed lists it:
\* a row that was closed stays closed when the provider lists the job
\* (corpus_sync.py 181-217, cache_writer.py 110-133).
GoneIsHidden == \A j \in OnPage \ page : Address(j) \notin Active

\* What an answer shows is in the table, so that it can be opened, kept and measured, and
\* nothing of a blocked company is shown (jobs.py 301-314, filtering.py 12-26).
ShownIsStored ==
    \A r \in Requests : At(r, "done") =>
        task[r].shown \subseteq Stored /\ \A k \in task[r].shown : k[2] \notin Blocked

(***************************************************************************)
(* What the code does not promise                                          *)
(***************************************************************************)
\* No writer takes a source away that another has put on record (cache_writer.py 23-27,
\* job_cache_writer 118-124).
SourcesKept == [][\A k \in Stored : job[k].src \subseteq job'[k].src]_vars

\* An answer shows a job once.
ShownOnce ==
    \A r \in Requests : At(r, "done") =>
        \A k, l \in task[r].shown : k[2] = l[2] => k = l

\* A search that was admitted is not refused for want of a subscription
\* (jobs.py 132: "free users with confirmed titles get corpus search").
AdmittedIsServed == \A r \in Requests : At(r, "refused") => task[r].paid

\* A job that is known to be closed is not shown.
ClosedNotShown ==
    [][\A r \in Requests : ~At(r, "done") /\ At(r, "done")' =>
        \A k \in task'[r].shown \cap Stored : job[k].active]_vars

\* A request does not fail because another one stored the same job.
NoneFails == \A r \in Requests : ~At(r, "error")

\* A match is about the resume as it is.
MatchIsCurrent ==
    [][\A r \in Requests :
        (~At(r, "done") /\ At(r, "done")' /\ task'[r].live /\ task[r].kind = "match") =>
            task[r].of = text]_vars
=============================================================================
