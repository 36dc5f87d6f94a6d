------------------------------ MODULE PhaseRun ------------------------------
(***************************************************************************)
(* One tailoring session: the JSON document kept in Redis, the requests    *)
(* that rewrite it, the phase runs they start, the per-phase locks and the *)
(* snapshot of the session kept with its dashboard record in Postgres.     *)
(*                                                                         *)
(* Every update reads the whole document, changes some fields of the copy  *)
(* and writes the whole copy back: two steps, between which others run.    *)
(* Billing is reduced to its verdict; what a charge does to the ledger is  *)
(* the subject of CreditLedger.                                            *)
(***************************************************************************)
EXTENDS Integers, FiniteSets

CONSTANTS
    Workers,    \* requests and background tasks served at once
    Nil,        \* nothing
    Orphan,     \* what holds a lock whose run died
    Phases,     \* the phases clients run, a subset of 1..4
    Requests,   \* the other kinds of requests clients send
    Anonymous,  \* the session belongs to no account: no billing and no record
    Overlap,    \* updates and requests of different workers may overlap
    SlowRuns,   \* a run may outlast PHASE_LOCK_TTL_SECONDS
    Patient,    \* clients send nothing new while a phase is running
    Revs,       \* bound: the tailored resumes told apart
    MaxCrashes, \* bound: tasks lost
    MaxOwed     \* bound: runs counted as asked for and not yet started

ASSUME PhaseAssumption ==
    /\ Phases \subseteq 1..4
    /\ Requests \subseteq {"force", "view", "touch", "patch", "overwrite", "commit", "audit", "jd"}
    /\ Anonymous \in BOOLEAN
    /\ Overlap \in BOOLEAN
    /\ SlowRuns \in BOOLEAN
    /\ Patient \in BOOLEAN
    /\ Revs \subseteq Nat \ {0} /\ 1 \in Revs
    /\ MaxCrashes \in Nat
    /\ MaxOwed \in Nat
    /\ Nil \notin Workers /\ Orphan \notin Workers /\ Nil # Orphan

VARIABLES
    session,  \* the document
    snapshot, \* the outputs in the record's session_cache, or Nil
    lock,     \* who holds each phase's lock
    work,     \* what each worker does
    owed,     \* history: runs of each phase asked for and not yet started
    crashes   \* how many tasks were lost

vars == <<session, snapshot, lock, work, owed, crashes>>

All == 1..4
Jds == {0, 1}

\* An output: the job description it was made for, and for phase 3 the identity
\* of the tailored resume and who wrote it, for phase 4 the resume it scored.
Output == [jd : Jds, rev : Revs \cup {0}, by : {"run", "user"}]
Outputs == [All -> Output \cup {Nil}]
Statuses == {"pending", "running", "done", "error"}
Session == [status : [All -> Statuses], out : Outputs, stale4 : BOOLEAN,
            requested : All \cup {0}, jd : Jds]

RunStages == {"lock", "begin", "mark", "intel", "llm", "save", "downstream",
              "sync", "clear", "fail", "release"}
HandlerStages == {"open", "decide", "reset", "unlock", "reread", "bill", "ask",
                  "accept", "patch", "overwrite", "commit", "audit", "jd", "touch"}
Work == [stage : RunStages \cup HandlerStages \cup {"idle", "persist"},
         phase : All \cup {0},
         then : {"idle", "decide", "bill", "ask", "wipe"},
         force : BOOLEAN,
         waived : BOOLEAN,
         copy : Session \cup {Nil},
         input : Session \cup {Nil},
         output : Output \cup {Nil}]

Nobody == [stage |-> "idle", phase |-> 0, then |-> "idle", force |-> FALSE,
           waived |-> FALSE, copy |-> Nil, input |-> Nil, output |-> Nil]

ASSUME NilAssumption == Nil \notin Session /\ Nil \notin Output /\ Nil \notin Outputs

\* The document, its snapshot, the locks and what each worker carries have their types.
TypeOK ==
    /\ session \in Session
    /\ snapshot \in Outputs \cup {Nil}
    /\ lock \in [All -> Workers \cup {Nil, Orphan}]
    /\ work \in [Workers -> Work]
    /\ owed \in [All -> 0..MaxOwed]
    /\ crashes \in 0..MaxCrashes

\* The session has been carried through phase k, for k in 2..4.
Made(k) == [p \in All |-> IF p > k THEN Nil
                          ELSE [jd |-> 0, rev |-> IF p < 3 THEN 0 ELSE 1, by |-> "run"]]

Init ==
    /\ \E k \in 2..4 :
         /\ session = [status |-> [p \in All |-> IF p <= k THEN "done" ELSE "pending"],
                       out |-> Made(k), stale4 |-> FALSE, requested |-> 0, jd |-> 0]
         /\ snapshot = IF k > 2 /\ ~Anonymous THEN Made(k) ELSE Nil
    /\ lock = [p \in All |-> Nil]
    /\ work = [w \in Workers |-> Nobody]
    /\ owed = [p \in All |-> 0]
    /\ crashes = 0

(***************************************************************************)
(* Steps of a worker                                                       *)
(***************************************************************************)
\* A worker in the middle of a request or of an update of the document.
Engaged(w) ==
    \/ work[w].stage \in HandlerStages
    \/ work[w].copy # Nil /\ work[w].stage # "persist"

\* Without Overlap the others wait.
Clear(w) == Overlap \/ \A v \in Workers \ {w} : ~Engaged(v)

At(w, stage) == work[w].stage = stage /\ Clear(w)
Copy(w) == work[w].copy
PhaseOf(w) == work[w].phase

\* Edits that end by synchronising the record have no phase.
InRun(w) == work[w].stage \in RunStages /\ PhaseOf(w) # 0

\* A worker that may take a request.
Free(w) == At(w, "idle") /\ (Patient => \A v \in Workers : ~InRun(v))
Goto(w, stage) == work' = [work EXCEPT ![w].stage = stage, ![w].copy = Nil]
Finish(w) == work' = [work EXCEPT ![w] = Nobody]

\* update_session: the whole copy is written.
Store(s) == session' = s

\* get_session at the head of an update in the middle of a request or a run.
Rereading == {"reset", "mark", "save", "downstream", "sync", "clear", "fail"}

Read(w) ==
    /\ work[w].stage \in Rereading /\ Copy(w) = Nil
    /\ Clear(w)
    /\ work' = [work EXCEPT ![w].copy = session]
    /\ UNCHANGED <<session, snapshot, lock, owed, crashes>>

Holds(w, stage) == At(w, stage) /\ Copy(w) # Nil

(***************************************************************************)
(* load_session_for_request: the document is completed from the snapshot   *)
(* when an output is missing, and always written back                      *)
(***************************************************************************)
BackfillStatus(s, p) ==
    IF p = 3 \/ (s.status[p] = "pending" /\ snapshot[p] # Nil)
    THEN "done" ELSE s.status[p]

BackfillOutput(s, p) ==
    IF p = 3 \/ s.out[p] = Nil THEN snapshot[p] ELSE s.out[p]

Missing(s) == \E p \in All : s.out[p] = Nil

Backfilled(s) ==
    IF Missing(s) /\ snapshot # Nil
    THEN [s EXCEPT !.status = [p \in All |-> BackfillStatus(s, p)],
                   !.out = [p \in All |-> BackfillOutput(s, p)]]
    ELSE s

Open(w, p, force, then) ==
    /\ Free(w)
    /\ work' = [work EXCEPT ![w] = [Nobody EXCEPT !.stage = "open", !.phase = p,
                                    !.force = force, !.then = then, !.copy = session]]
    /\ UNCHANGED <<session, snapshot, lock, owed, crashes>>

Trigger(w, p, force) == Open(w, p, force, "decide")

View(w) == "view" \in Requests /\ Open(w, 0, FALSE, "idle")

Opened(w) ==
    /\ Holds(w, "open")
    /\ LET s == Backfilled(Copy(w)) IN
         /\ Store(s)
         /\ IF work[w].then = "idle" THEN Finish(w)
            ELSE work' = [work EXCEPT ![w].stage = "decide", ![w].copy = s]
    /\ UNCHANGED <<snapshot, lock, owed, crashes>>

(***************************************************************************)
(* POST phases/{phase}/run                                                 *)
(***************************************************************************)
Ordered(s, p) == p > 1 => s.status[p - 1] = "done"

DeadNever(s, p) == FALSE
DeadIfRunning(s, p) == s.status[p] = "running"

\* Marked running without a lock: what a dead run leaves.
Dead(s, p) == s.status[p] = "running" /\ lock[p] = Nil

\* A phase 4 run is free when the score is marked stale.
Waives(s, p) == p = 4 /\ s.stale4

\* 422 when the phase before is not done, 409 when this one is running; what a dead
\* run left is reset.  The waiver is decided on the document as it was loaded.
Decide(w) ==
    /\ At(w, "decide")
    /\ LET s == Copy(w)
           p == PhaseOf(w)
       IN IF ~Ordered(s, p) \/ (s.status[p] = "running" /\ ~Dead(s, p))
          THEN Finish(w)
          ELSE IF Dead(s, p)
               THEN work' = [work EXCEPT ![w].stage = "reset", ![w].then = "bill",
                                         ![w].waived = Waives(s, p), ![w].copy = Nil]
               ELSE work' = [work EXCEPT ![w].stage = "bill", ![w].waived = Waives(s, p)]
    /\ UNCHANGED <<session, snapshot, lock, owed, crashes>>

\* reset_phase: the output and the status go, then the lock, whoever holds it.
Reset(w) ==
    /\ Holds(w, "reset")
    /\ Store([Copy(w) EXCEPT !.out[PhaseOf(w)] = Nil, !.status[PhaseOf(w)] = "pending"])
    /\ Goto(w, "unlock")
    /\ UNCHANGED <<snapshot, lock, owed, crashes>>

WipedButScore(p) == p = 3
WipedPastLast(p) == p = 5

\* The last phase a changed job description wipes.
Wiped(p) == p = 4

Unlock(w) ==
    /\ At(w, "unlock")
    /\ lock' = [lock EXCEPT ![PhaseOf(w)] = Nil]
    /\ CASE work[w].then # "wipe" -> Goto(w, "reread")
         [] work[w].then = "wipe" /\ Wiped(PhaseOf(w)) -> Finish(w)
         [] OTHER -> work' = [work EXCEPT ![w].stage = "reset", ![w].phase = PhaseOf(w) + 1]
    /\ UNCHANGED <<session, snapshot, owed, crashes>>

Reread(w) ==
    /\ At(w, "reread")
    /\ work' = [work EXCEPT ![w].stage = work[w].then, ![w].copy = session]
    /\ UNCHANGED <<session, snapshot, lock, owed, crashes>>

\* Phases 1 and 2 are always free.
Billed(w) == PhaseOf(w) \in {3, 4} /\ ~work[w].waived /\ ~Anonymous

Bill(w) ==
    /\ At(w, "bill")
    /\ IF work[w].force
       THEN work' = [work EXCEPT ![w].stage = "reset", ![w].then = "ask", ![w].copy = Nil]
       ELSE work' = [work EXCEPT ![w].stage = "ask"]
    /\ UNCHANGED <<session, snapshot, lock, owed, crashes>>

Refuse(w) ==
    /\ At(w, "bill")
    /\ Billed(w)
    /\ Finish(w)
    /\ UNCHANGED <<session, snapshot, lock, owed, crashes>>

Ask(w) ==
    /\ At(w, "ask")
    /\ Store([Copy(w) EXCEPT !.requested = PhaseOf(w)])
    /\ owed' = [owed EXCEPT ![PhaseOf(w)] = IF @ < MaxOwed THEN @ + 1 ELSE @]
    /\ Finish(w)
    /\ UNCHANGED <<snapshot, lock, crashes>>

(***************************************************************************)
(* GET phases/{phase}/events accepts the request and runs the phase        *)
(***************************************************************************)
Events(w, p) ==
    /\ At(w, "idle")
    /\ session.requested = p
    /\ work' = [work EXCEPT ![w] = [Nobody EXCEPT !.stage = "accept", !.phase = p,
                                                   !.copy = session]]
    /\ UNCHANGED <<session, snapshot, lock, owed, crashes>>

KeptRequest(s) == s

\* A request for events uses up the request for a run.
Consumed(s) == [s EXCEPT !.requested = 0]

Accept(w) ==
    /\ At(w, "accept")
    /\ Store(Consumed(Copy(w)))
    /\ Goto(w, "lock")
    /\ UNCHANGED <<snapshot, lock, owed, crashes>>

\* SET NX EX: a run that does not get the lock ends.
Lock(w) ==
    /\ At(w, "lock")
    /\ IF lock[PhaseOf(w)] = Nil
       THEN /\ lock' = [lock EXCEPT ![PhaseOf(w)] = w]
            /\ owed' = [owed EXCEPT ![PhaseOf(w)] = IF @ > 0 THEN @ - 1 ELSE @]
            /\ Goto(w, "begin")
       ELSE Finish(w) /\ UNCHANGED <<lock, owed>>
    /\ UNCHANGED <<session, snapshot, crashes>>

\* The copy of the document the phase will work from.
Begin(w) ==
    /\ At(w, "begin")
    /\ work' = [work EXCEPT ![w].stage = "mark", ![w].input = session]
    /\ UNCHANGED <<session, snapshot, lock, owed, crashes>>

MarkRunning(w) ==
    /\ Holds(w, "mark")
    /\ Store([Copy(w) EXCEPT !.status[PhaseOf(w)] = "running"])
    /\ Goto(w, IF PhaseOf(w) = 3 THEN "intel" ELSE "llm")
    /\ UNCHANGED <<snapshot, lock, owed, crashes>>

\* ensure_session_company_intel: phase 3 may write its input back.
Intel(w) ==
    /\ At(w, "intel")
    /\ session' \in {session, work[w].input}
    /\ Goto(w, "llm")
    /\ UNCHANGED <<snapshot, lock, owed, crashes>>

Needed(p) == CASE p = 1 -> {} [] p = 2 -> {1} [] p = 3 -> {1, 2} [] p = 4 -> {3}

RevOf(o) == IF o = Nil THEN {} ELSE {o.rev}
RevsIn(outs) == IF outs = Nil THEN {} ELSE UNION {RevOf(outs[p]) : p \in All}
RevsOf(s) == IF s = Nil THEN {} ELSE RevsIn(s.out)
UsedRevs ==
    RevsOf(session) \cup RevsIn(snapshot) \cup
    UNION {RevsOf(work[w].copy) \cup RevsOf(work[w].input) \cup RevOf(work[w].output) : w \in Workers}

\* A resume unlike any other in the system.
Fresh == {r \in Revs \ UsedRevs : \A q \in Revs \ UsedRevs : r <= q}

Generate(w) ==
    /\ At(w, "llm")
    /\ \A q \in Needed(PhaseOf(w)) : work[w].input.out[q] # Nil
    /\ \E r \in CASE PhaseOf(w) = 3 -> Fresh
                  [] PhaseOf(w) = 4 -> {work[w].input.out[3].rev}
                  [] OTHER -> {0} :
         work' = [work EXCEPT ![w].stage = "save", ![w].input = Nil,
                    ![w].output = [jd |-> work[w].input.jd, rev |-> r, by |-> "run"]]
    /\ UNCHANGED <<session, snapshot, lock, owed, crashes>>

\* A failure of any kind before the output exists.
Fail(w) ==
    /\ At(w, "intel") \/ At(w, "llm")
    /\ work' = [work EXCEPT ![w].stage = "fail", ![w].input = Nil]
    /\ UNCHANGED <<session, snapshot, lock, owed, crashes>>

MarkFailed(w) ==
    /\ Holds(w, "fail")
    /\ \E s \in {"error", "pending"} : Store([Copy(w) EXCEPT !.status[PhaseOf(w)] = s])
    /\ Goto(w, "release")
    /\ UNCHANGED <<snapshot, lock, owed, crashes>>

AfterSave(p) == CASE p = 1 -> "clear" [] p = 2 -> "downstream" [] OTHER -> "sync"

SaveOutput(w) ==
    /\ Holds(w, "save")
    /\ Store([Copy(w) EXCEPT !.out[PhaseOf(w)] = work[w].output, !.status[PhaseOf(w)] = "done"])
    /\ work' = [work EXCEPT ![w].stage = AfterSave(PhaseOf(w)), ![w].copy = Nil,
                            ![w].output = Nil]
    /\ UNCHANGED <<snapshot, lock, owed, crashes>>

\* A completed audit marks the scores made before it.
MarkDownstream(w) ==
    /\ Holds(w, "downstream")
    /\ Store([Copy(w) EXCEPT !.stale4 = Copy(w).stale4 \/ Copy(w).out[4] # Nil])
    /\ Goto(w, "clear")
    /\ UNCHANGED <<snapshot, lock, owed, crashes>>

\* sync_session_cache_for_session: only a document with a resume is kept.
Snapshotted(s) == IF Anonymous \/ s.out[3] = Nil THEN snapshot ELSE s.out

\* In a run a failure to synchronise is only logged.
Sync(w) ==
    /\ Holds(w, "sync")
    /\ \/ snapshot' = Snapshotted(Copy(w))
       \/ PhaseOf(w) \in {3, 4} /\ UNCHANGED snapshot
    /\ IF PhaseOf(w) = 0 THEN Finish(w) ELSE Goto(w, "clear")
    /\ UNCHANGED <<session, lock, owed, crashes>>

ClearStale(w) ==
    /\ Holds(w, "clear")
    /\ Store([Copy(w) EXCEPT !.stale4 = Copy(w).stale4 /\ PhaseOf(w) < 3])
    /\ Goto(w, "release")
    /\ UNCHANGED <<snapshot, lock, owed, crashes>>

\* The finally clause deletes the lock, whoever holds it by now.
Release(w) ==
    /\ At(w, "release")
    /\ lock' = [lock EXCEPT ![PhaseOf(w)] = Nil]
    /\ Finish(w)
    /\ UNCHANGED <<session, snapshot, owed, crashes>>

(***************************************************************************)
(* Edits, a new job description, background writers                        *)
(***************************************************************************)
Load(w, kind) ==
    /\ kind \in Requests
    /\ Free(w)
    /\ work' = [work EXCEPT ![w] = [Nobody EXCEPT !.stage = kind, !.copy = session]]
    /\ UNCHANGED <<session, snapshot, lock, owed, crashes>>

Edited(r) == [jd |-> session.jd, rev |-> r, by |-> "user"]

Write(w, s, stage) ==
    /\ Store(s)
    /\ IF stage = "idle" THEN Finish(w)
       ELSE work' = [work EXCEPT ![w].stage = stage, ![w].copy = s]
    /\ UNCHANGED <<snapshot, lock, owed, crashes>>

\* PATCH resume/tailored: an edit that touches nothing is written and marked like any other.
Patched(s, o) == [s EXCEPT !.out[3] = o, !.stale4 = TRUE]

Patch(w) ==
    /\ At(w, "patch")
    /\ Copy(w).out[3] # Nil
    /\ \E o \in {Copy(w).out[3]} \cup {Edited(r) : r \in Fresh} :
         Write(w, Patched(Copy(w), o), "sync")

OverwrittenUnmarked(s, o) == [s EXCEPT !.out[3] = o]
\* PATCH tailored: marked only when there is a score and the resume differs.
Overwritten(s, o) ==
    [s EXCEPT !.out[3] = o,
              !.stale4 = s.stale4 \/ (s.out[4] # Nil /\ s.out[3] # o)]

Overwrite(w) ==
    /\ At(w, "overwrite")
    /\ \E o \in ({Copy(w).out[3]} \ {Nil}) \cup {Edited(r) : r \in Fresh} :
         Write(w, Overwritten(Copy(w), o), "sync")

\* POST tailored/commit marks nothing and leaves the record to a background task.
Commit(w) ==
    /\ At(w, "commit")
    /\ \E o \in ({Copy(w).out[3]} \ {Nil}) \cup {Edited(r) : r \in Fresh} :
         Write(w, [Copy(w) EXCEPT !.out[3] = o], IF Anonymous THEN "idle" ELSE "persist")

\* That task synchronises the copy the request wrote; its failure is only logged.
Persist(w) ==
    /\ At(w, "persist")
    /\ snapshot' \in {snapshot, Snapshotted(Copy(w))}
    /\ Finish(w)
    /\ UNCHANGED <<session, lock, owed, crashes>>

\* PATCH audit: the audit is edited and what follows it is marked.
Audit(w) ==
    /\ At(w, "audit")
    /\ Copy(w).out[2] # Nil
    /\ Write(w, [Copy(w) EXCEPT !.stale4 = TRUE], "idle")

\* An edit of an output that does not exist is a 422.
Reject(w) ==
    /\ \/ At(w, "patch") /\ Copy(w).out[3] = Nil
       \/ At(w, "audit") /\ Copy(w).out[2] = Nil
    /\ Finish(w)
    /\ UNCHANGED <<session, snapshot, lock, owed, crashes>>

\* Writers of fields that are not modelled: cover letter, company intel, metrics.
Touch(w) ==
    /\ At(w, "touch")
    /\ Write(w, Copy(w), "idle")

\* POST jd with another text wipes the four phases, one reset_phase after the other.
ChangeJd(w) ==
    /\ At(w, "jd")
    /\ \E j \in Jds \ {Copy(w).jd} : Store([Copy(w) EXCEPT !.jd = j, !.stale4 = FALSE])
    /\ work' = [work EXCEPT ![w].stage = "reset", ![w].phase = 1, ![w].then = "wipe",
                            ![w].copy = Nil]
    /\ UNCHANGED <<snapshot, lock, owed, crashes>>

(***************************************************************************)
(* Lost tasks and the lock's time to live                                  *)
(***************************************************************************)
Crash(w) ==
    /\ work[w].stage # "idle"
    /\ crashes < MaxCrashes
    /\ crashes' = crashes + 1
    /\ lock' = [p \in All |-> IF lock[p] = w THEN Orphan ELSE lock[p]]
    /\ Finish(w)
    /\ UNCHANGED <<session, snapshot, owed>>

Expire(p) ==
    /\ lock[p] # Nil
    /\ lock[p] = Orphan \/ SlowRuns
    /\ lock' = [lock EXCEPT ![p] = Nil]
    /\ UNCHANGED <<session, snapshot, work, owed, crashes>>

HandlerStep(w) ==
    \/ Opened(w) \/ Decide(w) \/ Reset(w) \/ Unlock(w) \/ Reread(w)
    \/ Bill(w) \/ Refuse(w) \/ Ask(w) \/ Accept(w)

EditStep(w) ==
    \/ Patch(w) \/ Overwrite(w) \/ Commit(w) \/ Persist(w) \/ Audit(w) \/ Reject(w)
    \/ Touch(w) \/ ChangeJd(w)

RunStep(w) ==
    \/ Lock(w) \/ Begin(w) \/ MarkRunning(w) \/ Intel(w) \/ Generate(w) \/ Fail(w)
    \/ MarkFailed(w) \/ SaveOutput(w) \/ MarkDownstream(w) \/ Sync(w) \/ ClearStale(w)
    \/ Release(w)

Step(w) == Read(w) \/ HandlerStep(w) \/ EditStep(w) \/ RunStep(w)

Arrive(w) ==
    \/ \E p \in Phases : Trigger(w, p, FALSE) \/ Events(w, p)
    \/ "force" \in Requests /\ \E p \in Phases : Trigger(w, p, TRUE)
    \/ View(w)
    \/ \E kind \in {"patch", "overwrite", "commit", "audit", "jd", "touch"} : Load(w, kind)

Next ==
    \/ \E w \in Workers : Arrive(w) \/ Step(w) \/ Crash(w)
    \/ \E p \in All : Expire(p)

Spec == Init /\ [][Next]_vars

\* Tasks go on, locks expire, and clients trigger a phase and open its events
\* again and again.
Fairness ==
    /\ \A w \in Workers : WF_vars(Step(w))
    /\ \A p \in All : WF_vars(Expire(p))
    /\ \A p \in Phases :
         /\ SF_vars(\E w \in Workers : Trigger(w, p, FALSE))
         /\ SF_vars(\E w \in Workers : Events(w, p))

FairSpec == Spec /\ Fairness

(***************************************************************************)
(* Properties                                                              *)
(***************************************************************************)
\* A run past acquire_phase_lock.
Holder(w) == InRun(w) /\ work[w].stage # "lock"

\* At most one run of a phase is between acquire_phase_lock and its release.
Exclusive ==
    \A v, w \in Workers : Holder(v) /\ Holder(w) /\ PhaseOf(v) = PhaseOf(w) => v = w

\* Every run that gets as far as the lock was asked for at the run endpoint, which
\* checks the order of the phases and bills: no request is run twice.
StartedIfOwed ==
    \A w \in Workers :
        work[w].stage = "lock" /\ work'[w].stage = "begin" => owed[PhaseOf(w)] > 0
Authorised == [][StartedIfOwed]_vars

\* The score, if there is one, is not of the resume.
Changed(s) == s.out[4] = Nil \/ s.out[3] = Nil \/ s.out[3].rev # s.out[4].rev

\* A score is recomputed for free only if the resume changed since it was made
\* (phase4_scoring_waive in trigger_phase).
WaiverEarned ==
    \A w \in Workers : work[w].stage = "bill" /\ work[w].waived => Changed(Copy(w))

\* No request or task is under way.
Quiet == \A w \in Workers : work[w].stage = "idle"

\* A resume edited after its score was made leaves the score marked stale
\* (phase4_stale_since).
EditsMarked ==
    Quiet /\ session.out[3] # Nil /\ session.out[4] # Nil =>
        \/ session.out[3].by = "run"
        \/ session.out[3].rev = session.out[4].rev
        \/ session.stale4

\* After a change of the job description no output of the old one is shown.
OutputsMatchJd ==
    Quiet => \A p \in All : session.out[p] # Nil => session.out[p].jd = session.jd

\* No phase is shown as running for ever.
RunningEnds ==
    \A p \in Phases : session.status[p] = "running" ~> session.status[p] # "running"

(***************************************************************************)
(* Claims the code does not keep                                           *)
(***************************************************************************)
\* Completing a session from its snapshot replaces no resume the session has
\* (session_cache.py:391); refuted by TLC (README, section 5), as Exclusive is
\* with forced runs, Authorised with overlapping requests, WaiverEarned and EditsMarked
\* with patches, and OutputsMatchJd for an account with a snapshot.
FresherKept ==
    [][\A w \in Workers :
         work[w].stage = "open" /\ work'[w].stage # "open" /\ session' # session
         /\ session.out[3] # Nil => session'.out[3] = session.out[3]]_vars
=============================================================================
