---------------------------- MODULE ResumeRecords ----------------------------
(***************************************************************************)
(* The dashboard's rows of one user (resume_records) beside the tailoring  *)
(* sessions they are made from.  Every wizard step ends with a transaction *)
(* of its own that finds the session's row, else the row of the same job   *)
(* description, else inserts one, and whose failure is logged and no more. *)
(* A transaction is two steps, what it reads and what it commits; a row    *)
(* that was read is written back in the columns that changed.  A partial   *)
(* UNIQUE index keeps one live row per job description.  How requests      *)
(* interleave in one session is the subject of PhaseRun.                   *)
(***************************************************************************)
EXTENDS Integers, Sequences, FiniteSets, SequencesExt

CONSTANTS
    Sessions,   \* tailoring sessions of the user
    Jds,        \* job descriptions told apart
    Requests,   \* requests served at once
    Ops,        \* which of them clients send
    MaxRows,    \* bound: rows ever inserted
    MaxScores,  \* bound: scores ever measured
    Overlap,    \* whether requests run at the same time
    None

RecordsAssumption ==
    /\ MaxRows \in Nat \ {0} /\ MaxScores \in Nat /\ Overlap \in BOOLEAN
    /\ Ops \subseteq {"upload", "jd", "tailor", "score", "view", "expire", "delete",
                      "duplicate", "link"}
    /\ None \notin Sessions \cup Jds /\ Sessions \cap Jds = {}

Rows == 1 .. MaxRows
NoRow == 0
NoDraft == [by |-> None, jd |-> None]
Drafts == [by : Sessions \cup {"master"}, jd : Jds] \cup {NoDraft}

VARIABLES
    doc,        \* the sessions in Redis
    row,        \* the committed rows
    history,    \* ats_score_history of each row: the score, and whether it is its first
    measured,   \* the session each score was measured in
    linked,     \* the saved job description linked to a session
    req         \* what each request is doing

vars == <<doc, row, history, measured, linked, req>>

NoDoc == [state |-> "unused", jd |-> None, resume |-> FALSE, draft |-> NoDraft, score |-> 0]
NoCache == [draft |-> NoDraft, jd |-> None, score |-> 0]
NewRow(s, hash) == [state |-> "live", session |-> s, hash |-> hash, first |-> 0, now |-> 0,
                    stage |-> "in_progress", cache |-> NoCache]
NoReq == [pc |-> "idle", op |-> None, s |-> None, doc |-> NoDoc, found |-> NoRow,
          read |-> [NewRow(None, None) EXCEPT !.state = "unused"]]

Live == {r \in Rows : row[r].state = "live"}
Of(s) == {r \in Live : row[r].session = s}
For(hash) == {r \in Live : row[r].hash = hash}

\* A row from before session_cache existed may be there already.
Init ==
    /\ doc = [s \in Sessions |-> NoDoc]
    /\ row \in {[r \in Rows |-> NoReq.read],
                [r \in Rows |-> IF r = 1 /\ "link" \in Ops
                   THEN [NewRow(CHOOSE s \in Sessions : TRUE, CHOOSE j \in Jds : TRUE)
                           EXCEPT !.stage = "polished"]
                   ELSE NoReq.read]}
    /\ history = [r \in Rows |-> <<>>]
    /\ measured = <<>>
    /\ linked = [s \in Sessions |-> None]
    /\ req = [q \in Requests |-> NoReq]

-----------------------------------------------------------------------------
(***************************************************************************)
(* Wizard steps: the session's document first                              *)
(***************************************************************************)
MayBegin(q, op) ==
    /\ op \in Ops /\ req[q] = NoReq
    /\ Overlap \/ \A o \in Requests : req[o] = NoReq

Goto(q, op, s, d, pc) ==
    req' = [req EXCEPT ![q] = [NoReq EXCEPT !.pc = pc, !.op = op, !.s = s, !.doc = d]]

Alive(s) == doc[s].state = "live"

\* new_session and upload_resume, paste_resume: the document is read, parsed at length ...
Upload(q, s) ==
    /\ MayBegin(q, "upload") /\ doc[s].state # "expired"
    /\ Goto(q, "upload", s, [doc[s] EXCEPT !.state = "live", !.resume = TRUE], "parsed")
    /\ UNCHANGED <<doc, row, history, measured, linked>>

\* ... and written back whole.
Parsed(q) ==
    /\ req[q].pc = "parsed"
    /\ doc' = [doc EXCEPT ![req[q].s] = req[q].doc]
    /\ req' = [req EXCEPT ![q].pc = "find"]
    /\ UNCHANGED <<row, history, measured, linked>>

\* submit_jd: another text wipes what was made for the one before.
SubmitJd(q, s) ==
    /\ MayBegin(q, "jd") /\ Alive(s)
    /\ \E j \in Jds :
         LET d == IF j = doc[s].jd THEN doc[s]
                  ELSE [doc[s] EXCEPT !.jd = j, !.draft = NoDraft, !.score = 0] IN
         doc' = [doc EXCEPT ![s] = d] /\ Goto(q, "jd", s, d, "find")
    /\ UNCHANGED <<row, history, measured, linked>>

\* save_userinfo with the id of a job description the extension saved.
Link(q, s) ==
    /\ MayBegin(q, "link") /\ Alive(s)
    /\ \E j \in Jds : linked' = [linked EXCEPT ![s] = j]
    /\ Goto(q, "link", s, doc[s], "find")
    /\ UNCHANGED <<doc, row, history, measured>>

\* run_phase at the end of phase 3 and of phase 4.
Tailor(q, s) ==
    /\ MayBegin(q, "tailor") /\ Alive(s) /\ doc[s].resume /\ doc[s].jd # None
    /\ LET d == [doc[s] EXCEPT !.draft = [by |-> s, jd |-> doc[s].jd]] IN
         doc' = [doc EXCEPT ![s] = d] /\ Goto(q, "tailor", s, d, "find")
    /\ UNCHANGED <<row, history, measured, linked>>

Score(q, s) ==
    /\ MayBegin(q, "score") /\ Alive(s) /\ doc[s].draft # NoDraft /\ doc[s].jd # None
    /\ Len(measured) < MaxScores
    /\ measured' = Append(measured, s)
    /\ LET d == [doc[s] EXCEPT !.score = Len(measured) + 1] IN
         doc' = [doc EXCEPT ![s] = d] /\ Goto(q, "score", s, d, "find")
    /\ UNCHANGED <<row, history, linked>>

-----------------------------------------------------------------------------
(***************************************************************************)
(* The transaction behind it                                               *)
(***************************************************************************)
\* compute_jd_text_hash, and compute_session_placeholder_hash before there is one.
Hash(d, s) == IF d.jd = None THEN s ELSE d.jd

\* _find_record_for_session, then by the hash; two rows of a session raise an error.
Find(q) ==
    LET s == req[q].s
        r == IF Of(s) # {} THEN CHOOSE x \in Of(s) : TRUE
             ELSE IF req[q].op # "tailor" /\ For(Hash(req[q].doc, s)) # {}
               THEN CHOOSE x \in For(Hash(req[q].doc, s)) : TRUE ELSE NoRow IN
    /\ req[q].pc = "find"
    /\ req' = IF Cardinality(Of(s)) > 1 \/ (r = NoRow /\ req[q].op = "tailor")
              THEN [req EXCEPT ![q] = NoReq]
              ELSE [req EXCEPT ![q].pc = "write", ![q].found = r,
                               ![q].read = IF r = NoRow THEN @ ELSE row[r]]
    /\ UNCHANGED <<doc, row, history, measured, linked>>

\* Another session's row is taken over without its scores.
TakenOver(old) ==
    [old EXCEPT !.first = 0, !.now = 0, !.stage = "in_progress", !.cache.score = 0]

\* ensure_in_progress_resume_record.
Refreshed(old, s, hash) ==
    [(IF old.session # s THEN TakenOver(old) ELSE old) EXCEPT !.session = s, !.hash = hash]

HadScores(old) == old.first > 0 \/ old.now > 0

\* upsert_resume_record_from_session, and the entry it adds to the history.
Scored(old, s, hash, n) ==
    [old EXCEPT !.session = s, !.hash = hash, !.now = n, !.stage = "polished",
                !.first = IF HadScores(old) THEN @ ELSE n]

Entry(old, n) == [score |-> n, kind |-> IF HadScores(old) THEN "auto" ELSE "initial"]

Before(q) == IF req[q].found = NoRow THEN NewRow(req[q].s, Hash(req[q].doc, req[q].s))
             ELSE req[q].read

Wanted(q) ==
    LET f == req[q] h == Hash(f.doc, f.s) old == Before(q) IN
    CASE f.op = "tailor" -> [old EXCEPT !.stage = "polished"]
      [] f.op = "score"  -> Scored(old, f.s, h, f.doc.score)
      [] OTHER           -> Refreshed(old, f.s, h)

\* persist_session_cache: an UPDATE of the session's live row, if the session has a draft.
Snapshot(rows, s) ==
    IF doc[s].state # "live" \/ doc[s].draft = NoDraft THEN rows
    ELSE [r \in Rows |->
            IF rows[r].state = "live" /\ rows[r].session = s
            THEN [rows[r] EXCEPT !.cache = [draft |-> doc[s].draft, jd |-> doc[s].jd,
                                            score |-> doc[s].score]]
            ELSE rows[r]]

\* A row that was read is written in the columns that changed.
Merged(committed, read, new) ==
    [f \in DOMAIN new |-> IF new[f] = read[f] THEN committed[f] ELSE new[f]]

Unique(rows) ==
    \A r, o \in Rows :
        rows[r].state = "live" /\ rows[o].state = "live" /\ rows[r].hash = rows[o].hash => r = o

Target(q) ==
    IF req[q].found # NoRow THEN req[q].found
    ELSE CHOOSE r \in Rows : /\ row[r].state = "unused"
                             /\ \A o \in 1 .. r - 1 : row[o].state # "unused"

Write(q) ==
    LET r == Target(q)
        new == IF req[q].found = NoRow THEN Wanted(q)
               ELSE Merged(row[r], req[q].read, Wanted(q))
        rows == [row EXCEPT ![r] = new]
        after == IF req[q].op \in {"tailor", "score"} THEN Snapshot(rows, req[q].s) ELSE rows IN
    /\ req[q].pc = "write"
    /\ req[q].found # NoRow \/ \E x \in Rows : row[x].state = "unused"
    /\ IF Unique(rows)
         THEN /\ row' = after
              /\ history' = IF req[q].op # "score" THEN history
                            ELSE [history EXCEPT ![r] =
                                    Append(@, Entry(Before(q), req[q].doc.score))]
         ELSE UNCHANGED <<row, history>>
    /\ req' = [req EXCEPT ![q] = NoReq]
    /\ UNCHANGED <<doc, measured, linked>>

-----------------------------------------------------------------------------
(***************************************************************************)
(* Opening a session, and the dashboard                                    *)
(***************************************************************************)
\* build_legacy_session_cache: the master resume for a polished row without a cache.
CacheOf(r) ==
    IF row[r].cache # NoCache THEN row[r].cache
    ELSE IF row[r].stage = "polished" /\ linked[row[r].session] # None
      THEN [draft |-> [by |-> "master", jd |-> linked[row[r].session]],
            jd |-> linked[row[r].session], score |-> 0]
      ELSE NoCache

\* _session_from_cache.
Restored(c) ==
    [state |-> "live", jd |-> c.jd, resume |-> TRUE, draft |-> c.draft, score |-> c.score]

\* backfill_session_from_record_if_needed: the draft always, the rest where it is missing.
Completed(d, c) ==
    [Restored(c) EXCEPT !.jd = IF d.jd = None THEN @ ELSE d.jd,
                        !.score = IF d.score = 0 THEN @ ELSE d.score]

\* load_session_for_request, restore_session_from_record.
View(q, s) ==
    /\ MayBegin(q, "view") /\ doc[s].state # "unused"
    /\ doc[s].draft = NoDraft \/ doc[s].score = 0 \/ ~Alive(s)
    /\ \E r \in Of(s) :
         /\ Cardinality(Of(s)) = 1 /\ CacheOf(r).draft # NoDraft
         /\ doc' = [doc EXCEPT ![s] = IF Alive(s) THEN Completed(@, CacheOf(r))
                                                ELSE Restored(CacheOf(r))]
         /\ row' = [row EXCEPT ![r].cache = CacheOf(r)]
    /\ UNCHANGED <<history, measured, linked, req>>

\* SESSION_TTL_SECONDS; a run keeps its session alive.
Expire(s) ==
    /\ "expire" \in Ops /\ Alive(s) /\ \A q \in Requests : req[q].s # s
    /\ doc' = [doc EXCEPT ![s].state = "expired"]
    /\ UNCHANGED <<row, history, measured, linked, req>>

Deleted(set) ==
    row' = [r \in Rows |-> IF r \in set THEN [row[r] EXCEPT !.state = "deleted"] ELSE row[r]]

\* delete_resume.
Delete(q) ==
    /\ MayBegin(q, "delete") /\ \E r \in Live : Deleted({r})
    /\ UNCHANGED <<doc, history, measured, linked, req>>

\* bulk_resume_action.
BulkDelete(q) ==
    /\ MayBegin(q, "delete") /\ \E set \in SUBSET Live : Cardinality(set) > 1 /\ Deleted(set)
    /\ UNCHANGED <<doc, history, measured, linked, req>>

\* _ats_trend_last_30_days and build_recent_activity: the scores, the later ones as events.
Trend == UNION {{history[r][i].score : i \in DOMAIN history[r]} : r \in Live}
Recalculated(r) == {i \in DOMAIN history[r] : history[r][i].kind # "initial"}

\* ats_score_delta.
Delta(r) == row[r].now - row[r].first

\* download_resume reads the session itself; NoDraft stands for its refusal.
Download(r) == IF Alive(row[r].session) THEN doc[row[r].session].draft ELSE NoDraft

\* duplicate_resume: the inputs and nothing made from them.
Duplicate(q, new) ==
    /\ MayBegin(q, "duplicate") /\ doc[new].state = "unused"
    /\ \E r \in Live : /\ Alive(row[r].session)
                       /\ doc' = [doc EXCEPT ![new] = [doc[row[r].session] EXCEPT
                                                         !.draft = NoDraft, !.score = 0]]
    /\ UNCHANGED <<row, history, measured, linked, req>>

Next ==
    \/ \E q \in Requests, s \in Sessions :
         \/ Upload(q, s) \/ SubmitJd(q, s) \/ Link(q, s) \/ Tailor(q, s) \/ Score(q, s)
         \/ View(q, s) \/ Duplicate(q, s)
    \/ \E q \in Requests : Parsed(q) \/ Find(q) \/ Write(q) \/ Delete(q) \/ BulkDelete(q)
    \/ \E s \in Sessions : Expire(s)

-----------------------------------------------------------------------------
TypeOK ==
    /\ \A s \in Sessions :
         /\ doc[s].state \in {"unused", "live", "expired"} /\ doc[s].jd \in Jds \cup {None}
         /\ doc[s].draft \in Drafts /\ doc[s].score \in 0 .. Len(measured)
    /\ \A r \in Rows :
         /\ row[r].state \in {"unused", "live", "deleted"}
         /\ row[r].session \in Sessions \cup {None}
         /\ row[r].hash \in Sessions \cup Jds \cup {None}
         /\ row[r].stage \in {"in_progress", "polished"}
         /\ history[r] \in Seq([score : 1 .. MaxScores, kind : {"initial", "auto"}])
    /\ \A q \in Requests : req[q].pc \in {"idle", "parsed", "find", "write"}

(***************************************************************************)
(* What holds while requests come one at a time                            *)
(***************************************************************************)
\* A session has one row, so that it is found again (resume_record.py 293-307).
OnePerSession == \A s \in Sessions : Cardinality(Of(s)) <= 1

\* The score a row shows, and that of its cache, measured the work of its session; the shown
\* one is the last of the row's history, the score the row started from is the last initial
\* one, and the events since account for the difference.  The history may be older than the
\* session: one that takes a row over by its hash leaves the starting score as it is, see
\* FirstIsOwn (resume_record.py 381-391, 463-526; activity.py 64-93).
ScoreIsOwn ==
    \A r \in Live :
        /\ row[r].now # 0 =>
             /\ history[r] # <<>> /\ Last(history[r]).score = row[r].now
             /\ \E i \in DOMAIN history[r] \ Recalculated(r) :
                   /\ history[r][i].score = row[r].first
                   /\ i + 1 .. Len(history[r]) \subseteq Recalculated(r)
             /\ measured[row[r].now] = row[r].session /\ row[r].now \in Trend
             /\ Delta(r) # 0 => Recalculated(r) # {}
        /\ row[r].cache.score # 0 => measured[row[r].cache.score] = row[r].session

\* A polished row can be opened after its session expired.
Reopenable ==
    "link" \notin Ops =>
        \A r \in Live : row[r].stage = "polished" => row[r].cache.draft # NoDraft

(***************************************************************************)
(* Claims the code does not keep                                           *)
(***************************************************************************)
\* What is made for a session is made in it: a duplicate is not given another's draft
\* (dashboard.py 502: "Phase outputs are intentionally not copied to avoid stale-state forks").
NoStaleFork == \A s \in Sessions : doc[s].draft # NoDraft => doc[s].draft.by = s

\* A session's draft is of its job description.
DraftIsForJd ==
    \A s \in Sessions : Alive(s) /\ doc[s].draft # NoDraft => doc[s].draft.jd = doc[s].jd

\* Every score is in the history of a row.
EveryScoreKept ==
    (\A q \in Requests : req[q] = NoReq) =>
        \A n \in DOMAIN measured :
            \E r \in Rows : \E i \in DOMAIN history[r] : history[r][i].score = n

\* The first score of a row is one of its session.
FirstIsOwn == \A r \in Live : row[r].first # 0 => measured[row[r].first] = row[r].session

\* The draft a row keeps for its session can be downloaded (dashboard.py 553-554 refuses it once
\* the session expired, though opening the session would restore it).
Downloadable ==
    \A r \in Live : row[r].stage = "polished" /\ row[r].cache.draft # NoDraft =>
        Download(r) # NoDraft

\* A job description, once submitted, stays until another is.
JdKept == [][\A s \in Sessions : doc[s].jd # None => doc'[s].jd # None]_vars
=============================================================================
