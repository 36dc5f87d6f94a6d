-------------------------------- MODULE JobDesk --------------------------------
(***************************************************************************)
(* What one user keeps about jobs: the titles and filters of the search,   *)
(* which are one JSON column of the user, bookmarks, and fit analyses,     *)
(* which are charged.  A request reads the user when it begins and writes  *)
(* the whole column when it commits.                                       *)
(***************************************************************************)
EXTENDS Integers, Sequences, FiniteSets

CONSTANTS
    Jobs,
    Titles,
    Requests,
    Ops,            \* "titles", "filters", "save", "unsave", "fit", "resume"
    Overlap,        \* whether requests interleave
    MinTitles,      \* MIN_PREFERRED_JOB_TITLES
    MaxTexts,       \* bound: versions of the resume
    MaxFits         \* bound: fit analyses of a job

\* What the modules that instantiate this one assume of its constants.
JobDeskAssumption ==
    /\ Overlap \in BOOLEAN /\ {MinTitles, MaxTexts, MaxFits} \subseteq Nat \ {0}
    /\ Ops \subseteq {"titles", "filters", "save", "unsave", "fit", "resume"}

VARIABLES
    text,       \* version of the resume, 0 without one
    prefs,      \* users.job_default_filters: titles, the resume they are for, other filters
    chosen,     \* the titles of the last request that set them, as answered
    saved,      \* saved_job rows
    fits,       \* of each job the resume each stored analysis is about, and how many there are
    used,       \* fit analyses charged to the plan, by job
    req

vars == <<text, prefs, chosen, saved, fits, used, req>>

Idle == [pc |-> "idle"]
At(r, pc) == req[r].pc = pc
Step(r, v) == req' = [req EXCEPT ![r] = v]
Alone(r) == Overlap \/ \A q \in Requests \ {r} : req[q].pc \in {"idle", "done", "error"}

Init ==
    /\ text = 0
    /\ prefs = [titles |-> {}, source |-> 0, other |-> "default"]
    /\ chosen = {}
    /\ saved = {}
    /\ fits = [j \in Jobs |-> << >>]
    /\ used = [j \in Jobs |-> 0]
    /\ req = [r \in Requests |-> Idle]

Upload ==
    /\ "resume" \in Ops /\ text < MaxTexts
    /\ text' = text + 1
    /\ UNCHANGED <<prefs, chosen, saved, fits, used, req>>

(***************************************************************************)
(* Preferred titles and filters                                            *)
(***************************************************************************)
Confirmed == Cardinality(prefs.titles) >= MinTitles

\* is_source_stale: titles from before there was a resume are stale once there is one.
Stale == Confirmed /\ text # 0 /\ prefs.source # text

\* set_preferred_titles on what the request has read; without a resume the source stays.
SetTitles(p, titles, source) ==
    IF Cardinality(titles) >= MinTitles
    THEN [p EXCEPT !.titles = titles, !.source = IF source # 0 THEN source ELSE @]
    ELSE [p EXCEPT !.titles = titles, !.source = 0]

\* PUT /preferred-titles and PUT /preferences read the user, and the resume of new titles.
ReadPrefs(r, op, titles) ==
    /\ op \in Ops \cap {"titles", "filters"}
    /\ (op = "titles") => Cardinality(titles) >= MinTitles
    /\ At(r, "idle") /\ Alone(r)
    /\ Step(r, [pc |-> op, prefs |-> prefs, titles |-> titles, source |-> text])
    /\ UNCHANGED <<text, prefs, chosen, saved, fits, used>>

\* The column is written as a whole; a PUT of filters leaves the keys of titles as it read them.
WriteTitles(r) ==
    /\ At(r, "titles")
    /\ prefs' = SetTitles(req[r].prefs, req[r].titles, req[r].source)
    /\ chosen' = req[r].titles
    /\ Step(r, [pc |-> "done"])
    /\ UNCHANGED <<text, saved, fits, used>>

WriteFilters(r, other, both) ==
    /\ At(r, "filters")
    /\ LET kept == [req[r].prefs EXCEPT !.other = other] IN
       /\ prefs' = IF both THEN SetTitles(kept, req[r].titles, req[r].source) ELSE kept
       /\ chosen' = IF both THEN req[r].titles ELSE chosen
    /\ Step(r, [pc |-> "done"])
    /\ UNCHANGED <<text, saved, fits, used>>

(***************************************************************************)
(* Bookmarks                                                               *)
(***************************************************************************)
Save(r, j) ==
    /\ "save" \in Ops /\ At(r, "idle") /\ Alone(r)
    /\ Step(r, IF j \in saved THEN [pc |-> "done"] ELSE [pc |-> "saving", job |-> j])
    /\ UNCHANGED <<text, prefs, chosen, saved, fits, used>>

\* The INSERT; a duplicate is rolled back and the row looked up.
Insert(r) ==
    /\ At(r, "saving")
    /\ saved' = saved \cup {req[r].job}
    /\ Step(r, IF req[r].job \in saved THEN [req[r] EXCEPT !.pc = "again"] ELSE [pc |-> "done"])
    /\ UNCHANGED <<text, prefs, chosen, fits, used>>

LookAgain(r) ==
    /\ At(r, "again")
    /\ Step(r, IF req[r].job \in saved THEN [pc |-> "done"] ELSE [pc |-> "error"])
    /\ UNCHANGED <<text, prefs, chosen, saved, fits, used>>

Unsave(r, j) ==
    /\ "unsave" \in Ops /\ At(r, "idle") /\ Alone(r) /\ j \in saved
    /\ saved' = saved \ {j}
    /\ Step(r, [pc |-> "done"])
    /\ UNCHANGED <<text, prefs, chosen, fits, used>>

(***************************************************************************)
(* Fit analyses                                                            *)
(***************************************************************************)
Latest(j) == fits[j][Len(fits[j])]

\* The latest analysis is answered if there is one; otherwise the quota is charged.
Fit(r, j) ==
    /\ "fit" \in Ops /\ At(r, "idle") /\ Alone(r)
    /\ Step(r, IF fits[j] # << >> THEN [pc |-> "done"]
               ELSE [pc |-> "fitting", job |-> j, of |-> text])
    /\ UNCHANGED <<text, prefs, chosen, saved, fits, used>>

\* No resume, or the model fails: the charge is rolled back.
FitFails(r) ==
    /\ At(r, "fitting")
    /\ Step(r, [pc |-> "done"])
    /\ UNCHANGED <<text, prefs, chosen, saved, fits, used>>

\* The row and the charge are committed together.
Fitted(r) ==
    LET j == req[r].job IN
    /\ At(r, "fitting") /\ req[r].of # 0 /\ Len(fits[j]) < MaxFits
    /\ fits' = [fits EXCEPT ![j] = Append(@, req[r].of)]
    /\ used' = [used EXCEPT ![j] = @ + 1]
    /\ Step(r, [pc |-> "done"])
    /\ UNCHANGED <<text, prefs, chosen, saved>>

Again(r) ==
    /\ req[r].pc \in {"done", "error"}
    /\ Step(r, Idle)
    /\ UNCHANGED <<text, prefs, chosen, saved, fits, used>>

Next ==
    \/ Upload
    \/ \E r \in Requests :
        \/ \E op \in {"titles", "filters"}, titles \in SUBSET Titles : ReadPrefs(r, op, titles)
        \/ WriteTitles(r)
        \/ \E other \in {"default", "other"}, both \in BOOLEAN : WriteFilters(r, other, both)
        \/ \E j \in Jobs : Save(r, j) \/ Unsave(r, j) \/ Fit(r, j)
        \/ Insert(r) \/ LookAgain(r) \/ FitFails(r) \/ Fitted(r) \/ Again(r)

Spec == Init /\ [][Next]_vars

(***************************************************************************)
(* What holds                                                              *)
(***************************************************************************)
TypeOK ==
    /\ text \in 0 .. MaxTexts
    /\ prefs \in [titles : SUBSET Titles, source : 0 .. text, other : {"default", "other"}]
    /\ chosen \in SUBSET Titles /\ saved \in SUBSET Jobs
    /\ \A j \in Jobs : fits[j] \in Seq(1 .. text) /\ used[j] \in 0 .. MaxFits
    /\ \A r \in Requests : req[r].pc \in {"idle", "titles", "filters", "saving", "again",
                                           "fitting", "done", "error"}

\* While requests come in turn the titles are those the user last set, though every change
\* of a filter writes them again, and titles that are not called stale were set with the
\* resume as it is (jobs.py 382-417 and 668-701, preferred_titles.py 88-142).
TitlesKept ==
    /\ prefs.titles = chosen
    /\ Confirmed /\ text # 0 /\ ~Stale => prefs.source = text

\* While requests come in turn an analysis of a job is charged once (jobs.py 775-821).
OneFitCharge == \A j \in Jobs : used[j] <= 1

\* A bookmark is answered though two requests insert it (jobs.py 850-872).
SaveAnswers == \A r \in Requests : ~At(r, "error")

(***************************************************************************)
(* What the code does not promise                                          *)
(***************************************************************************)
\* The analysis that is answered is about the resume as it is.
FitIsCurrent == \A j \in Jobs : fits[j] # << >> => Latest(j) = text
=============================================================================
