------------------------------- MODULE MCJobs -------------------------------
(***************************************************************************)
(* Instances for TLC of the applications, the rows of the dashboard, the   *)
(* notifications, the job search, the career watch and the chunks of       *)
(* resumes, which share no state here: a behaviour is about one of them,   *)
(* its scene, and the variables of the others rest at 0.                   *)
(***************************************************************************)
EXTENDS Integers, Sequences, FiniteSets, TLC

CONSTANTS
    Two,            \* roles, or notifications
    Pair,           \* requests or runs, of the scenes with two of them
    Trio,           \* requests or searches, of the scenes with three
    c1, c2,         \* companies
    j1, j2,         \* jobs
    Nobody, Nothing

VARIABLES
    scene,
    \* ApplicationTracker
    app, shelved, role, trackStatus, history, offered, round, attached, files,
    pc, op, target, seen, holder, crashes,
    \* NotificationOutbox
    channel, wants, subscribed, outStatus, emails, others, batch, local,
    current, tries, dropped, outFaults,
    \* CircuitBreaker
    circuit, failures, probeLock, circuitReq, trial, tried,
    \* CareerFeed
    board, open, listed, due, queued, worker, changes, feedFaults,
    \* CareerAlerts
    watch, job, alert, notices, add, run, alertFaults,
    \* SavedSearches
    freq, lock, savedReq, matched, alerted,
    \* ResumeRecords
    doc, row, scores, measured, linked, recordReq,
    \* CorpusIndex
    resume, chunk, corpus, made, rowLock, locks, chunkReq,
    \* CorpusSearch
    entry, pieces, stock, stage, kept, skipped, selected, added,
    \* ResumeScore
    draft, report, cache, checks,
    \* AnchoredFix
    fixed, issues, moved, pending, asks,
    \* DraftRepair
    tailored, approved, ever, removed, before, last, repairs,
    \* JobSearch
    jobRow, page, resumeText, artifact, task,
    \* JobDesk
    deskText, prefs, chosen, bookmarks, fits, used, deskReq

trackVars == <<app, shelved, role, trackStatus, history, offered, round, attached, files,
               pc, op, target, seen, holder, crashes>>
outVars == <<channel, wants, subscribed, outStatus, emails, others, batch, local, current,
             tries, dropped, outFaults>>
circuitVars == <<circuit, failures, probeLock, circuitReq, trial, tried>>
feedVars == <<board, open, listed, due, queued, worker, changes, feedFaults>>
alertVars == <<watch, job, alert, notices, add, run, alertFaults>>
savedVars == <<freq, lock, savedReq, matched, alerted>>
recordVars == <<doc, row, scores, measured, linked, recordReq>>
chunkVars == <<resume, chunk, corpus, made, rowLock, locks, chunkReq>>
searchVars == <<entry, pieces, stock, stage, kept, skipped, selected, added>>
scoreVars == <<draft, report, cache, checks>>
fixVars == <<fixed, issues, moved, pending, asks>>
tableVars == <<jobRow, page, resumeText, artifact, task>>
deskVars == <<deskText, prefs, chosen, bookmarks, fits, used, deskReq>>
jobVars == <<tableVars, deskVars>>
workVars == <<trackVars, outVars, circuitVars, feedVars, alertVars, savedVars>>
repairVars == <<tailored, approved, ever, removed, before, last, repairs>>
draftVars == <<scoreVars, fixVars, repairVars>>
textVars == <<recordVars, chunkVars, searchVars, draftVars>>
vars == <<scene, workVars, textVars, jobVars>>

Slots == INSTANCE ApplicationTracker WITH
    Requests <- Trio, Roles <- Two,
    Ops <- {"create", "confirm", "archive", "unarchive", "delete"},
    Limited <- TRUE, Limit <- 2, MaxFiles <- 1, MaxCrashes <- 1, status <- trackStatus

Tracker == INSTANCE ApplicationTracker WITH
    Requests <- Trio, Roles <- {"role"},
    Ops <- {"create", "confirm", "archive", "unarchive", "patch", "delete", "round",
            "unround", "offer", "upload", "detach"},
    Limited <- TRUE, Limit <- 2, MaxFiles <- 1, MaxCrashes <- 1, status <- trackStatus

Outbox == INSTANCE NotificationOutbox WITH
    Notes <- Two, Runs <- Pair, Channels <- {"in_app", "email", "web_push", "multi"},
    MaxFaults <- 1, status <- outStatus, faults <- outFaults

Circuit == INSTANCE CircuitBreaker WITH
    Searches <- Trio, Embeds <- Pair, Threshold <- 2, MayCrash <- TRUE, req <- circuitReq

CircuitKept == INSTANCE CircuitBreaker WITH
    Searches <- Trio, Embeds <- Pair, Threshold <- 2, MayCrash <- FALSE, req <- circuitReq

\* c2 comes first in the scheduler's query, and its system is not supported.
Feed == INSTANCE CareerFeed WITH
    Companies <- {c1, c2}, Supported <- {c1}, Jobs <- {j1, j2},
    Rank <- (c2 :> 1) @@ (c1 :> 2), Namesakes <- {}, Workers <- Pair,
    Batch <- 2, MaxQueued <- 1, MaxChanges <- 2, MaxFaults <- 1, faults <- feedFaults

\* One user, a job of each company, two runs whose batch holds everything.
Alerts == INSTANCE CareerAlerts WITH
    Users <- {"user"}, Companies <- {c1, c2}, Jobs <- {j1, j2},
    CompanyOf <- (j1 :> c1) @@ (j2 :> c2), Requests <- {"add"}, Runs <- Pair,
    Batch <- 3, Limit <- 2, MaxFaults <- 1, faults <- alertFaults

\* One user, two jobs of one company, one run whose batch of one leaves an alert pending.
Backlog == INSTANCE CareerAlerts WITH
    Users <- {"user"}, Companies <- {c1}, Jobs <- {j1, j2}, CompanyOf <- (j1 :> c1) @@ (j2 :> c1),
    Requests <- {"add"}, Runs <- {"run"}, Batch <- 1, Limit <- 1, MaxFaults <- 2,
    faults <- alertFaults

\* One user who may watch one of two companies, one request at a time.
Watches == INSTANCE CareerAlerts WITH
    Users <- {"user"}, Companies <- {c1, c2}, Jobs <- {j1}, CompanyOf <- (j1 :> c1),
    Requests <- {"add"}, Runs <- {"run"}, Batch <- 2, Limit <- 1, MaxFaults <- 0,
    faults <- alertFaults

Saved == INSTANCE SavedSearches WITH
    Searches <- Trio, Requests <- Pair, MaxSaved <- 2, MaxAlerts <- 1, req <- savedReq

\* Two sessions and two job descriptions, and what is made for them.
Records == INSTANCE ResumeRecords WITH
    Sessions <- Two, Jds <- Pair, Requests <- {"request"},
    Ops <- {"upload", "jd", "tailor", "score"},
    MaxRows <- 2, MaxScores <- 2, Overlap <- FALSE, None <- Nothing,
    history <- scores, req <- recordReq

\* Two sessions of one job description, which expire, come back and lose their rows.
RecordsKept == INSTANCE ResumeRecords WITH
    Sessions <- Two, Jds <- {"job"}, Requests <- {"request"},
    Ops <- {"upload", "jd", "tailor", "score", "view", "expire", "delete"},
    MaxRows <- 2, MaxScores <- 1, Overlap <- FALSE, None <- Nothing,
    history <- scores, req <- recordReq

\* A session with a row of old, and a duplicate of it.
OldRecords == INSTANCE ResumeRecords WITH
    Sessions <- {"old", "copy"}, Jds <- {"job"}, Requests <- {"request"},
    Ops <- {"upload", "jd", "tailor", "link", "view", "duplicate"},
    MaxRows <- 2, MaxScores <- 1, Overlap <- FALSE, None <- Nothing,
    history <- scores, req <- recordReq

\* Uploads, polished resumes and deletions of chunks that overlap.
Chunks == INSTANCE CorpusIndex WITH
    Requests <- Pair, Ops <- {"upload", "delete", "sync"}, MaxRows <- 3, MaxTexts <- 3,
    Overlap <- TRUE, None <- Nobody, req <- chunkReq

\* Everything that is done to chunks, one request at a time, and to the corpus of a session.
ChunksInTurn == INSTANCE CorpusIndex WITH
    Requests <- {"request"}, Ops <- {"upload", "story", "add", "patch", "delete", "blank", "sync"},
    MaxRows <- 3, MaxTexts <- 3, Overlap <- FALSE, None <- Nobody, req <- chunkReq

SessionCorpus == INSTANCE CorpusIndex WITH
    Requests <- {"request"}, Ops <- {"embed", "bullet_fix", "user_note", "claimed_keyword"}, MaxRows <- 1, MaxTexts <- 3,
    Overlap <- FALSE, None <- Nobody, req <- chunkReq

\* Sentences shorter than the overlap, than the cap, and longer.
Texts == {<<>>} \cup UNION {[1..n -> {1, 3, 5}] : n \in 1..2}

\* A critical section, one that may be left out, one that is not searched, and a source.
Search == INSTANCE CorpusSearch WITH
    Entries <- [shape : {"text"}, section : {"other"}, head : [1..3 -> {1, 2, 4, 9}],
                bullets : {<<>>}]
                 \cup [shape : {"rows"}, section : {"experience", "project"}, head : Texts,
                       bullets : {<<>>} \cup [1..2 -> Texts]],
    Cap <- 4, Overlap <- 2, Labels <- <<"experience", "other", "cert", "tailored_resume">>,
    Sections <- <<"experience", "other">>, Critical <- {"experience"},
    Keep <- [s \in {"experience", "other"} |-> IF s = "experience" THEN 2 ELSE 1],
    Floor <- 2, CorpusCap <- 1, Forced <- 2, MaxChunks <- 3, Scores <- {0, 1, 2}, Primary <- 2,
    Fallback <- 1, Tokens <- {1, 2}, Budget <- 2

\* Drafts of one or two bullets, good and bad, with their keywords here and there, and
\* with their other sections in every state; drafts of another session that score alike.
Bullet(digit, opens, words, weak, person) ==
    [digit |-> digit, opens |-> opens, words |-> words, weak |-> weak, person |-> person]
Good == Bullet(TRUE, "strong", "sweet", FALSE, FALSE)
Polished ==
    [bullets |-> <<Good>>, placed |-> [k \in Pair |-> {"skills", "experience"}], loose |-> {},
     summary |-> "plain", said |-> {"verb", "phrase"}, skills |-> TRUE, name |-> TRUE,
     email |-> TRUE, named |-> 1, fields |-> 1, pages |-> 1]
BulletDrafts ==
    {[Polished EXCEPT !.bullets = s, !.placed = [k \in Pair |-> {"skills"}]] :
       s \in UNION {[1..n -> {Good, Bullet(FALSE, "other", "short", TRUE, FALSE),
                                Bullet(FALSE, "strong", "long", FALSE, TRUE)}] : n \in 0..2}}
KeywordDrafts ==
    {[Polished EXCEPT !.placed = f, !.loose = l] :
       f \in [Pair -> SUBSET {"skills", "summary", "experience"}], l \in SUBSET Pair}
SectionDrafts ==
    {[Polished EXCEPT !.summary = s, !.said = w, !.email = e, !.named = n, !.pages = p] :
       s \in {"plain", "person"}, w \in SUBSET {"verb", "phrase", "cliche"},
       e \in BOOLEAN, n \in 0..1, p \in {1, 2, 4}}

Score == INSTANCE ResumeScore WITH
    Drafts <- BulletDrafts \cup KeywordDrafts \cup SectionDrafts,
    Others <- {[Polished EXCEPT !.email = FALSE], [Polished EXCEPT !.said = {"verb"}]},
    Keywords <- Pair, Vocabulary <- {"verb", "phrase"}, Buzzwords <- {"cliche"},
    Stage <- "mid", MaxBullets <- 2, MaxChecks <- 2, None <- Nothing

Entry(name, bullets) == [name |-> name, bullets |-> bullets]
Flaw(id, by) == [on |-> id, by |-> by]
Apart == [b \in {"b1", "b2", "b3"} |-> b]

\* Two companies; issues that point at bullets and issues that quote them.
Fixes == INSTANCE AnchoredFix WITH
    Layout <- [experience |-> <<Entry("acme", <<"b1", "b2">>), Entry("beta", <<"b3">>)>>,
               projects |-> <<>>],
    Flaws <- <<Flaw("b3", "anchor"), Flaw("b1", "anchor"), Flaw("b2", "quote"),
               Flaw("b1", "quote")>>,
    Looks <- Apart, Mentions <- {{}}, Named <- FALSE, Skips <- FALSE, Fresh <- TRUE,
    MaxTargets <- 3, MaxAsks <- 2, None <- Nothing, resume <- fixed

\* A company and a project, which messages name and so does the model.
ProjectFixes == INSTANCE AnchoredFix WITH
    Layout <- [experience |-> <<Entry("acme", <<"b1", "b2">>)>>,
               projects |-> <<Entry("proj", <<"b3">>)>>],
    Flaws <- <<Flaw("b3", "anchor"), Flaw("b1", "anchor"), Flaw("b2", "anchor")>>,
    Looks <- Apart, Mentions <- {{}, {"proj"}}, Named <- TRUE, Skips <- TRUE, Fresh <- TRUE,
    MaxTargets <- 2, MaxAsks <- 2, None <- Nothing, resume <- fixed

Item(words, number, keys) == [words |-> words, metric |-> number, keys |-> keys]
Bare == Item(TRUE, Nothing, 0)
Worded == Item(TRUE, Nothing, 1)
Full == Item(TRUE, "m", 1)
Post(company, title, bullets) == [company |-> company, title |-> title, bullets |-> bullets]
Resume == <<Post("acme", "t", <<Bare>>), Post("beta", "t", <<Bare, Bare>>)>>

\* Drafts that invent an employer, titles and numbers, of which one may be approved.
Drafts == INSTANCE DraftRepair WITH
    Parsed <- Resume, Alike <- {<<"acme", "acme inc">>},
    Written <- {Post("acme", "x", <<Item(FALSE, "m", 0)>>), Post("acme inc", "x", <<Full>>),
                Post("beta", "t", <<Full, Full, Full>>), Post("other", "x", <<Worded>>)},
    Manual <- {}, Additions <- {}, Offers <- {<<"acme", "m">>}, Inside <- {}, Keywords <- 1,
    Others <- {"projects"}, Restored <- {"projects"}, FirstMax <- 2, PriorMax <- 2,
    Ops <- {"run", "approve", "remove"}, Obedient <- FALSE, MaxRuns <- 2, MaxRoles <- 2,
    None <- Nothing, runs <- repairs

\* Runs about a part and roles added by hand, with a model that does as it is told.
DraftParts == INSTANCE DraftRepair WITH
    Parsed <- Resume, Alike <- {<<"acme", "acme inc">>},
    Written <- {Post("acme inc", "x", <<Worded>>), Post("acme", "x", <<Worded>>),
                Post("beta", "x", <<Worded, Worded>>), Post("gamma", "x", <<Full>>)},
    Manual <- {Post("gamma", "u", <<Worded>>)},
    Additions <- {Post("acme inc", "x", <<Worded>>)}, Offers <- {}, Inside <- {}, Keywords <- 1,
    Others <- {"summary"}, Restored <- {}, FirstMax <- 2, PriorMax <- 2,
    Ops <- {"run", "regen", "add", "manual"}, Obedient <- TRUE, MaxRuns <- 2, MaxRoles <- 3,
    None <- Nothing, runs <- repairs

\* A search and a batch of the scraper, and polls that close jobs.
Table == INSTANCE JobSearch WITH
    Jobs <- {j1, j2}, Blocked <- {j2}, Verbatim <- {j1}, Requests <- {"search"},
    Messages <- {"batch"}, Ops <- {"search", "poll", "expire"}, MinResults <- 1,
    Configured <- TRUE, MaxTexts <- 1, None <- Nothing, job <- jobRow, text <- resumeText

\* Polls and feeds that list the same jobs, and searches without the provider.
TableFed == INSTANCE JobSearch WITH
    Jobs <- {j1, j2}, Blocked <- {}, Verbatim <- {}, Requests <- {"search"}, Messages <- {},
    Ops <- {"search", "poll", "feed", "expire"}, MinResults <- 2, Configured <- FALSE,
    MaxTexts <- 1, None <- Nothing, job <- jobRow, text <- resumeText

\* Two searches or matches and a batch that write the same rows.
TableShared == INSTANCE JobSearch WITH
    Jobs <- {j1, j2}, Blocked <- {}, Verbatim <- {j1}, Requests <- Pair, Messages <- {"batch"},
    Ops <- {"search", "match", "resume"}, MinResults <- 1, Configured <- TRUE,
    MaxTexts <- 2, None <- Nothing, job <- jobRow, text <- resumeText

\* Titles, filters, bookmarks and analyses of one request at a time.
JobsKept == INSTANCE JobDesk WITH
    Jobs <- {j1}, Titles <- {"first", "second"}, Requests <- {"request"},
    Ops <- {"titles", "filters", "save", "unsave", "fit", "resume"}, Overlap <- FALSE,
    MinTitles <- 1, MaxTexts <- 2, MaxFits <- 2, text <- deskText, saved <- bookmarks,
    req <- deskReq

\* Bookmarks of two requests.
Bookmarks == INSTANCE JobDesk WITH
    Jobs <- {j1, j2}, Titles <- {"first"}, Requests <- Pair, Ops <- {"save"}, Overlap <- TRUE,
    MinTitles <- 1, MaxTexts <- 1, MaxFits <- 1, text <- deskText, saved <- bookmarks,
    req <- deskReq

ASSUME JobsAssumption ==
    /\ Slots!TrackerAssumption /\ Tracker!TrackerAssumption
    /\ Outbox!OutboxAssumption
    /\ Circuit!CircuitAssumption /\ CircuitKept!CircuitAssumption
    /\ Feed!CareerFeedAssumption
    /\ Alerts!CareerAlertsAssumption /\ Backlog!CareerAlertsAssumption
    /\ Watches!CareerAlertsAssumption
    /\ Saved!SavedSearchesAssumption
    /\ Records!RecordsAssumption /\ RecordsKept!RecordsAssumption
    /\ OldRecords!RecordsAssumption
    /\ Chunks!CorpusAssumption /\ ChunksInTurn!CorpusAssumption
    /\ SessionCorpus!CorpusAssumption /\ Search!SearchAssumption
    /\ Score!ScoreAssumption /\ Fixes!FixAssumption /\ ProjectFixes!FixAssumption
    /\ Drafts!DraftAssumption /\ DraftParts!DraftAssumption
    /\ Table!JobSearchAssumption /\ TableFed!JobSearchAssumption
    /\ TableShared!JobSearchAssumption
    /\ JobsKept!JobDeskAssumption /\ Bookmarks!JobDeskAssumption

-----------------------------------------------------------------------------
TrackRests ==
    /\ app = 0 /\ shelved = 0 /\ role = 0 /\ trackStatus = 0 /\ history = 0 /\ offered = 0
    /\ round = 0 /\ attached = 0 /\ files = 0 /\ pc = 0 /\ op = 0 /\ target = 0 /\ seen = 0
    /\ holder = 0 /\ crashes = 0

OutRests ==
    /\ channel = 0 /\ wants = 0 /\ subscribed = 0 /\ outStatus = 0 /\ emails = 0
    /\ others = 0 /\ batch = 0 /\ local = 0 /\ current = 0 /\ tries = 0 /\ dropped = 0
    /\ outFaults = 0

CircuitRests ==
    /\ circuit = 0 /\ failures = 0 /\ probeLock = 0 /\ circuitReq = 0 /\ trial = 0
    /\ tried = 0

FeedRests ==
    /\ board = 0 /\ open = 0 /\ listed = 0 /\ due = 0 /\ queued = 0 /\ worker = 0
    /\ changes = 0 /\ feedFaults = 0

AlertRests ==
    /\ watch = 0 /\ job = 0 /\ alert = 0 /\ notices = 0 /\ add = 0 /\ run = 0
    /\ alertFaults = 0

SavedRests == freq = 0 /\ lock = 0 /\ savedReq = 0 /\ matched = 0 /\ alerted = 0

RecordRests ==
    /\ doc = 0 /\ row = 0 /\ scores = 0 /\ measured = 0 /\ linked = 0 /\ recordReq = 0

ChunkRests ==
    /\ resume = 0 /\ chunk = 0 /\ corpus = 0 /\ made = 0 /\ rowLock = 0 /\ locks = 0
    /\ chunkReq = 0

SearchRests ==
    /\ entry = 0 /\ pieces = 0 /\ stock = 0 /\ stage = 0 /\ kept = 0 /\ skipped = 0
    /\ selected = 0 /\ added = 0

RepairRests ==
    /\ tailored = 0 /\ approved = 0 /\ ever = 0 /\ removed = 0 /\ before = 0 /\ last = 0
    /\ repairs = 0

FixRests == fixed = 0 /\ issues = 0 /\ moved = 0 /\ pending = 0 /\ asks = 0
ScoreRests == draft = 0 /\ report = 0 /\ cache = 0 /\ checks = 0
DraftRests == ScoreRests /\ FixRests /\ RepairRests
ScoreScene == FixRests /\ RepairRests
FixScene == ScoreRests /\ RepairRests
RepairScene == ScoreRests /\ FixRests

TableRests == jobRow = 0 /\ page = 0 /\ resumeText = 0 /\ artifact = 0 /\ task = 0

DeskRests ==
    /\ deskText = 0 /\ prefs = 0 /\ chosen = 0 /\ bookmarks = 0 /\ fits = 0 /\ used = 0
    /\ deskReq = 0

TrackScene == OutRests /\ CircuitRests /\ FeedRests /\ AlertRests /\ SavedRests
OutScene == TrackRests /\ CircuitRests /\ FeedRests /\ AlertRests /\ SavedRests
CircuitScene == TrackRests /\ OutRests /\ FeedRests /\ AlertRests /\ SavedRests
FeedScene == TrackRests /\ OutRests /\ CircuitRests /\ AlertRests /\ SavedRests
AlertScene == TrackRests /\ OutRests /\ CircuitRests /\ FeedRests /\ SavedRests
SavedScene == TrackRests /\ OutRests /\ CircuitRests /\ FeedRests /\ AlertRests
WorkRests == TrackRests /\ SavedScene /\ SavedRests
StoreRests == RecordRests /\ ChunkRests /\ SearchRests
TextRests == StoreRests /\ DraftRests
JobRests == TableRests /\ DeskRests

Init ==
    \/ /\ TextRests /\ JobRests
       /\ \/ scene = "slots" /\ Slots!Init /\ TrackScene
          \/ scene = "tracker" /\ Tracker!Init /\ TrackScene
          \/ scene = "outbox" /\ Outbox!Init /\ OutScene
          \/ scene = "circuit" /\ Circuit!Init /\ CircuitScene
          \/ scene = "circuit kept" /\ CircuitKept!Init /\ CircuitScene
          \/ scene = "feed" /\ Feed!Init /\ FeedScene
          \/ scene = "alerts" /\ Alerts!Init /\ AlertScene
          \/ scene = "backlog" /\ Backlog!Init /\ AlertScene
          \/ scene = "watches" /\ Watches!Init /\ AlertScene
          \/ scene = "saved" /\ Saved!Init /\ SavedScene
    \/ /\ WorkRests /\ JobRests /\ StoreRests
       /\ \/ scene = "score" /\ Score!Init /\ ScoreScene
          \/ scene = "fixes" /\ Fixes!Init /\ FixScene
          \/ scene = "project fixes" /\ ProjectFixes!Init /\ FixScene
          \/ scene = "drafts" /\ Drafts!Init /\ RepairScene
          \/ scene = "draft parts" /\ DraftParts!Init /\ RepairScene
    \/ /\ WorkRests /\ JobRests /\ DraftRests
       /\ \/ scene = "records" /\ Records!Init /\ ChunkRests /\ SearchRests
          \/ scene = "records kept" /\ RecordsKept!Init /\ ChunkRests /\ SearchRests
          \/ scene = "old records" /\ OldRecords!Init /\ ChunkRests /\ SearchRests
          \/ scene = "chunks" /\ Chunks!Init /\ RecordRests /\ SearchRests
          \/ scene = "chunks in turn" /\ ChunksInTurn!Init /\ RecordRests /\ SearchRests
          \/ scene = "session corpus" /\ SessionCorpus!Init /\ RecordRests /\ SearchRests
          \/ scene = "search" /\ Search!Init /\ RecordRests /\ ChunkRests
    \/ /\ WorkRests /\ TextRests
       /\ \/ scene = "table" /\ Table!Init /\ DeskRests
          \/ scene = "table fed" /\ TableFed!Init /\ DeskRests
          \/ scene = "table shared" /\ TableShared!Init /\ DeskRests
          \/ scene = "jobs kept" /\ JobsKept!Init /\ TableRests
          \/ scene = "bookmarks" /\ Bookmarks!Init /\ TableRests

Next ==
    /\ UNCHANGED scene
    /\ \/ /\ scene \in {"slots", "tracker"}
          /\ UNCHANGED <<outVars, circuitVars, feedVars, alertVars, savedVars, textVars,
                        jobVars>>
          /\ \/ scene = "slots" /\ Slots!Next
             \/ scene = "tracker" /\ Tracker!Next
       \/ /\ scene = "outbox"
          /\ UNCHANGED <<trackVars, circuitVars, feedVars, alertVars, savedVars, textVars,
                        jobVars>>
          /\ Outbox!Next
       \/ /\ scene \in {"circuit", "circuit kept"}
          /\ UNCHANGED <<trackVars, outVars, feedVars, alertVars, savedVars, textVars,
                        jobVars>>
          /\ \/ scene = "circuit" /\ Circuit!Next
             \/ scene = "circuit kept" /\ CircuitKept!Next
       \/ /\ scene = "feed"
          /\ UNCHANGED <<trackVars, outVars, circuitVars, alertVars, savedVars, textVars,
                        jobVars>>
          /\ Feed!Next
       \/ /\ scene \in {"alerts", "backlog", "watches"}
          /\ UNCHANGED <<trackVars, outVars, circuitVars, feedVars, savedVars, textVars,
                        jobVars>>
          /\ \/ scene = "alerts" /\ Alerts!Next
             \/ scene = "backlog" /\ Backlog!Next
             \/ scene = "watches" /\ Watches!Next
       \/ /\ scene = "saved"
          /\ UNCHANGED <<trackVars, outVars, circuitVars, feedVars, alertVars, textVars,
                        jobVars>>
          /\ Saved!Next
       \/ /\ scene \in {"records", "records kept", "old records"}
          /\ UNCHANGED <<workVars, chunkVars, searchVars, draftVars, jobVars>>
          /\ \/ scene = "records" /\ Records!Next
             \/ scene = "records kept" /\ RecordsKept!Next
             \/ scene = "old records" /\ OldRecords!Next
       \/ /\ scene \in {"chunks", "chunks in turn", "session corpus"}
          /\ UNCHANGED <<workVars, recordVars, searchVars, draftVars, jobVars>>
          /\ \/ scene = "chunks" /\ Chunks!Next
             \/ scene = "chunks in turn" /\ ChunksInTurn!Next
             \/ scene = "session corpus" /\ SessionCorpus!Next
       \/ /\ scene = "search"
          /\ UNCHANGED <<workVars, recordVars, chunkVars, draftVars, jobVars>>
          /\ Search!Next
       \/ /\ scene = "score"
          /\ UNCHANGED <<workVars, recordVars, chunkVars, searchVars, fixVars, repairVars,
                        jobVars>>
          /\ Score!Next
       \/ /\ scene \in {"fixes", "project fixes"}
          /\ UNCHANGED <<workVars, recordVars, chunkVars, searchVars, scoreVars, repairVars,
                        jobVars>>
          /\ \/ scene = "fixes" /\ Fixes!Next
             \/ scene = "project fixes" /\ ProjectFixes!Next
       \/ /\ scene \in {"drafts", "draft parts"}
          /\ UNCHANGED <<workVars, recordVars, chunkVars, searchVars, scoreVars, fixVars,
                        jobVars>>
          /\ \/ scene = "drafts" /\ Drafts!Next
             \/ scene = "draft parts" /\ DraftParts!Next
       \/ /\ scene \in {"table", "table fed", "table shared"}
          /\ UNCHANGED <<workVars, textVars, deskVars>>
          /\ \/ scene = "table" /\ Table!Next
             \/ scene = "table fed" /\ TableFed!Next
             \/ scene = "table shared" /\ TableShared!Next
       \/ /\ scene \in {"jobs kept", "bookmarks"}
          /\ UNCHANGED <<workVars, textVars, tableVars>>
          /\ \/ scene = "jobs kept" /\ JobsKept!Next
             \/ scene = "bookmarks" /\ Bookmarks!Next

Spec == Init /\ [][Next]_vars

Symmetry == Permutations(Two) \cup Permutations(Pair) \cup Permutations(Trio)

-----------------------------------------------------------------------------
\* Applications stay within the plan and have no unconfirmed twins, an application's
\* history ends at its status, and its attachments stay within their limit, whatever
\* requests about it overlap (routers/tracker.py 150-984).
TrackerSound ==
    /\ scene = "slots" => Slots!TypeOK /\ Slots!WithinLimit /\ Slots!NoSilentTwin
    /\ scene = "tracker" =>
          /\ Tracker!TypeOK /\ Tracker!WithinLimit /\ Tracker!NoSilentTwin
          /\ Tracker!HistoryEndsAtStatus /\ Tracker!AttachmentsWithin

\* No notification is delivered more often than its own lost answers and cut off runs
\* explain, and one that is marked sent was accepted by a channel of its own; at most one
\* request holds the probe slot of a circuit that cools down, and while no request is lost
\* the circuit opens once failures reach the threshold (notifications/dispatcher.py,
\* handlers of notification_scheduler, jobs/circuit_breaker.py 46-122).
ProvidersSound ==
    /\ scene = "outbox" => Outbox!TypeOK /\ Outbox!NoSpareCopies /\ Outbox!SentReached
    /\ scene = "circuit" => Circuit!TypeOK /\ Circuit!OneProbe
    /\ scene = "circuit kept" =>
          CircuitKept!TypeOK /\ CircuitKept!OneProbe /\ CircuitKept!ThresholdOpens

\* The table of jobs that a career page listed and the search over all pages hold the same
\* open jobs; an alert is written once, its status tells whether, and watches and saved
\* searches stay within their limits (career_poll_worker, career_matcher, limits.py).  A
\* job of the last poll is found by every search and one that is gone is not, what is shown
\* can be opened, titles outlive a change of filters, an analysis is charged once and a
\* bookmark is answered (job_service.py, corpus_sync.py, routers/jobs.py).
WatchSound ==
    /\ scene = "feed" => Feed!TypeOK /\ Feed!CachesAgree
    /\ scene = "alerts" => Alerts!TypeOK /\ Alerts!NotifiedOnce /\ Alerts!StatusTells
    /\ scene = "backlog" => Backlog!TypeOK /\ Backlog!NotifiedOnce /\ Backlog!StatusTells
    /\ scene = "watches" => Watches!TypeOK /\ Watches!WithinLimit
    /\ scene = "saved" => Saved!TypeOK /\ Saved!WithinSaved /\ Saved!WithinAlerts
    /\ scene = "table" =>
          Table!TypeOK /\ Table!PageIsFound /\ Table!GoneIsHidden /\ Table!ShownIsStored
    /\ scene = "table fed" => TableFed!TypeOK /\ TableFed!PageIsFound /\ TableFed!ShownIsStored
    /\ scene = "table shared" => TableShared!TypeOK /\ TableShared!ShownIsStored
    /\ scene = "jobs kept" =>
          JobsKept!TypeOK /\ JobsKept!TitlesKept /\ JobsKept!OneFitCharge
    /\ scene = "bookmarks" => Bookmarks!TypeOK /\ Bookmarks!SaveAnswers

\* A session has one row at most, the scores a row shows were measured in the session it
\* leads to, and a polished row can be opened again (dashboard/resume_record.py 329-526,
\* dashboard/session_cache.py 40-419).  A check explains what it holds against a resume, its
\* advice never lowers the score, and a fix replaces the bullet it was written for
\* (phase4_score.py, phase4_deterministic.py, anchored_patch.py).  However the model
\* answers, a tailored resume has the roles of the parsed one with their titles and words,
\* no employer or number of the model's own, and a run about a part changes that part only
\* (phase3_rewrite.py, phase3_truthfulness.py).
RecordsSound ==
    /\ scene = "records" =>
          Records!TypeOK /\ Records!OnePerSession /\ Records!ScoreIsOwn /\ Records!Reopenable
    /\ scene = "records kept" =>
          /\ RecordsKept!TypeOK /\ RecordsKept!OnePerSession /\ RecordsKept!ScoreIsOwn
          /\ RecordsKept!Reopenable
    /\ scene = "old records" =>
          OldRecords!TypeOK /\ OldRecords!OnePerSession /\ OldRecords!ScoreIsOwn
    /\ scene = "score" =>
          /\ Score!TypeOK /\ Score!KeywordsExplained /\ Score!FailuresExplained
          /\ Score!AdviceHelps /\ Score!SeverityCurrent
    /\ scene = "fixes" => Fixes!TypeOK /\ Fixes!FixReplacesItsOwn
    /\ scene = "project fixes" => ProjectFixes!TypeOK /\ ProjectFixes!FixReplacesItsOwn
    /\ scene = "drafts" =>
          /\ Drafts!TypeOK /\ Drafts!RolesTrue /\ Drafts!NothingInvented
          /\ Drafts!NoneEmptied /\ Drafts!MetricsEarned
    /\ scene = "draft parts" =>
          /\ DraftParts!TypeOK /\ DraftParts!RolesTrue /\ DraftParts!NothingInvented
          /\ DraftParts!NoneEmptied /\ DraftParts!WithinScope

\* The chunks of uploads are those of the last one, however uploads, edits and polished
\* resumes overlap; in turn they are counted right, have vectors of their content, and a
\* session has one generation of tailored rows.  A text is stored whole in pieces of bounded
\* size, and a search selects the best chunk of a critical section and accounts for every
\* other (crud.py, corpus_writer.py, chunking.py, retrieval_service.py).
CorpusSound ==
    /\ scene = "chunks" => Chunks!TypeOK /\ Chunks!OneUpload
    /\ scene = "chunks in turn" =>
          /\ ChunksInTurn!TypeOK /\ ChunksInTurn!OneUpload /\ ChunksInTurn!CountTrue
          /\ ChunksInTurn!VectorOfContent
    /\ scene = "session corpus" => SessionCorpus!TypeOK /\ SessionCorpus!LatestOnly
    /\ scene = "search" =>
          /\ Search!TypeOK /\ Search!PiecesCover /\ Search!SearchKeepsBest
          /\ Search!StrongBeforeWeak
=============================================================================
