----------------------------- MODULE CorpusIndex -----------------------------
(***************************************************************************)
(* The master resume of a user, its chunks, and the corpus that grows from *)
(* his sessions.  One row holds the text and a cached number of chunks;    *)
(* the chunks are soft-deleted rows with an embedding.  Uploads replace    *)
(* every chunk, the profile page adds, edits and deletes single ones, and  *)
(* a polished resume writes its titles and dates into them.  Writes show   *)
(* at COMMIT; the row and the chunks carry row locks until then, which     *)
(* uploads take in one order and edits in the other.                       *)
(***************************************************************************)
EXTENDS Integers, Sequences, FiniteSets

CONSTANTS
    Requests,
    Ops,        \* what clients and background tasks do
    MaxRows,    \* bound: chunks ever inserted
    MaxTexts,   \* bound: texts ever written, and polished resumes
    Overlap,    \* whether they do it at the same time
    None

Uploads == {"upload", "story"}
Additions == {"bullet_fix", "user_note", "claimed_keyword"}
AllOps == Uploads \cup Additions \cup {"add", "patch", "delete", "blank", "sync", "embed"}
CorpusAssumption ==
    /\ MaxRows \in Nat \ {0} /\ MaxTexts \in Nat /\ Overlap \in BOOLEAN
    /\ Ops \subseteq AllOps /\ None \notin Requests

VARIABLES
    resume,     \* the row of the master resume
    chunk,      \* its chunks
    corpus,     \* live rows of the corpus of sessions
    made,       \* texts written so far
    rowLock,    \* who holds the row of the resume
    locks,      \* who holds each chunk
    req         \* what each request is doing

vars == <<resume, chunk, corpus, made, rowLock, locks, req>>

Rows == 1..MaxRows
Roles == {1, 2}     \* a company's title and dates, as the resume has them and as corrected
NoResume == [upload |-> 0, count |-> 0, valid |-> FALSE]
NoChunk == [upload |-> 0, text |-> 0, heads |-> <<>>, role |-> 0, vec |-> None, live |-> FALSE]
NoReq == [pc |-> "idle", op |-> None, row |-> NoResume, at |-> 0, copy |-> NoChunk,
          text |-> 0, olds |-> {}]

\* What is embedded: the text, and the headings in front of it.
Content(c) == <<c.text, c.heads>>
Zero == <<0, <<>> >>

TypeOK ==
    /\ resume \in [upload : 0..MaxTexts, count : 0..MaxRows, valid : BOOLEAN]
    /\ \A c \in Rows : chunk[c].upload \in 0..MaxTexts /\ chunk[c].live \in BOOLEAN
    /\ rowLock \in Requests \cup {None} /\ locks \in [Rows -> Requests \cup {None}]
    /\ \A k \in corpus : k.source \in {"tailored_resume"} \cup Additions /\ k.run \in 1..MaxTexts

Init ==
    /\ resume = NoResume
    /\ chunk = [c \in Rows |-> NoChunk]
    /\ corpus = {}
    /\ made = 0
    /\ rowLock = None
    /\ locks = [c \in Rows |-> None]
    /\ req = [q \in Requests |-> NoReq]

-----------------------------------------------------------------------------
Exists == resume # NoResume
Filled == Cardinality({c \in Rows : chunk[c] # NoChunk})
Fresh(n) == {c \in Rows : Filled < c /\ c <= Filled + n}

\* get_chunks_for_user.
Live == {c \in Rows : chunk[c].live}

Starts(q, op) ==
    /\ op \in Ops /\ req[q] = NoReq
    /\ Overlap \/ \A o \in Requests : req[o] = NoReq

Free(q, cs) == \A c \in cs : locks[c] \in {None, q}
\* COMMIT or ROLLBACK: get_db, and the sessions that background tasks open.
Ends(q) ==
    /\ req' = [req EXCEPT ![q] = NoReq]
    /\ rowLock' = IF rowLock = q THEN None ELSE rowLock
    /\ locks' = [c \in Rows |-> IF locks[c] = q THEN None ELSE locks[c]]

Fails(q) == Ends(q) /\ UNCHANGED <<resume, chunk, corpus, made>>

\* embed_texts for an insertion: zeros when the provider fails.
Embedded(content) == {content, Zero}

-----------------------------------------------------------------------------
(***************************************************************************)
(* Uploads and polished resumes: the row first, the chunks then            *)
(***************************************************************************)
\* What a request starts with: a text of its own, and the row as it is now.
Begin(q, op, pc) ==
    /\ Starts(q, op) /\ made < MaxTexts
    /\ made' = made + 1
    /\ req' = [req EXCEPT ![q] = [NoReq EXCEPT !.pc = pc, !.op = op, !.row = resume,
                                  !.text = made + 1]]
    /\ UNCHANGED <<resume, chunk, corpus, rowLock, locks>>

\* create_or_replace_resume, replace_resume: parsed, and the row looked up.
Upload(q) == Begin(q, "upload", "upsert")

\* save_resume_from_story, once the story is paid for.
SaveStory(q) == Begin(q, "story", "upsert")

\* _structure_with_llm: however many chunks the model makes of the text.
Parsed == 1..2

\* commit_tailored_resume: the task that propagates a polished resume.
Polish(q) ==
    /\ Starts(q, "sync") /\ made < MaxTexts /\ Exists
    /\ made' = made + 1
    /\ \E role \in Roles :
         req' = [req EXCEPT ![q] = [NoReq EXCEPT !.pc = "upsert", !.op = "sync",
                                    !.row = resume, !.text = role]]
    /\ UNCHANGED <<resume, chunk, corpus, rowLock, locks>>

\* mutant: an upsert that writes nothing when the text is there already locks nothing.
UpsertUnlocked(q) ==
    /\ req[q].pc = "upsert"
    /\ req' = [req EXCEPT ![q].pc = "chunks"]
    /\ UNCHANGED <<resume, chunk, corpus, made, rowLock, locks>>

\* _upsert_master_resume: updated_at changes with every call, so the row is locked; of
\* two that insert it the second breaks the unique key.
Upsert(q) ==
    /\ req[q].pc = "upsert" /\ rowLock = None
    /\ IF req[q].row = NoResume /\ Exists
         THEN Ends(q)
         ELSE /\ rowLock' = q /\ req' = [req EXCEPT ![q].pc = "chunks"] /\ locks' = locks
    /\ UNCHANGED <<resume, chunk, corpus, made>>

\* replace_all_chunks, step 2.
Wipe(q) ==
    /\ req[q].pc = "chunks" /\ req[q].op \in Uploads /\ Free(q, Live)
    /\ locks' = [c \in Rows |-> IF c \in Live THEN q ELSE locks[c]]
    /\ req' = [req EXCEPT ![q].pc = "store", ![q].olds = Live]
    /\ UNCHANGED <<resume, chunk, corpus, made, rowLock>>

\* chunk_parsed_sections, _insert_chunks.
NewChunks(q, new, vec) ==
    [c \in Rows |->
        IF c \in req[q].olds THEN [chunk[c] EXCEPT !.live = FALSE]
        ELSE IF c \in new
          THEN [upload |-> req[q].text, text |-> req[q].text, heads |-> <<>>,
                role |-> IF req[q].op \in Uploads THEN 1 ELSE 0, vec |-> vec, live |-> TRUE]
          ELSE chunk[c]]

\* The unit of work writes a column whose value differs from the one it loaded.
Written(loaded, value, stored) == IF value = loaded THEN stored ELSE value

\* replace_all_chunks, steps 3 and 4: last_embedded_at is set whatever was embedded.
Replace(q) ==
    /\ req[q].pc = "store" /\ req[q].op \in Uploads
    /\ \E n \in Parsed, vec \in Embedded(<<req[q].text, <<>> >>) :
         /\ Filled + n <= MaxRows
         /\ chunk' = NewChunks(q, Fresh(n), vec)
         /\ resume' = [upload |-> req[q].text, valid |-> TRUE,
                       count |-> Written(req[q].row.count, n, resume.count)]
    /\ Ends(q)
    /\ UNCHANGED <<corpus, made>>

\* A chunk of a company of the polished resume: its heading is put in front when title or
\* dates differ from the last ones.
Retitled(c, role) ==
    IF c.role \in {0, role} THEN c
    ELSE IF c.heads # <<>> /\ Head(c.heads) = role THEN [c EXCEPT !.role = role]
    ELSE LET heads == <<role>> \o c.heads IN
         [c EXCEPT !.role = role, !.heads = heads, !.vec = <<c.text, heads>>]

Changed(q) == {c \in Live : Retitled(chunk[c], req[q].text) # chunk[c]}

\* _sync_master_resume_chunks; a failure of the provider rolls it back and is logged.
Sync(q) ==
    /\ req[q].pc = "chunks" /\ req[q].op = "sync" /\ Free(q, Changed(q))
    /\ \/ /\ chunk' = [c \in Rows |-> IF c \in Changed(q)
                                       THEN Retitled(chunk[c], req[q].text) ELSE chunk[c]]
          /\ UNCHANGED resume
       \/ UNCHANGED <<resume, chunk>>
    /\ Ends(q)
    /\ UNCHANGED <<corpus, made>>

-----------------------------------------------------------------------------
(***************************************************************************)
(* Single chunks: the chunk first, the row then                            *)
(***************************************************************************)
\* bulk_insert_chunks, add_chunks: refused without a row.
Add(q) == Exists /\ Begin(q, "add", "store")

\* add_chunks: inserts, and adds to the number that was read.
AppendChunk(q) ==
    /\ req[q].pc = "store" /\ req[q].op = "add" /\ rowLock = None
    /\ Filled < MaxRows
    /\ \E vec \in Embedded(<<req[q].text, <<>> >>) :
         chunk' = [NewChunks(q, Fresh(1), vec) EXCEPT ![Filled + 1].upload = 0]
    /\ resume' = [resume EXCEPT !.count = req[q].row.count + 1, !.valid = TRUE]
    /\ Ends(q)
    /\ UNCHANGED <<corpus, made>>

\* patch_chunk, delete_chunk: get_chunk.  An edit may keep the text; "blank" clears it.
Look(q, op) ==
    /\ Starts(q, op) /\ op \in {"patch", "delete", "blank"}
    /\ \E c \in Live : \E text \in {chunk[c].text} \cup (IF op = "patch" THEN {made + 1} ELSE {}) :
         /\ text <= MaxTexts
         /\ made' = IF text > made THEN text ELSE made
         /\ req' = [req EXCEPT ![q] = [NoReq EXCEPT !.pc = "mark", !.op = op, !.at = c,
                                       !.copy = chunk[c], !.text = text]]
    /\ UNCHANGED <<resume, chunk, corpus, rowLock, locks>>

\* The lookup of the resume flushes the chunk; without a vector an edit fails before.
Mark(q) ==
    /\ req[q].pc = "mark"
    /\ \/ req[q].op = "patch" /\ Fails(q)
       \/ /\ Free(q, {req[q].at})
          /\ locks' = [locks EXCEPT ![req[q].at] = q]
          /\ req' = [req EXCEPT ![q].pc = "save", ![q].row = resume]
          /\ UNCHANGED <<resume, chunk, corpus, made, rowLock>>

\* update_chunk_content: the text if it differs from the one read, the vector anyway.
Edited(q) ==
    LET c == chunk[req[q].at]
        same == req[q].text = req[q].copy.text
        heads == IF same THEN req[q].copy.heads ELSE <<>>
    IN [c EXCEPT !.text = Written(req[q].copy.text, req[q].text, c.text),
                 !.heads = IF same THEN c.heads ELSE heads,
                 !.vec = <<req[q].text, heads>>]

Patch(q) ==
    /\ req[q].op = "patch"
    /\ chunk' = [chunk EXCEPT ![req[q].at] = Edited(q)]
    /\ resume' = [resume EXCEPT !.valid = TRUE]

\* delete_chunk: the number that was read less one.
Delete(q) ==
    LET n == req[q].row.count IN
    /\ req[q].op = "delete"
    /\ chunk' = [chunk EXCEPT ![req[q].at].live = FALSE]
    /\ resume' = [resume EXCEPT
                    !.count = Written(n, IF n = 0 THEN 0 ELSE n - 1, resume.count)]

\* A blank text deletes the chunk and returns None, the route answers 404, and get_db
\* rolls back.
Blank(q) == req[q].op = "blank" /\ UNCHANGED <<chunk, resume>>

Save(q) ==
    /\ req[q].pc = "save" /\ rowLock = None
    /\ Patch(q) \/ Delete(q) \/ Blank(q)
    /\ Ends(q)
    /\ UNCHANGED <<corpus, made>>

\* An upload that waits for a chunk whose editor waits for the row: PostgreSQL rolls one
\* of them back.
Waits(q, o) ==
    /\ rowLock = q /\ req[q].pc = "chunks" /\ req[o].pc = "save"
    /\ req[o].at \in IF req[q].op \in Uploads THEN Live ELSE Changed(q)
Deadlock(q, o) == Waits(q, o) /\ \E v \in {q, o} : Fails(v)

-----------------------------------------------------------------------------
(***************************************************************************)
(* The corpus of sessions, each write in a transaction of its own          *)
(***************************************************************************)
\* embed_tailored_resume: _soft_delete_session_source sees what is committed ...
Embed(q) ==
    /\ Starts(q, "embed") /\ made < MaxTexts
    /\ made' = made + 1
    /\ req' = [req EXCEPT ![q] = [NoReq EXCEPT !.pc = "corpus", !.op = "embed", !.text = made + 1,
                                  !.olds = {k \in corpus : k.source = "tailored_resume"}]]
    /\ UNCHANGED <<resume, chunk, corpus, rowLock, locks>>

\* _enqueue_corpus_additions, _maybe_embed_edited_bullet: tasks that add and remove nothing.
Enqueue(q, source) == Begin(q, source, "corpus")

BulletFix(q) == Enqueue(q, "bullet_fix")
UserNotes(q) == Enqueue(q, "user_note")
ClaimedKeywords(q) == Enqueue(q, "claimed_keyword")

CorpusRow(q) ==
    [source |-> IF req[q].op = "embed" THEN "tailored_resume" ELSE req[q].op,
     run |-> req[q].text]

\* ... _insert_chunks and COMMIT; an error is logged and nothing is written.
StoreRows(q) ==
    /\ req[q].pc = "corpus"
    /\ \/ corpus' = (corpus \ req[q].olds) \cup {CorpusRow(q)}
       \/ UNCHANGED corpus
    /\ Ends(q)
    /\ UNCHANGED <<resume, chunk, made>>

Next == \E q \in Requests :
    \/ Upload(q) \/ SaveStory(q) \/ Polish(q) \/ Upsert(q) \/ Wipe(q) \/ Replace(q) \/ Sync(q)
    \/ Add(q) \/ AppendChunk(q) \/ \E op \in Ops : Look(q, op)
    \/ Mark(q) \/ Save(q) \/ \E o \in Requests : Deadlock(q, o)
    \/ Embed(q) \/ BulletFix(q) \/ UserNotes(q) \/ ClaimedKeywords(q) \/ StoreRows(q)

Spec == Init /\ [][Next]_vars

-----------------------------------------------------------------------------
\* The chunks of uploads that retrieval finds are those of the last upload, whatever
\* overlaps: the row lock of the upsert lets one upload wipe what the other inserted
\* (crud.py 157-201).
OneUpload == \A c \in Live : chunk[c].upload \in {0, resume.upload}

\* The cached number of chunks is the number of live ones.  While requests come one at a
\* time it is; overlapping ones each add to or subtract from the number they read
\* (crud.py 199, 271, 345).
CountTrue == resume.count = Cardinality(Live)

\* A live chunk's vector is that of its content, or zeros.  While requests come one at a
\* time it is; an edit that keeps the text writes the vector of the text it read over the
\* one of a polished resume (crud.py 303-312, tailored_persistence.py 88-106).
VectorOfContent == \A c \in Live : chunk[c].vec \in {Content(chunk[c]), Zero}

\* corpus_writer.py 145: "a re-run only keeps the latest output".  Two runs of a session
\* that end together keep both.
LatestOnly == \A k, l \in corpus : {k.source, l.source} = {"tailored_resume"} => k = l

\* crud.py 219: "signal that embeddings are not valid", which routers/profile.py 407 turns
\* into the warning of an upload.  The callers set the mark again.
WarnsOfZeros == (\E c \in Live : chunk[c].vec = Zero) => ~resume.valid

\* tailored_persistence.py 87: the heading of a chunk reflects the corrected dates.  A second
\* correction puts a second heading in front of the first.
OneHeading == \A c \in Live : Len(chunk[c].heads) <= 1
=============================================================================
