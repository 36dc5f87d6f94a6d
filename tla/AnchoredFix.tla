----------------------------- MODULE AnchoredFix -----------------------------
(***************************************************************************)
(* Fixing the issues of a quality check by chat (agent/chat.py,            *)
(* services/anchored_patch.py, and the editor's copy of it): an issue      *)
(* points at its bullet by section, entry and index, or quotes it; the     *)
(* language model writes one patch per issue and the server stamps on it   *)
(* the text that is at the anchor it chooses for the patch; the user       *)
(* accepts patches one by one while editing the resume.                    *)
(*                                                                         *)
(* A bullet remembers whose place it is ("slot") and which bullet its text *)
(* was written for ("about"): only the properties read these.  Bounds:     *)
(* MaxAsks questions, MaxTargets issues of a question.                     *)
(***************************************************************************)
EXTENDS Integers, Sequences, FiniteSets

CONSTANTS
    Layout,         \* the resume: of each section its entries, named, with their bullets
    Flaws,          \* issues of the check, in order: of which bullet, and how it is told
    Looks,          \* what a quotation shows of a bullet
    Mentions,       \* the project names a message may hold
    Named,          \* whether the model names the entry of an anchored target
    Skips,          \* whether it leaves out targets that are shown as stale
    Fresh,          \* whether users ask only about issues whose bullet is known, and check
                    \* again first if bullets were removed
    MaxTargets, MaxAsks,
    None

VARIABLES
    resume,         \* the tailored resume
    issues,         \* the issues of the last check
    moved,          \* whether bullets were removed since
    pending,        \* the suggestions shown
    asks

vars == <<resume, issues, moved, pending, asks>>

SectionNames == {"experience", "projects"}

Ids == {Flaws[i].on : i \in DOMAIN Flaws}

FixAssumption ==
    /\ DOMAIN Layout = SectionNames
    /\ \A i \in DOMAIN Flaws : Flaws[i].by \in {"anchor", "quote", "keyword"}
    /\ Named \in BOOLEAN /\ Skips \in BOOLEAN /\ Fresh \in BOOLEAN
    /\ MaxTargets \in Nat \ {0} /\ MaxAsks \in Nat

-----------------------------------------------------------------------------
Places(r) == UNION {UNION {{[section |-> s, entry |-> e, bullet |-> b] :
                              b \in DOMAIN r[s][e].bullets} : e \in DOMAIN r[s]} :
                      s \in SectionNames}

At(r, a) == r[a.section][a.entry].bullets[a.bullet]

\* Names of companies and of projects are distinct, and none is part of another.
NameAt(r, a) == r[a.section][a.entry].name

\* What is at an anchor, unless it is stale.
Resolves(r, a) == a \in Places(r)

PlacesOf(r, id) == {a \in Places(r) : At(r, a).slot = id}

\* A quotation is the beginning of a bullet; a rewritten bullet begins otherwise.
HintMatches(text, hint) ==
    Looks[text.about] = Looks[hint.about] /\ text.new = hint.new

\* The anchor of an issue that only quotes its bullet: the one place that looks like it.
InferAnchor(r, issue) ==
    LET M == {a \in Places(r) : issue.hint # None /\ HintMatches(At(r, a).text, issue.hint)}
    IN IF issue.anchor # None THEN issue.anchor
       ELSE IF Cardinality(M) = 1 THEN CHOOSE a \in M : TRUE ELSE None

Enriched(r, targets) ==
    [i \in DOMAIN targets |-> [targets[i] EXCEPT !.anchor = InferAnchor(r, targets[i])]]

\* The targets a patch may be for: of its section and entry, or, if it names no entry, of
\* the section whose field for new text it fills in ("writes").
Matches(r, p, targets) ==
    {i \in DOMAIN targets :
       LET a == targets[i].anchor
       IN /\ a # None /\ Resolves(r, a) /\ a.section = p.section
          /\ \/ p.name = NameAt(r, a)
             \/ p.name = None /\ p.writes = p.section}

MatchAnchor(r, p, targets) ==
    LET M == Matches(r, p, targets)
    IN IF Cardinality(M) = 1 THEN targets[CHOOSE i \in M : TRUE].anchor ELSE None

Conflicts(r, p, a) ==
    \/ ~Resolves(r, a)
    \/ a.section = p.section /\ p.name \notin {None, NameAt(r, a)}

\* The anchor of the patch at a position: by content, by position, its own.
AnchorFor(r, p, targets, i) ==
    LET own == IF p.anchor # None /\ \E j \in DOMAIN targets : targets[j].anchor = p.anchor
               THEN p.anchor ELSE None
    IN IF MatchAnchor(r, p, targets) # None THEN MatchAnchor(r, p, targets)
       ELSE IF i <= Len(targets) /\ targets[i].anchor # None
                 /\ (Len(targets) = 1 \/ ~Conflicts(r, p, targets[i].anchor))
       THEN targets[i].anchor ELSE own

HydratePatch(r, p, a) ==
    IF a = None THEN p
    ELSE IF ~Resolves(r, a) THEN [p EXCEPT !.anchor = a]
    ELSE [p EXCEPT !.anchor = a, !.section = a.section, !.name = NameAt(r, a),
                   !.old = At(r, a).text]

Hydrated(r, patches, targets) ==
    IF \A i \in DOMAIN targets : targets[i].anchor = None THEN patches
    ELSE [i \in DOMAIN patches |->
            HydratePatch(r, patches[i], AnchorFor(r, patches[i], targets, i))]

\* A message that names one project takes patches of that project only; a project patch
\* without a name is dropped.
Filtered(patches, mentioned) ==
    IF Cardinality(mentioned) # 1 THEN patches
    ELSE SelectSeq(patches, LAMBDA p : p.section = "projects" => p.name \in mentioned)

\* The patch the model writes for a target.  Of an anchored one it supplies the new text,
\* as it is told to, and perhaps the entry's name; otherwise it names entry and bullet.
Written(r, t) ==
    LET here == CHOOSE a \in PlacesOf(r, t.on) : TRUE
        a == IF t.anchor # None THEN t.anchor ELSE here
    IN [for |-> t.on, section |-> a.section, writes |-> a.section, anchor |-> None,
        name |-> IF t.anchor = None \/ (Named /\ Resolves(r, a)) THEN NameAt(r, a) ELSE None,
        old |-> IF t.anchor = None THEN At(r, a).text ELSE None]

\* Targets without an anchor whose bullet is gone get no patch; stale ones may get none.
Answered(r, t) ==
    IF t.anchor = None THEN PlacesOf(r, t.on) # {} ELSE Skips => Resolves(r, t.anchor)

Reply(r, targets) ==
    LET chosen == SelectSeq(targets, LAMBDA t : Answered(r, t))
    IN [i \in DOMAIN chosen |-> Written(r, chosen[i])]

\* chat.run.
Chat(r, asked, mentioned) ==
    LET targets == Enriched(r, SubSeq(asked, 1, IF Len(asked) < MaxTargets THEN Len(asked)
                                                ELSE MaxTargets))
    IN Hydrated(r, Filtered(Reply(r, targets), mentioned), targets)

\* Where the editor applies a patch: at its anchor if the text there is still the old one,
\* else at that text in the entry the patch names.
Spot(r, p) ==
    LET there == {a \in Places(r) : /\ a = p.anchor /\ a.section = p.writes
                                    /\ p.old \in {None, At(r, a).text}}
        named == {a \in Places(r) : /\ a.section = p.section /\ p.writes = p.section
                                    /\ NameAt(r, a) = p.name /\ At(r, a).text = p.old}
    IN IF there # {} THEN CHOOSE a \in there : TRUE
       ELSE IF named # {} THEN CHOOSE a \in named : \A b \in named : a.bullet <= b.bullet
       ELSE None

-----------------------------------------------------------------------------
Issue(r, flaw) ==
    LET a == CHOOSE a \in PlacesOf(r, flaw.on) : TRUE
    IN [on |-> flaw.on, anchor |-> IF flaw.by = "anchor" THEN a ELSE None,
        hint |-> IF flaw.by = "quote" THEN At(r, a).text ELSE None]

\* The check lists the flaws of the bullets that were not rewritten.
Listing(r) ==
    LET open == SelectSeq(Flaws, LAMBDA f : \E a \in PlacesOf(r, f.on) : ~At(r, a).text.new)
    IN [i \in DOMAIN open |-> Issue(r, open[i])]

Fill(entries) ==
    [e \in DOMAIN entries |->
       [name |-> entries[e].name,
        bullets |-> [b \in DOMAIN entries[e].bullets |->
                       [slot |-> entries[e].bullets[b],
                        text |-> [about |-> entries[e].bullets[b], new |-> FALSE]]]]]

Init ==
    /\ resume = [s \in SectionNames |-> Fill(Layout[s])]
    /\ issues = Listing(resume)
    /\ moved = FALSE /\ pending = {} /\ asks = 0

Check ==
    /\ issues' = Listing(resume) /\ moved' = FALSE
    /\ UNCHANGED <<resume, pending, asks>>

\* The user selects issues and sends a message that mentions projects or none; the editor
\* hydrates the answer once more, with the targets it asked for.
Ask(chosen, mentioned) ==
    LET asked == LET order == SelectSeq([i \in DOMAIN issues |-> i], LAMBDA i : i \in chosen)
                 IN [i \in DOMAIN order |-> issues[order[i]]]
        answer == Hydrated(resume, Chat(resume, asked, mentioned), Enriched(resume, asked))
    IN /\ asks < MaxAsks /\ asks' = asks + 1
       /\ chosen # {}
       /\ Fresh => ~moved /\ \A i \in DOMAIN asked : InferAnchor(resume, asked[i]) # None
       /\ pending' = pending \cup {answer[i] : i \in {i \in DOMAIN answer :
                                                       Spot(resume, answer[i]) # None}}
       /\ UNCHANGED <<resume, issues, moved>>

Accept(p) ==
    LET a == Spot(resume, p)
    IN /\ a # None
       /\ resume' = [resume EXCEPT ![a.section][a.entry].bullets[a.bullet].text =
                       [about |-> p.for, new |-> TRUE]]
       /\ pending' = pending \ {p}
       /\ UNCHANGED <<issues, moved, asks>>

\* The user removes a bullet: those behind it move up.
Remove(a) ==
    /\ resume' = [resume EXCEPT ![a.section][a.entry].bullets =
                    SubSeq(@, 1, a.bullet - 1) \o SubSeq(@, a.bullet + 1, Len(@))]
    /\ moved' = TRUE
    /\ UNCHANGED <<issues, pending, asks>>

Next ==
    \/ Check
    \/ \E chosen \in SUBSET DOMAIN issues, mentioned \in Mentions : Ask(chosen, mentioned)
    \/ \E p \in pending : Accept(p)
    \/ \E a \in Places(resume) : Remove(a)

Spec == Init /\ [][Next]_vars

-----------------------------------------------------------------------------
TypeOK ==
    /\ \A a \in Places(resume) : At(resume, a).slot \in Ids
    /\ \A i \in DOMAIN issues : issues[i].on \in Ids
    /\ \A p \in pending : p.for \in Ids /\ p.section \in SectionNames
    /\ moved \in BOOLEAN /\ asks \in 0..MaxAsks

\* An accepted fix replaces the bullet it was written for, whatever the user removed or
\* accepted between the answer and the click (anchored_patch.py 319-390,
\* applyResumePatch.ts 404-447).
FixReplacesItsOwn ==
    \A a \in Places(resume) : At(resume, a).text.about = At(resume, a).slot

-----------------------------------------------------------------------------
\* Claims the code does not keep.

\* A target whose bullet is known gets its patch although the model names no project, as it
\* is told to: "the server fills those from the anchor" (chat.py 221-235).  The filter of
\* chat.py 84-102 comes first, and drops it when the message names one project.
NothingDropped ==
    \A i \in DOMAIN issues, mentioned \in Mentions :
       issues[i].anchor # None /\ Resolves(resume, issues[i].anchor) =>
         Chat(resume, <<issues[i]>>, mentioned) # <<>>
=============================================================================
