----------------------------- MODULE DraftRepair -----------------------------
(***************************************************************************)
(* What becomes of a draft the language model writes in phase 3            *)
(* (agent/phase3_rewrite.py, phase3_hollow.py, phase3_experience_fallback  *)
(* .py, phase3_postprocess.py, phase3_truthfulness.py).  A reply without   *)
(* roles is no reply; what is missing is filled in from the tailored       *)
(* resume of the run before and from the parsed resume; numbers nobody     *)
(* approved, altered titles and invented employers are taken out again.    *)
(* A run may be about one section, one role or one bullet, or about a      *)
(* chunk of the master resume to add.  Between runs the user edits roles   *)
(* and approves numbers.                                                   *)
(*                                                                         *)
(* A title stands for title and dates.  Of a bullet the number in it, of   *)
(* which it has one or none, and whether there is anything else; and how   *)
(* many must-have keywords were put before it.  Of the other sections who  *)
(* wrote them: 0 for a missing one, 1 for the parsed resume's.  Bounds:    *)
(* MaxRuns, MaxRoles.                                                      *)
(***************************************************************************)
EXTENDS Integers, Sequences, FiniteSets, SequencesExt

CONSTANTS
    Parsed,         \* the roles of the parsed resume
    Alike,          \* pairs of names one of which contains the other
    Written,        \* roles the model may write
    Manual,         \* roles the user may add by hand
    Additions,       \* roles of the master resume the user may ask to add
    Offers,         \* numbers the user may approve, each for an employer
    Inside,         \* pairs of numbers the first of which is part of the second's text
    Keywords,       \* must-have keywords without a digit
    Others,         \* sections beside the experience
    Restored,       \* those that restore_missing_sections knows
    FirstMax, PriorMax, \* limits of bullets, of the first role and of the others
    Ops,            \* "run", "regen", "add", "approve", "manual", "remove"
    Obedient,       \* whether a reply holds what was asked for and nothing else
    MaxRuns,
    MaxRoles,       \* roles with which the user may still add one
    None

DraftAssumption ==
    /\ Restored \subseteq Others /\ "experience" \notin Others
    /\ {Keywords, MaxRuns, MaxRoles} \subseteq Nat /\ {FirstMax, PriorMax} \subseteq Nat \ {0}
    /\ Obedient \in BOOLEAN
    /\ Ops \subseteq {"run", "regen", "add", "approve", "manual", "remove"}

VARIABLES
    tailored,       \* phase3_output, None before the first run
    approved,       \* approved_metrics
    ever,           \* history: all numbers that ever were approved
    removed,        \* history: employers whose role the user removed and never asked for again
    before,         \* history: the tailored resume before the last run
    last,           \* history: the last run, None after an edit
    runs

vars == <<tailored, approved, ever, removed, before, last, runs>>

Blank(b) == ~b.words /\ b.metric = None
Kept(bullets) == SelectSeq(bullets, LAMBDA b : ~Blank(b))
AllBlank(e) == Kept(e.bullets) = <<>>

\* _companies_match, for names of four letters and more.
CompaniesMatch(a, b) == a = b \/ <<a, b>> \in Alike \/ <<b, a>> \in Alike
HasCompany(exp, c) == \E i \in DOMAIN exp : CompaniesMatch(exp[i].company, c)

FirstOf(S) == IF S = {} THEN 0 ELSE Min(S)

\* Positions of the roles with a very name.
Same(exp, c) == {i \in DOMAIN exp : exp[i].company = c}

-----------------------------------------------------------------------------
\* phase3_is_hollow
Hollow(exp) == \A i \in DOMAIN exp : exp[i].bullets = <<>>

\* _absorb_keyword: the first keyword a bullet does not hold is put before it.
Absorbed(b) == IF b.keys < Keywords THEN [b EXCEPT !.keys = @ + 1] ELSE b

\* The role an employer has in the draft before or in the parsed resume, the first of each.
Remembered(c, prior) ==
    LET p == FirstOf(Same(prior, c))
        r == FirstOf(Same(Parsed, c))
        bullets == IF p # 0 /\ prior[p].bullets # <<>> THEN Kept(prior[p].bullets)
                   ELSE IF r # 0 THEN Kept(Parsed[r].bullets) ELSE <<>>
    IN [company |-> c,
        title |-> IF p # 0 THEN prior[p].title ELSE IF r # 0 THEN Parsed[r].title ELSE None,
        bullets |-> [i \in DOMAIN bullets |-> Absorbed(bullets[i])]]

\* _company_keys
Employers(prior) ==
    FoldLeft(LAMBDA names, e : IF Contains(names, e.company) THEN names
                               ELSE Append(names, e.company), <<>>, prior \o Parsed)

\* apply_experience_fallback
Fallback(exp, prior) ==
    IF Hollow(exp)
    THEN LET names == Employers(prior)
             roles == [i \in DOMAIN names |-> Remembered(names[i], prior)]
         IN SelectSeq(roles, LAMBDA e : e.bullets # <<>>)
    ELSE [i \in DOMAIN exp |->
            LET own == Remembered(exp[i].company, prior)
            IN IF AllBlank(exp[i]) /\ own.bullets # <<>> THEN own ELSE exp[i]]

-----------------------------------------------------------------------------
\* enforce_experience_bullet_limits
Limited(exp) ==
    [i \in DOMAIN exp |->
       LET limit == IF i = 1 THEN FirstMax ELSE PriorMax
       IN [exp[i] EXCEPT !.bullets = IF Len(@) <= limit THEN @ ELSE SubSeq(@, 1, limit)]]

\* _metric_allowed: within the text of a number approved for the employer as it is written.
MetricAllowed(c, m) ==
    \E a \in approved : a[1] = c /\ (a[2] = m \/ <<m, a[2]>> \in Inside)

\* validate_bullet_metrics
Validated(exp) ==
    [i \in DOMAIN exp |->
       [exp[i] EXCEPT !.bullets =
          [j \in DOMAIN @ |-> IF @[j].metric = None \/ MetricAllowed(exp[i].company, @[j].metric)
                              THEN @[j] ELSE [@[j] EXCEPT !.metric = None]]]]

\* _company_lookup and _lookup_parsed_company: of several roles of an employer the last
\* one; of an employer that is only alike, the first name that matches.
Original(c) ==
    LET alike == {i \in DOMAIN Parsed : CompaniesMatch(c, Parsed[i].company)}
    IN IF Same(Parsed, c) # {} THEN Max(Same(Parsed, c))
       ELSE IF alike # {} THEN Max(Same(Parsed, Parsed[Min(alike)].company)) ELSE 0

\* enforce_entry_integrity
WithIntegrity(exp, prior) ==
    LET kept == SelectSeq(exp, LAMBDA e : Original(e.company) # 0
                                          \/ HasCompany(prior, e.company))
    IN [i \in DOMAIN kept |->
          LET o == Original(kept[i].company)
          IN IF o = 0 THEN kept[i]
             ELSE [kept[i] EXCEPT !.title = Parsed[o].title, !.company = Parsed[o].company]]

\* backfill_empty_experience_bullets
Backfilled(exp, prior) ==
    LET Work(source, c) == FirstOf({i \in DOMAIN source : /\ source[i].bullets # <<>>
                                                           /\ CompaniesMatch(source[i].company, c)})
        Bullets(c) == IF Work(prior, c) # 0 THEN Kept(prior[Work(prior, c)].bullets)
                      ELSE IF Work(Parsed, c) # 0 THEN Kept(Parsed[Work(Parsed, c)].bullets)
                      ELSE <<>>
    IN [i \in DOMAIN exp |->
          IF AllBlank(exp[i]) /\ Bullets(exp[i].company) # <<>>
          THEN [exp[i] EXCEPT !.bullets = Bullets(exp[i].company)] ELSE exp[i]]

\* restore_missing_experience
WithMissing(exp, prior) ==
    LET sources == FoldLeft(LAMBDA known, e : IF HasCompany(known, e.company) THEN known
                                              ELSE Append(known, e), prior, Parsed)
    IN exp \o SelectSeq(sources, LAMBDA e : ~HasCompany(exp, e.company))

\* restore_missing_sections
WithSections(rest, prior) ==
    [s \in Others |-> IF rest[s] # 0 \/ s \notin Restored THEN rest[s]
                      ELSE IF prior[s] # 0 THEN prior[s] ELSE 1]

Guarded(out, prior) ==
    [exp |-> WithMissing(Backfilled(WithIntegrity(Validated(out.exp), prior.exp), prior.exp),
                         prior.exp),
     rest |-> WithSections(out.rest, prior.rest)]

\* postprocess_tailored_output: the guards come after the limits.
PostProcessed(out, prior) == Guarded([out EXCEPT !.exp = Limited(@)], prior)

-----------------------------------------------------------------------------
\* The replies, and what complete_structured and _complete_phase3_llm make of them: one
\* without roles is refused, one that cannot be parsed or had becomes an empty draft.
Replies == [exp : {<<>>} \cup {<<e>> : e \in Written} \cup {<<e, f>> : e, f \in Written},
            has : SUBSET Others]

Taken(reply) == IF Hollow(reply.exp) THEN [exp |-> <<>>, has |-> {}] ELSE reply

EmptyDraft == [exp |-> <<>>, rest |-> [s \in Others |-> 0]]
Prior == IF tailored = None THEN EmptyDraft ELSE tailored

\* The draft after the fallback.
Draft(reply) ==
    LET taken == Taken(reply)
    IN [exp |-> Fallback(taken.exp, Prior.exp),
        rest |-> [s \in Others |-> IF s \in taken.has THEN runs + 2 ELSE 0]]

\* _merge_scoped_output, for a role, a bullet, the experience or another section.
Merged(old, part, scope) ==
    LET at == FirstOf(Same(old.exp, scope.company))
        new == part.exp[1]
    IN IF scope.section \in Others
       THEN [old EXCEPT !.rest[scope.section] = IF part.rest[scope.section] # 0
                                                THEN part.rest[scope.section] ELSE @]
       ELSE IF part.exp = <<>> THEN old
       ELSE IF scope.company = None THEN [old EXCEPT !.exp = part.exp]
       ELSE IF scope.bullet # 0
       THEN IF at # 0 /\ new.bullets # <<>> /\ scope.bullet \in DOMAIN old.exp[at].bullets
            THEN [old EXCEPT !.exp[at].bullets[scope.bullet] = new.bullets[1]] ELSE old
       ELSE IF at # 0 THEN [old EXCEPT !.exp[at] = [new EXCEPT !.title = old.exp[at].title]]
       ELSE [old EXCEPT !.exp = Append(@, new)]

\* The loop over the approved numbers uses the name of the run's scope for their employer:
\* with any number approved, a run about a part ends in an error.
ScopeLost == approved # {}

Scopes ==
    {[section |-> s, company |-> None, bullet |-> 0] : s \in Others \cup {"experience"}}
    \cup {[section |-> "experience", company |-> Prior.exp[i].company, bullet |-> b] :
            i \in DOMAIN Prior.exp, b \in 0 .. FirstMax}

Obeys(reply, scope) ==
    IF scope.section \in Others THEN reply.exp = <<>> /\ reply.has = {scope.section}
    ELSE /\ reply.has = {} /\ reply.exp # <<>> /\ reply.exp[1].bullets # <<>>
         /\ scope.company # None => Len(reply.exp) = 1 /\ reply.exp[1].company = scope.company

NoScope == [section |-> "none", company |-> None, bullet |-> 0]

Ended(op, scope, ok) ==
    /\ runs < MaxRuns /\ runs' = runs + 1
    /\ before' = Prior /\ last' = [op |-> op, scope |-> scope, ok |-> ok]
    /\ removed' = removed \ {scope.company}
    /\ UNCHANGED <<approved, ever>>

\* run, for the whole resume.
Run(reply) ==
    /\ "run" \in Ops
    /\ tailored' = PostProcessed(Draft(reply), Prior)
    /\ Ended("run", NoScope, TRUE)

\* run, with a scope.
Regenerate(scope, reply) ==
    /\ "regen" \in Ops /\ tailored # None /\ ~ScopeLost
    /\ Obedient => Obeys(reply, scope)
    /\ tailored' = PostProcessed(Merged(tailored, Draft(reply), scope), tailored)
    /\ Ended("regen", scope, TRUE)

\* run, with a chunk of the master resume to add (_resolve_chunk_content).
AddChunk(chunk, reply) ==
    /\ "add" \in Ops /\ tailored # None /\ ~ScopeLost
    /\ Obedient => reply = [exp |-> <<chunk>>, has |-> {}]
    /\ tailored' = PostProcessed([tailored EXCEPT !.exp = @ \o Draft(reply).exp], tailored)
    /\ Ended("add", [NoScope EXCEPT !.company = chunk.company], TRUE)

\* A run that takes too long, or whose prompt is too long, or that has lost its scope.
Breaks(op) ==
    /\ op \in Ops /\ (op = "run" \/ tailored # None)
    /\ UNCHANGED tailored
    /\ Ended(op, NoScope, FALSE)

\* save_approved_metrics
Approve(new) ==
    /\ "approve" \in Ops /\ runs < MaxRuns /\ new # approved
    /\ approved' = new /\ ever' = ever \cup new
    /\ last' = None /\ UNCHANGED <<tailored, removed, before, runs>>

Edited(exp) == tailored' = [tailored EXCEPT !.exp = exp] /\ last' = None

\* add_experience
AddRole(e) ==
    /\ "manual" \in Ops /\ runs < MaxRuns /\ tailored # None /\ Len(tailored.exp) < MaxRoles
    /\ Edited(Append(tailored.exp, e))
    /\ removed' = removed \ {e.company}
    /\ UNCHANGED <<approved, ever, before, runs>>

\* delete
RemoveRole(i) ==
    /\ "remove" \in Ops /\ runs < MaxRuns /\ tailored # None
    /\ Edited(RemoveAt(tailored.exp, i))
    /\ removed' = removed \cup {tailored.exp[i].company}
    /\ UNCHANGED <<approved, ever, before, runs>>

Init ==
    /\ tailored = None /\ approved = {} /\ ever = {} /\ removed = {}
    /\ before = EmptyDraft /\ last = None /\ runs = 0

Next ==
    \/ \E reply \in Replies : Run(reply)
    \/ \E scope \in Scopes, reply \in Replies : Regenerate(scope, reply)
    \/ \E chunk \in Additions, reply \in Replies : AddChunk(chunk, reply)
    \/ \E op \in {"run", "regen", "add"} : Breaks(op)
    \/ \E new \in SUBSET Offers : Approve(new)
    \/ \E e \in Manual : AddRole(e)
    \/ \E i \in DOMAIN Prior.exp : RemoveRole(i)

Spec == Init /\ [][Next]_vars

-----------------------------------------------------------------------------
Names == {e.company : e \in Written \cup Manual \cup Additions \cup ToSet(Parsed)}

TypeOK ==
    /\ \/ tailored = None
       \/ /\ \A i \in DOMAIN tailored.exp : tailored.exp[i].company \in Names
          /\ tailored.rest \in [Others -> 0 .. MaxRuns + 1]
    /\ approved \subseteq ever /\ ever \subseteq Offers /\ removed \subseteq Names
    /\ runs \in 0 .. MaxRuns

After(op) == last # None /\ last.ok /\ last.op = op
AfterRun == After("run") \/ After("regen") \/ After("add")
Roles == ToSet(tailored.exp)
Wordless(e) == \A i \in DOMAIN e.bullets : ~e.bullets[i].words

\* After a run every role of the parsed resume is there, and under the name of one of its
\* employers, however the model wrote it, stand the title and dates of the parsed resume
\* (restore_missing_experience, enforce_entry_integrity).  Where no employer has two roles.
RolesTrue ==
    AfterRun => \A i \in DOMAIN Parsed :
        /\ HasCompany(tailored.exp, Parsed[i].company)
        /\ \A e \in Roles : CompaniesMatch(e.company, Parsed[i].company)
                            => e.title = Parsed[i].title

\* An employer the model makes up never enters the resume, not even by a failed run and the
\* draft of the run before: each role is of an employer of the parsed resume or of one the
\* user named (enforce_entry_integrity).
NothingInvented ==
    tailored # None => \A e \in Roles :
        \E o \in ToSet(Parsed) \cup Manual : CompaniesMatch(e.company, o.company)

\* No sequence of runs leaves a role of the parsed resume that says something without a
\* word, neither when the model leaves it empty nor when all it wrote was a number that is
\* taken out (backfill_empty_experience_bullets after validate_bullet_metrics).
NoneEmptied ==
    AfterRun => \A i \in DOMAIN Parsed, e \in Roles :
        e.company = Parsed[i].company /\ ~Wordless(Parsed[i]) => ~AllBlank(e)

\* A number stands under an employer only if the user has at some time approved it, or a
\* longer one it is part of, for that employer (validate_bullet_metrics).  Where the parsed
\* resume and the roles added by hand state none.
MetricsEarned ==
    AfterRun => \A e \in Roles : \A i \in DOMAIN e.bullets :
        LET m == e.bullets[i].metric
        IN m # None => \E a \in ever : a[1] = e.company /\ (a[2] = m \/ <<m, a[2]>> \in Inside)

\* A run about a part changes that part only: no other role, and in the role no other
\* bullet, and no other section (_merge_scoped_output and all repairs that follow).  Where
\* the model does as it is told, nothing was removed and no number approved.
WithinScope ==
    After("regen") =>
        LET scope == last.scope
            Outside(e) == scope.section # "experience" \/ e.company # scope.company
        IN /\ \A s \in Others \ {scope.section} : tailored.rest[s] = before.rest[s]
           /\ (scope.section # "experience" \/ scope.company # None) =>
                 /\ Len(tailored.exp) = Len(before.exp)
                 /\ \A i \in DOMAIN before.exp :
                      /\ Outside(before.exp[i]) => tailored.exp[i] = before.exp[i]
                      /\ (scope.bullet # 0 /\ ~Outside(before.exp[i])) =>
                            \A j \in DOMAIN before.exp[i].bullets \ {scope.bullet} :
                                tailored.exp[i].bullets[j] = before.exp[i].bullets[j]

-----------------------------------------------------------------------------
(***************************************************************************)
(* What the code does not promise (README, section 5).                     *)
(***************************************************************************)
\* phase3_truthfulness.py:140, numbers that are not approved now.
MetricsApproved ==
    AfterRun => \A e \in Roles : \A i \in DOMAIN e.bullets :
        e.bullets[i].metric # None => <<e.company, e.bullets[i].metric>> \in approved

\* phase3_postprocess.py:215.
LimitsKept ==
    AfterRun => \A i \in DOMAIN tailored.exp :
        Len(tailored.exp[i].bullets) <= IF i = 1 THEN FirstMax ELSE PriorMax

\* A role stands in the resume once.
OnceEach ==
    AfterRun => \A i, j \in DOMAIN tailored.exp :
        tailored.exp[i].company = tailored.exp[j].company => i = j

\* A run about a section, to which the model replied, renews it.
ScopeWorks ==
    (After("regen") /\ last.scope.section \in Others)
       => tailored.rest[last.scope.section] = runs + 1

\* A chunk that was to be added is there.
ChunkKept == After("add") => HasCompany(tailored.exp, last.scope.company)

\* A role the user removed stays away.
RemovedStays == AfterRun => \A e \in Roles : e.company \notin removed

\* A section the draft had is not lost by the next run.
SectionsKept == AfterRun => \A s \in Others : before.rest[s] # 0 => tailored.rest[s] # 0

\* No keyword is put before a bullet the model did not write.
NoKeywordAdded ==
    AfterRun => \A e \in Roles : \A i \in DOMAIN e.bullets : e.bullets[i].keys = 0
=============================================================================
