----------------------------- MODULE ResumeScore -----------------------------
(***************************************************************************)
(* The quality check of a tailored resume (agent/phase4_score.py,          *)
(* phase4_deterministic.py, phase4_qa.py, phase4_narrative.py,             *)
(* checkup_guidance.py, services/checkup_service.py): thirteen axes whose  *)
(* weights sum to 100 are scored from what the resume says, their findings *)
(* become issues beside those of the language model, and a summary of      *)
(* categories is told from a cache that all sessions of the process share. *)
(*                                                                         *)
(* A draft is what the axes tell apart: of a bullet whether it has a       *)
(* digit, how it opens, its length and its slips; of a keyword the         *)
(* sections it is found in as a token ("placed") and whether it occurs at  *)
(* all as plain text ("loose").  Points are counted in 60ths, so that the  *)
(* shares of up to six items are exact.  Bounds: MaxBullets, MaxChecks.    *)
(***************************************************************************)
EXTENDS Integers, Sequences, FiniteSets, TLC

CONSTANTS
    Drafts,         \* the drafts a session may start with
    Others,         \* drafts of other sessions, checked by the same process
    Keywords,       \* the must-have keywords of the job
    Vocabulary,     \* verbs and phrases of the tone of the job
    Buzzwords,      \* phrases counted as filler
    Stage,          \* "mid" or "senior", the user's career stage
    MaxBullets,     \* bound of the bullets of a draft
    MaxChecks,      \* bound of the checks
    None            \* no report, or no summary

VARIABLES
    draft,          \* the resume being edited
    report,         \* what the last check of it returned
    cache,          \* summaries already told, by their key
    checks          \* number of checks so far

vars == <<draft, report, cache, checks>>

\* At most five findings of an axis are listed; no axis here can have more.
ScoreAssumption ==
    /\ Stage \in {"mid", "senior"} /\ Others \subseteq Drafts
    /\ MaxBullets \in 1..5 /\ MaxChecks \in Nat
    /\ \A S \in {Keywords, Vocabulary, Buzzwords} : IsFiniteSet(S) /\ Cardinality(S) <= 5
    /\ None \notin Drafts

Sections == {"skills", "summary", "experience"}

Bullets == [digit : BOOLEAN, opens : {"strong", "other", "none"},
            words : {"short", "sweet", "long"}, weak : BOOLEAN, person : BOOLEAN]

\* pages: up to 1.1, 1.5, 2.1, 2.5 and more than 2.5 estimated pages.
WellFormed(d) ==
    /\ d.bullets \in Seq(Bullets) /\ Len(d.bullets) <= MaxBullets
    /\ d.placed \in [Keywords -> SUBSET Sections] /\ d.loose \subseteq Keywords
    /\ d.summary \in {"none", "plain", "person"} /\ d.said \subseteq Vocabulary \cup Buzzwords
    /\ d.skills \in BOOLEAN /\ d.name \in BOOLEAN /\ d.email \in BOOLEAN
    /\ d.named \in 0..d.fields /\ d.pages \in 1..5
    /\ \A k \in Keywords :
          /\ "skills" \in d.placed[k] => d.skills
          /\ "summary" \in d.placed[k] => d.summary # "none"
          /\ "experience" \in d.placed[k] => d.bullets # <<>>

-----------------------------------------------------------------------------
Weight == [keyword_presence |-> 25, tone_alignment |-> 5, keyword_dual_placement |-> 10,
           section_completeness |-> 5, contact_completeness |-> 5, bullet_metrics |-> 15,
           action_verbs |-> 10, bullet_length |-> 5, resume_length |-> 3, weak_phrases |-> 5,
           first_person |-> 5, buzzwords |-> 3, field_completeness |-> 4]

\* n / d to the nearest integer, a half to the even one.
Rounded(n, d) ==
    LET q == n \div d
        r == n % d
    IN IF 2 * r > d \/ (2 * r = d /\ q % 2 = 1) THEN q + 1 ELSE q

\* The thresholds are percentages.
StatusFromRatio(n, d, passAt, warnAt) ==
    IF 100 * n >= passAt * d THEN "pass" ELSE IF 100 * n >= warnAt * d THEN "warn" ELSE "fail"

\* An axis that earns n of d shares, that loses a point for each of n slips, that has
\* nothing to lose.
Shared(axis, n, d, passAt, warnAt, issues) ==
    [points |-> (60 * Weight[axis] * n) \div d, issues |-> issues,
     status |-> StatusFromRatio(n, d, passAt, warnAt)]

Deducted(axis, n, issues) ==
    [points |-> IF n < Weight[axis] THEN 60 * (Weight[axis] - n) ELSE 0, issues |-> issues,
     status |-> IF n = 0 THEN "pass" ELSE IF n <= 2 THEN "warn" ELSE "fail"]

Full(axis) == [points |-> 60 * Weight[axis], status |-> "pass", issues |-> {}]

Where(d, Test(_)) == {n \in DOMAIN d.bullets : Test(d.bullets[n])}

Listed(kind, S) == {<<kind, x>> : x \in S}

-----------------------------------------------------------------------------
\* The axes.
Missing(d) == {k \in Keywords : d.placed[k] = {}}
Single(d) == {k \in Keywords : Cardinality(d.placed[k]) = 1}
Dual(d) == Keywords \ (Missing(d) \cup Single(d))

KeywordPresence(d) ==
    IF Keywords = {} THEN Full("keyword_presence")
    ELSE Shared("keyword_presence", Cardinality(Keywords \ Missing(d)), Cardinality(Keywords),
                90, 70, Listed("missing", Missing(d)))

KeywordDual(d) ==
    IF Keywords = {} THEN Full("keyword_dual_placement")
    ELSE Shared("keyword_dual_placement", Cardinality(Dual(d)), Cardinality(Keywords), 80, 50,
                Listed("single", Single(d)))

\* A resume without bullets has no metrics, and no other flaw in its bullets.
Metrics(d) ==
    LET plain == Where(d, LAMBDA b : ~b.digit)
    IN IF d.bullets = <<>>
       THEN [points |-> 0, status |-> "fail", issues |-> {<<"bullet", 0>>}]
       ELSE Shared("bullet_metrics", Len(d.bullets) - Cardinality(plain), Len(d.bullets),
                   85, 60, Listed("metric", plain))

\* A bullet without any word opens with no strong verb, and is not listed.
ActionVerbs(d) ==
    IF d.bullets = <<>> THEN Full("action_verbs")
    ELSE Shared("action_verbs", Cardinality(Where(d, LAMBDA b : b.opens = "strong")),
                Len(d.bullets), 85, 60,
                Listed("verb", Where(d, LAMBDA b : b.opens = "other")))

BulletLength(d) ==
    LET sweet == Where(d, LAMBDA b : b.words = "sweet")
    IN IF d.bullets = <<>> THEN Full("bullet_length")
       ELSE Shared("bullet_length", Cardinality(sweet), Len(d.bullets), 80, 50,
                   Listed("length", DOMAIN d.bullets \ sweet))

\* The expected length is one page, two of a senior's resume.
ResumeLength(d, stage) ==
    LET over == d.pages - (IF stage = "senior" THEN 3 ELSE 1)
    IN IF over <= 0 THEN Full("resume_length")
       ELSE [points |-> IF over = 1 THEN 36 * Weight["resume_length"]
                                    ELSE 12 * Weight["resume_length"],
             status |-> IF over = 1 THEN "warn" ELSE "fail", issues |-> {<<"pages", 0>>}]

SectionCompleteness(d) ==
    LET absent == (IF d.summary = "none" THEN {"summary"} ELSE {})
                    \cup (IF d.skills THEN {} ELSE {"skills"})
                    \cup (IF d.bullets = <<>> THEN {"experience"} ELSE {})
    IN Shared("section_completeness", 3 - Cardinality(absent), 3, 100, 66,
              Listed("section", absent))

Contact(d) ==
    LET absent == (IF d.name THEN {} ELSE {"name"}) \cup (IF d.email THEN {} ELSE {"email"})
    IN Shared("contact_completeness", 2 - Cardinality(absent), 2, 100, 50,
              Listed("contact", absent))

WeakPhrases(d) ==
    LET offenders == Where(d, LAMBDA b : b.weak)
    IN Deducted("weak_phrases", Cardinality(offenders), Listed("weak", offenders))

\* Number 0 stands for the summary.
FirstPerson(d) ==
    LET offenders == Where(d, LAMBDA b : b.person)
                       \cup (IF d.summary = "person" THEN {0} ELSE {})
    IN Deducted("first_person", Cardinality(offenders), Listed("person", offenders))

BuzzwordAxis(d) ==
    LET hits == d.said \cap Buzzwords
    IN Deducted("buzzwords", Cardinality(hits), Listed("buzz", hits))

FieldCompleteness(d) ==
    IF d.fields = 0 THEN Full("field_completeness")
    ELSE Shared("field_completeness", d.named, d.fields, 100, 75,
                Listed("field", (d.named + 1)..d.fields))

ToneAlignment(d) ==
    IF Vocabulary = {} THEN Full("tone_alignment")
    ELSE Shared("tone_alignment", Cardinality(d.said \cap Vocabulary), Cardinality(Vocabulary),
                60, 30, Listed("echo", Vocabulary \ d.said))

Axes(d, stage) ==
    [keyword_presence |-> KeywordPresence(d), tone_alignment |-> ToneAlignment(d),
     keyword_dual_placement |-> KeywordDual(d),
     section_completeness |-> SectionCompleteness(d), contact_completeness |-> Contact(d),
     bullet_metrics |-> Metrics(d), action_verbs |-> ActionVerbs(d),
     bullet_length |-> BulletLength(d), resume_length |-> ResumeLength(d, stage),
     weak_phrases |-> WeakPhrases(d), first_person |-> FirstPerson(d),
     buzzwords |-> BuzzwordAxis(d), field_completeness |-> FieldCompleteness(d)]

-----------------------------------------------------------------------------
\* The score and what it could become.
Least(a, b) == IF a < b THEN a ELSE b
Greatest(a, b) == IF a > b THEN a ELSE b

RECURSIVE SumOver(_, _)
SumOver(f, S) ==
    IF S = {} THEN 0 ELSE LET x == CHOOSE x \in S : TRUE IN f[x] + SumOver(f, S \ {x})

Points(axes, S) == SumOver([a \in S |-> axes[a].points], S)

AtsScore(axes) == Rounded(Points(axes, DOMAIN Weight), 60)

ScoreCeiling(axes) ==
    LET headroom == 6000 - Points(axes, DOMAIN Weight)
        ats == AtsScore(axes)
    IN Greatest(ats, Least(100, ats + Rounded(85 * headroom, 6000)))

\* The headroom of the tone is left out, the one of missing keywords counts in part.
RecoverableCeiling(d, axes) ==
    LET Gap(a) == 60 * Weight[a] - axes[a].points
        part == IF Single(d) # {} THEN 85 ELSE IF Missing(d) # {} THEN 60 ELSE 100
        rest == DOMAIN Weight \ {"keyword_presence", "tone_alignment"}
        reach == 6000 * AtsScore(axes) + part * Gap("keyword_presence")
                   + 100 * SumOver([a \in rest |-> Gap(a)], rest)
    IN Greatest(AtsScore(axes),
                Least(Least(ScoreCeiling(axes), Rounded(reach, 6000)), 100))

RoleFit == {"keyword_presence", "keyword_dual_placement", "tone_alignment"}

TailorVerdict(d, axes) ==
    LET fit == Rounded(100 * Points(axes, RoleFit), 60 * 40)
        quality == Rounded(100 * Points(axes, DOMAIN Weight \ RoleFit), 60 * 60)
        gap == RecoverableCeiling(d, axes) - AtsScore(axes)
    IN CASE quality >= 75 /\ fit >= 75 -> "fix_format_only"
         [] ~(quality >= 75 /\ fit >= 75) /\ fit < 25 /\ Cardinality(Missing(d)) >= 4
              /\ quality < 50 -> "skip"
         [] OTHER -> IF gap >= 12 /\ fit >= 40 THEN "worth_it"
                     ELSE IF gap >= 8 THEN "maybe" ELSE "fix_format_only"

-----------------------------------------------------------------------------
\* The issues.  The model's keyword issues are the sets of keywords they name; one whose
\* keywords all occur in the text, as tokens or not, is dropped.
Corpus(d) == d.loose \cup (Keywords \ Missing(d))

Shown(d, named) == {T \in named : ~(T \subseteq Corpus(d))}

FlaggedUnshown(d, named) == UNION named
Flagged(d, named) == UNION Shown(d, named)

\* The other axes' findings become issues unless the axis passes.
BlockingIssues(d, axes, named) ==
    Listed("named", Shown(d, named))
      \cup Listed("missing", Missing(d) \ Flagged(d, named))
      \cup Listed("single", Single(d) \ Flagged(d, named))
      \cup UNION {axes[a].issues :
                    a \in {a \in DOMAIN Weight \ {"keyword_presence", "keyword_dual_placement"} :
                             axes[a].status # "pass"}}

-----------------------------------------------------------------------------
\* The narrative.
Categories ==
    [relevance |-> {"keyword_presence", "keyword_dual_placement"},
     impact |-> {"bullet_metrics", "action_verbs"},
     style |-> {"section_completeness", "contact_completeness", "field_completeness",
                "bullet_length", "resume_length", "weak_phrases", "first_person", "buzzwords"}]

Severity(axes, S) ==
    IF \E a \in S : axes[a].status = "fail" THEN "critical"
    ELSE IF \E a \in S : axes[a].status = "warn" THEN "urgent" ELSE "minor"

CategorySummaries(axes) ==
    [c \in DOMAIN Categories |->
       [severity |-> Severity(axes, Categories[c]),
        count |-> Cardinality(UNION {axes[a].issues :
                    a \in {a \in Categories[c] : axes[a].status # "pass"}})]]

\* The key has the score, and each axis with its status and its points to a tenth.
NarrativeKey(axes) ==
    <<AtsScore(axes), [a \in DOMAIN Weight |->
                         <<axes[a].status, Rounded(10 * axes[a].points, 60)>>]>>

Narrative(axes) ==
    IF NarrativeKey(axes) \in DOMAIN cache THEN cache[NarrativeKey(axes)]
    ELSE CategorySummaries(axes)

-----------------------------------------------------------------------------
Init == draft \in Drafts /\ report = None /\ cache = <<>> /\ checks = 0

\* A check with the keyword issues the language model names; the call for the narrative
\* may fail, and the report is then without summaries.
Check(named, narrated) ==
    LET axes == Axes(draft, Stage)
        told == Narrative(axes)
    IN /\ checks < MaxChecks /\ checks' = checks + 1
       /\ report' = [of |-> draft, score |-> AtsScore(axes), ceiling |-> ScoreCeiling(axes),
                     recoverable |-> RecoverableCeiling(draft, axes),
                     verdict |-> TailorVerdict(draft, axes),
                     issues |-> BlockingIssues(draft, axes, named),
                     told |-> IF narrated THEN told ELSE None]
       /\ cache' = IF narrated THEN (NarrativeKey(axes) :> told) @@ cache ELSE cache
       /\ UNCHANGED draft

\* The checkup without a session, which asks the model for no issues.
Checkup(narrated) == Check({}, narrated)

\* What becomes of a draft whose author follows an issue and changes nothing else; which
\* of two sections takes a keyword is the author's choice.
Follow(d, issue, section) ==
    LET x == issue[2]
        Mend(b) == [d EXCEPT !.bullets[x] = b]
        Place(S) == [d EXCEPT !.placed[x] = @ \cup S,
                              !.skills = @ \/ "skills" \in S,
                              !.summary = IF @ = "none" /\ "summary" \in S THEN "plain" ELSE @]
    IN CASE issue[1] = "missing" -> Place({"skills", section})
         [] issue[1] = "single" -> Place({section})
         [] issue[1] = "metric" -> Mend([d.bullets[x] EXCEPT !.digit = TRUE])
         [] issue[1] = "verb" -> Mend([d.bullets[x] EXCEPT !.opens = "strong"])
         [] issue[1] = "length" -> Mend([d.bullets[x] EXCEPT !.words = "sweet"])
         [] issue[1] = "weak" -> Mend([d.bullets[x] EXCEPT !.weak = FALSE])
         [] issue[1] = "person" -> IF x = 0 THEN [d EXCEPT !.summary = "plain"]
                                   ELSE Mend([d.bullets[x] EXCEPT !.person = FALSE])
         [] issue[1] = "buzz" -> [d EXCEPT !.said = @ \ {x}]
         [] issue[1] = "echo" -> [d EXCEPT !.said = @ \cup {x}]
         [] issue = <<"section", "summary">> -> [d EXCEPT !.summary = "plain"]
         [] issue = <<"section", "skills">> -> [d EXCEPT !.skills = TRUE]
         [] issue = <<"contact", "name">> -> [d EXCEPT !.name = TRUE]
         [] issue = <<"contact", "email">> -> [d EXCEPT !.email = TRUE]
         [] issue[1] = "field" -> [d EXCEPT !.named = @ + 1]

\* The issues that say what to write; the others leave open which bullet to add or to cut.
Plain(issue) ==
    /\ issue[1] \notin {"bullet", "pages", "named"} /\ issue # <<"section", "experience">>

Outcomes(d, issue) ==
    IF issue[1] \in {"missing", "single"}
    THEN {Follow(d, issue, s) :
            s \in {s \in {"experience", "summary"} \ d.placed[issue[2]] :
                     s = "experience" => d.bullets # <<>>}}
    ELSE {Follow(d, issue, "none")}

\* The author follows an issue of the report, which is of this draft.
Edit == /\ report # None /\ report.of = draft
        /\ \E i \in {i \in report.issues : Plain(i)} : draft' \in Outcomes(draft, i)
        /\ UNCHANGED <<report, cache, checks>>

\* The process turns to another session's draft.
Turn(d) == draft' = d /\ report' = None /\ UNCHANGED <<cache, checks>>

\* One issue of the model at most, of one or more keywords.
Next ==
    \/ \E T \in SUBSET Keywords \ {{}}, narrated \in BOOLEAN : Check({T}, narrated)
    \/ \E narrated \in BOOLEAN : Checkup(narrated)
    \/ Edit
    \/ \E d \in Others : Turn(d)

Spec == Init /\ [][Next]_vars

-----------------------------------------------------------------------------
\* Types; the score, what rewording reaches and the ceiling are ordered, as the model of
\* the answer requires (models/qa.py 138-144).
TypeOK ==
    /\ WellFormed(draft) /\ checks \in 0..MaxChecks
    /\ report # None =>
          /\ 0 <= report.score /\ report.score <= report.recoverable
          /\ report.recoverable <= report.ceiling /\ report.ceiling <= 100

\* Every keyword that is missing, or in one section only, is named by an issue the user is
\* shown, whatever the model said about it and however it occurs in the text
\* (phase4_qa.py 216-263, phase4_deterministic.py 71-110).
KeywordsExplained ==
    report # None =>
      \A k \in Missing(report.of) \cup Single(report.of) :
         \E i \in report.issues : i[1] \in {"missing", "single", "named"}
                                    /\ (IF i[1] = "named" THEN k \in i[2] ELSE k = i[2])

\* Every axis that does not pass is explained by an issue of its own; a bullet that has no
\* word is shown as too short only (phase4_deterministic.py 111-146).
FailuresExplained ==
    report # None =>
      LET axes == Axes(report.of, Stage)
      IN \A a \in DOMAIN Weight \ {"keyword_presence", "keyword_dual_placement"} :
            axes[a].status # "pass" => axes[a].issues \cap report.issues # {}

\* Following an issue that says what to write never lowers the score, whichever section
\* takes the keyword (phase4_score.py 313-990).
AdviceHelps ==
    report # None =>
      \A i \in {i \in report.issues : Plain(i)} : \A d \in Outcomes(report.of, i) :
         AtsScore(Axes(d, Stage)) >= report.score

\* The severities told are those of the resume at hand, also when an earlier session's
\* narrative is told again (phase4_narrative.py 78-88, 216-277).
SeverityCurrent ==
    report # None /\ report.told # None =>
      LET axes == Axes(report.of, Stage)
      IN \A c \in DOMAIN Categories :
            report.told[c].severity = Severity(axes, Categories[c])

-----------------------------------------------------------------------------
\* Claims the code does not keep.

\* The numbers of issues told are those of the resume at hand: "severity + issue_count are
\* authoritative" (phase4_narrative.py 252).  The key has shares, not numbers.
CountCurrent ==
    report # None /\ report.told # None =>
      report.told = CategorySummaries(Axes(report.of, Stage))

\* "The user sees every concrete gap" (phase4_qa.py 219-223): an axis that passes with a
\* loss shows no issue.
GapsExplained ==
    report # None =>
      \A a \in DOMAIN Weight \ {"keyword_presence", "keyword_dual_placement"} :
         LET axis == Axes(report.of, Stage)[a]
         IN axis.points < 60 * Weight[a] => axis.issues \cap report.issues # {}

\* A resume is not better off without its bullets (phase4_score.py 405-565).
EmptyIsNoBetter ==
    \A d \in Drafts :
      (d.bullets # <<>> /\ \A k \in Keywords : "experience" \notin d.placed[k]) =>
        AtsScore(Axes([d EXCEPT !.bullets = <<>>], Stage)) <= AtsScore(Axes(d, Stage))

\* What rewording "could reach" is not lowered by rewording (checkup_guidance.py 24-55).
CeilingKept ==
    report # None =>
      \A i \in {i \in report.issues : Plain(i) /\ i[1] # "missing"} :
         \A d \in Outcomes(report.of, i) :
            RecoverableCeiling(d, Axes(d, Stage)) >= report.recoverable

\* A resume that was left alone scores what it scored before: the original score is that
\* of a mid-career resume (routers/sessions.py 84-97).
SameAsOriginal ==
    report # None => report.score = AtsScore(Axes(report.of, "mid"))
=============================================================================
