---------------------------- MODULE CorpusSearch ----------------------------
(***************************************************************************)
(* From a master resume to the chunks in a prompt.  Cutting: an entry of   *)
(* the parsed resume becomes items, and an item the pieces that are stored *)
(* as chunks; a text is the sequence of the lengths of its sentences, and  *)
(* a piece the interval of its characters.  Searching: the chunks of each  *)
(* section in the order of their similarity to the job description pass    *)
(* two thresholds, a cap per section and a budget of tokens.               *)
(***************************************************************************)
EXTENDS Integers, Sequences, FiniteSets, SequencesExt

CONSTANTS
    Entries,    \* entries of the parsed resume that are cut
    Cap,        \* SECTION_CHAR_CAPS of their section
    Overlap,    \* OVERLAP_CHARS
    Labels,     \* sections and corpus sources that chunks carry, by rank
    Sections,   \* _DEFAULT_SECTIONS, in their order
    Critical, Keep,                     \* sections not to lose, and the cap of each
    Floor,                              \* the least LIMIT of a section's query
    CorpusCap, Forced,                  \* chunks of the corpus, and forced into a section
    MaxChunks, Scores, Primary, Fallback,
    Tokens, Budget

SearchAssumption ==
    /\ Cap \in Nat \ {0} /\ Overlap \in Nat /\ CorpusCap \in Nat /\ Forced \in Nat \ {0}
    /\ Floor \in Nat
    /\ MaxChunks \in Nat /\ Fallback \in Nat /\ Primary \in Nat /\ Fallback <= Primary
    /\ Scores \subseteq Nat /\ Tokens \subseteq Nat \ {0} /\ Budget \in Nat
    /\ Critical \subseteq ToSet(Sections)
    /\ \A s \in ToSet(Sections) : Keep[s] \in Nat \ {0}

VARIABLES
    entry,      \* what is cut, "none" in a search
    pieces,     \* the pieces of each item
    stock,      \* the chunks of a search, as they were created
    stage, kept, skipped, selected, added

vars == <<entry, pieces, stock, stage, kept, skipped, selected, added>>
search == <<stock, kept, skipped, selected, added>>

-----------------------------------------------------------------------------
(***************************************************************************)
(* Cutting                                                                 *)
(***************************************************************************)
NonEmpty(texts) == SelectSeq(texts, LAMBDA t : t # <<>>)

\* _flatten_structured_entry: a chunk per bullet of a job; project and school as a whole,
\* heading and bullets; of anything else its first field.
Flattened(e) ==
    CASE e.section = "experience" -> NonEmpty(e.bullets)
      [] e.section \in {"project", "education"} ->
            NonEmpty(<<FoldLeft(LAMBDA all, b : all \o b, e.head, e.bullets)>>)
      [] OTHER -> NonEmpty(<<e.head>>)

\* _normalise_section_items.
Items(e) ==
    CASE e.shape = "none" -> <<>>
      [] e.shape = "text" -> NonEmpty(<<e.head>>)
      [] e.shape = "rows" -> Flattened(e)

\* Sentences with a space between them.
StartOf(text, i) ==
    FoldLeft(LAMBDA n, len : n + len + 1, 1, SubSeq(text, 1, i - 1))
Sentence(text, i) == <<StartOf(text, i), StartOf(text, i) + text[i] - 1>>
Size(p) == p[2] - p[1] + 1
Spaces(text) == {StartOf(text, i) - 1 : i \in 2..Len(text)}

\* _hard_split_with_overlap.
HardSplit(p) ==
    LET step == IF Cap <= Overlap THEN Cap ELSE Cap - Overlap
        ends(k) == p[1] + k * step + Cap - 1 >= p[2]
        last == CHOOSE k \in 0..Size(p) : ends(k) /\ \A j \in 0..(k - 1) : ~ends(j)
        end(k) == IF ends(k) THEN p[2] ELSE p[1] + k * step + Cap - 1
    IN [k \in 1..(last + 1) |-> <<p[1] + (k - 1) * step, end(k - 1)>>]

\* The end of a piece that the next one repeats, without a space in front.
Tail50(text, p) ==
    LET from == IF Size(p) > Overlap THEN p[2] - Overlap + 1 ELSE p[1]
    IN IF from \in Spaces(text) THEN from + 1 ELSE from

\* One turn of the loop of _split_with_overlap; cur is the piece under way.
Extend(text, acc, s) ==
    LET flushed == IF acc.cur = <<>> THEN acc.out ELSE Append(acc.out, acc.cur)
        longer == IF acc.cur = <<>> THEN s ELSE <<acc.cur[1], s[2]>>
    IN IF Size(s) > Cap THEN [out |-> flushed \o HardSplit(s), cur |-> <<>>]
       ELSE IF Size(longer) <= Cap THEN [acc EXCEPT !.cur = longer]
       ELSE [out |-> flushed, cur |-> <<Tail50(text, acc.cur), s[2]>>]

\* _split_with_overlap.
Split(text) ==
    LET all == <<1, Sentence(text, Len(text))[2]>>
        acc == FoldLeft(LAMBDA a, i : Extend(text, a, Sentence(text, i)),
                        [out |-> <<>>, cur |-> <<>>], [i \in DOMAIN text |-> i])
    IN IF Size(all) <= Cap THEN <<all>>
       ELSE IF acc.cur = <<>> THEN acc.out ELSE Append(acc.out, acc.cur)

\* chunk_parsed_sections.
Cut ==
    /\ stage = "cut"
    /\ pieces' = [i \in DOMAIN Items(entry) |-> Split(Items(entry)[i])]
    /\ stage' = "done"
    /\ UNCHANGED <<entry, search>>

-----------------------------------------------------------------------------
(***************************************************************************)
(* Searching                                                               *)
(***************************************************************************)
Chunks == 1..MaxChunks
NoChunk == [label |-> 0, score |-> 0, tokens |-> 0, zero |-> FALSE]
Code(c) == c.label * 100 + (IF c.zero THEN 50 ELSE c.score * 10) + c.tokens

\* Chunks by label, then score: how they are numbered decides ties only.
Stocks ==
    {s \in [Chunks -> {NoChunk} \cup [label : DOMAIN Labels, score : Scores, tokens : Tokens,
                                      zero : {FALSE}]
                         \cup [label : DOMAIN Labels, score : {0}, tokens : Tokens,
                               zero : {TRUE}]] :
       \A c, d \in Chunks : c < d => Code(s[c]) <= Code(s[d])}

LabelOf(c) == IF stock[c].label = 0 THEN "none" ELSE Labels[stock[c].label]
Searched == ToSet(Sections)
Sources == ToSet(Labels) \cap {"tailored_resume", "bullet_fix"}

\* The similarity of zeros is NaN, which comes first in descending order, and min(1.0, NaN)
\* is 1.0.
Best == 9
Score(c) == IF stock[c].zero THEN Best ELSE stock[c].score
Before(c, d) == Score(c) > Score(d) \/ (Score(c) = Score(d) /\ c < d)
Ranked(set) == SetToSortSeq(set, Before)

AtMost(seq, n) == SubSeq(seq, 1, IF Len(seq) < n THEN Len(seq) ELSE n)
Beyond(seq, n) == ToSet(SubSeq(seq, n + 1, Len(seq)))

\* _candidate_limit_for.
Limit(s) == IF Keep[s] * 2 > Floor THEN Keep[s] * 2 ELSE Floor

\* _PER_SECTION_QUERY, _query_section.
Candidates(s) == AtMost(Ranked({c \in Chunks : LabelOf(c) = s}), Limit(s))

\* _CORPUS_QUERY, _query_user_corpus.
CorpusCandidates == AtMost(Ranked({c \in Chunks : LabelOf(c) \in Sources}), CorpusCap * 2)

For(set, reason) == {<<c, reason>> : c \in set}
Passing(seq, t) == SelectSeq(seq, LAMBDA c : Score(c) >= t)
Failing(seq, t) == {c \in ToSet(seq) : Score(c) < t}

\* _select_for_section.
Select(s) ==
    LET all == Candidates(s)
        strong == Passing(all, Primary)
        weak == Passing(all, Fallback)
        forced == IF Keep[s] < Forced THEN Keep[s] ELSE Forced
    IN IF strong # <<>>
         THEN [kept |-> AtMost(strong, Keep[s]),
               skipped |-> For(Beyond(strong, Keep[s]), "cap_exceeded")
                             \cup For(Failing(all, Primary), "below_threshold")]
       ELSE IF weak # <<>>
         THEN [kept |-> AtMost(weak, Keep[s]),
               skipped |-> For(Beyond(weak, Keep[s]), "cap_exceeded")
                             \cup For(Failing(all, Fallback), "below_threshold")
                             \cup For(ToSet(AtMost(weak, Keep[s])), "fallback_used")]
       ELSE IF s \in Critical
         THEN [kept |-> AtMost(all, forced),
               skipped |-> For(Beyond(all, forced), "below_threshold")
                             \cup For(ToSet(AtMost(all, forced)), "fallback_used")]
       ELSE [kept |-> <<>>, skipped |-> For(ToSet(all), "below_threshold")]

\* has_any_live_chunk: without chunks of the master resume, or without a vector for the
\* job description, nothing is searched.
GiveUp ==
    /\ stage = "sections" /\ stage' = "done"
    /\ UNCHANGED <<entry, pieces, search>>

AnyChunk == \E c \in Chunks : LabelOf(c) \notin Sources \cup {"none"}

\* retrieve_for_jd, steps 2 to 4.
SearchSections ==
    /\ stage = "sections" /\ AnyChunk
    /\ kept' = [s \in Searched \cup Sources |->
                   IF s \in Searched THEN Select(s).kept ELSE <<>>]
    /\ skipped' = UNION {Select(s).skipped : s \in Searched}
    /\ stage' = "corpus"
    /\ UNCHANGED <<entry, pieces, stock, selected, added>>

\* Step 4b: what the corpus adds goes under the label of its source.
SearchCorpus ==
    LET fit == AtMost(Passing(CorpusCandidates, Primary), CorpusCap) IN
    /\ stage = "corpus"
    /\ kept' = [s \in DOMAIN kept |-> IF s \in Sources
                   THEN SelectSeq(fit, LAMBDA c : LabelOf(c) = s) ELSE kept[s]]
    /\ skipped' = skipped \cup For(ToSet(CorpusCandidates) \ ToSet(fit), "below_threshold")
    /\ added' = Len(fit)
    /\ stage' = "budget"
    /\ UNCHANGED <<entry, pieces, stock, selected>>

Weight(set) == FoldLeft(LAMBDA n, c : n + stock[c].tokens, 0, SetToSeq(set))
KeptSet == UNION {ToSet(kept[s]) : s \in DOMAIN kept}
Pinned == {kept[s][1] : s \in {t \in DOMAIN kept : kept[t] # <<>>}}
Worse(c, d) == Score(c) < Score(d) \/ (Score(c) = Score(d) /\ c < d)

\* The order of eviction: the lowest score first, the best of each section never.
Evicted ==
    FoldLeft(LAMBDA out, c : IF Weight(KeptSet \ out) <= Budget THEN out ELSE out \cup {c},
             {}, SetToSortSeq(KeptSet \ Pinned, Worse))

\* _enforce_token_budget.
EnforceBudget ==
    /\ stage = "budget"
    /\ kept' = [s \in DOMAIN kept |-> SelectSeq(kept[s], LAMBDA c : c \notin Evicted)]
    /\ skipped' = skipped \cup For(Evicted, "budget_exceeded")
    /\ stage' = "project"
    /\ UNCHANGED <<entry, pieces, stock, selected, added>>

\* Step 6: the sections in their order.
Project ==
    /\ stage = "project"
    /\ selected' = FoldLeft(LAMBDA all, s : all \o kept[s], <<>>, Sections)
    /\ stage' = "done"
    /\ UNCHANGED <<entry, pieces, stock, kept, skipped, added>>

Init ==
    /\ \/ entry \in Entries /\ stage = "cut" /\ stock = [c \in Chunks |-> NoChunk]
       \/ entry = [shape |-> "none"] /\ stage = "sections" /\ stock \in Stocks
    /\ pieces = <<>> /\ kept = [s \in {} |-> <<>>]
    /\ skipped = {} /\ selected = <<>> /\ added = 0

Next == Cut \/ GiveUp \/ SearchSections \/ SearchCorpus \/ EnforceBudget \/ Project

Spec == Init /\ [][Next]_vars

-----------------------------------------------------------------------------
TypeOK ==
    /\ stage \in {"cut", "sections", "corpus", "budget", "project", "done"}
    /\ ToSet(selected) \subseteq Chunks /\ added \in 0..CorpusCap
    /\ \A e \in skipped : e[2] \in {"cap_exceeded", "below_threshold", "fallback_used",
                                    "budget_exceeded"}

Ready == stage = "done" /\ kept # [s \in {} |-> <<>>]
Cuts == UNION {{<<i, k>> : k \in DOMAIN pieces[i]} : i \in DOMAIN pieces}
Within(p, x) == p[1] <= x /\ x <= p[2]

\* Every character of an item is in a piece, in the order of the text, and no piece is
\* longer than the cap, the overlap and a space (chunking.py 237-297).
PiecesCover ==
    \A i \in DOMAIN pieces : LET text == Items(entry)[i] IN
        /\ \A j \in DOMAIN text : \A x \in Sentence(text, j)[1]..Sentence(text, j)[2] :
             \E k \in DOMAIN pieces[i] : Within(pieces[i][k], x)
        /\ \A k \in 1..(Len(pieces[i]) - 1) :
             pieces[i][k][1] <= pieces[i][k + 1][1] /\ pieces[i][k][2] < pieces[i][k + 1][2]
        /\ \A k \in DOMAIN pieces[i] : Size(pieces[i][k]) <= Cap + Overlap + 1

\* chunking.py 238: "no longer than max_chars".  The overlap is put in front of a sentence
\* that fits alone.
NeverOversized == \A c \in Cuts : Size(pieces[c[1]][c[2]]) <= Cap

Rivals(c) == {d \in Chunks : LabelOf(d) = LabelOf(c)}
Named == ToSet(selected) \cup {e[1] : e \in {x \in skipped : x[2] # "fallback_used"}}

\* A chunk of a section that was searched is selected or skipped for a reason, unless as
\* many as the LIMIT of the query are more similar: then no list names it.  A section that
\* must not be lost is not, its best chunk is there whatever the budget, which is kept
\* unless the best of each section alone exceed it (retrieval_service.py 243-603).
SearchKeepsBest ==
    Ready =>
        /\ \A c \in Chunks : LabelOf(c) \in Searched /\ c \notin Named =>
              Cardinality({d \in Rivals(c) : Before(d, c)}) >= Limit(LabelOf(c))
        /\ \A c \in Chunks : LabelOf(c) \in Critical =>
              \E b \in ToSet(selected) \cap Rivals(c) : \A d \in Rivals(c) : ~Before(d, b)
        /\ Weight(KeptSet) <= Budget \/ KeptSet = Pinned

\* A chunk below the threshold is selected only from a section that has none above it.
StrongBeforeWeak ==
    Ready => \A c, d \in Chunks :
        c \in ToSet(selected) /\ LabelOf(c) = LabelOf(d) /\ Score(c) < Primary
            => Score(d) < Primary

\* What the corpus adds reaches the prompt.  Projection leaves its labels out, after it took
\* its share of the budget (retrieval_service.py 690-731).
CorpusReachesPrompt == Ready /\ added > 0 => \E c \in ToSet(selected) : LabelOf(c) \in Sources

\* A chunk leaves for the budget only if it does not fit beside what is selected.
NoneEvictedInVain ==
    Ready => \A e \in skipped : e[2] = "budget_exceeded" =>
        Weight(ToSet(selected) \cup {e[1]}) > Budget

\* The similarity that the page of chunks shows, _cosine, where zeros are unlike anything.
Shown(c) == IF stock[c].zero THEN 0 ELSE stock[c].score

\* routers/profile.py 455: the page shows "similarity vs a session's JD", which is what
\* retrieval goes by, but for zeros.
ShownIsUsed == \A c \in Chunks : Shown(c) = Score(c)

\* embedding.py 134: zero vectors "are effectively skipped".  Their NaN sorts first and is
\* clamped to 1.0.
ZerosSkipped == Ready => \A c \in ToSet(selected) : ~stock[c].zero

\* retrieval_service.py 377: "other" aggregates the long tail.  Chunks of certificates keep
\* a type of their own, which no query names; nor is there a trace of what the LIMIT of a
\* query leaves out.
AllSearched ==
    Ready => \A c \in Chunks : LabelOf(c) \notin Sources \cup {"none"} =>
        c \in ToSet(selected) \cup {e[1] : e \in skipped}
=============================================================================
