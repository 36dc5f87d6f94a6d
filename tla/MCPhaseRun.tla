----------------------------- MODULE MCPhaseRun -----------------------------
(***************************************************************************)
(* Instances of PhaseRun for TLC.  Three of them run side by side: a       *)
(* behaviour is of one of them, its scene.  The fourth, about progress, is *)
(* a specification of its own.  The constants of this module itself are    *)
(* large enough for the types of all of them.                              *)
(*                                                                         *)
(* The three are instances of PhaseRunProofs, so that what is proved there *)
(* for any constants is proved of the scenes, for any set of workers.      *)
(***************************************************************************)
EXTENDS PhaseRun, TLC, TLAPS

VARIABLE scene

mcVars == <<vars, scene>>

\* Triggers, views and commits of one billed phase; a task is lost with its lock.
Turns == INSTANCE PhaseRunProofs WITH
    Phases <- {4}, Requests <- {"view", "commit"}, Anonymous <- FALSE, Overlap <- FALSE,
    SlowRuns <- FALSE, Patient <- FALSE, Revs <- {1}, MaxCrashes <- 1

\* Every kind of request on an anonymous session whose clients wait for running phases.
NewJd == INSTANCE PhaseRunProofs WITH
    Phases <- {1, 2},
    Requests <- {"force", "view", "touch", "patch", "overwrite", "commit", "audit", "jd"},
    Anonymous <- TRUE, Overlap <- FALSE, SlowRuns <- FALSE, Patient <- TRUE,
    Revs <- {1, 2, 3}, MaxCrashes <- 0, MaxOwed <- 0

\* Edits of the whole resume between runs of the phases 3 and 4.
Edits == INSTANCE PhaseRunProofs WITH
    Phases <- {3, 4}, Requests <- {"view", "overwrite"}, Anonymous <- FALSE,
    Overlap <- FALSE, SlowRuns <- FALSE, Patient <- TRUE, Revs <- {1, 2, 3, 4},
    MaxCrashes <- 0, MaxOwed <- 0

\* Clients that ask again and again for one phase, requests that overlap, runs that outlast
\* their lock, and a lost task.
Recovery == INSTANCE PhaseRun WITH
    Phases <- {4}, Requests <- {}, Anonymous <- TRUE, Overlap <- TRUE, SlowRuns <- TRUE,
    Patient <- FALSE, Revs <- {1}, MaxCrashes <- 1, MaxOwed <- 0

ASSUME ScenesAssumption ==
    /\ Turns!PhaseAssumption /\ Turns!NilAssumption
    /\ NewJd!PhaseAssumption /\ NewJd!NilAssumption
    /\ Edits!PhaseAssumption /\ Edits!NilAssumption

\* In the scenes with many kinds of requests two workers are busy at most.
TwoBusy == Cardinality({w \in Workers : work'[w].stage # "idle"}) <= 2

MCInit ==
    \/ scene = "in turn" /\ Turns!Init
    \/ scene = "new jd" /\ NewJd!Init
    \/ scene = "edits" /\ Edits!Init

MCNext ==
    /\ UNCHANGED scene
    /\ \/ scene = "in turn" /\ Turns!Next
       \/ scene = "new jd" /\ NewJd!Next /\ TwoBusy
       \/ scene = "edits" /\ Edits!Next /\ TwoBusy

MCSpec == MCInit /\ [][MCNext]_mcVars

RecoverySpec ==
    /\ scene = "recovery" /\ Recovery!Init
    /\ [][Recovery!Next /\ UNCHANGED scene]_mcVars
    /\ Recovery!Fairness

Symmetry == Permutations(Workers)

-----------------------------------------------------------------------------
\* No run starts that was not asked for at the run endpoint, while requests come one at a
\* time (Authorised of PhaseRun; phases.py 391-420).
AuthorisedInTurn == [][scene = "in turn" => StartedIfOwed]_mcVars

\* Once clients wait for running phases, nothing made for an old job description is left
\* after it changed (OutputsMatchJd of PhaseRun; resume.py 427-450).
NewJdWipes == scene = "new jd" => OutputsMatchJd

\* A resume edited after its score leaves the score marked stale, and only an edited
\* resume is scored again for free (EditsMarked and WaiverEarned of PhaseRun; phases.py
\* 160-190, orchestrator.py 440-460).
MarksTrue == scene = "edits" => EditsMarked /\ WaiverEarned

\* As long as clients keep asking, every phase gets out of running (RunningEnds of
\* PhaseRun; session_store.py 130-150, orchestrator.py 270-300).
RunsEnd == Recovery!RunningEnds
-----------------------------------------------------------------------------
(***************************************************************************)
(* The theorems of PhaseRunProofs, of the scenes: a behaviour of a scene   *)
(* is one of its instance, whose assumptions its constants satisfy.        *)
(***************************************************************************)
\* A step of a scene is a step of its instance.
LEMMA ScenesApart ==
    ASSUME [MCNext]_mcVars
    PROVE  /\ scene' = scene
           /\ scene = "in turn" => [Turns!Next]_Turns!vars
           /\ scene = "new jd" => [NewJd!Next]_NewJd!vars
           /\ scene = "edits" => [Edits!Next]_Edits!vars
BY DEF MCNext, mcVars, vars, Turns!vars, NewJd!vars, Edits!vars

\* A behaviour is one of a scene's instance, or never of that scene.
LEMMA ScenesBehave ==
    /\ MCSpec => Turns!Spec \/ []~(scene = "in turn")
    /\ MCSpec => NewJd!Spec \/ []~(scene = "new jd")
    /\ MCSpec => Edits!Spec \/ []~(scene = "edits")
<1>1. /\ MCInit => Turns!Init \/ ~(scene = "in turn")
      /\ MCInit => NewJd!Init \/ ~(scene = "new jd")
      /\ MCInit => Edits!Init \/ ~(scene = "edits")
  BY DEF MCInit
<1>2. [MCNext]_mcVars =>
        /\ ~(scene = "in turn") => ~(scene = "in turn")'
        /\ ~(scene = "new jd") => ~(scene = "new jd")'
        /\ ~(scene = "edits") => ~(scene = "edits")'
        /\ scene = "in turn" => (scene = "in turn")' /\ [Turns!Next]_Turns!vars
        /\ scene = "new jd" => (scene = "new jd")' /\ [NewJd!Next]_NewJd!vars
        /\ scene = "edits" => (scene = "edits")' /\ [Edits!Next]_Edits!vars
  BY ScenesApart
<1> QED
  BY <1>1, <1>2, PTL DEF MCSpec, Turns!Spec, NewJd!Spec, Edits!Spec

\* Once clients wait for running phases, nothing made for an old job description is left
\* after it changed (NewJdWipes; resume.py 427-450), however many requests and tasks.
THEOREM ScenesWipe == MCSpec => []NewJdWipes
<1>1. NewJd!Waiting
  BY DEF NewJd!Waiting
<1>2. NewJd!Spec => []NewJd!OutputsMatchJd
  BY <1>1, ScenesAssumption, NewJd!ChangedJdWipes
<1>3. NewJd!OutputsMatchJd <=> OutputsMatchJd
  BY DEF NewJd!OutputsMatchJd, OutputsMatchJd, NewJd!Quiet, Quiet, NewJd!All, All
<1> QED
  BY <1>2, <1>3, ScenesBehave, PTL DEF NewJdWipes

\* A resume a user wrote leaves the score marked stale, and only such a resume is scored again
\* for free (MarksTrue; phases.py 160-190, orchestrator.py 440-460), however many requests.
THEOREM ScenesMark == MCSpec => []MarksTrue
<1>1. Edits!Editing
  BY DEF Edits!Editing
<1>2. Edits!Spec => [](Edits!EditsMarked /\ Edits!WaiverEarned)
  BY <1>1, ScenesAssumption, Edits!EditedOnlyFree
<1>3. Edits!EditsMarked /\ Edits!WaiverEarned => EditsMarked /\ WaiverEarned
  BY DEF Edits!EditsMarked, EditsMarked, Edits!Quiet, Quiet, Edits!WaiverEarned, WaiverEarned,
         Edits!Changed, Changed, Edits!Copy, Copy
<1> QED
  BY <1>2, <1>3, ScenesBehave, PTL DEF MarksTrue

\* No run starts that was not asked for at the run endpoint (AuthorisedInTurn; phases.py
\* 391-420), for as many requests and tasks as are counted in MaxOwed.
THEOREM ScenesAsk ==
    ASSUME IsFiniteSet(Workers), Cardinality(Workers) <= MaxOwed
    PROVE  MCSpec => AuthorisedInTurn
<1>1. Turns!InTurn
  BY DEF Turns!InTurn, Turns!IsFiniteSet, IsFiniteSet, Turns!Cardinality, Cardinality
<1>2. Turns!Spec => Turns!Authorised
  BY <1>1, ScenesAssumption, Turns!RequestedOnce
<1>3. /\ [Turns!StartedIfOwed]_Turns!vars => [scene = "in turn" => StartedIfOwed]_mcVars
      /\ ~(scene = "in turn") => [scene = "in turn" => StartedIfOwed]_mcVars
  BY DEF Turns!StartedIfOwed, StartedIfOwed, Turns!PhaseOf, PhaseOf, Turns!vars, vars, mcVars
<1> QED
  BY <1>2, <1>3, ScenesBehave, PTL DEF AuthorisedInTurn, Turns!Authorised
=============================================================================
