--------------------------- MODULE PhaseRunProofs ---------------------------
(***************************************************************************)
(* What PhaseRun promises for any number of requests and tasks.            *)
(*                                                                         *)
(* TypeOK is not inductive by itself: what a step writes is built from the *)
(* copy, the input or the output its worker carries, so the invariant also *)
(* says which of them a worker has at each stage.                          *)
(*                                                                         *)
(* Exclusive is about sessions whose requests do not overlap, on which     *)
(* nobody forces a run or changes the job description, with a lock that    *)
(* outlives its run.  It rests on two facts: a run past acquire_phase_lock *)
(* holds its phase's lock, and while a request resets a phase no run of    *)
(* that phase is alive.                                                    *)
(*                                                                         *)
(* The other theorems are about requests that come one at a time, too:     *)
(* then a copy of the document that somebody carries is the document, and  *)
(* a step is made by a worker while nobody else is engaged (Current,       *)
(* Moves).  ChangedJdWipes says that a changed job description leaves no   *)
(* output of the old one, RequestedOnce that no run starts twice for one   *)
(* request, EditedOnlyFree that an edited resume leaves its score marked   *)
(* and that only such a score is recomputed for free; each has an          *)
(* invariant of its own, JdInv, AskInv and EditInv.                        *)
(***************************************************************************)
EXTENDS PhaseRun, FiniteSetTheorems, TLAPS

CopyStages == {"open", "decide", "bill", "ask", "accept", "patch", "overwrite",
               "commit", "persist", "audit", "jd", "touch"}
PhaseStages == (RunStages \ {"sync"})
               \cup {"decide", "reset", "unlock", "reread", "bill", "ask", "accept"}

\* What the worker carries at each stage.
Carries(r) ==
    /\ r.stage \in CopyStages => r.copy # Nil
    /\ r.stage \in {"mark", "intel", "llm"} => r.input # Nil
    /\ r.stage = "save" => r.output # Nil
    /\ r.stage \in {"reset", "unlock"} => r.then \in {"bill", "ask", "wipe"}
    /\ r.stage = "reread" => r.then \in {"bill", "ask"}
    /\ r.stage = "open" => r.then \in {"idle", "decide"}
    /\ r.stage \in PhaseStages \/ (r.stage = "open" /\ r.then = "decide") => r.phase \in All

Carried == \A w \in Workers : Carries(work[w])

TInv == TypeOK /\ Carried

\* A worker that does nothing carries nothing.
LEMMA NobodyTyped == Nobody \in Work /\ Carries(Nobody)
BY DEF Nobody, Work, Carries, CopyStages, PhaseStages, RunStages

\* Completing a document from the snapshot keeps it a document.
LEMMA BackfilledTyped ==
    ASSUME NEW s \in Session, snapshot \in Outputs \cup {Nil}
    PROVE  Backfilled(s) \in Session
<1> DEFINE st == [p \in All |-> BackfillStatus(s, p)]
           ou == [p \in All |-> BackfillOutput(s, p)]
<1>1. CASE Missing(s) /\ snapshot # Nil
  <2>1. st \in [All -> Statuses]
    BY DEF BackfillStatus, Session, Statuses
  <2>2. ou \in Outputs
    BY <1>1 DEF BackfillOutput, Session, Outputs
  <2>3. Backfilled(s) = [s EXCEPT !.status = st, !.out = ou]
    BY <1>1 DEF Backfilled
  <2> HIDE DEF st, ou
  <2> QED
    BY <2>1, <2>2, <2>3 DEF Session
<1>2. CASE ~(Missing(s) /\ snapshot # Nil)
  BY <1>2 DEF Backfilled
<1> QED
  BY <1>1, <1>2

Stages == RunStages \cup HandlerStages \cup {"idle", "persist"}

\* A worker that moves on with another copy, or another input, is still a worker.
LEMMA Moved ==
    ASSUME NEW r \in Work, NEW stage \in Stages, NEW s \in Session \cup {Nil}
    PROVE  /\ [r EXCEPT !.stage = stage, !.copy = s] \in Work
           /\ [r EXCEPT !.stage = stage, !.input = s] \in Work
BY DEF Work, Stages

\* A worker that has read the document at the start of a request is a worker.
LEMMA OpenedTyped ==
    ASSUME NEW p \in All \cup {0}, NEW f \in BOOLEAN, NEW t \in {"idle", "decide"},
           NEW s \in Session
    PROVE  [stage |-> "open", phase |-> p, then |-> t, force |-> f, waived |-> FALSE, copy |-> s,
            input |-> Nil, output |-> Nil] \in Work
BY DEF Work, HandlerStages

\* An edit is an output.
LEMMA EditedTyped == session \in Session => \A r \in Fresh : Edited(r) \in Output
BY PhaseAssumption DEF Edited, Fresh, Output, Session, Jds

\* The initial sessions are well formed and every worker is idle.
LEMMA PhaseInit == Init => TInv
<1> SUFFICES ASSUME Init PROVE TInv
  OBVIOUS
<1> USE PhaseAssumption DEF Init
<1>1. ASSUME NEW k \in 2..4 PROVE Made(k) \in Outputs
  BY DEF Made, Outputs, Output, Jds, All
<1>2. session \in Session
  BY <1>1 DEF Session, Statuses, Jds, All
<1>3. snapshot \in Outputs \cup {Nil}
  BY <1>1
<1>4. lock \in [All -> Workers \cup {Nil, Orphan}] /\ owed \in [All -> 0..MaxOwed]
  OBVIOUS
<1>5. work \in [Workers -> Work] /\ crashes \in 0..MaxCrashes /\ Carried
  BY NobodyTyped DEF Carried
<1> QED
  BY <1>2, <1>3, <1>4, <1>5 DEF TInv, TypeOK

\* Every step keeps the types and leaves each worker with what its stage needs.
LEMMA PhaseStep == TInv /\ [Next]_vars => TInv'
<1> SUFFICES ASSUME TInv, [Next]_vars PROVE TInv'
  OBVIOUS
<1> USE PhaseAssumption, NilAssumption DEF TInv, TypeOK
<1>1. ASSUME NEW w \in Workers, Read(w) PROVE TInv'
  <2> USE <1>1 DEF Read, Rereading, Copy, PhaseOf, At, Holds, Store, Goto, Finish, Free
  <2>1. session' \in Session /\ snapshot' \in Outputs \cup {Nil}
    BY PhaseAssumption
       DEF Carried, Carries, CopyStages, Work, Session, Outputs, Statuses, Jds, All
  <2>2. /\ lock' \in [All -> Workers \cup {Nil, Orphan}]
        /\ owed' \in [All -> 0..MaxOwed]
        /\ crashes' \in 0..MaxCrashes
    BY DEF Work
  <2>3. work' \in [Workers -> Work]
    BY NobodyTyped
       DEF Work, RunStages, HandlerStages, Carried, Carries, CopyStages, PhaseStages, All
  <2>4. Carried'
    BY <2>3, NobodyTyped DEF Carried, Carries, CopyStages, PhaseStages, RunStages, Work, All
  <2> QED
    BY <2>1, <2>2, <2>3, <2>4
<1>2. ASSUME NEW w \in Workers, Opened(w) PROVE TInv'
  <2> USE <1>2 DEF Opened, Copy, PhaseOf, At, Holds, Store, Goto, Finish, Free
  <2>0. Backfilled(Copy(w)) \in Session
    BY BackfilledTyped DEF Work, Carried, Carries, CopyStages
  <2>1. session' \in Session /\ snapshot' \in Outputs \cup {Nil}
    BY <2>0, PhaseAssumption
       DEF Carried, Carries, CopyStages, Work, Session, Outputs, Statuses, Jds, All
  <2>2. /\ lock' \in [All -> Workers \cup {Nil, Orphan}]
        /\ owed' \in [All -> 0..MaxOwed]
        /\ crashes' \in 0..MaxCrashes
    BY DEF Work
  <2>3. work' \in [Workers -> Work]
    BY <2>0, NobodyTyped
       DEF Work, RunStages, HandlerStages, Carried, Carries, CopyStages, PhaseStages, All
  <2>4. Carried'
    BY <2>0, <2>3, NobodyTyped DEF Carried, Carries, CopyStages, PhaseStages, RunStages, Work, All
  <2> QED
    BY <2>1, <2>2, <2>3, <2>4
<1>3. ASSUME NEW w \in Workers, Decide(w) PROVE TInv'
  <2> USE <1>3 DEF Decide, Waives, Copy, PhaseOf, At, Holds, Store, Goto, Finish, Free
  <2>0. Copy(w) \in Session
    BY DEF Work, Carried, Carries, CopyStages, PhaseStages, RunStages
  <2>1. session' \in Session /\ snapshot' \in Outputs \cup {Nil}
    BY <2>0, PhaseAssumption
       DEF Carried, Carries, CopyStages, Work, Session, Outputs, Statuses, Jds, All
  <2>2. /\ lock' \in [All -> Workers \cup {Nil, Orphan}]
        /\ owed' \in [All -> 0..MaxOwed]
        /\ crashes' \in 0..MaxCrashes
    BY DEF Work
  <2>3. work' \in [Workers -> Work]
    BY <2>0, NobodyTyped
       DEF Work, RunStages, HandlerStages, Carried, Carries, CopyStages, PhaseStages, All
  <2>4. Carried'
    BY <2>0, <2>3, NobodyTyped DEF Carried, Carries, CopyStages, PhaseStages, RunStages, Work, All
  <2> QED
    BY <2>1, <2>2, <2>3, <2>4
<1>4. ASSUME NEW w \in Workers, Reset(w) PROVE TInv'
  <2> USE <1>4 DEF Reset, Copy, PhaseOf, At, Holds, Store, Goto, Finish, Free
  <2>1. session' \in Session /\ snapshot' \in Outputs \cup {Nil}
    BY PhaseAssumption
       DEF Carried, Carries, CopyStages, Work, Session, Outputs, Statuses, Jds, All
  <2>2. /\ lock' \in [All -> Workers \cup {Nil, Orphan}]
        /\ owed' \in [All -> 0..MaxOwed]
        /\ crashes' \in 0..MaxCrashes
    BY DEF Work
  <2>3. work' \in [Workers -> Work]
    BY NobodyTyped
       DEF Work, RunStages, HandlerStages, Carried, Carries, CopyStages, PhaseStages, All
  <2>4. Carried'
    BY <2>3, NobodyTyped DEF Carried, Carries, CopyStages, PhaseStages, RunStages, Work, All
  <2> QED
    BY <2>1, <2>2, <2>3, <2>4
<1>5. ASSUME NEW w \in Workers, Unlock(w) PROVE TInv'
  <2> USE <1>5 DEF Unlock, Wiped, Copy, PhaseOf, At, Holds, Store, Goto, Finish, Free
  <2>1. session' \in Session /\ snapshot' \in Outputs \cup {Nil}
    BY PhaseAssumption
       DEF Carried, Carries, CopyStages, Work, Session, Outputs, Statuses, Jds, All
  <2>2. /\ lock' \in [All -> Workers \cup {Nil, Orphan}]
        /\ owed' \in [All -> 0..MaxOwed]
        /\ crashes' \in 0..MaxCrashes
    BY DEF Work
  <2>3. work' \in [Workers -> Work]
    BY NobodyTyped
       DEF Work, RunStages, HandlerStages, Carried, Carries, CopyStages, PhaseStages, All
  <2>4. Carried'
    BY <2>3, NobodyTyped DEF Carried, Carries, CopyStages, PhaseStages, RunStages, Work, All
  <2> QED
    BY <2>1, <2>2, <2>3, <2>4
<1>6. ASSUME NEW w \in Workers, Reread(w) PROVE TInv'
  <2> USE <1>6 DEF Reread, Copy, PhaseOf, At, Holds, Store, Goto, Finish, Free
  <2>0. session # Nil /\ work[w].then \in {"bill", "ask"}
    BY DEF Work, Carried, Carries, CopyStages, PhaseStages, RunStages
  <2>1. session' \in Session /\ snapshot' \in Outputs \cup {Nil}
    BY <2>0, PhaseAssumption
       DEF Carried, Carries, CopyStages, Work, Session, Outputs, Statuses, Jds, All
  <2>2. /\ lock' \in [All -> Workers \cup {Nil, Orphan}]
        /\ owed' \in [All -> 0..MaxOwed]
        /\ crashes' \in 0..MaxCrashes
    BY DEF Work
  <2>3. work' \in [Workers -> Work]
    <3>0. work[w] \in Work /\ work[w].then \in Stages /\ session \in Session \cup {Nil}
      BY <2>0 DEF Stages, RunStages, HandlerStages
    <3>1. [work[w] EXCEPT !.stage = work[w].then, !.copy = session] \in Work
      BY <3>0, Moved
    <3>2. work' = [work EXCEPT ![w] = [work[w] EXCEPT !.stage = work[w].then, !.copy = session]]
      OBVIOUS
    <3> QED
      BY <3>1, <3>2
  <2>4. Carried'
    BY <2>0, <2>3, NobodyTyped DEF Carried, Carries, CopyStages, PhaseStages, RunStages, Work, All
  <2> QED
    BY <2>1, <2>2, <2>3, <2>4
<1>7. ASSUME NEW w \in Workers, Bill(w) PROVE TInv'
  <2> USE <1>7 DEF Bill, Copy, PhaseOf, At, Holds, Store, Goto, Finish, Free
  <2>1. session' \in Session /\ snapshot' \in Outputs \cup {Nil}
    BY PhaseAssumption
       DEF Carried, Carries, CopyStages, Work, Session, Outputs, Statuses, Jds, All
  <2>2. /\ lock' \in [All -> Workers \cup {Nil, Orphan}]
        /\ owed' \in [All -> 0..MaxOwed]
        /\ crashes' \in 0..MaxCrashes
    BY DEF Work
  <2>3. work' \in [Workers -> Work]
    BY NobodyTyped
       DEF Work, RunStages, HandlerStages, Carried, Carries, CopyStages, PhaseStages, All
  <2>4. Carried'
    BY <2>3, NobodyTyped DEF Carried, Carries, CopyStages, PhaseStages, RunStages, Work, All
  <2> QED
    BY <2>1, <2>2, <2>3, <2>4
<1>8. ASSUME NEW w \in Workers, Refuse(w) PROVE TInv'
  <2> USE <1>8 DEF Refuse, Copy, PhaseOf, At, Holds, Store, Goto, Finish, Free
  <2>1. session' \in Session /\ snapshot' \in Outputs \cup {Nil}
    BY PhaseAssumption
       DEF Carried, Carries, CopyStages, Work, Session, Outputs, Statuses, Jds, All
  <2>2. /\ lock' \in [All -> Workers \cup {Nil, Orphan}]
        /\ owed' \in [All -> 0..MaxOwed]
        /\ crashes' \in 0..MaxCrashes
    BY DEF Work
  <2>3. work' \in [Workers -> Work]
    BY NobodyTyped
       DEF Work, RunStages, HandlerStages, Carried, Carries, CopyStages, PhaseStages, All
  <2>4. Carried'
    BY <2>3, NobodyTyped DEF Carried, Carries, CopyStages, PhaseStages, RunStages, Work, All
  <2> QED
    BY <2>1, <2>2, <2>3, <2>4
<1>9. ASSUME NEW w \in Workers, Ask(w) PROVE TInv'
  <2> USE <1>9 DEF Ask, Copy, PhaseOf, At, Holds, Store, Goto, Finish, Free
  <2>0. Copy(w) \in Session /\ PhaseOf(w) \in All
    BY DEF Work, Carried, Carries, CopyStages, PhaseStages, RunStages
  <2>1. session' \in Session /\ snapshot' \in Outputs \cup {Nil}
    BY <2>0, PhaseAssumption
       DEF Carried, Carries, CopyStages, Work, Session, Outputs, Statuses, Jds, All
  <2>2. /\ lock' \in [All -> Workers \cup {Nil, Orphan}]
        /\ owed' \in [All -> 0..MaxOwed]
        /\ crashes' \in 0..MaxCrashes
    <3>1. owed[PhaseOf(w)] \in 0..MaxOwed
      BY <2>0
    <3>2. (IF owed[PhaseOf(w)] < MaxOwed THEN owed[PhaseOf(w)] + 1 ELSE owed[PhaseOf(w)]) \in 0..MaxOwed
      BY <3>1 DEF PhaseOf
    <3>3. owed' \in [All -> 0..MaxOwed]
      BY <3>2
    <3> QED
      BY <3>3
  <2>3. work' \in [Workers -> Work]
    BY <2>0, NobodyTyped
       DEF Work, RunStages, HandlerStages, Carried, Carries, CopyStages, PhaseStages, All
  <2>4. Carried'
    BY <2>0, <2>3, NobodyTyped DEF Carried, Carries, CopyStages, PhaseStages, RunStages, Work, All
  <2> QED
    BY <2>1, <2>2, <2>3, <2>4
<1>10. ASSUME NEW w \in Workers, Accept(w) PROVE TInv'
  <2> USE <1>10 DEF Accept, Consumed, Copy, PhaseOf, At, Holds, Store, Goto, Finish, Free
  <2>1. session' \in Session /\ snapshot' \in Outputs \cup {Nil}
    BY PhaseAssumption
       DEF Carried, Carries, CopyStages, Work, Session, Outputs, Statuses, Jds, All
  <2>2. /\ lock' \in [All -> Workers \cup {Nil, Orphan}]
        /\ owed' \in [All -> 0..MaxOwed]
        /\ crashes' \in 0..MaxCrashes
    BY DEF Work
  <2>3. work' \in [Workers -> Work]
    BY NobodyTyped
       DEF Work, RunStages, HandlerStages, Carried, Carries, CopyStages, PhaseStages, All
  <2>4. Carried'
    BY <2>3, NobodyTyped DEF Carried, Carries, CopyStages, PhaseStages, RunStages, Work, All
  <2> QED
    BY <2>1, <2>2, <2>3, <2>4
<1>11. ASSUME NEW w \in Workers, Patch(w) PROVE TInv'
  <2> USE <1>11 DEF Patch, Write, Patched, Copy, PhaseOf, At, Holds, Store, Goto, Finish, Free
  <2>1. session' \in Session /\ snapshot' \in Outputs \cup {Nil}
    BY PhaseAssumption
       DEF Carried, Carries, CopyStages, Work, Session, Outputs, Statuses, Jds, All
  <2>2. /\ lock' \in [All -> Workers \cup {Nil, Orphan}]
        /\ owed' \in [All -> 0..MaxOwed]
        /\ crashes' \in 0..MaxCrashes
    BY DEF Work
  <2>3. work' \in [Workers -> Work]
    <3>1. PICK o \in {Copy(w).out[3]} \cup {Edited(r) : r \in Fresh} : Write(w, Patched(Copy(w), o), "sync")
      OBVIOUS
    <3>2. work' = [work EXCEPT ![w] = [work[w] EXCEPT !.stage = "sync", !.copy = session']]
      BY <3>1 DEF Write
    <3>3. work[w] \in Work /\ "sync" \in Stages
      BY DEF Stages, RunStages
    <3>4. [work[w] EXCEPT !.stage = "sync", !.copy = session'] \in Work
      BY <2>1, <3>3, Moved
    <3> QED
      BY <3>2, <3>4
  <2>4. Carried'
    BY <2>3, NobodyTyped DEF Carried, Carries, CopyStages, PhaseStages, RunStages, Work, All
  <2> QED
    BY <2>1, <2>2, <2>3, <2>4
<1>12. ASSUME NEW w \in Workers, Overwrite(w) PROVE TInv'
  <2> USE <1>12 DEF Overwrite, Write, Overwritten, Copy, PhaseOf, At, Holds, Store, Goto, Finish, Free
  <2>1. session' \in Session /\ snapshot' \in Outputs \cup {Nil}
    BY PhaseAssumption
       DEF Carried, Carries, CopyStages, Work, Session, Outputs, Statuses, Jds, All
  <2>2. /\ lock' \in [All -> Workers \cup {Nil, Orphan}]
        /\ owed' \in [All -> 0..MaxOwed]
        /\ crashes' \in 0..MaxCrashes
    BY DEF Work
  <2>3. work' \in [Workers -> Work]
    BY NobodyTyped
       DEF Work, RunStages, HandlerStages, Carried, Carries, CopyStages, PhaseStages, All
  <2>4. Carried'
    BY <2>3, NobodyTyped DEF Carried, Carries, CopyStages, PhaseStages, RunStages, Work, All
  <2> QED
    BY <2>1, <2>2, <2>3, <2>4
<1>13. ASSUME NEW w \in Workers, Commit(w) PROVE TInv'
  <2> USE <1>13 DEF Commit, Write, Copy, PhaseOf, At, Holds, Store, Goto, Finish, Free
  <2>0. Copy(w) \in Session
    BY DEF Work, Carried, Carries, CopyStages, PhaseStages, RunStages
  <2>1. session' \in Session /\ snapshot' \in Outputs \cup {Nil}
    <3>1. PICK o \in ({Copy(w).out[3]} \ {Nil}) \cup {Edited(r) : r \in Fresh} :
              Write(w, [Copy(w) EXCEPT !.out[3] = o], IF Anonymous THEN "idle" ELSE "persist")
      OBVIOUS
    <3>2. o \in Output
      BY <2>0, <3>1, EditedTyped DEF Session, Outputs, All
    <3>3. [Copy(w) EXCEPT !.out[3] = o] \in Session
      BY <2>0, <3>2 DEF Session, Outputs, All
    <3> QED
      BY <3>1, <3>3 DEF Write
  <2>2. /\ lock' \in [All -> Workers \cup {Nil, Orphan}]
        /\ owed' \in [All -> 0..MaxOwed]
        /\ crashes' \in 0..MaxCrashes
    BY DEF Work
  <2>3. work' \in [Workers -> Work]
    BY <2>0, NobodyTyped
       DEF Work, RunStages, HandlerStages, Carried, Carries, CopyStages, PhaseStages, All
  <2>4. Carried'
    BY <2>0, <2>3, NobodyTyped DEF Carried, Carries, CopyStages, PhaseStages, RunStages, Work, All
  <2> QED
    BY <2>1, <2>2, <2>3, <2>4
<1>14. ASSUME NEW w \in Workers, Persist(w) PROVE TInv'
  <2> USE <1>14 DEF Persist, Snapshotted, Copy, PhaseOf, At, Holds, Store, Goto, Finish, Free
  <2>0. Copy(w) \in Session
    BY DEF Work, Carried, Carries, CopyStages, PhaseStages, RunStages
  <2>1. session' \in Session /\ snapshot' \in Outputs \cup {Nil}
    BY <2>0, PhaseAssumption
       DEF Carried, Carries, CopyStages, Work, Session, Outputs, Statuses, Jds, All
  <2>2. /\ lock' \in [All -> Workers \cup {Nil, Orphan}]
        /\ owed' \in [All -> 0..MaxOwed]
        /\ crashes' \in 0..MaxCrashes
    BY DEF Work
  <2>3. work' \in [Workers -> Work]
    BY <2>0, NobodyTyped
       DEF Work, RunStages, HandlerStages, Carried, Carries, CopyStages, PhaseStages, All
  <2>4. Carried'
    BY <2>0, <2>3, NobodyTyped DEF Carried, Carries, CopyStages, PhaseStages, RunStages, Work, All
  <2> QED
    BY <2>1, <2>2, <2>3, <2>4
<1>15. ASSUME NEW w \in Workers, Audit(w) PROVE TInv'
  <2> USE <1>15 DEF Audit, Write, Copy, PhaseOf, At, Holds, Store, Goto, Finish, Free
  <2>0. Copy(w) \in Session
    BY DEF Work, Carried, Carries, CopyStages, PhaseStages, RunStages
  <2>1. session' \in Session /\ snapshot' \in Outputs \cup {Nil}
    BY <2>0, PhaseAssumption
       DEF Carried, Carries, CopyStages, Work, Session, Outputs, Statuses, Jds, All
  <2>2. /\ lock' \in [All -> Workers \cup {Nil, Orphan}]
        /\ owed' \in [All -> 0..MaxOwed]
        /\ crashes' \in 0..MaxCrashes
    BY DEF Work
  <2>3. work' \in [Workers -> Work]
    BY <2>0, NobodyTyped
       DEF Work, RunStages, HandlerStages, Carried, Carries, CopyStages, PhaseStages, All
  <2>4. Carried'
    BY <2>0, <2>3, NobodyTyped DEF Carried, Carries, CopyStages, PhaseStages, RunStages, Work, All
  <2> QED
    BY <2>1, <2>2, <2>3, <2>4
<1>16. ASSUME NEW w \in Workers, Reject(w) PROVE TInv'
  <2> USE <1>16 DEF Reject, Copy, PhaseOf, At, Holds, Store, Goto, Finish, Free
  <2>1. session' \in Session /\ snapshot' \in Outputs \cup {Nil}
    BY PhaseAssumption
       DEF Carried, Carries, CopyStages, Work, Session, Outputs, Statuses, Jds, All
  <2>2. /\ lock' \in [All -> Workers \cup {Nil, Orphan}]
        /\ owed' \in [All -> 0..MaxOwed]
        /\ crashes' \in 0..MaxCrashes
    BY DEF Work
  <2>3. work' \in [Workers -> Work]
    BY NobodyTyped
       DEF Work, RunStages, HandlerStages, Carried, Carries, CopyStages, PhaseStages, All
  <2>4. Carried'
    BY <2>3, NobodyTyped DEF Carried, Carries, CopyStages, PhaseStages, RunStages, Work, All
  <2> QED
    BY <2>1, <2>2, <2>3, <2>4
<1>17. ASSUME NEW w \in Workers, Touch(w) PROVE TInv'
  <2> USE <1>17 DEF Touch, Write, Copy, PhaseOf, At, Holds, Store, Goto, Finish, Free
  <2>1. session' \in Session /\ snapshot' \in Outputs \cup {Nil}
    BY PhaseAssumption
       DEF Carried, Carries, CopyStages, Work, Session, Outputs, Statuses, Jds, All
  <2>2. /\ lock' \in [All -> Workers \cup {Nil, Orphan}]
        /\ owed' \in [All -> 0..MaxOwed]
        /\ crashes' \in 0..MaxCrashes
    BY DEF Work
  <2>3. work' \in [Workers -> Work]
    BY NobodyTyped
       DEF Work, RunStages, HandlerStages, Carried, Carries, CopyStages, PhaseStages, All
  <2>4. Carried'
    BY <2>3, NobodyTyped DEF Carried, Carries, CopyStages, PhaseStages, RunStages, Work, All
  <2> QED
    BY <2>1, <2>2, <2>3, <2>4
<1>18. ASSUME NEW w \in Workers, ChangeJd(w) PROVE TInv'
  <2> USE <1>18 DEF ChangeJd, Copy, PhaseOf, At, Holds, Store, Goto, Finish, Free
  <2>1. session' \in Session /\ snapshot' \in Outputs \cup {Nil}
    BY PhaseAssumption
       DEF Carried, Carries, CopyStages, Work, Session, Outputs, Statuses, Jds, All
  <2>2. /\ lock' \in [All -> Workers \cup {Nil, Orphan}]
        /\ owed' \in [All -> 0..MaxOwed]
        /\ crashes' \in 0..MaxCrashes
    BY DEF Work
  <2>3. work' \in [Workers -> Work]
    BY NobodyTyped
       DEF Work, RunStages, HandlerStages, Carried, Carries, CopyStages, PhaseStages, All
  <2>4. Carried'
    BY <2>3, NobodyTyped DEF Carried, Carries, CopyStages, PhaseStages, RunStages, Work, All
  <2> QED
    BY <2>1, <2>2, <2>3, <2>4
<1>19. ASSUME NEW w \in Workers, Lock(w) PROVE TInv'
  <2> USE <1>19 DEF Lock, Copy, PhaseOf, At, Holds, Store, Goto, Finish, Free
  <2>1. session' \in Session /\ snapshot' \in Outputs \cup {Nil}
    BY PhaseAssumption
       DEF Carried, Carries, CopyStages, Work, Session, Outputs, Statuses, Jds, All
  <2>2. /\ lock' \in [All -> Workers \cup {Nil, Orphan}]
        /\ owed' \in [All -> 0..MaxOwed]
        /\ crashes' \in 0..MaxCrashes
    BY DEF Work
  <2>3. work' \in [Workers -> Work]
    BY NobodyTyped
       DEF Work, RunStages, HandlerStages, Carried, Carries, CopyStages, PhaseStages, All
  <2>4. Carried'
    BY <2>3, NobodyTyped DEF Carried, Carries, CopyStages, PhaseStages, RunStages, Work, All
  <2> QED
    BY <2>1, <2>2, <2>3, <2>4
<1>20. ASSUME NEW w \in Workers, Begin(w) PROVE TInv'
  <2> USE <1>20 DEF Begin, Copy, PhaseOf, At, Holds, Store, Goto, Finish, Free
  <2>0. session # Nil
    BY DEF Work, Carried, Carries, CopyStages, PhaseStages, RunStages
  <2>1. session' \in Session /\ snapshot' \in Outputs \cup {Nil}
    BY <2>0, PhaseAssumption
       DEF Carried, Carries, CopyStages, Work, Session, Outputs, Statuses, Jds, All
  <2>2. /\ lock' \in [All -> Workers \cup {Nil, Orphan}]
        /\ owed' \in [All -> 0..MaxOwed]
        /\ crashes' \in 0..MaxCrashes
    BY DEF Work
  <2>3. work' \in [Workers -> Work]
    <3>0. work[w] \in Work /\ "mark" \in Stages /\ session \in Session \cup {Nil}
      BY <2>0 DEF Stages, RunStages, HandlerStages
    <3>1. [work[w] EXCEPT !.stage = "mark", !.input = session] \in Work
      BY <3>0, Moved
    <3>2. work' = [work EXCEPT ![w] = [work[w] EXCEPT !.stage = "mark", !.input = session]]
      OBVIOUS
    <3> QED
      BY <3>1, <3>2
  <2>4. Carried'
    BY <2>0, <2>3, NobodyTyped DEF Carried, Carries, CopyStages, PhaseStages, RunStages, Work, All
  <2> QED
    BY <2>1, <2>2, <2>3, <2>4
<1>21. ASSUME NEW w \in Workers, MarkRunning(w) PROVE TInv'
  <2> USE <1>21 DEF MarkRunning, Copy, PhaseOf, At, Holds, Store, Goto, Finish, Free
  <2>1. session' \in Session /\ snapshot' \in Outputs \cup {Nil}
    BY PhaseAssumption
       DEF Carried, Carries, CopyStages, Work, Session, Outputs, Statuses, Jds, All
  <2>2. /\ lock' \in [All -> Workers \cup {Nil, Orphan}]
        /\ owed' \in [All -> 0..MaxOwed]
        /\ crashes' \in 0..MaxCrashes
    BY DEF Work
  <2>3. work' \in [Workers -> Work]
    BY NobodyTyped
       DEF Work, RunStages, HandlerStages, Carried, Carries, CopyStages, PhaseStages, All
  <2>4. Carried'
    BY <2>3, NobodyTyped DEF Carried, Carries, CopyStages, PhaseStages, RunStages, Work, All
  <2> QED
    BY <2>1, <2>2, <2>3, <2>4
<1>22. ASSUME NEW w \in Workers, Intel(w) PROVE TInv'
  <2> USE <1>22 DEF Intel, Copy, PhaseOf, At, Holds, Store, Goto, Finish, Free
  <2>0. work[w].input \in Session /\ PhaseOf(w) \in All
    BY DEF Work, Carried, Carries, CopyStages, PhaseStages, RunStages
  <2>1. session' \in Session /\ snapshot' \in Outputs \cup {Nil}
    BY <2>0, PhaseAssumption
       DEF Carried, Carries, CopyStages, Work, Session, Outputs, Statuses, Jds, All
  <2>2. /\ lock' \in [All -> Workers \cup {Nil, Orphan}]
        /\ owed' \in [All -> 0..MaxOwed]
        /\ crashes' \in 0..MaxCrashes
    BY DEF Work
  <2>3. work' \in [Workers -> Work]
    <3>0. work[w] \in Work /\ "llm" \in Stages /\ Nil \in Session \cup {Nil}
      BY <2>0 DEF Stages, RunStages, HandlerStages
    <3>1. [work[w] EXCEPT !.stage = "llm", !.copy = Nil] \in Work
      BY <3>0, Moved
    <3>2. work' = [work EXCEPT ![w] = [work[w] EXCEPT !.stage = "llm", !.copy = Nil]]
      OBVIOUS
    <3> QED
      BY <3>1, <3>2
  <2>4. Carried'
    BY <2>0, <2>3, NobodyTyped DEF Carried, Carries, CopyStages, PhaseStages, RunStages, Work, All
  <2> QED
    BY <2>1, <2>2, <2>3, <2>4
<1>23. ASSUME NEW w \in Workers, Generate(w) PROVE TInv'
  <2> USE <1>23 DEF Generate, Needed, Copy, PhaseOf, At, Holds, Store, Goto, Finish, Free
  <2>1. session' \in Session /\ snapshot' \in Outputs \cup {Nil}
    BY PhaseAssumption
       DEF Carried, Carries, CopyStages, Work, Session, Outputs, Statuses, Jds, All
  <2>2. /\ lock' \in [All -> Workers \cup {Nil, Orphan}]
        /\ owed' \in [All -> 0..MaxOwed]
        /\ crashes' \in 0..MaxCrashes
    BY DEF Work
  <2>3. work' \in [Workers -> Work]
    BY NobodyTyped
       DEF Work, RunStages, HandlerStages, Carried, Carries, CopyStages, PhaseStages, All
  <2>4. Carried'
    BY <2>3, NobodyTyped DEF Carried, Carries, CopyStages, PhaseStages, RunStages, Work, All
  <2> QED
    BY <2>1, <2>2, <2>3, <2>4
<1>24. ASSUME NEW w \in Workers, Fail(w) PROVE TInv'
  <2> USE <1>24 DEF Fail, Copy, PhaseOf, At, Holds, Store, Goto, Finish, Free
  <2>1. session' \in Session /\ snapshot' \in Outputs \cup {Nil}
    BY PhaseAssumption
       DEF Carried, Carries, CopyStages, Work, Session, Outputs, Statuses, Jds, All
  <2>2. /\ lock' \in [All -> Workers \cup {Nil, Orphan}]
        /\ owed' \in [All -> 0..MaxOwed]
        /\ crashes' \in 0..MaxCrashes
    BY DEF Work
  <2>3. work' \in [Workers -> Work]
    BY NobodyTyped
       DEF Work, RunStages, HandlerStages, Carried, Carries, CopyStages, PhaseStages, All
  <2>4. Carried'
    BY <2>3, NobodyTyped DEF Carried, Carries, CopyStages, PhaseStages, RunStages, Work, All
  <2> QED
    BY <2>1, <2>2, <2>3, <2>4
<1>25. ASSUME NEW w \in Workers, MarkFailed(w) PROVE TInv'
  <2> USE <1>25 DEF MarkFailed, Copy, PhaseOf, At, Holds, Store, Goto, Finish, Free
  <2>1. session' \in Session /\ snapshot' \in Outputs \cup {Nil}
    BY PhaseAssumption
       DEF Carried, Carries, CopyStages, Work, Session, Outputs, Statuses, Jds, All
  <2>2. /\ lock' \in [All -> Workers \cup {Nil, Orphan}]
        /\ owed' \in [All -> 0..MaxOwed]
        /\ crashes' \in 0..MaxCrashes
    BY DEF Work
  <2>3. work' \in [Workers -> Work]
    BY NobodyTyped
       DEF Work, RunStages, HandlerStages, Carried, Carries, CopyStages, PhaseStages, All
  <2>4. Carried'
    BY <2>3, NobodyTyped DEF Carried, Carries, CopyStages, PhaseStages, RunStages, Work, All
  <2> QED
    BY <2>1, <2>2, <2>3, <2>4
<1>26. ASSUME NEW w \in Workers, SaveOutput(w) PROVE TInv'
  <2> USE <1>26 DEF SaveOutput, AfterSave, Copy, PhaseOf, At, Holds, Store, Goto, Finish, Free
  <2>1. session' \in Session /\ snapshot' \in Outputs \cup {Nil}
    BY PhaseAssumption
       DEF Carried, Carries, CopyStages, Work, Session, Outputs, Statuses, Jds, All
  <2>2. /\ lock' \in [All -> Workers \cup {Nil, Orphan}]
        /\ owed' \in [All -> 0..MaxOwed]
        /\ crashes' \in 0..MaxCrashes
    BY DEF Work
  <2>3. work' \in [Workers -> Work]
    BY NobodyTyped
       DEF Work, RunStages, HandlerStages, Carried, Carries, CopyStages, PhaseStages, All
  <2>4. Carried'
    <3>1. AfterSave(PhaseOf(w)) \in {"clear", "downstream", "sync"} /\ PhaseOf(w) \in All
      BY DEF Carried, Carries, PhaseStages, RunStages
    <3>2. work'[w] = [work[w] EXCEPT !.stage = AfterSave(PhaseOf(w)), !.copy = Nil, !.output = Nil]
      OBVIOUS
    <3>3. work'[w].stage = AfterSave(PhaseOf(w)) /\ work'[w].phase = PhaseOf(w)
      BY <3>2 DEF Work
    <3>4. Carries(work'[w])
      BY <3>1, <3>3 DEF Carries, CopyStages
    <3>5. \A v \in Workers \ {w} : work'[v] = work[v]
      OBVIOUS
    <3> QED
      BY <3>4, <3>5 DEF Carried
  <2> QED
    BY <2>1, <2>2, <2>3, <2>4
<1>27. ASSUME NEW w \in Workers, MarkDownstream(w) PROVE TInv'
  <2> USE <1>27 DEF MarkDownstream, Copy, PhaseOf, At, Holds, Store, Goto, Finish, Free
  <2>1. session' \in Session /\ snapshot' \in Outputs \cup {Nil}
    BY PhaseAssumption
       DEF Carried, Carries, CopyStages, Work, Session, Outputs, Statuses, Jds, All
  <2>2. /\ lock' \in [All -> Workers \cup {Nil, Orphan}]
        /\ owed' \in [All -> 0..MaxOwed]
        /\ crashes' \in 0..MaxCrashes
    BY DEF Work
  <2>3. work' \in [Workers -> Work]
    BY NobodyTyped
       DEF Work, RunStages, HandlerStages, Carried, Carries, CopyStages, PhaseStages, All
  <2>4. Carried'
    BY <2>3, NobodyTyped DEF Carried, Carries, CopyStages, PhaseStages, RunStages, Work, All
  <2> QED
    BY <2>1, <2>2, <2>3, <2>4
<1>28. ASSUME NEW w \in Workers, Sync(w) PROVE TInv'
  <2> USE <1>28 DEF Sync, Snapshotted, Copy, PhaseOf, At, Holds, Store, Goto, Finish, Free
  <2>0. Copy(w) \in Session
    BY DEF Work, Carried, Carries, CopyStages, PhaseStages, RunStages
  <2>1. session' \in Session /\ snapshot' \in Outputs \cup {Nil}
    BY <2>0, PhaseAssumption
       DEF Carried, Carries, CopyStages, Work, Session, Outputs, Statuses, Jds, All
  <2>2. /\ lock' \in [All -> Workers \cup {Nil, Orphan}]
        /\ owed' \in [All -> 0..MaxOwed]
        /\ crashes' \in 0..MaxCrashes
    BY DEF Work
  <2>3. work' \in [Workers -> Work]
    BY <2>0, NobodyTyped
       DEF Work, RunStages, HandlerStages, Carried, Carries, CopyStages, PhaseStages, All
  <2>4. Carried'
    BY <2>0, <2>3, NobodyTyped DEF Carried, Carries, CopyStages, PhaseStages, RunStages, Work, All
  <2> QED
    BY <2>1, <2>2, <2>3, <2>4
<1>29. ASSUME NEW w \in Workers, ClearStale(w) PROVE TInv'
  <2> USE <1>29 DEF ClearStale, Copy, PhaseOf, At, Holds, Store, Goto, Finish, Free
  <2>1. session' \in Session /\ snapshot' \in Outputs \cup {Nil}
    BY PhaseAssumption
       DEF Carried, Carries, CopyStages, Work, Session, Outputs, Statuses, Jds, All
  <2>2. /\ lock' \in [All -> Workers \cup {Nil, Orphan}]
        /\ owed' \in [All -> 0..MaxOwed]
        /\ crashes' \in 0..MaxCrashes
    BY DEF Work
  <2>3. work' \in [Workers -> Work]
    BY NobodyTyped
       DEF Work, RunStages, HandlerStages, Carried, Carries, CopyStages, PhaseStages, All
  <2>4. Carried'
    BY <2>3, NobodyTyped DEF Carried, Carries, CopyStages, PhaseStages, RunStages, Work, All
  <2> QED
    BY <2>1, <2>2, <2>3, <2>4
<1>30. ASSUME NEW w \in Workers, Release(w) PROVE TInv'
  <2> USE <1>30 DEF Release, Copy, PhaseOf, At, Holds, Store, Goto, Finish, Free
  <2>1. session' \in Session /\ snapshot' \in Outputs \cup {Nil}
    BY PhaseAssumption
       DEF Carried, Carries, CopyStages, Work, Session, Outputs, Statuses, Jds, All
  <2>2. /\ lock' \in [All -> Workers \cup {Nil, Orphan}]
        /\ owed' \in [All -> 0..MaxOwed]
        /\ crashes' \in 0..MaxCrashes
    BY DEF Work
  <2>3. work' \in [Workers -> Work]
    BY NobodyTyped
       DEF Work, RunStages, HandlerStages, Carried, Carries, CopyStages, PhaseStages, All
  <2>4. Carried'
    BY <2>3, NobodyTyped DEF Carried, Carries, CopyStages, PhaseStages, RunStages, Work, All
  <2> QED
    BY <2>1, <2>2, <2>3, <2>4
<1>31. ASSUME NEW w \in Workers, Crash(w) PROVE TInv'
  <2> USE <1>31 DEF Crash, Copy, PhaseOf, At, Holds, Store, Goto, Finish, Free
  <2>1. session' \in Session /\ snapshot' \in Outputs \cup {Nil}
    BY PhaseAssumption
       DEF Carried, Carries, CopyStages, Work, Session, Outputs, Statuses, Jds, All
  <2>2. /\ lock' \in [All -> Workers \cup {Nil, Orphan}]
        /\ owed' \in [All -> 0..MaxOwed]
        /\ crashes' \in 0..MaxCrashes
    BY DEF Work
  <2>3. work' \in [Workers -> Work]
    BY NobodyTyped
       DEF Work, RunStages, HandlerStages, Carried, Carries, CopyStages, PhaseStages, All
  <2>4. Carried'
    BY <2>3, NobodyTyped DEF Carried, Carries, CopyStages, PhaseStages, RunStages, Work, All
  <2> QED
    BY <2>1, <2>2, <2>3, <2>4
<1>32. ASSUME NEW w \in Workers, NEW p \in All \cup {0}, NEW f \in BOOLEAN, NEW t \in {"idle", "decide"},
            Open(w, p, f, t), t = "decide" => p \in All
     PROVE  TInv'
  <2> USE <1>32 DEF Open
  <2>1. work'[w] = [stage |-> "open", phase |-> p, then |-> t, force |-> f, waived |-> FALSE, copy |-> session,
                    input |-> Nil, output |-> Nil]
    BY DEF Nobody
  <2>2. work'[w] \in Work
    BY <2>1, OpenedTyped
  <2>3. Carries(work'[w])
    BY <2>1, <1>32 DEF Carries, PhaseStages, RunStages
  <2> QED
    BY <2>2, <2>3 DEF Carried
<1>33. ASSUME NEW w \in Workers, NEW p \in Phases, Events(w, p) PROVE TInv'
  <2> USE <1>33 DEF Events
  <2>1. p \in All /\ session # Nil
    BY PhaseAssumption, NilAssumption DEF All
  <2>2. work'[w] \in Work /\ Carries(work'[w])
    BY <2>1 DEF Nobody, Work, Carries, CopyStages, PhaseStages, RunStages, HandlerStages
  <2> QED
    BY <2>2 DEF Carried
<1>34. ASSUME NEW w \in Workers, Load(w, "patch") \/ Load(w, "overwrite") \/ Load(w, "commit")
                                     \/ Load(w, "audit") \/ Load(w, "jd") \/ Load(w, "touch")
     PROVE  TInv'
  <2>1. PICK kind \in {"patch", "overwrite", "commit", "audit", "jd", "touch"} : Load(w, kind)
    BY <1>34
  <2> USE <2>1 DEF Load
  <2>2. work'[w] \in Work /\ Carries(work'[w])
    BY NilAssumption DEF Nobody, Work, Carries, CopyStages, PhaseStages, RunStages, HandlerStages
  <2> QED
    BY <2>2 DEF Carried
<1>35. ASSUME NEW p \in All, Expire(p) PROVE TInv'
  BY <1>35 DEF Expire, Carried
<1>36. ASSUME UNCHANGED vars PROVE TInv'
  BY <1>36 DEF vars, Carried
<1>37. ASSUME NEW w \in Workers, Arrive(w) PROVE TInv'
  <2>1. ASSUME NEW p \in Phases, NEW f \in BOOLEAN, Trigger(w, p, f) PROVE TInv'
    BY <2>1, <1>32, PhaseAssumption DEF Trigger, All
  <2>2. ASSUME View(w) PROVE TInv'
    BY <2>2, <1>32 DEF View
  <2> QED
    BY <1>37, <1>33, <1>34, <2>1, <2>2 DEF Arrive
<1>38. ASSUME NEW w \in Workers, Step(w) PROVE TInv'
  BY <1>38, <1>1, <1>2, <1>3, <1>4, <1>5, <1>6, <1>7, <1>8, <1>9, <1>10, <1>11, <1>12, <1>13,
     <1>14, <1>15, <1>16, <1>17, <1>18, <1>19, <1>20, <1>21, <1>22, <1>23, <1>24, <1>25, <1>26,
     <1>27, <1>28, <1>29, <1>30
     DEF Step, HandlerStep, EditStep, RunStep
<1> QED
  BY <1>31, <1>35, <1>36, <1>37, <1>38 DEF Next

\* The document, the snapshot, the locks and what every request and task carries keep
\* their shape through every interleaving, crash and expiry of a lock.
THEOREM PhaseTypeCorrect == Spec => []TypeOK
<1>1. TInv => TypeOK
  BY DEF TInv
<1> QED
  BY PhaseInit, PhaseStep, <1>1, PTL DEF Spec

(***************************************************************************)
(* One run of a phase at a time                                            *)
(***************************************************************************)
\* Requests are served one at a time, no run outlasts its lock, and nobody forces a
\* run or changes the job description.
Serial == ~Overlap /\ ~SlowRuns /\ "force" \notin Requests /\ "jd" \notin Requests

Held(r) == r.stage \in RunStages \ {"lock"} /\ r.phase # 0
Heals(r) == r.stage \in {"reset", "unlock"}

\* What no worker does on such a session; an edit belongs to no phase.
Serene(r) ==
    /\ r.force = FALSE
    /\ r.then # "wipe"
    /\ r.stage # "jd"
    /\ r.stage \in {"patch", "overwrite"} => r.phase = 0

\* A run past acquire_phase_lock holds the lock of its phase.
Guarded == \A w \in Workers : Held(work[w]) => lock[work[w].phase] = w

\* While a request resets a phase no run of that phase is alive.
Healing ==
    \A v, w \in Workers : Heals(work[v]) /\ Held(work[w]) => work[v].phase # work[w].phase

XInv == TInv /\ Guarded /\ Healing /\ \A w \in Workers : Serene(work[w])

\* A move that takes up neither a lock nor a reset.
Quietly(r, q) ==
    /\ Held(q) => Held(r) /\ q.phase = r.phase
    /\ Heals(q) => Heals(r) /\ q.phase = r.phase
    /\ Serene(q)

\* A quiet move of one worker that leaves the locks alone keeps the invariant.
LEMMA QuietStep ==
    ASSUME XInv, TInv', lock' = lock, NEW w \in Workers, Quietly(work[w], work'[w]),
           \A v \in Workers \ {w} : work'[v] = work[v]
    PROVE  XInv'
<1>1. \A v \in Workers : Held(work'[v]) => Held(work[v]) /\ work'[v].phase = work[v].phase
  BY DEF Quietly
<1>2. \A v \in Workers : Heals(work'[v]) => Heals(work[v]) /\ work'[v].phase = work[v].phase
  BY DEF Quietly
<1>3. \A v \in Workers : Serene(work'[v])
  BY DEF Quietly, XInv
<1>4. Guarded'
  BY <1>1 DEF XInv, Guarded
<1>5. Healing'
  BY <1>1, <1>2 DEF XInv, Healing
<1> QED
  BY <1>3, <1>4, <1>5 DEF XInv

\* Two runs of a phase would both hold its lock.
LEMMA GuardedExclusive == Guarded => Exclusive
BY DEF Guarded, Exclusive, Holder, InRun, Held, PhaseOf

\* At first nobody holds a lock or resets a phase.
LEMMA SerialInit == Init => XInv
<1> SUFFICES ASSUME Init PROVE XInv
  OBVIOUS
<1>1. \A w \in Workers : work[w] = Nobody
  BY DEF Init
<1>2. ~Held(Nobody) /\ ~Heals(Nobody) /\ Serene(Nobody)
  BY DEF Nobody, Held, Heals, Serene, RunStages
<1> QED
  BY <1>1, <1>2, PhaseInit DEF XInv, Guarded, Healing

\* One step per action.
LEMMA SerialStep ==
    ASSUME Serial
    PROVE  XInv /\ [Next]_vars => XInv'
<1> SUFFICES ASSUME XInv, [Next]_vars PROVE XInv'
  OBVIOUS
<1>0. TInv' /\ work \in [Workers -> Work] /\ Carried
  BY PhaseStep DEF XInv, TInv, TypeOK
<1> USE <1>0
<1>1. ASSUME NEW w \in Workers, Read(w) PROVE XInv'
  <2>1. lock' = lock /\ \A v \in Workers \ {w} : work'[v] = work[v]
    BY <1>1
       DEF Read, Rereading, At, Clear, Engaged, Copy, PhaseOf, Holds, Store, Goto, Finish, Free
  <2>2. Quietly(work[w], work'[w])
    BY <1>1
       DEF Read, Rereading, At, Clear, Engaged, Copy, PhaseOf, Holds, Store, Goto, Finish, Free,
           XInv, Serene, Quietly, Held, Heals, RunStages, HandlerStages, Nobody, Work
  <2> QED
    BY <2>1, <2>2, QuietStep
<1>2. ASSUME NEW w \in Workers, Opened(w) PROVE XInv'
  <2>1. lock' = lock /\ \A v \in Workers \ {w} : work'[v] = work[v]
    BY <1>2 DEF Opened, At, Clear, Engaged, Copy, PhaseOf, Holds, Store, Goto, Finish, Free
  <2>2. Quietly(work[w], work'[w])
    BY <1>2
       DEF Opened, At, Clear, Engaged, Copy, PhaseOf, Holds, Store, Goto, Finish, Free, XInv,
           Serene, Quietly, Held, Heals, RunStages, HandlerStages, Nobody, Work
  <2> QED
    BY <2>1, <2>2, QuietStep
<1>3. ASSUME NEW w \in Workers, Reset(w) PROVE XInv'
  <2>1. lock' = lock /\ \A v \in Workers \ {w} : work'[v] = work[v]
    BY <1>3 DEF Reset, At, Clear, Engaged, Copy, PhaseOf, Holds, Store, Goto, Finish, Free
  <2>2. Quietly(work[w], work'[w])
    BY <1>3
       DEF Reset, At, Clear, Engaged, Copy, PhaseOf, Holds, Store, Goto, Finish, Free, XInv,
           Serene, Quietly, Held, Heals, RunStages, HandlerStages, Nobody, Work
  <2> QED
    BY <2>1, <2>2, QuietStep
<1>4. ASSUME NEW w \in Workers, Reread(w) PROVE XInv'
  <2>1. lock' = lock /\ \A v \in Workers \ {w} : work'[v] = work[v]
    BY <1>4 DEF Reread, At, Clear, Engaged, Copy, PhaseOf, Holds, Store, Goto, Finish, Free
  <2>2. Quietly(work[w], work'[w])
    BY <1>4
       DEF Reread, At, Clear, Engaged, Copy, PhaseOf, Holds, Store, Goto, Finish, Free, XInv,
           Serene, Quietly, Held, Heals, RunStages, HandlerStages, Nobody, Work
  <2> QED
    BY <2>1, <2>2, QuietStep
<1>5. ASSUME NEW w \in Workers, Bill(w) PROVE XInv'
  <2>1. lock' = lock /\ \A v \in Workers \ {w} : work'[v] = work[v]
    BY <1>5 DEF Bill, At, Clear, Engaged, Copy, PhaseOf, Holds, Store, Goto, Finish, Free
  <2>2. Quietly(work[w], work'[w])
    BY <1>5
       DEF Bill, At, Clear, Engaged, Copy, PhaseOf, Holds, Store, Goto, Finish, Free, XInv,
           Serene, Quietly, Held, Heals, RunStages, HandlerStages, Nobody, Work
  <2> QED
    BY <2>1, <2>2, QuietStep
<1>6. ASSUME NEW w \in Workers, Refuse(w) PROVE XInv'
  <2>1. lock' = lock /\ \A v \in Workers \ {w} : work'[v] = work[v]
    BY <1>6 DEF Refuse, At, Clear, Engaged, Copy, PhaseOf, Holds, Store, Goto, Finish, Free
  <2>2. Quietly(work[w], work'[w])
    BY <1>6
       DEF Refuse, At, Clear, Engaged, Copy, PhaseOf, Holds, Store, Goto, Finish, Free, XInv,
           Serene, Quietly, Held, Heals, RunStages, HandlerStages, Nobody, Work
  <2> QED
    BY <2>1, <2>2, QuietStep
<1>7. ASSUME NEW w \in Workers, Ask(w) PROVE XInv'
  <2>1. lock' = lock /\ \A v \in Workers \ {w} : work'[v] = work[v]
    BY <1>7 DEF Ask, At, Clear, Engaged, Copy, PhaseOf, Holds, Store, Goto, Finish, Free
  <2>2. Quietly(work[w], work'[w])
    BY <1>7
       DEF Ask, At, Clear, Engaged, Copy, PhaseOf, Holds, Store, Goto, Finish, Free, XInv,
           Serene, Quietly, Held, Heals, RunStages, HandlerStages, Nobody, Work
  <2> QED
    BY <2>1, <2>2, QuietStep
<1>8. ASSUME NEW w \in Workers, Accept(w) PROVE XInv'
  <2>1. lock' = lock /\ \A v \in Workers \ {w} : work'[v] = work[v]
    BY <1>8
       DEF Accept, Consumed, At, Clear, Engaged, Copy, PhaseOf, Holds, Store, Goto, Finish, Free
  <2>2. Quietly(work[w], work'[w])
    BY <1>8
       DEF Accept, Consumed, At, Clear, Engaged, Copy, PhaseOf, Holds, Store, Goto, Finish, Free,
           XInv, Serene, Quietly, Held, Heals, RunStages, HandlerStages, Nobody, Work
  <2> QED
    BY <2>1, <2>2, QuietStep
<1>9. ASSUME NEW w \in Workers, Patch(w) PROVE XInv'
  <2>1. lock' = lock /\ \A v \in Workers \ {w} : work'[v] = work[v]
    BY <1>9
       DEF Patch, Write, Patched, At, Clear, Engaged, Copy, PhaseOf, Holds, Store, Goto, Finish,
           Free
  <2>2. Quietly(work[w], work'[w])
    BY <1>9
       DEF Patch, Write, Patched, At, Clear, Engaged, Copy, PhaseOf, Holds, Store, Goto, Finish,
           Free, XInv, Serene, Quietly, Held, Heals, RunStages, HandlerStages, Nobody, Work
  <2> QED
    BY <2>1, <2>2, QuietStep
<1>10. ASSUME NEW w \in Workers, Overwrite(w) PROVE XInv'
  <2>1. lock' = lock /\ \A v \in Workers \ {w} : work'[v] = work[v]
    BY <1>10
       DEF Overwrite, Write, Overwritten, At, Clear, Engaged, Copy, PhaseOf, Holds, Store, Goto,
           Finish, Free
  <2>2. Quietly(work[w], work'[w])
    BY <1>10
       DEF Overwrite, Write, Overwritten, At, Clear, Engaged, Copy, PhaseOf, Holds, Store, Goto,
           Finish, Free, XInv, Serene, Quietly, Held, Heals, RunStages, HandlerStages, Nobody,
           Work
  <2> QED
    BY <2>1, <2>2, QuietStep
<1>11. ASSUME NEW w \in Workers, Commit(w) PROVE XInv'
  <2>1. lock' = lock /\ \A v \in Workers \ {w} : work'[v] = work[v]
    BY <1>11
       DEF Commit, Write, At, Clear, Engaged, Copy, PhaseOf, Holds, Store, Goto, Finish, Free
  <2>2. Quietly(work[w], work'[w])
    BY <1>11
       DEF Commit, Write, At, Clear, Engaged, Copy, PhaseOf, Holds, Store, Goto, Finish, Free,
           XInv, Serene, Quietly, Held, Heals, RunStages, HandlerStages, Nobody, Work
  <2> QED
    BY <2>1, <2>2, QuietStep
<1>12. ASSUME NEW w \in Workers, Persist(w) PROVE XInv'
  <2>1. lock' = lock /\ \A v \in Workers \ {w} : work'[v] = work[v]
    BY <1>12
       DEF Persist, Snapshotted, At, Clear, Engaged, Copy, PhaseOf, Holds, Store, Goto, Finish,
           Free
  <2>2. Quietly(work[w], work'[w])
    BY <1>12
       DEF Persist, Snapshotted, At, Clear, Engaged, Copy, PhaseOf, Holds, Store, Goto, Finish,
           Free, XInv, Serene, Quietly, Held, Heals, RunStages, HandlerStages, Nobody, Work
  <2> QED
    BY <2>1, <2>2, QuietStep
<1>13. ASSUME NEW w \in Workers, Audit(w) PROVE XInv'
  <2>1. lock' = lock /\ \A v \in Workers \ {w} : work'[v] = work[v]
    BY <1>13 DEF Audit, Write, At, Clear, Engaged, Copy, PhaseOf, Holds, Store, Goto, Finish, Free
  <2>2. Quietly(work[w], work'[w])
    BY <1>13
       DEF Audit, Write, At, Clear, Engaged, Copy, PhaseOf, Holds, Store, Goto, Finish, Free,
           XInv, Serene, Quietly, Held, Heals, RunStages, HandlerStages, Nobody, Work
  <2> QED
    BY <2>1, <2>2, QuietStep
<1>14. ASSUME NEW w \in Workers, Reject(w) PROVE XInv'
  <2>1. lock' = lock /\ \A v \in Workers \ {w} : work'[v] = work[v]
    BY <1>14 DEF Reject, At, Clear, Engaged, Copy, PhaseOf, Holds, Store, Goto, Finish, Free
  <2>2. Quietly(work[w], work'[w])
    BY <1>14
       DEF Reject, At, Clear, Engaged, Copy, PhaseOf, Holds, Store, Goto, Finish, Free, XInv,
           Serene, Quietly, Held, Heals, RunStages, HandlerStages, Nobody, Work
  <2> QED
    BY <2>1, <2>2, QuietStep
<1>15. ASSUME NEW w \in Workers, Touch(w) PROVE XInv'
  <2>1. lock' = lock /\ \A v \in Workers \ {w} : work'[v] = work[v]
    BY <1>15 DEF Touch, Write, At, Clear, Engaged, Copy, PhaseOf, Holds, Store, Goto, Finish, Free
  <2>2. Quietly(work[w], work'[w])
    BY <1>15
       DEF Touch, Write, At, Clear, Engaged, Copy, PhaseOf, Holds, Store, Goto, Finish, Free,
           XInv, Serene, Quietly, Held, Heals, RunStages, HandlerStages, Nobody, Work
  <2> QED
    BY <2>1, <2>2, QuietStep
<1>16. ASSUME NEW w \in Workers, ChangeJd(w) PROVE XInv'
  <2>1. lock' = lock /\ \A v \in Workers \ {w} : work'[v] = work[v]
    BY <1>16 DEF ChangeJd, At, Clear, Engaged, Copy, PhaseOf, Holds, Store, Goto, Finish, Free
  <2>2. Quietly(work[w], work'[w])
    BY <1>16
       DEF ChangeJd, At, Clear, Engaged, Copy, PhaseOf, Holds, Store, Goto, Finish, Free, XInv,
           Serene, Quietly, Held, Heals, RunStages, HandlerStages, Nobody, Work
  <2> QED
    BY <2>1, <2>2, QuietStep
<1>17. ASSUME NEW w \in Workers, Begin(w) PROVE XInv'
  <2>1. lock' = lock /\ \A v \in Workers \ {w} : work'[v] = work[v]
    BY <1>17 DEF Begin, At, Clear, Engaged, Copy, PhaseOf, Holds, Store, Goto, Finish, Free
  <2>2. Quietly(work[w], work'[w])
    BY <1>17
       DEF Begin, At, Clear, Engaged, Copy, PhaseOf, Holds, Store, Goto, Finish, Free, XInv,
           Serene, Quietly, Held, Heals, RunStages, HandlerStages, Nobody, Work
  <2> QED
    BY <2>1, <2>2, QuietStep
<1>18. ASSUME NEW w \in Workers, MarkRunning(w) PROVE XInv'
  <2>1. lock' = lock /\ \A v \in Workers \ {w} : work'[v] = work[v]
    BY <1>18 DEF MarkRunning, At, Clear, Engaged, Copy, PhaseOf, Holds, Store, Goto, Finish, Free
  <2>2. Quietly(work[w], work'[w])
    BY <1>18
       DEF MarkRunning, At, Clear, Engaged, Copy, PhaseOf, Holds, Store, Goto, Finish, Free,
           XInv, Serene, Quietly, Held, Heals, RunStages, HandlerStages, Nobody, Work
  <2> QED
    BY <2>1, <2>2, QuietStep
<1>19. ASSUME NEW w \in Workers, Intel(w) PROVE XInv'
  <2>1. lock' = lock /\ \A v \in Workers \ {w} : work'[v] = work[v]
    BY <1>19 DEF Intel, At, Clear, Engaged, Copy, PhaseOf, Holds, Store, Goto, Finish, Free
  <2>2. Quietly(work[w], work'[w])
    BY <1>19
       DEF Intel, At, Clear, Engaged, Copy, PhaseOf, Holds, Store, Goto, Finish, Free, XInv,
           Serene, Quietly, Held, Heals, RunStages, HandlerStages, Nobody, Work
  <2> QED
    BY <2>1, <2>2, QuietStep
<1>20. ASSUME NEW w \in Workers, Generate(w) PROVE XInv'
  <2>1. lock' = lock /\ \A v \in Workers \ {w} : work'[v] = work[v]
    BY <1>20
       DEF Generate, Needed, At, Clear, Engaged, Copy, PhaseOf, Holds, Store, Goto, Finish, Free
  <2>2. Quietly(work[w], work'[w])
    BY <1>20
       DEF Generate, Needed, At, Clear, Engaged, Copy, PhaseOf, Holds, Store, Goto, Finish, Free,
           XInv, Serene, Quietly, Held, Heals, RunStages, HandlerStages, Nobody, Work
  <2> QED
    BY <2>1, <2>2, QuietStep
<1>21. ASSUME NEW w \in Workers, Fail(w) PROVE XInv'
  <2>1. lock' = lock /\ \A v \in Workers \ {w} : work'[v] = work[v]
    BY <1>21 DEF Fail, At, Clear, Engaged, Copy, PhaseOf, Holds, Store, Goto, Finish, Free
  <2>2. Quietly(work[w], work'[w])
    BY <1>21
       DEF Fail, At, Clear, Engaged, Copy, PhaseOf, Holds, Store, Goto, Finish, Free, XInv,
           Serene, Quietly, Held, Heals, RunStages, HandlerStages, Nobody, Work
  <2> QED
    BY <2>1, <2>2, QuietStep
<1>22. ASSUME NEW w \in Workers, MarkFailed(w) PROVE XInv'
  <2>1. lock' = lock /\ \A v \in Workers \ {w} : work'[v] = work[v]
    BY <1>22 DEF MarkFailed, At, Clear, Engaged, Copy, PhaseOf, Holds, Store, Goto, Finish, Free
  <2>2. Quietly(work[w], work'[w])
    BY <1>22
       DEF MarkFailed, At, Clear, Engaged, Copy, PhaseOf, Holds, Store, Goto, Finish, Free, XInv,
           Serene, Quietly, Held, Heals, RunStages, HandlerStages, Nobody, Work
  <2> QED
    BY <2>1, <2>2, QuietStep
<1>23. ASSUME NEW w \in Workers, SaveOutput(w) PROVE XInv'
  <2>1. lock' = lock /\ \A v \in Workers \ {w} : work'[v] = work[v]
    BY <1>23
       DEF SaveOutput, AfterSave, At, Clear, Engaged, Copy, PhaseOf, Holds, Store, Goto, Finish,
           Free
  <2>2. Quietly(work[w], work'[w])
    BY <1>23
       DEF SaveOutput, AfterSave, At, Clear, Engaged, Copy, PhaseOf, Holds, Store, Goto, Finish,
           Free, XInv, Serene, Quietly, Held, Heals, RunStages, HandlerStages, Nobody, Work
  <2> QED
    BY <2>1, <2>2, QuietStep
<1>24. ASSUME NEW w \in Workers, MarkDownstream(w) PROVE XInv'
  <2>1. lock' = lock /\ \A v \in Workers \ {w} : work'[v] = work[v]
    BY <1>24
       DEF MarkDownstream, At, Clear, Engaged, Copy, PhaseOf, Holds, Store, Goto, Finish, Free
  <2>2. Quietly(work[w], work'[w])
    BY <1>24
       DEF MarkDownstream, At, Clear, Engaged, Copy, PhaseOf, Holds, Store, Goto, Finish, Free,
           XInv, Serene, Quietly, Held, Heals, RunStages, HandlerStages, Nobody, Work
  <2> QED
    BY <2>1, <2>2, QuietStep
<1>25. ASSUME NEW w \in Workers, Sync(w) PROVE XInv'
  <2>1. lock' = lock /\ \A v \in Workers \ {w} : work'[v] = work[v]
    BY <1>25
       DEF Sync, Snapshotted, At, Clear, Engaged, Copy, PhaseOf, Holds, Store, Goto, Finish, Free
  <2>2. Quietly(work[w], work'[w])
    BY <1>25
       DEF Sync, Snapshotted, At, Clear, Engaged, Copy, PhaseOf, Holds, Store, Goto, Finish,
           Free, XInv, Serene, Quietly, Held, Heals, RunStages, HandlerStages, Nobody, Work
  <2> QED
    BY <2>1, <2>2, QuietStep
<1>26. ASSUME NEW w \in Workers, ClearStale(w) PROVE XInv'
  <2>1. lock' = lock /\ \A v \in Workers \ {w} : work'[v] = work[v]
    BY <1>26 DEF ClearStale, At, Clear, Engaged, Copy, PhaseOf, Holds, Store, Goto, Finish, Free
  <2>2. Quietly(work[w], work'[w])
    BY <1>26
       DEF ClearStale, At, Clear, Engaged, Copy, PhaseOf, Holds, Store, Goto, Finish, Free, XInv,
           Serene, Quietly, Held, Heals, RunStages, HandlerStages, Nobody, Work
  <2> QED
    BY <2>1, <2>2, QuietStep
<1>27. ASSUME NEW w \in Workers, Decide(w) PROVE XInv'
  <2> DEFINE p == PhaseOf(w)
  <2>1. lock' = lock /\ \A v \in Workers \ {w} : work'[v] = work[v]
    BY <1>27 DEF Decide, Finish
  <2>2. CASE work'[w].stage # "reset"
    <3>1. Quietly(work[w], work'[w])
      BY <1>27, <2>2
         DEF Decide, At, Finish, PhaseOf, XInv, Serene, Quietly, Held, Heals, RunStages, Nobody,
             Work
    <3> QED
      BY <2>1, <3>1, QuietStep
  <2>3. CASE work'[w].stage = "reset"
    <3>1. lock[p] = Nil /\ work'[w] = [work[w] EXCEPT !.stage = "reset", !.then = "bill",
                                                    !.waived = Waives(Copy(w), p), !.copy = Nil]
      <4>1. \/ work' = [work EXCEPT ![w] = Nobody]
            \/ work' = [work EXCEPT ![w].stage = "bill", ![w].waived = Waives(Copy(w), p)]
            \/ Dead(Copy(w), p) /\ work' = [work EXCEPT ![w].stage = "reset", ![w].then = "bill",
                                                       ![w].waived = Waives(Copy(w), p), ![w].copy = Nil]
        BY <1>27 DEF Decide, Finish
      <4>2. work' # [work EXCEPT ![w] = Nobody]
        BY <2>3 DEF Nobody
      <4>3. work' # [work EXCEPT ![w].stage = "bill", ![w].waived = Waives(Copy(w), p)]
        BY <2>3 DEF Work
      <4>4. Dead(Copy(w), p) => lock[p] = Nil
        BY DEF Dead
      <4> QED
        BY <4>1, <4>2, <4>3, <4>4
    <3>0. p \in All /\ Serene(work[w])
      BY <1>27 DEF Decide, At, PhaseOf, Carried, Carries, PhaseStages, XInv
    <3>2. work'[w].phase = p /\ Serene(work'[w]) /\ ~Held(work'[w])
      BY <3>0, <3>1 DEF PhaseOf, Serene, Held, RunStages, Work
    <3>3. \A v \in Workers : Held(work[v]) => work[v].phase # p
      BY <3>1, PhaseAssumption DEF XInv, Guarded
    <3>4. Guarded'
      BY <2>1, <3>2 DEF XInv, Guarded
    <3>5. Healing'
      <4> SUFFICES ASSUME NEW u \in Workers, NEW v \in Workers, Heals(work'[u]), Held(work'[v])
                   PROVE  work'[u].phase # work'[v].phase
        BY DEF Healing
      <4>1. v # w /\ work'[v] = work[v]
        BY <2>1, <3>2
      <4>2. CASE u = w
        BY <3>2, <3>3, <4>1, <4>2
      <4>3. CASE u # w
        BY <2>1, <4>1, <4>3 DEF XInv, Healing
      <4> QED
        BY <4>2, <4>3
    <3>6. \A v \in Workers : Serene(work'[v])
      BY <2>1, <3>2 DEF XInv
    <3> QED
      BY <3>4, <3>5, <3>6 DEF XInv
  <2> QED
    BY <2>2, <2>3
<1>28. ASSUME NEW w \in Workers, Unlock(w) PROVE XInv'
  <2>1. work[w].then # "wipe" /\ Heals(work[w])
    BY <1>28 DEF XInv, Serene, Unlock, At, Heals
  <2>2. lock' = [lock EXCEPT ![work[w].phase] = Nil] /\ work' = [work EXCEPT ![w].stage = "reread", ![w].copy = Nil]
    BY <1>28, <2>1 DEF Unlock, PhaseOf, Goto
  <2>3. /\ \A v \in Workers \ {w} : work'[v] = work[v]
        /\ ~Held(work'[w]) /\ ~Heals(work'[w]) /\ Serene(work'[w])
    BY <2>2 DEF Held, Heals, Serene, XInv, RunStages, Work
  <2>4. Guarded'
    <3> SUFFICES ASSUME NEW v \in Workers, Held(work'[v]) PROVE lock'[work'[v].phase] = v
      BY DEF Guarded
    <3>1. v # w /\ work'[v] = work[v]
      BY <2>3
    <3>2. work[v].phase # work[w].phase /\ lock[work[v].phase] = v
      BY <2>1, <3>1 DEF XInv, Healing, Guarded
    <3>3. work[v].phase \in All
      BY <3>1 DEF Held, Work
    <3> QED
      BY <2>2, <3>1, <3>2, <3>3 DEF XInv, TInv, TypeOK
  <2>5. Healing' /\ \A v \in Workers : Serene(work'[v])
    BY <2>3 DEF XInv, Healing
  <2> QED
    BY <2>4, <2>5 DEF XInv
<1>29. ASSUME NEW w \in Workers, Lock(w) PROVE XInv'
  <2> DEFINE p == PhaseOf(w)
  <2>1. CASE lock[p] # Nil
    <3>1. lock' = lock /\ work' = [work EXCEPT ![w] = Nobody]
      BY <1>29, <2>1 DEF Lock, Finish
    <3>2. Quietly(work[w], work'[w])
      BY <3>1 DEF Quietly, Held, Heals, Serene, Nobody, RunStages
    <3> QED
      BY <3>1, <3>2, QuietStep
  <2>2. CASE lock[p] = Nil
    <3>1. /\ lock' = [lock EXCEPT ![p] = w]
          /\ work' = [work EXCEPT ![w].stage = "begin", ![w].copy = Nil]
      BY <1>29, <2>2 DEF Lock, Goto
    <3>2. p \in All /\ work'[w].phase = p /\ ~Heals(work'[w]) /\ Serene(work'[w])
      BY <1>29, <3>1
         DEF Lock, At, PhaseOf, Carried, Carries, PhaseStages, RunStages, Heals, Serene, XInv,
             Work
    <3>3. \A v \in Workers \ {w} : work'[v] = work[v]
      BY <3>1
    <3>4. \A v \in Workers : ~Heals(work'[v])
      BY <1>29, <3>2, <3>3 DEF Lock, At, Clear, Engaged, Serial, Heals, HandlerStages
    <3>5. Guarded'
      <4> SUFFICES ASSUME NEW v \in Workers, Held(work'[v]) PROVE lock'[work'[v].phase] = v
        BY DEF Guarded
      <4>1. CASE v = w
        BY <3>1, <3>2, <4>1 DEF XInv, TInv, TypeOK
      <4>2. CASE v # w
        <5>1. work'[v] = work[v] /\ lock[work[v].phase] = v
          BY <3>3, <4>2 DEF XInv, Guarded
        <5>2. work[v].phase # p
          BY <5>1, <2>2, PhaseAssumption
        <5> QED
          BY <3>1, <5>1, <5>2 DEF XInv, TInv, TypeOK
      <4> QED
        BY <4>1, <4>2
    <3>6. Healing' /\ \A v \in Workers : Serene(work'[v])
      BY <3>2, <3>3, <3>4 DEF XInv, Healing
    <3> QED
      BY <3>5, <3>6 DEF XInv
  <2> QED
    BY <2>1, <2>2
<1>30. ASSUME NEW w \in Workers, Release(w) PROVE XInv'
  <2>1. lock' = [lock EXCEPT ![work[w].phase] = Nil] /\ work' = [work EXCEPT ![w] = Nobody]
    BY <1>30 DEF Release, Finish, PhaseOf
  <2>2. work[w].phase \in All /\ Held(work[w])
    BY <1>30 DEF Release, At, Carried, Carries, PhaseStages, RunStages, Held, All
  <2>3. lock[work[w].phase] = w
    BY <2>2 DEF XInv, Guarded
  <2>4. /\ \A v \in Workers \ {w} : work'[v] = work[v]
        /\ ~Held(work'[w]) /\ ~Heals(work'[w]) /\ Serene(work'[w])
    BY <2>1 DEF Held, Heals, Serene, Nobody, RunStages
  <2>5. Guarded'
    <3> SUFFICES ASSUME NEW v \in Workers, Held(work'[v]) PROVE lock'[work'[v].phase] = v
      BY DEF Guarded
    <3>1. v # w /\ work'[v] = work[v] /\ lock[work[v].phase] = v
      BY <2>4 DEF XInv, Guarded
    <3> QED
      BY <2>1, <2>3, <3>1 DEF XInv, TInv, TypeOK
  <2>6. Healing' /\ \A v \in Workers : Serene(work'[v])
    BY <2>4 DEF XInv, Healing
  <2> QED
    BY <2>5, <2>6 DEF XInv
<1>31. ASSUME NEW w \in Workers, Crash(w) PROVE XInv'
  <2>1. /\ lock' = [p \in All |-> IF lock[p] = w THEN Orphan ELSE lock[p]]
        /\ work' = [work EXCEPT ![w] = Nobody]
    BY <1>31 DEF Crash, Finish
  <2>2. /\ \A v \in Workers \ {w} : work'[v] = work[v]
        /\ ~Held(work'[w]) /\ ~Heals(work'[w]) /\ Serene(work'[w])
    BY <2>1 DEF Held, Heals, Serene, Nobody, RunStages
  <2>3. Guarded'
    <3> SUFFICES ASSUME NEW v \in Workers, Held(work'[v]) PROVE lock'[work'[v].phase] = v
      BY DEF Guarded
    <3>1. v # w /\ work'[v] = work[v] /\ lock[work[v].phase] = v
      BY <2>2 DEF XInv, Guarded
    <3>2. work[v].phase \in All
      BY <3>1 DEF Held, Work
    <3> QED
      BY <2>1, <3>1, <3>2
  <2>4. Healing' /\ \A v \in Workers : Serene(work'[v])
    BY <2>2 DEF XInv, Healing
  <2> QED
    BY <2>3, <2>4 DEF XInv
<1>32. ASSUME NEW p \in All, Expire(p) PROVE XInv'
  <2>1. lock[p] = Orphan /\ lock' = [lock EXCEPT ![p] = Nil] /\ work' = work
    BY <1>32 DEF Expire, Serial
  <2>2. Guarded'
    <3> SUFFICES ASSUME NEW v \in Workers, Held(work[v]) PROVE lock'[work[v].phase] = v
      BY <2>1 DEF Guarded
    <3>1. lock[work[v].phase] = v /\ work[v].phase # p
      BY <2>1, PhaseAssumption DEF XInv, Guarded
    <3> QED
      BY <2>1, <3>1 DEF XInv, TInv, TypeOK
  <2> QED
    BY <2>1, <2>2 DEF XInv, Healing
<1>33. ASSUME UNCHANGED vars PROVE XInv'
  BY <1>33 DEF vars, XInv, Guarded, Healing
<1>34. ASSUME NEW w \in Workers, NEW p \in All \cup {0}, NEW t \in {"idle", "decide"},
            Open(w, p, FALSE, t)
     PROVE  XInv'
  <2>1. lock' = lock /\ \A v \in Workers \ {w} : work'[v] = work[v]
    BY <1>34 DEF Open
  <2>2. Quietly(work[w], work'[w])
    BY <1>34 DEF Open, Quietly, Held, Heals, Serene, Nobody, RunStages
  <2> QED
    BY <2>1, <2>2, QuietStep
<1>35. ASSUME NEW w \in Workers, NEW p \in Phases, Events(w, p) PROVE XInv'
  <2>1. lock' = lock /\ \A v \in Workers \ {w} : work'[v] = work[v]
    BY <1>35 DEF Events
  <2>2. Quietly(work[w], work'[w])
    BY <1>35 DEF Events, Quietly, Held, Heals, Serene, Nobody, RunStages
  <2> QED
    BY <2>1, <2>2, QuietStep
<1>36. ASSUME NEW w \in Workers, NEW kind \in {"patch", "overwrite", "commit", "audit", "jd", "touch"},
            Load(w, kind)
     PROVE  XInv'
  <2>1. lock' = lock /\ \A v \in Workers \ {w} : work'[v] = work[v]
    BY <1>36 DEF Load
  <2>2. kind # "jd"
    BY <1>36 DEF Load, Serial
  <2>3. Quietly(work[w], work'[w])
    BY <1>36, <2>2 DEF Load, Quietly, Held, Heals, Serene, Nobody, RunStages
  <2> QED
    BY <2>1, <2>3, QuietStep
<1>37. ASSUME NEW w \in Workers, Arrive(w) PROVE XInv'
  <2>1. ASSUME NEW p \in Phases, Trigger(w, p, FALSE) PROVE XInv'
    BY <2>1, <1>34, PhaseAssumption DEF Trigger, All
  <2>2. ASSUME View(w) PROVE XInv'
    BY <2>2, <1>34 DEF View
  <2>3. "force" \notin Requests
    BY DEF Serial
  <2> QED
    BY <1>37, <1>35, <1>36, <2>1, <2>2, <2>3 DEF Arrive
<1>38. ASSUME NEW w \in Workers, Step(w) PROVE XInv'
  BY <1>38, <1>1, <1>2, <1>27, <1>3, <1>28, <1>4, <1>5, <1>6, <1>7, <1>8, <1>9, <1>10, <1>11,
     <1>12, <1>13, <1>14, <1>15, <1>16, <1>29, <1>17, <1>18, <1>19, <1>20, <1>21, <1>22, <1>23,
     <1>24, <1>25, <1>26, <1>30
     DEF Step, HandlerStep, EditStep, RunStep
<1> QED
  BY <1>31, <1>32, <1>33, <1>37, <1>38 DEF Next

\* On a session whose requests do not overlap and on which nobody forces a run or changes
\* the job description, with a lock that outlives its run, at most one run of a phase is
\* ever between acquire_phase_lock and its release, whatever crashes.
THEOREM PhaseExclusive ==
    ASSUME Serial
    PROVE  Spec => []Exclusive
<1>1. XInv /\ [Next]_vars => XInv'
  BY SerialStep
<1>2. XInv => Exclusive
  BY GuardedExclusive DEF XInv
<1> QED
  BY SerialInit, <1>1, <1>2, PTL DEF Spec

(***************************************************************************)
(* Requests one at a time                                                  *)
(*                                                                         *)
(* Without Overlap a worker in the middle of a request or of an update is  *)
(* alone, and the copy it holds is the document.  Both claims below rest   *)
(* on it.                                                                  *)
(***************************************************************************)
Current ==
    \A w \in Workers : Engaged(w) =>
        /\ \A v \in Workers \ {w} : ~Engaged(v)
        /\ Copy(w) # Nil => Copy(w) = session

\* A worker moves while nobody else is in the middle of anything, and what it carries
\* away is the document as it left it.
Moves(w) ==
    /\ \A v \in Workers \ {w} : work'[v] = work[v] /\ ~Engaged(v)
    /\ work'[w].copy \in {Nil, session'} \/ work'[w].stage = "persist"

\* Such a move keeps every copy current.
LEMMA MovesCurrent ==
    ASSUME NEW w \in Workers, Moves(w), TInv, Current
    PROVE  Current'
<1>1. \A v \in Workers \ {w} : ~Engaged(v)'
  BY DEF Moves, Engaged
<1>2. Engaged(w)' /\ Copy(w)' # Nil => Copy(w)' = session'
  BY DEF Moves, Engaged, Copy, HandlerStages
<1> QED
  BY <1>1, <1>2 DEF Current

\* Every step but a crash and the expiry of a lock is such a move.
LEMMA EveryMove ==
    ASSUME ~Overlap, TInv, Current, NEW w \in Workers, Arrive(w) \/ Step(w)
    PROVE  Moves(w)
<1>0. work \in [Workers -> Work] /\ Carries(work[w])
  BY DEF TInv, TypeOK, Carried
<1>1. /\ work[w].stage # "persist" /\ Copy(w) # Nil => Copy(w) = session
      /\ Clear(w) => \A v \in Workers \ {w} : ~Engaged(v)
  BY ~Overlap DEF Current, Engaged, Copy, Clear
<1> DEFINE Parts == work'[w].copy = Nil /\ \A v \in Workers \ {w} : work'[v] = work[v]
<1>a. Finish(w) => Parts
  BY <1>0 DEF Finish, Nobody
<1>b. \A st : Goto(w, st) => Parts
  BY <1>0 DEF Goto
<1>c. ASSUME NEW s, NEW st, Write(w, s, st)
      PROVE  /\ work'[w].copy \in {Nil, session'}
             /\ \A v \in Workers \ {w} : work'[v] = work[v]
  <2>1. CASE st = "idle"
    BY <1>a, <1>c, <2>1 DEF Write
  <2>2. CASE st # "idle"
    <3>1. work' = [work EXCEPT ![w].stage = st, ![w].copy = s] /\ session' = s
      BY <1>c, <2>2 DEF Write, Store
    <3> QED
      BY <1>0, <3>1 DEF Work
  <2> QED
    BY <2>1, <2>2
<1> USE <1>0, <1>1, <1>a, <1>b, <1>c DEF At, Holds, Copy, Store, Free, Moves
<1>2. CASE Read(w)
  BY <1>2 DEF Read, Rereading
<1>3. CASE HandlerStep(w)
  <2>1. CASE Opened(w)
    <3>1. CASE work[w].then = "idle"
      BY <2>1, <3>1 DEF Opened
    <3>2. CASE work[w].then # "idle"
      <4>1. session' = Backfilled(work[w].copy)
        BY <2>1 DEF Opened
      <4>2. work' = [work EXCEPT ![w].stage = "decide", ![w].copy = session']
        BY <2>1, <3>2, <4>1 DEF Opened
      <4> QED
        BY <2>1, <4>2 DEF Opened
    <3> QED
      BY <3>1, <3>2
  <2>2. CASE Decide(w)
    <3>1. Clear(w) /\ work[w].stage = "decide" /\ session' = session
      BY <2>2 DEF Decide
    <3>2. \/ Finish(w)
          \/ work' = [work EXCEPT ![w].stage = "reset", ![w].then = "bill",
                         ![w].waived = Waives(Copy(w), PhaseOf(w)), ![w].copy = Nil]
          \/ work' = [work EXCEPT ![w].stage = "bill", ![w].waived = Waives(Copy(w), PhaseOf(w))]
      BY <2>2 DEF Decide
    <3>3. work'[w].copy \in {Nil, Copy(w)} /\ \A v \in Workers \ {w} : work'[v] = work[v]
      BY <3>2 DEF Work
    <3> QED
      BY <3>1, <3>3
  <2>3. CASE Reset(w)
    BY <2>3 DEF Reset
  <2>4. CASE Unlock(w)
    <3>1. Clear(w) /\ work[w].stage = "unlock" /\ session' = session
      BY <2>4 DEF Unlock
    <3>2. \/ Goto(w, "reread") \/ Finish(w)
          \/ work' = [work EXCEPT ![w].stage = "reset", ![w].phase = PhaseOf(w) + 1]
      BY <2>4 DEF Unlock
    <3>3. work'[w].copy \in {Nil, Copy(w)} /\ \A v \in Workers \ {w} : work'[v] = work[v]
      BY <3>2 DEF Work
    <3> QED
      BY <3>1, <3>3
  <2>5. CASE Reread(w)
    BY <2>5 DEF Reread
  <2>6. CASE Bill(w)
    <3>1. Clear(w) /\ work[w].stage = "bill" /\ session' = session
      BY <2>6 DEF Bill
    <3>2. \/ work' = [work EXCEPT ![w].stage = "reset", ![w].then = "ask", ![w].copy = Nil]
          \/ work' = [work EXCEPT ![w].stage = "ask"]
      BY <2>6 DEF Bill
    <3>3. work'[w].copy \in {Nil, Copy(w)} /\ \A v \in Workers \ {w} : work'[v] = work[v]
      BY <3>2 DEF Work
    <3> QED
      BY <3>1, <3>3
  <2>7. CASE Refuse(w)
    BY <2>7 DEF Refuse
  <2>8. CASE Ask(w)
    BY <2>8 DEF Ask
  <2>9. CASE Accept(w)
    BY <2>9 DEF Accept
  <2> QED
    BY <1>3, <2>1, <2>2, <2>3, <2>4, <2>5, <2>6, <2>7, <2>8, <2>9 DEF HandlerStep
<1>4. CASE EditStep(w)
  <2>1. CASE Patch(w)
    <3>1. \E s, st : Write(w, s, st)
      BY <2>1 DEF Patch
    <3> QED
      BY <2>1, <3>1 DEF Patch
  <2>2. CASE Overwrite(w)
    <3>1. \E s, st : Write(w, s, st)
      BY <2>2 DEF Overwrite
    <3> QED
      BY <2>2, <3>1 DEF Overwrite
  <2>3. CASE Commit(w)
    <3>1. \E s, st : Write(w, s, st)
      BY <2>3 DEF Commit
    <3> QED
      BY <2>3, <3>1 DEF Commit
  <2>4. CASE Persist(w)
    BY <2>4 DEF Persist
  <2>5. CASE Audit(w)
    BY <2>5 DEF Audit
  <2>6. CASE Reject(w)
    BY <2>6 DEF Reject
  <2>7. CASE Touch(w)
    BY <2>7 DEF Touch
  <2>8. CASE ChangeJd(w)
    BY <2>8 DEF ChangeJd
  <2> QED
    BY <1>4, <2>1, <2>2, <2>3, <2>4, <2>5, <2>6, <2>7, <2>8 DEF EditStep
<1>5. CASE RunStep(w)
  <2>1. CASE Lock(w)
    BY <2>1 DEF Lock
  <2>2. CASE Begin(w)
    BY <2>2 DEF Begin
  <2>3. CASE MarkRunning(w)
    BY <2>3 DEF MarkRunning
  <2>4. CASE Intel(w)
    BY <2>4 DEF Intel
  <2>5. CASE Generate(w)
    BY <2>5 DEF Generate
  <2>6. CASE Fail(w)
    BY <2>6 DEF Fail
  <2>7. CASE MarkFailed(w)
    BY <2>7 DEF MarkFailed
  <2>8. CASE SaveOutput(w)
    BY <2>8 DEF SaveOutput
  <2>9. CASE MarkDownstream(w)
    BY <2>9 DEF MarkDownstream
  <2>10. CASE Sync(w)
    BY <2>10 DEF Sync
  <2>11. CASE ClearStale(w)
    BY <2>11 DEF ClearStale
  <2>12. CASE Release(w)
    BY <2>12 DEF Release
  <2> QED
    BY <1>5, <2>1, <2>2, <2>3, <2>4, <2>5, <2>6, <2>7, <2>8, <2>9, <2>10, <2>11, <2>12 DEF RunStep
<1>6. CASE Arrive(w)
  <2>1. ASSUME NEW p, NEW f, NEW t, Open(w, p, f, t) PROVE Moves(w)
    BY <2>1 DEF Open
  <2>2. ASSUME NEW p, Events(w, p) PROVE Moves(w)
    BY <2>2 DEF Events
  <2>3. ASSUME NEW kind, Load(w, kind) PROVE Moves(w)
    BY <2>3 DEF Load
  <2> QED
    BY <1>6, <2>1, <2>2, <2>3 DEF Arrive, Trigger, View
<1> QED
  BY <1>2, <1>3, <1>4, <1>5, <1>6 DEF Step

\* So no step spoils a copy.
LEMMA CurrentStep ==
    ASSUME ~Overlap, TInv, Current, [Next]_vars
    PROVE  Current'
<1>1. ASSUME NEW w \in Workers, Arrive(w) \/ Step(w) PROVE Current'
  BY <1>1, EveryMove, MovesCurrent
<1>2. ASSUME NEW w \in Workers, Crash(w) PROVE Current'
  <2>1. session' = session /\ work'[w] = Nobody /\ \A v \in Workers \ {w} : work'[v] = work[v]
    BY <1>2 DEF Crash, Finish, TInv, TypeOK
  <2> QED
    BY <2>1 DEF Current, Engaged, Copy, Nobody, HandlerStages
<1>3. CASE UNCHANGED <<session, work>>
  BY <1>3 DEF Current, Engaged, Copy
<1> QED
  BY <1>1, <1>2, <1>3 DEF Next, Expire, vars

\* At first nobody is in the middle of anything.
LEMMA CurrentInit == Init => Current
  BY DEF Init, Current, Engaged, Nobody, HandlerStages

(***************************************************************************)
(* A new job description wipes what was made for the old one               *)
(*                                                                         *)
(* For an anonymous session whose clients wait for running phases.  The    *)
(* request that changes the job description wipes the phases one after the *)
(* other: until it is through, the outputs that may be old are those it    *)
(* has still to wipe, and no run is there to write another.                *)
(***************************************************************************)
Waiting == ~Overlap /\ Patient /\ Anonymous /\ MaxCrashes = 0

Handling(r) == r.stage \in HandlerStages \ {"accept"}
Running(r) == r.stage \in RunStages /\ r.phase # 0
Wiper(r) == r.stage \in {"reset", "unlock"} /\ r.then = "wipe"

\* The phases a request for a new job description has still to wipe.
Left(r, p) == Wiper(r) /\ (p > r.phase \/ (p = r.phase /\ r.stage = "reset"))

Fits(o, j) == o # Nil => o.jd = j
AllFit(s, j) == \A p \in All : Fits(s.out[p], j)

\* What a run works from and what it made are of the job description j.
Carrying(r) == r.input # Nil \/ r.output # Nil
CarriesFit(r, j) ==
    /\ Running(r)
    /\ r.input # Nil => r.input.jd = j /\ AllFit(r.input, j)
    /\ Fits(r.output, j)

JdInv ==
    /\ snapshot = Nil
    /\ \A v, w \in Workers : Handling(work[w]) => ~Running(work[v])
    /\ \A w \in Workers : Carrying(work[w]) => CarriesFit(work[w], session.jd)
    /\ \A p \in All :
          Fits(session.out[p], session.jd) \/ \E w \in Workers : Left(work[w], p)

\* A move after which every output fits, or is still to be wiped, or is as it was.
FitOrLeft(w, p) ==
    \/ Fits(session'.out[p], session'.jd)
    \/ Left(work'[w], p)
    \/ session'.out[p] = session.out[p] /\ session'.jd = session.jd /\ ~Left(work[w], p)

Tidy(w) ==
    /\ snapshot' = Nil
    /\ session'.jd = session.jd \/ \A v \in Workers : ~Running(work[v])
    /\ \A p \in All : FitOrLeft(w, p)
    /\ Handling(work'[w]) => Handling(work[w]) \/ \A v \in Workers : ~Running(work[v])
    /\ Carrying(work'[w]) => CarriesFit(work'[w], session'.jd)

\* A tidy move keeps the invariant.
LEMMA TidyKeeps ==
    ASSUME NEW w \in Workers, Moves(w), Tidy(w), JdInv
    PROVE  JdInv'
<1>1. \A v \in Workers \ {w} : work'[v] = work[v] /\ ~Handling(work[v])
  BY DEF Moves, Engaged, Handling
<1>2. ASSUME NEW u \in Workers, NEW v \in Workers, Handling(work'[u]) PROVE ~Running(work'[v])
  <2>1. u = w
    BY <1>1, <1>2
  <2>2. \A x \in Workers : ~Running(work[x])
    BY <1>2, <2>1 DEF Tidy, JdInv
  <2>3. ~Running(work'[w])
    BY <1>2, <2>1 DEF Handling, Running, HandlerStages, RunStages
  <2> QED
    BY <1>1, <2>2, <2>3
<1>3. ASSUME NEW v \in Workers, Carrying(work'[v]) PROVE CarriesFit(work'[v], session'.jd)
  <2>1. CASE v = w
    BY <1>3, <2>1 DEF Tidy
  <2>2. CASE v # w
    <3>1. work'[v] = work[v] /\ CarriesFit(work[v], session.jd)
      BY <1>1, <1>3, <2>2 DEF JdInv
    <3>2. session'.jd = session.jd
      BY <3>1 DEF Tidy, CarriesFit
    <3> QED
      BY <3>1, <3>2
  <2> QED
    BY <2>1, <2>2
<1>4. ASSUME NEW p \in All
      PROVE  Fits(session'.out[p], session'.jd) \/ \E v \in Workers : Left(work'[v], p)
  BY <1>1 DEF Tidy, FitOrLeft, JdInv
<1> QED
  BY <1>2, <1>3, <1>4 DEF JdInv, Tidy

\* Requests other than the wipe itself, and the steps of a run: they leave the job
\* description alone, and every output as it was or fitting.
LEMMA TidyDoc ==
    ASSUME NEW w \in Workers, JdInv, snapshot' = snapshot, session'.jd = session.jd,
           \A p \in All : session'.out[p] = session.out[p] \/ Fits(session'.out[p], session.jd),
           ~Wiper(work[w]), Handling(work'[w]) => Handling(work[w]),
           Carrying(work'[w]) => CarriesFit(work'[w], session.jd)
    PROVE  Tidy(w)
  BY DEF Tidy, FitOrLeft, Left, JdInv

\* A request never carries anything, so it may move on to any stage.
LEMMA Empty ==
    ASSUME NEW w \in Workers, JdInv, ~Running(work[w]),
           work'[w].input = work[w].input, work'[w].output = work[w].output
    PROVE  ~Carrying(work'[w])
  BY DEF JdInv, Carrying, CarriesFit

\* Every step but a crash and the expiry of a lock is tidy.
LEMMA EveryTidy ==
    ASSUME Waiting, TInv, Current, JdInv, NEW w \in Workers, Arrive(w) \/ Step(w)
    PROVE  Tidy(w)
<1> DEFINE r == work[w]
           q == work'[w]
<1>0. /\ work \in [Workers -> Work] /\ r \in Work /\ Carries(r)
      /\ session \in Session /\ snapshot = Nil
  BY DEF TInv, TypeOK, Carried, JdInv
<1>1. r.stage # "persist" /\ r.copy # Nil => r.copy = session
  BY DEF Current, Engaged, Copy
<1>2. ~Carrying(Nobody) /\ ~Handling(Nobody) /\ Nobody.input = Nil /\ Nobody.output = Nil
  BY DEF Carrying, Handling, HandlerStages, Nobody
<1>3. Finish(w) => q = Nobody
  BY <1>0 DEF Finish
<1>4. ASSUME NEW st, Goto(w, st)
      PROVE  /\ q.stage = st /\ q.phase = r.phase /\ q.then = r.then
             /\ q.input = r.input /\ q.output = r.output
  BY <1>0, <1>4 DEF Goto, Work
<1>5. /\ Handling(r) => ~Running(r)
      /\ r.stage \notin {"reset", "unlock"} => ~Wiper(r)
      /\ r.stage \notin HandlerStages => ~Handling(r)
      /\ r.stage \in {"idle", "persist", "accept"} => ~Running(r)
      /\ r.stage \in {"open", "decide", "reset", "unlock", "reread", "bill", "ask",
                      "patch", "overwrite", "commit", "audit", "jd", "touch"} => Handling(r)
  BY DEF Handling, Running, Wiper, HandlerStages, RunStages
<1>6. ASSUME session' = session, snapshot' = snapshot, ~Wiper(r),
             q.input = r.input, q.output = r.output, ~Running(r),
             Handling(q) => Handling(r)
      PROVE  Tidy(w)
  BY <1>6, Empty, TidyDoc
<1>7. ASSUME session' = session, snapshot' = snapshot, ~Wiper(r), Finish(w)
      PROVE  Tidy(w)
  BY <1>2, <1>3, <1>7, TidyDoc
<1>8. ASSUME NEW s, NEW st, Write(w, s, st), Handling(r), ~Wiper(r), st \in {"idle", "sync", "persist"},
             s.jd = session.jd,
             \A p \in All : s.out[p] = session.out[p] \/ Fits(s.out[p], session.jd)
      PROVE  Tidy(w)
  <2>1. session' = s /\ snapshot' = snapshot
    BY <1>8 DEF Write, Store
  <2>2. ~Carrying(q) /\ (Handling(q) => Handling(r))
    <3>1. CASE st = "idle"
      BY <1>2, <1>3, <1>8, <3>1 DEF Write
    <3>2. CASE st # "idle"
      <4>1. q.input = r.input /\ q.output = r.output
        BY <1>0, <1>8, <3>2 DEF Write, Work
      <4> QED
        BY <1>5, <1>8, <4>1, Empty
    <3> QED
      BY <3>1, <3>2
  <2> QED
    BY <1>8, <2>1, <2>2, TidyDoc
<1>9. CASE Read(w)
  <2>1. /\ session' = session /\ snapshot' = snapshot
        /\ work' = [work EXCEPT ![w].copy = session]
    BY <1>9 DEF Read
  <2>2. /\ q.stage = r.stage /\ q.phase = r.phase /\ q.then = r.then
        /\ q.input = r.input /\ q.output = r.output
    BY <1>0, <2>1 DEF Work
  <2>3. Carrying(q) => CarriesFit(q, session.jd)
    BY <2>2 DEF JdInv, Carrying, CarriesFit, Running
  <2> QED
    BY <1>0, <2>1, <2>2, <2>3 DEF Tidy, FitOrLeft, Left, Wiper, Handling
<1>10. CASE HandlerStep(w)
  <2>1. CASE Opened(w)
    <3>1. r.stage = "open" /\ r.copy = session /\ session' = Backfilled(r.copy) /\ snapshot' = snapshot
      BY <1>1, <2>1 DEF Opened, Holds, At, Copy, Store
    <3>2. session' = session
      BY <1>0, <3>1 DEF Backfilled
    <3>3. Finish(w) \/ work' = [work EXCEPT ![w].stage = "decide", ![w].copy = session]
      BY <3>1, <3>2, <2>1 DEF Opened, Copy
    <3>4. Finish(w) \/ (q.input = r.input /\ q.output = r.output)
      BY <1>0, <3>3 DEF Work
    <3> QED
      BY <1>5, <1>6, <1>7, <3>1, <3>2, <3>4
  <2>2. CASE Decide(w)
    <3>1. r.stage = "decide" /\ session' = session /\ snapshot' = snapshot
      BY <2>2 DEF Decide, At
    <3>2. \/ Finish(w)
          \/ work' = [work EXCEPT ![w].stage = "reset", ![w].then = "bill",
                         ![w].waived = Waives(Copy(w), PhaseOf(w)), ![w].copy = Nil]
          \/ work' = [work EXCEPT ![w].stage = "bill", ![w].waived = Waives(Copy(w), PhaseOf(w))]
      BY <2>2 DEF Decide
    <3>3. Finish(w) \/ (q.input = r.input /\ q.output = r.output)
      BY <1>0, <3>2 DEF Work
    <3> QED
      BY <1>5, <1>6, <1>7, <3>1, <3>3
  <2>3. CASE Reset(w)
    <3> DEFINE n == r.phase
    <3>1. /\ r.stage = "reset" /\ r.copy = session /\ n \in All /\ snapshot' = snapshot
          /\ session' = [session EXCEPT !.out[n] = Nil, !.status[n] = "pending"]
          /\ Goto(w, "unlock")
      BY <1>0, <1>1, <2>3 DEF Reset, Holds, At, Copy, Store, PhaseOf, Carries, PhaseStages
    <3>2. /\ session'.jd = session.jd /\ session'.out[n] = Nil
          /\ \A p \in All \ {n} : session'.out[p] = session.out[p]
      BY <1>0, <3>1 DEF Session, Outputs
    <3>3. \A p \in All \ {n} : Left(r, p) => Left(q, p)
      BY <1>4, <3>1 DEF Left, Wiper, All
    <3>4. \A p \in All : FitOrLeft(w, p)
      BY <3>2, <3>3 DEF FitOrLeft, Fits
    <3>5. ~Carrying(q) /\ Handling(r)
      BY <1>4, <1>5, <3>1, Empty
    <3> QED
      BY <1>0, <3>1, <3>2, <3>4, <3>5 DEF Tidy
  <2>4. CASE Unlock(w)
    <3>1. /\ r.stage = "unlock" /\ session' = session /\ snapshot' = snapshot /\ r.phase \in All
      BY <1>0, <2>4 DEF Unlock, At, Carries, PhaseStages
    <3>2. Handling(r) /\ ~Running(r)
      BY <1>5, <3>1
    <3>3. CASE r.then # "wipe"
      BY <1>4, <1>6, <2>4, <3>1, <3>2, <3>3 DEF Unlock, Wiper
    <3>4. CASE r.then = "wipe" /\ Wiped(r.phase)
      <4>1. q = Nobody
        BY <1>3, <2>4, <3>4 DEF Unlock, PhaseOf
      <4>2. \A p \in All : ~Left(r, p)
        BY <3>1, <3>4 DEF Left, Wiped, All
      <4> QED
        BY <1>0, <1>2, <3>1, <4>1, <4>2 DEF Tidy, FitOrLeft
    <3>5. CASE r.then = "wipe" /\ ~Wiped(r.phase)
      <4>1. work' = [work EXCEPT ![w].stage = "reset", ![w].phase = PhaseOf(w) + 1]
        BY <2>4, <3>5 DEF Unlock, PhaseOf
      <4>2. /\ q.stage = "reset" /\ q.phase = r.phase + 1 /\ q.then = "wipe"
            /\ q.input = r.input /\ q.output = r.output
        BY <1>0, <3>5, <4>1 DEF Work, PhaseOf
      <4>3. \A p \in All : Left(r, p) => Left(q, p)
        BY <3>1, <4>2 DEF Left, Wiper, All
      <4>4. ~Carrying(q)
        BY <3>2, <4>2, Empty
      <4> QED
        BY <1>0, <3>1, <3>2, <4>3, <4>4 DEF Tidy, FitOrLeft
    <3> QED
      BY <3>3, <3>4, <3>5
  <2>5. CASE Reread(w)
    <3>1. /\ r.stage = "reread" /\ session' = session /\ snapshot' = snapshot
          /\ work' = [work EXCEPT ![w].stage = work[w].then, ![w].copy = session]
      BY <2>5 DEF Reread, At
    <3>2. q.input = r.input /\ q.output = r.output
      BY <1>0, <3>1 DEF Work
    <3> QED
      BY <1>5, <1>6, <3>1, <3>2
  <2>6. CASE Bill(w)
    <3>1. r.stage = "bill" /\ session' = session /\ snapshot' = snapshot
      BY <2>6 DEF Bill, At
    <3>2. \/ work' = [work EXCEPT ![w].stage = "reset", ![w].then = "ask", ![w].copy = Nil]
          \/ work' = [work EXCEPT ![w].stage = "ask"]
      BY <2>6 DEF Bill
    <3>3. q.input = r.input /\ q.output = r.output
      BY <1>0, <3>2 DEF Work
    <3> QED
      BY <1>5, <1>6, <3>1, <3>3
  <2>7. CASE Refuse(w)
    BY <1>5, <1>7, <2>7 DEF Refuse, At
  <2>8. CASE Ask(w)
    <3>1. /\ r.stage = "ask" /\ r.copy = session /\ snapshot' = snapshot /\ Finish(w)
          /\ session' = [session EXCEPT !.requested = PhaseOf(w)]
      BY <1>0, <1>1, <2>8 DEF Ask, At, Copy, Store, Carries, CopyStages
    <3>2. session'.jd = session.jd /\ session'.out = session.out
      BY <1>0, <3>1 DEF Session
    <3> QED
      BY <1>2, <1>3, <1>5, <3>1, <3>2, TidyDoc
  <2>9. CASE Accept(w)
    <3>1. /\ r.stage = "accept" /\ r.copy = session /\ snapshot' = snapshot /\ Goto(w, "lock")
          /\ session' = [session EXCEPT !.requested = 0]
      BY <1>0, <1>1, <2>9 DEF Accept, At, Copy, Store, Carries, CopyStages, Consumed
    <3>2. session'.jd = session.jd /\ session'.out = session.out
      BY <1>0, <3>1 DEF Session
    <3>3. ~Carrying(q)
      BY <1>4, <1>5, <3>1, Empty
    <3>4. ~Handling(q)
      BY <1>4, <3>1 DEF Handling, HandlerStages
    <3> QED
      BY <1>5, <3>1, <3>2, <3>3, <3>4, TidyDoc
  <2> QED
    BY <1>10, <2>1, <2>2, <2>3, <2>4, <2>5, <2>6, <2>7, <2>8, <2>9 DEF HandlerStep
<1>11. CASE EditStep(w)
  <2>1. ASSUME NEW o, o = session.out[3] \/ (\E n : o = Edited(n)),
               NEW s, s.jd = session.jd, s.out = [session.out EXCEPT ![3] = o]
        PROVE  \A p \in All : s.out[p] = session.out[p] \/ Fits(s.out[p], session.jd)
    <3>1. s.out[3] = session.out[3] \/ s.out[3].jd = session.jd
      BY <1>0, <2>1 DEF Session, Outputs, All, Edited
    <3> QED
      BY <1>0, <2>1, <3>1 DEF Session, Outputs, Fits
  <2>2. CASE Patch(w)
    <3>1. r.stage = "patch" /\ r.copy = session
      BY <1>0, <1>1, <2>2 DEF Patch, At, Copy, Carries, CopyStages
    <3>2. PICK o \in {session.out[3]} \cup {Edited(n) : n \in Fresh} :
             Write(w, Patched(session, o), "sync")
      BY <2>2, <3>1 DEF Patch, Copy
    <3>3. /\ Patched(session, o).jd = session.jd
          /\ Patched(session, o).out = [session.out EXCEPT ![3] = o]
      BY <1>0 DEF Patched, Session
    <3> QED
      BY <1>5, <1>8, <2>1, <3>1, <3>2, <3>3
  <2>3. CASE Overwrite(w)
    <3>1. r.stage = "overwrite" /\ r.copy = session
      BY <1>0, <1>1, <2>3 DEF Overwrite, At, Copy, Carries, CopyStages
    <3>2. PICK o \in ({session.out[3]} \ {Nil}) \cup {Edited(n) : n \in Fresh} :
             Write(w, Overwritten(session, o), "sync")
      BY <2>3, <3>1 DEF Overwrite, Copy
    <3>3. /\ Overwritten(session, o).jd = session.jd
          /\ Overwritten(session, o).out = [session.out EXCEPT ![3] = o]
      BY <1>0 DEF Overwritten, Session
    <3> QED
      BY <1>5, <1>8, <2>1, <3>1, <3>2, <3>3
  <2>4. CASE Commit(w)
    <3>1. r.stage = "commit" /\ r.copy = session
      BY <1>0, <1>1, <2>4 DEF Commit, At, Copy, Carries, CopyStages
    <3>2. PICK o \in ({session.out[3]} \ {Nil}) \cup {Edited(n) : n \in Fresh} :
             Write(w, [session EXCEPT !.out[3] = o], IF Anonymous THEN "idle" ELSE "persist")
      BY <2>4, <3>1 DEF Commit, Copy
    <3>3. /\ [session EXCEPT !.out[3] = o].jd = session.jd
          /\ [session EXCEPT !.out[3] = o].out = [session.out EXCEPT ![3] = o]
      BY <1>0 DEF Session
    <3> QED
      BY <1>5, <1>8, <2>1, <3>1, <3>2, <3>3
  <2>5. CASE Persist(w)
    <3>1. r.stage = "persist" /\ session' = session /\ Finish(w) /\ snapshot' = snapshot
      BY <2>5 DEF Persist, At, Snapshotted, Waiting
    <3> QED
      BY <1>5, <1>7, <3>1
  <2>6. CASE Audit(w)
    <3>1. r.stage = "audit" /\ r.copy = session
      BY <1>0, <1>1, <2>6 DEF Audit, At, Copy, Carries, CopyStages
    <3>2. Write(w, [session EXCEPT !.stale4 = TRUE], "idle")
      BY <2>6, <3>1 DEF Audit, Copy
    <3>3. /\ [session EXCEPT !.stale4 = TRUE].jd = session.jd
          /\ [session EXCEPT !.stale4 = TRUE].out = session.out
      BY <1>0 DEF Session
    <3> QED
      BY <1>5, <1>8, <3>1, <3>2, <3>3
  <2>7. CASE Reject(w)
    BY <1>5, <1>7, <2>7 DEF Reject, At
  <2>8. CASE Touch(w)
    <3>1. r.stage = "touch" /\ r.copy = session
      BY <1>0, <1>1, <2>8 DEF Touch, At, Copy, Carries, CopyStages
    <3>2. Write(w, session, "idle")
      BY <2>8, <3>1 DEF Touch, Copy
    <3> QED
      BY <1>5, <1>8, <3>1, <3>2
  <2>9. CASE ChangeJd(w)
    <3>1. /\ r.stage = "jd" /\ snapshot' = snapshot
          /\ work' = [work EXCEPT ![w].stage = "reset", ![w].phase = 1, ![w].then = "wipe",
                                  ![w].copy = Nil]
      BY <2>9 DEF ChangeJd, At
    <3>2. /\ q.stage = "reset" /\ q.phase = 1 /\ q.then = "wipe"
          /\ q.input = r.input /\ q.output = r.output
      BY <1>0, <3>1 DEF Work
    <3>3. Handling(r) /\ ~Carrying(q)
      BY <1>5, <3>1, <3>2, Empty
    <3>4. \A p \in All : Left(q, p)
      BY <3>2 DEF Left, Wiper, All
    <3>5. \A v \in Workers : ~Running(work[v])
      BY <3>3 DEF JdInv
    <3> QED
      BY <1>0, <3>1, <3>3, <3>4, <3>5 DEF Tidy, FitOrLeft
  <2> QED
    BY <1>11, <2>2, <2>3, <2>4, <2>5, <2>6, <2>7, <2>8, <2>9 DEF EditStep
<1>12. CASE Arrive(w)
  <2>1. ASSUME r.stage = "idle", session' = session, snapshot' = snapshot,
               q.input = Nil, q.output = Nil,
               Handling(q) => \A v \in Workers : ~Running(work[v])
        PROVE  Tidy(w)
    BY <1>0, <1>5, <2>1 DEF Tidy, FitOrLeft, Left, Carrying
  <2>2. Free(w) => r.stage = "idle" /\ \A v \in Workers : ~Running(work[v])
    BY DEF Free, At, Waiting, InRun, PhaseOf, Running
  <2>3. ASSUME NEW p, NEW f, NEW t, Open(w, p, f, t) PROVE Tidy(w)
    <3>1. q.input = Nil /\ q.output = Nil
      BY <1>0, <2>3 DEF Open, Nobody
    <3> QED
      BY <2>1, <2>2, <2>3, <3>1 DEF Open
  <2>4. ASSUME NEW kind, Load(w, kind) PROVE Tidy(w)
    <3>1. q.input = Nil /\ q.output = Nil
      BY <1>0, <2>4 DEF Load, Nobody
    <3> QED
      BY <2>1, <2>2, <2>4, <3>1 DEF Load
  <2>5. ASSUME NEW p, Events(w, p) PROVE Tidy(w)
    <3>1. q.input = Nil /\ q.output = Nil /\ q.stage = "accept"
      BY <1>0, <2>5 DEF Events, Nobody
    <3>2. ~Handling(q)
      BY <3>1 DEF Handling
    <3> QED
      BY <2>1, <2>5, <3>1, <3>2 DEF Events, At
  <2> QED
    BY <1>12, <2>3, <2>4, <2>5 DEF Arrive, Trigger, View
<1>13. CASE RunStep(w)
  <2>1. /\ r.stage \in RunStages
        /\ ~Wiper(r) /\ ~Handling(r)
    BY <1>13 DEF RunStep, Lock, Begin, MarkRunning, Intel, Generate, Fail, MarkFailed, SaveOutput,
                 MarkDownstream, Sync, ClearStale, Release, At, Holds, RunStages, Wiper, Handling,
                 HandlerStages
  <2>2. Carrying(r) => CarriesFit(r, session.jd)
    BY DEF JdInv
  <2>3. ASSUME snapshot' = snapshot, session'.jd = session.jd,
               \A p \in All : session'.out[p] = session.out[p] \/ Fits(session'.out[p], session.jd),
               q.stage \in RunStages, q.phase = r.phase,
               q.input \in {r.input, Nil}, q.output \in {r.output, Nil}
        PROVE  Tidy(w)
    <3>1. ~Handling(q)
      BY <2>3 DEF Handling, RunStages, HandlerStages
    <3>2. Carrying(q) => CarriesFit(q, session.jd)
      BY <2>2, <2>3 DEF Carrying, CarriesFit, Running, Fits
    <3> QED
      BY <2>1, <2>3, <3>1, <3>2, TidyDoc
  <2>4. ASSUME snapshot' = snapshot, session'.jd = session.jd, session'.out = session.out,
               Finish(w)
        PROVE  Tidy(w)
    BY <1>2, <1>3, <2>1, <2>4, TidyDoc
  <2>5. ASSUME NEW st \in RunStages, Goto(w, st), snapshot' = snapshot, session'.jd = session.jd,
               \A p \in All : session'.out[p] = session.out[p] \/ Fits(session'.out[p], session.jd)
        PROVE  Tidy(w)
    BY <1>4, <2>3, <2>5
  <2>6. CASE Lock(w)
    BY <2>4, <2>5, <2>6 DEF Lock, RunStages
  <2>7. CASE Begin(w)
    <3>1. /\ session' = session /\ snapshot' = snapshot /\ r.stage = "begin"
          /\ work' = [work EXCEPT ![w].stage = "mark", ![w].input = session]
      BY <2>7 DEF Begin, At
    <3>2. /\ q.stage = "mark" /\ q.phase = r.phase /\ q.input = session /\ q.output = r.output
      BY <1>0, <3>1 DEF Work
    <3>3. Running(r) /\ Running(q)
      BY <1>0, <3>1, <3>2 DEF Running, RunStages, Carries, PhaseStages, All
    <3>4. \A v \in Workers : ~Wiper(work[v])
      BY <3>3 DEF JdInv, Wiper, Handling, HandlerStages
    <3>5. AllFit(session, session.jd)
      BY <3>4 DEF JdInv, Left, AllFit
    <3>6. Fits(q.output, session.jd)
      BY <2>2, <3>2 DEF Carrying, CarriesFit, Fits
    <3>7. CarriesFit(q, session.jd) /\ ~Handling(q)
      BY <3>2, <3>3, <3>5, <3>6 DEF CarriesFit, Handling, HandlerStages
    <3> QED
      BY <2>1, <3>1, <3>7, TidyDoc
  <2>8. CASE MarkRunning(w)
    <3>1. /\ r.copy = session /\ snapshot' = snapshot
          /\ session' = [r.copy EXCEPT !.status[r.phase] = "running"]
          /\ \E st \in RunStages : Goto(w, st)
      BY <1>1, <2>8 DEF MarkRunning, Holds, At, Copy, Store, PhaseOf, RunStages
    <3>2. session'.jd = session.jd /\ session'.out = session.out
      BY <1>0, <3>1 DEF Session
    <3> QED
      BY <2>5, <3>1, <3>2
  <2>9. CASE Intel(w)
    <3>1. /\ r.stage = "intel" /\ r.input # Nil /\ snapshot' = snapshot /\ Goto(w, "llm")
          /\ session' \in {session, r.input}
      BY <1>0, <2>9 DEF Intel, At, Carries
    <3>2. r.input.jd = session.jd /\ AllFit(r.input, session.jd)
      BY <2>2, <3>1 DEF Carrying, CarriesFit
    <3> QED
      BY <2>5, <3>1, <3>2 DEF AllFit, RunStages
  <2>10. CASE Generate(w)
    <3>1. PICK n :
             /\ r.stage = "llm" /\ session' = session /\ snapshot' = snapshot
             /\ work' = [work EXCEPT ![w].stage = "save", ![w].input = Nil,
                             ![w].output = [jd |-> work[w].input.jd, rev |-> n, by |-> "run"]]
      BY <2>10 DEF Generate, At
    <3>2. /\ q.stage = "save" /\ q.phase = r.phase /\ q.input = Nil
          /\ q.output.jd = r.input.jd
      BY <1>0, <3>1 DEF Work
    <3>3. r.input.jd = session.jd /\ Running(r)
      BY <1>0, <2>2, <3>1 DEF Carries, Carrying, CarriesFit
    <3>4. CarriesFit(q, session.jd) /\ ~Handling(q)
      BY <3>2, <3>3 DEF CarriesFit, Running, RunStages, Fits, Handling, HandlerStages
    <3> QED
      BY <2>1, <3>1, <3>4, TidyDoc
  <2>11. CASE Fail(w)
    <3>1. /\ session' = session /\ snapshot' = snapshot
          /\ work' = [work EXCEPT ![w].stage = "fail", ![w].input = Nil]
      BY <2>11 DEF Fail
    <3>2. q.stage = "fail" /\ q.phase = r.phase /\ q.input = Nil /\ q.output = r.output
      BY <1>0, <3>1 DEF Work
    <3> QED
      BY <2>3, <3>1, <3>2 DEF RunStages
  <2>12. CASE MarkFailed(w)
    <3>1. /\ r.copy = session /\ snapshot' = snapshot /\ Goto(w, "release")
          /\ \E st : session' = [r.copy EXCEPT !.status[r.phase] = st]
      BY <1>1, <2>12 DEF MarkFailed, Holds, At, Copy, Store, PhaseOf
    <3>2. session'.jd = session.jd /\ session'.out = session.out
      BY <1>0, <3>1 DEF Session
    <3> QED
      BY <2>5, <3>1, <3>2 DEF RunStages
  <2>13. CASE SaveOutput(w)
    <3> DEFINE n == r.phase
    <3>1. /\ r.stage = "save" /\ r.copy = session /\ snapshot' = snapshot /\ n \in All
          /\ session' = [session EXCEPT !.out[n] = r.output, !.status[n] = "done"]
          /\ work' = [work EXCEPT ![w].stage = AfterSave(n), ![w].copy = Nil, ![w].output = Nil]
      BY <1>0, <1>1, <2>13
         DEF SaveOutput, Holds, At, Copy, Store, PhaseOf, Carries, PhaseStages, RunStages
    <3>2. /\ session'.jd = session.jd /\ session'.out[n] = r.output
          /\ \A p \in All \ {n} : session'.out[p] = session.out[p]
      BY <1>0, <3>1 DEF Session, Outputs
    <3>3. Fits(r.output, session.jd)
      BY <2>2 DEF Carrying, CarriesFit, Fits
    <3>4. q.stage = AfterSave(n) /\ q.phase = r.phase /\ q.input = r.input /\ q.output = Nil
      BY <1>0, <3>1 DEF Work
    <3>5. AfterSave(n) \in RunStages
      BY DEF AfterSave, RunStages
    <3> QED
      BY <2>3, <3>1, <3>2, <3>3, <3>4, <3>5
  <2>14. CASE MarkDownstream(w)
    <3>1. /\ r.copy = session /\ snapshot' = snapshot /\ Goto(w, "clear")
          /\ session' = [r.copy EXCEPT !.stale4 = r.copy.stale4 \/ r.copy.out[4] # Nil]
      BY <1>1, <2>14 DEF MarkDownstream, Holds, At, Copy, Store
    <3>2. session'.jd = session.jd /\ session'.out = session.out
      BY <1>0, <3>1 DEF Session
    <3> QED
      BY <2>5, <3>1, <3>2 DEF RunStages
  <2>15. CASE Sync(w)
    <3>1. session' = session /\ snapshot' = snapshot /\ (Finish(w) \/ Goto(w, "clear"))
      BY <2>15 DEF Sync, Snapshotted, Waiting
    <3> QED
      BY <2>4, <2>5, <3>1 DEF RunStages
  <2>16. CASE ClearStale(w)
    <3>1. /\ r.copy = session /\ snapshot' = snapshot /\ Goto(w, "release")
          /\ session' = [r.copy EXCEPT !.stale4 = r.copy.stale4 /\ PhaseOf(w) < 3]
      BY <1>1, <2>16 DEF ClearStale, Holds, At, Copy, Store
    <3>2. session'.jd = session.jd /\ session'.out = session.out
      BY <1>0, <3>1 DEF Session
    <3> QED
      BY <2>5, <3>1, <3>2 DEF RunStages
  <2>17. CASE Release(w)
    BY <2>4, <2>17 DEF Release
  <2> QED
    BY <1>13, <2>6, <2>7, <2>8, <2>9, <2>10, <2>11, <2>12, <2>13, <2>14, <2>15, <2>16, <2>17
       DEF RunStep
<1> QED
  BY <1>9, <1>10, <1>11, <1>12, <1>13 DEF Step

\* On an anonymous session whose requests do not overlap and whose clients wait for running
\* phases, nothing made for an old job description is left once a change of it is through:
\* every output there is was made for the job description there is.
THEOREM ChangedJdWipes ==
    ASSUME Waiting
    PROVE  Spec => []OutputsMatchJd
<1> DEFINE Inv == TInv /\ Current /\ JdInv
<1>1. Init => Inv
  <2> SUFFICES ASSUME Init PROVE JdInv
    BY PhaseInit, CurrentInit
  <2>1. \A w \in Workers : work[w] = Nobody
    BY DEF Init
  <2>2. snapshot = Nil /\ AllFit(session, session.jd)
    BY DEF Init, Waiting, AllFit, Fits, Made, All
  <2> QED
    BY <2>1, <2>2 DEF JdInv, AllFit, Nobody, Handling, HandlerStages, Carrying
<1>2. Inv /\ [Next]_vars => Inv'
  <2> SUFFICES ASSUME Inv, [Next]_vars PROVE JdInv'
    BY PhaseStep, CurrentStep DEF Waiting
  <2>1. ASSUME NEW w \in Workers, Arrive(w) \/ Step(w) PROVE JdInv'
    BY <2>1, EveryMove, EveryTidy, TidyKeeps DEF Waiting
  <2>2. ASSUME NEW w \in Workers, Crash(w) PROVE FALSE
    BY <2>2 DEF Crash, Waiting, TInv, TypeOK
  <2>3. CASE UNCHANGED <<session, snapshot, work>>
    BY <2>3 DEF JdInv
  <2> QED
    BY <2>1, <2>2, <2>3 DEF Next, Expire, vars
<1>3. Inv => OutputsMatchJd
  BY DEF JdInv, OutputsMatchJd, Quiet, Left, Wiper, Fits
<1> QED
  BY <1>1, <1>2, <1>3, PTL DEF Spec

(***************************************************************************)
(* No run without a request for it                                         *)
(*                                                                         *)
(* For requests that come one at a time.  A run of a phase may start when  *)
(* it was asked for at the run endpoint once more than it was started: the *)
(* requests for it are the mark in the document and the runs that took the *)
(* mark and wait for the lock.  Phase 3 is left out: it writes its input   *)
(* back, and a consumed mark with it (README, section 5).                  *)
(***************************************************************************)
InTurn ==
    /\ ~Overlap /\ 3 \notin Phases
    /\ IsFiniteSet(Workers) /\ Cardinality(Workers) <= MaxOwed

Waiters(p) == {w \in Workers : work[w].stage = "lock" /\ work[w].phase = p}
Queue == [p \in All |-> Cardinality(Waiters(p))]
Mark == [p \in All |-> IF session.requested = p THEN 1 ELSE 0]

\* A run is never of phase 3, which alone writes its input back.
Harmless(r) ==
    /\ r.stage # "intel"
    /\ r.stage \in {"accept", "lock", "begin", "mark"} => r.phase # 3

AskInv ==
    /\ \A w \in Workers : Harmless(work[w])
    /\ \A w \in Workers : work[w].stage = "accept" => session.requested = work[w].phase
    /\ \A p \in All : Queue[p] + Mark[p] <= owed[p]

\* A move that neither asks for a run, nor accepts the request for one, nor starts one.
Unasked(w) ==
    /\ session'.requested = session.requested /\ owed' = owed
    /\ work[w].stage # "lock" /\ work'[w].stage # "lock"
    /\ work'[w].stage = "accept" => session.requested = work'[w].phase
    /\ Harmless(work'[w])

\* The waiting runs are finitely many, and the marks are at most one.
LEMMA WaitersFinite ==
    ASSUME InTurn
    PROVE  /\ \A p : IsFiniteSet(Waiters(p)) /\ Cardinality(Waiters(p)) \in Nat
           /\ Queue \in [All -> Nat] /\ Queue' \in [All -> Nat]
           /\ Mark \in [All -> {0, 1}] /\ Mark' \in [All -> {0, 1}]
<1>1. \A S \in SUBSET Workers : IsFiniteSet(S) /\ Cardinality(S) \in Nat
  BY FS_Subset, FS_CardinalityType DEF InTurn
<1>2. \A p : Waiters(p) \in SUBSET Workers /\ Waiters(p)' \in SUBSET Workers
  BY DEF Waiters
<1>3. Queue \in [All -> Nat]
  BY <1>1, <1>2 DEF Queue
<1>4. Queue' \in [All -> Nat]
  BY <1>1, <1>2 DEF Queue
<1>5. Mark \in [All -> {0, 1}] /\ Mark' \in [All -> {0, 1}]
  BY DEF Mark
<1> QED
  BY <1>1, <1>2, <1>3, <1>4, <1>5

\* A move in which nobody begins or ends waiting, or asks or is accepted, leaves the counts.
LEMMA CountsKept ==
    ASSUME NEW w \in Workers, Moves(w), Unasked(w)
    PROVE  Queue' = Queue /\ Mark' = Mark
<1>1. \A p : Waiters(p)' = Waiters(p)
  BY DEF Waiters, Moves, Unasked
<1>2. Queue' = Queue
  BY <1>1 DEF Queue
<1>3. Mark' = Mark
  BY DEF Mark, Unasked
<1> QED
  BY <1>2, <1>3

\* Such a move keeps the invariant.
LEMMA UnaskedKeeps ==
    ASSUME NEW w \in Workers, Moves(w), Unasked(w), AskInv
    PROVE  AskInv'
<1>1. Queue' = Queue /\ Mark' = Mark /\ owed' = owed
  BY CountsKept DEF Unasked
<1>2. \A v \in Workers : Harmless(work'[v])
  BY DEF Moves, Unasked, AskInv
<1>3. \A v \in Workers : work'[v].stage = "accept" => session'.requested = work'[v].phase
  BY DEF Moves, Unasked, AskInv
<1> QED
  BY <1>1, <1>2, <1>3 DEF AskInv

\* POST phases/{phase}/run asks: a mark the document had is replaced, and there is
\* room for one more among the workers.
LEMMA AskKeeps ==
    ASSUME InTurn, TInv, Current, AskInv, NEW w \in Workers, Moves(w), Ask(w)
    PROVE  AskInv'
<1>0. PICK n : n = PhaseOf(w)
  OBVIOUS
<1>1. /\ work[w].stage = "ask" /\ n \in All /\ work'[w] = Nobody
      /\ session' = [Copy(w) EXCEPT !.requested = n]
      /\ owed' = [owed EXCEPT ![n] = IF @ < MaxOwed THEN @ + 1 ELSE @]
  BY <1>0 DEF Ask, At, Store, Finish, TInv, TypeOK, Carried, Carries, PhaseStages, PhaseOf
<1>2. Copy(w) \in Session /\ session'.requested = n
  BY <1>1 DEF TInv, TypeOK, Work, Carried, Carries, CopyStages, Session, Copy
<1>3. Queue' = Queue
  <2>1. \A p : Waiters(p)' = Waiters(p)
    BY <1>1 DEF Waiters, Moves, Nobody
  <2> QED
    BY <2>1 DEF Queue
<1>4. owed \in [All -> 0..MaxOwed] /\ MaxOwed \in Nat
  BY PhaseAssumption DEF TInv, TypeOK
<1>5. Queue[n] + 1 <= MaxOwed
  <2>1. Waiters(n) \subseteq Workers \ {w}
    BY <1>1 DEF Waiters
  <2>2. IsFiniteSet(Workers \ {w}) /\ Cardinality(Workers \ {w}) = Cardinality(Workers) - 1
    BY FS_RemoveElement DEF InTurn
  <2>3. Cardinality(Waiters(n)) <= Cardinality(Workers) - 1
    BY <2>1, <2>2, FS_Subset
  <2>4. Cardinality(Workers) \in Nat /\ Cardinality(Waiters(n)) \in Nat
    BY WaitersFinite, FS_CardinalityType DEF InTurn
  <2>5. Queue[n] = Cardinality(Waiters(n))
    BY <1>1 DEF Queue
  <2> QED
    BY <1>4, <2>3, <2>4, <2>5 DEF InTurn
<1>6. \A p \in All : Queue'[p] + Mark'[p] <= owed'[p]
  <2>1. Mark'[n] = 1 /\ \A p \in All \ {n} : Mark'[p] = 0
    BY <1>1, <1>2 DEF Mark
  <2>2. \A p \in All : Mark[p] \in {0, 1} /\ Queue[p] \in Nat /\ Queue[p] + Mark[p] <= owed[p]
    BY WaitersFinite DEF AskInv
  <2>3. Queue[n] + 1 <= owed'[n]
    BY <1>1, <1>4, <1>5, <2>2
  <2>4. \A p \in All \ {n} : Queue[p] <= owed'[p]
    BY <1>1, <1>4, <2>2
  <2> QED
    BY <1>1, <1>3, <2>1, <2>2, <2>3, <2>4
<1>7. \A v \in Workers : Harmless(work'[v])
  BY <1>1 DEF Moves, AskInv, Harmless, Nobody
<1>8. \A v \in Workers : work'[v].stage # "accept"
  BY <1>1 DEF Moves, Engaged, HandlerStages, Nobody
<1> QED
  BY <1>6, <1>7, <1>8 DEF AskInv

\* GET phases/{phase}/events accepts: the mark becomes a run that waits.
LEMMA AcceptKeeps ==
    ASSUME InTurn, TInv, Current, AskInv, NEW w \in Workers, Moves(w), Accept(w)
    PROVE  AskInv'
<1>0. PICK n : n = PhaseOf(w)
  OBVIOUS
<1>1. /\ work[w].stage = "accept" /\ n \in All /\ session.requested = n
      /\ session' = [Copy(w) EXCEPT !.requested = 0] /\ owed' = owed
      /\ work' = [work EXCEPT ![w].stage = "lock", ![w].copy = Nil]
  BY <1>0 DEF Accept, At, Store, Consumed, Goto, TInv, Carried, Carries, PhaseStages, PhaseOf, AskInv
<1>2. Copy(w) \in Session /\ session'.requested = 0
  BY <1>1 DEF TInv, TypeOK, Work, Carried, Carries, CopyStages, Session, Copy
<1>3. work'[w].stage = "lock" /\ work'[w].phase = n /\ work[w].phase = n
  BY <1>0, <1>1 DEF TInv, TypeOK, Work, PhaseOf
<1>4. Waiters(n)' = Waiters(n) \cup {w} /\ w \notin Waiters(n)
  BY <1>1, <1>3 DEF Waiters, Moves
<1>5. \A p \in All \ {n} : Waiters(p)' = Waiters(p)
  BY <1>1, <1>3 DEF Waiters, Moves
<1>6. Queue'[n] = Queue[n] + 1
  BY <1>1, <1>4, WaitersFinite, FS_AddElement DEF Queue
<1>7. \A p \in All \ {n} : Queue'[p] = Queue[p]
  BY <1>5 DEF Queue
<1>8. \A p \in All : Queue'[p] + Mark'[p] <= owed'[p]
  <2>1. Mark[n] = 1 /\ \A p \in All : Mark'[p] = 0
    BY <1>1, <1>2 DEF Mark, All
  <2>2. \A p \in All : /\ Mark[p] \in {0, 1} /\ Queue[p] \in Nat
                       /\ Queue[p] + Mark[p] <= owed[p] /\ owed[p] \in Nat
    BY WaitersFinite, PhaseAssumption DEF AskInv, TInv, TypeOK
  <2> QED
    BY <1>1, <1>6, <1>7, <2>1, <2>2
<1>9. \A v \in Workers : Harmless(work'[v])
  <2>1. Harmless(work'[w])
    BY <1>1, <1>3 DEF AskInv, Harmless
  <2> QED
    BY <2>1 DEF Moves, AskInv
<1>10. \A v \in Workers : work'[v].stage # "accept"
  BY <1>3 DEF Moves, Engaged, HandlerStages
<1> QED
  BY <1>8, <1>9, <1>10 DEF AskInv

\* acquire_phase_lock: who waited runs, or is turned away and what was owed stays owed.
LEMMA LockKeeps ==
    ASSUME InTurn, TInv, Current, AskInv, NEW w \in Workers, Moves(w), Lock(w)
    PROVE  AskInv'
<1>0. PICK n : n = PhaseOf(w)
  OBVIOUS
<1>1. work[w].stage = "lock" /\ n \in All /\ session' = session /\ owed \in [All -> 0..MaxOwed]
  BY <1>0 DEF Lock, At, TInv, TypeOK, Carried, Carries, PhaseStages, RunStages, PhaseOf
<1>2. \/ /\ work' = [work EXCEPT ![w].stage = "begin", ![w].copy = Nil]
         /\ owed' = [owed EXCEPT ![n] = IF @ > 0 THEN @ - 1 ELSE @]
      \/ work' = [work EXCEPT ![w] = Nobody] /\ owed' = owed
  BY <1>0 DEF Lock, Goto, Finish
<1>3. work[w].phase = n /\ (work'[w] = Nobody \/ (work'[w].stage = "begin" /\ work'[w].phase = n))
  BY <1>0, <1>2 DEF TInv, TypeOK, Work, PhaseOf
<1>4. work'[w].stage \in {"begin", "idle"} /\ Harmless(work'[w])
  BY <1>1, <1>3 DEF Nobody, Harmless, AskInv
<1>5. Waiters(n)' = Waiters(n) \ {w} /\ w \in Waiters(n)
  BY <1>1, <1>3, <1>4 DEF Waiters, Moves
<1>6. \A p \in All \ {n} : Waiters(p)' = Waiters(p)
  BY <1>1, <1>3, <1>4 DEF Waiters, Moves
<1>7. Queue'[n] = Queue[n] - 1 /\ \A p \in All \ {n} : Queue'[p] = Queue[p]
  BY <1>1, <1>5, <1>6, WaitersFinite, FS_RemoveElement DEF Queue
<1>8. \A p \in All : owed'[p] >= (IF p = n THEN owed[p] - 1 ELSE owed[p]) /\ owed[p] \in Nat
  BY <1>1, <1>2, PhaseAssumption
<1>9. \A p \in All : Queue'[p] + Mark'[p] <= owed'[p]
  <2>1. Mark' = Mark
    BY <1>1 DEF Mark
  <2>2. \A p \in All : /\ Mark[p] \in {0, 1} /\ Queue[p] \in Nat
                       /\ Queue[p] + Mark[p] <= owed[p] /\ owed[p] \in Nat
    BY <1>8, WaitersFinite DEF AskInv
  <2>3. \A p \in All : owed'[p] \in Int
    BY <1>1, <1>2, PhaseAssumption
  <2> QED
    BY <1>1, <1>7, <1>8, <2>1, <2>2, <2>3
<1>10. \A v \in Workers : Harmless(work'[v])
  BY <1>4 DEF Moves, AskInv
<1>11. \A v \in Workers : work'[v].stage = "accept" => session'.requested = work'[v].phase
  BY <1>1, <1>4 DEF Moves, AskInv
<1> QED
  BY <1>9, <1>10, <1>11 DEF AskInv

\* Where a worker asks for nothing, waits for nothing and starts nothing.
Plain(r) == r.stage \notin {"accept", "lock", "begin", "mark", "intel"}

\* Every step but those three, a crash and the expiry of a lock asks and starts nothing.
LEMMA EveryUnasked ==
    ASSUME InTurn, TInv, Current, AskInv, NEW w \in Workers, Arrive(w) \/ Step(w),
           ~Ask(w), ~Accept(w), ~Lock(w)
    PROVE  Unasked(w)
<1> DEFINE r == work[w]
           q == work'[w]
<1>0. /\ work \in [Workers -> Work] /\ r \in Work /\ Carries(r)
      /\ session \in Session /\ Harmless(r)
  BY DEF TInv, TypeOK, Carried, AskInv
<1>1. r.stage # "persist" /\ r.copy # Nil => r.copy = session
  BY DEF Current, Engaged, Copy
<1>2. Plain(Nobody)
  BY DEF Plain, Nobody
<1>3. Finish(w) => q = Nobody
  BY <1>0 DEF Finish
<1>4. ASSUME NEW st, Goto(w, st)
      PROVE  q.stage = st /\ q.phase = r.phase
  BY <1>0, <1>4 DEF Goto, Work
<1>5. ASSUME session'.requested = session.requested, owed' = owed, r.stage # "lock", Plain(q)
      PROVE  Unasked(w)
  BY <1>5 DEF Unasked, Plain, Harmless
<1>6. ASSUME session' = session, owed' = owed, r.stage # "lock", Finish(w)
      PROVE  Unasked(w)
  BY <1>2, <1>3, <1>5, <1>6
<1>7. ASSUME NEW s, NEW st, Write(w, s, st), r.stage # "lock", st \in {"idle", "sync", "persist"},
             s.requested = session.requested
      PROVE  Unasked(w)
  <2>1. session' = s /\ owed' = owed
    BY <1>7 DEF Write, Store
  <2>2. q = Nobody \/ q.stage = st
    BY <1>0, <1>3, <1>7 DEF Write, Work
  <2> QED
    BY <1>2, <1>5, <1>7, <2>1, <2>2 DEF Plain
<1>8. CASE Read(w)
  <2>1. /\ session' = session /\ owed' = owed /\ r.stage \notin {"lock", "accept"}
        /\ work' = [work EXCEPT ![w].copy = session]
    BY <1>8 DEF Read, Rereading
  <2>2. q.stage = r.stage /\ q.phase = r.phase
    BY <1>0, <2>1 DEF Work
  <2> QED
    BY <1>0, <2>1, <2>2 DEF Unasked, Harmless
<1>9. CASE HandlerStep(w)
  <2>1. CASE Opened(w)
    <3>1. /\ r.stage = "open" /\ r.copy = session /\ session' = Backfilled(session) /\ owed' = owed
      BY <1>1, <2>1 DEF Opened, Holds, At, Copy, Store
    <3>2. session'.requested = session.requested
      BY <1>0, <3>1 DEF Backfilled, Session
    <3>3. q = Nobody \/ q.stage = "decide"
      BY <1>0, <1>3, <2>1 DEF Opened, Work
    <3> QED
      BY <1>2, <1>5, <3>1, <3>2, <3>3 DEF Plain
  <2>2. CASE Decide(w)
    <3>1. r.stage = "decide" /\ session' = session /\ owed' = owed
      BY <2>2 DEF Decide, At
    <3>2. q = Nobody \/ q.stage \in {"reset", "bill"}
      BY <1>0, <1>3, <2>2 DEF Decide, Work
    <3> QED
      BY <1>2, <1>5, <3>1, <3>2 DEF Plain
  <2>3. CASE Reset(w)
    <3>1. /\ r.stage = "reset" /\ r.copy = session /\ owed' = owed /\ Goto(w, "unlock")
          /\ session' = [session EXCEPT !.out[PhaseOf(w)] = Nil, !.status[PhaseOf(w)] = "pending"]
      BY <1>1, <2>3 DEF Reset, Holds, At, Copy, Store
    <3>2. session'.requested = session.requested
      BY <1>0, <3>1 DEF Session
    <3> QED
      BY <1>4, <1>5, <3>1, <3>2 DEF Plain
  <2>4. CASE Unlock(w)
    <3>1. r.stage = "unlock" /\ session' = session /\ owed' = owed
      BY <2>4 DEF Unlock, At
    <3>2. q = Nobody \/ q.stage \in {"reread", "reset"}
      BY <1>0, <1>3, <1>4, <2>4 DEF Unlock, Work
    <3> QED
      BY <1>2, <1>5, <3>1, <3>2 DEF Plain
  <2>5. CASE Reread(w)
    <3>1. /\ r.stage = "reread" /\ session' = session /\ owed' = owed
          /\ work' = [work EXCEPT ![w].stage = work[w].then, ![w].copy = session]
      BY <2>5 DEF Reread, At
    <3>2. q.stage \in {"idle", "decide", "bill", "ask", "wipe"}
      BY <1>0, <3>1 DEF Work
    <3> QED
      BY <1>5, <3>1, <3>2 DEF Plain
  <2>6. CASE Bill(w)
    <3>1. r.stage = "bill" /\ session' = session /\ owed' = owed
      BY <2>6 DEF Bill, At
    <3>2. q.stage \in {"reset", "ask"}
      BY <1>0, <2>6 DEF Bill, Work
    <3> QED
      BY <1>5, <3>1, <3>2 DEF Plain
  <2>7. CASE Refuse(w)
    BY <1>6, <2>7 DEF Refuse, At
  <2> QED
    BY <1>9, <2>1, <2>2, <2>3, <2>4, <2>5, <2>6, <2>7 DEF HandlerStep
<1>10. CASE EditStep(w)
  <2>1. CASE Patch(w)
    <3>1. r.stage = "patch" /\ r.copy = session
      BY <1>0, <1>1, <2>1 DEF Patch, At, Copy, Carries, CopyStages
    <3>2. PICK o : Write(w, Patched(session, o), "sync")
      BY <2>1, <3>1 DEF Patch, Copy
    <3>3. Patched(session, o).requested = session.requested
      BY <1>0 DEF Patched, Session
    <3> QED
      BY <1>7, <3>1, <3>2, <3>3
  <2>2. CASE Overwrite(w)
    <3>1. r.stage = "overwrite" /\ r.copy = session
      BY <1>0, <1>1, <2>2 DEF Overwrite, At, Copy, Carries, CopyStages
    <3>2. PICK o : Write(w, Overwritten(session, o), "sync")
      BY <2>2, <3>1 DEF Overwrite, Copy
    <3>3. Overwritten(session, o).requested = session.requested
      BY <1>0 DEF Overwritten, Session
    <3> QED
      BY <1>7, <3>1, <3>2, <3>3
  <2>3. CASE Commit(w)
    <3>1. r.stage = "commit" /\ r.copy = session
      BY <1>0, <1>1, <2>3 DEF Commit, At, Copy, Carries, CopyStages
    <3>2. PICK o : Write(w, [session EXCEPT !.out[3] = o], IF Anonymous THEN "idle" ELSE "persist")
      BY <2>3, <3>1 DEF Commit, Copy
    <3>3. [session EXCEPT !.out[3] = o].requested = session.requested
      BY <1>0 DEF Session
    <3> QED
      BY <1>7, <3>1, <3>2, <3>3
  <2>4. CASE Persist(w)
    BY <1>6, <2>4 DEF Persist, At
  <2>5. CASE Audit(w)
    <3>1. r.stage = "audit" /\ r.copy = session
      BY <1>0, <1>1, <2>5 DEF Audit, At, Copy, Carries, CopyStages
    <3>2. Write(w, [session EXCEPT !.stale4 = TRUE], "idle")
      BY <2>5, <3>1 DEF Audit, Copy
    <3>3. [session EXCEPT !.stale4 = TRUE].requested = session.requested
      BY <1>0 DEF Session
    <3> QED
      BY <1>7, <3>1, <3>2, <3>3
  <2>6. CASE Reject(w)
    BY <1>6, <2>6 DEF Reject, At
  <2>7. CASE Touch(w)
    <3>1. r.stage = "touch" /\ r.copy = session
      BY <1>0, <1>1, <2>7 DEF Touch, At, Copy, Carries, CopyStages
    <3> QED
      BY <1>7, <2>7, <3>1 DEF Touch, Copy
  <2>8. CASE ChangeJd(w)
    <3>1. r.stage = "jd" /\ r.copy = session /\ owed' = owed
      BY <1>0, <1>1, <2>8 DEF ChangeJd, At, Copy, Carries, CopyStages
    <3>2. PICK j : session' = [session EXCEPT !.jd = j, !.stale4 = FALSE]
      BY <2>8, <3>1 DEF ChangeJd, Copy, Store
    <3>3. session'.requested = session.requested
      BY <1>0, <3>2 DEF Session
    <3>4. q.stage = "reset"
      BY <1>0, <2>8 DEF ChangeJd, Work
    <3> QED
      BY <1>5, <3>1, <3>3, <3>4 DEF Plain
  <2> QED
    BY <1>10, <2>1, <2>2, <2>3, <2>4, <2>5, <2>6, <2>7, <2>8 DEF EditStep
<1>11. CASE RunStep(w)
  <2> DEFINE n == PhaseOf(w)
  <2>1. CASE Begin(w)
    <3>1. /\ r.stage = "begin" /\ session' = session /\ owed' = owed
          /\ work' = [work EXCEPT ![w].stage = "mark", ![w].input = session]
      BY <2>1 DEF Begin, At
    <3>2. q.stage = "mark" /\ q.phase = r.phase
      BY <1>0, <3>1 DEF Work
    <3> QED
      BY <1>0, <3>1, <3>2 DEF Unasked, Harmless
  <2>2. CASE MarkRunning(w)
    <3>1. /\ r.stage = "mark" /\ r.copy = session /\ owed' = owed
          /\ session' = [session EXCEPT !.status[n] = "running"]
          /\ Goto(w, IF n = 3 THEN "intel" ELSE "llm")
      BY <1>1, <2>2 DEF MarkRunning, Holds, At, Copy, Store
    <3>2. session'.requested = session.requested
      BY <1>0, <3>1 DEF Session
    <3>3. n # 3
      BY <1>0, <3>1 DEF Harmless, PhaseOf
    <3> QED
      BY <1>4, <1>5, <3>1, <3>2, <3>3 DEF Plain
  <2>3. ~Intel(w)
    BY <1>0 DEF Intel, At, Harmless
  <2>4. CASE Generate(w)
    <3>1. r.stage = "llm" /\ session' = session /\ owed' = owed
      BY <2>4 DEF Generate, At
    <3>2. q.stage = "save"
      BY <1>0, <2>4 DEF Generate, Work
    <3> QED
      BY <1>5, <3>1, <3>2 DEF Plain
  <2>5. CASE Fail(w)
    <3>1. r.stage # "lock" /\ session' = session /\ owed' = owed
      BY <2>5 DEF Fail, At
    <3>2. q.stage = "fail"
      BY <1>0, <2>5 DEF Fail, Work
    <3> QED
      BY <1>5, <3>1, <3>2 DEF Plain
  <2>6. CASE MarkFailed(w)
    <3>1. r.stage = "fail" /\ r.copy = session /\ owed' = owed /\ Goto(w, "release")
      BY <1>1, <2>6 DEF MarkFailed, Holds, At, Copy
    <3>2. PICK s \in {"error", "pending"} : session' = [session EXCEPT !.status[n] = s]
      BY <2>6, <3>1 DEF MarkFailed, Copy, Store
    <3>3. session'.requested = session.requested
      BY <1>0, <3>2 DEF Session
    <3> QED
      BY <1>4, <1>5, <3>1, <3>3 DEF Plain
  <2>7. CASE SaveOutput(w)
    <3>1. /\ r.stage = "save" /\ r.copy = session /\ owed' = owed
          /\ session' = [session EXCEPT !.out[n] = r.output, !.status[n] = "done"]
      BY <1>1, <2>7 DEF SaveOutput, Holds, At, Copy, Store
    <3>2. session'.requested = session.requested
      BY <1>0, <3>1 DEF Session
    <3>3. q.stage \in {"clear", "downstream", "sync"}
      BY <1>0, <2>7 DEF SaveOutput, AfterSave, Work
    <3> QED
      BY <1>5, <3>1, <3>2, <3>3 DEF Plain
  <2>8. CASE MarkDownstream(w)
    <3>1. /\ r.stage = "downstream" /\ r.copy = session /\ owed' = owed /\ Goto(w, "clear")
          /\ session' = [session EXCEPT !.stale4 = session.stale4 \/ session.out[4] # Nil]
      BY <1>1, <2>8 DEF MarkDownstream, Holds, At, Copy, Store
    <3>2. session'.requested = session.requested
      BY <1>0, <3>1 DEF Session
    <3> QED
      BY <1>4, <1>5, <3>1, <3>2 DEF Plain
  <2>9. CASE Sync(w)
    <3>1. r.stage = "sync" /\ session' = session /\ owed' = owed
      BY <2>9 DEF Sync, Holds, At
    <3>2. Finish(w) \/ Goto(w, "clear")
      BY <2>9 DEF Sync
    <3> QED
      BY <1>4, <1>5, <1>6, <3>1, <3>2 DEF Plain
  <2>10. CASE ClearStale(w)
    <3>1. /\ r.stage = "clear" /\ r.copy = session /\ owed' = owed /\ Goto(w, "release")
          /\ session' = [session EXCEPT !.stale4 = session.stale4 /\ n < 3]
      BY <1>1, <2>10 DEF ClearStale, Holds, At, Copy, Store
    <3>2. session'.requested = session.requested
      BY <1>0, <3>1 DEF Session
    <3> QED
      BY <1>4, <1>5, <3>1, <3>2 DEF Plain
  <2>11. CASE Release(w)
    BY <1>6, <2>11 DEF Release, At
  <2> QED
    BY <1>11, <2>1, <2>2, <2>3, <2>4, <2>5, <2>6, <2>7, <2>8, <2>9, <2>10, <2>11 DEF RunStep
<1>12. CASE Arrive(w)
  <2>1. ASSUME NEW p, NEW force, NEW then, Open(w, p, force, then)
        PROVE  Unasked(w)
    <3>1. r.stage = "idle" /\ session' = session /\ owed' = owed
      BY <2>1 DEF Open, Free, At
    <3>2. q.stage = "open"
      BY <1>0, <2>1 DEF Open, Nobody
    <3> QED
      BY <1>5, <3>1, <3>2 DEF Plain
  <2>2. ASSUME NEW p \in Phases, Events(w, p)
        PROVE  Unasked(w)
    <3>1. r.stage = "idle" /\ session' = session /\ owed' = owed /\ session.requested = p
      BY <2>2 DEF Events, At
    <3>2. q.stage = "accept" /\ q.phase = p
      BY <1>0, <2>2 DEF Events, Nobody
    <3> QED
      BY <3>1, <3>2 DEF Unasked, Harmless, InTurn
  <2>3. ASSUME NEW kind \in {"patch", "overwrite", "commit", "audit", "jd", "touch"}, Load(w, kind)
        PROVE  Unasked(w)
    <3>1. r.stage = "idle" /\ session' = session /\ owed' = owed
      BY <2>3 DEF Load, Free, At
    <3>2. q.stage = kind
      BY <1>0, <2>3 DEF Load, Nobody
    <3> QED
      BY <1>5, <3>1, <3>2 DEF Plain
  <2> QED
    BY <1>12, <2>1, <2>2, <2>3 DEF Arrive, Trigger, View
<1> QED
  BY <1>8, <1>9, <1>10, <1>11, <1>12 DEF Step

\* A worker lost while it waits leaves what it was owed.
LEMMA CrashKeeps ==
    ASSUME InTurn, TInv, AskInv, NEW w \in Workers, Crash(w)
    PROVE  AskInv'
<1>1. /\ work' = [work EXCEPT ![w] = Nobody] /\ session' = session /\ owed' = owed
      /\ owed \in [All -> 0..MaxOwed] /\ work \in [Workers -> Work]
  BY DEF Crash, Finish, TInv, TypeOK
<1>2. \A v \in Workers : work'[v] = Nobody \/ work'[v] = work[v]
  BY <1>1
<1>3. \A p \in All : Queue'[p] <= Queue[p]
  <2>1. \A p \in All : Waiters(p)' \subseteq Waiters(p)
    BY <1>2 DEF Waiters, Nobody
  <2>2. ASSUME NEW p \in All
        PROVE  Queue'[p] <= Queue[p]
    <3>1. Queue[p] = Cardinality(Waiters(p)) /\ Queue'[p] = Cardinality(Waiters(p)')
      BY DEF Queue
    <3> QED
      BY <2>1, <3>1, WaitersFinite, FS_Subset
  <2> QED
    BY <2>2
<1>4. Mark' = Mark
  BY <1>1 DEF Mark
<1>5. \A p \in All : Queue'[p] + Mark'[p] <= owed'[p]
  <2>1. \A p \in All : /\ Queue[p] + Mark[p] <= owed[p] /\ Queue[p] \in Nat /\ Queue'[p] \in Nat
                       /\ Mark[p] \in {0, 1} /\ owed[p] \in Nat
    BY <1>1, WaitersFinite, PhaseAssumption DEF AskInv
  <2> QED
    BY <1>1, <1>3, <1>4, <2>1
<1>6. \A v \in Workers : Harmless(work'[v])
  BY <1>2 DEF AskInv, Harmless, Nobody
<1>7. \A v \in Workers : work'[v].stage = "accept" => session'.requested = work'[v].phase
  BY <1>1, <1>2 DEF AskInv, Nobody
<1> QED
  BY <1>5, <1>6, <1>7 DEF AskInv

LEMMA AskInit == InTurn /\ Init => AskInv
<1> SUFFICES ASSUME InTurn, Init PROVE AskInv
  OBVIOUS
<1>1. \A w \in Workers : work[w] = Nobody
  BY DEF Init
<1>2. session.requested = 0 /\ owed = [p \in All |-> 0]
  BY DEF Init
<1>3. \A p \in All : Queue[p] = 0
  <2>1. \A p : Waiters(p) = {}
    BY <1>1 DEF Waiters, Nobody
  <2> QED
    BY <2>1, FS_EmptySet DEF Queue
<1>4. \A p \in All : Mark[p] = 0
  BY <1>2 DEF Mark, All
<1> QED
  BY <1>1, <1>2, <1>3, <1>4 DEF AskInv, Harmless, Nobody

(***************************************************************************)
(* Of requests that come one at a time, each starts its run once: a run    *)
(* that takes the lock of its phase was asked for at the run endpoint and  *)
(* not started yet.  Workers may be lost, runs may be slow and locks       *)
(* expire, and edits of every kind may come in between.                    *)
(***************************************************************************)
THEOREM RequestedOnce ==
    ASSUME InTurn
    PROVE  Spec => Authorised
<1> DEFINE Inv == TInv /\ Current /\ AskInv
<1>1. Init => Inv
  BY PhaseInit, CurrentInit, AskInit
<1>2. Inv /\ [Next]_vars => Inv'
  <2> SUFFICES ASSUME Inv, [Next]_vars PROVE Inv'
    OBVIOUS
  <2>1. TInv' /\ Current'
    BY PhaseStep, CurrentStep DEF InTurn
  <2>2. AskInv'
    <3>1. ASSUME NEW w \in Workers, Arrive(w) \/ Step(w) PROVE AskInv'
      <4>1. Moves(w)
        BY <3>1, EveryMove DEF InTurn
      <4> QED
        BY <3>1, <4>1, AskKeeps, AcceptKeeps, LockKeeps, EveryUnasked, UnaskedKeeps
    <3>2. ASSUME NEW w \in Workers, Crash(w) PROVE AskInv'
      BY <3>2, CrashKeeps
    <3>3. CASE (\E p \in All : Expire(p)) \/ UNCHANGED vars
      <4>1. session' = session /\ work' = work /\ owed' = owed
        BY <3>3 DEF Expire, vars
      <4>2. Queue' = Queue /\ Mark' = Mark
        BY <4>1 DEF Queue, Waiters, Mark
      <4> QED
        BY <4>1, <4>2 DEF AskInv
    <3> QED
      BY <3>1, <3>2, <3>3 DEF Next
  <2> QED
    BY <2>1, <2>2
<1>3. Inv => [StartedIfOwed]_vars
  <2> SUFFICES ASSUME Inv, NEW w \in Workers, work[w].stage = "lock" PROVE owed[PhaseOf(w)] > 0
    BY DEF StartedIfOwed
  <2>1. PICK n : n = PhaseOf(w)
    OBVIOUS
  <2>2. n \in All /\ w \in Waiters(n)
    BY <2>1 DEF TInv, Carried, Carries, PhaseStages, RunStages, PhaseOf, Waiters
  <2>3. Queue[n] >= 1
    <3>1. Queue[n] = Cardinality(Waiters(n)) /\ Cardinality(Waiters(n)) \in Nat
      BY <2>2, WaitersFinite DEF Queue
    <3>2. Cardinality(Waiters(n)) # 0
      BY <2>2, WaitersFinite, FS_EmptySet
    <3> QED
      BY <3>1, <3>2
  <2> QED
    BY <2>1, <2>2, <2>3, WaitersFinite, PhaseAssumption DEF AskInv, TInv, TypeOK
<1> QED
  BY <1>1, <1>2, <1>3, PTL DEF Spec, Authorised

(***************************************************************************)
(* An edited resume leaves its score marked, and only that is free         *)
(*                                                                         *)
(* For clients that wait for running phases, overwrite the resume and run  *)
(* any phase but the audit.  One worker at most is busy, so nothing stands *)
(* between the copy a step starts from and the document it writes.         *)
(***************************************************************************)
Editing ==
    /\ ~Overlap /\ Patient /\ MaxCrashes = 0
    /\ Requests \subseteq {"view", "overwrite", "touch"} /\ 2 \notin Phases

\* A score of another resume than a user's last one is marked stale, and a score that is
\* marked stale is of another resume.
Marked(s) ==
    s.out[3] # Nil /\ s.out[4] # Nil =>
        s.out[3].by = "run" \/ s.out[3].rev = s.out[4].rev \/ s.stale4
Earned(s) == s.stale4 => Changed(s)

\* Between saving the new score and clearing the mark.
Rescored(r) == r.stage \in {"sync", "clear"} /\ r.phase = 4

EditStages == (RunStages \ {"downstream"}) \cup
              {"idle", "open", "decide", "bill", "ask", "accept", "overwrite", "touch"}

\* What a worker carries at each stage.
EditSound(r) ==
    /\ r.stage \in EditStages /\ ~r.force
    /\ r.stage = "idle" => r = Nobody
    /\ r.copy \in {Nil, session}
    /\ r.stage \in {"overwrite", "touch"} => r.phase = 0
    /\ r.stage = "accept" => r.phase # 2
    /\ r.stage \in RunStages /\ r.phase = 0 => r.copy # Nil
    /\ Running(r) => session.requested = 0 /\ r.phase # 2
    /\ r.stage \in {"intel", "llm"} => r.copy = Nil
    /\ r.stage \in {"mark", "intel", "llm"} =>
          /\ r.input.out = session.out /\ r.input.stale4 = session.stale4
          /\ r.input.requested = 0 /\ \A p \in All : r.input.status[p] # "running"
    /\ r.stage = "save" /\ r.phase = 3 =>
          r.output.by = "run" /\ (session.out[4] # Nil => r.output.rev # session.out[4].rev)
    /\ r.stage = "save" /\ r.phase = 4 =>
          session.out[3] # Nil /\ r.output.rev = session.out[3].rev
    /\ r.stage \in {"sync", "clear"} /\ r.phase = 3 =>
          session.out[3] # Nil /\ session.out[3].by = "run"
    /\ Rescored(r) =>
          /\ session.out[3] # Nil /\ session.out[4] # Nil
          /\ session.out[3].rev = session.out[4].rev
    /\ r.stage = "bill" /\ r.waived => Changed(session)

\* An output that was made stays, a score stays with its resume, and the snapshot has no
\* score that the document has not.
Kept ==
    /\ session.out[1] # Nil /\ session.out[2] # Nil
    /\ session.out[4] # Nil => session.out[3] # Nil
    /\ snapshot # Nil =>
          /\ \A p \in 1..3 : snapshot[p] # Nil
          /\ snapshot[4] # Nil => session.out[4] # Nil

\* Between marking a phase as running and writing what came of it.
Making(r) == r.stage \in {"intel", "llm", "save", "fail"}

EditInv ==
    /\ \A v, w \in Workers : work[v].stage # "idle" /\ work[w].stage # "idle" => v = w
    /\ \A w \in Workers : EditSound(work[w])
    /\ Kept
    /\ Marked(session)
    /\ Earned(session) \/ \E w \in Workers : Rescored(work[w])
    /\ \A p \in All : session.status[p] = "running" =>
          \E w \in Workers : work[w].phase = p /\ Making(work[w])

\* A fresh resume is none that the document has a score of.
LEMMA FreshUnused ==
    ASSUME session \in Session, NEW n \in Fresh, session.out[4] # Nil
    PROVE  session.out[4].rev # n
<1>1. RevsIn(session.out) \subseteq UsedRevs
  BY NilAssumption DEF UsedRevs, RevsOf
<1>2. session.out # Nil
  BY NilAssumption DEF Session
<1>3. session.out[4].rev \in RevsIn(session.out)
  BY <1>2 DEF RevsIn, RevOf, All
<1> QED
  BY <1>1, <1>3 DEF Fresh

\* What a move of a worker that is alone must do.
Upright(w) ==
    /\ EditSound(work[w])'
    /\ Kept'
    /\ Marked(session')
    /\ Earned(session') \/ Rescored(work'[w])
    /\ \A p \in All : session'.status[p] = "running" => work'[w].phase = p /\ Making(work'[w])

Sole(w) == \A v \in Workers \ {w} : work[v].stage = "idle"

\* A worker that moves finds every other one idle.
LEMMA MoverSole ==
    ASSUME Editing, TInv, EditInv, NEW w \in Workers, Arrive(w) \/ Step(w)
    PROVE  Sole(w)
<1>1. CASE work[w].stage # "idle"
  BY <1>1 DEF EditInv, Sole
<1>2. ASSUME NEW v \in Workers, work[v].stage # "idle"
      PROVE  Engaged(v) \/ (Running(work[v]) /\ InRun(v))
  <2>1. EditSound(work[v]) /\ Carries(work[v])
    BY DEF EditInv, TInv, Carried
  <2>2. work[v].stage \in HandlerStages \/ work[v].stage \in RunStages
    BY <1>2, <2>1 DEF EditSound, EditStages, HandlerStages, RunStages
  <2> QED
    BY <2>1, <2>2 DEF EditSound, Engaged, Running, InRun, PhaseOf, RunStages
<1>3. CASE Arrive(w)
  <2>1. ASSUME Free(w), NEW v \in Workers \ {w} PROVE work[v].stage = "idle"
    BY <1>2, <2>1 DEF Free, At, Clear, Editing
  <2>2. ASSUME NEW p \in Phases, Events(w, p), NEW v \in Workers \ {w} PROVE work[v].stage = "idle"
    <3>1. ~Engaged(v) /\ session.requested # 0
      BY <2>2, PhaseAssumption DEF Events, At, Clear, Editing
    <3>2. ~Running(work[v])
      BY <3>1 DEF EditInv, EditSound
    <3> QED
      BY <1>2, <3>1, <3>2
  <2> QED
    BY <1>3, <2>1, <2>2 DEF Arrive, Trigger, View, Open, Load, Sole
<1>4. CASE Step(w)
  BY <1>1, <1>4
     DEF Step, Read, Rereading, HandlerStep, EditStep, RunStep, Opened, Decide, Reset, Unlock, Reread,
         Bill, Refuse, Ask, Accept, Patch, Overwrite, Commit, Persist, Audit, Reject, Touch,
         ChangeJd, Lock, Begin, MarkRunning, Intel, Generate, Fail, MarkFailed, SaveOutput,
         MarkDownstream, Sync, ClearStale, Release, At, Holds
<1> QED
  BY <1>3, <1>4

\* An upright move of a worker that is alone keeps the invariant.
LEMMA UprightKeeps ==
    ASSUME NEW w \in Workers, EditInv, Sole(w), Moves(w), Upright(w)
    PROVE  EditInv'
<1>1. \A v \in Workers \ {w} : work'[v] = Nobody
  BY DEF Sole, Moves, EditInv, EditSound
<1>2. EditSound(Nobody)'
  BY DEF EditSound, EditStages, Nobody, Running, Rescored, RunStages
<1>3. \A v \in Workers : EditSound(work[v])'
  BY <1>1, <1>2 DEF Upright
<1>4. \A u, v \in Workers : work'[u].stage # "idle" /\ work'[v].stage # "idle" => u = v
  BY <1>1 DEF Nobody
<1> QED
  BY <1>3, <1>4 DEF EditInv, Upright

\* Every step but a crash and the expiry of a lock is upright.
LEMMA EveryUpright ==
    ASSUME Editing, TInv, Current, EditInv, NEW w \in Workers, Arrive(w) \/ Step(w)
    PROVE  Upright(w)
<1> DEFINE r == work[w]
           q == work'[w]
<1>0. /\ work \in [Workers -> Work] /\ r \in Work /\ Carries(r)
      /\ session \in Session /\ session # Nil /\ snapshot \in Outputs \cup {Nil}
  BY NilAssumption DEF TInv, TypeOK, Carried
<1>1. /\ Sole(w) /\ EditSound(r) /\ Kept /\ Marked(session)
      /\ r.copy # Nil => r.copy = session
  BY MoverSole DEF EditInv, EditSound
<1>2. /\ Earned(session) \/ Rescored(r)
      /\ \A p \in All : session.status[p] = "running" => r.phase = p /\ Making(r)
  <2>1. \A v \in Workers \ {w} : ~Rescored(work[v]) /\ ~Making(work[v])
    BY <1>1 DEF Sole, Rescored, Making
  <2> QED
    BY <2>1 DEF EditInv
<1>3. /\ EditSound(Nobody)' /\ ~Rescored(Nobody) /\ ~Making(Nobody)
  BY DEF EditSound, EditStages, Nobody, Running, Rescored, RunStages, Making
<1>4. Finish(w) => q = Nobody
  BY <1>0 DEF Finish
<1>5. ASSUME NEW st, Goto(w, st)
      PROVE  /\ q.stage = st /\ q.copy = Nil /\ q.phase = r.phase /\ q.force = r.force
             /\ q.waived = r.waived /\ q.input = r.input /\ q.output = r.output
  BY <1>0, <1>5 DEF Goto, Work
\* A step that leaves the outputs, the mark and the snapshot alone.
<1>6. ASSUME session'.out = session.out, session'.stale4 = session.stale4, snapshot' = snapshot,
             \A p \in All : session'.status[p] = "running" => q.phase = p /\ Making(q),
             Rescored(r) => Rescored(q), EditSound(r)'
      PROVE  Upright(w)
  BY <1>1, <1>2, <1>6 DEF Upright, Kept, Marked, Earned, Changed
\* A request that changes nothing of the document.
<1>7. ASSUME session' = session, snapshot' = snapshot, ~Making(r), ~Rescored(r), EditSound(r)'
      PROVE  Upright(w)
  BY <1>2, <1>6, <1>7
<1>8. ASSUME session' = session, snapshot' = snapshot, ~Making(r), ~Rescored(r), Finish(w)
      PROVE  Upright(w)
  BY <1>3, <1>4, <1>7, <1>8
<1>9. CASE Read(w)
  <2>1. /\ session' = session /\ snapshot' = snapshot /\ r.copy = Nil
        /\ work' = [work EXCEPT ![w].copy = session]
        /\ r.stage \in {"mark", "save", "sync", "clear", "fail"}
    BY <1>1, <1>9 DEF Read, Rereading, Copy, EditSound, EditStages, RunStages
  <2>2. /\ q.stage = r.stage /\ q.phase = r.phase /\ q.force = r.force /\ q.waived = r.waived
        /\ q.input = r.input /\ q.output = r.output /\ q.copy = session
    BY <1>0, <2>1 DEF Work
  <2>3. EditSound(r)'
    BY <1>1, <2>1, <2>2 DEF EditSound, Running, Rescored
  <2> QED
    BY <1>2, <1>6, <2>1, <2>2, <2>3 DEF Making, Rescored
<1>10. CASE HandlerStep(w)
  <2>0. /\ ~Making(r) /\ ~Rescored(r)
        /\ \A p \in All : session.status[p] # "running"
    BY <1>2, <1>10
       DEF HandlerStep, Opened, Decide, Reset, Unlock, Reread, Bill, Refuse, Ask, Accept, At, Holds,
           Making, Rescored
  <2>1. CASE Opened(w)
    <3>1. /\ r.stage = "open" /\ session' = Backfilled(session) /\ snapshot' = snapshot
          /\ Finish(w) \/ work' = [work EXCEPT ![w].stage = "decide", ![w].copy = session']
      <4>1. Copy(w) = session
        BY <1>1, <2>1 DEF Opened, Holds, Copy
      <4> QED
        BY <2>1, <4>1 DEF Opened, Holds, At, Store
    <3>2. EditSound(r)'
      <4>1. CASE Finish(w)
        BY <1>3, <1>4, <4>1
      <4>2. CASE work' = [work EXCEPT ![w].stage = "decide", ![w].copy = session']
        <5>1. q.stage = "decide" /\ q.copy = session' /\ q.phase = r.phase /\ q.force = r.force
          BY <1>0, <4>2 DEF Work
        <5> QED
          BY <1>1, <5>1 DEF EditSound, EditStages, Running, Rescored, RunStages
      <4> QED
        BY <3>1, <4>1, <4>2
    <3>3. CASE Missing(session) /\ snapshot # Nil
      <4>1. session' = [session EXCEPT !.status = [p \in All |-> BackfillStatus(session, p)],
                                       !.out = [p \in All |-> BackfillOutput(session, p)]]
        BY <3>1, <3>3 DEF Backfilled
      <4>2. /\ session'.stale4 = session.stale4
            /\ \A p \in All : session'.status[p] = BackfillStatus(session, p)
            /\ \A p \in All : session'.out[p] = BackfillOutput(session, p)
        BY <1>0, <4>1 DEF Session
      <4>3. \A p \in All : session'.status[p] # "running"
        BY <2>0, <4>2 DEF BackfillStatus
      <4>4. session.out[4] = Nil /\ snapshot[4] = Nil
        BY <1>1, <3>3 DEF Missing, Kept, All
      <4>5. /\ session'.out[4] = Nil /\ session'.out[1] # Nil /\ session'.out[2] # Nil
        BY <1>1, <4>2, <4>4 DEF BackfillOutput, Kept, All
      <4>6. Kept'
        BY <1>1, <3>1, <4>4, <4>5 DEF Kept
      <4> QED
        BY <3>2, <4>3, <4>5, <4>6 DEF Upright, Marked, Earned, Changed
    <3>4. CASE ~(Missing(session) /\ snapshot # Nil)
      <4>1. session' = session
        BY <3>1, <3>4 DEF Backfilled
      <4> QED
        BY <1>7, <2>0, <3>1, <3>2, <4>1
    <3> QED
      BY <3>3, <3>4
  <2>2. CASE Decide(w)
    <3>1. /\ r.stage = "decide" /\ session' = session /\ snapshot' = snapshot
          /\ r.copy = session /\ r.phase \in All
      BY <1>0, <1>1, <2>2 DEF Decide, At, Carries, CopyStages, PhaseStages
    <3>2. ~Dead(Copy(w), PhaseOf(w))
      BY <2>0, <3>1 DEF Dead, Copy, PhaseOf
    <3>3. \/ Finish(w)
          \/ work' = [work EXCEPT ![w].stage = "bill", ![w].waived = Waives(Copy(w), PhaseOf(w))]
      BY <2>2, <3>2 DEF Decide
    <3>4. CASE work' = [work EXCEPT ![w].stage = "bill", ![w].waived = Waives(Copy(w), PhaseOf(w))]
      <4>1. /\ q.stage = "bill" /\ q.copy = session /\ q.phase = r.phase /\ q.force = r.force
            /\ q.waived = Waives(session, r.phase)
        BY <1>0, <3>1, <3>4 DEF Work, Copy, PhaseOf
      <4>2. q.waived => Changed(session)
        BY <1>2, <2>0, <4>1 DEF Waives, Earned
      <4>3. EditSound(r)'
        BY <1>1, <3>1, <4>1, <4>2 DEF EditSound, EditStages, Running, Rescored, RunStages, Changed
      <4> QED
        BY <1>7, <2>0, <3>1, <4>3
    <3> QED
      BY <1>8, <2>0, <3>1, <3>3, <3>4
  <2>3. ~Reset(w) /\ ~Unlock(w) /\ ~Reread(w)
    BY <1>1 DEF Reset, Unlock, Reread, Holds, At, EditSound, EditStages, RunStages
  <2>4. CASE Bill(w)
    <3>1. r.stage = "bill" /\ session' = session /\ snapshot' = snapshot /\ ~r.force
      BY <1>1, <2>4 DEF Bill, At, EditSound
    <3>2. work' = [work EXCEPT ![w].stage = "ask"]
      BY <2>4, <3>1 DEF Bill
    <3>3. q.stage = "ask" /\ q.copy = r.copy /\ q.phase = r.phase /\ q.force = r.force
      BY <1>0, <3>2 DEF Work
    <3>4. EditSound(r)'
      BY <1>1, <3>1, <3>3 DEF EditSound, EditStages, Running, Rescored, RunStages
    <3> QED
      BY <1>7, <2>0, <3>1, <3>4
  <2>5. CASE Refuse(w)
    BY <1>8, <2>0, <2>5 DEF Refuse
  <2>6. CASE Ask(w)
    <3>1. /\ snapshot' = snapshot /\ Finish(w)
          /\ session' = [session EXCEPT !.requested = PhaseOf(w)]
      BY <1>0, <1>1, <2>6 DEF Ask, At, Copy, Store, Carries, CopyStages
    <3>2. /\ session'.out = session.out /\ session'.stale4 = session.stale4
          /\ session'.status = session.status
      BY <1>0, <3>1 DEF Session
    <3> QED
      BY <1>3, <1>4, <1>6, <2>0, <3>1, <3>2
  <2>7. CASE Accept(w)
    <3>1. /\ r.stage = "accept" /\ snapshot' = snapshot /\ Goto(w, "lock") /\ r.phase \in All
          /\ session' = [session EXCEPT !.requested = 0]
      BY <1>0, <1>1, <2>7
         DEF Accept, At, Copy, Store, Carries, CopyStages, PhaseStages, Consumed
    <3>2. /\ session'.out = session.out /\ session'.stale4 = session.stale4
          /\ session'.status = session.status /\ session'.requested = 0
      BY <1>0, <3>1 DEF Session
    <3>3. /\ q.stage = "lock" /\ q.phase = r.phase /\ q.copy = Nil /\ q.force = r.force
          /\ r.phase # 2
      BY <1>1, <1>5, <3>1 DEF EditSound
    <3>4. EditSound(r)'
      BY <1>1, <3>1, <3>2, <3>3 DEF EditSound, EditStages, Running, Rescored, RunStages, All
    <3> QED
      BY <1>6, <2>0, <3>1, <3>2, <3>4
  <2> QED
    BY <1>10, <2>1, <2>2, <2>3, <2>4, <2>5, <2>6, <2>7 DEF HandlerStep
<1>11. CASE EditStep(w)
  <2>0. /\ ~Making(r) /\ ~Rescored(r) /\ r.stage # "idle"
        /\ \A p \in All : session.status[p] # "running"
    BY <1>2, <1>11
       DEF EditStep, Patch, Overwrite, Commit, Persist, Audit, Reject, Touch, ChangeJd, At,
           Making, Rescored
  <2>1. Overwrite(w) \/ Touch(w)
    BY <1>1, <1>11
       DEF EditStep, Patch, Commit, Persist, Audit, Reject, ChangeJd, At, EditSound, EditStages,
           RunStages
  <2>2. CASE Touch(w)
    <3>1. Write(w, session, "idle")
      BY <1>0, <1>1, <2>2 DEF Touch, At, Copy, Carries, CopyStages
    <3> QED
      BY <1>8, <2>0, <3>1 DEF Write, Store
  <2>3. CASE Overwrite(w)
    <3>1. r.stage = "overwrite" /\ r.copy = session /\ r.phase = 0 /\ ~r.force
      BY <1>0, <1>1, <2>3 DEF Overwrite, At, Copy, Carries, CopyStages, EditSound
    <3>2. PICK o \in ({session.out[3]} \ {Nil}) \cup {Edited(n) : n \in Fresh} :
             Write(w, Overwritten(session, o), "sync")
      BY <2>3, <3>1 DEF Overwrite, Copy
    <3>3. /\ session' = Overwritten(session, o) /\ snapshot' = snapshot
          /\ work' = [work EXCEPT ![w].stage = "sync", ![w].copy = session']
      BY <3>2 DEF Write, Store
    <3>4. /\ session'.out[3] = o /\ session'.status = session.status
          /\ session'.out[1] = session.out[1] /\ session'.out[2] = session.out[2]
          /\ session'.out[4] = session.out[4]
          /\ session'.stale4 = (session.stale4 \/ (session.out[4] # Nil /\ session.out[3] # o))
      BY <1>0, <3>3 DEF Overwritten, Session, Outputs, All
    <3>5. /\ q.stage = "sync" /\ q.copy = session' /\ q.phase = 0 /\ ~q.force
      BY <1>0, <3>1, <3>3 DEF Work
    <3>6. session' # Nil
      BY PhaseStep, NilAssumption DEF TInv, TypeOK, Next
    <3>7. EditSound(r)'
      BY <3>5, <3>6 DEF EditSound, EditStages, Running, Rescored, RunStages
    <3>8. o # Nil
      <4>1. \A n \in Fresh : Edited(n) # Nil
        BY <1>0, EditedTyped, NilAssumption
      <4> QED
        BY <4>1
    <3>9. Kept'
      BY <1>1, <3>3, <3>4, <3>8, PhaseAssumption DEF Kept, All
    <3>10. Marked(session')
      BY <1>1, <3>4 DEF Marked
    <3>11. Earned(session')
      <4>1. CASE o = session.out[3]
        BY <1>2, <2>0, <3>4, <4>1 DEF Earned, Changed
      <4>2. CASE \E n \in Fresh : o = Edited(n)
        <5>1. PICK n \in Fresh : o.rev = n
          BY <4>2 DEF Edited
        <5>2. session.out[4] # Nil => session.out[4].rev # n
          BY <1>0, <5>1, FreshUnused
        <5> QED
          BY <3>4, <5>1, <5>2 DEF Earned, Changed
      <4> QED
        BY <4>1, <4>2
    <3> QED
      BY <2>0, <3>4, <3>7, <3>9, <3>10, <3>11 DEF Upright
  <2> QED
    BY <2>1, <2>2, <2>3
<1>12. CASE Arrive(w)
  <2>1. /\ r = Nobody /\ session' = session /\ snapshot' = snapshot
        /\ ~Making(r) /\ ~Rescored(r)
    BY <1>1, <1>12
       DEF Arrive, Trigger, View, Open, Load, Events, Free, At, EditSound, Making, Rescored
  <2>2. ASSUME NEW p, NEW t, Open(w, p, FALSE, t) PROVE Upright(w)
    <3>1. q.stage = "open" /\ q.copy = session /\ ~q.force
      BY <1>0, <2>2 DEF Open, Nobody
    <3>2. EditSound(r)'
      BY <2>1, <3>1 DEF EditSound, EditStages, Running, Rescored, RunStages
    <3> QED
      BY <1>7, <2>1, <3>2
  <2>3. ASSUME NEW kind \in {"patch", "overwrite", "commit", "audit", "jd", "touch"}, Load(w, kind)
        PROVE  Upright(w)
    <3>1. /\ kind \in {"overwrite", "touch"}
          /\ q.stage = kind /\ q.copy = session /\ ~q.force /\ q.phase = 0
      BY <1>0, <2>3 DEF Load, Nobody, Editing
    <3>2. EditSound(r)'
      BY <2>1, <3>1 DEF EditSound, EditStages, Running, Rescored, RunStages
    <3> QED
      BY <1>7, <2>1, <3>2
  <2>4. ASSUME NEW p \in Phases, Events(w, p) PROVE Upright(w)
    <3>1. q.stage = "accept" /\ q.copy = session /\ ~q.force /\ q.phase = p /\ p # 2
      BY <1>0, <2>4 DEF Events, Nobody, Editing
    <3>2. EditSound(r)'
      BY <2>1, <3>1 DEF EditSound, EditStages, Running, Rescored, RunStages
    <3> QED
      BY <1>7, <2>1, <3>2
  <2> QED
    BY <1>12, <2>2, <2>3, <2>4 DEF Arrive, Trigger, View, Editing
<1>13. CASE RunStep(w)
  <2>0. r.stage \in RunStages
    BY <1>13 DEF RunStep, Lock, Begin, MarkRunning, Intel, Generate, Fail, MarkFailed, SaveOutput,
                 MarkDownstream, Sync, ClearStale, Release, At, Holds, RunStages
  <2>1. r.phase # 0 => r.phase \in {1, 3, 4} /\ session.requested = 0 /\ Running(r)
    BY <1>0, <1>1, <2>0 DEF EditSound, Running, Work, All
  <2>2. ~Making(r) => \A p \in All : session.status[p] # "running"
    BY <1>2
  <2>3. r.stage # "sync" => r.phase \in {1, 3, 4}
    BY <1>0, <2>0, <2>1 DEF Carries, PhaseStages, All
  <2>4. CASE Lock(w)
    <3>1. r.stage = "lock" /\ session' = session /\ snapshot' = snapshot /\ ~Making(r) /\ ~Rescored(r)
      BY <2>4 DEF Lock, At, Making, Rescored
    <3>2. CASE Goto(w, "begin")
      <4>1. q.stage = "begin" /\ q.phase = r.phase /\ q.copy = Nil /\ ~q.force
        BY <1>1, <1>5, <3>2 DEF EditSound
      <4>2. EditSound(r)'
        BY <2>1, <2>3, <3>1, <4>1 DEF EditSound, EditStages, Rescored, RunStages
      <4> QED
        BY <1>7, <3>1, <4>2
    <3> QED
      BY <1>8, <2>4, <3>1, <3>2 DEF Lock
  <2>5. CASE Begin(w)
    <3>1. /\ r.stage = "begin" /\ session' = session /\ snapshot' = snapshot
          /\ ~Making(r) /\ ~Rescored(r)
          /\ work' = [work EXCEPT ![w].stage = "mark", ![w].input = session]
      BY <2>5 DEF Begin, At, Making, Rescored
    <3>2. /\ q.stage = "mark" /\ q.phase = r.phase /\ q.copy = r.copy /\ q.force = r.force
          /\ q.input = session
      BY <1>0, <3>1 DEF Work
    <3>3. session.requested = 0 /\ \A p \in All : session.status[p] # "running"
      BY <2>1, <2>2, <2>3, <3>1
    <3>4. r.copy \in {Nil, session} /\ ~r.force /\ r.phase \in {1, 3, 4}
      BY <1>1, <2>3, <3>1 DEF EditSound
    <3>5. EditSound(r)'
      <4>1. /\ q.stage = "mark" /\ q.phase \in {1, 3, 4} /\ q.copy \in {Nil, session'} /\ ~q.force
            /\ q.input = session' /\ session'.requested = 0
            /\ \A p \in All : session'.status[p] # "running"
        BY <3>1, <3>2, <3>3, <3>4
      <4> QED
        BY <4>1 DEF EditSound, EditStages, Rescored, RunStages
    <3> QED
      BY <1>7, <3>1, <3>5
  <2>6. CASE MarkRunning(w)
    <3>1. /\ r.stage = "mark" /\ snapshot' = snapshot
          /\ session' = [session EXCEPT !.status[r.phase] = "running"]
          /\ \E st \in {"intel", "llm"} : Goto(w, st)
      BY <1>1, <2>6 DEF MarkRunning, Holds, At, Copy, Store, PhaseOf
    <3>2. /\ session'.out = session.out /\ session'.stale4 = session.stale4
          /\ session'.requested = session.requested
          /\ \A p \in All \ {r.phase} : session'.status[p] = session.status[p]
      BY <1>0, <3>1 DEF Session
    <3>3. /\ q.stage \in {"intel", "llm"} /\ q.phase = r.phase /\ q.copy = Nil /\ q.force = r.force
          /\ q.input = r.input
      BY <1>5, <3>1
    <3>4. EditSound(r)'
      BY <1>1, <2>1, <2>3, <3>1, <3>2, <3>3 DEF EditSound, EditStages, Rescored, RunStages
    <3>5. \A p \in All : session'.status[p] = "running" => q.phase = p /\ Making(q)
      BY <2>2, <3>1, <3>2, <3>3 DEF Making
    <3> QED
      BY <1>6, <3>1, <3>2, <3>4, <3>5 DEF Rescored
  <2>7. CASE Intel(w)
    <3>1. /\ r.stage = "intel" /\ snapshot' = snapshot /\ Goto(w, "llm")
          /\ session' \in {session, r.input}
      BY <2>7 DEF Intel, At
    <3>2. /\ session'.out = session.out /\ session'.stale4 = session.stale4
          /\ session'.requested = 0
          /\ session' = session \/ \A p \in All : session'.status[p] # "running"
      BY <1>1, <2>1, <2>3, <3>1 DEF EditSound
    <3>3. /\ q.stage = "llm" /\ q.phase = r.phase /\ q.copy = Nil /\ q.force = r.force
          /\ q.input = r.input
      BY <1>5, <3>1
    <3>4. EditSound(r)'
      BY <1>1, <2>1, <2>3, <3>1, <3>2, <3>3 DEF EditSound, EditStages, Rescored, RunStages
    <3>5. \A p \in All : session'.status[p] = "running" => q.phase = p /\ Making(q)
      BY <1>2, <3>2, <3>3 DEF Making
    <3> QED
      BY <1>6, <3>1, <3>2, <3>4, <3>5 DEF Rescored
  <2>8. CASE Generate(w)
    <3>1. /\ r.stage = "llm" /\ session' = session /\ snapshot' = snapshot /\ r.phase \in {1, 3, 4}
          /\ r.input.out = session.out /\ r.copy = Nil
      BY <1>1, <2>3, <2>8 DEF Generate, At, EditSound
    <3> DEFINE Saving(n) == work' = [work EXCEPT
                  ![w].stage = "save", ![w].input = Nil,
                  ![w].output = [jd |-> work[w].input.jd, rev |-> n, by |-> "run"]]
    <3>2. PICK n :
             /\ r.phase = 3 => n \in Fresh
             /\ r.phase = 4 => session.out[3] # Nil /\ n = session.out[3].rev
             /\ Saving(n)
      <4>1. r.phase = 4 => session.out[3] # Nil
        BY <2>8, <3>1 DEF Generate, Needed, PhaseOf
      <4>2. \E n \in CASE r.phase = 3 -> Fresh
                      [] r.phase = 4 -> {session.out[3].rev}
                      [] OTHER -> {0} : Saving(n)
        BY <2>8, <3>1 DEF Generate, PhaseOf
      <4> HIDE DEF Saving
      <4>3. CASE r.phase = 3
        BY <4>2, <4>3
      <4>4. CASE r.phase = 4
        BY <4>1, <4>2, <4>4
      <4>5. CASE r.phase = 1
        BY <4>2, <4>5
      <4> QED
        BY <3>1, <4>3, <4>4, <4>5
    <3>3. /\ q.stage = "save" /\ q.phase = r.phase /\ q.copy = Nil /\ q.force = r.force
          /\ q.output.rev = n /\ q.output.by = "run"
      BY <1>0, <3>1, <3>2 DEF Work
    <3>4. r.phase = 3 /\ session.out[4] # Nil => session.out[4].rev # n
      BY <1>0, <3>2, FreshUnused
    <3>5. EditSound(r)'
      BY <1>1, <2>1, <3>1, <3>2, <3>3, <3>4 DEF EditSound, EditStages, Rescored, RunStages
    <3>6. \A p \in All : session'.status[p] = "running" => q.phase = p /\ Making(q)
      BY <1>2, <3>1, <3>3 DEF Making
    <3> QED
      BY <1>6, <3>1, <3>5, <3>6 DEF Rescored
  <2>9. CASE Fail(w)
    <3>1. /\ r.stage \in {"intel", "llm"} /\ session' = session /\ snapshot' = snapshot
          /\ work' = [work EXCEPT ![w].stage = "fail", ![w].input = Nil]
      BY <2>9 DEF Fail, At
    <3>2. /\ q.stage = "fail" /\ q.phase = r.phase /\ q.copy = r.copy /\ q.force = r.force
      BY <1>0, <3>1 DEF Work
    <3>3. EditSound(r)'
      BY <1>1, <2>1, <2>3, <3>1, <3>2 DEF EditSound, EditStages, Rescored, RunStages
    <3>4. \A p \in All : session'.status[p] = "running" => q.phase = p /\ Making(q)
      BY <1>2, <3>1, <3>2 DEF Making
    <3> QED
      BY <1>6, <3>1, <3>3, <3>4 DEF Rescored
  <2>10. CASE MarkFailed(w)
    <3>1. /\ r.stage = "fail" /\ snapshot' = snapshot /\ Goto(w, "release")
          /\ \E s \in {"error", "pending"} : session' = [session EXCEPT !.status[r.phase] = s]
      BY <1>1, <2>10 DEF MarkFailed, Holds, At, Copy, Store, PhaseOf
    <3>2. /\ session'.out = session.out /\ session'.stale4 = session.stale4
          /\ session'.requested = session.requested
          /\ \A p \in All : session'.status[p] # "running"
      BY <1>0, <1>2, <2>3, <3>1 DEF Session, All
    <3>3. /\ q.stage = "release" /\ q.phase = r.phase /\ q.copy = Nil /\ q.force = r.force
      BY <1>5, <3>1
    <3>4. EditSound(r)'
      BY <1>1, <2>1, <2>3, <3>1, <3>2, <3>3 DEF EditSound, EditStages, Rescored, RunStages
    <3> QED
      BY <1>6, <3>1, <3>2, <3>4 DEF Rescored
  <2>11. CASE SaveOutput(w)
    <3> DEFINE n == r.phase
    <3>1. /\ r.stage = "save" /\ snapshot' = snapshot /\ n \in {1, 3, 4} /\ r.output # Nil
          /\ session' = [session EXCEPT !.out[n] = r.output, !.status[n] = "done"]
          /\ work' = [work EXCEPT ![w].stage = AfterSave(n), ![w].copy = Nil, ![w].output = Nil]
      BY <1>0, <1>1, <2>3, <2>11 DEF SaveOutput, Holds, At, Copy, Store, PhaseOf, Carries
    <3>2. /\ session'.stale4 = session.stale4 /\ session'.requested = 0
          /\ session'.out[n] = r.output
          /\ \A p \in All \ {n} : session'.out[p] = session.out[p]
          /\ \A p \in All : session'.status[p] # "running"
      BY <1>0, <1>2, <2>1, <3>1 DEF Session, Outputs, All
    <3>3. /\ q.stage = IF n = 1 THEN "clear" ELSE "sync"
          /\ q.phase = n /\ q.copy = Nil /\ ~q.force
      BY <1>0, <1>1, <3>1 DEF Work, AfterSave, EditSound
    <3>4. CASE n = 1
      <4>1. EditSound(r)'
        BY <3>2, <3>3, <3>4 DEF EditSound, EditStages, Rescored, RunStages, Running
      <4>2. Kept' /\ Marked(session')
        BY <1>1, <3>1, <3>2, <3>4 DEF Kept, Marked, All
      <4>3. Earned(session')
        BY <1>2, <3>1, <3>2, <3>4 DEF Earned, Changed, Rescored, All
      <4> QED
        BY <3>2, <4>1, <4>2, <4>3 DEF Upright
    <3>5. CASE n = 3
      <4>1. r.output.by = "run" /\ (session.out[4] # Nil => r.output.rev # session.out[4].rev)
        BY <1>1, <3>1, <3>5 DEF EditSound
      <4>2. /\ session'.out[3] = r.output /\ session'.out[1] = session.out[1]
            /\ session'.out[2] = session.out[2] /\ session'.out[4] = session.out[4]
        BY <3>2, <3>5 DEF All
      <4>3. EditSound(r)'
        BY <3>1, <3>2, <3>3, <3>5, <4>1, <4>2
           DEF EditSound, EditStages, Rescored, RunStages, Running
      <4>4. Kept' /\ Marked(session') /\ Earned(session')
        BY <1>1, <3>1, <4>1, <4>2 DEF Kept, Marked, Earned, Changed
      <4> QED
        BY <3>2, <4>3, <4>4 DEF Upright
    <3>6. CASE n = 4
      <4>1. session.out[3] # Nil /\ r.output.rev = session.out[3].rev
        BY <1>1, <3>1, <3>6 DEF EditSound
      <4>2. /\ session'.out[4] = r.output /\ session'.out[1] = session.out[1]
            /\ session'.out[2] = session.out[2] /\ session'.out[3] = session.out[3]
        BY <3>2, <3>6 DEF All
      <4>3. EditSound(r)' /\ Rescored(q)
        BY <3>1, <3>2, <3>3, <3>6, <4>1, <4>2
           DEF EditSound, EditStages, Rescored, RunStages, Running
      <4>4. Kept' /\ Marked(session')
        BY <1>1, <3>1, <4>1, <4>2 DEF Kept, Marked
      <4> QED
        BY <3>2, <4>3, <4>4 DEF Upright
    <3> QED
      BY <3>1, <3>4, <3>5, <3>6
  <2>12. ~MarkDownstream(w)
    BY <1>1 DEF MarkDownstream, Holds, At, EditSound, EditStages, RunStages
  <2>13. CASE Sync(w)
    <3>1. /\ r.stage = "sync" /\ session' = session /\ r.copy = session
          /\ snapshot' \in {snapshot, session.out} /\ (snapshot' # snapshot => session.out[3] # Nil)
          /\ IF r.phase = 0 THEN Finish(w) ELSE Goto(w, "clear")
      BY <1>1, <2>13 DEF Sync, Holds, At, Copy, PhaseOf, Snapshotted
    <3>2. ~Making(r) /\ \A p \in All : session'.status[p] # "running"
      BY <2>2, <3>1 DEF Making
    <3>3. Kept' /\ Marked(session')
      BY <1>1, <3>1 DEF Kept
    <3>4. EditSound(r)' /\ (Rescored(r) => Rescored(q))
      <4>1. CASE r.phase = 0
        BY <1>3, <1>4, <3>1, <4>1 DEF Rescored
      <4>2. CASE r.phase # 0
        <5>1. q.stage = "clear" /\ q.phase = r.phase /\ q.copy = Nil /\ q.force = r.force
          BY <1>5, <3>1, <4>2
        <5> QED
          BY <1>1, <2>1, <3>1, <4>2, <5>1 DEF EditSound, EditStages, Rescored, RunStages
      <4> QED
        BY <4>1, <4>2
    <3> QED
      BY <1>2, <3>1, <3>2, <3>3, <3>4 DEF Upright
  <2>14. CASE ClearStale(w)
    <3>1. /\ r.stage = "clear" /\ snapshot' = snapshot /\ Goto(w, "release")
          /\ session' = [session EXCEPT !.stale4 = session.stale4 /\ r.phase < 3]
      BY <1>1, <2>14 DEF ClearStale, Holds, At, Copy, Store, PhaseOf
    <3>2. /\ session'.out = session.out /\ session'.status = session.status
          /\ session'.requested = session.requested
          /\ session'.stale4 = (session.stale4 /\ r.phase < 3)
      BY <1>0, <3>1 DEF Session
    <3>3. /\ q.stage = "release" /\ q.phase = r.phase /\ q.copy = Nil /\ q.force = r.force
      BY <1>5, <3>1
    <3>4. EditSound(r)'
      BY <1>1, <2>1, <2>3, <3>1, <3>2, <3>3 DEF EditSound, EditStages, Rescored, RunStages
    <3>5. Kept' /\ \A p \in All : session'.status[p] # "running"
      BY <1>1, <2>2, <3>1, <3>2 DEF Kept, Making
    <3>6. CASE r.phase = 1
      <4>1. session'.stale4 = session.stale4
        <5>1. session.stale4 \in BOOLEAN /\ r.phase < 3
          BY <1>0, <3>6 DEF Session
        <5> QED
          BY <3>2, <5>1, Zenon
      <4> QED
        BY <1>6, <3>1, <3>2, <3>4, <3>5, <3>6, <4>1 DEF Rescored
    <3>7. CASE r.phase \in {3, 4}
      <4>1. ~session'.stale4
        <5>1. ~(r.phase < 3)
          BY <3>7
        <5> QED
          BY <3>2, <5>1, Zenon
      <4>2. Marked(session')
        BY <1>1, <3>1, <3>2, <3>7 DEF Marked, EditSound, Rescored
      <4> QED
        BY <3>4, <3>5, <4>1, <4>2 DEF Upright, Earned
    <3> QED
      BY <2>3, <3>1, <3>6, <3>7
  <2>15. CASE Release(w)
    BY <1>8, <2>15 DEF Release, At, Making, Rescored
  <2> QED
    BY <1>13, <2>4, <2>5, <2>6, <2>7, <2>8, <2>9, <2>10, <2>11, <2>12, <2>13, <2>14, <2>15
       DEF RunStep
<1> QED
  BY <1>9, <1>10, <1>11, <1>12, <1>13 DEF Step

\* While requests come one at a time, clients wait for running phases and no task is lost,
\* and the resume is overwritten as a whole: between requests a user's resume leaves the
\* score of another one marked stale, and a phase 4 run is waived only when the score is
\* not of the resume.
THEOREM EditedOnlyFree ==
    ASSUME Editing
    PROVE  Spec => [](EditsMarked /\ WaiverEarned)
<1> DEFINE Inv == TInv /\ Current /\ EditInv
<1>1. Init => Inv
  <2> SUFFICES ASSUME Init PROVE EditInv
    BY PhaseInit, CurrentInit
  <2>1. /\ \A w \in Workers : work[w] = Nobody
        /\ \A p \in All : session.status[p] # "running"
        /\ ~session.stale4
    BY DEF Init, All
  <2>2. EditSound(Nobody)
    BY DEF EditSound, EditStages, Nobody, Running, Rescored, RunStages
  <2>3. Kept /\ Marked(session)
    <3>1. PICK k \in 2..4 : session.out = Made(k) /\ (snapshot = Nil \/ (snapshot = Made(k) /\ k > 2))
      BY DEF Init
    <3>2. /\ \A p \in All : p <= k => Made(k)[p] # Nil
          /\ \A p \in All : p > k => Made(k)[p] = Nil
          /\ k > 2 => Made(k)[3].by = "run"
      BY PhaseAssumption, NilAssumption DEF Made, All, Output, Jds
    <3> QED
      BY <3>1, <3>2 DEF Kept, Marked, All
  <2> QED
    BY <2>1, <2>2, <2>3 DEF EditInv, Earned, Nobody
<1>2. Inv /\ [Next]_vars => Inv'
  <2> SUFFICES ASSUME Inv, [Next]_vars PROVE EditInv'
    BY PhaseStep, CurrentStep DEF Editing
  <2>1. ASSUME NEW w \in Workers, Arrive(w) \/ Step(w) PROVE EditInv'
    BY <2>1, EveryMove, MoverSole, EveryUpright, UprightKeeps DEF Editing
  <2>2. ASSUME NEW w \in Workers, Crash(w) PROVE FALSE
    BY <2>2 DEF Crash, Editing, TInv, TypeOK
  <2>3. CASE UNCHANGED <<session, snapshot, work>>
    BY <2>3 DEF EditInv, EditSound, Kept
  <2> QED
    BY <2>1, <2>2, <2>3 DEF Next, Expire, vars
<1>3. Inv => EditsMarked /\ WaiverEarned
  <2> SUFFICES ASSUME Inv PROVE EditsMarked /\ WaiverEarned
    OBVIOUS
  <2>1. EditsMarked
    BY DEF EditInv, EditsMarked, Marked
  <2>2. ASSUME NEW w \in Workers, work[w].stage = "bill", work[w].waived
        PROVE  Changed(Copy(w))
    BY <2>2 DEF EditInv, EditSound, TInv, Carried, Carries, CopyStages, Copy
  <2> QED
    BY <2>1, <2>2 DEF WaiverEarned
<1> QED
  BY <1>1, <1>2, <1>3, PTL DEF Spec
=============================================================================
