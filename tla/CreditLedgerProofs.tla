------------------------- MODULE CreditLedgerProofs -------------------------
(***************************************************************************)
(* Proofs about CreditLedger for every set of transactions, kinds, events  *)
(* and requests: no spend is ever uncovered, the ledger implements         *)
(* CreditBank, and without revokes the balance never goes negative.        *)
(***************************************************************************)
EXTENDS CreditLedger, TLAPS

\* A FOR UPDATE lock on the users row excludes every other lock on it.
UserLockExclusive ==
    \A t, u \in Txns : t # u /\ "all" \in userLock[t] => userLock[u] = {}

\* An uncommitted row is the request's, and its writer holds a lock on the user.
RowOwned ==
    \A t \in Txns :
        row[t] # 0 => /\ row[t] = Delta(req[t])
                      /\ userLock[t] # {}
                      /\ pc[t] \in {"refresh", "write", "commit"}

\* From its lock on, a spend holds the users row exclusively; from its check on,
\* the committed balance covers it.
SpendGuarded ==
    \A t \in Txns :
        req[t].op \in Spends =>
            /\ pc[t] \notin {"idle", "lockUser", "done"} => "all" \in userLock[t]
            /\ pc[t] \in {"insert", "refresh", "write", "commit"} =>
                   balance[req[t].kind] >= req[t].amount

\* At most one row, committed or not, carries an idempotency key.
KeyUnique ==
    \A t \in Txns :
        row[t] # 0 /\ req[t].event # NoEvent =>
            /\ keyed[<<req[t].event, req[t].kind>>] = 0
            /\ \A u \in Txns \ {t} :
                   ~(/\ row[u] # 0
                     /\ req[u].event = req[t].event
                     /\ req[u].kind = req[t].kind)

IInv == TypeOK /\ UserLockExclusive /\ RowOwned /\ SpendGuarded /\ KeyUnique

USE LedgerAssumption DEF LedgerAssumption

-----------------------------------------------------------------------------
\* The credits a request moves: a spend or a revoke takes them, the rest add.
LEMMA DeltaSign ==
    \A q \in Requests :
        /\ q \in Request
        /\ q.amount \in Nat \ {0}
        /\ Delta(q) \in Int
        /\ q.op \in Takes => Delta(q) = -q.amount
        /\ q.op \notin Takes => Delta(q) = q.amount
        /\ Delta(q) # 0
<1> SUFFICES ASSUME NEW q \in Requests
             PROVE  /\ q \in Request
                    /\ q.amount \in Nat \ {0}
                    /\ Delta(q) \in Int
                    /\ q.op \in Takes => Delta(q) = -q.amount
                    /\ q.op \notin Takes => Delta(q) = q.amount
                    /\ Delta(q) # 0
    OBVIOUS
<1>1. q \in Request
    OBVIOUS
<1>2. q.amount \in Nat \ {0}
    BY <1>1 DEF Request
<1> QED
    BY <1>1, <1>2 DEF Delta

\* The statements and locks of every transaction are of the right kind.
LEMMA TypeInit == Init => TypeOK
BY DEF Init, TypeOK, Blank, Statements, UserModes, NoPut, Request

\* Every statement keeps every variable in its type; a committed revoke has a negative
\* row, so what was revoked only grows.
LEMMA TypeStep == TypeOK /\ RowOwned /\ [Next]_vars => TypeOK'
<1> SUFFICES ASSUME TypeOK, RowOwned, [Next]_vars PROVE TypeOK'
    OBVIOUS
<1> USE DeltaSign DEF TypeOK, Statements, UserModes, Goto, shared, private, NoPut
<1>1. ASSUME NEW t \in Txns, Begin(t) PROVE TypeOK'
    BY <1>1 DEF Begin, FirstStatement, Spends, Request, Ops
<1>2. ASSUME NEW t \in Txns, LockUser(t) PROVE TypeOK'
    BY <1>2 DEF LockUser
<1>3. ASSUME NEW t \in Txns, LockRows(t) PROVE TypeOK'
    BY <1>3 DEF LockRows
<1>4. ASSUME NEW t \in Txns, ShareRows(t) PROVE TypeOK'
    BY <1>4 DEF ShareRows
<1>5. ASSUME NEW t \in Txns, Check(t) PROVE TypeOK'
    <2>1. balance[req[t].kind] \in Int
        BY DEF Request
    <2>2. fresh' \in [Txns -> Nat] /\ sum' \in [Txns -> Int]
        BY <1>5, <2>1 DEF Check, NonNeg
    <2> QED
        BY <1>5, <2>2 DEF Check
<1>6. ASSUME NEW t \in Txns, Refuse(t) PROVE TypeOK'
    BY <1>6 DEF Refuse, Release, Blank
<1>7. ASSUME NEW t \in Txns, Insert(t) PROVE TypeOK'
    <2>1. req[t].amount \in Nat /\ Delta(req[t]) \in Int
        OBVIOUS
    <2>2. fresh' \in [Txns -> Nat]
        BY <1>7, <2>1 DEF Insert, NonNeg
    <2> QED
        BY <1>7, <2>1, <2>2 DEF Insert, AfterInsert
<1>8. ASSUME NEW t \in Txns, DuplicateKey(t) PROVE TypeOK'
    BY <1>8 DEF DuplicateKey
<1>9. ASSUME NEW t \in Txns, Refresh(t) PROVE TypeOK'
    BY <1>9 DEF Refresh, NonNeg
<1>10. ASSUME NEW t \in Txns, WriteCache(t) PROVE TypeOK'
    <2>1. put' \in [Txns -> Nat \cup {NoPut}]
        BY <1>10 DEF WriteCache
    <2>2. userLock' \in [Txns -> SUBSET UserModes]
        <3>1. \/ userLock' = userLock
              \/ userLock' = [userLock EXCEPT ![t] = @ \cup {"write"}]
            BY <1>10 DEF WriteCache
        <3> QED
            BY <3>1
    <2> QED
        BY <1>10, <2>1, <2>2 DEF WriteCache
<1>11. ASSUME NEW t \in Txns, Commit(t) PROVE TypeOK'
    <2>1. req[t].kind \in Kinds /\ req[t].event \in Events \cup {NoEvent}
        BY DEF Request
    <2>2. keyed' \in [Events \X Kinds -> Nat]
        <3>1. CASE keyed' = keyed
            BY <3>1
        <3>2. CASE /\ row[t] # 0 /\ req[t].event # NoEvent
                   /\ keyed' = [keyed EXCEPT ![<<req[t].event, req[t].kind>>] = @ + row[t]]
            <4>1. row[t] \in Nat
                <5>1. req[t].op = "grant"
                    BY <3>2
                <5>2. row[t] = req[t].amount /\ req[t].amount \in Nat
                    BY <3>2, <5>1 DEF RowOwned, Takes, Spends
                <5> QED
                    BY <5>2
            <4>2. <<req[t].event, req[t].kind>> \in Events \X Kinds
                BY <2>1, <3>2
            <4> QED
                BY <3>2, <4>1, <4>2
        <3> QED
            BY <1>11, <3>1, <3>2 DEF Commit
    <2>3. cache' \in Nat
        BY <1>11 DEF Commit
    <2>4. balance' \in [Kinds -> Int]
        BY <1>11, <2>1 DEF Commit
    <2>5. revoked' \in [Kinds -> Nat]
        <3>1. row[t] # 0 => row[t] = Delta(req[t])
            BY DEF RowOwned
        <3>2. req[t].op = "revoke" => 0 - row[t] \in Nat
            BY <3>1 DEF Takes
        <3> QED
            BY <1>11, <2>1, <3>2 DEF Commit
    <2> QED
        BY <1>11, <2>2, <2>3, <2>4, <2>5 DEF Commit, Release, AfterEnd, Blank
<1>12. ASSUME NEW t \in Txns, Crash(t) PROVE TypeOK'
    BY <1>12 DEF Crash, Release, AfterEnd, Blank
<1>13. ASSUME NEW t \in Txns, BreakDeadlock(t) PROVE TypeOK'
    BY <1>13 DEF BreakDeadlock, Release, AfterEnd, Blank
<1>14. CASE VerifyEmail
    BY <1>14 DEF VerifyEmail
<1>15. CASE UNCHANGED vars
    BY <1>15 DEF vars
<1> QED
    BY <1>1, <1>2, <1>3, <1>4, <1>5, <1>6, <1>7, <1>8, <1>9, <1>10, <1>11,
       <1>12, <1>13, <1>14, <1>15 DEF Next, Statement

-----------------------------------------------------------------------------
\* The strengthening holds when no transaction has begun.
LEMMA IInvInit == Init => IInv
<1> SUFFICES ASSUME Init PROVE IInv
    OBVIOUS
<1>1. TypeOK
    BY TypeInit
<1>2. UserLockExclusive /\ RowOwned /\ KeyUnique
    BY DEF Init, UserLockExclusive, RowOwned, KeyUnique
<1>3. SpendGuarded
    BY DEF Init, SpendGuarded
<1> QED
    BY <1>1, <1>2, <1>3 DEF IInv

\* Nobody holds a lock on the users row beside a FOR UPDATE lock: every lock is
\* taken only when no other transaction holds a conflicting one.
LEMMA LockStep ==
    TypeOK /\ UserLockExclusive /\ [Next]_vars => UserLockExclusive'
<1> SUFFICES ASSUME TypeOK, UserLockExclusive, [Next]_vars
             PROVE  UserLockExclusive'
    OBVIOUS
<1> USE DEF TypeOK, UserLockExclusive, Goto, shared, private
<1>1. ASSUME NEW t \in Txns, userLock' = userLock PROVE UserLockExclusive'
    BY <1>1
<1>2. ASSUME NEW t \in Txns, userLock' = [userLock EXCEPT ![t] = {}]
      PROVE  UserLockExclusive'
    BY <1>2
<1>3. ASSUME NEW t \in Txns, LockUser(t) PROVE UserLockExclusive'
    <2>1. \A u \in Txns \ {t} : userLock[u] = {}
        BY <1>3 DEF LockUser, UserBlockers, UserConflicts, UserModes
    <2> QED
        BY <1>3, <2>1 DEF LockUser
<1>4. ASSUME NEW t \in Txns, Insert(t) PROVE UserLockExclusive'
    <2>1. \A u \in Txns \ {t} : "all" \notin userLock[u]
        BY <1>4 DEF Insert, UserBlockers, UserConflicts
    <2> QED
        BY <1>4, <2>1 DEF Insert
<1>5. ASSUME NEW t \in Txns, WriteCache(t) PROVE UserLockExclusive'
    <2>1. CASE fresh[t] = seen[t].cache
        BY <1>1, <1>5, <2>1 DEF WriteCache
    <2>2. CASE fresh[t] # seen[t].cache
        <3>1. \A u \in Txns \ {t} : "all" \notin userLock[u]
            BY <1>5, <2>2 DEF WriteCache, UserBlockers, UserConflicts
        <3> QED
            BY <1>5, <2>2, <3>1 DEF WriteCache
    <2> QED
        BY <2>1, <2>2
<1>6. ASSUME NEW t \in Txns,
             Begin(t) \/ LockRows(t) \/ ShareRows(t) \/ Check(t) \/ DuplicateKey(t) \/ Refresh(t)
      PROVE  UserLockExclusive'
    BY <1>1, <1>6 DEF Begin, LockRows, ShareRows, Check, DuplicateKey, Refresh
<1>7. ASSUME NEW t \in Txns, Refuse(t) \/ Commit(t) \/ Crash(t) \/ BreakDeadlock(t)
      PROVE  UserLockExclusive'
    BY <1>2, <1>7 DEF Refuse, Commit, Crash, BreakDeadlock, Release
<1>8. CASE VerifyEmail \/ UNCHANGED vars
    BY <1>8 DEF VerifyEmail, vars
<1> QED
    BY <1>3, <1>4, <1>5, <1>6, <1>7, <1>8 DEF Next, Statement

\* A row is written under a lock on the user and given up with it.
LEMMA RowStep == TypeOK /\ RowOwned /\ [Next]_vars => RowOwned'
<1> SUFFICES ASSUME TypeOK, RowOwned, [Next]_vars PROVE RowOwned'
    OBVIOUS
<1> USE DEF TypeOK, RowOwned, Goto, shared, private
<1>1. ASSUME NEW t \in Txns, Begin(t) \/ LockUser(t) \/ LockRows(t) \/ ShareRows(t)
                             \/ Check(t) \/ DuplicateKey(t)
      PROVE  RowOwned'
    BY <1>1 DEF Begin, LockUser, LockRows, ShareRows, Check, DuplicateKey
<1>2. ASSUME NEW t \in Txns, Insert(t) PROVE RowOwned'
    BY <1>2 DEF Insert, AfterInsert
<1>3. ASSUME NEW t \in Txns, Refresh(t) PROVE RowOwned'
    BY <1>3 DEF Refresh
<1>4. ASSUME NEW t \in Txns, WriteCache(t) PROVE RowOwned'
    BY <1>4 DEF WriteCache
<1>5. ASSUME NEW t \in Txns, Refuse(t) \/ Commit(t) \/ Crash(t) \/ BreakDeadlock(t)
      PROVE  RowOwned'
    BY <1>5 DEF Refuse, Commit, Crash, BreakDeadlock, Release
<1>6. CASE VerifyEmail \/ UNCHANGED vars
    BY <1>6 DEF VerifyEmail, vars
<1> QED
    BY <1>1, <1>2, <1>3, <1>4, <1>5, <1>6 DEF Next, Statement

\* A commit beside a transaction that holds the users row FOR UPDATE changes no
\* balance: the committer has no row.
LEMMA CommitBesideLock ==
    ASSUME TypeOK, UserLockExclusive, RowOwned,
           NEW t \in Txns, NEW u \in Txns, t # u, "all" \in userLock[t], Commit(u)
    PROVE  balance' = balance
<1>1. userLock[u] = {}
    BY DEF UserLockExclusive
<1>2. row[u] = 0
    BY <1>1 DEF RowOwned
<1>3. req[u].kind \in Kinds
    BY DEF TypeOK, Request
<1> QED
    BY <1>2, <1>3 DEF Commit, TypeOK

\* What a spend checked stays true until it ends.
LEMMA SpendStep ==
    /\ TypeOK /\ UserLockExclusive /\ RowOwned /\ SpendGuarded
    /\ [Next]_vars
    => SpendGuarded'
<1> SUFFICES ASSUME TypeOK, UserLockExclusive, RowOwned, SpendGuarded, [Next]_vars
             PROVE  SpendGuarded'
    OBVIOUS
<1> USE DEF TypeOK, SpendGuarded, Goto, shared, private, Spends
<1>1. ASSUME NEW t \in Txns, Begin(t) PROVE SpendGuarded'
    BY <1>1 DEF Begin, FirstStatement
<1>2. ASSUME NEW t \in Txns, LockUser(t) PROVE SpendGuarded'
    BY <1>2 DEF LockUser
<1>3. ASSUME NEW t \in Txns, LockRows(t) \/ ShareRows(t) \/ DuplicateKey(t) \/ Refresh(t)
      PROVE  SpendGuarded'
    BY <1>3 DEF LockRows, ShareRows, DuplicateKey, Refresh
<1>4. ASSUME NEW t \in Txns, Check(t) PROVE SpendGuarded'
    <2>1. req[t] \in Requests /\ req[t].amount \in Nat /\ balance[req[t].kind] \in Int
        BY DeltaSign DEF Request
    <2>2. req[t].op \in Spends => balance[req[t].kind] >= req[t].amount
        BY <1>4, <2>1 DEF Check, Refused
    <2> QED
        BY <1>4, <2>2 DEF Check
<1>5. ASSUME NEW t \in Txns, Insert(t) PROVE SpendGuarded'
    BY <1>5 DEF Insert
<1>6. ASSUME NEW t \in Txns, WriteCache(t) PROVE SpendGuarded'
    BY <1>6 DEF WriteCache
<1>7. ASSUME NEW t \in Txns, Commit(t) PROVE SpendGuarded'
    <2> SUFFICES ASSUME NEW u \in Txns, req[u].op \in Spends,
                        pc'[u] \notin {"idle", "lockUser", "done"}
                 PROVE  /\ "all" \in userLock'[u]
                        /\ pc'[u] \in {"insert", "refresh", "write", "commit"} =>
                               balance'[req[u].kind] >= req[u].amount
        BY <1>7 DEF Commit, Release
    <2>1. u # t
        BY <1>7 DEF Commit, Release, AfterEnd
    <2>2. pc'[u] = pc[u] /\ userLock'[u] = userLock[u]
        BY <1>7, <2>1 DEF Commit, Release
    <2>3. "all" \in userLock[u]
        BY <2>2
    <2>4. balance' = balance
        BY <1>7, <2>1, <2>3, CommitBesideLock
    <2> QED
        BY <2>2, <2>3, <2>4
<1>8. ASSUME NEW t \in Txns, Refuse(t) \/ Crash(t) \/ BreakDeadlock(t)
      PROVE  SpendGuarded'
    <2>1. balance' = balance /\ (Release(t, "done") \/ Release(t, "idle"))
        BY <1>8 DEF Refuse, Crash, BreakDeadlock, AfterEnd
    <2>2. /\ req' = req
          /\ \A u \in Txns \ {t} : pc'[u] = pc[u] /\ userLock'[u] = userLock[u]
          /\ pc'[t] \in {"idle", "done"}
        BY <2>1 DEF Release
    <2> QED
        BY <2>1, <2>2
<1>9. CASE VerifyEmail \/ UNCHANGED vars
    BY <1>9 DEF VerifyEmail, vars
<1> QED
    BY <1>1, <1>2, <1>3, <1>4, <1>5, <1>6, <1>7, <1>8, <1>9 DEF Next, Statement

\* The UNIQUE index: an insert waits for an uncommitted row with its key and
\* fails on a committed one.
LEMMA KeyStep == TypeOK /\ KeyUnique /\ [Next]_vars => KeyUnique'
<1> SUFFICES ASSUME TypeOK, KeyUnique, [Next]_vars PROVE KeyUnique'
    OBVIOUS
<1> USE DEF TypeOK, KeyUnique, Goto, shared, private
<1>1. CASE UNCHANGED <<row, req, keyed>>
    BY <1>1
<1>2. ASSUME NEW t \in Txns, row' = [row EXCEPT ![t] = 0], UNCHANGED <<req, keyed>>
      PROVE  KeyUnique'
    BY <1>2
<1>3. ASSUME NEW t \in Txns, Begin(t) \/ LockUser(t) \/ LockRows(t) \/ ShareRows(t)
                             \/ Check(t) \/ DuplicateKey(t) \/ Refresh(t) \/ WriteCache(t)
      PROVE  KeyUnique'
    BY <1>1, <1>3 DEF Begin, LockUser, LockRows, ShareRows, Check, DuplicateKey,
                      Refresh, WriteCache
<1>4. ASSUME NEW t \in Txns, Insert(t) PROVE KeyUnique'
    <2>1. req[t].event # NoEvent => keyed[<<req[t].event, req[t].kind>>] = 0
        BY <1>4 DEF Insert, KeyTaken
    <2>2. \A u \in Txns \ {t} :
              ~(/\ row[u] # 0
                /\ req[u].event # NoEvent
                /\ req[u].event = req[t].event
                /\ req[u].kind = req[t].kind)
        BY <1>4 DEF Insert, KeyBlockers
    <2> QED
        BY <1>4, <2>1, <2>2 DEF Insert
<1>5. ASSUME NEW t \in Txns, Commit(t) PROVE KeyUnique'
    <2>1. row' = [row EXCEPT ![t] = 0] /\ req' = req
        BY <1>5 DEF Commit, Release
    <2>2. CASE keyed' = keyed
        BY <1>2, <2>1, <2>2
    <2>3. CASE /\ row[t] # 0 /\ req[t].event # NoEvent
               /\ keyed' = [keyed EXCEPT ![<<req[t].event, req[t].kind>>] = @ + row[t]]
        <3>1. \A u \in Txns : u # t /\ row[u] # 0 /\ req[u].event # NoEvent =>
                  <<req[u].event, req[u].kind>> # <<req[t].event, req[t].kind>>
            BY <2>3
        <3>2. \A u \in Txns : u # t /\ row[u] # 0 /\ req[u].event # NoEvent =>
                  keyed'[<<req[u].event, req[u].kind>>] = 0
            <4>1. \A u \in Txns : req[u].event # NoEvent =>
                      <<req[u].event, req[u].kind>> \in Events \X Kinds
                BY DEF Request
            <4> QED
                BY <2>3, <3>1, <4>1
        <3> QED
            BY <2>1, <3>2
    <2> QED
        BY <1>5, <2>2, <2>3 DEF Commit
<1>6. ASSUME NEW t \in Txns, Refuse(t) \/ Crash(t) \/ BreakDeadlock(t)
      PROVE  KeyUnique'
    BY <1>2, <1>6 DEF Refuse, Crash, BreakDeadlock, Release
<1>7. CASE VerifyEmail \/ UNCHANGED vars
    BY <1>1, <1>7 DEF VerifyEmail, vars
<1> QED
    BY <1>3, <1>4, <1>5, <1>6, <1>7 DEF Next, Statement

-----------------------------------------------------------------------------
\* The strengthening is an invariant of the ledger.
THEOREM LedgerInvariant == Spec => []IInv
<1>1. Init => IInv
    BY IInvInit
<1>2. IInv /\ [Next]_vars => IInv'
    BY TypeStep, LockStep, RowStep, SpendStep, KeyStep DEF IInv
<1> QED
    BY <1>1, <1>2, PTL DEF Spec

\* Every variable keeps its type, for every set of transactions and requests.
THEOREM LedgerTypeCorrect == Spec => []TypeOK
<1>1. IInv => TypeOK
    BY DEF IInv
<1> QED
    BY <1>1, LedgerInvariant, PTL

\* A spend whose row is written is covered by the committed balance: two parallel
\* spends, or a spend beside a revoke, never use the same credit.
THEOREM SpendsAreCovered == Spec => []SpendCovered
<1>1. IInv => SpendCovered
    <2> SUFFICES ASSUME IInv, NEW t \in Txns, req[t].op \in Spends, row[t] # 0
                 PROVE  balance[req[t].kind] + row[t] >= 0
        BY DEF SpendCovered
    <2>1. pc[t] \in {"refresh", "write", "commit"} /\ row[t] = Delta(req[t])
        BY DEF IInv, RowOwned
    <2>2. balance[req[t].kind] >= req[t].amount
        BY <2>1 DEF IInv, SpendGuarded
    <2>3. req[t] \in Requests /\ balance[req[t].kind] \in Int
        BY DeltaSign DEF IInv, TypeOK, Request
    <2>4. row[t] = -req[t].amount /\ req[t].amount \in Nat
        BY <2>1, <2>3, DeltaSign DEF Takes
    <2> QED
        BY <2>2, <2>3, <2>4
<1> QED
    BY <1>1, LedgerInvariant, PTL

\* As long as no administrator revokes credits, the balance is never negative.
THEOREM NoOverdraftWithoutRevoke ==
    ASSUME \A q \in Requests : q.op # "revoke"
    PROVE  Spec => []NoOverdraft
<1>1. Init => NoOverdraft
    BY DEF Init, NoOverdraft
<1>2. IInv /\ NoOverdraft /\ [Next]_vars => NoOverdraft'
    <2> SUFFICES ASSUME IInv, NoOverdraft, [Next]_vars PROVE NoOverdraft'
        OBVIOUS
    <2>1. CASE balance' = balance
        BY <2>1 DEF NoOverdraft
    <2>2. ASSUME NEW t \in Txns, Commit(t) PROVE NoOverdraft'
        <3>1. req[t] \in Requests /\ balance \in [Kinds -> Int] /\ row[t] \in Int
            BY DEF IInv, TypeOK
        <3>2. req[t].kind \in Kinds /\ req[t].amount \in Nat /\ balance[req[t].kind] \in Int
            BY <3>1, DeltaSign DEF Request
        <3>3. balance[req[t].kind] + row[t] >= 0
            <4>1. CASE row[t] = 0
                BY <3>2, <4>1 DEF NoOverdraft
            <4>2. CASE row[t] # 0 /\ req[t].op \in Spends
                <5>1. balance[req[t].kind] >= req[t].amount
                    <6>1. pc[t] = "commit"
                        BY <2>2 DEF Commit
                    <6> QED
                        BY <4>2, <6>1 DEF IInv, SpendGuarded
                <5>2. row[t] = -req[t].amount
                    BY <3>1, <4>2, DeltaSign DEF IInv, RowOwned, Takes
                <5> QED
                    BY <3>2, <5>1, <5>2
            <4>3. CASE row[t] # 0 /\ req[t].op \notin Spends
                <5>1. row[t] = req[t].amount
                    BY <3>1, <4>3, DeltaSign DEF IInv, RowOwned, Takes
                <5> QED
                    BY <3>2, <5>1 DEF NoOverdraft
            <4> QED
                BY <4>1, <4>2, <4>3
        <3> QED
            BY <2>2, <3>1, <3>2, <3>3 DEF Commit, NoOverdraft
    <2> QED
        BY <2>1, <2>2 DEF Next, Statement, Begin, LockUser, LockRows, ShareRows,
           Check, Refuse, Insert, DuplicateKey, Refresh, WriteCache, Crash,
           BreakDeadlock, VerifyEmail, vars, shared
<1> QED
    BY <1>1, <1>2, LedgerInvariant, PTL DEF Spec

\* Every step of the ledger is a step of the bank or leaves it alone.
LEMMA BankStep == IInv /\ [Next]_vars => [Bank!BankNext]_(Bank!bankVars)
<1> SUFFICES ASSUME IInv, [Next]_vars PROVE [Bank!BankNext]_(Bank!bankVars)
    OBVIOUS
<1>1. CASE UNCHANGED <<balance, revoked, keyed>>
    BY <1>1 DEF Bank!bankVars
<1>2. ASSUME NEW t \in Txns, Commit(t) PROVE [Bank!BankNext]_(Bank!bankVars)
    <2> DEFINE k == req[t].kind
               n == req[t].amount
               e == req[t].event
    <2>1. /\ req[t] \in Requests /\ req[t] \in Request /\ balance \in [Kinds -> Int]
          /\ k \in Kinds /\ n \in Amounts /\ n \in Nat \ {0}
          /\ e \in Events \cup {NoEvent} /\ balance[k] \in Int
        BY DeltaSign DEF IInv, TypeOK, Request
    <2>2. CASE row[t] = 0
        <3>1. balance' = balance /\ keyed' = keyed
            BY <1>2, <2>1, <2>2 DEF Commit
        <3>2. revoked' = revoked
            BY <1>2, <2>1, <2>2 DEF Commit, IInv, TypeOK
        <3> QED
            BY <1>1, <3>1, <3>2
    <2>3. CASE row[t] # 0 /\ req[t].op \notin Takes
        <3>1. row[t] = n
            BY <2>1, <2>3, DeltaSign DEF IInv, RowOwned
        <3>2. e # NoEvent => <<e, k>> \in Events \X Kinds /\ keyed[<<e, k>>] = 0
            BY <2>1, <2>3 DEF IInv, KeyUnique
        <3>3. /\ balance' = [balance EXCEPT ![k] = @ + n]
              /\ revoked' = revoked
            BY <1>2, <2>1, <2>3, <3>1 DEF Commit, Takes
        <3>4. keyed' = IF e = NoEvent THEN keyed ELSE [keyed EXCEPT ![<<e, k>>] = n]
            <4>1. CASE e = NoEvent
                BY <1>2, <4>1 DEF Commit
            <4>2. CASE e # NoEvent
                <5>1. keyed' = [keyed EXCEPT ![<<e, k>>] = @ + n]
                    BY <1>2, <2>3, <3>1, <4>2 DEF Commit
                <5>2. keyed[<<e, k>>] + n = n
                    BY <2>1, <3>2, <4>2
                <5> QED
                    BY <4>2, <5>1, <5>2
            <4> QED
                BY <4>1, <4>2
        <3>5. Bank!BankGrant(k, n, e)
            BY <3>2, <3>3, <3>4 DEF Bank!BankGrant
        <3> QED
            BY <2>1, <3>5 DEF Bank!BankNext
    <2>4. CASE row[t] # 0 /\ req[t].op \in Takes
        <3>1. row[t] = -n
            BY <2>1, <2>4, DeltaSign DEF IInv, RowOwned
        <3>2. e = NoEvent
            BY <2>1, <2>4 DEF Takes, Spends
        <3>3. keyed' = keyed /\ balance' = [balance EXCEPT ![k] = @ - n]
            BY <1>2, <2>1, <3>1, <3>2 DEF Commit
        <3>4. CASE req[t].op \in Spends
            <4>1. pc[t] = "commit" /\ revoked' = revoked
                BY <1>2, <3>4 DEF Commit, Spends
            <4>2. balance[k] >= n
                BY <3>4, <4>1 DEF IInv, SpendGuarded
            <4>3. Bank!BankSpend(k, n)
                BY <3>3, <4>1, <4>2 DEF Bank!BankSpend
            <4> QED
                BY <2>1, <4>3 DEF Bank!BankNext
        <3>5. CASE req[t].op = "revoke"
            <4>1. revoked' = [revoked EXCEPT ![k] = @ - row[t]] /\ revoked[k] \in Nat
                BY <1>2, <2>1, <3>5 DEF Commit, IInv, TypeOK
            <4>2. revoked' = [revoked EXCEPT ![k] = @ + n]
                <5>1. \A m \in Nat : m - row[t] = m + n
                    BY <2>1, <3>1
                <5> QED
                    BY <4>1, <5>1
            <4>3. Bank!BankClawBack(k, n)
                BY <3>3, <4>2 DEF Bank!BankClawBack
            <4> QED
                BY <2>1, <4>3 DEF Bank!BankNext
        <3> QED
            BY <2>4, <3>4, <3>5 DEF Takes
    <2> QED
        BY <2>2, <2>3, <2>4
<1> QED
    BY <1>1, <1>2 DEF Next, Statement, Begin, LockUser, LockRows, ShareRows,
       Check, Refuse, Insert, DuplicateKey, Refresh, WriteCache, Crash,
       BreakDeadlock, VerifyEmail, vars, shared

\* The ledger implements the bank: statement-level interleavings of its
\* transactions look like atomic grants, spends and claw-backs.
THEOREM LedgerImplementsBank == Spec => BankRefined
<1>1. Init => Bank!BankInit
    BY DEF Init, Bank!BankInit
<1> QED
    BY <1>1, BankStep, LedgerInvariant, PTL DEF Spec, BankRefined, Bank!BankSpec

-----------------------------------------------------------------------------
\* The order in which every request but the reading one takes its locks: the users row
\* first, then ledger rows, and an UPDATE of the users row last of all.
UserRowFirst ==
    \A t \in Txns : req[t].op # "heal" =>
        /\ pc[t] \in {"idle", "lockUser", "done"} => userLock[t] = {}
        /\ pc[t] \in {"check", "insert"} /\ req[t].op \notin Spends => userLock[t] = {}
        /\ pc[t] \in {"refresh", "write"} => userLock[t] # {}
        /\ pc[t] \in {"lockUser", "lockRows", "shareRows"} => req[t].op \in Spends
        /\ rowLock[t] # "none" => userLock[t] # {}
        /\ rowLock[t] = "update" => req[t].op \in Spends
        /\ "write" \in userLock[t] => pc[t] = "commit"

\* Every statement keeps that order.
LEMMA OrderStep == TypeOK /\ SpendGuarded /\ UserRowFirst /\ [Next]_vars => UserRowFirst'
<1> SUFFICES ASSUME TypeOK, SpendGuarded, UserRowFirst, [Next]_vars PROVE UserRowFirst'
    OBVIOUS
<1> USE DEF TypeOK, UserRowFirst, Goto, shared, private, Spends
<1>0. \A t \in Txns : req[t].op \in Ops
    BY DEF Request
<1>1. ASSUME NEW t \in Txns, Begin(t) PROVE UserRowFirst'
    BY <1>0, <1>1 DEF Begin, FirstStatement, Ops
<1>2. ASSUME NEW t \in Txns, LockUser(t) PROVE UserRowFirst'
    BY <1>2 DEF LockUser
<1>3. ASSUME NEW t \in Txns, LockRows(t) \/ ShareRows(t) PROVE UserRowFirst'
    <2>1. /\ req' = req /\ userLock' = userLock /\ pc' = [pc EXCEPT ![t] = "check"]
          /\ \A u \in Txns \ {t} : rowLock'[u] = rowLock[u]
          /\ pc[t] \in {"lockRows", "shareRows"}
        BY <1>3 DEF LockRows, ShareRows
    <2>2. req[t].op # "heal" =>
              req[t].op \in Spends /\ userLock[t] # {} /\ "write" \notin userLock[t]
        BY <2>1 DEF SpendGuarded
    <2> QED
        BY <2>1, <2>2
<1>4. ASSUME NEW t \in Txns, Check(t) \/ DuplicateKey(t) PROVE UserRowFirst'
    <2>1. /\ req' = req /\ userLock' = userLock /\ rowLock' = rowLock
          /\ \A u \in Txns \ {t} : pc'[u] = pc[u]
          /\ pc[t] \in {"check", "insert"}
        BY <1>4 DEF Check, DuplicateKey
    <2>2. req[t].op # "heal" =>
              /\ "write" \notin userLock[t]
              /\ \/ pc[t] = "check" /\ pc'[t] = "insert"
                 \/ pc[t] = "insert" /\ pc'[t] = "commit"
        BY <1>4 DEF Check, DuplicateKey
    <2> QED
        BY <2>1, <2>2
<1>5. ASSUME NEW t \in Txns, Insert(t) PROVE UserRowFirst'
    BY <1>5 DEF Insert, AfterInsert
<1>6. ASSUME NEW t \in Txns, Refresh(t) PROVE UserRowFirst'
    BY <1>6 DEF Refresh
<1>7. ASSUME NEW t \in Txns, WriteCache(t) PROVE UserRowFirst'
    BY <1>7 DEF WriteCache
<1>8. ASSUME NEW t \in Txns, Refuse(t) \/ Commit(t) \/ Crash(t) \/ BreakDeadlock(t)
      PROVE  UserRowFirst'
    <2>1. Release(t, "done") \/ Release(t, AfterEnd(req[t]))
        BY <1>8 DEF Refuse, Commit, Crash, BreakDeadlock
    <2>2. /\ req' = req /\ userLock'[t] = {} /\ rowLock'[t] = "none"
          /\ \A u \in Txns \ {t} :
                 pc'[u] = pc[u] /\ userLock'[u] = userLock[u] /\ rowLock'[u] = rowLock[u]
          /\ pc'[t] \in {"idle", "done"}
        BY <2>1 DEF Release, AfterEnd
    <2> QED
        BY <2>2
<1>9. CASE VerifyEmail \/ UNCHANGED vars
    BY <1>9 DEF VerifyEmail, vars
<1> QED
    BY <1>1, <1>2, <1>3, <1>4, <1>5, <1>6, <1>7, <1>8, <1>9 DEF Next, Statement

\* Among requests that take the users row first, one that waits has no lock there, or
\* waits only for its UPDATE: it never waits for ledger rows.
LEMMA WaitersHoldNothing ==
    ASSUME IInv, UserRowFirst, NEW t \in Txns, NEW u \in Txns,
           req[t].op # "heal", req[u].op # "heal", u \in WaitsFor(t)
    PROVE  /\ userLock[u] # {}
           /\ userLock[t] # {} => pc[u] = "commit"
<1> USE DEF IInv, TypeOK, Spends
<1>1. t # u
    BY DEF WaitsFor, UserBlockers, RowBlockers, KeyBlockers
<1>2. pc[t] \in {"lockRows", "shareRows", "refresh"} => u \notin WaitsFor(t)
    <2>1. CASE pc[t] \in {"lockRows", "shareRows"}
        <3>1. "all" \in userLock[t]
            BY <2>1 DEF UserRowFirst, SpendGuarded
        <3>2. rowLock[u] = "none"
            BY <1>1, <3>1 DEF UserRowFirst, UserLockExclusive
        <3> QED
            BY <2>1, <3>2 DEF WaitsFor, RowBlockers, RowConflicts
    <2>2. CASE pc[t] = "refresh"
        <3>1. userLock[t] # {}
            BY <2>2 DEF UserRowFirst
        <3>2. "all" \notin userLock[u]
            BY <1>1, <3>1 DEF UserLockExclusive
        <3>3. rowLock[u] # "update"
            BY <3>2 DEF UserRowFirst, SpendGuarded
        <3> QED
            BY <2>2, <3>3 DEF WaitsFor, RowBlockers, RowConflicts
    <2> QED
        BY <2>1, <2>2
<1>3. CASE pc[t] = "lockUser"
    BY <1>3 DEF WaitsFor, UserBlockers, UserConflicts, UserRowFirst
<1>4. CASE pc[t] = "insert"
    <2>1. userLock[u] # {}
        BY <1>4 DEF WaitsFor, UserBlockers, KeyBlockers, UserConflicts, RowOwned
    <2>2. userLock[t] = {}
        <3>1. CASE req[t].op \in Spends
            BY <1>1, <1>4, <2>1, <3>1 DEF SpendGuarded, UserLockExclusive
        <3> QED
            BY <1>4, <3>1 DEF UserRowFirst
    <2> QED
        BY <2>1, <2>2
<1>5. CASE pc[t] = "write"
    <2>1. userLock[t] # {}
        BY <1>5 DEF UserRowFirst
    <2>2. "write" \in userLock[u]
        BY <1>1, <1>5, <2>1 DEF WaitsFor, UserBlockers, UserConflicts, UserLockExclusive
    <2> QED
        BY <2>2 DEF UserRowFirst
<1> QED
    BY <1>2, <1>3, <1>4, <1>5 DEF WaitsFor

\* Requests that take the users row first never wait for each other in a circle.
THEOREM OnlyHealsDeadlock == Spec => []DeadlockNeedsHeal
<1>1. Init => UserRowFirst
    BY DEF Init, UserRowFirst
<1>2. IInv /\ UserRowFirst => DeadlockNeedsHeal
    <2> SUFFICES ASSUME IInv, UserRowFirst, NEW S \in SUBSET Txns, Deadlocked(S),
                        \A t \in S : req[t].op # "heal"
                 PROVE  FALSE
        BY DEF DeadlockNeedsHeal, WaitCycle
    <2>1. PICK t \in S : TRUE
        BY DEF Deadlocked
    <2>2. PICK u \in S : u \in WaitsFor(t)
        BY DEF Deadlocked
    <2>3. PICK v \in S : v \in WaitsFor(u)
        BY DEF Deadlocked
    <2>4. PICK x \in S : x \in WaitsFor(v)
        BY DEF Deadlocked
    <2>5. userLock[u] # {}
        BY <2>2, WaitersHoldNothing
    <2>6. pc[v] = "commit"
        BY <2>3, <2>5, WaitersHoldNothing
    <2> QED
        BY <2>4, <2>6 DEF WaitsFor
<1>3. IInv /\ UserRowFirst /\ [Next]_vars => UserRowFirst'
    BY OrderStep DEF IInv
<1> QED
    BY <1>1, <1>2, <1>3, LedgerInvariant, PTL DEF Spec
=============================================================================
