---------------------------- MODULE CreditLedger ----------------------------
(***************************************************************************)
(* One user's credit ledger and the database transactions that touch it,   *)
(* one action per SQL statement.                                           *)
(*                                                                         *)
(* The ledger is append-only; the model keeps its committed SUM(delta) per *)
(* credit kind (balance) and the idempotency keys in its partial UNIQUE    *)
(* index (keyed).  users.credit_balance is a cache of the free kind's sum  *)
(* (cache).  A transaction runs at READ COMMITTED: its reads see what is   *)
(* committed plus its own row.                                             *)
(*                                                                         *)
(* Row locks are PostgreSQL's.  On the users row: "key" (FOR KEY SHARE,    *)
(* taken by the foreign-key check of an INSERT into the ledger), "write"   *)
(* (an UPDATE of a non-key column) and "all" (SELECT ... FOR UPDATE).  On  *)
(* the ledger rows of a kind: "share" and "update".                        *)
(***************************************************************************)
EXTENDS Integers, FiniteSets

CONSTANTS
    Txns,       \* database transactions (one per request)
    Kinds,      \* credit kinds
    Free,       \* the kind that users.credit_balance caches
    Amounts,    \* how many credits one request moves
    Events,     \* Stripe event ids
    NoEvent,    \* the request carries no event id
    Requests,   \* the requests that may arrive
    MaxInit,    \* bound: largest balance to start from
    MaxCrashes  \* bound: how many transactions may be cut off

VARIABLES
    balance,    \* committed SUM(delta) of each kind
    revoked,    \* the part of it taken by committed admin_revoke rows
    cache,      \* committed users.credit_balance
    verified,   \* committed: users.email_verified_at is set
    keyed,      \* credits committed under each (stripe_event_id, credit_kind)
    pc,         \* the statement a transaction is about to run
    req,        \* the request it serves
    seen,       \* the User object in its session: cache and verified as loaded
    sum,        \* the balance its check read
    row,        \* delta of its own uncommitted ledger row, 0 when it has none
    fresh,      \* the value it computed for users.credit_balance
    put,        \* the users.credit_balance it has written, uncommitted
    userLock,   \* the locks it holds on the users row
    rowLock,    \* the lock it holds on the ledger rows of its kind
    crashes     \* how many transactions have been cut off

shared == <<balance, revoked, cache, verified, keyed>>
private == <<req, seen, sum, row, fresh, put>>
vars == <<balance, revoked, cache, verified, keyed, pc, req, seen, sum, row,
          fresh, put, userLock, rowLock, crashes>>

Ops == {"grant", "consume", "deduct", "revoke", "reverse", "heal"}
Request == [op : Ops, kind : Kinds, amount : Amounts, event : Events \cup {NoEvent}]

ASSUME LedgerAssumption ==
    /\ Free \in Kinds
    /\ Amounts \subseteq Nat \ {0}
    /\ NoEvent \notin Events
    /\ Requests \subseteq Request
    /\ \A q \in Requests : q.event # NoEvent => q.op = "grant"
    /\ \A q \in Requests : q.op = "consume" => q.amount = 1
    /\ \A q \in Requests : q.op \in {"deduct", "reverse", "heal"} => q.kind = Free
    /\ MaxInit \in Nat
    /\ MaxCrashes \in Nat

Statements == {"idle", "lockUser", "lockRows", "shareRows", "check", "insert",
               "refresh", "write", "commit", "done"}
NoPut == -1
NonNegDropped(n) == n
NonNeg(n) == IF n > 0 THEN n ELSE 0
Spends == {"consume", "deduct"}
Takes == Spends \cup {"revoke"}
Delta(q) == IF q.op \in Takes THEN -q.amount ELSE q.amount

(***************************************************************************)
(* Locks                                                                   *)
(***************************************************************************)
UserModes == {"key", "write", "all"}
UserConflicts(m) == CASE m = "key" -> {"all"}
                      [] m = "write" -> {"write", "all"}
                      [] m = "all" -> UserModes
RowConflicts(m) == IF m = "share" THEN {"update"} ELSE {"share", "update"}

\* The transactions that keep t from taking mode m on the users row.
UserBlockers(t, m) ==
    {u \in Txns \ {t} : userLock[u] \cap UserConflicts(m) # {}}

\* The transactions that keep t from taking mode m on the ledger rows of its kind.
RowBlockers(t, m) ==
    {u \in Txns \ {t} : /\ req[u].kind = req[t].kind
                        /\ rowLock[u] \in RowConflicts(m)}

\* A committed row holds the idempotency key of t's row.
KeyTaken(t) == req[t].event # NoEvent /\ keyed[<<req[t].event, req[t].kind>>] # 0

KeyBlockersIgnored(t) == {}

\* The transactions whose uncommitted row holds the idempotency key of t's row.
KeyBlockers(t) ==
    {u \in Txns \ {t} : /\ row[u] # 0
                        /\ req[u].event # NoEvent
                        /\ req[u].event = req[t].event
                        /\ req[u].kind = req[t].kind}

FirstStatementReadFirst(q) ==
    CASE q.op \in Spends -> "lockUser"
      [] q.op \in {"heal", "grant"} -> "shareRows"
      [] q.op = "revoke" -> "check"
      [] q.op = "reverse" -> "insert"

FirstStatement(q) ==
    CASE q.op \in Spends -> "lockUser"
      [] q.op = "heal" -> "shareRows"
      [] q.op = "revoke" -> "check"
      [] q.op \in {"grant", "reverse"} -> "insert"

\* grant_credit, consume_credit and the admin's revoke refresh the cache after
\* a free row; the Flint deduction writes balance - cost without reading again;
\* the refund's reversal leaves the cache alone.
AfterInsert(q) ==
    CASE q.op = "reverse" \/ q.kind # Free -> "commit"
      [] q.op = "deduct" -> "write"
      [] OTHER -> "refresh"

\* Each request that changes the ledger arrives once; the read that heals the
\* cache is repeated for as long as the front end polls.
AfterEnd(q) == IF q.op = "heal" THEN "idle" ELSE "done"

(***************************************************************************)
(* Statements                                                              *)
(***************************************************************************)
\* Balances are integers, the cache and what is written to it are never negative, and
\* every transaction is at a statement with locks of the right kinds.
TypeOK ==
    /\ balance \in [Kinds -> Int]
    /\ revoked \in [Kinds -> Nat]
    /\ cache \in Nat
    /\ verified \in BOOLEAN
    /\ keyed \in [Events \X Kinds -> Nat]
    /\ pc \in [Txns -> Statements]
    /\ req \in [Txns -> Requests]
    /\ seen \in [Txns -> [cache : Nat, verified : BOOLEAN]]
    /\ sum \in [Txns -> Int]
    /\ row \in [Txns -> Int]
    /\ fresh \in [Txns -> Nat]
    /\ put \in [Txns -> Nat \cup {NoPut}]
    /\ userLock \in [Txns -> SUBSET UserModes]
    /\ rowLock \in [Txns -> {"none", "share", "update"}]
    /\ crashes \in 0..MaxCrashes

Blank == [cache |-> 0, verified |-> FALSE]

Init ==
    /\ balance \in [Kinds -> 0..MaxInit]
    /\ revoked = [k \in Kinds |-> 0]
    /\ cache = balance[Free]
    /\ verified \in BOOLEAN
    /\ keyed = [key \in Events \X Kinds |-> 0]
    /\ pc = [t \in Txns |-> "idle"]
    /\ req \in [Txns -> Requests]
    /\ seen = [t \in Txns |-> Blank]
    /\ sum = [t \in Txns |-> 0]
    /\ row = [t \in Txns |-> 0]
    /\ fresh = [t \in Txns |-> 0]
    /\ put = [t \in Txns |-> NoPut]
    /\ userLock = [t \in Txns |-> {}]
    /\ rowLock = [t \in Txns |-> "none"]
    /\ crashes = 0

Goto(t, s) == pc' = [pc EXCEPT ![t] = s]

\* Ending a transaction drops its locks and its uncommitted writes.
Release(t, s) ==
    /\ Goto(t, s)
    /\ seen' = [seen EXCEPT ![t] = Blank]
    /\ sum' = [sum EXCEPT ![t] = 0]
    /\ row' = [row EXCEPT ![t] = 0]
    /\ fresh' = [fresh EXCEPT ![t] = 0]
    /\ put' = [put EXCEPT ![t] = NoPut]
    /\ userLock' = [userLock EXCEPT ![t] = {}]
    /\ rowLock' = [rowLock EXCEPT ![t] = "none"]
    /\ UNCHANGED req

\* The request loads the User object (get_current_user, _load_user_or_404,
\* _user_for_customer); the session never reads that row again.
Begin(t) ==
    /\ pc[t] = "idle"
    /\ Goto(t, FirstStatement(req[t]))
    /\ seen' = [seen EXCEPT ![t] = [cache |-> cache, verified |-> verified]]
    /\ UNCHANGED <<shared, req, sum, row, fresh, put, userLock, rowLock, crashes>>

LockUserForgotten(t) ==
    /\ pc[t] = "lockUser"
    /\ Goto(t, IF req[t].op = "consume" THEN "lockRows" ELSE "shareRows")
    /\ UNCHANGED <<shared, private, userLock, rowLock, crashes>>

\* SELECT id FROM users ... FOR UPDATE
LockUser(t) ==
    /\ pc[t] = "lockUser"
    /\ UserBlockers(t, "all") = {}
    /\ userLock' = [userLock EXCEPT ![t] = @ \cup {"all"}]
    /\ Goto(t, IF req[t].op = "consume" THEN "lockRows" ELSE "shareRows")
    /\ UNCHANGED <<shared, private, rowLock, crashes>>

\* SELECT id FROM credit_transactions ... FOR UPDATE
LockRows(t) ==
    /\ pc[t] = "lockRows"
    /\ RowBlockers(t, "update") = {}
    /\ rowLock' = [rowLock EXCEPT ![t] = "update"]
    /\ Goto(t, "check")
    /\ UNCHANGED <<shared, private, userLock, crashes>>

\* SELECT id FROM credit_transactions ... FOR SHARE (get_balance)
ShareRows(t) ==
    /\ pc[t] = "shareRows"
    /\ RowBlockers(t, "share") = {}
    /\ rowLock' = [rowLock EXCEPT ![t] = "share"]
    /\ Goto(t, "check")
    /\ UNCHANGED <<shared, private, userLock, crashes>>

\* The reasons to turn a request away after its SUM(delta) read b.
Locked(t, b) == req[t].kind = Free /\ b > 0 /\ ~seen[t].verified
RefusedAtZero(t, b) ==
    CASE req[t].op \in Spends -> Locked(t, b) \/ b <= 0
      [] req[t].op = "revoke" -> b - req[t].amount < 0
      [] OTHER -> FALSE
Refused(t, b) ==
    CASE req[t].op = "consume" -> Locked(t, b) \/ b <= 0
      [] req[t].op = "deduct" -> Locked(t, b) \/ b < req[t].amount
      [] req[t].op = "revoke" -> b - req[t].amount < 0
      [] OTHER -> FALSE

StaleWhenLow(t, b) == seen[t].cache < b

\* The loaded cache differs from the sum.
Stale(t, b) == seen[t].cache # b

\* SELECT SUM(delta), and the decision taken on it.
Check(t) ==
    LET b == balance[req[t].kind] IN
    /\ pc[t] = "check"
    /\ ~Refused(t, b)
    /\ sum' = [sum EXCEPT ![t] = b]
    /\ IF req[t].op = "heal"
       THEN /\ fresh' = [fresh EXCEPT ![t] = NonNeg(b)]
            /\ Goto(t, IF Stale(t, b) THEN "write" ELSE "commit")
       ELSE /\ Goto(t, "insert")
            /\ UNCHANGED fresh
    /\ UNCHANGED <<shared, req, seen, row, put, userLock, rowLock, crashes>>

\* The check raises: InsufficientCreditsError, CreditsLockedUntilVerification-
\* Error or the 400 of the revoke; the transaction rolls back.
Refuse(t) ==
    /\ pc[t] = "check"
    /\ Refused(t, balance[req[t].kind])
    /\ Release(t, "done")
    /\ UNCHANGED <<shared, crashes>>

\* INSERT INTO credit_transactions: waits for an uncommitted row with the same
\* key, and its foreign key takes FOR KEY SHARE on the users row.
Insert(t) ==
    /\ pc[t] = "insert"
    /\ ~KeyTaken(t)
    /\ KeyBlockers(t) = {}
    /\ UserBlockers(t, "key") = {}
    /\ row' = [row EXCEPT ![t] = Delta(req[t])]
    /\ userLock' = [userLock EXCEPT ![t] = @ \cup {"key"}]
    /\ fresh' = IF req[t].op = "deduct"
                THEN [fresh EXCEPT ![t] = NonNeg(sum[t] - req[t].amount)]
                ELSE fresh
    /\ Goto(t, AfterInsert(req[t]))
    /\ UNCHANGED <<shared, req, seen, sum, put, rowLock, crashes>>

\* The UNIQUE index refuses the row; the webhook handler rolls its savepoint
\* back and goes on without it.
DuplicateKey(t) ==
    /\ pc[t] = "insert"
    /\ KeyTaken(t)
    /\ Goto(t, "commit")
    /\ UNCHANGED <<shared, private, userLock, rowLock, crashes>>

\* _refresh_user_credit_balance_cache: FOR SHARE on the rows, then SUM(delta).
Refresh(t) ==
    /\ pc[t] = "refresh"
    /\ RowBlockers(t, "share") = {}
    /\ rowLock' = [rowLock EXCEPT ![t] = IF @ = "none" THEN "share" ELSE @]
    /\ fresh' = [fresh EXCEPT ![t] = NonNeg(balance[Free] + row[t])]
    /\ Goto(t, "write")
    /\ UNCHANGED <<shared, req, seen, sum, row, put, userLock, crashes>>

\* user.credit_balance = fresh; flush.  The ORM emits an UPDATE only when the
\* value differs from the one it loaded.
WriteCache(t) ==
    /\ pc[t] = "write"
    /\ IF fresh[t] = seen[t].cache
       THEN UNCHANGED <<put, userLock>>
       ELSE /\ UserBlockers(t, "write") = {}
            /\ userLock' = [userLock EXCEPT ![t] = @ \cup {"write"}]
            /\ put' = [put EXCEPT ![t] = fresh[t]]
    /\ Goto(t, "commit")
    /\ UNCHANGED <<shared, req, seen, sum, row, fresh, rowLock, crashes>>

\* COMMIT
Commit(t) ==
    /\ pc[t] = "commit"
    /\ balance' = [balance EXCEPT ![req[t].kind] = @ + row[t]]
    /\ revoked' = IF req[t].op = "revoke"
                  THEN [revoked EXCEPT ![req[t].kind] = @ - row[t]]
                  ELSE revoked
    /\ keyed' = IF row[t] # 0 /\ req[t].event # NoEvent
                THEN [keyed EXCEPT ![<<req[t].event, req[t].kind>>] = @ + row[t]]
                ELSE keyed
    /\ cache' = IF put[t] = NoPut THEN cache ELSE put[t]
    /\ Release(t, AfterEnd(req[t]))
    /\ UNCHANGED <<verified, crashes>>

Running(t) == pc[t] \notin {"idle", "done"}

\* The process or its connection dies: the database rolls back.
Crash(t) ==
    /\ Running(t)
    /\ crashes < MaxCrashes
    /\ crashes' = crashes + 1
    /\ Release(t, AfterEnd(req[t]))
    /\ UNCHANGED shared

\* The user follows the verification link.
VerifyEmail ==
    /\ ~verified
    /\ verified' = TRUE
    /\ UNCHANGED <<balance, revoked, cache, keyed, pc, private, userLock, rowLock, crashes>>

(***************************************************************************)
(* Waiting                                                                 *)
(***************************************************************************)
\* The transactions that t's next statement waits for.
WaitsFor(t) ==
    CASE pc[t] = "lockUser" -> UserBlockers(t, "all")
      [] pc[t] = "lockRows" -> RowBlockers(t, "update")
      [] pc[t] \in {"shareRows", "refresh"} -> RowBlockers(t, "share")
      [] pc[t] = "insert" /\ ~KeyTaken(t) ->
             KeyBlockers(t) \cup UserBlockers(t, "key")
      [] pc[t] = "write" /\ fresh[t] # seen[t].cache -> UserBlockers(t, "write")
      [] OTHER -> {}

\* A set of transactions each of which waits for another one of them.
Deadlocked(S) == S # {} /\ \A t \in S : WaitsFor(t) \cap S # {}

\* A cycle: no smaller part of it is deadlocked.
WaitCycle(S) == Deadlocked(S) /\ \A R \in SUBSET S : Deadlocked(R) => R = S

\* PostgreSQL's deadlock detector aborts one transaction of the cycle.
BreakDeadlock(t) ==
    /\ \E S \in SUBSET Txns : t \in S /\ WaitCycle(S)
    /\ Release(t, AfterEnd(req[t]))
    /\ UNCHANGED <<shared, crashes>>

Statement(t) ==
    \/ LockUser(t) \/ LockRows(t) \/ ShareRows(t)
    \/ Check(t) \/ Refuse(t)
    \/ Insert(t) \/ DuplicateKey(t)
    \/ Refresh(t) \/ WriteCache(t) \/ Commit(t)

Next ==
    \/ \E t \in Txns : Begin(t) \/ Statement(t) \/ BreakDeadlock(t) \/ Crash(t)
    \/ VerifyEmail

Spec == Init /\ [][Next]_vars

\* The server runs the statements it has begun.  A statement that waits for a row
\* lock is served in turn (PostgreSQL queues the waiters of a row, a newcomer
\* does not overtake them): strong fairness.  The database breaks deadlocks, and
\* the front end keeps asking for the balance.
Fairness ==
    \A t \in Txns :
        /\ SF_vars(Statement(t))
        /\ WF_vars(BreakDeadlock(t))
        /\ WF_vars(req[t].op = "heal" /\ Begin(t))

FairSpec == Spec /\ Fairness

(***************************************************************************)
(* Properties                                                              *)
(***************************************************************************)
\* A spend that has written its row is covered by what is committed, whatever
\* grants, claw-backs and other spends run beside it (consume_credit and
\* deduct_flint_credits decide on a SUM they read several statements earlier).
SpendCovered ==
    \A t \in Txns :
        req[t].op \in Spends /\ row[t] # 0 => balance[req[t].kind] + row[t] >= 0

\* The ledger never shows a negative balance.
NoOverdraft == \A k \in Kinds : balance[k] >= 0

\* Transactions wait for each other in a circle only when a read that heals the
\* cache is among them: it locks ledger rows before the users row, every other
\* request takes the users row first.
DeadlockNeedsHeal ==
    \A S \in SUBSET Txns : WaitCycle(S) => \E t \in S : req[t].op = "heal"

\* Once the writers are done, one reader that keeps polling brings the cache back
\* for good.
CacheHeals ==
    (\E t \in Txns : req[t].op = "heal") => <>[](cache = NonNeg(balance[Free]))

Bank == INSTANCE CreditBank WITH balance <- balance, revoked <- revoked, keyed <- keyed

\* The ledger is the bank: each committed transaction is one atomic operation
\* (grant_credit, consume_credit, deduct_flint_credits, the revoke and the reversal).
BankRefined == Bank!BankSpec

(***************************************************************************)
(* Claims the code does not keep                                           *)
(***************************************************************************)
\* Whenever no request is running, the cache agrees with the free ledger
\* (credits.py:234 "Keep users.credit_balance in sync"); refuted by
\* TLC (README, section 5).  With a revoke, NoOverdraft is refuted by
\* MCCreditLedger_overdraft.cfg.
CacheInSync ==
    (\A t \in Txns : ~Running(t)) => cache = NonNeg(balance[Free])
=============================================================================
