--------------------------------- MODULE TopUp ---------------------------------
(***************************************************************************)
(* The free credits a verified free account may claim when it has none     *)
(* left.  A claim is checked twice, the second time with the account's row *)
(* locked; what other accounts of the same device have claimed is read     *)
(* without locking them.                                                   *)
(***************************************************************************)
EXTENDS Integers, FiniteSets

CONSTANTS
    Accounts,
    Requests,
    Devices,    \* signup_device_fingerprint_hash values
    NoDevice,   \* an account without a fingerprint
    Nobody,
    MaxGrants   \* bound: credits granted to an account for another reason

\* What the modules that instantiate this one assume of its constants.
TopUpAssumption ==
    /\ NoDevice \notin Devices /\ Nobody \notin Accounts \cup Requests
    /\ MaxGrants \in Nat

Amount == 1     \* EXHAUSTION_TOP_UP_CREDITS, in credits of one use

VARIABLES
    device,     \* of each account
    paying,     \* tier is not free, or a subscription that is not expired
    balance,    \* committed free credits
    claims,     \* committed exhaustion_top_up rows
    grants,
    lock,       \* who has locked the users row
    req

vars == <<device, paying, balance, claims, grants, lock, req>>

Idle == [pc |-> "idle", account |-> Nobody]

Init ==
    /\ device \in [Accounts -> Devices \cup {NoDevice}]
    /\ paying = [a \in Accounts |-> FALSE]
    /\ balance = [a \in Accounts |-> 1]
    /\ claims = [a \in Accounts |-> 0]
    /\ grants = [a \in Accounts |-> 0]
    /\ lock = [a \in Accounts |-> Nobody]
    /\ req = [r \in Requests |-> Idle]

\* The users row is not locked by another transaction.
Free(a) == lock[a] = Nobody

\* consume_credit locks the users row.
Spend(a) ==
    /\ Free(a) /\ balance[a] > 0
    /\ balance' = [balance EXCEPT ![a] = @ - 1]
    /\ UNCHANGED <<device, paying, claims, grants, lock, req>>

\* grant_credit for another reason: the refresh of the cached balance waits for the row.
Grant(a) ==
    /\ Free(a) /\ grants[a] < MaxGrants
    /\ balance' = [balance EXCEPT ![a] = @ + 1]
    /\ grants' = [grants EXCEPT ![a] = @ + 1]
    /\ UNCHANGED <<device, paying, claims, lock, req>>

\* A subscription starts.
Subscribe(a) ==
    /\ ~paying[a]
    /\ paying' = [paying EXCEPT ![a] = TRUE]
    /\ UNCHANGED <<device, balance, claims, grants, lock, req>>

\* _top_up_already_used: by the account, or by one with its fingerprint
Used(a) ==
    \E b \in Accounts :
        /\ b = a \/ (device[a] # NoDevice /\ device[b] = device[a])
        /\ claims[b] > 0

Eligible(a) == ~paying[a] /\ balance[a] <= 0 /\ ~Used(a)

\* The route's own look, before any lock.
Ask(r, a) ==
    /\ req[r].pc = "idle" /\ Eligible(a)
    /\ req' = [req EXCEPT ![r] = [pc |-> "asked", account |-> a]]
    /\ UNCHANGED <<device, paying, balance, claims, grants, lock>>

\* grant_exhaustion_top_up: SELECT FOR UPDATE of the claimant's row
Lock(r) ==
    LET a == req[r].account IN
    /\ req[r].pc = "asked" /\ Free(a)
    /\ lock' = [lock EXCEPT ![a] = r]
    /\ req' = [req EXCEPT ![r].pc = "locked"]
    /\ UNCHANGED <<device, paying, balance, claims, grants>>

\* Eligible still: the row of the grant is written, and seen when the transaction commits.
Recheck(r) ==
    LET a == req[r].account IN
    /\ req[r].pc = "locked"
    /\ IF Eligible(a)
       THEN /\ req' = [req EXCEPT ![r].pc = "granted"]
            /\ UNCHANGED lock
       ELSE /\ req' = [req EXCEPT ![r] = Idle]
            /\ lock' = [lock EXCEPT ![a] = Nobody]
    /\ UNCHANGED <<device, paying, balance, claims, grants>>

Commit(r) ==
    LET a == req[r].account IN
    /\ req[r].pc = "granted"
    /\ claims' = [claims EXCEPT ![a] = @ + 1]
    /\ balance' = [balance EXCEPT ![a] = @ + Amount]
    /\ lock' = [lock EXCEPT ![a] = Nobody]
    /\ req' = [req EXCEPT ![r] = Idle]
    /\ UNCHANGED <<device, paying, grants>>

Next ==
    \/ \E a \in Accounts : Spend(a) \/ Grant(a) \/ Subscribe(a)
    \/ \E r \in Requests : \E a \in Accounts : Ask(r, a)
    \/ \E r \in Requests : Lock(r) \/ Recheck(r) \/ Commit(r)

Spec == Init /\ [][Next]_vars

(***************************************************************************)
(* What holds                                                              *)
(***************************************************************************)
TypeOK ==
    /\ device \in [Accounts -> Devices \cup {NoDevice}]
    /\ paying \in [Accounts -> BOOLEAN]
    /\ balance \in [Accounts -> Nat] /\ claims \in [Accounts -> Nat]
    /\ grants \in [Accounts -> 0 .. MaxGrants]
    /\ lock \in [Accounts -> Requests \cup {Nobody}]
    /\ req \in [Requests -> [pc : {"idle", "asked", "locked", "granted"},
                             account : Accounts \cup {Nobody}]]

\* An account claims once, however many of its requests run at the same time.
OncePerAccount == \A a \in Accounts : claims[a] <= 1

\* A top-up is added to an empty balance: credits granted between the route's look and
\* the lock are seen.
EmptyIfClaimed == \A a \in Accounts : claims'[a] > claims[a] => balance[a] = 0
OnlyWhenEmpty == [][EmptyIfClaimed]_vars

\* Why: a claim holds the row of its account from the second look on, and what that look
\* found stays so.
HeldSound ==
    \A r \in Requests :
        /\ req[r].pc # "idle" => req[r].account \in Accounts
        /\ req[r].pc \in {"locked", "granted"} => lock[req[r].account] = r
        /\ req[r].pc = "granted" => claims[req[r].account] = 0 /\ balance[req[r].account] = 0

TopUpInv == TypeOK /\ HeldSound /\ OncePerAccount

(***************************************************************************)
(* What holds while no two claims overlap, and not otherwise               *)
(***************************************************************************)
\* Of the accounts of one device one claims.
OncePerDevice ==
    \A a, b \in Accounts :
        a # b /\ device[a] # NoDevice /\ device[a] = device[b] => claims[a] + claims[b] <= 1

\* Why: nothing is claimed between the second look of the only request and its commit.
InTurnInv ==
    /\ TopUpInv /\ OncePerDevice
    /\ \A r \in Requests : req[r].pc = "granted" => ~Used(req[r].account)
=============================================================================
