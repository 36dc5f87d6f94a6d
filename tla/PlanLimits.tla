----------------------------- MODULE PlanLimits -----------------------------
(***************************************************************************)
(* The settings an administrator replaces by a new row and never edits     *)
(* away: tier_limits_config (what a plan allows) and plan_configs (what it *)
(* costs).  No index keeps two rows of a plan from being active.  Writers  *)
(* lock the active rows they find, retire them and insert theirs with the  *)
(* time their request began; readers take the newest active row, or the    *)
(* seed.  The free grant changes the two amounts of the free plan and      *)
(* copies the rest from a row it read before it locked anything.  A PATCH  *)
(* changes one row, and may set its is_active either way.                  *)
(***************************************************************************)
EXTENDS Integers, FiniteSets, FiniteSetsExt

CONSTANTS
    Requests,   \* administrators' requests
    MaxRows,    \* bound: rows ever inserted
    Amounts,    \* amounts an administrator enters (free grant, price)
    Terms,      \* values of everything else
    SeedAmount, SeedTerms,
    Overlap     \* whether requests run at the same time

LimitAssumption ==
    MaxRows \in Nat \ {0} /\ Overlap \in BOOLEAN
    /\ SeedAmount \in Amounts /\ SeedTerms \in Terms

Rows == 1 .. MaxRows
NoRow == 0

VARIABLES
    rows,       \* the committed rows
    time,       \* requests begun, their created_at
    edit,       \* what each request is doing
    newest      \* the row the last successful creation inserted

vars == <<rows, time, edit, newest>>

Unused == [state |-> "unused", at |-> 0, amount |-> SeedAmount, terms |-> SeedTerms,
           ended |-> FALSE]
Idle == [pc |-> "idle", op |-> "none", at |-> 0, amount |-> SeedAmount,
         terms |-> SeedTerms, found |-> {}]

Init ==
    /\ \E filled \in BOOLEAN :
         rows = [n \in Rows |-> IF filled /\ n = 1 THEN [Unused EXCEPT !.state = "active"]
                                ELSE Unused]
    /\ time = 0
    /\ edit = [r \in Requests |-> Idle]
    /\ newest = NoRow

-----------------------------------------------------------------------------
Active == {n \in Rows : rows[n].state = "active"}
Newest(set) == CHOOSE n \in set : \A o \in set : rows[o].at <= rows[n].at

\* get_active_tier_limits: the newest active row, else the seed.
Current == IF Active = {} THEN Unused ELSE rows[Newest(Active)]

\* resolve_price_id asks for more than reverse_lookup_code: an active row whose
\* effective_to is not past.  With no such row the price of the environment is sold.
Sold == {n \in Active : ~rows[n].ended}

Busy(r) == edit[r].pc # "idle"
Locked(r) == IF edit[r].pc = "commit" THEN edit[r].found ELSE {}
Free(r, set) == \A o \in Requests \ {r} : Locked(o) \cap set = {}
Step(r, f, pc) == edit' = [edit EXCEPT ![r] = [f EXCEPT !.pc = pc]]

-----------------------------------------------------------------------------
Begin(r, op, amount, terms, pc) ==
    /\ ~Busy(r) /\ (Overlap \/ \A o \in Requests : ~Busy(o))
    /\ \E n \in Rows : rows[n].state = "unused"
    /\ time < 2 * MaxRows
    /\ time' = time + 1
    /\ Step(r, [Idle EXCEPT !.op = op, !.at = time + 1, !.amount = amount, !.terms = terms], pc)
    /\ UNCHANGED <<rows, newest>>

\* admin_tier_limits_create, admin_plans_create.
Create(r) == \E a \in Amounts, t \in Terms : Begin(r, "create", a, t, "look")

\* admin_free_grant_patch reads the template first.
Grant(r) == \E a \in Amounts : Begin(r, "grant", a, Current.terms, "look")

\* The rows the SELECT ... FOR UPDATE finds active.
Look(r) ==
    /\ edit[r].pc = "look"
    /\ Step(r, [edit[r] EXCEPT !.found = Active], "lock")
    /\ UNCHANGED <<rows, time, newest>>

\* It waits for the transactions that hold them, and keeps those still active.
StillActive(r) == edit[r].found \cap Active
Retires(r) == edit[r].found

Lock(r) ==
    /\ edit[r].pc = "lock" /\ Free(r, edit[r].found)
    /\ Step(r, [edit[r] EXCEPT !.found = StillActive(r)], "commit")
    /\ UNCHANGED <<rows, time, newest>>

\* The commit shows the retired rows and the new one.
Commit(r) ==
    /\ edit[r].pc = "commit" /\ edit[r].op # "patch"
    /\ LET n == Min({m \in Rows : rows[m].state = "unused"}) IN
         /\ rows' = [m \in Rows |->
                       IF m = n
                         THEN [state |-> "active", at |-> edit[r].at, ended |-> FALSE,
                               amount |-> edit[r].amount, terms |-> edit[r].terms]
                       ELSE IF m \in Retires(r)
                         THEN [rows[m] EXCEPT !.state = "retired", !.ended = TRUE]
                         ELSE rows[m]]
         /\ newest' = n
    /\ edit' = [edit EXCEPT ![r] = Idle]
    /\ UNCHANGED time

\* admin_tier_limits_update, admin_plans_update: one row, under its lock.
Patch(r) ==
    \E n \in Rows :
      /\ ~Busy(r) /\ (Overlap \/ \A o \in Requests : ~Busy(o))
      /\ rows[n].state # "unused" /\ Free(r, {n})
      /\ \/ \E t \in Terms : rows' = [rows EXCEPT ![n].terms = t]
         \/ rows' = [rows EXCEPT ![n].state = "active"]
         \/ rows' = [rows EXCEPT ![n].state = "retired", ![n].ended = TRUE]
      /\ UNCHANGED <<time, edit, newest>>

Next == \E r \in Requests : Create(r) \/ Grant(r) \/ Look(r) \/ Lock(r) \/ Commit(r) \/ Patch(r)

-----------------------------------------------------------------------------
TypeOK ==
    /\ rows \in [Rows -> [state : {"unused", "active", "retired"}, at : 0 .. 2 * MaxRows,
                          amount : Amounts, terms : Terms, ended : BOOLEAN]]
    /\ time \in 0 .. 2 * MaxRows
    /\ \A r \in Requests :
         edit[r].pc \in {"idle", "look", "lock", "commit"} /\ edit[r].found \subseteq Rows

(***************************************************************************)
(* What holds while requests come one at a time                            *)
(***************************************************************************)
\* A new row puts every older one out of force, however many were active before it, and
\* is the one in force.
NewInForce ==
    newest' # newest => {n \in Rows : rows'[n].state = "active"} = {newest'}

\* The free grant changes the amounts of the free plan and nothing else.
TermsKept ==
    \A r \in Requests :
        edit[r].op = "grant" /\ edit[r].pc = "commit" /\ edit'[r].pc = "idle" =>
            rows'[newest'].terms = Current.terms

\* Why: nothing else moves while a request is under way, so what it has found or copied is
\* what there is when it commits.
Rests ==
    /\ rows \in [Rows -> [state : {"unused", "active", "retired"}, at : 0 .. 2 * MaxRows,
                          amount : Amounts, terms : Terms, ended : BOOLEAN]]
    /\ time \in 0 .. 2 * MaxRows
    /\ edit \in [Requests -> [pc : {"idle", "look", "lock", "commit"},
                              op : {"none", "create", "grant"}, at : 0 .. 2 * MaxRows,
                              amount : Amounts, terms : Terms, found : SUBSET Rows]]
    /\ newest \in Rows \cup {NoRow}

AloneInTurn ==
    \A r \in Requests : Busy(r) =>
        /\ \A o \in Requests : Busy(o) => o = r
        /\ edit[r].pc \in {"lock", "commit"} => edit[r].found = Active
        /\ edit[r].op = "grant" => edit[r].terms = Current.terms
        /\ \E n \in Rows : rows[n].state = "unused"

NewestUsed == newest # NoRow => rows[newest].state # "unused"

LimitInv == Rests /\ AloneInTurn /\ NewestUsed

(***************************************************************************)
(* Claims the code does not keep                                           *)
(***************************************************************************)
\* Of the rows of a plan one is active (tier_limits_lookup.py 68: "the active admin row").
OneActive == Cardinality(Active) <= 1

\* A price that is active is sold.
ActiveIsSold == Active = Sold
=============================================================================
