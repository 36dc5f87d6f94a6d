------------------------------ MODULE ModelPins ------------------------------
(***************************************************************************)
(* Which model a pipeline step uses: rows of tier_step_llm_configs (a plan *)
(* and a step) over rows of step_llm_configs (the step for every plan),    *)
(* each table with a partial UNIQUE index on its active rows, and the two  *)
(* in-process caches that resolve_model reads instead of the tables.       *)
(* A request is one transaction of READ COMMITTED: it looks for the active *)
(* rows, locks them, retires them and inserts its own, refreshes the cache *)
(* from what it sees, its own writes included, and commits after that.     *)
(***************************************************************************)
EXTENDS Integers, Sequences, FiniteSets

CONSTANTS
    Requests,   \* administrators' requests
    MaxPins,    \* bound: rows ever inserted
    Overlap,    \* whether requests run at the same time
    Faults,     \* whether a request may fail after the cache was refreshed
    None

Plans == {"free", "pro"}
Everyone == "everyone"          \* the key of the pin for every plan
Keys == Plans \cup {Everyone}
Pins == 1 .. MaxPins

PinAssumption ==
    /\ MaxPins \in Nat \ {0} /\ Overlap \in BOOLEAN /\ Faults \in BOOLEAN
    /\ None \notin Keys

VARIABLES
    pin,        \* the committed rows: their key and whether they are active
    made,       \* rows inserted so far, rolled back or not
    cache,      \* _pins of the two caches
    asked       \* what each request is doing

vars == <<pin, made, cache, asked>>

Idle == [pc |-> "idle", op |-> "none", todo |-> <<>>, found |-> {}, off |-> {},
         on |-> {}, view |-> {}]

\* seed_step_llm_configs_if_empty: every step starts with a pin for every plan.
Init ==
    /\ pin = [p \in Pins |-> [key |-> IF p = 1 THEN Everyone ELSE None, active |-> p = 1]]
    /\ made = 1
    /\ cache = [k \in Keys |-> IF k = Everyone THEN 1 ELSE None]
    /\ asked = [r \in Requests |-> Idle]

-----------------------------------------------------------------------------
Active(k) == {p \in Pins : pin[p].key = k /\ pin[p].active}
Others(r) == Requests \ {r}

\* What request r reads of key k: the committed rows and its own writes.
Seen(r, k) ==
    (Active(k) \ asked[r].off) \cup {w[2] : w \in {v \in asked[r].on : v[1] = k}}

\* The caches are dictionaries: of several rows of one key the last one read stays.
Cached(rows) == IF rows = {} THEN None ELSE CHOOSE p \in rows : TRUE

\* resolve_model: the pin of the plan, else the pin for every plan, else the default.
Resolve(pins, plan) == IF pins[plan] # None THEN pins[plan] ELSE pins[Everyone]
Used(plan) == Resolve(cache, plan)
\* admin_tier_step_llm_list: the same over the tables.
Shown(plan) == Resolve([k \in Keys |-> Cached(Active(k))], plan)

\* refresh_step_pin_cache for a pin for every plan, refresh_llm_pin_caches for the others.
Refreshed(r) == IF asked[r].op = "global" THEN {Everyone} ELSE Keys
View(r) == {<<k, Cached(Seen(r, k))>> : k \in Refreshed(r)}

Set(r, f, v) == asked' = [asked EXCEPT ![r] = [f EXCEPT !.pc = v]]

-----------------------------------------------------------------------------
(***************************************************************************)
(* The requests                                                            *)
(***************************************************************************)
Begin(r, op, todo) ==
    /\ asked[r].pc = "idle"
    /\ Overlap \/ \A o \in Others(r) : asked[o].pc = "idle"
    /\ op # "delete" => made + Len(todo) <= MaxPins
    /\ Set(r, [Idle EXCEPT !.op = op, !.todo = todo], "look")
    /\ UNCHANGED <<pin, made, cache>>

\* admin_step_llm_create.
CreateGlobal(r) == Begin(r, "global", <<Everyone>>)
\* admin_tier_step_llm_create: a pin of one step for several plans, in the request's order.
CreateTier(r) ==
    \E todo \in {<<"free">>, <<"pro">>, <<"free", "pro">>, <<"pro", "free">>} :
        Begin(r, "tier", todo)
\* admin_tier_step_llm_delete.
Delete(r) == \E plan \in Plans : Begin(r, "delete", <<plan>>)

\* The SELECT ... FOR UPDATE of the active rows of a key finds the committed ones.
Look(r) ==
    /\ asked[r].pc = "look"
    /\ Set(r, [asked[r] EXCEPT !.found = Active(Head(asked[r].todo))], "lock")
    /\ UNCHANGED <<pin, made, cache>>

\* It waits for rows another transaction retires, and keeps those still active.
MustWait(r) == {o \in Others(r) : asked[o].off \cap asked[r].found # {}}
Retired(r) == {p \in asked[r].found : pin[p].active}

Lock(r) ==
    /\ asked[r].pc = "lock" /\ MustWait(r) = {}
    /\ IF asked[r].op # "delete"
         THEN Set(r, [asked[r] EXCEPT !.off = @ \cup Retired(r)], "insert")
         ELSE IF Retired(r) = {}
           THEN asked' = [asked EXCEPT ![r] = Idle]
           ELSE Set(r, [asked[r] EXCEPT !.off = Retired(r), !.todo = <<>>], "refresh")
    /\ UNCHANGED <<pin, made, cache>>

\* The flush: the index makes it wait for other transactions' rows of the key, and fail
\* when another active row is there.
InsertWaits(r) ==
    {o \in Others(r) : \E k \in {Head(asked[r].todo)} :
        \/ Active(k) \cap asked[o].off # {}
        \/ \E w \in asked[o].on : w[1] = k}

Insert(r) ==
    LET k == Head(asked[r].todo) IN
    /\ asked[r].pc = "insert" /\ InsertWaits(r) = {}
    /\ IF Active(k) \subseteq asked[r].off
         THEN /\ made < MaxPins
              /\ made' = made + 1
              /\ Set(r, [asked[r] EXCEPT !.on = @ \cup {<<k, made + 1>>}, !.todo = Tail(@)],
                     IF Len(asked[r].todo) > 1 THEN "look" ELSE "refresh")
         ELSE asked' = [asked EXCEPT ![r] = Idle] /\ UNCHANGED made
    /\ UNCHANGED <<pin, cache>>

\* refresh_llm_pin_caches: the rows are read ...
Refresh(r) ==
    /\ asked[r].pc = "refresh"
    /\ Set(r, [asked[r] EXCEPT !.view = View(r)], "set")
    /\ UNCHANGED <<pin, made, cache>>

\* ... and the dictionaries are replaced when the request runs again.
SetCache(r) ==
    /\ asked[r].pc = "set"
    /\ cache' = [k \in Keys |-> IF \E v \in asked[r].view : v[1] = k
                                THEN (CHOOSE v \in asked[r].view : v[1] = k)[2]
                                ELSE cache[k]]
    /\ Set(r, asked[r], "commit")
    /\ UNCHANGED <<pin, made>>

\* get_db commits after the handler.
Commit(r) ==
    /\ asked[r].pc = "commit"
    /\ pin' = [p \in Pins |->
                 IF p \in asked[r].off THEN [pin[p] EXCEPT !.active = FALSE]
                 ELSE IF \E w \in asked[r].on : w[2] = p
                   THEN [key |-> (CHOOSE w \in asked[r].on : w[2] = p)[1], active |-> TRUE]
                   ELSE pin[p]]
    /\ asked' = [asked EXCEPT ![r] = Idle]
    /\ UNCHANGED <<made, cache>>

\* The audit row or the commit fails: everything is rolled back but the cache.
Fail(r) ==
    /\ Faults /\ asked[r].pc \in {"set", "commit"}
    /\ asked' = [asked EXCEPT ![r] = Idle]
    /\ UNCHANGED <<pin, made, cache>>

\* The process starts again: its requests are gone and lifespan loads the caches.
Restart ==
    /\ Faults
    /\ cache' = [k \in Keys |-> Cached(Active(k))]
    /\ asked' = [r \in Requests |-> Idle]
    /\ UNCHANGED <<pin, made>>

\* PostgreSQL ends one of the transactions that wait for each other.
Waits(r) ==
    IF asked[r].pc = "lock" THEN MustWait(r)
    ELSE IF asked[r].pc = "insert" THEN InsertWaits(r) ELSE {}
Deadlocked(r) ==
    \E ring \in SUBSET Requests :
        r \in ring /\ \A x \in ring : \E y, z \in ring : y \in Waits(x) /\ x \in Waits(z)

EndDeadlock(r) ==
    /\ Deadlocked(r)
    /\ asked' = [asked EXCEPT ![r] = Idle]
    /\ UNCHANGED <<pin, made, cache>>

Next ==
    \/ \E r \in Requests :
         \/ CreateGlobal(r) \/ CreateTier(r) \/ Delete(r)
         \/ Look(r) \/ Lock(r) \/ Insert(r) \/ Refresh(r) \/ SetCache(r) \/ Commit(r)
         \/ Fail(r) \/ EndDeadlock(r)
    \/ Restart

-----------------------------------------------------------------------------
TypeOK ==
    /\ pin \in [Pins -> [key : Keys \cup {None}, active : BOOLEAN]]
    /\ made \in Pins
    /\ cache \in [Keys -> Pins \cup {None}]
    /\ \A r \in Requests :
         /\ asked[r].pc \in {"idle", "look", "lock", "insert", "refresh", "set", "commit"}
         /\ asked[r].off \subseteq Pins /\ asked[r].found \subseteq Pins

\* Two requests that lock pins of several plans in opposite orders end in a deadlock;
\* nothing else does (admin_tier_llm.py 367-379, 484-498).
DeadlockNeedsTwoPlans ==
    \A r \in Requests : Deadlocked(r) =>
        Cardinality({w[1] : w \in asked[r].on} \cup {asked[r].todo[i] : i \in DOMAIN asked[r].todo}) > 1

\* A pin that is replaced is replaced by one: at no time two rows of a key are active, and
\* a plan whose pin is taken away again falls back to the pin for every plan, which always
\* is there (admin.py 1233-1262).
OnePin == (\A k \in Keys : Cardinality(Active(k)) <= 1) /\ Active(Everyone) # {}

(***************************************************************************)
(* What holds while no two requests overlap and none fails late            *)
(***************************************************************************)
\* The model the administrators' page shows for a plan is the one the pipeline uses.
UsedIsShown ==
    (\A r \in Requests : asked[r].pc = "idle") => \A plan \in Plans : Used(plan) = Shown(plan)

(***************************************************************************)
(* Why it holds: no two requests retire the same row or insert for the     *)
(* same key, and who inserts for a key retires every active row of it.     *)
(***************************************************************************)
Todos == {<<>>, <<Everyone>>, <<"free">>, <<"pro">>, <<"free", "pro">>, <<"pro", "free">>}
OnKeys(r) == {w[1] : w \in asked[r].on}
Todo(r) == {asked[r].todo[i] : i \in DOMAIN asked[r].todo}
Early == {"look", "lock", "insert"}
Late == {"refresh", "set", "commit"}
Ask == [pc : {"idle"} \cup Early \cup Late, op : {"none", "global", "tier", "delete"},
        todo : Todos, found : SUBSET Pins, off : SUBSET Pins, on : SUBSET (Keys \X Pins),
        view : SUBSET (Keys \X (Pins \cup {None}))]

Typed ==
    /\ pin \in [Pins -> [key : Keys \cup {None}, active : BOOLEAN]]
    /\ made \in Pins
    /\ cache \in [Keys -> Pins \cup {None}]
    /\ asked \in [Requests -> Ask]

\* What one request is about: its keys, each once, and no key of a plan beside Everyone.
AboutSound(r) ==
    /\ asked[r].pc = "idle" => asked[r] = Idle
    /\ asked[r].pc \in Early => asked[r].todo # <<>>
    /\ asked[r].pc \in Late => asked[r].todo = <<>>
    /\ OnKeys(r) \cap Todo(r) = {}
    /\ asked[r].op = "global" => OnKeys(r) \cup Todo(r) \subseteq {Everyone}
    /\ asked[r].op # "global" => OnKeys(r) \cup Todo(r) \subseteq Plans
    /\ asked[r].op = "delete" => asked[r].on = {} /\ asked[r].pc # "insert"
    /\ asked[r].pc = "look" => (asked[r].on = {} => asked[r].off = {})

\* The rows it retires are active and of keys it inserts for, or of a plan it deletes.
OffSound(r) ==
    /\ asked[r].pc = "lock" =>
         /\ \A p \in asked[r].found : pin[p].key = Head(asked[r].todo)
         /\ asked[r].on = {} => asked[r].off = {}
    /\ \A p \in asked[r].off :
         /\ pin[p].active
         /\ \/ pin[p].key \in OnKeys(r)
            \/ asked[r].pc = "insert" /\ pin[p].key = Head(asked[r].todo)
            \/ asked[r].op = "delete" /\ pin[p].key \in Plans

Unborn(p) == pin[p].key = None /\ ~pin[p].active

\* The rows it inserts are new, one for a key, and end with every active row of it.
OnSound(r) ==
    /\ \A w \in asked[r].on :
         /\ w[2] <= made /\ Unborn(w[2])
         /\ Active(w[1]) \subseteq asked[r].off
    /\ \A v, w \in asked[r].on : v[1] = w[1] \/ v[2] = w[2] => v = w

RequestsApart ==
    \A r \in Requests, o \in Requests : r # o =>
        /\ asked[r].off \cap asked[o].off = {}
        /\ \A v \in asked[r].on, w \in asked[o].on : v[1] # w[1] /\ v[2] # w[2]

PinsSound ==
    /\ \A p \in Pins : p > made => Unborn(p)
    /\ \A p \in Pins : pin[p].active => pin[p].key # None
    /\ \A p, q \in Pins : pin[p].active /\ pin[q].active /\ pin[p].key = pin[q].key => p = q
    /\ Active(Everyone) # {}

PinInv ==
    /\ Typed
    /\ \A r \in Requests : AboutSound(r) /\ OffSound(r) /\ OnSound(r)
    /\ RequestsApart /\ PinsSound

\* One request at a time: the caches hold what is committed, or what a request that has
\* refreshed them is about to commit.
CachedInTurn ==
    /\ \A r, o \in Requests : asked[r].pc # "idle" /\ asked[o].pc # "idle" => r = o
    /\ (\A r \in Requests : asked[r].pc # "commit") =>
         \A k \in Keys : cache[k] = Cached(Active(k))
    /\ \A r \in Requests :
         /\ asked[r].pc = "set" => asked[r].view = View(r)
         /\ asked[r].pc = "commit" => \A k \in Keys : cache[k] = Cached(Seen(r, k))

InTurnInv == PinInv /\ (~Overlap /\ ~Faults => CachedInTurn)
=============================================================================
