------------------------------ MODULE PlanDesk ------------------------------
(***************************************************************************)
(* The subscriptions of one user: what Stripe has, the rows the webhook    *)
(* keeps of it, the requests that buy, change, cancel, pause and resume,   *)
(* and the prices an administrator replaces meanwhile.  A request reads a  *)
(* row, calls Stripe about it and writes nothing: rows change by events    *)
(* only (subscription.py 259-276).  The events of one subscription are     *)
(* taken as arriving in order, their order being the subject of            *)
(* SubscriptionLifecycle: a pending event carries what Stripe has.         *)
(***************************************************************************)
EXTENDS Integers, FiniteSets, FiniteSetsExt

CONSTANTS
    Subs,           \* subscriptions Stripe can create for the user
    Requests,       \* the user's requests
    Codes,          \* plan codes on sale
    MaxPrice,       \* bound: prices ever made
    Env,            \* prices named by the environment's STRIPE_PRICE_ variables
    Overrides       \* plans an administrator overrides the user's with

PlanAssumption ==
    /\ MaxPrice \in Nat /\ IsFiniteSet(Subs)
    /\ Codes \subseteq {"monthly_pro", "monthly_premium", "best_monthly"}
    /\ Cardinality(Codes) <= MaxPrice /\ Env \subseteq 1 .. MaxPrice

Prices == 1 .. MaxPrice
NoPrice == 0

VARIABLES
    stripe,     \* Stripe's subscriptions
    row,        \* the rows of subscriptions, with the order they were inserted in
    pending,    \* subscriptions with an event on its way
    parked,     \* subscriptions whose last event was refused
    owner,      \* the code a price was made for
    sale,       \* the active plan_configs row of each code
    call,       \* a request between its read and its call to Stripe
    override    \* the tier override in force

vars == <<stripe, row, pending, parked, owner, sale, call, override>>

Absent == [status |-> "absent", born |-> 0, price |-> NoPrice, plan |-> "none", tier |-> "standard"]
NoSub == [status |-> "none", price |-> NoPrice, paused |-> FALSE, cancel |-> FALSE]
Idle == [op |-> "none", sub |-> "none", price |-> NoPrice]

Init ==
    /\ stripe = [s \in Subs |-> NoSub]
    /\ row = [s \in Subs |-> Absent]
    /\ pending = {} /\ parked = {}
    /\ \E order \in [Codes -> 1 .. Cardinality(Codes)] :
         /\ \A c, d \in Codes : order[c] = order[d] => c = d
         /\ sale = order
         /\ owner = [p \in Prices |-> IF \E c \in Codes : order[c] = p
                                      THEN CHOOSE c \in Codes : order[c] = p ELSE "none"]
    /\ call = [r \in Requests |-> Idle]
    /\ override = "none"

-----------------------------------------------------------------------------
(***************************************************************************)
(* Names of prices and plans of rows                                       *)
(***************************************************************************)
\* reverse_lookup_code: the active row of the price, else the environment.
Name(p) == IF (\E c \in Codes : sale[c] = p) \/ p \in Env THEN owner[p] ELSE "none"

\* _classify_code and the columns it fills: an add-on leaves the plan at its default.
PlanOf(code) == IF code = "best_monthly" THEN "monthly_pro" ELSE code
TierOf(code) == IF code = "best_monthly" THEN "best" ELSE "standard"

Entitled == {s \in Subs : row[s].status \in {"active", "cancelling"}}
Rows == {s \in Subs : row[s].status # "absent"}
Newest(set) == CHOOSE s \in set : \A o \in set : row[o].born <= row[s].born

\* resolve_plan_code_for_user: an override, else the newest entitled row by its price,
\* else by its columns, which know the interval only.
Plan ==
    IF override # "none" THEN override
    ELSE IF Entitled = {} THEN "free"
    ELSE LET s == Newest(Entitled) IN
         IF Name(row[s].price) # "none" THEN Name(row[s].price) ELSE "monthly_pro"

\* get_phase3_tier_status.
Tier == IF \E s \in Entitled : row[s].tier = "best" THEN "best" ELSE "standard"

-----------------------------------------------------------------------------
(***************************************************************************)
(* Buying                                                                  *)
(***************************************************************************)
\* create_checkout_session takes the price of the moment, and the user pays whenever: any
\* price there ever was may be in an open session.  Nobody asks for other subscriptions.
Pay(s) ==
    /\ stripe[s].status = "none"
    /\ \E p \in {q \in Prices : owner[q] # "none"} :
         stripe' = [stripe EXCEPT ![s] = [NoSub EXCEPT !.status = "active", !.price = p]]
    /\ pending' = pending \cup {s}
    /\ UNCHANGED <<row, parked, owner, sale, call, override>>

(***************************************************************************)
(* Requests about a subscription                                           *)
(***************************************************************************)
\* _entitled_subscription_for: cancel, resume, change-plan, pause (monthly plans only).
Choose(r, op, price) ==
    /\ call[r] = Idle /\ Entitled # {}
    /\ call' = [call EXCEPT ![r] = [op |-> op, sub |-> Newest(Entitled), price |-> price]]
    /\ UNCHANGED <<stripe, row, pending, parked, owner, sale, override>>

Cancel(r) == Choose(r, "cancel", NoPrice)
Resume(r) == Choose(r, "resume", NoPrice)
Pause(r) == Choose(r, "pause", NoPrice)
\* resolve_price_id for the new code, before the call.
ChangePlan(r) == \E c \in Codes : Choose(r, "change", sale[c])

\* unpause_subscription looks at the newest row, whatever its status.
Unpause(r) ==
    /\ call[r] = Idle /\ Rows # {}
    /\ row[Newest(Rows)].status \in {"paused", "active"}
    /\ call' = [call EXCEPT ![r] = [op |-> "unpause", sub |-> Newest(Rows), price |-> NoPrice]]
    /\ UNCHANGED <<stripe, row, pending, parked, owner, sale, override>>

\* stripe.Subscription.modify; Stripe refuses it for a subscription that has ended.
Modified(x, f) ==
    CASE f.op = "cancel"  -> [x EXCEPT !.cancel = TRUE]
      [] f.op = "resume"  -> [x EXCEPT !.cancel = FALSE]
      [] f.op = "pause"   -> [x EXCEPT !.paused = TRUE]
      [] f.op = "unpause" -> [x EXCEPT !.paused = FALSE]
      [] f.op = "change"  -> [x EXCEPT !.price = f.price]

Modify(r) ==
    LET f == call[r] IN
    /\ f # Idle
    /\ IF stripe[f.sub].status = "active"
         THEN /\ stripe' = [stripe EXCEPT ![f.sub] = Modified(@, f)]
              /\ pending' = pending \cup {f.sub}
         ELSE UNCHANGED <<stripe, pending>>
    /\ call' = [call EXCEPT ![r] = Idle]
    /\ UNCHANGED <<row, parked, owner, sale, override>>

\* Stripe by itself: the end of a period or of a pause.
PeriodEnds(s) ==
    /\ stripe[s].status = "active"
    /\ \/ stripe[s].cancel /\ stripe' = [stripe EXCEPT ![s].status = "canceled"]
       \/ stripe[s].paused /\ stripe' = [stripe EXCEPT ![s].paused = FALSE]
    /\ pending' = pending \cup {s}
    /\ UNCHANGED <<row, parked, owner, sale, call, override>>

(***************************************************************************)
(* The webhook                                                             *)
(***************************************************************************)
StatusOfUnpaused(x) ==
    IF x.status = "canceled" THEN "expired" ELSE IF x.cancel THEN "cancelling" ELSE "active"
StatusOf(x) ==
    IF x.status = "canceled" THEN "expired"
    ELSE IF x.paused THEN "paused" ELSE IF x.cancel THEN "cancelling" ELSE "active"

\* handle_subscription_created, _updated, _deleted.  A price nobody can name is refused
\* and with it the whole event; the deletion does not look at the price.  An update keeps
\* the tier unless the new price is an add-on's.
Sync(s) ==
    LET x == stripe[s]
        code == Name(x.price)
        tier == IF row[s].status = "absent" \/ TierOf(code) # "standard"
                THEN TierOf(code) ELSE row[s].tier IN
    /\ s \in pending
    /\ pending' = pending \ {s}
    /\ IF x.status = "canceled"
         THEN /\ row' = IF row[s].status = "absent" THEN row
                        ELSE [row EXCEPT ![s].status = "expired"]
              /\ parked' = parked \ {s}
       ELSE IF code = "none"
         THEN parked' = parked \cup {s} /\ UNCHANGED row
         ELSE /\ row' = [row EXCEPT ![s] =
                           [status |-> StatusOf(x), price |-> x.price, plan |-> PlanOf(code),
                            born |-> IF @.born = 0 THEN 1 + Max({row[o].born : o \in Subs})
                                     ELSE @.born,
                            tier |-> tier]]
              /\ parked' = parked \ {s}
    /\ UNCHANGED <<stripe, owner, sale, call, override>>

(***************************************************************************)
(* Administrators                                                          *)
(***************************************************************************)
\* admin_plans_create: a new price for a code.
Replace(c) ==
    /\ \E p \in Prices : owner[p] = "none"
    /\ LET p == Min({q \in Prices : owner[q] = "none"}) IN
         owner' = [owner EXCEPT ![p] = c] /\ sale' = [sale EXCEPT ![c] = p]
    /\ UNCHANGED <<stripe, row, pending, parked, call, override>>

\* admin_grants_create (tier_override, its plan_code unchecked), its end and revocation.
Override ==
    /\ override' \in Overrides \cup {"none"} /\ override' # override
    /\ UNCHANGED <<stripe, row, pending, parked, owner, sale, call>>

Next ==
    \/ Override
    \/ \E s \in Subs : Pay(s) \/ PeriodEnds(s) \/ Sync(s)
    \/ \E r \in Requests :
         Cancel(r) \/ Resume(r) \/ Pause(r) \/ ChangePlan(r) \/ Unpause(r) \/ Modify(r)
    \/ \E c \in Codes : Replace(c)

-----------------------------------------------------------------------------
Stripes == [status : {"none", "active", "canceled"}, price : 0 .. MaxPrice,
            paused : BOOLEAN, cancel : BOOLEAN]
RowsOf == [status : {"absent", "active", "paused", "cancelling", "expired"},
           born : 0 .. Cardinality(Subs), price : 0 .. MaxPrice,
           plan : Codes \cup {"none", "monthly_pro"}, tier : {"standard", "best"}]

TypeOK ==
    /\ stripe \in [Subs -> Stripes] /\ row \in [Subs -> RowsOf]
    /\ pending \subseteq Subs /\ parked \subseteq Subs
    /\ sale \in [Codes -> Prices]

Charged == {s \in Subs : stripe[s].status = "active" /\ ~stripe[s].paused}
Settled == pending = {}

\* Once its events are in, who is charged for a plan is served a plan, and one of those
\* paid for, unless an administrator says otherwise.  It holds as long as the table or the
\* environment still names every price somebody pays (price_resolver.py 115-138).
PaidIsServed ==
    Settled /\ (\A s \in Charged : Name(stripe[s].price) # "none") /\ parked = {} =>
        /\ Charged = Entitled
        /\ Charged # {} /\ override = "none" =>
             Plan \in {Name(stripe[s].price) : s \in Charged}

\* Nobody is served a plan without paying for one, but for events on their way.
ServedIsPaid ==
    \A s \in Entitled : s \notin pending \cup parked => s \in Charged

\* While each code has had one price change at most since the environment was written, no
\* event of a subscription is refused.
NoneParked == parked = {}

(***************************************************************************)
(* Why it holds: a row that has no event on its way, or none refused, says *)
(* what Stripe has, and rows are born one after the other.  A price that   *)
(* was made is named while only the last one made is outside the           *)
(* environment.                                                            *)
(***************************************************************************)
RowsSound ==
    \A s \in Subs \ (pending \cup parked) :
        /\ stripe[s].status = "none" => row[s].status = "absent"
        /\ stripe[s].status = "canceled" => row[s].status \in {"absent", "expired"}
        /\ stripe[s].status = "active" =>
             row[s].status = StatusOf(stripe[s]) /\ row[s].price = stripe[s].price

BirthsSound ==
    /\ \A s \in Subs : row[s].born = 0 <=> row[s].status = "absent"
    /\ {row[s].born : s \in Rows} = 1 .. Cardinality(Rows)

Typed ==
    /\ TypeOK
    /\ owner \in [Prices -> Codes \cup {"none"}]
    /\ call \in [Requests -> [op : {"none", "cancel", "resume", "pause", "unpause", "change"},
                              sub : Subs \cup {"none"}, price : 0 .. MaxPrice]]
    /\ \A r \in Requests : call[r] # Idle => call[r].op # "none" /\ call[r].sub \in Subs
    /\ \A s \in pending : stripe[s].status # "none"

PlanInv == Typed /\ RowsSound /\ BirthsSound

\* The environment names the prices of the beginning, and one may be made after that.
OneChange == Env = 1 .. Cardinality(Codes) /\ MaxPrice = Cardinality(Codes) + 1

PricesSound ==
    /\ \A c \in Codes : owner[sale[c]] # "none"
    /\ \A r \in Requests : call[r].op = "change" =>
         call[r].price \in Prices /\ owner[call[r].price] # "none"
    /\ \A s \in Subs : stripe[s].status = "active" =>
         stripe[s].price \in Prices /\ owner[stripe[s].price] # "none"
    /\ owner[MaxPrice] # "none" =>
         (\E c \in Codes : sale[c] = MaxPrice) /\ \A p \in Prices : owner[p] # "none"

PricedInv == PlanInv /\ PricesSound /\ NoneParked

(***************************************************************************)
(* Claims the code does not keep                                           *)
(***************************************************************************)
\* A cancellation ends what the user is charged (with two subscriptions it ends one).
CancelsAll ==
    (\E s \in Charged : stripe[s].cancel) => \A s \in Charged : stripe[s].cancel

\* A paused subscription can be resumed (subscription.py 325).
PausedIsReachable ==
    Settled => \A s \in Rows : row[s].status = "paused" => s = Newest(Rows)

\* A premium tier is paid for (webhook_handler.py 383 never takes one back).
TierIsPaidFor ==
    Settled /\ Tier = "best" => \E s \in Charged : Name(stripe[s].price) = "best_monthly"

\* A plan in force is one that has limits (tier_limits_lookup.py 38 raises otherwise).
PlanIsKnown == Plan # "unknown"
=============================================================================
