------------------------------ MODULE MCBilling ------------------------------
(***************************************************************************)
(* Instances for TLC of the parts of billing that share no state with each *)
(* other.  A behaviour is about one of them, its scene; the variables of   *)
(* the others rest at 0.  A part that promises more while requests come    *)
(* one at a time has a second scene for that.                              *)
(***************************************************************************)
EXTENDS Integers, Sequences, FiniteSets, TLC, TLAPS, FiniteSetTheorems, WellFoundedInduction

CONSTANTS
    Two,        \* records, users or accounts
    Pair,       \* requests, of the scenes with two of them
    Trio,       \* requests, of the scenes with three
    d1, d2,     \* devices
    NoDevice, Nobody

VARIABLES
    scene,
    \* RefundDesk
    rid, trail, reversals, refunds, window, deskPc, deskJob, saw, new, deskLock,
    \* PromoCodes
    row, grantType, allowed, clock, redeemed, granted, sessions, codePaid,
    codeLock, codePc, codeJob, seen,
    \* QuotaMeter
    sub, period, used, credits, first, unlocked, busy, meterPc, meterJob,
    held, charge, count, meterPaid, since, answer, left,
    \* TopUp
    device, paying, balance, claims, grants, topLock, req,
    \* PlanDesk
    stripe, planRow, pending, parked, owner, sale, call, override,
    \* PlanLimits
    rows, time, edit, newest,
    \* ModelPins
    pin, made, cache, asked

deskVars == <<rid, trail, reversals, refunds, window, deskPc, deskJob, saw, new, deskLock>>
codeVars == <<row, grantType, allowed, clock, redeemed, granted, sessions, codePaid,
              codeLock, codePc, codeJob, seen>>
meterVars == <<sub, period, used, credits, first, unlocked, busy, meterPc, meterJob,
               held, charge, count, meterPaid, since, answer, left>>
topVars == <<device, paying, balance, claims, grants, topLock, req>>
planVars == <<stripe, planRow, pending, parked, owner, sale, call, override>>
limitVars == <<rows, time, edit, newest>>
pinVars == <<pin, made, cache, asked>>
vars == <<scene, deskVars, codeVars, meterVars, topVars, planVars, limitVars, pinVars>>

(***************************************************************************)
(* The instances.  Those a part has several scenes of take their constants *)
(* from a record: requests that overlap (Crowd) or come one at a time      *)
(* (Queue, OnlyOne), the subscriptions of two users or of one and the      *)
(* prices they pay, administrators whose requests overlap or do not.       *)
(***************************************************************************)
Crowd == [requests |-> Pair, overlap |-> TRUE]
Queue == [requests |-> Trio, overlap |-> FALSE]
OnlyOne == [requests |-> {"the only one"}]
TwoPlans == [subs |-> Two, codes |-> {"monthly_pro"}, prices |-> 2, env |-> {1},
             overrides |-> {}]
OnePlan == [subs |-> {"subscription"}, codes |-> {"monthly_pro", "best_monthly"}, prices |-> 3,
            env |-> {1, 2}, overrides |-> {"unknown"}]
ManyPins == [pins |-> 3, overlap |-> TRUE]
PinsInTurn == [pins |-> 4, overlap |-> FALSE]

Refunds == INSTANCE RefundDesk WITH
    Records <- Two, Workers <- Trio, pc <- deskPc, job <- deskJob, lock <- deskLock

Promos(cfg) == INSTANCE PromoCodes WITH
    Users <- Two, Requests <- cfg.requests, MaxLimit <- 2, Overlap <- cfg.overlap,
    paid <- codePaid, lock <- codeLock, pc <- codePc, job <- codeJob

Meter == INSTANCE QuotaMeter WITH
    Requests <- Pair, Ops <- {"resume", "fit", "letter", "interview", "coach", "submit",
                              "generate", "whisper", "save"},
    Limit <- 1, MaxCredits <- 1, MaxPeriod <- 2,
    pc <- meterPc, job <- meterJob, paid <- meterPaid

MeterOfThree == INSTANCE QuotaMeter WITH
    Requests <- Trio, Ops <- {"fit", "generate"},
    Limit <- 1, MaxCredits <- 1, MaxPeriod <- 1,
    pc <- meterPc, job <- meterJob, paid <- meterPaid

TopUps(cfg) == INSTANCE TopUp WITH
    Accounts <- Two, Requests <- cfg.requests, Devices <- {d1, d2}, MaxGrants <- 1,
    lock <- topLock

Plans(cfg) == INSTANCE PlanDesk WITH
    Subs <- cfg.subs, Requests <- {"request"}, Codes <- cfg.codes, MaxPrice <- cfg.prices,
    Env <- cfg.env, Overrides <- cfg.overrides, row <- planRow

Limits == INSTANCE PlanLimits WITH
    Requests <- {"request"}, MaxRows <- 3, Amounts <- {1, 2}, Terms <- {5, 6},
    SeedAmount <- 1, SeedTerms <- 5, Overlap <- FALSE

Pinning(cfg) == INSTANCE ModelPins WITH
    Requests <- Pair, MaxPins <- cfg.pins, Overlap <- cfg.overlap, Faults <- cfg.overlap,
    None <- Nobody

ASSUME BillingAssumption ==
    /\ Refunds!DeskAssumption
    /\ Promos(Crowd)!PromoAssumption /\ Promos(Queue)!PromoAssumption
    /\ Meter!QuotaAssumption /\ MeterOfThree!QuotaAssumption
    /\ TopUps(Crowd)!TopUpAssumption /\ TopUps(OnlyOne)!TopUpAssumption
    /\ Plans(TwoPlans)!PlanAssumption /\ Plans(OnePlan)!PlanAssumption
    /\ Limits!LimitAssumption
    /\ Pinning(ManyPins)!PinAssumption /\ Pinning(PinsInTurn)!PinAssumption

-----------------------------------------------------------------------------
DeskRests ==
    /\ rid = 0 /\ trail = 0 /\ reversals = 0 /\ refunds = 0 /\ window = 0
    /\ deskPc = 0 /\ deskJob = 0 /\ saw = 0 /\ new = 0 /\ deskLock = 0

CodeRests ==
    /\ row = 0 /\ grantType = 0 /\ allowed = 0 /\ clock = 0 /\ redeemed = 0
    /\ granted = 0 /\ sessions = 0 /\ codePaid = 0 /\ codeLock = 0 /\ codePc = 0
    /\ codeJob = 0 /\ seen = 0

MeterRests ==
    /\ sub = 0 /\ period = 0 /\ used = 0 /\ credits = 0 /\ first = 0
    /\ unlocked = 0 /\ busy = 0 /\ meterPc = 0 /\ meterJob = 0 /\ held = 0
    /\ charge = 0 /\ count = 0 /\ meterPaid = 0 /\ since = 0 /\ answer = 0 /\ left = 0

TopRests ==
    /\ device = 0 /\ paying = 0 /\ balance = 0 /\ claims = 0 /\ grants = 0
    /\ topLock = 0 /\ req = 0

PlanRests ==
    /\ stripe = 0 /\ planRow = 0 /\ pending = 0 /\ parked = 0 /\ owner = 0 /\ sale = 0
    /\ call = 0 /\ override = 0

LimitRests == rows = 0 /\ time = 0 /\ edit = 0 /\ newest = 0

PinRests == pin = 0 /\ made = 0 /\ cache = 0 /\ asked = 0

MoneyRests == DeskRests /\ CodeRests /\ MeterRests /\ TopRests
PricesRest == PlanRests /\ LimitRests /\ PinRests

Init ==
    \/ /\ PricesRest
       /\ \/ scene = "refunds" /\ Refunds!Init /\ CodeRests /\ MeterRests /\ TopRests
          \/ scene = "codes" /\ Promos(Crowd)!Init /\ DeskRests /\ MeterRests /\ TopRests
          \/ scene = "codes in turn" /\ Promos(Queue)!Init /\ DeskRests /\ MeterRests /\ TopRests
          \/ scene = "meter" /\ Meter!Init /\ DeskRests /\ CodeRests /\ TopRests
          \/ scene = "meter of three" /\ MeterOfThree!Init /\ DeskRests /\ CodeRests /\ TopRests
          \/ scene = "top-ups" /\ TopUps(Crowd)!Init /\ DeskRests /\ CodeRests /\ MeterRests
          \/ /\ scene = "top-ups in turn" /\ TopUps(OnlyOne)!Init
             /\ DeskRests /\ CodeRests /\ MeterRests
    \/ /\ MoneyRests
       /\ \/ scene = "plans of two" /\ Plans(TwoPlans)!Init /\ LimitRests /\ PinRests
          \/ scene = "plans of one" /\ Plans(OnePlan)!Init /\ LimitRests /\ PinRests
          \/ scene = "limits in turn" /\ Limits!Init /\ PlanRests /\ PinRests
          \/ scene = "pins" /\ Pinning(ManyPins)!Init /\ PlanRests /\ LimitRests
          \/ scene = "pins in turn" /\ Pinning(PinsInTurn)!Init /\ PlanRests /\ LimitRests

moneyVars == <<deskVars, codeVars, meterVars, topVars>>
priceVars == <<planVars, limitVars, pinVars>>

Next ==
    /\ UNCHANGED scene
    /\ \/ /\ UNCHANGED <<codeVars, meterVars, topVars, priceVars>>
          /\ scene = "refunds" /\ Refunds!Next
       \/ /\ UNCHANGED <<deskVars, meterVars, topVars, priceVars>>
          /\ \/ scene = "codes" /\ Promos(Crowd)!Next
             \/ scene = "codes in turn" /\ Promos(Queue)!Next
       \/ /\ UNCHANGED <<deskVars, codeVars, topVars, priceVars>>
          /\ \/ scene = "meter" /\ Meter!Next
             \/ scene = "meter of three" /\ MeterOfThree!Next
       \/ /\ UNCHANGED <<deskVars, codeVars, meterVars, priceVars>>
          /\ \/ scene = "top-ups" /\ TopUps(Crowd)!Next
             \/ scene = "top-ups in turn" /\ TopUps(OnlyOne)!Next
       \/ /\ UNCHANGED <<moneyVars, limitVars, pinVars>>
          /\ \/ scene = "plans of two" /\ Plans(TwoPlans)!Next
             \/ scene = "plans of one" /\ Plans(OnePlan)!Next
       \/ /\ UNCHANGED <<moneyVars, planVars, pinVars>>
          /\ scene = "limits in turn" /\ Limits!Next
       \/ /\ UNCHANGED <<moneyVars, planVars, limitVars>>
          /\ \/ scene = "pins" /\ Pinning(ManyPins)!Next
             \/ scene = "pins in turn" /\ Pinning(PinsInTurn)!Next

Spec == Init /\ [][Next]_vars

Symmetry == Permutations(Two) \cup Permutations(Pair) \cup Permutations(Trio)

-----------------------------------------------------------------------------
\* A refund record, its audit trail, the refunds Stripe made and the reversed credits
\* tell one story, whoever decides on the record at the same time, whatever Stripe
\* answers and wherever a request is cut off (refund.py 242-372).
RefundsTell ==
    scene = "refunds" =>
        Refunds!TypeOK /\ Refunds!TrailTells /\ Refunds!BooksTrue /\ Refunds!ReversedWithMoney

\* The redemptions of a code and its count: one per user, one grant for each, no count
\* that runs ahead, and no count that lags behind while requests come one at a time; an
\* account claims its top-up once, and of the accounts of one device one claims while
\* claims come one at a time (promo.py 116-214, promo_offers.py 213-268,
\* exhaustion_top_up.py 60-170).
GiftsSound ==
    /\ scene = "codes" =>
          /\ Promos(Crowd)!TypeOK /\ Promos(Crowd)!NoDuplicateError
          /\ Promos(Crowd)!GrantedOnce /\ Promos(Crowd)!CountNotAhead
    /\ scene = "codes in turn" => Promos(Queue)!TypeOK /\ Promos(Queue)!CountTrue
    /\ scene = "top-ups" => TopUps(Crowd)!TypeOK /\ TopUps(Crowd)!OncePerAccount
    /\ scene = "top-ups in turn" =>
          TopUps(OnlyOne)!TypeOK /\ TopUps(OnlyOne)!OncePerAccount
          /\ TopUps(OnlyOne)!OncePerDevice

\* What overlapping requests of one account are charged: each counter is the number of
\* charges that lasted and within the allowance, a charge goes with its result, two fit
\* analyses of one session do not run together, a free first story is given once, and no
\* deadlock is without a story request (quota.py 118-230, fit.py 220-330).
MeterSound ==
    /\ scene = "meter" =>
          /\ Meter!TypeOK /\ Meter!MeterTrue /\ Meter!ChargedWithResult /\ Meter!FitsApart
          /\ Meter!OneFirst /\ Meter!DeadlockNeedsStory
    /\ scene = "meter of three" =>
          /\ MeterOfThree!TypeOK /\ MeterOfThree!MeterTrue /\ MeterOfThree!ChargedWithResult
          /\ MeterOfThree!FitsApart /\ MeterOfThree!OneFirst
          /\ MeterOfThree!DeadlockNeedsStory

\* Once the events of his subscriptions are in, a user is served a plan he is charged for,
\* and served none without, as long as the table or the environment names the prices that
\* are paid; and with one price change no event is refused.  However administrators'
\* requests about models overlap or fail, a step has one active pin per plan and one for
\* every plan, and only requests about several plans deadlock; while they come one at a
\* time the pipeline uses the model the page shows (subscription.py 60-420,
\* webhook_handler.py 276-391, price_resolver.py 115-138, routers/admin_tier_llm.py
\* 300-590, routers/admin.py 1170-1290, llm/step_pin_cache.py).
PlansSound ==
    /\ scene = "plans of two" =>
          /\ Plans(TwoPlans)!TypeOK /\ Plans(TwoPlans)!PaidIsServed
          /\ Plans(TwoPlans)!ServedIsPaid /\ Plans(TwoPlans)!NoneParked
    /\ scene = "plans of one" =>
          /\ Plans(OnePlan)!TypeOK /\ Plans(OnePlan)!PaidIsServed
          /\ Plans(OnePlan)!ServedIsPaid /\ Plans(OnePlan)!NoneParked
    /\ scene = "limits in turn" => Limits!TypeOK
    /\ scene = "pins" =>
          /\ Pinning(ManyPins)!TypeOK /\ Pinning(ManyPins)!OnePin
          /\ Pinning(ManyPins)!DeadlockNeedsTwoPlans
    /\ scene = "pins in turn" => Pinning(PinsInTurn)!TypeOK /\ Pinning(PinsInTurn)!UsedIsShown

\* What no step of billing does: show a refunded record as pending or denied again, add
\* a redemption beyond the limit while requests come one at a time, top up a balance that
\* is not empty, leave an older row of limits or prices in force beside a new one, or change
\* more than the amounts by a free grant, requests coming one at a time (refund.py 302-372,
\* promo.py 142-160, exhaustion_top_up.py 120-150, admin_tier_limits.py, admin_free_grant.py).
BillingSteps ==
    [][/\ scene = "refunds" => Refunds!StillPaid
       /\ scene = "codes in turn" => Promos(Queue)!BelowLimit
       /\ scene = "top-ups" => TopUps(Crowd)!EmptyIfClaimed
       /\ scene = "top-ups in turn" => TopUps(OnlyOne)!EmptyIfClaimed
       /\ scene = "limits in turn" => Limits!NewInForce /\ Limits!TermsKept]_vars

-----------------------------------------------------------------------------
(***************************************************************************)
(* What is proved of a part for any constants holds of its scenes: a step  *)
(* of a scene is a step of its instance, and nothing else moves that       *)
(* instance's variables.  QuotaMeter holds the proofs about it; those      *)
(* about the other parts are below, one section for each, and the theorems *)
(* about all of them at the end.                                           *)
(***************************************************************************)
\* The steps of a behaviour of one scene.
LEMMA ScenesApart ==
    ASSUME [Next]_vars
    PROVE  /\ scene' = scene
           /\ scene = "refunds" => Refunds!Next \/ UNCHANGED deskVars
           /\ scene = "meter" => Meter!Next \/ UNCHANGED meterVars
           /\ scene = "meter of three" => MeterOfThree!Next \/ UNCHANGED meterVars
BY DEF Next, vars

\* A step in the scenes of a code, of the top-up, of plans, limits and pins is a step of the
\* scene's instance.
LEMMA CodeSteps ==
    ASSUME [Next]_vars
    PROVE  /\ scene = "codes" => [Promos(Crowd)!Next]_(Promos(Crowd)!vars)
           /\ scene = "codes in turn" => [Promos(Queue)!Next]_(Promos(Queue)!vars)
BY DEF Next, vars, codeVars, Promos!vars

LEMMA TopSteps ==
    ASSUME [Next]_vars
    PROVE  /\ scene = "top-ups" => [TopUps(Crowd)!Next]_(TopUps(Crowd)!vars)
           /\ scene = "top-ups in turn" => [TopUps(OnlyOne)!Next]_(TopUps(OnlyOne)!vars)
BY DEF Next, vars, topVars, TopUps!vars

LEMMA PlanSteps ==
    ASSUME [Next]_vars
    PROVE  /\ scene = "plans of two" => [Plans(TwoPlans)!Next]_(Plans(TwoPlans)!vars)
           /\ scene = "plans of one" => [Plans(OnePlan)!Next]_(Plans(OnePlan)!vars)
           /\ scene = "limits in turn" => [Limits!Next]_Limits!vars
           /\ scene = "pins" => [Pinning(ManyPins)!Next]_(Pinning(ManyPins)!vars)
           /\ scene = "pins in turn" => [Pinning(PinsInTurn)!Next]_(Pinning(PinsInTurn)!vars)
BY DEF Next, vars, planVars, limitVars, pinVars, Plans!vars, Limits!vars, Pinning!vars

\* In the scenes of the meter, QuotaMeter's invariant holds.
LEMMA MeterScenes ==
    Spec => []/\ scene = "meter" => Meter!MeterInv
              /\ scene = "meter of three" => MeterOfThree!MeterInv
<1> DEFINE Inv == /\ scene = "meter" => Meter!MeterInv
                  /\ scene = "meter of three" => MeterOfThree!MeterInv
<1>1. Init => Inv
    BY BillingAssumption, Meter!MeterStart, MeterOfThree!MeterStart DEF Init
<1>2. Inv /\ [Next]_vars => Inv'
  <2> SUFFICES ASSUME Inv, [Next]_vars PROVE Inv'
    OBVIOUS
  <2>1. /\ scene = "meter" => [Meter!Next]_Meter!vars
        /\ scene = "meter of three" => [MeterOfThree!Next]_MeterOfThree!vars
    BY ScenesApart
       DEF meterVars, Meter!vars, Meter!account, Meter!books, Meter!outcome, MeterOfThree!vars,
           MeterOfThree!account, MeterOfThree!books, MeterOfThree!outcome
  <2> QED BY <2>1, BillingAssumption, ScenesApart, Meter!MeterStep, MeterOfThree!MeterStep
<1> QED BY <1>1, <1>2, PTL DEF Spec

\* MeterSound (quota.py 118-230, fit.py 220-330) for any sets of requests.
THEOREM MeterAgrees == Spec => []MeterSound
<1> DEFINE Inv == /\ scene = "meter" => Meter!MeterInv
                  /\ scene = "meter of three" => MeterOfThree!MeterInv
<1>1. Meter!MeterInv => Meter!TypeOK /\ Meter!MeterTrue /\ Meter!OneFirst
    BY DEF Meter!MeterInv
<1>2. MeterOfThree!MeterInv =>
         MeterOfThree!TypeOK /\ MeterOfThree!MeterTrue /\ MeterOfThree!OneFirst
    BY DEF MeterOfThree!MeterInv
<1>3. Inv => MeterSound
    BY <1>1, <1>2, Meter!MeterClaims, MeterOfThree!MeterClaims DEF MeterSound
<1> QED BY <1>3, MeterScenes, PTL

-----------------------------------------------------------------------------
(***************************************************************************)
(* Sets of numbers have a smallest and, if bounded, a largest member.      *)
(***************************************************************************)
\* A nonempty set of naturals has a smallest one ...
LEMMA HasSmallest ==
    ASSUME NEW S, S \subseteq Nat, S # {}
    PROVE  \E y \in S : \A z \in S : y <= z
<1>1. \E y \in S : \A z \in S : ~(<<z, y>> \in OpToRel(<, Nat))
  BY NatLessThanWellFounded, WFMin
<1>2. PICK y \in S : \A z \in S : ~(z < y)
  BY <1>1 DEF OpToRel
<1>3. \A z \in S : y <= z
  BY <1>2
<1> QED BY <1>3

\* ... and a bounded one a largest.
LEMMA Biggest ==
    ASSUME NEW N \in Nat, NEW S, S \subseteq 0 .. N, S # {}
    PROVE  \E m \in S : \A x \in S : x <= m
<1> DEFINE T == {n \in Nat : \E x \in S : n + x = N}
<1>1. \A x \in S : x \in Int /\ 0 <= x /\ x <= N /\ N - x \in T
  OBVIOUS
<1>2. T \subseteq Nat /\ T # {}
  BY <1>1
<1> HIDE DEF T
<1>3. PICK y \in T : \A z \in T : y <= z
  BY <1>2, HasSmallest
<1>4. PICK m \in S : y + m = N /\ y \in Nat
  BY <1>2, <1>3 DEF T
<1>5. ASSUME NEW x \in S PROVE x <= m
  <2>1. x \in Int /\ m \in Int /\ N - x \in T
    BY <1>1
  <2>2. y <= N - x
    BY <1>3, <2>1
  <2> QED BY <1>4, <2>1, <2>2
<1> QED BY <1>5

-----------------------------------------------------------------------------
(***************************************************************************)
(* Refund records (RefundDesk), for any sets of records and requests: who  *)
(* decides on a record holds its row lock, so that what it saw is what the *)
(* row still says, and who creates one is alone with it.                   *)
(***************************************************************************)
\* The finite sets of the instance are those of FiniteSets.
LEMMA DeskSame ==
    ASSUME NEW S
    PROVE  /\ Refunds!IsFiniteSet(S) <=> IsFiniteSet(S)
           /\ Refunds!Cardinality(S) = Cardinality(S)
BY DEF Refunds!IsFiniteSet, IsFiniteSet, Refunds!Cardinality, Cardinality

\* The invariant holds before the first request.
LEMMA DeskInit == Refunds!DeskAssumption /\ Refunds!Init => Refunds!DeskInv
<1> SUFFICES ASSUME Refunds!DeskAssumption, Refunds!Init PROVE Refunds!DeskInv
  OBVIOUS
<1>1. Refunds!TypeOK
  BY DEF Refunds!Init, Refunds!TypeOK, Refunds!Ids, Refunds!Absent
<1>2. Refunds!LocksSound /\ Refunds!RequestsSound /\ Refunds!UndecidedSound
      /\ Refunds!CreatedSound
  BY DEF Refunds!Init, Refunds!CreatedSound, Refunds!LocksSound, Refunds!RequestsSound,
         Refunds!Sound, Refunds!UndecidedSound, Refunds!Deciding, Refunds!Creating,
         Refunds!InFlight, Refunds!DeskAssumption
<1>3. Refunds!TrailTells /\ Refunds!BooksTrue
  BY DEF Refunds!Init, Refunds!TrailTells, Refunds!BooksTrue, Refunds!RefundIds, Refunds!Absent
<1>4. Refunds!ReversedWithMoney
  <2>1. \A r \in Two : Refunds!MadeFor(r) = {}
    BY DEF Refunds!Init, Refunds!MadeFor
  <2> QED
    BY <2>1, DeskSame, FS_EmptySet DEF Refunds!Init, Refunds!ReversedWithMoney, Refunds!MadeFor
<1> QED
  BY <1>1, <1>2, <1>3, <1>4 DEF Refunds!DeskInv

\* A refund more at Stripe takes none of those before it.
LEMMA DeskOneMoreRefund ==
    ASSUME Refunds!TypeOK, NEW x \in Two, refunds' = Append(refunds, x)
    PROVE  /\ refunds' \in Seq(Two) /\ Len(refunds)' = Len(refunds) + 1
           /\ \A i \in DOMAIN refunds : i \in DOMAIN refunds' /\ refunds'[i] = refunds[i]
           /\ Len(refunds) + 1 \in DOMAIN refunds' /\ refunds'[Len(refunds) + 1] = x
           /\ Refunds!Paid \in [Two -> Nat] /\ Refunds!Paid' \in [Two -> Nat]
           /\ \A r \in Two : Refunds!Paid[r] <= Refunds!Paid'[r]
           /\ Refunds!Paid[x] < Refunds!Paid'[x]
<1>1. /\ refunds \in Seq(Two) /\ refunds' \in Seq(Two) /\ Len(refunds') = Len(refunds) + 1
      /\ DOMAIN refunds = 1 .. Len(refunds) /\ DOMAIN refunds' = 1 .. Len(refunds) + 1
      /\ Len(refunds) \in Nat
  BY DEF Refunds!TypeOK
<1>2. \A i \in DOMAIN refunds : i \in DOMAIN refunds' /\ refunds'[i] = refunds[i]
  BY <1>1
<1>3. refunds'[Len(refunds) + 1] = x
  BY <1>1
<1>4. \A r \in Two :
         Refunds!IsFiniteSet(Refunds!MadeFor(r)) /\ Refunds!IsFiniteSet(Refunds!MadeFor(r)')
  <2>1. Refunds!IsFiniteSet(1 .. Len(refunds)) /\ Refunds!IsFiniteSet(1 .. Len(refunds) + 1)
    BY <1>1, DeskSame, FS_Interval
  <2>2. \A r \in Two : Refunds!MadeFor(r) \subseteq 1 .. Len(refunds)
    BY <1>1 DEF Refunds!MadeFor
  <2>3. \A r \in Two : Refunds!MadeFor(r)' \subseteq 1 .. Len(refunds) + 1
    BY <1>1 DEF Refunds!MadeFor
  <2> QED
    BY <2>1, <2>2, <2>3, DeskSame, FS_Subset
<1>5. \A r \in Two : Refunds!MadeFor(r) \subseteq Refunds!MadeFor(r)'
  BY <1>2 DEF Refunds!MadeFor
<1>6. Len(refunds) + 1 \in Refunds!MadeFor(x)' /\ Len(refunds) + 1 \notin Refunds!MadeFor(x)
  BY <1>1, <1>3 DEF Refunds!MadeFor
<1>7. \A r \in Two :
         /\ Refunds!Cardinality(Refunds!MadeFor(r)) \in Nat
         /\ Refunds!Cardinality(Refunds!MadeFor(r)') \in Nat
  BY <1>4, DeskSame, FS_CardinalityType
<1>8. \A r \in Two :
         Refunds!Cardinality(Refunds!MadeFor(r)) <= Refunds!Cardinality(Refunds!MadeFor(r)')
  BY <1>4, <1>5, DeskSame, FS_Subset
<1>9. Refunds!Cardinality(Refunds!MadeFor(x)) < Refunds!Cardinality(Refunds!MadeFor(x)')
  BY <1>4, <1>5, <1>6, <1>7, <1>8, DeskSame, FS_Subset
<1>10. \A r \in Two :
          /\ Refunds!Paid[r] = Refunds!Cardinality(Refunds!MadeFor(r))
          /\ Refunds!Paid'[r] = Refunds!Cardinality(Refunds!MadeFor(r)')
  BY DEF Refunds!Paid
<1>11. Refunds!Paid \in [Two -> Nat] /\ Refunds!Paid' \in [Two -> Nat]
  BY <1>7 DEF Refunds!Paid
<1> QED
  BY <1>1, <1>2, <1>3, <1>8, <1>9, <1>10, <1>11

\* Whatever a step does at Stripe, no refund is taken back.
LEMMA DeskRefundsGrow ==
    ASSUME Refunds!TypeOK,
           refunds' = refunds \/ \E w \in Trio : refunds' = Append(refunds, Refunds!Rec(w))
    PROVE  /\ refunds' \in Seq(Two)
           /\ \A i \in DOMAIN refunds : i \in DOMAIN refunds' /\ refunds'[i] = refunds[i]
           /\ Refunds!Paid \in [Two -> Nat] /\ Refunds!Paid' \in [Two -> Nat]
           /\ \A r \in Two : Refunds!Paid[r] <= Refunds!Paid'[r]
<1>1. CASE refunds' = refunds
  <2>1. \A r \in Two : Refunds!IsFiniteSet(Refunds!MadeFor(r))
    <3>1. DOMAIN refunds = 1 .. Len(refunds) /\ Len(refunds) \in Nat
      BY DEF Refunds!TypeOK
    <3>2. Refunds!IsFiniteSet(1 .. Len(refunds))
      BY <3>1, DeskSame, FS_Interval
    <3>3. \A r \in Two : Refunds!MadeFor(r) \subseteq 1 .. Len(refunds)
      BY <3>1 DEF Refunds!MadeFor
    <3> QED
      BY <3>2, <3>3, DeskSame, FS_Subset
  <2>2. Refunds!Paid \in [Two -> Nat]
    BY <2>1, DeskSame, FS_CardinalityType DEF Refunds!Paid
  <2>3. Refunds!Paid' = Refunds!Paid
    BY <1>1 DEF Refunds!Paid, Refunds!MadeFor
  <2> QED
    BY <1>1, <2>2, <2>3 DEF Refunds!TypeOK
<1>2. CASE \E w \in Trio : refunds' = Append(refunds, Refunds!Rec(w))
  <2>1. PICK x \in Two : refunds' = Append(refunds, x)
    BY <1>2 DEF Refunds!TypeOK, Refunds!Job, Refunds!Rec
  <2> QED
    BY <2>1, DeskOneMoreRefund
<1> QED
  BY <1>1, <1>2

\* Steps that commit nothing keep what is said of the records.
LEMMA DeskBooksKeep ==
    ASSUME Refunds!DeskInv, UNCHANGED <<rid, trail, reversals>>,
           refunds' = refunds \/ \E w \in Trio : refunds' = Append(refunds, Refunds!Rec(w))
    PROVE  Refunds!UndecidedSound' /\ Refunds!TrailTells' /\ Refunds!BooksTrue'
        /\ Refunds!ReversedWithMoney'
<1>1. Refunds!UndecidedSound' /\ Refunds!TrailTells'
  BY DEF Refunds!DeskInv, Refunds!UndecidedSound, Refunds!TrailTells, Refunds!Undecided
<1>2. \A i \in DOMAIN refunds : i \in DOMAIN refunds' /\ refunds'[i] = refunds[i]
  BY DeskRefundsGrow
<1>3. Refunds!BooksTrue'
  BY <1>2 DEF Refunds!DeskInv, Refunds!BooksTrue
<1>4. Refunds!ReversedWithMoney'
  <2>1. \A r \in Two : reversals[r] <= Refunds!Paid[r]
    BY DEF Refunds!DeskInv, Refunds!ReversedWithMoney, Refunds!Paid, Refunds!MadeFor
  <2>2. \A r \in Two : reversals[r] <= Refunds!Paid'[r]
    BY <2>1, DeskRefundsGrow DEF Refunds!DeskInv, Refunds!TypeOK
  <2> QED
    BY <2>2 DEF Refunds!ReversedWithMoney, Refunds!Paid, Refunds!MadeFor
<1> QED
  BY <1>1, <1>3, <1>4

\* A step of w leaves the other requests what they know.
LEMMA DeskOthersKeep ==
    ASSUME Refunds!DeskInv, NEW w \in Trio, UNCHANGED <<rid, reversals, deskJob>>,
           refunds' = refunds \/ refunds' = Append(refunds, Refunds!Rec(w)),
           \A u \in Trio \ {w} : deskPc'[u] = deskPc[u] /\ saw'[u] = saw[u] /\ new'[u] = new[u],
           \A u \in Trio \ {w} : Refunds!Deciding(u) => deskLock'[Refunds!Rec(u)] = u
    PROVE  \A u \in Trio \ {w} :
              Refunds!Sound(u)' /\ (Refunds!Deciding(u)' <=> Refunds!Deciding(u))
<1> SUFFICES ASSUME NEW u \in Trio \ {w}
             PROVE  Refunds!Sound(u)' /\ (Refunds!Deciding(u)' <=> Refunds!Deciding(u))
  OBVIOUS
<1>1. /\ Refunds!Deciding(u)' <=> Refunds!Deciding(u)
      /\ Refunds!Creating(u)' <=> Refunds!Creating(u)
      /\ Refunds!Rec(u)' = Refunds!Rec(u) /\ Refunds!Rec(u) \in Two /\ Refunds!Rec(w) \in Two
      /\ Refunds!Fresh(u)' <=> Refunds!Fresh(u)
  BY DEF Refunds!Deciding, Refunds!Creating, Refunds!InFlight, Refunds!Rec, Refunds!Fresh,
         Refunds!DeskInv, Refunds!TypeOK, Refunds!Job
<1>2. /\ \A i \in DOMAIN refunds : i \in DOMAIN refunds' /\ refunds'[i] = refunds[i]
      /\ \A r \in Two : reversals[r] < Refunds!Paid[r] => reversals'[r] < Refunds!Paid'[r]
  BY DeskRefundsGrow DEF Refunds!DeskInv, Refunds!TypeOK
<1>3. Refunds!Sound(u) /\ (Refunds!Deciding(u) => deskLock'[Refunds!Rec(u)] = u)
  BY DEF Refunds!DeskInv, Refunds!RequestsSound
<1> QED
  BY <1>1, <1>2, <1>3 DEF Refunds!Sound

\* The lock of a request that ends is free, and no other is.
LEMMA DeskUnlockedKeeps ==
    ASSUME Refunds!DeskInv, Refunds!DeskAssumption, NEW w \in Trio,
           deskLock' = Refunds!Unlocked(w)
    PROVE  /\ deskLock' \in [Two -> Trio \cup {Nobody}]
           /\ \A r \in Two : deskLock'[r] # w
           /\ \A u \in Trio \ {w} : Refunds!Deciding(u) => deskLock'[Refunds!Rec(u)] = u
           /\ \A r \in Two, u \in Trio : deskLock'[r] = u => deskLock[r] = u
<1>1. deskLock \in [Two -> Trio \cup {Nobody}] /\ deskJob \in [Trio -> Refunds!Job]
  BY DEF Refunds!DeskInv, Refunds!TypeOK
<1> QED
  BY <1>1
     DEF Refunds!Unlocked, Refunds!DeskInv, Refunds!RequestsSound, Refunds!Sound, Refunds!Rec,
         Refunds!Job, Refunds!DeskAssumption

\* A request that ends without a commit.
LEMMA DeskRollbackKeeps ==
    ASSUME Refunds!DeskInv, Refunds!DeskAssumption, NEW w \in Trio, Refunds!Rollback(w),
           refunds' = refunds \/ refunds' = Append(refunds, Refunds!Rec(w))
    PROVE  Refunds!DeskInv'
<1>1. /\ UNCHANGED <<rid, trail, reversals, window, deskJob, saw, new>>
      /\ deskPc' = [deskPc EXCEPT ![w] = "done"] /\ deskLock' = Refunds!Unlocked(w)
  BY DEF Refunds!Rollback, Refunds!Goto
<1>2. Refunds!TypeOK'
  BY <1>1, DeskUnlockedKeeps, DeskRefundsGrow DEF Refunds!DeskInv, Refunds!TypeOK
<1>3. Refunds!UndecidedSound' /\ Refunds!TrailTells' /\ Refunds!BooksTrue'
      /\ Refunds!ReversedWithMoney'
  BY <1>1, DeskBooksKeep
<1>4. \A u \in Trio \ {w} : Refunds!Sound(u)' /\ (Refunds!Deciding(u)' <=> Refunds!Deciding(u))
  BY <1>1, DeskUnlockedKeeps, DeskOthersKeep DEF Refunds!DeskInv, Refunds!TypeOK
<1>5. deskPc'[w] = "done"
  BY <1>1 DEF Refunds!DeskInv, Refunds!TypeOK
<1>6. Refunds!Sound(w)'
  BY <1>5 DEF Refunds!Sound, Refunds!Deciding, Refunds!Creating, Refunds!InFlight
<1>7. Refunds!LocksSound'
  <2>1. \A r \in Two, u \in Trio :
           deskLock'[r] = u => u # w /\ Refunds!Deciding(u) /\ Refunds!Rec(u) = r
    BY <1>1, DeskUnlockedKeeps DEF Refunds!DeskInv, Refunds!LocksSound
  <2>2. \A u \in Trio : Refunds!Rec(u)' = Refunds!Rec(u)
    BY <1>1 DEF Refunds!Rec
  <2> QED
    BY <1>4, <2>1, <2>2 DEF Refunds!LocksSound
<1>8. Refunds!CreatedSound'
  BY <1>1 DEF Refunds!DeskInv, Refunds!CreatedSound, Refunds!TypeOK, Refunds!Rec
<1> QED
  BY <1>2, <1>3, <1>4, <1>6, <1>7, <1>8 DEF Refunds!DeskInv, Refunds!RequestsSound

\* A step of w that commits nothing and takes no lock but its record's keeps the invariant
\* if it keeps the type and w knows what it has to.
LEMMA DeskStepKeeps ==
    ASSUME Refunds!DeskInv, Refunds!DeskAssumption, NEW w \in Trio,
           UNCHANGED <<rid, trail, reversals, deskJob>>,
           refunds' = refunds \/ refunds' = Append(refunds, Refunds!Rec(w)),
           \A u \in Trio \ {w} : deskPc'[u] = deskPc[u] /\ saw'[u] = saw[u] /\ new'[u] = new[u],
           \/ deskLock' = deskLock
           \/ /\ deskLock[Refunds!Rec(w)] = Nobody /\ Refunds!Deciding(w)'
              /\ deskLock' = [deskLock EXCEPT ![Refunds!Rec(w)] = w],
           Refunds!Deciding(w) => Refunds!Deciding(w)',
           deskPc[w] # "done", Refunds!TypeOK', Refunds!Sound(w)'
    PROVE  Refunds!DeskInv'
<1>1. Refunds!UndecidedSound' /\ Refunds!TrailTells' /\ Refunds!BooksTrue'
      /\ Refunds!ReversedWithMoney'
  BY DeskBooksKeep
<1>2. \A u \in Trio \ {w} : Refunds!Deciding(u) => deskLock'[Refunds!Rec(u)] = u
  BY DEF Refunds!DeskInv, Refunds!RequestsSound, Refunds!Sound, Refunds!TypeOK, Refunds!Rec,
         Refunds!Job, Refunds!DeskAssumption
<1>3. \A u \in Trio \ {w} : Refunds!Sound(u)' /\ (Refunds!Deciding(u)' <=> Refunds!Deciding(u))
  BY <1>2, DeskOthersKeep
<1>4. Refunds!LocksSound'
  <2>1. \A u \in Trio : Refunds!Rec(u)' = Refunds!Rec(u)
    BY DEF Refunds!Rec
  <2>2. \A u \in Trio : Refunds!Deciding(u) => Refunds!Deciding(u)'
    BY <1>3
  <2>3. \A r \in Two, u \in Trio : deskLock'[r] = u =>
            deskLock[r] = u \/ (u = w /\ r = Refunds!Rec(w) /\ Refunds!Deciding(w)')
    BY DEF Refunds!DeskInv, Refunds!TypeOK
  <2> QED
    BY <2>1, <2>2, <2>3 DEF Refunds!DeskInv, Refunds!LocksSound
<1>5. Refunds!CreatedSound'
  BY DEF Refunds!DeskInv, Refunds!CreatedSound, Refunds!Rec
<1> QED
  BY <1>1, <1>3, <1>4, <1>5 DEF Refunds!DeskInv, Refunds!RequestsSound

\* COMMIT: what is said of the record and its trail moves together.
LEMMA DeskCommitKeeps ==
    ASSUME Refunds!DeskInv, Refunds!DeskAssumption, NEW w \in Trio, Refunds!Commit(w)
    PROVE  Refunds!DeskInv' /\ Refunds!StillPaid
<1>0. PICK x \in Two : x = Refunds!Rec(w)
  BY DEF Refunds!DeskInv, Refunds!TypeOK, Refunds!Rec, Refunds!Job
<1>1. /\ deskPc[w] = "commit" /\ deskJob[w] \in Refunds!Job /\ new[w] \in Refunds!Ids
      /\ saw[w] \in Refunds!Ids
      /\ rid' = [rid EXCEPT ![x] = new[w]]
      /\ trail' = IF deskJob[w].op = "queue" THEN trail
                  ELSE [trail EXCEPT ![x] = Append(@, Refunds!EntryOf(w))]
      /\ reversals' = IF Refunds!Reversed(w) THEN [reversals EXCEPT ![x] = @ + 1] ELSE reversals
      /\ deskLock' = Refunds!Unlocked(w) /\ deskPc' = [deskPc EXCEPT ![w] = "done"]
      /\ UNCHANGED <<refunds, window, deskJob, saw, new>>
  BY <1>0 DEF Refunds!Commit, Refunds!Goto, Refunds!DeskInv, Refunds!TypeOK
<1>2. /\ rid \in [Two -> Refunds!Ids] /\ trail \in [Two -> Seq(Refunds!Entry)]
      /\ reversals \in [Two -> Nat] /\ refunds \in Seq(Two)
  BY DEF Refunds!DeskInv, Refunds!TypeOK
<1>3. Refunds!EntryOf(w) \in Refunds!Entry
  BY <1>1 DEF Refunds!EntryOf, Refunds!Entry, Refunds!Job
<1>4. /\ deskJob[w].op \in Refunds!Decides => saw[w] = rid[x] /\ saw[w] # Refunds!Absent
           /\ deskLock[x] = w
      /\ deskJob[w].op \in Refunds!Creates => Refunds!Fresh(w) /\ saw[w] = Refunds!Absent
           /\ rid[x] = Refunds!Absent
      /\ deskJob[w].op = "queue" => new[w] = Refunds!Pending
      /\ deskJob[w].op = "deny" => new[w] = Refunds!Denial(saw[w])
      /\ deskJob[w].op \in {"self", "approve"} => new[w] \in DOMAIN refunds /\ refunds[new[w]] = x
      /\ deskJob[w].op = "approve" => reversals[x] < Refunds!Paid[x]
  BY <1>0, <1>1
     DEF Refunds!DeskInv, Refunds!RequestsSound, Refunds!Sound, Refunds!Deciding,
         Refunds!Creating, Refunds!InFlight
<1>5. \A i \in DOMAIN refunds : i \in Refunds!RefundIds
  BY <1>2 DEF Refunds!RefundIds
<1>6. Refunds!TypeOK'
  <2>1. trail' \in [Two -> Seq(Refunds!Entry)]
    BY <1>1, <1>2, <1>3
  <2>2. reversals' \in [Two -> Nat] /\ rid' \in [Two -> Refunds!Ids]
    BY <1>1, <1>2
  <2>3. deskLock' \in [Two -> Trio \cup {Nobody}]
    BY <1>1, DeskUnlockedKeeps
  <2> QED
    BY <1>1, <2>1, <2>2, <2>3 DEF Refunds!DeskInv, Refunds!TypeOK
<1>7. deskJob[w].op \in {"queue", "self", "approve", "deny"} /\ new[w] # Refunds!Absent
  <2>1. deskJob[w].op \in {"queue", "self", "approve", "deny"}
    BY <1>1 DEF Refunds!Job, Refunds!Creates, Refunds!Decides
  <2> QED
    BY <1>4, <1>5, <2>1
       DEF Refunds!Denial, Refunds!Absent, Refunds!Denied, Refunds!Pending, Refunds!RefundIds,
           Refunds!Creates, Refunds!Decides
<1>8. \A r \in Two \ {x} :
         /\ rid'[r] = rid[r] /\ trail'[r] = trail[r] /\ reversals'[r] = reversals[r]
  BY <1>1, <1>2
<1>9. rid'[x] = new[w]
  BY <1>1, <1>2
<1>10. ASSUME deskJob[w].op = "queue"
       PROVE  Refunds!UndecidedSound' /\ Refunds!TrailTells' /\ Refunds!BooksTrue'
           /\ Refunds!ReversedWithMoney'
  <2>1. trail[x] = << >> /\ trail' = trail /\ reversals' = reversals
    BY <1>1, <1>4, <1>10
       DEF Refunds!Creates, Refunds!DeskInv, Refunds!UndecidedSound, Refunds!Reversed
  <2>2. Refunds!UndecidedSound'
    BY <1>4, <1>8, <1>9, <1>10, <2>1 DEF Refunds!DeskInv, Refunds!UndecidedSound
  <2>3. Refunds!TrailTells'
    BY <1>8, <1>9, <2>1 DEF Refunds!DeskInv, Refunds!TrailTells, Refunds!Undecided
  <2>4. Refunds!BooksTrue'
    BY <1>1, <1>4, <1>8, <1>9, <1>10, <2>1
       DEF Refunds!DeskInv, Refunds!BooksTrue, Refunds!Pending, Refunds!RefundIds
  <2>5. Refunds!ReversedWithMoney'
    BY <1>1, <2>1 DEF Refunds!DeskInv, Refunds!ReversedWithMoney
  <2> QED
    BY <2>2, <2>3, <2>4, <2>5
<1>11. ASSUME deskJob[w].op # "queue"
       PROVE  Refunds!UndecidedSound' /\ Refunds!TrailTells' /\ Refunds!BooksTrue'
           /\ Refunds!ReversedWithMoney'
  <2> DEFINE t == trail[x]
             e == Refunds!EntryOf(w)
  <2>1. /\ trail'[x] = Append(t, e) /\ t \in Seq(Refunds!Entry) /\ Len(t) \in Nat
        /\ e.act = deskJob[w].op /\ e.before = saw[w] /\ e.after = new[w]
    BY <1>1, <1>2, <1>11 DEF Refunds!EntryOf
  <2>2. /\ Len(trail'[x]) = Len(t) + 1 /\ trail'[x] # << >>
        /\ \A i \in 1 .. Len(t) : trail'[x][i] = t[i]
        /\ trail'[x][Len(t) + 1] = e
        /\ DOMAIN t = 1 .. Len(t) /\ DOMAIN trail'[x] = 1 .. Len(t) + 1
    BY <1>3, <2>1
  <2>3. Refunds!UndecidedSound'
    BY <1>7, <1>8, <1>9, <2>2 DEF Refunds!DeskInv, Refunds!UndecidedSound
  <2>4. Refunds!TrailTells'
    <3>1. ASSUME NEW r \in Two \ {x}
          PROVE  LET s == trail'[r] IN
                 /\ \A i \in 1 .. Len(s) :
                       s[i].before = IF i = 1 THEN Refunds!Undecided(r)' ELSE s[i - 1].after
                 /\ s # << >> => rid'[r] = s[Len(s)].after
      BY <1>8 DEF Refunds!DeskInv, Refunds!TrailTells, Refunds!Undecided
    <3>2. CASE t = << >>
      <4>1. Len(t) = 0 /\ trail'[x][1] = e
        BY <2>2, <3>2
      <4>2. saw[w] = IF deskJob[w].op = "self" THEN Refunds!Absent ELSE Refunds!Pending
        BY <1>1, <1>4, <1>11, <3>2
           DEF Refunds!Job, Refunds!Creates, Refunds!Decides, Refunds!DeskInv,
               Refunds!UndecidedSound
      <4>3. Refunds!Undecided(x)' = saw[w]
        BY <2>1, <2>2, <4>1, <4>2 DEF Refunds!Undecided
      <4> QED
        BY <1>9, <2>1, <2>2, <3>1, <4>1, <4>3 DEF Refunds!TrailTells
    <3>3. CASE t # << >>
      <4>1. Len(t) >= 1 /\ trail'[x][1] = t[1] /\ Refunds!Undecided(x)' = Refunds!Undecided(x)
        BY <2>1, <2>2, <3>3 DEF Refunds!Undecided
      <4>2. deskJob[w].op \in Refunds!Decides /\ saw[w] = t[Len(t)].after
        BY <1>1, <1>4, <3>3
           DEF Refunds!Job, Refunds!DeskInv, Refunds!UndecidedSound, Refunds!TrailTells
      <4>3. \A i \in 1 .. Len(t) :
               t[i].before = IF i = 1 THEN Refunds!Undecided(x) ELSE t[i - 1].after
        BY DEF Refunds!DeskInv, Refunds!TrailTells
      <4>4. \A i \in 1 .. Len(t) + 1 :
               trail'[x][i].before =
                   IF i = 1 THEN Refunds!Undecided(x)' ELSE trail'[x][i - 1].after
        <5>1. ASSUME NEW i \in 1 .. Len(t)
              PROVE  trail'[x][i].before =
                         IF i = 1 THEN Refunds!Undecided(x)' ELSE trail'[x][i - 1].after
          BY <2>1, <2>2, <4>1, <4>3, <5>1
        <5>2. trail'[x][Len(t) + 1].before = trail'[x][Len(t)].after
          BY <2>1, <2>2, <4>1, <4>2
        <5> QED
          BY <2>1, <4>1, <5>1, <5>2
      <4> QED
        BY <1>9, <2>1, <2>2, <3>1, <4>4 DEF Refunds!TrailTells
    <3> QED
      BY <3>2, <3>3
  <2>5. Refunds!BooksTrue'
    <3>1. rid'[x] \in Refunds!RefundIds => rid'[x] \in DOMAIN refunds /\ refunds[rid'[x]] = x
      BY <1>1, <1>4, <1>9, <1>11
         DEF Refunds!DeskInv, Refunds!BooksTrue, Refunds!Denial, Refunds!Denied,
             Refunds!RefundIds, Refunds!Job, Refunds!Creates, Refunds!Decides
    <3>2. \A i \in DOMAIN trail'[x] : trail'[x][i].act \in {"approve", "self"} =>
             trail'[x][i].after \in DOMAIN refunds /\ refunds[trail'[x][i].after] = x
      BY <1>4, <2>1, <2>2 DEF Refunds!DeskInv, Refunds!BooksTrue
    <3> QED
      BY <1>1, <1>8, <3>1, <3>2 DEF Refunds!DeskInv, Refunds!BooksTrue
  <2>6. Refunds!ReversedWithMoney'
    <3>1. \A r \in Two : reversals[r] <= Refunds!Paid[r]
      BY DEF Refunds!DeskInv, Refunds!ReversedWithMoney, Refunds!Paid, Refunds!MadeFor
    <3>2. reversals'[x] <= Refunds!Paid[x]
      BY <1>1, <1>2, <1>4, <3>1, DeskRefundsGrow DEF Refunds!Reversed, Refunds!DeskInv
    <3>3. Refunds!Paid' = Refunds!Paid
      BY <1>1 DEF Refunds!Paid, Refunds!MadeFor
    <3>4. \A r \in Two : reversals'[r] <= Refunds!Paid'[r]
      BY <1>8, <3>1, <3>2, <3>3
    <3> QED
      BY <3>4 DEF Refunds!ReversedWithMoney, Refunds!Paid, Refunds!MadeFor
  <2> QED
    BY <2>3, <2>4, <2>5, <2>6
<1>12. Refunds!StillPaid
  <2>1. rid[x] \in Refunds!RefundIds => rid'[x] \in Refunds!RefundIds
    BY <1>1, <1>4, <1>5, <1>9
       DEF Refunds!Denial, Refunds!Absent, Refunds!Denied, Refunds!Pending, Refunds!RefundIds,
           Refunds!Job, Refunds!Creates, Refunds!Decides
  <2> QED
    BY <1>8, <2>1 DEF Refunds!StillPaid
<1>13. \A u \in Trio : Refunds!Rec(u)' = Refunds!Rec(u)
  BY <1>1 DEF Refunds!Rec
<1>14. \A u \in Trio \ {w} : /\ Refunds!Deciding(u)' <=> Refunds!Deciding(u)
                             /\ Refunds!Creating(u)' <=> Refunds!Creating(u)
                             /\ Refunds!Fresh(u)' <=> Refunds!Fresh(u)
  BY <1>1 DEF Refunds!Deciding, Refunds!Creating, Refunds!InFlight, Refunds!Fresh, Refunds!Rec
\* No other request in flight is about the record.
<1>15. ASSUME NEW u \in Trio \ {w}, Refunds!InFlight(u)
       PROVE  Refunds!Rec(u) # x
  <2>1. deskJob[u] \in Refunds!Job
    BY DEF Refunds!DeskInv, Refunds!TypeOK
  <2>2. CASE deskJob[u].op \in Refunds!Decides
    BY <1>0, <1>1, <1>4, <1>15, <2>2
       DEF Refunds!DeskInv, Refunds!RequestsSound, Refunds!Sound, Refunds!Deciding, Refunds!Job
  <2>3. CASE deskJob[u].op \in Refunds!Creates
    <3>1. Refunds!Fresh(u) /\ rid[Refunds!Rec(u)] = Refunds!Absent
      BY <1>15, <2>3 DEF Refunds!DeskInv, Refunds!RequestsSound, Refunds!Sound, Refunds!Creating
    <3> QED
      BY <1>0, <1>1, <1>4, <3>1 DEF Refunds!Fresh, Refunds!Job
  <2> QED
    BY <2>1, <2>2, <2>3 DEF Refunds!Job
<1>16. Refunds!RequestsSound'
  <2>1. Refunds!Sound(w)'
    BY <1>1
       DEF Refunds!Sound, Refunds!Deciding, Refunds!Creating, Refunds!InFlight, Refunds!DeskInv,
           Refunds!TypeOK
  <2>2. ASSUME NEW u \in Trio \ {w} PROVE Refunds!Sound(u)'
    <3>1. Refunds!Sound(u) /\ (Refunds!Deciding(u) => deskLock'[Refunds!Rec(u)] = u)
      BY <1>1, DeskUnlockedKeeps DEF Refunds!DeskInv, Refunds!RequestsSound
    <3>2. deskPc'[u] = deskPc[u] /\ saw'[u] = saw[u] /\ new'[u] = new[u]
      BY <1>1 DEF Refunds!DeskInv, Refunds!TypeOK
    <3>3. CASE ~Refunds!InFlight(u)
      BY <1>14, <3>1, <3>2, <3>3
         DEF Refunds!Sound, Refunds!InFlight, Refunds!Deciding, Refunds!Creating
    <3>4. CASE Refunds!InFlight(u)
      <4>1. /\ Refunds!Rec(u) \in Two \ {x} /\ Refunds!Paid' = Refunds!Paid
            /\ rid'[Refunds!Rec(u)] = rid[Refunds!Rec(u)]
            /\ reversals'[Refunds!Rec(u)] = reversals[Refunds!Rec(u)]
        BY <1>1, <1>8, <1>15, <3>4
           DEF Refunds!Rec, Refunds!Job, Refunds!DeskInv, Refunds!TypeOK, Refunds!Paid,
               Refunds!MadeFor
      <4> QED
        BY <1>1, <1>13, <1>14, <3>1, <3>2, <4>1 DEF Refunds!Sound
    <3> QED
      BY <3>3, <3>4
  <2> QED
    BY <2>1, <2>2 DEF Refunds!RequestsSound
<1>17. Refunds!LocksSound'
  <2>1. \A r \in Two, u \in Trio :
           deskLock'[r] = u => u # w /\ Refunds!Deciding(u) /\ Refunds!Rec(u) = r
    BY <1>1, DeskUnlockedKeeps DEF Refunds!DeskInv, Refunds!LocksSound
  <2> QED
    BY <1>13, <1>14, <2>1 DEF Refunds!LocksSound
<1>18. Refunds!CreatedSound'
  <2>1. \/ deskJob[w].op \in Refunds!Creates
        \/ \E u \in Trio \ {w} :
              deskJob[u].op \in Refunds!Creates /\ Refunds!Rec(u) = x /\ deskPc[u] = "done"
    BY <1>1, <1>4 DEF Refunds!Job, Refunds!DeskInv, Refunds!CreatedSound
  <2>2. \A r \in Two \ {x} : rid[r] # Refunds!Absent =>
           \E u \in Trio \ {w} :
              deskJob[u].op \in Refunds!Creates /\ Refunds!Rec(u) = r /\ deskPc[u] = "done"
    BY <1>1 DEF Refunds!DeskInv, Refunds!CreatedSound
  <2>3. deskPc'[w] = "done" /\ \A u \in Trio \ {w} : deskPc'[u] = deskPc[u]
    BY <1>1 DEF Refunds!DeskInv, Refunds!TypeOK
  <2> QED
    BY <1>0, <1>1, <1>8, <1>13, <2>1, <2>2, <2>3 DEF Refunds!CreatedSound
<1> QED
  BY <1>6, <1>10, <1>11, <1>12, <1>16, <1>17, <1>18 DEF Refunds!DeskInv

\* Every step keeps the invariant, and what was paid back stays paid back.
LEMMA DeskStep ==
    ASSUME Refunds!DeskAssumption, Refunds!DeskInv, [Refunds!Next]_Refunds!vars
    PROVE  Refunds!DeskInv' /\ Refunds!StillPaid
<1>0. rid' = rid => Refunds!StillPaid
  BY DEF Refunds!StillPaid
<1>1. ASSUME NEW w \in Trio, deskPc[w] = "idle", deskJob[w].op \in Refunds!Creates,
             Refunds!Fresh(w),
             NEW l \in {"commit", "stripe", "done"}, deskPc' = [deskPc EXCEPT ![w] = l],
             new' = [new EXCEPT ![w] = Refunds!Pending],
             l = "commit" => deskJob[w].op = "queue", l = "stripe" => deskJob[w].op = "self",
             UNCHANGED <<rid, trail, reversals, refunds, window, deskJob, saw, deskLock>>
      PROVE  Refunds!DeskInv'
  <2>1. Refunds!TypeOK'
    BY <1>1 DEF Refunds!DeskInv, Refunds!TypeOK, Refunds!Ids
  <2>2. rid[Refunds!Rec(w)] = Refunds!Absent
    BY <1>1
       DEF Refunds!DeskInv, Refunds!CreatedSound, Refunds!Fresh, Refunds!TypeOK, Refunds!Rec,
           Refunds!Job
  <2>3. deskJob[w].op \notin Refunds!Decides
    BY <1>1 DEF Refunds!Creates, Refunds!Decides
  <2>4. saw[w] = Refunds!Absent
    BY <1>1 DEF Refunds!DeskInv, Refunds!RequestsSound, Refunds!Sound
  <2>5. deskPc'[w] = l /\ new'[w] = Refunds!Pending /\ saw'[w] = Refunds!Absent
        /\ deskJob'[w] = deskJob[w] /\ Refunds!Rec(w)' = Refunds!Rec(w)
    BY <1>1, <2>4 DEF Refunds!DeskInv, Refunds!TypeOK, Refunds!Rec
  <2>6. Refunds!Fresh(w)'
    BY <1>1 DEF Refunds!Fresh, Refunds!Rec
  <2>7. Refunds!Sound(w)'
    BY <1>1, <2>2, <2>3, <2>5, <2>6
       DEF Refunds!Sound, Refunds!Deciding, Refunds!Creating, Refunds!Decides
  <2> QED
    BY <1>1, <2>1, <2>3, <2>7, DeskStepKeeps DEF Refunds!Deciding, Refunds!DeskInv, Refunds!TypeOK
<1>2. ASSUME NEW w \in Trio, Refunds!Queue(w) PROVE Refunds!DeskInv'
  BY <1>1, <1>2 DEF Refunds!Queue, Refunds!Goto, Refunds!Creates
<1>3. ASSUME NEW w \in Trio, Refunds!SelfService(w) PROVE Refunds!DeskInv'
  BY <1>1, <1>3 DEF Refunds!SelfService, Refunds!Goto, Refunds!Creates
<1>4. ASSUME NEW w \in Trio, Refunds!Lookup(w) PROVE Refunds!DeskInv'
  <2>1. /\ deskPc[w] = "idle" /\ deskJob[w].op \in Refunds!Decides
        /\ rid[Refunds!Rec(w)] # Refunds!Absent
        /\ deskLock[Refunds!Rec(w)] = Nobody
        /\ deskLock' = [deskLock EXCEPT ![Refunds!Rec(w)] = w]
        /\ saw' = [saw EXCEPT ![w] = rid[Refunds!Rec(w)]]
        /\ deskPc' = [deskPc EXCEPT
                         ![w] = IF deskJob[w].op = "approve" THEN "stripe" ELSE "write"]
        /\ UNCHANGED <<rid, trail, reversals, refunds, window, deskJob, new>>
    BY <1>4 DEF Refunds!Lookup, Refunds!Goto
  <2>2. Refunds!Rec(w) \in Two /\ deskJob[w].op \in {"approve", "deny"}
        /\ deskJob[w].op \notin Refunds!Creates
    BY <2>1
       DEF Refunds!DeskInv, Refunds!TypeOK, Refunds!Rec, Refunds!Job, Refunds!Decides,
           Refunds!Creates
  <2>3. Refunds!TypeOK'
    BY <2>1, <2>2 DEF Refunds!DeskInv, Refunds!TypeOK
  <2>4. /\ deskPc'[w] \in {"stripe", "write"} /\ saw'[w] = rid[Refunds!Rec(w)]
        /\ deskLock'[Refunds!Rec(w)] = w
        /\ deskPc'[w] = "stripe" => deskJob[w].op = "approve"
        /\ deskPc'[w] = "write" => deskJob[w].op = "deny"
    BY <2>1, <2>2 DEF Refunds!DeskInv, Refunds!TypeOK
  <2>5. Refunds!Rec(w)' = Refunds!Rec(w) /\ deskJob'[w] = deskJob[w]
    BY <2>1 DEF Refunds!Rec
  <2>6. Refunds!Sound(w)' /\ Refunds!Deciding(w)'
    BY <2>1, <2>2, <2>4, <2>5
       DEF Refunds!Sound, Refunds!Deciding, Refunds!Creating, Refunds!InFlight
  <2> QED
    BY <2>1, <2>3, <2>6, DeskStepKeeps DEF Refunds!DeskInv, Refunds!TypeOK
<1>5. ASSUME NEW w \in Trio, Refunds!NotFound(w) PROVE Refunds!DeskInv'
  <2>1. /\ deskPc[w] = "idle" /\ deskPc' = [deskPc EXCEPT ![w] = "done"]
        /\ UNCHANGED <<rid, trail, reversals, refunds, window, deskJob, saw, new, deskLock>>
    BY <1>5 DEF Refunds!NotFound, Refunds!Goto
  <2>2. Refunds!TypeOK'
    BY <2>1 DEF Refunds!DeskInv, Refunds!TypeOK
  <2>3. Refunds!Sound(w)' /\ ~Refunds!Deciding(w)
    BY <2>1
       DEF Refunds!DeskInv, Refunds!TypeOK, Refunds!Sound, Refunds!Deciding, Refunds!Creating,
           Refunds!InFlight
  <2> QED
    BY <2>1, <2>2, <2>3, DeskStepKeeps DEF Refunds!DeskInv, Refunds!TypeOK
<1>6. ASSUME NEW w \in Trio, Refunds!StripeRefunds(w) PROVE Refunds!DeskInv'
  <2>1. /\ deskPc[w] = "stripe" /\ refunds' = Append(refunds, Refunds!Rec(w))
        /\ new' = [new EXCEPT ![w] = Len(refunds) + 1]
        /\ deskPc' = [deskPc EXCEPT ![w] = "commit"]
        /\ UNCHANGED <<rid, trail, reversals, window, deskJob, saw, deskLock>>
    BY <1>6 DEF Refunds!StripeRefunds, Refunds!Goto
  <2>2. PICK x \in Two : x = Refunds!Rec(w)
    BY DEF Refunds!DeskInv, Refunds!TypeOK, Refunds!Rec, Refunds!Job
  <2>3. refunds' = Append(refunds, x) /\ Refunds!TypeOK
    BY <2>1, <2>2 DEF Refunds!DeskInv
  <2>4. /\ Len(refunds) + 1 \in DOMAIN refunds' /\ refunds'[Len(refunds) + 1] = x
        /\ refunds' \in Seq(Two) /\ Refunds!Paid[x] < Refunds!Paid'[x]
        /\ Refunds!Paid \in [Two -> Nat] /\ Refunds!Paid' \in [Two -> Nat]
    BY <2>3, DeskOneMoreRefund
  <2>5. Len(refunds) + 1 \in Refunds!Ids
    BY <2>3 DEF Refunds!TypeOK, Refunds!Ids, Refunds!RefundIds
  <2>6. Refunds!TypeOK'
    BY <2>1, <2>3, <2>4, <2>5 DEF Refunds!TypeOK
  <2>7. reversals[x] < Refunds!Paid'[x]
    <3>1. reversals[x] \in Nat /\ reversals[x] <= Refunds!Paid[x]
      BY <2>3
         DEF Refunds!DeskInv, Refunds!TypeOK, Refunds!ReversedWithMoney, Refunds!Paid,
             Refunds!MadeFor
    <3> QED
      BY <2>4, <3>1
  <2>8. deskPc'[w] = "commit" /\ new'[w] = Len(refunds) + 1 /\ deskJob'[w] = deskJob[w]
        /\ Refunds!Rec(w)' = x
    BY <2>1, <2>2, <2>3 DEF Refunds!TypeOK, Refunds!Rec
  <2>9. Refunds!Sound(w) /\ (Refunds!Deciding(w)' <=> Refunds!Deciding(w))
        /\ (Refunds!Creating(w)' <=> Refunds!Creating(w))
        /\ (Refunds!Fresh(w)' <=> Refunds!Fresh(w))
    BY <2>1, <2>8
       DEF Refunds!DeskInv, Refunds!RequestsSound, Refunds!Deciding, Refunds!Creating,
           Refunds!InFlight, Refunds!Fresh, Refunds!Rec
  <2>10. Refunds!Sound(w)'
    BY <2>1, <2>2, <2>4, <2>7, <2>8, <2>9 DEF Refunds!Sound
  <2> QED
    BY <2>1, <2>6, <2>9, <2>10, DeskStepKeeps DEF Refunds!DeskInv, Refunds!TypeOK
<1>7. ASSUME NEW w \in Trio, Refunds!StripeFails(w) \/ Refunds!Crash(w)
      PROVE  Refunds!DeskInv' /\ rid' = rid
  <2>1. Refunds!Rollback(w) /\ (refunds' = refunds \/ refunds' = Append(refunds, Refunds!Rec(w)))
    BY <1>7 DEF Refunds!StripeFails, Refunds!Crash
  <2> QED
    BY <2>1, DeskRollbackKeeps DEF Refunds!Rollback
<1>8. ASSUME NEW w \in Trio, Refunds!Deny(w) PROVE Refunds!DeskInv'
  <2>1. /\ deskPc[w] = "write" /\ new' = [new EXCEPT ![w] = Refunds!Denial(saw[w])]
        /\ deskPc' = [deskPc EXCEPT ![w] = "commit"]
        /\ UNCHANGED <<rid, trail, reversals, refunds, window, deskJob, saw, deskLock>>
    BY <1>8 DEF Refunds!Deny, Refunds!Goto
  <2>2. Refunds!TypeOK'
    BY <2>1 DEF Refunds!DeskInv, Refunds!TypeOK, Refunds!Denial, Refunds!Ids
  <2>3. /\ deskPc'[w] = "commit" /\ new'[w] = Refunds!Denial(saw[w]) /\ deskJob'[w] = deskJob[w]
        /\ Refunds!Rec(w)' = Refunds!Rec(w)
    BY <2>1 DEF Refunds!DeskInv, Refunds!TypeOK, Refunds!Rec
  <2>4. Refunds!Sound(w) /\ (Refunds!Deciding(w)' <=> Refunds!Deciding(w))
        /\ (Refunds!Creating(w)' <=> Refunds!Creating(w))
        /\ (Refunds!Fresh(w)' <=> Refunds!Fresh(w))
    BY <2>1, <2>3
       DEF Refunds!DeskInv, Refunds!RequestsSound, Refunds!Deciding, Refunds!Creating,
           Refunds!InFlight, Refunds!Fresh, Refunds!Rec
  <2>5. Refunds!Sound(w)'
    BY <2>1, <2>3, <2>4 DEF Refunds!Sound
  <2> QED
    BY <2>1, <2>2, <2>4, <2>5, DeskStepKeeps DEF Refunds!DeskInv, Refunds!TypeOK
<1>9. ASSUME UNCHANGED <<rid, trail, reversals, refunds, deskPc, deskJob, saw, new, deskLock>>,
             window' \in BOOLEAN
      PROVE  Refunds!DeskInv'
  <2>1. Refunds!TypeOK'
    BY <1>9 DEF Refunds!DeskInv, Refunds!TypeOK
  <2>2. \A w \in Trio : Refunds!Sound(w)'
    BY <1>9
       DEF Refunds!DeskInv, Refunds!RequestsSound, Refunds!Sound, Refunds!Deciding,
           Refunds!Creating, Refunds!InFlight, Refunds!Fresh, Refunds!Rec, Refunds!Paid,
           Refunds!MadeFor
  <2>3. Refunds!LocksSound' /\ Refunds!CreatedSound'
    BY <1>9
       DEF Refunds!DeskInv, Refunds!LocksSound, Refunds!CreatedSound, Refunds!Deciding,
           Refunds!InFlight, Refunds!Rec
  <2> QED
    BY <1>9, <2>1, <2>2, <2>3, DeskBooksKeep DEF Refunds!DeskInv, Refunds!RequestsSound
<1>10. CASE Refunds!WindowEnds \/ UNCHANGED Refunds!vars
  BY <1>0, <1>9, <1>10 DEF Refunds!WindowEnds, Refunds!vars, Refunds!DeskInv, Refunds!TypeOK
<1>11. ASSUME NEW w \in Trio, ~Refunds!Commit(w),
              \/ Refunds!Queue(w) \/ Refunds!SelfService(w) \/ Refunds!Lookup(w)
              \/ Refunds!NotFound(w) \/ Refunds!StripeRefunds(w)
              \/ Refunds!StripeFails(w) \/ Refunds!Deny(w) \/ Refunds!Crash(w)
       PROVE  Refunds!DeskInv' /\ rid' = rid
  BY <1>2, <1>3, <1>4, <1>5, <1>6, <1>7, <1>8, <1>11
     DEF Refunds!Queue, Refunds!SelfService, Refunds!Lookup, Refunds!NotFound,
         Refunds!StripeRefunds, Refunds!Deny
<1> QED
  BY <1>0, <1>10, <1>11, DeskCommitKeeps DEF Refunds!Next

\* Whoever decides on a record at the same time, whatever Stripe answers and wherever a
\* request is cut off: the audit trail of every record is one chain that ends at its row
\* (TrailTells).
THEOREM DeskTrail ==
    ASSUME Refunds!DeskAssumption
    PROVE  Refunds!Spec => []Refunds!TrailTells
<1>1. Refunds!DeskInv => Refunds!TrailTells
  BY DEF Refunds!DeskInv
<1> QED
  BY <1>1, DeskInit, DeskStep, PTL DEF Refunds!Spec

\* Every refund in the books was made by Stripe for that record, and credits are reversed
\* at most once for each (BooksTrue, ReversedWithMoney).
THEOREM DeskBooks ==
    ASSUME Refunds!DeskAssumption
    PROVE  Refunds!Spec => [](Refunds!BooksTrue /\ Refunds!ReversedWithMoney)
<1>1. Refunds!DeskInv => Refunds!BooksTrue /\ Refunds!ReversedWithMoney
  BY DEF Refunds!DeskInv
<1> QED
  BY <1>1, DeskInit, DeskStep, PTL DEF Refunds!Spec

\* A record whose money has gone back is never shown as pending or denied again.
THEOREM DeskPaidStays ==
    ASSUME Refunds!DeskAssumption
    PROVE  Refunds!Spec => Refunds!PaidStays
<1>1. Refunds!DeskInv /\ [Refunds!Next]_Refunds!vars => [Refunds!StillPaid]_Refunds!vars
  BY DeskStep
<1> QED
  BY <1>1, DeskInit, DeskStep, PTL DEF Refunds!Spec, Refunds!PaidStays

\* In the scene of the refunds, RefundDesk's invariant holds.
LEMMA RefundsScene == Spec => [](scene = "refunds" => Refunds!DeskInv)
<1>1. Init /\ scene = "refunds" => Refunds!DeskInv
    BY BillingAssumption, DeskInit DEF Init
<1>2. ASSUME scene = "refunds" => Refunds!DeskInv, [Next]_vars
      PROVE  (scene = "refunds" => Refunds!DeskInv)'
  <2>1. scene = "refunds" => [Refunds!Next]_Refunds!vars
    BY <1>2, ScenesApart DEF deskVars, Refunds!vars
  <2> QED BY <1>2, <2>1, BillingAssumption, ScenesApart, DeskStep
<1> QED BY <1>1, <1>2, PTL DEF Spec

\* RefundsTell (refund.py 242-372) for any sets of records and of requests, not only those of
\* the cfg.
THEOREM RefundsAgree == Spec => []RefundsTell
<1>1. (scene = "refunds" => Refunds!DeskInv) => RefundsTell
    BY DEF RefundsTell, Refunds!DeskInv
<1> QED BY <1>1, RefundsScene, PTL

-----------------------------------------------------------------------------
(***************************************************************************)
(* A promotion code (PromoCodes), for any set of requests and whether or   *)
(* not they overlap: the lock is held from the decision to the commit, and *)
(* a loaded row is never ahead of the redemptions.                         *)
(***************************************************************************)
\* The finite sets of the instance are those of FiniteSets.
LEMMA PromoSame ==
    ASSUME NEW cfg, NEW S
    PROVE  /\ Promos(cfg)!IsFiniteSet(S) <=> IsFiniteSet(S)
           /\ Promos(cfg)!Cardinality(S) = Cardinality(S)
BY DEF Promos!IsFiniteSet, IsFiniteSet, Promos!Cardinality, Cardinality

\* The invariant holds when the code is made.
LEMMA PromoStart ==
    ASSUME NEW cfg, Promos(cfg)!PromoAssumption, Promos(cfg)!Init
    PROVE  Promos(cfg)!PromoInv
<1>1. Promos(cfg)!TypeOK
  <2>1. row \in Promos(cfg)!Row /\ Promos(cfg)!Unseen \in Promos(cfg)!Row
    <3>1. 1 \in 1 .. 2 /\ {0} \subseteq Nat /\ {TRUE} \subseteq BOOLEAN
      BY DEF Promos!PromoAssumption
    <3>2. Promos(cfg)!Unseen \in Promos(cfg)!Row
      BY <3>1 DEF Promos!Row, Promos!Unseen, Promos!Dues
    <3>3. row \in [limit : 1 .. 2, count : {0}, active : {TRUE}, due : Promos(cfg)!Dues]
      BY DEF Promos!Init
    <3>4. row \in Promos(cfg)!Row
      BY <3>1, <3>3 DEF Promos!Row
    <3> QED BY <3>2, <3>4
  <2> QED BY <2>1 DEF Promos!Init, Promos!TypeOK, Promos!Clock
<1>2. Promos(cfg)!IsFiniteSet(redeemed) /\ Promos(cfg)!Cardinality(redeemed) = 0
  BY PromoSame, FS_EmptySet DEF Promos!Init
<1> QED
  BY <1>1, <1>2
     DEF Promos!PromoAssumption, Promos!Init, Promos!PromoInv, Promos!LockSound, Promos!KindSound,
         Promos!SeenNotAhead, Promos!SeenInTurn, Promos!Running, Promos!NoDuplicateError,
         Promos!GrantedOnce, Promos!CountNotAhead, Promos!CountTrue, Promos!Unseen

\* One more redemption is one more.
LEMMA PromoOneMore ==
    ASSUME NEW cfg, Promos(cfg)!PromoInv, NEW u \in Two, u \notin redeemed,
        redeemed' = redeemed \cup {u}
    PROVE  /\ Promos(cfg)!IsFiniteSet(redeemed')
           /\ Promos(cfg)!Cardinality(redeemed) \in Nat
           /\ Promos(cfg)!Cardinality(redeemed') = Promos(cfg)!Cardinality(redeemed) + 1
<1> QED BY PromoSame, FS_AddElement, FS_CardinalityType DEF Promos!PromoInv

\* A request that ends gives the lock back.
LEMMA PromoLeaving ==
    ASSUME NEW cfg, Promos(cfg)!PromoInv, Promos(cfg)!PromoAssumption, NEW r \in cfg.requests,
        NEW l \in {"done", "lost"}, Promos(cfg)!Leave(r, l), Promos(cfg)!Running(r)
    PROVE  /\ codeLock' \in cfg.requests \cup {Nobody}
           /\ codePc' \in [cfg.requests -> {"idle", "lock", "decide", "commit", "lost", "done"}]
           /\ seen' \in [cfg.requests -> Promos(cfg)!Row]
           /\ Promos(cfg)!LockSound'
           /\ ~Promos(cfg)!Running(r)'
           /\ \A o \in cfg.requests \ {r} : codePc'[o] = codePc[o] /\ seen'[o] = seen[o]
           /\ codePc'[r] = l /\ seen'[r] = Promos(cfg)!Unseen
  BY DEF Promos!PromoInv, Promos!TypeOK, Promos!LockSound, Promos!Leave, Promos!Goto,
         Promos!Running, Promos!PromoAssumption, Promos!Unseen, Promos!Row, Promos!Dues

\* A redemption is counted once and, requests coming one at a time, below the limit.
LEMMA PromoCommitKeeps ==
    ASSUME NEW cfg, Promos(cfg)!PromoInv, Promos(cfg)!PromoAssumption, NEW r \in cfg.requests,
        Promos(cfg)!Commit(r)
    PROVE  Promos(cfg)!PromoInv' /\ Promos(cfg)!BelowLimit
<1>1. /\ Promos(cfg)!User(r) \in Two /\ Promos(cfg)!User(r) \notin redeemed /\ codeLock = r
      /\ redeemed' = redeemed \cup {Promos(cfg)!User(r)} /\ Promos(cfg)!Running(r)
  BY DEF Promos!PromoInv, Promos!TypeOK, Promos!NoDuplicateError, Promos!LockSound, Promos!Commit,
         Promos!User, Promos!Job, Promos!Running
<1>2. /\ Promos(cfg)!IsFiniteSet(redeemed') /\ Promos(cfg)!Cardinality(redeemed) \in Nat
      /\ Promos(cfg)!Cardinality(redeemed') = Promos(cfg)!Cardinality(redeemed) + 1
  BY <1>1, PromoOneMore
<1>3. /\ codeLock' \in cfg.requests \cup {Nobody}
      /\ codePc' \in [cfg.requests -> {"idle", "lock", "decide", "commit", "lost", "done"}]
      /\ seen' \in [cfg.requests -> Promos(cfg)!Row]
      /\ Promos(cfg)!LockSound' /\ ~Promos(cfg)!Running(r)'
      /\ \A o \in cfg.requests \ {r} : codePc'[o] = codePc[o] /\ seen'[o] = seen[o]
      /\ codePc'[r] = "done" /\ seen'[r] = Promos(cfg)!Unseen
  BY <1>1, PromoLeaving DEF Promos!Commit
<1>4. seen[r].count \in Nat /\ seen[r].count <= Promos(cfg)!Cardinality(redeemed)
  BY DEF Promos!PromoInv, Promos!TypeOK, Promos!SeenNotAhead, Promos!Row
<1>5. row' \in Promos(cfg)!Row /\ row'.count = seen[r].count + 1 /\ row'.limit = row.limit
  BY <1>4 DEF Promos!PromoInv, Promos!TypeOK, Promos!Commit, Promos!NextCount, Promos!Row
<1>6. granted' \in [Two -> Nat] /\ Promos(cfg)!GrantedOnce'
  <2>1. grantType = "grant" => codeJob[r].op = "redeem"
    BY <1>1 DEF Promos!PromoInv, Promos!KindSound, Promos!Running, Promos!TypeOK
  <2> QED BY <1>1, <2>1 DEF Promos!PromoInv, Promos!TypeOK, Promos!GrantedOnce, Promos!Commit
<1>7. Promos(cfg)!TypeOK'
  BY <1>1, <1>3, <1>5, <1>6 DEF Promos!PromoInv, Promos!TypeOK, Promos!Commit, Promos!stripe
<1>8. \A o \in cfg.requests \ {r} : codePc[o] # "commit"
  BY <1>1 DEF Promos!PromoInv, Promos!LockSound
<1>9. Promos(cfg)!KindSound' /\ Promos(cfg)!NoDuplicateError'
  BY <1>3, <1>8
     DEF Promos!PromoInv, Promos!KindSound, Promos!NoDuplicateError, Promos!Running, Promos!Commit
<1>10. Promos(cfg)!SeenNotAhead'
  <2>1. \A o \in cfg.requests : seen[o].count \in Nat
    BY DEF Promos!PromoInv, Promos!TypeOK, Promos!Row
  <2> QED BY <1>2, <1>3, <2>1 DEF Promos!PromoInv, Promos!SeenNotAhead, Promos!Unseen
<1>11. Promos(cfg)!CountNotAhead'
  BY <1>2, <1>4, <1>5 DEF Promos!CountNotAhead
<1>12. ~cfg.overlap => seen[r] = row /\ row.count = Promos(cfg)!Cardinality(redeemed)
      /\ row.count < row.limit
      /\ \A o \in cfg.requests : Promos(cfg)!Running(o) => o = r
  BY <1>1 DEF Promos!PromoInv, Promos!SeenInTurn, Promos!CountTrue, Promos!Commit
<1>13. Promos(cfg)!CountTrue'
  BY <1>2, <1>4, <1>5, <1>12 DEF Promos!CountTrue
<1>14. Promos(cfg)!SeenInTurn'
  BY <1>3, <1>12 DEF Promos!SeenInTurn, Promos!Running
<1>15. Promos(cfg)!BelowLimit
  BY <1>12 DEF Promos!BelowLimit
<1> QED
  BY <1>2, <1>3, <1>6, <1>7, <1>9, <1>10, <1>11, <1>13, <1>14, <1>15 DEF Promos!PromoInv

\* Steps that add no redemption.
LEMMA PromoOthers ==
    ASSUME NEW cfg, Promos(cfg)!PromoInv, Promos(cfg)!PromoAssumption,
        UNCHANGED <<redeemed, granted, grantType>>,
           Promos(cfg)!TypeOK', Promos(cfg)!LockSound', row'.count = row.count,
           \A r \in cfg.requests : Promos(cfg)!Running(r)' => codeJob'[r] = codeJob[r]
               /\ (codeJob[r].op = "redeem" \/ grantType = "discount"),
           \A r \in cfg.requests : codePc'[r] = "commit" => codePc[r] = "commit"
               \/ Promos(cfg)!Accept(r),
           \A r \in cfg.requests : seen'[r] \in {seen[r], row, Promos(cfg)!Unseen},
           Promos(cfg)!SeenInTurn'
    PROVE  Promos(cfg)!PromoInv' /\ Promos(cfg)!BelowLimit
<1>1. Promos(cfg)!KindSound'
  BY DEF Promos!PromoInv, Promos!KindSound, Promos!Accept, Promos!Running
<1>2. Promos(cfg)!NoDuplicateError'
  BY DEF Promos!PromoInv, Promos!NoDuplicateError, Promos!Accept, Promos!Accepts, Promos!User,
         Promos!Running
<1>3. Promos(cfg)!SeenNotAhead'
  BY PromoSame, FS_CardinalityType
     DEF Promos!PromoInv, Promos!SeenNotAhead, Promos!CountNotAhead, Promos!Unseen
<1> QED
  BY <1>1, <1>2, <1>3
     DEF Promos!PromoInv, Promos!GrantedOnce, Promos!CountNotAhead, Promos!CountTrue,
         Promos!BelowLimit

\* Every step keeps the invariant and adds no redemption beyond the limit.
LEMMA PromoStep ==
    ASSUME NEW cfg, Promos(cfg)!PromoInv, Promos(cfg)!PromoAssumption,
        [Promos(cfg)!Next]_(Promos(cfg)!vars)
    PROVE  Promos(cfg)!PromoInv' /\ Promos(cfg)!BelowLimit
<1>1. ASSUME NEW r \in cfg.requests, Promos(cfg)!Lookup(r)
      PROVE  Promos(cfg)!PromoInv' /\ Promos(cfg)!BelowLimit
  <2>1. Promos(cfg)!TypeOK' /\ Promos(cfg)!LockSound'
    BY <1>1
       DEF Promos!Lookup, Promos!PromoInv, Promos!TypeOK, Promos!LockSound, Promos!Goto,
           Promos!code, Promos!stripe
  <2>2. Promos(cfg)!SeenInTurn'
    BY <1>1
       DEF Promos!Lookup, Promos!PromoInv, Promos!TypeOK, Promos!SeenInTurn, Promos!Goto,
           Promos!Running, Promos!Quiet, Promos!code
  <2> QED
    BY <1>1, <2>1, <2>2, PromoOthers
       DEF Promos!Lookup, Promos!PromoInv, Promos!TypeOK, Promos!KindSound, Promos!Goto,
           Promos!Running, Promos!code
<1>2. ASSUME NEW r \in cfg.requests, Promos(cfg)!Lock(r)
      PROVE  Promos(cfg)!PromoInv' /\ Promos(cfg)!BelowLimit
  <2>1. Promos(cfg)!TypeOK' /\ Promos(cfg)!LockSound'
    BY <1>2
       DEF Promos!Lock, Promos!PromoInv, Promos!TypeOK, Promos!LockSound, Promos!Goto,
           Promos!code, Promos!stripe, Promos!PromoAssumption
  <2>2. Promos(cfg)!SeenInTurn'
    BY <1>2
       DEF Promos!Lock, Promos!PromoInv, Promos!TypeOK, Promos!SeenInTurn, Promos!Goto,
           Promos!Running, Promos!code
  <2> QED
    BY <1>2, <2>1, <2>2, PromoOthers
       DEF Promos!Lock, Promos!PromoInv, Promos!TypeOK, Promos!KindSound, Promos!Goto,
           Promos!Running, Promos!code
<1>3. ASSUME NEW r \in cfg.requests, Promos(cfg)!Refuse(r) \/ Promos(cfg)!Crash(r)
      \/ Promos(cfg)!Discount(r) PROVE Promos(cfg)!PromoInv' /\ Promos(cfg)!BelowLimit
  <2>1. /\ Promos(cfg)!Running(r)
        /\ UNCHANGED <<Promos(cfg)!code, redeemed, granted, codePaid, codeJob>>
        /\ \E l \in {"done", "lost"} : Promos(cfg)!Leave(r, l)
        /\ sessions' \in [Two -> Nat]
    BY <1>3
       DEF Promos!Refuse, Promos!Crash, Promos!Discount, Promos!Running, Promos!PromoInv,
           Promos!TypeOK, Promos!stripe, Promos!code
  <2>2. Promos(cfg)!TypeOK' /\ Promos(cfg)!LockSound'
    BY <2>1, PromoLeaving DEF Promos!PromoInv, Promos!TypeOK, Promos!code
  <2>3. Promos(cfg)!SeenInTurn'
    BY <2>1, PromoLeaving DEF Promos!PromoInv, Promos!SeenInTurn, Promos!Running, Promos!code
  <2> QED
    BY <2>1, <2>2, <2>3, PromoLeaving, PromoOthers
       DEF Promos!PromoInv, Promos!KindSound, Promos!Running, Promos!code
<1>4. ASSUME NEW r \in cfg.requests, Promos(cfg)!Accept(r)
      PROVE  Promos(cfg)!PromoInv' /\ Promos(cfg)!BelowLimit
  <2>1. Promos(cfg)!TypeOK' /\ Promos(cfg)!LockSound'
    BY <1>4
       DEF Promos!Accept, Promos!PromoInv, Promos!TypeOK, Promos!LockSound, Promos!Goto,
           Promos!code, Promos!stripe
  <2>2. Promos(cfg)!SeenInTurn'
    BY <1>4
       DEF Promos!Accept, Promos!Accepts, Promos!Redeemable, Promos!PromoInv, Promos!TypeOK,
           Promos!SeenInTurn, Promos!Goto, Promos!Running, Promos!code
  <2> QED
    BY <1>4, <2>1, <2>2, PromoOthers
       DEF Promos!Accept, Promos!PromoInv, Promos!TypeOK, Promos!KindSound, Promos!Goto,
           Promos!Running, Promos!code
<1>5. ASSUME NEW r \in cfg.requests, Promos(cfg)!Commit(r)
      PROVE  Promos(cfg)!PromoInv' /\ Promos(cfg)!BelowLimit
  BY <1>5, PromoCommitKeeps
<1>6. ASSUME \/ \E u \in Two : Promos(cfg)!Pay(u)
             \/ Promos(cfg)!Tick
             \/ UNCHANGED Promos(cfg)!vars
      PROVE Promos(cfg)!PromoInv' /\ Promos(cfg)!BelowLimit
  <2>1. /\ UNCHANGED <<row, grantType, allowed, redeemed, granted, codeLock, codePc, codeJob,
             seen>>
        /\ sessions' \in [Two -> Nat] /\ codePaid' \in [Two -> Nat]
        /\ clock' \in Promos(cfg)!Clock
    <3>1. CASE \E u \in Two : Promos(cfg)!Pay(u)
      BY <3>1 DEF Promos!Pay, Promos!PromoInv, Promos!TypeOK, Promos!code
    <3>2. CASE Promos(cfg)!Tick \/ UNCHANGED Promos(cfg)!vars
      BY <3>2
         DEF Promos!Tick, Promos!vars, Promos!PromoInv, Promos!TypeOK, Promos!Clock, Promos!code,
             Promos!stripe
    <3> QED BY <1>6, <3>1, <3>2
  <2> QED
    BY <2>1
       DEF Promos!PromoInv, Promos!TypeOK, Promos!LockSound, Promos!KindSound,
           Promos!SeenNotAhead, Promos!SeenInTurn, Promos!Running, Promos!NoDuplicateError,
           Promos!User, Promos!GrantedOnce, Promos!CountNotAhead, Promos!CountTrue,
           Promos!BelowLimit
<1>7. ASSUME Promos(cfg)!Update PROVE Promos(cfg)!PromoInv' /\ Promos(cfg)!BelowLimit
  <2>1. Promos(cfg)!TypeOK' /\ Promos(cfg)!LockSound' /\ row'.count = row.count
    BY <1>7
       DEF Promos!Update, Promos!PromoInv, Promos!TypeOK, Promos!LockSound, Promos!Row,
           Promos!stripe
  <2>2. Promos(cfg)!SeenInTurn'
    BY <1>7 DEF Promos!Update, Promos!PromoInv, Promos!SeenInTurn, Promos!Running, Promos!Quiet
  <2> QED
    BY <1>7, <2>1, <2>2, PromoOthers
       DEF Promos!Update, Promos!PromoInv, Promos!KindSound, Promos!Running
<1> QED
  BY <1>1, <1>2, <1>3, <1>4, <1>5, <1>6, <1>7 DEF Promos!Next

-----------------------------------------------------------------------------
(***************************************************************************)
(* The top-up (TopUp), for any set of requests: who has locked an account  *)
(* has seen it unclaimed and empty.                                        *)
(***************************************************************************)
\* The invariants hold before the first claim.
LEMMA TopUpStart ==
    ASSUME NEW cfg, TopUps(cfg)!TopUpAssumption, TopUps(cfg)!Init
    PROVE  TopUps(cfg)!InTurnInv
  BY DEF TopUps!TopUpAssumption, TopUps!Init, TopUps!InTurnInv, TopUps!TopUpInv, TopUps!TypeOK,
         TopUps!HeldSound, TopUps!OncePerAccount, TopUps!OncePerDevice, TopUps!Idle

\* Every step keeps the invariant and tops up no balance that is not empty.
LEMMA TopUpStep ==
    ASSUME NEW cfg, TopUps(cfg)!TopUpInv, TopUps(cfg)!TopUpAssumption,
        [TopUps(cfg)!Next]_(TopUps(cfg)!vars)
    PROVE  TopUps(cfg)!TopUpInv' /\ TopUps(cfg)!EmptyIfClaimed
<1>1. ASSUME NEW a \in Two, TopUps(cfg)!Spend(a) \/ TopUps(cfg)!Grant(a)
      \/ TopUps(cfg)!Subscribe(a)
      PROVE  TopUps(cfg)!TopUpInv' /\ TopUps(cfg)!EmptyIfClaimed
  <2>1. TopUps(cfg)!TypeOK'
    <3>1. CASE TopUps(cfg)!Spend(a)
      BY <3>1 DEF TopUps!Spend, TopUps!TopUpInv, TopUps!TypeOK
    <3>2. CASE TopUps(cfg)!Grant(a)
      <4>1. grants[a] + 1 \in 0 .. 1
        BY <3>2 DEF TopUps!Grant, TopUps!TopUpInv, TopUps!TypeOK, TopUps!TopUpAssumption
      <4> QED BY <3>2, <4>1 DEF TopUps!Grant, TopUps!TopUpInv, TopUps!TypeOK
    <3>3. CASE TopUps(cfg)!Subscribe(a)
      BY <3>3 DEF TopUps!Subscribe, TopUps!TopUpInv, TopUps!TypeOK
    <3> QED BY <1>1, <3>1, <3>2, <3>3
  <2>2. TopUps(cfg)!HeldSound'
    BY <1>1
       DEF TopUps!Spend, TopUps!Grant, TopUps!Subscribe, TopUps!Free, TopUps!TopUpInv,
           TopUps!TypeOK, TopUps!HeldSound, TopUps!TopUpAssumption
  <2> QED
    BY <1>1, <2>1, <2>2
       DEF TopUps!Spend, TopUps!Grant, TopUps!Subscribe, TopUps!TopUpInv, TopUps!TypeOK,
           TopUps!OncePerAccount, TopUps!EmptyIfClaimed
<1>2. ASSUME NEW r \in cfg.requests, NEW a \in Two, TopUps(cfg)!Ask(r, a)
      PROVE TopUps(cfg)!TopUpInv' /\ TopUps(cfg)!EmptyIfClaimed
  BY <1>2
     DEF TopUps!Ask, TopUps!TopUpInv, TopUps!TypeOK, TopUps!HeldSound, TopUps!OncePerAccount,
         TopUps!EmptyIfClaimed
<1>3. ASSUME NEW r \in cfg.requests, TopUps(cfg)!Lock(r)
      PROVE  TopUps(cfg)!TopUpInv' /\ TopUps(cfg)!EmptyIfClaimed
  BY <1>3
     DEF TopUps!Lock, TopUps!Free, TopUps!TopUpInv, TopUps!TypeOK, TopUps!HeldSound,
         TopUps!OncePerAccount, TopUps!EmptyIfClaimed, TopUps!TopUpAssumption
<1>4. ASSUME NEW r \in cfg.requests, TopUps(cfg)!Recheck(r)
      PROVE  TopUps(cfg)!TopUpInv' /\ TopUps(cfg)!EmptyIfClaimed
  <2>1. req[r].account \in Two /\ topLock[req[r].account] = r
    BY <1>4 DEF TopUps!Recheck, TopUps!TopUpInv, TopUps!HeldSound
  <2>2. TopUps(cfg)!TypeOK' /\ TopUps(cfg)!OncePerAccount' /\ TopUps(cfg)!EmptyIfClaimed
    BY <1>4
       DEF TopUps!Recheck, TopUps!TopUpInv, TopUps!TypeOK, TopUps!OncePerAccount,
           TopUps!EmptyIfClaimed, TopUps!Idle
  <2>3. TopUps(cfg)!HeldSound'
    <3>1. CASE TopUps(cfg)!Eligible(req[r].account)
      <4>1. claims[req[r].account] = 0 /\ balance[req[r].account] = 0
        BY <2>1, <3>1 DEF TopUps!Eligible, TopUps!Used, TopUps!TopUpInv, TopUps!TypeOK
      <4> QED
        BY <1>4, <2>1, <3>1, <4>1
           DEF TopUps!Recheck, TopUps!TopUpInv, TopUps!TypeOK, TopUps!HeldSound
    <3>2. CASE ~TopUps(cfg)!Eligible(req[r].account)
      BY <1>4, <2>1, <3>2
         DEF TopUps!Recheck, TopUps!TopUpInv, TopUps!TypeOK, TopUps!HeldSound, TopUps!Idle
    <3> QED BY <3>1, <3>2
  <2> QED BY <2>2, <2>3 DEF TopUps!TopUpInv
<1>5. ASSUME NEW r \in cfg.requests, TopUps(cfg)!Commit(r)
      PROVE  TopUps(cfg)!TopUpInv' /\ TopUps(cfg)!EmptyIfClaimed
  <2>1. /\ req[r].account \in Two /\ topLock[req[r].account] = r
        /\ claims[req[r].account] = 0 /\ balance[req[r].account] = 0
    BY <1>5 DEF TopUps!Commit, TopUps!TopUpInv, TopUps!HeldSound
  <2>2. TopUps(cfg)!TypeOK' /\ TopUps(cfg)!OncePerAccount' /\ TopUps(cfg)!EmptyIfClaimed
    BY <1>5, <2>1
       DEF TopUps!Commit, TopUps!TopUpInv, TopUps!TypeOK, TopUps!OncePerAccount,
           TopUps!EmptyIfClaimed, TopUps!Idle, TopUps!Amount
  <2>3. TopUps(cfg)!HeldSound'
    BY <1>5, <2>1
       DEF TopUps!Commit, TopUps!TopUpInv, TopUps!TypeOK, TopUps!HeldSound, TopUps!Idle,
           TopUps!Amount
  <2> QED BY <2>2, <2>3 DEF TopUps!TopUpInv
<1>6. CASE UNCHANGED TopUps(cfg)!vars
  BY <1>6
     DEF TopUps!vars, TopUps!TopUpInv, TopUps!TypeOK, TopUps!HeldSound, TopUps!OncePerAccount,
         TopUps!EmptyIfClaimed
<1> QED
  BY <1>1, <1>2, <1>3, <1>4, <1>5, <1>6 DEF TopUps!Next

\* One claim at a time, no two accounts of a device claim.
LEMMA TopUpStepInTurn ==
    ASSUME NEW cfg, TopUps(cfg)!InTurnInv, TopUps(cfg)!TopUpAssumption,
        [TopUps(cfg)!Next]_(TopUps(cfg)!vars), \A r, s \in cfg.requests : r = s
    PROVE  TopUps(cfg)!InTurnInv'
<1>1. TopUps(cfg)!TopUpInv' /\ device' = device
  BY TopUpStep
     DEF TopUps!InTurnInv, TopUps!Next, TopUps!Spend, TopUps!Grant, TopUps!Subscribe, TopUps!Ask,
         TopUps!Lock, TopUps!Recheck, TopUps!Commit, TopUps!vars
<1>2. CASE \E r \in cfg.requests : TopUps(cfg)!Commit(r)
  <2>1. PICK r \in cfg.requests : TopUps(cfg)!Commit(r)
    BY <1>2
  <2>2. /\ req[r].account \in Two /\ claims[req[r].account] = 0
        /\ ~TopUps(cfg)!Used(req[r].account)
    BY <2>1 DEF TopUps!Commit, TopUps!InTurnInv, TopUps!TopUpInv, TopUps!HeldSound
  <2>3. \A b \in Two : device[b] = device[req[r].account] /\ device[b] # NoDevice => claims[b] = 0
    BY <2>2 DEF TopUps!Used, TopUps!InTurnInv, TopUps!TopUpInv, TopUps!TypeOK
  <2>4. claims \in [Two -> Nat] /\ claims' = [claims EXCEPT ![req[r].account] = 1]
    BY <2>1, <2>2 DEF TopUps!Commit, TopUps!InTurnInv, TopUps!TopUpInv, TopUps!TypeOK
  <2>5. TopUps(cfg)!OncePerDevice'
    BY <1>1, <2>2, <2>3, <2>4 DEF TopUps!OncePerDevice, TopUps!InTurnInv
  <2>6. \A q \in cfg.requests : req'[q].pc # "granted"
    BY <2>1 DEF TopUps!Commit, TopUps!Idle, TopUps!InTurnInv, TopUps!TopUpInv, TopUps!TypeOK
  <2> QED BY <1>1, <2>5, <2>6 DEF TopUps!InTurnInv
<1>3. CASE ~(\E r \in cfg.requests : TopUps(cfg)!Commit(r))
  <2>1. claims' = claims
    BY <1>3
       DEF TopUps!Next, TopUps!Spend, TopUps!Grant, TopUps!Subscribe, TopUps!Ask, TopUps!Lock,
           TopUps!Recheck, TopUps!vars
  <2>2. \A q \in cfg.requests : req'[q].pc = "granted" =>
           \/ req[q].pc = "granted" /\ req'[q].account = req[q].account
           \/ TopUps(cfg)!Eligible(req[q].account) /\ req'[q].account = req[q].account
    BY <1>3
       DEF TopUps!Next, TopUps!Spend, TopUps!Grant, TopUps!Subscribe, TopUps!Ask, TopUps!Lock,
           TopUps!Recheck, TopUps!vars, TopUps!Idle, TopUps!InTurnInv, TopUps!TopUpInv,
           TopUps!TypeOK
  <2> QED
    BY <1>1, <2>1, <2>2 DEF TopUps!InTurnInv, TopUps!OncePerDevice, TopUps!Used, TopUps!Eligible
<1> QED BY <1>2, <1>3

-----------------------------------------------------------------------------
(***************************************************************************)
(* Limits and prices (PlanLimits), requests coming one at a time: what a   *)
(* request has found is what is active when it commits.                    *)
(***************************************************************************)
\* The first of a set of rows.
LEMMA LimitSmallest ==
    ASSUME NEW S, S \subseteq Nat, S # {}
    PROVE  Limits!Min(S) \in S /\ \A x \in S : Limits!Min(S) <= x
BY HasSmallest DEF Limits!Min

\* A nonempty set of rows has a newest one.
LEMMA LimitHasNewest ==
    ASSUME Limits!LimitAssumption, Limits!Rests, NEW set \in SUBSET Limits!Rows, set # {}
    PROVE  Limits!Newest(set) \in set
<1> DEFINE times == {rows[o].at : o \in set}
<1>1. times \subseteq 0 .. 2 * 3 /\ times # {} /\ 2 * 3 \in Nat
  BY DEF Limits!Rests, Limits!LimitAssumption
<1>2. PICK m \in times : \A x \in times : x <= m
  BY <1>1, Biggest
<1>3. PICK n \in set : rows[n].at = m
  OBVIOUS
<1>4. \A o \in set : rows[o].at <= rows[n].at
  BY <1>2, <1>3
<1> QED BY <1>4 DEF Limits!Newest

\* A row that is free to be used is found.
LEMMA LimitHasMin ==
    ASSUME Limits!LimitAssumption, NEW S \in SUBSET Limits!Rows, S # {}
    PROVE  Limits!Min(S) \in S
<1>1. S \subseteq Nat
  BY DEF Limits!Rows, Limits!LimitAssumption
<1> QED BY <1>1, LimitSmallest

\* The invariant holds of the seed.
LEMMA LimitStart ==
    ASSUME Limits!LimitAssumption, Limits!Init
    PROVE  Limits!LimitInv
<1>1. Limits!Unused \in [state : {"unused", "active", "retired"}, at : 0 .. 2 * 3,
                  amount : {1, 2}, terms : {5, 6}, ended : BOOLEAN]
  BY DEF Limits!LimitAssumption, Limits!Unused
<1>2. rows \in [Limits!Rows -> [state : {"unused", "active", "retired"}, at : 0 .. 2 * 3,
                  amount : {1, 2}, terms : {5, 6}, ended : BOOLEAN]]
  BY <1>1 DEF Limits!Init
<1> QED
  BY <1>2
     DEF Limits!Init, Limits!LimitInv, Limits!Rests, Limits!AloneInTurn, Limits!NewestUsed,
         Limits!Busy, Limits!Idle, Limits!LimitAssumption, Limits!NoRow, Limits!Rows

\* What the free grant copies is one of the terms.
LEMMA LimitCurrentTerms ==
    ASSUME Limits!LimitAssumption, Limits!LimitInv
    PROVE  Limits!Current.terms \in {5, 6}
  BY LimitHasNewest
     DEF Limits!Current, Limits!Unused, Limits!LimitAssumption, Limits!LimitInv, Limits!Rests,
         Limits!Active

\* A request begins: the free grant copies what is in force.
LEMMA LimitBeginKeeps ==
    ASSUME Limits!LimitAssumption, Limits!LimitInv, NEW r \in {"request"},
        NEW op \in {"create", "grant"},
           NEW a \in {1, 2}, NEW t \in {5, 6}, op = "grant" => t = Limits!Current.terms,
           Limits!Begin(r, op, a, t, "look")
    PROVE  Limits!LimitInv' /\ Limits!NewInForce /\ Limits!TermsKept
<1>1. UNCHANGED <<rows, newest>> /\ time + 1 \in 0 .. 2 * 3
  BY DEF Limits!Begin, Limits!LimitAssumption, Limits!LimitInv, Limits!Rests
<1> DEFINE fresh == [[Limits!Idle EXCEPT !.op = op, !.at = time + 1, !.amount = a, !.terms = t]
                  EXCEPT !.pc = "look"]
<1>2. /\ fresh \in [pc : {"idle", "look", "lock", "commit"},
                  op : {"none", "create", "grant"}, at : 0 .. 2 * 3,
                  amount : {1, 2}, terms : {5, 6}, found : SUBSET Limits!Rows]
      /\ fresh.pc = "look" /\ fresh.op = op /\ fresh.terms = t
      /\ edit' = [edit EXCEPT ![r] = fresh]
  BY <1>1 DEF Limits!Begin, Limits!Step, Limits!Idle, Limits!LimitAssumption
<1> HIDE DEF fresh
<1>3. Limits!Rests'
  BY <1>1, <1>2 DEF Limits!Begin, Limits!LimitInv, Limits!Rests
<1>4. Limits!Current' = Limits!Current /\ Limits!Active' = Limits!Active
  BY <1>1 DEF Limits!Current, Limits!Active, Limits!Newest, Limits!Unused
<1>5. Limits!AloneInTurn'
  BY <1>1, <1>2, <1>4
     DEF Limits!LimitInv, Limits!Rests, Limits!AloneInTurn, Limits!Busy, Limits!Begin
<1>6. Limits!NewInForce /\ Limits!TermsKept
  BY <1>1, <1>2
     DEF Limits!LimitInv, Limits!Rests, Limits!NewInForce, Limits!TermsKept, Limits!Begin,
         Limits!Busy
<1> QED BY <1>1, <1>3, <1>5, <1>6 DEF Limits!LimitInv, Limits!NewestUsed

\* A request inserts its row and retires the others.
LEMMA LimitCommitKeeps ==
    ASSUME Limits!LimitAssumption, Limits!LimitInv, NEW r \in {"request"},
        Limits!Commit(r)
    PROVE  Limits!LimitInv' /\ Limits!NewInForce /\ Limits!TermsKept
<1> DEFINE n == Limits!Min({m \in Limits!Rows : rows[m].state = "unused"})
           fresh == [state |-> "active", at |-> edit[r].at, ended |-> FALSE,
                   amount |-> edit[r].amount, terms |-> edit[r].terms]
<1>1. /\ edit[r].pc = "commit" /\ edit[r].found = Limits!Active
      /\ \E m \in Limits!Rows : rows[m].state = "unused"
      /\ \A o \in {"request"} : Limits!Busy(o) => o = r
      /\ edit[r].op = "grant" => edit[r].terms = Limits!Current.terms
  BY DEF Limits!Commit, Limits!LimitInv, Limits!AloneInTurn, Limits!Busy
<1>2. n \in Limits!Rows /\ rows[n].state = "unused"
  BY <1>1, LimitHasMin
<1> HIDE DEF n
<1>3. /\ newest' = n
      /\ rows' = [m \in Limits!Rows |-> IF m = n THEN fresh
                                 ELSE IF m \in Limits!Active
                                   THEN [rows[m] EXCEPT !.state = "retired", !.ended = TRUE]
                                   ELSE rows[m]]
      /\ edit' = [edit EXCEPT ![r] = Limits!Idle] /\ time' = time
  BY <1>1 DEF Limits!Commit, Limits!Retires, n
<1>4. fresh \in [state : {"unused", "active", "retired"}, at : 0 .. 2 * 3,
               amount : {1, 2}, terms : {5, 6}, ended : BOOLEAN]
  BY DEF Limits!LimitInv, Limits!Rests
<1>5. rows' \in [Limits!Rows -> [state : {"unused", "active", "retired"}, at : 0 .. 2 * 3,
                          amount : {1, 2}, terms : {5, 6}, ended : BOOLEAN]]
  BY <1>3, <1>4 DEF Limits!LimitInv, Limits!Rests
<1>6. Limits!Idle \in [pc : {"idle", "look", "lock", "commit"},
                op : {"none", "create", "grant"}, at : 0 .. 2 * 3,
                amount : {1, 2}, terms : {5, 6}, found : SUBSET Limits!Rows]
  BY DEF Limits!Idle, Limits!LimitAssumption
<1>7. Limits!Rests'
  BY <1>2, <1>3, <1>5, <1>6 DEF Limits!LimitInv, Limits!Rests
<1>8. Limits!AloneInTurn'
  BY <1>1, <1>3 DEF Limits!AloneInTurn, Limits!Busy, Limits!Idle, Limits!LimitInv, Limits!Rests
<1>9. Limits!NewestUsed'
  BY <1>2, <1>3 DEF Limits!NewestUsed
<1>10. Limits!NewInForce
  <2>1. \A m \in Limits!Rows : rows'[m].state = "active" <=> m = n
    <3>1. \A m \in Limits!Rows : m # n => rows'[m].state # "active"
      BY <1>3 DEF Limits!LimitInv, Limits!Rests, Limits!Active
    <3>2. rows'[n].state = "active"
      BY <1>2, <1>3
    <3> QED BY <3>1, <3>2
  <2> QED BY <1>2, <1>3, <2>1 DEF Limits!NewInForce
<1>11. Limits!TermsKept
  BY <1>1, <1>2, <1>3 DEF Limits!TermsKept, Limits!Busy
<1> QED BY <1>7, <1>8, <1>9, <1>10, <1>11 DEF Limits!LimitInv

\* A PATCH changes a row while no request is under way.
LEMMA LimitPatchKeeps ==
    ASSUME Limits!LimitAssumption, Limits!LimitInv, NEW r \in {"request"}, Limits!Patch(r)
    PROVE  Limits!LimitInv' /\ Limits!NewInForce /\ Limits!TermsKept
<1>1. UNCHANGED <<time, edit, newest>> /\ \A o \in {"request"} : ~Limits!Busy(o)
  BY DEF Limits!Patch
<1>2. PICK n \in Limits!Rows :
        /\ rows[n].state # "unused"
        /\ \/ \E t \in {5, 6} : rows' = [rows EXCEPT ![n].terms = t]
           \/ rows' = [rows EXCEPT ![n].state = "active"]
           \/ rows' = [rows EXCEPT ![n].state = "retired", ![n].ended = TRUE]
  BY DEF Limits!Patch
<1>3. rows' \in [Limits!Rows -> [state : {"unused", "active", "retired"}, at : 0 .. 2 * 3,
                          amount : {1, 2}, terms : {5, 6}, ended : BOOLEAN]]
  BY <1>2 DEF Limits!LimitInv, Limits!Rests
<1>4. Limits!NewestUsed'
  BY <1>1, <1>2 DEF Limits!LimitInv, Limits!Rests, Limits!NewestUsed
<1> QED
  BY <1>1, <1>3, <1>4
     DEF Limits!LimitInv, Limits!Rests, Limits!AloneInTurn, Limits!Busy, Limits!NewInForce,
         Limits!TermsKept

\* Every step keeps the invariant; a new row is the one in force, and a free grant keeps
\* the terms.
LEMMA LimitStep ==
    ASSUME Limits!LimitAssumption, Limits!LimitInv, [Limits!Next]_(Limits!vars)
    PROVE  Limits!LimitInv' /\ Limits!NewInForce /\ Limits!TermsKept
<1>1. ASSUME NEW r \in {"request"}, Limits!Create(r) \/ Limits!Grant(r)
      PROVE  Limits!LimitInv' /\ Limits!NewInForce /\ Limits!TermsKept
  BY <1>1, LimitBeginKeeps, LimitCurrentTerms DEF Limits!Create, Limits!Grant
<1>2. ASSUME NEW r \in {"request"}, NEW found \in SUBSET Limits!Rows,
      NEW pc \in {"lock", "commit"},
             edit[r].pc # "idle", found = Limits!Active,
             edit' = [edit EXCEPT ![r] = [edit[r] EXCEPT !.found = found, !.pc = pc]],
             UNCHANGED <<rows, time, newest>>, edit[r].pc # "commit"
      PROVE  Limits!LimitInv' /\ Limits!NewInForce /\ Limits!TermsKept
  <2>1. Limits!Rests'
    <3>1. [edit[r] EXCEPT !.found = found, !.pc = pc]
             \in [pc : {"idle", "look", "lock", "commit"},
                  op : {"none", "create", "grant"}, at : 0 .. 2 * 3,
                  amount : {1, 2}, terms : {5, 6}, found : SUBSET Limits!Rows]
      BY DEF Limits!LimitInv, Limits!Rests
    <3> QED BY <1>2, <3>1 DEF Limits!LimitInv, Limits!Rests
  <2>2. Limits!Current' = Limits!Current /\ Limits!Active' = Limits!Active
    BY <1>2 DEF Limits!Current, Limits!Active, Limits!Newest, Limits!Unused
  <2>3. Limits!AloneInTurn'
    BY <1>2, <2>2 DEF Limits!LimitInv, Limits!Rests, Limits!AloneInTurn, Limits!Busy
  <2> QED
    BY <1>2, <2>1, <2>3
       DEF Limits!LimitInv, Limits!Rests, Limits!NewestUsed, Limits!NewInForce, Limits!TermsKept
<1>3. ASSUME NEW r \in {"request"}, Limits!Look(r)
      PROVE  Limits!LimitInv' /\ Limits!NewInForce /\ Limits!TermsKept
  BY <1>2, <1>3 DEF Limits!Look, Limits!Step, Limits!Active, Limits!LimitInv, Limits!Rests
<1>4. ASSUME NEW r \in {"request"}, Limits!Lock(r)
      PROVE  Limits!LimitInv' /\ Limits!NewInForce /\ Limits!TermsKept
  <2>1. Limits!StillActive(r) = Limits!Active
    BY <1>4 DEF Limits!Lock, Limits!StillActive, Limits!LimitInv, Limits!AloneInTurn, Limits!Busy
  <2> QED
    BY <1>2, <1>4, <2>1 DEF Limits!Lock, Limits!Step, Limits!Active, Limits!LimitInv, Limits!Rests
<1>5. CASE UNCHANGED Limits!vars
  BY <1>5
     DEF Limits!vars, Limits!LimitInv, Limits!Rests, Limits!AloneInTurn, Limits!Busy,
         Limits!Current, Limits!Active, Limits!Newest, Limits!Unused, Limits!NewestUsed,
         Limits!NewInForce, Limits!TermsKept
<1> QED BY <1>1, <1>3, <1>4, <1>5, LimitCommitKeeps, LimitPatchKeeps DEF Limits!Next

-----------------------------------------------------------------------------
(***************************************************************************)
(* Plans (PlanDesk), for any finite set of subscriptions: a row that waits *)
(* for no event says what Stripe has.                                      *)
(***************************************************************************)
\* The finite sets of the instance are those of FiniteSets.
LEMMA PlanSame ==
    ASSUME NEW cfg, NEW S
    PROVE  /\ Plans(cfg)!IsFiniteSet(S) <=> IsFiniteSet(S)
           /\ Plans(cfg)!Cardinality(S) = Cardinality(S)
BY DEF Plans!IsFiniteSet, IsFiniteSet, Plans!Cardinality, Cardinality

\* The lowest price that nobody has.
LEMMA PlanSmallest ==
    ASSUME NEW cfg, NEW S, S \subseteq Nat, S # {}
    PROVE  Plans(cfg)!Min(S) \in S /\ \A x \in S : Plans(cfg)!Min(S) <= x
BY HasSmallest DEF Plans!Min

\* The counts the bounds are made of are numbers.
LEMMA PlanFinite ==
    ASSUME NEW cfg, Plans(cfg)!PlanAssumption
    PROVE  /\ Plans(cfg)!Cardinality(cfg.codes) \in Nat /\ "none" \notin cfg.codes
           /\ Plans(cfg)!Cardinality(cfg.subs) \in Nat
           /\ 0 \in 0 .. Plans(cfg)!Cardinality(cfg.subs)
           /\ 0 \in 0 .. cfg.prices /\ Plans(cfg)!Prices \subseteq 0 .. cfg.prices
           /\ \A p \in Plans(cfg)!Prices : p \in Nat
<1>1. Plans(cfg)!IsFiniteSet({"monthly_pro", "monthly_premium", "best_monthly"})
  <2>1. Plans(cfg)!IsFiniteSet({"monthly_pro"})
    BY PlanSame, FS_Singleton
  <2>2. Plans(cfg)!IsFiniteSet({"monthly_pro"} \cup {"monthly_premium"})
    BY <2>1, PlanSame, FS_AddElement
  <2>3. Plans(cfg)!IsFiniteSet(({"monthly_pro"} \cup {"monthly_premium"}) \cup {"best_monthly"})
    BY <2>2, PlanSame, FS_AddElement
  <2>4. ({"monthly_pro"} \cup {"monthly_premium"}) \cup {"best_monthly"} =
          {"monthly_pro", "monthly_premium", "best_monthly"}
    OBVIOUS
  <2> QED BY <2>3, <2>4
<1>2. Plans(cfg)!Cardinality(cfg.codes) \in Nat /\ Plans(cfg)!Cardinality(cfg.subs) \in Nat
  BY <1>1, PlanSame, FS_Subset, FS_CardinalityType DEF Plans!PlanAssumption
<1> QED BY <1>2 DEF Plans!PlanAssumption, Plans!Prices

\* The invariant holds before the first subscription.
LEMMA PlanStart ==
    ASSUME NEW cfg, Plans(cfg)!PlanAssumption, Plans(cfg)!Init
    PROVE  Plans(cfg)!PlanInv
<1>1. Plans(cfg)!NoSub \in Plans(cfg)!Stripes /\ Plans(cfg)!Absent \in Plans(cfg)!RowsOf
  BY PlanFinite DEF Plans!NoSub, Plans!Absent, Plans!NoPrice, Plans!Stripes, Plans!RowsOf
<1>2. Plans(cfg)!Idle \in [op : {"none", "cancel", "resume", "pause", "unpause", "change"},
                              sub : cfg.subs \cup {"none"}, price : 0 .. cfg.prices]
  BY PlanFinite DEF Plans!Idle, Plans!NoPrice
<1>3. sale \in [cfg.codes -> Plans(cfg)!Prices]
      /\ owner \in [Plans(cfg)!Prices -> cfg.codes \cup {"none"}]
  <2>1. 1 .. Plans(cfg)!Cardinality(cfg.codes) \subseteq Plans(cfg)!Prices
    BY PlanFinite DEF Plans!Prices, Plans!PlanAssumption
  <2> QED BY <2>1 DEF Plans!Init
<1>4. Plans(cfg)!Typed
  BY <1>1, <1>2, <1>3 DEF Plans!Init, Plans!Typed, Plans!TypeOK, Plans!Stripes, Plans!RowsOf
<1>5. Plans(cfg)!RowsSound /\ Plans(cfg)!Rows = {} /\ \A s \in cfg.subs : planRow[s].born = 0
      /\ planRow[s].status = "absent"
  BY DEF Plans!Init, Plans!RowsSound, Plans!Rows, Plans!NoSub, Plans!Absent
<1>6. Plans(cfg)!BirthsSound
  BY <1>5, PlanSame, FS_EmptySet DEF Plans!BirthsSound
<1> QED BY <1>4, <1>5, <1>6 DEF Plans!PlanInv

\* So does the one about prices, for an environment that names those of the beginning.
LEMMA PlanStartPriced ==
    ASSUME NEW cfg, Plans(cfg)!PlanAssumption, Plans(cfg)!OneChange, Plans(cfg)!Init
    PROVE  Plans(cfg)!PricedInv
<1>1. PICK order \in [cfg.codes -> 1 .. Plans(cfg)!Cardinality(cfg.codes)] :
        /\ sale = order
        /\ owner = [p \in Plans(cfg)!Prices |-> IF \E c \in cfg.codes : order[c] = p
                                     THEN CHOOSE c \in cfg.codes : order[c] = p ELSE "none"]
  BY DEF Plans!Init
<1>2. cfg.prices \in Plans(cfg)!Prices /\ owner[cfg.prices] = "none"
  BY <1>1, PlanFinite DEF Plans!OneChange, Plans!Prices
<1>3. \A c \in cfg.codes : owner[sale[c]] # "none"
  <2>1. 1 .. Plans(cfg)!Cardinality(cfg.codes) \subseteq Plans(cfg)!Prices
    BY PlanFinite DEF Plans!Prices, Plans!PlanAssumption
  <2> QED BY <1>1, <2>1, PlanFinite
<1> QED
  BY <1>2, <1>3, PlanStart
     DEF Plans!PricedInv, Plans!PricesSound, Plans!NoneParked, Plans!Init, Plans!Idle, Plans!NoSub

\* Steps that leave the rows alone.
LEMMA PlanRowsKeep ==
    ASSUME NEW cfg, Plans(cfg)!PlanInv, UNCHANGED <<planRow, parked>>, Plans(cfg)!Typed',
        pending \subseteq pending',
           \A s \in cfg.subs : stripe'[s] = stripe[s] \/ s \in pending'
    PROVE  Plans(cfg)!PlanInv'
<1>1. Plans(cfg)!BirthsSound'
  BY DEF Plans!PlanInv, Plans!BirthsSound, Plans!Rows
<1>2. Plans(cfg)!RowsSound'
  BY DEF Plans!PlanInv, Plans!RowsSound, Plans!StatusOf
<1> QED BY <1>1, <1>2 DEF Plans!PlanInv

\* A nonempty set of subscriptions has a newest row.
LEMMA PlanHasNewest ==
    ASSUME NEW cfg, Plans(cfg)!PlanAssumption, Plans(cfg)!Typed, NEW set \in SUBSET cfg.subs,
        set # {}
    PROVE  Plans(cfg)!Newest(set) \in set
<1> DEFINE births == {planRow[o].born : o \in set}
<1>1. births \subseteq 0 .. Plans(cfg)!Cardinality(cfg.subs) /\ births # {}
  BY DEF Plans!Typed, Plans!TypeOK, Plans!RowsOf
<1>2. PICK m \in births : \A x \in births : x <= m
  BY <1>1, PlanFinite, Biggest
<1>3. PICK s \in set : planRow[s].born = m
  OBVIOUS
<1>4. \A o \in set : planRow[o].born <= planRow[s].born
  BY <1>2, <1>3
<1> QED BY <1>4 DEF Plans!Newest

\* A request picks a subscription.
LEMMA PlanChooseKeeps ==
    ASSUME NEW cfg, Plans(cfg)!PlanAssumption, Plans(cfg)!PlanInv, NEW r \in {"request"},
           NEW op \in {"cancel", "resume", "pause", "unpause", "change"},
               NEW set \in SUBSET cfg.subs,
           set # {}, NEW price \in 0 .. cfg.prices,
           call' = [call EXCEPT ![r] = [op |-> op, sub |-> Plans(cfg)!Newest(set),
               price |-> price]],
           UNCHANGED <<stripe, planRow, pending, parked, owner, sale, override>>
    PROVE  Plans(cfg)!PlanInv'
<1>1. Plans(cfg)!Newest(set) \in cfg.subs
  BY PlanHasNewest DEF Plans!PlanInv
<1>2. Plans(cfg)!Typed'
  BY <1>1 DEF Plans!PlanInv, Plans!Typed, Plans!TypeOK
<1> QED BY <1>2, PlanRowsKeep

\* Stripe changes a subscription and sends an event.
LEMMA PlanModifyKeeps ==
    ASSUME NEW cfg, Plans(cfg)!PlanAssumption, Plans(cfg)!PlanInv, NEW r \in {"request"},
        Plans(cfg)!Modify(r)
    PROVE  Plans(cfg)!PlanInv'
<1>1. /\ call[r].sub \in cfg.subs /\ call[r].price \in 0 .. cfg.prices
      /\ call[r].op \in {"cancel", "resume", "pause", "unpause", "change"}
      /\ stripe[call[r].sub] \in Plans(cfg)!Stripes
  BY DEF Plans!Modify, Plans!PlanInv, Plans!Typed, Plans!TypeOK, Plans!Stripes
<1>2. /\ Plans(cfg)!Modified(stripe[call[r].sub], call[r]) \in Plans(cfg)!Stripes
      /\ Plans(cfg)!Modified(stripe[call[r].sub], call[r]).status = stripe[call[r].sub].status
  BY <1>1 DEF Plans!Modified, Plans!Stripes
<1>3. Plans(cfg)!Idle \in [op : {"none", "cancel", "resume", "pause", "unpause", "change"},
                sub : cfg.subs \cup {"none"}, price : 0 .. cfg.prices]
  BY PlanFinite DEF Plans!Idle, Plans!NoPrice
<1>4. /\ stripe' \in [cfg.subs -> Plans(cfg)!Stripes]
      /\ \A s \in cfg.subs : stripe'[s].status = stripe[s].status
      /\ pending' \subseteq cfg.subs /\ pending \subseteq pending'
      /\ \A s \in pending' : stripe[s].status # "none"
      /\ \A s \in cfg.subs : stripe'[s] = stripe[s] \/ s \in pending'
  <2>1. CASE stripe[call[r].sub].status = "active"
    <3>1. /\ stripe' = [stripe EXCEPT ![call[r].sub] = Plans(cfg)!Modified(stripe[call[r].sub],
               call[r])]
          /\ pending' = pending \cup {call[r].sub}
          /\ stripe \in [cfg.subs -> Plans(cfg)!Stripes] /\ pending \subseteq cfg.subs
          /\ \A s \in pending : stripe[s].status # "none"
      BY <2>1 DEF Plans!Modify, Plans!PlanInv, Plans!Typed, Plans!TypeOK, Plans!Stripes
    <3> QED BY <1>1, <1>2, <2>1, <3>1
  <2>2. CASE stripe[call[r].sub].status # "active"
    BY <2>2 DEF Plans!Modify, Plans!PlanInv, Plans!Typed, Plans!TypeOK, Plans!Stripes
  <2> QED BY <2>1, <2>2
<1>5. Plans(cfg)!Typed'
  BY <1>3, <1>4 DEF Plans!Modify, Plans!PlanInv, Plans!Typed, Plans!TypeOK, Plans!Stripes
<1> QED BY <1>4, <1>5, PlanRowsKeep DEF Plans!Modify

\* The next row to be born comes after those there are.
LEMMA PlanNextBirth ==
    ASSUME NEW cfg, Plans(cfg)!PlanAssumption, Plans(cfg)!PlanInv, NEW s \in cfg.subs
    PROVE  /\ Plans(cfg)!Max({planRow[o].born : o \in cfg.subs}) =
                Plans(cfg)!Cardinality(Plans(cfg)!Rows)
           /\ Plans(cfg)!IsFiniteSet(Plans(cfg)!Rows)
           /\ Plans(cfg)!Cardinality(Plans(cfg)!Rows) \in Nat
           /\ s \notin Plans(cfg)!Rows => Plans(cfg)!Cardinality(Plans(cfg)!Rows \cup {s}) =
                Plans(cfg)!Cardinality(Plans(cfg)!Rows) + 1
           /\ s \notin Plans(cfg)!Rows =>
                Plans(cfg)!Cardinality(Plans(cfg)!Rows) + 1
                     \in 0 .. Plans(cfg)!Cardinality(cfg.subs)
<1>1. Plans(cfg)!Rows \subseteq cfg.subs
  BY DEF Plans!Rows
<1>2. Plans(cfg)!IsFiniteSet(Plans(cfg)!Rows) /\ Plans(cfg)!Cardinality(Plans(cfg)!Rows) \in Nat
      /\ Plans(cfg)!Cardinality(Plans(cfg)!Rows) <= Plans(cfg)!Cardinality(cfg.subs)
  BY <1>1, PlanSame, FS_Subset, FS_CardinalityType DEF Plans!PlanAssumption
<1>3. ASSUME s \notin Plans(cfg)!Rows
      PROVE  /\ Plans(cfg)!Cardinality(Plans(cfg)!Rows \cup {s}) =
                  Plans(cfg)!Cardinality(Plans(cfg)!Rows) + 1
             /\ Plans(cfg)!Cardinality(Plans(cfg)!Rows) + 1
                     \in 0 .. Plans(cfg)!Cardinality(cfg.subs)
  <2>1. Plans(cfg)!Cardinality(Plans(cfg)!Rows \cup {s}) =
        Plans(cfg)!Cardinality(Plans(cfg)!Rows) + 1
    BY <1>2, <1>3, PlanSame, FS_AddElement
  <2>2. Plans(cfg)!Rows \cup {s} \subseteq cfg.subs
    BY <1>1
  <2>3. Plans(cfg)!Cardinality(Plans(cfg)!Rows \cup {s}) <= Plans(cfg)!Cardinality(cfg.subs)
    BY <2>2, PlanSame, FS_Subset DEF Plans!PlanAssumption
  <2> QED BY <1>2, <2>1, <2>3, PlanFinite
<1> DEFINE n == Plans(cfg)!Cardinality(Plans(cfg)!Rows)
           births == {planRow[o].born : o \in cfg.subs}
<1>4. {planRow[o].born : o \in Plans(cfg)!Rows} = 1 .. n
  BY DEF Plans!PlanInv, Plans!BirthsSound
<1>5. \A o \in cfg.subs : o \in Plans(cfg)!Rows \/ planRow[o].born = 0
  BY DEF Plans!PlanInv, Plans!BirthsSound, Plans!Rows
<1>6. \A x \in births : x \in 0 .. n
  BY <1>2, <1>4, <1>5
<1>7. n \in births
  <2>1. CASE n = 0
    <3>1. Plans(cfg)!Rows = {}
      BY <1>2, <2>1, PlanSame, FS_EmptySet
    <3> QED BY <1>5, <2>1, <3>1
  <2>2. CASE n # 0
    <3>1. n \in 1 .. n
      BY <1>2, <2>2
    <3> QED BY <1>1, <1>4, <3>1
  <2> QED BY <2>1, <2>2
<1>8. Plans(cfg)!Max(births) = n
  <2>1. \A x \in births : n >= x
    BY <1>2, <1>6
  <2>2. \A y \in births : (\A x \in births : y >= x) => y = n
    BY <1>2, <1>6, <1>7
  <2> HIDE DEF births, n
  <2> QED BY <1>7, <2>1, <2>2 DEF Plans!Max
<1> QED BY <1>2, <1>3, <1>8

\* An event is applied, or refused and parked.
LEMMA PlanSyncKeeps ==
    ASSUME NEW cfg, Plans(cfg)!PlanAssumption, Plans(cfg)!PlanInv, NEW s \in cfg.subs,
        Plans(cfg)!Sync(s)
    PROVE  Plans(cfg)!PlanInv'
<1> DEFINE x == stripe[s]
<1>0. /\ s \in pending /\ pending' = pending \ {s}
      /\ UNCHANGED <<stripe, owner, sale, call, override>>
      /\ planRow \in [cfg.subs -> Plans(cfg)!RowsOf] /\ x \in Plans(cfg)!Stripes
      /\ x.status \in {"active", "canceled"}
  BY DEF Plans!Sync, Plans!PlanInv, Plans!Typed, Plans!TypeOK, Plans!RowsOf, Plans!Stripes
<1>1. CASE x.status = "canceled" \/ Plans(cfg)!Name(x.price) = "none"
  <2>1. /\ planRow' = planRow \/ (planRow[s].status # "absent" /\ x.status = "canceled"
             /\ planRow' = [planRow EXCEPT ![s].status = "expired"])
        /\ parked' \subseteq parked \cup {s}
        /\ \A o \in cfg.subs : o # s => (o \in parked' <=> o \in parked)
        /\ s \in parked'
             \/ (x.status = "canceled" /\ planRow'[s].status \in {"absent", "expired"})
    BY <1>0, <1>1 DEF Plans!Sync, Plans!RowsOf
  <2>2. planRow' \in [cfg.subs -> Plans(cfg)!RowsOf]
        /\ \A o \in cfg.subs : planRow'[o].born = planRow[o].born
        /\ (planRow'[o].status = "absent" <=> planRow[o].status = "absent")
    BY <1>0, <2>1 DEF Plans!RowsOf
  <2>3. Plans(cfg)!Typed'
    BY <1>0, <2>1, <2>2 DEF Plans!PlanInv, Plans!Typed, Plans!TypeOK, Plans!RowsOf
  <2>4. Plans(cfg)!BirthsSound'
    <3>1. Plans(cfg)!Rows' = Plans(cfg)!Rows
      BY <2>2 DEF Plans!Rows
    <3>2. {planRow'[o].born : o \in Plans(cfg)!Rows} = {planRow[o].born : o \in Plans(cfg)!Rows}
      BY <2>2 DEF Plans!Rows
    <3> QED BY <2>2, <3>1, <3>2 DEF Plans!PlanInv, Plans!BirthsSound
  <2>5. Plans(cfg)!RowsSound'
    BY <1>0, <2>1 DEF Plans!PlanInv, Plans!RowsSound, Plans!StatusOf
  <2> QED BY <2>3, <2>4, <2>5 DEF Plans!PlanInv
<1>2. CASE x.status = "active" /\ Plans(cfg)!Name(x.price) # "none"
  <2> DEFINE code == Plans(cfg)!Name(x.price)
             born == IF planRow[s].born = 0
                 THEN 1 + Plans(cfg)!Max({planRow[o].born : o \in cfg.subs}) ELSE planRow[s].born
             tier == IF planRow[s].status = "absent" \/ Plans(cfg)!TierOf(code) # "standard"
                     THEN Plans(cfg)!TierOf(code) ELSE planRow[s].tier
             fresh == [status |-> Plans(cfg)!StatusOf(x), price |-> x.price,
                 plan |-> Plans(cfg)!PlanOf(code),
                     born |-> born, tier |-> tier]
  <2>1. planRow' = [planRow EXCEPT ![s] = fresh] /\ parked' = parked \ {s}
    BY <1>0, <1>2 DEF Plans!Sync
  <2>2. /\ Plans(cfg)!StatusOf(x) \in {"active", "paused", "cancelling"}
        /\ tier \in {"standard", "best"}
        /\ x.price \in 0 .. cfg.prices
    BY <1>0, <1>2 DEF Plans!StatusOf, Plans!TierOf, Plans!RowsOf, Plans!Stripes
  <2>3. Plans(cfg)!PlanOf(code) \in cfg.codes \cup {"none", "monthly_pro"}
    <3>1. \A p \in Plans(cfg)!Prices : Plans(cfg)!Name(p) \in cfg.codes \cup {"none"}
      BY DEF Plans!Name, Plans!PlanInv, Plans!Typed
    <3>2. x.price \in Plans(cfg)!Prices
      BY <1>2
         DEF Plans!Name, Plans!PlanInv, Plans!Typed, Plans!TypeOK, Plans!PlanAssumption,
             Plans!Prices
    <3> QED BY <3>1, <3>2 DEF Plans!PlanOf
  <2>4. /\ born \in 0 .. Plans(cfg)!Cardinality(cfg.subs) /\ born # 0
        /\ planRow[s].born = 0 => born = Plans(cfg)!Cardinality(Plans(cfg)!Rows) + 1
             /\ s \notin Plans(cfg)!Rows
        /\ planRow[s].born # 0 => born = planRow[s].born /\ s \in Plans(cfg)!Rows
    <3>1. planRow[s].born \in 0 .. Plans(cfg)!Cardinality(cfg.subs)
          /\ (planRow[s].born = 0 <=> s \notin Plans(cfg)!Rows)
      BY <1>0 DEF Plans!RowsOf, Plans!PlanInv, Plans!BirthsSound, Plans!Rows
    <3>2. CASE planRow[s].born = 0
      <4>1. /\ Plans(cfg)!Max({planRow[o].born : o \in cfg.subs}) =
                 Plans(cfg)!Cardinality(Plans(cfg)!Rows)
                 /\ Plans(cfg)!Cardinality(Plans(cfg)!Rows) \in Nat
            /\ Plans(cfg)!Cardinality(Plans(cfg)!Rows) + 1
                     \in 0 .. Plans(cfg)!Cardinality(cfg.subs)
                 /\ s \notin Plans(cfg)!Rows
        BY <3>1, <3>2, PlanNextBirth
      <4>2. born = Plans(cfg)!Cardinality(Plans(cfg)!Rows) + 1
        BY <3>2, <4>1
      <4> HIDE DEF born
      <4> QED BY <3>1, <3>2, <4>1, <4>2
    <3>3. CASE planRow[s].born # 0
      BY <3>1, <3>3
    <3> QED BY <3>2, <3>3
  <2>5. fresh \in Plans(cfg)!RowsOf
    BY <2>2, <2>3, <2>4 DEF Plans!RowsOf
  <2> HIDE DEF born, tier, code
  <2>6. Plans(cfg)!Typed'
    BY <1>0, <2>1, <2>5 DEF Plans!PlanInv, Plans!Typed, Plans!TypeOK, Plans!RowsOf
  <2>7. Plans(cfg)!RowsSound'
    BY <1>0, <1>2, <2>1 DEF Plans!PlanInv, Plans!RowsSound, Plans!StatusOf
  <2>8. Plans(cfg)!Rows' = Plans(cfg)!Rows \cup {s}
    BY <1>0, <2>1, <2>2 DEF Plans!Rows
  <2>9. \A o \in cfg.subs : planRow'[o].born = IF o = s THEN born ELSE planRow[o].born
    BY <1>0, <2>1
  <2>10. {planRow'[o].born : o \in Plans(cfg)!Rows'} =
        1 .. Plans(cfg)!Cardinality(Plans(cfg)!Rows')
    <3>0. {planRow[o].born : o \in Plans(cfg)!Rows} = 1 .. Plans(cfg)!Cardinality(Plans(cfg)!Rows)
          /\ Plans(cfg)!Cardinality(Plans(cfg)!Rows) \in Nat
      BY PlanNextBirth DEF Plans!PlanInv, Plans!BirthsSound
    <3>1. CASE s \in Plans(cfg)!Rows
      <4>1. Plans(cfg)!Rows' = Plans(cfg)!Rows
            /\ \A o \in Plans(cfg)!Rows : planRow'[o].born = planRow[o].born
        BY <2>4, <2>8, <2>9, <3>1 DEF Plans!Rows
      <4> QED BY <3>0, <4>1
    <3>2. CASE s \notin Plans(cfg)!Rows
      <4>1. Plans(cfg)!Cardinality(Plans(cfg)!Rows') = Plans(cfg)!Cardinality(Plans(cfg)!Rows) + 1
            /\ born = Plans(cfg)!Cardinality(Plans(cfg)!Rows) + 1
        BY <2>4, <2>8, <3>2, PlanNextBirth
      <4>2. {planRow'[o].born : o \in Plans(cfg)!Rows'} =
            {planRow[o].born : o \in Plans(cfg)!Rows} \cup {born}
        BY <2>8, <2>9, <3>2 DEF Plans!Rows
      <4> QED BY <3>0, <4>1, <4>2
    <3> QED BY <3>1, <3>2
  <2>11. \A o \in cfg.subs : planRow'[o].born = 0 <=> planRow'[o].status = "absent"
    BY <1>0, <2>1, <2>2, <2>4 DEF Plans!PlanInv, Plans!BirthsSound
  <2> QED BY <2>6, <2>7, <2>10, <2>11 DEF Plans!PlanInv, Plans!BirthsSound
<1> QED BY <1>0, <1>1, <1>2

\* Every step keeps the rows sound.
LEMMA PlanStep ==
    ASSUME NEW cfg, Plans(cfg)!PlanAssumption, Plans(cfg)!PlanInv,
        [Plans(cfg)!Next]_(Plans(cfg)!vars)
    PROVE  Plans(cfg)!PlanInv'
<1>1. ASSUME NEW s \in cfg.subs, Plans(cfg)!Pay(s) \/ Plans(cfg)!PeriodEnds(s)
      PROVE Plans(cfg)!PlanInv'
  <2>1. /\ UNCHANGED <<planRow, parked, owner, sale, call, override>>
        /\ pending' = pending \cup {s}
        /\ stripe \in [cfg.subs -> Plans(cfg)!Stripes]
    BY <1>1
       DEF Plans!Pay, Plans!PeriodEnds, Plans!PlanInv, Plans!Typed, Plans!TypeOK, Plans!Stripes
  <2>2. \E x \in Plans(cfg)!Stripes : x.status # "none" /\ stripe' = [stripe EXCEPT ![s] = x]
    <3>1. CASE Plans(cfg)!Pay(s)
      <4>1. PICK p \in Plans(cfg)!Prices : stripe' = [stripe EXCEPT ![s] = [Plans(cfg)!NoSub
            EXCEPT !.status = "active", !.price = p]]
        BY <3>1 DEF Plans!Pay
      <4>2. [Plans(cfg)!NoSub EXCEPT !.status = "active", !.price = p] \in Plans(cfg)!Stripes
        BY PlanFinite DEF Plans!NoSub, Plans!Stripes
      <4>3. [Plans(cfg)!NoSub EXCEPT !.status = "active", !.price = p].status = "active"
        BY DEF Plans!NoSub
      <4> QED BY <4>1, <4>2, <4>3
    <3>2. CASE Plans(cfg)!PeriodEnds(s)
      <4>1. /\ [stripe[s] EXCEPT !.status = "canceled"] \in Plans(cfg)!Stripes
            /\ [stripe[s] EXCEPT !.paused = FALSE] \in Plans(cfg)!Stripes
            /\ [stripe[s] EXCEPT !.status = "canceled"].status # "none"
            /\ [stripe[s] EXCEPT !.paused = FALSE].status # "none"
        BY <2>1, <3>2 DEF Plans!PeriodEnds, Plans!Stripes
      <4>2. \/ stripe' = [stripe EXCEPT ![s] = [stripe[s] EXCEPT !.status = "canceled"]]
            \/ stripe' = [stripe EXCEPT ![s] = [stripe[s] EXCEPT !.paused = FALSE]]
        BY <3>2 DEF Plans!PeriodEnds
      <4> QED BY <4>1, <4>2
    <3> QED BY <1>1, <3>1, <3>2
  <2>3. Plans(cfg)!Typed'
    BY <2>1, <2>2 DEF Plans!PlanInv, Plans!Typed, Plans!TypeOK, Plans!Stripes
  <2>4. \A o \in cfg.subs : stripe'[o] = stripe[o] \/ o \in pending'
    BY <2>1, <2>2
  <2> QED BY <2>1, <2>3, <2>4, PlanRowsKeep
<1>2. ASSUME NEW r \in {"request"},
             Plans(cfg)!Cancel(r) \/ Plans(cfg)!Resume(r) \/ Plans(cfg)!Pause(r)
                 \/ Plans(cfg)!ChangePlan(r) \/ Plans(cfg)!Unpause(r)
      PROVE  Plans(cfg)!PlanInv'
  <2>1. Plans(cfg)!Entitled \subseteq cfg.subs /\ Plans(cfg)!Rows \subseteq cfg.subs
        /\ 0 \in 0 .. cfg.prices
        /\ \A c \in cfg.codes : sale[c] \in 0 .. cfg.prices
    BY PlanFinite DEF Plans!Entitled, Plans!Rows, Plans!PlanInv, Plans!Typed, Plans!TypeOK
  <2> QED
    BY <1>2, <2>1, PlanChooseKeeps
       DEF Plans!Cancel, Plans!Resume, Plans!Pause, Plans!ChangePlan, Plans!Unpause, Plans!Choose,
           Plans!NoPrice
<1>3. ASSUME NEW r \in {"request"}, Plans(cfg)!Modify(r) PROVE Plans(cfg)!PlanInv'
  BY <1>3, PlanModifyKeeps
<1>4. ASSUME NEW s \in cfg.subs, Plans(cfg)!Sync(s) PROVE Plans(cfg)!PlanInv'
  BY <1>4, PlanSyncKeeps
<1>5. ASSUME NEW c \in cfg.codes, Plans(cfg)!Replace(c) PROVE Plans(cfg)!PlanInv'
  <2>1. Plans(cfg)!Min({q \in Plans(cfg)!Prices : owner[q] = "none"}) \in Plans(cfg)!Prices
    BY <1>5, PlanFinite, PlanSmallest DEF Plans!Replace
  <2>2. Plans(cfg)!Typed'
    BY <1>5, <2>1 DEF Plans!Replace, Plans!PlanInv, Plans!Typed, Plans!TypeOK
  <2> QED BY <1>5, <2>2, PlanRowsKeep DEF Plans!Replace
<1>6. CASE Plans(cfg)!Override \/ UNCHANGED Plans(cfg)!vars
  <2>1. UNCHANGED <<stripe, planRow, pending, parked, owner, sale, call>>
    BY <1>6 DEF Plans!Override, Plans!vars
  <2>2. Plans(cfg)!Typed'
    BY <2>1 DEF Plans!PlanInv, Plans!Typed, Plans!TypeOK
  <2> QED BY <2>1, <2>2, PlanRowsKeep
<1> QED BY <1>1, <1>2, <1>3, <1>4, <1>5, <1>6 DEF Plans!Next

\* A price that somebody pays is named.
LEMMA PlanNamed ==
    ASSUME NEW cfg, Plans(cfg)!PlanAssumption, Plans(cfg)!OneChange, Plans(cfg)!PlanInv,
        Plans(cfg)!PricesSound
    PROVE  /\ \A p \in Plans(cfg)!Prices : owner[p] # "none" => Plans(cfg)!Name(p) # "none"
           /\ \A s \in cfg.subs : stripe[s].status = "active" =>
                Plans(cfg)!Name(stripe[s].price) # "none"
<1>1. \A p \in Plans(cfg)!Prices : p \in cfg.env \/ p = cfg.prices
  BY PlanFinite DEF Plans!OneChange, Plans!Prices
<1> QED BY <1>1 DEF Plans!Name, Plans!PricesSound

\* With one price change, every price that is paid stays named.
LEMMA PlanPricedStep ==
    ASSUME NEW cfg, Plans(cfg)!PlanAssumption, Plans(cfg)!OneChange, Plans(cfg)!PricedInv,
        [Plans(cfg)!Next]_(Plans(cfg)!vars)
    PROVE  Plans(cfg)!PricedInv'
<1>0. /\ Plans(cfg)!PlanInv' /\ Plans(cfg)!PlanInv /\ Plans(cfg)!PricesSound /\ parked = {}
      /\ stripe \in [cfg.subs -> Plans(cfg)!Stripes]
      /\ owner \in [Plans(cfg)!Prices -> cfg.codes \cup {"none"}]
      /\ sale \in [cfg.codes -> Plans(cfg)!Prices] /\ \A p \in Plans(cfg)!Prices : p \in Nat
      /\ \A r \in {"request"} : call[r] # Plans(cfg)!Idle => call[r].sub \in cfg.subs
  BY PlanStep, PlanFinite
     DEF Plans!PricedInv, Plans!NoneParked, Plans!PlanInv, Plans!Typed, Plans!TypeOK,
         Plans!Stripes
<1>1. ASSUME NEW c \in cfg.codes, Plans(cfg)!Replace(c) PROVE Plans(cfg)!PricedInv'
  <2> DEFINE unowned == {q \in Plans(cfg)!Prices : owner[q] = "none"}
             p == Plans(cfg)!Min(unowned)
  <2>1. p \in Plans(cfg)!Prices /\ owner[p] = "none"
        /\ \A q \in Plans(cfg)!Prices : owner[q] = "none" => p <= q
    BY <1>0, <1>1, PlanSmallest DEF Plans!Replace
  <2>2. /\ owner' = [owner EXCEPT ![p] = c] /\ sale' = [sale EXCEPT ![c] = p]
        /\ UNCHANGED <<stripe, parked, call>>
    BY <1>1 DEF Plans!Replace
  <2> HIDE DEF p, unowned
  <2>3. c # "none" /\ cfg.prices \in Plans(cfg)!Prices /\ cfg.prices \in Nat
    BY PlanFinite DEF Plans!Prices, Plans!OneChange
  <2>4. owner[cfg.prices] = "none"
    BY <2>1 DEF Plans!PricedInv, Plans!PricesSound
  <2>5. \A q \in Plans(cfg)!Prices : owner[q] # "none" => owner'[q] # "none"
    BY <1>0, <2>2, <2>3
  <2>6. owner'[cfg.prices] # "none" => p = cfg.prices
        /\ \A q \in Plans(cfg)!Prices : owner'[q] # "none"
    <3>1. owner'[cfg.prices] # "none" => p = cfg.prices
      BY <1>0, <2>2, <2>4
    <3>2. \A q \in Plans(cfg)!Prices : q <= cfg.prices /\ q \in Nat
      BY <1>0 DEF Plans!Prices
    <3> QED BY <1>0, <2>1, <2>2, <2>3, <3>1, <3>2
  <2>7. \A d \in cfg.codes : owner'[sale'[d]] # "none"
    BY <1>0, <2>1, <2>2, <2>3, <2>5 DEF Plans!PricesSound
  <2>8. /\ \A r \in {"request"} : call'[r].op = "change" =>
              call'[r].price \in Plans(cfg)!Prices /\ owner'[call'[r].price] # "none"
        /\ \A s \in cfg.subs : stripe'[s].status = "active" =>
             stripe'[s].price \in Plans(cfg)!Prices /\ owner'[stripe'[s].price] # "none"
    BY <1>0, <2>2, <2>3 DEF Plans!PricesSound
  <2>9. sale'[c] = p
    BY <1>0, <2>2
  <2> QED
    BY <1>0, <2>2, <2>6, <2>7, <2>8, <2>9 DEF Plans!PricedInv, Plans!PricesSound, Plans!NoneParked
<1>2. ASSUME UNCHANGED <<owner, sale>>, parked' = {},
             \A r \in {"request"} : \/ call'[r] = call[r] \/ call'[r].op # "change"
                                    \/ \E c \in cfg.codes : call'[r].price = sale[c],
             \A s \in cfg.subs : \/ stripe'[s].status = "active" => stripe[s].status = "active"
                                      /\ stripe'[s].price = stripe[s].price
                                 \/ \E p \in Plans(cfg)!Prices : stripe'[s].price = p
                                      /\ owner[p] # "none"
      PROVE  Plans(cfg)!PricedInv'
  BY <1>0, <1>2 DEF Plans!PricedInv, Plans!PricesSound, Plans!NoneParked
<1>3. ASSUME NEW s \in cfg.subs, Plans(cfg)!Pay(s) PROVE Plans(cfg)!PricedInv'
  <2>1. PICK p \in Plans(cfg)!Prices : owner[p] # "none" /\ stripe' = [stripe
        EXCEPT ![s] = [Plans(cfg)!NoSub EXCEPT !.status = "active", !.price = p]]
    BY <1>3 DEF Plans!Pay
  <2>2. stripe'[s].price = p /\ \A o \in cfg.subs \ {s} : stripe'[o] = stripe[o]
    BY <1>0, <2>1 DEF Plans!NoSub
  <2> QED BY <1>0, <1>2, <1>3, <2>1, <2>2 DEF Plans!Pay
<1>4. ASSUME NEW s \in cfg.subs, Plans(cfg)!PeriodEnds(s) PROVE Plans(cfg)!PricedInv'
  <2>1. \A o \in cfg.subs : stripe'[o].price = stripe[o].price
        /\ (stripe'[o].status = "active" => stripe[o].status = "active")
    BY <1>0, <1>4 DEF Plans!PeriodEnds, Plans!Stripes
  <2> QED BY <1>0, <1>2, <1>4, <2>1 DEF Plans!PeriodEnds
<1>5. ASSUME NEW s \in cfg.subs, Plans(cfg)!Sync(s) PROVE Plans(cfg)!PricedInv'
  <2>1. /\ UNCHANGED <<stripe, owner, sale, call>>
        /\ parked' = {}
    BY <1>0, <1>5, PlanNamed
       DEF Plans!Sync, Plans!PlanInv, Plans!Typed, Plans!TypeOK, Plans!RowsOf, Plans!Stripes
  <2> QED BY <1>2, <2>1
<1>6. ASSUME NEW r \in {"request"},
             Plans(cfg)!Cancel(r) \/ Plans(cfg)!Resume(r) \/ Plans(cfg)!Pause(r)
                 \/ Plans(cfg)!ChangePlan(r) \/ Plans(cfg)!Unpause(r)
      PROVE  Plans(cfg)!PricedInv'
  <2>1. /\ UNCHANGED <<stripe, owner, sale, parked>>
        /\ \A q \in {"request"} \ {r} : call'[q] = call[q]
        /\ call'[r].op # "change" \/ \E c \in cfg.codes : call'[r].price = sale[c]
    <3>1. call \in [{"request"} -> [op : {"none", "cancel", "resume", "pause", "unpause",
          "change"},
                                 sub : cfg.subs \cup {"none"}, price : 0 .. cfg.prices]]
      BY DEF Plans!PricedInv, Plans!PlanInv, Plans!Typed
    <3>2. CASE Plans(cfg)!ChangePlan(r)
      BY <3>1, <3>2 DEF Plans!ChangePlan, Plans!Choose
    <3>3. CASE Plans(cfg)!Unpause(r)
      BY <3>1, <3>3 DEF Plans!Unpause
    <3>4. CASE Plans(cfg)!Cancel(r) \/ Plans(cfg)!Resume(r) \/ Plans(cfg)!Pause(r)
      BY <3>1, <3>4 DEF Plans!Cancel, Plans!Resume, Plans!Pause, Plans!Choose
    <3> QED BY <1>6, <3>2, <3>3, <3>4
  <2>2. \A q \in {"request"} : \/ call'[q] = call[q] \/ call'[q].op # "change"
                               \/ \E c \in cfg.codes : call'[q].price = sale[c]
    BY <2>1
  <2> QED BY <1>0, <1>2, <2>1, <2>2
<1>7. ASSUME NEW r \in {"request"}, Plans(cfg)!Modify(r) PROVE Plans(cfg)!PricedInv'
  <2>1. /\ UNCHANGED <<owner, sale, parked>> /\ call' = [call EXCEPT ![r] = Plans(cfg)!Idle]
        /\ call[r].sub \in cfg.subs
        /\ call[r].op \in {"cancel", "resume", "pause", "unpause", "change"}
        /\ \/ stripe' = stripe
           \/ stripe' = [stripe EXCEPT ![call[r].sub] = Plans(cfg)!Modified(stripe[call[r].sub],
                call[r])]
    BY <1>7 DEF Plans!Modify, Plans!PricedInv, Plans!PlanInv, Plans!Typed
  <2>2. \A x \in Plans(cfg)!Stripes :
           /\ Plans(cfg)!Modified(x, call[r]).status = x.status
           /\ Plans(cfg)!Modified(x, call[r]).price = IF call[r].op = "change" THEN call[r].price
                ELSE x.price
    BY <2>1 DEF Plans!Modified, Plans!Stripes
  <2>3. call[r].op = "change" => call[r].price \in Plans(cfg)!Prices
        /\ owner[call[r].price] # "none"
    BY <1>0 DEF Plans!PricesSound
  <2>4. \A q \in {"request"} : call'[q] = call[q] \/ call'[q].op # "change"
    BY <2>1 DEF Plans!PricedInv, Plans!PlanInv, Plans!Typed, Plans!Idle
  <2>5. \A s \in cfg.subs : \/ stripe'[s].status = "active" => stripe[s].status = "active"
                                 /\ stripe'[s].price = stripe[s].price
                            \/ \E p \in Plans(cfg)!Prices : stripe'[s].price = p
                                 /\ owner[p] # "none"
    BY <1>0, <2>1, <2>2, <2>3
  <2> QED BY <1>0, <1>2, <2>1, <2>4, <2>5
<1>8. CASE Plans(cfg)!Override \/ UNCHANGED Plans(cfg)!vars
  BY <1>0, <1>2, <1>8 DEF Plans!Override, Plans!vars
<1> QED BY <1>1, <1>3, <1>4, <1>5, <1>6, <1>7, <1>8 DEF Plans!Next

\* Who is charged is served, and who is served is charged.
LEMMA PlanClaims ==
    ASSUME NEW cfg, Plans(cfg)!PlanAssumption, Plans(cfg)!PlanInv
    PROVE  Plans(cfg)!PaidIsServed /\ Plans(cfg)!ServedIsPaid
<1>1. \A s \in cfg.subs : s \notin pending \cup parked =>
        (s \in Plans(cfg)!Charged <=> s \in Plans(cfg)!Entitled)
        /\ (s \in Plans(cfg)!Charged => planRow[s].price = stripe[s].price)
  BY DEF Plans!PlanInv, Plans!Typed, Plans!TypeOK, Plans!Stripes, Plans!RowsOf, Plans!RowsSound,
         Plans!StatusOf, Plans!Charged, Plans!Entitled
<1>2. Plans(cfg)!ServedIsPaid
  BY <1>1 DEF Plans!ServedIsPaid, Plans!Entitled
<1>3. ASSUME Plans(cfg)!Settled,
      \A s \in Plans(cfg)!Charged : Plans(cfg)!Name(stripe[s].price) # "none", parked = {}
      PROVE  /\ Plans(cfg)!Charged = Plans(cfg)!Entitled
             /\ Plans(cfg)!Charged # {} /\ override = "none" =>
                  Plans(cfg)!Plan \in {Plans(cfg)!Name(stripe[s].price) : s \in Plans(cfg)!Charged}
  <2>1. Plans(cfg)!Charged = Plans(cfg)!Entitled
    BY <1>1, <1>3 DEF Plans!Settled, Plans!Charged, Plans!Entitled
  <2>2. ASSUME Plans(cfg)!Charged # {}, override = "none"
        PROVE Plans(cfg)!Plan \in {Plans(cfg)!Name(stripe[s].price) : s \in Plans(cfg)!Charged}
    <3>1. Plans(cfg)!Newest(Plans(cfg)!Entitled) \in Plans(cfg)!Entitled
      BY <2>1, <2>2, PlanHasNewest DEF Plans!Entitled, Plans!PlanInv
    <3>2. planRow[Plans(cfg)!Newest(Plans(cfg)!Entitled)].price =
          stripe[Plans(cfg)!Newest(Plans(cfg)!Entitled)].price
      BY <1>1, <1>3, <2>1, <3>1 DEF Plans!Settled, Plans!Entitled
    <3>3. Plans(cfg)!Plan = Plans(cfg)!Name(planRow[Plans(cfg)!Newest(Plans(cfg)!Entitled)].price)
      BY <1>3, <2>1, <2>2, <3>1, <3>2 DEF Plans!Plan
    <3> QED BY <2>1, <3>1, <3>2, <3>3
  <2> QED BY <2>1, <2>2
<1> QED BY <1>2, <1>3 DEF Plans!PaidIsServed

-----------------------------------------------------------------------------
(***************************************************************************)
(* Models (ModelPins), for any number of pins, whether or not requests     *)
(* overlap or fail: no two requests retire the same row or insert for the  *)
(* same key, and who inserts for a key retires every active row of it.     *)
(***************************************************************************)
\* The finite sets of the instance are those of FiniteSets.
LEMMA PinSame ==
    ASSUME NEW cfg, NEW S
    PROVE  /\ Pinning(cfg)!IsFiniteSet(S) <=> IsFiniteSet(S)
           /\ Pinning(cfg)!Cardinality(S) = Cardinality(S)
BY DEF Pinning!IsFiniteSet, IsFiniteSet, Pinning!Cardinality, Cardinality

\* The invariants hold of the seeded pins.
LEMMA PinStart ==
    ASSUME NEW cfg, Pinning(cfg)!PinAssumption, Pinning(cfg)!Init
    PROVE  Pinning(cfg)!InTurnInv
<1>0. 1 \in Pinning(cfg)!Pins /\ Pinning(cfg)!Everyone \in Pinning(cfg)!Keys
  BY DEF Pinning!PinAssumption, Pinning!Pins, Pinning!Keys
<1>1. Pinning(cfg)!Typed
  <2>1. Pinning(cfg)!Idle \in Pinning(cfg)!Ask
    BY DEF Pinning!Idle, Pinning!Ask, Pinning!Todos
  <2> QED BY <1>0, <2>1 DEF Pinning!Init, Pinning!Typed
<1>2. \A r \in Pair : Pinning(cfg)!AboutSound(r) /\ Pinning(cfg)!OffSound(r)
      /\ Pinning(cfg)!OnSound(r)
  BY DEF Pinning!Init, Pinning!Idle, Pinning!AboutSound, Pinning!OffSound, Pinning!OnSound,
         Pinning!OnKeys, Pinning!Todo, Pinning!Early, Pinning!Late
<1>3. Pinning(cfg)!RequestsApart
  BY DEF Pinning!Init, Pinning!Idle, Pinning!RequestsApart
<1>4. Pinning(cfg)!PinsSound
  <2>0. \A p \in Pinning(cfg)!Pins : p \in Nat
    BY DEF Pinning!Pins
  <2>1. \A p \in Pinning(cfg)!Pins : /\ p = 1 => pin[p].key = Pinning(cfg)!Everyone
                                          /\ pin[p].active
                                     /\ p # 1 => pin[p].key = Nobody /\ ~pin[p].active
    BY DEF Pinning!Init
  <2>2. made = 1 /\ \A p \in Pinning(cfg)!Pins : p > 1 => Pinning(cfg)!Unborn(p)
    <3>1. \A p \in Pinning(cfg)!Pins : p # 1 => Pinning(cfg)!Unborn(p)
      BY <2>1 DEF Pinning!Unborn
    <3> QED BY <2>0, <3>1 DEF Pinning!Init
  <2>3. Nobody # Pinning(cfg)!Everyone
    BY DEF Pinning!PinAssumption, Pinning!Keys
  <2>4. 1 \in Pinning(cfg)!Active(Pinning(cfg)!Everyone)
    BY <1>0, <2>1 DEF Pinning!Active
  <2>5. \A p \in Pinning(cfg)!Pins : pin[p].active => p = 1
    BY <2>1
  <2> QED BY <2>1, <2>2, <2>3, <2>4, <2>5 DEF Pinning!PinsSound
<1>5. Pinning(cfg)!CachedInTurn
  <2>1. Pinning(cfg)!Active(Pinning(cfg)!Everyone) = {1}
        /\ \A k \in Pinning(cfg)!Keys : k # Pinning(cfg)!Everyone => Pinning(cfg)!Active(k) = {}
    BY <1>0 DEF Pinning!Init, Pinning!Active, Pinning!Pins
  <2>2. Pinning(cfg)!Cached({1}) = 1 /\ Pinning(cfg)!Cached({}) = Nobody
    BY DEF Pinning!Cached
  <2>3. \A k \in Pinning(cfg)!Keys : cache[k] = Pinning(cfg)!Cached(Pinning(cfg)!Active(k))
    BY <2>1, <2>2 DEF Pinning!Init
  <2>4. \A r \in Pair : asked[r].pc = "idle"
    BY DEF Pinning!Init, Pinning!Idle
  <2> QED BY <2>3, <2>4 DEF Pinning!CachedInTurn
<1> QED BY <1>1, <1>2, <1>3, <1>4, <1>5 DEF Pinning!InTurnInv, Pinning!PinInv

\* One request gets new values, the tables stay.
LEMMA PinOneMoves ==
    ASSUME NEW cfg, Pinning(cfg)!PinAssumption, Pinning(cfg)!PinInv, NEW r \in Pair,
        NEW f \in Pinning(cfg)!Ask,
           asked' = [asked EXCEPT ![r] = f], pin' = pin, made' \in Pinning(cfg)!Pins,
               made <= made', cache' \in [Pinning(cfg)!Keys -> Pinning(cfg)!Pins \cup {Nobody}],
           Pinning(cfg)!AboutSound(r)', Pinning(cfg)!OffSound(r)', Pinning(cfg)!OnSound(r)',
           f.off \subseteq asked[r].off \/ \A o \in Pair \ {r} : f.off \cap asked[o].off = {},
           \A o \in Pair \ {r} : \A v \in f.on, w \in asked[o].on : v[1] # w[1] /\ v[2] # w[2]
    PROVE  Pinning(cfg)!PinInv'
<1>1. asked \in [Pair -> Pinning(cfg)!Ask] /\ asked'[r] = f
      /\ \A o \in Pair \ {r} : asked'[o] = asked[o]
  BY DEF Pinning!PinInv, Pinning!Typed, Pinning!Ask
<1>2. Pinning(cfg)!Typed'
  BY DEF Pinning!PinInv, Pinning!Typed, Pinning!Ask
<1>3. ASSUME NEW o \in Pair \ {r}
      PROVE  Pinning(cfg)!AboutSound(o)' /\ Pinning(cfg)!OffSound(o)' /\ Pinning(cfg)!OnSound(o)'
  <2>0. made \in Nat /\ made' \in Nat /\ \A w \in asked[o].on : w[2] \in Nat
    BY <1>1 DEF Pinning!PinInv, Pinning!Typed, Pinning!Pins, Pinning!PinAssumption, Pinning!Ask
  <2>1. Pinning(cfg)!OnKeys(o)' = Pinning(cfg)!OnKeys(o)
        /\ Pinning(cfg)!Todo(o)' = Pinning(cfg)!Todo(o)
    BY <1>1 DEF Pinning!OnKeys, Pinning!Todo
  <2>2. Pinning(cfg)!AboutSound(o) /\ Pinning(cfg)!OffSound(o) /\ Pinning(cfg)!OnSound(o)
    BY DEF Pinning!PinInv
  <2>3. Pinning(cfg)!AboutSound(o)'
    BY <1>1, <2>1, <2>2 DEF Pinning!AboutSound
  <2>4. Pinning(cfg)!OffSound(o)'
    BY <1>1, <2>1, <2>2 DEF Pinning!OffSound
  <2>5. Pinning(cfg)!OnSound(o)'
    BY <1>1, <2>0, <2>2 DEF Pinning!OnSound, Pinning!Unborn, Pinning!Active
  <2> QED BY <2>3, <2>4, <2>5
<1>4. Pinning(cfg)!RequestsApart'
  BY <1>1 DEF Pinning!PinInv, Pinning!RequestsApart
<1>5. Pinning(cfg)!PinsSound'
  <2>1. made \in Nat /\ made' \in Nat /\ \A p \in Pinning(cfg)!Pins : p \in Nat
    BY DEF Pinning!PinInv, Pinning!Typed, Pinning!Pins, Pinning!PinAssumption
  <2>2. Pinning(cfg)!PinsSound /\ \A k : Pinning(cfg)!Active(k)' = Pinning(cfg)!Active(k)
    BY DEF Pinning!PinInv, Pinning!Active
  <2>3. \A p \in Pinning(cfg)!Pins : p > made' => Pinning(cfg)!Unborn(p)'
    BY <2>1, <2>2 DEF Pinning!PinsSound, Pinning!Unborn
  <2> QED BY <2>2, <2>3 DEF Pinning!PinsSound
<1> QED BY <1>2, <1>3, <1>4, <1>5 DEF Pinning!PinInv

\* A request ends without effect.
LEMMA PinIdleKeeps ==
    ASSUME NEW cfg, Pinning(cfg)!PinAssumption, Pinning(cfg)!PinInv, NEW r \in Pair,
        asked' = [asked EXCEPT ![r] = Pinning(cfg)!Idle],
           UNCHANGED <<pin, made>>,
               cache' \in [Pinning(cfg)!Keys -> Pinning(cfg)!Pins \cup {Nobody}]
    PROVE  Pinning(cfg)!PinInv'
<1>1. Pinning(cfg)!Idle \in Pinning(cfg)!Ask
  BY DEF Pinning!Idle, Pinning!Ask, Pinning!Todos
<1>2. asked'[r] = Pinning(cfg)!Idle
  BY DEF Pinning!PinInv, Pinning!Typed
<1>3. Pinning(cfg)!AboutSound(r)' /\ Pinning(cfg)!OffSound(r)' /\ Pinning(cfg)!OnSound(r)'
  BY <1>2
     DEF Pinning!Idle, Pinning!AboutSound, Pinning!OffSound, Pinning!OnSound, Pinning!OnKeys,
         Pinning!Todo, Pinning!Early, Pinning!Late
<1>4. made \in Pinning(cfg)!Pins /\ made' \in Pinning(cfg)!Pins /\ made <= made'
  BY DEF Pinning!PinInv, Pinning!Typed, Pinning!Pins, Pinning!PinAssumption
<1> QED BY <1>1, <1>3, <1>4, PinOneMoves DEF Pinning!Idle

\* The first key of a request and the rest of them.
LEMMA PinTodoShape ==
    ASSUME NEW cfg, NEW todo \in Pinning(cfg)!Todos, todo # <<>>
    PROVE  /\ Head(todo) \in {todo[i] : i \in DOMAIN todo} /\ Head(todo) \in Pinning(cfg)!Keys
           /\ Tail(todo) \in Pinning(cfg)!Todos
           /\ Tail(todo) # <<>> <=> Len(todo) > 1
           /\ {Tail(todo)[i] : i \in DOMAIN Tail(todo)}
                 \subseteq {todo[i] : i \in DOMAIN todo} \ {Head(todo)}
<1>1. ASSUME NEW a \in Pinning(cfg)!Keys, todo = <<a>>
      PROVE  /\ Head(todo) = a /\ Tail(todo) = <<>> /\ Len(todo) = 1
             /\ {todo[i] : i \in DOMAIN todo} = {a}
             /\ {Tail(todo)[i] : i \in DOMAIN Tail(todo)} = {}
  <2>1. Head(todo) = a /\ Tail(todo) = <<>> /\ Len(todo) = 1 /\ todo[1] = a /\ DOMAIN todo = {1}
    BY <1>1
  <2> QED BY <2>1
<1>2. ASSUME NEW a \in Pinning(cfg)!Keys, NEW b \in Pinning(cfg)!Keys, todo = <<a, b>>
      PROVE  /\ Head(todo) = a /\ Tail(todo) = <<b>> /\ Len(todo) = 2
             /\ {todo[i] : i \in DOMAIN todo} = {a, b}
             /\ {Tail(todo)[i] : i \in DOMAIN Tail(todo)} = {b}
  <2>1. Head(todo) = a /\ Tail(todo) = <<b>> /\ Len(todo) = 2 /\ todo[1] = a /\ todo[2] = b
        /\ DOMAIN todo = {1, 2} /\ DOMAIN <<b>> = {1} /\ <<b>>[1] = b
    BY <1>2
  <2> QED BY <2>1
<1>3. Pinning(cfg)!Everyone \in Pinning(cfg)!Keys /\ "free" \in Pinning(cfg)!Keys
      /\ "pro" \in Pinning(cfg)!Keys
  BY DEF Pinning!Keys, Pinning!Plans
<1>4. CASE todo = <<Pinning(cfg)!Everyone>>
  BY <1>1, <1>3, <1>4 DEF Pinning!Todos
<1>5. CASE todo = <<"free">>
  BY <1>1, <1>3, <1>5 DEF Pinning!Todos
<1>6. CASE todo = <<"pro">>
  BY <1>1, <1>3, <1>6 DEF Pinning!Todos
<1>7. CASE todo = <<"free", "pro">>
  <2>1. <<"pro">> # <<>>
    OBVIOUS
  <2> QED BY <1>2, <1>3, <1>7, <2>1 DEF Pinning!Todos
<1>8. CASE todo = <<"pro", "free">>
  <2>1. <<"free">> # <<>>
    OBVIOUS
  <2> QED BY <1>2, <1>3, <1>8, <2>1 DEF Pinning!Todos
<1> QED BY <1>4, <1>5, <1>6, <1>7, <1>8 DEF Pinning!Todos

\* A request begins.
LEMMA PinBeginKeeps ==
    ASSUME NEW cfg, Pinning(cfg)!PinAssumption, Pinning(cfg)!PinInv, NEW r \in Pair,
           NEW op \in {"global", "tier", "delete"}, NEW todo \in Pinning(cfg)!Todos,
               Pinning(cfg)!Begin(r, op, todo),
           todo # <<>>, op = "global" => todo = <<Pinning(cfg)!Everyone>>, op # "global" =>
               todo # <<Pinning(cfg)!Everyone>>
    PROVE  Pinning(cfg)!PinInv'
<1> DEFINE f == [[Pinning(cfg)!Idle EXCEPT !.op = op, !.todo = todo] EXCEPT !.pc = "look"]
<1>1. /\ f \in Pinning(cfg)!Ask /\ f.op = op /\ f.todo = todo /\ f.pc = "look" /\ f.on = {}
      /\ f.off = {}
      /\ asked' = [asked EXCEPT ![r] = f] /\ UNCHANGED <<pin, made, cache>>
  BY DEF Pinning!Idle, Pinning!Ask, Pinning!Early, Pinning!Begin, Pinning!Set
<1> HIDE DEF f
<1>2. asked'[r] = f
  BY <1>1 DEF Pinning!PinInv, Pinning!Typed
<1>3. {todo[i] : i \in DOMAIN todo} \subseteq IF op = "global" THEN {Pinning(cfg)!Everyone}
      ELSE Pinning(cfg)!Plans
  BY DEF Pinning!Todos, Pinning!Plans, Pinning!Everyone
<1>4. Pinning(cfg)!AboutSound(r)'
  BY <1>1, <1>2, <1>3
     DEF Pinning!AboutSound, Pinning!OnKeys, Pinning!Todo, Pinning!Early, Pinning!Late
<1>5. Pinning(cfg)!OffSound(r)' /\ Pinning(cfg)!OnSound(r)'
  BY <1>1, <1>2 DEF Pinning!OffSound, Pinning!OnSound, Pinning!OnKeys
<1>6. made \in Pinning(cfg)!Pins /\ made' \in Pinning(cfg)!Pins /\ made <= made'
      /\ cache' \in [Pinning(cfg)!Keys -> Pinning(cfg)!Pins \cup {Nobody}]
  BY <1>1 DEF Pinning!PinInv, Pinning!Typed, Pinning!Pins, Pinning!PinAssumption
<1> QED BY <1>1, <1>4, <1>5, <1>6, PinOneMoves

\* A request finds the active rows.
LEMMA PinLookKeeps ==
    ASSUME NEW cfg, Pinning(cfg)!PinAssumption, Pinning(cfg)!PinInv, NEW r \in Pair,
        Pinning(cfg)!Look(r)
    PROVE  Pinning(cfg)!PinInv'
<1> DEFINE f == [[asked[r] EXCEPT !.found = Pinning(cfg)!Active(Head(asked[r].todo))]
      EXCEPT !.pc = "lock"]
<1>0. Pinning(cfg)!Active(Head(asked[r].todo)) \subseteq Pinning(cfg)!Pins
      /\ asked[r] \in Pinning(cfg)!Ask
  BY DEF Pinning!Active, Pinning!PinInv, Pinning!Typed, Pinning!Ask
<1>1. /\ f \in Pinning(cfg)!Ask /\ f.op = asked[r].op /\ f.todo = asked[r].todo /\ f.pc = "lock"
      /\ f.on = asked[r].on /\ f.off = asked[r].off
      /\ f.found = Pinning(cfg)!Active(Head(asked[r].todo))
      /\ asked' = [asked EXCEPT ![r] = f] /\ UNCHANGED <<pin, made, cache>>
      /\ asked[r].pc = "look"
  BY <1>0 DEF Pinning!Ask, Pinning!Early, Pinning!Look, Pinning!Set
<1> HIDE DEF f
<1>2. asked'[r] = f /\ Pinning(cfg)!OnKeys(r)' = Pinning(cfg)!OnKeys(r)
      /\ Pinning(cfg)!Todo(r)' = Pinning(cfg)!Todo(r)
  BY <1>1 DEF Pinning!PinInv, Pinning!Typed, Pinning!OnKeys, Pinning!Todo
<1>3. Pinning(cfg)!AboutSound(r) /\ Pinning(cfg)!OffSound(r) /\ Pinning(cfg)!OnSound(r)
  BY DEF Pinning!PinInv
<1>4. Pinning(cfg)!AboutSound(r)' /\ Pinning(cfg)!OnSound(r)'
  BY <1>1, <1>2, <1>3
     DEF Pinning!AboutSound, Pinning!OnSound, Pinning!Unborn, Pinning!Active, Pinning!Early,
         Pinning!Late
<1>5. Pinning(cfg)!OffSound(r)'
  BY <1>1, <1>2, <1>3 DEF Pinning!OffSound, Pinning!AboutSound, Pinning!Active
<1>6. made \in Pinning(cfg)!Pins /\ made' \in Pinning(cfg)!Pins /\ made <= made'
      /\ cache' \in [Pinning(cfg)!Keys -> Pinning(cfg)!Pins \cup {Nobody}]
  BY <1>1 DEF Pinning!PinInv, Pinning!Typed, Pinning!Pins, Pinning!PinAssumption
<1>7. \A o \in Pair \ {r} : \A v \in f.on, w \in asked[o].on : v[1] # w[1] /\ v[2] # w[2]
  BY <1>1 DEF Pinning!PinInv, Pinning!RequestsApart
<1> QED BY <1>1, <1>4, <1>5, <1>6, <1>7, PinOneMoves

\* A request locks what it has found: no other retires the same row.
LEMMA PinLockKeeps ==
    ASSUME NEW cfg, Pinning(cfg)!PinAssumption, Pinning(cfg)!PinInv, NEW r \in Pair,
        Pinning(cfg)!Lock(r)
    PROVE  Pinning(cfg)!PinInv'
<1>0. /\ asked[r] \in Pinning(cfg)!Ask /\ asked[r].pc = "lock" /\ Pinning(cfg)!AboutSound(r)
      /\ Pinning(cfg)!OffSound(r) /\ Pinning(cfg)!OnSound(r)
      /\ UNCHANGED <<pin, made, cache>> /\ asked[r].todo # <<>>
      /\ Head(asked[r].todo) \in Pinning(cfg)!Todo(r)
  <2>1. /\ asked[r] \in Pinning(cfg)!Ask /\ asked[r].pc = "lock" /\ Pinning(cfg)!AboutSound(r)
        /\ Pinning(cfg)!OffSound(r) /\ Pinning(cfg)!OnSound(r)
        /\ UNCHANGED <<pin, made, cache>>
    BY DEF Pinning!Lock, Pinning!PinInv, Pinning!Typed, Pinning!Ask
  <2>2. asked[r].todo \in Pinning(cfg)!Todos /\ asked[r].todo # <<>>
    BY <2>1 DEF Pinning!AboutSound, Pinning!Early, Pinning!Ask
  <2> QED BY <2>1, <2>2, PinTodoShape DEF Pinning!Todo
<1>1. made \in Pinning(cfg)!Pins /\ made' \in Pinning(cfg)!Pins /\ made <= made'
      /\ cache' \in [Pinning(cfg)!Keys -> Pinning(cfg)!Pins \cup {Nobody}]
  BY <1>0 DEF Pinning!PinInv, Pinning!Typed, Pinning!Pins, Pinning!PinAssumption
<1>2. \A o \in Pair \ {r} : asked[r].found \cap asked[o].off = {}
  BY DEF Pinning!Lock, Pinning!MustWait, Pinning!Others
<1>3. \A o \in Pair \ {r} : asked[r].off \cap asked[o].off = {}
  BY DEF Pinning!PinInv, Pinning!RequestsApart
<1>4. \A o \in Pair \ {r} : \A v \in asked[r].on, w \in asked[o].on : v[1] # w[1] /\ v[2] # w[2]
  BY DEF Pinning!PinInv, Pinning!RequestsApart
<1>5. /\ Pinning(cfg)!Retired(r) \subseteq asked[r].found
      /\ \A p \in Pinning(cfg)!Retired(r) : p \in Pinning(cfg)!Pins /\ pin[p].active
           /\ pin[p].key = Head(asked[r].todo)
  BY <1>0 DEF Pinning!Retired, Pinning!OffSound, Pinning!Ask
<1>6. CASE asked[r].op # "delete"
  <2> DEFINE f == [[asked[r] EXCEPT !.off = @ \cup Pinning(cfg)!Retired(r)]
        EXCEPT !.pc = "insert"]
  <2>1. /\ f \in Pinning(cfg)!Ask /\ f.op = asked[r].op /\ f.todo = asked[r].todo
        /\ f.pc = "insert"
        /\ f.on = asked[r].on /\ f.off = asked[r].off \cup Pinning(cfg)!Retired(r)
        /\ asked' = [asked EXCEPT ![r] = f]
    BY <1>0, <1>5, <1>6 DEF Pinning!Ask, Pinning!Early, Pinning!Lock, Pinning!Set
  <2> HIDE DEF f
  <2>2. asked'[r] = f /\ Pinning(cfg)!OnKeys(r)' = Pinning(cfg)!OnKeys(r)
        /\ Pinning(cfg)!Todo(r)' = Pinning(cfg)!Todo(r)
    BY <2>1 DEF Pinning!PinInv, Pinning!Typed, Pinning!OnKeys, Pinning!Todo
  <2>3. Pinning(cfg)!AboutSound(r)'
    BY <1>0, <1>6, <2>1, <2>2 DEF Pinning!AboutSound, Pinning!Early, Pinning!Late
  <2>4. Pinning(cfg)!OnSound(r)'
    BY <1>0, <2>1, <2>2 DEF Pinning!OnSound, Pinning!Unborn, Pinning!Active
  <2>5. Pinning(cfg)!OffSound(r)'
    BY <1>0, <1>5, <1>6, <2>1, <2>2 DEF Pinning!OffSound
  <2>6. \A o \in Pair \ {r} : f.off \cap asked[o].off = {}
    BY <1>2, <1>3, <1>5, <2>1
  <2>7. \A o \in Pair \ {r} : \A v \in f.on, w \in asked[o].on : v[1] # w[1] /\ v[2] # w[2]
    BY <1>4, <2>1
  <2> QED BY <1>0, <1>1, <2>1, <2>3, <2>4, <2>5, <2>6, <2>7, PinOneMoves
<1>7. CASE asked[r].op = "delete" /\ Pinning(cfg)!Retired(r) = {}
  BY <1>0, <1>1, <1>7, PinIdleKeeps DEF Pinning!Lock
<1>8. CASE asked[r].op = "delete" /\ Pinning(cfg)!Retired(r) # {}
  <2> DEFINE f == [[asked[r] EXCEPT !.off = Pinning(cfg)!Retired(r), !.todo = <<>>]
        EXCEPT !.pc = "refresh"]
  <2>1. /\ f \in Pinning(cfg)!Ask /\ f.op = asked[r].op /\ f.todo = <<>> /\ f.pc = "refresh"
        /\ f.on = asked[r].on /\ f.off = Pinning(cfg)!Retired(r)
        /\ asked' = [asked EXCEPT ![r] = f]
    BY <1>0, <1>5, <1>8 DEF Pinning!Ask, Pinning!Late, Pinning!Lock, Pinning!Set, Pinning!Todos
  <2> HIDE DEF f
  <2>2. asked'[r] = f /\ Pinning(cfg)!OnKeys(r)' = {} /\ Pinning(cfg)!Todo(r)' = {}
        /\ asked[r].on = {}
    BY <1>0, <1>8, <2>1
       DEF Pinning!PinInv, Pinning!Typed, Pinning!OnKeys, Pinning!Todo, Pinning!AboutSound
  <2>3. Pinning(cfg)!AboutSound(r)'
    BY <1>0, <1>8, <2>1, <2>2 DEF Pinning!AboutSound, Pinning!Early, Pinning!Late
  <2>4. Pinning(cfg)!OnSound(r)'
    BY <2>1, <2>2 DEF Pinning!OnSound
  <2>5. Pinning(cfg)!OffSound(r)'
    BY <1>0, <1>5, <1>8, <2>1, <2>2 DEF Pinning!OffSound, Pinning!AboutSound
  <2>6. \A o \in Pair \ {r} : f.off \cap asked[o].off = {}
    BY <1>2, <1>3, <1>5, <2>1
  <2>7. \A o \in Pair \ {r} : \A v \in f.on, w \in asked[o].on : v[1] # w[1] /\ v[2] # w[2]
    BY <1>4, <2>1
  <2> QED BY <1>0, <1>1, <2>1, <2>3, <2>4, <2>5, <2>6, <2>7, PinOneMoves
<1> QED BY <1>6, <1>7, <1>8

\* A request inserts a row: no other has one for the key.
LEMMA PinInsertKeeps ==
    ASSUME NEW cfg, Pinning(cfg)!PinAssumption, Pinning(cfg)!PinInv, NEW r \in Pair,
        Pinning(cfg)!Insert(r)
    PROVE  Pinning(cfg)!PinInv'
<1> DEFINE k == Head(asked[r].todo)
<1>0. /\ asked[r] \in Pinning(cfg)!Ask /\ asked[r].pc = "insert" /\ Pinning(cfg)!AboutSound(r)
      /\ Pinning(cfg)!OffSound(r) /\ Pinning(cfg)!OnSound(r)
      /\ UNCHANGED <<pin, cache>> /\ asked[r].todo # <<>>
      /\ k \in Pinning(cfg)!Todo(r) /\ k \in Pinning(cfg)!Keys /\ asked[r].op # "delete"
  <2>1. /\ asked[r] \in Pinning(cfg)!Ask /\ asked[r].pc = "insert" /\ Pinning(cfg)!AboutSound(r)
        /\ Pinning(cfg)!OffSound(r) /\ Pinning(cfg)!OnSound(r)
        /\ UNCHANGED <<pin, cache>>
    BY DEF Pinning!Insert, Pinning!PinInv, Pinning!Typed, Pinning!Ask
  <2>2. asked[r].todo \in Pinning(cfg)!Todos /\ asked[r].todo # <<>> /\ asked[r].op # "delete"
    BY <2>1 DEF Pinning!AboutSound, Pinning!Early, Pinning!Ask
  <2> QED BY <2>1, <2>2, PinTodoShape DEF Pinning!Todo
<1>1. made \in Pinning(cfg)!Pins /\ made \in Nat
      /\ cache' \in [Pinning(cfg)!Keys -> Pinning(cfg)!Pins \cup {Nobody}]
  BY <1>0 DEF Pinning!PinInv, Pinning!Typed, Pinning!Pins, Pinning!PinAssumption
<1>2. CASE Pinning(cfg)!Active(k) \subseteq asked[r].off
  <2> DEFINE pc == IF Len(asked[r].todo) > 1 THEN "look" ELSE "refresh"
             f == [[asked[r] EXCEPT !.on = @ \cup {<<k, made + 1>>}, !.todo = Tail(@)]
                 EXCEPT !.pc = pc]
  <2>1. made' = made + 1 /\ made + 1 \in Pinning(cfg)!Pins /\ made <= made'
    BY <1>1, <1>2 DEF Pinning!Insert, Pinning!Pins, Pinning!PinAssumption
  <2>2. /\ Tail(asked[r].todo) \in Pinning(cfg)!Todos
        /\ Tail(asked[r].todo) # <<>> => pc = "look"
        /\ Tail(asked[r].todo) = <<>> => pc = "refresh"
        /\ {Tail(asked[r].todo)[i] : i \in DOMAIN Tail(asked[r].todo)} \subseteq
             Pinning(cfg)!Todo(r) \ {k}
    BY <1>0, PinTodoShape DEF Pinning!Ask, Pinning!Todo
  <2>3. /\ f \in Pinning(cfg)!Ask /\ f.op = asked[r].op /\ f.todo = Tail(asked[r].todo)
        /\ f.pc = pc
        /\ f.on = asked[r].on \cup {<<k, made + 1>>} /\ f.off = asked[r].off
        /\ asked' = [asked EXCEPT ![r] = f]
    <3>1. asked[r].on \cup {<<k, made + 1>>} \in SUBSET (Pinning(cfg)!Keys \X Pinning(cfg)!Pins)
          /\ asked[r] \in Pinning(cfg)!Ask
      BY <1>0, <2>1 DEF Pinning!Ask
    <3>2. pc \in {"look", "refresh"}
      OBVIOUS
    <3>3. asked' = [asked EXCEPT ![r] = f]
      BY <1>2 DEF Pinning!Insert, Pinning!Set
    <3> HIDE DEF k, pc
    <3> QED BY <2>2, <3>1, <3>2, <3>3 DEF Pinning!Ask, Pinning!Early, Pinning!Late
  <2> HIDE DEF f, pc, k
  <2>4. asked'[r] = f /\ Pinning(cfg)!OnKeys(r)' = Pinning(cfg)!OnKeys(r) \cup {k}
        /\ Pinning(cfg)!Todo(r)' \subseteq Pinning(cfg)!Todo(r) \ {k}
    <3>1. asked'[r] = f
      BY <2>3 DEF Pinning!PinInv, Pinning!Typed
    <3>2. Pinning(cfg)!Todo(r)' = {Tail(asked[r].todo)[i] : i \in DOMAIN Tail(asked[r].todo)}
      BY <2>3, <3>1 DEF Pinning!Todo
    <3>3. Pinning(cfg)!OnKeys(r)' = Pinning(cfg)!OnKeys(r) \cup {k}
      <4>1. Pinning(cfg)!OnKeys(r)' = {w[1] : w \in asked[r].on \cup {<<k, made + 1>>}}
        BY <2>3, <3>1 DEF Pinning!OnKeys
      <4>2. <<k, made + 1>>[1] = k
        OBVIOUS
      <4>3. \A S, x : {w[1] : w \in S \cup {x}} = {w[1] : w \in S} \cup {x[1]}
        OBVIOUS
      <4> QED BY <4>1, <4>2, <4>3 DEF Pinning!OnKeys
    <3> QED BY <2>2, <3>1, <3>2, <3>3
  <2>5. Pinning(cfg)!AboutSound(r)'
    BY <1>0, <2>2, <2>3, <2>4 DEF Pinning!AboutSound, Pinning!Early, Pinning!Late
  <2>6. Pinning(cfg)!OffSound(r)'
    BY <1>0, <2>2, <2>3, <2>4 DEF Pinning!OffSound, k
  <2>7. Pinning(cfg)!Unborn(made + 1)
    BY <1>1, <2>1 DEF Pinning!PinInv, Pinning!PinsSound
  <2>8. \A o \in Pair : \A w \in asked[o].on : w[2] \in Nat /\ w[2] <= made
    BY DEF Pinning!PinInv, Pinning!Typed, Pinning!Ask, Pinning!OnSound, Pinning!Pins,
           Pinning!PinAssumption
  <2>9. k \notin Pinning(cfg)!OnKeys(r)
    BY <1>0 DEF Pinning!AboutSound
  <2>10. Pinning(cfg)!OnSound(r)'
    <3>1. \A w \in f.on : /\ w[2] <= made' /\ Pinning(cfg)!Unborn(w[2])'
                          /\ Pinning(cfg)!Active(w[1])' \subseteq f.off
      BY <1>0, <1>1, <1>2, <2>1, <2>3, <2>7, <2>8
         DEF Pinning!OnSound, Pinning!Unborn, Pinning!Active
    <3>2. \A v, w \in f.on : v[1] = w[1] \/ v[2] = w[2] => v = w
      BY <1>0, <1>1, <2>3, <2>8, <2>9 DEF Pinning!OnSound, Pinning!OnKeys
    <3> QED BY <2>4, <3>1, <3>2 DEF Pinning!OnSound
  <2>11. \A o \in Pair \ {r} : \A v \in f.on, w \in asked[o].on : v[1] # w[1] /\ v[2] # w[2]
    <3>1. \A o \in Pair \ {r} : \A w \in asked[o].on : w[1] # k
      BY DEF Pinning!Insert, Pinning!InsertWaits, Pinning!Others, k
    <3> QED BY <1>1, <2>3, <2>8, <3>1 DEF Pinning!PinInv, Pinning!RequestsApart
  <2> QED BY <1>0, <1>1, <2>1, <2>3, <2>5, <2>6, <2>10, <2>11, PinOneMoves
<1>3. CASE ~(Pinning(cfg)!Active(k) \subseteq asked[r].off)
  BY <1>0, <1>1, <1>3, PinIdleKeeps DEF Pinning!Insert
<1> QED BY <1>2, <1>3

\* A request reads what it will put in the caches, or puts it there.
LEMMA PinRefreshKeeps ==
    ASSUME NEW cfg, Pinning(cfg)!PinAssumption, Pinning(cfg)!PinInv, NEW r \in Pair,
        Pinning(cfg)!Refresh(r) \/ Pinning(cfg)!SetCache(r)
    PROVE  Pinning(cfg)!PinInv'
<1> DEFINE pc == IF Pinning(cfg)!Refresh(r) THEN "set" ELSE "commit"
           view == IF Pinning(cfg)!Refresh(r) THEN Pinning(cfg)!View(r) ELSE asked[r].view
           f == [[asked[r] EXCEPT !.view = view] EXCEPT !.pc = pc]
<1>0. /\ asked[r] \in Pinning(cfg)!Ask /\ asked[r].pc \in Pinning(cfg)!Late
      /\ Pinning(cfg)!AboutSound(r) /\ Pinning(cfg)!OffSound(r) /\ Pinning(cfg)!OnSound(r)
      /\ UNCHANGED <<pin, made>>
  BY DEF Pinning!Refresh, Pinning!SetCache, Pinning!PinInv, Pinning!Typed, Pinning!Ask,
         Pinning!Late
<1>1. \A k \in Pinning(cfg)!Keys : Pinning(cfg)!Cached(Pinning(cfg)!Seen(r,
      k)) \in Pinning(cfg)!Pins \cup {Nobody}
  <2>1. \A k \in Pinning(cfg)!Keys : Pinning(cfg)!Seen(r, k) \subseteq Pinning(cfg)!Pins
    BY <1>0 DEF Pinning!Seen, Pinning!Active, Pinning!Ask
  <2> QED BY <2>1 DEF Pinning!Cached
<1>2. Pinning(cfg)!View(r) \subseteq Pinning(cfg)!Keys \X (Pinning(cfg)!Pins \cup {Nobody})
  BY <1>1 DEF Pinning!View, Pinning!Refreshed, Pinning!Keys
<1>3. cache' \in [Pinning(cfg)!Keys -> Pinning(cfg)!Pins \cup {Nobody}]
  BY <1>0 DEF Pinning!Refresh, Pinning!SetCache, Pinning!PinInv, Pinning!Typed, Pinning!Ask
<1>4. /\ f \in Pinning(cfg)!Ask /\ f.op = asked[r].op /\ f.todo = asked[r].todo /\ f.pc = pc
      /\ f.on = asked[r].on /\ f.off = asked[r].off /\ f.found = asked[r].found
      /\ asked' = [asked EXCEPT ![r] = f]
  BY <1>0, <1>2 DEF Pinning!Ask, Pinning!Late, Pinning!Refresh, Pinning!SetCache, Pinning!Set
<1>5. pc \in Pinning(cfg)!Late
  BY DEF Pinning!Late
<1> HIDE DEF f, pc
<1>6. asked'[r] = f /\ Pinning(cfg)!OnKeys(r)' = Pinning(cfg)!OnKeys(r)
      /\ Pinning(cfg)!Todo(r)' = Pinning(cfg)!Todo(r)
  BY <1>4 DEF Pinning!PinInv, Pinning!Typed, Pinning!OnKeys, Pinning!Todo
<1>7. Pinning(cfg)!AboutSound(r)' /\ Pinning(cfg)!OffSound(r)' /\ Pinning(cfg)!OnSound(r)'
  BY <1>0, <1>4, <1>5, <1>6
     DEF Pinning!AboutSound, Pinning!OffSound, Pinning!OnSound, Pinning!Unborn, Pinning!Active,
         Pinning!Early, Pinning!Late
<1>8. made \in Pinning(cfg)!Pins /\ made' \in Pinning(cfg)!Pins /\ made <= made'
  BY <1>0 DEF Pinning!PinInv, Pinning!Typed, Pinning!Pins, Pinning!PinAssumption
<1>9. \A o \in Pair \ {r} : \A v \in f.on, w \in asked[o].on : v[1] # w[1] /\ v[2] # w[2]
  BY <1>4 DEF Pinning!PinInv, Pinning!RequestsApart
<1> QED BY <1>0, <1>3, <1>4, <1>7, <1>8, <1>9, PinOneMoves

\* What a request commits is what it has seen.
LEMMA PinCommitShows ==
    ASSUME NEW cfg, Pinning(cfg)!PinAssumption, Pinning(cfg)!PinInv, NEW r \in Pair,
        Pinning(cfg)!Commit(r)
    PROVE  /\ \A p \in Pinning(cfg)!Pins : pin'[p].active <=> (\E w \in asked[r].on : w[2] = p)
                \/ (pin[p].active /\ p \notin asked[r].off)
           /\ \A p \in Pinning(cfg)!Pins : (\A w \in asked[r].on : w[2] # p) =>
                pin'[p].key = pin[p].key
           /\ \A w \in asked[r].on : w[2] \in Pinning(cfg)!Pins /\ pin'[w[2]].key = w[1]
                /\ pin'[w[2]].active
           /\ \A k \in Pinning(cfg)!Keys : Pinning(cfg)!Active(k)' =
                (Pinning(cfg)!Active(k) \ asked[r].off)
                    \cup {w[2] : w \in {v \in asked[r].on : v[1] = k}}
<1> DEFINE off == asked[r].off
           on == asked[r].on
<1>0. /\ asked \in [Pair -> Pinning(cfg)!Ask] /\ asked[r] \in Pinning(cfg)!Ask
      /\ asked[r].pc = "commit"
      /\ Pinning(cfg)!AboutSound(r) /\ Pinning(cfg)!OffSound(r) /\ Pinning(cfg)!OnSound(r)
      /\ UNCHANGED <<made, cache>> /\ asked' = [asked EXCEPT ![r] = Pinning(cfg)!Idle]
      /\ pin \in [Pinning(cfg)!Pins -> [key : Pinning(cfg)!Keys \cup {Nobody}, active : BOOLEAN]]
      /\ made \in Pinning(cfg)!Pins /\ \A p \in Pinning(cfg)!Pins : p \in Nat
  BY DEF Pinning!Commit, Pinning!PinInv, Pinning!Typed, Pinning!Ask, Pinning!Pins,
         Pinning!PinAssumption
<1>1. \A w \in on : w[1] \in Pinning(cfg)!Keys /\ w[2] \in Pinning(cfg)!Pins /\ w[2] \notin off
  BY <1>0 DEF Pinning!Ask, Pinning!OffSound, Pinning!OnSound, Pinning!Unborn
<1>2. \A p \in off : p \in Pinning(cfg)!Pins /\ pin'[p].key = pin[p].key /\ ~pin'[p].active
  BY <1>0 DEF Pinning!Commit, Pinning!Ask
<1>3. \A w \in on : pin'[w[2]].key = w[1] /\ pin'[w[2]].active
  <2> SUFFICES ASSUME NEW w \in on PROVE pin'[w[2]].key = w[1] /\ pin'[w[2]].active
    OBVIOUS
  <2>1. (CHOOSE v \in on : v[2] = w[2]) = w
    BY <1>0 DEF Pinning!OnSound
  <2> QED BY <1>0, <1>1, <2>1 DEF Pinning!Commit
<1>4. \A p \in Pinning(cfg)!Pins : p \notin off /\ (\A w \in on : w[2] # p) => pin'[p] = pin[p]
  BY <1>0 DEF Pinning!Commit
<1>5. \A p \in Pinning(cfg)!Pins : pin'[p].active <=> (\E w \in on : w[2] = p)
      \/ (pin[p].active /\ p \notin off)
  BY <1>0, <1>1, <1>2, <1>3, <1>4
<1>6. \A p \in Pinning(cfg)!Pins : (\A w \in on : w[2] # p) => pin'[p].key = pin[p].key
  BY <1>2, <1>4
<1>7. ASSUME NEW k \in Pinning(cfg)!Keys
      PROVE  Pinning(cfg)!Active(k)' =
          (Pinning(cfg)!Active(k) \ off) \cup {w[2] : w \in {v \in on : v[1] = k}}
  <2>1. \A p \in Pinning(cfg)!Pins : pin'[p].active /\ pin'[p].key = k <=>
          \/ pin[p].active /\ pin[p].key = k /\ p \notin off
          \/ \E w \in on : w[2] = p /\ w[1] = k
    <3>1. \A p \in Pinning(cfg)!Pins : pin[p].active => \A w \in on : w[2] # p
      BY <1>0 DEF Pinning!OnSound, Pinning!Unborn
    <3> QED BY <1>3, <1>5, <1>6, <3>1
  <2> QED BY <1>1, <2>1 DEF Pinning!Active
<1> QED BY <1>1, <1>3, <1>5, <1>6, <1>7

\* A commit leaves each key one active row, and every plan a pin.
LEMMA PinCommitKeeps ==
    ASSUME NEW cfg, Pinning(cfg)!PinAssumption, Pinning(cfg)!PinInv, NEW r \in Pair,
        Pinning(cfg)!Commit(r)
    PROVE  Pinning(cfg)!PinInv'
<1> DEFINE off == asked[r].off
           on == asked[r].on
<1>0. /\ asked \in [Pair -> Pinning(cfg)!Ask] /\ asked[r] \in Pinning(cfg)!Ask
      /\ asked[r].pc = "commit"
      /\ Pinning(cfg)!AboutSound(r) /\ Pinning(cfg)!OffSound(r) /\ Pinning(cfg)!OnSound(r)
      /\ UNCHANGED <<made, cache>> /\ asked' = [asked EXCEPT ![r] = Pinning(cfg)!Idle]
      /\ pin \in [Pinning(cfg)!Pins -> [key : Pinning(cfg)!Keys \cup {Nobody}, active : BOOLEAN]]
      /\ made \in Pinning(cfg)!Pins /\ \A p \in Pinning(cfg)!Pins : p \in Nat
  BY DEF Pinning!Commit, Pinning!PinInv, Pinning!Typed, Pinning!Ask, Pinning!Pins,
         Pinning!PinAssumption
<1>1. \A w \in on : w[1] \in Pinning(cfg)!Keys /\ w[2] \in Pinning(cfg)!Pins /\ w[2] \notin off
  BY <1>0 DEF Pinning!Ask, Pinning!OffSound, Pinning!OnSound, Pinning!Unborn
<1>2. \A p \in off : p \in Pinning(cfg)!Pins /\ pin'[p].key = pin[p].key /\ ~pin'[p].active
  BY <1>0 DEF Pinning!Commit, Pinning!Ask
<1>3. \A w \in on : pin'[w[2]].key = w[1] /\ pin'[w[2]].active
  <2> SUFFICES ASSUME NEW w \in on PROVE pin'[w[2]].key = w[1] /\ pin'[w[2]].active
    OBVIOUS
  <2>1. (CHOOSE v \in on : v[2] = w[2]) = w
    BY <1>0 DEF Pinning!OnSound
  <2> QED BY <1>0, <1>1, <2>1 DEF Pinning!Commit
<1>4. \A p \in Pinning(cfg)!Pins : p \notin off /\ (\A w \in on : w[2] # p) => pin'[p] = pin[p]
  BY <1>0 DEF Pinning!Commit
<1>5. pin' \in [Pinning(cfg)!Pins -> [key : Pinning(cfg)!Keys \cup {Nobody}, active : BOOLEAN]]
  <2>1. \A p \in off : [pin[p]
        EXCEPT !.active = FALSE] \in [key : Pinning(cfg)!Keys \cup {Nobody}, active : BOOLEAN]
    BY <1>0, <1>2
  <2>2. \A p \in Pinning(cfg)!Pins : (\E w \in on : w[2] = p) =>
          [key |-> (CHOOSE w \in on : w[2] = p)[1], active |-> TRUE]
             \in [key : Pinning(cfg)!Keys \cup {Nobody}, active : BOOLEAN]
    BY <1>1
  <2> QED BY <1>0, <2>1, <2>2 DEF Pinning!Commit
<1>6. Pinning(cfg)!Typed'
  <2>1. Pinning(cfg)!Idle \in Pinning(cfg)!Ask
    BY DEF Pinning!Idle, Pinning!Ask, Pinning!Todos
  <2> QED BY <1>0, <1>5, <2>1 DEF Pinning!PinInv, Pinning!Typed, Pinning!Ask
\* The active rows of a key are those inserted for it, or those that were and stay.
<1>7. \A p \in Pinning(cfg)!Pins : pin'[p].active <=> (\E w \in on : w[2] = p)
      \/ (pin[p].active /\ p \notin off)
  BY <1>0, <1>1, <1>2, <1>3, <1>4
<1>8. \A p \in Pinning(cfg)!Pins : (\A w \in on : w[2] # p) => pin'[p].key = pin[p].key
  BY <1>2, <1>4
<1>9. \A o \in Pair \ {r} : asked'[o] = asked[o]
      /\ Pinning(cfg)!OnKeys(o)' = Pinning(cfg)!OnKeys(o)
      /\ Pinning(cfg)!Todo(o)' = Pinning(cfg)!Todo(o)
  BY <1>0 DEF Pinning!OnKeys, Pinning!Todo
<1>10. Pinning(cfg)!AboutSound(r)' /\ Pinning(cfg)!OffSound(r)' /\ Pinning(cfg)!OnSound(r)'
  <2>1. asked'[r] = Pinning(cfg)!Idle
    BY <1>0
  <2> QED
    BY <2>1
       DEF Pinning!Idle, Pinning!AboutSound, Pinning!OffSound, Pinning!OnSound, Pinning!OnKeys,
           Pinning!Todo, Pinning!Early, Pinning!Late
<1>11. ASSUME NEW o \in Pair \ {r}
       PROVE  Pinning(cfg)!AboutSound(o)' /\ Pinning(cfg)!OffSound(o)' /\ Pinning(cfg)!OnSound(o)'
  <2>1. Pinning(cfg)!AboutSound(o) /\ Pinning(cfg)!OffSound(o) /\ Pinning(cfg)!OnSound(o)
        /\ asked[o] \in Pinning(cfg)!Ask
    BY <1>0 DEF Pinning!PinInv
  <2>2. /\ off \cap asked[o].off = {}
        /\ \A v \in on, w \in asked[o].on : v[1] # w[1] /\ v[2] # w[2]
    BY DEF Pinning!PinInv, Pinning!RequestsApart
  <2>3. Pinning(cfg)!AboutSound(o)'
    BY <1>9, <2>1 DEF Pinning!AboutSound
  <2>4. \A p \in asked[o].off : p \in Pinning(cfg)!Pins /\ pin[p].active /\ p \notin off
        /\ \A w \in on : w[2] # p
    BY <1>0, <2>1, <2>2 DEF Pinning!OffSound, Pinning!OnSound, Pinning!Unborn, Pinning!Ask
  <2>5. asked[o].pc = "lock" => \A p \in asked[o].found : p \in Pinning(cfg)!Pins
        /\ pin[p].key \in Pinning(cfg)!Keys
    <3>1. asked[o].pc = "lock" => Head(asked[o].todo) \in Pinning(cfg)!Keys
      BY <2>1, PinTodoShape DEF Pinning!AboutSound, Pinning!Early, Pinning!Ask
    <3> QED BY <2>1, <3>1 DEF Pinning!OffSound, Pinning!Ask
  <2>6. asked[o].pc = "lock" => \A p \in asked[o].found : pin'[p].key = pin[p].key
    BY <1>0, <1>8, <2>5 DEF Pinning!OnSound, Pinning!Unborn, Pinning!PinAssumption
  <2>7. Pinning(cfg)!OffSound(o)'
    BY <1>7, <1>8, <1>9, <2>1, <2>4, <2>6 DEF Pinning!OffSound
  <2>8. ASSUME NEW w \in asked[o].on PROVE Pinning(cfg)!Active(w[1])' \subseteq asked[o].off
    <3>1. \A p \in Pinning(cfg)!Pins : pin'[p].active /\ pin'[p].key = w[1] => pin[p].active
          /\ pin[p].key = w[1]
      BY <1>3, <1>7, <1>8, <2>2
    <3> QED BY <2>1, <3>1 DEF Pinning!OnSound, Pinning!Active
  <2>9. \A w \in asked[o].on : w[2] \in Pinning(cfg)!Pins /\ Pinning(cfg)!Unborn(w[2])'
    <3>1. \A w \in asked[o].on : w[2] \in Pinning(cfg)!Pins /\ Pinning(cfg)!Unborn(w[2])
          /\ \A v \in on : v[2] # w[2]
      BY <2>1, <2>2 DEF Pinning!OnSound, Pinning!Ask
    <3> QED BY <1>7, <1>8, <3>1 DEF Pinning!Unborn
  <2>10. Pinning(cfg)!OnSound(o)'
    BY <1>0, <1>9, <2>1, <2>8, <2>9 DEF Pinning!OnSound
  <2> QED BY <2>3, <2>7, <2>10
<1>12. Pinning(cfg)!RequestsApart'
  <2>1. asked'[r].off = {} /\ asked'[r].on = {}
    BY <1>0 DEF Pinning!Idle
  <2> QED BY <1>9, <2>1 DEF Pinning!PinInv, Pinning!RequestsApart
<1>13. Pinning(cfg)!PinsSound'
  <2>1. ASSUME NEW p \in Pinning(cfg)!Pins, p > made PROVE Pinning(cfg)!Unborn(p)'
    <3>1. \A w \in on : w[2] # p
      BY <1>0, <1>1, <2>1 DEF Pinning!OnSound
    <3>2. Pinning(cfg)!Unborn(p)
      BY <2>1 DEF Pinning!PinInv, Pinning!PinsSound
    <3> QED BY <1>7, <1>8, <3>1, <3>2 DEF Pinning!Unborn
  <2>2. \A p \in Pinning(cfg)!Pins : pin'[p].active => pin'[p].key # Nobody
    BY <1>1, <1>3, <1>7, <1>8 DEF Pinning!PinInv, Pinning!PinsSound, Pinning!PinAssumption
  <2>3. ASSUME NEW p \in Pinning(cfg)!Pins, NEW q \in Pinning(cfg)!Pins, pin'[p].active,
        pin'[q].active, pin'[p].key = pin'[q].key
        PROVE  p = q
    <3>1. CASE (\E w \in on : w[2] = p) /\ (\E w \in on : w[2] = q)
      BY <1>0, <1>3, <2>3, <3>1 DEF Pinning!OnSound
    <3>2. CASE (\A w \in on : w[2] # p) /\ (\A w \in on : w[2] # q)
      BY <1>7, <1>8, <2>3, <3>2 DEF Pinning!PinInv, Pinning!PinsSound
    <3>3. ASSUME NEW x \in Pinning(cfg)!Pins, NEW y \in Pinning(cfg)!Pins, NEW w \in on, w[2] = x,
          \A v \in on : v[2] # y,
                 pin'[x].key = pin'[y].key, pin'[y].active
          PROVE  FALSE
      <4>1. y \in Pinning(cfg)!Active(w[1]) /\ y \notin off
        BY <1>3, <1>7, <1>8, <3>3 DEF Pinning!Active
      <4> QED BY <1>0, <4>1 DEF Pinning!OnSound
    <3> QED BY <2>3, <3>1, <3>2, <3>3
  <2>4. Pinning(cfg)!Active(Pinning(cfg)!Everyone)' # {}
    <3>1. PICK p \in Pinning(cfg)!Active(Pinning(cfg)!Everyone) : TRUE
      BY DEF Pinning!PinInv, Pinning!PinsSound
    <3>2. CASE \E w \in on : w[1] = Pinning(cfg)!Everyone
      BY <1>1, <1>3, <3>2 DEF Pinning!Active
    <3>3. CASE \A w \in on : w[1] # Pinning(cfg)!Everyone
      <4>1. Pinning(cfg)!Everyone \notin Pinning(cfg)!OnKeys(r)
            /\ Pinning(cfg)!Everyone \notin Pinning(cfg)!Plans
        BY <3>3 DEF Pinning!OnKeys, Pinning!Everyone, Pinning!Plans
      <4>2. p \in Pinning(cfg)!Pins /\ pin[p].active /\ pin[p].key = Pinning(cfg)!Everyone
        BY <3>1 DEF Pinning!Active
      <4>3. p \notin off
        BY <1>0, <4>1, <4>2 DEF Pinning!OffSound
      <4>4. \A w \in on : w[2] # p
        BY <1>0, <4>2 DEF Pinning!OnSound, Pinning!Unborn
      <4> QED BY <1>7, <1>8, <4>2, <4>3, <4>4 DEF Pinning!Active
    <3> QED BY <3>2, <3>3
  <2> QED BY <1>0, <2>1, <2>2, <2>3, <2>4 DEF Pinning!PinsSound
<1> QED BY <1>6, <1>10, <1>11, <1>12, <1>13 DEF Pinning!PinInv

\* Every step keeps the invariant.
LEMMA PinStep ==
    ASSUME NEW cfg, Pinning(cfg)!PinAssumption, Pinning(cfg)!PinInv,
        [Pinning(cfg)!Next]_(Pinning(cfg)!vars)
    PROVE  Pinning(cfg)!PinInv'
<1>0. /\ cache \in [Pinning(cfg)!Keys -> Pinning(cfg)!Pins \cup {Nobody}]
      /\ asked \in [Pair -> Pinning(cfg)!Ask]
      /\ \A k \in Pinning(cfg)!Keys :
           Pinning(cfg)!Cached(Pinning(cfg)!Active(k)) \in Pinning(cfg)!Pins \cup {Nobody}
  <2>1. \A k \in Pinning(cfg)!Keys : Pinning(cfg)!Active(k) \subseteq Pinning(cfg)!Pins
    BY DEF Pinning!Active
  <2> QED BY <2>1 DEF Pinning!PinInv, Pinning!Typed, Pinning!Ask, Pinning!Cached
<1>1. ASSUME NEW r \in Pair, Pinning(cfg)!CreateGlobal(r) PROVE Pinning(cfg)!PinInv'
  <2>1. <<Pinning(cfg)!Everyone>> \in Pinning(cfg)!Todos /\ <<Pinning(cfg)!Everyone>> # <<>>
    BY DEF Pinning!Todos
  <2> QED BY <1>1, <2>1, PinBeginKeeps DEF Pinning!CreateGlobal
<1>2. ASSUME NEW r \in Pair, Pinning(cfg)!CreateTier(r) \/ Pinning(cfg)!Delete(r)
      PROVE Pinning(cfg)!PinInv'
  <2>1. \A todo \in {<<"free">>, <<"pro">>, <<"free", "pro">>, <<"pro", "free">>} :
           todo \in Pinning(cfg)!Todos /\ todo # <<>> /\ todo # <<Pinning(cfg)!Everyone>>
    BY DEF Pinning!Todos, Pinning!Everyone
  <2>2. \A plan \in Pinning(cfg)!Plans : <<plan>> \in Pinning(cfg)!Todos /\ <<plan>> # <<>>
        /\ <<plan>> # <<Pinning(cfg)!Everyone>>
    BY DEF Pinning!Todos, Pinning!Everyone, Pinning!Plans
  <2>3. CASE Pinning(cfg)!CreateTier(r)
    BY <2>1, <2>3, PinBeginKeeps DEF Pinning!CreateTier
  <2>4. CASE Pinning(cfg)!Delete(r)
    BY <2>2, <2>4, PinBeginKeeps DEF Pinning!Delete
  <2> QED BY <1>2, <2>3, <2>4
<1>3. ASSUME NEW r \in Pair, Pinning(cfg)!Fail(r) \/ Pinning(cfg)!EndDeadlock(r)
      PROVE Pinning(cfg)!PinInv'
  BY <1>0, <1>3, PinIdleKeeps DEF Pinning!Fail, Pinning!EndDeadlock
<1>4. CASE Pinning(cfg)!Restart
  <2>1. \A r \in Pair : asked'[r] = Pinning(cfg)!Idle
    BY <1>4 DEF Pinning!Restart
  <2>2. Pinning(cfg)!Typed'
    <3>1. Pinning(cfg)!Idle \in Pinning(cfg)!Ask
      BY DEF Pinning!Idle, Pinning!Ask, Pinning!Todos
    <3> QED BY <1>0, <1>4, <3>1 DEF Pinning!Restart, Pinning!PinInv, Pinning!Typed, Pinning!Ask
  <2>3. \A r \in Pair : Pinning(cfg)!AboutSound(r)' /\ Pinning(cfg)!OffSound(r)'
        /\ Pinning(cfg)!OnSound(r)'
    BY <2>1
       DEF Pinning!Idle, Pinning!AboutSound, Pinning!OffSound, Pinning!OnSound, Pinning!OnKeys,
           Pinning!Todo, Pinning!Early, Pinning!Late
  <2>4. Pinning(cfg)!RequestsApart'
    BY <2>1 DEF Pinning!Idle, Pinning!RequestsApart
  <2>5. Pinning(cfg)!PinsSound'
    BY <1>4 DEF Pinning!Restart, Pinning!PinInv, Pinning!PinsSound, Pinning!Active, Pinning!Unborn
  <2> QED BY <2>2, <2>3, <2>4, <2>5 DEF Pinning!PinInv
<1>5. CASE UNCHANGED Pinning(cfg)!vars
  <2>1. UNCHANGED <<pin, made, cache, asked>>
    BY <1>5 DEF Pinning!vars
  <2>2. Pinning(cfg)!Typed' /\ Pinning(cfg)!RequestsApart' /\ Pinning(cfg)!PinsSound'
    BY <2>1
       DEF Pinning!PinInv, Pinning!Typed, Pinning!RequestsApart, Pinning!PinsSound,
           Pinning!Active, Pinning!Unborn
  <2>3. ASSUME NEW r \in Pair PROVE Pinning(cfg)!AboutSound(r)' /\ Pinning(cfg)!OffSound(r)'
    <3>1. Pinning(cfg)!AboutSound(r) /\ Pinning(cfg)!OffSound(r)
          /\ Pinning(cfg)!OnKeys(r)' = Pinning(cfg)!OnKeys(r)
          /\ Pinning(cfg)!Todo(r)' = Pinning(cfg)!Todo(r)
      BY <2>1 DEF Pinning!PinInv, Pinning!OnKeys, Pinning!Todo
    <3>2. Pinning(cfg)!AboutSound(r)'
      BY <2>1, <3>1 DEF Pinning!AboutSound
    <3>3. Pinning(cfg)!OffSound(r)'
      BY <2>1, <3>1 DEF Pinning!OffSound
    <3> QED BY <3>2, <3>3
  <2>4. \A r \in Pair : Pinning(cfg)!OnSound(r)'
    BY <2>1 DEF Pinning!PinInv, Pinning!OnSound, Pinning!Active, Pinning!Unborn
  <2> QED BY <2>2, <2>3, <2>4 DEF Pinning!PinInv
<1> QED
  BY <1>1, <1>2, <1>3, <1>4, <1>5, PinLookKeeps, PinLockKeeps, PinInsertKeeps, PinRefreshKeeps,
     PinCommitKeeps
     DEF Pinning!Next

\* A set whose members are all the same has one at most.
LEMMA PinOneOrNone ==
    ASSUME NEW cfg, NEW S, \A p, q \in S : p = q
    PROVE  Pinning(cfg)!IsFiniteSet(S) /\ Pinning(cfg)!Cardinality(S) <= 1
<1>1. CASE S = {}
  BY <1>1, PinSame, FS_EmptySet
<1>2. CASE S # {}
  <2>1. PICK p \in S : TRUE
    BY <1>2
  <2>2. S = {p}
    BY <2>1
  <2>3. Pinning(cfg)!IsFiniteSet({p}) /\ Pinning(cfg)!Cardinality({p}) = 1
    BY PinSame, FS_Singleton
  <2> QED BY <2>2, <2>3
<1> QED BY <1>1, <1>2

\* A key has one active row at most, and every plan a pin.
LEMMA PinClaims ==
    ASSUME NEW cfg, Pinning(cfg)!PinAssumption, Pinning(cfg)!PinInv
    PROVE  Pinning(cfg)!TypeOK /\ Pinning(cfg)!OnePin
<1>1. Pinning(cfg)!TypeOK
  BY DEF Pinning!PinInv, Pinning!Typed, Pinning!TypeOK, Pinning!Ask, Pinning!Early, Pinning!Late
<1>2. \A k \in Pinning(cfg)!Keys : \A p, q \in Pinning(cfg)!Active(k) : p = q
  BY DEF Pinning!PinInv, Pinning!PinsSound, Pinning!Active
<1> QED BY <1>1, <1>2, PinOneOrNone DEF Pinning!OnePin, Pinning!PinInv, Pinning!PinsSound

\* A request that others wait for, while it waits itself, is about two keys.
LEMMA PinTwoKeys ==
    ASSUME NEW cfg, Pinning(cfg)!PinAssumption, Pinning(cfg)!PinInv, NEW x \in Pair,
        NEW y \in Pinning(cfg)!Waits(x), NEW z \in Pair, x \in Pinning(cfg)!Waits(z)
    PROVE  \E a, b \in Pinning(cfg)!OnKeys(x) \cup Pinning(cfg)!Todo(x) : a # b
<1> DEFINE k == Head(asked[x].todo)
<1>1. /\ asked[x] \in Pinning(cfg)!Ask /\ asked[z] \in Pinning(cfg)!Ask
      /\ Pinning(cfg)!AboutSound(x) /\ Pinning(cfg)!OffSound(x) /\ Pinning(cfg)!OnSound(x)
      /\ Pinning(cfg)!AboutSound(z) /\ Pinning(cfg)!OffSound(z)
      /\ asked[x].pc \in {"lock", "insert"} /\ asked[z].pc \in {"lock", "insert"}
      /\ x # z /\ y \in Pair /\ x # y
  BY DEF Pinning!PinInv, Pinning!Typed, Pinning!Ask, Pinning!Waits, Pinning!MustWait,
         Pinning!InsertWaits, Pinning!Others
<1>2. k \in Pinning(cfg)!Todo(x) /\ k \in Pinning(cfg)!Keys
  <2>1. asked[x].todo \in Pinning(cfg)!Todos /\ asked[x].todo # <<>>
    BY <1>1 DEF Pinning!AboutSound, Pinning!Early, Pinning!Ask
  <2> QED BY <2>1, PinTodoShape DEF Pinning!Todo
<1>3. asked[x].off # {} \/ asked[x].on # {}
  BY <1>1 DEF Pinning!Waits, Pinning!MustWait, Pinning!InsertWaits
<1>4. CASE asked[x].on # {}
  <2>1. PICK w \in asked[x].on : TRUE
    BY <1>4
  <2>2. w[1] \in Pinning(cfg)!OnKeys(x) /\ w[1] # k
    BY <1>1, <1>2, <2>1 DEF Pinning!OnKeys, Pinning!AboutSound
  <2> QED BY <1>2, <2>2
<1>5. CASE asked[x].on = {}
  <2>1. PICK p \in asked[x].off : TRUE
    BY <1>3, <1>5
  <2>2. asked[x].pc = "insert"
    BY <1>1, <1>5, <2>1 DEF Pinning!OffSound
  <2>3. p \in Pinning(cfg)!Pins /\ pin[p].active /\ pin[p].key = k
    BY <1>1, <1>5, <2>1, <2>2
       DEF Pinning!OffSound, Pinning!OnKeys, Pinning!AboutSound, Pinning!Ask
  <2>4. \A q \in Pinning(cfg)!Active(k) : q = p
    BY <2>3 DEF Pinning!Active, Pinning!PinInv, Pinning!PinsSound
  <2>5. \/ Pinning(cfg)!Active(k) \cap asked[y].off # {}
        \/ \E w \in asked[y].on : w[1] = k
    BY <2>2 DEF Pinning!Waits, Pinning!InsertWaits
  <2>6. asked[x].off \cap asked[y].off = {}
    BY <1>1 DEF Pinning!PinInv, Pinning!RequestsApart
  <2>7. PICK w \in asked[y].on : w[1] = k
    BY <2>1, <2>4, <2>5, <2>6
  <2>8. p \in asked[y].off
    BY <1>1, <2>3, <2>7 DEF Pinning!PinInv, Pinning!OnSound, Pinning!Active
  <2> QED BY <2>1, <2>6, <2>8
<1> QED BY <1>4, <1>5

\* Who waits in a ring has locked for one plan and wants another.
LEMMA PinDeadlockClaim ==
    ASSUME NEW cfg, Pinning(cfg)!PinAssumption, Pinning(cfg)!PinInv
    PROVE  Pinning(cfg)!DeadlockNeedsTwoPlans
<1> SUFFICES ASSUME NEW r \in Pair, Pinning(cfg)!Deadlocked(r)
             PROVE  Pinning(cfg)!Cardinality(Pinning(cfg)!OnKeys(r) \cup Pinning(cfg)!Todo(r)) > 1
  BY DEF Pinning!DeadlockNeedsTwoPlans, Pinning!OnKeys, Pinning!Todo
<1>1. PICK y \in Pair, z \in Pair : y \in Pinning(cfg)!Waits(r) /\ r \in Pinning(cfg)!Waits(z)
  BY DEF Pinning!Deadlocked
<1>2. PICK a \in Pinning(cfg)!OnKeys(r) \cup Pinning(cfg)!Todo(r),
      b \in Pinning(cfg)!OnKeys(r) \cup Pinning(cfg)!Todo(r) : a # b
  BY <1>1, PinTwoKeys
<1>3. Pinning(cfg)!OnKeys(r) \cup Pinning(cfg)!Todo(r) \subseteq {"free", "pro"} \cup {"everyone"}
  BY DEF Pinning!PinInv, Pinning!AboutSound, Pinning!Plans, Pinning!Everyone
<1>4. Pinning(cfg)!IsFiniteSet(({"free"} \cup {"pro"}) \cup {"everyone"})
  BY PinSame, FS_Singleton, FS_AddElement
<1>5. Pinning(cfg)!IsFiniteSet(Pinning(cfg)!OnKeys(r) \cup Pinning(cfg)!Todo(r))
  <2>1. ({"free"} \cup {"pro"}) \cup {"everyone"} = {"free", "pro"} \cup {"everyone"}
    OBVIOUS
  <2> QED BY <1>3, <1>4, <2>1, PinSame, FS_Subset
<1>6. Pinning(cfg)!IsFiniteSet({a}) /\ Pinning(cfg)!Cardinality({a}) = 1
  BY PinSame, FS_Singleton
<1>7. Pinning(cfg)!Cardinality({a} \cup {b}) = 2 /\ Pinning(cfg)!IsFiniteSet({a} \cup {b})
  BY <1>2, <1>6, PinSame, FS_AddElement
<1>8. {a} \cup {b} \subseteq Pinning(cfg)!OnKeys(r) \cup Pinning(cfg)!Todo(r)
  BY <1>2
<1>9. Pinning(cfg)!Cardinality({a} \cup {b}) <=
      Pinning(cfg)!Cardinality(Pinning(cfg)!OnKeys(r) \cup Pinning(cfg)!Todo(r))
  BY <1>5, <1>8, PinSame, FS_Subset
<1>10. Pinning(cfg)!Cardinality(Pinning(cfg)!OnKeys(r) \cup Pinning(cfg)!Todo(r)) \in Nat
  BY <1>5, PinSame, FS_CardinalityType
<1> QED BY <1>7, <1>9, <1>10

\* A request that moves one at a time, the tables and the caches as they were.
LEMMA PinTurnMoves ==
    ASSUME NEW cfg, Pinning(cfg)!PinInv, Pinning(cfg)!CachedInTurn, NEW r \in Pair,
        NEW f \in Pinning(cfg)!Ask,
           asked' = [asked EXCEPT ![r] = f], UNCHANGED <<pin, cache>>,
           asked[r].pc # "commit", f.pc \notin {"set", "commit"},
           f.pc = "idle" \/ \A o \in Pair \ {r} : asked[o].pc = "idle"
    PROVE  Pinning(cfg)!CachedInTurn'
<1>1. asked'[r] = f /\ \A o \in Pair \ {r} : asked'[o] = asked[o]
  BY DEF Pinning!PinInv, Pinning!Typed
<1>2. \A k : Pinning(cfg)!Active(k)' = Pinning(cfg)!Active(k)
  BY DEF Pinning!Active
<1>3. (\A o \in Pair : asked[o].pc # "commit") =>
         (\A o \in Pair : asked'[o].pc # "commit") /\ \A k \in Pinning(cfg)!Keys : cache'[k] =
             Pinning(cfg)!Cached(Pinning(cfg)!Active(k)')
  BY <1>1, <1>2 DEF Pinning!CachedInTurn
<1>4. ASSUME NEW o \in Pair, asked'[o].pc # "idle" PROVE asked'[o].pc = asked[o].pc \/ o = r
  BY <1>1
<1>5. \A o \in Pair \ {r} : asked[o].pc \in {"set", "commit"} =>
         Pinning(cfg)!View(o)' = Pinning(cfg)!View(o)
             /\ \A k \in Pinning(cfg)!Keys : Pinning(cfg)!Seen(o, k)' = Pinning(cfg)!Seen(o, k)
  <2> SUFFICES ASSUME NEW o \in Pair \ {r}
               PROVE  Pinning(cfg)!View(o)' = Pinning(cfg)!View(o) /\ \A k \in Pinning(cfg)!Keys :
                   Pinning(cfg)!Seen(o, k)' = Pinning(cfg)!Seen(o, k)
    OBVIOUS
  <2>1. Pinning(cfg)!Refreshed(o)' = Pinning(cfg)!Refreshed(o)
        /\ \A k : Pinning(cfg)!Seen(o, k)' = Pinning(cfg)!Seen(o, k)
    BY <1>1, <1>2 DEF Pinning!Refreshed, Pinning!Seen
  <2> QED BY <2>1 DEF Pinning!View
<1>6. \A o \in Pair :
         /\ asked'[o].pc = "set" => asked'[o].view = Pinning(cfg)!View(o)'
         /\ asked'[o].pc = "commit" => \A k \in Pinning(cfg)!Keys : cache'[k] =
              Pinning(cfg)!Cached(Pinning(cfg)!Seen(o, k)')
  BY <1>1, <1>5 DEF Pinning!CachedInTurn
<1>7. \A o, q \in Pair : asked'[o].pc # "idle" /\ asked'[q].pc # "idle" => o = q
  BY <1>1 DEF Pinning!CachedInTurn
<1>8. (\A o \in Pair : asked'[o].pc # "commit") =>
         \A k \in Pinning(cfg)!Keys : cache'[k] = Pinning(cfg)!Cached(Pinning(cfg)!Active(k)')
  BY <1>1, <1>3
<1> QED BY <1>6, <1>7, <1>8 DEF Pinning!CachedInTurn

\* One request at a time, the caches hold what is committed.
LEMMA PinTurnStep ==
    ASSUME NEW cfg, Pinning(cfg)!PinAssumption, ~cfg.overlap, ~cfg.overlap, Pinning(cfg)!PinInv,
        Pinning(cfg)!CachedInTurn, [Pinning(cfg)!Next]_(Pinning(cfg)!vars)
    PROVE  Pinning(cfg)!CachedInTurn'
<1>0. /\ asked \in [Pair -> Pinning(cfg)!Ask] /\ Pinning(cfg)!PinInv'
      /\ asked' \in [Pair -> Pinning(cfg)!Ask]
      /\ Pinning(cfg)!Idle \in Pinning(cfg)!Ask /\ Pinning(cfg)!Idle.pc = "idle"
  BY PinStep DEF Pinning!PinInv, Pinning!Typed, Pinning!Ask, Pinning!Idle, Pinning!Todos
<1>1. ASSUME NEW r \in Pair,
             \/ Pinning(cfg)!CreateGlobal(r) \/ Pinning(cfg)!CreateTier(r)
                  \/ Pinning(cfg)!Delete(r)
             \/ Pinning(cfg)!Look(r) \/ Pinning(cfg)!Lock(r) \/ Pinning(cfg)!Insert(r)
                  \/ Pinning(cfg)!EndDeadlock(r)
      PROVE  Pinning(cfg)!CachedInTurn'
  <2>1. \E f : asked' = [asked EXCEPT ![r] = f]
        /\ f.pc \in {"idle"} \cup Pinning(cfg)!Early \cup {"refresh"}
    <3>1. CASE Pinning(cfg)!CreateGlobal(r) \/ Pinning(cfg)!CreateTier(r)
          \/ Pinning(cfg)!Delete(r)
      <4>1. PICK op, todo : Pinning(cfg)!Begin(r, op, todo)
        BY <3>1 DEF Pinning!CreateGlobal, Pinning!CreateTier, Pinning!Delete
      <4>2. [[Pinning(cfg)!Idle EXCEPT !.op = op, !.todo = todo] EXCEPT !.pc = "look"].pc = "look"
        BY DEF Pinning!Idle
      <4> QED BY <4>1, <4>2 DEF Pinning!Begin, Pinning!Set, Pinning!Early
    <3>2. CASE Pinning(cfg)!Look(r)
      <4>1. [[asked[r] EXCEPT !.found = Pinning(cfg)!Active(Head(asked[r].todo))]
            EXCEPT !.pc = "lock"].pc = "lock"
        BY <1>0 DEF Pinning!Ask
      <4> QED BY <3>2, <4>1 DEF Pinning!Look, Pinning!Set, Pinning!Early
    <3>3. CASE Pinning(cfg)!Lock(r)
      <4>1. /\ [[asked[r] EXCEPT !.off = @ \cup Pinning(cfg)!Retired(r)]
                 EXCEPT !.pc = "insert"].pc = "insert"
            /\ [[asked[r] EXCEPT !.off = Pinning(cfg)!Retired(r), !.todo = <<>>]
                 EXCEPT !.pc = "refresh"].pc = "refresh"
        BY <1>0 DEF Pinning!Ask
      <4> QED BY <1>0, <3>3, <4>1 DEF Pinning!Lock, Pinning!Set, Pinning!Early
    <3>4. CASE Pinning(cfg)!Insert(r)
      <4> DEFINE g == [asked[r] EXCEPT !.on = @ \cup {<<Head(asked[r].todo), made + 1>>},
            !.todo = Tail(@)]
      <4>1. [g EXCEPT !.pc = "look"].pc = "look" /\ [g EXCEPT !.pc = "refresh"].pc = "refresh"
        BY <1>0 DEF Pinning!Ask
      <4>2. CASE asked' = [asked EXCEPT ![r] = Pinning(cfg)!Idle]
        BY <1>0, <4>2
      <4>3. CASE asked' = [asked EXCEPT ![r] = [g EXCEPT !.pc = IF Len(asked[r].todo) > 1
            THEN "look" ELSE "refresh"]]
        <5>1. CASE Len(asked[r].todo) > 1
          BY <4>1, <4>3, <5>1 DEF Pinning!Early
        <5>2. CASE ~(Len(asked[r].todo) > 1)
          BY <4>1, <4>3, <5>2 DEF Pinning!Early
        <5> QED BY <5>1, <5>2
      <4> QED BY <3>4, <4>2, <4>3 DEF Pinning!Insert, Pinning!Set
    <3>5. CASE Pinning(cfg)!EndDeadlock(r)
      BY <1>0, <3>5 DEF Pinning!EndDeadlock
    <3> QED BY <1>1, <3>1, <3>2, <3>3, <3>4, <3>5
  <2>2. PICK f : asked' = [asked EXCEPT ![r] = f]
        /\ f.pc \in {"idle"} \cup Pinning(cfg)!Early \cup {"refresh"}
    BY <2>1
  <2>3. f \in Pinning(cfg)!Ask /\ f.pc \notin {"set", "commit"}
    BY <1>0, <2>2 DEF Pinning!Early
  <2>4. UNCHANGED <<pin, cache>>
    BY <1>1
       DEF Pinning!CreateGlobal, Pinning!CreateTier, Pinning!Delete, Pinning!Begin, Pinning!Look,
           Pinning!Lock, Pinning!Insert, Pinning!EndDeadlock
  <2>5. asked[r].pc \in {"idle"} \cup Pinning(cfg)!Early
    BY <1>1
       DEF Pinning!CreateGlobal, Pinning!CreateTier, Pinning!Delete, Pinning!Begin, Pinning!Look,
           Pinning!Lock, Pinning!Insert, Pinning!EndDeadlock, Pinning!Deadlocked, Pinning!Waits,
           Pinning!Early
  <2>6. \A o \in Pair \ {r} : asked[o].pc = "idle" \/ f.pc = "idle"
    <3>1. CASE asked[r].pc # "idle"
      BY <3>1 DEF Pinning!CachedInTurn
    <3>2. CASE asked[r].pc = "idle"
      BY <1>1, <3>2
         DEF Pinning!CreateGlobal, Pinning!CreateTier, Pinning!Delete, Pinning!Begin,
             Pinning!Look, Pinning!Lock, Pinning!Insert, Pinning!EndDeadlock, Pinning!Deadlocked,
             Pinning!Waits, Pinning!Others
    <3> QED BY <3>1, <3>2
  <2> QED BY <2>2, <2>3, <2>4, <2>5, <2>6, PinTurnMoves DEF Pinning!Early
<1>2. ASSUME NEW r \in Pair, Pinning(cfg)!Refresh(r) PROVE Pinning(cfg)!CachedInTurn'
  <2>1. /\ asked[r].pc = "refresh" /\ UNCHANGED <<pin, cache>>
        /\ asked'[r].pc = "set" /\ asked'[r].view = Pinning(cfg)!View(r)
        /\ asked'[r].off = asked[r].off /\ asked'[r].on = asked[r].on
        /\ asked'[r].op = asked[r].op
        /\ \A o \in Pair \ {r} : asked'[o] = asked[o]
    BY <1>0, <1>2 DEF Pinning!Refresh, Pinning!Set, Pinning!Ask
  <2>2. \A o \in Pair \ {r} : asked[o].pc = "idle"
    BY <2>1 DEF Pinning!CachedInTurn
  <2>3. Pinning(cfg)!View(r)' = Pinning(cfg)!View(r)
        /\ \A k : Pinning(cfg)!Active(k)' = Pinning(cfg)!Active(k)
    BY <2>1 DEF Pinning!View, Pinning!Refreshed, Pinning!Seen, Pinning!Active
  <2> QED BY <2>1, <2>2, <2>3 DEF Pinning!CachedInTurn
<1>3. ASSUME NEW r \in Pair, Pinning(cfg)!SetCache(r) PROVE Pinning(cfg)!CachedInTurn'
  <2>1. /\ asked[r].pc = "set" /\ UNCHANGED pin
        /\ asked'[r].pc = "commit"
        /\ asked'[r].off = asked[r].off /\ asked'[r].on = asked[r].on
        /\ asked'[r].op = asked[r].op
        /\ \A o \in Pair \ {r} : asked'[o] = asked[o]
        /\ cache' = [k \in Pinning(cfg)!Keys |-> IF \E v \in asked[r].view : v[1] = k
                                    THEN (CHOOSE v \in asked[r].view : v[1] = k)[2]
                                    ELSE cache[k]]
    BY <1>0, <1>3 DEF Pinning!SetCache, Pinning!Set, Pinning!Ask
  <2>2. \A o \in Pair \ {r} : asked[o].pc = "idle"
    BY <2>1 DEF Pinning!CachedInTurn
  <2>3. \A k \in Pinning(cfg)!Keys : Pinning(cfg)!Seen(r, k)' = Pinning(cfg)!Seen(r, k)
    BY <2>1 DEF Pinning!Seen, Pinning!Active
  <2>4. /\ asked[r].view = {<<k, Pinning(cfg)!Cached(Pinning(cfg)!Seen(r,
             k))>> : k \in Pinning(cfg)!Refreshed(r)}
        /\ \A k \in Pinning(cfg)!Keys : cache[k] = Pinning(cfg)!Cached(Pinning(cfg)!Active(k))
    BY <2>1, <2>2 DEF Pinning!CachedInTurn, Pinning!View
  <2>5. ASSUME NEW k \in Pinning(cfg)!Keys
        PROVE cache'[k] = Pinning(cfg)!Cached(Pinning(cfg)!Seen(r, k))
    <3>1. CASE k \in Pinning(cfg)!Refreshed(r)
      <4>1. <<k, Pinning(cfg)!Cached(Pinning(cfg)!Seen(r, k))>> \in asked[r].view
        BY <2>4, <3>1
      <4>2. \A v \in asked[r].view : v[1] = k =>
            v = <<k, Pinning(cfg)!Cached(Pinning(cfg)!Seen(r, k))>>
        BY <2>4
      <4>3. (CHOOSE v \in asked[r].view : v[1] = k) = <<k,
            Pinning(cfg)!Cached(Pinning(cfg)!Seen(r, k))>>
        BY <4>1, <4>2
      <4> QED BY <2>1, <4>1, <4>3
    <3>2. CASE k \notin Pinning(cfg)!Refreshed(r)
      <4>1. asked[r].op = "global" /\ k # Pinning(cfg)!Everyone
        BY <3>2 DEF Pinning!Refreshed
      <4>2. Pinning(cfg)!OnKeys(r) \subseteq {Pinning(cfg)!Everyone}
            /\ Pinning(cfg)!Everyone \notin Pinning(cfg)!Plans
        BY <4>1 DEF Pinning!PinInv, Pinning!AboutSound, Pinning!Everyone, Pinning!Plans
      <4>3. \A p \in Pinning(cfg)!Active(k) : p \notin asked[r].off
        BY <2>1, <4>1, <4>2 DEF Pinning!PinInv, Pinning!OffSound, Pinning!Active
      <4>4. Pinning(cfg)!Seen(r, k) = Pinning(cfg)!Active(k)
        BY <4>1, <4>2, <4>3 DEF Pinning!Seen, Pinning!OnKeys
      <4>5. \A v \in asked[r].view : v[1] # k
        BY <2>4, <3>2
      <4> QED BY <2>1, <2>4, <4>4, <4>5
    <3> QED BY <3>1, <3>2
  <2> QED BY <2>1, <2>2, <2>3, <2>5 DEF Pinning!CachedInTurn
<1>4. ASSUME NEW r \in Pair, Pinning(cfg)!Commit(r) PROVE Pinning(cfg)!CachedInTurn'
  <2>1. /\ asked[r].pc = "commit" /\ asked'[r] = Pinning(cfg)!Idle /\ UNCHANGED cache
        /\ \A o \in Pair \ {r} : asked'[o] = asked[o]
    BY <1>0, <1>4 DEF Pinning!Commit
  <2>2. \A o \in Pair : asked'[o].pc = "idle"
    BY <1>0, <2>1 DEF Pinning!CachedInTurn
  <2>3. ASSUME NEW k \in Pinning(cfg)!Keys PROVE Pinning(cfg)!Active(k)' = Pinning(cfg)!Seen(r, k)
    BY <1>4, PinCommitShows DEF Pinning!Seen
  <2> QED BY <2>1, <2>2, <2>3 DEF Pinning!CachedInTurn
<1>5. CASE UNCHANGED Pinning(cfg)!vars
  <2>1. UNCHANGED <<pin, cache, asked>> /\ \A k : Pinning(cfg)!Active(k)' = Pinning(cfg)!Active(k)
    BY <1>5 DEF Pinning!vars, Pinning!Active
  <2>2. \A r \in Pair : Pinning(cfg)!Refreshed(r)' = Pinning(cfg)!Refreshed(r)
        /\ \A k : Pinning(cfg)!Seen(r, k)' = Pinning(cfg)!Seen(r, k)
    BY <2>1 DEF Pinning!Refreshed, Pinning!Seen
  <2>3. \A r \in Pair : Pinning(cfg)!View(r)' = Pinning(cfg)!View(r)
    BY <2>2 DEF Pinning!View
  <2> QED BY <2>1, <2>2, <2>3 DEF Pinning!CachedInTurn
<1> QED BY <1>1, <1>2, <1>3, <1>4, <1>5 DEF Pinning!Next, Pinning!Fail, Pinning!Restart

\* What is used is then what is shown.
LEMMA PinUsedClaim ==
    ASSUME NEW cfg, Pinning(cfg)!PinAssumption, Pinning(cfg)!CachedInTurn
    PROVE  Pinning(cfg)!UsedIsShown
<1> SUFFICES ASSUME \A r \in Pair : asked[r].pc = "idle", NEW plan \in Pinning(cfg)!Plans
             PROVE  Pinning(cfg)!Used(plan) = Pinning(cfg)!Shown(plan)
  BY DEF Pinning!UsedIsShown
<1>1. \A k \in Pinning(cfg)!Keys : cache[k] =
      [j \in Pinning(cfg)!Keys |-> Pinning(cfg)!Cached(Pinning(cfg)!Active(j))][k]
  BY DEF Pinning!CachedInTurn
<1>2. plan \in Pinning(cfg)!Keys /\ Pinning(cfg)!Everyone \in Pinning(cfg)!Keys
  BY DEF Pinning!Keys
<1> QED BY <1>1, <1>2 DEF Pinning!Used, Pinning!Shown, Pinning!Resolve

-----------------------------------------------------------------------------
(***************************************************************************)
(* The scenes.                                                             *)
(***************************************************************************)
\* In the scenes of a promotion code, its invariant holds.
LEMMA CodeScenes ==
    Spec => []/\ scene = "codes" => Promos(Crowd)!PromoInv
              /\ scene = "codes in turn" => Promos(Queue)!PromoInv
<1> DEFINE Inv == /\ scene = "codes" => Promos(Crowd)!PromoInv
                  /\ scene = "codes in turn" => Promos(Queue)!PromoInv
<1>1. Init => Inv
    BY BillingAssumption, PromoStart DEF Init
<1>2. Inv /\ [Next]_vars => Inv'
  <2> SUFFICES ASSUME Inv, [Next]_vars PROVE Inv'
    OBVIOUS
  <2> QED BY BillingAssumption, ScenesApart, CodeSteps, PromoStep
<1> QED BY <1>1, <1>2, PTL DEF Spec

\* In the scenes of the top-up, an account claims once and, claims coming one at a time,
\* so does a device.
LEMMA TopScenes ==
    Spec => []/\ scene = "top-ups" => TopUps(Crowd)!TopUpInv
              /\ scene = "top-ups in turn" => TopUps(OnlyOne)!InTurnInv
<1> DEFINE Inv == /\ scene = "top-ups" => TopUps(Crowd)!TopUpInv
                  /\ scene = "top-ups in turn" => TopUps(OnlyOne)!InTurnInv
<1>1. Init => Inv
  <2>1. TopUps(Crowd)!InTurnInv => TopUps(Crowd)!TopUpInv
    BY DEF TopUps!InTurnInv
  <2> QED BY <2>1, BillingAssumption, TopUpStart DEF Init
<1>2. Inv /\ [Next]_vars => Inv'
  <2> SUFFICES ASSUME Inv, [Next]_vars PROVE Inv'
    OBVIOUS
  <2>1. \A r, s \in OnlyOne.requests : r = s
    BY DEF OnlyOne
  <2> QED BY <2>1, BillingAssumption, ScenesApart, TopSteps, TopUpStep, TopUpStepInTurn
<1> QED BY <1>1, <1>2, PTL DEF Spec

\* In the scenes of the plans one price changes at most.
LEMMA OneChangeEach == Plans(TwoPlans)!OneChange /\ Plans(OnePlan)!OneChange
<1>1. Cardinality({"monthly_pro"}) = 1 /\ IsFiniteSet({"monthly_pro"})
    BY FS_Singleton
<1>2. Cardinality({"monthly_pro"} \cup {"best_monthly"}) = 2
    BY <1>1, FS_AddElement
<1>3. {"monthly_pro"} \cup {"best_monthly"} = {"monthly_pro", "best_monthly"}
    OBVIOUS
<1>4. /\ Plans(TwoPlans)!Cardinality(TwoPlans.codes) = 1
      /\ Plans(OnePlan)!Cardinality(OnePlan.codes) = 2
    BY <1>1, <1>2, <1>3, PlanSame DEF TwoPlans, OnePlan
<1>5. /\ TwoPlans.env = 1 .. 1 /\ TwoPlans.prices = 1 + 1
      /\ OnePlan.env = 1 .. 2 /\ OnePlan.prices = 2 + 1
    BY DEF TwoPlans, OnePlan
<1> QED BY <1>4, <1>5 DEF Plans!OneChange

\* In the scenes of the plans, rows say what Stripe has and every paid price is named.
LEMMA PlanScenes ==
    Spec => []/\ scene = "plans of two" => Plans(TwoPlans)!PricedInv
              /\ scene = "plans of one" => Plans(OnePlan)!PricedInv
<1> DEFINE Inv == /\ scene = "plans of two" => Plans(TwoPlans)!PricedInv
                  /\ scene = "plans of one" => Plans(OnePlan)!PricedInv
<1>1. Init => Inv
    BY BillingAssumption, OneChangeEach, PlanStartPriced DEF Init
<1>2. Inv /\ [Next]_vars => Inv'
  <2> SUFFICES ASSUME Inv, [Next]_vars PROVE Inv'
    OBVIOUS
  <2> QED BY BillingAssumption, OneChangeEach, ScenesApart, PlanSteps, PlanPricedStep
<1> QED BY <1>1, <1>2, PTL DEF Spec

\* In the scene of the limits, what a request has found is what there is.
LEMMA LimitScene == Spec => [](scene = "limits in turn" => Limits!LimitInv)
<1>1. Init /\ scene = "limits in turn" => Limits!LimitInv
    BY BillingAssumption, LimitStart DEF Init
<1>2. ASSUME scene = "limits in turn" => Limits!LimitInv, [Next]_vars
      PROVE  (scene = "limits in turn" => Limits!LimitInv)'
    BY <1>2, BillingAssumption, ScenesApart, PlanSteps, LimitStep
<1> QED BY <1>1, <1>2, PTL DEF Spec

\* In the scenes of the pins, no two requests meet on a row or on a key and, coming one at a
\* time, they leave in the caches what they commit.
LEMMA PinScenes ==
    Spec => []/\ scene = "pins" => Pinning(ManyPins)!PinInv
              /\ scene = "pins in turn" =>
                     Pinning(PinsInTurn)!PinInv /\ Pinning(PinsInTurn)!CachedInTurn
<1> DEFINE Inv == /\ scene = "pins" => Pinning(ManyPins)!PinInv
                  /\ scene = "pins in turn" =>
                         Pinning(PinsInTurn)!PinInv /\ Pinning(PinsInTurn)!CachedInTurn
<1>0. ~PinsInTurn.overlap
    BY DEF PinsInTurn
<1>1. Init => Inv
  <2>1. \A cfg \in {ManyPins, PinsInTurn} : Pinning(cfg)!InTurnInv =>
            Pinning(cfg)!PinInv /\ (~cfg.overlap => Pinning(cfg)!CachedInTurn)
    BY DEF Pinning!InTurnInv
  <2> QED BY <1>0, <2>1, BillingAssumption, PinStart DEF Init
<1>2. Inv /\ [Next]_vars => Inv'
  <2> SUFFICES ASSUME Inv, [Next]_vars PROVE Inv'
    OBVIOUS
  <2> QED BY <1>0, BillingAssumption, ScenesApart, PlanSteps, PinStep, PinTurnStep
<1> QED BY <1>1, <1>2, PTL DEF Spec

\* GiftsSound (promo.py 116-214, exhaustion_top_up.py 60-170) for any sets of users and
\* requests: a code is redeemed once per user and counted truly while requests come one at a
\* time, and an account, or then a device, claims its top-up once.
THEOREM GiftsAgree == Spec => []GiftsSound
<1> DEFINE Inv == /\ scene = "codes" => Promos(Crowd)!PromoInv
                  /\ scene = "codes in turn" => Promos(Queue)!PromoInv
           Top == /\ scene = "top-ups" => TopUps(Crowd)!TopUpInv
                  /\ scene = "top-ups in turn" => TopUps(OnlyOne)!InTurnInv
<1>1. Inv /\ Top => GiftsSound
    BY DEF GiftsSound, Promos!PromoInv, TopUps!TopUpInv, TopUps!InTurnInv
<1> QED BY <1>1, CodeScenes, TopScenes, PTL

\* PlansSound (webhook_handler.py 276-391, price_resolver.py 115-138, admin_tier_llm.py
\* 300-590, step_pin_cache.py) for any users with one price change, and any sets of
\* administrators' requests.
THEOREM PlansAgree == Spec => []PlansSound
<1> DEFINE Priced == /\ scene = "plans of two" => Plans(TwoPlans)!PricedInv
                     /\ scene = "plans of one" => Plans(OnePlan)!PricedInv
           Found == scene = "limits in turn" => Limits!LimitInv
           Pinned == /\ scene = "pins" => Pinning(ManyPins)!PinInv
                     /\ scene = "pins in turn" =>
                            Pinning(PinsInTurn)!PinInv /\ Pinning(PinsInTurn)!CachedInTurn
<1>1. ASSUME NEW cfg, Plans(cfg)!PlanAssumption, Plans(cfg)!PricedInv
      PROVE  /\ Plans(cfg)!TypeOK /\ Plans(cfg)!PaidIsServed
             /\ Plans(cfg)!ServedIsPaid /\ Plans(cfg)!NoneParked
  <2>1. Plans(cfg)!PlanInv /\ Plans(cfg)!NoneParked
    BY <1>1 DEF Plans!PricedInv
  <2>2. Plans(cfg)!TypeOK
    BY <2>1 DEF Plans!PlanInv, Plans!Typed
  <2> QED BY <1>1, <2>1, <2>2, PlanClaims
<1>2. Limits!LimitInv => Limits!TypeOK
    BY DEF Limits!LimitInv, Limits!Rests, Limits!TypeOK
<1>3. Priced /\ Found /\ Pinned => PlansSound
    BY <1>1, <1>2, BillingAssumption, PinClaims, PinDeadlockClaim, PinUsedClaim DEF PlansSound
<1> QED BY <1>3, PlanScenes, LimitScene, PinScenes, PTL

\* BillingSteps (refund.py 302-372, promo.py 142-160, exhaustion_top_up.py 120-150,
\* admin_tier_limits.py, admin_free_grant.py) for any sets of records, users and requests.
THEOREM StepsAgree == Spec => BillingSteps
<1> DEFINE Inv == /\ scene = "refunds" => Refunds!DeskInv
                  /\ scene = "codes in turn" => Promos(Queue)!PromoInv
                  /\ scene = "top-ups" => TopUps(Crowd)!TopUpInv
                  /\ scene = "top-ups in turn" => TopUps(OnlyOne)!InTurnInv
                  /\ scene = "limits in turn" => Limits!LimitInv
           Kept == /\ scene = "refunds" => Refunds!StillPaid
                   /\ scene = "codes in turn" => Promos(Queue)!BelowLimit
                   /\ scene = "top-ups" => TopUps(Crowd)!EmptyIfClaimed
                   /\ scene = "top-ups in turn" => TopUps(OnlyOne)!EmptyIfClaimed
                   /\ scene = "limits in turn" => Limits!NewInForce /\ Limits!TermsKept
<1>1. Inv /\ [Next]_vars => Kept
  <2> SUFFICES ASSUME Inv, [Next]_vars PROVE Kept
    OBVIOUS
  <2>1. scene = "refunds" => [Refunds!Next]_Refunds!vars
    BY ScenesApart DEF deskVars, Refunds!vars
  <2>2. TopUps(OnlyOne)!InTurnInv => TopUps(OnlyOne)!TopUpInv
    BY DEF TopUps!InTurnInv
  <2> QED
    BY <2>1, <2>2, BillingAssumption, CodeSteps, TopSteps, PlanSteps, DeskStep, PromoStep,
       TopUpStep, LimitStep
<1>2. Spec => []Inv
    BY RefundsScene, CodeScenes, TopScenes, LimitScene, PTL
<1>3. [][Kept]_vars => BillingSteps
    BY DEF BillingSteps
<1> QED BY <1>1, <1>2, <1>3, PTL DEF Spec
=============================================================================
