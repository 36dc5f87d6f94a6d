----------------------------- MODULE QuotaMeter -----------------------------
(***************************************************************************)
(* One account's period counters, its credits, and the requests that are   *)
(* charged to them before they do their work.                              *)
(*                                                                         *)
(* Until its charge is committed a request keeps the rows it locked, the   *)
(* subscription (SELECT ... FOR UPDATE, when there is one that entitles)   *)
(* and the user (the row every credit is taken under).  Most requests      *)
(* commit the charge with the result; a resume and an interview commit it  *)
(* before they do any work.                                                *)
(*                                                                         *)
(* The module ends with the proofs of what it claims.                      *)
(***************************************************************************)
EXTENDS Integers, FiniteSetTheorems, TLAPS

CONSTANTS
    Requests,   \* each is served once
    Ops,        \* what they may ask for
    Limit,      \* the plan's allowance of each counter
    MaxCredits, \* bound: the credits to start from
    MaxPeriod   \* bound: the last billing period

AllOps == {"resume", "fit", "letter", "interview", "coach", "submit", "generate", "whisper",
           "save"}
Stories == {"generate", "whisper", "save"}  \* whisper: a generate from a recording
Metered == {"resume", "fit", "whisper"}     \* those with a counter
Streams == {"fit", "letter"}                \* those answered while they work
Prepaid == {"resume", "interview"}          \* those charged for good before they work
Unnamed == {"coach", "submit"}              \* those that read an undefined name
Rows == {"sub", "user"}

\* What the modules that instantiate this one assume of its constants.
QuotaAssumption ==
    /\ Ops \subseteq AllOps
    /\ Limit \in Nat \ {0}
    /\ MaxCredits \in Nat
    /\ MaxPeriod \in Nat \ {0}

VARIABLES
    sub,        \* the subscription, as a request that asks now finds it
    period,     \* the billing period
    used,       \* committed resumes_used, fit_analyses_used, whisper_uses_used
    credits,    \* committed balance of free credits
    first,      \* committed zero-delta audit rows of each free first time
    unlocked,   \* an administrator unlocked the fit analysis
    busy,       \* _fit_locks, _cover_letter_locks
    pc, job,
    held,       \* the rows a request has locked
    charge,     \* what its transaction has charged
    count,      \* the counter value its transaction has written
    paid,       \* what was committed of it
    since,      \* the period it was charged to
    answer,     \* its outcome
    left        \* its client disconnected

account == <<sub, period, unlocked>>
books == <<used, credits, first>>
outcome == <<paid, since, answer, left>>
vars == <<account, books, busy, pc, job, held, charge, count, outcome>>

\* paused: not selected.  lapsed: selected and locked, but out of its period.
Subs == {"none", "paused", "current", "lapsed"}
Charges == {"meter", "included", "unlock", "free", "credit"}
Labels == {"idle", "meter", "settle", "pay", "charged", "commit", "work", "end", "orphan",
           "done"}
Answers == {"none", "ok", "limit", "refused", "busy", "error", "gone"}

Init ==
    /\ sub \in Subs
    /\ period = 1
    /\ used = [m \in Metered |-> 0]
    /\ credits \in 0 .. MaxCredits
    /\ first = [s \in {"generate", "save"} |-> 0]
    /\ unlocked \in BOOLEAN
    /\ busy = {}
    /\ pc = [r \in Requests |-> "idle"]
    /\ job \in [Requests -> Ops]
    /\ held = [r \in Requests |-> {}]
    /\ charge = [r \in Requests |-> {}]
    /\ count = [r \in Requests |-> 0]
    /\ paid = [r \in Requests |-> {}]
    /\ since = [r \in Requests |-> 0]
    /\ answer = [r \in Requests |-> "none"]
    /\ left = [r \in Requests |-> FALSE]

Op(r) == job[r]
First(r) == IF Op(r) = "save" THEN "save" ELSE "generate"
Goto(r, l) == pc' = [pc EXCEPT ![r] = l]
SubRow == sub \in {"current", "lapsed"}
Entitled == sub = "current"

\* The locks the step r is about to take needs, in the order they are taken.
OrderUserFirst(r) ==
    CASE pc[r] = "meter" -> <<"sub">>
      [] pc[r] = "settle" -> IF Op(r) # "interview" THEN <<"user", "sub">> ELSE <<"sub">>
      [] pc[r] = "pay" -> <<"user">>
      [] OTHER -> <<>>

Order(r) ==
    CASE pc[r] = "meter" -> <<"sub">>
      [] pc[r] = "settle" -> IF Op(r) \in Stories THEN <<"user", "sub">> ELSE <<"sub">>
      [] pc[r] = "pay" -> <<"user">>
      [] OTHER -> <<>>

Needs(r, i) ==
    /\ i \in DOMAIN Order(r)
    /\ Order(r)[i] \notin held[r]
    /\ Order(r)[i] = "sub" => SubRow

Wants(r, row) ==
    \E i \in 1 .. 2 : Needs(r, i) /\ Order(r)[i] = row /\ \A j \in 1 .. i - 1 : ~Needs(r, j)
Locked(r) == \A i \in 1 .. 2 : ~Needs(r, i)

Blockers(r) ==
    {o \in Requests \ {r} : \E row \in held[o] : Wants(r, row)}

\* The in-process lock is tested before anything is charged.  Two
\* handlers name their session "session" and then read the undefined "db".
Begin(r) ==
    /\ pc[r] = "idle"
    /\ LET ended == IF Op(r) \in Unnamed THEN "error"
                    ELSE IF Op(r) \in busy THEN "busy" ELSE "none"
       IN  /\ answer' = [answer EXCEPT ![r] = ended]
           /\ Goto(r, IF ended # "none" THEN "done"
                      ELSE IF Op(r) \in Metered THEN "meter" ELSE "settle")
    /\ UNCHANGED <<account, books, busy, job, held, charge, count, paid, since, left>>

Acquire(r, row) ==
    /\ Wants(r, row)
    /\ \A o \in Requests : row \notin held[o]
    /\ held' = [held EXCEPT ![r] = @ \cup {row}]
    /\ UNCHANGED <<account, books, busy, pc, job, charge, count, outcome>>

Charge(r, c, l) ==
    /\ charge' = [charge EXCEPT ![r] = @ \cup c]
    /\ Goto(r, l)
    /\ UNCHANGED <<account, books, busy, job, held, count, outcome>>

Working(r) ==
    CASE Op(r) \in Streams -> "charged" [] Op(r) \in Prepaid -> "commit" [] OTHER -> "work"

\* The transaction ends.
Release(r) ==
    /\ held' = [held EXCEPT ![r] = {}]
    /\ charge' = [charge EXCEPT ![r] = {}]
    /\ count' = [count EXCEPT ![r] = 0]

Refuse(r, a) ==
    /\ Release(r)
    /\ Goto(r, "done")
    /\ answer' = [answer EXCEPT ![r] = a]
    /\ UNCHANGED <<account, books, busy, job, paid, since, left>>

UnderLimit(n) == n < Limit

\* check_and_increment_quota and check_and_increment_whisper_use, in the period.
Count(r) ==
    /\ pc[r] = "meter" /\ Locked(r)
    /\ Entitled /\ UnderLimit(used[Op(r)])
    /\ charge' = [charge EXCEPT ![r] = {"meter"}]
    /\ count' = [count EXCEPT ![r] = used[Op(r)] + 1]
    /\ Goto(r, IF Op(r) = "whisper" THEN "settle" ELSE Working(r))
    /\ UNCHANGED <<account, books, busy, job, held, outcome>>

LimitReached(r) ==
    /\ pc[r] = "meter" /\ Locked(r)
    /\ Entitled /\ ~UnderLimit(used[Op(r)])
    /\ Refuse(r, "limit")

\* Without a subscription in its period: a resume costs a credit, a fit analysis needs
\* its unlock, a recording is refused (its own unlock is not modelled).
NotMetered(r) ==
    /\ pc[r] = "meter" /\ Locked(r)
    /\ ~Entitled
    /\ \/ Op(r) = "resume" /\ Charge(r, {}, "pay")
       \/ Op(r) = "fit" /\ unlocked /\ Charge(r, {"unlock"}, "charged")
       \/ Op(r) = "fit" /\ ~unlocked /\ Refuse(r, "refused")
       \/ Op(r) = "whisper" /\ Refuse(r, "refused")

\* check_quota_for_story_generate, _save, _interview and _cover_letter.
Settle(r) ==
    /\ pc[r] = "settle" /\ Locked(r)
    /\ IF Entitled THEN Charge(r, {"included"}, Working(r))
       ELSE IF Op(r) \in Stories /\ first[First(r)] = 0
       THEN Charge(r, {"free"}, Working(r))
       ELSE Charge(r, {}, "pay")

\* consume_credit
Pay(r) ==
    /\ pc[r] = "pay" /\ Locked(r)
    /\ IF credits > 0 THEN Charge(r, {"credit"}, Working(r)) ELSE Refuse(r, "refused")

\* The event stream starts: only now is the in-process lock taken.
Stream(r) ==
    /\ pc[r] = "charged"
    /\ busy' = busy \cup {Op(r)}
    /\ Goto(r, "work")
    /\ UNCHANGED <<account, books, job, held, charge, count, outcome>>

Book(r) ==
    /\ used' = IF "meter" \in charge[r] THEN [used EXCEPT ![Op(r)] = count[r]] ELSE used
    /\ credits' = IF "credit" \in charge[r] THEN credits - 1 ELSE credits
    /\ first' = IF "free" \in charge[r] THEN [first EXCEPT ![First(r)] = @ + 1] ELSE first
    /\ paid' = [paid EXCEPT ![r] = charge[r]]
    /\ since' = [since EXCEPT ![r] = period]

\* The router commits the charge, and with it lets the rows go, before the work begins.
Prepay(r) ==
    /\ pc[r] = "commit"
    /\ Book(r)
    /\ Release(r)
    /\ Goto(r, "work")
    /\ UNCHANGED <<account, busy, job, answer, left>>

\* The result and the charge are committed together, unless the charge already is.
Finish(r) ==
    /\ pc[r] = "work"
    /\ IF Op(r) \in Prepaid THEN UNCHANGED <<books, paid, since>> ELSE Book(r)
    /\ Release(r)
    /\ Goto(r, IF Op(r) \in Streams THEN "end" ELSE "done")
    /\ answer' = [answer EXCEPT ![r] = "ok"]
    /\ UNCHANGED <<account, busy, job, left>>

\* The model's error, or the session gone after the reset of a forced resume: the
\* transaction is rolled back, and nobody returns what was committed before it.
Fail(r) ==
    /\ pc[r] = "work"
    /\ Release(r)
    /\ Goto(r, IF Op(r) \in Streams THEN "end" ELSE "done")
    /\ answer' = [answer EXCEPT ![r] = "error"]
    /\ UNCHANGED <<account, books, busy, job, paid, since, left>>

\* The run that a resume's charge has paid for starts after the answer, and may fail.
RunFails(r) ==
    /\ pc[r] = "done" /\ Op(r) = "resume" /\ answer[r] = "ok"
    /\ answer' = [answer EXCEPT ![r] = "error"]
    /\ UNCHANGED <<account, books, busy, pc, job, held, charge, count, paid, since, left>>

\* The letter's session is gone when its task starts: the task ends without a rollback,
\* the stream with an error, and get_db commits the charge.
Vanish(r) ==
    /\ pc[r] = "work" /\ Op(r) = "letter"
    /\ Book(r)
    /\ Release(r)
    /\ busy' = busy \ {Op(r)}
    /\ Goto(r, "done")
    /\ answer' = [answer EXCEPT ![r] = "gone"]
    /\ UNCHANGED <<account, job, left>>

\* The stream's finally: another stream's entry may be the one that goes.
StreamEnd(r) ==
    /\ pc[r] = "end"
    /\ busy' = busy \ {Op(r)}
    /\ Goto(r, "done")
    /\ UNCHANGED <<account, books, job, held, charge, count, outcome>>

\* The client disconnects.  get_db ends the transaction the task still works in: it
\* commits, or rolls back when the server raises the disconnect.
Leave(r) ==
    /\ pc[r] = "work" /\ Op(r) \in Streams
    /\ Book(r) \/ UNCHANGED <<books, paid, since>>
    /\ Release(r)
    /\ busy' = busy \ {Op(r)}
    /\ left' = [left EXCEPT ![r] = TRUE]
    /\ Goto(r, "orphan")
    /\ UNCHANGED <<account, job, answer>>

\* The task of a client that left saves its result in a transaction of its own, or fails.
Orphan(r) ==
    /\ pc[r] = "orphan"
    /\ \E a \in {"ok", "error"} : answer' = [answer EXCEPT ![r] = a]
    /\ Goto(r, "done")
    /\ UNCHANGED <<account, books, busy, job, held, charge, count, paid, since, left>>

\* S is a set of requests each of which waits for another one of it.
WaitCycle(S) == S # {} /\ \A r \in S : Blockers(r) \cap S # {}

\* PostgreSQL ends one transaction of a deadlock.
Victim(r) ==
    /\ \E S \in SUBSET Requests : r \in S /\ WaitCycle(S)
    /\ Refuse(r, "error")

\* Time passes; the webhooks of a renewal, a pause and its end write the locked row.
\* A renewal sets the period and no counter.
Renew ==
    /\ sub = "lapsed" /\ period < MaxPeriod
    /\ \A r \in Requests : "sub" \notin held[r]
    /\ sub' = "current"
    /\ period' = period + 1
    /\ UNCHANGED <<unlocked, books, busy, pc, job, held, charge, count, outcome>>

Lapse ==
    /\ sub = "current"
    /\ sub' = "lapsed"
    /\ UNCHANGED <<period, unlocked, books, busy, pc, job, held, charge, count, outcome>>

Pause ==
    /\ sub \in {"paused", "current"}
    /\ \A r \in Requests : "sub" \notin held[r]
    /\ sub' = IF sub = "paused" THEN "current" ELSE "paused"
    /\ UNCHANGED <<period, unlocked, books, busy, pc, job, held, charge, count, outcome>>

Step(r) ==
    \/ Begin(r) \/ \E row \in Rows : Acquire(r, row)
    \/ Count(r) \/ LimitReached(r) \/ NotMetered(r) \/ Settle(r) \/ Pay(r)
    \/ Stream(r) \/ Prepay(r) \/ Finish(r) \/ Fail(r) \/ Vanish(r) \/ StreamEnd(r)
    \/ Leave(r) \/ Orphan(r)

Next == (\E r \in Requests : Step(r) \/ Victim(r) \/ RunFails(r)) \/ Renew \/ Lapse \/ Pause

Spec == Init /\ [][Next]_vars

\* A handler runs on once it has begun, and PostgreSQL looks for deadlocks.
Fairness == \A r \in Requests : SF_vars(pc[r] # "idle" /\ Step(r)) /\ WF_vars(Victim(r))
FairSpec == Spec /\ Fairness

(***************************************************************************)
(* What holds                                                              *)
(***************************************************************************)
TypeOK ==
    /\ sub \in Subs /\ period \in 1 .. MaxPeriod
    /\ used \in [Metered -> Nat] /\ credits \in Nat
    /\ first \in [{"generate", "save"} -> Nat]
    /\ unlocked \in BOOLEAN /\ busy \subseteq Streams
    /\ pc \in [Requests -> Labels] /\ job \in [Requests -> Ops]
    /\ held \in [Requests -> SUBSET Rows]
    /\ charge \in [Requests -> SUBSET Charges] /\ count \in [Requests -> Nat]
    /\ paid \in [Requests -> SUBSET Charges] /\ since \in [Requests -> 0 .. MaxPeriod]
    /\ answer \in [Requests -> Answers] /\ left \in [Requests -> BOOLEAN]

MeteredBy(m) == {r \in Requests : Op(r) = m /\ "meter" \in paid[r]}

\* No accepted request is lost from a counter, and none is accepted over the
\* allowance, however the requests overlap (check_and_increment_quota).
MeterTrue == \A m \in Metered : used[m] = Cardinality(MeteredBy(m)) /\ used[m] <= Limit

\* An account gets one free story draft and one free save, however many requests ask
\* for the first one at the same time.
OneFirst == \A s \in {"generate", "save"} : first[s] <= 1

Accounted(r) ==
    /\ answer[r] = "ok" => paid[r] # {}
    /\ paid[r] # {} =>
          answer[r] \in {"ok", "gone"} \/ (answer[r] = "error" /\ Op(r) \in Prepaid)

\* A request whose client stays is not served for nothing, and a refusal costs nothing.
\* What is charged and not served is a resume or an interview that failed after its
\* charge was committed, or a letter whose session was gone.
ChargedWithResult == \A r \in Requests : pc[r] = "done" /\ ~left[r] => Accounted(r)

\* Two fit analyses run at once only by the unlock or after a client left: the
\* in-process lock does not keep them apart, the row of the subscription does.
FitsApart ==
    \A r, o \in Requests :
        /\ r # o /\ Op(r) = "fit" /\ Op(o) = "fit"
        /\ pc[r] = "work" /\ pc[o] = "work"
        => "unlock" \in charge[r] \cup charge[o]

\* Story requests lock the user before the subscription, all others the other way
\* round: every deadlock has a story request in it.
DeadlockNeedsStory ==
    \A S \in SUBSET Requests : WaitCycle(S) => \E r \in S : Op(r) \in Stories

\* Every request that began is answered, deadlocks included.
Answered == \A r \in Requests : pc[r] # "idle" ~> pc[r] = "done"

(***************************************************************************)
(* What does not                                                           *)
(***************************************************************************)
\* A request whose client stays is charged only if it is served.
ChargedOnlyIfServed ==
    \A r \in Requests : pc[r] = "done" /\ ~left[r] /\ paid[r] # {} => answer[r] = "ok"

\* A request is told that the period's allowance is used up only when that many were
\* accepted in the period.
LimitOfPeriod ==
    \A r \in Requests :
        answer'[r] = "limit" /\ answer[r] # "limit" =>
            Cardinality({o \in MeteredBy(Op(r)) : since[o] = period}) >= Limit
LimitIsPerPeriod == [][LimitOfPeriod]_vars

\* A subscriber who has used up the resumes pays the next one with a credit.
FallsBackToCredits ==
    [][\A r \in Requests :
         Op(r) = "resume" /\ credits > 0 => ~(answer'[r] = "limit" /\ answer[r] # "limit")]_vars

\* A coaching request and the answers of an interview are served or refused, they do
\* not fail before anything is done.
CoachServed == \A r \in Requests : Op(r) \in Unnamed => answer[r] # "error"

(***************************************************************************)
(* Why it holds, for any requests, allowance, credits and periods.  The    *)
(* inductive invariant says what a request has done at each point of its   *)
(* transaction, and that the rows it holds protect what its charge rests   *)
(* on: the subscription's row the counter it has read, the user's row the  *)
(* free first time and the credit it has found.                            *)
(***************************************************************************)
Before == {"idle", "meter", "settle", "pay", "charged", "commit", "work"}

\* It works on a charge that is committed.
Spent(r) == pc[r] = "work" /\ Op(r) \in Prepaid

\* Where a request is in its transaction, and what it has done by then.
PlaceSound(r) ==
    /\ pc[r] \in Before => answer[r] = "none" /\ ~left[r] /\ (paid[r] # {} <=> Spent(r))
    /\ pc[r] \notin Before \ {"idle"} \/ Spent(r) => held[r] = {} /\ charge[r] = {}
    /\ pc[r] \in {"charged", "commit", "work"} /\ ~Spent(r) => charge[r] # {}
    /\ pc[r] = "charged" => Op(r) \in Streams
    /\ pc[r] = "commit" => Op(r) \in Prepaid
    /\ pc[r] = "orphan" => left[r]
    /\ pc[r] \in {"end", "done"} /\ ~left[r] => Accounted(r)
    /\ pc[r] = "meter" => Op(r) \in Metered /\ charge[r] = {}
    /\ pc[r] = "settle" => Op(r) \notin {"fit", "resume"}
    /\ pc[r] = "pay" => Op(r) # "fit"
    /\ pc[r] \in {"charged", "work"} /\ Op(r) = "fit" => charge[r] \cap {"meter", "unlock"} # {}
    /\ "user" \in held[r] /\ Op(r) \notin Stories =>
          pc[r] \in {"pay", "charged", "commit", "work"}

\* A charge in flight, and the row that protects it.
ChargeSound(r) ==
    /\ "meter" \in charge[r] =>
          /\ "sub" \in held[r] /\ Op(r) \in Metered
          /\ count[r] = used[Op(r)] + 1 /\ count[r] <= Limit
    /\ "free" \in charge[r] => "user" \in held[r] /\ Op(r) \in Stories /\ first[First(r)] = 0
    /\ "credit" \in charge[r] => "user" \in held[r] /\ credits > 0

Exclusive == \A r, o \in Requests : \A row \in held[r] \cap held[o] : r = o

MeterInv ==
    /\ TypeOK
    /\ Exclusive
    /\ \A r \in Requests : PlaceSound(r) /\ ChargeSound(r)
    /\ \A m \in Metered : IsFiniteSet(MeteredBy(m))
    /\ MeterTrue
    /\ OneFirst

\* The initial states satisfy the invariant.
LEMMA MeterStart ==
    ASSUME QuotaAssumption, Init PROVE MeterInv
<1> USE DEF QuotaAssumption, Init
<1>1. TypeOK
    BY DEF TypeOK, Subs, Labels, Answers, Metered, Streams, Rows
<1>2. \A m \in Metered : MeteredBy(m) = {}
    BY DEF MeteredBy
<1>3. \A m \in Metered : IsFiniteSet(MeteredBy(m)) /\ Cardinality(MeteredBy(m)) = 0
    BY <1>2, FS_EmptySet
<1>4. MeterTrue /\ OneFirst
    BY <1>3 DEF MeterTrue, OneFirst, Metered
<1>5. Exclusive /\ \A r \in Requests : PlaceSound(r) /\ ChargeSound(r)
    BY DEF Exclusive, PlaceSound, ChargeSound, Before, Spent
<1> QED BY <1>1, <1>3, <1>4, <1>5 DEF MeterInv

\* What is booked keeps the types of the books.
LEMMA BookTypes ==
    ASSUME TypeOK, MaxPeriod \in Nat \ {0}, NEW r \in Requests, ChargeSound(r), Book(r)
    PROVE  /\ used' \in [Metered -> Nat] /\ credits' \in Nat
           /\ first' \in [{"generate", "save"} -> Nat]
           /\ paid' \in [Requests -> SUBSET Charges] /\ since' \in [Requests -> 0 .. MaxPeriod]
<1>1. used' \in [Metered -> Nat]
    BY DEF TypeOK, Book, ChargeSound
<1>2. credits' \in Nat
    BY DEF TypeOK, Book, ChargeSound
<1>3. first' \in [{"generate", "save"} -> Nat]
    BY DEF TypeOK, Book, First
<1>4. paid' \in [Requests -> SUBSET Charges] /\ since' \in [Requests -> 0 .. MaxPeriod]
    BY DEF TypeOK, Book
<1> QED BY <1>1, <1>2, <1>3, <1>4

\* Every step keeps the types.
LEMMA MeterTypes ==
    ASSUME QuotaAssumption, MeterInv, [Next]_vars PROVE TypeOK'
<1> USE DEF QuotaAssumption, TypeOK, Labels, Answers, Subs, Rows, Charges, Streams, Metered
<1>0. TypeOK /\ \A r \in Requests : ChargeSound(r) /\ PlaceSound(r)
    BY DEF MeterInv
<1>1. ASSUME NEW r \in Requests, Begin(r) PROVE TypeOK'
    BY <1>0, <1>1 DEF Begin, Goto, account, books
<1>2. ASSUME NEW r \in Requests, NEW row \in Rows, Acquire(r, row) PROVE TypeOK'
    BY <1>0, <1>2 DEF Acquire, account, books, outcome
<1>3. ASSUME NEW r \in Requests, Count(r) PROVE TypeOK'
  <2>1. /\ Op(r) \in Metered /\ used[Op(r)] + 1 \in Nat
        /\ Working(r) \in Labels
    BY <1>0, <1>3 DEF PlaceSound, Count, Working
  <2> QED BY <1>0, <1>3, <2>1 DEF Count, Goto, account, books, outcome
<1>4. ASSUME NEW r \in Requests, NEW a \in Answers, Refuse(r, a) PROVE TypeOK'
    BY <1>0, <1>4 DEF Refuse, Release, Goto, account, books
<1>5. ASSUME NEW r \in Requests, NEW c \in SUBSET Charges, NEW l \in Labels, Charge(r, c, l)
      PROVE  TypeOK'
    BY <1>0, <1>5 DEF Charge, Goto, account, books, outcome
<1>6. ASSUME NEW r \in Requests, LimitReached(r) \/ Victim(r) PROVE TypeOK'
    BY <1>4, <1>6 DEF LimitReached, Victim
<1>7. ASSUME NEW r \in Requests, NotMetered(r) \/ Settle(r) \/ Pay(r) PROVE TypeOK'
    BY <1>4, <1>5, <1>7 DEF NotMetered, Settle, Pay, Working
<1>8. ASSUME NEW r \in Requests, Stream(r) PROVE TypeOK'
  <2>1. Op(r) \in Streams
    BY <1>0, <1>8 DEF PlaceSound, Stream
  <2> QED BY <1>0, <1>8, <2>1 DEF Stream, Goto, account, books, outcome
<1>9. ASSUME NEW r \in Requests, Finish(r) PROVE TypeOK'
  <2>1. CASE Op(r) \in Prepaid
    BY <1>0, <1>9, <2>1 DEF Finish, Release, Goto, account, books
  <2>2. CASE Op(r) \notin Prepaid
    BY <1>0, <1>9, <2>2, BookTypes DEF Finish, Release, Goto, account
  <2> QED BY <2>1, <2>2
<1>10. ASSUME NEW r \in Requests, Fail(r) \/ StreamEnd(r) \/ Orphan(r) \/ RunFails(r)
       PROVE  TypeOK'
  <2>1. CASE Fail(r)
    BY <1>0, <2>1 DEF Fail, Release, Goto, account, books
  <2>2. CASE StreamEnd(r)
    BY <1>0, <2>2 DEF StreamEnd, Goto, account, books, outcome
  <2>3. CASE Orphan(r)
    BY <1>0, <2>3 DEF Orphan, Goto, account, books
  <2>4. CASE RunFails(r)
    BY <1>0, <2>4 DEF RunFails, account, books
  <2> QED BY <1>10, <2>1, <2>2, <2>3, <2>4
<1>11. ASSUME NEW r \in Requests, Leave(r) PROVE TypeOK'
    BY <1>0, <1>11, BookTypes DEF Leave, Release, Goto, account, books
<1>14. ASSUME NEW r \in Requests, Prepay(r) \/ Vanish(r) PROVE TypeOK'
  <2>1. Book(r) /\ Release(r)
    BY <1>14 DEF Prepay, Vanish
  <2>2. /\ pc' \in [Requests -> Labels] /\ answer' \in [Requests -> Answers]
        /\ busy' \subseteq Streams
        /\ UNCHANGED <<sub, period, unlocked, job, left>>
    BY <1>0, <1>14 DEF Prepay, Vanish, Goto, account
  <2> QED BY <1>0, <2>1, <2>2, BookTypes DEF Release
<1>12. ASSUME Renew \/ Lapse \/ Pause PROVE TypeOK'
  <2>1. period' \in 1 .. MaxPeriod /\ sub' \in Subs
    BY <1>0, <1>12 DEF Renew, Lapse, Pause
  <2> QED BY <1>0, <1>12, <2>1 DEF Renew, Lapse, Pause, books, outcome
<1>13. ASSUME UNCHANGED vars PROVE TypeOK'
    BY <1>0, <1>13 DEF vars, account, books, outcome
<1> QED BY <1>1, <1>2, <1>3, <1>6, <1>7, <1>8, <1>9, <1>10, <1>11, <1>12, <1>13,
           <1>14 DEF Next, Step

\* What a step of request r leaves alone of another request.
Stays(o) ==
    /\ pc'[o] = pc[o] /\ held'[o] = held[o] /\ charge'[o] = charge[o] /\ count'[o] = count[o]
    /\ paid'[o] = paid[o] /\ answer'[o] = answer[o] /\ left'[o] = left[o]

\* A step that commits nothing leaves the others as sound as they were.
LEMMA OthersSound ==
    ASSUME MeterInv, NEW o \in Requests, Stays(o), UNCHANGED <<job, used, credits, first>>
    PROVE  PlaceSound(o)' /\ ChargeSound(o)'
<1>1. PlaceSound(o) /\ ChargeSound(o)
    BY DEF MeterInv
<1>2. PlaceSound(o)'
    BY <1>1 DEF PlaceSound, Stays, Op, Spent, Accounted
<1>3. ChargeSound(o)'
    BY <1>1 DEF ChargeSound, Stays, Op, First
<1> QED BY <1>2, <1>3

\* So does one that commits: what it writes, it writes under a row it holds.
LEMMA OthersSoundByBook ==
    ASSUME MeterInv, NEW r \in Requests, NEW o \in Requests \ {r}, Stays(o), job' = job, Book(r)
    PROVE  PlaceSound(o)' /\ ChargeSound(o)'
<1>1. /\ PlaceSound(o) /\ ChargeSound(o) /\ ChargeSound(r) /\ Exclusive /\ TypeOK
      /\ Op(r) \in Metered => used[Op(r)] \in Nat
    BY DEF MeterInv, TypeOK
<1>2. PlaceSound(o)'
    BY <1>1 DEF PlaceSound, Stays, Op, Spent, Accounted
<1>3. \A row \in held[r] : row \notin held[o]
    BY <1>1 DEF Exclusive
<1>4. "meter" \in charge[o] => used' = used
    BY <1>1, <1>3 DEF ChargeSound, Book
<1>5. "free" \in charge[o] => first' = first
    BY <1>1, <1>3 DEF ChargeSound, Book
<1>6. "credit" \in charge[o] => credits' = credits
    BY <1>1, <1>3 DEF ChargeSound, Book
<1>7. ChargeSound(o)'
    BY <1>1, <1>4, <1>5, <1>6 DEF ChargeSound, Stays, Op, First
<1> QED BY <1>2, <1>7

\* The request that takes a step stays sound.
LEMMA MineSound ==
    ASSUME QuotaAssumption, MeterInv, NEW r \in Requests, Step(r) \/ Victim(r) \/ RunFails(r)
    PROVE  PlaceSound(r)' /\ ChargeSound(r)'
<1> USE DEF Op, Before, Spent, Accounted, Prepaid, Streams
<1>0. /\ TypeOK /\ PlaceSound(r) /\ ChargeSound(r)
      /\ \A m \in Metered : used[m] \in Nat
    BY DEF MeterInv, TypeOK
<1>1. CASE Begin(r)
  <2>1. /\ pc[r] = "idle" /\ held[r] = {} /\ charge[r] = {} /\ paid[r] = {} /\ ~left[r]
        /\ UNCHANGED <<job, held, charge, count, paid, left, used, credits, first>>
    BY <1>0, <1>1 DEF Begin, PlaceSound, books
  <2>2. \/ pc'[r] = "done" /\ answer'[r] \in {"error", "busy"}
        \/ pc'[r] = "meter" /\ Op(r) \in Metered /\ answer'[r] = "none"
        \/ pc'[r] = "settle" /\ Op(r) \notin Metered /\ answer'[r] = "none"
    <3>1. CASE Op(r) \in Unnamed
      BY <1>0, <1>1, <3>1 DEF Begin, Goto, TypeOK
    <3>2. CASE Op(r) \notin Unnamed /\ Op(r) \in busy
      BY <1>0, <1>1, <3>2 DEF Begin, Goto, TypeOK
    <3>3. CASE Op(r) \notin Unnamed /\ Op(r) \notin busy
      BY <1>0, <1>1, <3>3 DEF Begin, Goto, TypeOK
    <3> QED BY <3>1, <3>2, <3>3
  <2>3. PlaceSound(r)'
    BY <2>1, <2>2 DEF PlaceSound, Metered
  <2> QED BY <2>1, <2>3 DEF ChargeSound
<1>2. ASSUME NEW row \in Rows, Acquire(r, row) PROVE PlaceSound(r)' /\ ChargeSound(r)'
  <2>1. /\ pc[r] \in {"meter", "settle", "pay"}
        /\ row = "user" /\ Op(r) \notin Stories => pc[r] = "pay"
    BY <1>0, <1>2 DEF Acquire, Wants, Needs, Order
  <2> QED BY <1>0, <1>2, <2>1 DEF Acquire, PlaceSound, ChargeSound, First, TypeOK, books, outcome
<1>3. CASE Count(r)
  <2>1. /\ "sub" \in held[r] /\ Op(r) \in Metered /\ used[Op(r)] + 1 <= Limit
        /\ Op(r) # "whisper" => Op(r) \notin Stories
    BY <1>0, <1>3 DEF Count, Locked, Needs, Order, SubRow, Entitled, UnderLimit, PlaceSound,
          Metered, Stories, QuotaAssumption
  <2>2. PlaceSound(r)'
    BY <1>0, <1>3, <2>1 DEF Count, Goto, Working, PlaceSound, TypeOK, outcome, Streams, Metered,
          Stories
  <2>3. ChargeSound(r)'
    BY <1>0, <1>3, <2>1 DEF Count, ChargeSound, TypeOK, books
  <2> QED BY <2>2, <2>3
<1>4. ASSUME NEW a \in {"limit", "refused", "error"}, Refuse(r, a),
             pc[r] \in {"meter", "settle", "pay"}
      PROVE  PlaceSound(r)' /\ ChargeSound(r)'
    BY <1>0, <1>4 DEF Refuse, Release, Goto, PlaceSound, ChargeSound, TypeOK
<1>5. ASSUME NEW c \in SUBSET Charges, NEW l \in {"pay", "charged", "commit", "work"},
             Charge(r, c, l),
             pc[r] \in {"meter", "settle", "pay"},
             c = {} => l = "pay",
             l = "charged" => Op(r) \in Streams,
             l = "commit" => Op(r) \in Prepaid,
             l = "work" => Op(r) \notin Prepaid,
             Op(r) = "fit" => c = {"unlock"} /\ l # "pay",
             "meter" \notin c,
             "free" \in c => "user" \in held[r] /\ Op(r) \in Stories /\ first[First(r)] = 0,
             "credit" \in c => "user" \in held[r] /\ credits > 0
      PROVE  PlaceSound(r)' /\ ChargeSound(r)'
  <2>0. /\ pc'[r] = l /\ charge'[r] = charge[r] \cup c
        /\ UNCHANGED <<job, held, paid, answer, left>>
    BY <1>0, <1>5 DEF Charge, Goto, TypeOK, outcome
  <2>1. PlaceSound(r)'
    <3>1. l # "pay" => charge'[r] # {}
      BY <1>5, <2>0
    <3>2. Op(r) = "fit" => "unlock" \in charge'[r]
      BY <1>5, <2>0
    <3> QED BY <1>0, <1>5, <2>0, <3>1, <3>2 DEF PlaceSound
  <2>2. ChargeSound(r)'
    BY <1>0, <1>5 DEF Charge, Goto, ChargeSound, TypeOK, books, First
  <2> QED BY <2>1, <2>2
<1>6. CASE LimitReached(r)
    BY <1>4, <1>6 DEF LimitReached
<1>7. CASE Victim(r)
  <2>1. \E row \in Rows : Wants(r, row)
    BY <1>0, <1>7 DEF Victim, WaitCycle, Blockers, TypeOK
  <2>2. pc[r] \in {"meter", "settle", "pay"}
    BY <2>1 DEF Wants, Needs, Order
  <2> QED BY <1>4, <1>7, <2>2 DEF Victim
<1>8. CASE NotMetered(r)
  <2>1. CASE Op(r) = "resume" /\ Charge(r, {}, "pay")
    BY <1>5, <1>8, <2>1 DEF NotMetered
  <2>2. CASE Op(r) = "fit" /\ Charge(r, {"unlock"}, "charged")
    BY <1>5, <1>8, <2>2 DEF NotMetered, Charges, Streams
  <2> QED BY <1>4, <1>8, <2>1, <2>2 DEF NotMetered
<1>9. CASE Settle(r)
  <2>1. pc[r] = "settle" /\ Op(r) # "fit" /\ (Op(r) \in Stories => "user" \in held[r])
    BY <1>0, <1>9 DEF Settle, Locked, Needs, Order, PlaceSound
  <2>2. CASE Charge(r, {"included"}, Working(r))
    BY <1>5, <2>1, <2>2 DEF Working, Charges
  <2>3. CASE Op(r) \in Stories /\ first[First(r)] = 0 /\ Charge(r, {"free"}, Working(r))
    BY <1>5, <2>1, <2>3 DEF Working, Charges
  <2>4. CASE Charge(r, {}, "pay")
    BY <1>5, <2>1, <2>4
  <2> QED BY <1>9, <2>2, <2>3, <2>4 DEF Settle
<1>10. CASE Pay(r)
  <2>1. pc[r] = "pay" /\ Op(r) # "fit" /\ "user" \in held[r]
    BY <1>0, <1>10 DEF Pay, Locked, Needs, Order, PlaceSound
  <2>2. CASE credits > 0 /\ Charge(r, {"credit"}, Working(r))
    BY <1>5, <2>1, <2>2 DEF Working, Charges
  <2> QED BY <1>4, <1>10, <2>1, <2>2 DEF Pay
<1>11. CASE Stream(r)
    BY <1>0, <1>11 DEF Stream, Goto, PlaceSound, ChargeSound, TypeOK, books, outcome, First
<1>12. CASE Finish(r)
  <2>1. CASE Op(r) \in Prepaid
    BY <1>0, <1>12, <2>1 DEF Finish, Release, Goto, PlaceSound, ChargeSound, TypeOK
  <2>2. CASE Op(r) \notin Prepaid
    BY <1>0, <1>12, <2>2 DEF Finish, Book, Release, Goto, PlaceSound, ChargeSound, TypeOK
  <2> QED BY <2>1, <2>2
<1>13. CASE Fail(r)
    BY <1>0, <1>13 DEF Fail, Release, Goto, PlaceSound, ChargeSound, TypeOK
<1>14. CASE StreamEnd(r)
    BY <1>0, <1>14 DEF StreamEnd, Goto, PlaceSound, ChargeSound, TypeOK, outcome
<1>15. CASE Leave(r)
    BY <1>0, <1>15 DEF Leave, Release, Goto, PlaceSound, ChargeSound, TypeOK
<1>16. CASE Orphan(r)
    BY <1>0, <1>16 DEF Orphan, Goto, PlaceSound, ChargeSound, TypeOK
<1>17. CASE Prepay(r)
    BY <1>0, <1>17 DEF Prepay, Book, Release, Goto, PlaceSound, ChargeSound, TypeOK
<1>18. CASE Vanish(r)
    BY <1>0, <1>18 DEF Vanish, Book, Release, Goto, PlaceSound, ChargeSound, TypeOK
<1>19. CASE RunFails(r)
    BY <1>0, <1>19 DEF RunFails, PlaceSound, ChargeSound, TypeOK, books
<1> QED BY <1>1, <1>2, <1>3, <1>6, <1>7, <1>8, <1>9, <1>10, <1>11, <1>12, <1>13, <1>14, <1>15,
           <1>16, <1>17, <1>18, <1>19 DEF Step

\* What the step of a request changes of the others: nothing, and of the books: nothing,
\* or what it books.
LEMMA StepOfOne ==
    ASSUME TypeOK, NEW r \in Requests, Step(r) \/ Victim(r) \/ RunFails(r)
    PROVE  /\ \A o \in Requests \ {r} : Stays(o)
           /\ job' = job
           /\ \/ UNCHANGED <<used, credits, first, paid>>
              \/ pc[r] \in {"commit", "work"} /\ ~Spent(r) /\ Book(r)
<1> USE DEF TypeOK, Stays, books, outcome, Goto, Release, Spent, Prepaid, Streams
<1>1. ASSUME NEW a, Refuse(r, a)
      PROVE  (\A o \in Requests \ {r} : Stays(o)) /\ UNCHANGED <<job, used, credits, first, paid>>
    BY <1>1 DEF Refuse
<1>2. ASSUME NEW c, NEW l, Charge(r, c, l)
      PROVE  (\A o \in Requests \ {r} : Stays(o)) /\ UNCHANGED <<job, used, credits, first, paid>>
    BY <1>2 DEF Charge
<1>3. CASE Begin(r)
    BY <1>3 DEF Begin
<1>4. CASE \E row \in Rows : Acquire(r, row)
    BY <1>4 DEF Acquire
<1>5. CASE Count(r)
    BY <1>5 DEF Count
<1>6. CASE LimitReached(r) \/ NotMetered(r) \/ Settle(r) \/ Pay(r) \/ Victim(r)
    BY <1>1, <1>2, <1>6 DEF LimitReached, NotMetered, Settle, Pay, Victim
<1>7. CASE Stream(r) \/ StreamEnd(r) \/ Orphan(r)
    BY <1>7 DEF Stream, StreamEnd, Orphan
<1>8. CASE Finish(r) \/ Prepay(r) \/ Vanish(r)
    BY <1>8 DEF Finish, Prepay, Vanish, Book
<1>9. CASE Fail(r) \/ RunFails(r)
    BY <1>9 DEF Fail, RunFails
<1>10. CASE Leave(r)
    BY <1>10 DEF Leave, Book
<1> QED BY <1>3, <1>4, <1>5, <1>6, <1>7, <1>8, <1>9, <1>10 DEF Step

\* A row is acquired only while nobody holds it.
LEMMA ExclusiveStays ==
    ASSUME MeterInv, NEW r \in Requests, Step(r) \/ Victim(r) \/ RunFails(r) PROVE Exclusive'
<1>0. TypeOK /\ Exclusive
    BY DEF MeterInv
<1>1. \A o \in Requests \ {r} : held'[o] = held[o]
    BY <1>0, StepOfOne DEF Stays
<1>2. CASE held'[r] \subseteq held[r]
    BY <1>0, <1>1, <1>2 DEF Exclusive
<1>3. ASSUME NEW row \in Rows, Acquire(r, row) PROVE Exclusive'
  <2>1. held'[r] = held[r] \cup {row} /\ \A o \in Requests : row \notin held[o]
    BY <1>0, <1>3 DEF Acquire, TypeOK
  <2> QED BY <1>0, <1>1, <2>1 DEF Exclusive
<1>4. held'[r] \subseteq held[r] \/ \E row \in Rows : Acquire(r, row)
    BY <1>0 DEF TypeOK, Step, Victim, Begin, Count, LimitReached, NotMetered, Settle, Pay, Stream,
       Prepay, Finish, Fail, RunFails, Vanish, StreamEnd, Leave, Orphan, Refuse, Charge,
       Release, outcome
<1> QED BY <1>2, <1>3, <1>4

\* The counters count what they are the counters of, and stay within the allowance.
LEMMA CountersTrue ==
    ASSUME QuotaAssumption, MeterInv, NEW r \in Requests, Step(r) \/ Victim(r) \/ RunFails(r)
    PROVE  (\A m \in Metered : IsFiniteSet(MeteredBy(m)))' /\ MeterTrue'
<1>0. /\ TypeOK /\ MeterTrue /\ PlaceSound(r) /\ ChargeSound(r) /\ Limit \in Nat
      /\ \A m \in Metered : IsFiniteSet(MeteredBy(m))
    BY DEF MeterInv, QuotaAssumption
<1>1. CASE UNCHANGED <<job, used, paid>>
    BY <1>0, <1>1 DEF MeterTrue, MeteredBy, Op
<1>2. CASE pc[r] \in {"commit", "work"} /\ ~Spent(r) /\ Book(r) /\ job' = job
  <2>1. paid[r] = {} /\ paid' = [paid EXCEPT ![r] = charge[r]]
    BY <1>0, <1>2 DEF PlaceSound, Before, Book, TypeOK
  <2>2. CASE "meter" \notin charge[r]
    <3>1. \A m \in Metered : MeteredBy(m)' = MeteredBy(m)
      BY <1>0, <1>2, <2>1, <2>2 DEF MeteredBy, Op, TypeOK
    <3>2. used' = used
      BY <1>2, <2>2 DEF Book
    <3> QED BY <1>0, <3>1, <3>2 DEF MeterTrue
  <2>3. CASE "meter" \in charge[r]
    <3>0. PICK m \in Metered : Op(r) = m
      BY <1>0, <2>3 DEF ChargeSound
    <3>1. /\ used' = [used EXCEPT ![m] = used[m] + 1]
          /\ used[m] + 1 <= Limit /\ used \in [Metered -> Nat]
      BY <1>0, <1>2, <2>3, <3>0 DEF ChargeSound, Book, TypeOK
    <3>2. \A k \in Metered \ {m} : MeteredBy(k)' = MeteredBy(k)
      BY <1>0, <1>2, <2>1, <3>0 DEF MeteredBy, Op, TypeOK
    <3>3. MeteredBy(m)' = MeteredBy(m) \cup {r} /\ r \notin MeteredBy(m)
      BY <1>0, <1>2, <2>1, <2>3, <3>0 DEF MeteredBy, Op, TypeOK
    <3>4. /\ IsFiniteSet(MeteredBy(m) \cup {r})
          /\ Cardinality(MeteredBy(m) \cup {r}) = Cardinality(MeteredBy(m)) + 1
      BY <1>0, <3>3, FS_AddElement
    <3>5. IsFiniteSet(MeteredBy(m)') /\ used'[m] = Cardinality(MeteredBy(m)') /\ used'[m] <= Limit
      BY <1>0, <3>1, <3>3, <3>4 DEF MeterTrue
    <3>6. \A k \in Metered \ {m} :
             /\ IsFiniteSet(MeteredBy(k)') /\ used'[k] = Cardinality(MeteredBy(k)')
             /\ used'[k] <= Limit
      BY <1>0, <3>1, <3>2 DEF MeterTrue
    <3> QED BY <3>5, <3>6 DEF MeterTrue
  <2> QED BY <2>2, <2>3
<1> QED BY <1>0, <1>1, <1>2, StepOfOne

\* A free first time is booked only while none is.
LEMMA FirstsStay ==
    ASSUME MeterInv, NEW r \in Requests, Step(r) \/ Victim(r) \/ RunFails(r) PROVE OneFirst'
<1>0. TypeOK /\ OneFirst /\ ChargeSound(r)
    BY DEF MeterInv
<1>1. CASE first' = first
    BY <1>0, <1>1 DEF OneFirst
<1>2. CASE "free" \in charge[r] /\ Book(r)
    BY <1>0, <1>2 DEF OneFirst, ChargeSound, Book, TypeOK, First
<1> QED BY <1>0, <1>1, <1>2, StepOfOne DEF Book

\* Every step keeps the invariant; time and the webhooks touch nothing it speaks of.
LEMMA MeterStep ==
    ASSUME QuotaAssumption, MeterInv, [Next]_vars PROVE MeterInv'
<1>1. ASSUME NEW r \in Requests, Step(r) \/ Victim(r) \/ RunFails(r) PROVE MeterInv'
  <2>1. TypeOK'
    BY <1>1, MeterTypes DEF Next
  <2>2. ASSUME NEW o \in Requests PROVE PlaceSound(o)' /\ ChargeSound(o)'
    <3>1. CASE o = r
      BY <1>1, <3>1, MineSound
    <3>2. CASE o # r
      BY <1>1, <3>2, StepOfOne, OthersSound, OthersSoundByBook DEF MeterInv
    <3> QED BY <3>1, <3>2
  <2> QED BY <1>1, <2>1, <2>2, ExclusiveStays, CountersTrue, FirstsStay DEF MeterInv
<1>2. CASE UNCHANGED <<books, busy, pc, job, held, charge, count, outcome>>
  <2>1. TypeOK'
    BY MeterTypes
  <2>2. ASSUME NEW o \in Requests PROVE PlaceSound(o)' /\ ChargeSound(o)'
    BY <1>2, OthersSound DEF Stays, books, outcome
  <2>3. Exclusive' /\ OneFirst'
    BY <1>2 DEF MeterInv, Exclusive, OneFirst, books
  <2>4. (\A m \in Metered : IsFiniteSet(MeteredBy(m)))' /\ MeterTrue'
    BY <1>2 DEF MeterInv, MeterTrue, MeteredBy, Op, books, outcome
  <2> QED BY <2>1, <2>2, <2>3, <2>4 DEF MeterInv
<1> QED BY <1>1, <1>2 DEF Next, Renew, Lapse, Pause, vars

\* What follows from the invariant.  In a cycle of waiting requests without a story request,
\* one that waits for the user's row waits for a request that has both rows and waits for
\* nothing, and the others all wait for the subscription's, which none of them has.
LEMMA MeterClaims ==
    ASSUME MeterInv PROVE ChargedWithResult /\ FitsApart /\ DeadlockNeedsStory
<1>1. ASSUME NEW S \in SUBSET Requests, WaitCycle(S), \A r \in S : Op(r) \notin Stories
      PROVE  FALSE
  <2>0. TypeOK /\ \A r \in Requests : PlaceSound(r)
    BY DEF MeterInv
  <2>1. \A r \in S : pc[r] \in {"meter", "settle", "pay"} /\ \E row \in Rows : Wants(r, row)
    <3>1. \A r \in S : \E o \in S : \E row \in held[o] : Wants(r, row)
      BY <1>1 DEF WaitCycle, Blockers
    <3>2. \A r \in S, row \in Rows : Wants(r, row) => pc[r] \in {"meter", "settle", "pay"}
      BY DEF Wants, Needs, Order
    <3> QED BY <2>0, <3>1, <3>2 DEF TypeOK
  <2>2. \A o \in S : "user" \notin held[o]
    <3>1. \A o \in S : "user" \in held[o] => pc[o] = "pay"
      BY <1>1, <2>0, <2>1 DEF PlaceSound
    <3>2. \A o \in S, row \in Rows : Wants(o, row) /\ pc[o] = "pay" => "user" \notin held[o]
      BY DEF Wants, Needs, Order
    <3> QED BY <2>1, <3>1, <3>2
  <2>3. \A r \in S : pc[r] \in {"meter", "settle"} /\ Wants(r, "sub")
    <3>1. ASSUME NEW r \in S PROVE \E o \in S : "sub" \in held[o] /\ Wants(r, "sub")
      BY <1>1, <2>0, <2>2 DEF WaitCycle, Blockers, TypeOK, Rows
    <3>2. \A r \in S : Wants(r, "sub") => pc[r] # "pay"
      BY DEF Wants, Needs, Order
    <3> QED BY <2>1, <3>1, <3>2
  <2>4. \A o \in S : "sub" \notin held[o]
    BY <1>1, <2>3 DEF Wants, Needs, Order
  <2> QED BY <1>1, <2>0, <2>2, <2>4 DEF WaitCycle, Blockers, TypeOK, Rows
<1>2. ChargedWithResult
    BY DEF MeterInv, PlaceSound, ChargedWithResult
<1>3. FitsApart
    BY DEF MeterInv, PlaceSound, ChargeSound, Exclusive, FitsApart
<1> QED BY <1>1, <1>2, <1>3 DEF DeadlockNeedsStory

\* So it holds in every state.
LEMMA MeterInvariant == ASSUME QuotaAssumption PROVE Spec => []MeterInv
<1>1. Init => MeterInv
    BY MeterStart
<1>2. MeterInv /\ [Next]_vars => MeterInv'
    BY MeterStep
<1> QED BY <1>1, <1>2, PTL DEF Spec

\* The counters: no accepted request is lost from one, and none is accepted over the
\* allowance (check_and_increment_quota, quota.py).
THEOREM CountersSound == ASSUME QuotaAssumption PROVE Spec => [](TypeOK /\ MeterTrue)
<1>1. MeterInv => TypeOK /\ MeterTrue
    BY DEF MeterInv
<1> QED BY <1>1, MeterInvariant, PTL

\* An account gets one free story draft and one free save, however many requests ask for
\* the first one at the same time (check_quota_for_story_generate and _save, quota.py).
THEOREM FreeOnlyOnce == ASSUME QuotaAssumption PROVE Spec => []OneFirst
<1>1. MeterInv => OneFirst
    BY DEF MeterInv
<1> QED BY <1>1, MeterInvariant, PTL

\* A request whose client stays is not served for nothing, a refusal costs nothing, and what
\* is charged without being served is a resume or an interview, whose charge phases.py 240 and
\* profile.py 966 commit before the work, or a letter without a session (cover_letter.py 120).
THEOREM ChargedWhenServed == ASSUME QuotaAssumption PROVE Spec => []ChargedWithResult
BY MeterClaims, MeterInvariant, PTL

\* Two fit analyses of one session run at once only by the unlock or after a client left
\* (fit.py's lock is tested before the charge and taken after it).
THEOREM FitsKeptApart == ASSUME QuotaAssumption PROVE Spec => []FitsApart
BY MeterClaims, MeterInvariant, PTL

\* Every deadlock has a story request in it: those lock the user before the subscription
\* (_lock_user_for_quota and _active_subscription_for, quota.py), all others the other way round.
THEOREM OnlyStoriesDeadlock == ASSUME QuotaAssumption PROVE Spec => []DeadlockNeedsStory
BY MeterClaims, MeterInvariant, PTL
=============================================================================
