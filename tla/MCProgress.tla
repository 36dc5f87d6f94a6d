----------------------------- MODULE MCProgress -----------------------------
(***************************************************************************)
(* Instances for TLC of what must happen at last: small instances of the   *)
(* components under the fairness of their schedules and servers.  A        *)
(* behaviour is about one component, its scene; the variables of the       *)
(* others rest at 0.                                                       *)
(***************************************************************************)
EXTENDS Integers, Sequences, FiniteSets, TLC

CONSTANTS
    p1, p2,         \* requests, ticks, runs or workers
    q1, q2, q3,     \* requests
    u1,             \* a user, a notification or a job
    c1, c2,         \* companies
    j1, j2,         \* jobs
    Nobody, Nothing

VARIABLES
    scene,
    \* QuotaMeter
    sub, period, used, credits, first, unlocked, busy, meterPc, meterJob,
    held, charge, count, paid, since, meterAnswer, left,
    \* AccountClosure
    now, gone, closing, closure, closeDue, reminded, reminders, renews,
    attached, files, closeJob, closePc, op, user, closeAnswer, tpc, remind,
    closeBatch, todo, closeCurrent, closeDropped, failed, closeFaults,
    \* NotificationOutbox
    channel, wants, subscribed, status, emails, others, outBatch, local,
    outCurrent, tries, outDropped, outFaults,
    \* CircuitBreaker
    circuit, failures, probeLock, req, trial, tried,
    \* CareerFeed
    board, open, listed, feedDue, queued, worker, changes, feedFaults,
    \* CareerAlerts
    watch, alertJob, alert, notices, add, run, alertFaults

meterVars == <<sub, period, used, credits, first, unlocked, busy, meterPc, meterJob, held,
               charge, count, paid, since, meterAnswer, left>>
closeVars == <<now, gone, closing, closure, closeDue, reminded, reminders, renews, attached,
               files, closeJob, closePc, op, user, closeAnswer, tpc, remind, closeBatch, todo,
               closeCurrent, closeDropped, failed, closeFaults>>
outVars == <<channel, wants, subscribed, status, emails, others, outBatch, local, outCurrent,
             tries, outDropped, outFaults>>
circuitVars == <<circuit, failures, probeLock, req, trial, tried>>
feedVars == <<board, open, listed, feedDue, queued, worker, changes, feedFaults>>
alertVars == <<watch, alertJob, alert, notices, add, run, alertFaults>>
vars == <<scene, meterVars, closeVars, outVars, circuitVars, feedVars, alertVars>>

Meter == INSTANCE QuotaMeter WITH
    Requests <- {p1, p2}, Ops <- {"resume", "fit", "generate"},
    Limit <- 1, MaxCredits <- 1, MaxPeriod <- 1,
    pc <- meterPc, job <- meterJob, answer <- meterAnswer

Closures == INSTANCE AccountClosure WITH
    Users <- {u1}, Requests <- {q1, q2}, Ticks <- {p1, p2}, Ops <- {"close", "cancel"},
    Grace <- 2, Notice <- 1, MaxTime <- 3, MaxFaults <- 2,
    due <- closeDue, job <- closeJob, pc <- closePc, answer <- closeAnswer,
    batch <- closeBatch, current <- closeCurrent, dropped <- closeDropped,
    faults <- closeFaults

Outbox == INSTANCE NotificationOutbox WITH
    Notes <- {u1}, Runs <- {p1, p2},
    Channels <- {"in_app", "email", "web_push", "sms", "multi"}, MaxFaults <- 1,
    batch <- outBatch, current <- outCurrent, dropped <- outDropped, faults <- outFaults

Circuit == INSTANCE CircuitBreaker WITH
    Searches <- {q1, q2, q3}, Embeds <- {}, Threshold <- 2, MayCrash <- TRUE

\* c2 comes first in the scheduler's query, and its system is not supported.
Feed == INSTANCE CareerFeed WITH
    Companies <- {c1, c2}, Supported <- {c1}, Jobs <- {j1},
    Rank <- (c2 :> 1) @@ (c1 :> 2), Namesakes <- {}, Workers <- {p1, p2},
    Batch <- 2, MaxQueued <- 1, MaxChanges <- 1, MaxFaults <- 1,
    due <- feedDue, faults <- feedFaults

\* A batch that holds every watch.
Alerts == INSTANCE CareerAlerts WITH
    Users <- {u1}, Companies <- {c1, c2}, Jobs <- {j1, j2},
    CompanyOf <- (j1 :> c1) @@ (j2 :> c2), Requests <- {q1}, Runs <- {p1},
    Batch <- 2, Limit <- 2, MaxFaults <- 0, job <- alertJob, faults <- alertFaults

ASSUME ProgressAssumption ==
    /\ Meter!QuotaAssumption /\ Closures!ClosureAssumption /\ Outbox!OutboxAssumption
    /\ Circuit!CircuitAssumption /\ Feed!CareerFeedAssumption
    /\ Alerts!CareerAlertsAssumption

-----------------------------------------------------------------------------
MeterRests ==
    /\ sub = 0 /\ period = 0 /\ used = 0 /\ credits = 0 /\ first = 0 /\ unlocked = 0
    /\ busy = 0 /\ meterPc = 0 /\ meterJob = 0 /\ held = 0 /\ charge = 0 /\ count = 0
    /\ paid = 0 /\ since = 0 /\ meterAnswer = 0 /\ left = 0

CloseRests ==
    /\ now = 0 /\ gone = 0 /\ closing = 0 /\ closure = 0 /\ closeDue = 0 /\ reminded = 0
    /\ reminders = 0 /\ renews = 0 /\ attached = 0 /\ files = 0 /\ closeJob = 0
    /\ closePc = 0 /\ op = 0 /\ user = 0 /\ closeAnswer = 0 /\ tpc = 0 /\ remind = 0
    /\ closeBatch = 0 /\ todo = 0 /\ closeCurrent = 0 /\ closeDropped = 0 /\ failed = 0
    /\ closeFaults = 0

OutRests ==
    /\ channel = 0 /\ wants = 0 /\ subscribed = 0 /\ status = 0 /\ emails = 0 /\ others = 0
    /\ outBatch = 0 /\ local = 0 /\ outCurrent = 0 /\ tries = 0 /\ outDropped = 0
    /\ outFaults = 0

CircuitRests ==
    /\ circuit = 0 /\ failures = 0 /\ probeLock = 0 /\ req = 0 /\ trial = 0 /\ tried = 0

FeedRests ==
    /\ board = 0 /\ open = 0 /\ listed = 0 /\ feedDue = 0 /\ queued = 0 /\ worker = 0
    /\ changes = 0 /\ feedFaults = 0

AlertRests ==
    /\ watch = 0 /\ alertJob = 0 /\ alert = 0 /\ notices = 0 /\ add = 0 /\ run = 0
    /\ alertFaults = 0

Init ==
    \/ /\ scene = "meter" /\ Meter!Init
       /\ CloseRests /\ OutRests /\ CircuitRests /\ FeedRests /\ AlertRests
    \/ /\ scene = "closures" /\ Closures!Init
       /\ MeterRests /\ OutRests /\ CircuitRests /\ FeedRests /\ AlertRests
    \/ /\ scene = "outbox" /\ Outbox!Init
       /\ MeterRests /\ CloseRests /\ CircuitRests /\ FeedRests /\ AlertRests
    \/ /\ scene = "circuit" /\ Circuit!Init
       /\ MeterRests /\ CloseRests /\ OutRests /\ FeedRests /\ AlertRests
    \/ /\ scene = "feed" /\ Feed!Init
       /\ MeterRests /\ CloseRests /\ OutRests /\ CircuitRests /\ AlertRests
    \/ /\ scene = "alerts" /\ Alerts!Init
       /\ MeterRests /\ CloseRests /\ OutRests /\ CircuitRests /\ FeedRests

\* A step of one scene leaves the variables of the others as they are.
InMeter ==
    scene = "meter" /\ UNCHANGED <<scene, closeVars, outVars, circuitVars, feedVars, alertVars>>
InClosures ==
    /\ scene = "closures"
    /\ UNCHANGED <<scene, meterVars, outVars, circuitVars, feedVars, alertVars>>
InOutbox ==
    /\ scene = "outbox"
    /\ UNCHANGED <<scene, meterVars, closeVars, circuitVars, feedVars, alertVars>>
InCircuit ==
    scene = "circuit" /\ UNCHANGED <<scene, meterVars, closeVars, outVars, feedVars, alertVars>>
InFeed ==
    scene = "feed" /\ UNCHANGED <<scene, meterVars, closeVars, outVars, circuitVars, alertVars>>
InAlerts ==
    scene = "alerts" /\ UNCHANGED <<scene, meterVars, closeVars, outVars, circuitVars, feedVars>>

Next ==
    \/ InMeter /\ Meter!Next
    \/ InClosures /\ Closures!Next
    \/ InOutbox /\ Outbox!Next
    \/ InCircuit /\ Circuit!Next
    \/ InFeed /\ Feed!Next
    \/ InAlerts /\ Alerts!Next

Spec == Init /\ [][Next]_vars

\* The fairness of each component.  The scenes never meet, so that one condition can stand
\* for an actor of each: WF(A \/ B) says WF(A) where only A can happen.
Turn(k) ==
    \/ InMeter /\ k <= 2 /\ Meter!Victim(<<p1, p2>>[k])
    \/ InClosures /\ \/ k <= 2 /\ closePc[<<q1, q2>>[k]] # "idle" /\ Closures!Serve(<<q1, q2>>[k])
                     \/ k \in {3, 4} /\ Closures!Work(<<p1, p2>>[k - 2])
    \/ InOutbox /\ k <= 2 /\ Outbox!Work(<<p1, p2>>[k])
    \/ InCircuit /\ \/ k <= 3 /\ Circuit!Step(<<q1, q2, q3>>[k])
                    \/ k = 4 /\ Circuit!ForgetFailures
                    \/ k = 5 /\ Circuit!CoolDown
                    \/ k = 6 /\ Circuit!KeyExpires
    \/ InFeed /\ \/ k = 1 /\ Feed!Tick
                 \/ k \in {2, 3} /\ Feed!IntervalPasses(<<c1, c2>>[k - 1])
                 \/ /\ k \in {4, 5}
                    /\ LET w == <<p1, p2>>[k - 3] IN
                          Feed!Upsert(w) \/ Feed!Close(w) \/ Feed!Commit(w) \/ Feed!DeadlockVictim(w)
    \/ InAlerts /\ k = 1 /\ Alerts!MatcherStep(p1)

StrongTurn(k) ==
    \/ InMeter /\ meterPc[<<p1, p2>>[k]] # "idle" /\ Meter!Step(<<p1, p2>>[k])
    \/ InFeed /\ LET c == <<c1, c2>>[k] IN \E w \in {p1, p2} : Feed!Fetch(w, c) \/ Feed!Skip(w, c)

Fairness ==
    /\ \A k \in 1 .. 6 : WF_vars(Turn(k))
    /\ \A k \in 1 .. 2 : SF_vars(StrongTurn(k))

FairSpec == Spec /\ Fairness
-----------------------------------------------------------------------------
\* Each component's own promise, kept to its scene.
Waits(k) ==
    \/ scene = "meter" /\ k <= 2 /\ meterPc[<<p1, p2>>[k]] # "idle"
    \/ scene = "closures" /\ k = 1 /\ u1 \in Closures!Due
    \/ scene = "outbox" /\ k = 1 /\ status[u1] = "pending"
    \/ scene = "circuit" /\ k = 1 /\ circuit # "closed"
    \/ scene = "feed" /\ k = 1 /\ feedDue[c1]
    \/ scene = "alerts" /\ k <= 2 /\ LET a == <<u1, <<j1, j2>>[k]>> IN
                                      Alerts!Wanted(a) /\ alert[a] = "none"

Served(k) ==
    \/ scene = "meter" /\ meterPc[<<p1, p2>>[k]] = "done"
    \/ scene = "closures" /\ closure[u1] # "open"
    \/ scene = "outbox" /\ status[u1] # "pending"
    \/ scene = "circuit" /\ circuit = "closed"
    \/ scene = "feed" /\ ~feedDue[c1]
    \/ scene = "alerts" /\ LET a == <<u1, <<j1, j2>>[k]>> IN
                              alert[a] # "none" \/ ~Alerts!Wanted(a)

\* A request that began is answered, the victim of a deadlock included (Answered of
\* QuotaMeter); a due closure ends (DueEnds of AccountClosure); a pending notification is
\* decided (EveryEnds of NotificationOutbox); an open circuit closes (Recovers of
\* CircuitBreaker); a due company is polled and, once its page stays as it is, the table
\* holds what the page shows (DuePolled and Converges of CareerFeed); a job that matches an
\* active watch leads to an alert (MatchesAlerted of CareerAlerts).
Progress ==
    /\ \A k \in 1 .. 2 : Waits(k) ~> Served(k)
    /\ <>[](scene = "feed" => open[c1] = board[c1])
=============================================================================
