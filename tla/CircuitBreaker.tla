---------------------------- MODULE CircuitBreaker ----------------------------
(***************************************************************************)
(* The circuit in front of the job search provider: three keys of the      *)
(* session store with times to live, which every request reads and writes  *)
(* one command at a time.  A cool-down is 300 seconds, the key of an open  *)
(* circuit lives 60 seconds longer, a call ends within its 30 seconds.     *)
(***************************************************************************)
EXTENDS Integers, FiniteSets

CONSTANTS
    Searches,   \* requests that look at the circuit before they call
    Embeds,     \* requests that upload a resume: they call without that look
    Threshold,  \* FAILURE_THRESHOLD
    MayCrash    \* whether a request may be lost half way

\* What the modules that instantiate this one assume of its constants.
CircuitAssumption ==
    /\ Searches \cap Embeds = {}
    /\ Threshold \in Nat \ {0}
    /\ MayCrash \in BOOLEAN

Requests == Searches \cup Embeds

VARIABLES
    circuit,    \* the key open_until: absent, in the future, in the past
    failures,   \* the key failures, up to one past the threshold
    probeLock,  \* the key probe_lock
    req,
    trial,      \* the cool-down is over and no call has been answered since
    tried       \* calls begun in the trial, up to two

keys == <<circuit, failures, probeLock>>
vars == <<keys, req, trial, tried>>

Idle == [pc |-> "idle", probe |-> FALSE]

Init ==
    /\ circuit = "closed"
    /\ failures = 0
    /\ probeLock = FALSE
    /\ req = [r \in Requests |-> Idle]
    /\ trial = FALSE
    /\ tried = 0

\* run_keyword_search: an open circuit is answered from the corpus, without a call.
Look(r) ==
    /\ r \in Searches /\ req[r].pc = "idle" /\ circuit = "closed"
    /\ req' = [req EXCEPT ![r].pc = "looked"]
    /\ UNCHANGED <<keys, trial, tried>>

\* run_resume_match embeds a resume that has no artifact before it looks.
Embed(r) ==
    /\ r \in Embeds /\ req[r].pc = "idle"
    /\ req' = [req EXCEPT ![r].pc = "looked"]
    /\ UNCHANGED <<keys, trial, tried>>

Call(r, probe) ==
    /\ req' = [req EXCEPT ![r] = [pc |-> "calling", probe |-> probe]]
    /\ tried' = IF trial /\ tried < 2 THEN tried + 1 ELSE tried

\* assert_call_allowed
Allowed(r) ==
    /\ req[r].pc = "looked"
    /\ CASE circuit = "closed" -> Call(r, FALSE)
         [] circuit = "past" -> req' = [req EXCEPT ![r].pc = "half"] /\ UNCHANGED tried
         [] OTHER -> req' = [req EXCEPT ![r] = Idle] /\ UNCHANGED tried
    /\ UNCHANGED <<keys, trial>>

\* acquire_probe_slot: set if absent
Acquire(r) ==
    /\ req[r].pc = "half"
    /\ IF probeLock
       THEN req' = [req EXCEPT ![r] = Idle] /\ UNCHANGED tried
       ELSE Call(r, TRUE)
    /\ probeLock' = TRUE
    /\ UNCHANGED <<circuit, failures, trial>>

\* record_success: one command deletes the three keys.
Succeed(r) ==
    /\ req[r].pc = "calling"
    /\ circuit' = "closed" /\ failures' = 0 /\ probeLock' = FALSE
    /\ req' = [req EXCEPT ![r] = Idle]
    /\ trial' = FALSE /\ tried' = 0

Opens(count) == count >= Threshold

Incremented == IF failures > Threshold THEN failures ELSE failures + 1

\* record_failure, after the status 429 or after another failure
Fail(r) ==
    /\ req[r].pc = "calling" /\ ~req[r].probe
    /\ failures' = Incremented
    /\ \E limited \in BOOLEAN :
        req' = [req EXCEPT ![r] = IF limited \/ Opens(Incremented)
                                  THEN [@ EXCEPT !.pc = "opening"] ELSE Idle]
    /\ UNCHANGED <<circuit, probeLock, trial, tried>>

\* record_probe_failure leaves the counter and the lock.
FailProbe(r) ==
    /\ req[r].pc = "calling" /\ req[r].probe
    /\ req' = [req EXCEPT ![r].pc = "opening"]
    /\ UNCHANGED <<keys, trial, tried>>

\* _open_circuit
Open(r) ==
    /\ req[r].pc = "opening"
    /\ circuit' = "future"
    /\ req' = [req EXCEPT ![r] = Idle]
    /\ trial' = FALSE /\ tried' = 0
    /\ UNCHANGED <<failures, probeLock>>

Lose(r) ==
    /\ MayCrash /\ req[r].pc # "idle"
    /\ req' = [req EXCEPT ![r] = Idle]
    /\ UNCHANGED <<keys, trial, tried>>

(***************************************************************************)
(* Time                                                                    *)
(***************************************************************************)
\* FAILURE_WINDOW_SECONDS after the last failure
ForgetFailures ==
    /\ failures > 0 /\ \A r \in Requests : req[r].pc # "opening"
    /\ failures' = 0
    /\ UNCHANGED <<circuit, probeLock, req, trial, tried>>

\* COOLDOWN_SECONDS: calls begun before are over and failures forgotten.
CoolDown ==
    /\ circuit = "future" /\ failures = 0
    /\ \A r \in Requests : req[r].pc = "idle"
    /\ circuit' = "past"
    /\ trial' = TRUE /\ tried' = 0
    /\ UNCHANGED <<failures, probeLock, req>>

KeyKept == FALSE /\ UNCHANGED vars

\* The key is gone 60 seconds later.
KeyExpires ==
    /\ circuit = "past"
    /\ circuit' = "closed"
    /\ UNCHANGED <<failures, probeLock, req, trial, tried>>

\* The lock lives longer than the call of the request that holds it.
LockExpires ==
    /\ probeLock /\ \A r \in Requests : ~req[r].probe
    /\ probeLock' = FALSE
    /\ UNCHANGED <<circuit, failures, req, trial, tried>>

Step(r) ==
    \/ Allowed(r) \/ Acquire(r)
    \/ Succeed(r) \/ Fail(r) \/ FailProbe(r) \/ Open(r)

Next ==
    \/ \E r \in Requests : Look(r) \/ Embed(r) \/ Step(r) \/ Lose(r)
    \/ ForgetFailures \/ CoolDown \/ KeyExpires \/ LockExpires

Spec == Init /\ [][Next]_vars

\* Calls end and keys expire.
Fairness ==
    /\ \A r \in Requests : WF_vars(Step(r))
    /\ WF_vars(ForgetFailures) /\ WF_vars(CoolDown) /\ WF_vars(KeyExpires)

FairSpec == Spec /\ Fairness

(***************************************************************************)
(* What holds                                                              *)
(***************************************************************************)
TypeOK ==
    /\ circuit \in {"closed", "future", "past"}
    /\ failures \in 0 .. Threshold + 1
    /\ probeLock \in BOOLEAN /\ trial \in BOOLEAN /\ tried \in 0 .. 2
    /\ req \in [Requests -> [pc : {"idle", "looked", "half", "calling", "opening"},
                             probe : BOOLEAN]]

\* While the key of a circuit whose cool-down is over lasts, one call is under way at
\* most: late answers, lost requests and requests that were about to probe add none.
OneProbe ==
    circuit = "past" => Cardinality({r \in Requests : req[r].pc \in {"calling", "opening"}}) <= 1

\* Failures of overlapping calls are all counted: when they reach the threshold the
\* circuit is open, or the request that reached it is about to open it.
ThresholdOpens ==
    failures >= Threshold =>
        circuit # "closed" \/ \E r \in Requests : req[r].pc = "opening"

\* A circuit does not stay open for ever, whether anyone probes or not.
Recovers == circuit # "closed" ~> circuit = "closed"

(***************************************************************************)
(* What does not hold                                                      *)
(***************************************************************************)
\* After a cool-down one request tries the provider, and the others wait for its answer.
SingleTrial == trial => tried <= 1
=============================================================================
