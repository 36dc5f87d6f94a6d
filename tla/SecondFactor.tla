----------------------------- MODULE SecondFactor -----------------------------
(***************************************************************************)
(* A user's password and second factor: logging in with a lockout after    *)
(* too many wrong passwords, and the one-time password with its recovery   *)
(* codes, enrolled in two steps.  A request reads the users row, writes    *)
(* back the columns it changes and commits after its answer.               *)
(*                                                                         *)
(* A secret is named after the request that made it, and so are the        *)
(* recovery codes, of which each batch has as many as Slots.               *)
(***************************************************************************)
EXTENDS Integers, FiniteSets

CONSTANTS
    Requests,   \* each is served once
    Slots,      \* recovery codes of a batch
    Threshold,  \* LOGIN_FAILURE_LOCKOUT_THRESHOLD
    None,
    Ops,        \* what requests may ask for
    Overlap     \* requests may overlap

\* What the modules that instantiate this one assume of its constants.
FactorAssumption ==
    /\ None \notin Requests
    /\ Slots # {}
    /\ Threshold \in Nat \ {0}
    /\ Ops \subseteq {"login", "verify", "enroll", "confirm", "disable"}
    /\ Overlap \in BOOLEAN

VARIABLES
    row,        \* the columns totp_secret and totp_recovery_codes
    failures,   \* login_failure rows of the user in the window
    guesses,    \* wrong passwords that were compared in the window
    told,       \* what the user was shown: secrets and recovery codes
    proved,     \* secrets a code of which was accepted when they were enrolled
    entered,    \* the recovery codes that opened a session, with the request
    client      \* what each request is doing

vars == <<row, failures, guesses, told, proved, entered, client>>

Codes == Requests \X Slots
NoFactor == [secret |-> None, codes |-> {}]
Idle == [pc |-> "idle", op |-> "none", seen |-> NoFactor, new |-> NoFactor, used |-> {}]

Init ==
    /\ row = NoFactor
    /\ failures = 0
    /\ guesses = 0
    /\ told = [secrets |-> {}, codes |-> {}]
    /\ proved = {}
    /\ entered = {}
    /\ client = [r \in Requests |-> Idle]

-----------------------------------------------------------------------------
\* User.has_totp
HasTotp(factor) == factor.secret # None /\ factor.codes # {}

Quiet == \A r \in Requests : client[r].pc \in {"idle", "done"}
Locked == failures >= Threshold

Set(r, does) == client' = [client EXCEPT ![r] = does]
Goto(r, pc) == client' = [client EXCEPT ![r].pc = pc]

\* The users row is locked from the first UPDATE of a transaction to its end.
Writing(r) == client[r].pc = "commit"

\* The password of an account that is locked is not compared; a right one opens a session
\* or asks for the second factor.
Login(r) ==
    /\ "login" \in Ops
    /\ \E right \in BOOLEAN :
          IF Locked \/ right
          THEN Set(r, [Idle EXCEPT !.pc = "done", !.op = "login"]) /\ UNCHANGED guesses
          ELSE /\ Set(r, [Idle EXCEPT !.pc = "fail", !.op = "login"])
               /\ guesses' = guesses + 1
    /\ UNCHANGED <<row, failures, told, proved, entered>>

\* _process_failed_login commits the failure before the handler raises.
Fail(r) ==
    /\ client[r].pc = "fail"
    /\ failures' = failures + 1
    /\ Goto(r, "done")
    /\ UNCHANGED <<row, guesses, told, proved, entered>>

\* The audit row of a failed second factor is lost with the transaction the error ends.
Refused(r, op) == Set(r, [Idle EXCEPT !.pc = "done", !.op = op])
Wants(r, op, new, used) ==
    Set(r, [pc |-> "write", op |-> op, seen |-> row, new |-> new, used |-> used])

\* The challenge of a login is answered with a one-time password or a recovery code.
Verify(r) ==
    /\ "verify" \in Ops
    /\ \/ HasTotp(row) /\ row.secret \in told.secrets
          /\ Set(r, [Idle EXCEPT !.pc = "done", !.op = "verify"])
       \/ /\ HasTotp(row)
          /\ \E c \in told.codes \cap row.codes :
                Wants(r, "verify", [row EXCEPT !.codes = @ \ {c}], {c})
       \/ Refused(r, "verify")

\* A fresh secret without codes; refused to who has a second factor.
Enroll(r) ==
    /\ "enroll" \in Ops
    /\ IF HasTotp(row)
       THEN Refused(r, "enroll")
       ELSE Wants(r, "enroll", [secret |-> r, codes |-> {}], {})

\* The first code of an enrolled secret: ten fresh recovery codes are stored.
Confirm(r) ==
    /\ "confirm" \in Ops
    /\ \/ /\ row.secret \in told.secrets
          /\ Wants(r, "confirm", [row EXCEPT !.codes = {r} \X Slots], {})
       \/ Refused(r, "confirm")

\* With a one-time password or any of the recovery codes.
Disable(r) ==
    /\ "disable" \in Ops
    /\ \/ /\ HasTotp(row)
          /\ row.secret \in told.secrets \/ told.codes \cap row.codes # {}
          /\ Wants(r, "disable", NoFactor, {})
       \/ Refused(r, "disable")

Begin(r) ==
    /\ client[r].pc = "idle"
    /\ Overlap \/ Quiet
    /\ \/ Login(r)
       \/ /\ Verify(r) \/ Enroll(r) \/ Confirm(r) \/ Disable(r)
          /\ UNCHANGED <<row, failures, guesses, told, proved, entered>>

\* The flush: an UPDATE of the columns that differ from what was read, which waits for
\* that of another request; then the answer.
Write(r) ==
    /\ client[r].pc = "write"
    /\ \A o \in Requests : ~Writing(o)
    /\ Goto(r, "commit")
    /\ told' = CASE client[r].op = "enroll" -> [told EXCEPT !.secrets = @ \cup {r}]
                 [] client[r].op = "confirm" -> [told EXCEPT !.codes = @ \cup ({r} \X Slots)]
                 [] OTHER -> told
    /\ proved' = IF client[r].op = "confirm" THEN proved \cup {client[r].seen.secret}
                 ELSE proved
    /\ UNCHANGED <<row, failures, guesses, entered>>

\* The columns a request wrote; the others stay as they are by now.
Written(r) ==
    LET seen == client[r].seen  new == client[r].new IN
    [secret |-> IF new.secret = seen.secret THEN row.secret ELSE new.secret,
     codes |-> IF new.codes = seen.codes THEN row.codes ELSE new.codes]

Commit(r) ==
    /\ Writing(r)
    /\ row' = Written(r)
    /\ entered' = entered \cup {<<c, r>> : c \in client[r].used}
    /\ Goto(r, "done")
    /\ UNCHANGED <<failures, guesses, told, proved>>

\* The answer was sent and the commit fails, or the request is lost before.
Lose(r) ==
    /\ client[r].pc \in {"write", "commit"}
    /\ Goto(r, "done")
    /\ UNCHANGED <<row, failures, guesses, told, proved, entered>>

\* LOGIN_FAILURE_WINDOW_SECONDS have passed.
Window ==
    /\ Quiet
    /\ failures > 0
    /\ failures' = 0
    /\ guesses' = 0
    /\ UNCHANGED <<row, told, proved, entered, client>>

Next ==
    \/ \E r \in Requests : Begin(r) \/ Fail(r) \/ Write(r) \/ Commit(r) \/ Lose(r)
    \/ Window

Spec == Init /\ [][Next]_vars

-----------------------------------------------------------------------------
TypeOK ==
    /\ row \in [secret : Requests \cup {None}, codes : SUBSET Codes]
    /\ failures \in 0..Cardinality(Requests)
    /\ guesses \in 0..Cardinality(Requests)
    /\ told \in [secrets : SUBSET Requests, codes : SUBSET Codes]
    /\ proved \subseteq Requests
    /\ entered \subseteq Codes \X Requests
    /\ \A r \in Requests :
          /\ client[r].pc \in {"idle", "fail", "write", "commit", "done"}
          /\ client[r].op \in Ops \cup {"none"}

\* While requests come one at a time, a second factor is one the user has confirmed
\* (auth/totp.py 11-16), a recovery code opens one session (auth/totp.py 107-130), and
\* no more passwords are tried than the lockout allows (auth.py 377-421).
Confirmed == HasTotp(row) => row.secret \in proved
CodesOnce == \A e, f \in entered : e[1] = f[1] => e = f
GuessesBounded == guesses <= Threshold

(***************************************************************************)
(* What they rest on, one request at a time                                *)
(***************************************************************************)
Factors == [secret : Requests \cup {None}, codes : SUBSET Codes]
Begun == {r \in Requests : client[r].pc # "idle"}
Busy(r) == client[r].pc \in {"fail", "write", "commit"}
Failing == \E r \in Requests : client[r].pc = "fail"

Typed ==
    /\ row \in Factors /\ failures \in Nat /\ guesses \in Nat
    /\ told \in [secrets : SUBSET Requests, codes : SUBSET Codes]
    /\ proved \subseteq Requests /\ entered \subseteq Codes \X Requests
    /\ client \in [Requests -> [pc : {"idle", "fail", "write", "commit", "done"},
                                op : Ops \cup {"none"}, seen : Factors, new : Factors,
                                used : SUBSET Codes]]

\* What a request that has not ended yet is about to write.
Intends(r) ==
    LET c == client[r] IN
    /\ c.seen = row
    /\ \/ /\ c.op = "verify"
          /\ \E code \in row.codes : c.used = {code} /\ c.new = [row EXCEPT !.codes = @ \ {code}]
       \/ c.op = "enroll" /\ c.used = {} /\ c.new = [secret |-> r, codes |-> {}]
       \/ /\ c.op = "confirm" /\ c.used = {} /\ c.new = [row EXCEPT !.codes = {r} \X Slots]
          /\ c.pc = "commit" => row.secret \in proved
          /\ row.secret \in Requests
       \/ c.op = "disable" /\ c.used = {} /\ c.new = NoFactor

\* The window has the failures that were counted and the one that is about to be.
Guessed ==
    /\ guesses <= Threshold /\ guesses <= Cardinality(Begun)
    /\ guesses = failures + (IF Failing THEN 1 ELSE 0)

\* A code is named after a request that has ended, and is not stored again when used.
CodesEnd ==
    /\ \A c \in row.codes : client[c[1]].pc = "done"
    /\ \A e \in entered : client[e[1][1]].pc = "done" /\ e[1] \notin row.codes

FactorInv ==
    /\ Typed /\ Confirmed /\ CodesOnce /\ Guessed /\ CodesEnd
    /\ \A r, o \in Requests : Busy(r) /\ Busy(o) => r = o
    /\ \A r \in Requests : client[r].pc \in {"write", "commit"} => Intends(r)
=============================================================================
