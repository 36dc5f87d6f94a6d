------------------------------- MODULE SignUps -------------------------------
(***************************************************************************)
(* How accounts come to be: POST /register and the callback of a single    *)
(* sign-on provider, the link of the verification mail, and the daily      *)
(* clean-up of accounts nobody verified.  A request is one transaction     *)
(* that get_db commits after the answer; a request looks at the rows of    *)
(* others only when they are committed.  An account is named after the     *)
(* request that inserts it, all come from one network address.             *)
(***************************************************************************)
EXTENDS Integers, FiniteSets

CONSTANTS
    Requests,       \* each is served once
    Addresses,      \* e-mail addresses, in lower case
    Canonical,      \* canonicalize_email
    Subjects,       \* identities at a single sign-on provider
    Devices,
    NoRow,
    IpLimit, DeviceLimit, Collisions,   \* SIGNUP_* of config.py
    Cluster,        \* FINGERPRINT_REVIEW_THRESHOLD
    Ops,            \* what requests may ask for
    Overlap         \* requests may overlap

VARIABLES
    person,     \* the committed row of users an account has, or NoRow
    visitor     \* what each request is doing

vars == <<person, visitor>>

\* The subject of an account is "email", or who it is at the provider.
Rows == [address : Addresses, subject : {"email"} \cup Subjects, device : Devices,
         verified : BOOLEAN, suspended : BOOLEAN, age : 0..2, flagged : BOOLEAN,
         mailed : BOOLEAN]

\* What the modules that instantiate this one assume of its constants.
SignUpAssumption ==
    /\ IpLimit \in Nat /\ DeviceLimit \in Nat /\ Collisions \in Nat /\ Cluster \in Nat
    /\ Ops \subseteq {"register", "callback", "confirm", "cleanup"}
    /\ Overlap \in BOOLEAN
    /\ "email" \notin Subjects
    /\ NoRow \notin Requests \cup Rows
    /\ DOMAIN Canonical = Addresses

Steps == {"idle", "look", "limit", "insert", "links", "mail", "write", "commit", "done"}

Idle == [pc |-> "idle", op |-> "none", row |-> NoRow, target |-> NoRow, batch |-> {}]

Init ==
    /\ person = [r \in Requests |-> NoRow]
    /\ visitor = [r \in Requests |-> Idle]

-----------------------------------------------------------------------------
Accounts == {u \in Requests : person[u] # NoRow}
Recent == {u \in Accounts : person[u].age = 0}

\* A flushed row that is not committed yet.
Pending(r) == visitor[r].pc \in {"links", "mail", "commit"} /\ visitor[r].row # NoRow

SameName(x, y) == x.address = y.address \/ Canonical[x.address] = Canonical[y.address]

\* The devices of today, own counts the row the transaction itself has flushed.
SignUpsToday(own) == Cardinality(Recent) + own
SignUpsOf(d, own) == Cardinality({u \in Recent : person[u].device = d}) + own

\* fingerprint_usable_for_narrow_limit: a fingerprint many share says nothing.
Usable(d, own) == SignUpsOf(d, own) < Collisions

Allowed(d) ==
    /\ SignUpsToday(0) < IpLimit
    /\ Usable(d, 0) => SignUpsOf(d, 0) < DeviceLimit

SuspiciousBefore(d) == Usable(d, 0) /\ SignUpsOf(d, 0) >= Cluster

\* analyze_signup_links, after the flush (an ip_cluster needs more sign-ups than IpLimit
\* leaves room for).
Suspicious(d) == Usable(d, 1) /\ SignUpsOf(d, 1) >= Cluster

Taken(row) == \E u \in Accounts : SameName(person[u], row)
Quiet == \A r \in Requests : visitor[r].pc \in {"idle", "done"}

Set(r, v) == visitor' = [visitor EXCEPT ![r] = v]
Goto(r, l) == Set(r, [visitor[r] EXCEPT !.pc = l])
Refuse(r) == Set(r, [visitor[r] EXCEPT !.pc = "done", !.row = NoRow])

-----------------------------------------------------------------------------
\* What a provider says of a person who signs in with it: the profile it leaves, by
\* whether it vouches for the address; none when the exchange fails.
GoogleVouches == {TRUE}
GitHubVouches == {TRUE}
MicrosoftVouches(claim) == {FALSE, claim}
LinkedInVouches(claim) == {claim}

Vouches ==
    GoogleVouches \cup GitHubVouches
        \cup UNION {MicrosoftVouches(c) \cup LinkedInVouches(c) : c \in BOOLEAN}

NewRow(a, s, d, verified) ==
    [address |-> a, subject |-> s, device |-> d, verified |-> verified,
     suspended |-> FALSE, age |-> 0, flagged |-> FALSE, mailed |-> FALSE]

\* A registration whose address, token and password were accepted.
Register(r, a, d) ==
    /\ "register" \in Ops
    /\ Set(r, [Idle EXCEPT !.pc = "look", !.op = "register",
                           !.row = NewRow(a, "email", d, FALSE)])

\* A callback whose profile could be fetched.
Callback(r, a, s, d) ==
    /\ "callback" \in Ops
    /\ \E v \in Vouches :
          Set(r, [Idle EXCEPT !.pc = "look", !.op = "callback", !.row = NewRow(a, s, d, v)])

\* The link of a mail: the account is read, and is verified already or not.
Confirm(r, u) ==
    /\ "confirm" \in Ops
    /\ visitor[u].row # NoRow /\ visitor[u].row.mailed
    /\ IF person[u] # NoRow /\ ~person[u].verified
       THEN Set(r, [Idle EXCEPT !.pc = "write", !.op = "confirm", !.target = u])
       ELSE Set(r, [Idle EXCEPT !.pc = "done", !.op = "confirm"])

Unverified ==
    {u \in Accounts : ~person[u].verified /\ person[u].subject = "email"
                      /\ ~person[u].suspended /\ person[u].age = 2}

\* soft_delete_unverified_accounts selects its accounts.
CleanUp(r) ==
    /\ "cleanup" \in Ops
    /\ Set(r, [Idle EXCEPT !.pc = "write", !.op = "cleanup", !.batch = Unverified])

Begin(r) ==
    /\ visitor[r].pc = "idle"
    /\ Overlap \/ Quiet
    /\ \/ \E a \in Addresses, d \in Devices :
             Register(r, a, d) \/ \E s \in Subjects : Callback(r, a, s, d)
       \/ \E u \in Requests : Confirm(r, u)
       \/ CleanUp(r)
    /\ UNCHANGED person

\* Who signs in with a provider that knows an account enters it (or is told that it is
\* suspended); an address that is taken ends the request.
Look(r) ==
    LET row == visitor[r].row IN
    /\ visitor[r].pc = "look"
    /\ IF \/ \E u \in Accounts : row.subject # "email" /\ person[u].subject = row.subject
          \/ Taken(row)
       THEN Refuse(r)
       ELSE Goto(r, "limit")
    /\ UNCHANGED person

Limit(r) ==
    /\ visitor[r].pc = "limit"
    /\ IF Allowed(visitor[r].row.device)
       THEN Goto(r, "insert")
       ELSE Refuse(r)
    /\ UNCHANGED person

\* The flush: a unique index makes it wait for an uncommitted row of the same address or
\* canonical address, and fail when there is a committed one.
Insert(r) ==
    LET row == visitor[r].row IN
    /\ visitor[r].pc = "insert"
    /\ \A o \in Requests \ {r} : Pending(o) => ~SameName(visitor[o].row, row)
    /\ IF Taken(row) THEN Refuse(r) ELSE Goto(r, "links")
    /\ UNCHANGED person

Links(r) ==
    LET row == visitor[r].row IN
    /\ visitor[r].pc = "links"
    /\ Set(r, [visitor[r] EXCEPT !.pc = "mail", !.row.flagged = Suspicious(row.device)])
    /\ UNCHANGED person

\* The verification mail leaves before the commit, to everybody whose address nobody
\* vouches for.  That it could not be sent is only logged.
Mail(r) ==
    LET row == visitor[r].row IN
    /\ visitor[r].pc = "mail"
    /\ \E sent \in BOOLEAN :
          Set(r, [visitor[r] EXCEPT !.pc = "commit", !.row.mailed = sent /\ ~row.verified])
    /\ UNCHANGED person

\* The UPDATE of a confirmed account, or of the accounts the clean-up found, and its commit.
Write(r) ==
    /\ visitor[r].pc = "write"
    /\ person' =
          [u \in Requests |->
             IF visitor[r].target = u THEN [person[u] EXCEPT !.verified = TRUE]
             ELSE IF u \in visitor[r].batch THEN [person[u] EXCEPT !.suspended = TRUE]
             ELSE person[u]]
    /\ Set(r, [visitor[r] EXCEPT !.pc = "done", !.batch = {}, !.target = NoRow])

Commit(r) ==
    /\ visitor[r].pc = "commit"
    /\ person' = [person EXCEPT ![r] = visitor[r].row]
    /\ Goto(r, "done")

\* The connection is lost: the transaction is rolled back, a mail that left has left.
Lose(r) ==
    /\ visitor[r].pc \notin {"idle", "done"}
    /\ Goto(r, "done")
    /\ UNCHANGED person

\* created_at falls out of the window of a day, and then of UNVERIFIED_ACCOUNT_CLEANUP_DAYS.
Pass ==
    /\ \E u \in Accounts : person[u].age < 2
    /\ person' = [u \in Requests |->
                    IF u \in Accounts /\ person[u].age < 2
                    THEN [person[u] EXCEPT !.age = @ + 1] ELSE person[u]]
    /\ UNCHANGED visitor

Next ==
    \/ \E r \in Requests :
          \/ Begin(r) \/ Look(r) \/ Limit(r) \/ Insert(r) \/ Links(r) \/ Mail(r)
          \/ Write(r) \/ Commit(r) \/ Lose(r)
    \/ Pass

Spec == Init /\ [][Next]_vars

-----------------------------------------------------------------------------
Shapes == [pc : Steps, op : Ops \cup {"none"}, row : Rows \cup {NoRow},
           target : Requests \cup {NoRow}, batch : SUBSET Requests]

TypeOK ==
    /\ person \in [Requests -> Rows \cup {NoRow}]
    /\ visitor \in [Requests -> Shapes]

\* However registrations and callbacks overlap, a mailbox has one account, whatever
\* alias it is written with (models/user.py 129-134).
OneAccount ==
    \A u, v \in Accounts : u # v => ~SameName(person[u], person[v])

\* While requests come one at a time, who signs in with a provider has one account there,
\* also when the address at the provider changes (auth.py 786-795).
OneIdentity ==
    \A u, v \in Accounts :
        u # v /\ person[u].subject # "email" => person[u].subject # person[v].subject

\* While requests come one at a time, no device signs up more often in a day than
\* allowed, and the sign-up that makes it a cluster is flagged (signup_rate_limit.py
\* 57-86, signup_link_analysis.py 30-60).
DevicesCounted ==
    \A d \in Devices :
        /\ SignUpsOf(d, 0) <= DeviceLimit
        /\ SignUpsOf(d, 0) >= Cluster =>
              \E u \in Recent : person[u].device = d /\ person[u].flagged

\* Who has verified the address is not suspended for not having done so (maintenance.py
\* 55-75): kept one request at a time, refuted by TLC when a link is followed between the
\* SELECT of the clean-up and its UPDATE.
SuspendedUnverified ==
    \A u \in Accounts :
        person'[u] # NoRow /\ person'[u].suspended /\ ~person[u].suspended
            => ~person[u].verified
KeepsVerified == [][SuspendedUnverified]_vars

(***************************************************************************)
(* What they rest on                                                       *)
(***************************************************************************)
Entering == {"look", "limit", "insert", "links", "mail", "commit"}

\* A request has an account once it has committed it, and none of another name meanwhile.
Apart ==
    /\ \A r \in Accounts : visitor[r].pc = "done"
    /\ \A r \in Requests :
         /\ visitor[r].pc = "idle" => visitor[r] = Idle
         /\ visitor[r].pc \in Entering =>
              /\ visitor[r].row # NoRow /\ visitor[r].target = NoRow /\ visitor[r].batch = {}
              /\ visitor[r].row.age = 0
         /\ visitor[r].target # NoRow => visitor[r].batch = {}
         /\ visitor[r].batch \cup ({visitor[r].target} \ {NoRow}) \subseteq Accounts
    /\ \A r \in Requests : Pending(r) => ~Taken(visitor[r].row)
    /\ \A r, o \in Requests :
         r # o /\ Pending(r) /\ Pending(o) => ~SameName(visitor[r].row, visitor[o].row)

SignUpInv == TypeOK /\ Apart /\ OneAccount

Running(r) == visitor[r].pc \notin {"idle", "done"}

\* One request at a time: what it found when it looked is so until it ends.
InTurn(r) ==
    LET row == visitor[r].row
        count == SignUpsOf(row.device, 0)
    IN
    /\ \A o \in Requests : Running(o) => o = r
    /\ \A u \in visitor[r].batch : ~person[u].verified
    /\ visitor[r].pc \in Entering \ {"look"} /\ row.subject # "email" =>
         \A u \in Accounts : person[u].subject # row.subject
    /\ visitor[r].pc \in Entering \ {"look", "limit"} => count < DeviceLimit
    /\ visitor[r].pc \in {"mail", "commit"} => (count + 1 >= Cluster => row.flagged)

SignTurnInv ==
    /\ SignUpInv /\ OneIdentity /\ DevicesCounted
    /\ \A r \in Requests : Running(r) => InTurn(r)
=============================================================================
