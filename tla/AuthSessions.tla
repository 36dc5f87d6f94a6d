---------------------------- MODULE AuthSessions ----------------------------
(***************************************************************************)
(* One user's refresh tokens, kept twice: the rows of refresh_tokens in    *)
(* PostgreSQL, which decide, and in Redis the metadata of each token, the  *)
(* index of the user's tokens and the id of the active auth session.       *)
(*                                                                         *)
(* A request is one database transaction; what it writes to Redis is       *)
(* visible at once and stays when the transaction does not commit.  The    *)
(* answer is sent before get_db commits.  A token is named after the       *)
(* request that minted it, an auth session after its login.                *)
(***************************************************************************)
EXTENDS Integers, FiniteSets

CONSTANTS
    Requests,   \* each is served once
    Nobody,     \* no token, no auth session, no metadata
    Unnamed,    \* metadata without an auth session
    Ops,        \* what requests may ask for
    Overlap,    \* requests may overlap
    MaxCrashes  \* bound: how many requests are cut off

AllOps == {"login", "refresh", "logout", "logoutAll", "reset", "revoke"}

\* What the modules that instantiate this one assume of its constants.
AuthAssumption ==
    /\ Nobody \notin Requests
    /\ Unnamed \notin Requests \cup {Nobody}
    /\ Ops \subseteq AllOps
    /\ Overlap \in BOOLEAN
    /\ MaxCrashes \in Nat

VARIABLES
    row,        \* committed RefreshToken: none, live or revoked
    parent,     \* its parent_id
    root,       \* the login its chain began with
    meta,       \* Redis: the auth session in its metadata
    index,      \* Redis: the user's set of token ids
    active,     \* Redis: the active auth session
    known,      \* tokens a client has received
    access,     \* the auth session of the access token that came with each
    pc,
    op, token,  \* the request, and the token it presents or names
    sid,        \* the auth session a refresh resolved
    locked,     \* the rows its transaction has locked
    kill,       \* the rows its transaction has revoked
    members,    \* the index as it read it
    answer,     \* how a refresh was answered
    crashes

db == <<row, parent, root>>
redis == <<meta, index, active>>
request == <<op, token, sid>>
client == <<known, access>>
vars == <<db, redis, client, pc, request, locked, kill, members, answer, crashes>>

Labels == {"idle", "password", "resolve", "lock", "kill", "reuse", "members", "drop",
           "active", "revoke", "unbind", "clear", "bind", "touch", "answer", "commit", "done"}
Mints == {"login", "refresh"}
Answers == {"none", "ok", "replaced", "reuse", "invalid"}

Init ==
    /\ row = [t \in Requests |-> "none"]
    /\ parent = [t \in Requests |-> Nobody]
    /\ root = [t \in Requests |-> Nobody]
    /\ meta = [t \in Requests |-> Nobody]
    /\ index = {}
    /\ active = Nobody
    /\ known = {}
    /\ access = [t \in Requests |-> Nobody]
    /\ pc = [r \in Requests |-> "idle"]
    /\ op \in [Requests -> Ops]
    /\ token = [r \in Requests |-> Nobody]
    /\ sid = [r \in Requests |-> Nobody]
    /\ locked = [r \in Requests |-> {}]
    /\ kill = [r \in Requests |-> {}]
    /\ members = [r \in Requests |-> {}]
    /\ answer = [r \in Requests |-> "none"]
    /\ crashes = 0

Goto(r, l) == pc' = [pc EXCEPT ![r] = l]
Quiet == \A r \in Requests : pc[r] \in {"idle", "done"}
Free(r, t) == \A o \in Requests \ {r} : t \notin locked[o]
Live == {t \in Requests : row[t] = "live"}

\* The steps of a handler, each by what comes after it.
AfterDrop(r) ==
    CASE op[r] = "login" -> "active"
      [] op[r] = "logoutAll" -> "clear"
      [] op[r] = "reset" -> "answer"
      [] OTHER -> "done"

First(r) ==
    CASE op[r] = "reset" -> "password"
      [] op[r] \in {"login", "logoutAll"} -> "kill"
      [] op[r] = "refresh" -> "resolve"
      [] OTHER -> "revoke"

\* r has updated the users row and not ended.
HasUser(r) ==
    \/ op[r] = "login" /\ pc[r] \in {"answer", "commit"}
    \/ op[r] # "login" /\ First(r) = "password" /\ pc[r] \notin {"idle", "password", "done"}

\* The requests that r waits for.
Blockers(r) ==
    CASE pc[r] \in {"password", "touch"} -> {o \in Requests \ {r} : HasUser(o)}
      [] pc[r] = "kill" -> {o \in Requests \ {r} : locked[o] \cap Live # {}}
      [] pc[r] \in {"lock", "revoke"} -> {o \in Requests \ {r} : token[r] \in locked[o]}
      [] OTHER -> {}

\* get_current_user: the client's access token is of the active auth session.
Admitted(t) == access[t] = Nobody \/ active \in {Nobody, access[t]}

\* What a client comes with: its refresh token, or the row of one it names.
Presented(r) ==
    CASE op[r] = "refresh" -> known
      [] op[r] = "logout" -> {t \in known : Admitted(t)}
      [] op[r] = "logoutAll" -> {Nobody : t \in {k \in known : Admitted(k)}}
      [] op[r] = "revoke" -> {t \in Requests : row[t] # "none" /\ \E k \in known : Admitted(k)}
      [] OTHER -> {Nobody}

Begin(r) ==
    /\ pc[r] = "idle"
    /\ Overlap \/ Quiet
    /\ \E t \in Presented(r) : token' = [token EXCEPT ![r] = t]
    /\ Goto(r, First(r))
    /\ UNCHANGED <<db, redis, client, op, sid, locked, kill, members, answer, crashes>>

Respond(r, a) ==
    /\ Goto(r, "done")
    /\ answer' = [answer EXCEPT ![r] = a]
    /\ locked' = [locked EXCEPT ![r] = {}]
    /\ kill' = [kill EXCEPT ![r] = {}]
    /\ members' = [members EXCEPT ![r] = {}]
    /\ sid' = [sid EXCEPT ![r] = Nobody]
    /\ UNCHANGED <<op, token>>

\* _auth_session_id_for_refresh_token: the metadata, or else the active session.
SidOf(t) == IF meta[t] \in Requests THEN meta[t] ELSE active

Resolve(r) ==
    /\ pc[r] = "resolve"
    /\ sid' = [sid EXCEPT ![r] = IF row[token[r]] = "none" THEN Nobody ELSE SidOf(token[r])]
    /\ Goto(r, "lock")
    /\ UNCHANGED <<db, redis, client, op, token, locked, kill, members, answer, crashes>>

\* password_reset writes the new hash.
Password(r) ==
    /\ pc[r] = "password" /\ Blockers(r) = {}
    /\ Goto(r, "kill")
    /\ UNCHANGED <<db, redis, client, request, locked, kill, members, answer, crashes>>

RotateUnlocked(r) ==
    /\ pc[r] = "lock" /\ row[token[r]] = "live"
    /\ kill' = [kill EXCEPT ![r] = {token[r]}]
    /\ Goto(r, "bind")
    /\ UNCHANGED <<db, redis, client, request, locked, members, answer, crashes>>

\* rotate_refresh_token: the row is locked and live, it is revoked and a child minted.
Rotate(r) ==
    /\ pc[r] = "lock" /\ Free(r, token[r]) /\ row[token[r]] = "live"
    /\ locked' = [locked EXCEPT ![r] = {token[r]}]
    /\ kill' = [kill EXCEPT ![r] = {token[r]}]
    /\ Goto(r, "bind")
    /\ UNCHANGED <<db, redis, client, request, members, answer, crashes>>

\* _classify_revoked_refresh_token
Replaced(t) == active # Nobody /\ meta[t] # active

RotateUnknown(r) ==
    /\ pc[r] = "lock" /\ row[token[r]] = "none"
    /\ Respond(r, "invalid")
    /\ UNCHANGED <<db, redis, client, crashes>>

RotateReplaced(r) ==
    /\ pc[r] = "lock" /\ Free(r, token[r]) /\ row[token[r]] = "revoked"
    /\ Replaced(token[r])
    /\ Respond(r, "replaced")
    /\ UNCHANGED <<db, redis, client, crashes>>

RotateReused(r) ==
    /\ pc[r] = "lock" /\ Free(r, token[r]) /\ row[token[r]] = "revoked"
    /\ ~Replaced(token[r])
    /\ locked' = [locked EXCEPT ![r] = {token[r]}]
    /\ Goto(r, "kill")
    /\ UNCHANGED <<db, redis, client, request, kill, members, answer, crashes>>

\* revoke_all_user_tokens: one UPDATE of the rows that are live when it runs.
Kill(r) ==
    /\ pc[r] = "kill"
    /\ \A t \in Live : Free(r, t)
    /\ kill' = [kill EXCEPT ![r] = Live]
    /\ locked' = [locked EXCEPT ![r] = @ \cup Live]
    /\ Goto(r, IF op[r] = "refresh" THEN "reuse" ELSE "members")
    /\ UNCHANGED <<db, redis, client, request, members, answer, crashes>>

\* A reuse is committed before Redis hears of it.
CommitReuse(r) ==
    /\ pc[r] = "reuse"
    /\ row' = [t \in Requests |-> IF t \in kill[r] THEN "revoked" ELSE row[t]]
    /\ locked' = [locked EXCEPT ![r] = {}]
    /\ kill' = [kill EXCEPT ![r] = {}]
    /\ answer' = [answer EXCEPT ![r] = "reuse"]
    /\ Goto(r, "members")
    /\ UNCHANGED <<parent, root, redis, client, request, members, crashes>>

\* Redis: SMEMBERS, and then the deletion of what it returned.
Members(r) ==
    /\ pc[r] = "members"
    /\ members' = [members EXCEPT ![r] = index]
    /\ Goto(r, IF index = {} THEN AfterDrop(r) ELSE "drop")
    /\ UNCHANGED <<db, redis, client, request, locked, kill, answer, crashes>>

Drop(r) ==
    /\ pc[r] = "drop"
    /\ meta' = [t \in Requests |-> IF t \in members[r] THEN Nobody ELSE meta[t]]
    /\ index' = {}
    /\ members' = [members EXCEPT ![r] = {}]
    /\ Goto(r, AfterDrop(r))
    /\ UNCHANGED <<db, active, client, request, locked, kill, answer, crashes>>

SetActive(r) ==
    /\ pc[r] = "active"
    /\ active' = r
    /\ Goto(r, "bind")
    /\ UNCHANGED <<db, meta, index, client, request, locked, kill, members, answer, crashes>>

\* logout, DELETE /sessions/{id}: the named row, then its metadata.
RevokeOne(r) ==
    /\ pc[r] = "revoke" /\ Free(r, token[r])
    /\ LET one == {token[r]} \cap Live
       IN  /\ kill' = [kill EXCEPT ![r] = one]
           /\ locked' = [locked EXCEPT ![r] = one]
    /\ Goto(r, IF row[token[r]] # "none" THEN "unbind"
               ELSE IF op[r] = "logout" THEN "clear" ELSE "done")
    /\ UNCHANGED <<db, redis, client, request, members, answer, crashes>>

Unbind(r) ==
    /\ pc[r] = "unbind"
    /\ meta' = [meta EXCEPT ![token[r]] = Nobody]
    /\ index' = IF meta[token[r]] # Nobody THEN index \ {token[r]} ELSE index
    /\ Goto(r, IF op[r] = "logout" THEN "clear" ELSE "answer")
    /\ UNCHANGED <<db, active, client, request, locked, kill, members, answer, crashes>>

Clear(r) ==
    /\ pc[r] = "clear"
    /\ active' = Nobody
    /\ Goto(r, "answer")
    /\ UNCHANGED <<db, meta, index, client, request, locked, kill, members, answer, crashes>>

Sid(r) == IF op[r] = "login" THEN r ELSE sid[r]

\* bind_refresh_token_to_redis, after the INSERT of the token.
Bind(r) ==
    /\ pc[r] = "bind"
    /\ meta' = [meta EXCEPT ![r] = IF Sid(r) = Nobody THEN Unnamed ELSE Sid(r)]
    /\ index' = index \cup {r}
    /\ Goto(r, IF op[r] = "login" THEN "touch" ELSE "answer")
    /\ UNCHANGED <<db, active, client, request, locked, kill, members, answer, crashes>>

\* last_login_at: the UPDATE of the users row waits for that of another login.
Touch(r) ==
    /\ pc[r] = "touch"
    /\ Blockers(r) = {}
    /\ Goto(r, "answer")
    /\ UNCHANGED <<db, redis, client, request, locked, kill, members, answer, crashes>>

Answer(r) ==
    /\ pc[r] = "answer"
    /\ known' = IF op[r] \in Mints THEN known \cup {r} ELSE known
    /\ access' = IF op[r] \in Mints THEN [access EXCEPT ![r] = Sid(r)] ELSE access
    /\ Goto(r, "commit")
    /\ UNCHANGED <<db, redis, request, locked, kill, members, answer, crashes>>

\* get_db, after the answer
Commit(r) ==
    /\ pc[r] = "commit"
    /\ row' = [t \in Requests |-> IF t \in kill[r] THEN "revoked"
                                  ELSE IF t = r /\ op[r] \in Mints THEN "live" ELSE row[t]]
    /\ parent' = IF op[r] = "refresh" THEN [parent EXCEPT ![r] = token[r]] ELSE parent
    /\ root' = IF op[r] \in Mints
               THEN [root EXCEPT ![r] = IF op[r] = "login" THEN r ELSE root[token[r]]]
               ELSE root
    /\ Respond(r, "ok")
    /\ UNCHANGED <<redis, client, crashes>>

\* S is a set of requests each of which waits for another one of it.
WaitCycle(S) == S # {} /\ \A r \in S : Blockers(r) \cap S # {}

\* PostgreSQL ends one transaction of a deadlock.
Victim(r) ==
    /\ \E S \in SUBSET Requests : r \in S /\ WaitCycle(S)
    /\ Respond(r, answer[r])
    /\ UNCHANGED <<db, redis, client, crashes>>

\* The transaction is lost; what Redis was told stays.
Crash(r) ==
    /\ pc[r] \notin {"idle", "done"} /\ crashes < MaxCrashes
    /\ crashes' = crashes + 1
    /\ Respond(r, answer[r])
    /\ UNCHANGED <<db, redis, client>>

Step(r) ==
    \/ Begin(r) \/ Password(r) \/ Resolve(r)
    \/ Rotate(r) \/ RotateUnknown(r) \/ RotateReplaced(r) \/ RotateReused(r)
    \/ Kill(r) \/ CommitReuse(r) \/ Members(r) \/ Drop(r) \/ SetActive(r)
    \/ RevokeOne(r) \/ Unbind(r) \/ Clear(r)
    \/ Bind(r) \/ Touch(r) \/ Answer(r) \/ Commit(r)

Next == \E r \in Requests : Step(r) \/ Victim(r) \/ Crash(r)

Spec == Init /\ [][Next]_vars

(***************************************************************************)
(* What holds                                                              *)
(***************************************************************************)
TypeOK ==
    /\ row \in [Requests -> {"none", "live", "revoked"}]
    /\ parent \in [Requests -> Requests \cup {Nobody}]
    /\ root \in [Requests -> Requests \cup {Nobody}]
    /\ meta \in [Requests -> Requests \cup {Nobody, Unnamed}]
    /\ index \subseteq Requests /\ active \in Requests \cup {Nobody}
    /\ known \subseteq Requests /\ access \in [Requests -> Requests \cup {Nobody}]
    /\ pc \in [Requests -> Labels] /\ op \in [Requests -> Ops]
    /\ token \in [Requests -> Requests \cup {Nobody}]
    /\ sid \in [Requests -> Requests \cup {Nobody}]
    /\ locked \in [Requests -> SUBSET Requests] /\ kill \in [Requests -> SUBSET Requests]
    /\ members \in [Requests -> SUBSET Requests]
    /\ answer \in [Requests -> Answers] /\ crashes \in 0 .. MaxCrashes

\* However many refreshes present the same token at once, one of them gets a child of
\* it (find_refresh_token's FOR UPDATE: "two child tokens from the same parent").
OneChild ==
    \A s, t \in Requests : parent[s] # Nobody /\ parent[s] = parent[t] => s = t

\* Requests wait for each other only when a password reset, which writes the user
\* before the tokens, meets a login, which revokes before it writes last_login_at.
DeadlockIsReset ==
    \A S \in SUBSET Requests :
        WaitCycle(S) => {"reset", "login"} \subseteq {op[r] : r \in S}

\* One request after the other, cut off anywhere: the live tokens are of one login.
SoleLogin == \A s, t \in Live : root[s] = root[t]

\* And a live token still opens a session: the access token its refresh would return
\* names the active auth session, whatever a cut-off request left in Redis.
LiveOpens == Quiet => \A t \in Live : active \in {Nobody, SidOf(t)}

(***************************************************************************)
(* What does not hold when requests overlap                                *)
(***************************************************************************)
\* Of two logins, the prior one's refresh token is revoked.
PriorRevoked ==
    \A s, t \in Requests :
        s # t /\ op[s] = "login" /\ op[t] = "login" => "live" \notin {row[s]} \cap {row[t]}

\* A client that presents a token it was given is not told that there is none.
GivenIsFound == \A r \in Requests : answer[r] # "invalid"

(***************************************************************************)
(* Why it holds, for any requests.  The rows a transaction will revoke are *)
(* live and locked by it until it ends, so a token is rotated from live to *)
(* revoked once; a request that waits holds no live row, except a login    *)
(* that waits to write last_login_at.                                      *)
(***************************************************************************)
Unstarted == {"idle", "password", "resolve", "lock", "revoke", "done"}

\* Whose steps the labels are.
OpsAt(l) ==
    CASE l \in {"password"} -> {"reset"}
      [] l \in {"resolve", "lock", "reuse"} -> {"refresh"}
      [] l \in {"active", "touch"} -> {"login"}
      [] l = "bind" -> Mints
      [] l \in {"revoke", "unbind"} -> {"logout", "revoke"}
      [] l = "clear" -> {"logout", "logoutAll"}
      [] l \in {"kill", "members", "drop"} -> {"login", "logoutAll", "reset", "refresh"}
      [] OTHER -> AllOps

\* What a request has locked and revoked at each of its steps.
RequestSound(r) ==
    /\ op[r] \in OpsAt(pc[r])
    /\ pc[r] # "idle" /\ op[r] \in {"refresh", "logout", "revoke"} => token[r] \in Requests
    /\ kill[r] \subseteq locked[r] \cap Live
    /\ \A t \in locked[r] : row[t] # "none"
    /\ pc[r] \in Unstarted => locked[r] = {}
    /\ pc[r] = "kill" => locked[r] \cap Live = {}
    /\ pc[r] \in {"members", "drop"} /\ op[r] = "refresh" => locked[r] = {}
    /\ pc[r] \in {"bind", "answer", "commit"} /\ op[r] = "refresh" => kill[r] = {token[r]}

\* A token is a row once its request has committed; a parent has been revoked.
RowSound(t) ==
    /\ row[t] # "none" => pc[t] = "done"
    /\ parent[t] # Nobody => pc[t] = "done" /\ row[parent[t]] = "revoked"

LocksApart == \A r, o \in Requests : \A t \in locked[r] \cap locked[o] : r = o

AuthInv ==
    /\ TypeOK
    /\ \A r \in Requests : RequestSound(r) /\ RowSound(r)
    /\ LocksApart
    /\ OneChild

\* One after the other: what Redis holds of the live tokens at each step of the request.
Alone == \A r, o \in Requests : {pc[r], pc[o]} \cap {"idle", "done"} = {} => r = o

TurnSound(r) ==
    /\ op[r] = "login" =>
          /\ pc[r] \in {"members", "drop", "active", "bind", "touch", "answer", "commit"} =>
                kill[r] = Live
          /\ pc[r] \in {"active", "bind", "touch", "answer", "commit"} =>
                \A t \in Live : meta[t] = Nobody
          /\ pc[r] \in {"bind", "touch", "answer", "commit"} => active = r
          /\ pc[r] \in {"touch", "answer", "commit"} => meta[r] = r
    /\ op[r] = "refresh" =>
          /\ pc[r] \in {"lock", "bind", "answer", "commit"} /\ row[token[r]] = "live" =>
                active \in {Nobody, sid[r]}
          /\ pc[r] \in {"answer", "commit"} =>
                meta[r] = IF sid[r] = Nobody THEN Unnamed ELSE sid[r]
    /\ pc[r] = "drop" => members[r] = index

Indexed == \A t \in Requests : meta[t] # Nobody => t \in index
Opens == \A t \in Live : active \in {Nobody, SidOf(t)}

TurnInv ==
    /\ AuthInv
    /\ Alone
    /\ \A r \in Requests : TurnSound(r)
    /\ Indexed
    /\ SoleLogin
    /\ Opens

\* What a step of one request leaves alone of another.
Stays(o) ==
    /\ pc'[o] = pc[o] /\ token'[o] = token[o] /\ sid'[o] = sid[o] /\ locked'[o] = locked[o]
    /\ kill'[o] = kill[o] /\ members'[o] = members[o]
=============================================================================
