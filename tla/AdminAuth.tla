------------------------------- MODULE AdminAuth -------------------------------
(***************************************************************************)
(* The second factor of an administrator and the sessions it opens.  The   *)
(* row of the administrator is in the database, where a verification locks *)
(* it; the sessions and the index of an administrator's sessions are in    *)
(* the session store, where nothing is locked and what a request has       *)
(* written stays when its transaction does not commit.                     *)
(***************************************************************************)
EXTENDS Integers, FiniteSets

CONSTANTS
    Admins,
    Logins,     \* requests that verify a second factor
    Calls,      \* requests that present a session
    Sids,       \* session ids
    Slots,      \* the recovery codes of one enrolment
    Batches,    \* bound: sets of recovery codes that may be generated
    Nobody,
    MaxCrashes  \* bound: transactions that do not commit after their work is done

\* What the modules that instantiate this one assume of its constants.
AdminAuthAssumption ==
    /\ Nobody \notin Admins \cup Logins \cup Sids
    /\ Batches \in Nat /\ MaxCrashes \in Nat

Codes == (1 .. Batches) \X Slots

VARIABLES
    secret,     \* admin_users: a TOTP secret is stored
    codes,      \* admin_users: the recovery codes stored
    lock,       \* who has locked the row
    live,       \* session records of the store
    owner,      \* whose session a session id is
    index,      \* admin_session_index of each administrator
    audited,    \* sessions whose admin_login row is committed
    shown,      \* recovery codes the administrator was given
    spent,      \* each recovery code's committed uses
    ended,      \* sessions that a later login, a logout or idleness has revoked
    minted,     \* sets of codes generated
    login, call, crashes

account == <<secret, codes>>
store == <<live, owner, index>>
ghosts == <<audited, shown, spent>>
vars == <<account, lock, store, ghosts, ended, minted, login, call, crashes>>

NoLogin == [pc |-> "idle", admin |-> Nobody, code |-> <<>>, codes |-> {},
            fresh |-> {}, found |-> {}, sid |-> Nobody]
NoCall == [pc |-> "idle", sid |-> Nobody, out |-> FALSE]

Init ==
    /\ secret = [a \in Admins |-> FALSE]
    /\ codes = [a \in Admins |-> {}]
    /\ lock = [a \in Admins |-> Nobody]
    /\ live = {}
    /\ owner = [s \in Sids |-> Nobody]
    /\ index = [a \in Admins |-> {}]
    /\ audited = {}
    /\ shown = [a \in Admins |-> {}]
    /\ spent = [c \in Codes |-> 0]
    /\ ended = {}
    /\ minted = 0
    /\ login = [r \in Logins |-> NoLogin]
    /\ call = [c \in Calls |-> NoCall]
    /\ crashes = 0

(***************************************************************************)
(* Enrolment and verification of the second factor                         *)
(***************************************************************************)
\* admin_enroll_totp: the second enrolment of a page returns the first one's secret.
Enroll(a) ==
    /\ lock[a] = Nobody /\ ~secret[a]
    /\ secret' = [secret EXCEPT ![a] = TRUE]
    /\ codes' = [codes EXCEPT ![a] = {}]
    /\ UNCHANGED <<lock, store, ghosts, ended, minted, login, call, crashes>>

\* with_for_update: another transaction has not locked the row.
Free(a) == lock[a] = Nobody

\* The recovery codes after _finalize_verify.
Finalize(stored, batch) ==
    IF stored = {} THEN {<<batch, s>> : s \in Slots} ELSE stored

\* The row is locked and read, and the one-time code is right.
VerifyTotp(r, a) ==
    LET after == Finalize(codes[a], minted + 1) IN
    /\ login[r].pc = "idle" /\ Free(a) /\ secret[a]
    /\ after # codes[a] => minted < Batches
    /\ lock' = [lock EXCEPT ![a] = r]
    /\ minted' = IF after # codes[a] THEN minted + 1 ELSE minted
    /\ login' = [login EXCEPT ![r] =
            [NoLogin EXCEPT !.pc = "verified", !.admin = a, !.codes = after,
                            !.fresh = after \ codes[a]]]
    /\ UNCHANGED <<account, store, ghosts, ended, call, crashes>>

\* A recovery code is taken out of the stored ones.
VerifyRecovery(r, a) ==
    /\ login[r].pc = "idle" /\ Free(a) /\ secret[a]
    /\ \E c \in codes[a] :
        login' = [login EXCEPT ![r] =
            [NoLogin EXCEPT !.pc = "verified", !.admin = a, !.code = c,
                            !.codes = codes[a] \ {c}]]
    /\ lock' = [lock EXCEPT ![a] = r]
    /\ UNCHANGED <<account, store, ghosts, ended, minted, call, crashes>>

(***************************************************************************)
(* revoke_all_admin_sessions, create_admin_session_token, get_db           *)
(***************************************************************************)
\* smembers
FindSessions(r) ==
    /\ login[r].pc = "verified"
    /\ login' = [login EXCEPT ![r].pc = "found", ![r].found = index[login[r].admin]]
    /\ UNCHANGED <<account, lock, store, ghosts, ended, minted, call, crashes>>

\* One pipeline deletes the records found and the index; without any, nothing is sent.
RevokeFound(r) ==
    /\ login[r].pc = "found"
    /\ live' = live \ login[r].found
    /\ ended' = ended \cup login[r].found
    /\ index' = IF login[r].found = {} THEN index
                ELSE [index EXCEPT ![login[r].admin] = {}]
    /\ login' = [login EXCEPT ![r].pc = "revoked"]
    /\ UNCHANGED <<account, lock, owner, ghosts, minted, call, crashes>>

OpenSession(r) ==
    LET a == login[r].admin IN
    /\ login[r].pc = "revoked"
    /\ \E s \in Sids :
        /\ owner[s] = Nobody
        /\ live' = live \cup {s}
        /\ owner' = [owner EXCEPT ![s] = a]
        /\ index' = [index EXCEPT ![a] = @ \cup {s}]
        /\ login' = [login EXCEPT ![r].pc = "opened", ![r].sid = s]
    /\ UNCHANGED <<account, lock, ghosts, ended, minted, call, crashes>>

Unlock(r) == lock' = [a \in Admins |-> IF lock[a] = r THEN Nobody ELSE lock[a]]

\* The answer with the token is sent, then get_db commits codes and audit row.
CommitLogin(r) ==
    LET a == login[r].admin
        c == login[r].code IN
    /\ login[r].pc = "opened"
    /\ codes' = [codes EXCEPT ![a] = login[r].codes]
    /\ audited' = audited \cup {login[r].sid}
    /\ shown' = [shown EXCEPT ![a] = @ \cup login[r].fresh]
    /\ spent' = IF c = <<>> THEN spent ELSE [spent EXCEPT ![c] = @ + 1]
    /\ Unlock(r)
    /\ login' = [login EXCEPT ![r] = NoLogin]
    /\ UNCHANGED <<secret, store, ended, minted, call, crashes>>

\* The transaction is lost: the session store keeps what it was told.
AbortLogin(r) ==
    /\ login[r].pc # "idle" /\ crashes < MaxCrashes
    /\ crashes' = crashes + 1
    /\ Unlock(r)
    /\ login' = [login EXCEPT ![r] = NoLogin]
    /\ UNCHANGED <<account, store, ghosts, ended, minted, call>>

(***************************************************************************)
(* decode_admin_session_token and logout                                   *)
(***************************************************************************)
\* The record is there and its addresses match; the request may be the logout.
Present(c, s) ==
    /\ call[c].pc = "idle" /\ s \in live
    /\ \E out \in BOOLEAN, pc \in {"fresh", "stale"} :
        call' = [call EXCEPT ![c] = [pc |-> pc, sid |-> s, out |-> out]]
    /\ UNCHANGED <<account, lock, store, ghosts, ended, minted, login, crashes>>

\* _touch_session_activity reads the record again; when it is gone the request goes on.
TouchRead(c) ==
    /\ call[c].pc = "fresh"
    /\ call' = [call EXCEPT ![c].pc = IF call[c].sid \in live THEN "touching" ELSE "let in"]
    /\ UNCHANGED <<account, lock, store, ghosts, ended, minted, login, crashes>>

\* setex writes the whole record.
TouchWrite(c) ==
    /\ call[c].pc = "touching"
    /\ live' = live \cup {call[c].sid}
    /\ call' = [call EXCEPT ![c].pc = "let in"]
    /\ UNCHANGED <<account, lock, owner, index, ghosts, ended, minted, login, crashes>>

Finish(c) ==
    /\ call[c].pc = "let in" /\ ~call[c].out
    /\ call' = [call EXCEPT ![c] = NoCall]
    /\ UNCHANGED <<account, lock, store, ghosts, ended, minted, login, crashes>>

\* revoke_admin_session, at the logout or when the session has been idle for too long
RevokeOne(c) ==
    /\ (call[c].pc = "stale" \/ (call[c].pc = "let in" /\ call[c].out))
    /\ live' = live \ {call[c].sid}
    /\ ended' = ended \cup {call[c].sid}
    /\ call' = [call EXCEPT ![c] = IF call[c].sid \in live THEN [@ EXCEPT !.pc = "unindex"]
                                   ELSE NoCall]
    /\ UNCHANGED <<account, lock, owner, index, ghosts, minted, login, crashes>>

Unindex(c) ==
    LET s == call[c].sid IN
    /\ call[c].pc = "unindex"
    /\ index' = [index EXCEPT ![owner[s]] = @ \ {s}]
    /\ call' = [call EXCEPT ![c] = NoCall]
    /\ UNCHANGED <<account, lock, live, owner, ghosts, ended, minted, login, crashes>>

\* The time to live of a record is over.
Expire(s) ==
    /\ s \in live
    /\ live' = live \ {s}
    /\ UNCHANGED <<account, lock, owner, index, ghosts, ended, minted, login, call, crashes>>

Next ==
    \/ \E a \in Admins : Enroll(a)
    \/ \E r \in Logins, a \in Admins : VerifyTotp(r, a) \/ VerifyRecovery(r, a)
    \/ \E r \in Logins : \/ FindSessions(r) \/ RevokeFound(r) \/ OpenSession(r)
                         \/ CommitLogin(r) \/ AbortLogin(r)
    \/ \E c \in Calls, s \in Sids : Present(c, s)
    \/ \E c \in Calls : \/ TouchRead(c) \/ TouchWrite(c) \/ Finish(c)
                        \/ RevokeOne(c) \/ Unindex(c)
    \/ \E s \in Sids : Expire(s)

Spec == Init /\ [][Next]_vars

(***************************************************************************)
(* What holds                                                              *)
(***************************************************************************)
TypeOK ==
    /\ secret \in [Admins -> BOOLEAN]
    /\ codes \in [Admins -> SUBSET Codes]
    /\ lock \in [Admins -> Logins \cup {Nobody}]
    /\ live \subseteq Sids /\ owner \in [Sids -> Admins \cup {Nobody}]
    /\ index \in [Admins -> SUBSET Sids]
    /\ audited \subseteq Sids /\ ended \subseteq Sids
    /\ shown \in [Admins -> SUBSET Codes] /\ spent \in [Codes -> Nat]
    /\ minted \in 0 .. Batches
    /\ \A r \in Logins :
        /\ login[r].pc \in {"idle", "verified", "found", "revoked", "opened"}
        /\ login[r].sid \in Sids \cup {Nobody}
    /\ \A c \in Calls :
        call[c].pc \in {"idle", "fresh", "stale", "touching", "let in", "unindex"}
    /\ crashes \in 0 .. MaxCrashes

\* The index leads to one session of an administrator, however many logins overlap: a
\* login that revokes what the index holds leaves no older session in it.
IndexSole == \A a \in Admins : Cardinality(index[a]) <= 1

\* No recovery code is used by two logins that committed, at once or later.
CodeOnce == \A c \in Codes : spent[c] <= 1

\* The codes an administrator was given and has not used are those that are stored: no
\* overlapping first verification replaces codes that were shown.
ShownCodesWork == \A a \in Admins : codes[a] = {c \in shown[a] : spent[c] = 0}

\* Where no request writes a record back, an administrator has one session: however
\* logins overlap or are cut off, the last one ended all earlier ones.
SoleSession ==
    \A a \in Admins : Cardinality({s \in live : owner[s] = a}) <= 1

(***************************************************************************)
(* What it rests on                                                        *)
(***************************************************************************)
Doings == [pc : {"idle", "verified", "found", "revoked", "opened"},
           admin : Admins \cup {Nobody}, code : Codes \cup {<<>>},
           codes : SUBSET Codes, fresh : SUBSET Codes,
           found : SUBSET Sids, sid : Sids \cup {Nobody}]

Typed ==
    /\ TypeOK
    /\ login \in [Logins -> Doings]
    /\ call \in [Calls -> [pc : {"idle", "fresh", "stale", "touching", "let in", "unindex"},
                           sid : Sids \cup {Nobody}, out : BOOLEAN]]

Active(r) == login[r].pc # "idle"

\* A login in progress is the one that has locked the row.
RowLocked ==
    /\ \A r \in Logins : Active(r) => login[r].admin \in Admins /\ secret[login[r].admin]
    /\ \A r \in Logins, a \in Admins : lock[a] = r <=> Active(r) /\ login[r].admin = a

\* A code was made for one administrator, and nobody has one of a set not generated.
CodesApart ==
    /\ \A a \in Admins : ~secret[a] => shown[a] = {}
    /\ \A a, b \in Admins : a # b => shown[a] \cap shown[b] = {}
    /\ \A a \in Admins : \A c \in shown[a] : c[1] <= minted
    /\ \A c \in Codes : c[1] > minted => spent[c] = 0

\* The codes a login will leave: all, one less, or the first ones.
Leaves(r) ==
    LET before == codes[login[r].admin] IN
    \/ login[r].code = <<>> /\ login[r].fresh = {} /\ login[r].codes = before
    \/ /\ login[r].code \in before /\ login[r].fresh = {}
       /\ login[r].codes = before \ {login[r].code}
    \/ /\ login[r].code = <<>> /\ before = {} /\ login[r].codes = login[r].fresh
       /\ \A c \in login[r].fresh :
            spent[c] = 0 /\ c[1] <= minted /\ \A b \in Admins : c \notin shown[b]

\* A session is someone's; the index has one at most, none once the older are revoked.
IndexKept ==
    /\ \A s \in live : owner[s] # Nobody
    /\ \A c \in Calls : call[c].pc # "idle" => call[c].sid \in Sids /\ owner[call[c].sid] # Nobody
    /\ \A a \in Admins : \A s, t \in index[a] : s = t
    /\ \A r \in Logins :
         /\ login[r].pc = "found" => index[login[r].admin] \subseteq login[r].found
         /\ login[r].pc = "revoked" => index[login[r].admin] = {}
         /\ login[r].pc = "opened" => login[r].sid \in Sids
    /\ Calls = {} => \A s \in live : s \in index[owner[s]]

AdminInv ==
    /\ Typed /\ RowLocked /\ CodesApart /\ ShownCodesWork /\ CodeOnce /\ IndexKept
    /\ \A r \in Logins : IF Active(r) THEN Leaves(r) ELSE login[r].fresh = {}
    /\ \A r, o \in Logins : r # o => login[r].fresh \cap login[o].fresh = {}

(***************************************************************************)
(* What does not hold                                                      *)
(***************************************************************************)
\* A session that a later login or a logout has revoked is not live again.
RevokedForGood == live \cap ended = {}

\* Every session that is open has its login in the audit trail, once its login is over.
OpenIsAudited ==
    \A s \in live : s \in audited \/ \E r \in Logins : login[r].sid = s
=============================================================================
