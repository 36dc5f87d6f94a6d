---------------------------- MODULE SessionHandoff ----------------------------
(***************************************************************************)
(* Who a tailoring session belongs to, and the tokens that hand its        *)
(* content, or a saved job description, to the desktop application.  A     *)
(* session is one document in Redis that every request reads and writes    *)
(* back whole; its first bearer claims it.  A token is a key of its own,   *)
(* taken with GETDEL behind a counter per client address.  The answer of a *)
(* request is sent before get_db commits.                                  *)
(***************************************************************************)
EXTENDS Integers, FiniteSets

CONSTANTS
    Users, Requests,
    Links,      \* handoff tokens ever minted
    Ops,        \* what clients send
    MaxTries,   \* redemptions of an address in a minute
    MaxEdits,   \* bound: edits of the session
    Overlap,    \* whether requests about the session run at the same time
    Faults,     \* whether a request may break off, and a COMMIT fail
    None

HandoffAssumption ==
    /\ MaxTries \in Nat \ {0} /\ MaxEdits \in Nat /\ Overlap \in BOOLEAN /\ Faults \in BOOLEAN
    /\ Ops \subseteq {"open", "edit", "mint", "save", "redeem"}
    /\ None \notin Users

VARIABLES
    doc,        \* the session in Redis: owner, number of its last edit, company intel
    told,       \* the user who was told first that the session is theirs
    edits,      \* edits of the session so far
    token,      \* the tokens
    saved,      \* the job description a token is for, "none" for the session's
    got,        \* how often each payload was handed out
    rate,       \* the counter of the address: attempts, and whether it will expire
    req         \* what each request is doing

vars == <<doc, told, edits, token, saved, got, rate, req>>

NoToken == [state |-> "unused", owner |-> None, draft |-> 0]
NoReq == [pc |-> "idle", op |-> None, user |-> None, copy |-> None, token |-> None]
About == {"open", "edit", "mint"}

\* new_session, with and without a bearer.
Init ==
    /\ doc \in [owner : Users \cup {None}, draft : {0}, intel : {FALSE}]
    /\ told = doc.owner
    /\ edits = 0
    /\ token = [t \in Links |-> NoToken]
    /\ saved = [t \in Links |-> "none"]
    /\ got = [t \in Links |-> 0]
    /\ rate = [count |-> 0, ends |-> FALSE]
    /\ req = [q \in Requests |-> NoReq]

-----------------------------------------------------------------------------
(***************************************************************************)
(* The session's document                                                  *)
(***************************************************************************)
Goto(q, pc) == req' = [req EXCEPT ![q].pc = pc]
Ends(q) == req' = [req EXCEPT ![q] = NoReq]

\* get_session: u is the bearer, None for a request without one.
Read(q, op, u) ==
    /\ op \in Ops \cap About /\ req[q] = NoReq
    /\ Overlap \/ \A o \in Requests : req[o].op \notin About
    /\ req' = [req EXCEPT ![q] = [NoReq EXCEPT !.pc = "resolve", !.op = op, !.user = u,
                                               !.copy = doc]]
    /\ UNCHANGED <<doc, told, edits, token, saved, got, rate>>

Refused(q) == req[q].copy.owner \notin {None, req[q].user}

Claims(q) == req[q].user # None /\ req[q].copy.owner = None

\* resolve_bearer_user_id, require_session_user: the first bearer claims the session.
Resolve(q) ==
    LET mine == [req[q].copy EXCEPT !.owner = req[q].user] IN
    /\ req[q].pc = "resolve" /\ req[q].op = "open"
    /\ IF req[q].user # None /\ Refused(q)
         THEN Ends(q) /\ UNCHANGED <<doc, told>>
         ELSE IF Claims(q)
           THEN /\ doc' = mine /\ told' = IF told = None THEN req[q].user ELSE told
                /\ req' = [req EXCEPT ![q].pc = "touch", ![q].copy = mine]
           ELSE Goto(q, "touch") /\ UNCHANGED <<doc, told>>
    /\ UNCHANGED <<edits, token, saved, got, rate>>

\* touch_session: the copy is written again for its time to live.
Touch(q) ==
    /\ req[q].pc = "touch"
    /\ doc' = req[q].copy /\ Ends(q)
    /\ UNCHANGED <<told, edits, token, saved, got, rate>>

\* save_tailored_edits, save_approved_metrics: the session's id is all they ask for.
Edit(q) ==
    /\ req[q].pc = "resolve" /\ req[q].op = "edit" /\ edits < MaxEdits
    /\ edits' = edits + 1
    /\ doc' = [req[q].copy EXCEPT !.draft = edits + 1]
    /\ Ends(q)
    /\ UNCHANGED <<told, token, saved, got, rate>>

\* assert_session_owned.
Owns(q) == req[q].user # None /\ req[q].copy.owner = req[q].user

\* create_flint_handoff, for a session with a tailored resume.
Own(q) ==
    /\ req[q].pc = "resolve" /\ req[q].op = "mint"
    /\ IF Owns(q) /\ req[q].copy.draft > 0 THEN Goto(q, "intel") ELSE Ends(q)
    /\ UNCHANGED <<doc, told, edits, token, saved, got, rate>>

\* ensure_session_company_intel: after the model's answer, the copy that was read before.
Intel(q) ==
    LET known == [req[q].copy EXCEPT !.intel = TRUE] IN
    /\ req[q].pc = "intel"
    /\ \/ /\ ~req[q].copy.intel /\ doc' = known
          /\ req' = [req EXCEPT ![q].pc = "mint", ![q].copy = known]
       \/ doc' = doc /\ Goto(q, "mint")
    /\ UNCHANGED <<told, edits, token, saved, got, rate>>

-----------------------------------------------------------------------------
(***************************************************************************)
(* Tokens                                                                 *)
(***************************************************************************)
Fresh == {t \in Links : token[t].state = "unused"}

\* build_handoff_payload.
Payload(copy) == [state |-> "live", owner |-> copy.owner, draft |-> copy.draft]

\* create_jd_handoff_token.
JdPayload(u) == [state |-> "live", owner |-> u, draft |-> 0]

\* create_handoff_token: redis_set_nx.
Mint(q) ==
    /\ req[q].pc = "mint" /\ req[q].op = "mint"
    /\ \E t \in Fresh : token' = [token EXCEPT ![t] = Payload(req[q].copy)]
    /\ Ends(q)
    /\ UNCHANGED <<doc, told, edits, saved, got, rate>>

\* save_job_description: flush, create_jd_handoff_token, the answer ...
SaveJd(q, u) ==
    /\ "save" \in Ops /\ req[q] = NoReq
    /\ \E t \in Fresh :
         /\ token' = [token EXCEPT ![t] = JdPayload(u)]
         /\ saved' = [saved EXCEPT ![t] = "flushed"]
         /\ req' = [req EXCEPT ![q] = [NoReq EXCEPT !.pc = "commit", !.op = "save", !.user = u,
                                                    !.token = t]]
    /\ UNCHANGED <<doc, told, edits, got, rate>>

\* ... and get_db.
CommitJd(q) ==
    /\ req[q].pc = "commit"
    /\ saved' = [saved EXCEPT ![req[q].token] = "committed"]
    /\ Ends(q)
    /\ UNCHANGED <<doc, told, edits, token, got, rate>>

\* redeem_handoff_token: INCR of the address's counter ...
Redeem(q, t) ==
    /\ "redeem" \in Ops /\ req[q] = NoReq /\ token[t].state # "unused"
    /\ rate' = [rate EXCEPT !.count = IF @ > MaxTries THEN @ ELSE @ + 1]
    /\ req' = [req EXCEPT ![q] =
                [NoReq EXCEPT !.op = "redeem", !.token = t,
                              !.pc = IF rate.count = 0 THEN "expire"
                                     ELSE IF rate.count >= MaxTries THEN "limited" ELSE "take"]]
    /\ UNCHANGED <<doc, told, edits, token, saved, got>>

\* ... EXPIRE for the one that found none ...
StartWindow(q) ==
    /\ req[q].pc = "expire"
    /\ rate' = [rate EXCEPT !.ends = TRUE] /\ Goto(q, "take")
    /\ UNCHANGED <<doc, told, edits, token, saved, got>>

Limited(q) ==
    /\ req[q].pc = "limited" /\ Ends(q)
    /\ UNCHANGED <<doc, told, edits, token, saved, got, rate>>

\* ... and GETDEL; its answer may be lost.
SpentKept(t) == token
Spent(t) == [token EXCEPT ![t].state = "spent"]

Take(q) ==
    LET t == req[q].token IN
    /\ req[q].pc = "take"
    /\ IF token[t].state = "live"
         THEN token' = Spent(t) /\ got' = [got EXCEPT ![t] = @ + 1]
         ELSE UNCHANGED <<token, got>>
    /\ Ends(q)
    /\ UNCHANGED <<doc, told, edits, saved, rate>>

\* FLINT_HANDOFF_TTL_SECONDS, and the minute of the counter.
TokenExpires(t) ==
    /\ token[t].state = "live" /\ token' = [token EXCEPT ![t].state = "expired"]
    /\ UNCHANGED <<doc, told, edits, saved, got, rate, req>>

WindowEnds ==
    /\ rate.ends /\ rate' = [count |-> 0, ends |-> FALSE]
    /\ UNCHANGED <<doc, told, edits, token, saved, got, req>>

\* A request is cut off; its transaction rolls back, what it told Redis stays.
BreaksOff(q) ==
    /\ Faults /\ req[q] # NoReq
    /\ saved' = IF req[q].pc = "commit" THEN [saved EXCEPT ![req[q].token] = "lost"] ELSE saved
    /\ Ends(q)
    /\ UNCHANGED <<doc, told, edits, token, got, rate>>

Next ==
    \/ \E q \in Requests :
         \/ \E u \in Users \cup {None}, op \in About : Read(q, op, u)
         \/ \E u \in Users : SaveJd(q, u)
         \/ \E t \in Links : Redeem(q, t)
         \/ Resolve(q) \/ Touch(q) \/ Edit(q) \/ Own(q) \/ Intel(q) \/ Mint(q) \/ CommitJd(q)
         \/ StartWindow(q) \/ Limited(q) \/ Take(q) \/ BreaksOff(q)
    \/ \E t \in Links : TokenExpires(t)
    \/ WindowEnds

-----------------------------------------------------------------------------
TypeOK ==
    /\ doc \in [owner : Users \cup {None}, draft : 0 .. MaxEdits, intel : BOOLEAN]
    /\ told \in Users \cup {None} /\ edits \in 0 .. MaxEdits
    /\ token \in [Links -> [state : {"unused", "live", "spent", "expired"},
                             owner : Users \cup {None}, draft : 0 .. MaxEdits]]
    /\ saved \in [Links -> {"none", "flushed", "committed", "lost"}]
    /\ got \in [Links -> Nat] /\ rate \in [count : 0 .. MaxTries + 1, ends : BOOLEAN]

(***************************************************************************)
(* While requests about the session come one at a time                     *)
(***************************************************************************)
\* The session stays with the user who was told that it is theirs
\* (session_ownership.py 3-4), and no edit is undone.
OwnerKept == told # None => doc.owner = told
EditKept == doc.draft = edits

\* A token of the session holds the work of its owner, as of some edit of theirs.
TokenIsOwners ==
    \A t \in Links : token[t].state # "unused" /\ saved[t] = "none" =>
        token[t].owner = told /\ token[t].draft \in 1 .. edits

(***************************************************************************)
(* Whatever overlaps                                                       *)
(***************************************************************************)
\* A payload is handed out once (flint_handoff.py 151-157).
RedeemedOnce == \A t \in Links : got[t] <= 1

\* An address that was counted is let in again some day: the counter ends, or the request
\* that will see to it is under way (flint_handoff.py 140-149).
CounterEnds == rate.count > 0 => rate.ends \/ \E q \in Requests : req[q].pc = "expire"

(***************************************************************************)
(* What the claims rest on                                                 *)
(***************************************************************************)
Docs == [owner : Users \cup {None}, draft : 0 .. MaxEdits, intel : BOOLEAN]
Working == {"resolve", "touch", "intel", "mint"}
Handling == {"commit", "expire", "limited", "take"}

Shapes ==
    [pc : {"idle"} \cup Working \cup Handling, op : {None} \cup About \cup {"save", "redeem"},
     user : Users \cup {None}, copy : Docs \cup {None}, token : Links \cup {None}]

Fits(r) ==
    /\ r \in Shapes
    /\ r.pc \in Working => r.op \in About /\ r.copy \in Docs
    /\ r.pc \in Handling => r.op \in Ops \ About /\ r.token \in Links

Typed == TypeOK /\ req \in [Requests -> Shapes] /\ \A q \in Requests : Fits(req[q])

\* A payload that was handed out is gone for good.
Counted == \A t \in Links : got[t] = IF token[t].state = "spent" THEN 1 ELSE 0

HandInv == Typed /\ Counted /\ (~Faults => CounterEnds)

\* One request at a time is about the session, its copy is the session, and who may mint
\* is the owner of a session with an edit in it.
TurnInv ==
    /\ doc.owner = told /\ EditKept
    /\ \A p, q \in Requests : req[p].pc \in Working /\ req[q].pc \in Working => p = q
    /\ \A q \in Requests :
         /\ req[q].pc \in Working => req[q].copy = doc
         /\ req[q].pc \in {"intel", "mint"} => told # None /\ edits > 0
         /\ req[q].pc = "commit" => saved[req[q].token] # "none"
    /\ \A t \in Links : token[t].state # "unused" /\ saved[t] = "none" =>
         /\ told # None /\ token[t].owner = told
         /\ token[t].draft \in 1 .. edits

(***************************************************************************)
(* Claims the code does not keep                                           *)
(***************************************************************************)
\* "callers either get back both a persisted JD AND a working token, or neither"
\* (job_descriptions.py 234-235): the answer comes before the commit.
BothOrNeither == \A t \in Links : saved[t] # "none" => saved[t] = "committed"
=============================================================================
