----------------------------- MODULE MCAccounts -----------------------------
(***************************************************************************)
(* Instances for TLC of signing up, of a user's second factor, of the      *)
(* tokens of a login, of logging in as an administrator, of closing an     *)
(* account, of handing a session over and of the administrators' desk,     *)
(* which share no state: a behaviour is about one of them, its scene, and  *)
(* the variables of the others rest at 0.                                  *)
(***************************************************************************)
EXTENDS Integers, Sequences, FiniteSets, TLC, TLAPS, FiniteSetTheorems

CONSTANTS
    Two,            \* users, or recovery codes of one batch
    Pair,           \* administrator logins, or scheduler runs
    Trio,           \* requests, or session ids
    Four,           \* requests
    One,            \* a further request
    Nobody, Unnamed

VARIABLES
    scene,
    \* AuthSessions
    row, parent, root, meta, authIndex, active, known, access, authPc, authOp,
    token, sid, locked, kill, members, authAnswer, authCrashes,
    \* AdminAuth
    secret, codes, lock, live, owner, adminIndex, audited, shown, spent, ended,
    minted, login, call, adminCrashes,
    \* AccountClosure
    now, gone, closing, closure, due, reminded, reminders, renews, attached,
    files, job, closePc, closeOp, user, closeAnswer, tpc, remind, batch, todo,
    current, dropped, failed, faults,
    \* SignUps
    person, visitor,
    \* SecondFactor
    factor, failures, guesses, told, proved, entered, client,
    \* SessionHandoff
    doc, claimant, edits, handoff, saved, got, rate, handReq,
    \* StaffDesk
    staff, linked, invite, ticket, opened, acted, thing, trail, time, staffReq, started

authVars == <<row, parent, root, meta, authIndex, active, known, access, authPc, authOp,
              token, sid, locked, kill, members, authAnswer, authCrashes>>
adminVars == <<secret, codes, lock, live, owner, adminIndex, audited, shown, spent, ended,
               minted, login, call, adminCrashes>>
closeVars == <<now, gone, closing, closure, due, reminded, reminders, renews, attached,
               files, job, closePc, closeOp, user, closeAnswer, tpc, remind, batch, todo,
               current, dropped, failed, faults>>
signVars == <<person, visitor>>
factorVars == <<factor, failures, guesses, told, proved, entered, client>>
handVars == <<doc, claimant, edits, handoff, saved, got, rate, handReq>>
staffVars == <<staff, linked, invite, ticket, opened, acted, thing, trail, time, staffReq,
               started>>
vars == <<scene, authVars, adminVars, closeVars, signVars, factorVars, handVars, staffVars>>

(***************************************************************************)
(* The instances.  Those a part has several scenes of take their constants *)
(* from a record: requests with the tokens of a login that overlap (Crowd) *)
(* or come one at a time (Queue); administrators who log in, without or    *)
(* with requests that present their sessions; requests about a session,    *)
(* tokens that are redeemed while they are minted, and such requests that  *)
(* are cut off.                                                            *)
(***************************************************************************)
Crowd == [requests |-> Trio, overlap |-> TRUE, crashes |-> 1]
Queue == [requests |-> Trio \cup One, overlap |-> FALSE, crashes |-> 2]
LoggingIn == [admins |-> {"admin"}, calls |-> {}, sids |-> Trio, batches |-> 2, crashes |-> 1]
Calling == [admins |-> {"admin"}, calls |-> {"first", "second"}, sids |-> Pair, batches |-> 1,
            crashes |-> 0]
HandInTurn == [users |-> Two, requests |-> Pair, links |-> Trio, ops |-> {"open", "edit", "mint"},
               tries |-> 1, edits |-> 3, overlap |-> FALSE, faults |-> FALSE]
Redeeming == [users |-> {"user"}, requests |-> Trio, links |-> Pair, ops |-> {"save", "redeem"},
              tries |-> 2, edits |-> 0, overlap |-> TRUE, faults |-> FALSE]
CutOff == [users |-> {"user"}, requests |-> Pair, links |-> Two, ops |-> {"save", "redeem"},
           tries |-> 2, edits |-> 0, overlap |-> TRUE, faults |-> TRUE]

Leaving == [ops |-> {"close", "cancel", "upload", "export"}, grace |-> 2, notice |-> 1,
            days |-> 3, faults |-> 1]

\* An address and its alias, registered by hand and through a provider at once; more
\* mailboxes than one device may register in a day.
SignIns == [addresses |-> {"name@", "na.me@"},
            mailbox |-> [a \in {"name@", "na.me@"} |-> "name@"],
            subjects |-> {"subject"}, devices |-> {"device"}, perIp |-> 3, perDevice |-> 2,
            shared |-> 4, cluster |-> 2, ops |-> {"register", "callback"}, overlap |-> TRUE]
SignInsInTurn == [addresses |-> {"a@", "b@", "c@"}, mailbox |-> [a \in {"a@", "b@", "c@"} |-> a],
                  subjects |-> {"subject"}, devices |-> {"device"}, perIp |-> 3,
                  perDevice |-> 2, shared |-> 4, cluster |-> 2,
                  ops |-> {"register", "callback", "confirm", "cleanup"}, overlap |-> FALSE]

Tokens(cfg) == INSTANCE AuthSessions WITH
    Requests <- cfg.requests, Overlap <- cfg.overlap, MaxCrashes <- cfg.crashes,
    Ops <- {"login", "refresh", "logout", "logoutAll", "reset", "revoke"},
    index <- authIndex, pc <- authPc, op <- authOp, answer <- authAnswer,
    crashes <- authCrashes

Admin(cfg) == INSTANCE AdminAuth WITH
    Admins <- cfg.admins, Logins <- Pair, Calls <- cfg.calls, Sids <- cfg.sids, Slots <- Two,
    Batches <- cfg.batches, MaxCrashes <- cfg.crashes, index <- adminIndex,
    crashes <- adminCrashes

Closures(cfg) == INSTANCE AccountClosure WITH
    Users <- Two, Requests <- Trio, Ticks <- Pair, Ops <- cfg.ops, Grace <- cfg.grace,
    Notice <- cfg.notice, MaxTime <- cfg.days, MaxFaults <- cfg.faults,
    pc <- closePc, op <- closeOp, answer <- closeAnswer

Signs(cfg) == INSTANCE SignUps WITH
    Requests <- Trio, Addresses <- cfg.addresses, Canonical <- cfg.mailbox,
    Subjects <- cfg.subjects, Devices <- cfg.devices, NoRow <- Nobody,
    IpLimit <- cfg.perIp, DeviceLimit <- cfg.perDevice, Collisions <- cfg.shared,
    Cluster <- cfg.cluster, Ops <- cfg.ops, Overlap <- cfg.overlap

FactorOps == {"login", "verify", "enroll", "confirm", "disable"}

Factor == INSTANCE SecondFactor WITH
    Requests <- Four, Slots <- Two, Threshold <- 2, None <- Nobody,
    Ops <- FactorOps, Overlap <- FALSE, row <- factor

Handoffs(cfg) == INSTANCE SessionHandoff WITH
    Users <- cfg.users, Requests <- cfg.requests, Links <- cfg.links, Ops <- cfg.ops,
    MaxTries <- cfg.tries, MaxEdits <- cfg.edits, Overlap <- cfg.overlap,
    Faults <- cfg.faults, None <- Nobody, told <- claimant, token <- handoff, req <- handReq

\* Starts of the service with two addresses in their environments, and first logins.
Founding ==
    [staff |-> {"a", "b"}, fromEnv |-> {"a", "b"}, ready |-> {}, passwords |-> {"env", "own"},
     flags |-> {}, banners |-> {}, users |-> {}, mails |-> {"anon"},
     bucket |-> [m \in {"anon"} |-> 0], full |-> 2, invites |-> 0, changes |-> 1,
     ops |-> {"start", "login"}, overlap |-> TRUE, faults |-> TRUE]

\* Invitations of one address that are accepted at once.
Inviting ==
    [staff |-> {"a", "b"}, fromEnv |-> {}, ready |-> {"a"}, passwords |-> {"env", "own"},
     flags |-> {}, banners |-> {}, users |-> {}, mails |-> {"anon"},
     bucket |-> [m \in {"anon"} |-> 0], full |-> 2, invites |-> 2, changes |-> 1,
     ops |-> {"invite"}, overlap |-> TRUE, faults |-> TRUE]

\* Who accepted one logs in, one request at a time.
InvitingInTurn ==
    [Inviting EXCEPT !.invites = 1, !.ops = {"invite", "login"},
                     !.overlap = FALSE, !.faults = FALSE]

\* A flag, an announcement and a user whom two requests change at once.
Desk ==
    [staff |-> {"a"}, fromEnv |-> {}, ready |-> {"a"}, passwords |-> {"env"},
     flags |-> {"f"}, banners |-> {"b"}, users |-> {"u"}, mails |-> {"anon", "v", "w"},
     bucket |-> [m \in {"anon", "v", "w"} |-> IF m = "v" THEN 0 ELSE 1], full |-> 2,
     invites |-> 0, changes |-> 3, ops |-> {"flag", "banner", "user"},
     overlap |-> TRUE, faults |-> TRUE]

Office(cfg) == INSTANCE StaffDesk WITH
    Requests <- Pair, Staff <- cfg.staff, FromEnv <- cfg.fromEnv, Ready <- cfg.ready,
    Passwords <- cfg.passwords, Initial <- "env", Flags <- cfg.flags,
    Banners <- cfg.banners, Users <- cfg.users, Mails <- cfg.mails, Anon <- "anon",
    Bucket <- cfg.bucket, Full <- cfg.full, MaxInvites <- cfg.invites,
    MaxTime <- cfg.changes, Ops <- cfg.ops, Overlap <- cfg.overlap, Faults <- cfg.faults,
    open <- opened, row <- thing, now <- time, req <- staffReq

ASSUME AccountsAssumption ==
    /\ Tokens(Crowd)!AuthAssumption /\ Tokens(Queue)!AuthAssumption
    /\ Admin(LoggingIn)!AdminAuthAssumption /\ Admin(Calling)!AdminAuthAssumption
    /\ Closures(Leaving)!ClosureAssumption
    /\ IsFiniteSet(Trio)
    /\ Signs(SignIns)!SignUpAssumption /\ Signs(SignInsInTurn)!SignUpAssumption
    /\ IsFiniteSet(Four) /\ Factor!FactorAssumption
    /\ Handoffs(HandInTurn)!HandoffAssumption /\ Handoffs(Redeeming)!HandoffAssumption
    /\ Handoffs(CutOff)!HandoffAssumption
    /\ Office(Founding)!StaffAssumption /\ Office(Inviting)!StaffAssumption
    /\ Office(InvitingInTurn)!StaffAssumption /\ Office(Desk)!StaffAssumption

-----------------------------------------------------------------------------
AuthRests ==
    /\ row = 0 /\ parent = 0 /\ root = 0 /\ meta = 0 /\ authIndex = 0 /\ active = 0
    /\ known = 0 /\ access = 0 /\ authPc = 0 /\ authOp = 0 /\ token = 0 /\ sid = 0
    /\ locked = 0 /\ kill = 0 /\ members = 0 /\ authAnswer = 0 /\ authCrashes = 0

AdminRests ==
    /\ secret = 0 /\ codes = 0 /\ lock = 0 /\ live = 0 /\ owner = 0 /\ adminIndex = 0
    /\ audited = 0 /\ shown = 0 /\ spent = 0 /\ ended = 0 /\ minted = 0 /\ login = 0
    /\ call = 0 /\ adminCrashes = 0

CloseRests ==
    /\ now = 0 /\ gone = 0 /\ closing = 0 /\ closure = 0 /\ due = 0 /\ reminded = 0
    /\ reminders = 0 /\ renews = 0 /\ attached = 0 /\ files = 0 /\ job = 0 /\ closePc = 0
    /\ closeOp = 0 /\ user = 0 /\ closeAnswer = 0 /\ tpc = 0 /\ remind = 0 /\ batch = 0
    /\ todo = 0 /\ current = 0 /\ dropped = 0 /\ failed = 0 /\ faults = 0

SignRests == person = 0 /\ visitor = 0

FactorRests ==
    /\ factor = 0 /\ failures = 0 /\ guesses = 0 /\ told = 0 /\ proved = 0 /\ entered = 0
    /\ client = 0

HandRests ==
    /\ doc = 0 /\ claimant = 0 /\ edits = 0 /\ handoff = 0 /\ saved = 0 /\ got = 0 /\ rate = 0
    /\ handReq = 0

StaffRests ==
    /\ staff = 0 /\ linked = 0 /\ invite = 0 /\ ticket = 0 /\ opened = 0 /\ acted = 0
    /\ thing = 0 /\ trail = 0 /\ time = 0 /\ staffReq = 0 /\ started = 0

AuthScene == AdminRests /\ CloseRests /\ SignRests /\ FactorRests /\ HandRests /\ StaffRests
AdminScene == AuthRests /\ CloseRests /\ SignRests /\ FactorRests /\ HandRests /\ StaffRests
CloseScene == AuthRests /\ AdminRests /\ SignRests /\ FactorRests /\ HandRests /\ StaffRests
SignScene == AuthRests /\ AdminRests /\ CloseRests /\ FactorRests /\ HandRests /\ StaffRests
FactorScene == AuthRests /\ AdminRests /\ CloseRests /\ SignRests /\ HandRests /\ StaffRests
HandScene == AuthRests /\ AdminRests /\ CloseRests /\ SignRests /\ FactorRests /\ StaffRests
StaffScene ==
    AuthRests /\ AdminRests /\ CloseRests /\ SignRests /\ FactorRests /\ HandRests

Init ==
    \/ scene = "tokens" /\ Tokens(Crowd)!Init /\ AuthScene
    \/ scene = "tokens in turn" /\ Tokens(Queue)!Init /\ AuthScene
    \/ scene = "admin logins" /\ Admin(LoggingIn)!Init /\ AdminScene
    \/ scene = "admin calls" /\ Admin(Calling)!Init /\ AdminScene
    \/ scene = "closures" /\ Closures(Leaving)!Init /\ CloseScene
    \/ scene = "sign-ups" /\ Signs(SignIns)!Init /\ SignScene
    \/ scene = "sign-ups in turn" /\ Signs(SignInsInTurn)!Init /\ SignScene
    \/ scene = "factor" /\ Factor!Init /\ FactorScene
    \/ scene = "handoffs in turn" /\ Handoffs(HandInTurn)!Init /\ HandScene
    \/ scene = "handoffs" /\ Handoffs(Redeeming)!Init /\ HandScene
    \/ scene = "handoffs cut off" /\ Handoffs(CutOff)!Init /\ HandScene
    \/ scene = "founding" /\ Office(Founding)!Init /\ StaffScene
    \/ scene = "inviting" /\ Office(Inviting)!Init /\ StaffScene
    \/ scene = "inviting in turn" /\ Office(InvitingInTurn)!Init /\ StaffScene
    \/ scene = "desk" /\ Office(Desk)!Init /\ StaffScene

Next ==
    /\ UNCHANGED scene
    /\ \/ /\ UNCHANGED <<adminVars, closeVars, signVars, factorVars, handVars, staffVars>>
          /\ \/ scene = "tokens" /\ Tokens(Crowd)!Next
             \/ scene = "tokens in turn" /\ Tokens(Queue)!Next
       \/ /\ UNCHANGED <<authVars, closeVars, signVars, factorVars, handVars, staffVars>>
          /\ \/ scene = "admin logins" /\ Admin(LoggingIn)!Next
             \/ scene = "admin calls" /\ Admin(Calling)!Next
       \/ /\ UNCHANGED <<authVars, adminVars, signVars, factorVars, handVars, staffVars>>
          /\ scene = "closures" /\ Closures(Leaving)!Next
       \/ /\ UNCHANGED <<authVars, adminVars, closeVars, factorVars, handVars, staffVars>>
          /\ \/ scene = "sign-ups" /\ Signs(SignIns)!Next
             \/ scene = "sign-ups in turn" /\ Signs(SignInsInTurn)!Next
       \/ /\ UNCHANGED <<authVars, adminVars, closeVars, signVars, handVars, staffVars>>
          /\ scene = "factor" /\ Factor!Next
       \/ /\ UNCHANGED <<authVars, adminVars, closeVars, signVars, factorVars, staffVars>>
          /\ \/ scene = "handoffs in turn" /\ Handoffs(HandInTurn)!Next
             \/ scene = "handoffs" /\ Handoffs(Redeeming)!Next
             \/ scene = "handoffs cut off" /\ Handoffs(CutOff)!Next
       \/ /\ UNCHANGED <<authVars, adminVars, closeVars, signVars, factorVars, handVars>>
          /\ \/ scene = "founding" /\ Office(Founding)!Next
             \/ scene = "inviting" /\ Office(Inviting)!Next
             \/ scene = "inviting in turn" /\ Office(InvitingInTurn)!Next
             \/ scene = "desk" /\ Office(Desk)!Next

Spec == Init /\ [][Next]_vars

Symmetry ==
    Permutations(Two) \cup Permutations(Pair) \cup Permutations(Trio)

-----------------------------------------------------------------------------
\* A refresh token is exchanged for one other however many refreshes overlap, and only a
\* password reset and a login deadlock; while requests come one at a time there is one
\* login whose tokens live, and they open a session, cut off or not (auth/tokens.py).
\* The codes an administrator was shown are the ones that work, each of them once, and
\* overlapping logins leave one session open, except that a request which is being let
\* in may write a revoked record back: then the index still names one
\* (admin_auth/totp.py, admin_auth/tokens.py).  While requests come one at a time, a user's
\* second factor was confirmed, a recovery code opens one session, and no more passwords
\* are tried than the lockout allows (routers/auth.py 377-421, 1298-1484).
LoginsSound ==
    /\ scene = "tokens" =>
          Tokens(Crowd)!TypeOK /\ Tokens(Crowd)!OneChild /\ Tokens(Crowd)!DeadlockIsReset
    /\ scene = "tokens in turn" =>
          Tokens(Queue)!TypeOK /\ Tokens(Queue)!SoleLogin /\ Tokens(Queue)!LiveOpens
    /\ scene = "admin logins" =>
          /\ Admin(LoggingIn)!TypeOK
          /\ Admin(LoggingIn)!ShownCodesWork /\ Admin(LoggingIn)!CodeOnce
          /\ Admin(LoggingIn)!SoleSession /\ Admin(LoggingIn)!IndexSole
    /\ scene = "admin calls" =>
          /\ Admin(Calling)!TypeOK
          /\ Admin(Calling)!ShownCodesWork /\ Admin(Calling)!CodeOnce /\ Admin(Calling)!IndexSole
    /\ scene = "factor" =>
          /\ Factor!TypeOK
          /\ Factor!Confirmed /\ Factor!CodesOnce /\ Factor!GuessesBounded

\* While requests about a session come one at a time, it stays with its first bearer and
\* its tokens carry that user's work; however redemptions overlap, a payload is handed out
\* once, and unless one is cut off the address that was counted is let in again
\* (session_ownership.py 1-5, flint_handoff.py 92-180).
HandoffsSound ==
    /\ scene = "handoffs in turn" =>
          /\ Handoffs(HandInTurn)!TypeOK
          /\ Handoffs(HandInTurn)!OwnerKept /\ Handoffs(HandInTurn)!EditKept
          /\ Handoffs(HandInTurn)!TokenIsOwners
    /\ scene = "handoffs" =>
          /\ Handoffs(Redeeming)!TypeOK
          /\ Handoffs(Redeeming)!RedeemedOnce /\ Handoffs(Redeeming)!CounterEnds
    /\ scene = "handoffs cut off" => Handoffs(CutOff)!TypeOK /\ Handoffs(CutOff)!RedeemedOnce

\* However many ticks overlap or are cut off, an account is reminded once, and it is
\* deleted only while its closure is open and due (export/closure.py 94-240); nor does the
\* clean-up suspend, while requests come one at a time, who has verified the address
\* (auth/maintenance.py 36-95), nor a larger share of the buckets switch a flag off for
\* anybody (public_config.py 46-69).
ClosuresSound ==
    [][/\ scene = "closures" =>
             /\ Closures(Leaving)!TypeOK' /\ (\A u \in Two : reminders'[u] <= 1)
             /\ Closures(Leaving)!DueIfGone
       /\ scene = "sign-ups in turn" => Signs(SignInsInTurn)!SuspendedUnverified
       /\ scene = "desk" => Office(Desk)!RolloutGrows]_vars

\* However registrations and sign-ins with a provider overlap, a mailbox has one account,
\* whatever alias it is written with; while requests come one at a time an identity at a
\* provider has one account, no device signs up more often in a day than allowed, and the
\* sign-up that makes it a cluster is flagged (routers/auth.py 476-905,
\* signup_rate_limit.py 57-86, signup_link_analysis.py 30-60).
SignUpsSound ==
    /\ scene = "sign-ups" => Signs(SignIns)!TypeOK /\ Signs(SignIns)!OneAccount
    /\ scene = "sign-ups in turn" =>
          /\ Signs(SignInsInTurn)!TypeOK /\ Signs(SignInsInTurn)!OneAccount
          /\ Signs(SignInsInTurn)!OneIdentity /\ Signs(SignInsInTurn)!DevicesCounted

\* However starts of the service overlap or fail, one of them creates an administrator;
\* however invitations overlap, an administrator has taken one of them; the gate lets
\* through only who has confirmed a second factor and replaced the first password; the
\* audit trail ends at what is so of flags and announcements (bootstrap.py, admin.py 458-514,
\* 1382-1781).
StaffSound ==
    /\ scene = "founding" =>
          /\ Office(Founding)!TypeOK
          /\ Office(Founding)!OneFounder /\ Office(Founding)!ActorsReady
    /\ scene = "inviting" => Office(Inviting)!TypeOK /\ Office(Inviting)!InvitedOnce
    /\ scene = "inviting in turn" =>
          /\ Office(InvitingInTurn)!TypeOK
          /\ Office(InvitingInTurn)!InvitedOnce /\ Office(InvitingInTurn)!ActorsReady
    /\ scene = "desk" => Office(Desk)!TypeOK /\ Office(Desk)!TrailTrue

-----------------------------------------------------------------------------
(***************************************************************************)
(* The tokens of a login: AuthSessions, for any set of requests.           *)
(***************************************************************************)
\* The initial states satisfy the invariant.
LEMMA AuthStart ==
    ASSUME NEW cfg, Tokens(cfg)!AuthAssumption, Tokens(cfg)!Init
    PROVE  Tokens(cfg)!AuthInv
<1> USE DEF Tokens!AuthAssumption, Tokens!Init
<1>1. Tokens(cfg)!TypeOK
    BY DEF Tokens!TypeOK, Tokens!Labels, Tokens!Answers
<1>2. ASSUME NEW r \in cfg.requests
      PROVE  Tokens(cfg)!RequestSound(r) /\ Tokens(cfg)!RowSound(r)
  <2>1. authOp[r] \in Tokens(cfg)!OpsAt(authPc[r])
    BY DEF Tokens!OpsAt
  <2> QED BY <2>1 DEF Tokens!RequestSound, Tokens!RowSound, Tokens!Unstarted
<1>3. Tokens(cfg)!LocksApart /\ Tokens(cfg)!OneChild
    BY DEF Tokens!LocksApart, Tokens!OneChild
<1> QED BY <1>1, <1>2, <1>3 DEF Tokens!AuthInv

\* Every step keeps the types.
LEMMA AuthTypes ==
    ASSUME NEW cfg, Tokens(cfg)!AuthAssumption, Tokens(cfg)!AuthInv,
           [Tokens(cfg)!Next]_(Tokens(cfg)!vars)
    PROVE  Tokens(cfg)!TypeOK'
<1> USE DEF Tokens!AuthAssumption, Tokens!Labels, Tokens!Answers, Tokens!Goto,
      Tokens!db, Tokens!redis, Tokens!client, Tokens!request
<1>0. Tokens(cfg)!TypeOK /\ \A r \in cfg.requests : Tokens(cfg)!RequestSound(r)
    BY DEF Tokens!AuthInv
<1>1. ASSUME NEW r \in cfg.requests, NEW a \in Tokens(cfg)!Answers, Tokens(cfg)!Respond(r, a),
             UNCHANGED <<Tokens(cfg)!db, Tokens(cfg)!redis, Tokens(cfg)!client>>,
             authCrashes' \in 0 .. cfg.crashes
      PROVE  Tokens(cfg)!TypeOK'
    BY <1>0, <1>1 DEF Tokens!TypeOK, Tokens!Respond
<1>2. ASSUME NEW r \in cfg.requests, Tokens(cfg)!Begin(r) PROVE Tokens(cfg)!TypeOK'
  <2>1. Tokens(cfg)!Presented(r) \subseteq cfg.requests \cup {Nobody}
        /\ Tokens(cfg)!First(r) \in Tokens(cfg)!Labels
    BY <1>0 DEF Tokens!TypeOK, Tokens!Presented, Tokens!First
  <2> QED BY <1>0, <1>2, <2>1 DEF Tokens!TypeOK, Tokens!Begin
<1>3. ASSUME NEW r \in cfg.requests, Tokens(cfg)!Password(r) \/ Tokens(cfg)!Touch(r)
      \/ Tokens(cfg)!Clear(r) \/ Tokens(cfg)!SetActive(r)
      PROVE  Tokens(cfg)!TypeOK'
    BY <1>0, <1>3 DEF Tokens!TypeOK, Tokens!Password, Tokens!Touch, Tokens!Clear, Tokens!SetActive
<1>4. ASSUME NEW r \in cfg.requests, Tokens(cfg)!Resolve(r) PROVE Tokens(cfg)!TypeOK'
    BY <1>0, <1>4 DEF Tokens!TypeOK, Tokens!Resolve, Tokens!SidOf
<1>5. ASSUME NEW r \in cfg.requests, Tokens(cfg)!Rotate(r) \/ Tokens(cfg)!RotateReused(r)
      PROVE  Tokens(cfg)!TypeOK'
  <2>1. token[r] \in cfg.requests
    BY <1>0, <1>5
       DEF Tokens!TypeOK, Tokens!Rotate, Tokens!RotateReused, Tokens!RequestSound, Tokens!OpsAt
  <2> QED BY <1>0, <1>5, <2>1 DEF Tokens!TypeOK, Tokens!Rotate, Tokens!RotateReused
<1>6. ASSUME NEW r \in cfg.requests, Tokens(cfg)!RotateUnknown(r) \/ Tokens(cfg)!RotateReplaced(r)
      PROVE  Tokens(cfg)!TypeOK'
    BY <1>0, <1>1, <1>6 DEF Tokens!TypeOK, Tokens!RotateUnknown, Tokens!RotateReplaced
<1>7. ASSUME NEW r \in cfg.requests, Tokens(cfg)!Kill(r) PROVE Tokens(cfg)!TypeOK'
    BY <1>0, <1>7 DEF Tokens!TypeOK, Tokens!Kill, Tokens!Live
<1>8. ASSUME NEW r \in cfg.requests, Tokens(cfg)!CommitReuse(r) PROVE Tokens(cfg)!TypeOK'
    BY <1>0, <1>8 DEF Tokens!TypeOK, Tokens!CommitReuse
<1>9. ASSUME NEW r \in cfg.requests, Tokens(cfg)!Members(r) \/ Tokens(cfg)!Drop(r)
      PROVE  Tokens(cfg)!TypeOK'
  <2>1. Tokens(cfg)!AfterDrop(r) \in Tokens(cfg)!Labels
    BY DEF Tokens!AfterDrop
  <2> QED BY <1>0, <1>9, <2>1 DEF Tokens!TypeOK, Tokens!Members, Tokens!Drop
<1>10. ASSUME NEW r \in cfg.requests, Tokens(cfg)!RevokeOne(r) PROVE Tokens(cfg)!TypeOK'
    BY <1>0, <1>10 DEF Tokens!TypeOK, Tokens!RevokeOne, Tokens!Live
<1>11. ASSUME NEW r \in cfg.requests, Tokens(cfg)!Unbind(r) PROVE Tokens(cfg)!TypeOK'
    BY <1>0, <1>11 DEF Tokens!TypeOK, Tokens!Unbind
<1>12. ASSUME NEW r \in cfg.requests, Tokens(cfg)!Bind(r) PROVE Tokens(cfg)!TypeOK'
    BY <1>0, <1>12 DEF Tokens!TypeOK, Tokens!Bind, Tokens!Sid
<1>13. ASSUME NEW r \in cfg.requests, Tokens(cfg)!Answer(r) PROVE Tokens(cfg)!TypeOK'
    BY <1>0, <1>13 DEF Tokens!TypeOK, Tokens!Answer, Tokens!Sid
<1>14. ASSUME NEW r \in cfg.requests, Tokens(cfg)!Commit(r) PROVE Tokens(cfg)!TypeOK'
  <2>1. authOp[r] = "refresh" => token[r] \in cfg.requests
    BY <1>0, <1>14 DEF Tokens!TypeOK, Tokens!RequestSound, Tokens!Commit
  <2> QED BY <1>0, <1>14, <2>1 DEF Tokens!TypeOK, Tokens!Commit, Tokens!Respond, Tokens!Mints
<1>15. ASSUME NEW r \in cfg.requests, Tokens(cfg)!Victim(r) \/ Tokens(cfg)!Crash(r)
       PROVE  Tokens(cfg)!TypeOK'
    BY <1>0, <1>1, <1>15 DEF Tokens!TypeOK, Tokens!Victim, Tokens!Crash
<1>16. ASSUME UNCHANGED Tokens(cfg)!vars PROVE Tokens(cfg)!TypeOK'
    BY <1>0, <1>16 DEF Tokens!TypeOK, Tokens!vars
<1> QED BY <1>2, <1>3, <1>4, <1>5, <1>6, <1>7, <1>8, <1>9, <1>10, <1>11, <1>12, <1>13, <1>14,
           <1>15, <1>16 DEF Tokens!Next, Tokens!Step

\* What the step of a request does to the rows: it revokes what it has in kill, or adds its
\* own row and, when that is a child, revokes the parent.
LEMMA AuthStepOfOne ==
    ASSUME NEW cfg, Tokens(cfg)!AuthInv, NEW r \in cfg.requests, Tokens(cfg)!Step(r)
             \/ Tokens(cfg)!Victim(r) \/ Tokens(cfg)!Crash(r)
    PROVE  /\ authOp' = authOp /\ \A o \in cfg.requests \ {r} : Tokens(cfg)!Stays(o)
           /\ \A t \in cfg.requests :
                 \/ row'[t] = row[t]
                 \/ t \in kill[r] /\ row'[t] = "revoked"
                 \/ t = r /\ row'[t] = "live" /\ authPc[t] = "commit" /\ authPc'[t] = "done"
           /\ \/ parent' = parent
              \/ /\ authPc[r] = "commit" /\ authOp[r] = "refresh" /\ authPc'[r] = "done"
                 /\ parent' = [parent EXCEPT ![r] = token[r]]
                 /\ \A t \in kill[r] : row'[t] = "revoked"
<1> USE DEF Tokens!Stays, Tokens!Goto, Tokens!db, Tokens!redis,
      Tokens!client, Tokens!request
<1>0. Tokens(cfg)!TypeOK /\ \A q \in cfg.requests : Tokens(cfg)!RequestSound(q)
    BY DEF Tokens!AuthInv
<1> USE <1>0 DEF Tokens!TypeOK
<1>1. ASSUME NEW a, Tokens(cfg)!Respond(r, a)
      PROVE  authOp' = authOp /\ \A o \in cfg.requests \ {r} : Tokens(cfg)!Stays(o)
    BY <1>1 DEF Tokens!Respond
<1>2. CASE Tokens(cfg)!Begin(r)
    BY <1>2 DEF Tokens!Begin
<1>3. CASE Tokens(cfg)!Password(r) \/ Tokens(cfg)!Touch(r) \/ Tokens(cfg)!Clear(r)
      \/ Tokens(cfg)!SetActive(r) \/ Tokens(cfg)!Resolve(r)
    BY <1>3 DEF Tokens!Password, Tokens!Touch, Tokens!Clear, Tokens!SetActive, Tokens!Resolve
<1>4. CASE Tokens(cfg)!Rotate(r) \/ Tokens(cfg)!RotateReused(r)
    BY <1>4 DEF Tokens!Rotate, Tokens!RotateReused
<1>5. CASE Tokens(cfg)!RotateUnknown(r) \/ Tokens(cfg)!RotateReplaced(r)
    BY <1>1, <1>5 DEF Tokens!RotateUnknown, Tokens!RotateReplaced
<1>6. CASE Tokens(cfg)!Kill(r) \/ Tokens(cfg)!RevokeOne(r)
    BY <1>6 DEF Tokens!Kill, Tokens!RevokeOne
<1>7. CASE Tokens(cfg)!CommitReuse(r)
    BY <1>7 DEF Tokens!CommitReuse
<1>8. CASE Tokens(cfg)!Members(r) \/ Tokens(cfg)!Drop(r) \/ Tokens(cfg)!Unbind(r)
    BY <1>8 DEF Tokens!Members, Tokens!Drop, Tokens!Unbind
<1>9. CASE Tokens(cfg)!Bind(r) \/ Tokens(cfg)!Answer(r)
    BY <1>9 DEF Tokens!Bind, Tokens!Answer
<1>10. CASE Tokens(cfg)!Commit(r)
  <2>1. authPc[r] = "commit" /\ authPc'[r] = "done" /\ authOp' = authOp
    BY <1>10 DEF Tokens!Commit, Tokens!Respond
  <2>2. \A t \in cfg.requests :
           row'[t] = IF t \in kill[r] THEN "revoked"
                     ELSE IF t = r /\ authOp[r] \in Tokens(cfg)!Mints THEN "live" ELSE row[t]
    BY <1>10 DEF Tokens!Commit
  <2>3. kill[r] \subseteq cfg.requests
    OBVIOUS
  <2>4. \A o \in cfg.requests \ {r} : Tokens(cfg)!Stays(o)
    BY <1>1, <1>10 DEF Tokens!Commit
  <2>5. CASE authOp[r] = "refresh"
    <3>1. parent' = [parent EXCEPT ![r] = token[r]]
      BY <1>10, <2>5 DEF Tokens!Commit
    <3> QED BY <2>1, <2>2, <2>3, <2>4, <2>5, <3>1
  <2>6. CASE authOp[r] # "refresh"
    <3>1. parent' = parent
      BY <1>10, <2>6 DEF Tokens!Commit
    <3> QED BY <2>1, <2>2, <2>3, <2>4, <3>1
  <2> QED BY <2>5, <2>6
<1>11. CASE Tokens(cfg)!Victim(r) \/ Tokens(cfg)!Crash(r)
    BY <1>1, <1>11 DEF Tokens!Victim, Tokens!Crash
<1> QED BY <1>2, <1>3, <1>4, <1>5, <1>6, <1>7, <1>8, <1>9, <1>10, <1>11 DEF Tokens!Step

\* A row that was there stays; one that is locked stays as it is until its holder ends; a
\* revoked one stays revoked.
LEMMA AuthRowsStay ==
    ASSUME NEW cfg, Tokens(cfg)!AuthInv, NEW r \in cfg.requests, Tokens(cfg)!Step(r)
             \/ Tokens(cfg)!Victim(r) \/ Tokens(cfg)!Crash(r)
    PROVE  \A t \in cfg.requests :
              /\ row[t] # "none" => row'[t] # "none"
              /\ row[t] = "revoked" => row'[t] = "revoked"
              /\ t \notin locked[r] /\ row[t] # "none" => row'[t] = row[t]
BY AuthStepOfOne DEF Tokens!AuthInv, Tokens!RequestSound, Tokens!RowSound, Tokens!Live

\* The requests that take no part in a step stay sound: what it revokes they have not locked.
LEMMA AuthOthersSound ==
    ASSUME NEW cfg, Tokens(cfg)!AuthInv, NEW r \in cfg.requests, Tokens(cfg)!Step(r)
             \/ Tokens(cfg)!Victim(r) \/ Tokens(cfg)!Crash(r),
           NEW o \in cfg.requests \ {r}
    PROVE  Tokens(cfg)!RequestSound(o)'
<1>0. /\ Tokens(cfg)!TypeOK /\ Tokens(cfg)!RequestSound(o) /\ Tokens(cfg)!LocksApart
      /\ authOp' = authOp /\ Tokens(cfg)!Stays(o)
      /\ \A t \in locked[o] : t \in cfg.requests /\ t \notin locked[r] /\ row[t] # "none"
    BY AuthStepOfOne, SMTT(30)
       DEF Tokens!AuthInv, Tokens!RequestSound, Tokens!LocksApart, Tokens!TypeOK
<1>1. \A t \in locked[o] : row'[t] = row[t]
    BY <1>0, AuthRowsStay
<1> QED BY <1>0, <1>1 DEF Tokens!RequestSound, Tokens!Stays, Tokens!Live

\* The rows stay sound, and a parent has one child: it is live when the child is minted, and
\* revoked with it.
LEMMA AuthRowsSound ==
    ASSUME NEW cfg, Tokens(cfg)!AuthAssumption, Tokens(cfg)!AuthInv, NEW r \in cfg.requests,
           Tokens(cfg)!Step(r) \/ Tokens(cfg)!Victim(r) \/ Tokens(cfg)!Crash(r)
    PROVE  Tokens(cfg)!OneChild' /\ \A t \in cfg.requests : Tokens(cfg)!RowSound(t)'
<1>0. Tokens(cfg)!TypeOK /\ Tokens(cfg)!OneChild
      /\ \A t \in cfg.requests : Tokens(cfg)!RequestSound(t) /\ Tokens(cfg)!RowSound(t)
    BY DEF Tokens!AuthInv
<1>1. \A t \in cfg.requests : authPc[t] = "done" => t # r
    BY <1>0
       DEF Tokens!TypeOK, Tokens!Step, Tokens!Victim, Tokens!Crash, Tokens!WaitCycle,
           Tokens!Blockers, Tokens!Begin, Tokens!Password, Tokens!Resolve, Tokens!Rotate,
           Tokens!RotateUnknown, Tokens!RotateReplaced, Tokens!RotateReused, Tokens!Kill,
           Tokens!CommitReuse, Tokens!Members, Tokens!Drop, Tokens!SetActive, Tokens!RevokeOne,
           Tokens!Unbind, Tokens!Clear, Tokens!Bind, Tokens!Touch, Tokens!Answer, Tokens!Commit
<1>2. \A t \in cfg.requests : authPc[t] = "done" => authPc'[t] = "done"
    BY <1>1, AuthStepOfOne DEF Tokens!Stays
<1>3. ASSUME NEW t \in cfg.requests PROVE row'[t] # "none" => authPc'[t] = "done"
    BY <1>0, <1>2, AuthStepOfOne DEF Tokens!RowSound, Tokens!RequestSound, Tokens!Live
<1>4. CASE parent' = parent
  <2>1. \A t \in cfg.requests : parent[t] # Nobody => row'[parent[t]] = "revoked"
    BY <1>0, AuthRowsStay DEF Tokens!RowSound, Tokens!TypeOK
  <2> QED BY <1>0, <1>2, <1>3, <1>4, <2>1 DEF Tokens!RowSound, Tokens!OneChild
<1>5. CASE /\ authPc[r] = "commit" /\ authOp[r] = "refresh" /\ authPc'[r] = "done"
           /\ parent' = [parent EXCEPT ![r] = token[r]]
           /\ \A t \in kill[r] : row'[t] = "revoked"
  <2>1. token[r] \in kill[r] /\ row[token[r]] = "live" /\ row'[token[r]] = "revoked"
    BY <1>0, <1>5 DEF Tokens!RequestSound, Tokens!Live
  <2>2. \A t \in cfg.requests \ {r} : parent[t] # token[r]
    BY <1>0, <2>1 DEF Tokens!AuthAssumption, Tokens!RowSound, Tokens!TypeOK
  <2>3. \A t \in cfg.requests \ {r} : parent'[t] = parent[t]
    BY <1>0, <1>5 DEF Tokens!TypeOK
  <2>4. parent'[r] = token[r]
    BY <1>0, <1>5 DEF Tokens!TypeOK
  <2>5. Tokens(cfg)!OneChild'
    BY <1>0, <2>2, <2>3, <2>4 DEF Tokens!OneChild
  <2>6. \A t \in cfg.requests : parent[t] # Nobody => row'[parent[t]] = "revoked"
    BY <1>0, AuthRowsStay DEF Tokens!RowSound, Tokens!TypeOK
  <2> QED BY <1>0, <1>2, <1>3, <1>5, <2>1, <2>3, <2>4, <2>5, <2>6 DEF Tokens!RowSound
<1> QED BY <1>4, <1>5, AuthStepOfOne

\* A row is locked only while no other transaction has it.
LEMMA AuthLocksStayApart ==
    ASSUME NEW cfg, Tokens(cfg)!AuthInv, NEW r \in cfg.requests, Tokens(cfg)!Step(r)
             \/ Tokens(cfg)!Victim(r) \/ Tokens(cfg)!Crash(r)
    PROVE  Tokens(cfg)!LocksApart'
<1>0. Tokens(cfg)!TypeOK /\ Tokens(cfg)!LocksApart
    BY DEF Tokens!AuthInv
<1>1. \A o \in cfg.requests \ {r} : locked'[o] = locked[o]
    BY AuthStepOfOne DEF Tokens!Stays
<1>2. \A t \in locked'[r] : t \in locked[r] \/ Tokens(cfg)!Free(r, t)
    BY <1>0, SMTT(30)
       DEF Tokens!TypeOK, Tokens!Step, Tokens!Victim, Tokens!Crash, Tokens!Begin, Tokens!Password,
           Tokens!Resolve, Tokens!Rotate, Tokens!Respond, Tokens!RotateUnknown,
           Tokens!RotateReplaced, Tokens!RotateReused, Tokens!Kill, Tokens!CommitReuse,
           Tokens!Members, Tokens!Drop, Tokens!SetActive, Tokens!RevokeOne, Tokens!Unbind,
           Tokens!Clear, Tokens!Bind, Tokens!Touch, Tokens!Answer, Tokens!Commit
<1> QED BY <1>0, <1>1, <1>2 DEF Tokens!LocksApart, Tokens!Free

\* The request that takes the step stays sound.
LEMMA AuthMineSound ==
    ASSUME NEW cfg, Tokens(cfg)!AuthAssumption, Tokens(cfg)!AuthInv, NEW r \in cfg.requests,
           Tokens(cfg)!Step(r) \/ Tokens(cfg)!Victim(r) \/ Tokens(cfg)!Crash(r)
    PROVE  Tokens(cfg)!RequestSound(r)'
<1>0. Tokens(cfg)!TypeOK /\ Tokens(cfg)!RequestSound(r) /\ authOp[r] \in Tokens(cfg)!AllOps
    BY DEF Tokens!AuthInv, Tokens!TypeOK, Tokens!AuthAssumption
<1> USE <1>0 DEF Tokens!Goto, Tokens!db, Tokens!redis, Tokens!client, Tokens!request,
       Tokens!Unstarted, Tokens!AllOps
<1>1. ASSUME NEW a, Tokens(cfg)!Respond(r, a), authPc[r] # "idle"
      PROVE  Tokens(cfg)!RequestSound(r)'
    BY <1>1 DEF Tokens!TypeOK, Tokens!Respond, Tokens!RequestSound, Tokens!OpsAt
<1>2. CASE Tokens(cfg)!Begin(r)
  <2>1. /\ authPc'[r] \in Tokens(cfg)!Unstarted \cup {"kill"}
        /\ authOp[r] \in Tokens(cfg)!OpsAt(Tokens(cfg)!First(r))
        /\ authPc'[r] = Tokens(cfg)!First(r)
        /\ UNCHANGED <<row, authOp, locked, kill>> /\ locked[r] = {}
    BY <1>2
       DEF Tokens!TypeOK, Tokens!Begin, Tokens!First, Tokens!OpsAt, Tokens!RequestSound,
           Tokens!Mints
  <2>2. authOp[r] \in {"refresh", "logout", "revoke"} => token'[r] \in cfg.requests
    BY <1>2 DEF Tokens!TypeOK, Tokens!Begin, Tokens!Presented
  <2> QED BY <2>1, <2>2 DEF Tokens!RequestSound, Tokens!Live
<1>3. CASE Tokens(cfg)!Password(r) \/ Tokens(cfg)!Resolve(r) \/ Tokens(cfg)!SetActive(r)
      \/ Tokens(cfg)!Clear(r) \/ Tokens(cfg)!Touch(r)
    BY <1>3
       DEF Tokens!TypeOK, Tokens!Password, Tokens!Resolve, Tokens!SetActive, Tokens!Clear,
           Tokens!Touch, Tokens!RequestSound, Tokens!OpsAt, Tokens!Live, Tokens!Mints
<1>4. CASE Tokens(cfg)!Rotate(r)
    BY <1>4
       DEF Tokens!TypeOK, Tokens!Rotate, Tokens!RequestSound, Tokens!OpsAt, Tokens!Live,
           Tokens!Mints
<1>5. CASE Tokens(cfg)!RotateReused(r)
    BY <1>5 DEF Tokens!TypeOK, Tokens!RotateReused, Tokens!RequestSound, Tokens!OpsAt, Tokens!Live
<1>6. CASE Tokens(cfg)!RotateUnknown(r) \/ Tokens(cfg)!RotateReplaced(r)
    BY <1>1, <1>6 DEF Tokens!RotateUnknown, Tokens!RotateReplaced
<1>7. CASE Tokens(cfg)!Kill(r)
    BY <1>7 DEF Tokens!TypeOK, Tokens!Kill, Tokens!RequestSound, Tokens!OpsAt, Tokens!Live
<1>8. CASE Tokens(cfg)!CommitReuse(r)
    BY <1>8 DEF Tokens!TypeOK, Tokens!CommitReuse, Tokens!RequestSound, Tokens!OpsAt, Tokens!Live
<1>9. CASE Tokens(cfg)!Members(r) \/ Tokens(cfg)!Drop(r)
    BY <1>9
       DEF Tokens!TypeOK, Tokens!Members, Tokens!Drop, Tokens!AfterDrop, Tokens!RequestSound,
           Tokens!OpsAt, Tokens!Live, Tokens!Mints
<1>10. CASE Tokens(cfg)!RevokeOne(r)
    BY <1>10 DEF Tokens!TypeOK, Tokens!RevokeOne, Tokens!RequestSound, Tokens!OpsAt, Tokens!Live
<1>11. CASE Tokens(cfg)!Unbind(r)
    BY <1>11 DEF Tokens!TypeOK, Tokens!Unbind, Tokens!RequestSound, Tokens!OpsAt, Tokens!Live
<1>12. CASE Tokens(cfg)!Bind(r) \/ Tokens(cfg)!Answer(r)
    BY <1>12
       DEF Tokens!TypeOK, Tokens!Bind, Tokens!Answer, Tokens!RequestSound, Tokens!OpsAt,
           Tokens!Live, Tokens!Mints
<1>13. CASE Tokens(cfg)!Commit(r)
    BY <1>1, <1>13 DEF Tokens!Commit
<1>14. CASE Tokens(cfg)!Victim(r) \/ Tokens(cfg)!Crash(r)
  <2>1. authPc[r] # "idle"
    BY <1>14 DEF Tokens!Victim, Tokens!Crash, Tokens!WaitCycle, Tokens!Blockers
  <2> QED BY <1>1, <1>14, <2>1 DEF Tokens!Victim, Tokens!Crash
<1> QED
  BY <1>2, <1>3, <1>4, <1>5, <1>6, <1>7, <1>8, <1>9, <1>10, <1>11, <1>12, <1>13, <1>14
     DEF Tokens!Step

\* Every step keeps the invariant.
LEMMA AuthStep ==
    ASSUME NEW cfg, Tokens(cfg)!AuthAssumption, Tokens(cfg)!AuthInv,
           [Tokens(cfg)!Next]_(Tokens(cfg)!vars)
    PROVE  Tokens(cfg)!AuthInv'
<1>1. ASSUME NEW r \in cfg.requests, Tokens(cfg)!Step(r) \/ Tokens(cfg)!Victim(r)
      \/ Tokens(cfg)!Crash(r)
      PROVE  Tokens(cfg)!AuthInv'
  <2>1. \A o \in cfg.requests : Tokens(cfg)!RequestSound(o)'
    BY <1>1, AuthMineSound, AuthOthersSound
  <2> QED
    BY <1>1, <2>1, AuthTypes, AuthRowsSound, AuthLocksStayApart DEF Tokens!AuthInv, Tokens!Next
<1>2. CASE UNCHANGED Tokens(cfg)!vars
  <2>1. Tokens(cfg)!TypeOK'
    BY AuthTypes
  <2>2. \A r \in cfg.requests : Tokens(cfg)!RequestSound(r)' /\ Tokens(cfg)!RowSound(r)'
    BY <1>2
       DEF Tokens!AuthInv, Tokens!RequestSound, Tokens!RowSound, Tokens!Live, Tokens!vars,
           Tokens!db, Tokens!request
  <2>3. Tokens(cfg)!LocksApart' /\ Tokens(cfg)!OneChild'
    BY <1>2 DEF Tokens!AuthInv, Tokens!LocksApart, Tokens!OneChild, Tokens!vars, Tokens!db
  <2> QED BY <2>1, <2>2, <2>3 DEF Tokens!AuthInv
<1> QED BY <1>1, <1>2 DEF Tokens!Next

\* However many refreshes present the same token at once, one of them gets a child of it
\* (rotate_refresh_token and find_refresh_token's FOR UPDATE).
THEOREM RotatedOnce ==
    ASSUME NEW cfg, Tokens(cfg)!AuthAssumption
    PROVE  Tokens(cfg)!Spec => [](Tokens(cfg)!TypeOK /\ Tokens(cfg)!OneChild)
<1>1. Tokens(cfg)!Init => Tokens(cfg)!AuthInv
    BY AuthStart
<1>2. Tokens(cfg)!AuthInv /\ [Tokens(cfg)!Next]_(Tokens(cfg)!vars) => Tokens(cfg)!AuthInv'
    BY AuthStep
<1>3. Tokens(cfg)!AuthInv => Tokens(cfg)!TypeOK /\ Tokens(cfg)!OneChild
    BY DEF Tokens!AuthInv
<1> QED BY <1>1, <1>2, <1>3, PTL DEF Tokens!Spec

\* What the invariant says of a cycle of waiting requests: from each of them the way leads to
\* a login that waits for the users row, and from there to a reset that has it.
LEMMA AuthCycleNeedsReset ==
    ASSUME NEW cfg, Tokens(cfg)!AuthInv
    PROVE  Tokens(cfg)!DeadlockIsReset
<1> SUFFICES ASSUME NEW S \in SUBSET cfg.requests, Tokens(cfg)!WaitCycle(S)
             PROVE  {"reset", "login"} \subseteq {authOp[r] : r \in S}
    BY DEF Tokens!DeadlockIsReset
<1>0. Tokens(cfg)!TypeOK /\ \A r \in cfg.requests : Tokens(cfg)!RequestSound(r)
    BY DEF Tokens!AuthInv
<1>1. \A r \in S : authPc[r] \in {"password", "touch", "kill", "lock", "revoke"}
    BY DEF Tokens!WaitCycle, Tokens!Blockers
<1>2. ASSUME NEW r \in S, authPc[r] \in {"password", "touch"}
      PROVE  \E o \in S : authOp[o] = "reset" /\ authPc[o] = "kill"
  <2>1. PICK o \in S : Tokens(cfg)!HasUser(o)
    BY <1>2 DEF Tokens!WaitCycle, Tokens!Blockers
  <2> QED BY <1>0, <1>1, <2>1 DEF Tokens!HasUser, Tokens!First, Tokens!RequestSound, Tokens!OpsAt
<1>3. ASSUME NEW r \in S, authPc[r] = "kill" PROVE \E o \in S : authPc[o] = "touch"
  <2>1. PICK o \in S : locked[o] \cap Tokens(cfg)!Live # {}
    BY <1>3 DEF Tokens!WaitCycle, Tokens!Blockers
  <2> QED BY <1>0, <1>1, <2>1 DEF Tokens!RequestSound, Tokens!Unstarted
<1>4. ASSUME NEW r \in S, authPc[r] \in {"lock", "revoke"}
      PROVE  \E o \in S : authPc[o] \in {"touch", "kill"}
  <2>1. PICK o \in S : token[r] \in locked[o]
    BY <1>4 DEF Tokens!WaitCycle, Tokens!Blockers
  <2> QED BY <1>0, <1>1, <2>1 DEF Tokens!RequestSound, Tokens!Unstarted
<1>5. \E o \in S : authPc[o] = "touch"
    BY <1>1, <1>2, <1>3, <1>4 DEF Tokens!WaitCycle
<1>6. PICK o \in S : authPc[o] = "touch"
    BY <1>5
<1>7. authOp[o] = "login"
    BY <1>0, <1>6 DEF Tokens!RequestSound, Tokens!OpsAt
<1> QED BY <1>2, <1>6, <1>7

\* Requests wait for each other in a circle only when a password reset meets a login
\* (routers/auth.py: one writes the user first, the other the tokens).
THEOREM OnlyResetsDeadlock ==
    ASSUME NEW cfg, Tokens(cfg)!AuthAssumption
    PROVE  Tokens(cfg)!Spec => []Tokens(cfg)!DeadlockIsReset
<1>1. Tokens(cfg)!Init => Tokens(cfg)!AuthInv
    BY AuthStart
<1>2. Tokens(cfg)!AuthInv /\ [Tokens(cfg)!Next]_(Tokens(cfg)!vars) => Tokens(cfg)!AuthInv'
    BY AuthStep
<1> QED BY <1>1, <1>2, AuthCycleNeedsReset, PTL DEF Tokens!Spec

(***************************************************************************)
(* Requests that come one at a time.                                       *)
(***************************************************************************)
\* The initial states satisfy the invariant.
LEMMA AuthTurnStart ==
    ASSUME NEW cfg, Tokens(cfg)!AuthAssumption, Tokens(cfg)!Init
    PROVE  Tokens(cfg)!TurnInv
<1>1. Tokens(cfg)!AuthInv
    BY AuthStart
<1>2. Tokens(cfg)!Live = {}
    BY DEF Tokens!Init, Tokens!Live
<1>3. \A r \in cfg.requests : Tokens(cfg)!TurnSound(r)
    BY DEF Tokens!Init, Tokens!TurnSound
<1>4. Tokens(cfg)!Alone /\ Tokens(cfg)!Indexed /\ Tokens(cfg)!SoleLogin /\ Tokens(cfg)!Opens
    BY <1>2 DEF Tokens!Init, Tokens!Alone, Tokens!Indexed, Tokens!SoleLogin, Tokens!Opens
<1> QED BY <1>1, <1>3, <1>4 DEF Tokens!TurnInv

\* While a request takes a step, no other one is under way.
LEMMA AuthOthersRest ==
    ASSUME NEW cfg, ~cfg.overlap, Tokens(cfg)!TurnInv, NEW r \in cfg.requests, Tokens(cfg)!Step(r)
             \/ Tokens(cfg)!Victim(r) \/ Tokens(cfg)!Crash(r)
    PROVE  /\ \A o \in cfg.requests \ {r} : authPc[o] \in {"idle", "done"}
                /\ authPc'[o] = authPc[o]
           /\ Tokens(cfg)!Alone' /\ \A o \in cfg.requests \ {r} : Tokens(cfg)!TurnSound(o)'
<1>1. Tokens(cfg)!Begin(r) => Tokens(cfg)!Quiet
    BY DEF Tokens!Begin
<1>2. authPc[r] \notin {"idle", "done"} \/ Tokens(cfg)!Begin(r)
    BY DEF Tokens!Step, Tokens!Victim, Tokens!Crash, Tokens!WaitCycle, Tokens!Blockers,
           Tokens!Password, Tokens!Resolve, Tokens!Rotate, Tokens!RotateUnknown,
           Tokens!RotateReplaced, Tokens!RotateReused, Tokens!Kill, Tokens!CommitReuse,
           Tokens!Members, Tokens!Drop, Tokens!SetActive, Tokens!RevokeOne, Tokens!Unbind,
           Tokens!Clear, Tokens!Bind, Tokens!Touch, Tokens!Answer, Tokens!Commit
<1>3. \A o \in cfg.requests \ {r} : authPc[o] \in {"idle", "done"}
    BY <1>1, <1>2 DEF Tokens!TurnInv, Tokens!Alone, Tokens!Begin, Tokens!Quiet
<1>4. \A o \in cfg.requests \ {r} : authPc'[o] = authPc[o]
    BY AuthStepOfOne DEF Tokens!TurnInv, Tokens!Stays
<1>5. Tokens(cfg)!Alone'
    BY <1>3, <1>4 DEF Tokens!Alone
<1>6. \A o \in cfg.requests \ {r} : Tokens(cfg)!TurnSound(o)'
    BY <1>3, <1>4 DEF Tokens!TurnSound
<1> QED BY <1>3, <1>4, <1>5, <1>6

\* A step that touches neither the rows nor Redis.
LEMMA AuthQuietTurn ==
    ASSUME NEW cfg, Tokens(cfg)!TurnInv, UNCHANGED <<row, root, meta, authIndex, active>>
    PROVE  Tokens(cfg)!Indexed' /\ Tokens(cfg)!SoleLogin' /\ Tokens(cfg)!Opens'
BY DEF Tokens!TurnInv, Tokens!Indexed, Tokens!SoleLogin, Tokens!Opens, Tokens!SidOf, Tokens!Live

\* The steps of a request, each with what Redis and the rows are after it.
LEMMA AuthTurnSteps ==
    ASSUME NEW cfg, Tokens(cfg)!AuthAssumption, ~cfg.overlap, Tokens(cfg)!TurnInv,
           NEW r \in cfg.requests, Tokens(cfg)!Step(r) \/ Tokens(cfg)!Victim(r)
             \/ Tokens(cfg)!Crash(r)
    PROVE  /\ Tokens(cfg)!TurnSound(r)' /\ Tokens(cfg)!Indexed' /\ Tokens(cfg)!SoleLogin'
           /\ Tokens(cfg)!Opens'
<1>0. /\ Tokens(cfg)!TypeOK /\ Tokens(cfg)!RequestSound(r) /\ Tokens(cfg)!RowSound(r)
      /\ Tokens(cfg)!TurnSound(r)
      /\ Tokens(cfg)!Indexed /\ Tokens(cfg)!SoleLogin /\ Tokens(cfg)!Opens
    BY DEF Tokens!TurnInv, Tokens!AuthInv
<1> USE <1>0 DEF Tokens!Goto, Tokens!db, Tokens!redis, Tokens!client, Tokens!request
<1>1. ASSUME NEW a, Tokens(cfg)!Respond(r, a), UNCHANGED <<Tokens(cfg)!db, Tokens(cfg)!redis>>
      PROVE  /\ Tokens(cfg)!TurnSound(r)' /\ Tokens(cfg)!Indexed' /\ Tokens(cfg)!SoleLogin'
             /\ Tokens(cfg)!Opens'
    BY <1>1, AuthQuietTurn DEF Tokens!TypeOK, Tokens!Respond, Tokens!TurnSound
<1>2. CASE Tokens(cfg)!Begin(r)
  <2>1. Tokens(cfg)!TurnSound(r)'
    BY <1>2 DEF Tokens!TypeOK, Tokens!Begin, Tokens!First, Tokens!TurnSound
  <2> QED BY <1>2, <2>1, AuthQuietTurn DEF Tokens!Begin
<1>3. CASE Tokens(cfg)!Password(r) \/ Tokens(cfg)!Touch(r)
  <2>1. Tokens(cfg)!TurnSound(r)'
    BY <1>3
       DEF Tokens!TypeOK, Tokens!Password, Tokens!Touch, Tokens!TurnSound, Tokens!Live,
           Tokens!RequestSound, Tokens!OpsAt
  <2> QED BY <1>3, <2>1, AuthQuietTurn DEF Tokens!Password, Tokens!Touch
<1>4. CASE Tokens(cfg)!Resolve(r)
  <2>1. Tokens(cfg)!TurnSound(r)'
    BY <1>4
       DEF Tokens!TypeOK, Tokens!Resolve, Tokens!TurnSound, Tokens!Opens, Tokens!Live,
           Tokens!RequestSound, Tokens!OpsAt
  <2> QED BY <1>4, <2>1, AuthQuietTurn DEF Tokens!Resolve
<1>5. CASE Tokens(cfg)!Rotate(r) \/ Tokens(cfg)!RotateReused(r)
  <2>1. Tokens(cfg)!TurnSound(r)'
    BY <1>5
       DEF Tokens!TypeOK, Tokens!Rotate, Tokens!RotateReused, Tokens!TurnSound,
           Tokens!RequestSound, Tokens!OpsAt
  <2> QED BY <1>5, <2>1, AuthQuietTurn DEF Tokens!Rotate, Tokens!RotateReused
<1>6. CASE Tokens(cfg)!RotateUnknown(r) \/ Tokens(cfg)!RotateReplaced(r)
    BY <1>1, <1>6 DEF Tokens!RotateUnknown, Tokens!RotateReplaced
<1>7. CASE Tokens(cfg)!Kill(r)
  <2>1. Tokens(cfg)!TurnSound(r)'
    BY <1>7 DEF Tokens!TypeOK, Tokens!Kill, Tokens!TurnSound, Tokens!Live
  <2> QED BY <1>7, <2>1, AuthQuietTurn DEF Tokens!Kill
<1>8. CASE Tokens(cfg)!CommitReuse(r)
  <2>1. authOp[r] = "refresh"
    BY <1>8 DEF Tokens!CommitReuse, Tokens!RequestSound, Tokens!OpsAt
  <2>2. Tokens(cfg)!Live' \subseteq Tokens(cfg)!Live
    BY <1>8 DEF Tokens!CommitReuse, Tokens!Live
  <2>3. Tokens(cfg)!TurnSound(r)'
    BY <1>8, <2>1 DEF Tokens!TypeOK, Tokens!CommitReuse, Tokens!TurnSound
  <2>4. Tokens(cfg)!Indexed' /\ Tokens(cfg)!SoleLogin' /\ Tokens(cfg)!Opens'
    BY <1>8, <2>2
       DEF Tokens!CommitReuse, Tokens!Indexed, Tokens!SoleLogin, Tokens!Opens, Tokens!SidOf
  <2> QED BY <2>3, <2>4
<1>9. CASE Tokens(cfg)!Members(r)
  <2>1. Tokens(cfg)!TurnSound(r)'
    BY <1>9
       DEF Tokens!TypeOK, Tokens!Members, Tokens!AfterDrop, Tokens!TurnSound, Tokens!Indexed,
           Tokens!Live
  <2> QED BY <1>9, <2>1, AuthQuietTurn DEF Tokens!Members
<1>10. CASE Tokens(cfg)!Drop(r)
  <2>1. \A t \in cfg.requests : meta'[t] = Nobody
    BY <1>10 DEF Tokens!Drop, Tokens!Indexed, Tokens!TurnSound
  <2>2. Tokens(cfg)!TurnSound(r)'
    BY <1>10, <2>1 DEF Tokens!TypeOK, Tokens!Drop, Tokens!AfterDrop, Tokens!TurnSound, Tokens!Live
  <2>3. Tokens(cfg)!Indexed' /\ Tokens(cfg)!SoleLogin' /\ Tokens(cfg)!Opens'
    BY <1>10, <2>1
       DEF Tokens!AuthAssumption, Tokens!Drop, Tokens!Indexed, Tokens!SoleLogin, Tokens!Opens,
           Tokens!SidOf, Tokens!Live
  <2> QED BY <2>2, <2>3
<1>11. CASE Tokens(cfg)!SetActive(r)
  <2>1. authOp[r] = "login" /\ \A t \in Tokens(cfg)!Live : meta[t] = Nobody
    BY <1>11 DEF Tokens!SetActive, Tokens!TurnSound, Tokens!RequestSound, Tokens!OpsAt
  <2>2. Tokens(cfg)!TurnSound(r)'
    BY <1>11, <2>1 DEF Tokens!TypeOK, Tokens!SetActive, Tokens!TurnSound, Tokens!Live
  <2>3. Tokens(cfg)!Indexed' /\ Tokens(cfg)!SoleLogin' /\ Tokens(cfg)!Opens'
    BY <1>11, <2>1
       DEF Tokens!AuthAssumption, Tokens!SetActive, Tokens!Indexed, Tokens!SoleLogin,
           Tokens!Opens, Tokens!SidOf, Tokens!Live
  <2> QED BY <2>2, <2>3
<1>12. CASE Tokens(cfg)!RevokeOne(r)
  <2>1. Tokens(cfg)!TurnSound(r)'
    BY <1>12
       DEF Tokens!TypeOK, Tokens!RevokeOne, Tokens!TurnSound, Tokens!RequestSound, Tokens!OpsAt
  <2> QED BY <1>12, <2>1, AuthQuietTurn DEF Tokens!RevokeOne
<1>13. CASE Tokens(cfg)!Unbind(r)
  <2>1. Tokens(cfg)!TurnSound(r)'
    BY <1>13 DEF Tokens!TypeOK, Tokens!Unbind, Tokens!TurnSound, Tokens!RequestSound, Tokens!OpsAt
  <2>2. Tokens(cfg)!Indexed' /\ Tokens(cfg)!SoleLogin' /\ Tokens(cfg)!Opens'
    BY <1>13
       DEF Tokens!TypeOK, Tokens!AuthAssumption, Tokens!Unbind, Tokens!Indexed, Tokens!SoleLogin,
           Tokens!Opens, Tokens!SidOf, Tokens!Live
  <2> QED BY <2>1, <2>2
<1>14. CASE Tokens(cfg)!Clear(r)
  <2>1. Tokens(cfg)!TurnSound(r)'
    BY <1>14 DEF Tokens!TypeOK, Tokens!Clear, Tokens!TurnSound, Tokens!RequestSound, Tokens!OpsAt
  <2>2. Tokens(cfg)!Indexed' /\ Tokens(cfg)!SoleLogin' /\ Tokens(cfg)!Opens'
    BY <1>14 DEF Tokens!Clear, Tokens!Indexed, Tokens!SoleLogin, Tokens!Opens, Tokens!Live
  <2> QED BY <2>1, <2>2
<1>15. CASE Tokens(cfg)!Bind(r)
  <2>1. r \notin Tokens(cfg)!Live /\ authOp[r] \in Tokens(cfg)!Mints
    BY <1>15 DEF Tokens!Bind, Tokens!RowSound, Tokens!Live, Tokens!RequestSound, Tokens!OpsAt
  <2>2. Tokens(cfg)!TurnSound(r)'
    BY <1>15, <2>1
       DEF Tokens!TypeOK, Tokens!AuthAssumption, Tokens!Bind, Tokens!TurnSound, Tokens!Sid,
           Tokens!Mints, Tokens!Live
  <2>3. Tokens(cfg)!Indexed' /\ Tokens(cfg)!SoleLogin' /\ Tokens(cfg)!Opens'
    BY <1>15, <2>1
       DEF Tokens!TypeOK, Tokens!Bind, Tokens!Indexed, Tokens!SoleLogin, Tokens!Opens,
           Tokens!SidOf, Tokens!Live
  <2> QED BY <2>2, <2>3
<1>16. CASE Tokens(cfg)!Answer(r)
  <2>1. Tokens(cfg)!TurnSound(r)'
    BY <1>16 DEF Tokens!TypeOK, Tokens!Answer, Tokens!TurnSound, Tokens!Live
  <2> QED BY <1>16, <2>1, AuthQuietTurn DEF Tokens!Answer
<1>17. CASE Tokens(cfg)!Commit(r)
  <2>0. /\ authPc[r] = "commit" /\ row[r] = "none" /\ UNCHANGED <<meta, authIndex, active>>
        /\ \A t \in cfg.requests :
              t \in Tokens(cfg)!Live' <=> t \in Tokens(cfg)!Live \ kill[r]
                  \/ (t = r /\ authOp[r] \in Tokens(cfg)!Mints)
    <3>1. authPc[r] = "commit" /\ row[r] = "none" /\ r \notin kill[r]
      BY <1>17 DEF Tokens!TypeOK, Tokens!Commit, Tokens!RowSound, Tokens!RequestSound, Tokens!Live
    <3>2. \A t \in cfg.requests :
             row'[t] = IF t \in kill[r] THEN "revoked"
                       ELSE IF t = r /\ authOp[r] \in Tokens(cfg)!Mints THEN "live" ELSE row[t]
      BY <1>17 DEF Tokens!Commit
    <3>3. ASSUME NEW t \in cfg.requests
          PROVE  t \in Tokens(cfg)!Live' <=> t \in Tokens(cfg)!Live \ kill[r]
              \/ (t = r /\ authOp[r] \in Tokens(cfg)!Mints)
      <4>1. CASE t \in kill[r]
        BY <3>1, <3>2, <4>1 DEF Tokens!Live
      <4>2. CASE t = r
        BY <3>1, <3>2, <4>2 DEF Tokens!Live
      <4>3. CASE t \notin kill[r] /\ t # r
        BY <3>2, <4>3 DEF Tokens!Live
      <4> QED BY <4>1, <4>2, <4>3
    <3>4. UNCHANGED <<meta, authIndex, active>>
      BY <1>17 DEF Tokens!Commit
    <3> QED BY <3>1, <3>3, <3>4
  <2>1. Tokens(cfg)!TurnSound(r)' /\ Tokens(cfg)!Indexed'
    BY <1>17 DEF Tokens!TypeOK, Tokens!Commit, Tokens!Respond, Tokens!TurnSound, Tokens!Indexed
  <2>2. CASE authOp[r] = "login"
    <3>1. \A t \in Tokens(cfg)!Live' : t = r
      BY <2>0, <2>2 DEF Tokens!TurnSound, Tokens!Live
    <3>2. active = r /\ meta[r] = r
      BY <2>0, <2>2 DEF Tokens!TurnSound
    <3> QED BY <2>0, <2>1, <3>1, <3>2 DEF Tokens!SoleLogin, Tokens!Opens, Tokens!SidOf
  <2>3. CASE authOp[r] = "refresh"
    <3>1. kill[r] = {token[r]} /\ token[r] \in Tokens(cfg)!Live /\ token[r] # r
      BY <2>0, <2>3 DEF Tokens!RequestSound, Tokens!Live
    <3>2. root' = [root EXCEPT ![r] = root[token[r]]]
      BY <1>17, <2>3 DEF Tokens!Commit, Tokens!Mints
    <3>3. Tokens(cfg)!SoleLogin'
      BY <2>0, <3>1, <3>2 DEF Tokens!TypeOK, Tokens!SoleLogin, Tokens!Live
    <3>4. /\ active \in {Nobody, sid[r]}
          /\ meta[r] = IF sid[r] = Nobody THEN Unnamed ELSE sid[r]
      BY <2>0, <2>3, <3>1 DEF Tokens!TurnSound, Tokens!Live
    <3>5. active \in {Nobody, Tokens(cfg)!SidOf(r)}
      BY <3>4 DEF Tokens!TypeOK, Tokens!AuthAssumption, Tokens!SidOf
    <3>6. Tokens(cfg)!Opens'
      BY <2>0, <3>5 DEF Tokens!Opens, Tokens!SidOf, Tokens!Live
    <3> QED BY <2>1, <3>3, <3>6
  <2>4. CASE authOp[r] \notin Tokens(cfg)!Mints
    <3>1. root' = root /\ Tokens(cfg)!Live' \subseteq Tokens(cfg)!Live
      BY <1>17, <2>0, <2>4 DEF Tokens!Commit, Tokens!Live
    <3> QED BY <2>0, <2>1, <3>1 DEF Tokens!SoleLogin, Tokens!Opens, Tokens!SidOf
  <2> QED BY <2>2, <2>3, <2>4 DEF Tokens!Mints
<1>18. CASE Tokens(cfg)!Victim(r) \/ Tokens(cfg)!Crash(r)
    BY <1>1, <1>18 DEF Tokens!Victim, Tokens!Crash
<1> QED BY <1>2, <1>3, <1>4, <1>5, <1>6, <1>7, <1>8, <1>9, <1>10, <1>11, <1>12, <1>13, <1>14,
           <1>15, <1>16, <1>17, <1>18 DEF Tokens!Step

\* Every step keeps the invariant.
LEMMA AuthTurnStep ==
    ASSUME NEW cfg, Tokens(cfg)!AuthAssumption, ~cfg.overlap, Tokens(cfg)!TurnInv,
           [Tokens(cfg)!Next]_(Tokens(cfg)!vars)
    PROVE  Tokens(cfg)!TurnInv'
<1>1. Tokens(cfg)!AuthInv'
    BY AuthStep DEF Tokens!TurnInv
<1>2. ASSUME NEW r \in cfg.requests, Tokens(cfg)!Step(r) \/ Tokens(cfg)!Victim(r)
      \/ Tokens(cfg)!Crash(r)
      PROVE  Tokens(cfg)!TurnInv'
  <2>1. \A o \in cfg.requests : Tokens(cfg)!TurnSound(o)'
    BY <1>2, AuthTurnSteps, AuthOthersRest
  <2> QED BY <1>1, <1>2, <2>1, AuthTurnSteps, AuthOthersRest DEF Tokens!TurnInv
<1>3. CASE UNCHANGED Tokens(cfg)!vars
  <2>1. Tokens(cfg)!Indexed' /\ Tokens(cfg)!SoleLogin' /\ Tokens(cfg)!Opens'
    BY <1>3, AuthQuietTurn DEF Tokens!vars, Tokens!db, Tokens!redis
  <2>2. Tokens(cfg)!Alone' /\ \A r \in cfg.requests : Tokens(cfg)!TurnSound(r)'
    BY <1>3
       DEF Tokens!TurnInv, Tokens!Alone, Tokens!TurnSound, Tokens!Live, Tokens!vars, Tokens!db,
           Tokens!redis, Tokens!request
  <2> QED BY <1>1, <2>1, <2>2 DEF Tokens!TurnInv
<1> QED BY <1>2, <1>3 DEF Tokens!Next

\* One request after the other, cut off anywhere: the live tokens are of one login, and each
\* of them still opens a session (services/auth/tokens.py and session.py).
THEOREM SoleLoginOpens ==
    ASSUME NEW cfg, Tokens(cfg)!AuthAssumption, ~cfg.overlap
    PROVE  Tokens(cfg)!Spec => [](Tokens(cfg)!SoleLogin /\ Tokens(cfg)!LiveOpens)
<1>1. Tokens(cfg)!Init => Tokens(cfg)!TurnInv
    BY AuthTurnStart
<1>2. Tokens(cfg)!TurnInv /\ [Tokens(cfg)!Next]_(Tokens(cfg)!vars) => Tokens(cfg)!TurnInv'
    BY AuthTurnStep
<1>3. Tokens(cfg)!TurnInv => Tokens(cfg)!SoleLogin /\ Tokens(cfg)!LiveOpens
    BY DEF Tokens!TurnInv, Tokens!Opens, Tokens!LiveOpens
<1> QED BY <1>1, <1>2, <1>3, PTL DEF Tokens!Spec

-----------------------------------------------------------------------------
(***************************************************************************)
(* Administrators who log in: AdminAuth, for any administrators, requests and *)
(* sessions.                                                               *)
(***************************************************************************)
\* The finite sets of the instances are those of FiniteSets.
LEMMA AdminSame ==
    ASSUME NEW cfg, NEW S
    PROVE  /\ Admin(cfg)!IsFiniteSet(S) <=> IsFiniteSet(S)
           /\ Admin(cfg)!Cardinality(S) = Cardinality(S)
BY DEF Admin!IsFiniteSet, IsFiniteSet, Admin!Cardinality, Cardinality

\* A code is a number and a slot.
LEMMA AdminCodeNames ==
    ASSUME NEW cfg, Admin(cfg)!AdminAuthAssumption
    PROVE  \A c \in Admin(cfg)!Codes : c[1] \in 1 .. cfg.batches /\ c[1] \in Nat /\ c # <<>>
<1>1. ASSUME NEW n \in 1 .. cfg.batches, NEW s \in Two
      PROVE  <<n, s>>[1] \in 1 .. cfg.batches /\ <<n, s>>[1] \in Nat /\ <<n, s>> # <<>>
    BY DEF Admin!AdminAuthAssumption
<1> QED BY <1>1 DEF Admin!Codes

\* AdminInv holds before the first enrolment.
LEMMA AdminStart ==
    ASSUME NEW cfg, Admin(cfg)!AdminAuthAssumption, Admin(cfg)!Init
    PROVE  Admin(cfg)!AdminInv
<1>1. \A r \in Pair : login[r] = Admin(cfg)!NoLogin /\ login[r].pc = "idle" /\ login[r].fresh = {}
    BY DEF Admin!Init, Admin!NoLogin
<1>2. \A c \in cfg.calls : call[c].pc = "idle"
    BY DEF Admin!Init, Admin!NoCall
<1>3. Admin(cfg)!Typed
  <2>1. Admin(cfg)!NoLogin \in [pc : {"idle", "verified", "found", "revoked", "opened"},
                    admin : cfg.admins \cup {Nobody}, code : Admin(cfg)!Codes \cup {<<>>},
                    codes : SUBSET Admin(cfg)!Codes, fresh : SUBSET Admin(cfg)!Codes,
                    found : SUBSET cfg.sids, sid : cfg.sids \cup {Nobody}]
    BY DEF Admin!NoLogin
  <2>2. Admin(cfg)!NoCall \in [pc : {"idle", "fresh", "stale", "touching", "let in", "unindex"},
                   sid : cfg.sids \cup {Nobody}, out : BOOLEAN]
    BY DEF Admin!NoCall
  <2>3. minted \in 0 .. cfg.batches /\ adminCrashes \in 0 .. cfg.crashes
    BY DEF Admin!AdminAuthAssumption, Admin!Init
  <2>4. spent \in [Admin(cfg)!Codes -> Nat]
    BY DEF Admin!Init
  <2>5. \A r \in Pair : login[r].sid = Nobody
    BY <1>1 DEF Admin!NoLogin
  <2>6. Admin(cfg)!TypeOK
    BY <1>1, <1>2, <2>3, <2>4, <2>5 DEF Admin!Init, Admin!TypeOK
  <2> QED BY <2>1, <2>2, <2>6 DEF Admin!Init, Admin!Typed, Admin!Doings
<1>4. Admin(cfg)!RowLocked
    BY <1>1 DEF Admin!RowLocked, Admin!Init, Admin!Active, Admin!AdminAuthAssumption
<1>5. Admin(cfg)!CodesApart /\ Admin(cfg)!ShownCodesWork /\ Admin(cfg)!CodeOnce
    BY DEF Admin!Init, Admin!CodesApart, Admin!ShownCodesWork, Admin!CodeOnce
<1>6. Admin(cfg)!IndexKept
    BY <1>1, <1>2 DEF Admin!Init, Admin!IndexKept
<1> QED BY <1>1, <1>3, <1>4, <1>5, <1>6 DEF Admin!AdminInv, Admin!Active

\* The codes are as they were: nobody commits, and a login keeps what it is about to leave.
LEMMA AdminCodesKept ==
    ASSUME NEW cfg, Admin(cfg)!AdminAuthAssumption, Admin(cfg)!AdminInv,
           \A a \in cfg.admins : secret[a] => secret'[a],
           UNCHANGED <<codes, shown, spent>>, minted' \in Nat, minted' >= minted,
           \A r \in Pair :
              \/ /\ Admin(cfg)!Active(r) /\ Admin(cfg)!Active(r)'
                 /\ login'[r].admin = login[r].admin
                 /\ login'[r].code = login[r].code /\ login'[r].codes = login[r].codes
                 /\ login'[r].fresh = login[r].fresh
              \/ ~Admin(cfg)!Active(r)' /\ login'[r].fresh = {}
    PROVE  /\ Admin(cfg)!CodesApart' /\ Admin(cfg)!ShownCodesWork' /\ Admin(cfg)!CodeOnce'
           /\ \A r \in Pair :
                 IF Admin(cfg)!Active(r)' THEN Admin(cfg)!Leaves(r)' ELSE login'[r].fresh = {}
           /\ \A r, o \in Pair : r # o => login'[r].fresh \cap login'[o].fresh = {}
<1> USE DEF Admin!AdminInv
<1>1. minted \in Nat /\ \A c \in Admin(cfg)!Codes : c[1] \in Nat
  <2>1. minted \in 0 .. cfg.batches
    BY DEF Admin!Typed, Admin!Doings, Admin!TypeOK
  <2> QED BY <2>1, AdminCodeNames DEF Admin!AdminAuthAssumption
<1>2. shown \in [cfg.admins -> SUBSET Admin(cfg)!Codes]
    BY DEF Admin!Typed, Admin!Doings, Admin!TypeOK
<1>3. Admin(cfg)!CodesApart'
    BY <1>1, <1>2 DEF Admin!CodesApart
<1>4. Admin(cfg)!ShownCodesWork' /\ Admin(cfg)!CodeOnce'
    BY DEF Admin!ShownCodesWork, Admin!CodeOnce
<1>5. ASSUME NEW r \in Pair
      PROVE  IF Admin(cfg)!Active(r)' THEN Admin(cfg)!Leaves(r)' ELSE login'[r].fresh = {}
  <2> SUFFICES ASSUME Admin(cfg)!Active(r) /\ Admin(cfg)!Active(r)'
               PROVE  Admin(cfg)!Leaves(r)'
    OBVIOUS
  <2>1. Admin(cfg)!Leaves(r) /\ login[r].admin \in cfg.admins
        /\ login[r].fresh \subseteq Admin(cfg)!Codes
    BY <1>5 DEF Admin!RowLocked, Admin!Typed, Admin!Doings
  <2> QED BY <1>1, <1>5, <2>1 DEF Admin!Leaves
<1>6. ASSUME NEW r \in Pair, NEW o \in Pair, r # o
      PROVE  login'[r].fresh \cap login'[o].fresh = {}
    BY <1>6
<1> QED BY <1>3, <1>4, <1>5, <1>6

\* The second factor is enrolled once, by who has been shown no codes.
LEMMA AdminEnrolls ==
    ASSUME NEW cfg, Admin(cfg)!AdminAuthAssumption, Admin(cfg)!AdminInv, NEW a \in cfg.admins,
           Admin(cfg)!Enroll(a)
    PROVE  Admin(cfg)!AdminInv'
<1> USE DEF Admin!AdminInv
<1>1. codes[a] = {} /\ codes' = codes
  <2>1. ~secret[a] /\ codes' = [codes EXCEPT ![a] = {}]
        /\ codes \in [cfg.admins -> SUBSET Admin(cfg)!Codes]
    BY DEF Admin!Enroll, Admin!Typed, Admin!Doings, Admin!TypeOK
  <2>2. codes[a] = {}
    BY <2>1 DEF Admin!CodesApart, Admin!ShownCodesWork
  <2> QED BY <2>1, <2>2
<1>2. Admin(cfg)!Typed'
    BY <1>1 DEF Admin!Enroll, Admin!Typed, Admin!Doings, Admin!TypeOK, Admin!store, Admin!ghosts
<1>3. /\ Admin(cfg)!CodesApart' /\ Admin(cfg)!ShownCodesWork' /\ Admin(cfg)!CodeOnce'
      /\ \A r \in Pair : IF Admin(cfg)!Active(r)' THEN Admin(cfg)!Leaves(r)'
           ELSE login'[r].fresh = {}
      /\ \A r, o \in Pair : r # o => login'[r].fresh \cap login'[o].fresh = {}
  <2>1. \A b \in cfg.admins : (secret[b] => secret'[b]) /\ (~secret'[b] => ~secret[b])
    BY DEF Admin!Enroll, Admin!Typed, Admin!Doings, Admin!TypeOK
  <2>2. Admin(cfg)!CodesApart'
    BY <2>1 DEF Admin!Enroll, Admin!CodesApart, Admin!ghosts
  <2>3. Admin(cfg)!ShownCodesWork' /\ Admin(cfg)!CodeOnce'
    BY <1>1 DEF Admin!Enroll, Admin!ShownCodesWork, Admin!CodeOnce, Admin!ghosts
  <2>4. UNCHANGED <<codes, shown, spent, minted, login>>
    BY <1>1 DEF Admin!Enroll, Admin!ghosts
  <2> QED BY <2>2, <2>3, <2>4 DEF Admin!Active, Admin!Leaves
<1>4. Admin(cfg)!RowLocked'
  <2>1. \A b \in cfg.admins : secret[b] => secret'[b]
    BY DEF Admin!Enroll, Admin!Typed, Admin!Doings, Admin!TypeOK
  <2> QED BY <2>1 DEF Admin!Enroll, Admin!RowLocked, Admin!Active
<1>5. Admin(cfg)!IndexKept'
    BY DEF Admin!Enroll, Admin!IndexKept, Admin!store
<1> QED BY <1>2, <1>3, <1>4, <1>5

\* A verification locks the row and decides what codes it leaves.
LEMMA AdminVerifies ==
    ASSUME NEW cfg, Admin(cfg)!AdminAuthAssumption, Admin(cfg)!AdminInv, NEW r \in Pair,
           NEW a \in cfg.admins, Admin(cfg)!VerifyTotp(r, a) \/ Admin(cfg)!VerifyRecovery(r, a)
    PROVE  Admin(cfg)!AdminInv'
<1> USE DEF Admin!AdminInv
<1>1. /\ login[r].pc = "idle" /\ lock[a] = Nobody /\ secret[a]
      /\ lock' = [lock EXCEPT ![a] = r]
      /\ UNCHANGED <<secret, codes, live, owner, adminIndex, audited, shown, spent, ended, call,
           adminCrashes>>
    BY DEF Admin!VerifyTotp, Admin!VerifyRecovery, Admin!Free, Admin!account, Admin!store,
           Admin!ghosts
<1>2. /\ codes[a] \subseteq Admin(cfg)!Codes /\ minted \in 0 .. cfg.batches /\ cfg.batches \in Nat
      /\ \A c \in Admin(cfg)!Codes : c[1] \in Nat /\ c # <<>>
      /\ shown \in [cfg.admins -> SUBSET Admin(cfg)!Codes]
    BY AdminCodeNames DEF Admin!Typed, Admin!Doings, Admin!TypeOK, Admin!AdminAuthAssumption
<1> DEFINE Kinds == [pc : {"idle", "verified", "found", "revoked", "opened"},
                     admin : cfg.admins \cup {Nobody}, code : Admin(cfg)!Codes \cup {<<>>},
                     codes : SUBSET Admin(cfg)!Codes, fresh : SUBSET Admin(cfg)!Codes,
                     found : SUBSET cfg.sids, sid : cfg.sids \cup {Nobody}]
<1>3. PICK does \in Kinds :
         /\ login' = [login EXCEPT ![r] = does] /\ does.pc = "verified" /\ does.admin = a
         /\ minted' \in minted .. cfg.batches
         /\ \/ does.code = <<>> /\ does.fresh = {} /\ does.codes = codes[a]
            \/ /\ does.code \in codes[a] /\ does.fresh = {}
               /\ does.codes = codes[a] \ {does.code}
            \/ /\ does.code = <<>> /\ codes[a] = {} /\ does.codes = does.fresh
               /\ \A c \in does.fresh : minted < c[1] /\ c[1] <= minted'
  <2>1. CASE Admin(cfg)!VerifyTotp(r, a)
    <3> DEFINE after == Admin(cfg)!Finalize(codes[a], minted + 1)
               does == [Admin(cfg)!NoLogin EXCEPT !.pc = "verified", !.admin = a, !.codes = after,
                                       !.fresh = after \ codes[a]]
    <3>1. /\ login' = [login EXCEPT ![r] = does]
          /\ after # codes[a] => minted < cfg.batches
          /\ minted' = IF after # codes[a] THEN minted + 1 ELSE minted
      BY <2>1 DEF Admin!VerifyTotp
    <3>2. ASSUME after \in SUBSET Admin(cfg)!Codes
          PROVE  /\ does \in Kinds /\ does.pc = "verified" /\ does.admin = a /\ does.code = <<>>
                 /\ does.codes = after /\ does.fresh = after \ codes[a]
      <4> HIDE DEF after
      <4> QED BY <3>2 DEF Admin!NoLogin
    <3>3. CASE after = codes[a]
      <4> HIDE DEF after, does
      <4>1. after \ codes[a] = {} /\ minted' \in minted .. cfg.batches
        BY <1>2, <3>1, <3>3
      <4> QED BY <1>2, <3>1, <3>2, <3>3, <4>1
    <3>4. CASE after # codes[a]
      <4>1. codes[a] = {} /\ after = {<<minted + 1, s>> : s \in Two}
        BY <3>4 DEF Admin!Finalize
      <4>2. after \subseteq Admin(cfg)!Codes /\ \A c \in after : c[1] = minted + 1
        BY <1>2, <3>1, <3>4, <4>1 DEF Admin!Codes
      <4> HIDE DEF after, does
      <4>3. minted' = minted + 1 /\ minted' \in minted .. cfg.batches /\ after \ codes[a] = after
        BY <1>2, <3>1, <3>4, <4>1
      <4>4. \A c \in after : minted < c[1] /\ c[1] <= minted'
        BY <1>2, <4>2, <4>3
      <4> QED BY <3>1, <3>2, <4>1, <4>2, <4>3, <4>4, ZenonT(40)
    <3> QED BY <3>3, <3>4
  <2>2. CASE Admin(cfg)!VerifyRecovery(r, a)
    <3>1. PICK c \in codes[a] : login' = [login EXCEPT ![r] =
               [Admin(cfg)!NoLogin EXCEPT !.pc = "verified", !.admin = a, !.code = c,
                               !.codes = codes[a] \ {c}]]
      BY <2>2 DEF Admin!VerifyRecovery
    <3> DEFINE does == [Admin(cfg)!NoLogin EXCEPT !.pc = "verified", !.admin = a, !.code = c,
                                       !.codes = codes[a] \ {c}]
    <3>2. /\ does \in Kinds /\ does.pc = "verified" /\ does.admin = a /\ does.code = c
          /\ does.codes = codes[a] \ {c} /\ does.fresh = {}
      BY <1>2 DEF Admin!NoLogin
    <3> HIDE DEF does
    <3>3. minted' = minted
      BY <2>2 DEF Admin!VerifyRecovery
    <3>4. minted' \in minted .. cfg.batches
      BY <1>2, <3>3
    <3>5. login' = [login EXCEPT ![r] = does]
      BY <3>1 DEF does
    <3> QED BY <3>2, <3>4, <3>5
  <2> QED BY <2>1, <2>2
<1>4. login'[r] = does /\ \A o \in Pair \ {r} : login'[o] = login[o]
    BY <1>3 DEF Admin!Typed, Admin!Doings
<1>5. Admin(cfg)!Typed'
  <2>1. login' \in [Pair -> Kinds]
    BY <1>3 DEF Admin!Typed, Admin!Doings
  <2>2. minted' \in 0 .. cfg.batches
    BY <1>2, <1>3
  <2>3. lock' \in [cfg.admins -> Pair \cup {Nobody}]
    BY <1>1 DEF Admin!Typed, Admin!Doings, Admin!TypeOK
  <2> QED BY <1>1, <2>1, <2>2, <2>3 DEF Admin!Typed, Admin!Doings, Admin!TypeOK
<1>6. Admin(cfg)!RowLocked'
  <2>1. \A o \in Pair : Admin(cfg)!Active(o) => login[o].admin # a
    BY <1>1 DEF Admin!RowLocked, Admin!AdminAuthAssumption
  <2>2. lock'[a] = r /\ \A b \in cfg.admins \ {a} : lock'[b] = lock[b]
    BY <1>1, ZenonT(40) DEF Admin!Typed, Admin!Doings, Admin!TypeOK
  <2>3. \A b \in cfg.admins : lock[b] # r
    BY <1>1 DEF Admin!RowLocked, Admin!Active
  <2>4. \A o \in Pair :
           Admin(cfg)!Active(o)' => login'[o].admin \in cfg.admins /\ secret'[login'[o].admin]
    BY <1>1, <1>3, <1>4 DEF Admin!RowLocked, Admin!Active
  <2>5. ASSUME NEW o \in Pair, NEW b \in cfg.admins
        PROVE  lock'[b] = o <=> Admin(cfg)!Active(o)' /\ login'[o].admin = b
    <3>1. CASE o = r
      BY <1>3, <1>4, <2>2, <2>3, <3>1 DEF Admin!Active
    <3>2. CASE o # r
      BY <1>4, <2>1, <2>2, <3>2 DEF Admin!RowLocked, Admin!Active
    <3> QED BY <3>1, <3>2
  <2> QED BY <2>4, <2>5 DEF Admin!RowLocked
<1>7. Admin(cfg)!CodesApart' /\ Admin(cfg)!ShownCodesWork' /\ Admin(cfg)!CodeOnce'
    BY <1>1, <1>2, <1>3 DEF Admin!CodesApart, Admin!ShownCodesWork, Admin!CodeOnce
<1>8. ASSUME NEW o \in Pair
      PROVE  IF Admin(cfg)!Active(o)' THEN Admin(cfg)!Leaves(o)' ELSE login'[o].fresh = {}
  <2>1. CASE o # r
    <3>1. /\ login'[o] = login[o] /\ login[o].fresh \subseteq Admin(cfg)!Codes
          /\ IF Admin(cfg)!Active(o) THEN Admin(cfg)!Leaves(o) ELSE login[o].fresh = {}
      BY <1>4, <2>1 DEF Admin!Typed, Admin!Doings
    <3> QED BY <1>1, <1>2, <1>3, <3>1 DEF Admin!Active, Admin!Leaves
  <2>2. CASE o = r
    <3>1. ASSUME NEW c \in does.fresh, minted < c[1]
          PROVE  spent[c] = 0 /\ \A b \in cfg.admins : c \notin shown[b]
      BY <1>2, <3>1 DEF Admin!CodesApart
    <3> QED BY <1>1, <1>3, <1>4, <2>2, <3>1 DEF Admin!Active, Admin!Leaves
  <2> QED BY <2>1, <2>2
<1>9. ASSUME NEW o \in Pair \ {r} PROVE login[o].fresh \cap does.fresh = {}
  <2>1. \A c \in login[o].fresh :
           c \in Admin(cfg)!Codes /\ (Admin(cfg)!Active(o) => c[1] <= minted)
    BY <1>2 DEF Admin!Leaves, Admin!Typed, Admin!Doings
  <2>2. CASE Admin(cfg)!Active(o)
    BY <1>2, <1>3, <2>1, <2>2
  <2>3. CASE ~Admin(cfg)!Active(o)
    BY <2>3
  <2> QED BY <2>2, <2>3
<1>10. \A p, o \in Pair : p # o => login'[p].fresh \cap login'[o].fresh = {}
    BY <1>4, <1>9
<1>11. Admin(cfg)!IndexKept'
    BY <1>1, <1>3, <1>4 DEF Admin!IndexKept
<1> QED BY <1>5, <1>6, <1>7, <1>8, <1>10, <1>11

\* The next step of a login: nothing changes but the session store.
LEMMA AdminProceeds ==
    ASSUME NEW cfg, Admin(cfg)!AdminAuthAssumption, Admin(cfg)!AdminInv, NEW r \in Pair,
           Admin(cfg)!Active(r), NEW does \in Admin(cfg)!Doings,
           login' = [login EXCEPT ![r] = does], does.pc # "idle", does.admin = login[r].admin,
           does.code = login[r].code, does.codes = login[r].codes, does.fresh = login[r].fresh,
           UNCHANGED <<secret, codes, lock, audited, shown, spent, minted, call, adminCrashes>>,
           live' \subseteq cfg.sids, owner' \in [cfg.sids -> cfg.admins \cup {Nobody}],
           adminIndex' \in [cfg.admins -> SUBSET cfg.sids], ended' \subseteq cfg.sids,
           Admin(cfg)!IndexKept'
    PROVE  Admin(cfg)!AdminInv'
<1>1. login' \in [Pair -> Admin(cfg)!Doings] /\ login'[r] = does
      /\ \A o \in Pair \ {r} : login'[o] = login[o]
    BY DEF Admin!AdminInv, Admin!Typed, Admin!Doings
<1>2. \A o \in Pair :
         /\ login'[o].pc \in {"idle", "verified", "found", "revoked", "opened"}
         /\ login'[o].sid \in cfg.sids \cup {Nobody}
    BY <1>1 DEF Admin!Doings
<1>3. Admin(cfg)!Typed'
    BY <1>1, <1>2 DEF Admin!AdminInv, Admin!Typed, Admin!Doings, Admin!TypeOK
<1>4. \A o \in Pair :
         (Admin(cfg)!Active(o)' <=> Admin(cfg)!Active(o)) /\ login'[o].admin = login[o].admin
         /\ login'[o].code = login[o].code /\ login'[o].codes = login[o].codes
         /\ login'[o].fresh = login[o].fresh
    BY <1>1 DEF Admin!Active
<1>5. Admin(cfg)!RowLocked'
    BY <1>4 DEF Admin!AdminInv, Admin!RowLocked
<1>6. minted' \in Nat /\ minted' >= minted
  <2>1. minted \in 0 .. cfg.batches
    BY DEF Admin!AdminInv, Admin!Typed, Admin!Doings, Admin!TypeOK
  <2> QED BY <2>1 DEF Admin!AdminAuthAssumption
<1>7. \A o \in Pair :
        \/ /\ Admin(cfg)!Active(o) /\ Admin(cfg)!Active(o)' /\ login'[o].admin = login[o].admin
           /\ login'[o].code = login[o].code /\ login'[o].codes = login[o].codes
           /\ login'[o].fresh = login[o].fresh
        \/ ~Admin(cfg)!Active(o)' /\ login'[o].fresh = {}
    BY <1>4 DEF Admin!AdminInv
<1>8. /\ Admin(cfg)!CodesApart' /\ Admin(cfg)!ShownCodesWork' /\ Admin(cfg)!CodeOnce'
      /\ \A o \in Pair : IF Admin(cfg)!Active(o)' THEN Admin(cfg)!Leaves(o)'
           ELSE login'[o].fresh = {}
      /\ \A o, p \in Pair : o # p => login'[o].fresh \cap login'[p].fresh = {}
    BY <1>6, <1>7, AdminCodesKept
<1> QED BY <1>3, <1>5, <1>8 DEF Admin!AdminInv

\* The logins before the second factor's row is unlocked, one at most of each administrator.
LEMMA AdminAlone ==
    ASSUME NEW cfg, Admin(cfg)!AdminAuthAssumption, Admin(cfg)!AdminInv, NEW r \in Pair,
           Admin(cfg)!Active(r)
    PROVE  /\ login[r] \in Admin(cfg)!Doings /\ login[r].admin \in cfg.admins
           /\ login[r].found \in SUBSET cfg.sids
           /\ \A o \in Pair \ {r} : Admin(cfg)!Active(o) =>
                login[o].admin \in cfg.admins \ {login[r].admin}
           /\ login \in [Pair -> Admin(cfg)!Doings]
           /\ live \subseteq cfg.sids /\ owner \in [cfg.sids -> cfg.admins \cup {Nobody}]
           /\ adminIndex \in [cfg.admins -> SUBSET cfg.sids] /\ ended \subseteq cfg.sids
           /\ Admin(cfg)!IndexKept
<1>1. Admin(cfg)!Typed /\ Admin(cfg)!RowLocked /\ Admin(cfg)!IndexKept
    BY DEF Admin!AdminInv
<1>2. login \in [Pair -> Admin(cfg)!Doings] /\ login[r] \in Admin(cfg)!Doings
      /\ login[r].found \in SUBSET cfg.sids
    BY <1>1 DEF Admin!Typed, Admin!Doings
<1>3. login[r].admin \in cfg.admins
      /\ \A o \in Pair \ {r} : Admin(cfg)!Active(o) =>
           login[o].admin \in cfg.admins \ {login[r].admin}
    BY <1>1 DEF Admin!RowLocked
<1> QED BY <1>1, <1>2, <1>3 DEF Admin!Typed, Admin!Doings, Admin!TypeOK

\* Revoking and opening sessions: a login that holds the row is alone with its index.
LEMMA AdminSessions ==
    ASSUME NEW cfg, Admin(cfg)!AdminAuthAssumption, Admin(cfg)!AdminInv, NEW r \in Pair,
           Admin(cfg)!FindSessions(r) \/ Admin(cfg)!RevokeFound(r) \/ Admin(cfg)!OpenSession(r)
    PROVE  Admin(cfg)!AdminInv'
<1> DEFINE a == login[r].admin
<1>1. Admin(cfg)!Active(r)
    BY DEF Admin!FindSessions, Admin!RevokeFound, Admin!OpenSession, Admin!Active
<1>2. /\ login[r] \in Admin(cfg)!Doings /\ a \in cfg.admins /\ login[r].found \in SUBSET cfg.sids
      /\ \A o \in Pair \ {r} : Admin(cfg)!Active(o) => login[o].admin \in cfg.admins \ {a}
      /\ login \in [Pair -> Admin(cfg)!Doings]
      /\ live \subseteq cfg.sids /\ owner \in [cfg.sids -> cfg.admins \cup {Nobody}]
      /\ adminIndex \in [cfg.admins -> SUBSET cfg.sids] /\ ended \subseteq cfg.sids
      /\ Admin(cfg)!IndexKept
    BY <1>1, AdminAlone
<1>3. CASE Admin(cfg)!FindSessions(r)
  <2> DEFINE does == [login[r] EXCEPT !.pc = "found", !.found = adminIndex[a]]
  <2>1. /\ does \in Admin(cfg)!Doings /\ does.pc = "found" /\ does.found = adminIndex[a]
        /\ does.admin = a /\ does.code = login[r].code
        /\ does.codes = login[r].codes /\ does.fresh = login[r].fresh
    BY <1>2 DEF Admin!Doings
  <2>2. /\ login' = [login EXCEPT ![r] = does]
        /\ UNCHANGED <<secret, codes, lock, live, owner, adminIndex, ended, audited, shown, spent,
             minted,
                       call, adminCrashes>>
    BY <1>2, <1>3 DEF Admin!FindSessions, Admin!account, Admin!store, Admin!ghosts
  <2> HIDE DEF does
  <2>3. login'[r] = does /\ \A o \in Pair \ {r} : login'[o] = login[o]
    BY <1>2, <2>2
  <2>4. \A o \in Pair :
          /\ login'[o].pc = "found" => adminIndex'[login'[o].admin] \subseteq login'[o].found
          /\ login'[o].pc = "revoked" => adminIndex'[login'[o].admin] = {}
          /\ login'[o].pc = "opened" => login'[o].sid \in cfg.sids
    BY <1>2, <2>1, <2>2, <2>3, SMTT(30) DEF Admin!IndexKept
  <2>5. Admin(cfg)!IndexKept'
    BY <1>2, <2>2, <2>4 DEF Admin!IndexKept
  <2> QED BY <1>1, <1>2, <2>1, <2>2, <2>5, AdminProceeds
<1>4. CASE Admin(cfg)!RevokeFound(r)
  <2> DEFINE does == [login[r] EXCEPT !.pc = "revoked"]
  <2>1. /\ does \in Admin(cfg)!Doings /\ does.pc = "revoked"
        /\ does.admin = a /\ does.code = login[r].code
        /\ does.codes = login[r].codes /\ does.fresh = login[r].fresh
    BY <1>2 DEF Admin!Doings
  <2>2. /\ login' = [login EXCEPT ![r] = does] /\ login[r].pc = "found"
        /\ live' = live \ login[r].found /\ ended' = ended \cup login[r].found
        /\ adminIndex' = IF login[r].found = {} THEN adminIndex ELSE [adminIndex EXCEPT ![a] = {}]
        /\ UNCHANGED <<secret, codes, lock, owner, audited, shown, spent, minted, call,
             adminCrashes>>
    BY <1>2, <1>4 DEF Admin!RevokeFound, Admin!account, Admin!store, Admin!ghosts
  <2> HIDE DEF does
  <2>3. login'[r] = does /\ \A o \in Pair \ {r} : login'[o] = login[o]
    BY <1>2, <2>2
  <2>4. /\ adminIndex' \in [cfg.admins -> SUBSET cfg.sids] /\ adminIndex'[a] = {}
        /\ \A b \in cfg.admins \ {a} : adminIndex'[b] = adminIndex[b]
    BY <1>2, <2>2 DEF Admin!IndexKept
  <2>5. \A o \in Pair :
          /\ login'[o].pc = "found" => adminIndex'[login'[o].admin] \subseteq login'[o].found
          /\ login'[o].pc = "revoked" => adminIndex'[login'[o].admin] = {}
          /\ login'[o].pc = "opened" => login'[o].sid \in cfg.sids
    BY <1>2, <2>1, <2>3, <2>4 DEF Admin!IndexKept, Admin!Active
  <2>6. ASSUME cfg.calls = {}, NEW s \in live' PROVE s \in adminIndex'[owner'[s]]
    <3>1. s \in adminIndex[owner[s]] /\ owner[s] \in cfg.admins /\ owner[s] # a
      BY <1>2, <2>2, <2>6 DEF Admin!IndexKept
    <3> QED BY <2>2, <2>4, <3>1
  <2>7. Admin(cfg)!IndexKept'
    BY <1>2, <2>2, <2>4, <2>5, <2>6 DEF Admin!IndexKept
  <2> QED BY <1>1, <1>2, <2>1, <2>2, <2>4, <2>7, AdminProceeds
<1>5. CASE Admin(cfg)!OpenSession(r)
  <2>1. PICK s \in cfg.sids :
          /\ login[r].pc = "revoked" /\ owner[s] = Nobody
          /\ live' = live \cup {s}
          /\ owner' = [owner EXCEPT ![s] = a]
          /\ adminIndex' = [adminIndex EXCEPT ![a] = @ \cup {s}]
          /\ login' = [login EXCEPT ![r].pc = "opened", ![r].sid = s]
    BY <1>5 DEF Admin!OpenSession
  <2> DEFINE does == [login[r] EXCEPT !.pc = "opened", !.sid = s]
  <2>2. /\ does \in Admin(cfg)!Doings /\ does.pc = "opened" /\ does.sid = s
        /\ does.admin = a /\ does.code = login[r].code
        /\ does.codes = login[r].codes /\ does.fresh = login[r].fresh
    BY <1>2 DEF Admin!Doings
  <2>3. login' = [login EXCEPT ![r] = does]
    BY <1>2, <2>1
  <2>4. UNCHANGED <<secret, codes, lock, ended, audited, shown, spent, minted, call,
        adminCrashes>>
    BY <1>5 DEF Admin!OpenSession, Admin!account, Admin!ghosts
  <2> HIDE DEF does
  <2>5. login'[r] = does /\ \A o \in Pair \ {r} : login'[o] = login[o]
    BY <1>2, <2>3
  <2>6. /\ live' \subseteq cfg.sids /\ owner' \in [cfg.sids -> cfg.admins \cup {Nobody}]
        /\ owner'[s] = a /\ \A x \in cfg.sids \ {s} : owner'[x] = owner[x]
        /\ adminIndex' \in [cfg.admins -> SUBSET cfg.sids] /\ adminIndex[a] = {}
        /\ adminIndex'[a] = {s}
        /\ \A b \in cfg.admins \ {a} : adminIndex'[b] = adminIndex[b]
    BY <1>2, <2>1 DEF Admin!IndexKept
  <2>7. \A o \in Pair :
          /\ login'[o].pc = "found" => adminIndex'[login'[o].admin] \subseteq login'[o].found
          /\ login'[o].pc = "revoked" => adminIndex'[login'[o].admin] = {}
          /\ login'[o].pc = "opened" => login'[o].sid \in cfg.sids
    BY <1>2, <2>2, <2>5, <2>6 DEF Admin!IndexKept, Admin!Active
  <2>8. ASSUME cfg.calls = {}, NEW x \in live' PROVE x \in adminIndex'[owner'[x]]
    <3>1. x = s
          \/ (x # s /\ x \in adminIndex[owner[x]] /\ owner[x] \in cfg.admins /\ owner[x] # a)
      BY <1>2, <2>1, <2>6, <2>8 DEF Admin!IndexKept
    <3> QED BY <1>2, <2>6, <3>1
  <2>9. Admin(cfg)!IndexKept'
    <3>1. \A x \in live' : owner'[x] # Nobody
      BY <1>2, <2>1, <2>6 DEF Admin!IndexKept, Admin!AdminAuthAssumption
    <3>2. \A c \in cfg.calls :
             call'[c].pc # "idle" => call'[c].sid \in cfg.sids /\ owner'[call'[c].sid] # Nobody
      BY <1>2, <2>1, <2>4, <2>6 DEF Admin!IndexKept
    <3>3. \A b \in cfg.admins : \A x, y \in adminIndex'[b] : x = y
      BY <1>2, <2>6 DEF Admin!IndexKept
    <3> QED BY <2>7, <2>8, <3>1, <3>2, <3>3 DEF Admin!IndexKept
  <2> QED BY <1>1, <1>2, <2>2, <2>3, <2>4, <2>6, <2>9, AdminProceeds
<1> QED BY <1>3, <1>4, <1>5

\* A login is over: the row is unlocked, the sessions stay as they are.
LEMMA AdminUnlocks ==
    ASSUME NEW cfg, Admin(cfg)!AdminAuthAssumption, Admin(cfg)!AdminInv, NEW r \in Pair,
           Admin(cfg)!Active(r), Admin(cfg)!Unlock(r),
           login' = [login EXCEPT ![r] = Admin(cfg)!NoLogin],
           UNCHANGED <<secret, live, owner, adminIndex, ended, minted, call>>, Admin(cfg)!TypeOK'
    PROVE  /\ Admin(cfg)!Typed' /\ Admin(cfg)!RowLocked' /\ Admin(cfg)!IndexKept'
           /\ login'[r].fresh = {} /\ ~Admin(cfg)!Active(r)'
           /\ \A o \in Pair \ {r} : login'[o] = login[o]
<1> USE DEF Admin!AdminInv
<1>1. Admin(cfg)!NoLogin \in [pc : {"idle", "verified", "found", "revoked", "opened"},
                   admin : cfg.admins \cup {Nobody}, code : Admin(cfg)!Codes \cup {<<>>},
                   codes : SUBSET Admin(cfg)!Codes, fresh : SUBSET Admin(cfg)!Codes,
                   found : SUBSET cfg.sids, sid : cfg.sids \cup {Nobody}]
    BY DEF Admin!NoLogin
<1>2. login'[r].pc = "idle" /\ login'[r].fresh = {} /\ \A o \in Pair \ {r} : login'[o] = login[o]
    BY DEF Admin!Typed, Admin!Doings, Admin!NoLogin
<1>3. Admin(cfg)!Typed'
    BY <1>1 DEF Admin!Typed, Admin!Doings
<1>4. Admin(cfg)!RowLocked'
  <2>1. \A a \in cfg.admins : lock'[a] = IF lock[a] = r THEN Nobody ELSE lock[a]
    BY DEF Admin!Unlock
  <2>2. ASSUME NEW o \in Pair, NEW a \in cfg.admins
        PROVE  lock'[a] = o <=> Admin(cfg)!Active(o)' /\ login'[o].admin = a
    <3>1. o # Nobody
      BY DEF Admin!AdminAuthAssumption
    <3> QED BY <1>2, <2>1, <3>1 DEF Admin!RowLocked, Admin!Active
  <2> QED BY <1>2, <2>2 DEF Admin!RowLocked, Admin!Active
<1>5. Admin(cfg)!IndexKept'
    BY <1>2 DEF Admin!IndexKept
<1> QED BY <1>2, <1>3, <1>4, <1>5 DEF Admin!Active

\* The codes of a committed login are those it decided on.
LEMMA AdminCommits ==
    ASSUME NEW cfg, Admin(cfg)!AdminAuthAssumption, Admin(cfg)!AdminInv, NEW r \in Pair,
           Admin(cfg)!CommitLogin(r)
    PROVE  Admin(cfg)!AdminInv'
<1> USE DEF Admin!AdminInv
<1> DEFINE a == login[r].admin
           c == login[r].code
<1>1. /\ Admin(cfg)!Active(r) /\ Admin(cfg)!Leaves(r) /\ a \in cfg.admins /\ secret[a]
      /\ login[r].codes \subseteq Admin(cfg)!Codes /\ login[r].fresh \subseteq Admin(cfg)!Codes
      /\ login[r].sid \in cfg.sids \cup {Nobody}
    BY DEF Admin!CommitLogin, Admin!Active, Admin!RowLocked, Admin!Typed, Admin!Doings
<1>2. \A o \in Pair \ {r} : Admin(cfg)!Active(o) => login[o].admin # a
    BY <1>1 DEF Admin!RowLocked
<1>3. /\ codes \in [cfg.admins -> SUBSET Admin(cfg)!Codes]
      /\ shown \in [cfg.admins -> SUBSET Admin(cfg)!Codes]
      /\ spent \in [Admin(cfg)!Codes -> Nat] /\ audited \subseteq cfg.sids
      /\ lock \in [cfg.admins -> Pair \cup {Nobody}]
      /\ minted \in 0 .. cfg.batches
    BY DEF Admin!Typed, Admin!Doings, Admin!TypeOK
<1>4. /\ codes' = [codes EXCEPT ![a] = login[r].codes]
      /\ shown' = [shown EXCEPT ![a] = @ \cup login[r].fresh]
      /\ spent' = IF c = <<>> THEN spent ELSE [spent EXCEPT ![c] = @ + 1]
      /\ audited' = audited \cup {login[r].sid} /\ Admin(cfg)!Unlock(r)
      /\ login' = [login EXCEPT ![r] = Admin(cfg)!NoLogin]
      /\ UNCHANGED <<secret, live, owner, adminIndex, ended, minted, call, adminCrashes>>
    BY DEF Admin!CommitLogin, Admin!store
<1>5. login'[r] = Admin(cfg)!NoLogin /\ ~Admin(cfg)!Active(r)' /\ login'[r].fresh = {}
      /\ \A o \in Pair \ {r} : login'[o] = login[o]
    BY <1>4 DEF Admin!Typed, Admin!Doings, Admin!NoLogin, Admin!Active
<1>6. Admin(cfg)!TypeOK'
  <2>1. codes' \in [cfg.admins -> SUBSET Admin(cfg)!Codes]
        /\ shown' \in [cfg.admins -> SUBSET Admin(cfg)!Codes]
    BY <1>1, <1>3, <1>4
  <2>2. spent' \in [Admin(cfg)!Codes -> Nat]
    <3>1. c = <<>> \/ c \in Admin(cfg)!Codes
      BY <1>1 DEF Admin!Typed, Admin!Doings
    <3> QED BY <1>3, <1>4, <3>1
  <2>3. audited' \subseteq cfg.sids
    BY <1>1, <1>3, <1>4 DEF Admin!CommitLogin, Admin!IndexKept
  <2>4. lock' \in [cfg.admins -> Pair \cup {Nobody}]
    BY <1>3, <1>4 DEF Admin!Unlock
  <2>5. \A o \in Pair :
           /\ login'[o].pc \in {"idle", "verified", "found", "revoked", "opened"}
           /\ login'[o].sid \in cfg.sids \cup {Nobody}
    <3>1. login'[r].pc = "idle" /\ login'[r].sid = Nobody
      BY <1>5 DEF Admin!NoLogin
    <3>2. \A o \in Pair \ {r} : login[o] \in Admin(cfg)!Doings
      BY DEF Admin!Typed
    <3> QED BY <1>5, <3>1, <3>2 DEF Admin!Doings
  <2> QED BY <1>4, <2>1, <2>2, <2>3, <2>4, <2>5 DEF Admin!Typed, Admin!Doings, Admin!TypeOK
<1>7. Admin(cfg)!Typed' /\ Admin(cfg)!RowLocked' /\ Admin(cfg)!IndexKept'
    BY <1>1, <1>4, <1>6, AdminUnlocks
<1>8. /\ \A b \in cfg.admins \ {a} : codes'[b] = codes[b] /\ shown'[b] = shown[b]
      /\ codes'[a] = login[r].codes /\ shown'[a] = shown[a] \cup login[r].fresh
    BY <1>1, <1>3, <1>4
<1>9. \A x, y \in cfg.admins : \A k \in login[r].fresh : k \in shown[x] => FALSE
    BY <1>1 DEF Admin!Leaves
<1>10. \A x \in Admin(cfg)!Codes : x[1] \in Nat /\ x # <<>>
    BY AdminCodeNames
<1>11. /\ Admin(cfg)!CodesApart' /\ Admin(cfg)!ShownCodesWork' /\ Admin(cfg)!CodeOnce'
       /\ \A o \in Pair \ {r} : \A x \in login[o].fresh :
             Admin(cfg)!Active(o) => spent'[x] = 0 /\ \A b \in cfg.admins : x \notin shown'[b]
  <2>1. CASE c = <<>> /\ login[r].fresh = {} /\ login[r].codes = codes[a]
    <3>1. UNCHANGED <<codes, shown, spent, minted, secret>>
      BY <1>3, <1>4, <1>8, <2>1
    <3>2. \A o \in Pair \ {r} : \A x \in login[o].fresh :
             Admin(cfg)!Active(o) => spent'[x] = 0 /\ \A b \in cfg.admins : x \notin shown'[b]
      BY <3>1 DEF Admin!Leaves
    <3> QED BY <3>1, <3>2 DEF Admin!CodesApart, Admin!ShownCodesWork, Admin!CodeOnce
  <2>2. CASE /\ c \in codes[a] /\ login[r].fresh = {} /\ login[r].codes = codes[a] \ {c}
    <3>1. c \in Admin(cfg)!Codes /\ c \in shown[a] /\ spent[c] = 0 /\ c # <<>>
      BY <1>1, <1>3, <1>10, <2>2 DEF Admin!ShownCodesWork
    <3>2. /\ shown' = shown /\ spent'[c] = 1
          /\ \A x \in Admin(cfg)!Codes \ {c} : spent'[x] = spent[x]
      BY <1>3, <1>4, <1>8, <2>2, <3>1
    <3>3. Admin(cfg)!CodesApart'
      <4>1. minted' = minted /\ secret' = secret /\ c[1] <= minted /\ minted \in Nat
        BY <1>1, <1>3, <1>4, <3>1 DEF Admin!CodesApart
      <4>2. \A x \in Admin(cfg)!Codes : x[1] > minted => spent'[x] = 0
        BY <1>10, <3>1, <3>2, <4>1 DEF Admin!CodesApart
      <4> QED BY <3>2, <4>1, <4>2 DEF Admin!CodesApart
    <3>4. \A b \in cfg.admins : codes'[b] = {x \in shown'[b] : spent'[x] = 0}
      BY <1>1, <1>3, <1>8, <2>2, <3>1, <3>2 DEF Admin!ShownCodesWork, Admin!CodesApart
    <3>5. Admin(cfg)!CodeOnce'
      BY <1>3, <3>1, <3>2 DEF Admin!CodeOnce
    <3>6. \A o \in Pair \ {r} : \A x \in login[o].fresh :
             Admin(cfg)!Active(o) => spent'[x] = 0 /\ \A b \in cfg.admins : x \notin shown'[b]
      <4>1. ASSUME NEW o \in Pair \ {r}, NEW x \in login[o].fresh, Admin(cfg)!Active(o)
            PROVE  /\ x \in Admin(cfg)!Codes /\ spent[x] = 0
                   /\ \A b \in cfg.admins : x \notin shown[b]
        BY <4>1 DEF Admin!Leaves, Admin!Typed, Admin!Doings
      <4> QED BY <1>1, <3>1, <3>2, <4>1
    <3> QED BY <3>3, <3>4, <3>5, <3>6 DEF Admin!ShownCodesWork
  <2>3. CASE /\ c = <<>> /\ codes[a] = {} /\ login[r].codes = login[r].fresh
             /\ \A x \in login[r].fresh :
                  spent[x] = 0 /\ x[1] <= minted /\ \A b \in cfg.admins : x \notin shown[b]
    <3>1. UNCHANGED <<spent, minted, secret>>
      BY <1>4, <2>3
    <3>2. Admin(cfg)!CodesApart'
      BY <1>1, <1>3, <1>8, <2>3, <3>1 DEF Admin!CodesApart
    <3>3. \A b \in cfg.admins : codes'[b] = {x \in shown'[b] : spent'[x] = 0}
      BY <1>1, <1>3, <1>8, <2>3, <3>1 DEF Admin!ShownCodesWork
    <3>4. \A o \in Pair \ {r} : \A x \in login[o].fresh :
             Admin(cfg)!Active(o) => spent'[x] = 0 /\ \A b \in cfg.admins : x \notin shown'[b]
      BY <1>1, <1>8, <3>1 DEF Admin!Leaves
    <3> QED BY <3>1, <3>2, <3>3, <3>4 DEF Admin!ShownCodesWork, Admin!CodeOnce
  <2> QED BY <1>1, <2>1, <2>2, <2>3 DEF Admin!Leaves
<1>12. ASSUME NEW o \in Pair
       PROVE  IF Admin(cfg)!Active(o)' THEN Admin(cfg)!Leaves(o)' ELSE login'[o].fresh = {}
  <2>1. CASE o = r
    BY <1>5, <2>1
  <2>2. CASE o # r /\ Admin(cfg)!Active(o)
    <3>1. codes'[login[o].admin] = codes[login[o].admin] /\ login'[o] = login[o]
          /\ Admin(cfg)!Leaves(o)
      BY <1>2, <1>5, <1>8, <2>2 DEF Admin!RowLocked
    <3>2. \A x \in login[o].fresh : spent'[x] = 0 /\ \A b \in cfg.admins : x \notin shown'[b]
      BY <1>11, <2>2
    <3>3. minted' = minted
      BY <1>4
    <3> QED BY <2>2, <3>1, <3>2, <3>3 DEF Admin!Leaves, Admin!Active
  <2>3. CASE o # r /\ ~Admin(cfg)!Active(o)
    BY <1>5, <2>3 DEF Admin!Active
  <2> QED BY <2>1, <2>2, <2>3
<1>13. \A o, p \in Pair : o # p => login'[o].fresh \cap login'[p].fresh = {}
    BY <1>5
<1> QED BY <1>7, <1>11, <1>12, <1>13

\* A login that is cut off leaves the codes as they were.
LEMMA AdminAborts ==
    ASSUME NEW cfg, Admin(cfg)!AdminAuthAssumption, Admin(cfg)!AdminInv, NEW r \in Pair,
           Admin(cfg)!AbortLogin(r)
    PROVE  Admin(cfg)!AdminInv'
<1> USE DEF Admin!AdminInv
<1>1. /\ Admin(cfg)!Active(r) /\ Admin(cfg)!Unlock(r)
      /\ login' = [login EXCEPT ![r] = Admin(cfg)!NoLogin]
      /\ adminCrashes' = adminCrashes + 1 /\ adminCrashes < cfg.crashes
      /\ UNCHANGED <<secret, codes, live, owner, adminIndex, audited, shown, spent, ended, minted,
           call>>
    BY DEF Admin!AbortLogin, Admin!Active, Admin!account, Admin!store, Admin!ghosts
<1>2. login'[r] = Admin(cfg)!NoLogin /\ ~Admin(cfg)!Active(r)' /\ login'[r].fresh = {}
      /\ \A o \in Pair \ {r} : login'[o] = login[o]
    BY <1>1 DEF Admin!Typed, Admin!Doings, Admin!NoLogin, Admin!Active
<1>3. Admin(cfg)!TypeOK'
  <2>1. lock' \in [cfg.admins -> Pair \cup {Nobody}]
    BY <1>1 DEF Admin!Unlock, Admin!Typed, Admin!Doings, Admin!TypeOK
  <2>2. adminCrashes' \in 0 .. cfg.crashes
    <3>1. adminCrashes \in 0 .. cfg.crashes
      BY DEF Admin!Typed, Admin!Doings, Admin!TypeOK
    <3> QED BY <1>1, <3>1 DEF Admin!AdminAuthAssumption
  <2>3. \A o \in Pair :
           /\ login'[o].pc \in {"idle", "verified", "found", "revoked", "opened"}
           /\ login'[o].sid \in cfg.sids \cup {Nobody}
    <3>1. login'[r].pc = "idle" /\ login'[r].sid = Nobody
      BY <1>2 DEF Admin!NoLogin
    <3>2. \A o \in Pair \ {r} : login[o] \in Admin(cfg)!Doings
      BY DEF Admin!Typed
    <3> QED BY <1>2, <3>1, <3>2 DEF Admin!Doings
  <2> QED BY <1>1, <2>1, <2>2, <2>3 DEF Admin!Typed, Admin!Doings, Admin!TypeOK
<1>4. Admin(cfg)!Typed' /\ Admin(cfg)!RowLocked' /\ Admin(cfg)!IndexKept'
    BY <1>1, <1>3, AdminUnlocks
<1>5. minted' \in Nat /\ minted' >= minted
  <2>1. minted \in 0 .. cfg.batches
    BY DEF Admin!Typed, Admin!Doings, Admin!TypeOK
  <2> QED BY <1>1, <2>1 DEF Admin!AdminAuthAssumption
<1>6. \A o \in Pair :
        \/ /\ Admin(cfg)!Active(o) /\ Admin(cfg)!Active(o)' /\ login'[o].admin = login[o].admin
           /\ login'[o].code = login[o].code /\ login'[o].codes = login[o].codes
           /\ login'[o].fresh = login[o].fresh
        \/ ~Admin(cfg)!Active(o)' /\ login'[o].fresh = {}
    BY <1>2 DEF Admin!Active
<1> QED BY <1>1, <1>4, <1>5, <1>6, AdminCodesKept

\* Whoever presents a session, and the time to live of its record, leave the codes alone.
LEMMA AdminPresents ==
    ASSUME NEW cfg, Admin(cfg)!AdminAuthAssumption, Admin(cfg)!AdminInv,
           \/ \E k \in cfg.calls, s \in cfg.sids : Admin(cfg)!Present(k, s)
           \/ \E k \in cfg.calls : Admin(cfg)!TouchRead(k) \/ Admin(cfg)!TouchWrite(k)
                \/ Admin(cfg)!Finish(k) \/ Admin(cfg)!RevokeOne(k) \/ Admin(cfg)!Unindex(k)
           \/ \E s \in cfg.sids : Admin(cfg)!Expire(s)
    PROVE  Admin(cfg)!AdminInv'
<1> USE DEF Admin!AdminInv
<1>1. UNCHANGED <<secret, codes, lock, owner, audited, shown, spent, minted, login, adminCrashes>>
    BY DEF Admin!Present, Admin!TouchRead, Admin!TouchWrite, Admin!Finish, Admin!RevokeOne,
           Admin!Unindex, Admin!Expire, Admin!account, Admin!store, Admin!ghosts
<1> DEFINE Held(x) == x \in cfg.sids /\ owner[x] # Nobody
<1>2. /\ live \subseteq cfg.sids /\ owner \in [cfg.sids -> cfg.admins \cup {Nobody}]
      /\ adminIndex \in [cfg.admins -> SUBSET cfg.sids] /\ ended \subseteq cfg.sids
    BY DEF Admin!Typed, Admin!Doings, Admin!TypeOK
<1> DEFINE Kinds == [pc : {"idle", "fresh", "stale", "touching", "let in", "unindex"},
                     sid : cfg.sids \cup {Nobody}, out : BOOLEAN]
<1>3. call \in [cfg.calls -> Kinds] /\ Admin(cfg)!NoCall \in Kinds
      /\ Admin(cfg)!NoCall.pc = "idle"
    BY DEF Admin!Typed, Admin!Doings, Admin!NoCall
<1> DEFINE Calm == /\ live' \subseteq cfg.sids /\ ended' \subseteq cfg.sids
                   /\ adminIndex' \in [cfg.admins -> SUBSET cfg.sids]
                   /\ \A a \in cfg.admins : adminIndex'[a] \subseteq adminIndex[a]
                   /\ \A s \in live' : owner[s] # Nobody
                   /\ call' \in [cfg.calls -> Kinds]
                   /\ \A k \in cfg.calls : call'[k].pc # "idle" => Held(call'[k].sid)
                   /\ cfg.calls = {} => live' \subseteq live /\ adminIndex' = adminIndex
<1>4. Calm
  <2>1. CASE \E s \in cfg.sids : Admin(cfg)!Expire(s)
    BY <1>2, <1>3, <2>1 DEF Admin!Expire, Admin!IndexKept
  <2>2. ASSUME NEW k \in cfg.calls, NEW s \in cfg.sids, Admin(cfg)!Present(k, s)
        PROVE  Calm
    <3>1. PICK out \in BOOLEAN, pc \in {"fresh", "stale"} :
             call' = [call EXCEPT ![k] = [pc |-> pc, sid |-> s, out |-> out]]
      BY <2>2 DEF Admin!Present
    <3>2. s \in live /\ UNCHANGED <<live, adminIndex, ended>>
      BY <2>2 DEF Admin!Present, Admin!store
    <3>3. call' \in [cfg.calls -> Kinds]
      BY <1>3, <3>1
    <3>4. \A j \in cfg.calls : call'[j].pc # "idle" => Held(call'[j].sid)
      BY <1>2, <1>3, <3>1, <3>2 DEF Admin!IndexKept
    <3> QED BY <1>2, <3>2, <3>3, <3>4 DEF Admin!IndexKept
  <2>3. ASSUME NEW k \in cfg.calls, Admin(cfg)!TouchRead(k) PROVE Calm
    <3>1. call[k].pc = "fresh" /\ UNCHANGED <<live, adminIndex, ended>>
      BY <2>3 DEF Admin!TouchRead, Admin!store
    <3>2. call' \in [cfg.calls -> Kinds] /\ \A j \in cfg.calls : call'[j].sid = call[j].sid
          /\ (call'[j].pc # "idle" => call[j].pc # "idle")
      BY <1>3, <2>3 DEF Admin!TouchRead
    <3> QED BY <1>2, <3>1, <3>2 DEF Admin!IndexKept
  <2>4. ASSUME NEW k \in cfg.calls, Admin(cfg)!TouchWrite(k) PROVE Calm
    <3>1. call[k].pc = "touching" /\ UNCHANGED <<adminIndex, ended>>
          /\ live' = live \cup {call[k].sid}
      BY <2>4 DEF Admin!TouchWrite
    <3>2. call' \in [cfg.calls -> Kinds] /\ \A j \in cfg.calls : call'[j].sid = call[j].sid
          /\ (call'[j].pc # "idle" => call[j].pc # "idle")
      BY <1>3, <2>4 DEF Admin!TouchWrite
    <3>3. Held(call[k].sid)
      BY <3>1 DEF Admin!IndexKept
    <3> QED BY <1>2, <3>1, <3>2, <3>3 DEF Admin!IndexKept
  <2>5. ASSUME NEW k \in cfg.calls, Admin(cfg)!Finish(k) PROVE Calm
    <3>1. UNCHANGED <<live, adminIndex, ended>> /\ call' = [call EXCEPT ![k] = Admin(cfg)!NoCall]
      BY <2>5 DEF Admin!Finish, Admin!store
    <3>2. call' \in [cfg.calls -> Kinds] /\ call'[k] = Admin(cfg)!NoCall
          /\ \A j \in cfg.calls \ {k} : call'[j] = call[j]
      BY <1>3, <3>1
    <3> QED BY <1>2, <1>3, <3>1, <3>2 DEF Admin!IndexKept
  <2>6. ASSUME NEW k \in cfg.calls, Admin(cfg)!RevokeOne(k) PROVE Calm
    <3>1. /\ call[k].pc # "idle" /\ live' = live \ {call[k].sid}
          /\ ended' = ended \cup {call[k].sid} /\ UNCHANGED adminIndex
          /\ call' = [call EXCEPT ![k] = IF call[k].sid \in live THEN [@ EXCEPT !.pc = "unindex"]
                                         ELSE Admin(cfg)!NoCall]
      BY <2>6 DEF Admin!RevokeOne
    <3>2. Held(call[k].sid)
      BY <3>1 DEF Admin!IndexKept
    <3>3. /\ call' \in [cfg.calls -> Kinds] /\ \A j \in cfg.calls \ {k} : call'[j] = call[j]
          /\ call'[k].pc # "idle" => call'[k].sid = call[k].sid
      <4>1. CASE call[k].sid \in live
        BY <1>3, <3>1, <4>1
      <4>2. CASE call[k].sid \notin live
        BY <1>3, <3>1, <4>2
      <4> QED BY <4>1, <4>2
    <3> QED BY <1>2, <3>1, <3>2, <3>3 DEF Admin!IndexKept
  <2>7. ASSUME NEW k \in cfg.calls, Admin(cfg)!Unindex(k) PROVE Calm
    <3>1. /\ call[k].pc = "unindex" /\ UNCHANGED <<live, ended>>
          /\ adminIndex' = [adminIndex EXCEPT ![owner[call[k].sid]] = @ \ {call[k].sid}]
          /\ call' = [call EXCEPT ![k] = Admin(cfg)!NoCall]
      BY <2>7 DEF Admin!Unindex
    <3>2. call' \in [cfg.calls -> Kinds] /\ call'[k] = Admin(cfg)!NoCall
          /\ \A j \in cfg.calls \ {k} : call'[j] = call[j]
      BY <1>3, <3>1
    <3>3. adminIndex' \in [cfg.admins -> SUBSET cfg.sids]
          /\ \A a \in cfg.admins : adminIndex'[a] \subseteq adminIndex[a]
      BY <1>2, <3>1
    <3> QED BY <1>2, <1>3, <3>1, <3>2, <3>3 DEF Admin!IndexKept
  <2> QED BY <2>1, <2>2, <2>3, <2>4, <2>5, <2>6, <2>7
<1>5. Admin(cfg)!Typed'
  <2>1. \A k \in cfg.calls : call'[k].pc \in {"idle", "fresh", "stale", "touching", "let in",
        "unindex"}
    BY <1>4
  <2> QED BY <1>1, <1>4, <2>1 DEF Admin!Typed, Admin!Doings, Admin!TypeOK
<1>6. Admin(cfg)!RowLocked'
  BY <1>1 DEF Admin!RowLocked, Admin!Active
<1>7. /\ Admin(cfg)!CodesApart' /\ Admin(cfg)!ShownCodesWork' /\ Admin(cfg)!CodeOnce'
      /\ \A r \in Pair : IF Admin(cfg)!Active(r)' THEN Admin(cfg)!Leaves(r)'
           ELSE login'[r].fresh = {}
      /\ \A r, o \in Pair : r # o => login'[r].fresh \cap login'[o].fresh = {}
  BY <1>1 DEF Admin!CodesApart, Admin!ShownCodesWork, Admin!CodeOnce, Admin!Active, Admin!Leaves
<1>8. Admin(cfg)!IndexKept'
  <2>1. \A k \in cfg.calls :
           call'[k].pc # "idle" => call'[k].sid \in cfg.sids /\ owner'[call'[k].sid] # Nobody
    BY <1>1, <1>4
  <2>2. \A r \in Pair :
          /\ login'[r].pc = "found" => adminIndex'[login'[r].admin] \subseteq login'[r].found
          /\ login'[r].pc = "revoked" => adminIndex'[login'[r].admin] = {}
          /\ login'[r].pc = "opened" => login'[r].sid \in cfg.sids
    <3>1. \A r \in Pair : login[r].pc # "idle" => login[r].admin \in cfg.admins
      BY DEF Admin!RowLocked, Admin!Active
    <3> QED BY <1>1, <1>4, <3>1 DEF Admin!IndexKept
  <2>3. \A a \in cfg.admins : \A s, t \in adminIndex'[a] : s = t
    BY <1>4, ZenonT(40) DEF Admin!IndexKept
  <2>4. cfg.calls = {} => \A s \in live' : s \in adminIndex'[owner'[s]]
    BY <1>1, <1>4 DEF Admin!IndexKept
  <2> QED BY <1>1, <1>4, <2>1, <2>2, <2>3, <2>4 DEF Admin!IndexKept
<1> QED BY <1>5, <1>6, <1>7, <1>8

\* Every step keeps AdminInv.
LEMMA AdminStep ==
    ASSUME NEW cfg, Admin(cfg)!AdminAuthAssumption, Admin(cfg)!AdminInv,
           [Admin(cfg)!Next]_(Admin(cfg)!vars)
    PROVE  Admin(cfg)!AdminInv'
<1>1. CASE UNCHANGED Admin(cfg)!vars
  <2>1. UNCHANGED <<secret, codes, lock, live, owner, adminIndex, ended, audited, shown, spent,
        minted,
                    login, call, adminCrashes>>
    BY <1>1 DEF Admin!vars, Admin!account, Admin!store, Admin!ghosts
  <2>2. Admin(cfg)!Typed'
    BY <2>1 DEF Admin!AdminInv, Admin!Typed, Admin!Doings, Admin!TypeOK
  <2>3. Admin(cfg)!RowLocked' /\ Admin(cfg)!IndexKept'
    BY <2>1 DEF Admin!AdminInv, Admin!RowLocked, Admin!Active, Admin!IndexKept
  <2>4. Admin(cfg)!CodesApart' /\ Admin(cfg)!ShownCodesWork' /\ Admin(cfg)!CodeOnce'
    BY <2>1 DEF Admin!AdminInv, Admin!CodesApart, Admin!ShownCodesWork, Admin!CodeOnce
  <2>5. /\ \A r \in Pair : IF Admin(cfg)!Active(r)' THEN Admin(cfg)!Leaves(r)'
             ELSE login'[r].fresh = {}
        /\ \A r, o \in Pair : r # o => login'[r].fresh \cap login'[o].fresh = {}
    BY <2>1 DEF Admin!AdminInv, Admin!Active, Admin!Leaves
  <2> QED BY <2>2, <2>3, <2>4, <2>5 DEF Admin!AdminInv
<1>2. CASE Admin(cfg)!Next
  <2>1. ASSUME NEW a \in cfg.admins, Admin(cfg)!Enroll(a) PROVE Admin(cfg)!AdminInv'
    BY <2>1, AdminEnrolls
  <2>2. ASSUME NEW r \in Pair, NEW a \in cfg.admins, Admin(cfg)!VerifyTotp(r, a)
        \/ Admin(cfg)!VerifyRecovery(r, a)
        PROVE  Admin(cfg)!AdminInv'
    BY <2>2, AdminVerifies
  <2>3. ASSUME NEW r \in Pair, Admin(cfg)!FindSessions(r) \/ Admin(cfg)!RevokeFound(r)
        \/ Admin(cfg)!OpenSession(r)
        PROVE  Admin(cfg)!AdminInv'
    BY <2>3, AdminSessions
  <2>4. ASSUME NEW r \in Pair, Admin(cfg)!CommitLogin(r) \/ Admin(cfg)!AbortLogin(r)
        PROVE  Admin(cfg)!AdminInv'
    BY <2>4, AdminCommits, AdminAborts
  <2>5. CASE \/ \E k \in cfg.calls, s \in cfg.sids : Admin(cfg)!Present(k, s)
             \/ \E k \in cfg.calls : Admin(cfg)!TouchRead(k) \/ Admin(cfg)!TouchWrite(k)
                  \/ Admin(cfg)!Finish(k) \/ Admin(cfg)!RevokeOne(k) \/ Admin(cfg)!Unindex(k)
             \/ \E s \in cfg.sids : Admin(cfg)!Expire(s)
    BY <2>5, AdminPresents
  <2> QED BY <1>2, <2>1, <2>2, <2>3, <2>4, <2>5 DEF Admin!Next
<1> QED BY <1>1, <1>2

\* What AdminInv says of the index and of the sessions.
LEMMA AdminClaims ==
    ASSUME NEW cfg, Admin(cfg)!AdminAuthAssumption, Admin(cfg)!AdminInv
    PROVE  /\ Admin(cfg)!TypeOK /\ Admin(cfg)!ShownCodesWork /\ Admin(cfg)!CodeOnce
           /\ Admin(cfg)!IndexSole
           /\ cfg.calls = {} => Admin(cfg)!SoleSession
<1> USE DEF Admin!AdminInv
<1>1. ASSUME NEW S \in SUBSET cfg.sids, \A s, t \in S : s = t
      PROVE  Admin(cfg)!Cardinality(S) <= 1
  <2>1. CASE S = {}
    BY <2>1, AdminSame, FS_EmptySet
  <2>2. CASE S # {}
    <3>1. PICK s \in S : TRUE
      BY <2>2
    <3>2. S = {s}
      BY <1>1, <3>1
    <3>3. Admin(cfg)!Cardinality({s}) = 1
      BY AdminSame, FS_Singleton
    <3> QED BY <3>2, <3>3
  <2> QED BY <2>1, <2>2
<1>2. Admin(cfg)!IndexSole
  BY <1>1 DEF Admin!IndexKept, Admin!IndexSole, Admin!Typed, Admin!TypeOK
<1>3. ASSUME cfg.calls = {} PROVE Admin(cfg)!SoleSession
  <2>1. ASSUME NEW a \in cfg.admins PROVE \A s, t \in {x \in live : owner[x] = a} : s = t
    BY <1>3, <2>1 DEF Admin!IndexKept
  <2>2. live \subseteq cfg.sids
    BY DEF Admin!Typed, Admin!TypeOK
  <2> QED BY <1>1, <2>1, <2>2 DEF Admin!SoleSession
<1> QED BY <1>2, <1>3 DEF Admin!Typed, Admin!Doings

-----------------------------------------------------------------------------
(***************************************************************************)
(* The second factor of a user: SecondFactor, for any finite set of requests *)
(* that come one at a time.                                                *)
(***************************************************************************)
\* The finite sets of the instance are those of FiniteSets.
LEMMA FactorSame ==
    ASSUME NEW S
    PROVE  /\ Factor!IsFiniteSet(S) <=> IsFiniteSet(S)
           /\ Factor!Cardinality(S) = Cardinality(S)
BY DEF Factor!IsFiniteSet, IsFiniteSet, Factor!Cardinality, Cardinality

\* FactorInv holds before the first request.
LEMMA FactorStart ==
    ASSUME Factor!FactorAssumption, Factor!Init
    PROVE  Factor!FactorInv
<1>1. Factor!Typed
  <2>1. Factor!NoFactor \in Factor!Factors
    BY DEF Factor!NoFactor, Factor!Factors
  <2>2. Factor!Idle \in [pc : {"idle", "fail", "write", "commit", "done"},
        op : FactorOps \cup {"none"},
                 seen : Factor!Factors, new : Factor!Factors, used : SUBSET Factor!Codes]
    BY <2>1 DEF Factor!Idle
  <2> QED BY <2>1, <2>2 DEF Factor!Init, Factor!Typed
<1>2. Factor!Begun = {} /\ \A r \in Four : client[r].pc = "idle"
    BY DEF Factor!Init, Factor!Idle, Factor!Begun
<1>3. Factor!Guessed
    BY <1>2, FactorSame, FS_EmptySet
       DEF Factor!Guessed, Factor!Failing, Factor!Init, Factor!FactorAssumption
<1> QED
    BY <1>1, <1>2, <1>3
       DEF Factor!FactorInv, Factor!Init, Factor!NoFactor, Factor!Confirmed, Factor!HasTotp,
           Factor!CodesOnce, Factor!CodesEnd, Factor!Busy

\* A request more has begun.
LEMMA FactorCounts ==
    ASSUME Factor!FactorInv, Factor!IsFiniteSet(Four), NEW r \in Four, client[r].pc = "idle",
           \A o \in Four \ {r} : client'[o].pc = client[o].pc, client'[r].pc # "idle"
    PROVE  /\ Factor!Cardinality(Factor!Begun') = Factor!Cardinality(Factor!Begun) + 1
           /\ Factor!Cardinality(Factor!Begun) \in Nat
<1>1. Factor!Begun' = Factor!Begun \cup {r} /\ r \notin Factor!Begun
    BY DEF Factor!Begun
<1>2. Factor!IsFiniteSet(Factor!Begun)
    BY FactorSame, FS_Subset DEF Factor!Begun
<1> QED BY <1>1, <1>2, FactorSame, FS_AddElement, FS_CardinalityType

\* The beginning of a request, by what it is to do.
LEMMA FactorSets ==
    ASSUME Factor!FactorAssumption, Factor!FactorInv, Factor!IsFiniteSet(Four),
           NEW r \in Four,
           client[r].pc = "idle", Factor!Quiet, NEW does, client' = [client EXCEPT ![r] = does],
           UNCHANGED <<factor, failures, told, proved, entered>>,
           does \in [pc : {"fail", "write", "done"}, op : FactorOps \cup {"none"},
                     seen : Factor!Factors, new : Factor!Factors, used : SUBSET Factor!Codes],
           IF does.pc = "fail" THEN guesses' = guesses + 1 /\ ~Factor!Locked
                               ELSE guesses' = guesses,
           does.pc = "write" => Factor!Intends(r)'
    PROVE  Factor!FactorInv'
<1> USE DEF Factor!FactorInv, Factor!Typed
<1>1. client'[r] = does /\ \A o \in Four \ {r} : client'[o] = client[o]
    OBVIOUS
<1>2. \A o \in Four : client[o].pc \in {"idle", "done"}
    BY DEF Factor!Quiet
<1>3. Factor!Typed'
    BY <1>1
<1>4. Factor!Cardinality(Factor!Begun') = Factor!Cardinality(Factor!Begun) + 1
      /\ Factor!Cardinality(Factor!Begun) \in Nat
    BY <1>1, FactorCounts
<1>5. ~Factor!Failing /\ (Factor!Failing' <=> does.pc = "fail")
    BY <1>1, <1>2 DEF Factor!Failing
<1>6. Factor!Guessed'
    BY <1>4, <1>5 DEF Factor!Guessed, Factor!Locked, Factor!FactorAssumption
<1>7. Factor!CodesEnd'
  <2>1. \A c \in factor.codes : c[1] \in Four
    BY DEF Factor!Factors, Factor!Codes
  <2>2. \A e \in entered : e[1][1] \in Four
    BY DEF Factor!Codes
  <2> QED BY <1>1, <2>1, <2>2 DEF Factor!CodesEnd
<1>8. Factor!Confirmed' /\ Factor!CodesOnce'
    BY DEF Factor!Confirmed, Factor!HasTotp, Factor!CodesOnce
<1>9. \A o, p \in Four : Factor!Busy(o)' /\ Factor!Busy(p)' => o = p
    BY <1>1, <1>2 DEF Factor!Busy
<1>10. \A o \in Four : client'[o].pc \in {"write", "commit"} => Factor!Intends(o)'
    BY <1>1, <1>2
<1> QED BY <1>3, <1>6, <1>7, <1>8, <1>9, <1>10

\* A request begins.
LEMMA FactorBegins ==
    ASSUME Factor!FactorAssumption, Factor!FactorInv, Factor!IsFiniteSet(Four), NEW r \in Four,
           Factor!Begin(r)
    PROVE  Factor!FactorInv'
<1> USE DEF Factor!FactorInv, Factor!Typed
<1>1. client[r].pc = "idle" /\ Factor!Quiet
    BY DEF Factor!Begin
<1>2. Factor!NoFactor \in Factor!Factors /\ {} \in SUBSET Factor!Codes
    BY DEF Factor!NoFactor, Factor!Factors
<1>3. \A pc \in {"fail", "done"}, op \in FactorOps :
         [Factor!Idle EXCEPT !.pc = pc, !.op = op] \in
            [pc : {"fail", "write", "done"}, op : FactorOps \cup {"none"}, seen : Factor!Factors,
             new : Factor!Factors, used : SUBSET Factor!Codes]
    BY <1>2 DEF Factor!Idle
<1>4. CASE Factor!Login(r)
  <2>1. PICK right \in BOOLEAN :
           IF Factor!Locked \/ right
           THEN Factor!Set(r, [Factor!Idle EXCEPT !.pc = "done", !.op = "login"])
               /\ UNCHANGED guesses
           ELSE /\ Factor!Set(r, [Factor!Idle EXCEPT !.pc = "fail", !.op = "login"])
                /\ guesses' = guesses + 1
    BY <1>4 DEF Factor!Login
  <2>2. [Factor!Idle EXCEPT !.pc = "done", !.op = "login"].pc = "done"
        /\ [Factor!Idle EXCEPT !.pc = "fail", !.op = "login"].pc = "fail"
    BY DEF Factor!Idle
  <2>3. "login" \in FactorOps /\ UNCHANGED <<factor, failures, told, proved, entered>>
    BY <1>4 DEF Factor!Login
  <2>4. CASE Factor!Locked \/ right
    <3> DEFINE does == [Factor!Idle EXCEPT !.pc = "done", !.op = "login"]
    <3>1. does \in [pc : {"fail", "write", "done"}, op : FactorOps \cup {"none"},
          seen : Factor!Factors,
                    new : Factor!Factors, used : SUBSET Factor!Codes]
      BY <1>3, <2>3
    <3>2. client' = [client EXCEPT ![r] = does] /\ guesses' = guesses /\ does.pc = "done"
      BY <2>1, <2>2, <2>4 DEF Factor!Set
    <3> HIDE DEF does
    <3> QED BY <1>1, <2>3, <3>1, <3>2, FactorSets
  <2>5. CASE ~(Factor!Locked \/ right)
    <3> DEFINE does == [Factor!Idle EXCEPT !.pc = "fail", !.op = "login"]
    <3>1. does \in [pc : {"fail", "write", "done"}, op : FactorOps \cup {"none"},
          seen : Factor!Factors,
                    new : Factor!Factors, used : SUBSET Factor!Codes]
      BY <1>3, <2>3
    <3>2. client' = [client EXCEPT ![r] = does] /\ guesses' = guesses + 1 /\ does.pc = "fail"
      BY <2>1, <2>2, <2>5 DEF Factor!Set
    <3> HIDE DEF does
    <3> QED BY <1>1, <2>3, <2>5, <3>1, <3>2, FactorSets
  <2> QED BY <2>4, <2>5
<1>5. ASSUME NEW op \in FactorOps, Factor!Set(r, [Factor!Idle EXCEPT !.pc = "done", !.op = op]),
             UNCHANGED <<factor, failures, guesses, told, proved, entered>>
      PROVE  Factor!FactorInv'
  <2>1. [Factor!Idle EXCEPT !.pc = "done", !.op = op].pc = "done"
    BY DEF Factor!Idle
  <2> QED BY <1>1, <1>3, <1>5, <2>1, FactorSets DEF Factor!Set
<1>6. ASSUME NEW op \in FactorOps, NEW new \in Factor!Factors, NEW used \in SUBSET Factor!Codes,
             Factor!Wants(r, op, new, used),
             UNCHANGED <<factor, failures, guesses, told, proved, entered>>,
             \/ /\ op = "verify"
                /\ \E code \in factor.codes : used = {code}
                     /\ new = [factor EXCEPT !.codes = @ \ {code}]
             \/ op = "enroll" /\ used = {} /\ new = [secret |-> r, codes |-> {}]
             \/ op = "confirm" /\ used = {} /\ new = [factor EXCEPT !.codes = {r} \X Two]
                /\ factor.secret \in Four
             \/ op = "disable" /\ used = {} /\ new = Factor!NoFactor
      PROVE  Factor!FactorInv'
  <2> DEFINE does == [pc |-> "write", op |-> op, seen |-> factor, new |-> new, used |-> used]
  <2>1. does \in [pc : {"fail", "write", "done"}, op : FactorOps \cup {"none"},
        seen : Factor!Factors,
                  new : Factor!Factors, used : SUBSET Factor!Codes]
    OBVIOUS
  <2>2. client' = [client EXCEPT ![r] = does] /\ does.pc = "write" /\ client'[r] = does
    BY <1>6 DEF Factor!Wants, Factor!Set
  <2>3. Factor!Intends(r)'
    BY <1>6, <2>2 DEF Factor!Intends
  <2> QED BY <1>1, <1>6, <2>1, <2>2, <2>3, FactorSets
<1>7. CASE ~Factor!Login(r)
  <2>1. UNCHANGED <<factor, failures, guesses, told, proved, entered>>
    BY <1>7 DEF Factor!Begin
  <2>2. CASE Factor!Verify(r)
    <3>1. "verify" \in FactorOps
      BY <2>2 DEF Factor!Verify
    <3>2. ASSUME NEW c \in told.codes \cap factor.codes,
                 Factor!Wants(r, "verify", [factor EXCEPT !.codes = @ \ {c}], {c})
          PROVE  Factor!FactorInv'
      <4>1. [factor EXCEPT !.codes = @ \ {c}] \in Factor!Factors /\ {c} \in SUBSET Factor!Codes
        BY DEF Factor!Factors
      <4> QED BY <1>6, <2>1, <3>1, <3>2, <4>1
    <3> QED BY <1>5, <2>1, <2>2, <3>1, <3>2 DEF Factor!Verify, Factor!Refused
  <2>3. CASE Factor!Enroll(r)
    <3>1. "enroll" \in FactorOps /\ [secret |-> r, codes |-> {}] \in Factor!Factors
      BY <2>3 DEF Factor!Enroll, Factor!Factors
    <3> QED BY <1>2, <1>5, <1>6, <2>1, <2>3, <3>1 DEF Factor!Enroll, Factor!Refused
  <2>4. CASE Factor!Confirm(r)
    <3>1. "confirm" \in FactorOps
      BY <2>4 DEF Factor!Confirm
    <3>2. {r} \X Two \in SUBSET Factor!Codes
      BY DEF Factor!Codes
    <3>3. [factor EXCEPT !.codes = {r} \X Two] \in Factor!Factors
      BY <3>2 DEF Factor!Factors
    <3>4. factor.secret \in told.secrets => factor.secret \in Four
      OBVIOUS
    <3> QED BY <1>2, <1>5, <1>6, <2>1, <2>4, <3>1, <3>3, <3>4 DEF Factor!Confirm, Factor!Refused
  <2>5. CASE Factor!Disable(r)
    BY <1>2, <1>5, <1>6, <2>1, <2>5 DEF Factor!Disable, Factor!Refused
  <2> QED BY <1>7, <2>2, <2>3, <2>4, <2>5 DEF Factor!Begin
<1> QED BY <1>4, <1>7

\* A request goes on to its next step, or ends.
LEMMA FactorGoes ==
    ASSUME Factor!FactorAssumption, Factor!FactorInv, NEW r \in Four, Factor!Busy(r),
           NEW pc \in {"commit", "done"}, Factor!Goto(r, pc), UNCHANGED <<factor, entered>>,
           guesses' = guesses,
           failures' = IF client[r].pc = "fail" THEN failures + 1 ELSE failures,
           pc = "commit" => client[r].pc = "write",
           told' \in [secrets : SUBSET Four, codes : SUBSET Factor!Codes],
           proved' \in SUBSET Four, proved \subseteq proved',
           pc = "commit" /\ client[r].op = "confirm" => factor.secret \in proved'
    PROVE  Factor!FactorInv'
<1> USE DEF Factor!FactorInv, Factor!Typed
<1>1. /\ client' = [client EXCEPT ![r] = [client[r] EXCEPT !.pc = pc]]
      /\ client'[r] = [client[r] EXCEPT !.pc = pc]
      /\ \A o \in Four \ {r} : client'[o] = client[o]
    BY DEF Factor!Goto
<1>2. Factor!Typed'
    BY <1>1
<1>3. Factor!Failing' = FALSE /\ (Factor!Failing <=> client[r].pc = "fail")
    BY <1>1 DEF Factor!Failing, Factor!Busy
<1>4. Factor!Begun' = Factor!Begun
    BY <1>1 DEF Factor!Begun, Factor!Busy
<1>5. Factor!Guessed'
    BY <1>3, <1>4 DEF Factor!Guessed
<1>6. Factor!CodesEnd'
  <2>1. \A c \in factor.codes : c[1] \in Four
    BY DEF Factor!Factors, Factor!Codes
  <2>2. \A e \in entered : e[1][1] \in Four
    BY DEF Factor!Codes
  <2> QED BY <1>1, <2>1, <2>2 DEF Factor!CodesEnd, Factor!Busy
<1>7. Factor!Confirmed' /\ Factor!CodesOnce'
    BY DEF Factor!Confirmed, Factor!HasTotp, Factor!CodesOnce
<1>8. \A o, p \in Four : Factor!Busy(o)' /\ Factor!Busy(p)' => o = p
    BY <1>1 DEF Factor!Busy
<1>9. ASSUME NEW o \in Four, client'[o].pc \in {"write", "commit"}
      PROVE  Factor!Intends(o)'
  <2>1. o = r /\ pc = "commit" /\ client[r].pc = "write" /\ Factor!Intends(r)
    BY <1>1, <1>8, <1>9 DEF Factor!Busy
  <2> QED BY <1>1, <2>1, SMTT(30) DEF Factor!Intends
<1> QED BY <1>2, <1>5, <1>6, <1>7, <1>8, <1>9

\* What a request in turn commits is what it was to write.
LEMMA FactorCommits ==
    ASSUME Factor!FactorAssumption, Factor!FactorInv, NEW r \in Four, Factor!Commit(r)
    PROVE  Factor!FactorInv'
<1> USE DEF Factor!FactorInv, Factor!Typed
<1>1. /\ client'[r] = [client[r] EXCEPT !.pc = "done"] /\ client[r].pc = "commit"
      /\ \A o \in Four \ {r} : client'[o] = client[o]
    BY DEF Factor!Commit, Factor!Goto, Factor!Writing
<1>2. Factor!Intends(r)
    BY <1>1
<1>3. factor' = client[r].new
    BY <1>2 DEF Factor!Commit, Factor!Written, Factor!Intends, Factor!Factors
<1>4. Factor!Typed'
  <2>1. {<<c, r>> : c \in client[r].used} \subseteq Factor!Codes \X Four
    OBVIOUS
  <2> QED BY <1>3, <2>1 DEF Factor!Commit, Factor!Goto
<1>5. ~Factor!Failing' /\ ~Factor!Failing
    BY <1>1 DEF Factor!Failing, Factor!Busy
<1>6. Factor!Begun' = Factor!Begun
    BY <1>1 DEF Factor!Begun
<1>7. Factor!Guessed'
    BY <1>5, <1>6 DEF Factor!Guessed, Factor!Commit
<1>8. \A c \in factor.codes : c[1] \in Four \ {r} /\ client'[c[1]].pc = "done"
  <2>1. \A c \in factor.codes : c[1] \in Four
    BY DEF Factor!Factors, Factor!Codes
  <2> QED BY <1>1, <2>1 DEF Factor!CodesEnd
<1>9. \A e \in entered :
         e[1][1] \in Four \ {r} /\ client'[e[1][1]].pc = "done" /\ e[1] \notin factor.codes
  <2>1. \A e \in entered : e[1][1] \in Four
    BY DEF Factor!Codes
  <2> QED BY <1>1, <2>1 DEF Factor!CodesEnd
<1>10. ASSUME client[r].op = "verify"
       PROVE  Factor!CodesEnd' /\ Factor!CodesOnce' /\ Factor!Confirmed'
  <2>1. PICK code \in factor.codes :
           client[r].used = {code} /\ client[r].new = [factor EXCEPT !.codes = @ \ {code}]
    BY <1>2, <1>10 DEF Factor!Intends
  <2>2. entered' = entered \cup {<<code, r>>}
    BY <2>1 DEF Factor!Commit
  <2>3. factor'.codes = factor.codes \ {code} /\ factor'.secret = factor.secret
    BY <1>3, <2>1 DEF Factor!Factors
  <2>4. Factor!CodesEnd'
    BY <1>8, <1>9, <2>2, <2>3 DEF Factor!CodesEnd
  <2>5. Factor!CodesOnce'
    BY <1>9, <2>2 DEF Factor!CodesOnce
  <2>6. Factor!Confirmed'
    BY <2>3 DEF Factor!Confirmed, Factor!HasTotp, Factor!Commit
  <2> QED BY <2>4, <2>5, <2>6
<1>11. ASSUME client[r].op # "verify"
       PROVE  Factor!CodesEnd' /\ Factor!CodesOnce' /\ Factor!Confirmed'
  <2>1. entered' = entered
    BY <1>2, <1>11 DEF Factor!Commit, Factor!Intends
  <2>2. factor'.codes \subseteq {r} \X Two
    BY <1>2, <1>3, <1>11 DEF Factor!Intends, Factor!Factors, Factor!NoFactor
  <2>3. \A c \in {r} \X Two : c[1] = r
    OBVIOUS
  <2>4. Factor!CodesEnd'
    BY <1>1, <1>9, <2>1, <2>2, <2>3 DEF Factor!CodesEnd
  <2>5. Factor!Confirmed'
    BY <1>1, <1>2, <1>3, <1>11
       DEF Factor!Confirmed, Factor!HasTotp, Factor!Commit, Factor!Intends, Factor!Factors,
           Factor!NoFactor
  <2> QED BY <2>1, <2>4, <2>5 DEF Factor!CodesOnce
<1>12. \A o, p \in Four : Factor!Busy(o)' /\ Factor!Busy(p)' => o = p
    BY <1>1 DEF Factor!Busy
<1>13. \A o \in Four : client'[o].pc \notin {"write", "commit"}
    BY <1>1 DEF Factor!Busy
<1> QED BY <1>4, <1>7, <1>10, <1>11, <1>12, <1>13

\* Every step keeps FactorInv while requests come one at a time.
LEMMA FactorStep ==
    ASSUME Factor!FactorAssumption, Factor!FactorInv, Factor!IsFiniteSet(Four),
           [Factor!Next]_(Factor!vars)
    PROVE  Factor!FactorInv'
<1>1. CASE UNCHANGED Factor!vars
    BY <1>1, ZenonT(40)
       DEF Factor!vars, Factor!FactorInv, Factor!Typed, Factor!Confirmed, Factor!HasTotp,
           Factor!CodesOnce, Factor!Guessed, Factor!Begun, Factor!Failing, Factor!CodesEnd,
           Factor!Busy, Factor!Intends
<1>2. ASSUME NEW r \in Four, Factor!Fail(r) PROVE Factor!FactorInv'
    BY <1>2, FactorGoes DEF Factor!Fail, Factor!Busy, Factor!FactorInv, Factor!Typed
<1>3. ASSUME NEW r \in Four, Factor!Lose(r) PROVE Factor!FactorInv'
    BY <1>3, FactorGoes DEF Factor!Lose, Factor!Busy, Factor!FactorInv, Factor!Typed
<1>4. ASSUME NEW r \in Four, Factor!Write(r) PROVE Factor!FactorInv'
  <2>1. Factor!Intends(r) /\ client[r].seen = factor
    BY <1>4 DEF Factor!Write, Factor!FactorInv, Factor!Intends
  <2>2. told' \in [secrets : SUBSET Four, codes : SUBSET Factor!Codes]
    <3>1. {r} \X Two \subseteq Factor!Codes
      BY DEF Factor!Codes
    <3> QED BY <1>4, <3>1 DEF Factor!Write, Factor!FactorInv, Factor!Typed
  <2>3. /\ proved' \in SUBSET Four /\ proved \subseteq proved'
        /\ client[r].op = "confirm" => factor.secret \in proved'
    BY <1>4, <2>1 DEF Factor!Write, Factor!FactorInv, Factor!Typed, Factor!Intends
  <2> QED BY <1>4, <2>2, <2>3, FactorGoes DEF Factor!Write, Factor!Busy
<1>5. CASE Factor!Window
  <2>1. ~Factor!Failing
    BY <1>5 DEF Factor!Window, Factor!Quiet, Factor!Failing
  <2>2. Factor!Cardinality(Factor!Begun) >= 0
    BY FactorSame, FS_Subset, FS_CardinalityType DEF Factor!Begun
  <2>3. UNCHANGED <<factor, told, proved, entered, client>> /\ failures' = 0 /\ guesses' = 0
    BY <1>5 DEF Factor!Window
  <2>4. Factor!Begun' = Factor!Begun /\ ~Factor!Failing'
    BY <2>1, <2>3 DEF Factor!Begun, Factor!Failing
  <2>5. Factor!Typed'
    BY <2>3 DEF Factor!FactorInv, Factor!Typed
  <2>6. Factor!Guessed'
    BY <2>2, <2>3, <2>4 DEF Factor!Guessed, Factor!FactorAssumption
  <2>7. Factor!Confirmed' /\ Factor!CodesOnce' /\ Factor!CodesEnd'
    BY <2>3
       DEF Factor!FactorInv, Factor!Confirmed, Factor!HasTotp, Factor!CodesOnce, Factor!CodesEnd
  <2>8. /\ \A o, p \in Four : Factor!Busy(o)' /\ Factor!Busy(p)' => o = p
        /\ \A o \in Four : client'[o].pc \in {"write", "commit"} => Factor!Intends(o)'
    BY <2>3 DEF Factor!FactorInv, Factor!Busy, Factor!Intends
  <2> QED BY <2>5, <2>6, <2>7, <2>8 DEF Factor!FactorInv
<1> QED BY <1>1, <1>2, <1>3, <1>4, <1>5, FactorBegins, FactorCommits DEF Factor!Next

\* What is claimed.
LEMMA FactorClaims ==
    ASSUME Factor!FactorAssumption, Factor!FactorInv, Factor!IsFiniteSet(Four)
    PROVE  Factor!TypeOK /\ Factor!Confirmed /\ Factor!CodesOnce /\ Factor!GuessesBounded
<1>1. Factor!Cardinality(Factor!Begun) <= Factor!Cardinality(Four)
      /\ Factor!Cardinality(Four) \in Nat
      /\ Factor!Cardinality(Factor!Begun) \in Nat
    BY FactorSame, FS_Subset, FS_CardinalityType DEF Factor!Begun
<1>2. failures \in 0 .. Factor!Cardinality(Four) /\ guesses \in 0 .. Factor!Cardinality(Four)
    BY <1>1 DEF Factor!FactorInv, Factor!Guessed, Factor!Typed
<1> QED
  BY <1>2
     DEF Factor!FactorInv, Factor!Typed, Factor!TypeOK, Factor!Factors, Factor!Guessed,
         Factor!GuessesBounded

-----------------------------------------------------------------------------
(***************************************************************************)
(* Sessions that are handed over: SessionHandoff, for any users, requests and *)
(* tokens.                                                                 *)
(***************************************************************************)
\* HandInv holds before the first request.
LEMMA HandStart ==
    ASSUME NEW cfg, Handoffs(cfg)!HandoffAssumption, Handoffs(cfg)!Init
    PROVE  Handoffs(cfg)!HandInv /\ Handoffs(cfg)!TurnInv
<1>1. handReq = [q \in cfg.requests |-> Handoffs(cfg)!NoReq]
      /\ \A q \in cfg.requests : handReq[q].pc = "idle"
    BY DEF Handoffs!Init, Handoffs!NoReq
<1>2. Handoffs(cfg)!Fits(Handoffs(cfg)!NoReq)
    BY DEF Handoffs!Fits, Handoffs!Shapes, Handoffs!NoReq, Handoffs!Working, Handoffs!Handling
<1>3. Handoffs(cfg)!TypeOK
  <2>0. 0 \in 0 .. cfg.edits
    BY DEF Handoffs!HandoffAssumption
  <2>1. /\ doc \in [owner : cfg.users \cup {Nobody}, draft : 0 .. cfg.edits, intel : BOOLEAN]
        /\ claimant \in cfg.users \cup {Nobody} /\ edits \in 0 .. cfg.edits
    <3>1. doc \in [owner : cfg.users \cup {Nobody}, draft : {0}, intel : {FALSE}]
      BY DEF Handoffs!Init
    <3>2. /\ doc.owner \in cfg.users \cup {Nobody}
          /\ doc \in [owner : cfg.users \cup {Nobody}, draft : 0 .. cfg.edits, intel : BOOLEAN]
      BY <2>0, <3>1
    <3> QED BY <2>0, <3>2 DEF Handoffs!Init
  <2>3. rate \in [count : 0 .. cfg.tries + 1, ends : BOOLEAN]
    BY DEF Handoffs!HandoffAssumption, Handoffs!Init
  <2>2. Handoffs(cfg)!NoToken \in [state : {"unused", "live", "spent", "expired"},
                    owner : cfg.users \cup {Nobody}, draft : 0 .. cfg.edits]
    BY DEF Handoffs!HandoffAssumption, Handoffs!NoToken
  <2> QED BY <2>1, <2>2, <2>3 DEF Handoffs!Init, Handoffs!TypeOK
<1> QED
    BY <1>1, <1>2, <1>3
       DEF Handoffs!HandoffAssumption, Handoffs!Init, Handoffs!HandInv, Handoffs!TurnInv,
           Handoffs!Typed, Handoffs!Fits, Handoffs!Counted, Handoffs!CounterEnds,
           Handoffs!EditKept, Handoffs!NoToken, Handoffs!Working

\* One request's record changes.
LEMMA HandOne ==
    ASSUME NEW cfg, Handoffs(cfg)!Typed, NEW q \in cfg.requests, NEW r, Handoffs(cfg)!Fits(r),
           handReq' = [handReq EXCEPT ![q] = r]
    PROVE  /\ handReq' \in [cfg.requests -> Handoffs(cfg)!Shapes]
           /\ \A p \in cfg.requests : Handoffs(cfg)!Fits(handReq'[p])
BY DEF Handoffs!Typed, Handoffs!Fits

\* What a request goes on to, and how it ends.
LEMMA HandGoes ==
    ASSUME NEW cfg, Handoffs(cfg)!HandoffAssumption, Handoffs(cfg)!Typed, NEW q \in cfg.requests,
           NEW pc,
           \/ handReq[q].pc \in Handoffs(cfg)!Working /\ pc \in Handoffs(cfg)!Working
           \/ handReq[q].pc \in Handoffs(cfg)!Handling /\ pc \in Handoffs(cfg)!Handling
    PROVE  /\ Handoffs(cfg)!Fits([handReq[q] EXCEPT !.pc = pc])
           /\ \A d \in Handoffs(cfg)!Docs :
                 Handoffs(cfg)!Fits([handReq[q] EXCEPT !.pc = pc, !.copy = d])
<1>3. handReq[q] \in Handoffs(cfg)!Shapes /\ Handoffs(cfg)!Fits(handReq[q])
    BY DEF Handoffs!Typed
<1>4. pc \in {"idle"} \cup Handoffs(cfg)!Working \cup Handoffs(cfg)!Handling
    OBVIOUS
<1>1. [handReq[q] EXCEPT !.pc = pc] \in Handoffs(cfg)!Shapes
    BY <1>3, <1>4 DEF Handoffs!Shapes
<1>2. ASSUME NEW d \in Handoffs(cfg)!Docs
      PROVE  [handReq[q] EXCEPT !.pc = pc, !.copy = d] \in Handoffs(cfg)!Shapes
    BY <1>3, <1>4 DEF Handoffs!Shapes
<1> QED
  BY <1>1, <1>2, <1>3, ZenonT(40)
     DEF Handoffs!Fits, Handoffs!Shapes, Handoffs!Working, Handoffs!Handling

LEMMA HandEnds ==
    ASSUME NEW cfg, Handoffs(cfg)!HandoffAssumption, Handoffs(cfg)!Typed, NEW q \in cfg.requests,
           Handoffs(cfg)!Ends(q)
    PROVE  /\ handReq' \in [cfg.requests -> Handoffs(cfg)!Shapes]
           /\ \A p \in cfg.requests : Handoffs(cfg)!Fits(handReq'[p])
<1>1. Handoffs(cfg)!Fits(Handoffs(cfg)!NoReq)
    BY DEF Handoffs!Fits, Handoffs!Shapes, Handoffs!NoReq, Handoffs!Working, Handoffs!Handling
<1> QED BY <1>1, HandOne DEF Handoffs!Ends

\* A new request is well formed.
LEMMA HandBegins ==
    ASSUME NEW cfg, Handoffs(cfg)!HandoffAssumption
    PROVE  /\ \A op \in Handoffs(cfg)!About, u \in cfg.users \cup {Nobody},
                 d \in Handoffs(cfg)!Docs :
                 Handoffs(cfg)!Fits(
                    [Handoffs(cfg)!NoReq EXCEPT !.pc = "resolve", !.op = op, !.user = u,
                                                !.copy = d])
           /\ \A u \in cfg.users, t \in cfg.links : "save" \in cfg.ops =>
                 Handoffs(cfg)!Fits(
                    [Handoffs(cfg)!NoReq EXCEPT !.pc = "commit", !.op = "save", !.user = u,
                                                !.token = t])
           /\ \A pc \in {"expire", "limited", "take"}, t \in cfg.links : "redeem" \in cfg.ops =>
                 Handoffs(cfg)!Fits(
                    [Handoffs(cfg)!NoReq EXCEPT !.op = "redeem", !.token = t, !.pc = pc])
<1> USE DEF Handoffs!Fits, Handoffs!Shapes, Handoffs!NoReq, Handoffs!Working,
      Handoffs!Handling, Handoffs!About
<1>1. ASSUME NEW op \in Handoffs(cfg)!About, NEW u \in cfg.users \cup {Nobody},
             NEW d \in Handoffs(cfg)!Docs
      PROVE  Handoffs(cfg)!Fits(
                [Handoffs(cfg)!NoReq EXCEPT !.pc = "resolve", !.op = op, !.user = u, !.copy = d])
    OBVIOUS
<1>2. ASSUME NEW u \in cfg.users, NEW t \in cfg.links, "save" \in cfg.ops
      PROVE  Handoffs(cfg)!Fits(
                [Handoffs(cfg)!NoReq EXCEPT !.pc = "commit", !.op = "save", !.user = u,
                                            !.token = t])
    BY <1>2
<1>3. ASSUME NEW pc \in {"expire", "limited", "take"}, NEW t \in cfg.links, "redeem" \in cfg.ops
      PROVE  Handoffs(cfg)!Fits(
                [Handoffs(cfg)!NoReq EXCEPT !.op = "redeem", !.token = t, !.pc = pc])
    BY <1>3
<1> HIDE DEF Handoffs!Fits, Handoffs!NoReq
<1> QED BY <1>1, <1>2, <1>3

\* Every step keeps the types.
LEMMA HandMoves ==
    ASSUME NEW cfg, Handoffs(cfg)!HandoffAssumption, Handoffs(cfg)!Typed, Handoffs(cfg)!Next
    PROVE  Handoffs(cfg)!Typed'
<1> DEFINE Rest == /\ handReq' \in [cfg.requests -> Handoffs(cfg)!Shapes]
                   /\ \A p \in cfg.requests : Handoffs(cfg)!Fits(handReq'[p])
<1>0. Rest /\ Handoffs(cfg)!TypeOK' => Handoffs(cfg)!Typed'
    BY DEF Handoffs!Typed, Handoffs!Fits, Handoffs!Shapes, Handoffs!Docs
<1> USE DEF Handoffs!HandoffAssumption, Handoffs!TypeOK, Handoffs!Docs
<1>1. ASSUME NEW q \in cfg.requests, NEW u \in cfg.users \cup {Nobody},
             NEW op \in Handoffs(cfg)!About, Handoffs(cfg)!Read(q, op, u)
      PROVE  Rest /\ Handoffs(cfg)!TypeOK'
    BY <1>1, HandOne, HandBegins DEF Handoffs!Read, Handoffs!Typed
<1>2. ASSUME NEW q \in cfg.requests, NEW u \in cfg.users, Handoffs(cfg)!SaveJd(q, u)
      PROVE  Rest /\ Handoffs(cfg)!TypeOK'
  <2>1. PICK t \in Handoffs(cfg)!Fresh :
           /\ handoff' = [handoff EXCEPT ![t] = Handoffs(cfg)!JdPayload(u)]
           /\ saved' = [saved EXCEPT ![t] = "flushed"]
           /\ handReq' = [handReq EXCEPT ![q] =
                         [Handoffs(cfg)!NoReq EXCEPT !.pc = "commit", !.op = "save", !.user = u,
                                                     !.token = t]]
    BY <1>2 DEF Handoffs!SaveJd
  <2>2. Rest
    BY <1>2, <2>1, HandOne, HandBegins DEF Handoffs!SaveJd, Handoffs!Typed, Handoffs!Fresh
  <2> QED
    BY <1>2, <2>1, <2>2 DEF Handoffs!SaveJd, Handoffs!Fresh, Handoffs!JdPayload, Handoffs!Typed
<1>3. ASSUME NEW q \in cfg.requests, NEW t \in cfg.links, Handoffs(cfg)!Redeem(q, t)
      PROVE  Rest /\ Handoffs(cfg)!TypeOK'
  <2>1. rate' \in [count : 0 .. cfg.tries + 1, ends : BOOLEAN]
    BY <1>3 DEF Handoffs!Redeem, Handoffs!Typed
  <2>2. PICK pc \in {"expire", "limited", "take"} :
           handReq' = [handReq EXCEPT ![q] =
                         [Handoffs(cfg)!NoReq EXCEPT !.op = "redeem", !.token = t, !.pc = pc]]
    BY <1>3 DEF Handoffs!Redeem
  <2>3. "redeem" \in cfg.ops
    BY <1>3 DEF Handoffs!Redeem
  <2>4. Handoffs(cfg)!Fits([Handoffs(cfg)!NoReq EXCEPT !.op = "redeem", !.token = t, !.pc = pc])
    BY <2>3, HandBegins
  <2>5. Rest
    BY <2>2, <2>4, HandOne
  <2> QED BY <1>3, <2>1, <2>5 DEF Handoffs!Redeem, Handoffs!Typed
<1>4. ASSUME NEW q \in cfg.requests, NEW pc, Handoffs(cfg)!Goto(q, pc),
             \/ handReq[q].pc \in Handoffs(cfg)!Working /\ pc \in Handoffs(cfg)!Working
             \/ handReq[q].pc \in Handoffs(cfg)!Handling /\ pc \in Handoffs(cfg)!Handling
      PROVE  Rest
    BY <1>4, HandGoes, HandOne DEF Handoffs!Goto, Handoffs!Typed
<1>5. ASSUME NEW q \in cfg.requests, NEW pc \in Handoffs(cfg)!Working,
             NEW d \in Handoffs(cfg)!Docs, handReq[q].pc \in Handoffs(cfg)!Working,
             handReq' = [handReq EXCEPT ![q].pc = pc, ![q].copy = d]
      PROVE  Rest
  <2>1. handReq' = [handReq EXCEPT ![q] = [handReq[q] EXCEPT !.pc = pc, !.copy = d]]
    BY <1>5 DEF Handoffs!Typed
  <2>2. Handoffs(cfg)!Fits([handReq[q] EXCEPT !.pc = pc, !.copy = d])
    BY <1>5, HandGoes
  <2> QED BY <2>1, <2>2, HandOne
<1>6. ASSUME NEW q \in cfg.requests, Handoffs(cfg)!Resolve(q)
      PROVE  Rest /\ Handoffs(cfg)!TypeOK'
  <2>1. handReq[q].copy \in Handoffs(cfg)!Docs
    BY <1>6 DEF Handoffs!Resolve, Handoffs!Typed, Handoffs!Fits, Handoffs!Working
  <2>2. [handReq[q].copy EXCEPT !.owner = handReq[q].user] \in Handoffs(cfg)!Docs
    BY <2>1 DEF Handoffs!Typed, Handoffs!Shapes
  <2>3. Rest
    BY <1>4, <1>5, <1>6, <2>2, HandEnds DEF Handoffs!Resolve, Handoffs!Working
  <2> QED BY <1>6, <2>2, <2>3 DEF Handoffs!Resolve, Handoffs!Typed, Handoffs!Shapes
<1>7. ASSUME NEW q \in cfg.requests, Handoffs(cfg)!Touch(q) \/ Handoffs(cfg)!Limited(q)
      PROVE  Rest /\ Handoffs(cfg)!TypeOK'
    BY <1>7, HandEnds
       DEF Handoffs!Touch, Handoffs!Limited, Handoffs!Typed, Handoffs!Fits, Handoffs!Working
<1>8. ASSUME NEW q \in cfg.requests, Handoffs(cfg)!Own(q)
      PROVE  Rest /\ Handoffs(cfg)!TypeOK'
    BY <1>4, <1>8, HandEnds DEF Handoffs!Own, Handoffs!Typed, Handoffs!Working
<1>9. ASSUME NEW q \in cfg.requests, Handoffs(cfg)!Edit(q)
      PROVE  Rest /\ Handoffs(cfg)!TypeOK'
  <2>1. handReq[q].copy \in Handoffs(cfg)!Docs
    BY <1>9 DEF Handoffs!Edit, Handoffs!Typed, Handoffs!Fits, Handoffs!Working
  <2> QED BY <1>9, <2>1, HandEnds DEF Handoffs!Edit, Handoffs!Typed
<1>10. ASSUME NEW q \in cfg.requests, Handoffs(cfg)!Intel(q)
       PROVE  Rest /\ Handoffs(cfg)!TypeOK'
  <2>1. handReq[q].copy \in Handoffs(cfg)!Docs
    BY <1>10 DEF Handoffs!Intel, Handoffs!Typed, Handoffs!Fits, Handoffs!Working
  <2>2. [handReq[q].copy EXCEPT !.intel = TRUE] \in Handoffs(cfg)!Docs
    BY <2>1
  <2>3. Rest
    BY <1>4, <1>5, <1>10, <2>2 DEF Handoffs!Intel, Handoffs!Working
  <2> QED BY <1>10, <2>2, <2>3 DEF Handoffs!Intel, Handoffs!Typed
<1>11. ASSUME NEW q \in cfg.requests, Handoffs(cfg)!Mint(q)
       PROVE  Rest /\ Handoffs(cfg)!TypeOK'
  <2>1. handReq[q].copy \in Handoffs(cfg)!Docs
    BY <1>11 DEF Handoffs!Mint, Handoffs!Typed, Handoffs!Fits, Handoffs!Working
  <2> QED
    BY <1>11, <2>1, HandEnds DEF Handoffs!Mint, Handoffs!Payload, Handoffs!Fresh, Handoffs!Typed
<1>12. ASSUME NEW q \in cfg.requests, Handoffs(cfg)!CommitJd(q) \/ Handoffs(cfg)!BreaksOff(q)
       PROVE  Rest /\ Handoffs(cfg)!TypeOK'
    BY <1>12, HandEnds DEF Handoffs!CommitJd, Handoffs!BreaksOff, Handoffs!Typed
<1>13. ASSUME NEW q \in cfg.requests, Handoffs(cfg)!StartWindow(q)
       PROVE  Rest /\ Handoffs(cfg)!TypeOK'
    BY <1>4, <1>13 DEF Handoffs!StartWindow, Handoffs!Typed, Handoffs!Handling
<1>14. ASSUME NEW q \in cfg.requests, Handoffs(cfg)!Take(q)
       PROVE  Rest /\ Handoffs(cfg)!TypeOK'
  <2>1. handReq[q].token \in cfg.links
    BY <1>14 DEF Handoffs!Take, Handoffs!Typed, Handoffs!Fits, Handoffs!Handling
  <2>2. Handoffs(cfg)!Spent(handReq[q].token) \in
           [cfg.links -> [state : {"unused", "live", "spent", "expired"},
                      owner : cfg.users \cup {Nobody}, draft : 0 .. cfg.edits]]
    BY <2>1 DEF Handoffs!Spent, Handoffs!Typed
  <2>3. [got EXCEPT ![handReq[q].token] = @ + 1] \in [cfg.links -> Nat]
    BY <2>1 DEF Handoffs!Typed
  <2>4. /\ handReq' \in [cfg.requests -> Handoffs(cfg)!Shapes]
        /\ \A p \in cfg.requests : Handoffs(cfg)!Fits(handReq'[p])
    BY <1>14, HandEnds DEF Handoffs!Take
  <2> QED BY <1>14, <2>1, <2>2, <2>3, <2>4 DEF Handoffs!Take, Handoffs!Typed
<1>15. ASSUME NEW t \in cfg.links, Handoffs(cfg)!TokenExpires(t)
       PROVE  Rest /\ Handoffs(cfg)!TypeOK'
    BY <1>15 DEF Handoffs!TokenExpires, Handoffs!Typed
<1>16. Handoffs(cfg)!WindowEnds => Rest /\ Handoffs(cfg)!TypeOK'
    BY DEF Handoffs!WindowEnds, Handoffs!Typed
<1> QED
    BY <1>0, <1>1, <1>2, <1>3, <1>6, <1>7, <1>8, <1>9, <1>10, <1>11, <1>12, <1>13, <1>14, <1>15,
       <1>16
       DEF Handoffs!Next

\* Only GETDEL spends a token, once; and the request that found no counter sets its end.
LEMMA HandStep ==
    ASSUME NEW cfg, Handoffs(cfg)!HandoffAssumption, Handoffs(cfg)!HandInv,
           [Handoffs(cfg)!Next]_(Handoffs(cfg)!vars)
    PROVE  Handoffs(cfg)!HandInv'
<1>1. CASE UNCHANGED Handoffs(cfg)!vars
    BY <1>1
       DEF Handoffs!vars, Handoffs!HandInv, Handoffs!Typed, Handoffs!TypeOK, Handoffs!Counted,
           Handoffs!CounterEnds
<1>2. CASE Handoffs(cfg)!Next
  <2> USE <1>2 DEF Handoffs!HandInv
  <2>1. Handoffs(cfg)!Typed'
    BY HandMoves
  <2>2. Handoffs(cfg)!Counted'
    <3>1. CASE UNCHANGED <<handoff, got>>
      BY <3>1 DEF Handoffs!Counted
    <3>2. ASSUME NEW t \in cfg.links, handoff[t].state = "unused" \/ handoff[t].state = "live",
                 got' = got, NEW p, p.state # "spent", handoff' = [handoff EXCEPT ![t] = p]
          PROVE  Handoffs(cfg)!Counted'
      BY <3>2 DEF Handoffs!Counted, Handoffs!Typed, Handoffs!TypeOK
    <3>3. ASSUME NEW q \in cfg.requests, Handoffs(cfg)!Take(q)
          PROVE  Handoffs(cfg)!Counted'
      BY <3>3
         DEF Handoffs!Counted, Handoffs!Take, Handoffs!Spent, Handoffs!Typed, Handoffs!TypeOK,
             Handoffs!Handling
    <3>4. ASSUME NEW q \in cfg.requests, Handoffs(cfg)!Mint(q)
          \/ \E u \in cfg.users : Handoffs(cfg)!SaveJd(q, u)
          PROVE  Handoffs(cfg)!Counted'
      BY <3>2, <3>4
         DEF Handoffs!Mint, Handoffs!SaveJd, Handoffs!Payload, Handoffs!JdPayload, Handoffs!Fresh
    <3>5. ASSUME NEW t \in cfg.links, Handoffs(cfg)!TokenExpires(t)
          PROVE  Handoffs(cfg)!Counted'
      BY <3>5 DEF Handoffs!TokenExpires, Handoffs!Counted, Handoffs!Typed, Handoffs!TypeOK
    <3> QED
      BY <3>1, <3>3, <3>4, <3>5
         DEF Handoffs!Next, Handoffs!Read, Handoffs!Redeem, Handoffs!Resolve, Handoffs!Touch,
             Handoffs!Edit, Handoffs!Own, Handoffs!Intel, Handoffs!CommitJd, Handoffs!StartWindow,
             Handoffs!Limited, Handoffs!BreaksOff, Handoffs!WindowEnds
  <2>3. ~cfg.faults => Handoffs(cfg)!CounterEnds'
    <3> SUFFICES ASSUME ~cfg.faults, Handoffs(cfg)!CounterEnds
                 PROVE  Handoffs(cfg)!CounterEnds'
      OBVIOUS
    <3>1. ASSUME NEW q \in cfg.requests, rate' = rate, handReq[q].pc # "expire",
                 \A p \in cfg.requests \ {q} : handReq'[p] = handReq[p]
          PROVE  Handoffs(cfg)!CounterEnds'
      BY <3>1 DEF Handoffs!CounterEnds
    <3>2. ASSUME NEW q \in cfg.requests, NEW t \in cfg.links, Handoffs(cfg)!Redeem(q, t)
          PROVE  Handoffs(cfg)!CounterEnds'
      BY <3>2
         DEF Handoffs!Redeem, Handoffs!CounterEnds, Handoffs!Typed, Handoffs!TypeOK,
             Handoffs!NoReq
    <3>3. ASSUME NEW q \in cfg.requests, Handoffs(cfg)!StartWindow(q)
          PROVE  Handoffs(cfg)!CounterEnds'
      BY <3>3 DEF Handoffs!StartWindow, Handoffs!CounterEnds, Handoffs!Typed, Handoffs!TypeOK
    <3>4. ASSUME NEW q \in cfg.requests, NEW u \in cfg.users \cup {Nobody},
                 NEW op \in Handoffs(cfg)!About, Handoffs(cfg)!Read(q, op, u)
          PROVE  Handoffs(cfg)!CounterEnds'
      BY <3>1, <3>4 DEF Handoffs!Read, Handoffs!NoReq, Handoffs!Typed
    <3>5. ASSUME NEW q \in cfg.requests, NEW u \in cfg.users, Handoffs(cfg)!SaveJd(q, u)
          PROVE  Handoffs(cfg)!CounterEnds'
      BY <3>1, <3>5 DEF Handoffs!SaveJd, Handoffs!NoReq, Handoffs!Typed
    <3>6. ASSUME NEW q \in cfg.requests, Handoffs(cfg)!Resolve(q) \/ Handoffs(cfg)!Touch(q)
          \/ Handoffs(cfg)!Edit(q) \/ Handoffs(cfg)!Own(q) \/ Handoffs(cfg)!Intel(q)
          PROVE  Handoffs(cfg)!CounterEnds'
      BY <3>1, <3>6
         DEF Handoffs!Resolve, Handoffs!Touch, Handoffs!Edit, Handoffs!Own, Handoffs!Intel,
             Handoffs!Goto, Handoffs!Ends, Handoffs!Typed
    <3>7. ASSUME NEW q \in cfg.requests, Handoffs(cfg)!Mint(q) \/ Handoffs(cfg)!CommitJd(q)
          \/ Handoffs(cfg)!Limited(q) \/ Handoffs(cfg)!Take(q)
          PROVE  Handoffs(cfg)!CounterEnds'
      BY <3>1, <3>7
         DEF Handoffs!Mint, Handoffs!CommitJd, Handoffs!Limited, Handoffs!Take, Handoffs!Ends,
             Handoffs!Typed
    <3> QED
      BY <3>2, <3>3, <3>4, <3>5, <3>6, <3>7
         DEF Handoffs!Next, Handoffs!BreaksOff, Handoffs!TokenExpires, Handoffs!WindowEnds,
             Handoffs!CounterEnds
  <2> QED BY <2>1, <2>2, <2>3
<1> QED BY <1>1, <1>2

\* Requests about the session coming one at a time, the copy of each is the session.
LEMMA HandTurnStep ==
    ASSUME NEW cfg, Handoffs(cfg)!HandoffAssumption, ~cfg.overlap, Handoffs(cfg)!HandInv,
           Handoffs(cfg)!TurnInv, [Handoffs(cfg)!Next]_(Handoffs(cfg)!vars)
    PROVE  Handoffs(cfg)!TurnInv'
<1> USE DEF Handoffs!HandoffAssumption, Handoffs!HandInv, Handoffs!Typed,
      Handoffs!Fits, Handoffs!Shapes, Handoffs!TypeOK
<1>1. CASE UNCHANGED Handoffs(cfg)!vars
    BY <1>1 DEF Handoffs!vars, Handoffs!TurnInv, Handoffs!EditKept
<1>2. ASSUME NEW q \in cfg.requests, NEW u \in cfg.users \cup {Nobody},
             NEW op \in Handoffs(cfg)!About, Handoffs(cfg)!Read(q, op, u)
      PROVE  Handoffs(cfg)!TurnInv'
    BY <1>2
       DEF Handoffs!TurnInv, Handoffs!EditKept, Handoffs!Read, Handoffs!NoReq, Handoffs!Working
<1>3. ASSUME NEW q \in cfg.requests, UNCHANGED <<doc, claimant, edits>>,
             handReq'[q].pc \in Handoffs(cfg)!Working => handReq[q].pc \in Handoffs(cfg)!Working
                 /\ handReq'[q].copy = handReq[q].copy,
             handReq'[q].pc \in {"intel", "mint"} =>
                handReq[q].pc \in {"intel", "mint"} \/ (claimant # Nobody /\ edits > 0),
             \A p \in cfg.requests \ {q} : handReq'[p] = handReq[p],
             handReq'[q].pc = "commit" => saved'[handReq'[q].token] # "none",
             \A t \in cfg.links : saved[t] # "none" => saved'[t] # "none",
             \A t \in cfg.links :
                \/ handoff'[t].state = "unused"
                \/ saved'[t] # "none"
                \/ handoff[t].state # "unused" /\ saved[t] = "none"
                   /\ handoff'[t].owner = handoff[t].owner /\ handoff'[t].draft = handoff[t].draft
      PROVE  Handoffs(cfg)!TurnInv'
  <2>1. doc'.owner = claimant' /\ Handoffs(cfg)!EditKept'
    BY <1>3 DEF Handoffs!TurnInv, Handoffs!EditKept
  <2>2. \A p, r \in cfg.requests : handReq'[p].pc \in Handoffs(cfg)!Working
        /\ handReq'[r].pc \in Handoffs(cfg)!Working => p = r
    BY <1>3, SMTT(30) DEF Handoffs!TurnInv
  <2>3. ASSUME NEW p \in cfg.requests
        PROVE  /\ handReq'[p].pc \in Handoffs(cfg)!Working => handReq'[p].copy = doc'
               /\ handReq'[p].pc \in {"intel", "mint"} => claimant' # Nobody /\ edits' > 0
               /\ handReq'[p].pc = "commit" => saved'[handReq'[p].token] # "none"
    <3>1. handReq[p].pc = "commit" => handReq[p].token \in cfg.links
      BY DEF Handoffs!Handling
    <3> QED BY <1>3, <3>1 DEF Handoffs!TurnInv
  <2>4. \A t \in cfg.links : handoff'[t].state # "unused" /\ saved'[t] = "none" =>
           claimant' # Nobody /\ handoff'[t].owner = claimant'
               /\ handoff'[t].draft \in 1 .. edits'
    BY <1>3 DEF Handoffs!TurnInv
  <2> QED BY <2>1, <2>2, <2>3, <2>4 DEF Handoffs!TurnInv
<1>4. ASSUME NEW q \in cfg.requests, NEW u \in cfg.users, Handoffs(cfg)!SaveJd(q, u)
      PROVE  Handoffs(cfg)!TurnInv'
  <2>1. PICK t \in Handoffs(cfg)!Fresh :
           /\ handoff' = [handoff EXCEPT ![t] = Handoffs(cfg)!JdPayload(u)]
           /\ saved' = [saved EXCEPT ![t] = "flushed"]
           /\ handReq' = [handReq EXCEPT ![q] =
                         [Handoffs(cfg)!NoReq EXCEPT !.pc = "commit", !.op = "save", !.user = u,
                                                     !.token = t]]
    BY <1>4 DEF Handoffs!SaveJd
  <2>2. /\ handReq'[q].pc = "commit" /\ handReq'[q].token = t /\ saved'[t] = "flushed"
        /\ \A p \in cfg.requests \ {q} : handReq'[p] = handReq[p]
        /\ \A s \in cfg.links \ {t} : handoff'[s] = handoff[s] /\ saved'[s] = saved[s]
    BY <2>1 DEF Handoffs!NoReq, Handoffs!Fresh
  <2> QED BY <1>3, <1>4, <2>2 DEF Handoffs!SaveJd, Handoffs!Working
<1>5. ASSUME NEW q \in cfg.requests, NEW t \in cfg.links, Handoffs(cfg)!Redeem(q, t)
      PROVE  Handoffs(cfg)!TurnInv'
    BY <1>3, <1>5 DEF Handoffs!Redeem, Handoffs!NoReq, Handoffs!Working
<1>6. ASSUME NEW q \in cfg.requests, Handoffs(cfg)!CommitJd(q) \/ Handoffs(cfg)!StartWindow(q)
      \/ Handoffs(cfg)!Limited(q) \/ Handoffs(cfg)!BreaksOff(q)
      PROVE  Handoffs(cfg)!TurnInv'
    BY <1>3, <1>6
       DEF Handoffs!CommitJd, Handoffs!StartWindow, Handoffs!Limited, Handoffs!BreaksOff,
           Handoffs!Goto, Handoffs!Ends, Handoffs!NoReq, Handoffs!Working, Handoffs!Handling
<1>7. ASSUME NEW q \in cfg.requests, Handoffs(cfg)!Take(q) PROVE Handoffs(cfg)!TurnInv'
  <2>1. handReq'[q].pc = "idle" /\ \A p \in cfg.requests \ {q} : handReq'[p] = handReq[p]
    BY <1>7 DEF Handoffs!Take, Handoffs!Ends, Handoffs!NoReq
  <2>2. handReq[q].token \in cfg.links
    BY <1>7 DEF Handoffs!Take, Handoffs!Handling
  <2>3. \A t \in cfg.links : handoff'[t].state = "unused" <=> handoff[t].state = "unused"
    <3>1. CASE handoff[handReq[q].token].state = "live"
          /\ handoff' = Handoffs(cfg)!Spent(handReq[q].token)
      BY <2>2, <3>1 DEF Handoffs!Spent
    <3> QED BY <1>7, <3>1 DEF Handoffs!Take
  <2>4. \A t \in cfg.links :
           handoff'[t].owner = handoff[t].owner /\ handoff'[t].draft = handoff[t].draft
    <3>1. handoff' = Handoffs(cfg)!Spent(handReq[q].token) \/ handoff' = handoff
      BY <1>7 DEF Handoffs!Take
    <3>2. CASE handoff' = Handoffs(cfg)!Spent(handReq[q].token)
      BY <2>2, <3>2 DEF Handoffs!Spent
    <3> QED BY <3>1, <3>2
  <2> QED BY <1>3, <1>7, <2>1, <2>3, <2>4 DEF Handoffs!Take, Handoffs!Working
<1>8. ASSUME NEW q \in cfg.requests, Handoffs(cfg)!Touch(q) PROVE Handoffs(cfg)!TurnInv'
    BY <1>8
       DEF Handoffs!Touch, Handoffs!Ends, Handoffs!NoReq, Handoffs!Working, Handoffs!TurnInv,
           Handoffs!EditKept
<1>9. ASSUME NEW q \in cfg.requests, Handoffs(cfg)!Resolve(q) PROVE Handoffs(cfg)!TurnInv'
  <2>1. /\ handReq[q].pc = "resolve" /\ handReq[q].copy = doc /\ doc.owner = claimant
        /\ Handoffs(cfg)!EditKept
        /\ \A p \in cfg.requests : handReq[p].pc \in Handoffs(cfg)!Working => p = q
    BY <1>9 DEF Handoffs!Resolve, Handoffs!TurnInv, Handoffs!Working
  <2>2. CASE handReq[q].user # Nobody /\ Handoffs(cfg)!Refused(q)
    BY <1>3, <1>9, <2>2 DEF Handoffs!Resolve, Handoffs!Ends, Handoffs!NoReq, Handoffs!Working
  <2>3. CASE ~(handReq[q].user # Nobody /\ Handoffs(cfg)!Refused(q)) /\ ~Handoffs(cfg)!Claims(q)
    BY <1>3, <1>9, <2>1, <2>3 DEF Handoffs!Resolve, Handoffs!Goto, Handoffs!Working
  <2>4. CASE ~(handReq[q].user # Nobody /\ Handoffs(cfg)!Refused(q)) /\ Handoffs(cfg)!Claims(q)
    <3> DEFINE mine == [doc EXCEPT !.owner = handReq[q].user]
    <3>1. /\ doc' = mine /\ claimant' = handReq[q].user /\ claimant = Nobody
          /\ handReq' = [handReq EXCEPT ![q].pc = "touch", ![q].copy = mine]
      BY <1>9, <2>1, <2>4 DEF Handoffs!Resolve, Handoffs!Claims
    <3>2. mine.owner = handReq[q].user /\ mine.draft = doc.draft
      OBVIOUS
    <3> HIDE DEF mine
    <3>3. handReq'[q].pc = "touch" /\ handReq'[q].copy = doc'
          /\ \A p \in cfg.requests \ {q} : handReq'[p] = handReq[p]
      BY <3>1
    <3>4. UNCHANGED <<edits, handoff, saved>>
      BY <1>9 DEF Handoffs!Resolve
    <3>5. \A p \in cfg.requests : handReq'[p].pc \in Handoffs(cfg)!Working => p = q
      BY <2>1, <3>3
    <3>6. \A p \in cfg.requests : handReq'[p].pc # "commit" \/ saved'[handReq'[p].token] # "none"
      BY <3>3, <3>4 DEF Handoffs!TurnInv
    <3>7. \A t \in cfg.links : ~(handoff'[t].state # "unused" /\ saved'[t] = "none")
      BY <3>1, <3>4 DEF Handoffs!TurnInv
    <3>8. doc'.owner = claimant' /\ Handoffs(cfg)!EditKept'
      BY <2>1, <3>1, <3>2, <3>4 DEF Handoffs!EditKept
    <3>9. \A p \in cfg.requests : handReq'[p].pc \notin {"intel", "mint"}
      BY <2>1, <3>3 DEF Handoffs!Working
    <3> QED BY <3>3, <3>5, <3>6, <3>7, <3>8, <3>9 DEF Handoffs!TurnInv
  <2> QED BY <2>2, <2>3, <2>4
<1>10. ASSUME NEW q \in cfg.requests, Handoffs(cfg)!Edit(q) PROVE Handoffs(cfg)!TurnInv'
    BY <1>10
       DEF Handoffs!Edit, Handoffs!Ends, Handoffs!NoReq, Handoffs!Working, Handoffs!TurnInv,
           Handoffs!EditKept
<1>11. ASSUME NEW q \in cfg.requests, Handoffs(cfg)!Own(q) PROVE Handoffs(cfg)!TurnInv'
  <2>1. handReq[q].pc = "resolve" /\ handReq[q].copy = doc /\ doc.owner = claimant
        /\ doc.draft = edits
    BY <1>11 DEF Handoffs!Own, Handoffs!TurnInv, Handoffs!EditKept, Handoffs!Working
  <2>2. CASE Handoffs(cfg)!Owns(q) /\ handReq[q].copy.draft > 0
    BY <1>3, <1>11, <2>1, <2>2, SMTT(30)
       DEF Handoffs!Own, Handoffs!Owns, Handoffs!Goto, Handoffs!Working
  <2>3. CASE ~(Handoffs(cfg)!Owns(q) /\ handReq[q].copy.draft > 0)
    BY <1>3, <1>11, <2>3 DEF Handoffs!Own, Handoffs!Ends, Handoffs!NoReq, Handoffs!Working
  <2> QED BY <2>2, <2>3
<1>12. ASSUME NEW q \in cfg.requests, Handoffs(cfg)!Intel(q) PROVE Handoffs(cfg)!TurnInv'
  <2>1. /\ handReq[q].pc = "intel" /\ handReq[q].copy = doc /\ doc.owner = claimant
        /\ Handoffs(cfg)!EditKept
        /\ claimant # Nobody /\ edits > 0
        /\ \A p \in cfg.requests : handReq[p].pc \in Handoffs(cfg)!Working => p = q
    BY <1>12 DEF Handoffs!Intel, Handoffs!TurnInv, Handoffs!Working
  <2>2. CASE doc' = doc /\ Handoffs(cfg)!Goto(q, "mint")
    BY <1>3, <1>12, <2>1, <2>2 DEF Handoffs!Intel, Handoffs!Goto, Handoffs!Working
  <2>3. CASE ~(doc' = doc /\ Handoffs(cfg)!Goto(q, "mint"))
    <3> DEFINE learnt == [doc EXCEPT !.intel = TRUE]
    <3>1. doc' = learnt /\ handReq' = [handReq EXCEPT ![q].pc = "mint", ![q].copy = learnt]
      BY <1>12, <2>1, <2>3 DEF Handoffs!Intel
    <3>2. learnt.owner = doc.owner /\ learnt.draft = doc.draft
      OBVIOUS
    <3> HIDE DEF learnt
    <3>3. handReq'[q].pc = "mint" /\ handReq'[q].copy = doc'
          /\ \A p \in cfg.requests \ {q} : handReq'[p] = handReq[p]
      BY <3>1
    <3>4. UNCHANGED <<claimant, edits, handoff, saved>>
      BY <1>12 DEF Handoffs!Intel
    <3>5. \A p \in cfg.requests : handReq'[p].pc \in Handoffs(cfg)!Working => p = q
      BY <2>1, <3>3
    <3>6. \A p \in cfg.requests : handReq'[p].pc # "commit" \/ saved'[handReq'[p].token] # "none"
      BY <3>3, <3>4 DEF Handoffs!TurnInv
    <3>7. \A t \in cfg.links : handoff'[t].state # "unused" /\ saved'[t] = "none" =>
             claimant' # Nobody /\ handoff'[t].owner = claimant'
                 /\ handoff'[t].draft \in 1 .. edits'
      BY <3>4 DEF Handoffs!TurnInv
    <3>8. doc'.owner = claimant' /\ Handoffs(cfg)!EditKept'
      BY <2>1, <3>1, <3>2, <3>4 DEF Handoffs!EditKept
    <3> QED BY <2>1, <3>3, <3>4, <3>5, <3>6, <3>7, <3>8 DEF Handoffs!TurnInv
  <2> QED BY <2>2, <2>3
<1>13. ASSUME NEW q \in cfg.requests, Handoffs(cfg)!Mint(q) PROVE Handoffs(cfg)!TurnInv'
    BY <1>13
       DEF Handoffs!Mint, Handoffs!Payload, Handoffs!Fresh, Handoffs!Ends, Handoffs!NoReq,
           Handoffs!Working, Handoffs!TurnInv, Handoffs!EditKept
<1>14. ASSUME NEW t \in cfg.links, Handoffs(cfg)!TokenExpires(t)
       PROVE  Handoffs(cfg)!TurnInv'
    BY <1>14 DEF Handoffs!TokenExpires, Handoffs!TurnInv, Handoffs!EditKept
<1>15. Handoffs(cfg)!WindowEnds => Handoffs(cfg)!TurnInv'
    BY DEF Handoffs!WindowEnds, Handoffs!TurnInv, Handoffs!EditKept
<1> QED
    BY <1>1, <1>2, <1>4, <1>5, <1>6, <1>7, <1>8, <1>9, <1>10, <1>11, <1>12, <1>13, <1>14, <1>15
       DEF Handoffs!Next

-----------------------------------------------------------------------------
(***************************************************************************)
(* Accounts that are closed: AccountClosure, for any users, requests and ticks. *)
(***************************************************************************)
\* Nothing is closed, held or reminded of at first.
LEMMA CloseOpening ==
    ASSUME NEW cfg, Closures(cfg)!ClosureAssumption, Closures(cfg)!Init
    PROVE  Closures(cfg)!ClosureInv
BY DEF Closures!ClosureAssumption, Closures!Init, Closures!ClosureInv, Closures!TypeOK,
       Closures!LocksKept, Closures!CountedReminders

\* What requests do keeps what the ticks have locked.
LEMMA CloseRequestsKeep ==
    ASSUME NEW cfg, Closures(cfg)!ClosureAssumption, Closures(cfg)!ClosureInv, NEW r \in Trio,
           Closures(cfg)!Serve(r)
    PROVE  Closures(cfg)!ClosureInv' /\ gone' = gone
<1> USE DEF Closures!ClosureInv
<1>1. ASSUME Closures(cfg)!TypeOK', UNCHANGED <<Closures(cfg)!tick, reminded, reminders, now>>,
             \A u \in Two : Closures(cfg)!Held(u) /\ closure[u] = "open" =>
                closure'[u] = "open" /\ due'[u] = due[u]
      PROVE  Closures(cfg)!ClosureInv'
  <2>1. \A t \in Pair : batch'[t] \subseteq Closures(cfg)!Due'
    <3> SUFFICES ASSUME NEW t \in Pair, NEW u \in batch[t] PROVE u \in Closures(cfg)!Due'
      BY <1>1 DEF Closures!tick
    <3>1. u \in Two /\ Closures(cfg)!Held(u) /\ closure[u] = "open" /\ due[u] <= now
      BY DEF Closures!TypeOK, Closures!LocksKept, Closures!Due, Closures!Held
    <3> QED BY <1>1, <3>1 DEF Closures!Due
  <2> QED BY <1>1, <2>1 DEF Closures!LocksKept, Closures!CountedReminders, Closures!tick
<1>2. r \in Trio /\ user[r] \in Two
    BY DEF Closures!TypeOK
<1>3. ASSUME UNCHANGED <<now, Closures(cfg)!account, Closures(cfg)!tick, faults>>,
             Closures(cfg)!TypeOK'
      PROVE  Closures(cfg)!ClosureInv' /\ gone' = gone
    BY <1>1, <1>3 DEF Closures!account, Closures!tick
<1>4. ASSUME NEW a \in {"none", "ok", "missing", "error"}, Closures(cfg)!Respond(r, a)
      PROVE  /\ closePc' \in [Trio -> {"idle", "insert", "update", "row", "background", "commit",
                  "done"}]
             /\ closeAnswer' \in [Trio -> {"none", "ok", "missing", "error"}]
             /\ closeOp' = closeOp /\ user' = user
    BY <1>4 DEF Closures!TypeOK, Closures!Respond
<1>5. ASSUME NEW l \in {"insert", "update", "row", "background", "commit"},
             Closures(cfg)!Goto(r, l)
      PROVE  /\ closePc' \in [Trio -> {"idle", "insert", "update", "row", "background", "commit",
                  "done"}]
             /\ closeAnswer' = closeAnswer /\ closeOp' = closeOp /\ user' = user
    BY <1>5 DEF Closures!TypeOK, Closures!Goto
<1>6. CASE Closures(cfg)!Close(r)
  <2>1. Closures(cfg)!TypeOK'
    BY <1>4, <1>5, <1>6
       DEF Closures!Close, Closures!TypeOK, Closures!account, Closures!storage, Closures!tick
  <2> QED BY <1>3, <1>6, <2>1 DEF Closures!Close
<1>7. CASE Closures(cfg)!Cancel(r)
  <2>1. Closures(cfg)!TypeOK'
    BY <1>4, <1>5, <1>7
       DEF Closures!Cancel, Closures!TypeOK, Closures!account, Closures!storage, Closures!tick
  <2> QED BY <1>3, <1>7, <2>1 DEF Closures!Cancel
<1>8. CASE Closures(cfg)!Upload(r)
  <2>1. Closures(cfg)!TypeOK'
    BY <1>4, <1>5, <1>8 DEF Closures!Upload, Closures!TypeOK, Closures!account, Closures!tick
  <2> QED BY <1>3, <1>8, <2>1 DEF Closures!Upload
<1>9. CASE Closures(cfg)!Attach(r)
  <2>1. Closures(cfg)!TypeOK'
    BY <1>4, <1>5, <1>9 DEF Closures!Attach, Closures!TypeOK, Closures!account, Closures!tick
  <2> QED BY <1>3, <1>9, <2>1 DEF Closures!Attach
<1>10. CASE Closures(cfg)!Export(r)
  <2>1. Closures(cfg)!TypeOK'
    BY <1>4, <1>5, <1>10
       DEF Closures!Export, Closures!TypeOK, Closures!account, Closures!storage, Closures!tick
  <2> QED BY <1>3, <1>10, <2>1 DEF Closures!Export
<1>11. CASE Closures(cfg)!Background(r)
  <2>1. Closures(cfg)!TypeOK'
    BY <1>4, <1>5, <1>11
       DEF Closures!Background, Closures!TypeOK, Closures!account, Closures!storage, Closures!tick
  <2> QED BY <1>3, <1>11, <2>1 DEF Closures!Background
<1>12. CASE Closures(cfg)!CommitJob(r)
  <2>1. Closures(cfg)!TypeOK'
    BY <1>4, <1>5, <1>12
       DEF Closures!CommitJob, Closures!TypeOK, Closures!account, Closures!storage, Closures!tick
  <2> QED BY <1>3, <1>12, <2>1 DEF Closures!CommitJob
<1>13. CASE Closures(cfg)!Insert(r)
  <2>1. now + cfg.grace \in 0 .. cfg.days + cfg.grace
    BY DEF Closures!TypeOK, Closures!ClosureAssumption
  <2>2. /\ closing' \subseteq Two /\ closure' \in [Two -> {"none", "open", "cancelled"}]
        /\ due' \in [Two -> 0 .. cfg.days + cfg.grace]
    BY <1>2, <1>13, <2>1 DEF Closures!Insert, Closures!TypeOK
  <2>3. Closures(cfg)!TypeOK'
    BY <1>4, <1>13, <2>2 DEF Closures!Insert, Closures!TypeOK, Closures!storage, Closures!tick
  <2>4. \A u \in Two : closure[u] = "open" => closure'[u] = "open" /\ due'[u] = due[u]
    BY <1>2, <1>13 DEF Closures!Insert, Closures!TypeOK
  <2> QED BY <1>1, <1>13, <2>3, <2>4 DEF Closures!Insert
<1>14. CASE Closures(cfg)!Update(r)
  <2>1. closing' \subseteq Two /\ closure' \in [Two -> {"none", "open", "cancelled"}]
    BY <1>2, <1>14 DEF Closures!Update, Closures!TypeOK
  <2>2. Closures(cfg)!TypeOK'
    BY <1>4, <1>14, <2>1 DEF Closures!Update, Closures!TypeOK, Closures!storage, Closures!tick
  <2>3. \A u \in Two : Closures(cfg)!Held(u) => closure'[u] = closure[u] /\ due'[u] = due[u]
    BY <1>2, <1>14 DEF Closures!Update, Closures!TypeOK
  <2> QED BY <1>1, <1>14, <2>2, <2>3 DEF Closures!Update
<1> QED
    BY <1>6, <1>7, <1>8, <1>9, <1>10, <1>11, <1>12, <1>13, <1>14 DEF Closures!Serve

\* A tick that ends lets go of everything.
LEMMA CloseEnds ==
    ASSUME NEW cfg, Closures(cfg)!ClosureInv, NEW t \in Pair, Closures(cfg)!Ended(t)
    PROVE  /\ tpc' \in [Pair -> {"idle", "work"}]
           /\ remind' \in [Pair -> SUBSET Two] /\ batch' \in [Pair -> SUBSET Two]
           /\ todo' \in [Pair -> SUBSET Two] /\ current' \in [Pair -> Two \cup {Nobody}]
           /\ dropped' \in [Pair -> SUBSET Two] /\ failed' \in [Pair -> SUBSET Two]
           /\ remind'[t] = {} /\ batch'[t] = {} /\ todo'[t] = {} /\ dropped'[t] = {}
           /\ current'[t] = Nobody
           /\ \A s \in Pair \ {t} :
                /\ tpc'[s] = tpc[s] /\ remind'[s] = remind[s] /\ batch'[s] = batch[s]
                /\ todo'[s] = todo[s] /\ dropped'[s] = dropped[s] /\ current'[s] = current[s]
BY DEF Closures!ClosureInv, Closures!TypeOK, Closures!Ended

\* A tick stops before its commit.
LEMMA CloseStops ==
    ASSUME NEW cfg, Closures(cfg)!ClosureAssumption, Closures(cfg)!ClosureInv, NEW t \in Pair,
           Closures(cfg)!Rollback(t) \/ Closures(cfg)!Crash(t)
    PROVE  Closures(cfg)!ClosureInv' /\ gone' = gone
<1> USE DEF Closures!ClosureInv
<1>1. /\ UNCHANGED <<now, Closures(cfg)!account, renews, Closures(cfg)!storage, job,
           Closures(cfg)!request>>
      /\ Closures(cfg)!Ended(t) /\ faults' \in 0 .. cfg.faults
    BY DEF Closures!Rollback, Closures!Crash, Closures!TypeOK, Closures!ClosureAssumption
<1>2. Closures(cfg)!TypeOK'
    BY <1>1, CloseEnds DEF Closures!TypeOK, Closures!account, Closures!storage, Closures!request
<1>3. Closures(cfg)!Due' = Closures(cfg)!Due
    BY <1>1 DEF Closures!Due, Closures!account
<1>4. Closures(cfg)!LocksKept'
  <2>1. \A s \in Pair :
           /\ tpc'[s] = "idle" => remind'[s] = {} /\ batch'[s] = {}
           /\ batch'[s] \subseteq Closures(cfg)!Due
           /\ dropped'[s] \cup todo'[s] \cup ({current'[s]} \ {Nobody}) \subseteq batch'[s]
    BY <1>1, CloseEnds DEF Closures!LocksKept
  <2>2. \A s, q \in Pair :
           s # q => (remind'[s] \cup batch'[s]) \cap (remind'[q] \cup batch'[q]) = {}
    BY <1>1, CloseEnds DEF Closures!LocksKept
  <2> QED BY <1>3, <2>1, <2>2 DEF Closures!LocksKept
<1>5. Closures(cfg)!CountedReminders'
    BY <1>1, CloseEnds DEF Closures!CountedReminders, Closures!account
<1> QED BY <1>1, <1>2, <1>4, <1>5 DEF Closures!account

\* The scan locks what nobody else has locked.
LEMMA CloseScans ==
    ASSUME NEW cfg, Closures(cfg)!ClosureInv, NEW t \in Pair, Closures(cfg)!Start(t)
    PROVE  Closures(cfg)!ClosureInv' /\ gone' = gone
<1> USE DEF Closures!ClosureInv
<1> DEFINE free == {u \in Two : ~Closures(cfg)!Held(u)}
<1>1. /\ UNCHANGED <<now, Closures(cfg)!account, renews, Closures(cfg)!storage, job,
           Closures(cfg)!request, current, dropped, failed, faults>>
      /\ remind' = [remind EXCEPT ![t] = Closures(cfg)!ToRemind \cap free]
      /\ batch' = [batch EXCEPT ![t] = Closures(cfg)!Due \cap free]
      /\ todo' = [todo EXCEPT ![t] = Closures(cfg)!Due \cap free]
      /\ tpc' = [tpc EXCEPT ![t] = "work"] /\ tpc[t] = "idle"
    BY DEF Closures!Start
<1>2. /\ Closures(cfg)!ToRemind \subseteq Two /\ Closures(cfg)!Due \subseteq Two
      /\ Closures(cfg)!ToRemind \cap reminded = {}
    BY DEF Closures!ToRemind, Closures!Due
<1>3. /\ remind' \in [Pair -> SUBSET Two] /\ batch' \in [Pair -> SUBSET Two]
      /\ todo' \in [Pair -> SUBSET Two] /\ tpc' \in [Pair -> {"idle", "work"}]
      /\ remind'[t] = Closures(cfg)!ToRemind \cap free
      /\ batch'[t] = Closures(cfg)!Due \cap free /\ todo'[t] = Closures(cfg)!Due \cap free
      /\ tpc'[t] = "work"
      /\ \A s \in Pair \ {t} :
           /\ tpc'[s] = tpc[s] /\ remind'[s] = remind[s] /\ batch'[s] = batch[s]
           /\ todo'[s] = todo[s]
    BY <1>1, <1>2 DEF Closures!TypeOK
<1>4. Closures(cfg)!TypeOK'
    BY <1>1, <1>3 DEF Closures!TypeOK, Closures!account, Closures!storage, Closures!request
<1>5. Closures(cfg)!Due' = Closures(cfg)!Due /\ dropped' = dropped /\ current' = current
    BY <1>1 DEF Closures!Due, Closures!account
<1>6. \A s \in Pair : (remind[s] \cup batch[s]) \cap free = {}
    BY DEF Closures!Held
<1>7. dropped[t] \cup ({current[t]} \ {Nobody}) = {}
    BY <1>1 DEF Closures!LocksKept
<1> HIDE DEF free
<1>8. Closures(cfg)!LocksKept'
  <2>1. \A s \in Pair :
           /\ tpc'[s] = "idle" => remind'[s] = {} /\ batch'[s] = {}
           /\ batch'[s] \subseteq Closures(cfg)!Due
           /\ dropped[s] \cup todo'[s] \cup ({current[s]} \ {Nobody}) \subseteq batch'[s]
    BY <1>3, <1>7 DEF Closures!LocksKept
  <2>2. \A s, q \in Pair :
           s # q => (remind'[s] \cup batch'[s]) \cap (remind'[q] \cup batch'[q]) = {}
    BY <1>3, <1>6 DEF Closures!LocksKept
  <2> QED BY <1>5, <2>1, <2>2 DEF Closures!LocksKept
<1>9. Closures(cfg)!CountedReminders'
    BY <1>1, <1>2, <1>3 DEF Closures!CountedReminders, Closures!account
<1> QED BY <1>1, <1>4, <1>8, <1>9 DEF Closures!account

\* The work on one account of the batch.
LEMMA CloseWorks ==
    ASSUME NEW cfg, Closures(cfg)!ClosureAssumption, Closures(cfg)!ClosureInv, NEW t \in Pair,
           Closures(cfg)!Erase(t) \/ Closures(cfg)!Drop(t) \/ Closures(cfg)!DropFails(t)
    PROVE  Closures(cfg)!ClosureInv' /\ gone' = gone
<1> USE DEF Closures!ClosureInv
<1>1. /\ UNCHANGED <<now, Closures(cfg)!account, renews, attached, job, Closures(cfg)!request,
           tpc, remind, batch>>
      /\ files' \subseteq Trio /\ faults' \in 0 .. cfg.faults
    BY DEF Closures!Erase, Closures!Drop, Closures!DropFails, Closures!storage, Closures!TypeOK,
           Closures!ClosureAssumption
<1>2. /\ todo' \in [Pair -> SUBSET Two] /\ current' \in [Pair -> Two \cup {Nobody}]
      /\ dropped' \in [Pair -> SUBSET Two] /\ failed' \in [Pair -> SUBSET Two]
      /\ dropped'[t] \cup todo'[t] \cup ({current'[t]} \ {Nobody}) \subseteq batch[t]
      /\ \A s \in Pair \ {t} :
           dropped'[s] = dropped[s] /\ todo'[s] = todo[s] /\ current'[s] = current[s]
  <2>1. CASE Closures(cfg)!Erase(t)
    BY <2>1 DEF Closures!Erase, Closures!TypeOK, Closures!LocksKept
  <2>2. CASE Closures(cfg)!Drop(t)
    BY <2>2 DEF Closures!Drop, Closures!TypeOK, Closures!LocksKept
  <2>3. CASE Closures(cfg)!DropFails(t)
    BY <2>3 DEF Closures!DropFails, Closures!TypeOK, Closures!LocksKept
  <2> QED BY <2>1, <2>2, <2>3
<1>3. Closures(cfg)!TypeOK'
    BY <1>1, <1>2 DEF Closures!TypeOK, Closures!account, Closures!request
<1>4. Closures(cfg)!LocksKept'
  <2>1. Closures(cfg)!Due' = Closures(cfg)!Due
    BY <1>1 DEF Closures!Due, Closures!account
  <2> QED BY <1>1, <1>2, <2>1 DEF Closures!LocksKept
<1>5. Closures(cfg)!CountedReminders'
    BY <1>1 DEF Closures!CountedReminders, Closures!account
<1> QED BY <1>1, <1>3, <1>4, <1>5 DEF Closures!account

\* The commit deletes what is due, and reminds of what was not.
LEMMA CloseCommits ==
    ASSUME NEW cfg, Closures(cfg)!ClosureInv, NEW t \in Pair, Closures(cfg)!Commit(t)
    PROVE  Closures(cfg)!ClosureInv' /\ gone' \ gone \subseteq Closures(cfg)!Due
<1> USE DEF Closures!ClosureInv
<1> DEFINE out == {r \in Trio : user[r] \in dropped[t]}
<1>1. /\ gone' = gone \cup dropped[t] /\ closing' = closing \ dropped[t]
      /\ closure' = [u \in Two |-> IF u \in dropped[t] THEN "none" ELSE closure[u]]
      /\ reminded' = reminded \cup remind[t]
      /\ reminders' =
           [u \in Two |-> IF u \in remind[t] THEN reminders[u] + 1 ELSE reminders[u]]
      /\ attached' = attached \ out
      /\ job' = [r \in Trio |-> IF r \in out THEN "none" ELSE job[r]]
      /\ Closures(cfg)!Ended(t)
      /\ UNCHANGED <<now, due, renews, files, Closures(cfg)!request, faults>>
    BY DEF Closures!Commit
<1>2. /\ dropped[t] \subseteq batch[t] /\ batch[t] \subseteq Closures(cfg)!Due
      /\ Closures(cfg)!Due \subseteq Two /\ remind[t] \subseteq Two
    BY DEF Closures!LocksKept, Closures!Due, Closures!TypeOK
<1>3. Closures(cfg)!TypeOK'
    BY <1>1, <1>2, CloseEnds, SMTT(30) DEF Closures!TypeOK, Closures!request
<1>4. \A s \in Pair \ {t} : (remind[s] \cup batch[s]) \cap (remind[t] \cup batch[t]) = {}
    BY DEF Closures!LocksKept
<1>5. \A s \in Pair : batch'[s] \subseteq Closures(cfg)!Due'
  <2> SUFFICES ASSUME NEW s \in Pair, NEW u \in batch'[s] PROVE u \in Closures(cfg)!Due'
    OBVIOUS
  <2>1. s # t /\ u \in batch[s]
    BY <1>1, CloseEnds
  <2>2. u \in Closures(cfg)!Due /\ u \notin dropped[t]
    BY <1>2, <1>4, <2>1 DEF Closures!LocksKept
  <2> QED BY <1>1, <2>2 DEF Closures!Due
<1>6. Closures(cfg)!LocksKept'
  <2>1. \A s \in Pair :
           /\ tpc'[s] = "idle" => remind'[s] = {} /\ batch'[s] = {}
           /\ dropped'[s] \cup todo'[s] \cup ({current'[s]} \ {Nobody}) \subseteq batch'[s]
    BY <1>1, CloseEnds DEF Closures!LocksKept
  <2>2. \A s, q \in Pair :
           s # q => (remind'[s] \cup batch'[s]) \cap (remind'[q] \cup batch'[q]) = {}
    BY <1>1, CloseEnds DEF Closures!LocksKept
  <2> QED BY <1>5, <2>1, <2>2 DEF Closures!LocksKept
<1>7. Closures(cfg)!CountedReminders'
  <2>1. \A s \in Pair : remind'[s] \cap reminded' = {}
    BY <1>1, <1>4, CloseEnds DEF Closures!CountedReminders
  <2>2. \A u \in Two : reminders'[u] = IF u \in reminded' THEN 1 ELSE 0
    BY <1>1 DEF Closures!CountedReminders
  <2> QED BY <2>1, <2>2 DEF Closures!CountedReminders
<1> QED BY <1>1, <1>2, <1>3, <1>6, <1>7

\* Each step keeps the invariant; what it deletes is due, and nobody is reminded twice.
LEMMA CloseStep ==
    ASSUME NEW cfg, Closures(cfg)!ClosureAssumption, Closures(cfg)!ClosureInv,
           [Closures(cfg)!Next]_(Closures(cfg)!vars)
    PROVE  /\ Closures(cfg)!ClosureInv' /\ Closures(cfg)!DueIfGone
           /\ \A u \in Two : reminders'[u] <= 1
<1>1. Closures(cfg)!ClosureInv' /\ gone' \ gone \subseteq Closures(cfg)!Due
  <2>1. CASE UNCHANGED Closures(cfg)!vars
    <3>1. UNCHANGED <<now, Closures(cfg)!account, renews, Closures(cfg)!storage, job,
          Closures(cfg)!request, Closures(cfg)!tick, faults>>
      BY <2>1 DEF Closures!vars
    <3> QED
      BY <3>1
         DEF Closures!ClosureInv, Closures!TypeOK, Closures!LocksKept, Closures!CountedReminders,
             Closures!Due, Closures!account, Closures!storage, Closures!request, Closures!tick
  <2>2. CASE Closures(cfg)!Clock
    <3>1. Closures(cfg)!TypeOK' /\ gone' = gone /\ Closures(cfg)!Due \subseteq Closures(cfg)!Due'
      BY <2>2
         DEF Closures!Clock, Closures!ClosureInv, Closures!TypeOK, Closures!Due, Closures!account,
             Closures!storage, Closures!request, Closures!tick, Closures!ClosureAssumption
    <3>2. Closures(cfg)!LocksKept' /\ Closures(cfg)!CountedReminders'
      BY <2>2, <3>1
         DEF Closures!Clock, Closures!ClosureInv, Closures!LocksKept, Closures!CountedReminders,
             Closures!account, Closures!tick
    <3> QED BY <3>1, <3>2 DEF Closures!ClosureInv
  <2>3. ASSUME NEW r \in Trio, Closures(cfg)!Serve(r)
        PROVE  Closures(cfg)!ClosureInv' /\ gone' \ gone \subseteq Closures(cfg)!Due
    BY <2>3, CloseRequestsKeep
  <2>4. ASSUME NEW t \in Pair,
               Closures(cfg)!Work(t) \/ Closures(cfg)!DropFails(t) \/ Closures(cfg)!Crash(t)
        PROVE  Closures(cfg)!ClosureInv' /\ gone' \ gone \subseteq Closures(cfg)!Due
    BY <2>4, CloseScans, CloseWorks, CloseCommits, CloseStops DEF Closures!Work
  <2> QED BY <2>1, <2>2, <2>3, <2>4 DEF Closures!Next
<1>2. \A u \in Two : reminders'[u] <= 1
    BY <1>1 DEF Closures!ClosureInv, Closures!CountedReminders
<1> QED BY <1>1, <1>2 DEF Closures!DueIfGone

-----------------------------------------------------------------------------
(***************************************************************************)
(* Registrations: SignUps, for any requests, addresses, identities and devices. *)
(***************************************************************************)
\* The finite sets of the instances are those of FiniteSets.
LEMMA SignSame ==
    ASSUME NEW cfg, NEW S
    PROVE  /\ Signs(cfg)!IsFiniteSet(S) <=> IsFiniteSet(S)
           /\ Signs(cfg)!Cardinality(S) = Cardinality(S)
BY DEF Signs!IsFiniteSet, IsFiniteSet, Signs!Cardinality, Cardinality

\* Before the first request nothing is written and nobody is known.
LEMMA SignStart ==
    ASSUME NEW cfg, Signs(cfg)!SignUpAssumption, Signs(cfg)!Init
    PROVE  Signs(cfg)!SignUpInv
<1>1. Signs(cfg)!Idle \in Signs(cfg)!Shapes
    BY DEF Signs!Idle, Signs!Shapes, Signs!Steps
<1> QED
    BY <1>1
       DEF Signs!SignUpInv, Signs!TypeOK, Signs!Apart, Signs!OneAccount, Signs!Init,
           Signs!Accounts, Signs!Pending, Signs!Idle, Signs!Entering

\* Where rows keep their names, nobody is known or taken that was not.
LEMMA SignSameKnown ==
    ASSUME NEW cfg, person' \in [Trio -> Signs(cfg)!Rows \cup {Nobody}],
           \A u \in Trio : (person[u] = Nobody) = (person'[u] = Nobody),
           \A u \in Signs(cfg)!Accounts : person'[u].address = person[u].address
    PROVE  /\ Signs(cfg)!Accounts' = Signs(cfg)!Accounts
           /\ Signs(cfg)!OneAccount => Signs(cfg)!OneAccount'
           /\ \A entry \in Signs(cfg)!Rows : Signs(cfg)!Taken(entry)' => Signs(cfg)!Taken(entry)
<1>1. Signs(cfg)!Accounts' = Signs(cfg)!Accounts
    BY DEF Signs!Accounts
<1> QED
    BY <1>1 DEF Signs!Accounts, Signs!OneAccount, Signs!SameName, Signs!Taken

\* A request goes on without writing an account.
LEMMA SignGoes ==
    ASSUME NEW cfg, Signs(cfg)!SignUpAssumption, Signs(cfg)!SignUpInv, NEW r \in Trio,
           NEW v \in Signs(cfg)!Shapes,
           visitor' = [visitor EXCEPT ![r] = v], person' = person,
           visitor[r].pc # "done", v.pc # "idle",
           v.pc \in Signs(cfg)!Entering =>
              v.row # Nobody /\ v.target = Nobody /\ v.batch = {} /\ v.row.age = 0,
           v.target # Nobody => v.batch = {},
           v.batch \cup ({v.target} \ {Nobody}) \subseteq Signs(cfg)!Accounts,
           v.pc \in {"links", "mail", "commit"} =>
              /\ ~Signs(cfg)!Taken(v.row)
              /\ \A o \in Trio \ {r} : Signs(cfg)!Pending(o) =>
                   ~Signs(cfg)!SameName(visitor[o].row, v.row)
    PROVE  Signs(cfg)!SignUpInv'
<1>1. visitor'[r] = v /\ \A o \in Trio \ {r} : visitor'[o] = visitor[o]
    BY DEF Signs!SignUpInv, Signs!TypeOK
<1>2. Signs(cfg)!TypeOK'
    BY DEF Signs!SignUpInv, Signs!TypeOK
<1>3. Signs(cfg)!Accounts' = Signs(cfg)!Accounts /\ \A entry : Signs(cfg)!Taken(entry)' <=>
      Signs(cfg)!Taken(entry)
    BY DEF Signs!Accounts, Signs!Taken
<1>4. \A o \in Signs(cfg)!Accounts' : visitor'[o].pc = "done"
    BY <1>1, <1>3 DEF Signs!SignUpInv, Signs!Apart
<1>5. ASSUME NEW o \in Trio
      PROVE  /\ visitor'[o].pc = "idle" => visitor'[o] = Signs(cfg)!Idle
             /\ visitor'[o].pc \in Signs(cfg)!Entering =>
                  /\ visitor'[o].row # Nobody /\ visitor'[o].target = Nobody
                  /\ visitor'[o].batch = {} /\ visitor'[o].row.age = 0
             /\ visitor'[o].target # Nobody => visitor'[o].batch = {}
             /\ visitor'[o].batch \cup ({visitor'[o].target} \ {Nobody}) \subseteq
                  Signs(cfg)!Accounts'
    BY <1>1, <1>3 DEF Signs!SignUpInv, Signs!Apart
<1>6. \A o \in Trio : Signs(cfg)!Pending(o)' => ~Signs(cfg)!Taken(visitor[o].row)'
    BY <1>1, <1>3 DEF Signs!SignUpInv, Signs!Apart, Signs!Pending
<1>7. \A o \in Trio \ {r} : Signs(cfg)!Pending(o)' => Signs(cfg)!Pending(o)
    BY <1>1 DEF Signs!Pending
<1>8. ASSUME NEW o \in Trio, NEW p \in Trio, o # p, Signs(cfg)!Pending(o)', Signs(cfg)!Pending(p)'
      PROVE  ~Signs(cfg)!SameName(visitor'[o].row, visitor'[p].row)
  <2>1. CASE o = r
    BY <1>1, <1>7, <1>8, <2>1 DEF Signs!Pending, Signs!SameName
  <2>2. CASE p = r
    BY <1>1, <1>7, <1>8, <2>2 DEF Signs!Pending
  <2>3. CASE o # r /\ p # r
    BY <1>1, <1>7, <1>8, <2>3 DEF Signs!SignUpInv, Signs!Apart
  <2> QED BY <2>1, <2>2, <2>3
<1> QED
    BY <1>2, <1>3, <1>4, <1>5, <1>6, <1>8 DEF Signs!SignUpInv, Signs!Apart, Signs!OneAccount

\* The rows of requests are written back, and one of them may end.
LEMMA SignUpdates ==
    ASSUME NEW cfg, Signs(cfg)!SignUpAssumption, Signs(cfg)!SignUpInv,
           person' \in [Trio -> Signs(cfg)!Rows \cup {Nobody}],
           \A u \in Trio : (person[u] = Nobody) = (person'[u] = Nobody),
           \A u \in Signs(cfg)!Accounts : person'[u].address = person[u].address,
           visitor' \in [Trio -> Signs(cfg)!Shapes],
           \A o \in Trio :
              \/ visitor'[o] = visitor[o]
              \/ visitor'[o].pc = "done" /\ visitor'[o].batch = {} /\ visitor'[o].target = Nobody
    PROVE  Signs(cfg)!SignUpInv'
<1> USE DEF Signs!SignUpInv
<1>1. \A o \in Trio : Signs(cfg)!Pending(o)' => Signs(cfg)!Pending(o) /\ visitor'[o] = visitor[o]
    BY DEF Signs!Pending
<1>4. \A o \in Trio : Signs(cfg)!Pending(o) => visitor[o].row \in Signs(cfg)!Rows
    BY DEF Signs!TypeOK, Signs!Shapes, Signs!Pending
<1>5. /\ Signs(cfg)!Accounts' = Signs(cfg)!Accounts /\ Signs(cfg)!OneAccount'
      /\ \A entry \in Signs(cfg)!Rows : Signs(cfg)!Taken(entry)' => Signs(cfg)!Taken(entry)
    BY SignSameKnown
<1>6. \A o \in Signs(cfg)!Accounts' : visitor'[o].pc = "done"
    BY <1>5 DEF Signs!Apart, Signs!Accounts
<1>7. ASSUME NEW o \in Trio
      PROVE  /\ visitor'[o].pc = "idle" => visitor'[o] = Signs(cfg)!Idle
             /\ visitor'[o].pc \in Signs(cfg)!Entering =>
                  /\ visitor'[o].row # Nobody /\ visitor'[o].target = Nobody
                  /\ visitor'[o].batch = {} /\ visitor'[o].row.age = 0
             /\ visitor'[o].target # Nobody => visitor'[o].batch = {}
             /\ visitor'[o].batch \cup ({visitor'[o].target} \ {Nobody}) \subseteq
                  Signs(cfg)!Accounts'
    BY <1>5 DEF Signs!Apart, Signs!Entering
<1>8. \A o \in Trio : Signs(cfg)!Pending(o)' => ~Signs(cfg)!Taken(visitor[o].row)'
    BY <1>1, <1>4, <1>5 DEF Signs!Apart
<1>9. \A o, p \in Trio :
         o # p /\ Signs(cfg)!Pending(o)' /\ Signs(cfg)!Pending(p)' =>
             ~Signs(cfg)!SameName(visitor'[o].row, visitor'[p].row)
    BY <1>1 DEF Signs!Apart
<1> QED BY <1>5, <1>6, <1>7, <1>8, <1>9 DEF Signs!TypeOK, Signs!Apart

\* The commit of a new account, which nobody else has the name of.
LEMMA SignCommits ==
    ASSUME NEW cfg, Signs(cfg)!SignUpAssumption, Signs(cfg)!SignUpInv, NEW r \in Trio,
           Signs(cfg)!Commit(r)
    PROVE  /\ Signs(cfg)!SignUpInv' /\ Signs(cfg)!Accounts' = Signs(cfg)!Accounts \cup {r}
           /\ r \notin Signs(cfg)!Accounts
           /\ person'[r] = visitor[r].row /\ visitor[r].row \in Signs(cfg)!Rows
           /\ \A u \in Trio \ {r} : person'[u] = person[u] /\ visitor'[u] = visitor[u]
<1> USE DEF Signs!SignUpInv
<1>0. /\ visitor[r].pc = "commit" /\ visitor[r].row \in Signs(cfg)!Rows /\ visitor[r].row # Nobody
      /\ Signs(cfg)!Pending(r) /\ visitor[r].target = Nobody /\ visitor[r].batch = {}
    BY DEF Signs!Commit, Signs!TypeOK, Signs!Shapes, Signs!Apart, Signs!Entering, Signs!Pending
<1>a. LET v == [visitor[r] EXCEPT !.pc = "done"] IN
         v \in Signs(cfg)!Shapes /\ v.pc = "done" /\ v.batch = {} /\ v.target = Nobody
    BY <1>0 DEF Signs!TypeOK, Signs!Shapes, Signs!Steps
<1>1. /\ visitor'[r].pc = "done" /\ visitor'[r].target = Nobody /\ visitor'[r].batch = {}
      /\ visitor' \in [Trio -> Signs(cfg)!Shapes]
      /\ person' \in [Trio -> Signs(cfg)!Rows \cup {Nobody}]
      /\ \A u \in Trio \ {r} : visitor'[u] = visitor[u] /\ person'[u] = person[u]
      /\ person'[r] = visitor[r].row
    BY <1>0, <1>a DEF Signs!Commit, Signs!Goto, Signs!Set, Signs!TypeOK
<1>2. Signs(cfg)!Accounts' = Signs(cfg)!Accounts \cup {r} /\ r \notin Signs(cfg)!Accounts
    BY <1>0, <1>1 DEF Signs!Accounts, Signs!Apart
<1>3. \A o \in Trio : Signs(cfg)!Pending(o)' => o # r /\ Signs(cfg)!Pending(o)
    BY <1>1 DEF Signs!Pending
<1>4. \A o \in Signs(cfg)!Accounts' : visitor'[o].pc = "done"
    BY <1>1, <1>2 DEF Signs!Apart, Signs!Accounts
<1>5. \A u \in Signs(cfg)!Accounts : ~Signs(cfg)!SameName(person[u], visitor[r].row)
    BY <1>0 DEF Signs!Apart, Signs!Taken
<1>6. Signs(cfg)!OneAccount'
    BY <1>1, <1>2, <1>5 DEF Signs!OneAccount, Signs!SameName, Signs!Accounts
<1>7. ASSUME NEW o \in Trio, Signs(cfg)!Pending(o)'
      PROVE  ~Signs(cfg)!Taken(visitor[o].row)'
  <2>1. ~Signs(cfg)!SameName(visitor[r].row, visitor[o].row) /\ ~Signs(cfg)!Taken(visitor[o].row)
        /\ visitor'[o] = visitor[o]
    BY <1>0, <1>1, <1>3, <1>7 DEF Signs!Apart
  <2> QED BY <1>1, <1>2, <2>1 DEF Signs!Taken, Signs!Accounts
<1>8. ASSUME NEW o \in Trio
      PROVE  /\ visitor'[o].pc = "idle" => visitor'[o] = Signs(cfg)!Idle
             /\ visitor'[o].pc \in Signs(cfg)!Entering =>
                  /\ visitor'[o].row # Nobody /\ visitor'[o].target = Nobody
                  /\ visitor'[o].batch = {} /\ visitor'[o].row.age = 0
             /\ visitor'[o].target # Nobody => visitor'[o].batch = {}
             /\ visitor'[o].batch \cup ({visitor'[o].target} \ {Nobody}) \subseteq
                  Signs(cfg)!Accounts'
  <2>1. CASE o = r
    BY <1>0, <1>1, <2>1 DEF Signs!Entering
  <2>2. CASE o # r
    BY <1>1, <1>2, <2>2 DEF Signs!Apart
  <2> QED BY <2>1, <2>2
<1>9. \A o, p \in Trio :
         o # p /\ Signs(cfg)!Pending(o)' /\ Signs(cfg)!Pending(p)' =>
             ~Signs(cfg)!SameName(visitor'[o].row, visitor'[p].row)
    BY <1>1, <1>3 DEF Signs!Apart
<1> QED
    BY <1>0, <1>1, <1>2, <1>4, <1>6, <1>7, <1>8, <1>9 DEF Signs!TypeOK, Signs!Apart

\* What a new row is.
LEMMA SignNews ==
    ASSUME NEW cfg, Signs(cfg)!SignUpAssumption, NEW a \in cfg.addresses,
           NEW s \in {"email"} \cup cfg.subjects, NEW d \in cfg.devices, NEW v \in BOOLEAN
    PROVE  /\ Signs(cfg)!NewRow(a, s, d, v) \in Signs(cfg)!Rows
           /\ Signs(cfg)!NewRow(a, s, d, v) # Nobody
<1>1. Signs(cfg)!NewRow(a, s, d, v) \in Signs(cfg)!Rows
    BY DEF Signs!NewRow, Signs!Rows
<1> QED BY <1>1 DEF Signs!SignUpAssumption

\* A request begins, by what it is to do.
LEMMA SignBegins ==
    ASSUME NEW cfg, Signs(cfg)!SignUpAssumption, Signs(cfg)!SignUpInv, NEW r \in Trio,
           Signs(cfg)!Begin(r)
    PROVE  /\ Signs(cfg)!SignUpInv'
           /\ \E v \in Signs(cfg)!Shapes :
                /\ visitor' = [visitor EXCEPT ![r] = v] /\ v.pc \in {"look", "write", "done"}
                /\ v.batch \subseteq Signs(cfg)!Unverified
<1>1. Signs(cfg)!Idle \in Signs(cfg)!Shapes /\ visitor[r].pc = "idle" /\ person' = person
    BY DEF Signs!Idle, Signs!Shapes, Signs!Steps, Signs!Begin
<1>2. ASSUME NEW entry \in Signs(cfg)!Rows, entry # Nobody, entry.age = 0, NEW op \in cfg.ops,
             NEW v, v = [Signs(cfg)!Idle EXCEPT !.pc = "look", !.op = op, !.row = entry]
      PROVE  /\ v \in Signs(cfg)!Shapes /\ v.pc = "look" /\ v.row = entry
             /\ v.target = Nobody /\ v.batch = {}
    BY <1>2 DEF Signs!Idle, Signs!Shapes, Signs!Steps
<1>3. ASSUME NEW op \in cfg.ops, NEW u \in Signs(cfg)!Accounts, NEW v,
             v = [Signs(cfg)!Idle EXCEPT !.pc = "write", !.op = op, !.target = u]
      PROVE  v \in Signs(cfg)!Shapes /\ v.pc = "write" /\ v.target = u /\ v.batch = {}
    BY <1>3 DEF Signs!Idle, Signs!Shapes, Signs!Steps, Signs!Accounts
<1>4. ASSUME NEW op \in cfg.ops, NEW v, v = [Signs(cfg)!Idle EXCEPT !.pc = "done", !.op = op]
      PROVE  v \in Signs(cfg)!Shapes /\ v.pc = "done" /\ v.target = Nobody /\ v.batch = {}
    BY <1>4 DEF Signs!Idle, Signs!Shapes, Signs!Steps
<1>5. ASSUME NEW op \in cfg.ops,
             NEW v, v = [Signs(cfg)!Idle EXCEPT !.pc = "write", !.op = op,
                 !.batch = Signs(cfg)!Unverified]
      PROVE  /\ v \in Signs(cfg)!Shapes /\ v.pc = "write" /\ v.target = Nobody
             /\ v.batch = Signs(cfg)!Unverified
    BY <1>5 DEF Signs!Idle, Signs!Shapes, Signs!Steps, Signs!Accounts, Signs!Unverified
<1>6. Signs(cfg)!Unverified \subseteq Signs(cfg)!Accounts
    BY DEF Signs!Unverified
<1>7. CASE \E a \in cfg.addresses, d \in cfg.devices :
              Signs(cfg)!Register(r, a, d)
                  \/ \E s \in cfg.subjects : Signs(cfg)!Callback(r, a, s, d)
  <2>1. PICK entry \in Signs(cfg)!Rows, op \in cfg.ops :
           /\ entry # Nobody /\ entry.age = 0
           /\ visitor' = [visitor EXCEPT
                 ![r] = [Signs(cfg)!Idle EXCEPT !.pc = "look", !.op = op, !.row = entry]]
    <3>1. PICK a \in cfg.addresses, d \in cfg.devices :
             Signs(cfg)!Register(r, a, d)
                 \/ \E s \in cfg.subjects : Signs(cfg)!Callback(r, a, s, d)
      BY <1>7
    <3>2. CASE Signs(cfg)!Register(r, a, d)
      <4>1. /\ Signs(cfg)!NewRow(a, "email", d, FALSE) \in Signs(cfg)!Rows
            /\ Signs(cfg)!NewRow(a, "email", d, FALSE) # Nobody
            /\ Signs(cfg)!NewRow(a, "email", d, FALSE).age = 0
        BY SignNews DEF Signs!NewRow
      <4> QED BY <3>2, <4>1 DEF Signs!Register, Signs!Set
    <3>3. ASSUME NEW s \in cfg.subjects, Signs(cfg)!Callback(r, a, s, d)
          PROVE  \E entry \in Signs(cfg)!Rows, op \in cfg.ops :
                    /\ entry # Nobody /\ entry.age = 0
                    /\ visitor' = [visitor EXCEPT
                          ![r] = [Signs(cfg)!Idle EXCEPT !.pc = "look", !.op = op, !.row = entry]]
      <4>1. PICK v \in Signs(cfg)!Vouches :
               Signs(cfg)!Set(r, [Signs(cfg)!Idle EXCEPT !.pc = "look", !.op = "callback",
                   !.row = Signs(cfg)!NewRow(a, s, d, v)])
        BY <3>3 DEF Signs!Callback
      <4>2. v \in BOOLEAN
        BY DEF Signs!Vouches, Signs!GoogleVouches, Signs!GitHubVouches, Signs!MicrosoftVouches,
               Signs!LinkedInVouches
      <4>3. /\ Signs(cfg)!NewRow(a, s, d, v) \in Signs(cfg)!Rows
            /\ Signs(cfg)!NewRow(a, s, d, v) # Nobody
            /\ Signs(cfg)!NewRow(a, s, d, v).age = 0
        BY <4>2, SignNews DEF Signs!NewRow
      <4> QED BY <3>3, <4>1, <4>3 DEF Signs!Callback, Signs!Set
    <3> QED BY <3>1, <3>2, <3>3
  <2> DEFINE v == [Signs(cfg)!Idle EXCEPT !.pc = "look", !.op = op, !.row = entry]
  <2>2. /\ v \in Signs(cfg)!Shapes /\ v.pc = "look" /\ v.row = entry
        /\ v.target = Nobody /\ v.batch = {}
    BY <1>2, <2>1
  <2> HIDE DEF v
  <2>3. visitor' = [visitor EXCEPT ![r] = v]
    BY <2>1 DEF v
  <2>4. Signs(cfg)!SignUpInv'
    BY <1>1, <2>1, <2>2, <2>3, SignGoes
  <2> QED BY <2>2, <2>3, <2>4
<1>8. ASSUME NEW u \in Trio, Signs(cfg)!Confirm(r, u)
      PROVE  /\ Signs(cfg)!SignUpInv'
             /\ \E v \in Signs(cfg)!Shapes :
                  /\ visitor' = [visitor EXCEPT ![r] = v] /\ v.pc \in {"look", "write", "done"}
                  /\ v.batch \subseteq Signs(cfg)!Unverified
  <2>1. CASE person[u] # Nobody /\ ~person[u].verified
    <3> DEFINE v == [Signs(cfg)!Idle EXCEPT !.pc = "write", !.op = "confirm", !.target = u]
    <3>1. visitor' = [visitor EXCEPT ![r] = v]
      BY <1>8, <2>1 DEF Signs!Confirm, Signs!Set
    <3>2. u \in Signs(cfg)!Accounts /\ "confirm" \in cfg.ops
      BY <1>8, <2>1 DEF Signs!Accounts, Signs!Confirm
    <3>3. v \in Signs(cfg)!Shapes /\ v.pc = "write" /\ v.target = u /\ v.batch = {}
      BY <1>3, <3>2
    <3> HIDE DEF v
    <3>4. Signs(cfg)!SignUpInv'
      BY <1>1, <3>1, <3>2, <3>3, SignGoes DEF Signs!Entering
    <3> QED BY <3>1, <3>3, <3>4
  <2>2. CASE ~(person[u] # Nobody /\ ~person[u].verified)
    <3> DEFINE v == [Signs(cfg)!Idle EXCEPT !.pc = "done", !.op = "confirm"]
    <3>1. visitor' = [visitor EXCEPT ![r] = v] /\ "confirm" \in cfg.ops
      BY <1>8, <2>2 DEF Signs!Confirm, Signs!Set
    <3>3. v \in Signs(cfg)!Shapes /\ v.pc = "done" /\ v.target = Nobody /\ v.batch = {}
      BY <1>4, <3>1
    <3> HIDE DEF v
    <3>4. Signs(cfg)!SignUpInv'
      BY <1>1, <3>1, <3>3, SignGoes DEF Signs!Entering
    <3> QED BY <3>1, <3>3, <3>4
  <2> QED BY <2>1, <2>2
<1>9. CASE Signs(cfg)!CleanUp(r)
  <2> DEFINE v == [Signs(cfg)!Idle EXCEPT !.pc = "write", !.op = "cleanup",
        !.batch = Signs(cfg)!Unverified]
  <2>1. visitor' = [visitor EXCEPT ![r] = v] /\ "cleanup" \in cfg.ops
    BY <1>9 DEF Signs!CleanUp, Signs!Set
  <2>2. /\ v \in Signs(cfg)!Shapes /\ v.pc = "write" /\ v.target = Nobody
        /\ v.batch = Signs(cfg)!Unverified
    BY <1>5, <2>1
  <2> HIDE DEF v
  <2>3. Signs(cfg)!SignUpInv'
    BY <1>1, <1>6, <2>1, <2>2, SignGoes DEF Signs!Entering
  <2> QED BY <2>1, <2>2, <2>3
<1> QED BY <1>7, <1>8, <1>9 DEF Signs!Begin

\* What a request that is under way makes of itself, but for its writes.
LEMMA SignMoves ==
    ASSUME NEW cfg, Signs(cfg)!SignUpAssumption, Signs(cfg)!SignUpInv, NEW r \in Trio,
           Signs(cfg)!Look(r) \/ Signs(cfg)!Limit(r) \/ Signs(cfg)!Insert(r)
               \/ Signs(cfg)!Links(r) \/ Signs(cfg)!Mail(r) \/ Signs(cfg)!Lose(r)
    PROVE  Signs(cfg)!SignUpInv'
<1> USE DEF Signs!Set
<1>1. /\ visitor[r] \in Signs(cfg)!Shapes /\ person' = person
      /\ visitor[r].pc \notin {"idle", "done"}
    BY DEF Signs!SignUpInv, Signs!TypeOK, Signs!Look, Signs!Limit, Signs!Insert, Signs!Links,
           Signs!Mail, Signs!Lose
<1>2. /\ visitor[r].pc \in Signs(cfg)!Entering =>
           /\ visitor[r].row # Nobody /\ visitor[r].target = Nobody /\ visitor[r].batch = {}
           /\ visitor[r].row.age = 0
      /\ visitor[r].target # Nobody => visitor[r].batch = {}
      /\ visitor[r].batch \cup ({visitor[r].target} \ {Nobody}) \subseteq Signs(cfg)!Accounts
      /\ visitor[r].pc \in {"links", "mail", "commit"} => visitor[r].row # Nobody
      /\ Signs(cfg)!Pending(r) => ~Signs(cfg)!Taken(visitor[r].row)
      /\ \A o \in Trio \ {r} :
           Signs(cfg)!Pending(r) /\ Signs(cfg)!Pending(o) =>
               ~Signs(cfg)!SameName(visitor[o].row, visitor[r].row)
    BY DEF Signs!SignUpInv, Signs!Apart, Signs!Entering
<1>3. ASSUME NEW pc \in Signs(cfg)!Steps, NEW v, v = [visitor[r] EXCEPT !.pc = pc]
      PROVE  /\ v \in Signs(cfg)!Shapes /\ v.pc = pc /\ v.row = visitor[r].row
             /\ v.target = visitor[r].target /\ v.batch = visitor[r].batch
    BY <1>1, <1>3 DEF Signs!Shapes
<1>4. ASSUME NEW v, v = [visitor[r] EXCEPT !.pc = "done", !.row = Nobody]
      PROVE  /\ v \in Signs(cfg)!Shapes /\ v.pc = "done"
             /\ v.target = visitor[r].target /\ v.batch = visitor[r].batch
    BY <1>1, <1>4 DEF Signs!Shapes, Signs!Steps
<1>5. ASSUME Signs(cfg)!Refuse(r) PROVE Signs(cfg)!SignUpInv'
  <2> DEFINE v == [visitor[r] EXCEPT !.pc = "done", !.row = Nobody]
  <2>1. visitor' = [visitor EXCEPT ![r] = v]
    BY <1>5 DEF Signs!Refuse
  <2>2. /\ v \in Signs(cfg)!Shapes /\ v.pc = "done"
        /\ v.target = visitor[r].target /\ v.batch = visitor[r].batch
    BY <1>4
  <2> HIDE DEF v
  <2> QED BY <1>1, <1>2, <2>1, <2>2, SignGoes DEF Signs!Entering
<1>6. ASSUME NEW pc \in {"limit", "insert", "links", "done"}, Signs(cfg)!Goto(r, pc),
             pc # "done" => visitor[r].pc \in Signs(cfg)!Entering,
             pc = "links" => /\ ~Signs(cfg)!Taken(visitor[r].row)
                             /\ \A o \in Trio \ {r} :
                                  Signs(cfg)!Pending(o) =>
                                      ~Signs(cfg)!SameName(visitor[o].row, visitor[r].row)
      PROVE  Signs(cfg)!SignUpInv'
  <2> DEFINE v == [visitor[r] EXCEPT !.pc = pc]
  <2>1. visitor' = [visitor EXCEPT ![r] = v]
    BY <1>6 DEF Signs!Goto
  <2>2. /\ v \in Signs(cfg)!Shapes /\ v.pc = pc /\ v.row = visitor[r].row
        /\ v.target = visitor[r].target /\ v.batch = visitor[r].batch
    BY <1>3 DEF Signs!Steps
  <2> HIDE DEF v
  <2> QED BY <1>1, <1>2, <1>6, <2>1, <2>2, SignGoes DEF Signs!Entering
<1>7. ASSUME visitor[r].pc \in {"links", "mail"}, NEW v \in Signs(cfg)!Shapes,
             visitor' = [visitor EXCEPT ![r] = v], v.pc \in {"mail", "commit"},
             v.row \in Signs(cfg)!Rows, v.row.address = visitor[r].row.address,
             v.row.age = visitor[r].row.age, v.target = visitor[r].target,
             v.batch = visitor[r].batch
      PROVE  Signs(cfg)!SignUpInv'
  <2>1. Signs(cfg)!Pending(r) /\ v.row # Nobody
    BY <1>2, <1>7 DEF Signs!Pending, Signs!SignUpAssumption
  <2>2. ~Signs(cfg)!Taken(v.row) /\ \A o \in Trio \ {r} :
           Signs(cfg)!Pending(o) => ~Signs(cfg)!SameName(visitor[o].row, v.row)
    BY <1>2, <1>7, <2>1 DEF Signs!Taken, Signs!SameName
  <2> QED BY <1>1, <1>2, <1>7, <2>1, <2>2, SignGoes DEF Signs!Entering
<1>8. CASE Signs(cfg)!Look(r)
    BY <1>5, <1>6, <1>8 DEF Signs!Look, Signs!Steps, Signs!Entering
<1>9. CASE Signs(cfg)!Limit(r)
    BY <1>5, <1>6, <1>9 DEF Signs!Limit, Signs!Steps, Signs!Entering
<1>10. CASE Signs(cfg)!Insert(r)
    BY <1>5, <1>6, <1>10 DEF Signs!Insert, Signs!Steps, Signs!Entering
<1>11. CASE Signs(cfg)!Lose(r)
    BY <1>6, <1>11 DEF Signs!Lose, Signs!Steps
<1>12. visitor[r].pc \in {"links", "mail"} => visitor[r].row \in Signs(cfg)!Rows
    BY <1>1, <1>2 DEF Signs!Shapes
<1>13. CASE Signs(cfg)!Links(r)
  <2> DEFINE flag == Signs(cfg)!Suspicious(visitor[r].row.device)
             entry == [visitor[r].row EXCEPT !.flagged = flag]
             v == [visitor[r] EXCEPT !.pc = "mail", !.row.flagged = flag]
  <2>1. visitor' = [visitor EXCEPT ![r] = v] /\ visitor[r].pc = "links"
    BY <1>13 DEF Signs!Links
  <2>2. flag \in BOOLEAN
    BY DEF Signs!Suspicious
  <2> HIDE DEF flag
  <2>3. /\ entry \in Signs(cfg)!Rows /\ entry.address = visitor[r].row.address
        /\ entry.age = visitor[r].row.age
    BY <1>12, <2>1, <2>2 DEF Signs!Rows
  <2>4. v = [visitor[r] EXCEPT !.pc = "mail", !.row = entry]
    BY <1>1 DEF Signs!Shapes
  <2> HIDE DEF entry, v
  <2>5. /\ v \in Signs(cfg)!Shapes /\ v.pc = "mail" /\ v.row = entry
        /\ v.target = visitor[r].target /\ v.batch = visitor[r].batch
    BY <1>1, <2>3, <2>4 DEF Signs!Shapes, Signs!Steps
  <2> QED BY <1>7, <2>1, <2>3, <2>5
<1>14. CASE Signs(cfg)!Mail(r)
  <2>1. PICK sent \in BOOLEAN : visitor' = [visitor EXCEPT
           ![r] = [visitor[r] EXCEPT !.pc = "commit",
                                     !.row.mailed = sent /\ ~visitor[r].row.verified]]
    BY <1>14 DEF Signs!Mail
  <2> DEFINE mail == sent /\ ~visitor[r].row.verified
             entry == [visitor[r].row EXCEPT !.mailed = mail]
             v == [visitor[r] EXCEPT !.pc = "commit", !.row.mailed = mail]
  <2>2. visitor' = [visitor EXCEPT ![r] = v] /\ visitor[r].pc = "mail" /\ mail \in BOOLEAN
    BY <1>14, <2>1 DEF Signs!Mail
  <2> HIDE DEF mail
  <2>3. /\ entry \in Signs(cfg)!Rows /\ entry.address = visitor[r].row.address
        /\ entry.age = visitor[r].row.age
    BY <1>12, <2>2 DEF Signs!Rows
  <2>4. v = [visitor[r] EXCEPT !.pc = "commit", !.row = entry]
    BY <1>1 DEF Signs!Shapes
  <2> HIDE DEF entry, v
  <2>5. /\ v \in Signs(cfg)!Shapes /\ v.pc = "commit" /\ v.row = entry
        /\ v.target = visitor[r].target /\ v.batch = visitor[r].batch
    BY <1>1, <2>3, <2>4 DEF Signs!Shapes, Signs!Steps
  <2> QED BY <1>7, <2>2, <2>3, <2>5
<1> QED BY <1>8, <1>9, <1>10, <1>11, <1>13, <1>14

\* A request writes to accounts that are there, and ends.
LEMMA SignWrites ==
    ASSUME NEW cfg, Signs(cfg)!SignUpAssumption, Signs(cfg)!SignUpInv, NEW r \in Trio,
           Signs(cfg)!Write(r)
    PROVE  /\ Signs(cfg)!SignUpInv' /\ visitor[r].pc = "write" /\ Signs(cfg)!Running(r)
           /\ visitor'[r].pc = "done"
           /\ \A o \in Trio \ {r} : visitor'[o] = visitor[o]
           /\ \A u \in Trio :
                \/ person'[u] = person[u]
                \/ /\ person[u] \in Signs(cfg)!Rows /\ person'[u] \in Signs(cfg)!Rows
                   /\ person'[u].address = person[u].address
                   /\ person'[u].subject = person[u].subject
                   /\ person'[u].device = person[u].device /\ person'[u].age = person[u].age
                   /\ person'[u].flagged = person[u].flagged
                   /\ person'[u].suspended = person[u].suspended \/ u \in visitor[r].batch
<1>1. visitor[r].pc = "write" /\ Signs(cfg)!Running(r) /\ visitor[r] \in Signs(cfg)!Shapes
    BY DEF Signs!Write, Signs!Running, Signs!SignUpInv, Signs!TypeOK
<1>2. /\ visitor[r].batch \subseteq Signs(cfg)!Accounts
      /\ visitor[r].target # Nobody => visitor[r].target \in Signs(cfg)!Accounts
    BY DEF Signs!SignUpInv, Signs!Apart
<1>3. \A u \in Signs(cfg)!Accounts : u \in Trio /\ person[u] # Nobody
      /\ person[u] \in Signs(cfg)!Rows
    BY DEF Signs!Accounts, Signs!SignUpInv, Signs!TypeOK
<1>4. ASSUME NEW u \in Trio
      PROVE  \/ person'[u] = person[u]
             \/ u \in Signs(cfg)!Accounts /\ person'[u] = [person[u] EXCEPT !.verified = TRUE]
             \/ /\ u \in Signs(cfg)!Accounts /\ person'[u] = [person[u] EXCEPT !.suspended = TRUE]
                /\ u \in visitor[r].batch
    BY <1>2 DEF Signs!Write, Signs!SignUpAssumption
<1>5. ASSUME NEW old \in Signs(cfg)!Rows, NEW new,
             new = [old EXCEPT !.verified = TRUE] \/ new = [old EXCEPT !.suspended = TRUE]
      PROVE  /\ new \in Signs(cfg)!Rows /\ new.address = old.address /\ new.subject = old.subject
             /\ new.device = old.device /\ new.age = old.age /\ new.flagged = old.flagged
             /\ new.suspended = old.suspended \/ new = [old EXCEPT !.suspended = TRUE]
    BY <1>5 DEF Signs!Rows
<1>6. ASSUME NEW u \in Trio
      PROVE  \/ person'[u] = person[u]
             \/ /\ person[u] \in Signs(cfg)!Rows /\ person'[u] \in Signs(cfg)!Rows
                /\ person'[u].address = person[u].address
                /\ person'[u].subject = person[u].subject
                /\ person'[u].device = person[u].device /\ person'[u].age = person[u].age
                /\ person'[u].flagged = person[u].flagged
                /\ person'[u].suspended = person[u].suspended \/ u \in visitor[r].batch
  <2>1. CASE person'[u] = person[u]
    BY <2>1
  <2>2. CASE u \in Signs(cfg)!Accounts /\ person'[u] = [person[u] EXCEPT !.verified = TRUE]
    BY <1>3, <1>5, <2>2
  <2>3. CASE /\ u \in Signs(cfg)!Accounts /\ person'[u] = [person[u] EXCEPT !.suspended = TRUE]
             /\ u \in visitor[r].batch
    <3>1. person[u] \in Signs(cfg)!Rows /\ u \in visitor[r].batch
      BY <1>3, <2>3
    <3>2. /\ person'[u] \in Signs(cfg)!Rows /\ person'[u].address = person[u].address
          /\ person'[u].subject = person[u].subject
          /\ person'[u].device = person[u].device /\ person'[u].age = person[u].age
          /\ person'[u].flagged = person[u].flagged
      BY <1>5, <2>3, <3>1
    <3> QED BY <3>1, <3>2
  <2> QED BY <1>4, <2>1, <2>2, <2>3
<1>7. person' \in [Trio -> Signs(cfg)!Rows \cup {Nobody}]
  <2>1. \A u \in Trio : person'[u] \in Signs(cfg)!Rows \cup {Nobody}
    BY <1>6 DEF Signs!SignUpInv, Signs!TypeOK
  <2>2. person' = [u \in Trio |-> person'[u]]
    BY DEF Signs!Write
  <2> QED BY <2>1, <2>2
<1>8. /\ \A u \in Trio : (person[u] = Nobody) = (person'[u] = Nobody)
      /\ \A u \in Signs(cfg)!Accounts : person'[u].address = person[u].address
    BY <1>6 DEF Signs!SignUpAssumption, Signs!Accounts
<1>9. /\ visitor' \in [Trio -> Signs(cfg)!Shapes] /\ visitor'[r].pc = "done"
      /\ visitor'[r].batch = {} /\ visitor'[r].target = Nobody
      /\ \A o \in Trio \ {r} : visitor'[o] = visitor[o]
  <2> DEFINE v == [visitor[r] EXCEPT !.pc = "done", !.batch = {}, !.target = Nobody]
  <2>1. visitor' = [visitor EXCEPT ![r] = v]
    BY DEF Signs!Write, Signs!Set
  <2>2. v \in Signs(cfg)!Shapes /\ v.pc = "done" /\ v.batch = {} /\ v.target = Nobody
    BY <1>1 DEF Signs!Shapes, Signs!Steps
  <2> HIDE DEF v
  <2> QED BY <2>1, <2>2 DEF Signs!SignUpInv, Signs!TypeOK
<1>10. Signs(cfg)!SignUpInv'
    BY <1>7, <1>8, <1>9, SignUpdates
<1> QED BY <1>1, <1>6, <1>9, <1>10

\* A day passes: the accounts grow older, and none is of that day.
LEMMA SignPasses ==
    ASSUME NEW cfg, Signs(cfg)!SignUpAssumption, Signs(cfg)!SignUpInv, Signs(cfg)!Pass
    PROVE  /\ Signs(cfg)!SignUpInv' /\ visitor' = visitor /\ Signs(cfg)!Recent' = {}
           /\ Signs(cfg)!Accounts' = Signs(cfg)!Accounts
           /\ \A u \in Signs(cfg)!Accounts :
                /\ person[u] \in Signs(cfg)!Rows
                /\ person'[u].subject = person[u].subject
                /\ person'[u].verified = person[u].verified
                /\ person'[u].suspended = person[u].suspended
<1>1. \A u \in Signs(cfg)!Accounts : u \in Trio /\ person[u] # Nobody
      /\ person[u] \in Signs(cfg)!Rows
    BY DEF Signs!Accounts, Signs!SignUpInv, Signs!TypeOK
<1>2. ASSUME NEW entry \in Signs(cfg)!Rows, entry.age < 2, NEW older,
             older = [entry EXCEPT !.age = entry.age + 1]
      PROVE  /\ older \in Signs(cfg)!Rows /\ older.age # 0 /\ older.address = entry.address
             /\ older.subject = entry.subject /\ older.verified = entry.verified
             /\ older.suspended = entry.suspended
    BY <1>2 DEF Signs!Rows
<1>3. \A u \in Trio \ Signs(cfg)!Accounts : person'[u] = person[u] /\ person[u] = Nobody
    BY DEF Signs!Pass, Signs!Accounts
<1>4. \A u \in Signs(cfg)!Accounts :
         /\ person'[u] \in Signs(cfg)!Rows /\ person'[u].age # 0
         /\ person'[u].address = person[u].address
         /\ person'[u].subject = person[u].subject
         /\ person'[u].verified = person[u].verified
         /\ person'[u].suspended = person[u].suspended
  <2> TAKE u \in Signs(cfg)!Accounts
  <2>1. CASE person[u].age < 2
    <3>1. /\ person[u] \in Signs(cfg)!Rows
          /\ person'[u] = [person[u] EXCEPT !.age = person[u].age + 1]
      BY <1>1, <2>1 DEF Signs!Pass
    <3> QED BY <1>2, <2>1, <3>1
  <2>2. CASE ~(person[u].age < 2)
    <3>1. person'[u] = person[u]
      BY <1>1, <2>2 DEF Signs!Pass
    <3> QED BY <1>1, <2>2, <3>1
  <2> QED BY <2>1, <2>2
<1>5. person' \in [Trio -> Signs(cfg)!Rows \cup {Nobody}]
  <2>1. \A u \in Trio : person'[u] \in Signs(cfg)!Rows \cup {Nobody}
    BY <1>3, <1>4
  <2>2. person' = [u \in Trio |-> person'[u]]
    BY DEF Signs!Pass
  <2> QED BY <2>1, <2>2
<1>6. /\ \A u \in Trio : (person[u] = Nobody) = (person'[u] = Nobody)
      /\ \A u \in Signs(cfg)!Accounts : person'[u].address = person[u].address
    BY <1>3, <1>4 DEF Signs!SignUpAssumption, Signs!Accounts
<1>7. visitor' = visitor
    BY DEF Signs!Pass
<1>8. Signs(cfg)!SignUpInv'
    BY <1>5, <1>6, <1>7, SignUpdates DEF Signs!SignUpInv, Signs!TypeOK
<1>9. Signs(cfg)!Accounts' = Signs(cfg)!Accounts
    BY <1>6 DEF Signs!Accounts
<1>10. Signs(cfg)!Recent' = {}
    BY <1>4, <1>9 DEF Signs!Recent
<1> QED BY <1>1, <1>4, <1>7, <1>8, <1>9, <1>10

\* Each step keeps the invariant.
LEMMA SignStep ==
    ASSUME NEW cfg, Signs(cfg)!SignUpAssumption, Signs(cfg)!SignUpInv,
           [Signs(cfg)!Next]_(Signs(cfg)!vars)
    PROVE  Signs(cfg)!SignUpInv'
<1>1. CASE UNCHANGED Signs(cfg)!vars
    BY <1>1
       DEF Signs!vars, Signs!SignUpInv, Signs!TypeOK, Signs!Apart, Signs!OneAccount,
           Signs!Accounts, Signs!Pending, Signs!Taken
<1>2. ASSUME NEW r \in Trio,
             \/ Signs(cfg)!Begin(r) \/ Signs(cfg)!Look(r) \/ Signs(cfg)!Limit(r)
             \/ Signs(cfg)!Insert(r) \/ Signs(cfg)!Links(r) \/ Signs(cfg)!Mail(r)
             \/ Signs(cfg)!Write(r) \/ Signs(cfg)!Commit(r) \/ Signs(cfg)!Lose(r)
      PROVE  Signs(cfg)!SignUpInv'
    BY <1>2, SignBegins, SignMoves, SignWrites, SignCommits
<1>3. CASE Signs(cfg)!Pass
    BY <1>3, SignPasses
<1> QED BY <1>1, <1>2, <1>3 DEF Signs!Next

\* At first nobody is counted.
LEMMA SignTurnStart ==
    ASSUME NEW cfg, Signs(cfg)!SignUpAssumption, cfg.cluster > 0, Signs(cfg)!Init
    PROVE  Signs(cfg)!SignTurnInv
<1>1. Signs(cfg)!Accounts = {} /\ Signs(cfg)!Recent = {} /\ \A r \in Trio : ~Signs(cfg)!Running(r)
    BY DEF Signs!Init, Signs!Accounts, Signs!Recent, Signs!Running, Signs!Idle
<1>2. \A d \in cfg.devices : Signs(cfg)!SignUpsOf(d, 0) = 0
    BY <1>1, SignSame, FS_EmptySet DEF Signs!SignUpsOf
<1> QED
    BY <1>1, <1>2, SignStart
       DEF Signs!SignTurnInv, Signs!OneIdentity, Signs!DevicesCounted, Signs!SignUpAssumption

\* The sign-ups of a device can be counted.
LEMMA SignCounted ==
    ASSUME NEW cfg, Signs(cfg)!SignUpInv, Signs(cfg)!IsFiniteSet(Trio), NEW d
    PROVE  /\ Signs(cfg)!SignUpsOf(d, 0) \in Nat
           /\ Signs(cfg)!IsFiniteSet({u \in Signs(cfg)!Recent : person[u].device = d})
           /\ Signs(cfg)!SignUpsOf(d, 1) = Signs(cfg)!SignUpsOf(d, 0) + 1
<1>1. Signs(cfg)!IsFiniteSet({u \in Signs(cfg)!Recent : person[u].device = d})
    BY SignSame, FS_Subset DEF Signs!Recent, Signs!Accounts
<1> QED BY <1>1, SignSame, FS_CardinalityType DEF Signs!SignUpsOf

\* Where no account changes, what is counted is the same.
LEMMA SignStillCounted ==
    ASSUME NEW cfg, person' = person
    PROVE  /\ Signs(cfg)!Accounts' = Signs(cfg)!Accounts /\ Signs(cfg)!Recent' = Signs(cfg)!Recent
           /\ \A d : Signs(cfg)!SignUpsOf(d, 0)' = Signs(cfg)!SignUpsOf(d, 0)
           /\ Signs(cfg)!OneIdentity => Signs(cfg)!OneIdentity'
           /\ Signs(cfg)!DevicesCounted => Signs(cfg)!DevicesCounted'
<1>1. Signs(cfg)!Accounts' = Signs(cfg)!Accounts /\ Signs(cfg)!Recent' = Signs(cfg)!Recent
    BY DEF Signs!Accounts, Signs!Recent
<1>2. \A d : Signs(cfg)!SignUpsOf(d, 0)' = Signs(cfg)!SignUpsOf(d, 0)
    BY <1>1 DEF Signs!SignUpsOf
<1> QED BY <1>1, <1>2 DEF Signs!OneIdentity, Signs!DevicesCounted

\* The only request goes on.
LEMMA SignTurnGoes ==
    ASSUME NEW cfg, Signs(cfg)!SignTurnInv, Signs(cfg)!SignUpInv', NEW r \in Trio,
           NEW v \in Signs(cfg)!Shapes,
           \A o \in Trio \ {r} : ~Signs(cfg)!Running(o),
           visitor' = [visitor EXCEPT ![r] = v], person' = person,
           v.pc # "done" =>
             /\ \A u \in v.batch : ~person[u].verified
             /\ v.pc \in Signs(cfg)!Entering \ {"look"} /\ v.row.subject # "email" =>
                  \A u \in Signs(cfg)!Accounts : person[u].subject # v.row.subject
             /\ v.pc \in Signs(cfg)!Entering \ {"look", "limit"} =>
                  Signs(cfg)!SignUpsOf(v.row.device, 0) < cfg.perDevice
             /\ v.pc \in {"mail", "commit"} =>
                  (Signs(cfg)!SignUpsOf(v.row.device, 0) + 1 >= cfg.cluster => v.row.flagged)
    PROVE  Signs(cfg)!SignTurnInv'
<1>1. visitor'[r] = v /\ \A o \in Trio \ {r} : visitor'[o] = visitor[o]
    BY DEF Signs!SignTurnInv, Signs!SignUpInv, Signs!TypeOK
<1>2. \A o \in Trio \ {r} : ~Signs(cfg)!Running(o)'
    BY <1>1 DEF Signs!Running
<1>3. v.pc # "done" => Signs(cfg)!InTurn(r)'
    BY <1>1, <1>2, SignStillCounted DEF Signs!InTurn
<1>4. \A o \in Trio : Signs(cfg)!Running(o)' => Signs(cfg)!InTurn(o)'
    BY <1>1, <1>2, <1>3 DEF Signs!Running
<1> QED BY <1>4, SignStillCounted DEF Signs!SignTurnInv

\* A request begins while no other runs.
LEMMA SignTurnBegins ==
    ASSUME NEW cfg, Signs(cfg)!SignUpAssumption, ~cfg.overlap, Signs(cfg)!SignTurnInv,
           NEW r \in Trio, Signs(cfg)!Begin(r)
    PROVE  Signs(cfg)!SignTurnInv'
<1>1. PICK v \in Signs(cfg)!Shapes :
         /\ visitor' = [visitor EXCEPT ![r] = v] /\ v.pc \in {"look", "write", "done"}
         /\ v.batch \subseteq Signs(cfg)!Unverified
    BY SignBegins DEF Signs!SignTurnInv
<1>2. Signs(cfg)!SignUpInv' /\ person' = person /\ \A o \in Trio : ~Signs(cfg)!Running(o)
    BY SignBegins DEF Signs!SignTurnInv, Signs!Begin, Signs!Quiet, Signs!Running
<1>3. \A u \in v.batch : ~person[u].verified
    BY <1>1 DEF Signs!Unverified
<1> QED BY <1>1, <1>2, <1>3, SignTurnGoes DEF Signs!Entering

\* The only request finds its identity unknown and its device below the limit, and flags what
\* makes a cluster.
LEMMA SignTurnMoves ==
    ASSUME NEW cfg, Signs(cfg)!SignUpAssumption, cfg.perDevice < cfg.shared,
           Signs(cfg)!IsFiniteSet(Trio), Signs(cfg)!SignTurnInv,
           NEW r \in Trio,
           Signs(cfg)!Look(r) \/ Signs(cfg)!Limit(r) \/ Signs(cfg)!Insert(r)
               \/ Signs(cfg)!Links(r) \/ Signs(cfg)!Mail(r) \/ Signs(cfg)!Lose(r)
    PROVE  Signs(cfg)!SignTurnInv'
<1> DEFINE was == visitor[r]
<1>1. /\ was \in Signs(cfg)!Shapes /\ person' = person /\ Signs(cfg)!Running(r)
      /\ Signs(cfg)!InTurn(r) /\ Signs(cfg)!SignUpInv'
    BY SignMoves
       DEF Signs!SignTurnInv, Signs!SignUpInv, Signs!TypeOK, Signs!Running, Signs!Look,
           Signs!Limit, Signs!Insert, Signs!Links, Signs!Mail, Signs!Lose
<1>2. \A o \in Trio \ {r} : ~Signs(cfg)!Running(o)
    BY <1>1 DEF Signs!InTurn
<1>3. /\ \A u \in was.batch : ~person[u].verified
      /\ was.pc \in Signs(cfg)!Entering => was.row \in Signs(cfg)!Rows /\ was.batch = {}
    BY <1>1 DEF Signs!InTurn, Signs!SignTurnInv, Signs!SignUpInv, Signs!Apart, Signs!Shapes
<1>4. ASSUME NEW v \in Signs(cfg)!Shapes, visitor' = [visitor EXCEPT ![r] = v], v.pc = "done"
      PROVE  Signs(cfg)!SignTurnInv'
    BY <1>1, <1>2, <1>4, SignTurnGoes
<1>5. ASSUME NEW v, v = [was EXCEPT !.pc = "done", !.row = Nobody]
             \/ v = [was EXCEPT !.pc = "done"]
      PROVE  v \in Signs(cfg)!Shapes /\ v.pc = "done"
    BY <1>1, <1>5 DEF Signs!Shapes, Signs!Steps
<1>6. Signs(cfg)!Refuse(r) \/ Signs(cfg)!Goto(r, "done") => Signs(cfg)!SignTurnInv'
    BY <1>4, <1>5 DEF Signs!Refuse, Signs!Goto, Signs!Set
<1>7. ASSUME NEW pc \in {"limit", "insert", "links"}, Signs(cfg)!Goto(r, pc),
             was.pc \in Signs(cfg)!Entering,
             pc = "limit" /\ was.row.subject # "email" =>
                \A u \in Signs(cfg)!Accounts : person[u].subject # was.row.subject,
             pc # "limit" => was.pc # "look"
                 /\ Signs(cfg)!SignUpsOf(was.row.device, 0) < cfg.perDevice
      PROVE  Signs(cfg)!SignTurnInv'
  <2> DEFINE v == [was EXCEPT !.pc = pc]
  <2>1. visitor' = [visitor EXCEPT ![r] = v]
    BY <1>7 DEF Signs!Goto, Signs!Set
  <2>2. v \in Signs(cfg)!Shapes /\ v.pc = pc /\ v.row = was.row /\ v.batch = was.batch
    BY <1>1 DEF Signs!Shapes, Signs!Steps
  <2>3. was.pc # "look" /\ was.row.subject # "email" =>
           \A u \in Signs(cfg)!Accounts : person[u].subject # was.row.subject
    BY <1>1, <1>7 DEF Signs!InTurn
  <2> HIDE DEF v
  <2> QED BY <1>1, <1>2, <1>3, <1>7, <2>1, <2>2, <2>3, SignTurnGoes DEF Signs!Entering
<1>8. CASE Signs(cfg)!Look(r)
    BY <1>6, <1>7, <1>8 DEF Signs!Look, Signs!Entering
<1>9. CASE Signs(cfg)!Limit(r)
  <2>1. Signs(cfg)!Allowed(was.row.device) =>
        Signs(cfg)!SignUpsOf(was.row.device, 0) < cfg.perDevice
    <3>1. was.row.device \in cfg.devices
      BY <1>3, <1>9 DEF Signs!Limit, Signs!Entering, Signs!Rows
    <3>2. Signs(cfg)!SignUpsOf(was.row.device, 0) <= cfg.perDevice
      BY <3>1 DEF Signs!SignTurnInv, Signs!DevicesCounted
    <3>3. Signs(cfg)!SignUpsOf(was.row.device, 0) \in Nat
      BY SignCounted DEF Signs!SignTurnInv
    <3> QED BY <3>2, <3>3 DEF Signs!Allowed, Signs!Usable, Signs!SignUpAssumption
  <2> QED BY <1>6, <1>7, <1>9, <2>1 DEF Signs!Limit, Signs!Entering
<1>10. CASE Signs(cfg)!Insert(r)
  <2>1. Signs(cfg)!SignUpsOf(was.row.device, 0) < cfg.perDevice
    BY <1>1, <1>10 DEF Signs!Insert, Signs!InTurn, Signs!Entering
  <2> QED BY <1>6, <1>7, <1>10, <2>1 DEF Signs!Insert, Signs!Entering
<1>11. CASE Signs(cfg)!Lose(r)
    BY <1>6, <1>11 DEF Signs!Lose
<1>12. ASSUME was.pc \in {"links", "mail"}, NEW v \in Signs(cfg)!Shapes,
              visitor' = [visitor EXCEPT ![r] = v], v.pc \in {"mail", "commit"},
              v.row.subject = was.row.subject, v.row.device = was.row.device, v.batch = was.batch,
              Signs(cfg)!SignUpsOf(was.row.device, 0) + 1 >= cfg.cluster => v.row.flagged
       PROVE  Signs(cfg)!SignTurnInv'
  <2>1. /\ was.row.subject # "email" =>
             \A u \in Signs(cfg)!Accounts : person[u].subject # was.row.subject
        /\ Signs(cfg)!SignUpsOf(was.row.device, 0) < cfg.perDevice
    BY <1>1, <1>12 DEF Signs!InTurn, Signs!Entering
  <2> QED BY <1>1, <1>2, <1>3, <1>12, <2>1, SignTurnGoes
<1>13. CASE Signs(cfg)!Links(r)
  <2> DEFINE flag == Signs(cfg)!Suspicious(was.row.device)
             entry == [was.row EXCEPT !.flagged = flag]
             v == [was EXCEPT !.pc = "mail", !.row.flagged = flag]
  <2>1. visitor' = [visitor EXCEPT ![r] = v] /\ was.pc = "links"
    BY <1>13 DEF Signs!Links, Signs!Set
  <2>2. flag \in BOOLEAN /\ (Signs(cfg)!SignUpsOf(was.row.device, 0) + 1 >= cfg.cluster => flag)
    <3>1. Signs(cfg)!SignUpsOf(was.row.device, 0) < cfg.perDevice
      BY <1>1, <2>1 DEF Signs!InTurn, Signs!Entering
    <3>2. /\ Signs(cfg)!SignUpsOf(was.row.device, 0) \in Nat
          /\ Signs(cfg)!SignUpsOf(was.row.device, 1) = Signs(cfg)!SignUpsOf(was.row.device, 0) + 1
      BY SignCounted DEF Signs!SignTurnInv
    <3> QED BY <3>1, <3>2 DEF Signs!Suspicious, Signs!Usable, Signs!SignUpAssumption
  <2> HIDE DEF flag
  <2>3. /\ entry \in Signs(cfg)!Rows /\ entry.subject = was.row.subject
        /\ entry.device = was.row.device
        /\ entry.flagged = flag
    BY <1>3, <2>1, <2>2 DEF Signs!Rows, Signs!Entering
  <2>4. v = [was EXCEPT !.pc = "mail", !.row = entry]
    BY <1>1 DEF Signs!Shapes
  <2> HIDE DEF entry, v
  <2>5. v \in Signs(cfg)!Shapes /\ v.pc = "mail" /\ v.row = entry /\ v.batch = was.batch
    BY <1>1, <2>3, <2>4 DEF Signs!Shapes, Signs!Steps
  <2> QED BY <1>12, <2>1, <2>2, <2>3, <2>5
<1>14. CASE Signs(cfg)!Mail(r)
  <2>1. PICK sent \in BOOLEAN : visitor' = [visitor EXCEPT
           ![r] = [was EXCEPT !.pc = "commit", !.row.mailed = sent /\ ~was.row.verified]]
    BY <1>14 DEF Signs!Mail, Signs!Set
  <2> DEFINE mail == sent /\ ~was.row.verified
             entry == [was.row EXCEPT !.mailed = mail]
             v == [was EXCEPT !.pc = "commit", !.row.mailed = mail]
  <2>2. visitor' = [visitor EXCEPT ![r] = v] /\ was.pc = "mail" /\ mail \in BOOLEAN
    BY <1>14, <2>1 DEF Signs!Mail
  <2> HIDE DEF mail
  <2>3. /\ entry \in Signs(cfg)!Rows /\ entry.subject = was.row.subject
        /\ entry.device = was.row.device
        /\ entry.flagged = was.row.flagged
    BY <1>3, <2>2 DEF Signs!Rows, Signs!Entering
  <2>4. v = [was EXCEPT !.pc = "commit", !.row = entry]
    BY <1>1 DEF Signs!Shapes
  <2> HIDE DEF entry, v
  <2>5. v \in Signs(cfg)!Shapes /\ v.pc = "commit" /\ v.row = entry /\ v.batch = was.batch
    BY <1>1, <2>3, <2>4 DEF Signs!Shapes, Signs!Steps
  <2>6. Signs(cfg)!SignUpsOf(was.row.device, 0) + 1 >= cfg.cluster => was.row.flagged
    BY <1>1, <2>2 DEF Signs!InTurn
  <2> QED BY <1>12, <2>2, <2>3, <2>5, <2>6
<1> QED BY <1>8, <1>9, <1>10, <1>11, <1>13, <1>14

\* The only request writes: nobody is counted for it.
LEMMA SignTurnWrites ==
    ASSUME NEW cfg, Signs(cfg)!SignUpAssumption, Signs(cfg)!SignTurnInv, NEW r \in Trio,
           Signs(cfg)!Write(r)
    PROVE  Signs(cfg)!SignTurnInv'
<1>1. Signs(cfg)!SignUpInv /\ Signs(cfg)!Accounts' = Signs(cfg)!Accounts
  <2>1. \A u \in Trio : person'[u] # Nobody <=> person[u] # Nobody
    BY SignWrites DEF Signs!SignTurnInv, Signs!SignUpAssumption
  <2> QED BY <2>1 DEF Signs!Accounts, Signs!SignTurnInv
<1>2. \A u \in Signs(cfg)!Accounts :
         /\ person'[u].subject = person[u].subject /\ person'[u].device = person[u].device
         /\ person'[u].age = person[u].age /\ person'[u].flagged = person[u].flagged
    BY <1>1, SignWrites DEF Signs!Accounts
<1>3. Signs(cfg)!Recent' = Signs(cfg)!Recent
    BY <1>1, <1>2 DEF Signs!Recent
<1>4. \A d : Signs(cfg)!SignUpsOf(d, 0)' = Signs(cfg)!SignUpsOf(d, 0)
  <2>1. \A d : {u \in Signs(cfg)!Recent' : person'[u].device = d} =
        {u \in Signs(cfg)!Recent : person[u].device = d}
    BY <1>2, <1>3 DEF Signs!Recent
  <2> QED BY <2>1 DEF Signs!SignUpsOf
<1>5. Signs(cfg)!OneIdentity'
    BY <1>1, <1>2 DEF Signs!SignTurnInv, Signs!OneIdentity
<1>6. Signs(cfg)!DevicesCounted'
    BY <1>2, <1>3, <1>4 DEF Signs!SignTurnInv, Signs!DevicesCounted, Signs!Recent
<1>7. \A o \in Trio : ~Signs(cfg)!Running(o)'
    BY <1>1, SignWrites DEF Signs!SignTurnInv, Signs!InTurn, Signs!Running
<1> QED BY <1>1, <1>5, <1>6, <1>7, SignWrites DEF Signs!SignTurnInv

\* The only request commits a row whose identity is unknown and whose device is below the limit.
LEMMA SignTurnCommits ==
    ASSUME NEW cfg, Signs(cfg)!SignUpAssumption, cfg.perDevice < cfg.shared, cfg.cluster > 0,
           Signs(cfg)!IsFiniteSet(Trio), Signs(cfg)!SignTurnInv, NEW r \in Trio,
           Signs(cfg)!Commit(r)
    PROVE  Signs(cfg)!SignTurnInv'
<1> DEFINE entry == visitor[r].row
<1>1. /\ Signs(cfg)!SignUpInv /\ Signs(cfg)!SignUpInv'
      /\ Signs(cfg)!Accounts' = Signs(cfg)!Accounts \cup {r} /\ r \notin Signs(cfg)!Accounts
      /\ person'[r] = entry /\ entry \in Signs(cfg)!Rows
      /\ \A u \in Trio \ {r} : person'[u] = person[u] /\ visitor'[u] = visitor[u]
    BY SignCommits DEF Signs!SignTurnInv
<1>2. visitor[r].pc = "commit" /\ Signs(cfg)!Running(r) /\ Signs(cfg)!InTurn(r) /\ entry.age = 0
      /\ visitor[r] \in Signs(cfg)!Shapes
    BY <1>1
       DEF Signs!Commit, Signs!Running, Signs!SignTurnInv, Signs!SignUpInv, Signs!TypeOK,
           Signs!Apart, Signs!Entering
<1>3. /\ entry.subject # "email" =>
           \A u \in Signs(cfg)!Accounts : person[u].subject # entry.subject
      /\ Signs(cfg)!SignUpsOf(entry.device, 0) < cfg.perDevice
      /\ Signs(cfg)!SignUpsOf(entry.device, 0) + 1 >= cfg.cluster => entry.flagged
    BY <1>2 DEF Signs!InTurn, Signs!Entering
<1>4. /\ Signs(cfg)!Recent' = Signs(cfg)!Recent \cup {r} /\ r \notin Signs(cfg)!Recent
      /\ Signs(cfg)!Recent \subseteq Trio
      /\ \A u \in Signs(cfg)!Recent : person'[u] = person[u]
    BY <1>1, <1>2 DEF Signs!Recent, Signs!Accounts
<1>5. ASSUME NEW d, d = entry.device
      PROVE  Signs(cfg)!SignUpsOf(d, 0)' = Signs(cfg)!SignUpsOf(d, 0) + 1
  <2> DEFINE own == {u \in Signs(cfg)!Recent : person[u].device = d}
  <2>1. {u \in Signs(cfg)!Recent' : person'[u].device = d} = own \cup {r}
    BY <1>1, <1>4, <1>5
  <2>2. r \notin own /\ Signs(cfg)!IsFiniteSet(own)
    BY <1>1, <1>4, SignCounted
  <2>3. IsFiniteSet(own)
    BY <2>2, SignSame
  <2>4. Cardinality(own \cup {r}) = Cardinality(own) + 1 /\ Cardinality(own) \in Nat
    BY <2>2, <2>3, FS_AddElement, FS_CardinalityType
  <2>5. /\ Signs(cfg)!SignUpsOf(d, 0)' = Cardinality(own \cup {r}) + 0
        /\ Signs(cfg)!SignUpsOf(d, 0) = Cardinality(own) + 0
    BY <2>1, SignSame DEF Signs!SignUpsOf
  <2> HIDE DEF own
  <2> QED BY <2>4, <2>5
<1>6. ASSUME NEW d \in cfg.devices, d # entry.device
      PROVE  Signs(cfg)!SignUpsOf(d, 0)' = Signs(cfg)!SignUpsOf(d, 0)
  <2>1. {u \in Signs(cfg)!Recent' : person'[u].device = d} =
        {u \in Signs(cfg)!Recent : person[u].device = d}
    BY <1>1, <1>4, <1>6
  <2> QED BY <2>1 DEF Signs!SignUpsOf
<1>7. Signs(cfg)!OneIdentity'
    BY <1>1, <1>3 DEF Signs!SignTurnInv, Signs!OneIdentity, Signs!Accounts
<1>8. Signs(cfg)!DevicesCounted'
  <2> SUFFICES ASSUME NEW d \in cfg.devices
               PROVE  /\ Signs(cfg)!SignUpsOf(d, 0)' <= cfg.perDevice
                      /\ Signs(cfg)!SignUpsOf(d, 0)' >= cfg.cluster =>
                            \E u \in Signs(cfg)!Recent' : person'[u].device = d
                                /\ person'[u].flagged
    BY DEF Signs!DevicesCounted
  <2>1. CASE d = entry.device
    <3>1. Signs(cfg)!SignUpsOf(d, 0) \in Nat
      BY <1>1, SignCounted
    <3> QED BY <1>1, <1>3, <1>4, <1>5, <2>1, <3>1 DEF Signs!SignUpAssumption
  <2>2. CASE d # entry.device
    <3>1. /\ Signs(cfg)!SignUpsOf(d, 0) <= cfg.perDevice
          /\ Signs(cfg)!SignUpsOf(d, 0) >= cfg.cluster =>
                \E u \in Signs(cfg)!Recent : person[u].device = d /\ person[u].flagged
      BY DEF Signs!SignTurnInv, Signs!DevicesCounted
    <3> QED BY <1>4, <1>6, <2>2, <3>1
  <2> QED BY <2>1, <2>2
<1>9. visitor'[r].pc = "done"
    BY <1>2
       DEF Signs!Commit, Signs!Goto, Signs!Set, Signs!Shapes, Signs!SignTurnInv, Signs!SignUpInv,
           Signs!TypeOK
<1>10. \A o \in Trio : ~Signs(cfg)!Running(o)'
    BY <1>1, <1>2, <1>9 DEF Signs!InTurn, Signs!Running
<1> QED BY <1>1, <1>7, <1>8, <1>10 DEF Signs!SignTurnInv

\* A day passes while a request is under way.
LEMMA SignTurnPasses ==
    ASSUME NEW cfg, Signs(cfg)!SignUpAssumption, cfg.cluster > 0, Signs(cfg)!IsFiniteSet(Trio),
           Signs(cfg)!SignTurnInv, Signs(cfg)!Pass
    PROVE  Signs(cfg)!SignTurnInv'
<1>1. /\ Signs(cfg)!SignUpInv /\ Signs(cfg)!SignUpInv' /\ visitor' = visitor
      /\ Signs(cfg)!Recent' = {} /\ Signs(cfg)!Accounts' = Signs(cfg)!Accounts
      /\ \A u \in Signs(cfg)!Accounts : person'[u].subject = person[u].subject
                             /\ person'[u].verified = person[u].verified
    BY SignPasses DEF Signs!SignTurnInv
<1>2. \A d : Signs(cfg)!SignUpsOf(d, 0)' = 0
  <2>1. \A d : {u \in Signs(cfg)!Recent' : person'[u].device = d} = {}
    BY <1>1
  <2> QED BY <2>1, SignSame, FS_EmptySet DEF Signs!SignUpsOf
<1>3. Signs(cfg)!OneIdentity'
    BY <1>1 DEF Signs!SignTurnInv, Signs!OneIdentity
<1>4. Signs(cfg)!DevicesCounted'
    BY <1>2 DEF Signs!DevicesCounted, Signs!SignUpAssumption
<1>5. ASSUME NEW r \in Trio, Signs(cfg)!Running(r)' PROVE Signs(cfg)!InTurn(r)'
  <2>1. Signs(cfg)!Running(r) /\ Signs(cfg)!InTurn(r) /\ \A o \in Trio : Signs(cfg)!Running(o)' =>
        Signs(cfg)!Running(o)
    BY <1>1, <1>5 DEF Signs!Running, Signs!SignTurnInv
  <2>2. Signs(cfg)!SignUpsOf(visitor[r].row.device, 0) \in Nat
    BY <1>1, SignCounted
  <2>3. visitor[r].batch \subseteq Signs(cfg)!Accounts
    BY <1>1 DEF Signs!SignUpInv, Signs!Apart
  <2>4. visitor[r].pc \in Signs(cfg)!Entering \ {"look", "limit"} =>
           Signs(cfg)!SignUpsOf(visitor[r].row.device, 0)' < cfg.perDevice
    BY <1>2, <2>1, <2>2 DEF Signs!InTurn, Signs!SignUpAssumption
  <2>5. visitor[r].pc \in {"mail", "commit"} =>
           (Signs(cfg)!SignUpsOf(visitor[r].row.device, 0)' + 1 >= cfg.cluster =>
               visitor[r].row.flagged)
    BY <1>2, <2>1, <2>2 DEF Signs!InTurn, Signs!SignUpAssumption
  <2> QED BY <1>1, <2>1, <2>3, <2>4, <2>5 DEF Signs!InTurn
<1> QED BY <1>1, <1>3, <1>4, <1>5 DEF Signs!SignTurnInv

\* Each step keeps the invariant of requests in turn.
LEMMA SignTurnStep ==
    ASSUME NEW cfg, Signs(cfg)!SignUpAssumption, ~cfg.overlap, cfg.perDevice < cfg.shared,
           cfg.cluster > 0, Signs(cfg)!IsFiniteSet(Trio), Signs(cfg)!SignTurnInv,
           [Signs(cfg)!Next]_(Signs(cfg)!vars)
    PROVE  Signs(cfg)!SignTurnInv'
<1>1. CASE UNCHANGED Signs(cfg)!vars
  <2>1. Signs(cfg)!SignUpInv' /\ person' = person /\ visitor' = visitor
    BY <1>1, SignStep DEF Signs!SignTurnInv, Signs!vars
  <2>2. \A r \in Trio : Signs(cfg)!Running(r)' => Signs(cfg)!InTurn(r)'
    BY <2>1, SignStillCounted DEF Signs!SignTurnInv, Signs!Running, Signs!InTurn
  <2> QED BY <2>1, <2>2, SignStillCounted DEF Signs!SignTurnInv
<1>2. ASSUME NEW r \in Trio,
             \/ Signs(cfg)!Begin(r) \/ Signs(cfg)!Look(r) \/ Signs(cfg)!Limit(r)
             \/ Signs(cfg)!Insert(r) \/ Signs(cfg)!Links(r) \/ Signs(cfg)!Mail(r)
             \/ Signs(cfg)!Write(r) \/ Signs(cfg)!Commit(r) \/ Signs(cfg)!Lose(r)
      PROVE  Signs(cfg)!SignTurnInv'
    BY <1>2, SignTurnBegins, SignTurnMoves, SignTurnWrites, SignTurnCommits
<1>3. CASE Signs(cfg)!Pass
    BY <1>3, SignTurnPasses
<1> QED BY <1>1, <1>2, <1>3 DEF Signs!Next

\* No step of the clean-up, one request at a time, suspends who has verified the address.
LEMMA SignNoneSuspended ==
    ASSUME NEW cfg, Signs(cfg)!SignUpAssumption, Signs(cfg)!SignTurnInv,
           [Signs(cfg)!Next]_(Signs(cfg)!vars)
    PROVE  Signs(cfg)!SuspendedUnverified
<1> SUFFICES ASSUME NEW u \in Signs(cfg)!Accounts, person'[u] # Nobody, person'[u].suspended,
                    ~person[u].suspended
             PROVE  ~person[u].verified
    BY DEF Signs!SuspendedUnverified
<1>1. Signs(cfg)!SignUpInv /\ u \in Trio /\ person[u] # Nobody
    BY DEF Signs!SignTurnInv, Signs!Accounts
<1>2. ASSUME NEW r \in Trio, Signs(cfg)!Write(r) PROVE ~person[u].verified
    BY <1>1, <1>2, SignWrites DEF Signs!SignTurnInv, Signs!InTurn
<1>3. ASSUME NEW r \in Trio, Signs(cfg)!Commit(r) PROVE FALSE
    BY <1>1, <1>3, SignCommits
<1>4. CASE Signs(cfg)!Pass
    BY <1>1, <1>4, SignPasses
<1>5. ASSUME person' = person PROVE FALSE
    BY <1>5
<1> QED
    BY <1>2, <1>3, <1>4, <1>5
       DEF Signs!Next, Signs!vars, Signs!Begin, Signs!Look, Signs!Limit, Signs!Insert,
           Signs!Links, Signs!Mail, Signs!Lose

-----------------------------------------------------------------------------
(***************************************************************************)
(* The staff: StaffDesk, for any staff, requests, flags, announcements and users. *)
(***************************************************************************)
\* The finite sets of the instances are those of FiniteSets.
LEMMA StaffSame ==
    ASSUME NEW cfg, NEW S
    PROVE  /\ Office(cfg)!IsFiniteSet(S) <=> IsFiniteSet(S)
           /\ Office(cfg)!Cardinality(S) = Cardinality(S)
BY DEF Office!IsFiniteSet, IsFiniteSet, Office!Cardinality, Cardinality

\* What the records of the module are.
LEMMA StaffKinds ==
    ASSUME NEW cfg, Office(cfg)!StaffAssumption
    PROVE  /\ Office(cfg)!NoStaff \in Office(cfg)!People
           /\ Office(cfg)!Founder \in Office(cfg)!People
           /\ Office(cfg)!Old \in Office(cfg)!People
           /\ Office(cfg)!NoFlag \in Office(cfg)!FlagRows
           /\ Office(cfg)!NoBanner \in Office(cfg)!BannerRows
           /\ Office(cfg)!NotHeld \in Office(cfg)!UserRows
           /\ Office(cfg)!Idle \in Office(cfg)!Works
           /\ ~Office(cfg)!NoStaff.there /\ ~Office(cfg)!NoStaff.secret
           /\ Office(cfg)!Founder.there /\ Office(cfg)!Founder.via = "bootstrap"
           /\ Office(cfg)!Founder.role = "super_admin"
           /\ ~Office(cfg)!Founder.secret
           /\ Office(cfg)!Old.there /\ Office(cfg)!Old.via = "bootstrap"
           /\ Office(cfg)!Old.role = "super_admin" /\ Office(cfg)!Old.secret
           /\ \A t \in Office(cfg)!Things :
                IF t \in cfg.flags
                THEN Office(cfg)!RowsOf(t) = Office(cfg)!FlagRows /\ t \notin cfg.banners
                ELSE IF t \in cfg.banners THEN Office(cfg)!RowsOf(t) = Office(cfg)!BannerRows
                ELSE Office(cfg)!RowsOf(t) = Office(cfg)!UserRows /\ t \in cfg.users
           /\ \A t \in cfg.users : t \notin cfg.flags \cup cfg.banners
<1>1. Office(cfg)!NoStaff \in Office(cfg)!People
    BY DEF Office!StaffAssumption, Office!NoStaff, Office!People, Office!Everyone
<1>2. /\ Office(cfg)!Founder \in Office(cfg)!People /\ Office(cfg)!Founder.there
      /\ ~Office(cfg)!Founder.secret
      /\ Office(cfg)!Founder.via = "bootstrap" /\ Office(cfg)!Founder.role = "super_admin"
    BY <1>1 DEF Office!NoStaff, Office!Founder, Office!People
<1>3. /\ Office(cfg)!Old \in Office(cfg)!People /\ Office(cfg)!Old.there
      /\ Office(cfg)!Old.via = "bootstrap" /\ Office(cfg)!Old.role = "super_admin"
      /\ Office(cfg)!Old.secret
  <2>1. /\ Office(cfg)!Founder \in
             [there : BOOLEAN, role : Office(cfg)!Everyone, via : {"bootstrap", "invite"},
              password : cfg.passwords, rotate : BOOLEAN, enroll : BOOLEAN,
              secret : BOOLEAN, codes : 0 .. 1]
        /\ 1 \in 0 .. 1
    BY <1>2 DEF Office!People
  <2> HIDE DEF Office!Founder
  <2> QED BY <1>2, <2>1 DEF Office!Old, Office!People
<1>4. /\ Office(cfg)!NoFlag \in Office(cfg)!FlagRows
      /\ Office(cfg)!NoBanner \in Office(cfg)!BannerRows
      /\ Office(cfg)!NotHeld \in Office(cfg)!UserRows
    BY DEF Office!StaffAssumption, Office!NoFlag, Office!FlagRows, Office!NoBanner,
           Office!BannerRows, Office!NotHeld, Office!UserRows, Office!Times, Office!Audiences
<1>5. Office(cfg)!Idle \in Office(cfg)!Works
    BY <1>4 DEF Office!StaffAssumption, Office!Idle, Office!Works, Office!Everyone
<1>6. /\ \A t \in Office(cfg)!Things :
           IF t \in cfg.flags
           THEN Office(cfg)!RowsOf(t) = Office(cfg)!FlagRows /\ t \notin cfg.banners
           ELSE IF t \in cfg.banners THEN Office(cfg)!RowsOf(t) = Office(cfg)!BannerRows
           ELSE Office(cfg)!RowsOf(t) = Office(cfg)!UserRows /\ t \in cfg.users
      /\ \A t \in cfg.users : t \notin cfg.flags \cup cfg.banners
    BY DEF Office!StaffAssumption, Office!Things, Office!RowsOf
<1> QED BY <1>1, <1>2, <1>3, <1>4, <1>5, <1>6 DEF Office!NoStaff

\* What a patch, a creation and a deletion make of a row is a row.
LEMMA StaffDrafts ==
    ASSUME NEW cfg, Office(cfg)!StaffAssumption, NEW t \in cfg.flags \cup cfg.banners,
           NEW was \in Office(cfg)!RowsOf(t), NEW n \in Office(cfg)!Times
    PROVE  /\ [was EXCEPT !.there = FALSE] \in Office(cfg)!RowsOf(t)
           /\ \A p \in Office(cfg)!Patched(t, was) : [p EXCEPT !.at = n] \in Office(cfg)!RowsOf(t)
           /\ \A p \in Office(cfg)!New(t) : [p EXCEPT !.at = n] \in Office(cfg)!RowsOf(t)
<1>1. ASSUME t \in cfg.flags, was \in Office(cfg)!FlagRows
      PROVE  /\ [was EXCEPT !.there = FALSE] \in Office(cfg)!FlagRows
             /\ \A p \in Office(cfg)!PatchedFlag(was) :
                  [p EXCEPT !.at = n] \in Office(cfg)!FlagRows
             /\ \A p \in Office(cfg)!NewFlags : [p EXCEPT !.at = n] \in Office(cfg)!FlagRows
  <2>1. Office(cfg)!NoFlag \in Office(cfg)!FlagRows /\ cfg.full \in Nat
    BY StaffKinds DEF Office!StaffAssumption
  <2>2. \A p \in Office(cfg)!PatchedFlag(was) : p \in Office(cfg)!FlagRows
    BY <1>1, <2>1 DEF Office!PatchedFlag, Office!FlagRows
  <2>3. \A p \in Office(cfg)!NewFlags : p \in Office(cfg)!FlagRows
    <3> SUFFICES ASSUME NEW k \in {0, cfg.full}
                 PROVE  [Office(cfg)!NoFlag EXCEPT !.there = TRUE, !.enabled = TRUE,
                                                   !.percent = k] \in Office(cfg)!FlagRows
      BY DEF Office!NewFlags
    <3>1. k \in 0 .. cfg.full
      BY <2>1
    <3> QED BY <2>1, <3>1 DEF Office!FlagRows
  <2>4. \A p \in Office(cfg)!FlagRows : [p EXCEPT !.at = n] \in Office(cfg)!FlagRows
        /\ [p EXCEPT !.there = FALSE] \in Office(cfg)!FlagRows
    BY DEF Office!FlagRows
  <2> QED BY <1>1, <2>2, <2>3, <2>4
<1>2. ASSUME t \in cfg.banners, was \in Office(cfg)!BannerRows
      PROVE  /\ [was EXCEPT !.there = FALSE] \in Office(cfg)!BannerRows
             /\ \A p \in Office(cfg)!PatchedBanner(was) :
                  [p EXCEPT !.at = n] \in Office(cfg)!BannerRows
             /\ \A p \in Office(cfg)!NewBanners : [p EXCEPT !.at = n] \in Office(cfg)!BannerRows
  <2>1. /\ Office(cfg)!NoBanner \in Office(cfg)!BannerRows /\ cfg.changes \in Office(cfg)!Times
        /\ \A m \in Office(cfg)!Times : m <= cfg.changes
    BY StaffKinds DEF Office!StaffAssumption, Office!Times
  <2>2. \A p \in Office(cfg)!PatchedBanner(was) : p \in Office(cfg)!BannerRows
    BY <1>2 DEF Office!PatchedBanner, Office!BannerRows
  <2>3. \A p \in Office(cfg)!NewBanners : p \in Office(cfg)!BannerRows
    <3>1. \A m \in Office(cfg)!Times, a \in Office(cfg)!Audiences :
             Office(cfg)!NewBanner(m, a) \in Office(cfg)!BannerRows
      BY <2>1 DEF Office!BannerRows, Office!NewBanner
    <3> QED BY <3>1 DEF Office!NewBanners
  <2>4. \A p \in Office(cfg)!BannerRows : [p EXCEPT !.at = n] \in Office(cfg)!BannerRows
        /\ [p EXCEPT !.there = FALSE] \in Office(cfg)!BannerRows
    BY DEF Office!BannerRows
  <2> QED BY <1>2, <2>2, <2>3, <2>4
<1> QED BY <1>1, <1>2, StaffKinds DEF Office!Patched, Office!New, Office!Things

\* The columns that differ from what was read, where what was read is what is there.
LEMMA StaffWritten ==
    ASSUME NEW cfg, Office(cfg)!StaffAssumption, NEW t \in Office(cfg)!Things,
           NEW d \in Office(cfg)!RowsOf(t), NEW was \in Office(cfg)!RowsOf(t),
           NEW old \in Office(cfg)!RowsOf(t), NEW new,
           new = [f \in DOMAIN d |-> IF d[f] # was[f] THEN d[f] ELSE old[f]]
    PROVE  /\ was = old => new = d
           /\ t \in cfg.users => new \in Office(cfg)!RowsOf(t)
<1>1. d = [f \in DOMAIN d |-> d[f]]
  <2>1. ASSUME d \in Office(cfg)!FlagRows PROVE d = [f \in DOMAIN d |-> d[f]]
    BY <2>1 DEF Office!FlagRows
  <2>2. ASSUME d \in Office(cfg)!BannerRows PROVE d = [f \in DOMAIN d |-> d[f]]
    BY <2>2 DEF Office!BannerRows
  <2>3. ASSUME d \in Office(cfg)!UserRows PROVE d = [f \in DOMAIN d |-> d[f]]
    BY <2>3 DEF Office!UserRows
  <2> QED BY <2>1, <2>2, <2>3, StaffKinds
<1>2. was = old => new = d
    BY <1>1
<1>3. ASSUME d \in Office(cfg)!UserRows, was \in Office(cfg)!UserRows,
             old \in Office(cfg)!UserRows
      PROVE  new \in Office(cfg)!UserRows
  <2>1. /\ DOMAIN d = {"there", "suspended"} /\ d.there = TRUE /\ old.there = TRUE
        /\ d.suspended \in BOOLEAN
        /\ old.suspended \in BOOLEAN
    BY <1>3 DEF Office!UserRows
  <2>2. new = [there |-> new.there, suspended |-> new.suspended]
    BY <2>1
  <2> QED BY <2>1, <2>2 DEF Office!UserRows
<1> QED BY <1>2, <1>3, StaffKinds

\* What the audit row says is so of the row that is written, or deleted.
LEMMA StaffSnaps ==
    ASSUME NEW cfg, Office(cfg)!StaffAssumption, NEW t \in cfg.flags \cup cfg.banners,
           NEW was, NEW d \in Office(cfg)!RowsOf(t), NEW new,
           new = IF d.there THEN d ELSE IF t \in cfg.flags THEN Office(cfg)!NoFlag
                                        ELSE Office(cfg)!NoBanner,
           NEW f \in DOMAIN Office(cfg)!Snapshot(was, d)
    PROVE  Office(cfg)!Snapshot(was, d)[f] = new[f]
<1>1. \A x \in Office(cfg)!FlagRows : "suspended" \notin DOMAIN x
    BY DEF Office!FlagRows
<1>2. \A x \in Office(cfg)!BannerRows : "suspended" \notin DOMAIN x
    BY DEF Office!BannerRows
<1>3. d \in Office(cfg)!FlagRows \cup Office(cfg)!BannerRows
    BY StaffKinds DEF Office!Things
<1>4. f \in Office(cfg)!Kept(was, d) /\ Office(cfg)!Snapshot(was, d)[f] = d[f]
    BY DEF Office!Snapshot
<1>5. CASE d.there
    BY <1>4, <1>5
<1>6. CASE ~d.there
  <2>1. f = "there"
    BY <1>1, <1>2, <1>3, <1>4, <1>6 DEF Office!Kept
  <2>2. d.there \in BOOLEAN
    BY <1>3 DEF Office!FlagRows, Office!BannerRows
  <2>3. new.there = FALSE
    BY <1>6 DEF Office!NoFlag, Office!NoBanner
  <2> QED BY <1>4, <1>6, <2>1, <2>2, <2>3
<1> QED BY <1>5, <1>6

\* Before the first request.
LEMMA StaffStart ==
    ASSUME NEW cfg, Office(cfg)!StaffAssumption, Office(cfg)!Init
    PROVE  Office(cfg)!StaffInv
<1>1. /\ staff \in [cfg.staff -> Office(cfg)!People]
      /\ \A e \in cfg.staff :
           staff[e] = IF e \in cfg.ready THEN Office(cfg)!Old ELSE Office(cfg)!NoStaff
    BY StaffKinds DEF Office!Init
<1>2. /\ invite \in [1 .. cfg.invites -> Office(cfg)!Invitations]
      /\ \A i \in 1 .. cfg.invites : invite[i].state = "unused"
    BY DEF Office!Init, Office!Invitations
<1>3. /\ DOMAIN thing = Office(cfg)!Things
      /\ \A t \in Office(cfg)!Things : thing[t] \in Office(cfg)!RowsOf(t)
    BY StaffKinds DEF Office!Init
<1>4. Office(cfg)!Typed
  <2>1. staffReq \in [Pair -> Office(cfg)!Works] /\ DOMAIN trail = Office(cfg)!Things
    BY StaffKinds DEF Office!Init
  <2>2. ticket \in [cfg.staff -> {"none", "setup", "challenge"}] /\ started \in BOOLEAN
    BY DEF Office!Init
  <2>3. /\ linked \subseteq cfg.staff /\ opened \subseteq cfg.staff /\ acted \subseteq cfg.staff
        /\ time \in Office(cfg)!Times
    BY DEF Office!Init, Office!StaffAssumption, Office!Times
  <2> QED BY <1>1, <1>2, <1>3, <2>1, <2>2, <2>3 DEF Office!Typed
<1>5. \A e \in cfg.ready : staff[e].secret /\ ~staff[e].enroll
    BY <1>1 DEF Office!StaffAssumption, Office!Old, Office!Founder, Office!NoStaff
<1>6. Office(cfg)!SecretsOwned
    BY <1>1, <1>5, StaffKinds DEF Office!Init, Office!SecretsOwned
<1>7. Office(cfg)!FoundersKept
    BY <1>1, StaffKinds
       DEF Office!Init, Office!FoundersKept, Office!Founders, Office!Creating, Office!Booting,
           Office!Idle
<1>8. Office(cfg)!InvitedOnce /\ Office(cfg)!TakenAreThere
    BY <1>1, <1>2, StaffKinds DEF Office!InvitedOnce, Office!TakenAreThere
<1>9. Office(cfg)!TrailTrue
    BY DEF Office!Init, Office!TrailTrue, Office!Things, Office!Snapshot
<1>10. \A r \in Pair : Office(cfg)!Fits(r) /\ \A o \in Pair \ {r} : Office(cfg)!Clear(r, o)
    BY DEF Office!Init, Office!Fits, Office!Clear, Office!Inserting, Office!Booting, Office!Holds,
           Office!Idle
<1> QED
  BY <1>4, <1>6, <1>7, <1>8, <1>9, <1>10 DEF Office!StaffInv, Office!ActorsReady, Office!Init

\* A request goes on without writing a row.
LEMMA StaffGoes ==
    ASSUME NEW cfg, Office(cfg)!StaffAssumption, Office(cfg)!StaffInv, NEW r \in Pair,
           NEW w \in Office(cfg)!Works, staffReq' = [staffReq EXCEPT ![r] = w],
           UNCHANGED <<Office(cfg)!people, thing, trail>>, acted' \subseteq cfg.staff,
           time' \in Office(cfg)!Times, started' \in BOOLEAN,
           \A e \in acted' : staff[e].secret /\ ~staff[e].enroll /\ ~staff[e].rotate,
           Office(cfg)!Fits(r)', Office(cfg)!Creating(r)' => Office(cfg)!Founders = {},
           \A o \in Pair \ {r} : Office(cfg)!Clear(r, o)'
    PROVE  Office(cfg)!StaffInv'
<1>1. staffReq'[r] = w /\ \A o \in Pair \ {r} : staffReq'[o] = staffReq[o]
    BY DEF Office!StaffInv, Office!Typed
<1>2. Office(cfg)!Typed'
    BY DEF Office!StaffInv, Office!Typed, Office!people
<1>3. /\ staff' = staff /\ invite' = invite /\ opened' = opened /\ thing' = thing
      /\ Office(cfg)!Founders' = Office(cfg)!Founders
    BY DEF Office!people, Office!Founders
<1>4. Office(cfg)!FoundersKept'
    BY <1>1, <1>3 DEF Office!StaffInv, Office!FoundersKept, Office!Creating, Office!Booting
<1>5. /\ Office(cfg)!SecretsOwned' /\ Office(cfg)!TakenAreThere' /\ Office(cfg)!InvitedOnce'
      /\ Office(cfg)!ActorsReady' /\ Office(cfg)!TrailTrue'
    BY <1>3
       DEF Office!StaffInv, Office!SecretsOwned, Office!TakenAreThere, Office!InvitedOnce,
           Office!ActorsReady, Office!TrailTrue
<1>6. \A o \in Pair : Office(cfg)!Fits(o)'
    BY <1>1, <1>3 DEF Office!StaffInv, Office!Fits, Office!Inserting
<1>7. ASSUME NEW o \in Pair, NEW p \in Pair \ {o} PROVE Office(cfg)!Clear(o, p)'
  <2>1. CASE o = r
    BY <2>1
  <2>2. CASE p = r
    BY <2>2 DEF Office!Clear
  <2>3. CASE o # r /\ p # r
    BY <1>1, <2>3
       DEF Office!StaffInv, Office!Clear, Office!Inserting, Office!Booting, Office!Holds
  <2> QED BY <2>1, <2>2, <2>3
<1> QED BY <1>2, <1>4, <1>5, <1>6, <1>7 DEF Office!StaffInv

\* A request ends without writing a row.
LEMMA StaffStops ==
    ASSUME NEW cfg, Office(cfg)!StaffAssumption, Office(cfg)!StaffInv, NEW r \in Pair,
           Office(cfg)!Stop(r), UNCHANGED <<Office(cfg)!people, acted, thing, trail, time>>,
           started' \in BOOLEAN
    PROVE  Office(cfg)!StaffInv'
<1>1. /\ staffReq' = [staffReq EXCEPT ![r] = Office(cfg)!Idle]
      /\ Office(cfg)!Idle \in Office(cfg)!Works
    BY StaffKinds DEF Office!Stop
<1>2. staffReq'[r] = Office(cfg)!Idle
    BY <1>1 DEF Office!StaffInv, Office!Typed
<1>3. /\ Office(cfg)!Fits(r)' /\ ~Office(cfg)!Creating(r)'
      /\ \A o \in Pair \ {r} : Office(cfg)!Clear(r, o)'
    BY <1>2
       DEF Office!Fits, Office!Creating, Office!Clear, Office!Inserting, Office!Booting,
           Office!Holds, Office!Idle
<1> QED BY <1>1, <1>3, StaffGoes DEF Office!StaffInv, Office!Typed, Office!ActorsReady

\* The start of the service: who finds no super-admin is to create one.
LEMMA StaffBoots ==
    ASSUME NEW cfg, Office(cfg)!StaffAssumption, Office(cfg)!StaffInv, NEW r \in Pair,
           \/ Office(cfg)!Boot(r) \/ Office(cfg)!Bootstrap(r) \/ Office(cfg)!InsertFounder(r)
           \/ Office(cfg)!KeepLinked(r) \/ Office(cfg)!BootFails(r)
    PROVE  Office(cfg)!StaffInv'
<1> USE DEF Office!Set
<1>1. /\ UNCHANGED <<Office(cfg)!people, acted, thing, trail, time>> /\ started' \in BOOLEAN
      /\ staffReq[r] \in Office(cfg)!Works /\ acted' \subseteq cfg.staff
      /\ time' \in Office(cfg)!Times
      /\ \A e \in acted' : staff[e].secret /\ ~staff[e].enroll /\ ~staff[e].rotate
      /\ staff' = staff /\ invite' = invite
    BY DEF Office!StaffInv, Office!Typed, Office!ActorsReady, Office!Boot, Office!Bootstrap,
           Office!InsertFounder, Office!KeepLinked, Office!BootFails, Office!people
<1>2. ASSUME Office(cfg)!Stop(r) PROVE Office(cfg)!StaffInv'
    BY <1>1, <1>2, StaffStops
<1>3. CASE Office(cfg)!Boot(r)
  <2>1. PICK e \in cfg.fromEnv :
           staffReq' = [staffReq EXCEPT ![r] =
              [Office(cfg)!Idle EXCEPT !.op = "start", !.email = e, !.pc = "boot"]]
    BY <1>3 DEF Office!Boot
  <2> DEFINE w == [Office(cfg)!Idle EXCEPT !.op = "start", !.email = e, !.pc = "boot"]
  <2>2. /\ w \in Office(cfg)!Works /\ w.op = "start" /\ w.pc = "boot" /\ w.email \in cfg.staff
        /\ w.thing = "none"
    BY StaffKinds DEF Office!StaffAssumption, Office!Idle, Office!Works
  <2> HIDE DEF w
  <2>3. staffReq' = [staffReq EXCEPT ![r] = w] /\ staffReq'[r] = w
    BY <2>1 DEF w, Office!StaffInv, Office!Typed
  <2>4. /\ Office(cfg)!Fits(r)' /\ ~Office(cfg)!Creating(r)'
        /\ \A o \in Pair \ {r} : Office(cfg)!Clear(r, o)'
    BY <2>2, <2>3
       DEF Office!Fits, Office!Creating, Office!Clear, Office!Inserting, Office!Booting,
           Office!Holds
  <2> QED BY <1>1, <2>2, <2>3, <2>4, StaffGoes
<1>4. CASE Office(cfg)!Bootstrap(r)
  <2> DEFINE l == IF Office(cfg)!SuperAdmins = {} THEN "admin" ELSE "linked"
             w == [staffReq[r] EXCEPT !.pc = l]
  <2>1. staffReq' = [staffReq EXCEPT ![r] = w] /\ staffReq'[r] = w
    BY <1>4 DEF Office!Bootstrap, Office!StaffInv, Office!Typed
  <2>2. /\ w \in Office(cfg)!Works /\ w.pc = l /\ w.op = staffReq[r].op
        /\ w.email = staffReq[r].email
        /\ w.thing = staffReq[r].thing /\ w.op = "start" /\ l \in {"admin", "linked"}
    BY <1>1, <1>4 DEF Office!Works, Office!Bootstrap, Office!StaffInv, Office!Fits
  <2>3. l = "admin" => Office(cfg)!Founders = {}
    BY DEF Office!SuperAdmins, Office!Founders, Office!StaffInv, Office!FoundersKept
  <2> HIDE DEF w, l
  <2>4. \A o \in Pair \ {r} : ~Office(cfg)!Booting(o)'
    BY <1>4, <2>1
       DEF Office!Bootstrap, Office!NoOtherBoots, Office!Others, Office!Booting, Office!StaffInv,
           Office!Typed
  <2>5. Office(cfg)!Fits(r)'
    <3>1. Office(cfg)!Fits(r)
      BY DEF Office!StaffInv
    <3> QED BY <1>1, <2>1, <2>2, <3>1 DEF Office!Fits, Office!Inserting
  <2>6. Office(cfg)!Creating(r)' => Office(cfg)!Founders = {}
    BY <2>1, <2>2, <2>3 DEF Office!Creating, Office!Booting
  <2>7. \A o \in Pair \ {r} : Office(cfg)!Clear(r, o)'
    BY <2>1, <2>2, <2>4 DEF Office!Clear, Office!Inserting, Office!Holds
  <2> QED BY <1>1, <2>1, <2>2, <2>5, <2>6, <2>7, StaffGoes
<1>5. CASE Office(cfg)!InsertFounder(r)
  <2>1. CASE staff[staffReq[r].email].there
    BY <1>2, <1>5, <2>1 DEF Office!InsertFounder
  <2>2. CASE ~staff[staffReq[r].email].there
    <3> DEFINE w == [staffReq[r] EXCEPT !.pc = "commit"]
    <3>1. staffReq' = [staffReq EXCEPT ![r] = w] /\ staffReq'[r] = w
      BY <1>5, <2>2 DEF Office!InsertFounder, Office!StaffInv, Office!Typed
    <3>2. /\ w \in Office(cfg)!Works /\ w.pc = "commit" /\ w.op = staffReq[r].op
          /\ w.email = staffReq[r].email
          /\ w.thing = staffReq[r].thing /\ w.role = staffReq[r].role /\ w.op = "start"
          /\ staffReq[r].pc = "admin"
      BY <1>1, <1>5 DEF Office!Works, Office!InsertFounder, Office!StaffInv, Office!Fits
    <3> HIDE DEF w
    <3>3. Office(cfg)!Booting(r) /\ Office(cfg)!Founders = {}
      BY <3>2 DEF Office!Booting, Office!Creating, Office!StaffInv, Office!FoundersKept
    <3>4. \A o \in Pair \ {r} : staffReq'[o] = staffReq[o] /\ ~Office(cfg)!Booting(o)
      BY <3>1, <3>3 DEF Office!StaffInv, Office!Typed, Office!Clear
    <3>5. Office(cfg)!Fits(r)'
      BY <1>1, <2>2, <3>1, <3>2 DEF Office!Fits, Office!Inserting, Office!StaffInv
    <3>6. \A o \in Pair \ {r} : Office(cfg)!Clear(r, o)'
      BY <1>1, <1>5, <3>1, <3>2, <3>4, <3>5
         DEF Office!InsertFounder, Office!Waits, Office!Others, Office!Fits, Office!Clear,
             Office!Inserting, Office!Booting, Office!Holds, Office!Things, Office!StaffAssumption
    <3> QED BY <1>1, <3>1, <3>2, <3>3, <3>5, <3>6, StaffGoes
  <2> QED BY <2>1, <2>2
<1>6. CASE Office(cfg)!KeepLinked(r)
  <2> DEFINE w == [[staffReq[r] EXCEPT !.role = "none"] EXCEPT !.pc = "commit"]
  <2>1. staffReq' = [staffReq EXCEPT ![r] = w] /\ staffReq'[r] = w
    BY <1>6 DEF Office!KeepLinked, Office!StaffInv, Office!Typed
  <2>2. /\ w \in Office(cfg)!Works /\ w.pc = "commit" /\ w.op = "start"
        /\ w.email = staffReq[r].email
        /\ w.thing = staffReq[r].thing /\ w.role = "none" /\ staffReq[r].op = "start"
        /\ staffReq[r].pc = "linked"
    BY <1>1, <1>6 DEF Office!Works, Office!KeepLinked, Office!StaffInv, Office!Fits
  <2> HIDE DEF w
  <2>3. \A o \in Pair \ {r} : staffReq'[o] = staffReq[o] /\ ~Office(cfg)!Booting(o)
    BY <2>1, <2>2 DEF Office!StaffInv, Office!Typed, Office!Clear, Office!Booting
  <2>4. Office(cfg)!Fits(r)' /\ ~Office(cfg)!Creating(r)' /\ ~Office(cfg)!Inserting(r)'
    BY <1>1, <2>1, <2>2
       DEF Office!Fits, Office!Inserting, Office!Creating, Office!Booting, Office!StaffInv
  <2>5. \A o \in Pair \ {r} : Office(cfg)!Clear(r, o)'
    BY <2>1, <2>2, <2>3, <2>4, <1>1
       DEF Office!Clear, Office!Inserting, Office!Booting, Office!Holds, Office!Fits,
           Office!StaffInv, Office!Things, Office!StaffAssumption
  <2> QED BY <1>1, <2>1, <2>2, <2>4, <2>5, StaffGoes
<1>7. CASE Office(cfg)!BootFails(r)
    BY <1>2, <1>7 DEF Office!BootFails
<1> QED BY <1>3, <1>4, <1>5, <1>6, <1>7

\* The gate lets through who has proved a second factor and replaced the first password.
LEMMA StaffAdmits ==
    ASSUME NEW cfg, Office(cfg)!StaffInv, NEW e \in cfg.staff, NEW op, Office(cfg)!Gate(e, op)
    PROVE  staff[e].secret /\ ~staff[e].enroll /\ ~staff[e].rotate
BY DEF Office!StaffInv, Office!SecretsOwned, Office!Gate, Office!Admitted, Office!Present

\* A session, a password, a code or an invitation changes; no request goes on.
LEMMA StaffKeeps ==
    ASSUME NEW cfg, Office(cfg)!StaffAssumption, Office(cfg)!StaffInv,
           UNCHANGED <<linked, thing, trail, time, staffReq, started>>,
           staff' \in [cfg.staff -> Office(cfg)!People],
           invite' \in [1 .. cfg.invites -> Office(cfg)!Invitations],
           ticket' \in [cfg.staff -> {"none", "setup", "challenge"}],
           opened' \subseteq cfg.staff, acted' \subseteq cfg.staff,
           \A e \in cfg.staff : /\ staff'[e].there = staff[e].there
                                /\ staff'[e].via = staff[e].via
                                /\ staff'[e].role = staff[e].role
                                /\ staff[e].secret => staff'[e].secret
                                /\ staff'[e].secret => staff[e].there
                                /\ ~staff[e].enroll /\ staff[e].secret => ~staff'[e].enroll
                                /\ ~staff[e].rotate => ~staff'[e].rotate,
           \A e \in opened' : staff'[e].secret,
           \A e \in acted' \ acted : staff'[e].secret /\ ~staff'[e].enroll /\ ~staff'[e].rotate,
           \A i \in 1 .. cfg.invites :
              \/ invite'[i] = invite[i]
              \/ invite[i].state = "unused" /\ invite'[i].state = "open"
              \/ /\ invite[i].state = "open" /\ invite'[i].state = "expired"
                 /\ invite'[i].email = invite[i].email /\ invite'[i].role = invite[i].role
    PROVE  Office(cfg)!StaffInv'
<1>1. Office(cfg)!Typed' /\ Office(cfg)!SecretsOwned' /\ Office(cfg)!TrailTrue'
    BY DEF Office!StaffInv, Office!Typed, Office!SecretsOwned, Office!TrailTrue
<1>2. Office(cfg)!Founders' = Office(cfg)!Founders
    BY DEF Office!Founders
<1>3. Office(cfg)!FoundersKept'
    BY <1>2
       DEF Office!StaffInv, Office!FoundersKept, Office!Founders, Office!Creating, Office!Booting
<1>4. Office(cfg)!ActorsReady'
    BY DEF Office!StaffInv, Office!ActorsReady, Office!Typed
<1>5. \A i \in 1 .. cfg.invites :
         /\ invite'[i].state = "taken" => invite'[i] = invite[i]
         /\ invite[i].state = "taken" => invite'[i] = invite[i]
         /\ invite[i].state # "unused" =>
              /\ invite'[i].state # "unused"
              /\ invite'[i].email = invite[i].email /\ invite'[i].role = invite[i].role
    OBVIOUS
<1>6. Office(cfg)!TakenAreThere'
    BY <1>5 DEF Office!StaffInv, Office!TakenAreThere
<1>7. Office(cfg)!InvitedOnce'
  <2> SUFFICES ASSUME NEW e \in cfg.staff, staff'[e].there, staff'[e].via = "invite"
               PROVE  \E i \in 1 .. cfg.invites :
                         /\ invite'[i].state = "taken" /\ invite'[i].email = e
                         /\ invite'[i].role = staff'[e].role
                         /\ \A j \in 1 .. cfg.invites \ {i} :
                              invite'[j].state = "taken" => invite'[j].email # e
    BY DEF Office!InvitedOnce
  <2>1. PICK i \in 1 .. cfg.invites :
           /\ invite[i].state = "taken" /\ invite[i].email = e /\ invite[i].role = staff[e].role
           /\ \A j \in 1 .. cfg.invites \ {i} : invite[j].state = "taken" => invite[j].email # e
    BY DEF Office!StaffInv, Office!InvitedOnce
  <2> QED BY <1>5, <2>1
<1>8. ASSUME NEW r \in Pair
      PROVE  Office(cfg)!Fits(r)' /\ \A o \in Pair \ {r} : Office(cfg)!Clear(r, o)'
    BY <1>5, <1>8
       DEF Office!StaffInv, Office!Fits, Office!Clear, Office!Inserting, Office!Booting,
           Office!Holds
<1> QED BY <1>1, <1>3, <1>4, <1>6, <1>7, <1>8 DEF Office!StaffInv

\* What an administrator does for a session of its own.
LEMMA StaffEnters ==
    ASSUME NEW cfg, Office(cfg)!StaffAssumption, Office(cfg)!StaffInv, NEW r, NEW e \in cfg.staff,
           \/ Office(cfg)!Enroll(r, e) \/ Office(cfg)!Verify(r, e) \/ Office(cfg)!Logout(r, e)
           \/ Office(cfg)!TicketExpires(e)
           \/ \E p \in cfg.passwords :
                \/ Office(cfg)!Login(r, e, p)
                \/ \E new \in cfg.passwords : Office(cfg)!ChangePassword(r, e, p, new)
    PROVE  Office(cfg)!StaffInv'
<1>1. /\ staff[e] \in Office(cfg)!People /\ staff \in [cfg.staff -> Office(cfg)!People]
      /\ invite \in [1 .. cfg.invites -> Office(cfg)!Invitations]
      /\ ticket \in [cfg.staff -> {"none", "setup", "challenge"}]
      /\ opened \subseteq cfg.staff /\ acted \subseteq cfg.staff
      /\ \A a \in cfg.staff : staff[a].secret => staff[a].there
      /\ \A a \in opened : staff[a].secret
    BY DEF Office!StaffInv, Office!Typed, Office!SecretsOwned
<1>2. ASSUME NEW f \in Office(cfg)!People, Office(cfg)!Created(e, f), f.there = staff[e].there,
             f.via = staff[e].via, f.role = staff[e].role, staff[e].secret => f.secret,
             f.secret => staff[e].there, ~staff[e].enroll /\ staff[e].secret => ~f.enroll,
             ~staff[e].rotate => ~f.rotate,
             UNCHANGED <<linked, invite, ticket, acted, thing, trail, time, staffReq, started>>,
             opened' = opened \/ (opened' = opened \cup {e} /\ f.secret)
      PROVE  Office(cfg)!StaffInv'
  <2>1. /\ staff' \in [cfg.staff -> Office(cfg)!People] /\ staff'[e] = f
        /\ \A a \in cfg.staff \ {e} : staff'[a] = staff[a]
    BY <1>1, <1>2 DEF Office!Created
  <2>2. opened' \subseteq cfg.staff /\ \A a \in opened' : staff'[a].secret
    BY <1>1, <1>2, <2>1
  <2>3. \A a \in cfg.staff :
           /\ staff'[a].there = staff[a].there /\ staff'[a].via = staff[a].via
           /\ staff'[a].role = staff[a].role
           /\ staff[a].secret => staff'[a].secret
           /\ staff'[a].secret => staff[a].there
           /\ ~staff[a].enroll /\ staff[a].secret => ~staff'[a].enroll
           /\ ~staff[a].rotate => ~staff'[a].rotate
    BY <1>1, <1>2, <2>1
  <2> QED BY <1>1, <1>2, <2>1, <2>2, <2>3, StaffKeeps
<1>3. ASSUME UNCHANGED <<staff, linked, invite, thing, trail, time, staffReq, started>>,
             ticket' \in [cfg.staff -> {"none", "setup", "challenge"}], opened' \subseteq opened,
             acted' = acted \/ (acted' = acted \cup {e} /\ Office(cfg)!Gate(e, "logout"))
      PROVE  Office(cfg)!StaffInv'
    BY <1>1, <1>3, StaffKeeps, StaffAdmits
<1>0. PICK was \in Office(cfg)!People : was = staff[e]
    BY <1>1
<1>4. CASE Office(cfg)!Enroll(r, e)
  <2> DEFINE h == [was EXCEPT !.secret = TRUE]
             f == [h EXCEPT !.codes = 0]
  <2>1. /\ Office(cfg)!Created(e, IF was.secret THEN was ELSE f) /\ was.there
        /\ UNCHANGED <<linked, invite, ticket, opened, acted, thing, trail, time, staffReq,
             started>>
    BY <1>0, <1>4 DEF Office!Enroll
  <2>2. /\ h \in Office(cfg)!People /\ h.there = was.there /\ h.via = was.via /\ h.role = was.role
        /\ h.secret /\ h.enroll = was.enroll /\ h.rotate = was.rotate
    BY DEF Office!People
  <2> HIDE DEF h
  <2>3. /\ f \in Office(cfg)!People /\ f.there = was.there /\ f.via = was.via /\ f.role = was.role
        /\ f.secret /\ f.enroll = was.enroll /\ f.rotate = was.rotate
    BY <2>2 DEF Office!People
  <2> HIDE DEF f
  <2> QED BY <1>0, <1>2, <2>1, <2>3
<1>5. CASE Office(cfg)!Verify(r, e)
  <2> DEFINE h == [was EXCEPT !.codes = 1]
             first == [h EXCEPT !.enroll = FALSE]
             used == [was EXCEPT !.codes = was.codes - 1]
  <2>1. /\ was.secret /\ opened' = opened \cup {e}
        /\ UNCHANGED <<linked, invite, ticket, acted, thing, trail, time, staffReq, started>>
        /\ \/ Office(cfg)!Created(e, was) \/ Office(cfg)!Created(e, first)
           \/ was.codes > 0 /\ Office(cfg)!Created(e, used)
    BY <1>0, <1>5 DEF Office!Verify
  <2>2. /\ h \in Office(cfg)!People /\ h.there = was.there /\ h.via = was.via /\ h.role = was.role
        /\ h.secret = was.secret /\ h.rotate = was.rotate
    BY DEF Office!People
  <2> HIDE DEF h
  <2>3. /\ first \in Office(cfg)!People /\ first.there = was.there /\ first.via = was.via
        /\ first.role = was.role /\ first.secret = was.secret
        /\ ~first.enroll /\ first.rotate = was.rotate
    BY <2>2 DEF Office!People
  <2>4. was.codes > 0 =>
           /\ used \in Office(cfg)!People /\ used.there = was.there /\ used.via = was.via
           /\ used.role = was.role /\ used.secret = was.secret
           /\ used.enroll = was.enroll /\ used.rotate = was.rotate
    BY DEF Office!People
  <2> HIDE DEF first, used
  <2> QED BY <1>0, <1>1, <1>2, <2>1, <2>3, <2>4
<1>6. CASE Office(cfg)!Logout(r, e)
    BY <1>1, <1>3, <1>6 DEF Office!Logout
<1>7. CASE Office(cfg)!TicketExpires(e)
  <2>1. ticket' \in [cfg.staff -> {"none", "setup", "challenge"}]
    BY <1>1, <1>7 DEF Office!TicketExpires
  <2> QED BY <1>3, <1>7, <2>1 DEF Office!TicketExpires
<1>8. ASSUME NEW p \in cfg.passwords, Office(cfg)!Login(r, e, p)
      PROVE  Office(cfg)!StaffInv'
  <2>1. PICK w \in {"setup", "challenge"} : ticket' = [ticket EXCEPT ![e] = w]
    BY <1>8 DEF Office!Login
  <2>2. ticket' \in [cfg.staff -> {"none", "setup", "challenge"}]
    BY <1>1, <2>1
  <2> QED BY <1>3, <1>8, <2>2 DEF Office!Login
<1>9. ASSUME NEW p \in cfg.passwords, NEW new \in cfg.passwords,
             Office(cfg)!ChangePassword(r, e, p, new)
      PROVE  Office(cfg)!StaffInv'
  <2> DEFINE f == [was EXCEPT !.password = new, !.rotate = FALSE]
  <2>1. /\ Office(cfg)!Created(e, f)
        /\ UNCHANGED <<linked, invite, ticket, opened, acted, thing, trail, time, staffReq,
             started>>
    BY <1>0, <1>9 DEF Office!ChangePassword
  <2>2. /\ f \in Office(cfg)!People /\ f.there = was.there /\ f.via = was.via
        /\ f.role = was.role /\ f.secret = was.secret /\ f.enroll = was.enroll
        /\ ~f.rotate
    BY <1>9 DEF Office!People
  <2> HIDE DEF f
  <2> QED BY <1>0, <1>1, <1>2, <2>1, <2>2
<1> QED BY <1>4, <1>5, <1>6, <1>7, <1>8, <1>9

\* An invitation is sent, or expires.
LEMMA StaffInvites ==
    ASSUME NEW cfg, Office(cfg)!StaffAssumption, Office(cfg)!StaffInv,
           \/ \E r \in Pair, e \in cfg.staff, to \in cfg.staff :
                \E role \in {"super_admin", "admin"} : Office(cfg)!Invite(r, e, to, role)
           \/ \E i \in 1 .. cfg.invites : Office(cfg)!InviteExpires(i)
    PROVE  Office(cfg)!StaffInv'
<1>1. /\ staff \in [cfg.staff -> Office(cfg)!People]
      /\ invite \in [1 .. cfg.invites -> Office(cfg)!Invitations]
      /\ ticket \in [cfg.staff -> {"none", "setup", "challenge"}]
      /\ opened \subseteq cfg.staff /\ acted \subseteq cfg.staff
      /\ \A a \in cfg.staff : staff[a].secret => staff[a].there
      /\ \A a \in opened : staff[a].secret
    BY DEF Office!StaffInv, Office!Typed, Office!SecretsOwned
<1>2. ASSUME NEW i \in 1 .. cfg.invites, NEW v \in Office(cfg)!Invitations,
             invite' = [invite EXCEPT ![i] = v],
             UNCHANGED <<staff, linked, ticket, opened, thing, trail, time, staffReq, started>>,
             \/ invite[i].state = "unused" /\ v.state = "open"
             \/ /\ invite[i].state = "open" /\ v.state = "expired"
                /\ v.email = invite[i].email /\ v.role = invite[i].role,
             \A e \in acted' \ acted :
                e \in cfg.staff /\ staff[e].secret /\ ~staff[e].enroll /\ ~staff[e].rotate
      PROVE  Office(cfg)!StaffInv'
    BY <1>1, <1>2, StaffKeeps
<1>3. ASSUME NEW r \in Pair, NEW e \in cfg.staff, NEW to \in cfg.staff,
             NEW role \in {"super_admin", "admin"}, Office(cfg)!Invite(r, e, to, role)
      PROVE  Office(cfg)!StaffInv'
  <2>1. PICK i \in 1 .. cfg.invites :
           /\ invite[i].state = "unused"
           /\ invite' = [invite EXCEPT ![i] = [state |-> "open", email |-> to, role |-> role]]
    BY <1>3 DEF Office!Invite
  <2> DEFINE v == [state |-> "open", email |-> to, role |-> role]
  <2>2. v \in Office(cfg)!Invitations /\ v.state = "open"
    BY DEF Office!Invitations
  <2>3. invite' = [invite EXCEPT ![i] = v]
    BY <2>1
  <2> HIDE DEF v
  <2>4. /\ staff[e].secret /\ ~staff[e].enroll /\ ~staff[e].rotate
        /\ acted' = acted \cup {e}
        /\ UNCHANGED <<staff, linked, ticket, opened, thing, trail, time, staffReq, started>>
    BY <1>3, StaffAdmits DEF Office!Invite
  <2> QED BY <1>2, <2>1, <2>2, <2>3, <2>4
<1>4. ASSUME NEW i \in 1 .. cfg.invites, Office(cfg)!InviteExpires(i)
      PROVE  Office(cfg)!StaffInv'
  <2> DEFINE v == [invite[i] EXCEPT !.state = "expired"]
  <2>1. /\ v \in Office(cfg)!Invitations /\ v.state = "expired" /\ v.email = invite[i].email
        /\ v.role = invite[i].role
    BY <1>1, <1>4 DEF Office!Invitations, Office!InviteExpires
  <2>2. invite' = [invite EXCEPT ![i] = v]
    BY <1>4 DEF Office!InviteExpires
  <2> HIDE DEF v
  <2> QED BY <1>2, <1>4, <2>1, <2>2 DEF Office!InviteExpires
<1> QED BY <1>3, <1>4

\* An invitation is taken up, or a change asked for, read under its lock and made.
LEMMA StaffMoves ==
    ASSUME NEW cfg, Office(cfg)!StaffAssumption, Office(cfg)!StaffInv, NEW r \in Pair,
           \/ \E i \in 1 .. cfg.invites : Office(cfg)!Accept(r, i)
           \/ Office(cfg)!InsertInvited(r) \/ Office(cfg)!Lock(r) \/ Office(cfg)!InsertThing(r)
           \/ Office(cfg)!Decide(r) \/ Office(cfg)!Rollback(r)
           \/ \E e \in cfg.staff, t \in Office(cfg)!Things :
                \/ Office(cfg)!CreateFlag(r, e, t) \/ Office(cfg)!UpdateFlag(r, e, t)
                \/ Office(cfg)!DeleteFlag(r, e, t)
                \/ Office(cfg)!CreateBanner(r, e, t) \/ Office(cfg)!UpdateBanner(r, e, t)
                \/ Office(cfg)!DeleteBanner(r, e, t)
                \/ Office(cfg)!Suspend(r, e, t)
    PROVE  Office(cfg)!StaffInv'
<1> USE DEF Office!Set
<1>1. /\ staffReq[r] \in Office(cfg)!Works /\ Office(cfg)!Fits(r)
      /\ staffReq \in [Pair -> Office(cfg)!Works]
      /\ invite \in [1 .. cfg.invites -> Office(cfg)!Invitations]
      /\ \A t \in Office(cfg)!Things : thing[t] \in Office(cfg)!RowsOf(t)
      /\ acted \subseteq cfg.staff /\ time \in Office(cfg)!Times /\ started \in BOOLEAN
      /\ \A e \in acted : staff[e].secret /\ ~staff[e].enroll /\ ~staff[e].rotate
    BY DEF Office!StaffInv, Office!Typed, Office!ActorsReady
<1>2. Office(cfg)!Idle \in Office(cfg)!Works /\ Office(cfg)!NotHeld \in Office(cfg)!UserRows
    BY StaffKinds
<1>3. \A t \in Office(cfg)!Things :
         Office(cfg)!RowsOf(t)
            \subseteq Office(cfg)!FlagRows \cup Office(cfg)!BannerRows \cup Office(cfg)!UserRows
    BY DEF Office!RowsOf
<1>4. ASSUME Office(cfg)!Stop(r),
             UNCHANGED <<Office(cfg)!people, acted, thing, trail, time, started>>
      PROVE  Office(cfg)!StaffInv'
    BY <1>1, <1>4, StaffStops
<1>5. ASSUME NEW w \in Office(cfg)!Works, staffReq' = [staffReq EXCEPT ![r] = w],
             ~(w.op = "start"), Office(cfg)!Fits(r)',
             \A o \in Pair \ {r} : Office(cfg)!Clear(r, o)',
             UNCHANGED <<Office(cfg)!people, thing, trail, started>>, time' \in Office(cfg)!Times,
             \A e \in acted' \ acted :
                e \in cfg.staff /\ staff[e].secret /\ ~staff[e].enroll /\ ~staff[e].rotate
      PROVE  Office(cfg)!StaffInv'
  <2>1. staffReq'[r] = w
    BY <1>1, <1>5
  <2>2. ~Office(cfg)!Creating(r)'
    BY <1>5, <2>1 DEF Office!Creating, Office!Booting
  <2> QED BY <1>1, <1>5, <2>2, StaffGoes
<1>6. ASSUME NEW i \in 1 .. cfg.invites, Office(cfg)!Accept(r, i)
      PROVE  Office(cfg)!StaffInv'
  <2>1. PICK p \in cfg.passwords : staffReq' = [staffReq EXCEPT ![r] =
           [[Office(cfg)!Idle EXCEPT !.op = "accept", !.invite = i,
                                     !.email = invite[i].email, !.role = invite[i].role,
                                     !.password = p] EXCEPT !.pc = "insert"]]
    BY <1>6 DEF Office!Accept
  <2> DEFINE w == [[Office(cfg)!Idle EXCEPT !.op = "accept", !.invite = i,
                                            !.email = invite[i].email, !.role = invite[i].role,
                                            !.password = p] EXCEPT !.pc = "insert"]
  <2>2. /\ invite[i].email \in cfg.staff \cup {"none"}
        /\ invite[i].role \in {"super_admin", "admin"}
        /\ i \in 0 .. cfg.invites
    BY <1>1 DEF Office!Invitations
  <2>3. /\ w \in Office(cfg)!Works /\ w.op = "accept" /\ w.pc = "insert" /\ w.invite = i
        /\ w.thing = "none" /\ w.email = invite[i].email /\ w.role = invite[i].role
    BY <1>2, <2>2 DEF Office!Idle, Office!Works, Office!Everyone
  <2>4. /\ invite[i].state = "open"
        /\ UNCHANGED <<Office(cfg)!people, acted, thing, trail, time, started>>
    BY <1>6 DEF Office!Accept
  <2> HIDE DEF w
  <2>5. staffReq' = [staffReq EXCEPT ![r] = w] /\ staffReq'[r] = w
    BY <1>1, <2>1 DEF w
  <2>6. invite[i].email \in cfg.staff
    BY <1>1, <2>4 DEF Office!Invitations
  <2>7. Office(cfg)!Fits(r)' /\ \A o \in Pair \ {r} : Office(cfg)!Clear(r, o)'
    BY <2>3, <2>4, <2>5, <2>6
       DEF Office!Fits, Office!Clear, Office!Inserting, Office!Booting, Office!Holds,
           Office!people
  <2> QED BY <1>1, <1>5, <2>3, <2>4, <2>5, <2>7
<1>7. CASE Office(cfg)!InsertInvited(r)
  <2>1. CASE Office(cfg)!Taken(r)
    BY <1>4, <1>7, <2>1 DEF Office!InsertInvited
  <2>2. CASE ~Office(cfg)!Taken(r)
    <3> DEFINE w == [staffReq[r] EXCEPT !.pc = "commit"]
    <3>1. /\ staffReq' = [staffReq EXCEPT ![r] = w] /\ staffReq[r].pc = "insert"
          /\ ~Office(cfg)!Waits(r)
          /\ UNCHANGED <<Office(cfg)!people, acted, thing, trail, time, started>>
      BY <1>7, <2>2 DEF Office!InsertInvited
    <3>2. /\ w \in Office(cfg)!Works /\ w.pc = "commit" /\ w.op = staffReq[r].op
          /\ w.op = "accept"
          /\ w.email = staffReq[r].email /\ w.invite = staffReq[r].invite
          /\ w.role = staffReq[r].role
          /\ w.thing = staffReq[r].thing
      BY <1>1, <3>1 DEF Office!Works, Office!Fits
    <3> HIDE DEF w
    <3>3. staffReq'[r] = w /\ \A o \in Pair \ {r} : staffReq'[o] = staffReq[o]
      BY <1>1, <3>1
    <3>4. Office(cfg)!Fits(r)'
      BY <1>1, <2>2, <3>1, <3>2, <3>3
         DEF Office!Fits, Office!Inserting, Office!Taken, Office!people
    <3>5. \A o \in Pair \ {r} : Office(cfg)!Clear(r, o)'
      BY <1>1, <3>1, <3>2, <3>3
         DEF Office!Fits, Office!Clear, Office!Inserting, Office!Booting, Office!Holds,
             Office!Waits, Office!Others, Office!Things, Office!StaffAssumption
    <3> QED BY <1>1, <1>5, <3>1, <3>2, <3>4, <3>5
  <2> QED BY <2>1, <2>2
<1>8. ASSUME NEW e \in cfg.staff, NEW t \in Office(cfg)!Things,
             NEW op \in {"create", "update", "delete", "suspend"}, Office(cfg)!Ask(r, e, t, op),
             op = "suspend" <=> t \in cfg.users
      PROVE  Office(cfg)!StaffInv'
  <2> DEFINE l == IF op = "create" THEN "create" ELSE IF op = "suspend" THEN "suspend" ELSE "lock"
             w == [[Office(cfg)!Idle EXCEPT !.op = op, !.thing = t, !.seen = thing[t]]
                      EXCEPT !.pc = l]
  <2>1. /\ staffReq' = [staffReq EXCEPT ![r] = w]
        /\ UNCHANGED <<Office(cfg)!people, thing, trail, started>>
        /\ time < cfg.changes /\ time' = time + 1 /\ acted' = acted \cup {e}
        /\ Office(cfg)!Gate(e, Office(cfg)!OpOf(t))
    BY <1>8 DEF Office!Ask
  <2>0. l \in {"create", "suspend", "lock"} /\ (l = "suspend" <=> op = "suspend")
    OBVIOUS
  <2> HIDE DEF l
  <2>8. thing[t] \in Office(cfg)!FlagRows \cup Office(cfg)!BannerRows \cup Office(cfg)!UserRows
    BY <1>1, <1>3
  <2>2. w \in Office(cfg)!Works /\ w.op = op /\ w.thing = t /\ w.seen = thing[t] /\ w.pc = l
    BY <1>2, <1>8, <2>0, <2>8 DEF Office!Idle, Office!Works
  <2> HIDE DEF w
  <2>3. staffReq'[r] = w
    BY <1>1, <2>1
  <2>4. t \in cfg.users => thing[t] \in Office(cfg)!UserRows
    BY <1>1, StaffKinds
  <2>5. Office(cfg)!Fits(r)' /\ \A o \in Pair \ {r} : Office(cfg)!Clear(r, o)'
    BY <1>8, <2>0, <2>2, <2>3, <2>4
       DEF Office!Fits, Office!Clear, Office!Inserting, Office!Booting, Office!Holds,
           Office!Things
  <2>6. time' \in Office(cfg)!Times
    BY <1>1, <2>1 DEF Office!Times, Office!StaffAssumption
  <2>7. staff[e].secret /\ ~staff[e].enroll /\ ~staff[e].rotate
    BY <2>1, StaffAdmits
  <2> QED BY <1>5, <1>8, <2>1, <2>2, <2>5, <2>6, <2>7
<1>9. ASSUME NEW t \in Office(cfg)!Things, staffReq[r].thing = t,
             staffReq[r].pc \in {"lock", "create", "suspend"}, Office(cfg)!Free(r),
             NEW d \in Office(cfg)!RowsOf(t), NEW s \in Office(cfg)!RowsOf(t),
             t \notin cfg.users => s = thing[t], NEW w,
             w = [[staffReq[r] EXCEPT !.seen = s, !.draft = d] EXCEPT !.pc = "commit"],
             staffReq' = [staffReq EXCEPT ![r] = w],
             UNCHANGED <<Office(cfg)!people, acted, thing, trail, time, started>>
      PROVE  Office(cfg)!StaffInv'
  <2>1. /\ w \in Office(cfg)!Works /\ w.op = staffReq[r].op /\ w.thing = t /\ w.seen = s
        /\ w.draft = d
        /\ w.pc = "commit"
    BY <1>1, <1>3, <1>9 DEF Office!Works
  <2>2. staffReq'[r] = w /\ \A o \in Pair \ {r} : staffReq'[o] = staffReq[o]
    BY <1>1, <1>9, <2>1
  <2>3. w.op \notin {"start", "accept"}
    BY <1>1, <1>9, <2>1 DEF Office!Fits, Office!StaffAssumption, Office!Things
  <2>4. Office(cfg)!Fits(r)'
    BY <1>9, <2>1, <2>2, <2>3 DEF Office!Fits, Office!Inserting
  <2>5. \A o \in Pair \ {r} : Office(cfg)!Clear(r, o)'
    BY <1>9, <2>1, <2>2, <2>3
       DEF Office!Clear, Office!Inserting, Office!Booting, Office!Holds, Office!Free,
           Office!Others
  <2> QED BY <1>1, <1>5, <1>9, <2>1, <2>3, <2>4, <2>5
<1>10. CASE Office(cfg)!Lock(r)
  <2> DEFINE t == staffReq[r].thing
  <2>1. /\ staffReq[r].pc = "lock" /\ Office(cfg)!Free(r) /\ t \in cfg.flags \cup cfg.banners
        /\ t \in Office(cfg)!Things /\ t \notin cfg.users
    BY <1>1, <1>10, StaffKinds DEF Office!Lock, Office!Fits, Office!Things
  <2>2. CASE ~thing[t].there
    BY <1>4, <1>10, <2>2 DEF Office!Lock, Office!Locked
  <2>3. CASE thing[t].there
    <3>1. PICK d \in IF staffReq[r].op = "delete" THEN {[thing[t] EXCEPT !.there = FALSE]}
                     ELSE {[p EXCEPT !.at = time] : p \in Office(cfg)!Patched(t, thing[t])} :
             /\ staffReq' = [staffReq EXCEPT ![r] =
                   [[staffReq[r] EXCEPT !.seen = thing[t], !.draft = d] EXCEPT !.pc = "commit"]]
             /\ UNCHANGED <<Office(cfg)!people, acted, thing, trail, time, started>>
      BY <1>10, <2>3 DEF Office!Lock, Office!Locked
    <3>2. d \in Office(cfg)!RowsOf(t)
      <4>1. thing[t] \in Office(cfg)!RowsOf(t)
        BY <1>1, <2>1
      <4> HIDE DEF t
      <4>2. /\ [thing[t] EXCEPT !.there = FALSE] \in Office(cfg)!RowsOf(t)
            /\ \A p \in Office(cfg)!Patched(t, thing[t]) :
                 [p EXCEPT !.at = time] \in Office(cfg)!RowsOf(t)
        BY <1>1, <2>1, <4>1, StaffDrafts
      <4>3. CASE staffReq[r].op = "delete"
        BY <3>1, <4>2, <4>3
      <4>4. CASE staffReq[r].op # "delete"
        BY <3>1, <4>2, <4>4
      <4> QED BY <4>3, <4>4
    <3> QED BY <1>1, <1>9, <2>1, <3>1, <3>2
  <2> QED BY <2>2, <2>3
<1>11. CASE Office(cfg)!InsertThing(r)
  <2> DEFINE t == staffReq[r].thing
  <2>1. /\ staffReq[r].pc = "create" /\ Office(cfg)!Free(r) /\ t \in cfg.flags \cup cfg.banners
        /\ t \in Office(cfg)!Things /\ t \notin cfg.users
    BY <1>1, <1>11, StaffKinds DEF Office!InsertThing, Office!Fits, Office!Things
  <2>2. CASE thing[t].there
    BY <1>4, <1>11, <2>2 DEF Office!InsertThing
  <2>3. CASE ~thing[t].there
    <3>1. PICK n \in Office(cfg)!New(t) :
             /\ staffReq' = [staffReq EXCEPT ![r] = [[staffReq[r] EXCEPT !.seen = thing[t],
                           !.draft = [n EXCEPT !.at = time]] EXCEPT !.pc = "commit"]]
             /\ UNCHANGED <<Office(cfg)!people, acted, thing, trail, time, started>>
      BY <1>11, <2>3 DEF Office!InsertThing
    <3> DEFINE d == [n EXCEPT !.at = time]
    <3>2. d \in Office(cfg)!RowsOf(t)
      BY <1>1, <2>1, <3>1, StaffDrafts
    <3>3. staffReq' = [staffReq EXCEPT ![r] =
             [[staffReq[r] EXCEPT !.seen = thing[t], !.draft = d] EXCEPT !.pc = "commit"]]
      BY <3>1
    <3> HIDE DEF d
    <3> QED BY <1>1, <1>9, <2>1, <3>1, <3>2, <3>3
  <2> QED BY <2>2, <2>3
<1>12. CASE Office(cfg)!Decide(r)
  <2> DEFINE t == staffReq[r].thing
  <2>1. /\ staffReq[r].pc = "suspend" /\ Office(cfg)!Free(r) /\ t \in cfg.users
        /\ t \in Office(cfg)!Things /\ staffReq[r].seen \in Office(cfg)!UserRows
    BY <1>1, <1>12 DEF Office!Decide, Office!Fits, Office!Things
  <2>2. Office(cfg)!RowsOf(t) = Office(cfg)!UserRows
    BY <2>1, StaffKinds
  <2>3. PICK b \in BOOLEAN :
           /\ staffReq' = [staffReq EXCEPT ![r] = [[staffReq[r] EXCEPT
                 !.draft = [staffReq[r].seen EXCEPT !.suspended = b]] EXCEPT !.pc = "commit"]]
           /\ UNCHANGED <<Office(cfg)!people, acted, thing, trail, time, started>>
    BY <1>12 DEF Office!Decide
  <2> DEFINE d == [staffReq[r].seen EXCEPT !.suspended = b]
  <2>4. d \in Office(cfg)!UserRows
    BY <2>1 DEF Office!UserRows
  <2>5. staffReq' = [staffReq EXCEPT ![r] =
           [[staffReq[r] EXCEPT !.draft = d] EXCEPT !.pc = "commit"]]
    BY <2>3
  <2> HIDE DEF d
  <2> DEFINE s == staffReq[r].seen
             w == [[staffReq[r] EXCEPT !.seen = s, !.draft = d] EXCEPT !.pc = "commit"]
  <2>6. [[staffReq[r] EXCEPT !.draft = d] EXCEPT !.pc = "commit"] = w
    BY <1>1 DEF Office!Works
  <2>7. /\ staffReq' = [staffReq EXCEPT ![r] = w] /\ s \in Office(cfg)!RowsOf(t)
        /\ d \in Office(cfg)!RowsOf(t)
    BY <2>1, <2>2, <2>4, <2>5, <2>6
  <2> HIDE DEF w
  <2>8. w = [[staffReq[r] EXCEPT !.seen = s, !.draft = d] EXCEPT !.pc = "commit"]
    BY DEF w
  <2> HIDE DEF s
  <2> QED BY <1>9, <2>1, <2>3, <2>7, <2>8
<1>13. CASE Office(cfg)!Rollback(r)
    BY <1>4, <1>13 DEF Office!Rollback
<1>14. ASSUME NEW e \in cfg.staff, NEW t \in Office(cfg)!Things,
              \/ Office(cfg)!CreateFlag(r, e, t) \/ Office(cfg)!UpdateFlag(r, e, t)
              \/ Office(cfg)!DeleteFlag(r, e, t)
              \/ Office(cfg)!CreateBanner(r, e, t) \/ Office(cfg)!UpdateBanner(r, e, t)
              \/ Office(cfg)!DeleteBanner(r, e, t)
              \/ Office(cfg)!Suspend(r, e, t)
       PROVE  Office(cfg)!StaffInv'
    BY <1>8, <1>14, StaffKinds
       DEF Office!CreateFlag, Office!UpdateFlag, Office!DeleteFlag, Office!CreateBanner,
           Office!UpdateBanner, Office!DeleteBanner, Office!Suspend
<1> QED BY <1>6, <1>7, <1>10, <1>11, <1>12, <1>13, <1>14

\* What a request that ends leaves of the others.
LEMMA StaffEnds ==
    ASSUME NEW cfg, Office(cfg)!StaffAssumption, Office(cfg)!StaffInv, NEW r \in Pair,
           Office(cfg)!Stop(r)
    PROVE  /\ staffReq' \in [Pair -> Office(cfg)!Works] /\ staffReq'[r] = Office(cfg)!Idle
           /\ \A o \in Pair \ {r} : staffReq'[o] = staffReq[o] /\ Office(cfg)!Clear(r, o)
                /\ Office(cfg)!Fits(o)
           /\ Office(cfg)!Fits(r)
           /\ Office(cfg)!Fits(r)' /\ ~Office(cfg)!Creating(r)'
           /\ \A o \in Pair : \A p \in Pair \ {o} : Office(cfg)!Clear(o, p)'
<1>1. /\ staffReq' = [staffReq EXCEPT ![r] = Office(cfg)!Idle]
      /\ Office(cfg)!Idle \in Office(cfg)!Works /\ staffReq \in [Pair -> Office(cfg)!Works]
    BY StaffKinds DEF Office!Stop, Office!StaffInv, Office!Typed
<1>2. /\ staffReq' \in [Pair -> Office(cfg)!Works] /\ staffReq'[r] = Office(cfg)!Idle
      /\ \A o \in Pair \ {r} : staffReq'[o] = staffReq[o]
    BY <1>1
<1>3. Office(cfg)!Fits(r)' /\ ~Office(cfg)!Creating(r)'
    BY <1>2 DEF Office!Fits, Office!Creating, Office!Inserting, Office!Booting, Office!Idle
<1>4. ASSUME NEW o \in Pair, NEW p \in Pair \ {o} PROVE Office(cfg)!Clear(o, p)'
  <2>1. CASE o = r \/ p = r
    BY <1>2, <2>1 DEF Office!Clear, Office!Inserting, Office!Booting, Office!Holds, Office!Idle
  <2>2. CASE o # r /\ p # r
    BY <1>2, <2>2
       DEF Office!StaffInv, Office!Clear, Office!Inserting, Office!Booting, Office!Holds
  <2> QED BY <2>1, <2>2
<1> QED BY <1>2, <1>3, <1>4 DEF Office!StaffInv

\* The first administrator is there.
LEMMA StaffBootCommits ==
    ASSUME NEW cfg, Office(cfg)!StaffAssumption, Office(cfg)!StaffInv, NEW r \in Pair,
           Office(cfg)!CommitBoot(r)
    PROVE  Office(cfg)!StaffInv'
<1> DEFINE e == staffReq[r].email
<1>1. /\ Office(cfg)!Stop(r) /\ staffReq[r].pc = "commit" /\ staffReq[r].op = "start"
      /\ linked' = linked \cup {e}
      /\ started' = TRUE /\ UNCHANGED <<invite, ticket, opened, acted, thing, trail, time>>
      /\ IF staffReq[r].role = "none" THEN staff' = staff
         ELSE staff' = [staff EXCEPT ![e] = Office(cfg)!Founder]
    BY DEF Office!CommitBoot, Office!Created
<1>2. /\ staffReq' \in [Pair -> Office(cfg)!Works] /\ staffReq'[r] = Office(cfg)!Idle
      /\ e \in cfg.staff
      /\ \A o \in Pair \ {r} : staffReq'[o] = staffReq[o] /\ Office(cfg)!Clear(r, o)
           /\ Office(cfg)!Fits(o)
      /\ Office(cfg)!Fits(r)' /\ ~Office(cfg)!Creating(r)'
      /\ \A o \in Pair : \A p \in Pair \ {o} : Office(cfg)!Clear(o, p)'
    BY <1>1, StaffEnds DEF Office!Fits
<1>3. Office(cfg)!TrailTrue'
    BY <1>1 DEF Office!StaffInv, Office!TrailTrue
<1>4. CASE staffReq[r].role = "none"
  <2>1. staff' = staff /\ Office(cfg)!Founders' = Office(cfg)!Founders
    BY <1>1, <1>4 DEF Office!Founders
  <2>2. /\ Office(cfg)!Typed' /\ Office(cfg)!SecretsOwned' /\ Office(cfg)!TakenAreThere'
        /\ Office(cfg)!InvitedOnce' /\ Office(cfg)!ActorsReady'
    BY <1>1, <1>2, <2>1
       DEF Office!StaffInv, Office!Typed, Office!SecretsOwned, Office!TakenAreThere,
           Office!InvitedOnce, Office!ActorsReady
  <2>3. Office(cfg)!FoundersKept'
    BY <1>2, <2>1 DEF Office!StaffInv, Office!FoundersKept, Office!Creating, Office!Booting
  <2>4. \A o \in Pair : Office(cfg)!Fits(o)'
    BY <1>1, <1>2, <2>1 DEF Office!Fits, Office!Inserting
  <2> QED BY <1>2, <1>3, <2>2, <2>3, <2>4 DEF Office!StaffInv
<1>5. CASE staffReq[r].role # "none"
  <2>1. /\ Office(cfg)!Booting(r) /\ Office(cfg)!Founders = {} /\ Office(cfg)!Inserting(r)
        /\ ~staff[e].there
    BY <1>1, <1>5
       DEF Office!Booting, Office!Creating, Office!Inserting, Office!StaffInv,
           Office!FoundersKept, Office!Fits
  <2>2. /\ staff' \in [cfg.staff -> Office(cfg)!People] /\ staff'[e] = Office(cfg)!Founder
        /\ \A a \in cfg.staff \ {e} : staff'[a] = staff[a]
        /\ Office(cfg)!Founder.there /\ ~Office(cfg)!Founder.secret
        /\ Office(cfg)!Founder.via = "bootstrap"
        /\ Office(cfg)!Founder.role = "super_admin"
    BY <1>1, <1>2, <1>5, StaffKinds DEF Office!StaffInv, Office!Typed
  <2>3. Office(cfg)!Founders' = {e}
    BY <1>2, <2>1, <2>2 DEF Office!Founders
  <2>4. Office(cfg)!Typed'
    BY <1>1, <1>2, <2>2 DEF Office!StaffInv, Office!Typed
  <2>5. e \notin opened /\ e \notin acted
    BY <1>2, <2>1 DEF Office!StaffInv, Office!SecretsOwned, Office!ActorsReady
  <2>6. Office(cfg)!SecretsOwned' /\ Office(cfg)!ActorsReady' /\ Office(cfg)!TakenAreThere'
    BY <1>1, <1>2, <2>2, <2>5
       DEF Office!StaffInv, Office!Typed, Office!SecretsOwned, Office!ActorsReady,
           Office!TakenAreThere
  <2>7. Office(cfg)!InvitedOnce'
    BY <1>1, <1>2, <2>2 DEF Office!StaffInv, Office!InvitedOnce
  <2>8. Office(cfg)!FoundersKept'
    BY <1>2, <2>1, <2>2, <2>3
       DEF Office!FoundersKept, Office!Creating, Office!Booting, Office!Clear
  <2>9. \A o \in Pair : Office(cfg)!Fits(o)'
    BY <1>1, <1>2, <2>1, <2>2 DEF Office!Fits, Office!Inserting, Office!Clear
  <2> QED BY <1>2, <1>3, <2>4, <2>6, <2>7, <2>8, <2>9 DEF Office!StaffInv
<1> QED BY <1>4, <1>5

\* Who has accepted an invitation is there, and the invitation is taken.
LEMMA StaffAcceptCommits ==
    ASSUME NEW cfg, Office(cfg)!StaffAssumption, Office(cfg)!StaffInv, NEW r \in Pair,
           Office(cfg)!CommitAccept(r)
    PROVE  Office(cfg)!StaffInv'
<1> DEFINE e == staffReq[r].email
           i == staffReq[r].invite
           f == [Office(cfg)!NoStaff EXCEPT !.there = TRUE, !.via = "invite", !.enroll = TRUE,
                                !.role = staffReq[r].role, !.password = staffReq[r].password]
           v == [invite[i] EXCEPT !.state = "taken"]
<1>1. /\ Office(cfg)!Stop(r) /\ staffReq[r].pc = "commit" /\ staffReq[r].op = "accept"
      /\ staff' = [staff EXCEPT ![e] = f] /\ invite' = [invite EXCEPT ![i] = v]
      /\ ticket' = [ticket EXCEPT ![e] = "setup"]
      /\ UNCHANGED <<linked, opened, acted, thing, trail, time, started>>
    BY DEF Office!CommitAccept, Office!Created
<1>2. /\ staffReq' \in [Pair -> Office(cfg)!Works] /\ staffReq'[r] = Office(cfg)!Idle
      /\ Office(cfg)!Fits(r)
      /\ \A o \in Pair \ {r} : staffReq'[o] = staffReq[o] /\ Office(cfg)!Clear(r, o)
           /\ Office(cfg)!Fits(o)
      /\ Office(cfg)!Fits(r)' /\ ~Office(cfg)!Creating(r)'
      /\ \A o \in Pair : \A p \in Pair \ {o} : Office(cfg)!Clear(o, p)'
    BY <1>1, StaffEnds
<1>3. /\ e \in cfg.staff /\ i \in 1 .. cfg.invites /\ invite[i].state # "unused"
      /\ invite[i].email = e /\ invite[i].role = staffReq[r].role
    BY <1>1, <1>2 DEF Office!Fits
<1>4. /\ invite[i] \in Office(cfg)!Invitations /\ staffReq[r].password \in cfg.passwords
      /\ staffReq[r].role \in {"super_admin", "admin"}
    BY <1>3 DEF Office!StaffInv, Office!Typed, Office!Invitations, Office!Works
<1>5. Office(cfg)!Inserting(r) /\ ~staff[e].there
    BY <1>1, <1>2, <1>4 DEF Office!Fits, Office!Inserting
<1>6. /\ f \in Office(cfg)!People /\ f.there /\ f.via = "invite" /\ ~f.secret
      /\ f.role = staffReq[r].role
    BY <1>4, StaffKinds DEF Office!NoStaff, Office!People, Office!Everyone
<1>7. /\ v \in Office(cfg)!Invitations /\ v.state = "taken" /\ v.email = e
      /\ v.role = staffReq[r].role
    BY <1>3, <1>4 DEF Office!Invitations
<1> HIDE DEF f, v
<1>8. /\ staff' \in [cfg.staff -> Office(cfg)!People] /\ staff'[e] = f
      /\ \A a \in cfg.staff \ {e} : staff'[a] = staff[a]
      /\ invite' \in [1 .. cfg.invites -> Office(cfg)!Invitations] /\ invite'[i] = v
      /\ \A j \in 1 .. cfg.invites \ {i} : invite'[j] = invite[j]
      /\ ticket' \in [cfg.staff -> {"none", "setup", "challenge"}]
    BY <1>1, <1>3, <1>6, <1>7 DEF Office!StaffInv, Office!Typed
<1> HIDE DEF e, i
<1>9. Office(cfg)!Typed' /\ Office(cfg)!TrailTrue'
    BY <1>1, <1>2, <1>8 DEF Office!StaffInv, Office!Typed, Office!TrailTrue
<1>10. e \notin opened /\ e \notin acted
    BY <1>3, <1>5 DEF Office!StaffInv, Office!SecretsOwned, Office!ActorsReady
<1>11. Office(cfg)!SecretsOwned' /\ Office(cfg)!ActorsReady'
    BY <1>1, <1>3, <1>6, <1>8, <1>10
       DEF Office!StaffInv, Office!Typed, Office!SecretsOwned, Office!ActorsReady
<1>12. Office(cfg)!TakenAreThere'
    BY <1>3, <1>6, <1>7, <1>8 DEF Office!StaffInv, Office!TakenAreThere
<1>13. Office(cfg)!InvitedOnce'
  <2> SUFFICES ASSUME NEW a \in cfg.staff, staff'[a].there, staff'[a].via = "invite"
               PROVE  \E k \in 1 .. cfg.invites :
                         /\ invite'[k].state = "taken" /\ invite'[k].email = a
                         /\ invite'[k].role = staff'[a].role
                         /\ \A j \in 1 .. cfg.invites \ {k} :
                              invite'[j].state = "taken" => invite'[j].email # a
    BY DEF Office!InvitedOnce
  <2>1. CASE a = e
    BY <1>3, <1>5, <1>6, <1>7, <1>8, <2>1 DEF Office!StaffInv, Office!TakenAreThere
  <2>2. CASE a # e
    <3>1. PICK k \in 1 .. cfg.invites :
             /\ invite[k].state = "taken" /\ invite[k].email = a /\ invite[k].role = staff[a].role
             /\ \A j \in 1 .. cfg.invites \ {k} : invite[j].state = "taken" => invite[j].email # a
      BY <1>8, <2>2 DEF Office!StaffInv, Office!InvitedOnce
    <3> QED BY <1>3, <1>7, <1>8, <2>2, <3>1
  <2> QED BY <2>1, <2>2
<1>14. Office(cfg)!Founders' = Office(cfg)!Founders
    BY <1>3, <1>5, <1>6, <1>8 DEF Office!Founders
<1>15. Office(cfg)!FoundersKept'
  <2>1. \A a \in Office(cfg)!Founders' : staff'[a] = staff[a]
    BY <1>3, <1>5, <1>8, <1>14 DEF Office!Founders
  <2> QED
    BY <1>2, <1>14, <2>1 DEF Office!StaffInv, Office!FoundersKept, Office!Creating, Office!Booting
<1>16. ASSUME NEW o \in Pair PROVE Office(cfg)!Fits(o)'
  <2>1. CASE o = r
    BY <1>2, <2>1
  <2>2. CASE o # r
    <3>1. /\ staffReq'[o] = staffReq[o] /\ Office(cfg)!Fits(o) /\ thing' = thing
          /\ Office(cfg)!Clear(r, o)
      BY <1>1, <1>2, <2>2
    <3>2. \A k \in 1 .. cfg.invites : invite[k].state # "unused" =>
             /\ invite'[k].state # "unused"
             /\ invite'[k].email = invite[k].email /\ invite'[k].role = invite[k].role
      BY <1>3, <1>7, <1>8
    <3>3. Office(cfg)!Inserting(o) => staffReq[o].email # e
      BY <1>5, <3>1 DEF Office!Clear, e
    <3> QED BY <1>8, <3>1, <3>2, <3>3 DEF Office!Fits, Office!Inserting
  <2> QED BY <2>1, <2>2
<1> QED BY <1>2, <1>9, <1>11, <1>12, <1>13, <1>15, <1>16 DEF Office!StaffInv

\* A row is written, and its audit row with it.
LEMMA StaffCommits ==
    ASSUME NEW cfg, Office(cfg)!StaffAssumption, Office(cfg)!StaffInv, NEW r \in Pair,
           Office(cfg)!Commit(r)
    PROVE  Office(cfg)!StaffInv'
<1> DEFINE t == staffReq[r].thing
           d == staffReq[r].draft
           written == [f \in DOMAIN d |->
                         IF d[f] # staffReq[r].seen[f] THEN d[f] ELSE thing[t][f]]
           new == IF written.there \/ t \in cfg.users THEN written
                  ELSE IF t \in cfg.flags THEN Office(cfg)!NoFlag ELSE Office(cfg)!NoBanner
<1>1. /\ Office(cfg)!Stop(r) /\ staffReq[r].pc = "commit" /\ t # "none"
      /\ thing' = [thing EXCEPT ![t] = new]
      /\ trail' = [trail EXCEPT ![t] = Office(cfg)!Snapshot(staffReq[r].seen, d)]
      /\ UNCHANGED <<staff, linked, invite, ticket, opened, acted, time, started>>
    BY DEF Office!Commit, Office!people
<1>2. /\ staffReq' \in [Pair -> Office(cfg)!Works] /\ staffReq'[r] = Office(cfg)!Idle
      /\ Office(cfg)!Fits(r)
      /\ \A o \in Pair \ {r} : staffReq'[o] = staffReq[o] /\ Office(cfg)!Clear(r, o)
           /\ Office(cfg)!Fits(o)
      /\ Office(cfg)!Fits(r)' /\ ~Office(cfg)!Creating(r)'
      /\ \A o \in Pair : \A p \in Pair \ {o} : Office(cfg)!Clear(o, p)'
    BY <1>1, StaffEnds
<1>3. /\ t \in Office(cfg)!Things /\ thing[t] \in Office(cfg)!RowsOf(t)
      /\ staffReq[r].seen \in Office(cfg)!RowsOf(t) /\ d \in Office(cfg)!RowsOf(t)
      /\ t \notin cfg.users => staffReq[r].seen = thing[t]
    BY <1>1, <1>2 DEF Office!StaffInv, Office!Typed, Office!Works, Office!Fits
<1>4. /\ t \notin cfg.users => written = d
      /\ t \in cfg.users => written \in Office(cfg)!RowsOf(t)
    BY <1>3, StaffWritten
<1> HIDE DEF written
<1>5. t \notin cfg.users =>
         new = IF d.there THEN d
               ELSE IF t \in cfg.flags THEN Office(cfg)!NoFlag ELSE Office(cfg)!NoBanner
    BY <1>4
<1>6. t \in cfg.users => new = written
    OBVIOUS
<1> HIDE DEF new
<1>7. /\ new \in Office(cfg)!RowsOf(t)
      /\ t \in cfg.flags \cup cfg.banners =>
           \A f \in DOMAIN Office(cfg)!Snapshot(staffReq[r].seen, d) :
             Office(cfg)!Snapshot(staffReq[r].seen, d)[f] = new[f]
  <2>1. CASE t \in cfg.users
    BY <1>4, <1>6, <2>1, StaffKinds
  <2>2. CASE t \notin cfg.users
    <3>1. t \in cfg.flags \cup cfg.banners
      BY <1>3, <2>2 DEF Office!Things
    <3>3. \A f \in DOMAIN Office(cfg)!Snapshot(staffReq[r].seen, d) :
             Office(cfg)!Snapshot(staffReq[r].seen, d)[f] = new[f]
      BY <1>3, <1>5, <2>2, <3>1, StaffSnaps
    <3>2. new \in Office(cfg)!RowsOf(t)
      BY <1>3, <1>5, <2>2, StaffKinds
    <3> QED BY <3>2, <3>3
  <2> QED BY <2>1, <2>2
<1> HIDE DEF d
<1>8. Office(cfg)!Typed'
    BY <1>1, <1>2, <1>3, <1>7 DEF Office!StaffInv, Office!Typed
<1>9. Office(cfg)!TrailTrue'
    BY <1>1, <1>3, <1>7 DEF Office!StaffInv, Office!Typed, Office!TrailTrue, Office!Things
<1>10. Office(cfg)!Founders' = Office(cfg)!Founders
    BY <1>1 DEF Office!Founders
<1>11. Office(cfg)!FoundersKept'
    BY <1>1, <1>2, <1>10 DEF Office!StaffInv, Office!FoundersKept, Office!Creating, Office!Booting
<1>12. Office(cfg)!SecretsOwned' /\ Office(cfg)!ActorsReady' /\ Office(cfg)!TakenAreThere'
      /\ Office(cfg)!InvitedOnce'
    BY <1>1
       DEF Office!StaffInv, Office!SecretsOwned, Office!ActorsReady, Office!TakenAreThere,
           Office!InvitedOnce
<1>13. ASSUME NEW o \in Pair PROVE Office(cfg)!Fits(o)'
  <2>1. CASE o = r
    BY <1>2, <2>1
  <2>2. CASE o # r
    <3>1. staffReq'[o] = staffReq[o] /\ Office(cfg)!Fits(o) /\ staff' = staff /\ invite' = invite
      BY <1>1, <1>2, <2>2
    <3>2. staffReq[o].pc = "commit" => staffReq[o].thing # t
      BY <1>1, <1>2, <1>3, <2>2 DEF Office!Clear, Office!Holds
    <3>3. staffReq[o].pc = "commit" => thing'[staffReq[o].thing] = thing[staffReq[o].thing]
      BY <1>1, <3>2 DEF Office!StaffInv, Office!Typed
    <3> QED BY <3>1, <3>3 DEF Office!Fits, Office!Inserting
  <2> QED BY <2>1, <2>2
<1> QED BY <1>2, <1>8, <1>9, <1>11, <1>12, <1>13 DEF Office!StaffInv

\* Every step.
LEMMA StaffStep ==
    ASSUME NEW cfg, Office(cfg)!StaffAssumption, Office(cfg)!StaffInv,
           [Office(cfg)!Next]_(Office(cfg)!vars)
    PROVE  Office(cfg)!StaffInv'
<1>1. CASE UNCHANGED Office(cfg)!vars
    BY <1>1
       DEF Office!vars, Office!StaffInv, Office!Typed, Office!SecretsOwned, Office!FoundersKept,
           Office!Founders, Office!Creating, Office!Booting, Office!TakenAreThere,
           Office!InvitedOnce, Office!ActorsReady, Office!TrailTrue, Office!Fits,
           Office!Inserting, Office!Clear, Office!Holds
<1>2. ASSUME NEW r \in Pair,
             \/ Office(cfg)!Boot(r) \/ Office(cfg)!Bootstrap(r) \/ Office(cfg)!InsertFounder(r)
             \/ Office(cfg)!KeepLinked(r) \/ Office(cfg)!CommitBoot(r)
             \/ Office(cfg)!BootFails(r) \/ Office(cfg)!InsertInvited(r)
             \/ Office(cfg)!CommitAccept(r)
             \/ Office(cfg)!Lock(r) \/ Office(cfg)!InsertThing(r) \/ Office(cfg)!Decide(r)
             \/ Office(cfg)!Commit(r) \/ Office(cfg)!Rollback(r)
             \/ \E i \in 1 .. cfg.invites : Office(cfg)!Accept(r, i)
      PROVE  Office(cfg)!StaffInv'
    BY <1>2, StaffBoots, StaffBootCommits, StaffAcceptCommits, StaffCommits, StaffMoves
<1>3. ASSUME NEW r \in Pair, NEW e \in cfg.staff,
             \/ Office(cfg)!Enroll(r, e) \/ Office(cfg)!Verify(r, e) \/ Office(cfg)!Logout(r, e)
             \/ \E p \in cfg.passwords :
                  \/ Office(cfg)!Login(r, e, p)
                  \/ \E new \in cfg.passwords : Office(cfg)!ChangePassword(r, e, p, new)
      PROVE  Office(cfg)!StaffInv'
    BY <1>3, StaffEnters
<1>4. ASSUME NEW r \in Pair, NEW e \in cfg.staff, NEW to \in cfg.staff,
             NEW role \in {"super_admin", "admin"}, Office(cfg)!Invite(r, e, to, role)
      PROVE  Office(cfg)!StaffInv'
    BY <1>4, StaffInvites
<1>5. ASSUME NEW r \in Pair, NEW e \in cfg.staff, NEW t \in Office(cfg)!Things,
             \/ Office(cfg)!CreateFlag(r, e, t) \/ Office(cfg)!UpdateFlag(r, e, t)
             \/ Office(cfg)!DeleteFlag(r, e, t)
             \/ Office(cfg)!CreateBanner(r, e, t) \/ Office(cfg)!UpdateBanner(r, e, t)
             \/ Office(cfg)!DeleteBanner(r, e, t)
             \/ Office(cfg)!Suspend(r, e, t)
      PROVE  Office(cfg)!StaffInv'
    BY <1>5, StaffMoves
<1>6. ASSUME NEW e \in cfg.staff, Office(cfg)!TicketExpires(e) PROVE Office(cfg)!StaffInv'
    BY <1>6, StaffEnters
<1>7. ASSUME NEW i \in 1 .. cfg.invites, Office(cfg)!InviteExpires(i)
      PROVE  Office(cfg)!StaffInv'
    BY <1>7, StaffInvites
<1>8. CASE Office(cfg)!Next
    BY <1>2, <1>3, <1>4, <1>5, <1>6, <1>7, <1>8 DEF Office!Next
<1> QED BY <1>1, <1>8

\* What the runs check of the desk.
LEMMA StaffClaims ==
    ASSUME NEW cfg, Office(cfg)!StaffAssumption, Office(cfg)!StaffInv
    PROVE  /\ Office(cfg)!TypeOK /\ Office(cfg)!InvitedOnce /\ Office(cfg)!ActorsReady
           /\ Office(cfg)!TrailTrue
           /\ cfg.ready = {} => Office(cfg)!OneFounder
<1>1. \A t \in cfg.flags : thing[t] \in Office(cfg)!FlagRows
    BY StaffKinds DEF Office!StaffInv, Office!Typed, Office!Things
<1>2. \A t \in cfg.banners : thing[t] \in Office(cfg)!BannerRows
    BY StaffKinds DEF Office!StaffInv, Office!Typed, Office!Things, Office!StaffAssumption
<1>3. Office(cfg)!TypeOK
    BY <1>1, <1>2
       DEF Office!StaffInv, Office!Typed, Office!TypeOK, Office!People, Office!Invitations,
           Office!FlagRows, Office!BannerRows
<1>4. cfg.ready = {} =>
         \/ Office(cfg)!Founders = {}
         \/ \E e \in cfg.staff : Office(cfg)!Founders = {e}
    BY DEF Office!StaffInv, Office!FoundersKept, Office!Founders
<1> DEFINE there == Office(cfg)!Founders
<1> HIDE DEF there
<1>5. cfg.ready = {} => Cardinality(there) <= 1
  <2>1. there = {} => Cardinality(there) <= 1
    BY FS_EmptySet
  <2>2. ASSUME NEW e, there = {e} PROVE Cardinality(there) <= 1
    <3>1. Cardinality({e}) = 1
      BY FS_Singleton
    <3> QED BY <2>2, <3>1
  <2> QED BY <1>4, <2>1, <2>2 DEF there
<1>6. cfg.ready = {} => Office(cfg)!OneFounder
    BY <1>5, StaffSame DEF there, Office!OneFounder, Office!Founders
<1> QED BY <1>3, <1>6 DEF Office!StaffInv

\* A flag that is on for somebody stays on when its share grows.
LEMMA StaffGrows ==
    ASSUME NEW cfg, Office(cfg)!StaffAssumption, Office(cfg)!StaffInv, Office(cfg)!StaffInv'
    PROVE  Office(cfg)!RolloutGrows
<1>1. \A t \in cfg.flags : thing[t] \in Office(cfg)!FlagRows /\ thing'[t] \in Office(cfg)!FlagRows
    BY StaffKinds DEF Office!StaffInv, Office!Typed, Office!Things
<1>2. cfg.full \in Nat /\ \A m \in cfg.mails : cfg.bucket[m] \in Nat
    BY DEF Office!StaffAssumption
<1>3. ASSUME NEW t \in cfg.flags, thing'[t].percent >= thing[t].percent,
             thing'[t].enabled = thing[t].enabled, thing'[t].allow = thing[t].allow,
             thing'[t].block = thing[t].block, NEW m \in cfg.mails, Office(cfg)!On(thing[t], m)
      PROVE  Office(cfg)!On(thing'[t], m)
  <2>1. thing[t].percent \in Nat /\ thing'[t].percent \in Nat
    BY <1>1, <1>2 DEF Office!FlagRows
  <2> QED BY <1>2, <1>3, <2>1 DEF Office!On
<1> QED BY <1>3 DEF Office!RolloutGrows

-----------------------------------------------------------------------------
(***************************************************************************)
(* The scenes.                                                             *)
(***************************************************************************)
\* A step in a scene is a step of the scene's instance.
LEMMA TokenSteps ==
    ASSUME [Next]_vars
    PROVE  /\ scene' = scene
           /\ scene = "tokens" => [Tokens(Crowd)!Next]_(Tokens(Crowd)!vars)
           /\ scene = "tokens in turn" => [Tokens(Queue)!Next]_(Tokens(Queue)!vars)
BY DEF Next, vars, authVars, Tokens!vars, Tokens!db, Tokens!redis, Tokens!client, Tokens!request

LEMMA AdminSteps ==
    ASSUME [Next]_vars
    PROVE  /\ scene' = scene
           /\ scene = "admin logins" => [Admin(LoggingIn)!Next]_(Admin(LoggingIn)!vars)
           /\ scene = "admin calls" => [Admin(Calling)!Next]_(Admin(Calling)!vars)
BY DEF Next, vars, adminVars, Admin!vars, Admin!account, Admin!store, Admin!ghosts

LEMMA CloseSteps ==
    ASSUME [Next]_vars
    PROVE  /\ scene' = scene
           /\ scene = "closures" => [Closures(Leaving)!Next]_(Closures(Leaving)!vars)
BY DEF Next, vars, closeVars, Closures!vars, Closures!account, Closures!storage,
       Closures!request, Closures!tick

LEMMA SignSteps ==
    ASSUME [Next]_vars
    PROVE  /\ scene' = scene
           /\ scene = "sign-ups" => [Signs(SignIns)!Next]_(Signs(SignIns)!vars)
           /\ scene = "sign-ups in turn" =>
                 [Signs(SignInsInTurn)!Next]_(Signs(SignInsInTurn)!vars)
BY DEF Next, vars, signVars, Signs!vars

LEMMA StaffSteps ==
    ASSUME [Next]_vars
    PROVE  /\ scene' = scene
           /\ scene = "founding" => [Office(Founding)!Next]_(Office(Founding)!vars)
           /\ scene = "inviting" => [Office(Inviting)!Next]_(Office(Inviting)!vars)
           /\ scene = "inviting in turn" =>
                 [Office(InvitingInTurn)!Next]_(Office(InvitingInTurn)!vars)
           /\ scene = "desk" => [Office(Desk)!Next]_(Office(Desk)!vars)
BY DEF Next, vars, staffVars, Office!vars

LEMMA FactorSteps ==
    ASSUME [Next]_vars
    PROVE  scene' = scene /\ (scene = "factor" => [Factor!Next]_Factor!vars)
BY DEF Next, vars, factorVars, Factor!vars

LEMMA HandSteps ==
    ASSUME [Next]_vars
    PROVE  /\ scene' = scene
           /\ scene = "handoffs in turn" =>
                 [Handoffs(HandInTurn)!Next]_(Handoffs(HandInTurn)!vars)
           /\ scene = "handoffs" => [Handoffs(Redeeming)!Next]_(Handoffs(Redeeming)!vars)
           /\ scene = "handoffs cut off" => [Handoffs(CutOff)!Next]_(Handoffs(CutOff)!vars)
BY DEF Next, vars, handVars, Handoffs!vars

\* In the scenes of a login's tokens, the invariant of AuthSessions holds and, requests
\* coming one at a time, that of requests in turn.
LEMMA TokenScenes ==
    Spec => []/\ scene = "tokens" => Tokens(Crowd)!AuthInv
              /\ scene = "tokens in turn" => Tokens(Queue)!TurnInv
<1> DEFINE Inv == /\ scene = "tokens" => Tokens(Crowd)!AuthInv
                  /\ scene = "tokens in turn" => Tokens(Queue)!TurnInv
<1>1. Init => Inv
    BY AccountsAssumption, AuthStart, AuthTurnStart DEF Init
<1>2. Inv /\ [Next]_vars => Inv'
  <2> SUFFICES ASSUME Inv, [Next]_vars PROVE Inv'
    OBVIOUS
  <2>1. ~Queue.overlap
    BY DEF Queue
  <2> QED BY <2>1, AccountsAssumption, TokenSteps, AuthStep, AuthTurnStep
<1> QED BY <1>1, <1>2, PTL DEF Spec

\* In the scenes of administrators, the codes stay apart and the index names their sessions.
LEMMA AdminScenes ==
    Spec => []/\ scene = "admin logins" => Admin(LoggingIn)!AdminInv
              /\ scene = "admin calls" => Admin(Calling)!AdminInv
<1> DEFINE Inv == /\ scene = "admin logins" => Admin(LoggingIn)!AdminInv
                  /\ scene = "admin calls" => Admin(Calling)!AdminInv
<1>1. Init => Inv
    BY AccountsAssumption, AdminStart DEF Init
<1>2. Inv /\ [Next]_vars => Inv'
  <2> SUFFICES ASSUME Inv, [Next]_vars PROVE Inv'
    OBVIOUS
  <2> QED BY AccountsAssumption, AdminSteps, AdminStep
<1> QED BY <1>1, <1>2, PTL DEF Spec

\* In the scene of closures, no two ticks hold an account, and what they hold is due.
LEMMA CloseHolds == Spec => [](scene = "closures" => Closures(Leaving)!ClosureInv)
<1>1. Init /\ scene = "closures" => Closures(Leaving)!ClosureInv
    BY AccountsAssumption, CloseOpening DEF Init
<1>2. ASSUME scene = "closures" => Closures(Leaving)!ClosureInv, [Next]_vars
      PROVE  (scene = "closures" => Closures(Leaving)!ClosureInv)'
    BY <1>2, AccountsAssumption, CloseSteps, CloseStep
<1> QED BY <1>1, <1>2, PTL DEF Spec

\* In the scenes of sign-ups, who is being written is nobody else's name and, requests coming
\* one at a time, what each found out stays so until it ends.
LEMMA SignScenes ==
    Spec => []/\ scene = "sign-ups" => Signs(SignIns)!SignUpInv
              /\ scene = "sign-ups in turn" => Signs(SignInsInTurn)!SignTurnInv
<1> DEFINE Inv == /\ scene = "sign-ups" => Signs(SignIns)!SignUpInv
                  /\ scene = "sign-ups in turn" => Signs(SignInsInTurn)!SignTurnInv
<1>1. /\ ~SignInsInTurn.overlap /\ SignInsInTurn.perDevice < SignInsInTurn.shared
      /\ SignInsInTurn.cluster > 0
    BY DEF SignInsInTurn
<1>2. Signs(SignInsInTurn)!IsFiniteSet(Trio)
    BY AccountsAssumption, SignSame
<1>3. Init => Inv
    BY <1>1, AccountsAssumption, SignStart, SignTurnStart DEF Init
<1>4. Inv /\ [Next]_vars => Inv'
  <2> SUFFICES ASSUME Inv, [Next]_vars PROVE Inv'
    OBVIOUS
  <2> QED BY <1>1, <1>2, AccountsAssumption, SignSteps, SignStep, SignTurnStep
<1> QED BY <1>3, <1>4, PTL DEF Spec

\* In the scenes of the staff, one start or one acceptance creates an administrator, and what
\* is being written of a flag or an announcement is so of its row when its trail says it.
LEMMA StaffScenes ==
    Spec => []/\ scene = "founding" => Office(Founding)!StaffInv
              /\ scene = "inviting" => Office(Inviting)!StaffInv
              /\ scene = "inviting in turn" => Office(InvitingInTurn)!StaffInv
              /\ scene = "desk" => Office(Desk)!StaffInv
<1> DEFINE Inv == /\ scene = "founding" => Office(Founding)!StaffInv
                  /\ scene = "inviting" => Office(Inviting)!StaffInv
                  /\ scene = "inviting in turn" => Office(InvitingInTurn)!StaffInv
                  /\ scene = "desk" => Office(Desk)!StaffInv
<1>1. Init => Inv
    BY AccountsAssumption, StaffStart DEF Init
<1>2. Inv /\ [Next]_vars => Inv'
  <2> SUFFICES ASSUME Inv, [Next]_vars PROVE Inv'
    OBVIOUS
  <2> QED BY AccountsAssumption, StaffSteps, StaffStep
<1> QED BY <1>1, <1>2, PTL DEF Spec

\* In the scene of the second factor, what is about to be written rests on what is there.
LEMMA FactorHolds == Spec => [](scene = "factor" => Factor!FactorInv)
<1>1. Init /\ scene = "factor" => Factor!FactorInv
    BY AccountsAssumption, FactorStart DEF Init
<1>2. ASSUME scene = "factor" => Factor!FactorInv, [Next]_vars
      PROVE  (scene = "factor" => Factor!FactorInv)'
    BY <1>2, AccountsAssumption, FactorSame, FactorSteps, FactorStep
<1> QED BY <1>1, <1>2, PTL DEF Spec

\* In the scenes of a session, a payload that was handed out is gone and, requests coming one
\* at a time, the copy of each is the session.
LEMMA HandScenes ==
    Spec => []/\ scene = "handoffs in turn" =>
                     Handoffs(HandInTurn)!HandInv /\ Handoffs(HandInTurn)!TurnInv
              /\ scene = "handoffs" => Handoffs(Redeeming)!HandInv
              /\ scene = "handoffs cut off" => Handoffs(CutOff)!HandInv
<1> DEFINE Inv == /\ scene = "handoffs in turn" =>
                         Handoffs(HandInTurn)!HandInv /\ Handoffs(HandInTurn)!TurnInv
                  /\ scene = "handoffs" => Handoffs(Redeeming)!HandInv
                  /\ scene = "handoffs cut off" => Handoffs(CutOff)!HandInv
<1>1. Init => Inv
    BY AccountsAssumption, HandStart DEF Init
<1>2. Inv /\ [Next]_vars => Inv'
  <2> SUFFICES ASSUME Inv, [Next]_vars PROVE Inv'
    OBVIOUS
  <2>1. ~HandInTurn.overlap
    BY DEF HandInTurn
  <2> QED BY <2>1, AccountsAssumption, HandSteps, HandStep, HandTurnStep
<1> QED BY <1>1, <1>2, PTL DEF Spec

\* LoginsSound (auth/tokens.py, admin_auth/totp.py, admin_auth/tokens.py, routers/auth.py
\* 377-421, 1298-1484) for any sets of requests, administrators' logins, calls, session ids
\* and recovery codes; of the second factor for any finite set of requests.
THEOREM LoginsAgree == Spec => []LoginsSound
<1> DEFINE Held == /\ scene = "tokens" => Tokens(Crowd)!AuthInv
                   /\ scene = "tokens in turn" => Tokens(Queue)!TurnInv
           Kept == /\ scene = "admin logins" => Admin(LoggingIn)!AdminInv
                   /\ scene = "admin calls" => Admin(Calling)!AdminInv
           Proven == scene = "factor" => Factor!FactorInv
<1>1. Tokens(Crowd)!AuthInv =>
         Tokens(Crowd)!TypeOK /\ Tokens(Crowd)!OneChild /\ Tokens(Crowd)!DeadlockIsReset
    BY AuthCycleNeedsReset DEF Tokens!AuthInv
<1>2. Tokens(Queue)!TurnInv =>
         Tokens(Queue)!TypeOK /\ Tokens(Queue)!SoleLogin /\ Tokens(Queue)!LiveOpens
    BY DEF Tokens!TurnInv, Tokens!AuthInv, Tokens!Opens, Tokens!LiveOpens
<1>3. LoggingIn.calls = {}
    BY DEF LoggingIn
<1>4. Held /\ Kept /\ Proven => LoginsSound
    BY <1>1, <1>2, <1>3, AccountsAssumption, AdminClaims, FactorSame, FactorClaims DEF LoginsSound
<1> QED BY <1>4, TokenScenes, AdminScenes, FactorHolds, PTL

\* HandoffsSound (session_ownership.py 1-5, flint_handoff.py 92-180) for any sets of users,
\* requests and tokens, and any number of edits and attempts.
THEOREM HandoffsAgree == Spec => []HandoffsSound
<1> DEFINE Handed == /\ scene = "handoffs in turn" =>
                            Handoffs(HandInTurn)!HandInv /\ Handoffs(HandInTurn)!TurnInv
                     /\ scene = "handoffs" => Handoffs(Redeeming)!HandInv
                     /\ scene = "handoffs cut off" => Handoffs(CutOff)!HandInv
<1>1. \A cfg \in {HandInTurn, Redeeming, CutOff} : Handoffs(cfg)!HandInv =>
         /\ Handoffs(cfg)!TypeOK /\ Handoffs(cfg)!RedeemedOnce
         /\ ~cfg.faults => Handoffs(cfg)!CounterEnds
    BY DEF Handoffs!HandInv, Handoffs!Typed, Handoffs!Counted, Handoffs!RedeemedOnce
<1>2. Handoffs(HandInTurn)!TurnInv =>
         /\ Handoffs(HandInTurn)!OwnerKept /\ Handoffs(HandInTurn)!EditKept
         /\ Handoffs(HandInTurn)!TokenIsOwners
    BY DEF Handoffs!TurnInv, Handoffs!OwnerKept, Handoffs!TokenIsOwners
<1>3. ~Redeeming.faults
    BY DEF Redeeming
<1>4. Handed => HandoffsSound
    BY <1>1, <1>2, <1>3 DEF HandoffsSound
<1> QED BY <1>4, HandScenes, PTL

\* SignUpsSound (routers/auth.py 476-905, signup_rate_limit.py 57-86, signup_link_analysis.py
\* 30-60) for any requests, and in turn for any finite set of them.
THEOREM SignUpsAgree == Spec => []SignUpsSound
<1> DEFINE Signed == /\ scene = "sign-ups" => Signs(SignIns)!SignUpInv
                     /\ scene = "sign-ups in turn" => Signs(SignInsInTurn)!SignTurnInv
<1>1. Signed => SignUpsSound
    BY DEF SignUpsSound, Signs!SignTurnInv, Signs!SignUpInv
<1> QED BY <1>1, SignScenes, PTL

\* StaffSound (bootstrap.py 180-213, routers/admin.py 458-514 and 1382-1781) for any requests.
THEOREM StaffAgree == Spec => []StaffSound
<1> DEFINE Staffed == /\ scene = "founding" => Office(Founding)!StaffInv
                      /\ scene = "inviting" => Office(Inviting)!StaffInv
                      /\ scene = "inviting in turn" => Office(InvitingInTurn)!StaffInv
                      /\ scene = "desk" => Office(Desk)!StaffInv
<1>1. Staffed => StaffSound
  <2>1. Founding.ready = {}
    BY DEF Founding
  <2> QED BY <2>1, AccountsAssumption, StaffClaims DEF StaffSound
<1> QED BY <1>1, StaffScenes, PTL

\* ClosuresSound (export/closure.py 94-240, auth/maintenance.py 36-95, public_config.py 46-69):
\* what a tick, the clean-up and a change of a flag may never do, for any ticks and requests.
THEOREM ClosuresAgree == Spec => ClosuresSound
<1> DEFINE Held == /\ scene = "closures" => Closures(Leaving)!ClosureInv
                   /\ scene = "sign-ups in turn" => Signs(SignInsInTurn)!SignTurnInv
                   /\ scene = "desk" => Office(Desk)!StaffInv
           Sound == /\ scene = "closures" =>
                          /\ Closures(Leaving)!TypeOK' /\ (\A u \in Two : reminders'[u] <= 1)
                          /\ Closures(Leaving)!DueIfGone
                    /\ scene = "sign-ups in turn" => Signs(SignInsInTurn)!SuspendedUnverified
                    /\ scene = "desk" => Office(Desk)!RolloutGrows
<1>1. ASSUME Held, Held', [Next]_vars PROVE Sound
  <2>1. scene = "closures" =>
           /\ Closures(Leaving)!TypeOK' /\ (\A u \in Two : reminders'[u] <= 1)
           /\ Closures(Leaving)!DueIfGone
    BY <1>1, AccountsAssumption, CloseSteps, CloseStep DEF Closures!ClosureInv
  <2>2. scene = "sign-ups in turn" => Signs(SignInsInTurn)!SuspendedUnverified
    BY <1>1, AccountsAssumption, SignSteps, SignNoneSuspended
  <2>3. scene = "desk" => Office(Desk)!RolloutGrows
    BY <1>1, AccountsAssumption, StaffSteps, StaffGrows
  <2> QED BY <2>1, <2>2, <2>3
<1>2. Held /\ Held' /\ [Next]_vars => [Sound]_vars
    BY <1>1
<1> HIDE DEF Sound
<1>3. Spec => [][Sound]_vars
    BY <1>2, CloseHolds, SignScenes, StaffScenes, PTL DEF Spec
<1> QED BY <1>3 DEF Sound, ClosuresSound
=============================================================================
