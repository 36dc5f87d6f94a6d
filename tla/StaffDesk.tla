------------------------------ MODULE StaffDesk ------------------------------
(***************************************************************************)
(* The administrators and what they publish.  A first administrator comes  *)
(* from the environment when the service starts, the others accept an      *)
(* invitation; each proves a second factor, and the first one replaces its *)
(* password, before the gate of the routes lets it do anything.  Feature   *)
(* flags and announcements are read and written under a row lock, the      *)
(* suspension of a user without one, and each change writes an audit row   *)
(* in its own transaction.                                                 *)
(***************************************************************************)
EXTENDS Integers, FiniteSets, FiniteSetsExt

CONSTANTS
    Requests,   \* requests and starts of the service
    Staff,      \* email addresses
    FromEnv,    \* those that BOOTSTRAP_SUPER_ADMIN_EMAIL names, one start or another
    Ready,      \* super-admins that are already set up
    Passwords, Initial,  \* Initial: BOOTSTRAP_SUPER_ADMIN_PASSWORD
    Flags, Banners, Users,
    Mails, Anon, \* whom a flag is evaluated for, among them who is not signed in
    Bucket,     \* the bucket of an address, below Full
    Full,       \* rollout_percent that is everybody
    MaxInvites, MaxTime,
    Ops,        \* which of the requests are made
    Overlap,    \* whether requests run at the same time
    Faults      \* whether a transaction may be rolled back after its work is done

StaffAssumption ==
    /\ Anon \in Mails
    /\ FromEnv \subseteq Staff /\ Ready \subseteq Staff /\ Initial \in Passwords
    /\ Full \in Nat \ {0} /\ Bucket \in [Mails -> 0 .. Full - 1]
    /\ MaxInvites \in Nat /\ MaxTime \in Nat \ {0}
    /\ Overlap \in BOOLEAN /\ Faults \in BOOLEAN
    /\ Flags \cap Banners = {} /\ Users \cap (Flags \cup Banners) = {}
    /\ "none" \notin Flags \cup Banners \cup Users

Things == Flags \cup Banners \cup Users
Times == 0 .. MaxTime

VARIABLES
    staff,      \* admin_users
    linked,     \* addresses with a row in users
    invite,     \* admin_invites
    ticket,     \* the token a right password was answered with
    open,       \* administrators with a session
    acted,      \* administrators the gate has let through
    row,        \* feature_flags, announcements, and the suspension of users
    trail,      \* what the last audit row says of each of them
    now, req, started

vars == <<staff, linked, invite, ticket, open, acted, row, trail, now, req, started>>
people == <<staff, linked, invite, ticket, open>>

NoStaff == [there |-> FALSE, role |-> "super_admin", via |-> "bootstrap", password |-> Initial,
           rotate |-> FALSE, enroll |-> FALSE, secret |-> FALSE, codes |-> 0]
Founder == [NoStaff EXCEPT !.there = TRUE, !.rotate = TRUE, !.enroll = TRUE]
Old == [Founder EXCEPT !.rotate = FALSE, !.enroll = FALSE, !.secret = TRUE, !.codes = 1]

NoFlag == [there |-> FALSE, enabled |-> FALSE, percent |-> 0, public |-> TRUE,
           allow |-> {}, block |-> {}, at |-> 0]
NoBanner == [there |-> FALSE, starts |-> 0, ends |-> 0, audience |-> "all", at |-> 0]
NotHeld == [there |-> TRUE, suspended |-> FALSE]

\* What the audit row of a change keeps, the after of its route: a flag's creation says
\* less than its update, an announcement's says more.
Kept(was, d) ==
    IF "suspended" \in DOMAIN d THEN {"suspended"}
    ELSE IF ~d.there THEN {"there"}
    ELSE IF "percent" \in DOMAIN d
      THEN {"there", "enabled"} \cup (IF was.there THEN {"percent", "public"} ELSE {})
      ELSE {"there", "audience"} \cup (IF was.there THEN {} ELSE {"starts", "ends"})
Snapshot(was, d) == [f \in Kept(was, d) |-> d[f]]

Idle == [pc |-> "idle", op |-> "none", email |-> "none", role |-> "super_admin",
         password |-> Initial, invite |-> 0, thing |-> "none", seen |-> NotHeld, draft |-> NotHeld]

Init ==
    /\ staff = [e \in Staff |-> IF e \in Ready THEN Old ELSE NoStaff]
    /\ linked = Ready
    /\ invite = [i \in 1 .. MaxInvites |-> [state |-> "unused", email |-> "none", role |-> "admin"]]
    /\ ticket = [e \in Staff |-> "none"]
    /\ open = Ready /\ acted = {}
    /\ row = [t \in Things |-> IF t \in Flags THEN NoFlag
                               ELSE IF t \in Banners THEN NoBanner ELSE NotHeld]
    /\ trail = [t \in Things |-> Snapshot(row[t], row[t])]
    /\ now = 0
    /\ req = [r \in Requests |-> Idle]
    /\ started = FALSE

Others(r) == Requests \ {r}
Set(r, f, pc) == req' = [req EXCEPT ![r] = [f EXCEPT !.pc = pc]]
Stop(r) == req' = [req EXCEPT ![r] = Idle]
Starts(r, op) ==
    /\ op \in Ops /\ req[r].pc = "idle"
    /\ Overlap \/ \A o \in Others(r) : req[o].pc = "idle"

-----------------------------------------------------------------------------
(***************************************************************************)
(* The first administrator                                                 *)
(***************************************************************************)
\* bootstrap_super_admin waits for the advisory lock other starts hold to their commit.
Boot(r) ==
    /\ Starts(r, "start")
    /\ \E e \in FromEnv : Set(r, [Idle EXCEPT !.op = "start", !.email = e], "boot")
    /\ UNCHANGED <<people, acted, row, trail, now, started>>

Booting(r) == req[r].op = "start" /\ req[r].pc \in {"admin", "linked", "commit"}
NoOtherBoots(r) == \A o \in Others(r) : ~Booting(o)

SuperAdmins == {e \in Staff : staff[e].there /\ staff[e].role = "super_admin"}

\* The count is taken under the lock; _ensure_linked_app_user follows in any case.
Bootstrap(r) ==
    /\ req[r].pc = "boot" /\ NoOtherBoots(r)
    /\ Set(r, req[r], IF SuperAdmins = {} THEN "admin" ELSE "linked")
    /\ UNCHANGED <<people, acted, row, trail, now, started>>

\* Inserted but not committed: a unique index makes others of the address wait.
Inserting(o) ==
    req[o].pc = "commit" /\ req[o].op \in {"start", "accept"} /\ req[o].role # "none"
Waits(r) == \E o \in Others(r) : Inserting(o) /\ req[o].email = req[r].email

\* INSERT INTO admin_users, which fails when the address is taken.
InsertFounder(r) ==
    /\ req[r].pc = "admin" /\ ~Waits(r)
    /\ IF staff[req[r].email].there THEN Stop(r)
       ELSE Set(r, req[r], "commit")
    /\ UNCHANGED <<people, acted, row, trail, now, started>>

\* No administrator is created (role none), the account of the application is kept up.
KeepLinked(r) ==
    /\ req[r].pc = "linked"
    /\ Set(r, [req[r] EXCEPT !.role = "none"], "commit")
    /\ UNCHANGED <<people, acted, row, trail, now, started>>

Created(e, f) == staff' = [staff EXCEPT ![e] = f]

CommitBoot(r) ==
    /\ req[r].pc = "commit" /\ req[r].op = "start"
    /\ IF req[r].role = "none" THEN UNCHANGED staff ELSE Created(req[r].email, Founder)
    /\ linked' = linked \cup {req[r].email}
    /\ started' = TRUE
    /\ Stop(r)
    /\ UNCHANGED <<invite, ticket, open, acted, row, trail, now>>

\* lifespan goes on with a warning when the transaction of the seeds and the bootstrap
\* fails: at a user who signs up with the address meanwhile, or at any of the seeds.
BootFails(r) ==
    /\ req[r].op = "start" /\ req[r].pc # "idle" /\ Faults
    /\ started' = TRUE
    /\ Stop(r)
    /\ UNCHANGED <<people, acted, row, trail, now>>

-----------------------------------------------------------------------------
(***************************************************************************)
(* The gate                                                                *)
(***************************************************************************)
Everyone == {"super_admin", "admin", "support_agent", "read_only_analyst"}
Super == {"super_admin"}

\* The roles of the routes' require_admin_role; a route without is denied.
Allowed == [logout |-> Everyone, invite |-> Super, flag |-> Super, banner |-> Super,
            user |-> Super]

\* get_current_admin: a session, the second factor, then the password of one's own.
Present(e) == e \in open /\ ~staff[e].enroll
Admitted(e) == Present(e) /\ ~staff[e].rotate

Gate(e, op) == op \in DOMAIN Allowed /\ Admitted(e) /\ staff[e].role \in Allowed[op]

-----------------------------------------------------------------------------
(***************************************************************************)
(* /api/admin/auth                                                         *)
(***************************************************************************)
Login(r, e, p) ==
    /\ Starts(r, "login") /\ staff[e].there /\ staff[e].password = p
    /\ ticket' = [ticket EXCEPT ![e] =
                    IF staff[e].enroll \/ ~staff[e].secret \/ staff[e].codes = 0
                    THEN "setup" ELSE "challenge"]
    /\ UNCHANGED <<staff, linked, invite, open, acted, row, trail, now, req, started>>

\* admin_enroll_totp: the secret is created once.
Enroll(r, e) ==
    /\ Starts(r, "login") /\ ticket[e] = "setup" /\ staff[e].there
    /\ Created(e, IF staff[e].secret THEN staff[e]
                  ELSE [staff[e] EXCEPT !.secret = TRUE, !.codes = 0])
    /\ UNCHANGED <<linked, invite, ticket, open, acted, row, trail, now, req, started>>

\* A code of the authenticator, or a recovery code; the first verification completes.
Verify(r, e) ==
    /\ Starts(r, "login") /\ ticket[e] # "none" /\ staff[e].secret
    /\ \/ Created(e, IF staff[e].codes > 0 THEN staff[e]
                     ELSE [staff[e] EXCEPT !.codes = 1, !.enroll = FALSE])
       \/ staff[e].codes > 0 /\ Created(e, [staff[e] EXCEPT !.codes = @ - 1])
    /\ open' = open \cup {e}
    /\ UNCHANGED <<linked, invite, ticket, acted, row, trail, now, req, started>>

\* The tokens are short-lived.
TicketExpires(e) ==
    /\ ticket[e] # "none" /\ ticket' = [ticket EXCEPT ![e] = "none"]
    /\ UNCHANGED <<staff, linked, invite, open, acted, row, trail, now, req, started>>

Logout(r, e) ==
    /\ Starts(r, "login") /\ Gate(e, "logout")
    /\ open' = open \ {e}
    /\ acted' = acted \cup {e}
    /\ UNCHANGED <<staff, linked, invite, ticket, row, trail, now, req, started>>

\* The one route that is open to who must change the password; any strong one will do.
ChangePassword(r, e, p, new) ==
    /\ Starts(r, "login") /\ Present(e) /\ staff[e].password = p
    /\ Created(e, [staff[e] EXCEPT !.password = new, !.rotate = FALSE])
    /\ UNCHANGED <<linked, invite, ticket, open, acted, row, trail, now, req, started>>

Invite(r, e, to, role) ==
    /\ Starts(r, "invite") /\ Gate(e, "invite")
    /\ \E i \in 1 .. MaxInvites :
         /\ invite[i].state = "unused" /\ \A j \in 1 .. i - 1 : invite[j].state # "unused"
         /\ invite' = [invite EXCEPT ![i] = [state |-> "open", email |-> to, role |-> role]]
    /\ acted' = acted \cup {e}
    /\ UNCHANGED <<staff, linked, ticket, open, row, trail, now, req, started>>

InviteExpires(i) ==
    /\ invite[i].state = "open" /\ invite' = [invite EXCEPT ![i].state = "expired"]
    /\ UNCHANGED <<staff, linked, ticket, open, acted, row, trail, now, req, started>>

\* find_active_invite_by_token and the check for the address read without a lock.
Accept(r, i) ==
    /\ Starts(r, "invite") /\ invite[i].state = "open" /\ ~staff[invite[i].email].there
    /\ \E p \in Passwords :
         Set(r, [Idle EXCEPT !.op = "accept", !.invite = i, !.email = invite[i].email,
                             !.role = invite[i].role, !.password = p], "insert")
    /\ UNCHANGED <<people, acted, row, trail, now, started>>

Taken(r) == staff[req[r].email].there

InsertInvited(r) ==
    /\ req[r].pc = "insert" /\ ~Waits(r)
    /\ IF Taken(r) THEN Stop(r) ELSE Set(r, req[r], "commit")
    /\ UNCHANGED <<people, acted, row, trail, now, started>>

CommitAccept(r) ==
    /\ req[r].pc = "commit" /\ req[r].op = "accept"
    /\ Created(req[r].email, [NoStaff EXCEPT !.there = TRUE, !.via = "invite", !.enroll = TRUE,
                                            !.role = req[r].role, !.password = req[r].password])
    /\ invite' = [invite EXCEPT ![req[r].invite].state = "taken"]
    /\ ticket' = [ticket EXCEPT ![req[r].email] = "setup"]
    /\ Stop(r)
    /\ UNCHANGED <<linked, open, acted, row, trail, now, started>>

-----------------------------------------------------------------------------
(***************************************************************************)
(* Flags, announcements, and the suspension of users                       *)
(***************************************************************************)
Audiences == {"all", "subscribed", "admin"}

\* What a creation asks for, and what a PATCH of one field makes of a row.
NewFlags == {[NoFlag EXCEPT !.there = TRUE, !.enabled = TRUE, !.percent = p] : p \in {0, Full}}

NewBanner(n, a) ==
    [NoBanner EXCEPT !.there = TRUE, !.starts = n, !.ends = MaxTime, !.audience = a]
NewBanners == {NewBanner(n, a) : n \in Times, a \in Audiences}

PatchedFlag(f) ==
    {[f EXCEPT !.enabled = b] : b \in BOOLEAN} \cup {[f EXCEPT !.public = b] : b \in BOOLEAN}
    \cup {[f EXCEPT !.percent = p] : p \in 0 .. Full}
    \cup {[f EXCEPT !.allow = s] : s \in {{}, Mails \ {Anon}}}
    \cup {[f EXCEPT !.block = {m}] : m \in Mails \ {Anon}}

\* ends_before_starts is refused.
PatchedBanner(b) ==
    {p \in {[b EXCEPT !.starts = n] : n \in Times} \cup {[b EXCEPT !.ends = n] : n \in Times}
            \cup {[b EXCEPT !.audience = a] : a \in Audiences} : p.starts <= p.ends}

Patched(t, was) == IF t \in Flags THEN PatchedFlag(was) ELSE PatchedBanner(was)
New(t) == IF t \in Flags THEN NewFlags ELSE NewBanners

OpOf(t) == IF t \in Flags THEN "flag" ELSE IF t \in Banners THEN "banner" ELSE "user"

\* The row is looked for when the request comes in.
Ask(r, e, t, op) ==
    /\ Starts(r, OpOf(t)) /\ Gate(e, OpOf(t)) /\ now < MaxTime
    /\ row[t].there = (op # "create")
    /\ now' = now + 1
    /\ acted' = acted \cup {e}
    /\ Set(r, [Idle EXCEPT !.op = op, !.thing = t, !.seen = row[t]],
           IF op = "create" THEN "create" ELSE IF op = "suspend" THEN "suspend" ELSE "lock")
    /\ UNCHANGED <<people, row, trail, started>>

CreateFlag(r, e, t) == t \in Flags /\ Ask(r, e, t, "create")
UpdateFlag(r, e, t) == t \in Flags /\ Ask(r, e, t, "update")
DeleteFlag(r, e, t) == t \in Flags /\ Ask(r, e, t, "delete")
CreateBanner(r, e, t) == t \in Banners /\ Ask(r, e, t, "create")
UpdateBanner(r, e, t) == t \in Banners /\ Ask(r, e, t, "update")
DeleteBanner(r, e, t) == t \in Banners /\ Ask(r, e, t, "delete")
Suspend(r, e, t) == t \in Users /\ Ask(r, e, t, "suspend")

Holds(o, t) == req[o].pc = "commit" /\ req[o].thing = t
Free(r) == \A o \in Others(r) : ~Holds(o, req[r].thing)

\* with_for_update returns the row as the last holder of the lock left it, or none.
UnlockedLocked(r) == req[r].seen
Locked(r) == row[req[r].thing]

Lock(r) ==
    LET t == req[r].thing IN
    /\ req[r].pc = "lock" /\ Free(r)
    /\ IF ~Locked(r).there THEN Stop(r)
       ELSE \E d \in IF req[r].op = "delete" THEN {[Locked(r) EXCEPT !.there = FALSE]}
                     ELSE {[p EXCEPT !.at = now] : p \in Patched(t, Locked(r))} :
              Set(r, [req[r] EXCEPT !.seen = Locked(r), !.draft = d], "commit")
    /\ UNCHANGED <<people, acted, row, trail, now, started>>

\* The unique key waits for a row another transaction inserts, and refuses a second.
InsertThing(r) ==
    LET t == req[r].thing IN
    /\ req[r].pc = "create" /\ Free(r)
    /\ IF row[t].there THEN Stop(r)
       ELSE \E d \in New(t) :
              Set(r, [req[r] EXCEPT !.seen = row[t], !.draft = [d EXCEPT !.at = now]], "commit")
    /\ UNCHANGED <<people, acted, row, trail, now, started>>

\* admin_users_suspend decides on the user it has read.
Decide(r) ==
    /\ req[r].pc = "suspend" /\ Free(r)
    /\ \E b \in BOOLEAN :
         Set(r, [req[r] EXCEPT !.draft = [req[r].seen EXCEPT !.suspended = b]], "commit")
    /\ UNCHANGED <<people, acted, row, trail, now, started>>

\* The columns that differ from what was read, and the audit row, in one commit.
Commit(r) ==
    LET t == req[r].thing
        d == req[r].draft
        written == [f \in DOMAIN d |-> IF d[f] # req[r].seen[f] THEN d[f] ELSE row[t][f]]
    IN
    /\ req[r].pc = "commit" /\ t # "none"
    /\ row' = [row EXCEPT ![t] = IF written.there \/ t \in Users THEN written
                                 ELSE IF t \in Flags THEN NoFlag ELSE NoBanner]
    /\ trail' = [trail EXCEPT ![t] = Snapshot(req[r].seen, d)]
    /\ Stop(r)
    /\ UNCHANGED <<people, acted, now, started>>

\* The audit row or the commit fails, and the change with it.
Rollback(r) ==
    /\ req[r].pc # "idle" /\ req[r].op # "start" /\ Faults
    /\ Stop(r)
    /\ UNCHANGED <<people, acted, row, trail, now, started>>

Next ==
    \/ \E r \in Requests :
         \/ Boot(r) \/ Bootstrap(r) \/ InsertFounder(r) \/ KeepLinked(r) \/ CommitBoot(r)
         \/ BootFails(r) \/ InsertInvited(r) \/ CommitAccept(r)
         \/ Lock(r) \/ InsertThing(r) \/ Decide(r) \/ Commit(r) \/ Rollback(r)
         \/ \E i \in 1 .. MaxInvites : Accept(r, i)
         \/ \E e \in Staff :
              \/ Enroll(r, e) \/ Verify(r, e) \/ Logout(r, e)
              \/ \E p \in Passwords :
                   Login(r, e, p) \/ \E new \in Passwords : ChangePassword(r, e, p, new)
              \/ \E to \in Staff, role \in {"super_admin", "admin"} : Invite(r, e, to, role)
              \/ \E t \in Things :
                   \/ CreateFlag(r, e, t) \/ UpdateFlag(r, e, t) \/ DeleteFlag(r, e, t)
                   \/ CreateBanner(r, e, t) \/ UpdateBanner(r, e, t) \/ DeleteBanner(r, e, t)
                   \/ Suspend(r, e, t)
    \/ \E e \in Staff : TicketExpires(e)
    \/ \E i \in 1 .. MaxInvites : InviteExpires(i)

-----------------------------------------------------------------------------
(***************************************************************************)
(* What everybody reads                                                    *)
(***************************************************************************)
\* _evaluate_flag: the block list, the allow list, the switch, the share of the buckets.
On(f, m) ==
    /\ m \notin f.block
    /\ \/ m \in f.allow
       \/ f.enabled /\ (f.percent >= Full \/ (f.percent > 0 /\ Bucket[m] < f.percent))

\* public_feature_flags: the evaluated flags, and a version for whoever keeps them.
PublicFlags == {t \in Flags : row[t].there /\ row[t].public}
Answer(m) == [t \in PublicFlags |-> On(row[t], m)]
VersionOf(set) == Max({0} \cup {row[t].at : t \in set})

\* public_announcements for who has a subscription, or has not.
Shown(subscribed) ==
    {t \in Banners : /\ row[t].there /\ row[t].starts <= now /\ now <= row[t].ends
                     /\ row[t].audience # "admin"
                     /\ row[t].audience = "subscribed" => subscribed}

-----------------------------------------------------------------------------
TypeOK ==
    /\ \A e \in Staff : staff[e].codes \in 0 .. 1 /\ staff[e].password \in Passwords
    /\ linked \subseteq Staff /\ open \subseteq Staff /\ acted \subseteq Staff
    /\ \A e \in Staff : ticket[e] \in {"none", "setup", "challenge"}
    /\ \A i \in 1 .. MaxInvites : invite[i].state \in {"unused", "open", "taken", "expired"}
    /\ \A t \in Flags : row[t].percent \in 0 .. Full
    /\ \A t \in Banners : row[t].there => row[t].starts <= row[t].ends
    /\ now \in Times /\ started \in BOOLEAN

\* However starts of the service overlap, and whatever address their environments name,
\* one of them creates an administrator (bootstrap.py 180-213).
OneFounder == Cardinality({e \in Staff : staff[e].there /\ staff[e].via = "bootstrap"}) <= 1

\* However invitations of one address overlap in being accepted, an administrator has
\* taken one of them, and has its role (admin.py 458-514, invites.py 92-105).
InvitedOnce ==
    \A e \in Staff : staff[e].there /\ staff[e].via = "invite" =>
        \E i \in 1 .. MaxInvites :
            /\ invite[i].state = "taken" /\ invite[i].email = e
            /\ invite[i].role = staff[e].role
            /\ \A j \in 1 .. MaxInvites \ {i} : invite[j].state = "taken" => invite[j].email # e

\* Whoever the gate has ever let through has a confirmed second factor, and no password
\* that waits for its replacement (dependencies/admin_auth.py 162-186).
ActorsReady == \A e \in acted : staff[e].secret /\ ~staff[e].enroll /\ ~staff[e].rotate

\* What the last audit row of a flag or an announcement says of it is so, however requests
\* overlap or fail (audit.py 3-7).  It does not say everything: a flag's creation is silent
\* about its share and visibility, an announcement's update about its times.
TrailTrue == \A t \in Flags \cup Banners : \A f \in DOMAIN trail[t] : trail[t][f] = row[t][f]

\* A larger share of the buckets switches a flag off for nobody (public_config.py 45-69).
RolloutGrows ==
    \A t \in Flags :
        /\ row[t].there /\ row'[t].there /\ row'[t].percent >= row[t].percent
        /\ row'[t].enabled = row[t].enabled
        /\ row'[t].allow = row[t].allow /\ row'[t].block = row[t].block
        => \A m \in Mails : On(row[t], m) => On(row'[t], m)

(***************************************************************************)
(* What they rest on                                                       *)
(***************************************************************************)
People == [there : BOOLEAN, role : Everyone, via : {"bootstrap", "invite"},
           password : Passwords, rotate : BOOLEAN, enroll : BOOLEAN, secret : BOOLEAN,
           codes : 0 .. 1]
Invitations ==
    {v \in [state : {"unused", "open", "taken", "expired"}, email : Staff \cup {"none"},
            role : {"super_admin", "admin"}] : v.state # "unused" => v.email \in Staff}

FlagRows == [there : BOOLEAN, enabled : BOOLEAN, percent : 0 .. Full, public : BOOLEAN,
             allow : SUBSET Mails, block : SUBSET Mails, at : Times]
BannerRows ==
    {b \in [there : BOOLEAN, starts : Times, ends : Times, audience : Audiences, at : Times] :
        b.there => b.starts <= b.ends}
UserRows == [there : {TRUE}, suspended : BOOLEAN]
RowsOf(t) == IF t \in Flags THEN FlagRows ELSE IF t \in Banners THEN BannerRows ELSE UserRows

Works ==
    [pc : {"idle", "boot", "admin", "linked", "insert", "lock", "create", "suspend", "commit"},
     op : {"none", "start", "accept", "create", "update", "delete", "suspend"},
     email : Staff \cup {"none"}, role : Everyone \cup {"none"}, password : Passwords,
     invite : 0 .. MaxInvites, thing : Things \cup {"none"},
     seen : FlagRows \cup BannerRows \cup UserRows,
     draft : FlagRows \cup BannerRows \cup UserRows]

Typed ==
    /\ staff \in [Staff -> People] /\ invite \in [1 .. MaxInvites -> Invitations]
    /\ ticket \in [Staff -> {"none", "setup", "challenge"}]
    /\ linked \subseteq Staff /\ open \subseteq Staff /\ acted \subseteq Staff
    /\ DOMAIN row = Things /\ \A t \in Things : row[t] \in RowsOf(t)
    /\ DOMAIN trail = Things
    /\ req \in [Requests -> Works] /\ now \in Times /\ started \in BOOLEAN

\* Who has a secret is there, and a session was opened with it.
SecretsOwned ==
    /\ \A e \in Staff : staff[e].secret => staff[e].there
    /\ \A e \in open : staff[e].secret

\* One administrator at most comes from the environment, unless they were set up before.
Founders == {e \in Staff : staff[e].there /\ staff[e].via = "bootstrap"}
Creating(r) ==
    Booting(r) /\ req[r].pc # "linked" /\ (req[r].pc = "commit" => req[r].role # "none")
FoundersKept ==
    /\ \A e \in Founders : staff[e].role = "super_admin"
    /\ \A e \in Founders \ Ready : Founders = {e}
    /\ \A r \in Requests : Creating(r) => Founders = {}

TakenAreThere ==
    \A i \in 1 .. MaxInvites : invite[i].state = "taken" =>
        invite[i].email \in Staff /\ staff[invite[i].email].there

\* What a request has read is so until it commits: the address is free, the invitation is
\* the one it was, the row is as it was locked.
Fits(r) ==
    LET w == req[r] IN
    /\ w.op \in {"start", "accept"} => w.email \in Staff /\ w.thing = "none"
    /\ w.pc \in {"boot", "admin", "linked"} => w.op = "start"
    /\ w.pc = "insert" => w.op = "accept"
    /\ w.op = "accept" =>
         /\ w.invite \in 1 .. MaxInvites /\ invite[w.invite].state # "unused"
         /\ invite[w.invite].email = w.email /\ invite[w.invite].role = w.role
    /\ Inserting(r) => ~staff[w.email].there
    /\ w.pc \in {"lock", "create"} => w.thing \in Flags \cup Banners
    /\ w.pc = "suspend" => w.thing \in Users /\ w.seen \in UserRows
    /\ w.pc = "commit" /\ w.thing # "none" =>
         /\ w.seen \in RowsOf(w.thing) /\ w.draft \in RowsOf(w.thing)
         /\ w.thing \notin Users => w.seen = row[w.thing]

\* No two insert one address, hold the advisory lock, or a row.
Clear(r, o) ==
    /\ Inserting(r) /\ Inserting(o) => req[r].email # req[o].email
    /\ ~(Booting(r) /\ Booting(o))
    /\ \A t \in Things : ~(Holds(r, t) /\ Holds(o, t))

StaffInv ==
    /\ Typed /\ SecretsOwned /\ FoundersKept /\ TakenAreThere
    /\ InvitedOnce /\ ActorsReady /\ TrailTrue
    /\ \A r \in Requests : Fits(r) /\ \A o \in Requests \ {r} : Clear(r, o)

(***************************************************************************)
(* Claims the code does not keep                                           *)
(***************************************************************************)
\* The last audit row of a user says whether the user is suspended.
UserTrailTrue == \A t \in Users : trail[t] = Snapshot(row[t], row[t])

\* Flags that changed have another version.
VersionTells ==
    \A m \in Mails : Answer(m)' # Answer(m) => VersionOf(PublicFlags)' # VersionOf(PublicFlags)

\* Announcements that changed, by an administrator or by time, have another version.
NewsTells ==
    \A b \in BOOLEAN : Shown(b)' # Shown(b) => VersionOf(Shown(b))' # VersionOf(Shown(b))

\* After a start of the service there is a super-admin (bootstrap.py 181).
StartedHasAdmin == started => SuperAdmins # {}

\* The password of the environment opens nothing once its administrator has acted.
InitialRetired ==
    \A e \in acted : staff[e].via = "bootstrap" => staff[e].password # Initial
=============================================================================
