# smart-resume in TLA+

A TLA+ development kept beside the back end of smart-resume (`src/backend/app`), its
scheduled workers (`src/infra`) and the part of its editor that changes a resume. It models
the parts of the service whose correctness depends on what happens *between* two steps:
money, messages from Stripe, logins, the tailoring session and its phases, the tables that
requests and workers share, and the algorithms that decide what becomes of a resume. Paths
below are relative to `src/backend/app/` unless they start with `src/`, `infra/`
(`src/infra/`), `frontend/` or `tests/` (`src/backend/tests/`).

Run inside this directory:

    tlc -workers 2 -config MCBilling.cfg MCBilling
    tlapm CreditLedgerProofs.tla

## 1. Inventory

The back end is FastAPI on asyncio over PostgreSQL (SQLAlchemy `AsyncSession`, READ
COMMITTED, `expire_on_commit=False`) and Redis. Four facts of it shape almost every module:

* `get_db` (`db/engine.py:24-32`) commits after the handler has returned *and after the answer
  is sent*, and rolls back on an exception. What a request did in Redis, S3, Stripe or a
  mail server before that stays.
* A request decides on the rows as it read them. A later `SELECT ... FOR UPDATE` waits for the
  other transaction but does not refresh an object the session already holds.
* The ORM writes only the columns that changed in its copy.
* A session document in Redis is read and written back whole.

State lives in rows, in Redis documents, and in a few dictionaries of the one process.
`PROJECT.json` lists every component with its files and says what of it is left out.

| Component | State | What is hard | Modules |
|---|---|---|---|
| Credit ledger | `credit_transactions`, cache `users.credit_balance` | statements of several transactions, two locked tables, the cache | `CreditLedger`, `CreditBank` |
| Webhook inbox | `stripe_webhook_event` | overlapping and repeated deliveries, crashes between commits | `WebhookInbox` |
| Subscription lifecycle | `subscriptions`, notices | order of events, handler against tick, hands of an administrator | `SubscriptionLifecycle`, `SubscriptionOverride`, `PlanDesk` |
| Prices and plans, upgrades | `plan_configs`, `tier_limits_config`, price map | a price replaced while it is paid, rows without a unique index | `PlanDesk`, `PlanLimits` |
| Quota | period counters, in-process locks | charge before the work, streams cut off, lock orders | `QuotaMeter`, `PlanLimits` |
| Refunds | refund records, Stripe, ledger, audit | a call to Stripe inside a transaction | `RefundDesk`, `CreditLedger` |
| Promotion codes, top-ups | codes, redemptions, claims | stale reads under a lock; accounts of one device | `PromoCodes`, `TopUp` |
| Language model clients | pinned models, two process caches | cache written before the commit | `ModelPins` |
| User authentication | tokens in two stores, users row, one-time codes | two tabs, two stores, counts before inserts | `AuthSessions`, `SignUps`, `SecondFactor` |
| Administrator authentication, administration | `admin_users`, invites, sessions, flags, announcements, audit | founding races, trails in a transaction of their own order | `AdminAuth`, `StaffDesk`, and the modules of what is administered |
| Account closure and export | closure requests, S3 objects, export jobs | one failure among many, files outside the transaction | `AccountClosure` |
| Phase pipeline, session snapshot, company intel | session document, phase locks, snapshot | whole-document writes, locks without owner, lost tasks | `PhaseRun`, `SessionHandoff` |
| Agent phases | drafts, scores, issues, cache of narratives | repairs that run one after the other, caches keyed by shares | `DraftRepair`, `ResumeScore` |
| Fixes of a resume | issues, patches, the editor's resume | anchors of an earlier draft | `AnchoredFix` |
| Resume record and corpus | `resume_records`, corpus rows, hand-off tokens | a row rebound to another session, failures that are only logged | `ResumeRecords`, `CorpusIndex`, `SessionHandoff` |
| Master resume and retrieval | master resume, chunks, vectors | cached count, vectors before the text, thresholds and budgets | `CorpusIndex`, `CorpusSearch` |
| Fit, cover letter, stories, checkup | charges, locks, analyses | see quota | `QuotaMeter`, `JobDesk`, `ResumeScore` |
| Notifications | `notifications` | delivery inside the transaction that records it | `NotificationOutbox` |
| Application tracker | applications, rounds, offers, attachments | counts, histories, files | `ApplicationTracker` |
| Job search | `job_cache`, preferences, bookmarks, circuit | five kinds of writers of one table; a half-open circuit | `JobSearch`, `JobDesk`, `CircuitBreaker`, `SavedSearches` |
| Career watch, scheduled workers | watches, polled pages, alerts | duplicate messages, workers that die | `CareerFeed`, `CareerAlerts`, `JobSearch` |
| Schema, front end, deployment | | constraints, client behaviour and schedules the modules rely on | in those modules |
| Subscriber migration, parsers, security logging | | | not modelled (section 6) |

How they interact. A Stripe event enters through the inbox, whose dispatch calls the
subscription handlers, a keyed grant of the ledger, or the redemption of a discounted
checkout. Before it works a request asks the meter, which reads plan limits and takes the
counter or a credit. A phase run is asked for in the session document and consumed by the
events stream; its outputs are copied to the snapshot in the dashboard's row and, polished,
to the corpus of chunks that a later retrieval searches. Polls, feeds and scrapers fill the
table of jobs that searches read; alerts and saved searches become notifications that the
scheduler delivers. The modules meet where one needs only the other's verdict: `PhaseRun`
reduces a charge to granted or refused, `WebhookInbox` reduces a handler to an effect (that a
keyed grant cannot happen twice is the ledger's `DuplicateKey`), `PlanDesk` takes events in
order, as `SubscriptionLifecycle` examines what happens otherwise.

## 2. The modules and the code

In every module a transaction is cut where another actor can come between: at each lock, each
read that is decided on later, each call to another store, and the commit. `map` entries in
`PROJECT.json` give the lines of each definition. History variables (read by properties
only) are marked as such where they are declared.

### Money

**CreditLedger, CreditBank.** One user, one action per SQL statement. `balance` is the
committed `SUM(delta)` per kind, `row` a transaction's own uncommitted row,
`cache`/`seen`/`fresh`/`put` the four values `users.credit_balance` takes on its way
(committed, loaded by the ORM, computed, written). `userLock` and `rowLock` carry
PostgreSQL's lock modes: the `FOR UPDATE` and the `FOR KEY SHARE` of the foreign key are what
make `consume_credit` safe against `grant_credit`, so both are modelled. `Begin` loads the
`User`; `LockUser`, `LockRows`, `ShareRows` are `credits.py:159-175`, `flint_credits.py:78`
and `get_balance`; `Check` and `Refuse` the sum and the decision of `consume_credit`,
`deduct_flint_credits`, the administrator's revoke and the healing reads; `Insert` and
`DuplicateKey` the row and its UNIQUE index; `Refresh` and `WriteCache` the cache;
`Commit`, `Crash`, `BreakDeadlock` the end. `CreditBank` is the abstract specification: atomic
grants, covered spends, claw-backs. `Bank == INSTANCE CreditBank` maps its variables by name;
each commit is one bank step, everything else stutters.

**WebhookInbox.** One event and its deliveries, one action per committed transaction of
`_persist_and_dispatch`. `seen` is the ORM copy of the row; a column is written back only if
it changed in the copy, which is how a slow delivery leaves a newer status alone or
overwrites it. The effect carries no key on the event id, so that nothing but the inbox keeps
it from happening twice. `FailEarly` and `FailLate` are the two ways a handler fails: after its
first query the rollback expires the row, and reading `row.attempts` raises.

**SubscriptionLifecycle, SubscriptionOverride.** Stripe is the environment: ten things that
can happen to a subscription, each emitting its events with a snapshot and a time. `Load` and
`Apply` are the halves of a handler; `Applied`, `NewStatus`, `NewFailedAt` and `NoticesOf` are
the six handlers read column by column. `Tick` locks and rereads, so it is one step.
`SubscriptionOverride` adds the endpoint that sets the status by hand.

**PlanDesk.** The subscriptions of one user as Stripe has them (`stripe`) and as rows say
(`rows`), the requests that buy, change, cancel, pause and resume (`call`, between their read
and their call to Stripe), the administrator's tier override, and `Replace`, which makes a
new price for a code. `Sync` is the webhook with `resolve_plan_code` and the price map;
an event it cannot resolve is parked.

**PlanLimits.** `tier_limits_config` and `plan_configs`, two tables of one shape: `Look`,
`Lock`, the retirement of the rows found and the insert, committed by `Commit`; `Patch` and
the free grant, which copies a row it read before it locked.

**QuotaMeter.** A request works on the subscription row and the users row: `Step` goes through
entitlement, counter or credit, work, and commit; `busy` is the in-process lock of fit and cover
letter, `left` a client that disconnects from the stream after the charge. Most routers commit
the charge with the result (`Finish`) or roll it back (`Fail`). A resume or a score
(`phases.py:240`, `294`) and an interview (`profile.py:966`) commit it before the work
(`Prepay`), and keep it when the work fails then or, for a resume, in the run after the answer
(`RunFails`). `Vanish` is a letter whose session is gone when its task starts: it is answered
with an error, and `get_db` commits the charge. `Renew`, `Lapse`, `Pause` are the
subscription's; `Victim` is the deadlock detector.

**RefundDesk, PromoCodes, TopUp.** `RefundDesk`: `Lookup` takes the record's lock, `StripeRefunds`
and `StripeFails` are Stripe's answer (or its loss), `Commit` writes record, reversal and audit
together. `PromoCodes`: `Lookup` loads the code, `Lock` waits and does *not* refresh, `Accept`
counts with the stale value; `Discount`, `Pay` and the webhook are the checkout. `TopUp`:
`Ask`, `Lock`, `Recheck`, `Grant`, and the accounts that share a device.

**ModelPins.** The pins of a plan's step and of a step for every plan: `Look`, `Lock`, `Insert`,
`Refresh` (the process cache, before the commit), `Commit`, with faults and restarts.

### Who gets in

**AuthSessions.** Refresh tokens in PostgreSQL and their metadata, index and active session in
Redis. `Step` is one statement of login, refresh, logout, reset or revocation; tokens are named
after the request that minted them. **SignUps**: registration, the provider's callback, the
verification link and the daily clean-up; `Look` sees committed accounts only, `Limit` counts a
device, `Insert`, `Write`, `Mail`, `Commit`. **SecondFactor**: password, lockout, enrolment and
recovery codes on one users row that is read, changed and written back after the answer.
**AdminAuth**: the administrator's second factor under a row lock and the session store with its
index, one command a step. **StaffDesk**: `Bootstrap` of the first administrator at start-up,
invites, the gate, and flags, announcements and suspensions with their audit rows; `Kept` is what
each route puts into the `after` of its row (the creation of a flag writes no percentage and no
visibility, the update of an announcement no times).
**AccountClosure**: request, cancellation, reminder and deletion; `Work` is one step of a tick
whose transaction is aborted by the first failed statement (`DropFails`); S3 and the export
task are outside it. **SessionHandoff**: the session document with its owner, its tokens taken
with GETDEL, and the counter of guesses with its two calls INCR and EXPIRE.

### The session and the resume

**PhaseRun.** One session. `session` is the document reduced to four statuses and outputs, the
stale marker of the score, the requested phase and the job description; an output is its job
description, which resume it is or scored, and who wrote it. Every update is `Read` and a write
of the whole copy. `lock` names the holder although Redis stores only "1": no action reads more
than whether it is taken. `Trigger` ... `Ask` are `trigger_phase` with
`load_session_for_request` and `reset_phase`; `Events`, `Accept` are `phase_events`; `Lock` ...
`MarkFailed` are `run_phase` in the order of its saves; `Patch`, `Overwrite`, `Commit`, `Persist`,
`Audit`, `Touch`, `Reject` the edit endpoints; `ChangeJd` is `submit_jd` with its resets;
`Crash` and `Expire` a lost task and the lock's TTL. The snapshot is read in the same step as
the document is written back, and the record of a signed-in session is assumed to exist.

**DraftRepair.** Phase 3 after the model's reply: `Taken` (a hollow or unreadable reply is an
empty draft), `Fallback` on the draft before and the parsed resume, `Merged` for a run about a
section, a role or a bullet, `Limited`, and the guards `Validated`, `WithIntegrity`, `Backfilled`,
`WithMissing`, `WithSections` in the order of `apply_truthfulness_guards`. The user approves
numbers, adds and removes roles between runs. A bullet is its number, whether there is
anything else, and the keywords put before it.

**ResumeScore.** The thirteen axes with their weights in 60ths, the verdict, ceiling and
recoverable ceiling, the issues made of the findings, and the summaries told from a cache of
the process. `Check` is a phase 4 run, `Checkup` the public one, `Edit` any other draft.
**AnchoredFix.** Issues point at bullets or quote them; `Ask` is a message about some of them
with the server's binding of patches to anchors, `Accept` the editor's `tryApplyByAnchor`.
**ResumeRecords.** The dashboard's rows: each wizard step ends with a transaction that finds the
session's row, else that of the job description, else inserts one (`Find`, `Write`), and
whose failure is only logged; views restore a session from its row, duplicates and deletions
are the dashboard's. **CorpusIndex.** `Upload` replaces all chunks, stories and edits change
single ones with an embedding made before, `Polish` writes a polished resume into them, `Sync`
the corpus rows of a session; rows carry locks until COMMIT. **CorpusSearch.** `Cut` is the
chunking of an entry (a text is the sequence of its sentences' lengths), `SearchCorpus`,
`SearchSections`, `EnforceBudget` and `Project` the retrieval; `Limit` is the LIMIT of a section's
query, twice its cap and at least `Floor` (5 in the code).

### Shared tables and workers

**JobSearch.** Two rows per job (provider and scraper, polls and feeds) and the five writers of
them, each loading, selecting and writing in steps; `Match` is the resume match with its
artifact. **JobDesk.** The JSON column of titles and filters, bookmarks and charged analyses.
**CircuitBreaker.** Three keys with times to live, one command a step. **SavedSearches.** Limits
under the users row, and the alert dispatcher. **CareerFeed.** Scheduler, queue and worker with
its two caches in one transaction. **CareerAlerts.** Watches and a matcher run as one
transaction that may die. **NotificationOutbox.** A batch, its deliveries and retries inside one
transaction; lost answers and gone subscriptions. **ApplicationTracker.** Requests about an
application under an advisory lock (creation, return from the archive), a row lock (uploads) or
none; S3 objects come and go at once.

## 3. What the runs check

Times are for two workers. Every passing run is complete: TLC exhausts its states.

| Run | Properties | States | Time | Shows |
|---|---|---|---|---|
| `ledger_bank` | `TypeOK`, `SpendCovered`, `BankRefined` | 120 k | 17 s | spends, grants (with an event id) and revokes in any interleaving implement `CreditBank`; a written spend is covered even beside a revoke |
| `ledger_heal` | `NoOverdraft`, `DeadlockNeedsHeal`, `CacheHeals` | 278 k | 91 s | no overdraft without a revoke, a lock cycle needs a healing read, and that read repairs the cache for good |
| `ledger_overdraft` | `NoOverdraft` | violation | 2 s | one revoke beside one spend: first row of section 5 |
| `inbox` | `TypeOK`, `AckIsEarned`, `SerialEffectsOnce`, `SerialNothingLost`, `RetriesStop` | 157 k | 12 s | two deliveries that may overlap, repeated until a 200, two crashes |
| `sub_inorder` | `TypeOK`, `Converges`, `AnnouncedOnce`, `FirstGraceWhole`, `GraceEnds` | 382 k | 41 s | four things happen at Stripe, handler against tick |
| `sub_override` | `HealsByHand`, `NeverOlder` | 1.4 M | 26 s | any order of events, one request at a time; and the status set by hand at any moment |
| `phase_safety` | `TypeOK`, `Exclusive`, `NewJdWipes`, `MarksTrue`, `AuthorisedInTurn` | 984 k | 92 s | one billed phase with a lost task; every kind of request with a changed job description; edits between runs |
| `phase_recovers` | `RunsEnd` | 327 k | 134 s | overlapping requests, locks that expire under their runs, a lost task |
| `billing` | `RefundsTell`, `GiftsSound`, `MeterSound`, `PlansSound`, `BillingSteps` | 481 k | 55 s | the rest of money, in the scenes below |
| `accounts` | `LoginsSound`, `HandoffsSound`, `SignUpsSound`, `ClosuresSound`, `StaffSound` | 656 k | 89 s | who gets in and stays in |
| `jobs` | `TrackerSound`, `ProvidersSound`, `WatchSound`, `RecordsSound`, `CorpusSound` | 704 k | 160 s | shared tables, and what becomes of a resume |
| `progress` | `Progress` | 53 k | 83 s | what must happen at last |

**Scenes.** The components of `billing`, `accounts`, `jobs` and `progress` share no state, so
that one run checks them side by side: a behaviour is about one instance, its `scene`, and the
variables of the others rest at 0. The property of a run is the conjunction of what its scenes
promise, each under its own name in its own module; a scene "in turn" is one in which requests
come one at a time (`Overlap = FALSE`), for what the code promises only then.

| Property | Scenes and what holds in them |
|---|---|
| `RefundsTell` | *refunds*: `TrailTells` (record and audit trail tell one story), `BooksTrue`, `ReversedWithMoney` |
| `GiftsSound` | *codes*: `GrantedOnce`, `CountNotAhead`, `NoDuplicateError`; *codes in turn*: `CountTrue`; *top-ups*: `OncePerAccount`; in turn also `OncePerDevice` |
| `MeterSound` | *meter*, *meter of three*: `MeterTrue` (a counter is the number of charges that lasted, within the allowance), `ChargedWithResult`, `FitsApart`, `OneFirst`, `DeadlockNeedsStory` |
| `PlansSound` | *plans of two*, *plans of one*: `PaidIsServed`, `ServedIsPaid`, `NoneParked`; *pins*: `OnePin`, `DeadlockNeedsTwoPlans`; *pins in turn*: `UsedIsShown` |
| `BillingSteps` (steps) | `StillPaid` (refunds), `BelowLimit` (codes in turn), `EmptyIfClaimed` (top-ups), `NewInForce`, `TermsKept` (*limits in turn*) |
| `LoginsSound` | *tokens*: `OneChild`, `DeadlockIsReset`; *tokens in turn*: `SoleLogin`, `LiveOpens`; *admin logins*, *admin calls*: `ShownCodesWork`, `CodeOnce`, `SoleSession`, `IndexSole`; *factor*: `Confirmed`, `CodesOnce`, `GuessesBounded` |
| `HandoffsSound` | *handoffs in turn*: `OwnerKept`, `EditKept`, `TokenIsOwners`; *handoffs*: `RedeemedOnce`, `CounterEnds`; *handoffs cut off*: `RedeemedOnce` |
| `SignUpsSound` | *sign-ups*: `OneAccount` (a mailbox, whatever alias); in turn also `OneIdentity`, `DevicesCounted` |
| `ClosuresSound` (steps) | *closures*: one reminder, `DueIfGone`; *sign-ups in turn*: `SuspendedUnverified`; *desk*: `RolloutGrows` |
| `StaffSound` | *founding*: `OneFounder`, `ActorsReady`; *inviting*: `InvitedOnce`; in turn also `ActorsReady`; *desk*: `TrailTrue` |
| `TrackerSound` | *slots*, *tracker*: `WithinLimit`, `NoSilentTwin`, `HistoryEndsAtStatus`, `AttachmentsWithin` |
| `ProvidersSound` | *outbox*: `NoSpareCopies`, `SentReached`; *circuit*: `OneProbe`; *circuit kept* (no request is lost): `ThresholdOpens` |
| `WatchSound` | *feed*: `CachesAgree`; *alerts*, *backlog*: `NotifiedOnce`, `StatusTells`; *watches*: `WithinLimit`; *saved*: `WithinSaved`, `WithinAlerts`; *table*, *table fed*, *table shared*: `PageIsFound`, `GoneIsHidden`, `ShownIsStored`; *jobs kept*: `TitlesKept`, `OneFitCharge`; *bookmarks*: `SaveAnswers` |
| `RecordsSound` | *records*, *records kept*, *old records*: `OnePerSession`, `ScoreIsOwn`, `Reopenable`; *score*: `KeywordsExplained`, `FailuresExplained`, `AdviceHelps`, `SeverityCurrent`; *fixes*, *project fixes*: `FixReplacesItsOwn`; *drafts*: `RolesTrue`, `NothingInvented`, `NoneEmptied`, `MetricsEarned`; *draft parts*: `WithinScope` |
| `CorpusSound` | *chunks*: `OneUpload`; in turn also `CountTrue`, `VectorOfContent`; *session corpus*: `LatestOnly`; *search*: `PiecesCover`, `SearchKeepsBest`, `StrongBeforeWeak` |
| `Progress` | *meter*: a request that began is answered, victims of deadlocks included; *closures*: a due closure ends; *outbox*: a pending notification is decided; *circuit*: an open circuit closes; *feed*: a due company is polled, and the table agrees with a page that stands still; *alerts*: a matching job leads to an alert |

**Bounds.** *Ledger*: two lock holders and a third transaction are the smallest cast in which a
spend, a change beside it and a healing read meet, and every lock conflict is pairwise; amounts 1
and 2 and a balance of up to 2 put it on both sides of every guard; in `ledger_heal` the pack kind
is left out, since only the free kind is cached. *Inbox*: two deliveries suffice to overwrite a
copy; `MaxAttempts` is the 5 of the code. *Subscription*: four actions reach subscribe, fail,
recover, fail again;
`Grace` is 3 units with reminders at 1 and 2, and Stripe acts only while a full grace period of
clock is left. *Phases*: `Revs` names the resumes told apart (a fresh one is taken when nothing
refers to it any more), `MaxOwed` caps paid runs not yet started. *Scenes*: two or three requests,
which is what their races take; every limit is at 1 or 2 so that it is reached, crossed by the
overlap and freed again; one or two faults; times to live are events that may come at any moment.
*drafts*: a parsed resume of two roles, replies of up to two roles out of four that rename, invent,
retitle or number, two runs with any approval between them (the second run is what reads the
draft of the first). *score*: two bullets over their shapes, since the axes count shares; *search*:
cap, budget and thresholds are each reached by three chunks; so is the LIMIT of a section's query
where the cap is 1, with `Floor` at 2 (with the cap of 2, and for the corpus, it is not). Constants
whose names begin with `Max` are bounds of the instance, except where the module says that the code has them.

**The environment of the phase runs.** `phase_safety` is three instances. Sessions start after
phase 2, 3 or 4, which are the states that have something to lose. Two assume that clients send
nothing new while a phase runs (`Patient`); all assume `Overlap = FALSE` and `SlowRuns = FALSE`
(`config.py:302` requires the lock to outlive a run). Section 5 shows what happens otherwise.
`phase_recovers` makes none of these assumptions.

**Other assumptions of scenes.** *fixes*: the issues are fresh, no two bullets are alike and the
model names entries when asked to. *drafts*: no employer has two roles and no number stands in the
parsed resume; *draft parts*: the model does as it is told, nothing was approved or removed.
*score*: buzzwords are not in the tone vocabulary. *circuit kept*: no request is lost.
*handoffs*: none is cut off. *plans*: prices are replaced at most once. The cases beyond them
are in section 5.

**Fairness.** Requests in progress finish (weak fairness of each server step). *Ledger*: strong
fairness of a statement, because PostgreSQL queues the waiters of a row and a newcomer does not
overtake them; the front end polls the balance. *Inbox*: Stripe redelivers until it has a 200.
*Subscription*: EventBridge runs the tick every 15 minutes, Stripe delivers every event. *Phases*: a
lock with a TTL expires; clients trigger and open the events of a phase again and again, and may be
kept from it by other traffic for any finite time (strong fairness of the two requests). *Progress*:
workers run on their schedules (`infra/terraform/main.tf`), keys with a TTL expire, PostgreSQL ends a
deadlock, a queued message is received again and again (strong fairness of the fetch, which other
companies' messages may put off). `MCProgress` states one condition for an actor of each scene at
once: scenes never meet, so `WF(A \/ B)` says `WF(A)` where only `A` can happen. No fairness is
assumed of crashes, failures, administrators or edits.

**Deadlock.** TLC's deadlock check is off where requests are finite in number and all end (all but
the phase runs). Deadlocks of the database are modelled and have properties of their own
(`DeadlockNeedsHeal`, `DeadlockNeedsStory`, `DeadlockNeedsTwoPlans`, `DeadlockIsReset`).

**Mutants.** Each property of each passing run is violated by a mutated definition of the same
module (a dropped lock, an uncounted attempt, a missing reset, ...), kept next to the original and
listed in `PROJECT.json`.

## 4. What is proved

All theorems hold for every value of the constants that the named assumption of the module admits:
any number of transactions, deliveries, requests and workers. What a theorem assumes beyond that is
said here; it is what the code promises under, and section 5 shows what happens without it.

**`CreditLedgerProofs`**

| Theorem | States | Assumes |
|---|---|---|
| `LedgerTypeCorrect` | `TypeOK` | |
| `SpendsAreCovered` | `SpendCovered`, revokes included | |
| `NoOverdraftWithoutRevoke` | `NoOverdraft` | no request is a revoke |
| `LedgerImplementsBank` | `BankRefined`: every step is a step of the bank or none | |
| `OnlyHealsDeadlock` | `DeadlockNeedsHeal` | |

`SpendCovered` is not inductive. `IInv` adds that a `FOR UPDATE` lock on the users row excludes
every other lock on it, that a transaction with a row holds a lock on the users row, that a spend
holds its lock from its first statement to its end and is covered from its check on (a revoke's
row needs the lock too, so it cannot be inserted or committed in between), and that one key
belongs to one row. For deadlocks, `UserRowFirst` is the lock order of all requests but the healing
read; among requests that keep it none waits while it holds what another waits for.

**`WebhookInboxProofs`**

| Theorem | States | Assumes |
|---|---|---|
| `InboxTypeCorrect`, `AcksAreEarned` | `TypeOK`, `AckIsEarned` | |
| `SerialLosesNothing` | `SerialNothingLost`: acknowledged is done or parked | no two deliveries at once so far (part of the property) |
| `RedeliveriesChangeNothing` | `SerialEffectsOnce`: one effect, however often it is delivered | the same |

`attempts` may go down when an old copy is written back, so `IInv` ties each copy to the history: no
counter exceeds the number of tries, no copy says "settled" before the event is, and a delivery
about to answer 200 has its reason. For a single delivery `Faithful` says for each of its steps what
the row says, and that the row says "processed" exactly when the effect is there.

**`SubscriptionLifecycleProofs`**

| Theorem | States | Assumes |
|---|---|---|
| `LifecycleTypeCorrect` | `TypeOK` | |
| `FirstFailureGetsItsGrace` | `FirstGraceWhole` | |
| `OneAtATimeNeverOlder` | `NeverOlder`, in any order of events | one worker |
| `InOrderConverges`, `InOrderAnnouncedOnce` | `Converges`, `AnnouncedOnce` | one worker, events in order |
| `InOrderHeals` | `Heals` of `SubscriptionOverride`: what an administrator set does not outlive the next event about it | the same |

The copy a single request holds has the row's mark (`CopyIsCurrent`), which is why no older event is
applied. `GraceInv` says what `payment_failed_at` may be in the row, in a copy and in an event: while
there was one failure it is never earlier than the failure. Convergence is an argument about a line
(`OrderInv`): pending events and Stripe's record are points ordered by number; between two points
that disagree, and between the row and a point it disagrees with, there is a pending event that sets
what they disagree on. Applying the first event keeps that, the tick does, and when nothing is pending
row and record agree. A status set by hand is *loose*: the line says nothing of it until an event
about the status that was read after the intervention puts it back (`HandInv`); an event read before
it may find nothing to change in its copy and leave what the administrator wrote.

**`PhaseRunProofs`**

| Theorem | States | Assumes |
|---|---|---|
| `PhaseTypeCorrect` | `TypeOK` | |
| `PhaseExclusive` | `Exclusive` | `Serial`: no overlapping updates, no slow run, no forced run, no new job description |
| `ChangedJdWipes` | `OutputsMatchJd` | `Waiting`: no overlap, clients wait for running phases, no lost task, an anonymous session |
| `RequestedOnce` | `Authorised` | `InTurn`: no overlap, phase 3 does not run (it writes a consumed request back), no more workers than `MaxOwed` |
| `EditedOnlyFree` | `EditsMarked`, `WaiverEarned` | `Editing`: no overlap, clients wait, no lost task, the resume is overwritten as a whole, phase 2 does not run |

`TInv` adds to the types what each worker carries at each stage. `XInv` says that a run past
`acquire_phase_lock` holds the lock of its phase (`Guarded`), that while a request resets a phase
no run of it is alive (`Healing`), and that nobody forces. The other three rest on `Current` (a worker
in the middle of an update is alone, its copy is the document) and on `EveryMove` (each step is one
worker's move): `JdInv` follows the wiping of the phases one by one (`Left`), `AskInv` counts the
requests for a phase as marks and waiting runs (`Queue`, `Mark`), none of which can exceed the
paid ones (`owed`), and `EditInv` says that a resume a user wrote leaves the score marked and that a
mark is there only when the score is of another resume, but between a phase 4 run's two saves.

**`QuotaMeter`, `MCBilling`, `MCPhaseRun`, `MCAccounts`** (theorems at the end of the modules)

| Theorem | States | Assumes |
|---|---|---|
| `CountersSound`, `FreeOnlyOnce` (`QuotaMeter`) | `MeterTrue`; `OneFirst` | |
| `ChargedWhenServed`, `FitsKeptApart` | `ChargedWithResult`: nothing served for nothing, no refusal charged, and what may be charged unserved; `FitsApart` | |
| `OnlyStoriesDeadlock` | `DeadlockNeedsStory` | |
| `DeskTrail`, `DeskBooks`, `DeskPaidStays` (`MCBilling`, of `Refunds!Spec`) | `TrailTells`; `BooksTrue` and `ReversedWithMoney`; `PaidStays` | |
| `RefundsAgree`, `MeterAgrees` | `RefundsTell`; `MeterSound` | |
| `GiftsAgree` | `GiftsSound`: codes and top-ups, overlapping and in turn | |
| `PlansAgree` | `PlansSound`: plans and pins | finitely many subscriptions, at most one change of prices |
| `StepsAgree` | `BillingSteps` | |
| `ScenesWipe`, `ScenesMark`, `ScenesAsk` (`MCPhaseRun`) | `NewJdWipes`; `MarksTrue`; `AuthorisedInTurn` | those of `PhaseRunProofs`, which the instances of the run satisfy |
| `RotatedOnce`, `OnlyResetsDeadlock` (`MCAccounts`) | `OneChild`; `DeadlockIsReset` | |
| `SoleLoginOpens` | `SoleLogin` and `LiveOpens` | requests in turn |
| `LoginsAgree` | `LoginsSound`: tokens, administrators, second factor | the second factor in turn, as its scene is |
| `HandoffsAgree` | `HandoffsSound` | as the scenes are: owners and edits in turn, `CounterEnds` with none cut off |
| `SignUpsAgree` | `SignUpsSound`: `OneAccount` however requests overlap; `OneIdentity`, `DevicesCounted` | these two in turn, finitely many requests |
| `StaffAgree` | `StaffSound`: `OneFounder`, `InvitedOnce`, `ActorsReady`, `TrailTrue` | `OneFounder` where nobody was an administrator before |
| `ClosuresAgree` | `ClosuresSound` (steps) | `SuspendedUnverified` in turn |

These modules hold several components side by side, so a proof stands in two layers. The lemmas of a
component are about its instance (`Tokens(cfg)`, `Codes(cfg)`, ...) for *any* record `cfg` that its
assumption admits: sets of requests, users, tokens and limits of any size. The `...Steps` and
`...Scenes` lemmas carry them over to the run: a step of a scene is a step of its instance, the
variables of the others rest. The records of the run (`Crowd`, `Queue`, `OnlyOne`, `TwoPlans`,
`ManyPins`, `Redeeming`, ...) say which of them TLC looks at. `MCBilling` and `MCAccounts` prove all
five properties of their runs, `MCPhaseRun` its three compositions; `HealsByHand` of the override run is
`ByHandHeals` in `SubscriptionLifecycleProofs`, which extends `MCSubscriptionOverride` for it.

Their invariants, one per component:

- `MeterInv` (`QuotaMeter`): what a request has charged and holds at each step (`PlaceSound`,
  `ChargeSound`; `Spent` is work on a charge already committed) and that a locked row has one holder
  (`Exclusive`), so that a count read under the lock is still the count when it is written.
- `DeskInv` (refunds): a row is locked by whoever decides on it, what a request carries agrees with the
  row and with Stripe's record, and an undecided record has no refund.
- `PromoInv` (codes): the lock is held from the decision to the commit, and a row loaded before the lock
  is never ahead of the redemptions; one at a time it is the committed row. `TopUpInv` (top-ups): what the
  second look found stays so while the account's row is held; `InTurnInv` adds that no account of the
  device has claimed since.
- `LimitInv`: in turn the rows a request has found and the terms it has copied are those in force.
- `PlanInv`: a subscription with no event on its way, and none parked, has in its row what Stripe has, and
  rows are born one after the other. `PricedInv` adds that every price in use is one the environment or
  the code names; that holds while one price at most was made since the start (`OneChange`), which is why
  no event is parked.
- `PinInv` (pins): no two requests retire the same row or insert for the same key, and who inserts for a
  key retires every active row of it; `CachedInTurn`: in turn and without faults the caches hold what is
  committed or about to be. A deadlock is a ring in which each waits and is waited for, and a request
  about one key that waits for another has nothing the other could wait for.
- `AuthInv` (tokens): what each request knows of the token row it holds; `TurnInv` adds for requests in turn
  what Redis holds of the live tokens at each step.
- `AdminInv`: an active login holds the row lock; the codes it will leave are all that were, one less, or
  fresh ones that nobody has seen; the index has one session at most, which a login that has found the
  older ones is about to revoke.
- `FactorInv` (finitely many requests, in turn): what a request writes was computed from the row as it
  still is, the guesses are the counted failures and the one about to be counted, and a code that was
  used belongs to a request that has ended and is not stored again.
- `HandInv`: a payload is spent exactly if it was handed out, and a counter has its end or the request
  that sets it; `TurnInv`: in turn the copy a request works on is the document, and who mints is its owner.
- `SignUpInv` (registrations): rows inserted and not yet committed differ in their canonical address from
  each other and from every account, since who would insert a second one waits at the unique index.
  `SignTurnInv`: in turn what a request found is so until it ends: nobody with its identity, a count below
  the limit, nobody verified among those it is about to suspend.
- `ClosureInv` (closures): the locks of two ticks are apart, what a tick has locked to delete is due until
  the tick ends, since a cancellation waits for the lock, and a closure that a tick is to remind of was
  not reminded of before.
- `StaffInv` (the desk): while a start of the service that will create an administrator holds the advisory
  lock there is no founder, and no two hold it; an address about to be inserted is free and nobody else
  inserts it; a request between its lock and its commit has the row of a flag or an announcement as it
  was locked, which is why what the entry written with it says is so of the row.

Attempts at proofs corrected the model where it was wrong: two cases of `QuotaMeter`'s `Begin` overlapped
and TLC took only the first; `Deadlocked` of `ModelPins` also counted a request that merely waits for
others' ring, and PostgreSQL would not have ended it.

**Only model-checked.** What needs fairness is out of the prover's reach: `CacheHeals`, `RetriesStop`,
`GraceEnds`, `RunsEnd`, `Progress`; so is `ENABLED`, and induction over data: what the folds and recursive
functions of the scoring, retrieval and repair modules compute is checked over bounded inputs.
All of the `jobs` run stays with TLC: `MCJobs` instantiates `ResumeScore`, whose operators are
recursive, so that no theorem can stand there.

## 5. Where code and claims differ

The first row is a run of the project. The others stand as definitions in their module, most under
"Claims the code does not keep" or "What the code does not promise" at its end; TLC refutes each
in the instance described, in a few steps.

**Money**

| Property | Instance | What happens | What is claimed |
|---|---|---|---|
| `NoOverdraft` | `MCCreditLedger_overdraft` (run) | the revoke (`routers/admin.py:2044`) reads the balance without the users-row lock; a spend commits between the read and the insert | `routers/admin.py:2053` "Cannot remove {abs(body.delta)} credits; ledger balance is {current}." |
| `CacheInSync` | two grants; or a reversal | overlapping grants each write the sum they read, or the ORM sees no change; the reversal of a refund writes no cache | `credits.py:234` "Keep ``users.credit_balance`` in sync with the ``free`` ledger SUM." |
| `EffectsOnce` | overlapping deliveries | a delivery during dispatch is not recognised as a duplicate, and an effect without a key (the notices of `handle_trial_will_end`) happens twice | `routers/billing.py:13` "duplicate delivery returns HTTP 200 immediately" |
| `NothingLost` | overlapping deliveries | a slow delivery writes `processing` over `needs_review` after the 200 | `routers/billing.py:19` "mark ``status=needs_review``, return HTTP 200 to stop retries" |
| `FailureRecorded`, `ParkedIsAudited` | `FailLate`; a crash | the rollback expires the row that the error path reads; the audit row is a commit of its own | `routers/billing.py:16` "persist ``last_error``", `:1118` "while writing an admin audit row" |
| `SettledGrace` | in order, two failures | the snapshot of a recovery takes the row out of grace before `payment_succeeded`, which then leaves `payment_failed_at` of the first failure; the tick expires the second grace period at once, all events applied | `webhook_handler.py:557` |
| `FullGrace` | in order | `payment_failed_at` of an earlier failure survives, the tick expires a new grace period at once | `webhook_handler.py:557` "within 72 hours to keep access" |
| `Announced`, `CancellationArrives`, `GraceEnds` | `InOrder = FALSE` | `updated(past_due)` before `payment_failed` announces nothing; an invoice raises the mark above a delayed `updated`; `payment_failed` before the row exists leaves grace without a date | `grace_tick.py:3`, `subscription.py:332`, `grace_tick.py:12` "72h expiry: row transitions to ``expired``" |
| `NeverOlder` | two workers | two requests load the row together | `webhook_handler.py:20` "we never let an older event overwrite a newer state" |
| `GraceEndsToo` | an override | a row put in grace by hand has no `payment_failed_at` | `grace_tick.py:12` |
| `AllAudited`, `OnlyQueued` | a lost answer; two approvals | money goes, the transaction rolls back; a decided record is refunded again | `routers/admin.py:2476` "all happen in one transaction", `refund.py:242` "Approve a queued refund" |
| `LimitKept`, `PaidIsRecorded` | overlapping redemptions; an edit before the webhook | the count is compared on the object loaded before the lock; a paid discount is dropped when the code is no longer redeemable | `tests/unit/test_promo_redeem.py:231`, `promo_offers.py:213` "Persist a checkout discount redemption after successful payment." |
| `OncePerDevice` | overlapping claims | only the own row is locked | `exhaustion_top_up.py:1` "One-time free-credit top-up" |
| `ChargedOnlyIfServed` | a failing run or interview; a letter without a session | the charge is committed before the work, or by `get_db` after it | `phases.py:240`, `294`; `profile.py:966-987`; `cover_letter.py:118-124` |
| `LimitIsPerPeriod`, `FallsBackToCredits`, `CoachServed` | a renewal; the allowance used up; a coaching request | no code resets the counters; the limit raises before any credit is tried; `db` is an undefined name (`routers/profile.py:796`, `847`, `1012`) | `src/README.md:146` "per-period plan allowances", `src/README.md:165` "falls back to credits", `routers/profile.py:829` |
| `CancelsAll`, `PausedIsReachable` | two subscriptions | requests act on the latest row | `subscription.py:325` |
| `TierIsPaidFor`, `PlanIsKnown`, `NoneParked` | codes for a pro and the best plan; an override with an unknown plan; two price changes of a code | the tier is never taken back; the override is not compared with the table; an old price is named nowhere | `webhook_handler.py:383`, `tier_limits_lookup.py:38`, `price_resolver.py:115` |
| `NewInForce`, `TermsKept`, `OneActive`, `ActiveIsSold` | overlap; the last two even in turn | no unique index, and PATCH sets `is_active` either way | `tier_limits_lookup.py:68` "the active admin row" |
| `UsedIsShown` | overlap or a fault | the cache is written before the commit; DELETE answers 404 although the page shows a pin that a failed commit left in the cache | `llm/step_pin_cache.py:11` |

**Who gets in**

| Property | Instance | What happens | What is claimed |
|---|---|---|---|
| `PriorRevoked`, `GivenIsFound` | two logins; a client that refreshes at once | both stay live; the token is sent before it is committed | `tests/unit/test_concurrent_session.py:3`, `services/auth/tokens.py:226` |
| `RevokedForGood`, `OpenIsAudited` | a call beside a logout; a failed commit | the record read before is written back; the session outlives its audit row | `admin_auth/tokens.py:23` "hard-revoked on logout", `admin_auth/audit.py:3` |
| `Confirmed`, `CodesOnce` | overlap | the users row is read, changed and written back after the answer | `routers/auth.py:1298-1484` |
| `OneIdentity`, `DevicesCounted`, `SuspendedUnverified` | overlapping sign-ups, clean-up beside a verification | counts and looks come before inserts; the clean-up decides on rows it read | `signup_rate_limit.py:57`, `auth/maintenance.py:55-75` |
| `CanCloseAgain`, `RestoresFiles`, `OthersProgress`, `NothingLeft`, `ExportIsReady` | a cancellation; a failed commit; one failing account; an upload; an export | the row of a cancelled closure stays; files go before the commit; the shared transaction is aborted; files are listed before; the task starts before the job is committed | `export/closure.py:41`, `93`, `221`, `115`, `assembler.py:411` |
| `OwnerKept`, `EditKept`, `TokenIsOwners` | overlap | whole-document writes of two bearers | `session_ownership.py:3-4` |
| `CounterEnds`, `BothOrNeither` | a request cut off; a client that redeems at once | INCR without EXPIRE; the answer comes before the commit | `job_descriptions.py:234` "either get back both a persisted JD AND a working token, or neither" |
| `StartedHasAdmin`, `InitialRetired` | faults; `Ops = {"start", "login"}` | a failed start is logged and no more; the first password works until it is changed | `admin_auth/bootstrap.py:181` |
| `UserTrailTrue`, `VersionTells`, `NewsTells` | two suspensions; two flags; two banners | the row is read without a lock; versions are times or counts of what is left | `routers/admin.py:2184`, `routers/public_config.py:46` |

Read, not modelled: the `login_failure` row of a failed second factor is rolled back
(`routers/auth.py:1391` against `383`); an announcement's slug is stripped after its uniqueness
was looked up; the export job of the administration is never assembled (`routers/admin.py:2339`).

**The session and the resume**

| Property | Instance | What happens | What is claimed |
|---|---|---|---|
| `Exclusive` | forced runs | `reset_phase` deletes the lock of a run that holds it | `session_store.py:134` "prevents concurrent agent runs per session" |
| `WaiverEarned`, `EditsMarked` | edits | an edit that changes nothing sets the marker; a run clears the marker of an edit made during it | `phases.py:171`, `models/session.py:124` |
| `OutputsMatchJd`, `FresherKept` | an account with a snapshot | the next request restores the old outputs; a committed resume is replaced by the older snapshot | `routers/resume.py:427`, `session_cache.py:391` "Preserve any fresher in-memory fields" |
| `Authorised` | overlap | two events requests consume one request for a run | `phases.py:391` "Only ``phases/{phase}/run`` may authorise a pipeline run" |
| `MetricsEarned`, `MetricsApproved` | numbers in the parsed resume, or approval withdrawn | roles are filled in and restored after the numbers were taken out; and "5%" is part of an approved "15%" (`phase3_truthfulness.py:123`) | `phase3_truthfulness.py:140` "Strip numbers not present in approved_metrics for the bullet's scope." |
| `LimitsKept` | a long parsed role | what the guards restore is not limited again | `phase3_postprocess.py:215` "Current role ≤5 bullets; prior roles ≤3." |
| `RolesTrue` | two roles of one employer | the look-up is keyed by company, the last role wins; the filling-in takes the first | `phase3_truthfulness.py:327` "Restore title/company/dates for existing roles" |
| `ScopeWorks`, `WithinScope` | a run about the summary; a failed reply | a reply without roles is hollow and thrown away, so the section is not renewed; the fallback's first role replaces another company's | `phase3_rewrite.py:169` "Merge a scoped LLM response into the existing tailored resume." |
| `ScopeLost` (an operator) | any approved number | the loop of `phase3_rewrite.py:461` reuses the name `scope`: every scoped run then raises, after it was charged | `phase3_rewrite.py:455-458` |
| `ChunkKept`, `RemovedStays`, `OnceEach`, `SectionsKept`, `NoKeywordAdded` | an employer of the master resume only; a role removed by hand; a doubled reply; a failed provider; a hollow reply | the integrity guard drops it; every later run restores it; nothing removes doubles; summary and skills are lost and the run is done; keywords are put before parsed bullets | `phase3_truthfulness.py:288` "incl. manual edits" |
| `CountCurrent`, `GapsExplained`, `EmptyIsNoBetter`, `CeilingKept`, `SameAsOriginal`, `AdviceHelps` | bullets of one share but another number; three words with two hits; no bullets; a reworded draft; `Stage = "senior"`; a buzzword in the vocabulary | see the comments in `ResumeScore` | `phase4_narrative.py:252`, `phase4_qa.py:219`, `checkup_guidance.py:24`, `routers/sessions.py:84` |
| `FixReplacesItsOwn`, `NothingDropped` | `Fresh = FALSE`, alike bullets, `Named = FALSE`, or an issue without anchor | patches are bound by position, or to the draft before; the filter drops what the server would have filled | `agent/chat.py:221-235` "the server fills those from the anchor" |
| `OnePerSession`, `ScoreIsOwn`, `Reopenable`, `JdKept` | overlap | two requests insert or rebind | `resume_record.py:383` |
| `NoStaleFork`, `DraftIsForJd`, `EveryScoreKept`, `FirstIsOwn`, `Downloadable` | in turn, two job descriptions | duplicates, rebinding (a row taken over by its hash keeps the score it started from, `resume_record.py:463-511`) and expiry | `dashboard.py:502` "Phase outputs are intentionally not copied to avoid stale-state forks" |
| `CountTrue`, `VectorOfContent`, `LatestOnly` | overlap | counts and vectors computed before | `corpus_writer.py:145` |
| `WarnsOfZeros`, `OneHeading` | in turn | an embedding of zeros is stored in silence; a chunk keeps two headings | `crud.py:219`, `272` |
| `NeverOversized`, `CorpusReachesPrompt`, `NoneEvictedInVain`, `ZerosSkipped`, `ShownIsUsed`, `AllSearched` | scene *search* | overlap makes a piece too long; a certificate's type is queried by no section and what a LIMIT leaves out is in no list; corpus chunks are dropped at the projection; evictions do not help; zero vectors rank | `chunking.py:238`, `retrieval_service.py:690-731`, `embedding.py:134` |

**Shared tables and workers**

| Property | Instance | What happens | What is claimed |
|---|---|---|---|
| `SentIsSeen` | a `multi` notification whose e-mail fails | it is marked sent and shown nowhere | `dispatcher.py:82` |
| `RowsHaveObjects` | a failed commit | objects are deleted before their rows | `tracker/s3.py:68` "DB row is authoritative" |
| `SingleTrial` | the key expires | the circuit closes with no call answered, for every request at once | `circuit_breaker.py:62` "allow a single probe request" |
| `DuePolled`, `CachesAgree` | a skipped company; namesakes | the same rows come first for ever; a poll of one delists the other's jobs | `infra/career_page_poller/handler.py:1`, `corpus_sync.py:188` |
| `MatchesAlerted`, `WithinLimit`, `DismissedStays` | more watches than a batch; two additions; a dismissal during a run | LIMIT without ORDER BY; a count without a lock; a status written without a look | `matcher.py:108`, `src/README.md:152`, `models/career_watch.py:229` |
| `MatchesNotified` | any match | the dispatcher writes columns that a migration dropped | `infra/README.md:12` |
| `NoneFails`, `SourcesKept`, `GoneIsHidden`, `ClosedNotShown`, `ShownOnce` | two searches of one new job; two searches and a batch; a feed | one INSERT fails; a writer takes another's source away; the feed brings back what the page closed | `cache_writer.py:23`, `aggregators/sync.py:113` |
| `AdmittedIsServed`, `MatchIsCurrent` | a free user; a new resume | 402 after admission; the artifact is never renewed | `routers/jobs.py:132` "free users with confirmed titles get corpus search" |
| `TitlesKept`, `OneFitCharge`, `SaveAnswers`, `FitIsCurrent` | overlap; the last in turn | one JSON column, a look before the charge; an analysis is not tied to its resume | `routers/jobs.py:668`, `775` |

## 6. Not modelled, and plan

Not modelled: the *subscriber migration* (scripts run once by an operator), the *parsers and export
formats* (pure conversions whose results are opaque to the other parts), *security logging*
(rows no code reads back), texts, lists and statistics of all routers, and the front end except
for its application of patches. Of the components that are "partly" modelled `PROJECT.json` says
what is left out; the larger of these are versions and restoration of a tailored resume, the
edits of a resume's titles and bullets between runs, a failure of Stripe while a closure is
scheduled and the deadlock of a cancellation with a tick's DELETE, the preferences of
notifications, the daily budgets of polls, anonymous checkups and free accounts, and the bank of
interview questions.

Proofs next: `QuotaMeter` as an implementation of an atomic meter, as `CreditLedger` is of `CreditBank`,
and the overlapping scenes of `OneIdentity` and `DevicesCounted`, once the code counts under a lock. For the
components of `jobs` (`OneProbe` of `CircuitBreaker`, `WithinLimit` of `ApplicationTracker`) the run would
first have to be split from `ResumeScore`. Whatever needs fairness, and what recursive definitions
compute, stays with TLC.
