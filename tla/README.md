# FeedBoard backend: TLA+ model, model checking and proofs

FeedBoard is a multi-tenant feedback service: an Express application over one MySQL
database, run as several PM2 worker processes, with Paddle (or, as a fallback, Stripe)
as the payment provider. This directory models the parts of it whose correctness depends
on the order in which things happen: billing that follows a remote system, workspaces and
memberships that several requests change at once, and state that one handler reads and
another one changes before it is used.

The source is quoted by path from the repository root (`src/src/...` is the program,
`src/database/schema.sql` its schema).

## 1. How the program runs, and what that means for the models

* **Atomicity.** A handler is an `async` function. Between two `await`s nothing else runs
  in its process, but every `await` lets other requests of the process, and all the other
  workers, go on. A model therefore has *one action per await*: `pc[p]` is where handler
  `p` stands, and `loc[p]` holds what it read earlier and will use later. Whatever
  happened in between is an interleaving of `Next`.
* **Transactions.** The database is InnoDB at REPEATABLE READ. A transaction that decides
  by nothing it read before, or that reads only rows it locks, is one step. Where it
  decides by its snapshot (createWorkspace) or keeps row locks while other connections
  work (the invitation accepts), it is several steps and the locks are part of the guards.
* **Failure.** Any awaited call may throw. What a handler had committed stays, and the
  rest of it does not happen (`Fail`).
* **Data.** Names, texts, tokens, hashes, prices in money and formatting are left out
  unless a guard reads them.

## 2. Inventory

For each part: its state, its operations, whom it works with, what is hard, and what makes
it correct. "M" is modelled, "P" partly, "-" not (section 8 says why).

| | Part | State | Operations | Module |
|---|---|---|---|---|
| M | Paddle billing | `billing_accounts`, Paddle's subscriptions | checkout, upgrade, downgrade, cancel, resume, webhook, status poll, sweep | PaddleBilling |
| M | Stripe billing (fallback) | the same row, Stripe's subscriptions and schedules | checkout, upgrade, downgrade, cancel, resume, events, status poll | StripeBilling |
| P | Admin grants and promo comps | the same row | grant/comp an account | PaddleBilling, StripeBilling, Promo |
| M | Promo codes | `promo_codes`, `promo_redemptions`, provider discounts | redeem (claim, release), create, revoke, reactivate, reset, delete | Promo |
| M | Offers and discounts | `offers`, provider discounts | create, deactivate, show, bill | Offers |
| P | Account plan mirror and workspaces | `tenants`, `users`, the mirrored `plan_name` | create, suspend, delete, change the plan, change roles | Workspaces |
| M | Invitations | `invitations` | create, revoke, expire, accept as new or existing user | Workspaces |
| M | Account deletion | all rows of an e-mail | purge | Workspaces, Admins |
| P | Plan limits | none of its own | seats, owned and joined workspaces | Workspaces |
| M | Sessions and login | `user_sessions` | login, OAuth login, takeover, sign-out, touch | Accounts |
| M | Password reset and change | `password_resets`, `users.password_hash` | request, validate, reset, change | Accounts |
| M | Tenant cache | an in-process map per worker | load, set, evict, invalidate | TenantCache, PortalReads |
| M | Roadmap synchronisation | `roadmap_columns`, `roadmap_items`, `posts.status` | add, move, remove, status change | Board |
| P | Public board | `posts`, `comments`, `votes` | post, comment, vote, edit and delete by the guest who wrote it | Board, Votes, Discussion |
| M | Public write protection | `public_write_counters`, form tokens | burst caps, pruning, form age, spam score | WriteGuard, SpamScore |
| M | Spam retention | `posts`, `comments` | purge after the retention period | Board, Discussion |
| P | Posts, comments, tags and votes of the dashboard | the same tables | create, edit, moderate, merge duplicates, delete | Board, Discussion, Votes |
| M | Support chat | `support_sessions`, `support_messages` | open, send, read, close | Support |
| P | Admin console | rows of the other parts, `users.is_platform_admin` | grant and revoke the role, edit, delete | Admins and the part's module |
| M | Boot migrations and process start | the schema, an advisory lock | migrate, listen, shut down, restart | Boot |
| - | Changelog | `changelogs` | create, publish, edit, delete | |
| - | Attachments and uploads | files, `attachments` | upload, list, delete | |
| - | Notifications and mail | `notifications`, outgoing mail | send, mark read | |
| - | API keys, integrations, audit log, analytics | one table each | create, revoke, list | |
| - | HTTP routes and validators | none | routing, validation | |

### Billing (modelled first: it is where money and state of two systems meet)

* *State.* One `billing_accounts` row per e-mail: plan, status, interval, period end, a
  scheduled (pending) change with its date, and the id of the Paddle subscription.
* *Interaction.* Customers and admins call the routes; Paddle sends webhooks; the
  scheduler sweeps due changes in every worker under an advisory lock; every one of them
  ends in `reconcile`, which reads the row, asks Paddle, and writes the row, which
  `setAccountPlan` mirrors to the owned workspaces in the same transaction.
* *Hard.* Reconcile decides by a row it read two awaits earlier; a downgrade is a change
  at Paddle followed by markers in the database; webhooks arrive while handlers wait; any
  call may fail.
* *Correct when* the row converges to Paddle's subscription, a scheduled downgrade keeps
  the paid plan until its date and is then applied, comps survive, and no interleaving
  leaves a row that reconcile, the checkout guard or the sweep cannot handle.

### Workspaces, accounts, invitations, deletion

* *State.* An account is an e-mail with one `users` row per workspace, or one without a
  workspace. A workspace (`tenants`) has a copy of its owner's plan.
* *Interaction.* The plan comes from billing; the limits (seats, owned and joined
  workspaces) come from the plan; accepting an invitation inserts a `users` row; purging
  deletes the owned workspaces and with them their members and invitations.
* *Hard.* Counting and inserting are separate awaits; createWorkspace mirrors the plan its
  snapshot saw; purgeAccount acts on rows it read before it waited for the payment
  provider; accept, revoke, purge and delete go for the same rows.
* *Correct when* the mirrored plan is the owner's, an accepted invitation stands for a
  member, an invitation has one outcome, and a workspace keeps its owner.

### Posts and roadmap

* *State.* A post has a status (the pipeline) and a moderation state with a spam score; a
  roadmap item puts a post into a column; a column whose key is a status stands for it.
* *Interaction.* Moving an item changes the post's status, changing the status moves the
  item, removing the item opens the post again; owners review, delete and purge posts;
  the review queue starts the purge of expired spam.
* *Hard.* The two sides are written by separate queries, the second of which may fail
  silently; columns and posts are deleted in between.
* *Correct when* status and column agree whenever the last change ran to its end
  undisturbed, no item outlives its post or column, and reviews never lose the score the
  classifier gave.

### Sessions, passwords and the operators

* *State.* A device session per sign-in, reset links, one password hash copied to every
  `users` row of the account; a role flag on `users` rows.
* *Hard.* The device gate reads the live sessions, asks, and inserts; a reset writes the
  password in a transaction and revokes the sessions after it; rows are added with a hash
  or a flag read earlier; two administrators act on one another.
* *Correct when* a single-device account has one usable session, no session of an earlier
  password survives a reset, a link works once and only the newest one does, and the
  console is never left without anybody who may enter.

### Codes, offers and the Stripe fallback

* *Hard.* Redeeming claims a slot, calls the provider, and gives the slot back when that
  fails; administrators reset the usage meanwhile. Discounts live at the provider and are
  archived in a call of their own. Stripe's events carry snapshots and come late, out of
  order, or never.
* *Correct when* a cap is never exceeded and nobody redeems twice, a discount is active
  exactly while its code is, the price that is shown is the price that is billed, and a
  complete reconcile makes the account agree with Stripe.

### The public portal and support chat

* *Hard.* A vote is a read, a write and a count with two unique keys, both of which may be
  NULL or new; a reply climbs a thread one query a level while the thread is deleted;
  counters are bumped while old windows are pruned; the cache stores what a query read
  before an invalidation; "unread" is a comparison of times of one second.
* *Correct when* a visitor is told the truth about the vote, replies hang from a top-level
  comment of the same post, a cap holds in every window, what is published stays so with
  fewer signs against it, no answer is older than the TTL and a query, and no message of an
  open session is missed.

### Starting

* *Hard.* Every worker migrates before it listens, under a lock that goes with its
  connection, by child processes that do not go with it; PM2 gives up on a worker that
  leaves early too often.
* *Correct when* nobody serves a half-migrated schema, and every worker comes up that PM2
  has not given up on, which takes a strike earned by a fault or by a change that is new.

## 3. Modules, state and actions

Each component has a module. An `MC` module and a `.cfg` give its constants values, and a
`Proofs` module holds its theorems. `PROJECT.json` maps every definition to its source lines.
Smaller modules whose components share no state are checked together: `MCPublic` and `MCConsole`
run one of them per behaviour, the others at rest, so that the run explores the sum of their
states and not the product. Their names carry prefixes for that reason (`vpc`, `tpc`,
`VoteNext`, `TalkNext`), and the theorems about them are together in `PublicProofs` and
`ConsoleProofs`, each about the specification of its own component.

**PaddleBilling** is one account and Paddle's subscriptions of that customer. `acct` is
the `billing_accounts` row; `subs` is what Paddle would answer (external: modelled from
how the code calls and reads it). `Procs` run one handler each. The actions named `Rc...`
are the awaits of `reconcile`, `Ck...`, `Up...`, `Dn...`, `Cs...`, `Cl...` and `Sw...`
those of the checkout, the upgrade, the downgrade, cancelling a scheduled change,
cancelling for a comp, and the sweep; `Grant` is a comp or a promo. `Renew` is Paddle
charging the next period, `Tick` the clock. The sweep holds the advisory lock `GET_LOCK`
gives out. `fresh` are the reconciles that nothing disturbed since their read: a change at
Paddle, on the row, or the write of another reconcile that was disturbed itself (a stale
write is a change like any other). `owed` says that no such reconcile has ended since the
last change.

**StripeBilling** is the same account under the fallback provider: `subs` with their
two-phase schedules, and `events`, snapshots that are delivered in any order, late, or not
at all. Every subscription is some customer's, and the row has the id of one of them. A
checkout that reads no id creates a customer and stores it (`CoCustomer`, `CoStore`) and
pays under the id it has at hand; a reconcile lists by the id it has read, so it sees
the subscriptions of that customer and no others. `twice` says that two checkouts made a customer
each. `owed`, `fresh`, `behind` and `blurred` remember what else has overlapped or failed.

**Workspaces** is two accounts by e-mail: `users` rows, `tenants`, `invitations`, and the
plan of each account. Transactions that decide only by rows they lock are one action;
`CwSnapshot`/`CwCommit` of createWorkspace and the accepts (`Ac...`) are several, with the
rows that `SELECT ... FOR UPDATE` locks in the guards of everything else that writes them.
`purgeAccount` is its read, the wait for the payment provider, and its transaction. The
reconcile of a comped account, which reads the plan and mirrors it in a query of its own
outside any transaction, is `ReconcileComped` and `MrUpdate`. The histories `missed` and
`edited` say which workspaces the last plan change of their owner did not reach, or reached
and was overwritten, and where a role was changed by hand.

**Accounts** is the credentials of one account: the hash of each `users` row, device
sessions, reset links. A password is the number of the write that set it, so "the same
hash" is "the same number". The histories `crowded`, `split`, `forked` and `stale` mark
sessions, rows and links added by requests that overlapped another one: the window
between read and insert is in the code, and the properties say what holds outside it.

**Board** is the posts of one workspace, its columns and items. A request that takes more
than one query is a process: `Begin` is its first query, the actions named after
`roadmapSync`'s functions are the later ones, `Fail` is any of them throwing. Operations
that are one query are one action. The foreign keys with ON DELETE CASCADE are `Without`;
the unique keys are guards. The histories `alone` and `loose` say which requests no other
request about their post has overlapped and which posts were last changed by a request
that was disturbed, failed, or asked for a status without a column.

**Votes**, **Discussion**, **WriteGuard** and **SpamScore** are the public board.
*Votes* is the read, write and count of `togglePublicVote`, with two unique keys of which
MySQL compares no NULLs. *Discussion* is the thread of comments, in which a public reply
`Climb`s to the top one query at a time while rows go in cascades. *WriteGuard* is the burst
counters in fixed windows, bumped all at once and pruned. *SpamScore* is a pure function:
`Possible` submissions and the score `spamScore.js` gives each of them.

**TenantCache** is one cache per worker with entries that age, loads that take a query, and
writes that do or do not invalidate. **PortalReads** is the abstract specification: an
answer is a value the key had within the last `Staleness` ticks. `TenantCache` INSTANCEs it
WITH the database as `value` and `Ttl + QueryTime` as `Staleness`; the run checks
`Reads!ReadSpec` as a property.

**Promo** and **Offers** are a code and the offers of one plan with the discounts behind them,
**Admins** who may enter the console while `users` rows come and go, **Support** the chat with
its two "last read" times and three counts: a user's badge (`GetUnread`), a row of the
operator's queue (`ListedUnread`, whatever the session's status) and the operator's sidebar
(`GetInboxUnread`, open sessions only). Admins' history `mishaps` records the four ways in which
the last role goes that the code has no guard against, each judged by what the request had
checked; TenantCache's `owes` is the set of keys that an update has to show, taken from the row
and not from what the update drops, and `behind` those it need not.

**Boot** is the workers from `down` to `up` and back. A migration script is a list of
changes, each a look and an ALTER; a killed worker drops the lock and may leave its script
to `orphans`. `strikes` is PM2's count of early exits; `LockTimeout` is GET_LOCK giving up;
`before` is the part of the schema the deployment found.

*How they meet.* Billing's plan is Workspaces' `SetAccountPlan` (any plan, at any time,
which is what a webhook looks like from there) and Accounts' `ChangePlan`; a workspace
begins with Board's `Seed` columns; `LoseWorkspace` in Accounts and `DropBoard` in Admins are
what Workspaces' deletions do to their rows; a `comped` account in Promo is
PaddleBilling's `Grant`.

## 4. Runs

| Run | Instance | Shows |
|---|---|---|
| `paddle_serial` | 1 handler at a time, 3 operations, 1 failed call, 4 ticks, monthly and yearly prices | a scheduled downgrade keeps the paid plan until its date (`ScheduledDowngradeHeld`) and is applied once due, or withdrawn, unless a call failed (`DueChangeApplied`, liveness) |
| `paddle_concurrent` | 2 handlers interleaved, 3 operations, monthly prices, 2 ticks | whatever stale data they hold, the row stays well formed, sweeps exclude one another, one undisturbed reconcile brings the row back into agreement with the subscription (`SyncedAgrees`), and a comp in force is lost only to a grant or to a reconcile that read the row before it (`CompPreserved`) |
| `stripe` | 2 requests interleaved, 3 operations, 2 subscriptions, 2 customers, 2 undelivered events, 1 failed call | a complete reconcile agrees with the subscriptions of the customer on file, which are all there are unless two were created, a waiting downgrade is shown as what it is, a comp stops the charges and survives reconciles |
| `workspaces` | 2 accounts, 4 users rows, 2 workspaces, 1 invitation, 2 requests, 6 operations | the mirror follows the owner's plan outside the recorded gaps (a suspended workspace or inactive owner, a creation or the reconcile of a comped account that read the old plan), an accepted invitation stands for a member, an invitation has one outcome |
| `accounts` | 2 requests, 4 operations, 2 rows, 3 sessions, 2 links, 1 failed query | one device, no session of an earlier password after a reset, one hash for all rows, one working link, used once |
| `board` | 2 posts, 2 items, 3 columns (two stand for a status), 2 requests, 5 operations, 1 failed query | status and roadmap agree after undisturbed changes, cascades leave nothing behind, no review loses the score |
| `public` | 2 visitors' clicks, 4 comments on 2 posts, 3 writes over 3 hours with caps of 1 and 2, every kind of submission | a vote's answer is truthful, replies in place, the caps hold per window, a published submission would be so with any of its signs away (`MilderIsPublished`) |
| `console` | 2 requests in each part; a cap of 1, 3 offers, a cache of one entry and one tick, 2 people with 4 rows, 2 chat sessions | the promo cap and one redemption each, discounts follow codes, what is shown is billed, one offer at a time, the cache implements `PortalReads` and shows an update under the old and the new subdomain, an admin remains, no message of an open session is missed |
| `boot` | 2 workers, scripts of 3 and 1 changes, 3 kills, failures or restarts, 3 early exits allowed | nobody serves a half-migrated schema, a strike is a fault or a new change (`StrikesEarned`), and in the end every worker serves that PM2 has not given up on (`AllServe`, liveness) |

The other runs each show one sentence of a comment to be untrue of the code; TLC's trace
is the scenario, and `PROJECT.json` "findings" quotes the sentence:

| Run | What happens |
|---|---|
| `paddle_resubscribe` | a second subscription is never found, because the ended one's id is still stored |
| `orphan_workspace` | a workspace created while its owner's account is purged stays without an owner |
| `admin_role_lost` | rows added later do not carry the admin flag: the role goes with one workspace while the account stays |

*Why the bounds are enough.* Every hazard listed needs at most two requests about one row at
once, and at most three operations before it: the bounds on operations count begun requests, so
they reach each of them, and the violating runs find theirs in fewer. Two of everything is the
least at which "another one's" row, post or workspace exists; a thread needs four comments to be
deeper than the two levels it should have; three sessions are two live ones beside a new one. A
period is two ticks (a year three) and the lead and tolerance of the sweep one, so a change can
be due, early, and late within the clock's bound. A domain's window is two hours and the
retention two, so windows of both lengths begin, end and are pruned within the three hours of
`public`. Three faults in `boot` kill a worker, the one that takes over, and the one after; the
three early exits it allows are fewer than its four changes, as `max_restarts` is fewer than the
changes of add-spam-columns.js, so PM2 does give up in the run. Two customers of Stripe are the
one on file and the other. Every action and every disjunct of the next-state relations fires in
a passing run. The proofs remove the bounds altogether for the properties they cover.

Requests, faults and clocks run out, so `CHECK_DEADLOCK` is off: the end of a run is the
end of the requests it was given, not a wait. Symmetry is declared only in runs that check
no liveness property.

*Type invariants.* Each module states one, and all but that of the pure SpamScore are
theorems. `paddle_concurrent`, `workspaces` and `board` check theirs as a property (Board's has
the foreign keys in it); the other runs leave it to the proof.

## 5. Fairness

`paddle_serial` assumes in `FairSpec` that a begun handler takes its next step (weak: an
awaited call returns or throws), that Paddle keeps delivering webhooks and the scheduler
keeps ticking when they may (strong, since one handler at a time makes them take turns:
Paddle notifies on every change, `billingScheduler` is an interval timer), and that Paddle
renews at the end of a period (weak). Nothing is assumed of customers or admins.

`boot` assumes in `BootFair` that every worker keeps moving (weak): PM2 restarts one that
is down and has strikes left, queries return, MySQL grants a free lock to one that waits,
a draining worker leaves. Nothing is assumed of orphans, failures, kills, or the time-out of
the lock. `AllServe` excepts a worker that PM2 has given up on. An orphan can break a worker
once for every change that is new (`StrikesEarned`), so that no setting of `max_restarts` below
the number of new changes rules it out.

The other modules promise only safety: their requests answer or fail, and nothing retries
them.

## 6. Proofs

All theorems are `Spec => []P`, `Spec => [][A]_vars` or, for the cache, that one specification
implements another. They hold for any constants that satisfy the module's assumptions
(`ConstantsOK` and its like: sets, distinct markers, bounds are naturals, processes are finitely
many where they are counted). Each is proved by an inductive invariant: that it holds at first,
one lemma per action or group of them, one for `[Next]`, and PTL.

* **PaddleBillingProofs**: `TypeCorrect`, `PendingAlwaysDated`, `PaidPlanAlwaysDated`,
  `SweepsExclude`. The properties speak of the row, but handlers write it from what they read
  awaits ago, so `IInv` adds `Ready(step, l)`: what the local data of a handler at each step
  guarantees about the row it will write, independent of what the row is by then. That is why
  interleaving cannot break these. `SyncsWhateverOverlaps` (`SyncedAgrees`) needs no assumption
  either: `UpToDate(p)` says what a reconcile in `fresh` has seen (`SyncFresh`), step by step up
  to a write that leaves the row and Paddle in step (`SyncRow`, `InStep`), and every other write
  makes a reconcile owed again; `SyncKnown` says that nobody ever holds or tracks a draft, which
  a payment would bring to life behind their back. `CompKept` (`CompPreserved`) holds whatever
  overlaps: a reconcile past its check for comps has read a row with none in force
  (`ReadNoComp`), and a comp that has expired stays so, since the clock only advances; no other
  handler writes the status of a comped row. What a stale reconcile does to a comp granted
  meanwhile is in the property and in section 7.
* **WorkspacesProofs**: `TypeCorrect`, `MirrorExact` (`MirrorFollows`),
  `AcceptedStayMembers` and `OutcomesFinal` (`OneOutcome`, an action property). `Held`
  says what an accept or a creation knows between its steps: the row it claims is still
  free, the invitation it locked is still pending. `InvLocks` is what makes that stable. A mirror
of a comped account that is under way has no lock: a plan change it may overwrite is
`missed` at once.
* **BoardProofs**: `TypeCorrect` (with the foreign keys), `StageAlwaysFollows`,
  `ScoresKept`. `StageFollows` is not inductive: `Held` adds that ids are not reused and a
  column never gets another key, `InvUnique` that a post is on the roadmap once,
  `InvAlone` that an undisturbed request is the only one about its post, and `Promise`
  what it has achieved so far. A step is `Calm` for every post but its own, and calm steps
  keep both `StageFollows` and promises, which leaves one obligation per query.
* **BootProofs**: `BootTypes` (with mutual exclusion of the migrating worker) and
  `NobodyServesHalfMigrated` (`ServesMigrated`), for any workers and scripts. `Behind(j)`
  is the changes a running script has passed, `BtBehind` says they are in the schema, and
  `BtDone` that all are once the last script has ended. Nothing takes a change away, so
  neither orphans nor kills disturb this; `BtStrikes` types the strikes. `StrikesAreEarned`
  (`StrikesEarned`) counts what is still ahead of a worker that has a script running: its
  strikes and the duplicate it is about to meet, if any, are paid for by the faults and the
  changes in the schema that the deployment did not find (`BtEarned`).
* **StripeBillingProofs**: `StripeTypes`, `ReconcileAgrees` (`SyncedAgrees`),
  `DowngradeAlwaysShown` (`ScheduleShown`), `CompStopsCharges` (`CompNotCharged`) and
  `CompOutlives` (`CompOutlivesReconcile`), all properties of `stripe`. The invariant has three
  parts. `SbBase` holds whatever is crossed or fails: types, what a request at a step goes by
  (`Ready`), that a `fresh` reconcile holds what Stripe would list now for the customer on file
  (`SbFresh`), that one which read a row since comped is `behind`, and agreement with what is
  listed (`ListAgrees`). `SbCust` is about customers: the row, a request at a step (`ActsFor`)
  and an event have one that was created, and until `twice` it is the same one (`OneCustomer`),
  so that every live subscription is listed (`Own`). `Clear` holds until something is `blurred`:
  one live subscription, one change at a time, the row has the subscription whose downgrade
  waits, and per request what its next step relies on: `Promise` (a change about to clear the
  markers knows that nothing waits), `Replaces` (a comp finds no live subscription) and `Found`
  (a fresh reconcile clears only markers that have come true). Every action keeps the first two,
  every action that blurs nothing the third.
* **PublicProofs** (Votes, WriteGuard, Discussion): `VoteTypes` and
  `AnswersTruthful` (`VoteAnswerTruthful`, an action property). `Knows`
  is what a request that no rival overlapped knows of the table before it writes and before
  it answers; that no other click disturbs it is `VtAlone` (who matches or inserts a matching
  row is a rival). `GuardTypes` and `CapsHold` (`CapPerWindow`): a row is claimed by what was
  charged to it and by the requests that counted it and did not trip (`Held`, whence
  cardinalities); claims are at most the counter while the row is kept (`GdCount`) and at
  most the cap always (`GdCap`), and no row that will still be bumped is pruned (`GdFresh`).
  `TalkTypes` and `RepliesAlwaysInPlace` (`RepliesInPlace`): a climb stands at a row whose
  thread is the one the reply was sent to (`TkRequests`), or at one that is gone, in which
  case the insert fails on the foreign key. Deletes cascade down threads of any depth; the
  proof needs of the cascade only that what is kept hangs from what is kept (`RepliesGo`).
* **ConsoleProofs** (TenantCache, Admins, Support, Offers, Promo). *TenantCache*:
  `CacheImplementsReads` (`BoundedStaleness`, the refinement of PortalReads), `PortalTypes` with
  the size of the cache (`TcRoom`), and `ShownAtOnceAlways` (`TcFresh`: a worker that handled an
  update holds and loads nothing older under the keys it `owes`, those of the row before and
  after the write). For the refinement, `Dated` says of a value how long ago the key had it, at
  most; a load has one as old as its query (`TcLoads`), an entry one as old as itself and a
  query (`TcEntries`), and `recent` holds whatever is not older than the bound (`TcRecent`);
  each step maps to a write, a tick, an answer, forgetting an old value, or a stutter. *Admins*:
  `AdminTypes`, `AdminAlways` (`AdminRemains`): a step that takes the last role away is one of
  the recorded mishaps, given that no revocation is aimed at the one who asked for it (`Aimed`),
  that a purge past its check is of an account without the role or of one that was given it
  since (`regained`), and that rows refer to boards that live (`AdRows`). *Support*:
  `SupportTypes`, `NothingIsMissed` (`NothingMissed`): readings are never in the future
  (`SpClock`), what was neither shown nor overlooked is later than the other side's last reading
  (`SpUnread`), and two open sessions of a user were opened at once (`SpSingle`). *Offers*:
  `OfferTypes`, `OneOfferAlways` (`OneActiveOffer`), `ShownAlwaysBilled` (`ShownIsBilled`):
  without twins one request creates at a time, and before it inserts all others are off
  (`OfAlone`); a row on sale says of its discount what the provider says (`OfHonest`). *Promo*:
  `PromoTypes`, `OncePerAccountAlways`, `ProviderFollowsAlways` and `CapAlwaysHeld` (`CapHeld`,
  an action property). The claims on a code are its records and the redemptions between claim
  and record; `PmCount` bounds them by the counter, `PmLone` allows a request its own discount,
  and `PmHolds` says which record or discount a request at a step has.
* **AccountsProofs**: `TypeCorrect`, `OneDevice`, `ResetsEndSessions`, `OnePassword`,
  `OneWorkingLink` and `LinksUsedOnce`, all properties of `accounts`. `AcAlone` is what having
  no rival means, `AcAuth` that a request knows the newest password or is late; with them
  each property becomes inductive once it also says what a request about to add a session, a
  row or a link will find (`AcDevice`, `AcRows`, `AcLinks`).

*Only model-checked*: `DueChangeApplied` and `AllServe`, liveness properties, for the prover has
neither ENABLED nor fairness; `ScheduledDowngradeHeld`, which holds for one handler at a time
and not for handlers that overlap (section 7); and `MilderIsPublished`, a statement about a sum
over all inputs of one function, every one of which the run tries. Induction over data and
RECURSIVE operators are also out of the prover's reach; no module uses the latter, and the
cascade of Discussion, a function defined on the depth of a thread, is reasoned about as the
least set closed under replies.

## 7. Disagreements between the code and what is said of it

Those with a run are in section 4. These follow from the models as well (each is a path
the model has and the properties except or do not claim), and are listed for the reader of
the code:

* *Billing.* A comp granted between a reconcile's read and its write is overwritten
  (paddleBilling.js:187). The webhook of a downgrade's own item swap can lower the customer at
  once (:530). An upgrade while a downgrade is scheduled is charged and not granted until its
  date (:210). Under Stripe, two checkouts that both read no customer create one each, and the
  id stored last is the one on file, though there is to be "one Stripe customer per account"
  (createCheckoutSession.js:71): a subscription paid under the other is not listed, and a
  reconcile sets the account free while it is charged. Also under Stripe, the
  `customer.subscription.deleted` of the cancellation that makes room for a comp sets the comped
  account to free: "The reconcile guard preserves 'comped' status" (redeemPromo.js:10) is true
  of `reconcileAccount` and not of the events, which `applyAccountSubscription`
  (accountBilling.js:185) writes as they come.
* *Workspaces.* A plan change between createWorkspace's snapshot and its mirror is overwritten,
  though the mirror "can't drift" (workspaces.js:194), and so is one between the SELECT and the
  UPDATE of the mirror that a reconcile makes of a comped account (accountBilling.js:219). The
  invitation accept counts seats and pending invitations in two queries (invitations.js:71).
* *Promo.* A usage reset with a redemption at work lets a slot be given back that was
  already forgotten; deleting a workspace deletes the redemption records made from it, and the
  account may redeem again ("One redemption per account", redeemPromo.js).
* *Public board.* A quarantined post stays on the public roadmap (getPublicBoard.js:48 filters,
  getPublicRoadmap.js:14 does not). Lexical signals "can never alone reach the hide threshold"
  (spamScore.js:16), but together they score 14, and it is 12. Staleness of the form token is
  the weakest of signs and still decides beside two others: several links, one of them in the
  title, score 10, and with a page left open too long 12. The `guest_id` of a vote "no longer
  decides anything" (togglePublicVote.js:17), but its unique key still refuses the vote of a
  browser that came back from another network. Purging expired spam comments takes the published
  replies below them along. The dashboard accepts a parent comment of another post.
* *Cache.* "Must be called whenever anything ... changes" (resolvePublicTenant.js), but plan
  changes and the console's edits and deletions do not invalidate; a load in flight puts
  the old row back after updateTenant dropped it; the "real upper bound" on staleness is the
  TTL and the time of a query.
* *Support.* Two openings at once make two open sessions, of which the badge knows one;
  writing into a session marks unseen messages of the other side as read; a message may be
  written into a session that was closed meanwhile, where, as one that was closed unread, it shows
  in the queue and in no sidebar badge (admin/support.js:145).
* *Console.* Two administrators can revoke each other and leave none; an admin may also
  deactivate the own row (adminUsers.js:51), or delete the workspace it is in.
* *Boot.* The lock does not cover the child process: after a kill, two scripts can run, and one
  then fails with the "Duplicate column name" the lock is there to prevent. A restart mends it,
  but one orphan in step with a worker can break it once for each new change:
  add-spam-columns.js makes 12 and add-spam-review-columns.js 4, and PM2 gives up after 10
  (`max_restarts`), also on the only worker of a deployment with one instance.

## 8. Not modelled, and why

* *Notifications and mail, uploads*: output and file I/O; an uploaded file is claimed by a
  single conditional UPDATE.
* *API keys, integrations, audit log, analytics*: single-statement rows and reports.
* *Routes and validators*: their refusals change no state; the guards that decide state
  are in the actions.
* *Changelog*: every operation is one statement on one row, and no step of another part
  depends on it.
* *`SKIP_BOOT_MIGRATIONS=true`* switches off what Boot is about.
* *The halves of a comp are not composed*: Promo knows of the account only whether it is comped,
  PaddleBilling and StripeBilling of the code only that it was granted. The product of
  their states is out of TLC's reach, and no guard of one reads the other's history.
* Inside the modelled parts: names, texts, e-mail wording, prices in money (but for Offers,
  where the price is the point), tokens and hashes; in Workspaces subdomains, platform admins
  (both modelled elsewhere) and the authorship a purge reassigns; in Board titles, priorities,
  pins, tags and release dates; in SpamScore the regular expressions that find a sign.
* Known gaps of the code that no property states are in "hazards" with a note each.

## 9. What could follow

1. **Subscription contract** (abstract): an account whose plan is what it last paid for or
   was given until that runs out, refined by PaddleBilling for one handler at a time.
