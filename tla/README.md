# A TLA+ model of pakalon-backend

The backend of Pakalon is a FastAPI application of two worker processes
(`Dockerfile:85`, `--workers 2`) over one PostgreSQL database and one Redis.
It sells a Pro plan through Polar, signs CLIs in with device codes, proxies AI
requests and runs scheduled jobs. This directory holds its model: TLA+ modules
translated from the code under `src/app`, TLC configurations that check them on
small instances, and TLAPS proofs of the properties that matter most for every
value of the constants. `PROJECT.json` maps each definition to the lines it
stands for and each hazard of the code to the properties that watch it.

    tlc -config BillingTwoSubs.cfg MCBilling    # check one run
    tlapm BillingProofs.tla                      # check one module of proofs

## 1. The system

What the parts share, and what makes them hard:

- **Sessions** (`database.py:266-291`). A request reads, awaits, changes ORM
  objects and commits once at the end; an exception rolls everything back. The
  isolation is READ COMMITTED, nothing takes explicit locks, and an UPDATE
  contains only the columns whose value differs from what was read. A flush
  locks the rows it writes until the commit.
- **Two workers**, each with its own in-memory APScheduler: every job runs once
  per worker, and nothing tells a worker that the other has done it.
- **Redis** is used outside the transactions, is written before the commit and
  may be away; then most of its users carry on without it.
- **Polar** delivers webhooks at least once and in any order.

| component | state | operations | what makes it correct | modelled in |
|---|---|---|---|---|
| Subscription billing (`services/billing.py`, `routers/webhooks.py`) | `users.plan`, `subscriptions`, sentinels in `telemetry_events` | the Polar event handlers, the dedup, cancel | nobody is admitted without a paid or a grace period; nobody loses a plan without a cause; duplicates and reordering change nothing | Billing, WebhookTx |
| Access gates (`dependencies.py`, `middleware/auth.py`) | none; read the plan, the latest row, revoked tokens | `get_user_from_token`, `_check_subscription_access`, `revoke_token` | agree with each other and with billing; a sign-out and a deletion last | Billing, DeviceLogin, Accounts |
| Nightly job (`jobs/expiry_checker.py`) | trial days, expired rows, queued reminders | one transaction per worker and night | a run that commits ends every elapsed grace period; a day is counted once; each reminder is queued once | NightlyJob; its expiry also in Billing and WebhookTx, its increment in Accounts |
| E-mail queue (`services/email.py`, `jobs/email_queue.py`) | `email_queue`, dead letters | fetch a batch, send, count, commit | each e-mail is settled, none is given up without a trace | MailQueue |
| Device login (`services/device_code.py`, `routers/auth.py`) | `device_codes`, `device_token:*` in Redis | create, confirm, poll, log out | who is signed in submitted this code, in time | DeviceLogin |
| Rate limit of AI requests (`services/rate_limit.py`) | a sorted set in Redis | prune, count, add; remove when denied | a window admits no more than its limit; Retry-After is enough | RateLimit |
| Trial accounting (`services/trial_abuse.py`, `routers/users.py`, the Supabase webhook) | `users.trial_days_used`, `machine_ids` | sign in with carry-over, delete, reset, count | one trial per person; a deletion lasts | Accounts |
| Credits (`services/credits.py`) | `credit_ledgers` | look up or create, debit, reset | a row counts what was granted on it, within its allowance | Credits, CreditBook |
| Automations (`services/automations.py`) | rows and connectors, jobs in each worker's scheduler, OAuth states in Redis | create, update, toggle, delete, run, connect, restart | schedulers follow the rows; what is switched off stays quiet | Automations |
| Usage, sessions, context gate (`routers/ai_proxy.py`, `routers/sessions.py`, `services/usage_analytics.py`, `services/heatmap_service.py`) | usage records, daily counters, counters of a session | call, stream, report, update, check the window | a full window stops calls; counters stay within what was reported | Usage |
| Model registry (`services/model_registry.py`, `jobs/model_refresh.py`) | `model_cache` | refresh by the job and by readers, look up | a refresh leaves its list valid | ModelCache |
| Media generation (`routers/media.py`) | files shared by the workers, MinIO objects, Cloudinary uploads, paid jobs | ask a provider, poll, download, save, upload | the answer's URL leads to what was asked for; one result is paid for | Media |
| Retries and dead letters (`services/webhook_retry.py`) | `webhook_dead_letters` | three attempts inside the request, minutes apart | a failure leaves a letter | the delay and the rollback in Billing, the e-mail queue's letters in MailQueue |
| Legacy webhook receiver (`routers/billing.py:120-175`) | as billing | a second, older set of handlers | agrees with the first | not modelled, see section 5 |
| Rate limiting middleware (`middleware/rate_limit.py`) | a sorted set per client and route | never installed by `main.py` | | dead code |
| Tools, Figma, storage, telemetry, notifications, audit, dashboards, geo blocking, configuration, schemas | files, external services, append-only rows | proxying, reading, inserting | no protocol of their own | not modelled |

The interactions: the webhook receiver and the admin write the plan that the
gates read on every request; the nightly job writes the same plan and the same
rows, counts the trial days that sign-ins carry over, and fills the e-mail queue,
which the other job drains; a login creates users; the AI proxy asks the rate
limit and the context gate, whose records take the window's length from the model
registry; automations post through connectors that their owner may switch off.

## 2. The modules

Each module is self-contained except WebhookTx, which EXTENDS Billing, Usage,
which EXTENDS ModelCache, Credits, which has an instance of CreditBook, and
NightlyJob and MailQueue, the two jobs of the same worker processes, which both
EXTEND **Processes** (`Workers` and `None`). `MC*` modules give TLC its model
values and symmetry; `*Proofs` modules hold theorems.
Operators marked *Faulty* are variants of the operator after them with a
plausible bug; they are in no specification and serve to show that a property
notices the bug. A transaction is two actions wherever something may come
between: one reads, one writes what it computed from the read.

**Billing** has a webhook, a nightly expiry or an admin override as one step,
and `DELETE /billing/cancel` as two, because it sleeps in retries in between.
Polar is external: `polar` is the truth, `sent` every event it has sent, and the
receiver may take any of them, again and again, in any order. A redelivery finds
its sentinel and stutters; a sentinel remembers whether the event was processed
`early`, before one that was sent before it. `row[s]` is the subscriptions row of
a Polar subscription, `created` the order of `created_at`, `AdmittedAsPro` the
two gates together on the latest row.

**WebhookTx** takes the transactions of Billing apart: `TxBegin` looks the
sentinel up and takes a snapshot, `TxCommit` writes what the handler changed in
it (`Dirty` is the column-wise UPDATE of the ORM), `TxAbort` rolls back;
`JobBegin` and `JobCommit` are the nightly job. Any number of requests and the
job can be in flight at once. `raced` is history: the users whose row the job
expired while an activation of theirs was under way.

**NightlyJob** has the run of each worker: read the users, flush the increments
(their row locks are what orders two workers), expire the grace periods, look up
and queue reminders, commit. A look-up that finds two rows raises and rolls the
whole night back; a worker may be down. A queued mail says which worker queued it
and on which night.

**MailQueue** has `process_email_queue`: a batch read at once, a flush that
locks a row and waits for other runs, the provider's answer, and one commit for
the batch together with its dead letters. A crash forgets what is uncommitted
but not what was delivered.

**DeviceLogin** has the row of each device, the approval cached in Redis (whose
write may fail and is not rolled back), confirmations split into read, flush and
commit, polling through the cache or, also when an approval is cached but Redis
does not answer, through the row, and sign-out.

**RateLimit** has one user's sorted set. A request reads the clock, later runs
its pipeline (one step: Redis executes it at once), and if denied reads the oldest
score (`ReadOldest`), of which the wait is computed, and removes its own entry
(`Refuse`) in two further steps, or vanishes before either. The clock may be read up to
`MaxDelay` before the pipeline runs. `admitted` and `denied` are history: every
admission, and the last refusal until another pipeline runs after its reading.

**Accounts** has users and machine links. `GetOrCreateUser` reads the identity
vectors (login, e-mail address, machine) and `SignInCommit` writes the carried
days; the Supabase webhook, a deletion with its cascade, the requests of an account
that ask whether it is deleted (`WorkBegin`) and those that do not (`UngatedBegin`:
telemetry, Polar's activation, reminders of its end), one scheduler's night and
the admin's reset are transactions of their own. `unaware` holds the rows whose
writer overlapped the deletion or never asked. `served` counts, for each vector,
the nights of trial that its accounts had together; `lag` the nights that a
sign-in overlapped; `excused` holds the vectors whose trial something else than a
sign-in has changed, `hooked` those that the Supabase webhook gave to a new row.

**Credits** has the ledger of one user. Each of `GetOrCreateLedger`,
`DebitCredits` and `ResetPeriod` reads the row of the month, and its commit
replaces the row or writes the computed number, if the row is still the one it
read. `granted` is what was charged on a row; `overlapped` marks a row on which
two debits were under way at once. **CreditBook** is what the ledger promises, in
two actions: open a row, or charge one on top of a number it has held. Credits
implements it with `rows <- ledger` and the plans' allowances.

**Automations** has the rows, the scheduler of each worker, the requests in
flight with what they read, and runs. A request tells the scheduler of its own
worker and commits later, or fails, or its worker ends. A creation never commits:
its route raises after the scheduler was told. A restarting worker selects the
rows (`Restart`) and schedules the enabled ones of that selection before it serves
(`Restore`); the other worker may commit in between. A run reads its automation, then the connectors, then posts.
`agreed` is what a worker selected or changed alone; `onAt` and `offAt` order the
requests that switch something on or off.

**ModelCache** has the table of models and refreshes in flight: fetch, mark all
stale (committed at once, by the schema check), read, write. **Usage** has the
calls that passed the gate, the records they leave, the day's counters and those
of a session, each read and then overwritten. `filled` is history: the models whose
window a record that no other of the model overlapped has filled, and no record
since has said otherwise.

**Media** has a request at each step between two awaits: the provider it asks,
polling, the download, the file opened (and emptied), written and read again by its
path, the upload to either store. The content of a file or object is the request it
was made for, or `Torn`. A request may name any path, the one another request has
generated included, and a call that fails may have had its effect: a POST that
times out has been paid for, an upload that raises may be stored.

## 3. What is checked

| run | bounds | what it shows |
|---|---|---|
| billing | 1 user, 2 subscriptions, every event type, 3 events redelivered and reordered, 4 days | `NoFreeRide`, `ProHasLiveRow`, `DowngradeJustified`; `PaidUserServed`: a receiver that caught up in order admits whom Polar holds active and turns away whom it paused |
| webhook_tx | 1 subscription, 2 requests and the job in flight, 4 events of three types, 2 days | what the interleaving leaves of Billing's promises: `NoFreeRideUnlessRefunded` and `LiveRowUnlessRaced` |
| nightly | 2 users, 2 workers, 3 nights | `NightSettled`; that all runs of a night raise only after two workers queued one reminder on an earlier night (`NightLostToOverlap`); that the row locks keep trial reminders unique (`TrialReminderPerThreshold`) |
| mail_queue_two | 2 e-mails, 3 attempts, 2 workers, 1 crash | `FailedHasLetter`, `SentWasDelivered`, and under fairness `EveryMailSettled` |
| device_login | 1 device, 2 users, 2 requests, 2 codes | `ApprovedWasSubmitted`, `LoggedOutStaysOut` |
| rate_limit | 4 requests, 2 in flight, 2 limits, a clock reading 1 tick old | `WithinLimit`, `RetryAfterSuffices` |
| automations | 1 automation, 2 connectors, 2 workers, 3 requests (2 in flight), 1 run, 1 crash | `SchedulerAgrees`, `QuietWhenOff`, `ConnectorWasAskedFor` |
| usage | 1 model, 2 refreshes, 3 calls (2 in flight), 1 session, 2 days | `RefreshSettles`, `GateHolds`, `CountersWithinReports` |
| accounts | 2 identities with two logins and one machine, 2 requests in flight of 3, a trial of 2 days, 3 nights, 1 reset | `TrialServedOnce`, `ErasedStaysErased` |
| credits | 3 requests in flight of 4, 2 months, 3 plans, 1 plan change | `LedgerCounts`, and that Credits implements CreditBook (`ImplementsBook`) |
| media | 2 requests, an image with two providers and a video with one, two paths with one base name besides the generated ones, 1 poll | `UrlLeadsToOwn`, `PaidOnce`, and under fairness `EveryRequestAnswered` |

Each module has a type invariant, checked in its run.

Why the bounds are enough: two of each actor meet in every pair-wise race of the
code, and no handler looks at more than two rows, two sentinels or two e-mails;
a third event is what lets an older one arrive after a newer pair, a fourth what
lets a nightly job outlast a revocation and a reactivation. Grace and periods of
one or two days, a trial of two or three and a window of a few ticks pass through
every boundary (before, on and after the limit) within the clock's bound. A third
transaction over the ledger is a reset between two debits. The theorems of
section 4 remove the bounds for what they cover. A batch of mail_queue_two holds
both e-mails; the proofs have any batch size.

Deadlock is not checked: the clock, the events and the requests are bounded, so
every behaviour of the models ends.

Fairness is assumed in two places: a run of the e-mail queue, because it is started
every five minutes, PostgreSQL grants row locks and `send_email` has a timeout; and
a media request, because each of its awaits has a timeout and polling is counted
(the end of its worker is left out there). The nightly expiry is not fair: a
look-up of its transaction may raise every night (below), so that an elapsed grace
period ends is no property of this code. What holds is `NightSettled`, for a night
on which a run commits, and `NightLostToOverlap`, for how a night is lost.
Users, admins and Polar are never obliged to act, and a provider may refuse every
time. Crashes are bounded, not fair.

One run ends in a counterexample, *accounts_reset_doc*: `trial_abuse.py:59-60`
says that the days of all prior accounts are carried over "to prevent trial resets
via account deletion + re-signup". The Supabase webhook inserts the row of a new user
with no days used, and the sign-in that follows finds the row and carries nothing
over (`NoTrialReset`). `TrialServedOnce` is the promise for the rows that sign-ins
create.

Differences between the source's words and its behaviour, which the modules
reproduce and no run is spent on. Billing and sign-in:

- `webhooks.py:55` an update only syncs the period end: a late one reactivates a
  revoked subscription and hands the Pro plan back (`HandleActivated`
  takes both events).
- `webhooks.py:70` no event is processed twice: two concurrent deliveries both
  are, leave two sentinels, and every later delivery then raises (`TxBegin`).
- `webhooks.py:53` an activation upgrades its user: not if the nightly job
  commits in between, because the plan that was read as "pro" is not written. The
  other way round, a job that has read a past-due row and a free plan expires the
  row of a user whom an activation has made Pro meanwhile, and does not write the
  plan: a Pro user whose row is expired, whom the gates refuse (`JobCommit`,
  `Dirty`). By `LiveRowUnlessRaced` this overlap is the only way to lose the row.
- `billing.py:471` "No grace period for refunds/disputes": the refund cancels the
  row and sets `grace_end` to now. A job that read the row past-due before writes
  the status alone, so the row is expired with the refund's time as its grace
  period, and the gate admits its owner until then if the plan is Pro again; hence
  the day of the refund in `NoFreeRideUnlessRefunded`.
- `expiry_checker.py:25` "Downgrade pro users whose grace period has elapsed": two
  workers may queue a renewal reminder or a grace warning twice. On a later night
  that asks for the same reminder, `scalar_one_or_none` (`email.py:161`) raises and
  the whole job rolls back, downgrades, increments and all; nothing removes the
  double, so every night on which that user is due this reminder again is lost
  (`LookupRaises`, `Raise`), and every elapsed grace period of any user lasts on.
- `device_code.py:176` a new code replaces the old one: polling still returns the
  cached approval of the old one.
- `billing.py:432` a resume stamps a fresh `period_start`: it stamps it only if
  it is NULL, and it never is (`ResumedRow`). For the same reason
  `days_into_cycle`, "0-30" by `billing.py:305`, counts on after a renewal.
- `auth.py:135` lets a canceled row in during its grace period; the second gate,
  `dependencies.py:112`, refuses every canceled row (`SubscriptionGate`).
- `email.py:90` promises one e-mail per day: a second worker that runs the job
  after the first has committed counts a second day and queues a second reminder
  (`ReadUsers` after `CommitJob`), and a crash before a batch commits sends its
  e-mails again (`Crash` after `SendSucceeds`).
- `expiry_checker.py:177` promises a reminder for each period that ends:
  reminders of the first period suppress those of later ones (`Live`).
- `device_code.py:242` refuses a code that was used: two confirmations that both
  read "pending" both commit, the second over the first (`ConfirmFlush` does not
  look at the status again).
- `rate_limit.py:51` allows what is within the limit: the entry of a denied
  request counts until it is removed, or for the whole window if it is not.
- `rate_limit.py:78-87` computes the wait from the oldest entry and removes the own
  one in a second command. A pipeline in between is not in the count: with a window
  of 3 ticks, one request admitted at 0 under limit 1, another denied at 2 and told to
  wait for the first to leave, and a third admitted at 3 under the limit 2 of a plan
  bought meanwhile, the second is refused again at 5 under its limit of 1, although
  it has waited. `RetryAfterSuffices` is about a window left alone from the reading
  on.

Accounts, credits and the rest:

- `users.py:142` deletes the account even if the cascade fails: on PostgreSQL the
  failed statement has aborted the transaction.
- An admin's reset may be overwritten by a night that read before it; accounts
  that share a vector only through a third are not seen as one person;
  `detect_trial_abuse_signals` only logs.
- `users.py:111` "Hard-delete cascade: remove all user data": what a request under
  way at the deletion commits stays; the two ingest endpoints of `telemetry.py`
  (`:135-188`, `:260-318`) take the account from the token alone and store events
  of a deleted account; Polar's activation (`billing.py:342-353`) inserts its
  subscription, and the nightly job queues the reminders of that one
  (`UngatedBegin`). `ErasedStaysErased` says that nothing else is left.
- `credits.py` raises "if balance would go negative": each debit is held to the
  balance that it read, and two that overlap may both be granted for one
  (`DebitCommit`; hence `~overlapped` in `LedgerCounts`). A row made while the
  user was free has an allowance of nothing, which exempts, until the month ends.
- `automations.py:514` promises a log entry of each run: `run_automation_job`
  never commits. A PATCH with an invalid schedule removes the job and then rolls
  back; other workers' schedulers keep what they have until a restart, so two
  workers run each job that both restored.
- `routers/automations.py:94-97`: `POST /automations` passes
  `missing_connectors` to its response twice, raises a TypeError and rolls back, so
  no creation ever commits; the job that it scheduled stays in the worker, and finds
  no row (`Create`, `Fail`).
- `sessions.py:278` "Block new assistant messages when context window is exhausted":
  the next lines ask the gate for messages of the role "user" only, and an
  assistant's message passes a full window (`CreateMessage`; `GateHolds` is about
  the user's).
- `model_refresh.py` says that a failure keeps the stale cache: the schema check
  has committed the stale marks by then (`MarkStale`). `POST /models/refresh`
  reads an attribute that users do not have.
- A stream or answer without usage records no tokens and reopens a full window
  (`ProviderAnswers`); a full window is otherwise reopened only by a report.
- `media.py:12` promises a presigned or Cloudinary URL: the fallback's is
  unsigned, and the provider's own is returned when both stores fail. The status
  of a download is not looked at. A job that outlasts the polling is paid and lost.

What `PaidUserServed` needs: out of order, an older activation revives a revoked
row; with two subscriptions, the gate looks at the latest row only and an expiry
or a refund of one takes the plan away from the other; a refund takes the plan
although Polar still holds the subscription active. `CaughtUpInOrder` leaves
these out, event by event, and lets every other history in.

## 4. What is proved

TLAPS checks every type invariant, safety invariant and action property of the
passing runs for every number of users, subscriptions, workers, devices, e-mails,
requests, months, models and sessions and every value of the bounds, and two
refinements. They rest on each module's named assumptions alone: bounds, periods
and allowances are natural numbers, what is counted is finite (subscriptions,
workers), NULL is no value of a column, and what the code keeps in different
columns, directories or tables does not coincide (in Accounts logins, e-mail
addresses and machines; in Automations rows and connectors; in Usage session ids
and days), and in Media that generated names, 8 hexadecimal digits of a uuid, differ
from one another: two that coincide are two requests with one path. TLC evaluates the assumptions in
every run. Only two theorems have a hypothesis of their own: `ProHasLiveRow` and
`LiveRowUnlessRaced` need admins who do not grant the Pro plan.

The pattern is the same throughout. A handler reads, waits and writes, so the
invariant says of everything in flight what its commit relies on and how far that
may be out of date; one lemma per action, or per kind of step, shows that it is
kept; the promise follows from the invariant in a lemma of its own.

*BillingProofs*, on Billing. `TypeCorrect`; `ProHasLiveRowInvariant`, inductive
together with the types; `DowngradeIsJustified`, an action property proved action
by action; `NoFreeRideInvariant`. The gates read only the row, the promise is
about what Polar sent, so the invariant `IInv` ties them: `RowsBacked` (each
period end came in an activation, each grace period from a revocation's sentinel),
`SentinelsUnique` (an event leaves one sentinel, so a redelivery cannot restart a
grace period) and `CancelHoldsRow` (a cancellation in flight creates no row).
`GatesAreBacked` shows that `IInv` implies the promise. `PaidUserServedInvariant`
compares the row with Polar itself. A receiver that has processed nothing early
has processed a `Prefix` of what was sent, so at the end the last event it
processed is the last one sent; `Told` says that this one tells Polar's state and
period (`PaidAgain`: after a revocation the next is a payment), and `RowFollows`
that the row, its period end and the plan are what that event leaves, apart from
a local cancellation, an expiry and an admin.

*BillingProofs*, on WebhookTx, for any number of requests in flight.
`TransactionsTypeCorrect`: no combination of columns written by different
transactions leaves a row that is none. For `NoFreeRideUnderInterleaving` the
invariant `TxIInv` follows every period end to an activation (`EndsBacked`) and
every grace period to a revocation or a refund (`GraceBacked`), of a row in force
or not, because a commit writes single columns; `CopiesOfOneDay` says that the
sentinels of one event are of one day, so even a doubled revocation grants one
grace period; `AbsentRows` that what was read stays. `LiveRowUnlessRacedInvariant`
adds `ActivationsSeeLive`: an activation that writes no status, because it found
the row active, still has a live row. `CurrentStepsAreAtomic` and
`CurrentCommitsImplementBilling` say what Billing, with one step for each handler,
has to do with the real transactions: under the mapping `OneSentinel`, which
forgets that a sentinel may have copies, a step of WebhookTx is a step of Billing
unless it commits a stale read (`CommitsCurrent`: the row and plan of the event's
owner, the missing sentinel, the elapsed rows are as they were read). A
version check in `get_session` would thus give WebhookTx all of Billing's promises.
`RefundsSeeOne` and `JobHasWork` keep what the first read has tested.

*MailQueueProofs*, on MailQueue. `TypeCorrect`, `FailedHasLetterInvariant`,
`SentWasDeliveredInvariant`. `AttemptLeft` is the strengthening: whatever is
pending or in a batch has an attempt left, also by the stale count of a worker
that waited for a lock; without it a count might pass its maximum. On NightlyJob,
which fills that queue: `NightlyTypeCorrect`; `NightSettledInvariant`, because a
run that has ended the elapsed grace periods knows each one that is left
(`Ended`) and a user whose row expired is free (`ExpiredAreFree`);
`NightLostToOverlapInvariant`, because two live mails of one reminder come from
different workers that both committed on one night (`DoubledByOverlap`), and only
such a pair makes a look-up raise (`RaisedByDoubled`);
`TrialReminderPerThresholdInvariant`. There `OneCounts` is the row lock (at most
one run has counted a day of a user), `RemindedUpTo` and `NextReminded` that a
threshold which was passed, or is passed by the run that counts, has a reminder,
and `OneReminder` that it has no second.

*ProxyProofs*, on RateLimit. `TypeCorrect` and `WithinLimitInvariant`. `Kept` is
the heart: an admission whose entry is gone is a window old, because pruning and
the key's time to live only drop what no later pipeline would count. With `Recent`
(clock readings are at most `MaxDelay` old) and `Distinct` (ids are), the earlier
admissions of a window map one-to-one into the entries the pipeline counts. The
window is shortened by `MaxDelay`: two workers may run their pipelines in the
other order, and the full window does not hold then. `RetryAfterSufficesInvariant`:
the wait is rounded up from the oldest entry, which may be the refused request's
own; `WaitFreesOne` says that from the reading of the oldest score until another
pipeline runs, the entries left when the wait is over are fewer than the limit, or
one of them has left the window, and `OwnEntryGoes` that the own entry is there no
longer than the refusal is under way.

*ProxyProofs*, on Usage and ModelCache. `RefreshSettlesInvariant`: a refresh that
met no other has read the present table (`Lonely`, `ReadIsPresent`) and nothing is
under way when it has written (`SettledRests`). `GateHoldsInvariant`: a record that
no other of its model overlapped is the newest of the model when it commits
(`AloneIsNewest`, from `StampsDiffer`: no two records have one time), so a window
that is noted as filled is what the gate reads (`FilledIsFull`).
`CountersWithinReportsInvariant` bounds the counters of the days by the tokens of
all records, although a lost update may leave a counter at less. `Booked` says that
there is an assignment of the records' tokens to days that bounds every counter
and every counter a call has read; it is a sum over a finite set, and the facts
about such sums (`SumsUnique`, `SumsExist`, `SumOfSplit`, `SumOfMonotone`) are
proved by induction on the subsets of a finite set, which the library's
`FS_StrictSubsetOrderingWellFounded` and `WFMin` give without an operator
parameter.

*CreditsProofs.* `TypeCorrect`, `LedgerCountsInvariant` and
`LedgerImplementsBook`, the refinement. What a commit writes was computed from an
earlier read, so the invariant says of every transaction in flight what its commit
relies on: `ReadsPast` (it has read the present row or an earlier one, so a
replacement is always noticed), `ReadsHold` (while the row is the same, so is its
allowance, and the use that was read is a number it has held), `DebitFits`. With
`SeenGranted` a write never counts more than was granted; `ReadsPresent` and
`AloneUnlessOverlapped` make it count exactly that when no two debits overlap.
Three lemmas carry the induction, one for each kind of step: `BeginPreserves`,
`InsertPreserves`, `ChargePreserves`. `StepImplements` maps every commit to one
step of the book, from the same invariant.

*DeviceLoginProofs.* `TypeCorrect`, `ApprovedWasSubmittedInvariant`,
`LoggedOutStaysOutInvariant`. An answer comes from the row or from the cache, and
both were written by confirmations that checked the code earlier; so a
confirmation in flight, the cache, the row and the answer each trace back to a
submission in time (`TxSubmitted`, `CacheSubmitted`, `RowSubmitted`,
`AnswerSubmitted`). A new code does not break the trace because codes are never
drawn twice (`CodesDrawn`) and a flushed confirmation holds its row
(`LockHoldsRow`). A revocation outlives its token (`RevokedUntilExpiry`).

*AccountsProofs.* `TypeCorrect`, `TrialServedOnceInvariant`,
`ErasedStaysErasedInvariant`. One trial serves all accounts that share a vector
because its nights are always recorded somewhere: in the row of some account with
the vector (`SomeAccountCounts`) and of every one on trial (`TrialsCount`), in
what the night has read (`CountedTrials`; `LeftOut` for the accounts it does not
count) and in what the sign-ins under way carry (`SignInsCarry`). The tie between
two accounts is the carry-over alone, hence the exceptions `excused` and `hooked`.
A deletion lasts because what is in flight is doomed, passed the gate before it or
never asks (`TxKnowsDeletion`).

*AutomationsProofs.* `TypeCorrect` and three theorems whose arguments share only
the shape of a request. `SchedulerAgreesInvariant`: if no request for the row has
begun since, the row is as the request read it and its worker's scheduler holds
what it will write (`Follows`); a worker that has selected and not yet scheduled
holds the row in its selection (`Holds`, `Agrees`), or a change has begun since. `QuietWhenOffInvariant`: what was switched off
last is off and no request in flight is about to switch it on (`OffHolds`).
`ConnectorWasAskedForInvariant`: every state in Redis, and every callback past the
comparison, belongs to a flow that the user began (`StatesAsked`,
`CallbacksAsked`).

*MediaProofs.* `TypeCorrect`, `PaidOnceInvariant`, `UrlLeadsToOwnInvariant`. What
a request has bought is not among the providers it has left (`Ledgers`). What a
file holds was made for a request with its path, or is torn, and then two requests
have that path (`Made`); what was read from it, an object and an upload have the
base name of that path (`MadeAs`, `Traces`); so the answer's URL leads to the
request's own result, or to that of one that shares its name, and names are shared
only where an output path was chosen (`OwnPath`). `RequestsRunDown`:
every step of a request lowers the number of steps it has ahead (`Ahead`), which
its list of providers and `MaxPolls` bound at the start and no step of another
request changes. With this, a request can fail to be answered only by not taking
its next step.

Only model-checked: liveness under fairness, which the prover does not reach
(`EveryMailSettled`, `EveryRequestAnswered`). What
`RequestsRunDown` leaves of the last is that an unanswered request has an enabled
step, and that the step is taken.

## 5. Limits of the model

- An event without `event_id` and `id` leaves no sentinel and is processed at
  every delivery (`webhooks.py:72`); the events here have one.
- A user exists when an event names it; refunds with two active rows and
  deliveries with two sentinels raise, roll back and are disabled here.
- NightlyJob has at most one subscription per user, webhooks in the daytime only
  (their races are WebhookTx's) and every queued e-mail as pending or sent; a
  reminder that failed for good may be queued again. In-app notifications are
  left out. Database deadlocks between two runs are a case of `Down`.
- DeviceLogin draws every code new and treats the two confirmations, which differ
  in how the user is found, as one. `LoggedOutStaysOut` is about recorded
  revocations while Redis answers: the code admits a revoked token during an
  outage, and says so.
- RateLimit is about requests that reach Redis; `ai_proxy.py:239` lets them
  through when it does not answer. Clocks of the workers agree.
- Accounts has one scheduler's nights (the race of two is NightlyJob's), and
  leaves profile settings out. Automations leaves out the text that is posted.
  Usage has one user; a record's time is its place in the order of records. Media
  leaves out the end of a worker process.
- Credits: no route calls `debit_credits` yet; its caller is taken to commit what
  it returns and to roll back what it raises. The plan "trial" is never used.
- `with_retry`: its delay and the rollback that takes its dead letter away are in
  `CancelBegin` and `CancelFail`. Portal and checkout pass no session, so after
  the third failure the dead letter itself raises.
- The legacy receiver queries a column that `Subscription` does not have, raises
  and rolls back for every event but one: a revocation or cancellation that names
  an e-mail address sets its plan to free.
- The middleware for rate limits is never installed; `services/storage.py` is not
  used by media; the admin's `send_reminder` imports a function that does not exist
  and changes nothing.
- The geo database is renamed into place from a temporary file that both workers
  write; the tools' registry is seeded by a check and an insert that two workers
  may race. Neither has further state. Notifications, audit, support, health,
  Figma and the dashboards insert, read or proxy.

## 6. Plan

Done: the modules of section 2 with their runs, and the proofs of section 4: every
safety invariant and action property, the ledger's refinement and that of the
transactions with current reads. In this order:

1. The same reduction for the other components that split a request into a read
   and a commit: which of them are atomic when their reads are current, so that
   the losses listed in section 3 are those of stale reads alone (Accounts,
   Automations, Usage).
2. Liveness of the night, once a failing look-up no longer takes the rest of its
   transaction along. For `EveryMailSettled` there is no measure like that of
   `RequestsRunDown`, since a stale count may set the retries of an email back.
3. The hazards without a property: reminders of an earlier period
   (`email.py:151`), revocation during an outage of Redis (`auth.py:74`), payloads
   without an id (`webhooks.py:72`), two active rows (`billing.py:469`). The code
   as it is keeps no promise in these cases; a property has to wait for one.
4. The legacy receiver beside the first one, once it can process an event.

A module gets one run that asks all of its questions where one instance can
answer them; counterexample runs are kept for what a reader would least expect.
