# UBB: specification, model checking and proofs

UBB is a usage-based billing platform: tenants report usage of their customers,
UBB costs and prices it, draws prepaid wallets down or invoices in arrears,
stops customers that ran out of money, and tells tenants about all of it. The
platform is the Django project in `src/ubb-platform`; PostgreSQL holds the
state, Redis the live counters, Celery runs the tasks and beats, Stripe moves
the money.

This directory holds the TLA+ modules of its core, the TLC configurations that
check them, and TLAPS proofs. `PROJECT.json` maps every definition to the lines
it models.

## 1. Inventory

Paths are relative to `src/ubb-platform/apps`.

| component | state | operations | what is hard |
|---|---|---|---|
| Wallet ledger (`billing/wallets`) | balance, ledger rows by idempotency key, credit lots (grants), slices of debits the lots paid for | debit, credit, withdraw, usage drawdown and its repair, usage refund, mint, void, top-up credit, dispute and refund clawback, lazy expiry and its sweep | replays, expiry inside other operations, overdraft, reversals of money already spent, out-of-order `charge.refunded` |
| Transactional outbox (`platform/events`) | event rows, handler checkpoints, broker messages | `write_event`, `process_single_event`, `sweep_outbox`, `cleanup_outbox`, product gate and cache, `announcement_status` | lost and duplicated messages, two workers, a crash or a raise halfway through the handlers, retry limit |
| Live balance (`billing/gating/services/live_counter.py`, `gating/repair.py`) | Redis counter, repair candidate row | debit in the recording's transaction, credit mirror, MIN-merge, two-pass repair | Redis takes part in no transaction; stale seeds; lost mirrors |
| Stop and suspension (`live_counter.py`, `stop_signal_service.py`, `manual_hold.py`, webhooks) | one ledger row per stop line, stop flag, owner status and its one reason | drive a stop, drive a clear, resume, hourly passes, payment failure, lost dispute, manual hold, kill sweep | several lanes see one crossing; parts run without a lock; causes overlap |
| Units of work (`platform/work`) | units and the units they contain, their books, ceilings, ends and announcements | start, report, close, kill, expire, cascade, settle late, sweep | reports racing closes and kills; kills after the commit; two levels end together |
| Reservations (`billing/wallets/reservations.py`) | agreed prices held against a wallet | reserve, release, backstop | racing starts; a listener that fails and is swallowed |
| Usage recording (`metering/usage`) | postings, stop acknowledgements | record, replay | effects on Redis inside the transaction, kills after it |
| Costing and pricing (`metering/pricing`) | cards, books, receipts, unresolved postings | price, settle late, charge delivered work | an amount that comes after the unit has ended or its month was closed, and may be a credit |
| Top-ups (`billing/topups`, `connectors/stripe`, `api/v1/topups.py`) | attempts, charge ids | checkout, automatic charge, credit, expire, reconcile, refund | the webhook, the task, the sweep and the reconcile race for one payment; payments that come days after their session; a second session |
| Stripe receiver (`billing/stripe/receiver.py`) | received events | claim, handle, save, reclaim, cleanup | duplicates, a slow handler, a process that dies between commit and save |
| Webhook delivery (`platform/events/webhooks.py`) | endpoints, delivery checkpoints | deliver | POSTs inside the dispatch's transaction |
| Postpaid invoicing (`billing/invoicing`) | usage invoices, the residual ledger | claim, push, split, record, reconcile, repush | a crash between Stripe's calls, two claims, a renewal that finalizes meanwhile, a repush that decides on an old row |
| Platform billing (`billing/tenant_billing`) | periods, carries, fee invoices | accumulate, reconcile, close, invoice | unlocked reads, the end of a month, a price that comes late, a record that is lost |
| Patrol (`gating/patrol.py`) | none of its own | sweep over ceilings, re-mint stops, free reservations | a re-mint racing a late delivery |
| Subscriptions, referrals | subscriptions, seats, rewards | sync, accrue, reconcile | drift against Stripe |
| Tenants, customers, plans, members, event types, audit | records | CRUD | little concurrency |
| API, SDK, UI, tools | none | | presentation, generated code |

How they interact: a recording debits the live counter and may open a stop line
inside its transaction, writes `UsageRecorded` to the outbox, and the outbox's
billing handler draws the wallet down later. Every positive wallet movement
mirrors to the live counter after its commit, and that hook may resume a stopped
owner. The hourly beat merges the counters toward the database, drives both stop
lines both ways and repairs the counter upwards. Webhooks claw money back,
suspend and hand over. A report is taken up by its unit and the unit that
contains it; the kills it finds run after its commit, and the patrol makes up for
those that were lost. A low balance starts an automatic top-up, whose credit is a
wallet operation. Month ends push usage to Stripe (postpaid customers) and close
what UBB itself bills a tenant.

The hazards, each at its line and with the properties aimed at it, are in
`PROJECT.json`.

## 2. Modules

| module | models | notes |
|---|---|---|
| `WalletLedger` | one wallet | one action per operation; each is one database transaction under the wallet's row lock, so each is atomic |
| `WalletPools` | what the wallet promises about money | three amounts and the movements between them; no lots, keys or time |
| `LiveBalance` | one owner's counter beside its wallet, the transaction of a recording and the drawdown handler | the wallet is reduced to its balance |
| `WalletProofs` | | proofs about the three above |
| `Outbox` | events, workers, the broker | a dispatch is several steps: the handlers run one by one inside the worker's transaction |
| `OutboxProofs` | | proofs about `Outbox` |
| `StopSignal` | one owner's stop and suspension | every access to Redis outside a lock is a step of its own |
| `StopSignalProofs` | | proofs about `StopSignal` |
| `Work` | units of work, reservations, late amounts, the patrol's unit legs | composes work, wallet and announcements; the wallet is its balance, the outbox one announcement per unit |
| `WorkProofs` | | proofs about `Work` |
| `TopUps` | attempts, the charge task, Stripe's payments and events, the webhook receiver | composes the top-ups with the receiver they rely on |
| `TopUpsProofs` | | proofs about `TopUps` |
| `UsageInvoice` | the push of a postpaid owner's months and the residual between them | Stripe's objects are named by their idempotency key or metadata |
| `UsageInvoiceProofs` | | proofs about `UsageInvoice` |
| `PlatformBilling` | what UBB bills a tenant: periods, passes, the invoice job | months are the unit of time; Stripe forgets its keys between two |
| `PlatformBillingProofs` | | proofs about `PlatformBilling` |
| `Sums` | | lemmas about sums over finite sets, for the proofs |
| `MC*` | | constants for TLC |

The abstract specification is `WalletPools`: what the wallet promises about money.
`WalletLedger` is checked and proved to implement it, with the mapping `PoolsOf`.

**WalletLedger.** `_execute` is the spine: lock, lazy expiry, replay probe,
money rule, ledger row, balance, settling of the lots, events. `Expired` is the
wallet after `expire_due`, `Posted` the probe, `Commit` the rest. The ordered
loops over lots are one operator, `Waterfall`: what `take = min(cap, left)` over
ordered lots computes. Idempotency keys are tuples: what the code derives has the
prefix the code puts in front, and the keys that debit, credit, withdraw and
refund take raw from their callers share one family. `outbox` is a bag, so that an announcement written twice
shows. `stripe` records how many refunds of a charge Stripe made and the latest
cumulative amount an event told.

**Outbox.** `status` is what is committed: `process_single_event` holds the row
lock from its read to its commit, so "processing" is never seen by another
session and the sweep's reclaim of stuck rows finds nothing. `done` and `at` are
a worker's uncommitted progress. `HandlerRaises` commits what returned before
the raise, as the code does, because the exception is caught inside the
transaction; `Abort` (a dead worker or a broken transaction) undoes all of it.

**LiveBalance.** A recording reads its seed, runs the debit script, then commits
or rolls back; the drawdown follows. Credits post and then mirror. The repair
measures under the billing lock and decides in a second step, because
recordings debit Redis in between.

**StopSignal.** `lock` is the owner's row lock, held by a recording from the
line it drove to the end of its transaction and by the wallet passes
throughout. `rec[r]` is the step a recording is at and what its transaction won;
`lift[p]` the step of whoever runs `resume`. Inside the lock `resume` is three
steps (its Redis writes are visible at once, its ledger writes at the commit);
outside it is five. `Starts` are the balances and the month's charges it may begin
with.

**Work.** Every writer locks the parent's row and then its own until its
transaction ends, so a transaction is one step. What is decided before the locks
is a step of its own (`Admit` for the money check of a start, `ListStale`,
`ListAbandoned` and `ListOver` for the lists of the sweepers and the patrol), and
so is what runs after the commit (`ExecuteKill`). `Flip` is `_flip` with `_cascade` and the listeners; every action
that ends a unit goes through it. A posting's cost and price are "known",
a "credit", "unresolved" or, for a price in the fixed regime, not applicable; a
credit that settles late takes the totals down (`Worth`), and the patrol kills by
its list although the total may have fallen since.

**TopUps.** `att` is the attempt, `pay` the payment at Stripe, `saved` the answer
that Stripe gives again under the same key, `row` the receiver's row. The payments
of a Checkout attempt are its sessions: Stripe's key lives a day, so a repeated
call gets a second one (`CreateSession`), and a session may complete before it is
paid (`CompleteUnpaid`, `PayDelayed`). `aged` holds the PaymentIntents that the
reconcile no longer lists; four days hold ninety-six of its passes, so a payment
that a pass could credit is credited before it ages (`WindowPasses`). The task
takes its locks twice, around the charge (`Gate`, `Charge`, `Settle`). The
handler's transaction and the save of the row after it are two steps (`Handle`,
`Save`), so a process can die between them.

**UsageInvoice.** `Claim` is Stage 2 of `push_customer_period`, `Resolve` and
`Persist` Phase 2a, `Pin` and `Split` Phase 2b, `Finalize` and `Record` the rest.
`stale` remembers the months whose pointer was written by a worker that had lost
its claim; that is where the finding below begins. The operator's command reads a
row (`RepushRead`) and later saves it pending whatever it has become
(`RepushSave`); `asked` holds the rows read, `surplus` the residuals of recorded
months that a save made pending again.

**PlatformBilling.** A posting takes its `created_at` before its commit and is
accumulated later by its handler, in two steps. The hourly pass and the close
list, read and write in separate steps; only the close itself holds the row's
lock. `price` says whether a posting's amount is known, unknown or came after the
close of its month: a posting that was recorded without one is accumulated as
nothing (`Carries`) and priced later on the posting alone (`ResolvePrice`).
`straddled` remembers the months at whose end something was unfinished or that
were priced while a pass was at them, `lost` the periods with a final invoice that its run did not record.

## 3. Properties and runs

| run | instance | properties | states, time |
|---|---|---|---|
| `wallet_grants` | 1 event, 2 caller keys, 2 grants, amounts 1 and 3, expiry | `LotsCovered AnnouncedOnce ExpiryKeepsSolvent WithdrawalSparesPromo` | 300 thousand, 2 min |
| `wallet_clawback` | 1 top-up of 3 refunded in two parts and disputed, 1 grant, 1 event, 1 caller key | `BooksBalance RefundsConverge ImplementsPools` | 240 thousand, 1.5 min |
| `outbox` | 2 events, 2 workers, 2 handlers, one behind the product gate, 2 retries, 2 messages per row, 1 fault | `AppliedOnce ProcessedCoversHandlers AnnouncementIsFinal EventuallySettled` | 390 thousand, 2 min |
| `live_balance` | 2 recordings, 1 credit, 1 debit, 2 faults | `LiveTracksWallet EventuallyHonest` | 200 thousand, 0.5 min |
| `stop_causes` | 1 recording, 1 credit, a dispute, a failed invoice, a hold | `FailureHoldsOwner SignalsAlternate` | 2.8 million, 1 min |
| `stop_recovery` | 1 recording that crosses the floor or the pool's line, 1 credit or else a new month and work that starts, 1 fault | `StopsSignalled RecoveryReactivates KillConverges` | 150 thousand, 3 min |
| `work` | 1 unit, 1 contained unit and 1 report; or 3 units with an agreed price and funds for two of them; 1 fault | `NoOrphans BooksAddUp ChargeMatchesDelivery NeverOversold StopsAnnouncedOnce` | 420 thousand, 2 min |
| `work_sweeps` | 1 unit, with 1 contained unit and 1 report, or with 2 reports of which costs and credits may come late; an agreed price, 1 fault | `CeilingConverges StopsDelivered ReservationsFreed QuietWorkEnds` | 190 thousand, 2.5 min |
| `topups` | 1 automatic attempt, 1 Checkout attempt with 2 sessions, 2 events at Stripe, 2 workers, 1 fault | `CreditedOnce AutoPaymentsCredited CheckoutsCredited RefundsClawedBack` | 120 thousand, 1.5 min |
| `usage_invoice` | 3 months (two lines, below a minor unit, nothing), 2 workers, a renewal, a repush, 2 attempts, 1 fault | `BilledOnce PushedIsBilled ResidualConserved MonthsSettle` | 90 thousand, 1.5 min |
| `platform_billing` | 2 postings, one priced later, 3 months, a held name, 2 runs of the job, 1 fault | `FeeOfArrivals FeesConserved ChargedOnce FeesInvoiced` | 540 thousand, 2 min |
| `invoice_twice` | 1 month, 2 workers, a renewal, 1 fault | `DoubleBillingImpossible` (violated) | small |

Three MC modules bound further what the environment begins, as the state
constraint of their run, so that one run can hold two scenarios without their
product: `MCWork` lets either one unit with the unit it contains and a report
begin, or several units and nothing else (`TreeOrRace`), and either a contained
unit or a second report (`TreeOrReports`); `MCStopSignal` has a credit or else a
new month and work that starts (`WorkOrCredit`); `MCTopUps` lets Stripe make two
events (`TwoEvents`). Each cuts off only steps that fairness owes nothing, so
nothing that must go on is held back.

Why the bounds are enough. In the wallet every interaction the code treats
specially is between two lots, or between a lot and the debit it paid for; two
lots (one minted, one topped up) with a caller key to replay reach all of them,
and amounts larger and smaller than a lot reach the caps and the overdraft. Two
events and two workers reach every race on a row lock and a batch that is too
small for the backlog. A line has two states, so one recording beside the passes
and a credit reaches the races on it; for any number of recordings the
alternation is proved. Containment has one level, so a unit and one it contains
are every shape there is, and one report that reaches both ceilings is the case
in which the order of kills matters. A credit needs a second report beside it, or
it would never take a total back over a ceiling, so `work_sweeps` has two. Three
starts of units with a price race for a wallet that can pay for fewer: two that
fit together and a third that does not. Attempts share nothing but the wallet
and the threshold, so one at a time reaches what the lanes can do to an attempt,
and two sessions are what one attempt can be paid twice with.
Two workers reach a claim that is taken back and claimed again, and a carry needs
a month before and a month after. Three months make a close that is late, or that
never comes. The bounds on faults are one or two: each property about faults is
about what one loss leaves behind, and the passes that mend it are the same after
the second.

Each run's `about` in `PROJECT.json` says what it shows, and each property has a
mutant of the code's model, a plausible bug, under which TLC finds it violated.
Deadlock is not checked where the bounded environment may simply have used up
what it had to do (the runs of `Outbox`, `Work`, `TopUps`, `UsageInvoice` and
`PlatformBilling`).

### What the components promise, and what is excepted

Seven properties except what the code does not keep, and name it in the model:

- `AutoPaymentsCredited` excepts a payment that went through after the four days
  the reconcile lists and whose receiver died (`Abandoned`: a redelivery within
  half an hour is answered 200, and nothing looks for the row again).
- `CheckoutsCredited` speaks of sessions that are paid when they complete, and
  excepts an attempt that was failed (a call repeated under its key with other
  parameters fails the attempt although its first session can be paid), an event
  whose receiver died, and a second session of an attempt that was credited for
  another: its money is taken and dropped.
- `RefundsClawedBack` excepts an event whose receiver died, and a charge id that
  was not stored.
- `BilledOnce` excepts a month in `stale`, whose pointer was written by a worker
  that had lost its claim: that is what `invoice_twice` shows.
- `ResidualConserved` counts in `surplus` what a late save of the repush deposits
  again; without such a save it is zero.
- `FeeOfArrivals` is about what arrived in the month and was priced by its close:
  a price that comes later is in no period's fee. It excepts months at whose end a
  posting, a handler or the hourly pass was under way, and months that are over
  in which a price came while a pass was at them. `close_period` reconciles before
  it locks, and the reconcile does not write when it finds no event where the row
  counts some, so such a posting may be billed in either month, in both, or in
  neither.
- `ChargedOnce` excepts a period whose run ended between Stripe's finalize and
  its record: the job is monthly, and a month later Stripe has forgotten the key.
  Every other failure, death and reclaimed claim is covered, and that is proved.

### Fairness

Only what the code's scheduling owes is fair. *Outbox*: the beat runs the sweep
every minute, workers consume and finish, backoffs run out; a row is not owed
the first message, which may be lost. *LiveBalance*: a request that started
ends, the outbox draws down (that is `EventuallySettled`), hooks that were not
lost run, the hourly jobs come round. *StopSignal*: the same, and strong
fairness for whoever waits for the owner's row lock, because PostgreSQL queues
lock waiters. *Work*: both sweepers, the patrol's list, its kills and its two
other legs come round, and the outbox delivers; nobody owes a close, a settlement or the kills of a
recording. *TopUps*: Stripe sends an event until it is answered, a receiver that
began ends, the hourly reconcile comes round for what it lists; the charge task, a
second session and a delayed payment are owed nothing.
*UsageInvoice*: the hourly pass takes back, recovers and claims; a worker that
pushes goes on (strong fairness for the claim, because the pass comes round while
other rows come and go). *PlatformBilling*: the job is started again and again
and a run goes on. New usage, credits, faults, a new month and operators' moves
are never owed.

### Disagreements between the code and what is written about it

Checked by a run:

- `invoice_twice`: the comment at Phase 2a of the push says that after a stolen
  claim "double-billing is impossible". The guarded update asks for
  `status = pushing` and not whose claim it is. When the row was taken back and
  claimed again it is pushing, the first worker passes, and with consolidation on
  the two workers may hold different invoices: every line is billed on both.
  `BilledOnce` shows that this is the only way. The reclaim waits thirty minutes
  and Celery ends a task after 600 seconds, so the first worker must have stood
  still, with its host or its process suspended; a slow one is not enough.
Observed while modelling, and not the subject of a run:

- The comment at the record of a month below a minor unit
  (`postpaid_service.py:450-452`) says that the row is terminal, that repush refuses
  it, and that "a replay can never move the carry twice". `repush_usage_invoice`
  reads the row without a lock, refuses by what it read, and saves it pending
  unconditionally. When the hourly pass records the month in between, the month is
  pending again, and the next pass deposits its residual a second time. The model
  has this (`RepushRead`, `RepushSave`), and `surplus` counts it.
- The comment in `handle_checkout_completed` (`webhooks.py:61-64`) says that an
  expired attempt that completes late is recovered, since "the money was taken, so
  it is credited". A session that completes with a payment method that takes days
  is not paid yet, and the handler returns; the event that reports the payment
  (`async_payment_succeeded`) has no handler, and the reconcile knows automatic
  attempts only. The model has this (`CompleteUnpaid`, `PayDelayed`).
- `RETRY_HORIZON` (`events/tasks.py:22-27`) is documented as the time from the first
  failure to the dead letter and sums the five backoffs (2 h 43 min). The failure
  that reaches the limit dead-letters at once, so at most four are waited for (about
  42 min), and fewer when a duplicate message dispatches the row early, because a
  dispatch does not ask `next_retry_at`. Jobs that outwait the horizon err on the
  safe side. The model has no durations: `due` says only whether a backoff is over.
- `refund_usage` says that a due lot expires first, so its share of a refund
  lands as base money. `expire_due` looks at active lots only; a lot that was used
  up is depleted, is never expired, and is re-funded although past its expiry.
- The stop ledger's docstring (`stop_signal_service.py:33`) says that floor stop
  and suspension can never disagree. The credit's hook runs `resume` without the
  owner's lock: it finds no line open, a recording opens one and suspends the
  owner, and the hook then reactivates it. The line stays open, and later
  crossings do not suspend again.
- The repair's docstring says that recordings in flight can inflate one
  measurement but never the repair. Different recordings in flight at each of the
  two passes inflate both; the next MIN-merge lowers the counter again
  (`EventuallyHonest`).
- The docstring of `_create_tenant_invoice` (`tenant_billing/tasks.py:224`) says
  that on a failure of Stripe the period stays `invoicing`; the code gives it back
  as `closed` at once.
- A refused close leaves its period open. The index admits one open period, so
  the next month's cannot be created: every handler of that month raises
  `DoesNotExist` until it is dead-lettered, and a month in which no period was
  created is never billed. The close runs on the first of a month only.

## 4. Proofs

Every safety invariant and every action property that a passing run checks is
also a theorem, for every value of the constants. The proofs take the constants'
assumptions (each module's `...Assumption`), which ask for no more than the code
does: sets that are finite and do not overlap, amounts that are natural numbers,
positive limits.

**`Sums`**: most of what can go wrong with money is a sum that no longer adds up,
so the proofs share the facts about `SumFunctionOnSet` of the community module:
it is well defined, the order of the elements does not matter, and it follows its
set and its amounts one element at a time. The induction is over the subsets of a
finite set. The library's induction theorems take a predicate as a parameter,
which the provers here cannot instantiate; `SubsetInduction` takes a *set* of
subsets in its place and uses that the strict subset order is well founded.

**`WalletProofs`**: for any amounts and any number of lots, rows, refunds and
operations, `WalletCovered` (`LotsCovered`), `WalletBalances` (`BooksBalance`),
`WalletConverges` (`RefundsConverge`), `WalletAnnouncesOnce` (`AnnouncedOnce`),
the action properties `WalletStaysSolvent` (`ExpiryKeepsSolvent`) and
`WalletSparesPromo` (`WithdrawalSparesPromo`), and the refinement
`WalletImplementsPools` (`ImplementsPools`). The lots are strictly ordered and
finitely many, so `Waterfall` fills an amount in one way, which pays exactly the
amount or empties the lots. A wallet is `Good` when its rows are typed, its books
balance and its lots are covered; every building block (`expire_due`, `allocate`,
`create_grant`, the voids, the refund, `clawback`) takes a `Good` wallet to a
`Good` one along one movement of the pools, and an action is composed of them.
The cover alone is not inductive: a refund gives a lot back what a slice took, so
one needs that slices and lots agree, and an expiry needs that only an active lot
holds money. `WalletInv` adds that a level of refund whose row exists was taken
(`LevelsTaken`), on which `RefundsConverge` rests. `PoolsStayCovered` is the
cover as a consequence of the abstract specification alone.

The same module has `LiveTypeCorrect` and `CounterTracksWallet`
(`LiveTracksWallet`) for any recordings, credits, debits and amounts. The argument
follows `Excess`, how far the counter is above what the wallet will hold: a
recording and a credit leave it as it is because one sum gains what another
loses, a debit raises it by what `Unseen` gains, and the merge only lowers it, to
no less than what is on its way. `Faultless` is needed because a flushed counter,
or a recording that missed its debit, would break the sums, and both take a fault.

**`OutboxProofs`**: for any sets of events and workers and any number of
handlers, retries, messages and faults, the theorems `TypeCorrect`,
`DispatchIsExclusive`, `HandlersApplyOnce`, `NoHandlerLost`,
`DeadLettersExhausted` and `AnnouncementsFinal`.
`AppliedOnce` is not inductive: the strengthening `Inv` adds that checkpoints
record exactly the committed effects while the row exists (`CheckpointsExact`),
that a worker's uncommitted work has no checkpoint yet (`AttemptFresh`), that
every handler it passed returned, was done or was gated off (`AttemptCovers`),
and that an idle worker starts from the first handler (`Idle`). The step is split
into one lemma per action, with two lemmas for what the two committing actions
share.

**`StopSignalProofs`**: for any sets of recordings and credits, any balance,
floor and pool line and any number of environment actions, the theorems
`StopTypeCorrect`, `SignalsAlternating`, `FailureHolds` and `HandOverHolds`.
`SignalsAlternate` is not inductive: a recording opens the lines it won only at
its commit, so the invariant adds `WonClosed`, that nobody opens them before.
That rests on the lock, which `TypeOK` ties to what a transaction drove: while a
recording holds it, no line opens but at that recording's commit
(`OpensUnderLock`). The lemmas `LedgerWriters`, `OwnerWriters`, `WonWriters` and
`InvoiceWriters` name the few actions that write each part of the state, and
only those are looked into. `FailureHoldsOwner` and `HandOver` both follow from
`Reactivation`: only `_maybe_unsuspend` makes an owner active, and never under a
standing failure.

**`WorkProofs`**: `ContainmentHolds`, `ChargesMatch`, `ReservationsHold`,
`StopsAnnounced`, `EndsFinal`, `WalletNotOversold`, `UnitBooksAddUp` and the
types, for any units, reports, ceilings, prices and faults. The invariant adds `Lifecycle`: what is
unborn has no regime and no reservation, a unit has a cause exactly when it has
ended, only the unborn are being started, and containment has one level. One
lemma (`EndKeepsLife`) covers every action that ends a unit, because all of them
go through `Flip`. `WalletNotOversold` counts the open reservations with the
cardinality theorems of the library. `BooksAddUp` needs `Posted`: the unit of a
report had started, so the unit that contains it is fixed and no later start
moves a report to other books. Totals are integers there: a credit takes from
them, and a ceiling that was reached need not stay so.

**`TopUpsProofs`**: `CreditsOnce`, `ClawsBackCredited` and the types, for any
attempts, sessions, workers, deliveries and faults. That a credit has a payment
behind it rests on what the task and the receiver were told (`Told`), a claw-back
on the charge id being stored with the credit (`Stored`), and that of several paid
sessions one is credited on the attempt's status, which says succeeded exactly
when a payment of it was.

**`UsageInvoiceProofs`**: `PushedRowsAreBilled`, `RecordedMonthsStay`,
`NoMicroLost` (`ResidualConserved`), `LinesBilledOnce` (`BilledOnce`) and the
types, for any months, lines, amounts, workers and faults. The worker that records relied
on what it saw at Stripe some steps earlier (`Seen`), and one that resumes a final
invoice on what the worker before it pinned there (`Finals`); both survive because
lines are only added, a final invoice stays final and the carry is reserved once
(`Grows`). `BilledOnce` rests on `OneBillers`: until a worker that lost its claim
wrote the pointer, the lines of a month are on no invoice, on one of ours, or on
the renewal with the remainder on ours, and one worker holds the claim. A recorded
month can be pending again, so `ResidualConserved` needs `Exact`: what a recorded
month was billed is its carry and its usage in whole minor units, so what the
repush frees of it is its residual, which is what `surplus` counts.
`RecordedMonthsStay` says that nothing else takes a recorded month back.

**`PlatformBillingProofs`**: `InvoiceJobInvariance`, `TenantsChargedOnce`,
`PeriodsInvariance`, `NoFeeLost` (`FeesConserved`) and `FeesOfArrivals`
(`FeeOfArrivals`), for any months, postings, costs, runs and faults. A second run
reaches the same invoice because Stripe's key outlives the runs that know it
(`Keyed`); no run starts once the key is forgotten, because a final invoice is
recorded or about to be (`Answered`). The fees have the invariant `FInv`. A
close carries the remainder of the period closed before it, and that is the last
one because periods are made and closed in the order of their months, however
late or seldom the close comes (`Ordered`). What is under way belongs to the
current month, or to one that the turn of the months marked (`InFlight`); what a
period counts has arrived (`Seen`), so the reconcile that does not write when it
finds nothing leaves no month wrong; and what a pass found of a month that is over
is final until its close (`Found`), so it does not matter that the close reads
before it locks. A price may still come after the close: it is late only in closed
months (`Late`), so what had arrived and was priced by the close (`KnownCost`)
does not change with it.

Only model-checked: liveness (`EventuallySettled`, `EventuallyHonest`,
`StopsSignalled`, `RecoveryReactivates`, `KillConverges`, `CeilingConverges`,
`StopsDelivered`, `ReservationsFreed`, `QuietWorkEnds`, `AutoPaymentsCredited`,
`CheckoutsCredited`, `RefundsClawedBack`, `MonthsSettle`, `FeesInvoiced`), because
fairness and ENABLED are out of the prover's reach; and the violation that
`invoice_twice` shows.

## 5. Not modelled

- `WalletLedger`: the hourly checks that only report drift, and the low-balance
  thresholds; reservations are in `Work`.
- `Outbox`: a poisoned transaction that repeats for ever is bounded by
  `MaxFaults`. Webhook delivery is one of its handlers. What a handler wrote
  before it raised is committed with the handlers that returned (`dispatch.py:70`
  takes no savepoint); the model counts an effect only when its handler returned.
- `StopSignal`: the soft line, a pooled seat's own level, postpaid and external
  modes, mode flips and the `off` lanes. A drawdown whose own drive of the line
  fails is swallowed (`operations.py:600-611`), which the model leaves to the
  hourly pass; the month turns between recordings and passes, not within one
  (`live_counter.py:351`, `1302-1303`); and a repair raises the counter to the
  balance at most, where the code's relative repair can overshoot it.
- `Work`: the start's rate limit (a counter over wall-clock windows whose
  overshoot the code accepts), labels, the read side; a start's and a report's
  replay changes nothing, because the key names the unit or the posting. The
  absolute deadline of a unit is folded into its silence (`heard`), and the balance
  moves with a unit's own charge only, not with other debits and credits.
- `TopUps`: amounts, which are `WalletLedger`'s matter.
- `UsageInvoice`: voided invoices and `--rebill-void`, rows superseded by a seat,
  the payment status of a pushed invoice. The wall-clock cap on a row's attempts is
  folded into the cap on their number (`Exhausted`).
- `PlatformBilling`: sandbox tenants, several product fees with formulas of their
  own, the payment of the fee invoice. The branch of a claim that finds the
  invoice's row (`tenant_billing/tasks.py:233-236`) is left out: a claim finds a
  closed period, and one with a row is invoiced.
- Subscriptions keep most of their state at Stripe, and referrals move no money.
  Pricing arithmetic and the choice of cards and books are sequential functions
  of data. CRUD, the API's schemas, the generated vocabulary, the SDK and the
  user interface, which are most of the repository's lines, change no state that
  a module here does not already have. Alerts, logs and payloads are left out
  everywhere.

What could follow: the soft line, seat levels and mode flips in `StopSignal`, and
webhook delivery as a module of its own.
