# A verification development for Homefront Fiber Leads

TLA+ models of the paths of this system where order, failure and concurrency
decide about money, ownership and access; the TLC runs that check them on small
instances; and theorems about them that TLAPS proves for every value of the
constants. `PROJECT.json` maps every definition to the lines it stands for, and
lists the components, runs, hazards, findings and theorems.

## 1. Inventory

The program is one Express server over one SQLite file, and a browser client
that works offline. A cluster primary runs maintenance; worker processes serve
requests and run their own timers. Statements of better-sqlite3 are synchronous,
and each commits by itself unless the code opens a transaction. So the
concurrency that matters is of three kinds: **processes** whose committed
statements interleave, **requests** of one process that interleave at their
`await`s, and **clients** whose calls are lost, late and repeated.

| Component (code) | State | Operations | What is hard | What makes it correct |
| --- | --- | --- | --- | --- |
| Domain event log (`domainEventStore.ts`) | `domain_events`, `event_subscriptions` | `emit`, `nextBatch`, `advanceCursor` | duplicates, stale cursor writes | one event per key, a cursor that passes only what is done |
| Event queue (`eventQueueOps.ts`, `globalMaintenance.ts`) | `event_processing_state` | lease, complete, fail, RETRY / DEAD_LETTER / RESOLVE | leases, crashes, operators against workers | order, exclusion, progress |
| Incentive subscriber (`incentiveSubscriber.ts`) | `spiffs` rows | `drainOnce`, `drain` | at-least-once delivery, order of award and clawback | every row once, no award of a lost sale kept |
| Sales (`commissionService.ts`) | `commission_sales.status` | `upsertSale`, `transitionSale` | read, write, read back and emit commit one by one | the log tells what the table says |
| Statements, plans, overrides, reserve (`commissionService.ts`, `reserveService.ts`) | statements, adjustments, holds | calculate, FINALIZE, REOPEN, MARK_PAID, batch closeout | recalculation against a locked week | a locked statement is not repriced |
| Rep payouts (`payoutRoutes.ts`, `payoutStore.ts`, `stripeConnect.ts`) | `rep_payouts`; transfers at Stripe | pay week, reversal webhook | five awaits, lost responses, expired keys, reversals | money moves once and is recorded |
| Guarded actions (`guardedActionEngine.ts`, store, executors, `shared/guardedActions.ts`) | `guarded_actions`, policies, the target rows | submit, approve, reject, expire, execute, undo, save policy | races of deciders, crashes in execution, drift | one execution, by the right person, a true history |
| Field activity (`client/src/lib/knockQueue.ts`, `knockFailurePolicy.ts`, the knock handler of `routes.ts`, `storage.ts`) | two lanes on the phone; `knock_log`, the door's outcome, its sale and commissions | tap, flush, sweep, park; look up, insert, money bundle, heal, mark | offline replay, late and repeated taps, stale flushes | no tap lost or doubled, the newest tap wins, the money follows it |
| Territory and assignment (`assignmentOperationStore.ts`, territories) | `assignment_operations`, chunks, leads | admit, apply, finish, undo, stop, purge | any worker takes the next step, compare-and-swap undo | an undo restores what it undoes and nothing else |
| One-time codes (`otpDelivery*.ts`, `verifyOtp`) | `otp_codes`, `auth_delivery_outbox` | issue, claim, check, settle, retire, verify | leases, retries, expiry, codes replaced under way | only the newest code opens a session; every delivery is settled |
| Provider requests (`providerRequestQueue.ts`) | in-memory queue, flights, cache | request, pump, pause, sweep, finish | sharing, cancellation, limits | one task per key, everybody is answered |
| Primary-node lease (`primaryNodeLease.ts`) | one lease row, `isPrimary` | acquire, renew, boot | stalls, database errors, clocks | one producing node |
| Discovery and scanning | scan jobs, intelligence tables | scanners, distributed throttle | volume | provider limits (see above) |
| Calling, leads, onboarding, notifications, reporting, identity, platform | large tables, derived views | per-request work | mostly single statements | authorization predicates, SQL |

Interactions. A knock becomes a sale and a commission; sale requests emit
events; the drains turn them into ledger rows; statements sum the ledger;
payouts pay finalized statements and mark them PAID; bulk assignment, guarded
actions and ordinary routes change the same leads; one-time codes guard the
session a phone needs to flush its taps.

The hazards, one per place where this bites, are in `PROJECT.json`. Those
without a property say why. Smaller ones are known and not listed there, because
no model here reaches them: `markFailed` reads the attempts and writes them back
as two statements; a clawback row is inserted approved while its award still
waits for review; a statement that is reopened and finalized again has a new
amount and its old transfer group; a reversal webhook that arrives before the
row cites its transfer matches nothing.

## 2. Modules

| Module | Lines up with | Models |
| --- | --- | --- |
| `DomainEvents` | `domainEventStore.ts` | `emit` and its dedupe index, `advanceCursor`, as operators |
| `EventQueue` | `eventQueueOps.ts`, `incentiveSubscriber.ts`, `globalMaintenance.ts` | the primary's transactional drain, the workers' statement-by-statement drain, operators, backoff, lease expiry, crashes |
| `OrderedLedger` | | abstract: what the queue promises, a ledger written strictly in event order |
| `SaleLifecycle` | `commissionService.ts` | the two doors onto a sale's status and the events they emit |
| `IncentivePipeline` | | `SaleLifecycle` composed with `EventQueue`: they share `log` |
| `Statements` | `commissionService.ts`, `reserveService.ts` | one statement: recalculation, freeze, reopen, payment, closeout, adjustments, reserve hold |
| `Payouts` | `payoutRoutes.ts`, `payoutStore.ts` | the pay request over `rep_payouts` and Stripe, and the webhook |
| `GuardedActions` | `guardedActionEngine.ts` | the engine, the policy rules and the `lead.reassign` executor |
| `Consent` | | abstract: what a gate in front of dangerous changes promises: one judgement, one decision, one change, a true book |
| `AssignmentOps` | `assignmentOperationStore.ts` | durable bulk assignment and its undo |
| `SignIn` | `otpDeliveryStore.ts`, `otpDeliveryWorker.ts`, `storage.ts` | one-time codes, their mail and their verification |
| `OneKey` | | abstract: what one-time codes promise an account: one key, one session, one true verdict per delivery |
| `ProviderQueue` | `providerRequestQueue.ts` | the queue in front of the address provider |
| `FrontDesk` | | abstract: what the callers of such a queue may rely on: one answer for a key, the most urgent first, limits kept, nothing dropped without a reason |
| `PrimaryLease` | `primaryNodeLease.ts`, `index.ts` | the lease of a fleet and the producers it starts |
| `KnockServer` | `routes.ts`, `storage.ts`, `commissionService.ts` | the knock handler, the money bundle, managers |
| `KnockSync` | `knockQueue.ts`, `knockFailurePolicy.ts` | the phones' queue over `KnockServer` |
| `TapBook` | | abstract: what phones and server promise about the taps of a door, one true verdict each |
| `EventQueueProofs`, `StatementsProofs`, `PayoutsProofs`, `KnockProofs`, `GuardedProofs`, `AssignmentProofs`, `SignInProofs`, `ScanningProofs` | | the theorems; `EventQueueProofs` also covers `IncentivePipeline`, `ScanningProofs` covers `ProviderQueue` and `PrimaryLease` |
| `MCEventQueue`, `MCAssignmentOps`, `MCKnockSync` | | instances for TLC |

### EventQueue

One variable per table column: `status`, `attempts`, `due` (is
`next_attempt_at` past?), `lease`, `awards` and `clawbacks` (how many rows carry
a unique key), `cursor`; and per worker its place in `drainOnce` (`pc`, `at`,
`upto`, `lastId`). The id of an event is its position in `log`.

- `MaintenanceDrain`: `globalMaintenance.ts` calls `drainOnce(now, 1)` inside
  BEGIN IMMEDIATE, so lease, effects, row and cursor are one step.
- `WorkerStep`: the timer of `index.ts` calls `drain` with no transaction, so
  every statement of `drainOnce` is an action. The effects (`tx`) are one
  transaction; `markFailed` and each operator action are one step too.
- `evaluateIncentive` and campaign limits are an arbitrary choice of winning
  campaigns. The amounts are left out; `evaluateClawback` is split into
  campaigns that claw (`Clawing`) and campaigns that do not.
- `Crash` also stands for a statement that throws out of `drainOnce`.
- `Stalls`: a worker may be slower than `LEASE_TTL_MS`. `RetryCleared`: an
  operator may retry a dead-lettered event. Both happen in the code; the
  properties that need their absence say so through the run's constants.
- `Emit` only cancels a sale whose approval is logged. What the emitting code
  makes of that order is `SaleLifecycle`'s question.

### SaleLifecycle and IncentivePipeline

A request reads the sale, writes the status, reads it back and emits (`Begin`,
`WriteStatus`, `ReadBack`, `EmitEvent`); `Abandon` is the caught exception of
`emit` or a crash. REVERSED stands for REVERSED, DISQUALIFIED and CANCELLED.
Guards on dates and weeks refuse before the first write. The reconciliation of
overrides and statements after the event writes other tables; `Statements`
starts from there.

### Statements

The state is one row of `commission_statements` (`stmt`), the sales and
adjustments it sums, and the reserve hold of its week (`held`). Every database statement
of a request is an action: the check of the lock, the sum, the count and the
upsert of a recalculation; the recompute, the snapshot, the write, the read-back
and the hold of a transition; the write of a decision and the three statements
that apply it. The batch closeout (`CloseWeek`, `PayWeek`) is one transaction
per rep, so one step. `Refresh` is any view of an open week, or the batch's
first pass. With one process this is a sequential program that may die anywhere;
with two, it is the cluster. Money is counted in units: a flat rate, adjustments
of one, all of it held. Overrides, hourly pay, tiers and the reserve's cap
change the numbers and not the order of the writes.

Which sales a week pays and which doors it lists are two sets in the code, and
two in the model. `pays` says what the install hold makes of a sale: paid in the
week of its basis, held, or released into this week or a later one. `Counted` is
`countQualifiedSales` for pay, which asks for it: it leaves out what is held (or
has no date of its basis) and takes in what is released here, a sale of an earlier
week (`Earlier`) included. `Listed` is `listWeekSalesForRep`, which does not ask:
the QUALIFIED sales made in this week. `HoldMoves` is all that changes the hold
(confirm-install, the end of the hold, the commission's own life, the policy of
the tenant), and reprices nothing. So the two sets may differ when a week is
locked: `FreezeMatchesLedger` says which of the code's fields follows which set,
and section 4 what the comments about it say.

### Payouts

The handler's loop shares nothing between statements, so the state is about one
of them. A Stripe call is answered at one step and its caller resumes at a later
one; the code between two awaits is one step, as the event loop runs it. Pay
requests of one process interleave this way; those of two processes could also
interleave between the synchronous statements, which the model does not split.
Stripe is external: `landed` transfers in the group, one idempotency `key` that
expires when nothing is in flight, `stray` requests that arrive after their
caller gave up. `MarkStatement` may fail, as `safeTransition` allows. Amounts,
and reopening a statement, are not modelled.

### GuardedActions

Every `transition()` is a compare-and-swap (`Moved`); between two of them other
processes run. Versions stand for `assigned_rep_id` and `assigned_at` of the
door: `clock` makes each new, so two changes in one millisecond by the same rep
are left out. `wrote` and `undid` are history. `"limited"` is mode `auto` with
an `approvalAboveMagnitude`. The undo window is always open. Only
`lead.reassign` is executed; the other executors follow the same protocol.

`Consent` knows the book of an action (`book`: its status, who asked and decided,
what it was judged), how often the change was made (`made`, the writes in `wrote`)
and what was reversed (`reversed`, from `undid`). Processes, policies, versions and
fingerprints are not in it. Of two undo requests that race, both may reverse
(`reverse()` is called before the status moves), which is the same reversal to
`Consent`: that the second one may overwrite a later edit is what
`UndoKeepsLaterEdits` is about, and the gate does not promise it.

### AssignmentOps

Every step of `assignmentOperationStore.ts` is one immediate transaction that
keeps its place in the row (`next_index`, `undo_next_index`), so processes have
no state of their own: each action may be taken by any worker at any time, and a
crash is a worker that takes no more steps. One tenant; an operation stands for
one (actor, kind, client id), so admitting twice returns the row that is there.
`Apply` and `UndoChunk` read scope and reps anew each time (`scope`, `present`:
any sets), as the code does. `version` is `leads.assignment_version`, advanced
by a trigger on every write of the assignment columns; `AssignElsewhere` is every
other writer. `live` says that the receipt's undo token exists, has not expired
and has not been evicted. `Resume` is the undo of a receipt that is undoing,
which needs no token that is still live; it has no action of its own in `Next`,
because `Undo` contains it, and carries the fairness. `writer`, `assigned`,
`refused` and `others` are history. Left out: the cap of 64 operations over all tenants, the limit of 5000
leads, and the audit rows.

### SignIn

One account. `code` is `otp_codes`, `mail` is `auth_delivery_outbox`, `worker` is
the place of each drain between two transactions: claim, eligibility check, the
provider's answer. The lease token is modelled as the number of the attempt,
since each claim makes a new token and counts one. Times are flags: `Wait` says
that a retry is due or a lease has run out, `Expire` that a code's ten minutes
are over. A drain may be slower than its lease (`Wait` on a row in processing),
die anywhere (`Crash`), and lose the provider's answer (`Answer` with
"pending"). The check is outside any transaction, as in the code. Left out:
rate limits, failing encryption, the operator's discard, the deletion of old
rows.

`OneKey` has no table and no drains: one key, valid or not, the misses on it, and a
verdict for each delivery. A code whose row is used or late is no key, so the
mapping takes `valid` from `Usable`, and what a drain does before its answer counts
(claims, checks, retries, lost leases) is a stutter.

### ProviderQueue

One event loop; each action is one synchronous piece of it. A caller who asks
for a key in flight waits with the item's owner. The owner's deadline or lost
authority refuses all who share the item, and a duplicate's later deadline does
not extend it: the model keeps both. `Pump` is the loop of `pump` as a function
of the queue; its sorts and filters (`Sorted`, `Living`, `Taken`) choose the
arrangement of a set they are asked for, which is unique. With as many keys as
`MaxPending` a refusal for a full queue is also possible without a full queue
(`AtOnce` is refused for three reasons and does not tell them apart).

`FrontDesk` knows keys and no items: who waits for which key and whether the time
or the authority to wait is over, the line of keys with their urgency, the keys
that are out, and how many went out lately. It has no sequence, no flights, no
timers and no sorting. Each time it goes through its line (`Work`) a set of keys
goes out that is at least as urgent as what stays, within the ceiling and the
rate, and not during a pause; a key is dropped only if somebody who waits for it
is out of time or authority, and then all who wait for it hear so. The mapping
(`AskersOf`, `KeysOf`, `LineOf`) reads the urgency of a key from the item its
flight leads to, so a flight that leads astray, an urgency lent to a queue that is
not sorted again, or a pump that passes a limit is no step of the desk. It does
not promise that every key that could go out does: that is the timers' work, and
`EverybodyIsAnswered` is checked apart.

### PrimaryLease

`left` counts down from what the last writer put into `expires_at`; `skew` is how
far the clock of each node runs ahead, so a node with a fast clock writes later
ends and sees earlier ones. `silent` counts since a node last heard from the
database. `Renew` reports a loss but never stops producers, and a node that wins
at a renewal does not start them: both are the code's behaviour (`index.ts`
starts producers only from the answer at boot). `BootBlind` is the catch branch
that assumes a lone node. The theorem's side condition read backwards: a node
that renews every P seconds and fails m times in a row stays sure as long as
(m + 1) P + skew < TTL.

### KnockServer and KnockSync

`KnockServer` is `POST /api/leads/:id/knock` for one door, statement by
statement: `Lookup` by client id, `Insert` under the unique index, the money
bundle (one immediate transaction: the compare-and-swap of the outcome, the
sale, the commission), and the `superseded` column. A repeated knock takes
`Heal`: the bundle again, and if the verdict changed the column too, which is a
statement of its own (`Remark`). Whatever either of them throws, for whatever tap,
is logged and the answer is 200 with the verdict read before (`HealFails`, which
needs no budget: the phone never asks again). `Throws` is SALE_CREDIT_LOCKED;
other exceptions of the first bundle are faults of the budget, among them the 409
of a winner whose money no organization is found for, which the phone gives up.
Managers set outcomes without a knock (`Overrule`), approve and pay
commissions and reverse sales. Their marks carry the server's time, and no
phone's clock is ahead of it here. They leave the money alone, as the code does.

`KnockSync` is the phone: `pending` and `dead` lanes, one flush at a time
(`inflight`), the session (`suspended`), and what the representative was told.
A flush awaits an answer between two positions of its loop; `fresh` says that no
suspend or resume has made it stale. The failure policy is one action per class
of answer. The cooldown of the sweep and the window after a transient failure in
which a 403 does not count are any choice. The comment "strict FIFO"
(`knockQueue.ts:314`) is not what the loop does: an item that is not due is
skipped, and the model skips it.

`TapBook` is what a representative may rely on: the taps (`said`, from `taps`),
the verdicts (`told`), which taps are on record (`recorded`, the `knock_log` rows),
the door, and two histories, the taps that were applied and those whose repetition
failed (`givenUp`, from `unhealed`). A tap reaches the door only once it is on
record; one that comes again may be given up (`GiveUp`) and is then called saved
whether it ever reached the door or not. That is as much as the handler promises:
`KnocksAreNeverFailed` would be more, and does not hold. Calls, lanes and sessions
are not in it. It promises the verdict and not the money, which `MoneyFollowsKnocks` covers.

Left out: notes and location evidence, a storage that is full, envelopes of older
versions, another owner's queue on the same phone, two tabs over one
localStorage, spiffs and campaigns, commission
structures (every sale has a rate), the refresh of statements, disputes.

## 3. Runs

| Run | Checks | Bounds |
| --- | --- | --- |
| `queue` | order, exclusion, the ledger, a sound cursor, refinement of `OrderedLedger`, and `EveryEventPassed` as long as nobody dies | 2 workers, 2 events of one sale, batch of 2, 2 attempts, 1 retry, 2 crashes; `Stalls`, `RetryCleared` off |
| `queue_wedge` | violation of `CommittedWorkIsPassed` | 1 worker, 1 crash |
| `pipeline` | the story of the sale is on the log, in order, and a lost sale leaves nothing in the ledger | 1 worker, 1 request at a time, log of 3, 1 crash |
| `payouts` | never two transfers, the books match Stripe; and, while requests do not overlap (`alone`), reversed is final and moved money is recorded (liveness) | 2 requests, 4 faults, `Blind` off |
| `statements` | final = gross + approved, a locked gross is frozen, the freeze matches the sales payable at that moment, a paid week is held | 1 process, 2 crashes, 2 sales, one of an earlier week, 2 adjustments |
| `guarded` | second person, true history with one execution, refinement of `Consent` | 2 processes, 1 large action, 2 users, 2 edits, 1 fault |
| `assignment` | true counts, a kept inverse, an undo that leaves nothing and touches nothing later | 2 operations, 2 leads, 1 rep, 2 chunks, 2 pending, 1 undo slot, 1 other write; operations and leads symmetric |
| `sign_in` | the newest code opens once, true verdicts, refinement of `OneKey` (one key, final verdicts), every delivery settled (liveness) | 2 codes, 2 workers, 2 attempts, 2 misses |
| `provider` | one task per key and nobody waiting for an item that is gone, refinement of `FrontDesk` (one answer for a key, the most urgent first, limits, reasons), everybody answered (liveness) | 3 callers, 2 keys, 2 priorities, 2 at once, 1 per second, 2 pending |
| `lease` | one primary, taken over (liveness) | 3 nodes, TTL 4, clocks 1 apart |
| `knock` | no tap lost or doubled, the newest wins, the money follows, refinement of `TapBook` (told the truth, once), every tap settles (liveness) | 1 phone, 2 reps, 2 taps, 2 moments, 2 calls, 1 fault, 2 attempts |
| `knock_credit` | violation of `KnocksAreNeverFailed` | the same, no fault |

Why these bounds are enough to be interesting.

- *Queue and pipeline.* Order is a matter of two events: an approval and the
  cancellation that must follow it, in one batch. Two workers and the primary
  are the three parties that meet; a lease, a crash and a take-over need two of
  them. Two attempts reach "failed" and "blocked".
- *Payouts.* Statements share nothing; two requests make every race of the
  handler, and a third only repeats one of the two.
- *Statements.* Two sales and two adjustments let one be settled when the other
  changes; nothing in a statement counts to three. One sale of this week and one of
  an earlier week make the list and the count differ both ways.
- *Guarded.* Actions share only the door, which `Edit` stands for.
- *Assignment.* Two operations compete for one undo slot, overlap on a lead, and
  undo in both orders; two chunks make a crash in the middle. A second rep is not
  needed: unassigned and assigned already differ.
- *Sign-in.* One code is replaced under way by the other; two drains are enough
  for one that outlives its lease.
- *Provider.* Three callers are an owner, a duplicate and somebody else; one start
  per second under a ceiling of two makes both limits bind.
- *Lease.* Three nodes are a holder, a challenger and a late one.
- *Knock.* Two taps of the door at two moments arrive in both orders, and at the
  same moment too; two calls are a lost one still served and its repetition. One
  fault with liveness; `MCKnockSyncFaults.cfg` checks the safety properties,
  `VerdictsAreTrue` and the refinement with two faults (9.3 million states, no
  error; too long to be run each time).

The bounds are `MaxEvents`, `RetryBudget`, `CrashBudget`, `Room`, `FaultBudget`,
`MaxEdits`, `MaxChunks`, `OtherWrites`, `MaxCodes`, `MaxCallers`, `MaxTaps`,
`MaxTime`, `MaxCalls`. `BatchLimit` (200), `MaxAttempts`, `MaxMisses` (5),
`PendingCap` and `UndoCap` (8), `MaxPending` (20000) and `TTL` are small values
of the code's own limits. `CHECK_DEADLOCK FALSE` appears where a bound on work
(a log, taps, codes, callers) lets the system run out of things to do. The type
invariants are conjuncts of the first invariant of their run, or proved.

**Fairness.**

- `EventQueue`: the 30 s timers keep calling the drains (`WF(MaintenanceDrain)`,
  `WF(WorkerStep)`), time passes (`WF(BackoffElapses)`, `WF(LeaseExpires)`), and
  an operator eventually clears a blocked event (`WF(OperatorAttends)`); the code
  itself makes that last one a human duty. Success of an event is not assumed.
- `Payouts`: the owner clicks again, when nothing is in progress, until the week
  is paid, a running handler goes on, and a request on its way arrives.
- `AssignmentOps`: an undo that was interrupted is resumed (`WF(Resume)`): one
  request loops over all the chunks, and the client offers to go on as long as the
  receipt is undoing. An actor who lost his authority is not resumed; then an
  operator's stop ends it. Only `MCAssignmentOpsUndo.cfg` uses this.
- `SignIn`: time passes and the maintenance interval fires. Crashes are not
  bounded: `EveryCodeSettles` holds though every worker may die again and again,
  because the code's expiry lets the next drain retire its delivery.
- `ProviderQueue`: the sweep's timer fires, deadlines pass, and every task ends
  (`providerTaskWaitMs`). Pauses may last for ever, and the wake timer is not
  relied upon.
- `PrimaryLease`: time passes, and a node that stays up renews again and again.
- `KnockSync`: a call is served and heard, a flush starts when something is due
  (the timer of the queue), backoff elapses, the rep signs in again, and a
  recovery signal comes while something is parked: without the last the dead
  lane may keep a tap for ever, by design. Faults end with their budget.

## 4. Findings

1. `queue_wedge`: a worker that dies between `markCompleted` and `advanceCursor`
   stops the queue. A completed row can be neither leased nor acted upon, and the
   cursor waits in front of it, for the primary's drain too, although
   `incentiveSubscriber.ts:18-21` says that the batch re-runs.
2. `knock_credit`: a door whose reversed sale belonged to one rep is sold by
   another. The bundle throws, the phone repeats, the repeated bundle throws too
   and is answered 200: the phone shows a saved sale nobody booked, although
   `docs/COMMISSIONS.md:156-157` says that the knock path never trips this throw.
   The catch (`routes.ts:7901-7904`) does not ask what was thrown: a database that
   is busy for a moment, after a first bundle that failed, ends the same way for
   any tap, although `routes.ts:7885` says that a mid-crash knock heals completely.

Beside the runs are configurations whose counterexample is known behaviour that
the properties above have to step around. Each is one `tlc -config` away:

| Configuration (module) | Violates | What it shows |
| --- | --- | --- |
| `MCEventQueueBypass.cfg` (`MCEventQueue`) | `NoBypass` | RETRY of a dead-lettered event a worker has already stepped over |
| `SaleLifecycleRace.cfg` (`SaleLifecycle`) | `ApprovalLoggedFirst` | two requests log a cancellation before its approval |
| `StatementsRace.cfg` (`Statements`) | `PaidAddsUp` | an adjustment approved while the week is being paid is on record and not in the amount |
| `StatementsDoors.cfg` (`Statements`) | `DoorsAreThoseCounted` | under the install hold the doors frozen with a week are not the sales its amount counts, against `commissionService.ts:1360-1361` ("Freeze the exact doors that composed this locked number") and `2327-2329` ("the door list shows exactly the sales the statement counted") |
| `PayoutsBlind.cfg` (`Payouts`) | `NeverDoublePaid` | a failed lookup is read as "no transfer" |
| `GuardedActionsUndo.cfg` (`GuardedActions`) | `UndoKeepsLaterEdits` | the fingerprint may contain somebody else's edit |
| `MCKnockSyncReplay.cfg` (`MCKnockSync`) | `OneCommissionPerKnock` | a knock repeated after its commission was paid books another |
| `MCKnockSyncReversal.cfg` (`MCKnockSync`) | `ReversalStands` | a repeated knock qualifies a sale a manager has reversed |

Two more are beside the runs because they are too large for them, or need other
bounds, and they pass: `MCKnockSyncFaults.cfg` (above), and
`MCAssignmentOpsUndo.cfg`, where every undo that has begun ends (`UndoEnds`,
liveness, 2 operations, no other writer, no symmetry; 492,000 states).

## 5. Proofs

`tlapm` checks every proof module to the last leaf. The assumptions are those the
modules state about their constants (`EventQueueAssumption`,
`AssignmentAssumption`, `SignInAssumption`, `LeaseAssumption`, `KnockAssumption`,
`GuardedActionsAssumption`, `PayoutsAssumption`, `StatementsAssumption`,
`AttemptsAssumption`, `PipelineAssumption`, `ProviderAssumption`), which TLC
evaluates in the runs. Four hypotheses stand in theorem statements:
`Punctual == ~Stalls /\ ~RetryCleared` for the order of the queue, `~Blind` in
`NeverDoublePaidCorrect`, `OneProc` (there is one server process) for statements,
and `[]OneAtATime` (no two requests are at work on one sale at once) for the
pipeline. The first two are needed as they stand; with two processes
`AmountAddsUp` is false, as `StatementsRace.cfg` shows; with overlapping requests
the log tells a sale's story in the wrong order, as `SaleLifecycleRace.cfg` shows.

**The queue** (`EventQueueProofs`).

- `TypeCorrect`: one lemma per group of actions.
- `PaidOnceCorrect`, `ClawbackCorrect` (no assumption about stalls, crashes or
  retries, which the run has to switch off). `PaidOnce` is not inductive: that
  two awards of one sale come from one event needs that the log holds each
  (type, sale) once, that an approval precedes its cancellation, that rows only
  cite events on record of the right type, and that workers are only ever at
  events on record. `LedgerInv` is the conjunction.
- `NoBypassCorrect`, `CursorCorrect`, `OneHolderCorrect`, `CompletedCorrect`
  (under `Punctual`). The strengthening `QueueInv` says: the queue is finished
  with every event a worker has gone past (`BatchInv`) and a worker in flight
  holds the row of its event (`HoldInv`); the key step (`DoneStable`) is that
  `Done` is stable, which is what `RetryCleared` breaks. `CompletedCorrect` has
  no run of its own.
- `ImplementsCorrect` (under `Punctual`): the queue implements `OrderedLedger`.
  `SettledInv` says that there is a last settled event; it is an invariant found
  step by step, since an induction over the log is out of the provers' reach. A
  step settles one event at most because nothing behind an unsettled event has
  been attempted (`NoBypass`), and effects run for the first unsettled event only
  (`RunsInOrder`).
- `ReversalCorrect` (under `Punctual`): `ReversalInv` says that once the effects
  of a cancellation have run its awards are reversed; it needs that no award is
  written later, that is, the order.

**Sales and the queue** (`EventQueueProofs`, second half). Here `Emit`, whose
order is right by its guard, is replaced by the requests of `SaleLifecycle`, which
make the order. `BaseInv` holds whatever they do: the log has each (type, sale)
once and room for the requests in flight, and the ledger's rows are on record; so
`PaidOnceFromSales` needs no hypothesis at all, not even that approvals come
first. `StoryInv` adds, as long as no request has ended half way, what the log
owes each sale (`SaleInv`): at rest, the events its status calls for; while a
request is at work, those of the status the request has found. It is
inductive only if requests on one sale do not overlap (`OneAtATime`), for two
that do may each read the status the other is about to change. From it
`SalesAreLoggedCorrect`. Then the last step of an unbroken request is an `Emit` of
the queue (`RequestIsEmit`), so under `Punctual` the invariants of the queue carry
over (`PathInv`), and `NothingKeptCorrect` counts: a drained log has an approval and
a later cancellation of a lost sale, the awards of the first are reversed one by
one, and nothing else was ever awarded. The two corollaries `SalesAreLoggedAlone`
and `NothingKeptAlone` discharge the hypothesis for the system the run checks,
one request at a time.

**Bulk assignment** (`AssignmentProofs`). `AssignInv` is the type invariant with
three facts: the inverse of an operation that an undo may still read is whole
(`WholeInverse`), what it saved is older than the lead (`SavedIsOlder`), and a
lead whose version is the one after the saved one was last written by the
operation (`WriterKnows`). From it `LaterWorkKeptCorrect` and
`InverseIsKeptCorrect` (whose second half is a count of receipts).
`UndoLeavesNothingCorrect` adds `ChunksAreUndone`: of the chunks before
`undoNext` nothing is left. `CountsAreTrueCorrect` adds that the assigned leads
lie in the chunks before `next` and that those gone through by the undo bound
restored and skipped; the counting uses the library's cardinality theorems.

**Sign-in** (`SignInProofs`). `SignInInv` is `VerdictIsTrue` (with the types),
that every code but the newest is used up, rows not issued are empty and a code
that opened a session is used (`BurntInOrder`), and that a drain in flight names
a code that was issued and a dead worker has none (`JobsAreNamed`). `DrainMail` says what a
drain may do to a row, whatever its lease; `SettledIsFinalCorrect` and
`NewestOpensOnceCorrect` follow. `ImplementsOneKeyCorrect` needs `KeyInv` besides:
a code that is not issued yet has neither misses nor a time that is over
(`Untouched`), so that the first statement of a new code starts a fresh key.
`UsableOf` says that a code that may be used is the newest, which makes the set
`Usable` one key. `SettledIsFinal` is no property of the run any more, because it
is part of what `OneKey` says of a verdict.

**The provider queue** (`ScanningProofs`). Sorting chooses a sequence, so first it
is shown that there is one: `Place` puts each member of a finite set where the
members before it leave it, and `PlaceGrows` makes that an order-preserving
bijection. `SortedOrder`, `LivingOrder` and `TakenPrefix` say what sorting,
filtering and cutting off keep, `CutInTwo` that what is started and what stays are
the queue again, and `Pumped` collects what one pump does: nothing is lost,
nothing doubled, neither limit passed, everything started is at least as urgent as
what stays behind. `QueueInv` then says that the items in flight and the items of
the queue are the same, one for each key, and that every caller who waits names
one of them under its own key. `ProviderTypeCorrect`, `OneTaskPerKeyCorrect` and
`UrgentFirstCorrect` hold for any number of callers, keys, priorities and limits.
`ImplementsFrontDeskCorrect` adds that the counts agree (`Counted`: a pump starts as
many as it counts, and none in a pause) and that items and keys are as many
(`AsManyKeys`): so settling items is telling those who wait for their keys
(`SettledIsTold`), what is left keeps its place in the line (`OthersStay`), and one
pump is one `Work` of the desk (`PumpIsWork`), whatever came before it: a new item,
an ended task, a sweep, a timer. A pause that runs out without a pump is a `Work`
that moves nothing. `UrgentFirst` is no property of the run any more, because
`Work` contains it.
No induction over the length of the queue is used: a least element comes from the
well-foundedness of the numbers (`LeastNumber`), and a position from a
cardinality.

**The lease** (`ScanningProofs`). `LeaseInv`: a node that may rely on what it
was told holds the row, and what is left of the lease is its TTL and skew less
its silence. Two such nodes would hold one row. The assumption `MaxSkew < TTL` is
needed: clocks further apart elect nobody.

**Knocks** (`KnockProofs`). `KnockInv` has four parts. `LanesHold`: the two lanes
of a phone together hold exactly the taps its representative waits for, each
once (`Hold`; one lemma each for removing, parking, sweeping, appending and
editing an item). `FlushPoints`: a flush that is not stale is the only one of
its phone, and its index leads to the tap it posted; without it an answer would
settle the wrong item, and it is what `runVersion` and the `inflight` flag are
for. `AnswersAreTrue`: what a call is about to be answered, what the row of a tap
remembers and what was told is so. `DoorInv`: the door shows the newest applied
tap or something newer, and the money follows it. `TapsAreKeptCorrect`,
`NewestTapWinsCorrect` and `MoneyFollowsKnocksCorrect` are corollaries, for any
number of phones, taps, calls and faults, where the run has one phone and two taps.
`ImplementsTapBookCorrect`: a statement of the handler puts a tap on record, shows
it, gives it up or is a stutter of `TapBook`. That a call beyond its insert has the
row of its tap (`HasRow`) is what lets the first come before the others. Only two of the phone's steps
are not stutters, a tap that is made and an answer that is heard. That the latter
is a verdict that is due comes from `FlushPoints` and `LanesHold`, that it is true
from `AnswersAreTrue`. `VerdictsAreTrueCorrect` is the same truth for ever after, which the
abstract steps preserve: a tap on record stays there, an applied tap stays applied
and the door never goes back.

**Guarded actions** (`GuardedProofs`). `GuardInv` says of every row that its state
is covered by its decision and its writes (`RowOK`), of every process that the row
it works on is in the state it last put it in (`JobOK`), and that no two processes
run one action (`Alone`). `Alone` is what the compare-and-swap of the status is
for: a process that has claimed an action finds it unwritten, however long it takes
and whoever else approves, expires or submits it meanwhile. `ExecutesOnceCorrect`,
`SecondPersonCorrect` and `HistoryIsTrueCorrect` are corollaries (`HistoryIsTrue`
has `ExecutesOnce` as a conjunct). `ImplementsConsentCorrect` has one lemma per kind
of step that `Consent` can see: a submission judges, a decision or an expiry moves
the book on, the executor makes the change, and the transitions after it enter
what happened. Two more facts make the mapping work. `RowsGoForward`:
no step of any process makes a row forget that its action was executed, or that its
time is up. `AllKnow`: who asked is a user, what is being expired is due, and
what is being undone was executed; the last holds from the check of the undo to its
last write, because an executed action can only become an undone one.

**Payouts** (`PayoutsProofs`). `PayInv` has the types, the books (`Books`), that a
request which has been alone works with the row there is (`ReqOK`), and that such
requests exclude each other (`OneAtWork`). `BooksMatchStripeCorrect` and
`ReversedIsFinalCorrect` follow, the second because an adopting request has seen
its row in flight. `NeverDoublePaidCorrect` needs another strengthening,
`OnlyOnce`: once the idempotency key has expired, nothing is on its way to Stripe
and no request that is about to send has missed the transfer there is. It holds
with overlapping requests too, and breaks exactly where `Blind` lets the lookup
fail.

**Statements** (`StatementsProofs`). `StmtInv` says what the one request in
progress knows at each of its steps (`Knows`: the row it has read is still the
row, the count it carries is that of the sales payable now and the doors are those
of the list now, a week that is to be frozen has just been priced) and when the amount may be behind an approval
(`Sums`: only between the write of a decision or of a sale and the end of the
repricing it sets off, on a week that is not locked, or on the way through
`apply`). Both are per step of a request and not invariants of the row alone,
because the code leaves the row wrong between two of its database statements. A
request that dies leaves the amounts behind for good, so `Sums` claims them for
`crashes = 0`; `Knows` survives any crash, and with it `LockedIsFrozenCorrect` and
`FreezeMatchesLedgerCorrect`. That nothing is adjusted before there is a statement
(`Blank`) is what makes the zero of a new row right.

Only model-checked: every liveness property, and the properties whose violation a configuration of section 4 shows.
Every other safety property of a run is a theorem.

## 6. Not modelled

Per component, with reasons, in `PROJECT.json`. The map covers a small part of
the repository because most of it is user interface, read models over wide
tables, SQL with one statement per request, training content and vendored
scripts: none has a protocol to check. Of the code with state of its own, left
out are: reading and reporting code; authorization predicates; the size of
amounts; campaign limits; overrides and hourly pay; the move of a sale's basis
date into another week, and a released sale that goes back to the week of its basis
when its commission is approved (two matters between statements, one of which may
be locked); other executors of guarded
actions; disputes; the distributed throttle of the scanners; calling sessions;
notifications.

## 7. Plan

Done: the money path from the knock to the payout, part by part, with the queue
between sales and ledger, the sales in front of it, the knocks, the statements
and the payouts proved; guarded actions, bulk assignment, sign-in, the lease and
the provider queue, all with proofs.

Next, in this order:

1. `Statements` composed with `Payouts` (a reopened statement has a new amount
   and an old transfer) and with `SaleLifecycle` (the same sale request emits and
   reprices). Abstract specification: a locked statement keeps its amount.
2. The life of a spiff (review, void) with clawbacks, disputes, and campaign
   limits as pure operators of `shared/incentiveEngine.ts`, checked against a
   reference definition.
