----------------------------- MODULE EventQueue -----------------------------
(***************************************************************************)
(* The incentive event queue: the append-only log of domain events         *)
(* (server/domainEventStore.ts), the per-event processing rows             *)
(* (server/eventQueueOps.ts) and the subscriber that turns events into     *)
(* award and clawback rows of the spiffs ledger                            *)
(* (server/incentiveSubscriber.ts).                                        *)
(*                                                                         *)
(* Two kinds of process drain the one queue.  The cluster primary calls    *)
(* drainOnce(now, 1) inside one BEGIN IMMEDIATE transaction                *)
(* (globalMaintenance.ts): MaintenanceDrain is a single atomic step.       *)
(* Every cluster worker runs the timer of index.ts, which calls drain()    *)
(* outside a transaction: each statement commits by itself, so a worker is *)
(* a little program with a program counter, and other processes, operators *)
(* and crashes come between its statements.                                *)
(***************************************************************************)
EXTENDS DomainEvents, FiniteSets

CONSTANTS
  Workers,       \* cluster workers running the drainIncentives timer
  NoWorker,      \* "lease_owner IS NULL", or the lease has expired
  Campaigns,     \* the tenant's engine campaigns
  Clawing,       \* the campaigns whose clawback policy reverses an award
  MaxEvents,     \* bound: events the log may hold
  BatchLimit,    \* the LIMIT of nextBatch (200 in drainOnce)
  MaxAttempts,   \* MAX_ATTEMPTS (5 in the code)
  RetryBudget,   \* bound: RETRYs the operators issue
  CrashBudget,   \* bound: crashes of the workers
  Stalls,        \* may a worker sit on an event beyond LEASE_TTL_MS?
  RetryCleared   \* may an operator RETRY an event already dead-lettered?

ASSUME EventQueueAssumption ==
  /\ NoWorker \notin Workers
  /\ Clawing \subseteq Campaigns
  /\ MaxEvents \in Nat
  /\ BatchLimit \in Nat \ {0}
  /\ MaxAttempts \in Nat \ {0}
  /\ RetryBudget \in Nat
  /\ CrashBudget \in Nat
  /\ Stalls \in BOOLEAN
  /\ RetryCleared \in BOOLEAN

Ids == 1..MaxEvents

VARIABLES
  log,        \* domain_events, in id order: the id of log[i] is i
  cursor,     \* event_subscriptions.last_event_id of the "incentives" reader
  status,     \* event_processing_state.status; "none" when there is no row
  attempts,   \* event_processing_state.attempts
  due,        \* is next_attempt_at NULL or in the past?
  lease,      \* the owner of the live lease on each event, or NoWorker
  awards,     \* spiffs rows with key inc:c<campaign>:e<event>:r<recipient>
  clawbacks,  \* spiffs rows with key clawback:<award of event a>:e<event x>
  pc,         \* where each worker is in drainOnce
  at,         \* the event of its batch a worker is looking at
  upto,       \* the last event of its batch
  lastId,     \* result.lastEventId of its drain
  retries,    \* RETRYs issued so far
  crashes     \* crashes so far

queue   == <<status, attempts, due, lease>>
ledger  == <<awards, clawbacks>>
workers == <<pc, at, upto, lastId>>
spent   == <<retries, crashes>>
vars    == <<log, cursor, queue, ledger, workers, spent>>

Statuses == {"none", "pending", "processing", "completed", "failed",
             "blocked", "dead_lettered", "resolved"}

\* The queue is finished with an event: nothing will lease it again.
Done == {"completed", "dead_lettered", "resolved"}

\* Mutant: a blocked event is passed without an operator's verdict.
ClearedOrBlocked == {"dead_lettered", "resolved", "blocked"}

\* isOperatorCleared: the statuses an operator has set; the queue may pass.
Cleared == {"dead_lettered", "resolved"}

\* A worker between acquireLease and the row update that releases the lease.
InFlight(w) == pc[w] \in {"tx", "complete", "fail"}

TypeOK ==
  /\ log \in Seq(Event) /\ Len(log) <= MaxEvents
  /\ cursor \in 0..MaxEvents
  /\ status \in [Ids -> Statuses]
  /\ attempts \in [Ids -> Nat]
  /\ due \in [Ids -> BOOLEAN]
  /\ lease \in [Ids -> Workers \cup {NoWorker}]
  /\ awards \in [Campaigns -> [Ids -> Nat]]
  /\ clawbacks \in [Campaigns -> [Ids -> [Ids -> Nat]]]
  /\ pc \in [Workers -> {"idle", "check", "lease", "tx", "complete",
                         "fail", "advance"}]
  /\ at \in [Workers -> 0..MaxEvents]
  /\ upto \in [Workers -> 0..MaxEvents]
  /\ lastId \in [Workers -> 0..MaxEvents]
  /\ retries \in 0..RetryBudget
  /\ crashes \in 0..CrashBudget

Init ==
  /\ log = <<>>
  /\ cursor = 0
  /\ status = [e \in Ids |-> "none"]
  /\ attempts = [e \in Ids |-> 0]
  /\ due = [e \in Ids |-> TRUE]
  /\ lease = [e \in Ids |-> NoWorker]
  /\ awards = [c \in Campaigns |-> [e \in Ids |-> 0]]
  /\ clawbacks = [c \in Campaigns |-> [a \in Ids |-> [x \in Ids |-> 0]]]
  /\ pc = [w \in Workers |-> "idle"]
  /\ at = [w \in Workers |-> 0]
  /\ upto = [w \in Workers |-> 0]
  /\ lastId = [w \in Workers |-> 0]
  /\ retries = 0
  /\ crashes = 0

-----------------------------------------------------------------------------
(* The event log.                                                          *)

\* A process records that a sale was approved or cancelled.  Here the approval
\* is on record before the cancellation: SaleLifecycle checks what the code
\* that emits makes of that.
Emit(ty, s) ==
  /\ Len(log) < MaxEvents
  /\ ty = "SALE_CANCELLED" => Logged(log, "SALE_APPROVED", s)
  /\ log' = EmitTo(log, ty, s)
  /\ UNCHANGED <<cursor, queue, ledger, workers, spent>>

-----------------------------------------------------------------------------
(* What processing one event writes: the transaction tx of drainOnce.      *)

\* Mutant: the award is inserted without the unique index on its key.
AwardRowsAgain(n) == n + 1

\* writeAward: the unique index on the reward key refuses a second row.
AwardRows(n) == IF n = 0 THEN 1 ELSE n

\* Mutant: the clawback does not look for the award it reverses.
ReversesUnpaid(c, a, x) ==
  /\ c \in Clawing
  /\ a \in 1..Len(log)
  /\ log[a] = [type |-> "SALE_APPROVED", sale |-> log[x].sale]

\* applyClawbacks finds the awards of this sale through the event they cite.
Reverses(c, a, x) ==
  /\ c \in Clawing
  /\ a \in 1..Len(log)
  /\ log[a] = [type |-> "SALE_APPROVED", sale |-> log[x].sale]
  /\ awards[c][a] > 0

\* One negative row per award and reversing event, under the same index.
ClawbackRows(n) == IF n = 0 THEN 1 ELSE n

\* The rows of award event a once event e has been processed, given the
\* campaigns whose evaluateIncentive decides for an award.
AwardsAfter(c, a, e, winners) ==
  IF a = e /\ c \in winners THEN AwardRows(awards[c][a]) ELSE awards[c][a]

ClawbacksAfter(c, a, x, e) ==
  IF x = e /\ Reverses(c, a, e)
  THEN ClawbackRows(clawbacks[c][a][x]) ELSE clawbacks[c][a][x]

ApplyEffects(e, winners) ==
  IF log[e].type = "SALE_CANCELLED"
  THEN /\ clawbacks' = [c \in Campaigns |-> [a \in Ids |->
                          [x \in Ids |-> ClawbacksAfter(c, a, x, e)]]]
       /\ awards' = awards
  ELSE /\ awards' = [c \in Campaigns |-> [a \in Ids |->
                       AwardsAfter(c, a, e, winners)]]
       /\ clawbacks' = clawbacks

-----------------------------------------------------------------------------
(* The processing rows.                                                    *)

\* Mutant: the WHERE clause without its lease.
LeasableByAll(e) ==
  /\ status[e] \in {"none", "pending", "failed", "processing"}
  /\ due[e]

\* The WHERE clause of acquireLease.
Leasable(e) ==
  /\ status[e] \in {"none", "pending", "failed", "processing"}
  /\ due[e]
  /\ lease[e] = NoWorker

CompleteRow(e) ==
  /\ status' = [status EXCEPT ![e] = "completed"]
  /\ due' = [due EXCEPT ![e] = TRUE]
  /\ lease' = [lease EXCEPT ![e] = NoWorker]
  /\ attempts' = attempts

Exhausted(n) == n >= MaxAttempts

\* markFailed: count the attempt, back off, and block once none is left.
FailRow(e) ==
  /\ attempts' = [attempts EXCEPT ![e] = @ + 1]
  /\ status' = [status EXCEPT
       ![e] = IF Exhausted(attempts[e] + 1) THEN "blocked" ELSE "failed"]
  /\ due' = [due EXCEPT ![e] = Exhausted(attempts[e] + 1)]
  /\ lease' = [lease EXCEPT ![e] = NoWorker]

-----------------------------------------------------------------------------
(* The cluster primary: one event per BEGIN IMMEDIATE transaction, so its  *)
(* lease, its effects, its row and the cursor commit together.             *)

MaintenanceSkip ==
  LET e == cursor + 1 IN
  /\ cursor < Len(log)
  /\ status[e] \in Cleared
  /\ cursor' = Advanced(cursor, e)
  /\ UNCHANGED <<log, queue, ledger, workers, spent>>

MaintenanceCommit ==
  LET e == cursor + 1 IN
  /\ cursor < Len(log)
  /\ Leasable(e)
  /\ \E winners \in SUBSET Campaigns : ApplyEffects(e, winners)
  /\ CompleteRow(e)
  /\ cursor' = Advanced(cursor, e)
  /\ UNCHANGED <<log, workers, spent>>

\* The effects throw: their savepoint rolls back and markFailed commits.
MaintenanceFail ==
  LET e == cursor + 1 IN
  /\ cursor < Len(log)
  /\ Leasable(e)
  /\ FailRow(e)
  /\ UNCHANGED <<log, cursor, ledger, workers, spent>>

MaintenanceDrain == MaintenanceSkip \/ MaintenanceCommit \/ MaintenanceFail

-----------------------------------------------------------------------------
(* A cluster worker: the same drainOnce, one committed statement at a time.*)

Least(m, n) == IF m < n THEN m ELSE n

ReadBatch(w) ==
  /\ pc[w] = "idle"
  /\ cursor < Len(log)
  /\ at' = [at EXCEPT ![w] = cursor + 1]
  /\ upto' = [upto EXCEPT ![w] = Least(cursor + BatchLimit, Len(log))]
  /\ lastId' = [lastId EXCEPT ![w] = cursor]
  /\ pc' = [pc EXCEPT ![w] = "check"]
  /\ UNCHANGED <<log, cursor, queue, ledger, spent>>

\* Mutant: result.lastEventId is left behind.
ProceedBehind(w) ==
  /\ lastId' = lastId
  /\ IF at[w] < upto[w]
     THEN /\ at' = [at EXCEPT ![w] = @ + 1]
          /\ pc' = [pc EXCEPT ![w] = "check"]
     ELSE /\ at' = at
          /\ pc' = [pc EXCEPT ![w] = "advance"]
  /\ upto' = upto

\* Go on to the next event of the batch, or to the final advanceCursor.
Proceed(w) ==
  /\ lastId' = [lastId EXCEPT ![w] = at[w]]
  /\ IF at[w] < upto[w]
     THEN /\ at' = [at EXCEPT ![w] = @ + 1]
          /\ pc' = [pc EXCEPT ![w] = "check"]
     ELSE /\ at' = at
          /\ pc' = [pc EXCEPT ![w] = "advance"]
  /\ upto' = upto

SkipCleared(w) ==
  /\ pc[w] = "check"
  /\ status[at[w]] \in Cleared
  /\ Proceed(w)
  /\ UNCHANGED <<log, cursor, queue, ledger, spent>>

NotCleared(w) ==
  /\ pc[w] = "check"
  /\ status[at[w]] \notin Cleared
  /\ pc' = [pc EXCEPT ![w] = "lease"]
  /\ UNCHANGED <<log, cursor, queue, ledger, at, upto, lastId, spent>>

AcquireLease(w) ==
  /\ pc[w] = "lease"
  /\ Leasable(at[w])
  /\ status' = [status EXCEPT ![at[w]] = "processing"]
  /\ lease' = [lease EXCEPT ![at[w]] = w]
  /\ pc' = [pc EXCEPT ![w] = "tx"]
  /\ UNCHANGED <<log, cursor, attempts, due, ledger, at, upto, lastId, spent>>

\* Mutants: a deferred event is counted as seen, and the batch goes on after it.
DeferSeen(w) ==
  /\ pc[w] = "lease"
  /\ ~Leasable(at[w])
  /\ pc' = [pc EXCEPT ![w] = "advance"]
  /\ lastId' = [lastId EXCEPT ![w] = at[w]]
  /\ UNCHANGED <<log, cursor, queue, ledger, at, upto, spent>>

DeferOn(w) ==
  /\ pc[w] = "lease"
  /\ ~Leasable(at[w])
  /\ Proceed(w)
  /\ UNCHANGED <<log, cursor, queue, ledger, spent>>

\* Leased elsewhere, backing off, blocked or set aside: stop the batch here.
Defer(w) ==
  /\ pc[w] = "lease"
  /\ ~Leasable(at[w])
  /\ pc' = [pc EXCEPT ![w] = "advance"]
  /\ UNCHANGED <<log, cursor, queue, ledger, at, upto, lastId, spent>>

RunEffects(w) ==
  /\ pc[w] = "tx"
  /\ \E winners \in SUBSET Campaigns : ApplyEffects(at[w], winners)
  /\ pc' = [pc EXCEPT ![w] = "complete"]
  /\ UNCHANGED <<log, cursor, queue, at, upto, lastId, spent>>

\* Mutant: the exception is swallowed and the event marked completed.
EffectsThrowSwallowed(w) ==
  /\ pc[w] = "tx"
  /\ pc' = [pc EXCEPT ![w] = "complete"]
  /\ UNCHANGED <<log, cursor, queue, ledger, at, upto, lastId, spent>>

EffectsThrow(w) ==
  /\ pc[w] = "tx"
  /\ pc' = [pc EXCEPT ![w] = "fail"]
  /\ UNCHANGED <<log, cursor, queue, ledger, at, upto, lastId, spent>>

MarkFailed(w) ==
  /\ pc[w] = "fail"
  /\ FailRow(at[w])
  /\ pc' = [pc EXCEPT ![w] = "advance"]
  /\ UNCHANGED <<log, cursor, ledger, at, upto, lastId, spent>>

MarkCompleted(w) ==
  /\ pc[w] = "complete"
  /\ CompleteRow(at[w])
  /\ Proceed(w)
  /\ UNCHANGED <<log, cursor, ledger, spent>>

AdvanceCursor(w) ==
  /\ pc[w] = "advance"
  /\ cursor' = Advanced(cursor, lastId[w])
  /\ pc' = [pc EXCEPT ![w] = "idle"]
  /\ at' = [at EXCEPT ![w] = 0]
  /\ upto' = [upto EXCEPT ![w] = 0]
  /\ lastId' = [lastId EXCEPT ![w] = 0]
  /\ UNCHANGED <<log, queue, ledger, spent>>

\* The process dies, or a statement throws (SQLITE_BUSY) and the exception
\* leaves drainOnce: what was committed stays, the rest of the batch is gone.
Crash(w) ==
  /\ pc[w] # "idle"
  /\ crashes < CrashBudget
  /\ crashes' = crashes + 1
  /\ pc' = [pc EXCEPT ![w] = "idle"]
  /\ at' = [at EXCEPT ![w] = 0]
  /\ upto' = [upto EXCEPT ![w] = 0]
  /\ lastId' = [lastId EXCEPT ![w] = 0]
  /\ UNCHANGED <<log, cursor, queue, ledger, retries>>

WorkerStep(w) ==
  \/ ReadBatch(w)    \/ SkipCleared(w)  \/ NotCleared(w)
  \/ AcquireLease(w) \/ Defer(w)        \/ RunEffects(w)
  \/ EffectsThrow(w) \/ MarkFailed(w)   \/ MarkCompleted(w)
  \/ AdvanceCursor(w)

-----------------------------------------------------------------------------
(* Time.                                                                   *)

BackoffElapses(e) ==
  /\ ~due[e]
  /\ due' = [due EXCEPT ![e] = TRUE]
  /\ UNCHANGED <<log, cursor, status, attempts, lease, ledger, workers, spent>>

\* LEASE_TTL_MS passes.  Unless Stalls, a worker that is still alive finishes
\* an event well within it, and only a dead worker's lease runs out.
LeaseExpires(e) ==
  /\ lease[e] # NoWorker
  /\ Stalls \/ ~(InFlight(lease[e]) /\ at[lease[e]] = e)
  /\ lease' = [lease EXCEPT ![e] = NoWorker]
  /\ UNCHANGED <<log, cursor, status, attempts, due, ledger, workers, spent>>

-----------------------------------------------------------------------------
(* operatorAction: one interactiveTransaction.                             *)

Actionable == {"failed", "blocked", "dead_lettered"}

OperatorRow(e, st) ==
  /\ status' = [status EXCEPT ![e] = st]
  /\ due' = [due EXCEPT ![e] = TRUE]
  /\ lease' = [lease EXCEPT ![e] = NoWorker]
  /\ attempts' = attempts

OperatorRetry(e) ==
  /\ retries < RetryBudget
  /\ status[e] \in Actionable
  /\ status[e] = "dead_lettered" => RetryCleared
  /\ e > cursor
  /\ OperatorRow(e, "pending")
  /\ retries' = retries + 1
  /\ UNCHANGED <<log, cursor, ledger, workers, crashes>>

OperatorClear(e) ==
  /\ status[e] \in Actionable
  /\ \E st \in Cleared : OperatorRow(e, st)
  /\ UNCHANGED <<log, cursor, ledger, workers, spent>>

-----------------------------------------------------------------------------
\* Everything that happens to events once they are on the log.
Drain ==
  \/ MaintenanceDrain
  \/ \E w \in Workers : WorkerStep(w) \/ Crash(w)
  \/ \E e \in Ids : \/ BackoffElapses(e) \/ LeaseExpires(e)
                    \/ OperatorRetry(e)  \/ OperatorClear(e)

Next ==
  \/ \E ty \in EventTypes, s \in Sales : Emit(ty, s)
  \/ Drain

Spec == Init /\ [][Next]_vars

\* The 30 s timers keep calling the drains, the clock advances, and somebody
\* eventually acts on an event that has run out of attempts.
OperatorAttends(e) == status[e] = "blocked" /\ OperatorClear(e)

Fairness ==
  /\ WF_vars(MaintenanceDrain)
  /\ \A w \in Workers : WF_vars(WorkerStep(w))
  /\ \A e \in Ids : /\ WF_vars(BackoffElapses(e))
                    /\ WF_vars(LeaseExpires(e))
                    /\ WF_vars(OperatorAttends(e))

FairSpec == Spec /\ Fairness

-----------------------------------------------------------------------------
(* Refinement: the queue implements a ledger written strictly in event     *)
(* order.  An event is settled when it and all before it are done.         *)

Settled == Cardinality({e \in 1..Len(log) : \A d \in 1..e : status[d] \in Done})

Ordered == INSTANCE OrderedLedger WITH settled <- Settled

\* Each step is a step of the abstract ledger, or none.
ImplementsOrderedLedger == Ordered!Spec

-----------------------------------------------------------------------------
(* Properties.                                                             *)

\* "A later event never bypasses an unresolved predecessor" (eventQueueOps.ts,
\* header): once any attempt at an event has been made, the queue is finished
\* with every event before it.
NoBypass ==
  \A f \in Ids : status[f] \notin {"none", "pending"} =>
    \A e \in 1..(f - 1) : status[e] \in Done

\* The cursor passes an event only when its work committed or an operator
\* set it aside (drainOnce: "only for events whose work committed").
CursorSound == \A e \in 1..cursor : status[e] \in Done

\* Two processes never run the effects of one event at the same time
\* (acquireLease's compare-and-swap).
OneHolder ==
  \A v, w \in Workers :
    v # w /\ InFlight(v) /\ InFlight(w) => at[v] # at[w]

\* However often an event is delivered, a sale is worth one award per campaign
\* and one clawback per award (rewardKey and the clawback key, under the
\* unique index on spiffs.sale_ref, and the dedupe key of the event).
PaidOnce ==
  \A c \in Campaigns : \A a, b \in 1..Len(log) :
    /\ awards[c][a] <= 1
    /\ awards[c][a] > 0 /\ awards[c][b] > 0 /\ log[a].sale = log[b].sale
         => a = b
    /\ \A x, y \in Ids :
         /\ clawbacks[c][a][x] <= 1
         /\ clawbacks[c][a][x] > 0 /\ clawbacks[c][a][y] > 0 => x = y

\* A clawback reverses an award that was really made, for the same sale.
ClawbackHasAward ==
  \A c \in Campaigns, a \in Ids, x \in Ids : clawbacks[c][a][x] > 0 =>
    /\ awards[c][a] > 0
    /\ a < x /\ x <= Len(log)
    /\ log[a].sale = log[x].sale

\* Once the cancellation of a sale is processed, no award of that sale in a
\* clawing campaign stands unreversed: the order the queue keeps is what makes
\* this true ("a SALE_CANCELLED clawback must not be applied before the
\* SALE_APPROVED award it reverses").
NoSurvivingAward ==
  \A c \in Clawing : \A a, x \in 1..Len(log) :
    /\ log[a].type = "SALE_APPROVED"
    /\ log[x] = [type |-> "SALE_CANCELLED", sale |-> log[a].sale]
    /\ status[x] = "completed"
    => awards[c][a] = clawbacks[c][a][x]

\* A completed event stays completed: nothing re-opens work that committed.
CompletedIsFinal ==
  [][\A e \in Ids : status[e] = "completed" => status'[e] = "completed"]_vars

\* Every recorded event is eventually passed by the cursor, as long as no worker
\* dies: nothing the queue refuses, backs off or blocks stays in the way.
EveryEventPassed == \A e \in Ids : (e <= Len(log)) ~> (e <= cursor \/ crashes > 0)

\* "If the process dies between the write and the advance, the batch re-runs"
\* (incentiveSubscriber.ts, header): committed work is eventually behind the
\* cursor.
CommittedWorkIsPassed ==
  \A e \in Ids : (status[e] = "completed") ~> (e <= cursor)
=============================================================================
