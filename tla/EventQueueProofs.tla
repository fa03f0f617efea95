-------------------------- MODULE EventQueueProofs --------------------------
(***************************************************************************)
(* Proofs about the incentive event queue, for every value of the          *)
(* constants of EventQueue: what the ledgers hold, whatever crashes and    *)
(* stalls, and then that the queue keeps its order.  The last part is the  *)
(* same queue behind the requests that emit the events (IncentivePipeline).*)
(***************************************************************************)
EXTENDS IncentivePipeline, FiniteSetTheorems, TLAPS

USE DEF spent, queue, ledger, workers

-----------------------------------------------------------------------------
(* Type correctness.                                                       *)

\* The effects of an event keep the shape of the two ledgers.
LEMMA EffectsType ==
  ASSUME TypeOK, NEW e, NEW winners, ApplyEffects(e, winners)
  PROVE  /\ awards' \in [Campaigns -> [Ids -> Nat]]
         /\ clawbacks' \in [Campaigns -> [Ids -> [Ids -> Nat]]]
<1>1. \A c \in Campaigns, a \in Ids : AwardsAfter(c, a, e, winners) \in Nat
  BY DEF TypeOK, AwardsAfter, AwardRows
<1>2. ASSUME NEW c \in Campaigns, NEW a \in Ids, NEW x \in Ids
      PROVE  ClawbacksAfter(c, a, x, e) \in Nat
  <2>1. clawbacks[c][a][x] \in Nat
    BY DEF TypeOK
  <2> QED BY <2>1 DEF ClawbacksAfter, ClawbackRows
<1>3. CASE log[e].type = "SALE_CANCELLED"
  BY <1>2, <1>3 DEF TypeOK, ApplyEffects
<1>4. CASE log[e].type # "SALE_CANCELLED"
  BY <1>1, <1>4 DEF TypeOK, ApplyEffects
<1> QED BY <1>3, <1>4

\* Recording an event leaves a log of events.
LEMMA EmitType ==
  ASSUME NEW l \in Seq(Event), NEW ty \in EventTypes, NEW s \in Sales
  PROVE  /\ EmitTo(l, ty, s) \in Seq(Event)
         /\ Len(EmitTo(l, ty, s)) \in {Len(l), Len(l) + 1}
         /\ \A i \in 1..Len(l) : EmitTo(l, ty, s)[i] = l[i]
<1> DEFINE ev == [type |-> ty, sale |-> s]
<1>1. ev \in Event
  BY DEF Event
<1>2. CASE Logged(l, ty, s)
  BY <1>2 DEF EmitTo
<1>3. CASE ~Logged(l, ty, s)
  <2>1. EmitTo(l, ty, s) = Append(l, ev)
    BY <1>3 DEF EmitTo
  <2> QED BY <2>1, <1>1
<1> QED BY <1>2, <1>3

\* A failed attempt leaves a row of the right shape.
LEMMA FailRowType ==
  ASSUME TypeOK, NEW e, FailRow(e)
  PROVE  /\ status' \in [Ids -> Statuses]
         /\ attempts' \in [Ids -> Nat]
         /\ due' \in [Ids -> BOOLEAN]
         /\ lease' \in [Ids -> Workers \cup {NoWorker}]
<1>1. attempts' \in [Ids -> Nat]
  <2>1. CASE e \in Ids
    BY <2>1 DEF TypeOK, FailRow
  <2>2. CASE e \notin Ids
    BY <2>2 DEF TypeOK, FailRow
  <2> QED BY <2>1, <2>2
<1>2. status' \in [Ids -> Statuses]
  <2> DEFINE st == IF Exhausted(attempts[e] + 1) THEN "blocked" ELSE "failed"
  <2>1. st \in Statuses
    BY DEF Statuses
  <2> QED BY <2>1 DEF TypeOK, FailRow
<1>3. due' \in [Ids -> BOOLEAN]
  <2> DEFINE d == Exhausted(attempts[e] + 1)
  <2>1. d \in BOOLEAN
    BY DEF Exhausted
  <2>2. due' = [due EXCEPT ![e] = d]
    BY DEF FailRow
  <2> HIDE DEF d
  <2> QED BY <2>1, <2>2 DEF TypeOK
<1>4. lease' \in [Ids -> Workers \cup {NoWorker}]
  BY DEF TypeOK, FailRow
<1> QED BY <1>1, <1>2, <1>3, <1>4

\* A worker that goes on to the next event keeps its batch well formed.
LEMMA ProceedType ==
  ASSUME TypeOK, NEW w \in Workers, Proceed(w)
  PROVE  /\ pc' \in [Workers -> {"idle", "check", "lease", "tx", "complete",
                                 "fail", "advance"}]
         /\ at' \in [Workers -> 0..MaxEvents]
         /\ upto' \in [Workers -> 0..MaxEvents]
         /\ lastId' \in [Workers -> 0..MaxEvents]
<1>1. at[w] \in 0..MaxEvents /\ upto[w] \in 0..MaxEvents
  BY DEF TypeOK
<1>2. CASE at[w] < upto[w]
  <2>1. at[w] + 1 \in 0..MaxEvents
    BY <1>1, <1>2, EventQueueAssumption
  <2> QED BY <2>1, <1>2 DEF TypeOK, Proceed
<1>3. CASE ~(at[w] < upto[w])
  BY <1>3 DEF TypeOK, Proceed
<1> QED BY <1>2, <1>3

LEMMA WorkerStepType ==
  ASSUME TypeOK, NEW w \in Workers, WorkerStep(w) \/ Crash(w)
  PROVE  TypeOK'
<1> USE EventQueueAssumption
<1>1. CASE ReadBatch(w)
  BY <1>1 DEF TypeOK, ReadBatch, Least
<1>2. CASE SkipCleared(w)
  BY <1>2, ProceedType DEF TypeOK, SkipCleared
<1>3. CASE NotCleared(w)
  BY <1>3 DEF TypeOK, NotCleared
<1>4. CASE AcquireLease(w)
  BY <1>4 DEF TypeOK, AcquireLease, Statuses
<1>5. CASE Defer(w)
  BY <1>5 DEF TypeOK, Defer
<1>6. CASE RunEffects(w)
  BY <1>6, EffectsType DEF TypeOK, RunEffects
<1>7. CASE EffectsThrow(w)
  BY <1>7 DEF TypeOK, EffectsThrow
<1>8. CASE MarkFailed(w)
  BY <1>8, FailRowType DEF TypeOK, MarkFailed
<1>9. CASE MarkCompleted(w)
  BY <1>9, ProceedType DEF TypeOK, MarkCompleted, CompleteRow, Statuses
<1>10. CASE AdvanceCursor(w)
  BY <1>10 DEF TypeOK, AdvanceCursor, Advanced
<1>11. CASE Crash(w)
  BY <1>11 DEF TypeOK, Crash
<1> QED BY <1>1, <1>2, <1>3, <1>4, <1>5, <1>6, <1>7, <1>8, <1>9, <1>10, <1>11
        DEF WorkerStep

LEMMA TypeStep == TypeOK /\ [Next]_vars => TypeOK'
<1> SUFFICES ASSUME TypeOK, [Next]_vars PROVE TypeOK'
  OBVIOUS
<1> USE EventQueueAssumption
<1>1. ASSUME NEW ty \in EventTypes, NEW s \in Sales, Emit(ty, s)
      PROVE  TypeOK'
  BY <1>1, EmitType DEF TypeOK, Emit
<1>2. CASE MaintenanceSkip
  BY <1>2 DEF TypeOK, MaintenanceSkip, Advanced
<1>3. CASE MaintenanceCommit
  <2>1. /\ awards' \in [Campaigns -> [Ids -> Nat]]
        /\ clawbacks' \in [Campaigns -> [Ids -> [Ids -> Nat]]]
    BY <1>3, EffectsType DEF MaintenanceCommit
  <2>2. cursor' \in 0..MaxEvents
    BY <1>3 DEF TypeOK, MaintenanceCommit, Advanced
  <2> QED BY <1>3, <2>1, <2>2 DEF TypeOK, MaintenanceCommit, CompleteRow, Statuses
<1>4. CASE MaintenanceFail
  BY <1>4, FailRowType DEF TypeOK, MaintenanceFail
<1>5. ASSUME NEW w \in Workers, WorkerStep(w) \/ Crash(w)
      PROVE  TypeOK'
  BY <1>5, WorkerStepType
<1>6. ASSUME NEW e \in Ids, BackoffElapses(e)
      PROVE  TypeOK'
  BY <1>6 DEF TypeOK, BackoffElapses
<1>7. ASSUME NEW e \in Ids, LeaseExpires(e)
      PROVE  TypeOK'
  BY <1>7 DEF TypeOK, LeaseExpires
<1>8. ASSUME NEW e \in Ids, OperatorRetry(e)
      PROVE  TypeOK'
  BY <1>8 DEF TypeOK, OperatorRetry, OperatorRow, Statuses
<1>9. ASSUME NEW e \in Ids, OperatorClear(e)
      PROVE  TypeOK'
  BY <1>9 DEF TypeOK, OperatorClear, OperatorRow, Statuses, Cleared
<1>10. CASE UNCHANGED vars
  BY <1>10 DEF TypeOK, vars
<1> QED BY <1>1, <1>2, <1>3, <1>4, <1>5, <1>6, <1>7, <1>8, <1>9, <1>10
        DEF Next, Drain, MaintenanceDrain

\* Every reachable state is well typed: in particular no event ends with a
\* status the code does not know, and no position leaves the log's bound.
THEOREM TypeCorrect == Spec => []TypeOK
<1>1. Init => TypeOK
  BY EventQueueAssumption DEF Init, TypeOK, Statuses, Ids
<1> QED BY <1>1, TypeStep, PTL DEF Spec

-----------------------------------------------------------------------------
(* The ledger, whatever stalls, crashes and operators do.                  *)

\* The dedupe index keeps each event once.
NoRepeats == \A i, j \in 1..Len(log) : log[i] = log[j] => i = j

\* An approval is on record before the cancellation of the same sale.
ApprovalFirst ==
  \A j \in 1..Len(log) : log[j].type = "SALE_CANCELLED" =>
    \E i \in 1..(j - 1) :
      log[i] = [type |-> "SALE_APPROVED", sale |-> log[j].sale]

\* A worker that is looking at an event looks at one that is on record.
PositionInv ==
  \A w \in Workers : pc[w] \notin {"idle", "advance"} =>
    at[w] \in 1..Len(log) /\ upto[w] <= Len(log)

AwardInv ==
  \A c \in Campaigns, a \in Ids :
    /\ awards[c][a] \in 0..1
    /\ awards[c][a] > 0 => a <= Len(log) /\ log[a].type = "SALE_APPROVED"

ClawbackInv ==
  \A c \in Campaigns, a \in Ids, x \in Ids :
    /\ clawbacks[c][a][x] \in 0..1
    /\ clawbacks[c][a][x] > 0 =>
         /\ awards[c][a] > 0
         /\ x <= Len(log)
         /\ log[x] = [type |-> "SALE_CANCELLED", sale |-> log[a].sale]

RowsInv == TypeOK /\ NoRepeats /\ PositionInv /\ AwardInv /\ ClawbackInv

LogInv == NoRepeats /\ ApprovalFirst

LedgerInv == TypeOK /\ LogInv /\ PositionInv /\ AwardInv /\ ClawbackInv

\* The row invariant needs no order of the events.
LEMMA LedgerRows == LedgerInv <=> RowsInv /\ ApprovalFirst
BY DEF LedgerInv, LogInv, RowsInv

\* emit() with no question asked about what is on record.
Records(ty, s) ==
  /\ Len(log) < MaxEvents
  /\ log' = EmitTo(log, ty, s)
  /\ UNCHANGED <<cursor, queue, ledger, workers, spent>>

\* Recording keeps every event at its place and adds at most one at the end.
LEMMA EmitStep ==
  ASSUME TypeOK, NEW ty \in EventTypes, NEW s \in Sales, Records(ty, s)
  PROVE  /\ log' \in Seq(Event) /\ Len(log') >= Len(log)
         /\ \A i \in 1..Len(log) : i \in 1..Len(log') /\ log'[i] = log[i]
         /\ \/ log' = log
            \/ /\ Len(log') = Len(log) + 1
               /\ log'[Len(log) + 1] = [type |-> ty, sale |-> s]
               /\ ~Logged(log, ty, s)
<1> DEFINE ev == [type |-> ty, sale |-> s]
<1>1. log \in Seq(Event) /\ ev \in Event
  BY DEF TypeOK, Event
<1>2. CASE Logged(log, ty, s)
  BY <1>1, <1>2 DEF Records, EmitTo
<1>3. CASE ~Logged(log, ty, s)
  <2>1. log' = Append(log, ev)
    BY <1>3 DEF Records, EmitTo
  <2> HIDE DEF ev
  <2>2. Len(log') = Len(log) + 1 /\ log' \in Seq(Event)
    BY <2>1, <1>1
  <2>3. \A i \in 1..Len(log) : log'[i] = log[i]
    BY <2>1, <1>1
  <2>4. log'[Len(log) + 1] = ev
    BY <2>1, <1>1
  <2> QED BY <1>1, <1>3, <2>2, <2>3, <2>4 DEF ev
<1> QED BY <1>2, <1>3

\* The dedupe index holds whatever is recorded,
LEMMA RecordsNoRepeats ==
  ASSUME TypeOK, NoRepeats, NEW ty \in EventTypes, NEW s \in Sales,
         Records(ty, s)
  PROVE  NoRepeats'
<1>1. CASE log' = log
  BY <1>1 DEF NoRepeats
<1>2. CASE log' # log
  <2> DEFINE n == Len(log) + 1
  <2>1. /\ Len(log') = n /\ n \in Nat /\ Len(log) \in Nat
        /\ log'[n] = [type |-> ty, sale |-> s]
        /\ \A i \in 1..Len(log) : log'[i] = log[i]
        /\ \A i \in 1..Len(log) : log[i] # [type |-> ty, sale |-> s]
    BY <1>2, EmitStep DEF TypeOK, Logged
  <2>2. ASSUME NEW i \in 1..n, NEW j \in 1..n, log'[i] = log'[j]
        PROVE  i = j
    <3>1. CASE i = n /\ j = n
      BY <3>1
    <3>2. CASE i # n /\ j # n
      BY <2>1, <2>2, <3>2 DEF NoRepeats
    <3>3. CASE i = n /\ j # n
      BY <2>1, <2>2, <3>3
    <3>4. CASE i # n /\ j = n
      BY <2>1, <2>2, <3>4
    <3> QED BY <3>1, <3>2, <3>3, <3>4
  <2> QED BY <2>1, <2>2 DEF NoRepeats
<1> QED BY <1>1, <1>2

\* and the approval stays first when a cancellation waits for it.
LEMMA EmitApprovalFirst ==
  ASSUME TypeOK, ApprovalFirst, NEW ty \in EventTypes, NEW s \in Sales,
         Emit(ty, s)
  PROVE  ApprovalFirst'
<1>0. Records(ty, s)
  BY DEF Emit, Records
<1>1. CASE log' = log
  BY <1>1 DEF ApprovalFirst
<1>2. CASE log' # log
  <2> DEFINE n == Len(log) + 1
  <2>1. /\ Len(log') = n /\ n \in Nat /\ Len(log) \in Nat
        /\ log'[n] = [type |-> ty, sale |-> s]
        /\ \A i \in 1..Len(log) : log'[i] = log[i]
    BY <1>0, <1>2, EmitStep DEF TypeOK
  <2>2. ASSUME NEW j \in 1..n, log'[j].type = "SALE_CANCELLED"
        PROVE  \E i \in 1..(j - 1) :
                 log'[i] = [type |-> "SALE_APPROVED", sale |-> log'[j].sale]
    <3>1. CASE j = n
      <4>1. ty = "SALE_CANCELLED" /\ log'[j].sale = s
        BY <2>1, <2>2, <3>1
      <4>2. Logged(log, "SALE_APPROVED", s)
        BY <4>1 DEF Emit
      <4> QED BY <2>1, <3>1, <4>1, <4>2 DEF Logged
    <3>2. CASE j # n
      <4>1. j \in 1..Len(log) /\ log'[j] = log[j]
        BY <2>1, <3>2
      <4>2. PICK i \in 1..(j - 1) :
              log[i] = [type |-> "SALE_APPROVED", sale |-> log[j].sale]
        BY <4>1, <2>2 DEF ApprovalFirst
      <4> QED BY <2>1, <4>1, <4>2
    <3> QED BY <3>1, <3>2
  <2> QED BY <2>1, <2>2 DEF ApprovalFirst
<1> QED BY <1>1, <1>2

\* Processing an event that is on record keeps the ledger in order.
LEMMA EffectsLedger ==
  ASSUME TypeOK, AwardInv, ClawbackInv, log' = log,
         NEW e \in 1..Len(log), NEW winners, ApplyEffects(e, winners)
  PROVE  AwardInv' /\ ClawbackInv'
<1>1. e \in Ids /\ log[e] \in Event
  BY EventQueueAssumption DEF TypeOK, Ids
<1>2. log[e] = [type |-> log[e].type, sale |-> log[e].sale]
  BY <1>1 DEF Event
<1>3. CASE log[e].type = "SALE_CANCELLED"
  <2>1. awards' = awards
    BY <1>3 DEF ApplyEffects
  <2>2. ASSUME NEW c \in Campaigns, NEW a \in Ids, NEW x \in Ids
        PROVE  clawbacks'[c][a][x] = ClawbacksAfter(c, a, x, e)
    BY <1>3 DEF ApplyEffects
  <2>3. ASSUME NEW c \in Campaigns, NEW a \in Ids, NEW x \in Ids
        PROVE  /\ clawbacks'[c][a][x] \in 0..1
               /\ clawbacks'[c][a][x] > 0 =>
                    /\ awards'[c][a] > 0
                    /\ x <= Len(log')
                    /\ log'[x] = [type |-> "SALE_CANCELLED", sale |-> log'[a].sale]
    <3>1. CASE x = e /\ Reverses(c, a, e)
      <4>1. log[a].sale = log[e].sale /\ awards[c][a] > 0
        BY <3>1 DEF Reverses
      <4>2. clawbacks'[c][a][x] \in 0..1
        <5>1. clawbacks'[c][a][x] = ClawbackRows(clawbacks[c][a][x])
          BY <2>2, <3>1 DEF ClawbacksAfter
        <5>2. clawbacks[c][a][x] \in 0..1
          BY DEF ClawbackInv
        <5> QED BY <5>1, <5>2 DEF ClawbackRows
      <4>3. x <= Len(log')
        BY <3>1
      <4>4. log'[x] = [type |-> "SALE_CANCELLED", sale |-> log'[a].sale]
        BY <1>2, <1>3, <3>1, <4>1
      <4> QED BY <2>1, <4>1, <4>2, <4>3, <4>4
    <3>2. CASE ~(x = e /\ Reverses(c, a, e))
      <4>1. clawbacks'[c][a][x] = clawbacks[c][a][x]
        BY <2>2, <3>2 DEF ClawbacksAfter
      <4> QED BY <2>1, <4>1 DEF ClawbackInv
    <3> QED BY <3>1, <3>2
  <2>4. AwardInv'
    BY <2>1 DEF AwardInv
  <2> QED BY <2>3, <2>4 DEF ClawbackInv
<1>4. CASE log[e].type # "SALE_CANCELLED"
  <2>1. clawbacks' = clawbacks
    BY <1>4 DEF ApplyEffects
  <2>2. ASSUME NEW c \in Campaigns, NEW a \in Ids
        PROVE  awards'[c][a] = AwardsAfter(c, a, e, winners)
    BY <1>4 DEF ApplyEffects
  <2>3. log[e].type = "SALE_APPROVED"
    BY <1>1, <1>4 DEF Event, EventTypes
  <2>4. ASSUME NEW c \in Campaigns, NEW a \in Ids
        PROVE  /\ awards'[c][a] \in 0..1
               /\ awards'[c][a] > 0 => a <= Len(log') /\ log'[a].type = "SALE_APPROVED"
               /\ awards[c][a] > 0 => awards'[c][a] > 0
    BY <2>2, <2>3 DEF AwardsAfter, AwardRows, AwardInv
  <2>5. AwardInv'
    BY <2>4 DEF AwardInv
  <2>6. ClawbackInv'
    BY <2>1, <2>4 DEF ClawbackInv
  <2> QED BY <2>5, <2>6
<1> QED BY <1>3, <1>4

\* A worker that goes on stays inside its batch.
LEMMA ProceedPosition ==
  ASSUME TypeOK, PositionInv, log' = log,
         NEW w \in Workers, pc[w] \notin {"idle", "advance"}, Proceed(w)
  PROVE  PositionInv'
<1>1. at[w] \in 1..Len(log) /\ upto[w] <= Len(log) /\ upto[w] \in Nat
  BY DEF PositionInv, TypeOK
<1>2. Len(log) \in Nat
  BY DEF TypeOK
<1>3. /\ at' = IF at[w] < upto[w] THEN [at EXCEPT ![w] = @ + 1] ELSE at
      /\ upto' = upto
      /\ \A v \in Workers : v # w => pc'[v] = pc[v]
      /\ at[w] < upto[w] \/ pc'[w] = "advance"
  BY DEF TypeOK, Proceed
<1>4. ASSUME NEW v \in Workers, pc'[v] \notin {"idle", "advance"}
      PROVE  at'[v] \in 1..Len(log) /\ upto'[v] <= Len(log)
  <2>1. CASE v = w
    BY <1>1, <1>2, <1>3, <1>4, <2>1 DEF TypeOK
  <2>2. CASE v # w
    BY <1>3, <1>4, <2>2 DEF TypeOK, PositionInv
  <2> QED BY <2>1, <2>2
<1> QED BY <1>4 DEF PositionInv

\* A worker's statement keeps the rows in order,
LEMMA WorkerStepRows ==
  ASSUME RowsInv, NEW w \in Workers, WorkerStep(w) \/ Crash(w)
  PROVE  RowsInv' /\ log' = log
<1>1. TypeOK'
  BY WorkerStepType DEF RowsInv
<1>2. log' = log /\ NoRepeats'
  BY DEF RowsInv, NoRepeats, WorkerStep, ReadBatch, SkipCleared, NotCleared,
         AcquireLease, Defer, RunEffects, EffectsThrow, MarkFailed,
         MarkCompleted, AdvanceCursor, Crash
<1>3. PositionInv'
  <2> USE <1>2 DEF RowsInv
  <2>1. CASE ReadBatch(w)
    BY <2>1, EventQueueAssumption DEF ReadBatch, Least, PositionInv, TypeOK
  <2>2. CASE SkipCleared(w)
    BY <2>2, ProceedPosition DEF SkipCleared
  <2>3. CASE MarkCompleted(w)
    BY <2>3, ProceedPosition DEF MarkCompleted
  <2>4. CASE NotCleared(w) \/ AcquireLease(w) \/ Defer(w) \/ RunEffects(w)
             \/ EffectsThrow(w) \/ MarkFailed(w)
    BY <2>4 DEF NotCleared, AcquireLease, Defer, RunEffects, EffectsThrow,
                MarkFailed, PositionInv, TypeOK
  <2>5. CASE AdvanceCursor(w) \/ Crash(w)
    BY <2>5 DEF AdvanceCursor, Crash, PositionInv, TypeOK
  <2> QED BY <2>1, <2>2, <2>3, <2>4, <2>5 DEF WorkerStep
<1>4. AwardInv' /\ ClawbackInv'
  <2>1. CASE RunEffects(w)
    <3>1. at[w] \in 1..Len(log)
      BY <2>1 DEF RunEffects, RowsInv, PositionInv
    <3>2. PICK winners \in SUBSET Campaigns : ApplyEffects(at[w], winners)
      BY <2>1 DEF RunEffects
    <3> QED BY <1>2, <3>1, <3>2, EffectsLedger DEF RowsInv
  <2>2. CASE ~RunEffects(w)
    <3>1. awards' = awards /\ clawbacks' = clawbacks
      BY <2>2 DEF WorkerStep, ReadBatch, SkipCleared, NotCleared,
                  AcquireLease, Defer, EffectsThrow, MarkFailed,
                  MarkCompleted, AdvanceCursor, Crash
    <3> QED BY <1>2, <3>1 DEF RowsInv, AwardInv, ClawbackInv
  <2> QED BY <2>1, <2>2
<1> QED BY <1>1, <1>2, <1>3, <1>4 DEF RowsInv
\* so does every step of the drains,
LEMMA DrainRows ==
  ASSUME RowsInv, Drain
  PROVE  RowsInv' /\ log' = log
<1>0. TypeOK'
  BY TypeStep DEF RowsInv, Next
<1>1. CASE MaintenanceCommit
  <2>1. log' = log /\ cursor + 1 \in 1..Len(log)
    BY <1>1 DEF MaintenanceCommit, RowsInv, TypeOK
  <2>2. PICK winners \in SUBSET Campaigns : ApplyEffects(cursor + 1, winners)
    BY <1>1 DEF MaintenanceCommit
  <2>3. AwardInv' /\ ClawbackInv'
    BY <2>1, <2>2, EffectsLedger DEF RowsInv
  <2>4. NoRepeats' /\ PositionInv'
    BY <1>1, <2>1 DEF MaintenanceCommit, RowsInv, NoRepeats, PositionInv
  <2> QED BY <1>0, <2>1, <2>3, <2>4 DEF RowsInv
<1>2. ASSUME NEW w \in Workers, WorkerStep(w) \/ Crash(w)
      PROVE  RowsInv' /\ log' = log
  BY <1>2, WorkerStepRows
<1>3. CASE UNCHANGED <<log, awards, clawbacks, pc, at, upto>>
  BY <1>0, <1>3 DEF RowsInv, NoRepeats, PositionInv, AwardInv, ClawbackInv
<1>4. CASE MaintenanceSkip \/ MaintenanceFail
  BY <1>3, <1>4 DEF MaintenanceSkip, MaintenanceFail
<1>5. ASSUME NEW e \in Ids,
             \/ BackoffElapses(e) \/ LeaseExpires(e)
             \/ OperatorRetry(e)  \/ OperatorClear(e)
      PROVE  RowsInv' /\ log' = log
  BY <1>3, <1>5 DEF BackoffElapses, LeaseExpires, OperatorRetry, OperatorClear
<1> QED BY <1>1, <1>2, <1>4, <1>5 DEF Drain, MaintenanceDrain

\* and so does an event recorded in whatever order.
LEMMA RecordsRows ==
  ASSUME RowsInv, NEW ty \in EventTypes, NEW s \in Sales, Records(ty, s)
  PROVE  RowsInv'
<1>0. TypeOK
  BY DEF RowsInv
<1>1. TypeOK'
  BY EmitType, EventQueueAssumption DEF RowsInv, TypeOK, Records
<1>2. NoRepeats'
  BY RecordsNoRepeats DEF RowsInv
<1>3. /\ Len(log) \in Nat /\ Len(log') \in Nat /\ Len(log') >= Len(log)
      /\ \A i \in 1..Len(log) : log'[i] = log[i]
  <2>1. Len(log) \in Nat /\ Len(log') \in Nat
    BY <1>0, <1>1 DEF TypeOK
  <2> QED BY <1>0, <2>1, EmitStep
<1>4. UNCHANGED <<pc, at, upto, awards, clawbacks>>
  BY DEF Records
<1>5. PositionInv'
  BY <1>3, <1>4 DEF RowsInv, PositionInv, TypeOK
<1>6. AwardInv'
  BY <1>3, <1>4 DEF RowsInv, AwardInv, Ids
<1>7. ClawbackInv'
  <2> SUFFICES ASSUME NEW c \in Campaigns, NEW a \in Ids, NEW x \in Ids,
                      clawbacks[c][a][x] > 0
               PROVE  /\ awards[c][a] > 0
                      /\ x <= Len(log')
                      /\ log'[x] = [type |-> "SALE_CANCELLED", sale |-> log'[a].sale]
    BY <1>4 DEF RowsInv, ClawbackInv
  <2>1. /\ awards[c][a] > 0 /\ x <= Len(log)
        /\ log[x] = [type |-> "SALE_CANCELLED", sale |-> log[a].sale]
    BY DEF RowsInv, ClawbackInv
  <2>2. a <= Len(log)
    BY <2>1 DEF RowsInv, AwardInv
  <2> QED BY <1>3, <2>1, <2>2 DEF Ids
<1> QED BY <1>1, <1>2, <1>5, <1>6, <1>7 DEF RowsInv

LEMMA LedgerStep == LedgerInv /\ [Next]_vars => LedgerInv'
<1> SUFFICES ASSUME RowsInv, ApprovalFirst, [Next]_vars
             PROVE  RowsInv' /\ ApprovalFirst'
  BY DEF LedgerInv, LogInv, RowsInv
<1>1. ASSUME NEW ty \in EventTypes, NEW s \in Sales, Emit(ty, s)
      PROVE  RowsInv' /\ ApprovalFirst'
  <2>1. Records(ty, s)
    BY <1>1 DEF Emit, Records
  <2> QED BY <1>1, <2>1, RecordsRows, EmitApprovalFirst DEF RowsInv
<1>2. CASE Drain
  BY <1>2, DrainRows DEF ApprovalFirst
<1>3. CASE UNCHANGED vars
  BY <1>3, TypeStep
     DEF vars, RowsInv, NoRepeats, PositionInv, AwardInv, ClawbackInv, ApprovalFirst
<1> QED BY <1>1, <1>2, <1>3 DEF Next

LEMMA LedgerCorrect == Spec => []LedgerInv
<1>1. Init => LedgerInv
  <2> SUFFICES ASSUME Init PROVE LedgerInv
    OBVIOUS
  <2>1. TypeOK
    BY EventQueueAssumption DEF Init, TypeOK, Statuses, Ids
  <2> QED BY <2>1 DEF Init, LedgerInv, LogInv, NoRepeats, ApprovalFirst, PositionInv, AwardInv, ClawbackInv
<1> QED BY <1>1, LedgerStep, PTL DEF Spec

\* Each clawback reverses an award of the same sale that came before it.
LEMMA LedgerClawbacks == LedgerInv => ClawbackHasAward
<1> SUFFICES ASSUME LedgerInv, NEW c \in Campaigns, NEW a \in Ids,
                    NEW x \in Ids, clawbacks[c][a][x] > 0
             PROVE  /\ awards[c][a] > 0
                    /\ a < x /\ x <= Len(log)
                    /\ log[a].sale = log[x].sale
  BY DEF ClawbackHasAward
<1>0. TypeOK /\ LogInv /\ AwardInv /\ ClawbackInv
  BY DEF LedgerInv
<1>1. /\ awards[c][a] > 0 /\ x \in 1..Len(log)
      /\ log[x] = [type |-> "SALE_CANCELLED", sale |-> log[a].sale]
  BY <1>0 DEF ClawbackInv, Ids
<1>2. a \in 1..Len(log) /\ log[a].type = "SALE_APPROVED"
  BY <1>0, <1>1 DEF AwardInv, Ids
<1>3. log[a] = [type |-> "SALE_APPROVED", sale |-> log[a].sale]
  <2>1. log[a] \in Event
    BY <1>0, <1>2 DEF TypeOK
  <2> QED BY <1>2, <2>1 DEF Event
<1>4. PICK i \in 1..(x - 1) :
        log[i] = [type |-> "SALE_APPROVED", sale |-> log[x].sale]
  BY <1>0, <1>1 DEF LogInv, NoRepeats, ApprovalFirst
<1>5. i = a
  <2>1. log[i] = log[a] /\ i \in 1..Len(log)
    BY <1>1, <1>3, <1>4
  <2> QED BY <1>0, <1>2, <2>1 DEF LogInv, NoRepeats, ApprovalFirst
<1> QED BY <1>1, <1>4, <1>5

\* One award per sale and campaign, one clawback per award.
LEMMA RowsPayOnce == RowsInv => PaidOnce
<1> SUFFICES ASSUME RowsInv, NEW c \in Campaigns,
                    NEW a \in 1..Len(log), NEW b \in 1..Len(log)
             PROVE  /\ awards[c][a] <= 1
                    /\ awards[c][a] > 0 /\ awards[c][b] > 0
                         /\ log[a].sale = log[b].sale => a = b
                    /\ \A x, y \in Ids :
                         /\ clawbacks[c][a][x] <= 1
                         /\ clawbacks[c][a][x] > 0 /\ clawbacks[c][a][y] > 0 => x = y
  BY DEF PaidOnce
<1>0. TypeOK /\ NoRepeats /\ AwardInv /\ ClawbackInv
  BY DEF RowsInv
<1>1. a \in Ids /\ b \in Ids /\ log[a] \in Event /\ log[b] \in Event
  <2>1. log \in Seq(Event) /\ Len(log) <= MaxEvents /\ Len(log) \in Nat
    BY <1>0 DEF TypeOK
  <2>2. log[a] \in Event /\ log[b] \in Event
    BY <2>1
  <2> QED BY <2>1, <2>2, EventQueueAssumption DEF Ids
<1>2. awards[c][a] <= 1
  BY <1>0, <1>1 DEF AwardInv
<1>3. ASSUME awards[c][a] > 0, awards[c][b] > 0, log[a].sale = log[b].sale
      PROVE  a = b
  <2>1. log[a].type = log[b].type
    BY <1>0, <1>1, <1>3 DEF AwardInv
  <2>2. log[a] = log[b]
    BY <1>1, <1>3, <2>1 DEF Event
  <2> QED BY <1>0, <2>2 DEF NoRepeats
<1>4. ASSUME NEW x \in Ids PROVE clawbacks[c][a][x] <= 1
  <2>1. clawbacks[c][a][x] \in 0..1
    BY <1>0, <1>1 DEF ClawbackInv
  <2> QED BY <2>1
<1>5. ASSUME NEW x \in Ids, NEW y \in Ids,
             clawbacks[c][a][x] > 0, clawbacks[c][a][y] > 0
      PROVE  x = y
  <2>1. ASSUME NEW z \in Ids, clawbacks[c][a][z] > 0
        PROVE  /\ z \in 1..Len(log)
               /\ log[z] = [type |-> "SALE_CANCELLED", sale |-> log[a].sale]
    BY <1>0, <1>1, <2>1 DEF ClawbackInv, Ids
  <2> QED BY <1>0, <1>5, <2>1 DEF NoRepeats
<1> QED BY <1>2, <1>3, <1>4, <1>5

\* Whatever crashes, stalls, retries and operators do, each sale is worth one
\* award per campaign and one clawback per award.
THEOREM PaidOnceCorrect == Spec => []PaidOnce
BY LedgerCorrect, LedgerRows, RowsPayOnce, PTL

\* No clawback is ever written without the award it reverses.
THEOREM ClawbackCorrect == Spec => []ClawbackHasAward
BY LedgerCorrect, LedgerClawbacks, PTL

-----------------------------------------------------------------------------
(* The order, for every number of workers, events, attempts, retries and   *)
(* crashes.  Two assumptions limit what follows: no worker outlives its    *)
(* lease in the middle of an event, and no operator retries an event       *)
(* already dead-lettered.  Without the second, NoBypass is false.          *)

Punctual == ~Stalls /\ ~RetryCleared

-----------------------------------------------------------------------------
(* The inductive invariant.                                                *)

\* The queue is finished with every event a worker has gone past.
BatchInv ==
  \A w \in Workers :
    /\ pc[w] \notin {"idle", "advance"} =>
         \A e \in 1..(at[w] - 1) : status[e] \in Done
    /\ \A e \in 1..lastId[w] : status[e] \in Done

\* A worker in flight holds the row of its event.
HoldInv ==
  \A w \in Workers : InFlight(w) =>
    status[at[w]] = "processing" /\ lease[at[w]] = w

\* There is no row for an event that is not on record.
RowInv == \A e \in Ids : e > Len(log) => status[e] = "none"

\* A worker has run the effects of event x, and its row says so or is about to.
Ran(x) ==
  \/ status[x] = "completed"
  \/ \E w \in Workers : pc[w] = "complete" /\ at[w] = x

\* A cancellation whose effects have run has reversed the award, if any.
ReversalInv ==
  \A c \in Clawing : \A a, x \in 1..Len(log) :
    /\ log[a].type = "SALE_APPROVED"
    /\ log[x] = [type |-> "SALE_CANCELLED", sale |-> log[a].sale]
    /\ Ran(x)
    => awards[c][a] = clawbacks[c][a][x]

OrderInv == BatchInv /\ HoldInv /\ CursorSound /\ NoBypass

QueueInv == LedgerInv /\ RowInv /\ OrderInv

-----------------------------------------------------------------------------
(* How a step may change a processing row.                                 *)

LEMMA InBatch ==
  ASSUME LedgerInv, NEW w \in Workers, pc[w] \notin {"idle", "advance"}
  PROVE  at[w] \in Ids /\ at[w] \in 1..Len(log)
<1>1. TypeOK /\ PositionInv
  BY DEF LedgerInv
<1>2. at[w] \in 1..Len(log)
  BY <1>1 DEF PositionInv
<1>3. Len(log) \in Nat /\ Len(log) <= MaxEvents
  BY <1>1 DEF TypeOK
<1> QED BY <1>2, <1>3, EventQueueAssumption DEF Ids

\* A row changes only while its event is unfinished, except that an operator
\* may turn one verdict into the other; and a first attempt is made only when
\* every event before it is finished.
RowStep(e, st) ==
  /\ status' = [status EXCEPT ![e] = st]
  /\ status[e] \in Done => status[e] = "dead_lettered" /\ st \in Cleared
  /\ \/ st = "pending"
     \/ status[e] \notin {"none", "pending"}
     \/ \A d \in 1..(e - 1) : status[d] \in Done
  /\ e <= Len(log)

LEMMA WorkerRowStep ==
  ASSUME QueueInv, NEW w \in Workers, WorkerStep(w) \/ Crash(w)
  PROVE  status' = status \/ \E e \in Ids, st \in Statuses : RowStep(e, st)
<1>1. CASE AcquireLease(w)
  <2>1. pc[w] = "lease" /\ at[w] \in Ids /\ at[w] \in 1..Len(log)
    BY <1>1, InBatch DEF AcquireLease, QueueInv
  <2>2. status' = [status EXCEPT ![at[w]] = "processing"]
    BY <1>1 DEF AcquireLease
  <2>3. status[at[w]] \notin Done
    BY <1>1 DEF AcquireLease, Leasable, Done, Cleared
  <2>4. \A d \in 1..(at[w] - 1) : status[d] \in Done
    BY <2>1 DEF QueueInv, OrderInv, BatchInv
  <2>5. RowStep(at[w], "processing")
    BY <2>1, <2>2, <2>3, <2>4 DEF RowStep
  <2> QED BY <2>1, <2>5 DEF Statuses
<1>2. CASE MarkCompleted(w) \/ MarkFailed(w)
  <2>1. InFlight(w) /\ at[w] \in Ids /\ at[w] \in 1..Len(log)
    BY <1>2, InBatch DEF MarkCompleted, MarkFailed, InFlight, QueueInv
  <2>2. status[at[w]] = "processing"
    BY <2>1 DEF QueueInv, OrderInv, HoldInv
  <2>3. PICK st \in Statuses : status' = [status EXCEPT ![at[w]] = st]
    <3>1. CASE MarkCompleted(w)
      BY <3>1 DEF MarkCompleted, CompleteRow, Statuses
    <3>2. CASE MarkFailed(w)
      <4> DEFINE st == IF Exhausted(attempts[at[w]] + 1) THEN "blocked" ELSE "failed"
      <4>1. st \in Statuses
        BY DEF Statuses
      <4>2. status' = [status EXCEPT ![at[w]] = st]
        BY <3>2 DEF MarkFailed, FailRow
      <4> QED BY <4>1, <4>2
    <3> QED BY <1>2, <3>1, <3>2
  <2>4. RowStep(at[w], st)
    BY <2>1, <2>2, <2>3 DEF RowStep, Done, Cleared
  <2> QED BY <2>1, <2>4
<1>3. CASE ~(AcquireLease(w) \/ MarkCompleted(w) \/ MarkFailed(w))
  BY <1>3 DEF WorkerStep, ReadBatch, SkipCleared, NotCleared, Defer,
              RunEffects, EffectsThrow, AdvanceCursor, Crash
<1> QED BY <1>1, <1>2, <1>3

LEMMA StatusStep ==
  ASSUME Punctual, QueueInv, Next
  PROVE  status' = status \/ \E e \in Ids, st \in Statuses : RowStep(e, st)
<1>1. CASE MaintenanceCommit \/ MaintenanceFail
  <2> DEFINE e == cursor + 1
  <2>1. e \in Ids /\ e <= Len(log) /\ Leasable(e) /\ cursor \in Nat
    BY <1>1, EventQueueAssumption
       DEF MaintenanceCommit, MaintenanceFail, QueueInv, LedgerInv, TypeOK, Ids
  <2>2. \A d \in 1..(e - 1) : status[d] \in Done
    BY <2>1 DEF QueueInv, OrderInv, CursorSound
  <2>3. status[e] \notin Done
    BY <2>1 DEF Leasable, Done, Cleared
  <2>4. PICK st \in Statuses : status' = [status EXCEPT ![e] = st]
    <3>1. CASE MaintenanceCommit
      BY <3>1 DEF MaintenanceCommit, CompleteRow, Statuses
    <3>2. CASE MaintenanceFail
      <4> DEFINE st == IF Exhausted(attempts[e] + 1) THEN "blocked" ELSE "failed"
      <4>1. st \in Statuses
        BY DEF Statuses
      <4>2. status' = [status EXCEPT ![e] = st]
        BY <3>2 DEF MaintenanceFail, FailRow
      <4> QED BY <4>1, <4>2
    <3> QED BY <1>1, <3>1, <3>2
  <2> HIDE DEF e
  <2> QED BY <2>1, <2>2, <2>3, <2>4 DEF RowStep
<1>2. ASSUME NEW w \in Workers, WorkerStep(w) \/ Crash(w)
      PROVE  status' = status \/ \E e \in Ids, st \in Statuses : RowStep(e, st)
  BY <1>2, WorkerRowStep
<1>3. ASSUME NEW e \in Ids, OperatorRetry(e) \/ OperatorClear(e)
      PROVE  \E st \in Statuses : RowStep(e, st)
  <2>1. status[e] \in Actionable
    BY <1>3 DEF OperatorRetry, OperatorClear
  <2>2. e <= Len(log)
    <3>1. Len(log) \in Nat /\ e \in Nat
      BY DEF QueueInv, LedgerInv, TypeOK, Ids
    <3> QED BY <2>1, <3>1 DEF QueueInv, RowInv, Actionable
  <2>3. CASE OperatorRetry(e)
    <3>1. status' = [status EXCEPT ![e] = "pending"] /\ status[e] \notin Done
      BY <2>3, <2>1
         DEF OperatorRetry, OperatorRow, Punctual, Actionable, Done, Cleared
    <3> QED BY <2>2, <3>1 DEF RowStep, Statuses
  <2>4. CASE OperatorClear(e)
    <3>1. PICK st \in Cleared : status' = [status EXCEPT ![e] = st]
      BY <2>4 DEF OperatorClear, OperatorRow
    <3> QED BY <2>1, <2>2, <3>1
            DEF RowStep, Statuses, Cleared, Actionable, Done
  <2> QED BY <1>3, <2>3, <2>4
<1>4. ASSUME NEW e \in Ids, BackoffElapses(e) \/ LeaseExpires(e)
      PROVE  status' = status
  BY <1>4 DEF BackoffElapses, LeaseExpires
<1>5. ASSUME NEW ty \in EventTypes, NEW s \in Sales, Emit(ty, s)
      PROVE  status' = status
  BY <1>5 DEF Emit
<1>6. CASE MaintenanceSkip
  BY <1>6 DEF MaintenanceSkip
<1> QED BY <1>1, <1>2, <1>3, <1>4, <1>5, <1>6 DEF Next, Drain, MaintenanceDrain

\* An event the queue is finished with stays finished, and a completed one
\* stays completed.
LEMMA DoneStable ==
  ASSUME Punctual, QueueInv, [Next]_vars, NEW e \in Ids
  PROVE  /\ status[e] \in Done => status'[e] \in Done
         /\ status[e] = "completed" => status'[e] = "completed"
<1>1. CASE status' = status
  BY <1>1
<1>2. ASSUME NEW f \in Ids, NEW st \in Statuses, RowStep(f, st)
      PROVE  /\ status[e] \in Done => status'[e] \in Done
             /\ status[e] = "completed" => status'[e] = "completed"
  <2>1. status \in [Ids -> Statuses]
    BY DEF QueueInv, LedgerInv, TypeOK
  <2>2. CASE e = f
    BY <1>2, <2>1, <2>2 DEF RowStep, Done, Cleared
  <2>3. CASE e # f
    BY <1>2, <2>1, <2>3 DEF RowStep
  <2> QED BY <2>2, <2>3
<1>3. CASE UNCHANGED vars
  BY <1>1, <1>3 DEF vars
<1> QED BY <1>1, <1>2, <1>3, StatusStep

-----------------------------------------------------------------------------
(* The invariant is inductive.                                             *)

\* No other process touches the row of an event a worker has in flight.
LEMMA HoldStep ==
  ASSUME Punctual, QueueInv, [Next]_vars
  PROVE  HoldInv'
<1> SUFFICES ASSUME NEW w \in Workers, InFlight(w)'
             PROVE  status'[at'[w]] = "processing" /\ lease'[at'[w]] = w
  BY DEF HoldInv
<1> USE DEF InFlight
<1>0. /\ status \in [Ids -> Statuses] /\ lease \in [Ids -> Workers \cup {NoWorker}]
      /\ TypeOK /\ NoWorker \notin Workers
  BY EventQueueAssumption DEF QueueInv, LedgerInv, TypeOK
<1>1. CASE AcquireLease(w)
  <2>1. at[w] \in Ids
    BY <1>1, InBatch DEF QueueInv, AcquireLease
  <2> QED BY <1>0, <1>1, <2>1 DEF AcquireLease
<1> DEFINE Held == /\ InFlight(w) /\ at[w] \in Ids
                   /\ status[at[w]] = "processing" /\ lease[at[w]] = w
<1>2. ASSUME InFlight(w) PROVE Held
  <2>1. at[w] \in Ids
    BY <1>2, InBatch DEF QueueInv
  <2> QED BY <1>2, <2>1 DEF QueueInv, OrderInv, HoldInv
<1>3. ASSUME WorkerStep(w) \/ Crash(w), ~AcquireLease(w)
      PROVE  InFlight(w) /\ UNCHANGED <<status, lease, at>>
  <2>1. CASE RunEffects(w) \/ EffectsThrow(w)
    BY <2>1 DEF RunEffects, EffectsThrow
  <2>2. CASE ~(RunEffects(w) \/ EffectsThrow(w))
    <3>1. pc'[w] \in {"idle", "check", "lease", "advance"}
      BY <1>0, <1>3, <2>2 DEF TypeOK, WorkerStep, ReadBatch, SkipCleared, NotCleared,
         Defer, MarkFailed, MarkCompleted, AdvanceCursor, Crash, Proceed
    <3> QED BY <3>1
  <2> QED BY <2>1, <2>2
<1>4. ASSUME NEW v \in Workers, v # w, WorkerStep(v) \/ Crash(v)
      PROVE  status'[at'[w]] = "processing" /\ lease'[at'[w]] = w
  <2>1. pc'[w] = pc[w] /\ at'[w] = at[w]
    BY <1>0, <1>4 DEF TypeOK, WorkerStep, ReadBatch, SkipCleared, NotCleared,
       AcquireLease, Defer, RunEffects, EffectsThrow, MarkFailed,
       MarkCompleted, AdvanceCursor, Crash, Proceed
  <2>2. Held
    BY <1>2, <2>1
  <2>3. CASE AcquireLease(v)
    <3>1. lease[at[v]] = NoWorker
      BY <2>3 DEF AcquireLease, Leasable
    <3> QED BY <1>0, <2>1, <2>2, <2>3, <3>1 DEF AcquireLease
  <2>4. CASE MarkCompleted(v) \/ MarkFailed(v)
    <3>1. lease[at[v]] = v
      BY <2>4 DEF MarkCompleted, MarkFailed, QueueInv, OrderInv, HoldInv
    <3> QED BY <1>0, <1>4, <2>1, <2>2, <2>4, <3>1
            DEF MarkCompleted, CompleteRow, MarkFailed, FailRow
  <2>5. CASE ~(AcquireLease(v) \/ MarkCompleted(v) \/ MarkFailed(v))
    <3>1. UNCHANGED <<status, lease>>
      BY <1>4, <2>5 DEF WorkerStep, ReadBatch, SkipCleared, NotCleared, Defer,
         RunEffects, EffectsThrow, AdvanceCursor, Crash
    <3> QED BY <2>1, <2>2, <3>1
  <2> QED BY <2>3, <2>4, <2>5
<1>5. CASE MaintenanceCommit \/ MaintenanceFail
  <2>1. Leasable(cursor + 1) /\ UNCHANGED <<pc, at>>
    BY <1>5 DEF MaintenanceCommit, MaintenanceFail
  <2>2. Held
    BY <1>2, <2>1
  <2>3. lease[cursor + 1] = NoWorker
    BY <2>1 DEF Leasable
  <2> QED BY <1>0, <1>5, <2>1, <2>2, <2>3
          DEF MaintenanceCommit, CompleteRow, MaintenanceFail, FailRow
<1>6. ASSUME NEW e \in Ids, OperatorRetry(e) \/ OperatorClear(e)
      PROVE  status'[at'[w]] = "processing" /\ lease'[at'[w]] = w
  <2>1. UNCHANGED <<pc, at>> /\ status[e] \in Actionable
    BY <1>6 DEF OperatorRetry, OperatorClear
  <2>2. Held /\ e # at[w]
    BY <1>2, <2>1 DEF Actionable
  <2> QED BY <1>0, <1>6, <2>1, <2>2 DEF OperatorRetry, OperatorClear, OperatorRow
<1>7. ASSUME NEW e \in Ids, LeaseExpires(e)
      PROVE  status'[at'[w]] = "processing" /\ lease'[at'[w]] = w
  <2>1. UNCHANGED <<pc, at, status>>
    BY <1>7 DEF LeaseExpires
  <2>2. Held
    BY <1>2, <2>1
  <2>3. e # at[w]
    BY <1>7, <2>2 DEF LeaseExpires, Punctual
  <2> QED BY <1>0, <1>7, <2>1, <2>2, <2>3 DEF LeaseExpires
<1>8. CASE UNCHANGED <<status, lease, pc, at>>
  BY <1>2, <1>8
<1>9. ASSUME NEW e \in Ids, BackoffElapses(e)
      PROVE  UNCHANGED <<status, lease, pc, at>>
  BY <1>9 DEF BackoffElapses
<1>10. ASSUME NEW ty \in EventTypes, NEW s \in Sales, Emit(ty, s)
       PROVE  UNCHANGED <<status, lease, pc, at>>
  BY <1>10 DEF Emit
<1>11. MaintenanceSkip \/ UNCHANGED vars => UNCHANGED <<status, lease, pc, at>>
  BY DEF MaintenanceSkip, vars
<1>12. ASSUME WorkerStep(w) \/ Crash(w)
       PROVE  status'[at'[w]] = "processing" /\ lease'[at'[w]] = w
  BY <1>1, <1>2, <1>3, <1>12
<1> QED BY <1>4, <1>5, <1>6, <1>7, <1>8, <1>9, <1>10, <1>11, <1>12
        DEF Next, Drain, MaintenanceDrain

\* A worker only goes past an event that is finished.
LEMMA BatchStep ==
  ASSUME Punctual, QueueInv, [Next]_vars
  PROVE  BatchInv'
<1>0. /\ TypeOK /\ status \in [Ids -> Statuses] /\ MaxEvents \in Nat
      /\ BatchInv /\ HoldInv /\ CursorSound
  BY EventQueueAssumption DEF QueueInv, OrderInv, LedgerInv, TypeOK
<1>1. \A e \in Ids : status[e] \in Done => status'[e] \in Done
  BY DoneStable
<1> SUFFICES ASSUME NEW w \in Workers
             PROVE  /\ pc'[w] \notin {"idle", "advance"} =>
                         \A e \in 1..(at'[w] - 1) : status'[e] \in Done
                    /\ \A e \in 1..lastId'[w] : status'[e] \in Done
  BY DEF BatchInv
<1> DEFINE Past(n) == \A e \in 1..n : status[e] \in Done
           Past1(n) == \A e \in 1..n : status'[e] \in Done
<1>2. ASSUME NEW n \in 0..MaxEvents, Past(n) PROVE Past1(n)
  BY <1>1, <1>2, <1>0 DEF Ids
<1>3. at[w] \in 0..MaxEvents /\ lastId[w] \in 0..MaxEvents /\ cursor \in 0..MaxEvents
  BY <1>0 DEF TypeOK
<1>4. Past1(lastId[w])
  BY <1>0, <1>2, <1>3 DEF BatchInv
<1>5. ASSUME pc[w] \notin {"idle", "advance"} PROVE Past1(at[w] - 1)
  <2>1. at[w] \in Ids
    BY <1>5, InBatch DEF QueueInv
  <2>2. at[w] - 1 \in 0..MaxEvents
    BY <1>0, <2>1 DEF Ids
  <2>3. Past(at[w] - 1)
    BY <1>0, <1>5 DEF BatchInv
  <2> QED BY <1>2, <2>2, <2>3
<1>6. ASSUME SkipCleared(w) \/ MarkCompleted(w)
      PROVE  /\ pc'[w] \notin {"idle", "advance"} => Past1(at'[w] - 1)
             /\ Past1(lastId'[w])
  <2>1. Proceed(w) /\ at[w] \in Ids /\ Past1(at[w] - 1)
    BY <1>5, <1>6, InBatch DEF SkipCleared, MarkCompleted, QueueInv
  <2>2. status'[at[w]] \in Done
    <3>1. CASE SkipCleared(w)
      BY <3>1 DEF SkipCleared, Cleared, Done
    <3>2. CASE MarkCompleted(w)
      BY <1>0, <2>1, <3>2 DEF MarkCompleted, CompleteRow, Done
    <3> QED BY <1>6, <3>1, <3>2
  <2>3. Past1(at[w])
    BY <1>0, <2>1, <2>2 DEF Ids
  <2>4. /\ lastId'[w] = at[w]
        /\ pc'[w] \notin {"idle", "advance"} => at'[w] = at[w] + 1
    BY <1>0, <2>1 DEF Proceed, TypeOK
  <2>5. ASSUME pc'[w] \notin {"idle", "advance"}
        PROVE  at'[w] - 1 = at[w]
    <3>1. at'[w] = at[w] + 1 /\ at[w] \in Nat
      BY <1>3, <2>4, <2>5
    <3> QED BY <3>1
  <2> HIDE DEF Past1
  <2> QED BY <2>3, <2>4, <2>5
<1>7. ASSUME ReadBatch(w)
      PROVE  Past1(at'[w] - 1) /\ Past1(lastId'[w])
  <2>1. Past1(cursor)
    BY <1>0, <1>2, <1>3 DEF CursorSound
  <2>2. at'[w] - 1 = cursor /\ lastId'[w] = cursor
    BY <1>0, <1>3, <1>7 DEF ReadBatch, TypeOK
  <2> HIDE DEF Past1
  <2> QED BY <2>1, <2>2
<1>8. ASSUME AdvanceCursor(w) \/ Crash(w)
      PROVE  pc'[w] = "idle" /\ lastId'[w] = 0
  BY <1>0, <1>8 DEF AdvanceCursor, Crash, TypeOK
<1>9. CASE /\ at'[w] = at[w] /\ lastId'[w] = lastId[w]
           /\ pc[w] \in {"idle", "advance"} => pc'[w] \in {"idle", "advance"}
  <2> HIDE DEF Past1
  <2>1. /\ pc'[w] \notin {"idle", "advance"} => Past1(at'[w] - 1)
        /\ Past1(lastId'[w])
    BY <1>4, <1>5, <1>9
  <2> QED BY <2>1 DEF Past1
<1>10. ASSUME WorkerStep(w) \/ Crash(w), ~SkipCleared(w), ~MarkCompleted(w),
              ~ReadBatch(w), ~AdvanceCursor(w), ~Crash(w)
       PROVE  /\ at'[w] = at[w] /\ lastId'[w] = lastId[w]
              /\ pc[w] \in {"idle", "advance"} => pc'[w] \in {"idle", "advance"}
  BY <1>10 DEF WorkerStep, NotCleared, AcquireLease, Defer, RunEffects,
               EffectsThrow, MarkFailed
<1>11. ASSUME NEW v \in Workers, v # w, WorkerStep(v) \/ Crash(v)
       PROVE  pc'[w] = pc[w] /\ at'[w] = at[w] /\ lastId'[w] = lastId[w]
  BY <1>0, <1>11 DEF TypeOK, WorkerStep, ReadBatch, SkipCleared, NotCleared,
     AcquireLease, Defer, RunEffects, EffectsThrow, MarkFailed,
     MarkCompleted, AdvanceCursor, Crash, Proceed
<1>12. ASSUME MaintenanceDrain \/ UNCHANGED vars
       PROVE  UNCHANGED <<pc, at, lastId>>
  BY <1>12 DEF MaintenanceDrain, MaintenanceSkip, MaintenanceCommit,
               MaintenanceFail, vars
<1>13. ASSUME NEW e \in Ids,
              \/ BackoffElapses(e) \/ LeaseExpires(e)
              \/ OperatorRetry(e)  \/ OperatorClear(e)
       PROVE  UNCHANGED <<pc, at, lastId>>
  BY <1>13 DEF BackoffElapses, LeaseExpires, OperatorRetry, OperatorClear
<1>14. ASSUME NEW ty \in EventTypes, NEW s \in Sales, Emit(ty, s)
       PROVE  UNCHANGED <<pc, at, lastId>>
  BY <1>14 DEF Emit
<1>15. CASE UNCHANGED <<pc, at, lastId>>
  BY <1>9, <1>15
<1>16. CASE WorkerStep(w) \/ Crash(w)
  <2>1. CASE SkipCleared(w) \/ MarkCompleted(w)
    BY <1>6, <2>1
  <2>2. CASE ReadBatch(w)
    BY <1>7, <2>2
  <2>3. CASE AdvanceCursor(w) \/ Crash(w)
    BY <1>8, <2>3
  <2> QED BY <1>9, <1>10, <1>16, <2>1, <2>2, <2>3
<1> HIDE DEF Past, Past1
<1> QED BY <1>9, <1>11, <1>12, <1>13, <1>14, <1>15, <1>16 DEF Next, Drain

\* The cursor moves only over events that are finished.
LEMMA CursorStep ==
  ASSUME Punctual, QueueInv, [Next]_vars
  PROVE  CursorSound'
<1>0. /\ TypeOK /\ MaxEvents \in Nat /\ BatchInv /\ CursorSound
      /\ status \in [Ids -> Statuses]
  BY EventQueueAssumption DEF QueueInv, OrderInv, LedgerInv, TypeOK
<1>1. \A e \in Ids : status[e] \in Done => status'[e] \in Done
  BY DoneStable
<1>2. ASSUME NEW n \in 0..MaxEvents, \A e \in 1..n : status[e] \in Done
      PROVE  \A e \in 1..n : status'[e] \in Done
  BY <1>0, <1>1, <1>2 DEF Ids
<1>3. \A e \in 1..cursor : status'[e] \in Done
  BY <1>0, <1>2 DEF CursorSound, TypeOK
<1>4. CASE cursor' = cursor
  BY <1>3, <1>4 DEF CursorSound
<1>5. CASE MaintenanceSkip \/ MaintenanceCommit
  <2>1. cursor \in Nat /\ cursor + 1 \in Ids /\ cursor' = cursor + 1
    BY <1>0, <1>5 DEF MaintenanceSkip, MaintenanceCommit, Advanced, TypeOK, Ids
  <2>2. status'[cursor + 1] \in Done
    BY <1>0, <1>5, <2>1
       DEF MaintenanceSkip, MaintenanceCommit, CompleteRow, Cleared, Done
  <2> QED BY <1>3, <2>1, <2>2 DEF CursorSound
<1>6. ASSUME NEW w \in Workers, AdvanceCursor(w)
      PROVE  CursorSound'
  <2>1. lastId[w] \in 0..MaxEvents
    BY <1>0 DEF TypeOK
  <2>2. \A e \in 1..lastId[w] : status'[e] \in Done
    BY <1>0, <1>2, <2>1 DEF BatchInv
  <2>3. cursor' \in {cursor, lastId[w]}
    BY <1>6 DEF AdvanceCursor, Advanced
  <2> QED BY <1>3, <2>2, <2>3 DEF CursorSound
<1>7. ASSUME NEW w \in Workers, WorkerStep(w) \/ Crash(w), ~AdvanceCursor(w)
      PROVE  cursor' = cursor
  BY <1>7 DEF WorkerStep, ReadBatch, SkipCleared, NotCleared, AcquireLease,
     Defer, RunEffects, EffectsThrow, MarkFailed, MarkCompleted, Crash
<1>8. ASSUME NEW e \in Ids,
             \/ BackoffElapses(e) \/ LeaseExpires(e)
             \/ OperatorRetry(e)  \/ OperatorClear(e)
      PROVE  cursor' = cursor
  BY <1>8 DEF BackoffElapses, LeaseExpires, OperatorRetry, OperatorClear
<1>9. ASSUME NEW ty \in EventTypes, NEW s \in Sales, Emit(ty, s)
      PROVE  cursor' = cursor
  BY <1>9 DEF Emit
<1>10. MaintenanceFail \/ UNCHANGED vars => cursor' = cursor
  BY DEF MaintenanceFail, vars
<1> QED BY <1>4, <1>5, <1>6, <1>7, <1>8, <1>9, <1>10
        DEF Next, Drain, MaintenanceDrain

\* Only an event whose predecessors are finished is attempted.
LEMMA BypassStep ==
  ASSUME Punctual, QueueInv, [Next]_vars
  PROVE  NoBypass'
<1>0. status \in [Ids -> Statuses] /\ MaxEvents \in Nat /\ NoBypass
  BY EventQueueAssumption DEF QueueInv, OrderInv, LedgerInv, TypeOK
<1>1. \A e \in Ids : status[e] \in Done => status'[e] \in Done
  BY DoneStable
<1>2. ASSUME NEW f \in Ids, \A d \in 1..(f - 1) : status[d] \in Done
      PROVE  \A d \in 1..(f - 1) : status'[d] \in Done
  BY <1>0, <1>1, <1>2 DEF Ids
<1>3. CASE status' = status
  BY <1>0, <1>3 DEF NoBypass
<1>4. ASSUME NEW e \in Ids, NEW st \in Statuses, RowStep(e, st),
             NEW f \in Ids, status'[f] \notin {"none", "pending"}
      PROVE  \A d \in 1..(f - 1) : status'[d] \in Done
  <2>1. \A d \in 1..(f - 1) : status[d] \in Done
    <3>1. CASE f = e
      BY <1>0, <1>4, <3>1 DEF RowStep, NoBypass
    <3>2. CASE f # e
      BY <1>0, <1>4, <3>2 DEF RowStep, NoBypass
    <3> QED BY <3>1, <3>2
  <2> QED BY <1>2, <2>1
<1>5. UNCHANGED vars => status' = status
  BY DEF vars
<1>6. status' = status \/ \E e \in Ids, st \in Statuses : RowStep(e, st)
  BY <1>5, StatusStep
<1>7. ASSUME NEW e \in Ids, NEW st \in Statuses, RowStep(e, st)
      PROVE  NoBypass'
  BY <1>4, <1>7 DEF NoBypass
<1> QED BY <1>3, <1>6, <1>7

\* The log never shrinks.
LEMMA LogGrows ==
  ASSUME TypeOK, [Next]_vars
  PROVE  /\ Len(log) \in Nat /\ Len(log') \in Nat /\ Len(log') >= Len(log)
         /\ \A i \in 1..Len(log) : log'[i] = log[i]
<1>1. ASSUME NEW ty \in EventTypes, NEW s \in Sales, Emit(ty, s)
      PROVE  Len(log') >= Len(log) /\ \A i \in 1..Len(log) : log'[i] = log[i]
  <2>1. TypeOK /\ Records(ty, s)
    BY <1>1 DEF Emit, Records
  <2> QED BY <2>1, EmitStep
<1>2. CASE Drain \/ UNCHANGED vars
  <2>1. log' = log
    BY <1>2 DEF Drain, vars, MaintenanceDrain, MaintenanceSkip, MaintenanceCommit,
       MaintenanceFail, WorkerStep, ReadBatch, SkipCleared, NotCleared,
       AcquireLease, Defer, RunEffects, EffectsThrow, MarkFailed, MarkCompleted,
       AdvanceCursor, Crash, BackoffElapses, LeaseExpires, OperatorRetry,
       OperatorClear
  <2> QED BY <2>1 DEF TypeOK
<1>3. Len(log) \in Nat /\ Len(log') \in Nat
  BY TypeStep DEF TypeOK
<1> QED BY <1>1, <1>2, <1>3 DEF Next

LEMMA RowsStep ==
  ASSUME Punctual, QueueInv, [Next]_vars
  PROVE  RowInv'
<1>0. /\ status \in [Ids -> Statuses] /\ RowInv
      /\ Len(log) \in Nat /\ Len(log') \in Nat /\ Len(log') >= Len(log)
  BY LogGrows DEF QueueInv, LedgerInv, TypeOK
<1>1. CASE status' = status
  BY <1>0, <1>1 DEF RowInv, Ids
<1>2. ASSUME NEW e \in Ids, NEW st \in Statuses, RowStep(e, st)
      PROVE  RowInv'
  <2> SUFFICES ASSUME NEW f \in Ids, f > Len(log') PROVE status'[f] = "none"
    BY DEF RowInv
  <2>1. f > Len(log) /\ f # e
    BY <1>0, <1>2 DEF RowStep, Ids
  <2>2. status[f] = "none"
    BY <1>0, <2>1 DEF RowInv
  <2> QED BY <1>0, <1>2, <2>1, <2>2 DEF RowStep
<1>3. UNCHANGED vars => status' = status
  BY DEF vars
<1> QED BY <1>1, <1>2, <1>3, StatusStep

LEMMA QueueInvStep ==
  ASSUME Punctual, QueueInv, [Next]_vars
  PROVE  QueueInv'
BY LedgerStep, RowsStep, BatchStep, HoldStep, CursorStep, BypassStep
   DEF QueueInv, OrderInv

LEMMA QueueInit == Init => QueueInv
<1> SUFFICES ASSUME Init PROVE QueueInv
  OBVIOUS
<1>1. TypeOK
  BY EventQueueAssumption DEF Init, TypeOK, Statuses, Ids
<1>2. LedgerInv
  BY <1>1 DEF Init, LedgerInv, LogInv, NoRepeats, ApprovalFirst, PositionInv, AwardInv, ClawbackInv
<1>3. RowInv /\ CursorSound /\ NoBypass
  BY DEF Init, RowInv, CursorSound, NoBypass
<1>4. BatchInv /\ HoldInv
  BY DEF Init, BatchInv, HoldInv, InFlight
<1> QED BY <1>2, <1>3, <1>4 DEF QueueInv, OrderInv

LEMMA QueueCorrect == ASSUME Punctual PROVE Spec => []QueueInv
BY QueueInit, QueueInvStep, PTL DEF Spec

-----------------------------------------------------------------------------
(* Reversals.                                                              *)

\* The effects of a cancellation leave each award of its sale reversed.
LEMMA ReverseEffects ==
  ASSUME LedgerInv, log' = log, NEW c \in Clawing, NEW winners,
         NEW a \in 1..Len(log), NEW x \in 1..Len(log), ApplyEffects(x, winners),
         log[a].type = "SALE_APPROVED",
         log[x] = [type |-> "SALE_CANCELLED", sale |-> log[a].sale]
  PROVE  awards'[c][a] = clawbacks'[c][a][x]
<1>1. a \in Ids /\ x \in Ids /\ c \in Campaigns
  <2>1. Len(log) \in Nat /\ Len(log) <= MaxEvents
    BY DEF LedgerInv, TypeOK
  <2> QED BY <2>1, EventQueueAssumption DEF Ids
<1>2. awards[c][a] \in 0..1
  BY <1>1 DEF LedgerInv, AwardInv
<1>3. clawbacks[c][a][x] \in 0..1 /\ (clawbacks[c][a][x] > 0 => awards[c][a] > 0)
  BY <1>1 DEF LedgerInv, ClawbackInv
<1>4. awards' = awards /\ clawbacks'[c][a][x] = ClawbacksAfter(c, a, x, x)
  BY <1>1 DEF ApplyEffects
<1>5. Reverses(c, a, x) <=> awards[c][a] > 0
  <2>1. log[a] \in Event
    BY DEF LedgerInv, TypeOK
  <2>2. log[a] = [type |-> "SALE_APPROVED", sale |-> log[x].sale]
    BY <2>1 DEF Event
  <2> QED BY <2>2 DEF Reverses
<1>6. CASE awards[c][a] > 0
  BY <1>2, <1>3, <1>4, <1>5, <1>6 DEF ClawbacksAfter, ClawbackRows
<1>7. CASE ~(awards[c][a] > 0)
  BY <1>2, <1>3, <1>4, <1>5, <1>7 DEF ClawbacksAfter
<1> QED BY <1>6, <1>7

\* The effects of any other event leave that award and its reversal alone,
\* unless they are the effects of the award's own event.
LEMMA OtherEffects ==
  ASSUME LedgerInv, log' = log, NEW c \in Clawing, NEW winners,
         NEW a \in 1..Len(log), NEW x \in 1..Len(log), NEW e,
         ApplyEffects(e, winners), e # a, e # x
  PROVE  awards'[c][a] = awards[c][a] /\ clawbacks'[c][a][x] = clawbacks[c][a][x]
<1>1. a \in Ids /\ x \in Ids /\ c \in Campaigns
  <2>1. Len(log) \in Nat /\ Len(log) <= MaxEvents
    BY DEF LedgerInv, TypeOK
  <2> QED BY <2>1, EventQueueAssumption DEF Ids
<1> QED BY <1>1 DEF ApplyEffects, AwardsAfter, ClawbacksAfter

\* While the effects of a cancellation stand, nobody runs those of the award:
\* the award's event is finished, so no process can have it in hand.
LEMMA AwardIsDone ==
  ASSUME QueueInv, NEW a \in 1..Len(log), NEW x \in 1..Len(log), Ran(x),
         log[a].type = "SALE_APPROVED",
         log[x] = [type |-> "SALE_CANCELLED", sale |-> log[a].sale]
  PROVE  status[a] \in Done
<1>0. TypeOK /\ LogInv /\ Len(log) \in Nat /\ Len(log) <= MaxEvents
      /\ log[a] \in Event
  BY DEF QueueInv, LedgerInv, TypeOK
<1>1. a < x
  <2>1. PICK i \in 1..(x - 1) :
          log[i] = [type |-> "SALE_APPROVED", sale |-> log[x].sale]
    BY DEF QueueInv, LedgerInv, LogInv, NoRepeats, ApprovalFirst
  <2>2. log[a] = [type |-> "SALE_APPROVED", sale |-> log[x].sale]
    BY <1>0 DEF Event
  <2>3. i \in 1..Len(log) /\ log[i] = log[a]
    BY <1>0, <2>1, <2>2
  <2>4. i = a
    BY <1>0, <2>3 DEF LogInv, NoRepeats, ApprovalFirst
  <2> QED BY <2>1, <2>4
<1>2. a \in 1..(x - 1) /\ x \in Ids
  BY <1>0, <1>1, EventQueueAssumption DEF Ids
<1>3. CASE status[x] = "completed"
  BY <1>2, <1>3 DEF QueueInv, OrderInv, NoBypass
<1>4. ASSUME NEW w \in Workers, pc[w] = "complete", at[w] = x
      PROVE  status[a] \in Done
  BY <1>2, <1>4 DEF QueueInv, OrderInv, BatchInv
<1> QED BY <1>3, <1>4 DEF Ran

\* The step runs the effects of event e and commits them.
Runs(e) ==
  \/ MaintenanceCommit /\ e = cursor + 1
  \/ \E w \in Workers : RunEffects(w) /\ e = at[w]

\* Effects run only for an event that is not finished.
LEMMA RunsEffects ==
  ASSUME QueueInv, NEW e, Runs(e)
  PROVE  /\ log' = log /\ status[e] \notin Done
         /\ \E winners \in SUBSET Campaigns : ApplyEffects(e, winners)
<1>1. CASE MaintenanceCommit /\ e = cursor + 1
  BY <1>1 DEF MaintenanceCommit, Leasable, Done, Cleared
<1>2. ASSUME NEW w \in Workers, RunEffects(w), e = at[w]
      PROVE  /\ log' = log /\ status[e] \notin Done
             /\ \E winners \in SUBSET Campaigns : ApplyEffects(e, winners)
  <2>1. status[e] = "processing"
    BY <1>2 DEF RunEffects, InFlight, QueueInv, OrderInv, HoldInv
  <2> QED BY <1>2, <2>1 DEF RunEffects, Done, Cleared
<1> QED BY <1>1, <1>2 DEF Runs

\* Only running an event's effects makes it one that has run.
LEMMA RanStep ==
  ASSUME QueueInv, [Next]_vars, NEW x \in Ids, Ran(x)'
  PROVE  Ran(x) \/ Runs(x)
<1>0. /\ status \in [Ids -> Statuses]
      /\ TypeOK
  BY DEF QueueInv, LedgerInv, TypeOK
<1>1. CASE MaintenanceCommit
  BY <1>0, <1>1 DEF MaintenanceCommit, CompleteRow, Ran, Runs
<1>2. ASSUME NEW w \in Workers, WorkerStep(w) \/ Crash(w)
      PROVE  Ran(x) \/ Runs(x)
  <2>1. CASE RunEffects(w)
    BY <1>0, <2>1 DEF RunEffects, Ran, Runs, TypeOK
  <2>2. CASE MarkCompleted(w)
    <3>1. pc[w] = "complete" /\ status' = [status EXCEPT ![at[w]] = "completed"]
      BY <2>2 DEF MarkCompleted, CompleteRow
    <3>2. CASE x = at[w]
      BY <3>1, <3>2 DEF Ran
    <3>3. CASE x # at[w]
      <4>1. status'[x] = status[x]
        BY <1>0, <3>1, <3>3
      <4>2. ASSUME NEW v \in Workers, pc'[v] = "complete", at'[v] = x
            PROVE  pc[v] = "complete" /\ at[v] = x
        BY <1>0, <2>2, <3>3, <4>2 DEF MarkCompleted, Proceed, TypeOK
      <4> QED BY <4>1, <4>2 DEF Ran
    <3> QED BY <3>2, <3>3
  <2>3. CASE MarkFailed(w)
    <3>1. status'[x] = "completed" => status[x] = "completed"
      BY <1>0, <2>3 DEF MarkFailed, FailRow
    <3>2. ASSUME NEW v \in Workers, pc'[v] = "complete", at'[v] = x
          PROVE  pc[v] = "complete" /\ at[v] = x
      BY <1>0, <2>3, <3>2 DEF MarkFailed, TypeOK
    <3> QED BY <3>1, <3>2 DEF Ran
  <2>4. CASE ~RunEffects(w) /\ ~MarkCompleted(w) /\ ~MarkFailed(w)
    <3>1. status'[x] = "completed" => status[x] = "completed"
      BY <1>0, <1>2, <2>4 DEF WorkerStep, ReadBatch, SkipCleared, NotCleared,
         AcquireLease, Defer, EffectsThrow, AdvanceCursor, Crash
    <3>2. ASSUME NEW v \in Workers, pc'[v] = "complete", at'[v] = x
          PROVE  pc[v] = "complete" /\ at[v] = x
      BY <1>0, <1>2, <2>4, <3>2 DEF WorkerStep, ReadBatch, SkipCleared, NotCleared,
         AcquireLease, Defer, EffectsThrow, AdvanceCursor, Crash, Proceed, TypeOK
    <3> QED BY <3>1, <3>2 DEF Ran
  <2> QED BY <2>1, <2>2, <2>3, <2>4
<1>3. ASSUME NEW e \in Ids, OperatorRetry(e) \/ OperatorClear(e)
      PROVE  Ran(x)
  BY <1>0, <1>3 DEF OperatorRetry, OperatorClear, OperatorRow, Cleared, Ran
<1>4. CASE UNCHANGED <<status, pc, at>>
  BY <1>4 DEF Ran
<1>5. ASSUME NEW e \in Ids, BackoffElapses(e) \/ LeaseExpires(e)
      PROVE  UNCHANGED <<status, pc, at>>
  BY <1>5 DEF BackoffElapses, LeaseExpires
<1>6. ASSUME NEW ty \in EventTypes, NEW s \in Sales, Emit(ty, s)
      PROVE  UNCHANGED <<status, pc, at>>
  BY <1>6 DEF Emit
<1>7. CASE MaintenanceFail
  BY <1>0, <1>7 DEF MaintenanceFail, FailRow, Ran
<1>8. MaintenanceSkip \/ UNCHANGED vars => UNCHANGED <<status, pc, at>>
  BY DEF MaintenanceSkip, vars
<1> QED BY <1>1, <1>2, <1>3, <1>4, <1>5, <1>6, <1>7, <1>8
        DEF Next, Drain, MaintenanceDrain

\* The ledger is written by running the effects of an event, and only so.
LEMMA LedgerFrame ==
  ASSUME [Next]_vars
  PROVE  UNCHANGED <<awards, clawbacks>> \/ \E e : Runs(e)
<1>1. ASSUME NEW w \in Workers, WorkerStep(w) \/ Crash(w), ~RunEffects(w)
      PROVE  UNCHANGED <<awards, clawbacks>>
  BY <1>1 DEF WorkerStep, ReadBatch, SkipCleared, NotCleared, AcquireLease,
     Defer, EffectsThrow, MarkFailed, MarkCompleted, AdvanceCursor, Crash
<1>2. ASSUME NEW e \in Ids,
             \/ BackoffElapses(e) \/ LeaseExpires(e)
             \/ OperatorRetry(e)  \/ OperatorClear(e)
      PROVE  UNCHANGED <<awards, clawbacks>>
  BY <1>2 DEF BackoffElapses, LeaseExpires, OperatorRetry, OperatorClear
<1>3. ASSUME NEW ty \in EventTypes, NEW s \in Sales, Emit(ty, s)
      PROVE  UNCHANGED <<awards, clawbacks>>
  BY <1>3 DEF Emit
<1>4. MaintenanceSkip \/ MaintenanceFail \/ UNCHANGED vars
      => UNCHANGED <<awards, clawbacks>>
  BY DEF MaintenanceSkip, MaintenanceFail, vars
<1>5. MaintenanceCommit => Runs(cursor + 1)
  BY DEF Runs
<1>6. \A w \in Workers : RunEffects(w) => Runs(at[w])
  BY DEF Runs
<1> QED BY <1>1, <1>2, <1>3, <1>4, <1>5, <1>6 DEF Next, Drain, MaintenanceDrain

LEMMA ReversalStep ==
  ASSUME Punctual, QueueInv, ReversalInv, [Next]_vars
  PROVE  ReversalInv'
<1>0. /\ TypeOK /\ TypeOK' /\ LedgerInv /\ LogInv'
      /\ Len(log) \in Nat /\ Len(log') \in Nat /\ Len(log') >= Len(log)
      /\ \A i \in 1..Len(log) : log'[i] = log[i]
  BY LogGrows, TypeStep, LedgerStep DEF QueueInv, LedgerInv
<1> SUFFICES ASSUME NEW c \in Clawing,
                    NEW a \in 1..Len(log'), NEW x \in 1..Len(log'),
                    log'[a].type = "SALE_APPROVED",
                    log'[x] = [type |-> "SALE_CANCELLED", sale |-> log'[a].sale],
                    Ran(x)'
             PROVE  awards'[c][a] = clawbacks'[c][a][x]
  BY DEF ReversalInv
<1>1. x \in Ids /\ a \in Ids
  BY <1>0, EventQueueAssumption DEF TypeOK, Ids
<1>2. Ran(x) \/ Runs(x)
  BY <1>1, RanStep
<1>3. x \in 1..Len(log)
  <2>1. ASSUME x > Len(log) PROVE FALSE
    <3>1. status[x] = "none"
      BY <1>1, <2>1 DEF QueueInv, RowInv
    <3>2. \A w \in Workers : pc[w] = "complete" => at[w] # x
      BY <1>0, <2>1, InBatch
    <3>3. ~Ran(x)
      BY <3>1, <3>2 DEF Ran
    <3>4. ~Runs(x)
      <4>1. CASE MaintenanceCommit /\ x = cursor + 1
        BY <1>0, <2>1, <4>1 DEF MaintenanceCommit, TypeOK
      <4>2. ASSUME NEW w \in Workers, RunEffects(w), x = at[w]
            PROVE  FALSE
        <5>1. at[w] \in 1..Len(log)
          BY <1>0, <4>2, InBatch DEF RunEffects
        <5> QED BY <1>0, <2>1, <4>2, <5>1
      <4> QED BY <4>1, <4>2 DEF Runs
    <3> QED BY <1>2, <3>3, <3>4
  <2> QED BY <1>0, <2>1
<1>4. log'[x] = log[x]
  BY <1>0, <1>3
<1>5. PICK i \in 1..(x - 1) :
        log[i] = [type |-> "SALE_APPROVED", sale |-> log[x].sale]
  BY <1>3, <1>4 DEF QueueInv, LedgerInv, LogInv, NoRepeats, ApprovalFirst
<1>6. i = a
  <2>1. log'[a] = [type |-> "SALE_APPROVED", sale |-> log'[x].sale]
    <3>1. log'[a] \in Event
      BY <1>0 DEF TypeOK
    <3> QED BY <3>1 DEF Event
  <2>2. i \in 1..Len(log) /\ i \in 1..Len(log') /\ log'[i] = log[i]
    BY <1>0, <1>3, <1>5
  <2>3. log'[i] = log'[a]
    BY <1>4, <1>5, <2>1, <2>2
  <2> QED BY <1>0, <2>2, <2>3 DEF LogInv, NoRepeats, ApprovalFirst
<1>7. /\ a \in 1..Len(log) /\ a # x
      /\ log[a].type = "SALE_APPROVED"
      /\ log[x] = [type |-> "SALE_CANCELLED", sale |-> log[a].sale]
  BY <1>0, <1>3, <1>4, <1>5, <1>6
<1>8. CASE Runs(x)
  <2>1. PICK winners \in SUBSET Campaigns : ApplyEffects(x, winners)
    BY <1>8, RunsEffects
  <2>2. log' = log
    BY <1>8, RunsEffects
  <2> QED BY <1>0, <1>3, <1>7, <2>1, <2>2, ReverseEffects
<1>9. CASE ~Runs(x)
  <2>1. status[a] \in Done /\ awards[c][a] = clawbacks[c][a][x]
    BY <1>2, <1>3, <1>7, <1>9, AwardIsDone DEF ReversalInv
  <2>2. ASSUME NEW e, Runs(e)
        PROVE  awards'[c][a] = clawbacks'[c][a][x]
    <3>1. PICK winners \in SUBSET Campaigns : ApplyEffects(e, winners)
      BY <2>2, RunsEffects
    <3>2. log' = log /\ e # a /\ e # x
      BY <1>9, <2>1, <2>2, RunsEffects
    <3> QED BY <1>0, <1>3, <1>7, <2>1, <3>1, <3>2, OtherEffects
  <2>3. CASE UNCHANGED <<awards, clawbacks>>
    BY <2>1, <2>3
  <2> QED BY <2>2, <2>3, LedgerFrame
<1> QED BY <1>8, <1>9

-----------------------------------------------------------------------------
(* Refinement: the queue implements OrderedLedger.                         *)

\* The first k events are settled, and the next one, if there is one, is not.
\* That there is such a k is an invariant: found by the steps, not by induction
\* on the log.
SettledUpTo(k) ==
  /\ k \in 0..Len(log)
  /\ \A d \in 1..k : status[d] \in Done
  /\ k < Len(log) => status[k + 1] \notin Done

SettledInv == \E k \in Nat : SettledUpTo(k)

LEMMA SettledIs ==
  ASSUME NEW k \in Nat, SettledUpTo(k), Len(log) \in Nat
  PROVE  Settled = k
<1>1. {e \in 1..Len(log) : \A d \in 1..e : status[d] \in Done} = 1..k
  <2>1. ASSUME NEW e \in 1..k
        PROVE  e \in 1..Len(log) /\ \A d \in 1..e : status[d] \in Done
    BY DEF SettledUpTo
  <2>2. ASSUME NEW e \in 1..Len(log), \A d \in 1..e : status[d] \in Done
        PROVE  e \in 1..k
    <3>1. ASSUME e > k PROVE FALSE
      <4>1. k + 1 \in 1..e /\ k < Len(log)
        BY <3>1
      <4> QED BY <2>2, <4>1 DEF SettledUpTo
    <3> QED BY <3>1
  <2> QED BY <2>1, <2>2
<1>2. Cardinality(1..k) = k
  BY FS_Interval
<1> QED BY <1>1, <1>2 DEF Settled

\* The same for the state a step leads to.
LEMMA SettledIsNext ==
  ASSUME NEW k \in Nat, SettledUpTo(k)', Len(log') \in Nat
  PROVE  Settled' = k
<1>1. {e \in 1..Len(log') : \A d \in 1..e : status'[d] \in Done} = 1..k
  <2>1. ASSUME NEW e \in 1..k
        PROVE  e \in 1..Len(log') /\ \A d \in 1..e : status'[d] \in Done
    BY DEF SettledUpTo
  <2>2. ASSUME NEW e \in 1..Len(log'), \A d \in 1..e : status'[d] \in Done
        PROVE  e \in 1..k
    <3>1. ASSUME e > k PROVE FALSE
      <4>1. k + 1 \in 1..e /\ k < Len(log')
        BY <3>1
      <4> QED BY <2>2, <4>1 DEF SettledUpTo
    <3> QED BY <3>1
  <2> QED BY <2>1, <2>2
<1>2. Cardinality(1..k) = k
  BY FS_Interval
<1> QED BY <1>1, <1>2 DEF Settled

\* A step settles the next event, or none: what lies behind an unsettled event
\* has not been attempted.
LEMMA SettledStep ==
  ASSUME Punctual, QueueInv, [Next]_vars, NEW k \in Nat, SettledUpTo(k)
  PROVE  SettledUpTo(k)' \/ (log' = log /\ k < Len(log) /\ SettledUpTo(k + 1)')
<1>0. /\ status \in [Ids -> Statuses] /\ MaxEvents \in Nat
      /\ Len(log) \in Nat /\ Len(log') \in Nat /\ Len(log') >= Len(log)
      /\ Len(log) <= MaxEvents /\ Len(log') <= MaxEvents
      /\ RowInv /\ NoBypass
  BY LogGrows, TypeStep, EventQueueAssumption
     DEF QueueInv, LedgerInv, OrderInv, TypeOK
<1>1. \A d \in 1..k : d \in Ids /\ status[d] \in Done
  BY <1>0 DEF SettledUpTo, Ids
<1>2. \A d \in 1..k : status'[d] \in Done
  BY <1>1, DoneStable
<1>3. k \in 0..Len(log')
  BY <1>0 DEF SettledUpTo
<1>4. CASE status' = status
  <2>1. ASSUME k < Len(log') PROVE status'[k + 1] \notin Done
    <3>1. CASE k < Len(log)
      BY <1>4, <3>1 DEF SettledUpTo
    <3>2. CASE k >= Len(log)
      <4>1. k + 1 \in Ids /\ k + 1 > Len(log)
        BY <1>0, <2>1, <3>2 DEF Ids
      <4> QED BY <1>0, <1>4, <4>1 DEF RowInv, Done
    <3> QED BY <1>0, <3>1, <3>2
  <2>2. SettledUpTo(k)'
    BY <1>2, <1>3, <2>1 DEF SettledUpTo
  <2> QED BY <2>2
<1>5. ASSUME NEW e \in Ids, NEW st \in Statuses, RowStep(e, st), status' # status
      PROVE  SettledUpTo(k)' \/ (log' = log /\ k < Len(log) /\ SettledUpTo(k + 1)')
  <2>1. status' = [status EXCEPT ![e] = st] /\ e <= Len(log)
    BY <1>5 DEF RowStep
  <2>2. log' = log
    BY <1>5 DEF Next, Drain, Emit, vars, MaintenanceDrain, MaintenanceSkip,
       MaintenanceCommit, MaintenanceFail, WorkerStep, ReadBatch, SkipCleared,
       NotCleared, AcquireLease, Defer, RunEffects, EffectsThrow, MarkFailed,
       MarkCompleted, AdvanceCursor, Crash, BackoffElapses, LeaseExpires,
       OperatorRetry, OperatorClear
  <2>3. CASE k < Len(log) /\ status'[k + 1] \in Done
    <3>1. k + 1 \in Ids /\ status[k + 1] \notin Done
      BY <1>0, <2>3 DEF SettledUpTo, Ids
    <3>2. e = k + 1
      BY <1>0, <2>1, <2>3, <3>1
    <3>3. \A d \in 1..(k + 1) : status'[d] \in Done
      BY <1>2, <2>3
    <3>4. ASSUME k + 1 < Len(log) PROVE status'[k + 2] \notin Done
      <4>1. k + 2 \in Ids /\ k + 1 \in 1..((k + 2) - 1)
        BY <1>0, <3>4 DEF Ids
      <4>2. status[k + 2] \in {"none", "pending"}
        BY <1>0, <3>1, <4>1 DEF NoBypass
      <4>3. status'[k + 2] = status[k + 2]
        BY <1>0, <2>1, <3>2, <4>1
      <4> QED BY <4>2, <4>3 DEF Done
    <3>5. k + 1 \in 0..Len(log') /\ (k + 1) + 1 = k + 2
      BY <1>0, <2>2, <2>3
    <3>6. k + 1 < Len(log') => status'[(k + 1) + 1] \notin Done
      BY <2>2, <3>4, <3>5
    <3>7. SettledUpTo(k + 1)'
      BY <3>3, <3>5, <3>6 DEF SettledUpTo
    <3> QED BY <2>2, <2>3, <3>7
  <2>4. CASE ~(k < Len(log) /\ status'[k + 1] \in Done)
    <3>1. SettledUpTo(k)'
      BY <1>2, <1>3, <2>2, <2>4 DEF SettledUpTo
    <3> QED BY <3>1
  <2> QED BY <2>3, <2>4
<1> QED BY <1>4, <1>5, StatusStep DEF vars

\* Effects run for the first unsettled event, and write only its rows.
LEMMA RunsInOrder ==
  ASSUME QueueInv, NEW k \in Nat, SettledUpTo(k), NEW e, Runs(e)
  PROVE  e = k + 1 /\ k < Len(log)
<1>0. Len(log) \in Nat /\ TypeOK /\ MaxEvents \in Nat /\ Len(log) <= MaxEvents
  BY EventQueueAssumption DEF QueueInv, LedgerInv, TypeOK
<1>1. e \in 1..Len(log) /\ \A d \in 1..(e - 1) : status[d] \in Done
  <2>1. CASE MaintenanceCommit /\ e = cursor + 1
    BY <1>0, <2>1 DEF MaintenanceCommit, QueueInv, OrderInv, CursorSound, TypeOK
  <2>2. ASSUME NEW w \in Workers, RunEffects(w), e = at[w]
        PROVE  e \in 1..Len(log) /\ \A d \in 1..(e - 1) : status[d] \in Done
    <3>1. e \in 1..Len(log)
      BY <2>2, InBatch DEF RunEffects, QueueInv
    <3> QED BY <2>2, <3>1 DEF RunEffects, QueueInv, OrderInv, BatchInv
  <2> QED BY <2>1, <2>2 DEF Runs
<1>2. status[e] \notin Done
  BY RunsEffects
<1>3. e > k
  BY <1>0, <1>1, <1>2 DEF SettledUpTo
<1>4. ~(e > k + 1)
  <2>1. ASSUME e > k + 1 PROVE FALSE
    <3>1. k + 1 \in 1..(e - 1) /\ k < Len(log)
      BY <1>0, <1>1, <2>1
    <3> QED BY <1>1, <3>1 DEF SettledUpTo
  <2> QED BY <2>1
<1> QED BY <1>0, <1>1, <1>3, <1>4

LEMMA RunsOnlyRows ==
  ASSUME QueueInv, NEW e, Runs(e)
  PROVE  Ordered!OnlyRowsOf(e)
<1>1. PICK winners \in SUBSET Campaigns : ApplyEffects(e, winners)
  BY RunsEffects
<1>2. ASSUME NEW c \in Campaigns, NEW a \in Ids
      PROVE  /\ awards'[c][a] # awards[c][a] =>
                  a = e /\ awards[c][a] = 0 /\ awards'[c][a] = 1
             /\ \A x \in Ids : clawbacks'[c][a][x] # clawbacks[c][a][x] =>
                  x = e /\ clawbacks[c][a][x] = 0 /\ clawbacks'[c][a][x] = 1
  <2>1. CASE log[e].type = "SALE_CANCELLED"
    <3>1. awards' = awards
      BY <1>1, <2>1 DEF ApplyEffects
    <3>2. \A x \in Ids : clawbacks'[c][a][x] = ClawbacksAfter(c, a, x, e)
      BY <1>1, <2>1 DEF ApplyEffects
    <3> QED BY <3>1, <3>2 DEF ClawbacksAfter, ClawbackRows
  <2>2. CASE log[e].type # "SALE_CANCELLED"
    <3>1. clawbacks' = clawbacks
      BY <1>1, <2>2 DEF ApplyEffects
    <3>2. awards'[c][a] = AwardsAfter(c, a, e, winners)
      BY <1>1, <2>2 DEF ApplyEffects
    <3> QED BY <3>1, <3>2 DEF AwardsAfter, AwardRows
  <2> QED BY <2>1, <2>2
<1> QED BY <1>2 DEF Ordered!OnlyRowsOf, Ordered!Ids, Ids

\* Every step of the queue is a step of the ordered ledger, or none of its own.
LEMMA RefinesStep ==
  ASSUME Punctual, QueueInv, SettledInv, [Next]_vars
  PROVE  [Ordered!Next]_(Ordered!orderedVars)
<1>1. PICK k \in Nat : SettledUpTo(k)
  BY DEF SettledInv
<1>2. Len(log) \in Nat /\ Len(log') \in Nat
  BY TypeStep DEF QueueInv, LedgerInv, TypeOK
<1>3. Settled = k
  BY <1>1, <1>2, SettledIs
<1>4. Settled' = k \/ (log' = log /\ k < Len(log) /\ Settled' = k + 1)
  <2>1. CASE SettledUpTo(k)'
    BY <1>2, <2>1, SettledIsNext
  <2>2. CASE log' = log /\ k < Len(log) /\ SettledUpTo(k + 1)'
    BY <1>2, <2>2, SettledIsNext
  <2> QED BY <1>1, <2>1, <2>2, SettledStep
<1>5. ASSUME NEW e, Runs(e)
      PROVE  Ordered!Work
  <2>1. e = k + 1 /\ k < Len(log) /\ log' = log
    BY <1>1, <1>5, RunsInOrder, RunsEffects
  <2>2. Ordered!OnlyRowsOf(k + 1)
    BY <1>5, <2>1, RunsOnlyRows
  <2> QED BY <1>3, <1>4, <2>1, <2>2 DEF Ordered!Work
<1>6. CASE UNCHANGED <<awards, clawbacks>>
  <2>1. CASE log' = log /\ Settled' = k
    BY <1>3, <1>6, <2>1 DEF Ordered!orderedVars
  <2>2. CASE log' = log /\ k < Len(log) /\ Settled' = k + 1
    <3>1. Ordered!OnlyRowsOf(k + 1)
      BY <1>6 DEF Ordered!OnlyRowsOf
    <3> QED BY <1>3, <2>2, <3>1 DEF Ordered!Work, Ordered!Next
  <2>3. CASE log' # log
    <3>1. PICK ty \in EventTypes, s \in Sales : Emit(ty, s)
      BY <2>3 DEF Next, Drain, vars, MaintenanceDrain, MaintenanceSkip,
         MaintenanceCommit, MaintenanceFail, WorkerStep, ReadBatch, SkipCleared,
         NotCleared, AcquireLease, Defer, RunEffects, EffectsThrow, MarkFailed,
         MarkCompleted, AdvanceCursor, Crash, BackoffElapses, LeaseExpires,
         OperatorRetry, OperatorClear
    <3>2. log' = EmitTo(log, ty, s)
      BY <3>1 DEF Emit
    <3>3. Settled' = Settled
      BY <1>3, <1>4, <2>3
    <3>4. Ordered!Record
      BY <1>6, <3>2, <3>3
      DEF Ordered!Record, Ordered!EmitTo, Ordered!Logged, Ordered!EventTypes,
          EmitTo, Logged, EventTypes
    <3> QED BY <3>4 DEF Ordered!Next
  <2> QED BY <1>4, <2>1, <2>2, <2>3
<1> QED BY <1>5, <1>6, LedgerFrame DEF Ordered!Next

-----------------------------------------------------------------------------
(* What follows.                                                           *)

\* No event is attempted before the queue is finished with all those before it.
THEOREM NoBypassCorrect == ASSUME Punctual PROVE Spec => []NoBypass
BY QueueCorrect, PTL DEF QueueInv, OrderInv

\* The cursor never passes an event whose work is still to be done.
THEOREM CursorCorrect == ASSUME Punctual PROVE Spec => []CursorSound
BY QueueCorrect, PTL DEF QueueInv, OrderInv

\* The lease keeps two workers from running one event's effects at once.
THEOREM OneHolderCorrect == ASSUME Punctual PROVE Spec => []OneHolder
<1>1. QueueInv => OneHolder
  BY DEF QueueInv, OrderInv, HoldInv, OneHolder
<1> QED BY <1>1, QueueCorrect, PTL

\* Work that committed is never opened again, by a retry or by a late worker.
THEOREM CompletedCorrect == ASSUME Punctual PROVE Spec => CompletedIsFinal
<1>1. QueueInv /\ [Next]_vars =>
        [\A e \in Ids : status[e] = "completed" => status'[e] = "completed"]_vars
  BY DoneStable
<1> QED BY <1>1, QueueCorrect, PTL DEF Spec, CompletedIsFinal

\* Once a cancellation is processed every award of its sale, in a campaign
\* that claws back, stands reversed.
THEOREM ReversalCorrect == ASSUME Punctual PROVE Spec => []NoSurvivingAward
<1>1. Init => QueueInv /\ ReversalInv
  BY QueueInit DEF Init, ReversalInv, Ran
<1>2. QueueInv /\ ReversalInv /\ [Next]_vars => QueueInv' /\ ReversalInv'
  BY QueueInvStep, ReversalStep
<1>3. ReversalInv => NoSurvivingAward
  BY DEF ReversalInv, Ran, NoSurvivingAward
<1> QED BY <1>1, <1>2, <1>3, PTL DEF Spec

\* The queue implements a ledger written strictly in event order: each of its
\* steps is one of OrderedLedger's or leaves the log, the ledger and what is
\* settled alone, whatever workers, crashes, backoff and operators do.
THEOREM ImplementsCorrect == ASSUME Punctual PROVE Spec => ImplementsOrderedLedger
<1>1. Init => Ordered!Init /\ SettledInv
  <2> SUFFICES ASSUME Init PROVE Ordered!Init /\ SettledInv
    OBVIOUS
  <2>1. Len(log) = 0
    BY DEF Init
  <2>2. SettledUpTo(0)
    BY <2>1 DEF SettledUpTo
  <2>3. Settled = 0
    BY <2>1, <2>2, SettledIs
  <2> QED BY <2>2, <2>3 DEF Init, Ordered!Init, Ordered!Ids, Ids, SettledInv
<1>2. ASSUME QueueInv, SettledInv, [Next]_vars
      PROVE  SettledInv'
  <2>1. PICK k \in Nat : SettledUpTo(k)
    BY <1>2 DEF SettledInv
  <2>2. k + 1 \in Nat
    OBVIOUS
  <2> QED BY <1>2, <2>1, <2>2, SettledStep DEF SettledInv
<1>3. QueueInv /\ SettledInv /\ [Next]_vars =>
        [Ordered!Next]_(Ordered!orderedVars)
  BY RefinesStep
<1> QED BY <1>1, <1>2, <1>3, QueueCorrect, PTL
        DEF Spec, ImplementsOrderedLedger, Ordered!Spec

-----------------------------------------------------------------------------
(* The whole path, from the requests on a sale to its money: the events    *)
(* are recorded by the requests of SaleLifecycle instead of one at a time  *)
(* in the right order.                                                     *)

\* The requests that are at work.
InRequest == {r \in Requests : step[r] # "idle"}

RoomInv == Len(log) + Cardinality(InRequest) <= MaxEvents

IdleInv == \A r \in Requests : step[r] = "idle" <=> req[r].sale = NoSale

\* What no overlap of requests and no fault disturbs.
BaseInv == RowsInv /\ Sale!TypeOK /\ RoomInv /\ IdleInv

LEMMA RequestsFinite ==
  /\ IsFiniteSet(InRequest) /\ Cardinality(InRequest) \in Nat
  /\ \A r \in InRequest : Cardinality(InRequest) > 0
<1>1. IsFiniteSet(InRequest) /\ Cardinality(InRequest) \in Nat
  BY FS_Subset, FS_CardinalityType, PipelineAssumption DEF InRequest
<1>2. InRequest # {} => Cardinality(InRequest) # 0
  BY <1>1, FS_EmptySet
<1> QED BY <1>1, <1>2

\* The last statement of a request records at most the event of its transition.
LEMMA RequestRecords ==
  ASSUME BaseInv, NEW r \in Requests, Sale!EmitEvent(r),
         UNCHANGED <<cursor, queue, ledger, workers, spent>>
  PROVE  /\ req[r].sale \in Sales
         /\ \/ Sale!Approves(req[r]) /\ Records("SALE_APPROVED", req[r].sale)
            \/ /\ Sale!Cancels(req[r]) /\ ~Sale!Approves(req[r])
               /\ Records("SALE_CANCELLED", req[r].sale)
            \/ /\ ~Sale!Approves(req[r]) /\ ~Sale!Cancels(req[r])
               /\ log' = log
<1>1. step[r] = "emit"
  BY DEF Sale!EmitEvent
<1>2. req[r].sale \in Sales
  <2>1. req[r].sale \in Sales \cup {NoSale}
    BY DEF BaseInv, Sale!TypeOK
  <2>2. req[r].sale # NoSale
    BY <1>1 DEF BaseInv, IdleInv
  <2> QED BY <2>1, <2>2
<1>3. Len(log) < MaxEvents
  <2>1. Cardinality(InRequest) > 0 /\ Cardinality(InRequest) \in Nat
    BY <1>1, RequestsFinite DEF InRequest
  <2>2. Len(log) \in Nat
    BY DEF BaseInv, RowsInv, TypeOK
  <2> QED BY <2>1, <2>2, EventQueueAssumption DEF BaseInv, RoomInv
<1>4. \A ty, s : Sale!EmitTo(log, ty, s) = EmitTo(log, ty, s)
  BY DEF Sale!EmitTo, EmitTo, Sale!Logged, Logged
<1> QED BY <1>2, <1>3, <1>4 DEF Sale!EmitEvent, Records

\* A request keeps its own state well formed,
LEMMA RequestType ==
  ASSUME BaseInv, NEW r \in Requests,
         Sale!Begin(r) \/ Sale!Serve(r) \/ Sale!Abandon(r), TypeOK'
  PROVE  Sale!TypeOK' /\ IdleInv'
<1>0. /\ Sale!TypeOK /\ IdleInv /\ log' \in Seq(Event)
  BY DEF BaseInv, TypeOK
<1>1. Sale!Event = Event
  BY DEF Sale!Event, Event, Sale!EventTypes, EventTypes
<1>2. Sale!NoRequest \in [sale : Sales \cup {NoSale}, to : Sale!SaleStatuses,
                          prev : Sale!SaleStatuses, now : Sale!SaleStatuses]
  BY DEF Sale!NoRequest, Sale!SaleStatuses
<1>3. CASE Sale!Begin(r)
  <2>1. PICK s \in Sales, to \in Sale!SaleStatuses :
          req' = [req EXCEPT ![r] = [sale |-> s, to |-> to, prev |-> sale[s],
                                     now |-> sale[s]]]
    BY <1>3 DEF Sale!Begin
  <2>2. /\ step' = [step EXCEPT ![r] = "write"] /\ sale' = sale
        /\ step[r] = "idle"
    BY <1>3 DEF Sale!Begin
  <2>3. sale[s] \in Sale!SaleStatuses
    BY <1>0 DEF Sale!TypeOK
  <2>4. Sale!TypeOK'
    BY <1>0, <1>1, <2>1, <2>2, <2>3 DEF Sale!TypeOK
  <2>5. IdleInv'
    BY <1>0, <2>1, <2>2, PipelineAssumption DEF Sale!TypeOK, IdleInv
  <2> QED BY <2>4, <2>5
<1>4. CASE Sale!WriteStatus(r)
  <2>1. req[r].to \in Sale!SaleStatuses
    BY <1>0 DEF Sale!TypeOK
  <2>2. Sale!TypeOK'
    BY <1>0, <1>1, <1>4, <2>1 DEF Sale!TypeOK, Sale!WriteStatus
  <2>3. IdleInv'
    BY <1>0, <1>4 DEF Sale!TypeOK, Sale!WriteStatus, IdleInv
  <2> QED BY <2>2, <2>3
<1>5. CASE Sale!ReadBack(r)
  <2>1. req[r].sale \in Sales
    <3>1. req[r].sale # NoSale
      BY <1>0, <1>5 DEF IdleInv, Sale!ReadBack
    <3> QED BY <1>0, <3>1 DEF Sale!TypeOK
  <2>2. sale[req[r].sale] \in Sale!SaleStatuses
    BY <1>0, <2>1 DEF Sale!TypeOK
  <2>3. Sale!TypeOK'
    BY <1>0, <1>1, <1>5, <2>2 DEF Sale!TypeOK, Sale!ReadBack
  <2>4. \A q \in Requests : req'[q].sale = req[q].sale
    BY <1>0, <1>5 DEF Sale!TypeOK, Sale!ReadBack
  <2>5. \A q \in Requests : step'[q] = "idle" <=> step[q] = "idle"
    BY <1>0, <1>5 DEF Sale!TypeOK, Sale!ReadBack
  <2>6. IdleInv'
    BY <1>0, <2>4, <2>5 DEF IdleInv
  <2> QED BY <2>3, <2>6
<1>6. CASE Sale!EmitEvent(r) \/ Sale!Abandon(r)
  <2>1. /\ step' = [step EXCEPT ![r] = "idle"] /\ sale' = sale
        /\ req' = [req EXCEPT ![r] = Sale!NoRequest]
    BY <1>6 DEF Sale!EmitEvent, Sale!Abandon
  <2>2. Sale!TypeOK'
    BY <1>0, <1>1, <1>2, <2>1 DEF Sale!TypeOK
  <2>3. Sale!NoRequest.sale = NoSale
    BY DEF Sale!NoRequest
  <2>4. IdleInv'
    BY <1>0, <2>1, <2>3 DEF Sale!TypeOK, IdleInv
  <2> QED BY <2>2, <2>4
<1> QED BY <1>3, <1>4, <1>5, <1>6 DEF Sale!Serve

\* and leaves room on the log for the events of the others.
LEMMA RequestRoom ==
  ASSUME BaseInv, NEW r \in Requests, TypeOK',
         \/ Room /\ Sale!Begin(r)
         \/ Sale!Serve(r)
         \/ Sale!Abandon(r),
         \/ log' = log
         \/ Sale!EmitEvent(r) /\ Len(log') <= Len(log) + 1
  PROVE  RoomInv'
<1> DEFINE k == Cardinality(InRequest)
<1>0. /\ IsFiniteSet(InRequest) /\ k \in Nat /\ MaxEvents \in Nat
      /\ Len(log) \in Nat /\ Len(log') \in Nat /\ Len(log) + k <= MaxEvents
  BY RequestsFinite, EventQueueAssumption DEF BaseInv, RoomInv, RowsInv, TypeOK
<1>1. step \in [Requests -> {"idle", "write", "readback", "emit"}]
  BY DEF BaseInv, Sale!TypeOK
<1>2. CASE Room /\ Sale!Begin(r)
  <2>1. /\ step[r] = "idle" /\ step' = [step EXCEPT ![r] = "write"]
        /\ log' = log
    BY <1>2 DEF Sale!Begin
  <2>2. InRequest' = InRequest \cup {r} /\ r \notin InRequest
    BY <1>1, <2>1 DEF InRequest
  <2>3. Cardinality(InRequest') = k + 1
    BY <1>0, <2>2, FS_AddElement
  <2>4. Len(log) + k < MaxEvents
    BY <1>2 DEF Room, InRequest
  <2> QED BY <1>0, <2>1, <2>3, <2>4 DEF RoomInv
<1>3. CASE Sale!WriteStatus(r) \/ Sale!ReadBack(r)
  <2>1. InRequest' = InRequest
    BY <1>1, <1>3 DEF InRequest, Sale!WriteStatus, Sale!ReadBack
  <2>2. log' = log
    BY <1>3 DEF Sale!WriteStatus, Sale!ReadBack
  <2> QED BY <1>0, <2>1, <2>2 DEF RoomInv
<1>4. CASE Sale!EmitEvent(r) \/ Sale!Abandon(r)
  <2>1. step[r] # "idle" /\ step' = [step EXCEPT ![r] = "idle"]
    BY <1>4 DEF Sale!EmitEvent, Sale!Abandon
  <2>2. InRequest' = InRequest \ {r} /\ r \in InRequest
    BY <1>1, <2>1 DEF InRequest
  <2>3. Cardinality(InRequest') = k - 1
    BY <1>0, <2>2, FS_RemoveElement
  <2>4. Len(log') <= Len(log) + 1
    BY <1>0
  <2> QED BY <1>0, <2>3, <2>4 DEF RoomInv
<1> QED BY <1>2, <1>3, <1>4 DEF Sale!Serve

LEMMA BaseStep == BaseInv /\ [PipelineNext]_pipeline => BaseInv'
<1> SUFFICES ASSUME BaseInv, [PipelineNext]_pipeline PROVE BaseInv'
  OBVIOUS
<1>1. ASSUME NEW r \in Requests,
             \/ Room /\ Sale!Begin(r)
             \/ Sale!Serve(r)
             \/ Sale!Abandon(r),
             UNCHANGED <<cursor, queue, ledger, workers, spent>>
      PROVE  BaseInv'
  <2>1. RowsInv' /\ (\/ log' = log
                     \/ Sale!EmitEvent(r) /\ Len(log') <= Len(log) + 1)
    <3>1. CASE Sale!EmitEvent(r) /\ log' # log
      <4>1. PICK ty \in EventTypes, s \in Sales : Records(ty, s)
        BY <1>1, <3>1, RequestRecords DEF EventTypes
      <4>2. RowsInv'
        BY <4>1, RecordsRows DEF BaseInv
      <4>3. Len(log') <= Len(log) + 1
        BY <4>1, EmitType DEF Records, BaseInv, RowsInv, TypeOK
      <4> QED BY <3>1, <4>2, <4>3
    <3>2. CASE log' = log
      BY <1>1, <3>2 DEF BaseInv, RowsInv, TypeOK, NoRepeats, PositionInv,
                        AwardInv, ClawbackInv
    <3>3. log' = log \/ Sale!EmitEvent(r)
      BY <1>1 DEF Sale!Begin, Sale!Serve, Sale!WriteStatus, Sale!ReadBack, Sale!Abandon
    <3> QED BY <3>1, <3>2, <3>3
  <2>2. TypeOK'
    BY <2>1 DEF RowsInv
  <2>3. Sale!TypeOK' /\ IdleInv'
    BY <1>1, <2>2, RequestType
  <2>4. RoomInv'
    BY <1>1, <2>1, <2>2, RequestRoom
  <2> QED BY <2>1, <2>3, <2>4 DEF BaseInv
<1>2. ASSUME RowsInv', log' = log, UNCHANGED <<sale, step, req>>
      PROVE  BaseInv'
  BY <1>2 DEF BaseInv, Sale!TypeOK, RoomInv, InRequest, IdleInv
<1>3. CASE QueueStep
  <2>1. RowsInv' /\ log' = log /\ UNCHANGED <<sale, step, req>>
    BY <1>3, DrainRows DEF QueueStep, BaseInv
  <2> QED BY <1>2, <2>1
<1>4. CASE UNCHANGED pipeline
  <2>1. RowsInv' /\ log' = log /\ UNCHANGED <<sale, step, req>>
    BY <1>4 DEF pipeline, vars, BaseInv, RowsInv, TypeOK, NoRepeats,
                PositionInv, AwardInv, ClawbackInv
  <2> QED BY <1>2, <2>1
<1> QED BY <1>1, <1>3, <1>4 DEF PipelineNext, SaleStep

LEMMA BaseInit == PipelineInit => BaseInv
<1> SUFFICES ASSUME PipelineInit PROVE BaseInv
  OBVIOUS
<1>1. RowsInv
  BY QueueInit, LedgerRows DEF PipelineInit, QueueInv
<1>2. Sale!TypeOK /\ IdleInv
  BY <1>1 DEF PipelineInit, Sale!Init, Sale!TypeOK, Sale!SaleStatuses,
              Sale!NoRequest, IdleInv, Sale!Event
<1>3. RoomInv
  <2>1. InRequest = {} /\ Len(log) = 0
    BY DEF PipelineInit, Init, Sale!Init, InRequest
  <2>2. Cardinality(InRequest) = 0
    BY <2>1, FS_EmptySet
  <2> QED BY <2>1, <2>2, EventQueueAssumption DEF RoomInv
<1> QED BY <1>1, <1>2, <1>3 DEF BaseInv

\* Whatever order overlapping and interrupted requests leave the events in,
\* and whatever happens to the queue after that, each sale is worth one award
\* per campaign and one clawback per award.
THEOREM PaidOnceFromSales == PipelineSpec => []PaidOnce
<1>1. BaseInv => PaidOnce
  BY RowsPayOnce DEF BaseInv
<1> QED BY <1>1, BaseInit, BaseStep, PTL DEF PipelineSpec

-----------------------------------------------------------------------------
(* The order of the events, as long as no two requests are at work on one  *)
(* sale and none has ended half way.  Nothing in the code keeps two        *)
(* requests apart: the theorems that need it say so.                       *)

OneAtATime ==
  \A r, q \in Requests :
    req[r].sale = req[q].sale /\ req[r].sale # NoSale => r = q

\* The events on record tell of a sale that has the status st.
Told(l, s, st) ==
  IF st = "QUALIFIED" THEN Logged(l, "SALE_APPROVED", s)
  ELSE Logged(l, "SALE_APPROVED", s) => Logged(l, "SALE_CANCELLED", s)

\* The events tell of each sale at rest, and of the status that a request at
\* work has found; and what it has read back is still what the sale is.
SaleInv ==
  /\ \A r \in Requests : step[r] # "idle" =>
       /\ Told(log, req[r].sale, req[r].prev)
       /\ step[r] = "emit" => req[r].now = sale[req[r].sale]
  /\ \A s \in Sales : Sale!AtRest(s) => Told(log, s, sale[s])

\* An event of one sale tells nothing of another,
LEMMA RecordsLogged ==
  ASSUME TypeOK, NEW ty \in EventTypes, NEW s \in Sales, Records(ty, s)
  PROVE  \A ty2 \in EventTypes, s2 \in Sales :
           Logged(log', ty2, s2) <=>
             Logged(log, ty2, s2) \/ (ty2 = ty /\ s2 = s)
<1> DEFINE n == Len(log) + 1
<1>0. /\ Len(log) \in Nat /\ Len(log') \in Nat /\ Len(log') >= Len(log)
      /\ \A i \in 1..Len(log) : i \in 1..Len(log') /\ log'[i] = log[i]
  <2>1. Len(log) \in Nat
    BY DEF TypeOK
  <2>2. log' \in Seq(Event)
    BY EmitStep
  <2>3. Len(log') \in Nat
    BY <2>2
  <2>4. /\ Len(log') >= Len(log)
        /\ \A i \in 1..Len(log) : i \in 1..Len(log') /\ log'[i] = log[i]
    BY EmitStep
  <2> QED BY <2>1, <2>3, <2>4
<1>1. CASE log' = log
  <2>1. Logged(log, ty, s)
    <3> SUFFICES ASSUME ~Logged(log, ty, s) PROVE FALSE
      OBVIOUS
    <3>1. log' = Append(log, [type |-> ty, sale |-> s])
      BY DEF Records, EmitTo
    <3>2. Len(log') = n
      BY <3>1 DEF TypeOK
    <3> QED BY <1>0, <1>1, <3>2
  <2> QED BY <1>1, <2>1
<1>2. CASE log' # log
  <2>1. Len(log') = n /\ log'[n] = [type |-> ty, sale |-> s]
    BY <1>2, EmitStep
  <2> SUFFICES ASSUME NEW ty2 \in EventTypes, NEW s2 \in Sales
               PROVE  Logged(log', ty2, s2) <=>
                        Logged(log, ty2, s2) \/ (ty2 = ty /\ s2 = s)
    OBVIOUS
  <2>2. ASSUME Logged(log', ty2, s2)
        PROVE  Logged(log, ty2, s2) \/ (ty2 = ty /\ s2 = s)
    <3>1. PICK i \in 1..Len(log') : log'[i] = [type |-> ty2, sale |-> s2]
      BY <2>2 DEF Logged
    <3>2. CASE i = n
      BY <2>1, <3>1, <3>2
    <3>3. CASE i # n
      <4>1. i \in 1..Len(log)
        BY <1>0, <2>1, <3>3
      <4> QED BY <1>0, <3>1, <4>1 DEF Logged
    <3> QED BY <3>2, <3>3
  <2>3. ASSUME Logged(log, ty2, s2) PROVE Logged(log', ty2, s2)
    BY <1>0, <2>3 DEF Logged
  <2>4. ASSUME ty2 = ty, s2 = s PROVE Logged(log', ty2, s2)
    BY <1>0, <2>1, <2>4 DEF Logged
  <2> QED BY <2>2, <2>3, <2>4
<1> QED BY <1>1, <1>2

\* A step of a request that does not end half way keeps the events in step.
LEMMA SaleInvStep ==
  ASSUME BaseInv, SaleInv, OneAtATime, OneAtATime', Sale!TypeOK', IdleInv',
         NEW r \in Requests, Sale!Begin(r) \/ Sale!Serve(r),
         UNCHANGED <<cursor, queue, ledger, workers, spent>>
  PROVE  SaleInv'
<1>0. /\ Sale!TypeOK /\ TypeOK /\ IdleInv
  BY DEF BaseInv, RowsInv
<1>1. CASE Sale!Begin(r)
  <2>1. PICK s \in Sales, to \in Sale!SaleStatuses :
          req' = [req EXCEPT ![r] = [sale |-> s, to |-> to, prev |-> sale[s],
                                     now |-> sale[s]]]
    BY <1>1 DEF Sale!Begin
  <2>2. /\ step' = [step EXCEPT ![r] = "write"] /\ sale' = sale
        /\ step[r] = "idle" /\ log' = log
    BY <1>1 DEF Sale!Begin
  <2>3. req'[r].sale = s /\ req'[r].prev = sale[s]
    BY <1>0, <2>1 DEF Sale!TypeOK
  <2>4. \A q \in Requests : q # r => req'[q] = req[q] /\ step'[q] = step[q]
    BY <1>0, <2>1, <2>2 DEF Sale!TypeOK
  <2>5. Sale!AtRest(s)
    <3> SUFFICES ASSUME NEW q \in Requests, req[q].sale = s PROVE FALSE
      BY DEF Sale!AtRest
    <3>1. s # NoSale
      BY PipelineAssumption
    <3>2. q # r
      BY <1>0, <2>2, <3>1 DEF IdleInv
    <3> QED BY <2>3, <2>4, <3>1, <3>2 DEF OneAtATime
  <2>6. Told(log, s, sale[s])
    BY <2>5 DEF SaleInv
  <2>7. ASSUME NEW q \in Requests, step'[q] # "idle"
        PROVE  /\ Told(log', req'[q].sale, req'[q].prev)
               /\ step'[q] = "emit" => req'[q].now = sale'[req'[q].sale]
    <3>1. CASE q = r
      <4>1. step'[q] = "write"
        BY <1>0, <2>2, <3>1 DEF Sale!TypeOK
      <4> QED BY <2>2, <2>3, <2>6, <3>1, <4>1 DEF Told
    <3>2. CASE q # r
      <4>1. req'[q] = req[q] /\ step'[q] = step[q]
        BY <2>4, <3>2
      <4> QED BY <2>2, <2>7, <4>1 DEF SaleInv, Told
    <3> QED BY <3>1, <3>2
  <2>8. ASSUME NEW z \in Sales, Sale!AtRest(z)' PROVE Told(log', z, sale'[z])
    <3>1. Sale!AtRest(z)
      <4> SUFFICES ASSUME NEW q \in Requests, req[q].sale = z PROVE FALSE
        BY DEF Sale!AtRest
      <4>1. q # r
        BY <1>0, <2>2, PipelineAssumption DEF IdleInv
      <4> QED BY <2>4, <2>8, <4>1 DEF Sale!AtRest
    <3> QED BY <2>2, <3>1 DEF SaleInv, Told
  <2> QED BY <2>7, <2>8 DEF SaleInv
<1>2. CASE Sale!WriteStatus(r)
  <2> DEFINE s == req[r].sale
  <2>1. /\ step[r] = "write" /\ step' = [step EXCEPT ![r] = "readback"]
        /\ sale' = [sale EXCEPT ![s] = req[r].to]
        /\ log' = log /\ req' = req
    BY <1>2 DEF Sale!WriteStatus
  <2>2. s # NoSale
    BY <1>0, <2>1 DEF IdleInv
  <2>3. ASSUME NEW q \in Requests, step'[q] # "idle"
        PROVE  /\ Told(log', req'[q].sale, req'[q].prev)
               /\ step'[q] = "emit" => req'[q].now = sale'[req'[q].sale]
    <3>1. CASE q = r
      <4>1. step'[q] = "readback"
        BY <1>0, <2>1, <3>1 DEF Sale!TypeOK
      <4> QED BY <2>1, <3>1, <4>1 DEF SaleInv, Told
    <3>2. CASE q # r
      <4>1. step'[q] = step[q] /\ req'[q] = req[q]
        BY <1>0, <2>1, <3>2 DEF Sale!TypeOK
      <4>2. req[q].sale # s
        BY <2>2, <3>2 DEF OneAtATime
      <4>3. sale'[req[q].sale] = sale[req[q].sale]
        <5>1. req[q].sale \in Sales
          <6>1. req[q].sale # NoSale
            BY <1>0, <2>3, <4>1 DEF IdleInv
          <6> QED BY <1>0, <6>1 DEF Sale!TypeOK
        <5> QED BY <1>0, <2>1, <4>2, <5>1 DEF Sale!TypeOK
      <4> QED BY <2>1, <2>3, <4>1, <4>3 DEF SaleInv, Told
    <3> QED BY <3>1, <3>2
  <2>4. ASSUME NEW z \in Sales, Sale!AtRest(z)' PROVE Told(log', z, sale'[z])
    <3>1. Sale!AtRest(z) /\ z # s
      BY <2>1, <2>4 DEF Sale!AtRest
    <3>2. sale'[z] = sale[z]
      BY <1>0, <2>1, <3>1 DEF Sale!TypeOK
    <3> QED BY <2>1, <3>1, <3>2 DEF SaleInv, Told
  <2> QED BY <2>3, <2>4 DEF SaleInv
<1>3. CASE Sale!ReadBack(r)
  <2> DEFINE s == req[r].sale
  <2>1. /\ step[r] = "readback" /\ step' = [step EXCEPT ![r] = "emit"]
        /\ req' = [req EXCEPT ![r].now = sale[s]]
        /\ log' = log /\ sale' = sale
    BY <1>3 DEF Sale!ReadBack
  <2>2. \A q \in Requests : /\ req'[q].sale = req[q].sale
                            /\ req'[q].prev = req[q].prev
    BY <1>0, <2>1 DEF Sale!TypeOK
  <2>3. \A q \in Requests : q # r => req'[q] = req[q] /\ step'[q] = step[q]
    BY <1>0, <2>1 DEF Sale!TypeOK
  <2>4. req'[r].now = sale[s]
    BY <1>0, <2>1 DEF Sale!TypeOK
  <2>5. ASSUME NEW q \in Requests, step'[q] # "idle"
        PROVE  /\ Told(log', req'[q].sale, req'[q].prev)
               /\ step'[q] = "emit" => req'[q].now = sale'[req'[q].sale]
    <3>1. CASE q = r
      BY <2>1, <2>2, <2>4, <3>1 DEF SaleInv, Told
    <3>2. CASE q # r
      BY <2>1, <2>3, <2>5, <3>2 DEF SaleInv, Told
    <3> QED BY <3>1, <3>2
  <2>6. ASSUME NEW z \in Sales, Sale!AtRest(z)' PROVE Told(log', z, sale'[z])
    <3>1. Sale!AtRest(z)
      BY <2>2, <2>6 DEF Sale!AtRest
    <3> QED BY <2>1, <3>1 DEF SaleInv, Told
  <2> QED BY <2>5, <2>6 DEF SaleInv
<1>4. CASE Sale!EmitEvent(r)
  <2> DEFINE s == req[r].sale
  <2>1. /\ step[r] = "emit" /\ step' = [step EXCEPT ![r] = "idle"]
        /\ req' = [req EXCEPT ![r] = Sale!NoRequest] /\ sale' = sale
    BY <1>4 DEF Sale!EmitEvent
  <2>2. s \in Sales /\ s # NoSale
    BY <1>4, RequestRecords, PipelineAssumption
  <2>3. /\ Told(log, s, req[r].prev) /\ req[r].now = sale[s]
    BY <2>1 DEF SaleInv
  <2>4. /\ \A z \in Sales, ty \in EventTypes : z # s =>
             (Logged(log', ty, z) <=> Logged(log, ty, z))
        /\ Told(log', s, sale'[s])
    <3>1. CASE Sale!Approves(req[r]) /\ Records("SALE_APPROVED", s)
      BY <1>0, <2>1, <2>2, <2>3, <3>1, RecordsLogged
         DEF Told, Sale!Approves, EventTypes
    <3>2. CASE Sale!Cancels(req[r]) /\ Records("SALE_CANCELLED", s)
      BY <1>0, <2>1, <2>2, <2>3, <3>2, RecordsLogged
         DEF Told, Sale!Cancels, EventTypes
    <3>3. CASE ~Sale!Approves(req[r]) /\ ~Sale!Cancels(req[r]) /\ log' = log
      BY <2>1, <2>3, <3>3 DEF Told, Sale!Approves, Sale!Cancels
    <3> QED BY <1>4, <3>1, <3>2, <3>3, RequestRecords
  <2>5. \A q \in Requests : q # r => req'[q] = req[q] /\ step'[q] = step[q]
    BY <1>0, <2>1 DEF Sale!TypeOK
  <2>6. ASSUME NEW q \in Requests, step'[q] # "idle"
        PROVE  /\ Told(log', req'[q].sale, req'[q].prev)
               /\ step'[q] = "emit" => req'[q].now = sale'[req'[q].sale]
    <3>1. q # r
      BY <1>0, <2>1, <2>6 DEF Sale!TypeOK
    <3>2. req'[q] = req[q] /\ step'[q] = step[q]
      BY <2>5, <3>1
    <3>3. req[q].sale # s
      BY <2>2, <3>1 DEF OneAtATime
    <3>4. req[q].sale \in Sales
      <4>1. req[q].sale # NoSale
        BY <1>0, <2>6, <3>2 DEF IdleInv
      <4> QED BY <1>0, <4>1 DEF Sale!TypeOK
    <3>5. Told(log, req[q].sale, req[q].prev)
      BY <2>6, <3>2 DEF SaleInv
    <3>6. Told(log', req[q].sale, req[q].prev)
      BY <2>4, <3>2, <3>3, <3>4, <3>5 DEF Told, EventTypes
    <3> QED BY <2>1, <2>6, <3>2, <3>6 DEF SaleInv
  <2>7. ASSUME NEW z \in Sales, Sale!AtRest(z)' PROVE Told(log', z, sale'[z])
    <3>1. CASE z = s
      BY <2>4, <3>1
    <3>2. CASE z # s
      <4>1. Sale!AtRest(z)
        BY <2>5, <2>7, <3>2 DEF Sale!AtRest
      <4>2. Told(log, z, sale[z])
        BY <4>1 DEF SaleInv
      <4> QED BY <2>1, <2>4, <3>2, <4>2 DEF Told, EventTypes
    <3> QED BY <3>1, <3>2
  <2> QED BY <2>6, <2>7 DEF SaleInv
<1> QED BY <1>1, <1>2, <1>3, <1>4 DEF Sale!Serve

\* Under those two conditions a step of the whole is one of the queue.
LEMMA RequestIsEmit ==
  ASSUME BaseInv, SaleInv, NEW r \in Requests,
         Sale!Begin(r) \/ Sale!Serve(r),
         UNCHANGED <<cursor, queue, ledger, workers, spent>>
  PROVE  [Next]_vars
<1>1. CASE Sale!EmitEvent(r)
  <2> DEFINE s == req[r].sale
  <2>1. s \in Sales
    BY <1>1, RequestRecords
  <2>2. CASE Records("SALE_APPROVED", s)
    <3>1. Emit("SALE_APPROVED", s)
      BY <2>2 DEF Emit, Records
    <3> QED BY <2>1, <3>1 DEF Next, EventTypes
  <2>3. CASE Sale!Cancels(req[r]) /\ Records("SALE_CANCELLED", s)
    <3>1. Told(log, s, "QUALIFIED")
      BY <1>1, <2>3 DEF SaleInv, Sale!EmitEvent, Sale!Cancels
    <3>2. Emit("SALE_CANCELLED", s)
      BY <2>3, <3>1 DEF Emit, Records, Told
    <3> QED BY <2>1, <3>2 DEF Next, EventTypes
  <2>4. CASE log' = log
    BY <2>4 DEF vars
  <2> QED BY <1>1, <2>2, <2>3, <2>4, RequestRecords
<1>2. CASE ~Sale!EmitEvent(r)
  BY <1>2 DEF Sale!Begin, Sale!Serve, Sale!WriteStatus, Sale!ReadBack, vars
<1> QED BY <1>1, <1>2

\* One at a time and none given up half way: the events stay in order,
StoryInv == BaseInv /\ (~broken => SaleInv /\ ApprovalFirst)

LEMMA StoryStep ==
  ASSUME StoryInv, OneAtATime, OneAtATime', [PipelineNext]_pipeline
  PROVE  StoryInv' /\ (~broken' => ~broken /\ [Next]_vars)
<1>0. BaseInv /\ BaseInv'
  BY BaseStep DEF StoryInv
<1> SUFFICES ASSUME ~broken'
             PROVE  ~broken /\ SaleInv' /\ ApprovalFirst' /\ [Next]_vars
  BY <1>0 DEF StoryInv
<1>1. ASSUME NEW r \in Requests, Sale!Begin(r) \/ Sale!Serve(r),
             UNCHANGED <<cursor, queue, ledger, workers, spent>>,
             UNCHANGED broken
      PROVE  ~broken /\ SaleInv' /\ [Next]_vars
  <2>1. ~broken /\ SaleInv
    BY <1>1 DEF StoryInv
  <2>2. Sale!TypeOK' /\ IdleInv'
    BY <1>0 DEF BaseInv
  <2> QED BY <1>0, <1>1, <2>1, <2>2, SaleInvStep, RequestIsEmit
<1>2. ASSUME log' = log, UNCHANGED <<sale, step, req, broken>>
      PROVE  ~broken /\ SaleInv'
  BY <1>2 DEF StoryInv, SaleInv, Sale!AtRest
<1>3. ~broken /\ SaleInv' /\ [Next]_vars
  <2>1. CASE QueueStep
    <3>1. log' = log
      BY <1>0, <2>1, DrainRows DEF QueueStep, BaseInv
    <3> QED BY <1>2, <2>1, <3>1 DEF QueueStep, Next
  <2>2. CASE UNCHANGED pipeline
    BY <1>2, <2>2 DEF pipeline, vars
  <2>3. CASE SaleStep
    BY <1>1, <2>3 DEF SaleStep
  <2> QED BY <2>1, <2>2, <2>3 DEF PipelineNext
<1>4. ApprovalFirst'
  <2>1. LedgerInv
    BY <1>0, <1>3, LedgerRows DEF StoryInv, BaseInv
  <2>2. LedgerInv'
    BY <1>3, <2>1, LedgerStep
  <2> QED BY <2>2 DEF LedgerInv, LogInv
<1> QED BY <1>3, <1>4

LEMMA StoryInit == PipelineInit => StoryInv
<1> SUFFICES ASSUME PipelineInit PROVE SaleInv /\ ApprovalFirst
  BY BaseInit DEF StoryInv
<1>1. log = <<>> /\ \A s \in Sales : sale[s] = "PENDING"
  BY DEF PipelineInit, Init, Sale!Init
<1>2. \A r \in Requests : step[r] = "idle"
  BY DEF PipelineInit, Sale!Init
<1>3. ApprovalFirst
  BY <1>1 DEF ApprovalFirst
<1>4. \A s \in Sales : Told(log, s, sale[s])
  <2>1. \A ty, s : ~Logged(log, ty, s)
    <3>1. 1..Len(log) = {}
      BY <1>1
    <3> QED BY <3>1 DEF Logged
  <2> QED BY <1>1, <2>1 DEF Told
<1> QED BY <1>2, <1>3, <1>4 DEF SaleInv

\* and they say what the run checks: each sale at rest has its events.
LEMMA StoryLogged == StoryInv => SalesAreLogged
<1> SUFFICES ASSUME StoryInv PROVE SalesAreLogged
  OBVIOUS
<1>1. TypeOK /\ Sale!TypeOK /\ NoRepeats
  BY DEF StoryInv, BaseInv, RowsInv
<1>2. ASSUME ~broken
      PROVE  /\ Sale!FactHasEvent /\ Sale!ReversalHasEvent
             /\ Sale!ApprovalLoggedFirst
  <2>1. SaleInv /\ ApprovalFirst
    BY <1>2 DEF StoryInv
  <2>2. \A ty, s : Sale!Logged(log, ty, s) = Logged(log, ty, s)
    BY DEF Sale!Logged, Logged
  <2>3. Sale!FactHasEvent
    BY <2>1, <2>2 DEF SaleInv, Told, Sale!FactHasEvent
  <2>4. Sale!ReversalHasEvent
    BY <2>1, <2>2 DEF SaleInv, Told, Sale!ReversalHasEvent
  <2>5. Sale!ApprovalLoggedFirst
    <3> SUFFICES ASSUME NEW i \in 1..Len(log), NEW j \in 1..Len(log),
                        log[i].type = "SALE_CANCELLED",
                        log[j] = [type |-> "SALE_APPROVED", sale |-> log[i].sale]
                 PROVE  j < i
      BY DEF Sale!ApprovalLoggedFirst
    <3>1. PICK k \in 1..(i - 1) :
            log[k] = [type |-> "SALE_APPROVED", sale |-> log[i].sale]
      BY <2>1 DEF ApprovalFirst
    <3>2. Len(log) \in Nat
      BY <1>1 DEF TypeOK
    <3>3. k = j
      BY <1>1, <3>1, <3>2 DEF NoRepeats
    <3> QED BY <3>1, <3>2, <3>3
  <2> QED BY <2>3, <2>4, <2>5
<1> QED BY <1>1, <1>2 DEF SalesAreLogged

\* Requests that never overlap on one sale leave the story of each sale on the
\* log: its approval once it is QUALIFIED, and its cancellation, after the
\* approval, once it is not any more, unless a request ended half way.
THEOREM SalesAreLoggedCorrect ==
  PipelineSpec /\ []OneAtATime => []SalesAreLogged
BY StoryInit, StoryStep, StoryLogged, PTL DEF PipelineSpec

\* A request at a time never overlaps: the theorem of the run's instance, for
\* any number of sales, campaigns, workers and events.
COROLLARY SalesAreLoggedAlone ==
  ASSUME \E r : Requests = {r}
  PROVE  PipelineSpec => []SalesAreLogged
<1>1. OneAtATime
  BY DEF OneAtATime
<1> QED BY <1>1, SalesAreLoggedCorrect, PTL

-----------------------------------------------------------------------------
(* End to end, as long as no worker outlives its lease and no operator     *)
(* retries a dead letter.                                                  *)

PathInv == StoryInv /\ (~broken => QueueInv /\ ReversalInv)

LEMMA PathStep ==
  ASSUME Punctual, PathInv, OneAtATime, OneAtATime', [PipelineNext]_pipeline
  PROVE  PathInv'
<1>1. StoryInv' /\ (~broken' => ~broken /\ [Next]_vars)
  BY StoryStep DEF PathInv
<1>2. ASSUME ~broken' PROVE QueueInv' /\ ReversalInv'
  BY <1>1, <1>2, QueueInvStep, ReversalStep DEF PathInv
<1> QED BY <1>1, <1>2 DEF PathInv

LEMMA PathInit == PipelineInit => PathInv
<1>1. Init => ReversalInv
  BY DEF Init, ReversalInv
<1> QED BY <1>1, StoryInit, QueueInit DEF PathInv, PipelineInit

\* What one campaign has left of one sale: an award and its reversal, or none.
LEMMA PathNet == PathInv => NothingKeptForLostSale
<1> SUFFICES ASSUME PathInv, NEW c \in Clawing, NEW s \in Sales,
                    ~broken, Drained, Sale!AtRest(s), sale[s] # "QUALIFIED"
             PROVE  Net(c, s) = 0
  BY DEF NothingKeptForLostSale
<1> DEFINE OfSale == {e \in 1..Len(log) : log[e].sale = s}
           Paid == {a \in OfSale : awards[c][a] > 0}
           Taken == {ax \in OfSale \X OfSale : clawbacks[c][ax[1]][ax[2]] > 0}
<1>0. /\ TypeOK /\ NoRepeats /\ AwardInv /\ ClawbackInv
      /\ ReversalInv /\ PaidOnce /\ c \in Campaigns
      /\ Told(log, s, sale[s])
  <2>1. TypeOK /\ NoRepeats /\ AwardInv /\ ClawbackInv /\ PaidOnce
    BY RowsPayOnce DEF PathInv, StoryInv, BaseInv, RowsInv
  <2>2. ReversalInv /\ Told(log, s, sale[s])
    BY DEF PathInv, StoryInv, SaleInv
  <2> QED BY <2>1, <2>2, EventQueueAssumption
<1>1. \A e \in OfSale : e \in Ids /\ e \in 1..Len(log)
  BY <1>0, EventQueueAssumption DEF TypeOK, Ids
<1>2. Net(c, s) = Cardinality(Paid) - Cardinality(Taken)
  BY DEF Net
<1>3. CASE Paid = {}
  <2>1. ASSUME NEW ax \in Taken PROVE FALSE
    <3>1. ax[1] \in OfSale /\ ax[2] \in OfSale
      OBVIOUS
    <3>2. awards[c][ax[1]] > 0
      BY <1>0, <1>1, <3>1 DEF ClawbackInv
    <3> QED BY <1>3, <3>1, <3>2
  <2>2. Cardinality(Paid) = 0 /\ Cardinality(Taken) = 0
    BY <1>3, <2>1, FS_EmptySet
  <2> QED BY <1>2, <2>2
<1>4. ASSUME NEW a \in Paid PROVE Net(c, s) = 0
  <2>1. /\ a \in Ids /\ a \in 1..Len(log) /\ log[a] \in Event
        /\ log[a].sale = s /\ log[a].type = "SALE_APPROVED"
    BY <1>0, <1>1 DEF AwardInv, TypeOK
  <2>2. log[a] = [type |-> "SALE_APPROVED", sale |-> s]
    BY <2>1 DEF Event
  <2>3. PICK x \in 1..Len(log) : log[x] = [type |-> "SALE_CANCELLED", sale |-> s]
    BY <1>0, <2>1, <2>2 DEF Told, Logged
  <2>4. x \in OfSale /\ x \in Ids /\ status[x] = "completed"
    BY <1>1, <2>3 DEF Drained
  <2>5. awards[c][a] = clawbacks[c][a][x]
    BY <1>0, <2>1, <2>3, <2>4 DEF ReversalInv, Ran
  <2>6. Paid = {a}
    BY <1>0, <2>1 DEF PaidOnce
  <2>7. Taken = {<<a, x>>}
    <3>1. <<a, x>> \in Taken
      BY <2>4, <2>5
    <3>2. ASSUME NEW b \in OfSale, NEW y \in OfSale, clawbacks[c][b][y] > 0
          PROVE  b = a /\ y = x
      <4>1. awards[c][b] > 0
        BY <1>0, <1>1, <3>2 DEF ClawbackInv
      <4>2. b = a
        BY <2>6, <4>1
      <4>3. clawbacks[c][a][y] > 0 /\ clawbacks[c][a][x] > 0 /\ y \in Ids
        BY <1>1, <2>5, <3>2, <4>2
      <4> QED BY <1>0, <2>1, <2>4, <4>2, <4>3 DEF PaidOnce
    <3> QED BY <3>1, <3>2
  <2>8. Cardinality(Paid) = 1 /\ Cardinality(Taken) = 1
    <3> HIDE DEF Paid, Taken
    <3> QED BY <2>6, <2>7, FS_Singleton
  <2> QED BY <1>2, <2>8
<1> QED BY <1>3, <1>4

\* From the sale to the money: once the queue is drained, a clawing campaign has
\* left nothing for a sale that is not QUALIFIED and that no request is at work
\* on, and has taken no more than it gave.
THEOREM NothingKeptCorrect ==
  ASSUME Punctual
  PROVE  PipelineSpec /\ []OneAtATime => []NothingKeptForLostSale
BY PathInit, PathStep, PathNet, PTL DEF PipelineSpec

\* The same with a request at a time, which never overlaps.
COROLLARY NothingKeptAlone ==
  ASSUME Punctual, \E r : Requests = {r}
  PROVE  PipelineSpec => []NothingKeptForLostSale
<1>1. OneAtATime
  BY DEF OneAtATime
<1> QED BY <1>1, NothingKeptCorrect, PTL
=============================================================================
