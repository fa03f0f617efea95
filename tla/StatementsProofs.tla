-------------------------- MODULE StatementsProofs --------------------------
(***************************************************************************)
(* What Statements promises of a statement as long as one process serves   *)
(* its requests, for any number of sales, adjustments and crashes.  With   *)
(* two processes PaidAddsUp is false (StatementsRace.cfg).                 *)
(***************************************************************************)
EXTENDS Statements, FiniteSetTheorems, TLAPS

OneProc == \E p : Procs = {p}

-----------------------------------------------------------------------------
(* The invariant.                                                          *)

Doors  == 0..Cardinality(Sales)
Extras == 0..Cardinality(Adjustments)

\* The types, with what keeps the sum of two amounts an amount.
RowType == [status : {"none", "OPEN", "FINALIZED", "PAID"},
            gross : Doors, adj : Extras, final : Amount, doors : SUBSET Sales]

JobType == [for : Sales \cup Adjustments \cup {NoId},
            to : {"none", "PENDING", "QUALIFIED", "REVERSED",
                  "APPROVED", "REJECTED", "FINALIZED"},
            row : RowType, sum : Extras, count : Doors, doors : SUBSET Sales]

Places == {"idle", "sale", "check", "sum", "count", "upsert", "snapshot", "lock",
           "reopen", "pay", "readback", "hold", "decide", "apply", "applySum",
           "applyWrite"}

TablesOK ==
  /\ sale \in [Sales -> {"PENDING", "QUALIFIED", "REVERSED"}]
  /\ pays \in [Sales -> {"sold", "held", "here", "later"}]
  /\ adj \in [Adjustments -> {"none", "PENDING", "APPROVED", "REJECTED"}]
  /\ stmt \in RowType /\ held \in Amount

RequestsOK ==
  /\ at \in [Procs -> Places] /\ job \in [Procs -> JobType]
  /\ crashes \in 0..CrashBudget

\* Nothing is adjusted before there is a statement.
Blank == stmt.status = "none" => \A a \in Adjustments : adj[a] = "none"

\* What a request knows of the tables at each of its steps.
Knows(where, what) ==
  /\ where = "sale" => what.to \in {"PENDING", "QUALIFIED", "REVERSED"}
  /\ where \in {"sum", "count", "upsert"} => ~Locked(stmt) /\ what.row = stmt
  /\ where = "upsert" => what.count = Cardinality(Counted)
  /\ where \in {"snapshot", "lock", "reopen"} => stmt.status \in {"OPEN", "FINALIZED"}
  /\ where \in {"snapshot", "lock"} /\ ~Locked(stmt) =>
       stmt.gross = Cardinality(Counted)
  /\ where = "lock" => what.doors = Listed
  /\ where = "pay" => stmt.status = "FINALIZED"
  /\ where \in {"hold", "decide", "applySum", "applyWrite"} => what.row = stmt
  /\ where = "decide" =>
       /\ what.for \in Adjustments /\ adj[what.for] = "PENDING"
       /\ what.to \in {"APPROVED", "REJECTED"}
       /\ what.to = "APPROVED" => stmt.status # "PAID"
  /\ where \in {"apply", "applySum", "applyWrite"} => stmt.status = "FINALIZED"

\* At which steps the amount may be behind an approval.
Repairing == {"check", "sum", "count", "upsert", "apply", "applySum", "applyWrite"}

AddsUp == stmt.final = stmt.gross + Approved

\* The amounts, as long as no request has died half way.
Sums(where, what) ==
  /\ where \in {"count", "upsert", "applyWrite"} => what.sum = Approved
  /\ crashes = 0 /\ stmt.status # "none" =>
       /\ where \notin Repairing => AddsUp
       /\ where = "check" /\ Locked(stmt) => AddsUp
  /\ crashes = 0 /\ stmt.status = "PAID" /\ stmt.final > 0 =>
       held > 0 \/ where \in {"readback", "hold"}

StmtInv ==
  /\ TablesOK /\ RequestsOK /\ Blank
  /\ \A p \in Procs : Knows(at[p], job[p]) /\ Sums(at[p], job[p])

-----------------------------------------------------------------------------
(* Lemmas about the pieces of a step.                                      *)

\* Amounts are numbers, and two of them in range add up to one in range.
LEMMA Counts ==
  /\ Cardinality(Sales) \in Nat /\ Cardinality(Adjustments) \in Nat
  /\ \A g \in Doors, m \in Extras : g \in Nat /\ m \in Nat /\ g + m \in Amount
  /\ Doors \subseteq Amount /\ Extras \subseteq Amount /\ Amount \subseteq Nat
  /\ 0 \in Doors /\ 0 \in Extras /\ 0 \in Amount
<1>1. Cardinality(Sales) \in Nat /\ Cardinality(Adjustments) \in Nat
  BY StatementsAssumption, FS_CardinalityType
<1> DEFINE m == Cardinality(Sales)
           n == Cardinality(Adjustments)
<1>2. m \in Nat /\ n \in Nat
  BY <1>1
<1> HIDE DEF m, n
<1>3. Doors = 0..m /\ Extras = 0..n /\ Amount = 0..(m + n)
  BY DEF m, n, Doors, Extras, Amount
<1> QED
  BY <1>1, <1>2, <1>3

\* The invariant has the types of the specification.
LEMMA TypesHold ==
  TablesOK /\ RequestsOK => TypeOK
<1>1. RowType \subseteq Row
  BY Counts DEF RowType, Row
<1>2. JobType \subseteq [for : Sales \cup Adjustments \cup {NoId},
                         to : {"none", "PENDING", "QUALIFIED", "REVERSED",
                               "APPROVED", "REJECTED", "FINALIZED"},
                         row : Row, sum : Amount, count : Amount,
                         doors : SUBSET Sales]
  BY <1>1, Counts DEF JobType
<1> QED
  BY <1>1, <1>2 DEF TablesOK, RequestsOK, TypeOK, Places

\* What is counted.
LEMMA WhatCounts ==
  /\ Cardinality(Counted) \in Doors /\ Listed \subseteq Sales
  /\ Approved \in Extras
<1>1. Counted \subseteq Sales /\ Listed \subseteq Sales
  BY DEF Counted, Listed, Qualified
<1>2. {a \in Adjustments : adj[a] = "APPROVED"} \subseteq Adjustments
  OBVIOUS
<1>3. /\ Cardinality(Counted) \in Nat
      /\ Cardinality(Counted) <= Cardinality(Sales)
  BY <1>1, StatementsAssumption, FS_Subset, FS_CardinalityType
<1>4. Approved \in Nat /\ Approved <= Cardinality(Adjustments)
  BY <1>2, StatementsAssumption, FS_Subset, FS_CardinalityType DEF Approved
<1> QED
  BY <1>1, <1>3, <1>4, Counts DEF Doors, Extras

\* Without adjustments the approved ones sum to nothing.
LEMMA NothingApproved ==
  ASSUME \A a \in Adjustments : adj[a] = "none"
  PROVE  Approved = 0
<1>1. {a \in Adjustments : adj[a] = "APPROVED"} = {}
  OBVIOUS
<1> QED
  BY <1>1, FS_EmptySet DEF Approved

\* Rows and jobs that are of the right type.
LEMMA PricedRow ==
  ASSUME NEW s \in RowType, NEW g \in Doors, NEW m \in Extras
  PROVE  /\ Priced(s, g, m) \in RowType
         /\ Priced(s, g, m).status = IF s.status = "none" THEN "OPEN" ELSE s.status
         /\ Priced(s, g, m).gross = g /\ Priced(s, g, m).final = g + m
         /\ Priced(s, g, m).doors = s.doors
<1>1. g + m \in Amount
  BY Counts
<1> QED
  BY <1>1 DEF Priced, RowType

LEMMA NoJobType == NoRow \in RowType /\ NoJob \in JobType
  BY Counts DEF NoRow, NoJob, RowType, JobType

\* A request that goes on stays a request of the right type.
LEMMA Going ==
  ASSUME RequestsOK, NEW p \in Procs, NEW where \in Places, NEW what \in JobType,
         Goes(p, where, what)
  PROVE  RequestsOK' /\ at'[p] = where /\ job'[p] = what /\ crashes' = crashes
  BY DEF RequestsOK, Goes

\* There is only one request to look at.
LEMMA Alone ==
  ASSUME OneProc, NEW p \in Procs, TablesOK', RequestsOK', Blank',
         Knows(at[p], job[p])', Sums(at[p], job[p])'
  PROVE  StmtInv'
<1>1. \A q \in Procs : q = p
  BY DEF OneProc
<1>2. \A q \in Procs : Knows(at[q], job[q])' /\ Sums(at[q], job[q])'
  BY <1>1
<1> QED
  BY <1>2 DEF StmtInv

\* A step that changes no table leads to what the request then knows.
LEMMA Reads ==
  ASSUME OneProc, StmtInv, NEW p \in Procs, NEW where \in Places,
         NEW what \in JobType, Goes(p, where, what), UNCHANGED tables,
         Knows(where, what), Sums(where, what)
  PROVE  StmtInv'
<1>1. RequestsOK' /\ at'[p] = where /\ job'[p] = what /\ crashes' = crashes
  BY Going DEF StmtInv
<1>2. UNCHANGED <<sale, pays, adj, stmt, held>>
  BY DEF tables
<1>3. TablesOK' /\ Blank'
  BY <1>2 DEF StmtInv, TablesOK, Blank
<1>4. Counted' = Counted /\ Listed' = Listed /\ Approved' = Approved
  BY <1>2 DEF Counted, Listed, Qualified, Approved
<1>5. Knows(at[p], job[p])'
  BY <1>1, <1>2, <1>4 DEF Knows, Locked
<1>6. Sums(at[p], job[p])'
  BY <1>1, <1>2, <1>4 DEF Sums, AddsUp, Repairing, Locked
<1> QED
  BY <1>1, <1>3, <1>5, <1>6, Alone

\* What a request has read goes into its job.
LEMMA WithRow ==
  ASSUME NEW j \in JobType, NEW r \in RowType
  PROVE  \E k \in JobType : /\ k = [j EXCEPT !.row = r]
                            /\ k.row = r
<1>1. /\ [j EXCEPT !.row = r] \in JobType
      /\ [j EXCEPT !.row = r].row = r
  BY DEF JobType
<1> QED
  BY <1>1

LEMMA WithSum ==
  ASSUME NEW j \in JobType, NEW m \in Extras
  PROVE  \E k \in JobType : /\ k = [j EXCEPT !.sum = m]
                            /\ k.sum = m
                            /\ k.row = j.row
<1>1. /\ [j EXCEPT !.sum = m] \in JobType
      /\ [j EXCEPT !.sum = m].sum = m
      /\ [j EXCEPT !.sum = m].row = j.row
  BY DEF JobType
<1> QED
  BY <1>1

LEMMA WithCount ==
  ASSUME NEW j \in JobType, NEW g \in Doors
  PROVE  \E k \in JobType : /\ k = [j EXCEPT !.count = g]
                            /\ k.count = g
                            /\ k.row = j.row
                            /\ k.sum = j.sum
<1>1. /\ [j EXCEPT !.count = g] \in JobType
      /\ [j EXCEPT !.count = g].count = g
      /\ [j EXCEPT !.count = g].row = j.row
      /\ [j EXCEPT !.count = g].sum = j.sum
  BY DEF JobType
<1> QED
  BY <1>1

LEMMA WithDoors ==
  ASSUME NEW j \in JobType, NEW d \in SUBSET Sales
  PROVE  \E k \in JobType : /\ k = [j EXCEPT !.doors = d]
                            /\ k.doors = d
<1>1. /\ [j EXCEPT !.doors = d] \in JobType
      /\ [j EXCEPT !.doors = d].doors = d
  BY DEF JobType
<1> QED
  BY <1>1

\* The jobs of the two requests that name what they are about.
SaleJob(s, to) == [NoJob EXCEPT !.for = s, !.to = to]

AdjustmentJob(a, to, r) == [NoJob EXCEPT !.for = a, !.to = to, !.row = r]

LEMMA ForSale ==
  ASSUME NEW s \in Sales, NEW to \in {"PENDING", "QUALIFIED", "REVERSED"}
  PROVE  SaleJob(s, to) \in JobType /\ SaleJob(s, to).to = to
  BY NoJobType DEF JobType, SaleJob

LEMMA ForAdjustment ==
  ASSUME NEW a \in Adjustments, NEW to \in {"APPROVED", "REJECTED"},
         NEW r \in RowType
  PROVE  /\ AdjustmentJob(a, to, r) \in JobType
         /\ AdjustmentJob(a, to, r).for = a /\ AdjustmentJob(a, to, r).to = to
         /\ AdjustmentJob(a, to, r).row = r
  BY NoJobType DEF JobType, AdjustmentJob

-----------------------------------------------------------------------------
(* The steps that only read.                                               *)

\* Requests that begin, and know what they were let in for.
LEMMA FreeSteps ==
  ASSUME OneProc, StmtInv, NEW p \in Procs,
         \/ SaleRequest(p) \/ Refresh(p) \/ Finalize(p) \/ Reopen(p)
         \/ MarkPaid(p) \/ EnsureHold(p) \/ DecideRequest(p)
  PROVE  StmtInv'
<1>1. /\ at[p] = "idle" /\ UNCHANGED tables
      /\ stmt \in RowType /\ NoJob \in JobType
      /\ Sums("idle", job[p])
  BY NoJobType DEF StmtInv, TablesOK, SaleRequest, Refresh, Finalize, Reopen,
                   MarkPaid, EnsureHold, DecideRequest
<1>2. CASE SaleRequest(p)
  <2>1. PICK s \in Sales, to \in {"PENDING", "QUALIFIED", "REVERSED"} :
          Goes(p, "sale", SaleJob(s, to))
    BY <1>2 DEF SaleRequest, SaleJob
  <2>2. PICK j \in JobType : j = SaleJob(s, to) /\ j.to = to
    BY ForSale
  <2>3. Knows("sale", j) /\ Sums("sale", j)
    BY <1>1, <2>2 DEF Knows, Sums, Repairing
  <2> QED
    BY <1>1, <2>1, <2>2, <2>3, Reads DEF Places
<1>3. CASE Refresh(p)
  <2>1. Knows("check", NoJob) /\ Sums("check", NoJob)
    BY <1>1 DEF Knows, Sums, Repairing
  <2> QED
    BY <1>1, <1>3, <2>1, Reads DEF Places, Refresh
<1>4. CASE Finalize(p)
  <2>1. CASE stmt.status = "OPEN" /\ Goes(p, "check", [NoJob EXCEPT !.to = "FINALIZED"])
    <3>1. PICK j \in JobType : j = [NoJob EXCEPT !.to = "FINALIZED"]
      BY <1>1 DEF JobType
    <3>2. Knows("check", j) /\ Sums("check", j)
      BY <1>1, <2>1 DEF Knows, Sums, Repairing, Locked
    <3> QED
      BY <1>1, <2>1, <3>1, <3>2, Reads DEF Places
  <2>2. CASE stmt.status = "FINALIZED" /\ Goes(p, "snapshot", NoJob)
    <3>1. Knows("snapshot", NoJob) /\ Sums("snapshot", NoJob)
      BY <1>1, <2>2 DEF Knows, Sums, Repairing, Locked
    <3> QED
      BY <1>1, <2>2, <3>1, Reads DEF Places
  <2> QED
    BY <1>4, <2>1, <2>2 DEF Finalize
<1>5. CASE Reopen(p)
  <2>1. Knows("reopen", NoJob) /\ Sums("reopen", NoJob)
    BY <1>1, <1>5 DEF Knows, Sums, Repairing, Reopen
  <2> QED
    BY <1>1, <1>5, <2>1, Reads DEF Places, Reopen
<1>6. CASE MarkPaid(p)
  <2>1. Knows("pay", NoJob) /\ Sums("pay", NoJob)
    BY <1>1, <1>6 DEF Knows, Sums, Repairing, MarkPaid
  <2> QED
    BY <1>1, <1>6, <2>1, Reads DEF Places, MarkPaid
<1>7. CASE EnsureHold(p)
  <2>1. PICK j \in JobType : j = [NoJob EXCEPT !.row = stmt] /\ j.row = stmt
    BY <1>1, WithRow
  <2>2. Knows("hold", j) /\ Sums("hold", j)
    BY <1>1, <2>1 DEF Knows, Sums, Repairing
  <2> QED
    BY <1>1, <1>7, <2>1, <2>2, Reads DEF Places, EnsureHold
<1>8. CASE DecideRequest(p)
  <2>1. PICK a \in Adjustments, to \in {"APPROVED", "REJECTED"} :
          /\ adj[a] = "PENDING" /\ (to = "APPROVED" => stmt.status # "PAID")
          /\ Goes(p, "decide", AdjustmentJob(a, to, stmt))
    BY <1>8 DEF DecideRequest, AdjustmentJob
  <2>2. PICK j \in JobType : /\ j = AdjustmentJob(a, to, stmt)
                             /\ j.for = a /\ j.to = to /\ j.row = stmt
    BY <1>1, ForAdjustment
  <2>3. Knows("decide", j) /\ Sums("decide", j)
    BY <1>1, <2>1, <2>2 DEF Knows, Sums, Repairing
  <2> QED
    BY <1>1, <2>1, <2>2, <2>3, Reads DEF Places
<1> QED
  BY <1>2, <1>3, <1>4, <1>5, <1>6, <1>7, <1>8

\* Requests that read one more thing before they write.
LEMMA ReadSteps ==
  ASSUME OneProc, StmtInv, NEW p \in Procs,
         \/ CheckOpen(p) \/ SumAdjustments(p) \/ CountSales(p) \/ Snapshot(p)
         \/ ReadBack(p) \/ Apply(p) \/ ApplySum(p)
  PROVE  StmtInv'
<1>1. /\ UNCHANGED tables /\ stmt \in RowType /\ NoJob \in JobType
      /\ job[p] \in JobType /\ Knows(at[p], job[p]) /\ Sums(at[p], job[p])
  BY NoJobType DEF StmtInv, TablesOK, RequestsOK, CheckOpen, SumAdjustments,
                   CountSales, Snapshot, ReadBack, Apply, ApplySum
<1>2. /\ Cardinality(Counted) \in Doors /\ Listed \in SUBSET Sales
      /\ Approved \in Extras
  BY WhatCounts
<1>3. CASE CheckOpen(p)
  <2>1. at[p] = "check"
    BY <1>3 DEF CheckOpen
  <2>2. CASE Locked(stmt)
    <3>1. Knows("idle", NoJob) /\ Sums("idle", NoJob)
      BY <1>1, <2>1, <2>2 DEF Knows, Sums, Repairing
    <3> QED
      BY <1>1, <1>3, <2>2, <3>1, Reads DEF Places, CheckOpen, Finishes
  <2>3. CASE ~Locked(stmt)
    <3>1. PICK j \in JobType : j = [job[p] EXCEPT !.row = stmt] /\ j.row = stmt
      BY <1>1, WithRow
    <3>2. Knows("sum", j) /\ Sums("sum", j)
      BY <1>1, <2>1, <2>3, <3>1 DEF Knows, Sums, Repairing, Locked
    <3> QED
      BY <1>1, <1>3, <2>3, <3>1, <3>2, Reads DEF Places, CheckOpen
  <2> QED
    BY <2>2, <2>3
<1>4. CASE SumAdjustments(p)
  <2>1. at[p] = "sum" /\ job[p].row = stmt /\ ~Locked(stmt)
    BY <1>1, <1>4 DEF SumAdjustments, Knows
  <2>2. stmt.status = "none" => Approved = 0
    BY NothingApproved DEF StmtInv, Blank
  <2>3. Goes(p, "count", [job[p] EXCEPT !.sum = Approved])
    BY <1>4, <2>1, <2>2 DEF SumAdjustments
  <2>4. PICK j \in JobType : /\ j = [job[p] EXCEPT !.sum = Approved]
                             /\ j.sum = Approved /\ j.row = stmt
    BY <1>1, <1>2, <2>1, WithSum
  <2>5. Knows("count", j) /\ Sums("count", j)
    BY <1>1, <2>1, <2>4 DEF Knows, Sums, Repairing, Locked
  <2> QED
    BY <1>1, <2>3, <2>4, <2>5, Reads DEF Places
<1>5. CASE CountSales(p)
  <2>1. at[p] = "count" /\ job[p].row = stmt /\ ~Locked(stmt) /\ job[p].sum = Approved
    BY <1>1, <1>5 DEF CountSales, Knows, Sums
  <2>2. PICK j \in JobType : /\ j = [job[p] EXCEPT !.count = Cardinality(Counted)]
                             /\ j.count = Cardinality(Counted)
                             /\ j.sum = Approved /\ j.row = stmt
    BY <1>1, <1>2, <2>1, WithCount
  <2>3. Knows("upsert", j) /\ Sums("upsert", j)
    BY <1>1, <2>1, <2>2 DEF Knows, Sums, Repairing, Locked
  <2> QED
    BY <1>1, <1>5, <2>2, <2>3, Reads DEF Places, CountSales
<1>6. CASE Snapshot(p)
  <2>1. at[p] = "snapshot"
    BY <1>6 DEF Snapshot
  <2>2. PICK j \in JobType : /\ j = [NoJob EXCEPT !.doors = Listed]
                             /\ j.doors = Listed
    BY <1>1, <1>2, WithDoors
  <2>3. Knows("lock", j) /\ Sums("lock", j)
    BY <1>1, <2>1, <2>2 DEF Knows, Sums, Repairing
  <2> QED
    BY <1>1, <1>6, <2>2, <2>3, Reads DEF Places, Snapshot
<1>7. CASE ReadBack(p)
  <2>1. at[p] = "readback"
    BY <1>7 DEF ReadBack
  <2>2. PICK j \in JobType : j = [NoJob EXCEPT !.row = stmt] /\ j.row = stmt
    BY <1>1, WithRow
  <2>3. Knows("hold", j) /\ Sums("hold", j)
    BY <1>1, <2>1, <2>2 DEF Knows, Sums, Repairing
  <2> QED
    BY <1>1, <1>7, <2>2, <2>3, Reads DEF Places, ReadBack
<1>8. CASE Apply(p)
  <2>1. at[p] = "apply" /\ stmt.status = "FINALIZED"
    BY <1>1, <1>8 DEF Apply, Knows
  <2>2. PICK j \in JobType : j = [NoJob EXCEPT !.row = stmt] /\ j.row = stmt
    BY <1>1, WithRow
  <2>3. Knows("applySum", j) /\ Sums("applySum", j)
    BY <1>1, <2>1, <2>2 DEF Knows, Sums, Repairing
  <2> QED
    BY <1>1, <1>8, <2>1, <2>2, <2>3, Reads DEF Places, Apply
<1>9. CASE ApplySum(p)
  <2>1. at[p] = "applySum" /\ stmt.status = "FINALIZED" /\ job[p].row = stmt
    BY <1>1, <1>9 DEF ApplySum, Knows
  <2>2. PICK j \in JobType : /\ j = [job[p] EXCEPT !.sum = Approved]
                             /\ j.sum = Approved /\ j.row = stmt
    BY <1>1, <1>2, <2>1, WithSum
  <2>3. Knows("applyWrite", j) /\ Sums("applyWrite", j)
    BY <1>1, <2>1, <2>2 DEF Knows, Sums, Repairing
  <2> QED
    BY <1>1, <1>9, <2>2, <2>3, Reads DEF Places, ApplySum
<1> QED
  BY <1>3, <1>4, <1>5, <1>6, <1>7, <1>8, <1>9

-----------------------------------------------------------------------------
(* What the writes make of the row.                                        *)

\* A recalculation leaves an OPEN row with the amount of the moment.
LEMMA UpsertRow ==
  ASSUME StmtInv, NEW p \in Procs, Upsert(p)
  PROVE  /\ ~Locked(stmt) /\ stmt' \in RowType /\ stmt'.status = "OPEN"
         /\ stmt'.gross = Cardinality(Counted)
         /\ stmt'.final = stmt'.gross + Approved
<1>1. /\ at[p] = "upsert" /\ stmt \in RowType /\ job[p] \in JobType
      /\ Knows("upsert", job[p]) /\ Sums("upsert", job[p])
  BY DEF StmtInv, TablesOK, RequestsOK, Upsert
<1>2. /\ ~Locked(stmt) /\ job[p].row = stmt
      /\ job[p].count = Cardinality(Counted) /\ job[p].sum = Approved
  BY <1>1 DEF Knows, Sums
<1>3. PICK g \in Doors, m \in Extras :
        g = Cardinality(Counted) /\ m = Approved
  BY WhatCounts
<1>4. stmt' = Priced(stmt, g, m)
  BY <1>2, <1>3 DEF Upsert
<1>5. /\ Priced(stmt, g, m) \in RowType
      /\ Priced(stmt, g, m).status =
           IF stmt.status = "none" THEN "OPEN" ELSE stmt.status
      /\ Priced(stmt, g, m).gross = g /\ Priced(stmt, g, m).final = g + m
  BY <1>1, PricedRow
<1>6. stmt.status \in {"none", "OPEN"}
  BY <1>1, <1>2 DEF Locked, RowType
<1> QED
  BY <1>2, <1>3, <1>4, <1>5, <1>6

\* The freeze keeps the amount and takes the doors.
LEMMA LockRow ==
  ASSUME StmtInv, NEW p \in Procs, Lock(p)
  PROVE  /\ stmt.status \in {"OPEN", "FINALIZED"}
         /\ ~Locked(stmt) => stmt.gross = Cardinality(Counted)
         /\ stmt' \in RowType /\ stmt'.status = "FINALIZED"
         /\ stmt'.gross = stmt.gross /\ stmt'.final = stmt.final
         /\ stmt'.doors = Listed
<1>1. /\ at[p] = "lock" /\ stmt \in RowType /\ Knows("lock", job[p])
  BY DEF StmtInv, TablesOK, Lock
<1>2. PICK d \in SUBSET Sales : d = Listed /\ job[p].doors = d
  BY <1>1, WhatCounts DEF Knows
<1>3. stmt' = [stmt EXCEPT !.status = "FINALIZED", !.doors = d]
  BY <1>2 DEF Lock
<1>4. /\ stmt' \in RowType /\ stmt'.status = "FINALIZED"
      /\ stmt'.gross = stmt.gross /\ stmt'.final = stmt.final /\ stmt'.doors = d
  BY <1>1, <1>3 DEF RowType
<1> QED
  BY <1>1, <1>2, <1>4 DEF Knows

\* Reopening and paying move the status and nothing else.
LEMMA StatusRow ==
  ASSUME StmtInv, NEW p \in Procs, WriteOpen(p) \/ WritePaid(p) \/ PayWeek(p)
  PROVE  /\ stmt.status \in {"OPEN", "FINALIZED"}
         /\ WriteOpen(p) \/ stmt.status = "FINALIZED"
         /\ stmt' \in RowType
         /\ stmt'.status = IF WriteOpen(p) THEN "OPEN" ELSE "PAID"
         /\ stmt'.gross = stmt.gross /\ stmt'.final = stmt.final
<1>1. stmt \in RowType /\ Knows(at[p], job[p])
  BY DEF StmtInv, TablesOK
<1>2. CASE WriteOpen(p)
  <2>1. stmt' = [stmt EXCEPT !.status = "OPEN"] /\ at[p] = "reopen"
    BY <1>2 DEF WriteOpen
  <2>2. /\ stmt' \in RowType /\ stmt'.status = "OPEN"
        /\ stmt'.gross = stmt.gross /\ stmt'.final = stmt.final
    BY <1>1, <2>1 DEF RowType
  <2> QED
    BY <1>1, <1>2, <2>1, <2>2 DEF Knows
<1>3. CASE ~WriteOpen(p)
  <2>1. stmt' = [stmt EXCEPT !.status = "PAID"] /\ stmt.status = "FINALIZED"
    BY <1>1, <1>3 DEF WritePaid, PayWeek, Knows
  <2>2. /\ stmt' \in RowType /\ stmt'.status = "PAID"
        /\ stmt'.gross = stmt.gross /\ stmt'.final = stmt.final
    BY <1>1, <2>1 DEF RowType
  <2> QED
    BY <1>3, <2>1, <2>2
<1> QED
  BY <1>2, <1>3

\* The batch closeout prices and locks in one statement.
LEMMA CloseRow ==
  ASSUME StmtInv, NEW p \in Procs, CloseWeek(p)
  PROVE  /\ ~Locked(stmt) /\ stmt' \in RowType /\ stmt'.status = "FINALIZED"
         /\ stmt'.gross = Cardinality(Counted) /\ stmt'.doors = Listed
         /\ stmt'.final = stmt'.gross + Approved
<1>1. stmt \in RowType /\ stmt.status = "OPEN"
  BY DEF StmtInv, TablesOK, CloseWeek
<1>2. PICK g \in Doors, m \in Extras, d \in SUBSET Sales :
        g = Cardinality(Counted) /\ m = Approved /\ d = Listed
  BY WhatCounts
<1>3. PICK r \in RowType : /\ r = Priced(stmt, g, m)
                           /\ r.gross = g /\ r.final = g + m
  BY <1>1, PricedRow
<1>4. stmt' = [r EXCEPT !.status = "FINALIZED", !.doors = d]
  BY <1>2, <1>3 DEF CloseWeek
<1>5. /\ stmt' \in RowType /\ stmt'.status = "FINALIZED"
      /\ stmt'.gross = r.gross /\ stmt'.final = r.final /\ stmt'.doors = d
  BY <1>4 DEF RowType
<1> QED
  BY <1>1, <1>2, <1>3, <1>5 DEF Locked

\* An adjustment of a FINALIZED row moves its amount, not its gross.
LEMMA ApplyRow ==
  ASSUME StmtInv, NEW p \in Procs, ApplyWrite(p)
  PROVE  /\ stmt.status = "FINALIZED"
         /\ stmt' \in RowType /\ stmt'.status = "FINALIZED"
         /\ stmt'.gross = stmt.gross /\ stmt'.final = stmt'.gross + Approved
<1>1. /\ at[p] = "applyWrite" /\ stmt \in RowType
      /\ Knows("applyWrite", job[p]) /\ Sums("applyWrite", job[p])
  BY DEF StmtInv, TablesOK, ApplyWrite
<1>2. job[p].row = stmt /\ stmt.status = "FINALIZED" /\ job[p].sum = Approved
  BY <1>1 DEF Knows, Sums
<1>3. PICK m \in Extras : m = Approved
  BY WhatCounts
<1>4. PICK f \in Amount : f = stmt.gross + m
  BY <1>1, Counts DEF RowType
<1>5. stmt' = [stmt EXCEPT !.adj = m, !.final = f]
  BY <1>2, <1>3, <1>4 DEF ApplyWrite
<1>6. /\ stmt' \in RowType /\ stmt'.status = stmt.status
      /\ stmt'.gross = stmt.gross /\ stmt'.final = f
  BY <1>1, <1>5 DEF RowType
<1> QED
  BY <1>2, <1>3, <1>4, <1>6

-----------------------------------------------------------------------------
(* The steps that write.                                                   *)

\* A step of the only request is judged by where it leads.
LEMMA Writes ==
  ASSUME OneProc, NEW p \in Procs, NEW where, NEW what,
         RequestsOK', at'[p] = where, job'[p] = what, TablesOK', Blank',
         Knows(where, what)', Sums(where, what)'
  PROVE  StmtInv'
<1>1. Knows(at[p], job[p])'
  BY DEF Knows
<1>2. Sums(at[p], job[p])'
  BY DEF Sums
<1> QED
  BY <1>1, <1>2, Alone

\* The row is written, by a request that then goes on or is over.
LEMMA RowWrites ==
  ASSUME OneProc, StmtInv, NEW p \in Procs,
         Upsert(p) \/ Lock(p) \/ WriteOpen(p) \/ WritePaid(p) \/ ApplyWrite(p)
  PROVE  StmtInv'
<1>1. /\ UNCHANGED <<sale, pays, adj, held>> /\ TablesOK /\ RequestsOK /\ Blank
      /\ Knows(at[p], job[p]) /\ Sums(at[p], job[p])
  BY DEF StmtInv, Upsert, Lock, WriteOpen, WritePaid, ApplyWrite
<1>2. Counted' = Counted /\ Listed' = Listed /\ Approved' = Approved
  BY <1>1 DEF Counted, Listed, Qualified, Approved
<1>3. NoJob \in JobType
  BY NoJobType
<1>4. stmt' \in RowType /\ stmt'.status # "none"
  BY UpsertRow, LockRow, StatusRow, ApplyRow
<1>5. TablesOK' /\ Blank'
  BY <1>1, <1>4 DEF TablesOK, Blank
<1>6. CASE Upsert(p)
  <2>1. PICK where \in {"snapshot", "idle"} : Goes(p, where, NoJob)
    BY <1>6 DEF Upsert, Finishes
  <2>2. RequestsOK' /\ at'[p] = where /\ job'[p] = NoJob /\ crashes' = crashes
    BY <1>1, <1>3, <2>1, Going DEF Places
  <2>3. /\ stmt'.status = "OPEN" /\ stmt'.gross = Cardinality(Counted)
        /\ stmt'.final = stmt'.gross + Approved
    BY <1>6, UpsertRow
  <2>4. Knows(where, NoJob)'
    BY <1>2, <2>3 DEF Knows
  <2>5. Sums(where, NoJob)'
    BY <1>2, <2>3 DEF Sums, AddsUp, Repairing
  <2> QED
    BY <1>5, <2>2, <2>4, <2>5, Writes
<1>7. CASE Lock(p) \/ WriteOpen(p) \/ WritePaid(p)
  <2>1. PICK where \in {"readback", "idle"} :
          Goes(p, where, NoJob) /\ (where = "readback" \/ WriteOpen(p))
    BY <1>7 DEF Lock, WriteOpen, WritePaid, Finishes
  <2>2. RequestsOK' /\ at'[p] = where /\ job'[p] = NoJob /\ crashes' = crashes
    BY <1>1, <1>3, <2>1, Going DEF Places
  <2>3. /\ stmt.status \in {"OPEN", "FINALIZED"}
        /\ stmt'.gross = stmt.gross /\ stmt'.final = stmt.final
        /\ WriteOpen(p) => stmt'.status = "OPEN"
    BY <1>7, LockRow, StatusRow
  <2>4. at[p] \notin Repairing /\ stmt.status # "none"
    BY <1>7, <2>3 DEF Lock, WriteOpen, WritePaid, Repairing
  <2>5. Knows(where, NoJob)'
    BY DEF Knows
  <2>6. Sums(where, NoJob)'
    BY <1>1, <1>2, <2>1, <2>2, <2>3, <2>4 DEF Sums, AddsUp, Repairing
  <2> QED
    BY <1>5, <2>2, <2>5, <2>6, Writes
<1>8. CASE ApplyWrite(p)
  <2>1. RequestsOK' /\ at'[p] = "idle" /\ job'[p] = NoJob /\ crashes' = crashes
    BY <1>1, <1>3, <1>8, Going DEF Places, ApplyWrite, Finishes
  <2>2. stmt'.status = "FINALIZED" /\ stmt'.final = stmt'.gross + Approved
    BY <1>8, ApplyRow
  <2>3. Knows("idle", NoJob)'
    BY DEF Knows
  <2>4. Sums("idle", NoJob)'
    BY <1>2, <2>2 DEF Sums, AddsUp
  <2> QED
    BY <1>5, <2>1, <2>3, <2>4, Writes
<1> QED
  BY <1>6, <1>7, <1>8

\* What the batch does in one transaction.
LEMMA WeekWrites ==
  ASSUME OneProc, StmtInv, NEW p \in Procs, CloseWeek(p) \/ PayWeek(p)
  PROVE  StmtInv'
<1>1. /\ UNCHANGED <<sale, pays, adj, at, job, crashes>> /\ TablesOK /\ RequestsOK /\ Blank
      /\ at[p] = "idle" /\ Sums("idle", job[p])
  BY DEF StmtInv, CloseWeek, PayWeek
<1>2. Counted' = Counted /\ Listed' = Listed /\ Approved' = Approved
  BY <1>1 DEF Counted, Listed, Qualified, Approved
<1>3. stmt' \in RowType /\ stmt'.status \in {"FINALIZED", "PAID"}
  <2>1. CASE CloseWeek(p)
    BY <2>1, CloseRow
  <2>2. CASE PayWeek(p)
    <3>1. ~WriteOpen(p)
      BY <1>1 DEF WriteOpen
    <3> QED
      BY <2>2, <3>1, StatusRow
  <2> QED
    BY <2>1, <2>2
<1>4. held' = HeldAfter(stmt'.final)
  <2>1. CASE CloseWeek(p)
    BY <2>1 DEF CloseWeek
  <2>2. CASE PayWeek(p)
    BY <2>2, StatusRow DEF PayWeek
  <2> QED
    BY <2>1, <2>2
<1>5. held' \in Amount /\ (stmt'.final > 0 => held' > 0)
  <2>1. PICK f \in Amount : f = stmt'.final
    BY <1>3 DEF RowType
  <2>2. held' \in {f, held} /\ (held = 0 => held' = f) /\ (held # 0 => held' = held)
    BY <1>4, <2>1 DEF HeldAfter
  <2>3. f \in Nat /\ held \in Nat /\ held \in Amount
    BY <1>1, <2>1, Counts DEF TablesOK
  <2>4. f > 0 => held' > 0
    BY <2>2, <2>3
  <2> QED
    BY <2>1, <2>2, <2>3, <2>4
<1>6. TablesOK' /\ Blank'
  BY <1>1, <1>3, <1>5 DEF TablesOK, Blank
<1>7. RequestsOK'
  BY <1>1 DEF RequestsOK
<1>8. crashes' = 0 => stmt'.final = stmt'.gross + Approved
  <2>1. CASE CloseWeek(p)
    BY <2>1, CloseRow
  <2>2. CASE PayWeek(p)
    <3>1. stmt'.gross = stmt.gross /\ stmt'.final = stmt.final /\ stmt.status # "none"
      BY <2>2, StatusRow
    <3> QED
      BY <1>1, <3>1 DEF Sums, AddsUp, Repairing
  <2> QED
    BY <2>1, <2>2
<1>9. Knows("idle", job[p])'
  BY DEF Knows
<1>10. Sums("idle", job[p])'
  BY <1>2, <1>5, <1>8 DEF Sums, AddsUp
<1>11. Knows(at[p], job[p])' /\ Sums(at[p], job[p])'
  BY <1>1, <1>9, <1>10
<1> QED
  BY <1>6, <1>7, <1>11, Alone

\* After a sale is written its week is about to be repriced.
LEMMA SaleWrites ==
  ASSUME OneProc, StmtInv, NEW p \in Procs, WriteSale(p)
  PROVE  StmtInv'
<1>1. /\ UNCHANGED <<pays, adj, stmt, held>> /\ TablesOK /\ RequestsOK /\ Blank
      /\ at[p] = "sale" /\ Knows("sale", job[p]) /\ Sums("sale", job[p])
  BY DEF StmtInv, WriteSale
<1>2. sale' \in [Sales -> {"PENDING", "QUALIFIED", "REVERSED"}]
  <2>1. PICK to \in {"PENDING", "QUALIFIED", "REVERSED"} : to = job[p].to
    BY <1>1 DEF Knows
  <2>2. sale' = [sale EXCEPT ![job[p].for] = to]
    BY <2>1 DEF WriteSale
  <2> QED
    BY <1>1, <2>2 DEF TablesOK
<1>3. TablesOK' /\ Blank'
  BY <1>1, <1>2 DEF TablesOK, Blank
<1>4. PICK where \in {"check", "idle"} : Goes(p, where, NoJob)
  BY DEF WriteSale, Finishes
<1>5. RequestsOK' /\ at'[p] = where /\ job'[p] = NoJob /\ crashes' = crashes
  BY <1>1, <1>4, NoJobType, Going DEF Places
<1>6. Approved' = Approved
  BY <1>1 DEF Approved
<1>7. Knows(where, NoJob)'
  BY DEF Knows
<1>8. Sums(where, NoJob)'
  BY <1>1, <1>5, <1>6 DEF Sums, AddsUp, Repairing
<1> QED
  BY <1>3, <1>5, <1>7, <1>8, Writes

\* The install hold moves between two requests, when no request knows a count.
LEMMA InstallHoldMoves ==
  ASSUME OneProc, StmtInv, NEW p \in Procs, HoldMoves(p)
  PROVE  StmtInv'
<1>1. /\ UNCHANGED <<sale, adj, stmt, held, at, job, crashes>>
      /\ TablesOK /\ RequestsOK /\ Blank /\ at[p] = "idle" /\ Sums("idle", job[p])
  BY DEF StmtInv, HoldMoves
<1>2. pays' \in [Sales -> {"sold", "held", "here", "later"}]
  BY <1>1 DEF HoldMoves, TablesOK
<1>3. TablesOK' /\ Blank' /\ RequestsOK'
  BY <1>1, <1>2 DEF TablesOK, Blank, RequestsOK
<1>4. Approved' = Approved
  BY <1>1 DEF Approved
<1>5. Knows("idle", job[p])'
  BY DEF Knows
<1>6. Sums("idle", job[p])'
  BY <1>1, <1>4 DEF Sums, AddsUp, Repairing
<1>7. Knows(at[p], job[p])' /\ Sums(at[p], job[p])'
  BY <1>1, <1>5, <1>6
<1> QED
  BY <1>3, <1>7, Alone

\* The hold is recorded for what the row says now.
LEMMA HoldWrites ==
  ASSUME OneProc, StmtInv, NEW p \in Procs, RecordHold(p)
  PROVE  StmtInv'
<1>1. /\ UNCHANGED <<sale, pays, adj, stmt>> /\ TablesOK /\ RequestsOK /\ Blank
      /\ at[p] = "hold" /\ Knows("hold", job[p]) /\ Sums("hold", job[p])
  BY DEF StmtInv, RecordHold
<1>2. held' = HeldAfter(stmt.final) /\ stmt \in RowType /\ held \in Amount
  BY <1>1 DEF RecordHold, Knows, TablesOK
<1>3. held' \in Amount /\ (stmt'.final > 0 => held' > 0)
  <2>1. PICK f \in Amount : f = stmt.final
    BY <1>2 DEF RowType
  <2>2. held' \in {f, held} /\ (held = 0 => held' = f) /\ (held # 0 => held' = held)
    BY <1>2, <2>1 DEF HeldAfter
  <2>3. f \in Nat /\ held \in Nat
    BY <1>2, <2>1, Counts
  <2>4. f > 0 => held' > 0
    BY <2>2, <2>3
  <2>5. stmt'.final = f
    BY <1>1, <2>1
  <2> QED
    BY <1>2, <2>2, <2>4, <2>5
<1>4. TablesOK' /\ Blank'
  BY <1>1, <1>3 DEF TablesOK, Blank
<1>5. RequestsOK' /\ at'[p] = "idle" /\ job'[p] = NoJob /\ crashes' = crashes
  BY <1>1, NoJobType, Going DEF Places, RecordHold, Finishes
<1>6. Approved' = Approved
  BY <1>1 DEF Approved
<1>7. Knows("idle", NoJob)'
  BY DEF Knows
<1>8. Sums("idle", NoJob)'
  BY <1>1, <1>3, <1>5, <1>6 DEF Sums, AddsUp, Repairing
<1> QED
  BY <1>4, <1>5, <1>7, <1>8, Writes

\* The amount is the sum of the same adjustments if no decision was written.
LEMMA SameApproved ==
  ASSUME NEW a \in Adjustments, NEW to, adj' = [adj EXCEPT ![a] = to],
         adj \in [Adjustments -> {"none", "PENDING", "APPROVED", "REJECTED"}],
         adj[a] # "APPROVED", to # "APPROVED"
  PROVE  Approved' = Approved
<1>1. \A b \in Adjustments : adj'[b] = "APPROVED" <=> adj[b] = "APPROVED"
  OBVIOUS
<1>2. {b \in Adjustments : adj'[b] = "APPROVED"} =
        {b \in Adjustments : adj[b] = "APPROVED"}
  BY <1>1
<1> QED
  BY <1>2 DEF Approved

\* A new adjustment counts for nothing until it is approved.
LEMMA AdjustmentWrites ==
  ASSUME OneProc, StmtInv, NEW p \in Procs, CreateAdjustment(p)
  PROVE  StmtInv'
<1>1. /\ UNCHANGED <<sale, pays, stmt, held, at, job, crashes>>
      /\ TablesOK /\ RequestsOK /\ at[p] = "idle" /\ Sums("idle", job[p])
      /\ stmt.status \in {"OPEN", "FINALIZED"}
  BY DEF StmtInv, CreateAdjustment
<1>2. PICK a \in Adjustments : adj[a] = "none" /\ adj' = [adj EXCEPT ![a] = "PENDING"]
  BY DEF CreateAdjustment
<1>3. Approved' = Approved
  BY <1>1, <1>2, SameApproved DEF TablesOK
<1>4. TablesOK' /\ Blank' /\ RequestsOK'
  BY <1>1, <1>2 DEF TablesOK, Blank, RequestsOK
<1>5. Knows("idle", job[p])'
  BY DEF Knows
<1>6. Sums("idle", job[p])'
  BY <1>1, <1>3 DEF Sums, AddsUp, Repairing
<1>7. Knows(at[p], job[p])' /\ Sums(at[p], job[p])'
  BY <1>1, <1>5, <1>6
<1> QED
  BY <1>4, <1>7, Alone

\* An approval is followed by the repair its week needs.
LEMMA DecisionWrites ==
  ASSUME OneProc, StmtInv, NEW p \in Procs, Decide(p)
  PROVE  StmtInv'
<1>1. /\ UNCHANGED <<sale, pays, stmt, held>> /\ TablesOK /\ RequestsOK /\ Blank
      /\ at[p] = "decide" /\ Knows("decide", job[p]) /\ Sums("decide", job[p])
  BY DEF StmtInv, Decide
<1>2. PICK a \in Adjustments, to \in {"APPROVED", "REJECTED"} :
        /\ a = job[p].for /\ to = job[p].to /\ adj[a] = "PENDING"
        /\ job[p].row = stmt
        /\ to = "APPROVED" => stmt.status # "PAID"
  BY <1>1 DEF Knows
<1>3. adj' = [adj EXCEPT ![a] = to]
  BY <1>2 DEF Decide
<1>4. stmt \in RowType /\ stmt.status # "none"
  BY <1>1, <1>2 DEF TablesOK, Blank
<1>5. TablesOK' /\ Blank'
  BY <1>1, <1>3, <1>4 DEF TablesOK, Blank
<1>6. PICK where \in {"apply", "check", "idle"} :
        /\ Goes(p, where, NoJob)
        /\ where = "apply" => stmt.status = "FINALIZED"
        /\ where = "check" => ~Locked(stmt)
        /\ where = "idle" => to = "REJECTED"
  <2>1. stmt.status \in {"OPEN", "FINALIZED", "PAID"}
    BY <1>4 DEF RowType
  <2>2. PICK where \in {"apply", "check", "idle"} :
          /\ where = AfterDecision(job[p])
          /\ where = "apply" => stmt.status = "FINALIZED"
          /\ where = "check" => stmt.status = "OPEN"
          /\ where = "idle" => to = "REJECTED"
    BY <1>2, <2>1 DEF AfterDecision
  <2> QED
    BY <2>2 DEF Decide, Locked
<1>7. RequestsOK' /\ at'[p] = where /\ job'[p] = NoJob /\ crashes' = crashes
  BY <1>1, <1>6, NoJobType, Going DEF Places
<1>8. where = "idle" => Approved' = Approved
  BY <1>1, <1>2, <1>3, <1>6, SameApproved DEF TablesOK
<1>9. Knows(where, NoJob)'
  BY <1>1, <1>6 DEF Knows
<1>10. Sums(where, NoJob)'
  BY <1>1, <1>6, <1>7, <1>8 DEF Sums, AddsUp, Repairing, Locked
<1> QED
  BY <1>5, <1>7, <1>9, <1>10, Writes

\* A request that dies ends what is claimed about the amounts.
LEMMA CrashWrites ==
  ASSUME OneProc, StmtInv, NEW p \in Procs, Crash(p)
  PROVE  StmtInv'
<1>1. UNCHANGED <<sale, pays, adj, stmt, held>> /\ TablesOK /\ RequestsOK /\ Blank
  BY DEF StmtInv, Crash, tables
<1>2. crashes \in Nat /\ crashes' = crashes + 1 /\ crashes' \in 0..CrashBudget
  BY <1>1, StatementsAssumption DEF Crash, RequestsOK
<1>3. TablesOK' /\ Blank'
  BY <1>1 DEF TablesOK, Blank
<1>4. RequestsOK' /\ at'[p] = "idle" /\ job'[p] = NoJob
  BY <1>1, <1>2, NoJobType DEF Crash, RequestsOK, Places
<1>5. Knows("idle", NoJob)'
  BY DEF Knows
<1>6. Sums("idle", NoJob)'
  BY <1>2 DEF Sums
<1> QED
  BY <1>3, <1>4, <1>5, <1>6, Writes

-----------------------------------------------------------------------------
(* The invariant holds.                                                    *)

LEMMA InitHolds ==
  Init => StmtInv
<1> SUFFICES ASSUME Init PROVE StmtInv
  OBVIOUS
<1>1. TablesOK /\ RequestsOK /\ Blank
  BY NoJobType, Counts, StatementsAssumption
     DEF Init, TablesOK, RequestsOK, Blank, Places
<1>2. stmt.status = "none"
  BY DEF Init, NoRow
<1>3. ASSUME NEW p \in Procs PROVE Knows(at[p], job[p]) /\ Sums(at[p], job[p])
  <2>1. at[p] = "idle"
    BY DEF Init
  <2>2. Knows("idle", job[p]) /\ Sums("idle", job[p])
    BY <1>2 DEF Knows, Sums
  <2> QED
    BY <2>1, <2>2
<1> QED
  BY <1>1, <1>3 DEF StmtInv

LEMMA StepHolds ==
  ASSUME OneProc
  PROVE  StmtInv /\ [Next]_vars => StmtInv'
<1> SUFFICES ASSUME StmtInv, [Next]_vars PROVE StmtInv'
  OBVIOUS
<1>1. CASE Next
  <2> PICK p \in Procs :
        \/ SaleRequest(p)    \/ WriteSale(p)     \/ HoldMoves(p)
        \/ Refresh(p)        \/ CheckOpen(p)
        \/ SumAdjustments(p) \/ CountSales(p)    \/ Upsert(p)       \/ Finalize(p)
        \/ Snapshot(p)       \/ Lock(p)          \/ Reopen(p)       \/ WriteOpen(p)
        \/ MarkPaid(p)       \/ WritePaid(p)     \/ ReadBack(p)     \/ EnsureHold(p)
        \/ RecordHold(p)     \/ CloseWeek(p)     \/ PayWeek(p)
        \/ CreateAdjustment(p) \/ DecideRequest(p) \/ Decide(p)
        \/ Apply(p)          \/ ApplySum(p)      \/ ApplyWrite(p)   \/ Crash(p)
    BY <1>1 DEF Next
  <2> QED
    BY FreeSteps, ReadSteps, RowWrites, WeekWrites, SaleWrites, InstallHoldMoves, HoldWrites,
       AdjustmentWrites, DecisionWrites, CrashWrites
<1>2. CASE UNCHANGED vars
  <2>1. UNCHANGED <<sale, pays, adj, stmt, held, at, job, crashes>>
    BY <1>2 DEF vars, tables
  <2>2. TablesOK' /\ RequestsOK' /\ Blank'
    BY <2>1 DEF StmtInv, TablesOK, RequestsOK, Blank
  <2>3. Counted' = Counted /\ Listed' = Listed /\ Approved' = Approved
    BY <2>1 DEF Counted, Listed, Qualified, Approved
  <2>4. ASSUME NEW p \in Procs
        PROVE  Knows(at[p], job[p])' /\ Sums(at[p], job[p])'
    <3>1. Knows(at[p], job[p]) /\ Sums(at[p], job[p])
      BY DEF StmtInv
    <3>2. Knows(at[p], job[p])'
      BY <2>1, <2>3, <3>1 DEF Knows, Locked
    <3>3. Sums(at[p], job[p])'
      BY <2>1, <2>3, <3>1 DEF Sums, AddsUp, Locked
    <3> QED
      BY <3>2, <3>3
  <2> QED
    BY <2>2, <2>4 DEF StmtInv
<1> QED
  BY <1>1, <1>2

\* The requests of one process never act on what has changed since they read it,
\* and between two of them nothing is left half done unless one has died.
THEOREM StatementInvariant ==
  ASSUME OneProc
  PROVE  Spec => []StmtInv
  BY InitHolds, StepHolds, PTL DEF Spec

-----------------------------------------------------------------------------
(* What follows from it.                                                   *)

\* "Approval always makes final = gross + sum(approved) hold" (decideAdjustment):
\* the amount of a statement no request is about is the sum of its sales and
\* its approved adjustments, whatever was locked, reopened, repriced or paid.
THEOREM AmountAddsUpCorrect ==
  ASSUME OneProc
  PROVE  Spec => []AmountAddsUp
<1>1. StmtInv => AmountAddsUp
  <2> SUFFICES ASSUME StmtInv, Calm, stmt.status # "none" PROVE AddsUp
    BY TypesHold DEF StmtInv, AmountAddsUp, AddsUp
  <2>1. PICK p \in Procs : at[p] = "idle" /\ Sums(at[p], job[p])
    BY DEF OneProc, StmtInv, Calm
  <2>2. Sums("idle", job[p])
    BY <2>1
  <2> QED
    BY <2>2 DEF Sums, Repairing, Calm
<1> QED
  BY <1>1, StatementInvariant, PTL

\* A statement that is PAID with money in it has its reserve hold, whether the
\* hold was recorded at the freeze or only at the payment (transitionStatement,
\* batchTransitionWeek, recordWeeklyHold).
THEOREM PaidIsHeldCorrect ==
  ASSUME OneProc
  PROVE  Spec => []PaidIsHeld
<1>1. StmtInv => PaidIsHeld
  <2> SUFFICES ASSUME StmtInv, Calm, stmt.status = "PAID", stmt.final > 0
               PROVE  held > 0
    BY DEF PaidIsHeld
  <2>1. PICK p \in Procs : at[p] = "idle" /\ Sums(at[p], job[p])
    BY DEF OneProc, StmtInv, Calm
  <2>2. Sums("idle", job[p])
    BY <2>1
  <2> QED
    BY <2>2 DEF Sums, Calm
<1> QED
  BY <1>1, StatementInvariant, PTL

\* No other step touches the row.
LEMMA RowWriters ==
  ASSUME [Next]_vars, stmt' # stmt
  PROVE  \E p \in Procs : \/ Upsert(p) \/ Lock(p) \/ WriteOpen(p) \/ WritePaid(p)
                          \/ CloseWeek(p) \/ PayWeek(p) \/ ApplyWrite(p)
  BY DEF Next, vars, tables, SaleRequest, WriteSale, HoldMoves, Refresh, CheckOpen,
         SumAdjustments, CountSales, Finalize, Snapshot, Reopen, MarkPaid,
         ReadBack, EnsureHold, RecordHold, CreateAdjustment, DecideRequest,
         Decide, Apply, ApplySum, Crash

\* "Locked statements are never recalculated by the ordinary path": the gross of
\* a locked week does not move and nothing touches a PAID row, however many
\* requests die half way.
THEOREM LockedIsFrozenCorrect ==
  ASSUME OneProc
  PROVE  Spec => LockedIsFrozen
<1> DEFINE Frozen == /\ Locked(stmt) /\ Locked(stmt') => stmt'.gross = stmt.gross
                     /\ stmt.status = "PAID" => stmt' = stmt
<1>1. StmtInv /\ [Next]_vars => [Frozen]_vars
  <2> SUFFICES ASSUME StmtInv, [Next]_vars, stmt' # stmt PROVE Frozen
    OBVIOUS
  <2>1. PICK p \in Procs : \/ Upsert(p) \/ Lock(p) \/ WriteOpen(p) \/ WritePaid(p)
                           \/ CloseWeek(p) \/ PayWeek(p) \/ ApplyWrite(p)
    BY RowWriters
  <2>2. CASE Upsert(p) \/ CloseWeek(p)
    <3>1. ~Locked(stmt)
      BY <2>2, UpsertRow, CloseRow
    <3> QED
      BY <3>1 DEF Locked
  <2>3. CASE Lock(p) \/ WriteOpen(p) \/ WritePaid(p) \/ PayWeek(p) \/ ApplyWrite(p)
    <3>1. stmt.status \in {"OPEN", "FINALIZED"} /\ stmt'.gross = stmt.gross
      BY <2>3, LockRow, StatusRow, ApplyRow
    <3> QED
      BY <3>1
  <2> QED
    BY <2>1, <2>2, <2>3
<1> QED
  BY <1>1, StatementInvariant, PTL DEF Spec, LockedIsFrozen

\* "recompute-before-freeze so the locked number always matches the live ledger":
\* one request or the batch, the week is locked with the amount of the sales it
\* pays at that moment, which the install hold may have changed since it was last
\* priced, and with the QUALIFIED doors of its list.
THEOREM FreezeMatchesLedgerCorrect ==
  ASSUME OneProc
  PROVE  Spec => FreezeMatchesLedger
<1> DEFINE Matches == ~Locked(stmt) /\ Locked(stmt') =>
              stmt'.gross = Cardinality(Counted) /\ stmt'.doors = Listed
<1>1. StmtInv /\ [Next]_vars => [Matches]_vars
  <2> SUFFICES ASSUME StmtInv, [Next]_vars, ~Locked(stmt), Locked(stmt')
               PROVE  stmt'.gross = Cardinality(Counted) /\ stmt'.doors = Listed
    OBVIOUS
  <2>1. PICK p \in Procs : \/ Upsert(p) \/ Lock(p) \/ WriteOpen(p) \/ WritePaid(p)
                           \/ CloseWeek(p) \/ PayWeek(p) \/ ApplyWrite(p)
    BY RowWriters
  <2>2. CASE Upsert(p)
    BY <2>2, UpsertRow DEF Locked
  <2>3. CASE Lock(p)
    BY <2>3, LockRow
  <2>4. CASE CloseWeek(p)
    BY <2>4, CloseRow
  <2>5. CASE WriteOpen(p) \/ WritePaid(p) \/ PayWeek(p) \/ ApplyWrite(p)
    BY <2>5, StatusRow, ApplyRow DEF Locked
  <2> QED
    BY <2>1, <2>2, <2>3, <2>4, <2>5
<1> QED
  BY <1>1, StatementInvariant, PTL DEF Spec, FreezeMatchesLedger

=============================================================================
