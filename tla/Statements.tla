----------------------------- MODULE Statements -----------------------------
(***************************************************************************)
(* One rep's commission statement for one week, with the sales it counts,  *)
(* its adjustments and its reserve hold: calculateOrRecalculateStatement,  *)
(* transitionStatement, batchTransitionWeek and the adjustments of         *)
(* server/commissionService.ts, recordWeeklyHold of                        *)
(* server/reserveService.ts.                                               *)
(*                                                                         *)
(* better-sqlite3 is synchronous, so a process serves one request at a     *)
(* time; but each statement of a request commits by itself, except in the  *)
(* batch closeout, and the cluster has several processes on one database.  *)
(*                                                                         *)
(* The rep has a plan with a flat rate of one unit, every adjustment is of *)
(* one unit, and the reserve holds all that is earned.  Hourly pay and the *)
(* override block are zero; REVIEW, treated as OPEN everywhere, is left    *)
(* out.  Of the dates only this remains: the week a sale was made in, and  *)
(* what the install hold (shared/commissionHold.ts) makes of its pay.  The *)
(* hold is asked where the pay is counted, and not where the doors behind  *)
(* it are listed.                                                          *)
(***************************************************************************)
EXTENDS Naturals, FiniteSets

CONSTANTS
  Procs,        \* server processes
  Sales,
  Earlier,      \* the sales of an earlier week: the others were made in this one
  Adjustments,  \* ids that commission_adjustments may hand out
  NoId,
  CrashBudget   \* bound: processes that die in the middle of a request

ASSUME StatementsAssumption ==
  /\ IsFiniteSet(Sales) /\ IsFiniteSet(Adjustments)
  /\ Earlier \subseteq Sales
  /\ NoId \notin Sales \cup Adjustments
  /\ CrashBudget \in Nat

VARIABLES
  sale,    \* commission_sales.status
  pays,    \* the week that pays it: see Counted
  adj,     \* commission_adjustments.status, "none" before the insert
  stmt,    \* the commission_statements row
  held,    \* the week's hold in reserve_entries, 0 if there is none
  at,      \* where each process is
  job,     \* what its request is about, and what it has read
  crashes

tables == <<sale, pays, adj, stmt, held>>
vars   == <<tables, at, job, crashes>>

Qualified == {s \in Sales : sale[s] = "QUALIFIED"}

\* countQualifiedSales for pay.  A sale is paid in the week of its basis ("sold":
\* the policy asks for no confirmed install, or no pending commission is linked
\* to the sale), or in the week of payable_after once the hold is over ("here" if
\* that is this week, "later" if it is not), and nowhere as long as it is held or
\* the date of its basis is missing ("held").
Counted ==
  {s \in Qualified : \/ pays[s] = "here"
                     \/ pays[s] = "sold" /\ s \notin Earlier}

\* listWeekSalesForRep, the QUALIFIED ones: the week of the basis, or of the sale
\* if that date is missing, whatever the hold says.
Listed == Qualified \ Earlier

\* sumApprovedAdjustments.
Approved == Cardinality({a \in Adjustments : adj[a] = "APPROVED"})

Amount == 0..(Cardinality(Sales) + Cardinality(Adjustments))

Row == [status : {"none", "OPEN", "FINALIZED", "PAID"},
        gross : Amount, adj : Amount, final : Amount,
        doors : SUBSET Sales]  \* contributing_sales

NoRow == [status |-> "none", gross |-> 0, adj |-> 0, final |-> 0, doors |-> {}]

Locked(s) == s.status \in {"FINALIZED", "PAID"}

NoJob == [for |-> NoId, to |-> "none", row |-> NoRow, sum |-> 0, count |-> 0,
          doors |-> {}]

TypeOK ==
  /\ sale \in [Sales -> {"PENDING", "QUALIFIED", "REVERSED"}]
  /\ pays \in [Sales -> {"sold", "held", "here", "later"}]
  /\ adj \in [Adjustments -> {"none", "PENDING", "APPROVED", "REJECTED"}]
  /\ stmt \in Row /\ held \in Amount
  /\ at \in [Procs -> {"idle", "sale", "check", "sum", "count", "upsert",
                       "snapshot", "lock", "reopen", "pay", "readback", "hold",
                       "decide", "apply", "applySum", "applyWrite"}]
  /\ job \in [Procs -> [for : Sales \cup Adjustments \cup {NoId},
                        to : {"none", "PENDING", "QUALIFIED", "REVERSED",
                              "APPROVED", "REJECTED", "FINALIZED"},
                        row : Row, sum : Amount, count : Amount,
                        doors : SUBSET Sales]]
  /\ crashes \in 0..CrashBudget

Init ==
  /\ sale = [s \in Sales |-> "PENDING"]
  /\ pays = [s \in Sales |-> "sold"]
  /\ adj = [a \in Adjustments |-> "none"]
  /\ stmt = NoRow /\ held = 0
  /\ at = [p \in Procs |-> "idle"]
  /\ job = [p \in Procs |-> NoJob]
  /\ crashes = 0

Goes(p, where, what) ==
  /\ at' = [at EXCEPT ![p] = where]
  /\ job' = [job EXCEPT ![p] = what]
  /\ crashes' = crashes

Finishes(p) == Goes(p, "idle", NoJob)

-----------------------------------------------------------------------------
(* Sales: both doors, and the reconciliation that follows a sale's write.  *)

\* assertWeekOpenForQualify stands before the write of a QUALIFIED status, and asks
\* for the week of the basis; a sale that is already QUALIFIED passes
\* (transitionSale).  A knock in a locked week books its sale PENDING instead.
SaleRequest(p) ==
  /\ at[p] = "idle"
  /\ \E s \in Sales, to \in {"PENDING", "QUALIFIED", "REVERSED"} :
       /\ to = "QUALIFIED" /\ sale[s] # "QUALIFIED" /\ s \notin Earlier => ~Locked(stmt)
       /\ Goes(p, "sale", [NoJob EXCEPT !.for = s, !.to = to])
  /\ UNCHANGED tables

\* The week of the basis is repriced, which for an earlier sale is another one.
WriteSale(p) ==
  /\ at[p] = "sale"
  /\ sale' = [sale EXCEPT ![job[p].for] = job[p].to]
  /\ IF job[p].for \in Earlier THEN Finishes(p) ELSE Goes(p, "check", NoJob)
  /\ UNCHANGED <<pays, adj, stmt, held>>

\* The install hold: confirm-install, which stamps payable_after once, and the end
\* of the hold; an approval or a dispute of the commission, or a policy that asks
\* for no confirmation; a policy that does, or a new commission of the sale.  None
\* of them reprices a week.  (A request reads the time once: a hold that ends in
\* the middle of it has ended before or after.)
HoldMoves(p) ==
  /\ at[p] = "idle"
  /\ \E s \in Sales, w \in {"sold", "held", "here", "later"} :
       /\ {pays[s], w} # {"here", "later"}
       /\ pays' = [pays EXCEPT ![s] = w]
  /\ UNCHANGED <<sale, adj, stmt, held, at, job, crashes>>

-----------------------------------------------------------------------------
(* calculateOrRecalculateStatement.                                        *)

\* Views of the week, and the first pass of the batch, recalculate freely.
Refresh(p) ==
  /\ at[p] = "idle"
  /\ Goes(p, "check", NoJob)
  /\ UNCHANGED tables

\* Mutant: the status of the row is not looked at.
CheckNothing(p) ==
  /\ at[p] = "check"
  /\ Goes(p, "sum", [job[p] EXCEPT !.row = stmt])
  /\ UNCHANGED tables

\* STATEMENT_LOCKED ends the request: every caller swallows or returns it.
CheckOpen(p) ==
  /\ at[p] = "check"
  /\ IF Locked(stmt) THEN Finishes(p)
     ELSE Goes(p, "sum", [job[p] EXCEPT !.row = stmt])
  /\ UNCHANGED tables

SumAdjustments(p) ==
  /\ at[p] = "sum"
  /\ Goes(p, "count", [job[p] EXCEPT
       !.sum = IF job[p].row.status = "none" THEN 0 ELSE Approved])
  /\ UNCHANGED tables

CountSales(p) ==
  /\ at[p] = "count"
  /\ Goes(p, "upsert", [job[p] EXCEPT !.count = Cardinality(Counted)])
  /\ UNCHANGED tables

\* The row with new amounts; a new row is OPEN, an old one keeps its status.
Priced(s, gross, sum) ==
  [s EXCEPT !.status = IF @ = "none" THEN "OPEN" ELSE @,
            !.gross = gross, !.adj = sum, !.final = gross + sum]

\* Skipped when the row read before had the same amounts; transitionStatement
\* then goes on with the freeze.
Upsert(p) ==
  /\ at[p] = "upsert"
  /\ stmt' = LET j == job[p] IN
             IF j.row.status # "none" /\ j.row = Priced(j.row, j.count, j.sum)
             THEN stmt ELSE Priced(stmt, j.count, j.sum)
  /\ IF job[p].to = "FINALIZED" THEN Goes(p, "snapshot", NoJob) ELSE Finishes(p)
  /\ UNCHANGED <<sale, pays, adj, held>>

-----------------------------------------------------------------------------
(* transitionStatement: the status is read once, and guards what follows.  *)

\* Mutant: the freeze trusts the amounts of the last view.
FinalizeUnpriced(p) ==
  /\ at[p] = "idle"
  /\ stmt.status \in {"OPEN", "FINALIZED"}
  /\ Goes(p, "snapshot", NoJob)
  /\ UNCHANGED tables

\* FINALIZE prices an OPEN statement again; a FINALIZED one is only frozen anew.
Finalize(p) ==
  /\ at[p] = "idle"
  /\ \/ /\ stmt.status = "OPEN"
        /\ Goes(p, "check", [NoJob EXCEPT !.to = "FINALIZED"])
     \/ stmt.status = "FINALIZED" /\ Goes(p, "snapshot", NoJob)
  /\ UNCHANGED tables

\* "Freeze the exact doors that composed this locked number": the doors of the
\* list, which is not asked for the hold (StatementsDoors.cfg).
Snapshot(p) ==
  /\ at[p] = "snapshot"
  /\ Goes(p, "lock", [NoJob EXCEPT !.doors = Listed])
  /\ UNCHANGED tables

Lock(p) ==
  /\ at[p] = "lock"
  /\ stmt' = [stmt EXCEPT !.status = "FINALIZED", !.doors = job[p].doors]
  /\ Goes(p, "readback", NoJob)
  /\ UNCHANGED <<sale, pays, adj, held>>

Reopen(p) ==
  /\ at[p] = "idle"
  /\ stmt.status \in {"OPEN", "FINALIZED"}
  /\ Goes(p, "reopen", NoJob)
  /\ UNCHANGED tables

WriteOpen(p) ==
  /\ at[p] = "reopen"
  /\ stmt' = [stmt EXCEPT !.status = "OPEN"]
  /\ Finishes(p)
  /\ UNCHANGED <<sale, pays, adj, held>>

MarkPaid(p) ==
  /\ at[p] = "idle"
  /\ stmt.status = "FINALIZED"
  /\ Goes(p, "pay", NoJob)
  /\ UNCHANGED tables

\* Mutant: only FINALIZE holds.
WritePaidUnheld(p) ==
  /\ at[p] = "pay"
  /\ stmt' = [stmt EXCEPT !.status = "PAID"]
  /\ Finishes(p)
  /\ UNCHANGED <<sale, pays, adj, held>>

WritePaid(p) ==
  /\ at[p] = "pay"
  /\ stmt' = [stmt EXCEPT !.status = "PAID"]
  /\ Goes(p, "readback", NoJob)
  /\ UNCHANGED <<sale, pays, adj, held>>

ReadBack(p) ==
  /\ at[p] = "readback"
  /\ Goes(p, "hold", [NoJob EXCEPT !.row = stmt])
  /\ UNCHANGED tables

\* ensureHoldsForSettledStatements: a locked week that has no hold yet.
EnsureHold(p) ==
  /\ at[p] = "idle"
  /\ Locked(stmt) /\ held = 0
  /\ Goes(p, "hold", [NoJob EXCEPT !.row = stmt])
  /\ UNCHANGED tables

\* recordWeeklyHold: one hold per week, and none for nothing.
HeldAfter(earned) == IF held = 0 THEN earned ELSE held

RecordHold(p) ==
  /\ at[p] = "hold"
  /\ held' = HeldAfter(job[p].row.final)
  /\ Finishes(p)
  /\ UNCHANGED <<sale, pays, adj, stmt>>

\* batchTransitionWeek: recompute, freeze and hold in one transaction.
CloseWeek(p) ==
  /\ at[p] = "idle"
  /\ stmt.status = "OPEN"
  /\ stmt' = [Priced(stmt, Cardinality(Counted), Approved) EXCEPT
                !.status = "FINALIZED", !.doors = Listed]
  /\ held' = HeldAfter(stmt'.final)
  /\ UNCHANGED <<sale, pays, adj, at, job, crashes>>

PayWeek(p) ==
  /\ at[p] = "idle"
  /\ stmt.status = "FINALIZED"
  /\ stmt' = [stmt EXCEPT !.status = "PAID"]
  /\ held' = HeldAfter(stmt.final)
  /\ UNCHANGED <<sale, pays, adj, at, job, crashes>>

-----------------------------------------------------------------------------
(* Adjustments.                                                            *)

\* createAdjustment.  One that slips in behind the payment stays PENDING: its
\* approval is refused.
CreateAdjustment(p) ==
  /\ at[p] = "idle"
  /\ stmt.status \in {"OPEN", "FINALIZED"}
  /\ \E a \in Adjustments :
       adj[a] = "none" /\ adj' = [adj EXCEPT ![a] = "PENDING"]
  /\ UNCHANGED <<sale, pays, stmt, held, at, job, crashes>>

DecideRequest(p) ==
  /\ at[p] = "idle"
  /\ \E a \in Adjustments, to \in {"APPROVED", "REJECTED"} :
       /\ adj[a] = "PENDING"
       /\ to = "APPROVED" => stmt.status # "PAID"
       /\ Goes(p, "decide", [NoJob EXCEPT !.for = a, !.to = to, !.row = stmt])
  /\ UNCHANGED tables

\* Mutant: a FINALIZED statement is sent to the recalculation, which refuses it.
AfterDecisionRecalculate(j) == IF j.to = "APPROVED" THEN "check" ELSE "idle"

\* A frozen amount is adjusted, an open one recalculated; what was read before
\* the decision was written chooses.
AfterDecision(j) ==
  IF j.to = "APPROVED" /\ j.row.status = "FINALIZED" THEN "apply"
  ELSE IF j.to = "APPROVED" \/ j.row.status = "OPEN" THEN "check"
  ELSE "idle"

Decide(p) ==
  /\ at[p] = "decide"
  /\ adj' = [adj EXCEPT ![job[p].for] = job[p].to]
  /\ Goes(p, AfterDecision(job[p]), NoJob)
  /\ UNCHANGED <<sale, pays, stmt, held>>

\* applyApprovedAdjustments: "Never runs on PAID".
Apply(p) ==
  /\ at[p] = "apply"
  /\ IF stmt.status = "PAID" THEN Finishes(p)
     ELSE Goes(p, "applySum", [NoJob EXCEPT !.row = stmt])
  /\ UNCHANGED tables

ApplySum(p) ==
  /\ at[p] = "applySum"
  /\ Goes(p, "applyWrite", [job[p] EXCEPT !.sum = Approved])
  /\ UNCHANGED tables

ApplyWrite(p) ==
  /\ at[p] = "applyWrite"
  /\ stmt' = [stmt EXCEPT !.adj = job[p].sum,
                          !.final = job[p].row.gross + job[p].sum]
  /\ Finishes(p)
  /\ UNCHANGED <<sale, pays, adj, held>>

-----------------------------------------------------------------------------
Crash(p) ==
  /\ at[p] # "idle"
  /\ crashes < CrashBudget /\ crashes' = crashes + 1
  /\ at' = [at EXCEPT ![p] = "idle"]
  /\ job' = [job EXCEPT ![p] = NoJob]
  /\ UNCHANGED tables

Next == \E p \in Procs :
  \/ SaleRequest(p)    \/ WriteSale(p)     \/ HoldMoves(p)
  \/ Refresh(p)        \/ CheckOpen(p)
  \/ SumAdjustments(p) \/ CountSales(p)    \/ Upsert(p)       \/ Finalize(p)
  \/ Snapshot(p)       \/ Lock(p)          \/ Reopen(p)       \/ WriteOpen(p)
  \/ MarkPaid(p)       \/ WritePaid(p)     \/ ReadBack(p)     \/ EnsureHold(p)
  \/ RecordHold(p)     \/ CloseWeek(p)     \/ PayWeek(p)
  \/ CreateAdjustment(p) \/ DecideRequest(p) \/ Decide(p)
  \/ Apply(p)          \/ ApplySum(p)      \/ ApplyWrite(p)   \/ Crash(p)

Spec == Init /\ [][Next]_vars

-----------------------------------------------------------------------------
(* Properties.                                                             *)

\* No request is in progress, and none ever died half way.
Calm == crashes = 0 /\ \A p \in Procs : at[p] = "idle"

\* "Approval always makes final = gross + sum(approved) hold"
\* (decideAdjustment), whatever was locked, reopened or repriced before.
AmountAddsUp ==
  TypeOK /\ (Calm /\ stmt.status # "none" => stmt.final = stmt.gross + Approved)

\* The same of a PAID statement, where nothing can repair it any more.
PaidAddsUp ==
  Calm /\ stmt.status = "PAID" => stmt.final = stmt.gross + Approved

\* "Locked statements are never recalculated by the ordinary path": no sale, view
\* or adjustment moves the gross of a locked week, though a process dies anywhere,
\* and a PAID one is never reopened, finalized again or adjusted either.
LockedIsFrozen ==
  [][/\ Locked(stmt) /\ Locked(stmt') => stmt'.gross = stmt.gross
     /\ stmt.status = "PAID" => stmt' = stmt]_vars

\* "recompute-before-freeze so the locked number always matches the live ledger":
\* whichever way a week is locked, its amount is that of the sales payable in it at
\* that moment, whatever hold began or ended since it was last priced, and its
\* doors are the QUALIFIED ones of its list.  (Freezing a FINALIZED week anew is
\* another matter: the doors are taken again, the amount is not.)
FreezeMatchesLedger ==
  [][~Locked(stmt) /\ Locked(stmt') =>
       stmt'.gross = Cardinality(Counted) /\ stmt'.doors = Listed]_vars

\* "Freeze the exact doors that composed this locked number" (transitionStatement),
\* "the door list shows exactly the sales the statement counted"
\* (listWeekSalesForRep).  The install hold makes it false.
DoorsAreThoseCounted ==
  [][~Locked(stmt) /\ Locked(stmt') => stmt'.doors = Counted]_vars

\* A week that settled with money in it has its hold, also when the money came
\* with an adjustment after the freeze (transitionStatement holds at both).
PaidIsHeld == Calm /\ stmt.status = "PAID" /\ stmt.final > 0 => held > 0
=============================================================================
