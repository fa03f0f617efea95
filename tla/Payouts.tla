------------------------------ MODULE Payouts -------------------------------
(***************************************************************************)
(* Paying a finalized commission statement through Stripe Connect: POST    *)
(* /api/payouts/week/pay (server/payoutRoutes.ts) over the rep_payouts     *)
(* table (server/payoutStore.ts) and the Connect webhook                   *)
(* (server/stripeConnect.ts).                                              *)
(*                                                                         *)
(* The handler walks through the week's statements; statements share       *)
(* nothing, so the state below is about one of them.  The handler awaits   *)
(* Stripe up to five times, nothing locks the statement meanwhile, and     *)
(* several requests (a double click, two owners) may be at work on it.     *)
(* Stripe answers a call at one moment and the handler resumes at a later  *)
(* one; between two awaits the event loop runs it without interruption.    *)
(***************************************************************************)
EXTENDS Naturals

CONSTANTS
  Requests,     \* pay requests that may be in progress at the same time
  FaultBudget,  \* bound: failed or lost calls, failed statements, crashes
  Blind         \* may findTransferByGroup fail when the key has expired?

ASSUME PayoutsAssumption == FaultBudget \in Nat /\ Blind \in BOOLEAN

VARIABLES
  row,      \* the rep_payouts row of the statement
  lastRow,  \* AUTOINCREMENT: the last row id used
  stmt,     \* commission_statements.status
  landed,   \* Stripe: how many transfers the statement's group holds
  clawed,   \* Stripe: the transfers that were reversed
  key,      \* Stripe: the transfer the idempotency key answers with, or 0
  stray,    \* is a createTransfer nobody waits for still on its way?
  events,   \* transfer.reversed webhooks not delivered yet
  pc,       \* where each request is
  seen,     \* r.status: the statement's status in the overview it read
  mine,     \* the id of the row it works with
  answer,   \* the transfer Stripe answered with, or 0
  faults,   \* faults so far
  alone     \* history: have no two requests been at work at once so far?

stripe   == <<landed, clawed, key, stray, events>>
requests == <<pc, seen, mine, answer>>
state    == <<row, lastRow, stmt, stripe, requests, faults>>
vars     == <<state, alone>>

NoRow == [id |-> 0, status |-> "none", transfer |-> 0]

Unsent == {"pending", "processing", "failed"}

\* The awaits of the handler, and where each resumes.
Lookups == {"lookup", "prior", "late"}
Resumes == [lookup |-> "lookedUp", prior |-> "priorKnown", late |-> "lateKnown"]

TypeOK ==
  /\ row \in [id : Nat, status : Unsent \cup {"none", "paid", "reversed"},
              transfer : Nat]
  /\ lastRow \in Nat /\ row.id <= lastRow
  /\ stmt \in {"FINALIZED", "PAID"}
  /\ landed \in Nat /\ key \in 0..landed /\ stray \in BOOLEAN
  /\ clawed \subseteq 1..landed /\ events \subseteq clawed
  /\ pc \in [Requests -> {"idle", "reconcile", "schedule", "send",
                          "sent"} \cup Lookups
                          \cup {Resumes[l] : l \in Lookups}]
  /\ seen \in [Requests -> {"FINALIZED", "PAID"}]
  /\ mine \in [Requests -> 0..lastRow]
  /\ answer \in [Requests -> 0..landed]
  /\ faults \in 0..FaultBudget
  /\ alone \in BOOLEAN

Init ==
  /\ row = NoRow /\ lastRow = 0 /\ stmt = "FINALIZED"
  /\ landed = 0 /\ clawed = {} /\ key = 0 /\ stray = FALSE /\ events = {}
  /\ pc = [r \in Requests |-> "idle"]
  /\ seen = [r \in Requests |-> "FINALIZED"]
  /\ mine = [r \in Requests |-> 0]
  /\ answer = [r \in Requests |-> 0]
  /\ faults = 0 /\ alone = TRUE

Fault == faults < FaultBudget /\ faults' = faults + 1

GoTo(r, where) == pc' = [pc EXCEPT ![r] = where]

\* The request is over: nothing it knew is used again.
Finish(r) ==
  /\ GoTo(r, "idle")
  /\ seen' = [seen EXCEPT ![r] = "FINALIZED"]
  /\ mine' = [mine EXCEPT ![r] = 0]
  /\ answer' = [answer EXCEPT ![r] = 0]

-----------------------------------------------------------------------------
(* The statements of payoutStore, each addressed to the row with one id: a *)
(* row deleted or replaced meanwhile is silently left alone.               *)

\* markPayoutPaid, whatever the row's status.
PaidRow(id, t) ==
  IF row.id = id THEN [row EXCEPT !.status = "paid", !.transfer = t] ELSE row

\* markPayoutFailed: not over a transfer id.
FailedRow(id) ==
  IF row.id = id /\ row.transfer = 0
  THEN [row EXCEPT !.status = "failed"] ELSE row

\* resetPayoutForRetry: delete a row that carries no transfer id.
ResetRow(id) ==
  IF row.id = id /\ row.transfer = 0 /\ row.status \in Unsent
  THEN NoRow ELSE row

\* safeTransition: MARK_PAID; its failure is logged and changes nothing.
MarkStatement ==
  \/ stmt' = "PAID" /\ faults' = faults
  \/ stmt' = stmt /\ Fault

-----------------------------------------------------------------------------
(* The pay request.                                                        *)

\* getWeekOverview is read once, before the first statement is looked at.
Start(r) ==
  /\ pc[r] = "idle"
  /\ GoTo(r, "reconcile")
  /\ seen' = [seen EXCEPT ![r] = stmt]
  /\ UNCHANGED <<row, lastRow, stmt, stripe, mine, answer, faults>>

\* A paid row heals its statement; a reversed one is skipped.
SkipSettled(r) ==
  /\ pc[r] = "reconcile"
  /\ row.status \in {"paid", "reversed"}
  /\ IF row.status = "paid" /\ seen[r] = "FINALIZED"
     THEN MarkStatement ELSE UNCHANGED <<stmt, faults>>
  /\ Finish(r)
  /\ UNCHANGED <<row, lastRow, stripe>>

\* Mutant: a row that cites a transfer is adopted whatever its status.
AdoptCitedAnyway(r) ==
  /\ pc[r] = "reconcile"
  /\ row.transfer # 0
  /\ row' = PaidRow(row.id, row.transfer)
  /\ MarkStatement
  /\ Finish(r)
  /\ UNCHANGED <<lastRow, stripe>>

\* A row in flight that already cites a transfer.
AdoptCited(r) ==
  /\ pc[r] = "reconcile"
  /\ row.status \in Unsent /\ row.transfer # 0
  /\ row' = PaidRow(row.id, row.transfer)
  /\ MarkStatement
  /\ Finish(r)
  /\ UNCHANGED <<lastRow, stripe>>

\* Mutant: a failed row is taken for money that never moved.
SuspectUnlessFailed(r) ==
  /\ pc[r] = "reconcile"
  /\ row.status \in {"pending", "processing"} /\ row.transfer = 0
  /\ GoTo(r, "lookup")
  /\ mine' = [mine EXCEPT ![r] = row.id]
  /\ UNCHANGED <<row, lastRow, stmt, stripe, seen, answer, faults>>

\* A row in flight without one: ask Stripe about it.
Suspect(r) ==
  /\ pc[r] = "reconcile"
  /\ row.status \in Unsent /\ row.transfer = 0
  /\ GoTo(r, "lookup")
  /\ mine' = [mine EXCEPT ![r] = row.id]
  /\ UNCHANGED <<row, lastRow, stmt, stripe, seen, answer, faults>>

\* payoutEligibility on the overview's status: the amount is positive and the
\* rep's account enabled.
PayIfEligible(r) ==
  IF seen[r] = "FINALIZED"
  THEN GoTo(r, "schedule") /\ UNCHANGED <<seen, mine, answer>>
  ELSE Finish(r)

PayAfresh(r) ==
  /\ pc[r] = "reconcile" /\ row = NoRow
  /\ PayIfEligible(r)
  /\ UNCHANGED <<row, lastRow, stmt, stripe, faults>>

\* Mutant: the lookup asks for another transfer group.
LookupElsewhere(r) ==
  /\ pc[r] \in Lookups
  /\ answer' = [answer EXCEPT ![r] = 0]
  /\ GoTo(r, Resumes[pc[r]])
  /\ UNCHANGED <<row, lastRow, stmt, stripe, seen, mine, faults>>

\* findTransferByGroup(...).catch(() => null): the newest transfer of the
\* group, reversed or not; a failed call counts as none.  Unless Blind, it does
\* not fail when it alone knows of a transfer.
Lookup(r) ==
  /\ pc[r] \in Lookups
  /\ \/ answer' = [answer EXCEPT ![r] = landed] /\ faults' = faults
     \/ /\ Blind \/ key # 0 \/ landed = 0
        /\ Fault /\ answer' = [answer EXCEPT ![r] = 0]
  /\ GoTo(r, Resumes[pc[r]])
  /\ UNCHANGED <<row, lastRow, stmt, stripe, seen, mine>>

\* Mutant: the row is adopted without a look at the answer.
AdoptAnyway(r) ==
  /\ pc[r] \in {"lookedUp", "lateKnown"}
  /\ row' = PaidRow(mine[r], answer[r])
  /\ MarkStatement
  /\ Finish(r)
  /\ UNCHANGED <<lastRow, stripe>>

\* A transfer turned up for the row at hand: adopt it.
Adopt(r) ==
  /\ pc[r] \in {"lookedUp", "lateKnown"} /\ answer[r] # 0
  /\ row' = PaidRow(mine[r], answer[r])
  /\ MarkStatement
  /\ Finish(r)
  /\ UNCHANGED <<lastRow, stripe>>

ClearForRetry(r) ==
  /\ pc[r] = "lookedUp" /\ answer[r] = 0
  /\ row' = ResetRow(mine[r])
  /\ PayIfEligible(r)
  /\ UNCHANGED <<lastRow, stmt, stripe, faults>>

\* ensureAutomaticPayoutSchedule: when it fails the statement is left as it is.
Schedule(r) ==
  /\ pc[r] = "schedule"
  /\ \/ GoTo(r, "prior") /\ UNCHANGED <<seen, mine, answer, faults>>
     \/ Fault /\ Finish(r)
  /\ UNCHANGED <<row, lastRow, stmt, stripe>>

\* createPendingPayout: the row of the statement, inserted if there is none.
Pending == IF row = NoRow
           THEN [id |-> lastRow + 1, status |-> "pending", transfer |-> 0]
           ELSE row

\* A transfer of an earlier run turned up, or the row is marked in flight.
CreateRow(r) ==
  /\ pc[r] = "priorKnown"
  /\ lastRow' = IF row = NoRow THEN lastRow + 1 ELSE lastRow
  /\ IF answer[r] # 0
     THEN /\ row' = [Pending EXCEPT !.status = "paid", !.transfer = answer[r]]
          /\ MarkStatement
          /\ Finish(r)
     ELSE /\ row' = [Pending EXCEPT !.status = "processing"]
          /\ mine' = [mine EXCEPT ![r] = Pending.id]
          /\ GoTo(r, "send")
          /\ UNCHANGED <<stmt, seen, answer, faults>>
  /\ UNCHANGED stripe

\* Stripe executes a createTransfer: the idempotency key answers with the
\* transfer it made before, if it is not older than a day.
Transfer == IF key # 0 THEN key ELSE landed + 1

Land ==
  /\ key' = Transfer
  /\ landed' = IF Transfer > landed THEN Transfer ELSE landed

Send(r) ==
  /\ pc[r] = "send"
  /\ Land
  /\ answer' = [answer EXCEPT ![r] = Transfer]
  /\ GoTo(r, "sent")
  /\ UNCHANGED <<row, lastRow, stmt, clawed, stray, events, seen, mine, faults>>

\* The call fails; what it sent may be refused, or still be on its way.
SendFails(r) ==
  /\ pc[r] = "send"
  /\ Fault
  /\ stray' \in {stray, TRUE}
  /\ GoTo(r, "late")
  /\ UNCHANGED <<row, lastRow, stmt, landed, clawed, key, events, seen, mine,
                 answer>>

\* The transfer was made, its response is lost.
ResponseLost(r) ==
  /\ pc[r] = "sent"
  /\ Fault
  /\ answer' = [answer EXCEPT ![r] = 0]
  /\ GoTo(r, "late")
  /\ UNCHANGED <<row, lastRow, stmt, stripe, seen, mine>>

Paid(r) ==
  /\ pc[r] = "sent"
  /\ row' = PaidRow(mine[r], answer[r])
  /\ MarkStatement
  /\ Finish(r)
  /\ UNCHANGED <<lastRow, stripe>>

GiveUp(r) ==
  /\ pc[r] = "lateKnown" /\ answer[r] = 0
  /\ row' = FailedRow(mine[r])
  /\ Finish(r)
  /\ UNCHANGED <<lastRow, stmt, stripe, faults>>

\* The process dies, possibly with a transfer on its way.
Crash(r) ==
  /\ pc[r] # "idle"
  /\ Fault
  /\ stray' \in {stray, stray \/ pc[r] = "send"}
  /\ Finish(r)
  /\ UNCHANGED <<row, lastRow, stmt, landed, clawed, key, events>>

Serve(r) ==
  \/ SkipSettled(r)   \/ AdoptCited(r) \/ Suspect(r)   \/ PayAfresh(r)
  \/ Lookup(r)        \/ Adopt(r)      \/ ClearForRetry(r)
  \/ Schedule(r)      \/ CreateRow(r)  \/ Send(r)      \/ SendFails(r)
  \/ ResponseLost(r)  \/ Paid(r)       \/ GiveUp(r)

-----------------------------------------------------------------------------
(* Stripe, and its webhook.                                                *)

StrayLands ==
  /\ stray /\ stray' = FALSE
  /\ Land
  /\ UNCHANGED <<row, lastRow, stmt, clawed, events, requests, faults>>

\* A day passes; no request and no call of one is that old.
KeyExpiry ==
  /\ key # 0
  /\ ~stray /\ \A r \in Requests : pc[r] = "idle"
  /\ key' = 0
  /\ UNCHANGED <<row, lastRow, stmt, landed, clawed, stray, events, requests,
                 faults>>

Reverse(t) ==
  /\ t \in 1..landed /\ t \notin clawed
  /\ clawed' = clawed \cup {t}
  /\ events' = events \cup {t}
  /\ UNCHANGED <<row, lastRow, stmt, landed, key, stray, requests, faults>>

\* processConnectWebhook: one transaction; an unmatched reversal is only logged.
Webhook(t) ==
  /\ t \in events
  /\ events' = events \ {t}
  /\ row' = IF row.transfer = t THEN [row EXCEPT !.status = "reversed"] ELSE row
  /\ UNCHANGED <<lastRow, stmt, landed, clawed, key, stray, requests, faults>>

Step ==
  \/ \E r \in Requests : Start(r) \/ Serve(r) \/ Crash(r)
  \/ StrayLands \/ KeyExpiry
  \/ \E t \in 1..landed : Reverse(t) \/ Webhook(t)

Idle(r) == pc[r] = "idle"

Next ==
  /\ Step
  /\ alone' = (alone /\ \A q, r \in Requests : q # r => Idle(q)' \/ Idle(r)')

Spec == Init /\ [][Next]_vars

\* The owner clicks "Pay reps" again when nothing is in progress, until the week
\* is paid, and a handler runs on.
ClickAgain == (\A r \in Requests : Idle(r)) /\ (\E r \in Requests : Start(r))

Fairness ==
  /\ WF_state(ClickAgain)
  /\ \A r \in Requests : WF_state(Serve(r))
  /\ WF_state(StrayLands)

FairSpec == Spec /\ Fairness

-----------------------------------------------------------------------------
(* Properties.                                                             *)

\* "a lost response / crash / >24h retry can NEVER double-pay" (payoutRoutes):
\* Stripe makes at most one transfer for a statement.
NeverDoublePaid == landed <= 1

\* The statement, the payout row and Stripe tell one story ("persist paid (with
\* transfer id) FIRST - this is the source of truth"): a statement is PAID only when
\* its money has moved, a row cites no transfer Stripe did not make, a settled row
\* cites one, and, while requests do not overlap, a PAID statement has a row that
\* cites its transfer, at the latest when no request is at work.
BooksMatchStripe ==
  /\ TypeOK
  /\ stmt = "PAID" => landed > 0
  /\ row.transfer \in 0..landed
  /\ row.status \in {"paid", "reversed"} => row.transfer # 0
  /\ alone /\ stmt = "PAID" /\ (\A r \in Requests : Idle(r)) => row.transfer # 0

\* reversed is a terminal status (shared/payouts.ts): no retry takes it for a
\* payment again, though every retry finds the reversed transfer in its group.
\* (Requests that overlap can: markPayoutPaid has no guard on the status.)
ReversedIsFinal ==
  [][alone' /\ row.status = "reversed" => row'.status = "reversed"]_vars

\* "money definitely didn't move" (resetPayoutForRetry), "money never moved"
\* (markPayoutFailed): a transfer that was made is found again: the row ends
\* up citing it, whatever calls fail or processes die on the way.
MovedMoneyIsRecorded == landed > 0 ~> (row.transfer # 0 \/ ~alone)
=============================================================================
