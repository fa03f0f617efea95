--------------------------- MODULE PayoutsProofs ----------------------------
(***************************************************************************)
(* What Payouts promises, for every set of pay requests and every number   *)
(* of faults: one transfer for a statement, and books that agree with      *)
(* Stripe.                                                                 *)
(***************************************************************************)
EXTENDS Payouts, TLAPS

RowType == [id : Nat, status : Unsent \cup {"none", "paid", "reversed"},
            transfer : Nat]

Places == {"idle", "reconcile", "schedule", "send", "sent"} \cup Lookups
            \cup {Resumes[l] : l \in Lookups}

RowsOK ==
  /\ row \in RowType
  /\ lastRow \in Nat /\ row.id <= lastRow
  /\ stmt \in {"FINALIZED", "PAID"}
  /\ faults \in 0..FaultBudget

StripeOK ==
  /\ landed \in Nat /\ key \in 0..landed /\ stray \in BOOLEAN
  /\ clawed \subseteq 1..landed /\ events \subseteq clawed

RequestsOK ==
  /\ pc \in [Requests -> Places]
  /\ seen \in [Requests -> {"FINALIZED", "PAID"}]
  /\ mine \in [Requests -> 0..lastRow]
  /\ answer \in [Requests -> 0..landed]

\* The type invariant by its parts, before and after a step.
LEMMA Parts ==
  /\ TypeOK <=> RowsOK /\ StripeOK /\ RequestsOK /\ alone \in BOOLEAN
  /\ TypeOK' <=> RowsOK' /\ StripeOK' /\ RequestsOK' /\ alone' \in BOOLEAN
BY DEF TypeOK, RowsOK, StripeOK, RequestsOK, RowType, Places

-----------------------------------------------------------------------------
(* The invariant.                                                          *)

\* A request that found no row has created none yet, and one that works with a
\* row works with the row there is, which cites nothing: as long as it has been
\* alone, its picture of the row is not stale.
Rowless  == {"schedule", "prior", "priorKnown"}
InFlight == {"lookup", "lookedUp", "send", "sent", "late", "lateKnown"}

ReqOK(r) ==
  /\ pc[r] = "sent" => answer[r] # 0
  /\ alone /\ pc[r] \in Rowless => row = NoRow
  /\ alone /\ pc[r] \in InFlight =>
       row.transfer = 0 /\ row.status \in Unsent /\ mine[r] = row.id

Books ==
  /\ stmt = "PAID" => landed > 0
  /\ row.transfer \in 0..landed
  /\ row.status \in {"paid", "reversed"} => row.transfer # 0
  /\ alone /\ stmt = "PAID" => row.transfer # 0

OneAtWork == alone => \A q, r \in Requests : q # r => Idle(q) \/ Idle(r)

PayInv ==
  /\ TypeOK
  /\ Books
  /\ \A r \in Requests : ReqOK(r)
  /\ OneAtWork

-----------------------------------------------------------------------------
(* Lemmas about the pieces of a step.                                      *)

\* What every step does to the history.
LEMMA History ==
  ASSUME PayInv, Next
  PROVE  alone' \in BOOLEAN /\ (alone' => alone) /\ OneAtWork'
<1>1. alone \in BOOLEAN
  BY DEF PayInv, TypeOK
<1>2. alone' = (alone /\ \A q, r \in Requests : q # r => Idle(q)' \/ Idle(r)')
  BY DEF Next
<1> QED
  BY <1>1, <1>2, Zenon DEF OneAtWork

\* A step of request r that another request may not notice.
LEMMA Frame ==
  ASSUME PayInv, Next, NEW r \in Requests,
         \A q \in Requests \ {r} :
           pc'[q] = pc[q] /\ mine'[q] = mine[q] /\ answer'[q] = answer[q],
         pc[r] # "idle" \/ row' = row,
         RowsOK', StripeOK', RequestsOK', Books', ReqOK(r)'
  PROVE  PayInv'
<1>1. alone' \in BOOLEAN /\ (alone' => alone) /\ OneAtWork'
  BY History
<1>2. TypeOK'
  BY <1>1, Parts
<1>3. ASSUME NEW q \in Requests PROVE ReqOK(q)'
  <2>1. CASE q = r
    BY <2>1
  <2>2. CASE q # r
    <3>1. pc'[q] = pc[q] /\ mine'[q] = mine[q] /\ answer'[q] = answer[q]
      BY <2>2
    <3>2. ReqOK(q)
      BY DEF PayInv
    <3>3. CASE row' = row
      BY <1>1, <3>1, <3>2, <3>3 DEF ReqOK
    <3>4. CASE pc[r] # "idle"
      <4>1. alone => pc[q] = "idle"
        BY <2>2, <3>4 DEF PayInv, OneAtWork, Idle
      <4> QED
        BY <1>1, <3>1, <3>2, <4>1 DEF ReqOK, Rowless, InFlight
    <3> QED
      BY <3>3, <3>4
  <2> QED
    BY <2>1, <2>2
<1> QED
  BY <1>1, <1>2, <1>3 DEF PayInv

\* The end of a request.
LEMMA Finished ==
  ASSUME RowsOK, StripeOK, RequestsOK, NEW r \in Requests, Finish(r)
  PROVE  /\ pc' \in [Requests -> Places] /\ pc'[r] = "idle"
         /\ seen' \in [Requests -> {"FINALIZED", "PAID"}]
         /\ mine' \in [Requests -> 0..lastRow]
         /\ answer' \in [Requests -> 0..landed]
         /\ \A q \in Requests \ {r} :
              pc'[q] = pc[q] /\ mine'[q] = mine[q] /\ answer'[q] = answer[q]
<1>1. 0 \in 0..lastRow /\ 0 \in 0..landed /\ "idle" \in Places
  BY DEF RowsOK, StripeOK, Places
<1> QED
  BY <1>1 DEF RequestsOK, Finish, GoTo

\* A request moves on.
LEMMA Moved ==
  ASSUME RequestsOK, NEW r \in Requests, NEW p \in Places, GoTo(r, p)
  PROVE  /\ pc' \in [Requests -> Places] /\ pc'[r] = p
         /\ \A q \in Requests \ {r} : pc'[q] = pc[q]
  BY DEF RequestsOK, GoTo

LEMMA PlaceNames ==
  /\ Resumes["lookup"] = "lookedUp" /\ Resumes["prior"] = "priorKnown"
  /\ Resumes["late"] = "lateKnown"
  /\ Places = {"idle", "reconcile", "schedule", "send", "sent", "lookup",
               "prior", "late", "lookedUp", "priorKnown", "lateKnown"}
<1>1. /\ Resumes["lookup"] = "lookedUp" /\ Resumes["prior"] = "priorKnown"
      /\ Resumes["late"] = "lateKnown"
  BY DEF Resumes
<1>2. {Resumes[l] : l \in Lookups} = {"lookedUp", "priorKnown", "lateKnown"}
  BY <1>1 DEF Lookups
<1> QED
  BY <1>1, <1>2 DEF Places, Lookups

\* Functions keep their type when their range grows.
LEMMA Wider ==
  ASSUME NEW m \in Nat, NEW n \in Nat, m <= n, NEW f \in [Requests -> 0..m]
  PROVE  f \in [Requests -> 0..n]
<1>1. 0..m \subseteq 0..n
  OBVIOUS
<1> QED
  BY <1>1

LEMMA Marked ==
  ASSUME RowsOK, MarkStatement
  PROVE  stmt' \in {"PAID", stmt} /\ stmt' \in {"FINALIZED", "PAID"}
         /\ faults' \in 0..FaultBudget
  BY PayoutsAssumption DEF RowsOK, MarkStatement, Fault

LEMMA Faulted ==
  ASSUME RowsOK, Fault
  PROVE  faults' \in 0..FaultBudget
  BY PayoutsAssumption DEF RowsOK, Fault

\* A step that ends its request.
LEMMA EndStep ==
  ASSUME PayInv, Next, NEW r \in Requests, pc[r] # "idle", Finish(r),
         RowsOK', lastRow <= lastRow', stray' \in BOOLEAN,
         UNCHANGED <<landed, clawed, key, events>>,
         Books'
  PROVE  PayInv'
<1> USE DEF PayInv
<1>1. RowsOK /\ StripeOK /\ RequestsOK
  BY Parts
<1>2. /\ pc' \in [Requests -> Places] /\ pc'[r] = "idle"
      /\ seen' \in [Requests -> {"FINALIZED", "PAID"}]
      /\ mine' \in [Requests -> 0..lastRow]
      /\ answer' \in [Requests -> 0..landed]
      /\ \A q \in Requests \ {r} :
           pc'[q] = pc[q] /\ mine'[q] = mine[q] /\ answer'[q] = answer[q]
  BY <1>1, Finished
<1>3. lastRow \in Nat /\ lastRow' \in Nat
  BY <1>1 DEF RowsOK
<1>4. mine' \in [Requests -> 0..lastRow']
  BY <1>2, <1>3, Wider
<1>5. RequestsOK'
  BY <1>2, <1>4 DEF RequestsOK
<1>6. StripeOK'
  BY <1>1 DEF StripeOK
<1>7. ReqOK(r)'
  BY <1>2 DEF ReqOK, Rowless, InFlight
<1> QED
  BY <1>2, <1>5, <1>6, <1>7, Frame

-----------------------------------------------------------------------------
(* The steps of a request that end it.                                     *)

\* Rows and books, whatever is marked paid with a transfer Stripe has made.
LEMMA PaidRowOK ==
  ASSUME PayInv, alone' => alone, NEW id \in Nat, NEW t \in 1..landed,
         row' = PaidRow(id, t), MarkStatement,
         lastRow' = lastRow, landed' = landed,
         alone => row.id = id
  PROVE  RowsOK' /\ Books'
<1> USE DEF PayInv
<1>1. RowsOK /\ StripeOK
  BY Parts
<1>2. /\ stmt' \in {"PAID", stmt} /\ stmt' \in {"FINALIZED", "PAID"}
      /\ faults' \in 0..FaultBudget
  BY <1>1, Marked
<1>3. landed \in Nat /\ t \in Nat /\ t # 0 /\ t <= landed
  BY <1>1 DEF StripeOK
<1>4. CASE row.id = id
  <2>1. row' = [row EXCEPT !.status = "paid", !.transfer = t]
    BY <1>4 DEF PaidRow
  <2>2. row' \in RowType /\ row'.id = row.id /\ row'.transfer = t
    BY <1>1, <1>3, <2>1 DEF RowsOK, RowType
  <2>3. RowsOK'
    BY <1>1, <1>2, <2>2 DEF RowsOK
  <2>4. Books'
    BY <1>3, <2>2 DEF Books
  <2> QED
    BY <2>3, <2>4
<1>5. CASE row.id # id
  <2>1. row' = row /\ ~alone'
    BY <1>5 DEF PaidRow
  <2>2. RowsOK'
    BY <1>1, <1>2, <2>1 DEF RowsOK
  <2>3. Books'
    BY <1>2, <1>3, <2>1 DEF Books
  <2> QED
    BY <2>2, <2>3
<1> QED
  BY <1>4, <1>5

LEMMA SettledStep ==
  ASSUME PayInv, Next, NEW r \in Requests,
         SkipSettled(r) \/ AdoptCited(r) \/ Adopt(r) \/ Paid(r)
  PROVE  PayInv'
<1> USE DEF PayInv
<1>1. RowsOK /\ StripeOK /\ RequestsOK /\ Books /\ ReqOK(r)
  BY Parts
<1>2. alone' => alone
  BY History
<1>3. landed \in Nat /\ lastRow \in Nat /\ stray \in BOOLEAN
  BY <1>1 DEF RowsOK, StripeOK
<1>4. mine[r] \in Nat /\ answer[r] \in 0..landed
  BY <1>1, <1>3 DEF RequestsOK
<1>5. row.id \in Nat /\ row.transfer \in 0..landed
  BY <1>1 DEF RowsOK, RowType, Books
<1>6. CASE SkipSettled(r)
  <2>1. /\ stmt' \in {"FINALIZED", "PAID"} /\ faults' \in 0..FaultBudget
        /\ stmt' = stmt \/ row.status = "paid"
    BY <1>1, <1>6, Marked DEF SkipSettled, RowsOK
  <2>2. row' = row /\ lastRow' = lastRow /\ UNCHANGED stripe
    BY <1>6 DEF SkipSettled
  <2>3. RowsOK'
    BY <1>1, <2>1, <2>2 DEF RowsOK
  <2>4. Books'
    BY <1>1, <1>2, <1>3, <2>1, <2>2 DEF Books, stripe
  <2> QED
    BY <1>3, <1>6, <2>2, <2>3, <2>4, EndStep DEF SkipSettled, stripe
<1>7. CASE AdoptCited(r)
  <2>1. row.transfer \in 1..landed
    BY <1>3, <1>5, <1>7 DEF AdoptCited
  <2>2. RowsOK' /\ Books'
    BY <1>2, <1>5, <1>7, <2>1, PaidRowOK DEF AdoptCited, stripe
  <2> QED
    BY <1>3, <1>7, <2>2, EndStep DEF AdoptCited, stripe
<1>8. CASE Adopt(r) \/ Paid(r)
  <2>1. /\ pc[r] \in InFlight /\ answer[r] # 0
        /\ row' = PaidRow(mine[r], answer[r]) /\ MarkStatement /\ Finish(r)
        /\ UNCHANGED <<lastRow, stripe>>
    BY <1>1, <1>8 DEF Adopt, Paid, InFlight, ReqOK
  <2>2. answer[r] \in 1..landed
    BY <1>3, <1>4, <2>1
  <2>3. alone => row.id = mine[r]
    BY <1>1, <2>1 DEF ReqOK
  <2>4. RowsOK' /\ Books'
    BY <1>2, <1>4, <2>1, <2>2, <2>3, PaidRowOK DEF stripe
  <2>5. pc[r] # "idle"
    BY <2>1 DEF InFlight
  <2> QED
    BY <1>3, <2>1, <2>4, <2>5, EndStep DEF stripe
<1> QED
  BY <1>6, <1>7, <1>8

\* Steps after which the request is over and the row tells less than before.
LEMMA LeftStep ==
  ASSUME PayInv, Next, NEW r \in Requests,
         \/ GiveUp(r) \/ Crash(r)
         \/ ClearForRetry(r) /\ Finish(r)
         \/ Schedule(r) /\ Finish(r)
         \/ PayAfresh(r) /\ Finish(r)
  PROVE  PayInv'
<1> USE DEF PayInv
<1>1. RowsOK /\ StripeOK /\ RequestsOK /\ Books
  BY Parts
<1>2. alone' => alone
  BY History
<1>3. /\ pc[r] # "idle" /\ Finish(r)
      /\ UNCHANGED <<lastRow, stmt, landed, clawed, key, events>>
  BY DEF GiveUp, Crash, ClearForRetry, Schedule, PayAfresh, stripe
<1>4. faults' \in 0..FaultBudget /\ stray' \in BOOLEAN
  BY <1>1, Faulted
  DEF GiveUp, Crash, ClearForRetry, Schedule, PayAfresh, PayIfEligible, stripe,
      StripeOK, RowsOK
<1>5. row' \in {row, FailedRow(mine[r]), ResetRow(mine[r])}
  BY DEF GiveUp, Crash, ClearForRetry, Schedule, PayAfresh
<1>6. /\ row' \in RowType /\ row'.id <= lastRow
      /\ row'.transfer = row.transfer
      /\ row'.status \in {"paid", "reversed"} => row'.status = row.status
  BY <1>1, <1>5
  DEF FailedRow, ResetRow, NoRow, RowsOK, RowType, Unsent
<1>7. RowsOK'
  BY <1>1, <1>3, <1>4, <1>6 DEF RowsOK
<1>8. Books'
  BY <1>1, <1>2, <1>3, <1>6 DEF Books
<1>9. lastRow <= lastRow'
  BY <1>1, <1>3 DEF RowsOK
<1> QED
  BY <1>3, <1>4, <1>7, <1>8, <1>9, EndStep

-----------------------------------------------------------------------------
(* The steps that carry a request on.                                      *)

\* Steps that change nothing but the request and the fault count.
LEMMA OnwardStep ==
  ASSUME PayInv, Next, NEW r \in Requests,
         \/ Start(r) \/ Suspect(r) \/ Lookup(r) \/ ResponseLost(r)
         \/ PayAfresh(r) /\ GoTo(r, "schedule") /\ UNCHANGED <<seen, mine, answer>>
         \/ Schedule(r) /\ GoTo(r, "prior") /\ UNCHANGED <<seen, mine, answer>>
  PROVE  PayInv'
<1> USE DEF PayInv
<1>1. RowsOK /\ StripeOK /\ RequestsOK /\ Books /\ ReqOK(r)
  BY Parts
<1>2. alone' => alone
  BY History
<1>3. UNCHANGED <<row, lastRow, stmt, stripe>>
  BY DEF Start, Suspect, Lookup, ResponseLost, PayAfresh, Schedule
<1>4. faults' \in 0..FaultBudget
  BY <1>1, Faulted
  DEF Start, Suspect, Lookup, ResponseLost, PayAfresh, Schedule, RowsOK
<1>5. RowsOK' /\ StripeOK' /\ Books'
  BY <1>1, <1>2, <1>3, <1>4 DEF RowsOK, StripeOK, Books, stripe
<1>6. PICK p \in Places : GoTo(r, p)
  BY PlaceNames
  DEF Start, Suspect, Lookup, ResponseLost, PayAfresh, Schedule, Lookups
<1>7. /\ pc' \in [Requests -> Places] /\ pc'[r] = p
      /\ \A q \in Requests \ {r} : pc'[q] = pc[q]
  BY <1>1, <1>6, Moved
<1>8. row.id \in 0..lastRow /\ landed \in 0..landed /\ 0 \in 0..landed
  BY <1>1 DEF RowsOK, RowType, StripeOK
<1>9. seen' \in [Requests -> {"FINALIZED", "PAID"}]
  BY <1>1 DEF Start, Suspect, Lookup, ResponseLost, PayAfresh, Schedule,
              RequestsOK, RowsOK
<1>10. /\ mine' \in [Requests -> 0..lastRow]
       /\ \A q \in Requests \ {r} : mine'[q] = mine[q]
       /\ Suspect(r) => mine'[r] = row.id
       /\ Suspect(r) \/ mine' = mine
  BY <1>1, <1>8 DEF Start, Suspect, Lookup, ResponseLost, PayAfresh, Schedule,
                    RequestsOK
<1>11. /\ answer' \in [Requests -> 0..landed]
       /\ \A q \in Requests \ {r} : answer'[q] = answer[q]
  BY <1>1, <1>8 DEF Start, Suspect, Lookup, ResponseLost, PayAfresh, Schedule,
                    RequestsOK
<1>12. RequestsOK'
  BY <1>3, <1>7, <1>9, <1>10, <1>11 DEF RequestsOK, stripe
<1>13. \/ p = "reconcile"
       \/ p = "schedule" /\ row = NoRow
       \/ p \in Rowless /\ pc[r] \in Rowless
       \/ p \in InFlight \ {"sent"} /\ pc[r] \in InFlight /\ mine' = mine
       \/ p = "lookup" /\ row.transfer = 0 /\ row.status \in Unsent
            /\ mine'[r] = row.id
  <2>1. CASE Start(r)
    <3>1. GoTo(r, "reconcile")
      BY <2>1 DEF Start
    <3> QED
      BY <1>1, <1>7, <3>1 DEF GoTo, RequestsOK
  <2>2. CASE Suspect(r)
    <3>1. GoTo(r, "lookup") /\ row.transfer = 0 /\ row.status \in Unsent
      BY <2>2 DEF Suspect
    <3> QED
      BY <1>1, <1>7, <1>10, <2>2, <3>1 DEF GoTo, RequestsOK
  <2>3. CASE Lookup(r)
    <3>1. GoTo(r, Resumes[pc[r]]) /\ pc[r] \in {"lookup", "prior", "late"}
      BY <2>3 DEF Lookup, Lookups
    <3>2. p = Resumes[pc[r]] /\ mine' = mine
      BY <1>1, <1>7, <2>3, <3>1 DEF GoTo, RequestsOK, Lookup
    <3> QED
      BY <3>1, <3>2, PlaceNames DEF Rowless, InFlight
  <2>4. CASE ResponseLost(r)
    <3>1. GoTo(r, "late") /\ pc[r] = "sent" /\ mine' = mine
      BY <2>4 DEF ResponseLost
    <3> QED
      BY <1>1, <1>7, <3>1 DEF GoTo, RequestsOK, InFlight
  <2>5. CASE PayAfresh(r) /\ GoTo(r, "schedule")
    <3>1. row = NoRow
      BY <2>5 DEF PayAfresh
    <3> QED
      BY <1>1, <1>7, <2>5, <3>1 DEF GoTo, RequestsOK
  <2>6. CASE Schedule(r) /\ GoTo(r, "prior")
    <3>1. pc[r] = "schedule"
      BY <2>6 DEF Schedule
    <3> QED
      BY <1>1, <1>7, <2>6, <3>1 DEF GoTo, RequestsOK, Rowless
  <2> QED
    BY <2>1, <2>2, <2>3, <2>4, <2>5, <2>6
<1>14. ReqOK(r)'
  BY <1>1, <1>2, <1>3, <1>7, <1>13 DEF ReqOK, Rowless, InFlight
<1>15. pc[r] # "idle" \/ row' = row
  BY <1>3
<1> QED
  BY <1>5, <1>7, <1>10, <1>11, <1>12, <1>14, <1>15, Frame

\* The row is deleted, and the statement is paid as one that never had one.
LEMMA ClearStep ==
  ASSUME PayInv, Next, NEW r \in Requests, ClearForRetry(r),
         GoTo(r, "schedule"), UNCHANGED <<seen, mine, answer>>
  PROVE  PayInv'
<1> USE DEF PayInv
<1>1. RowsOK /\ StripeOK /\ RequestsOK /\ Books /\ ReqOK(r)
  BY Parts
<1>2. alone' => alone
  BY History
<1>3. /\ pc[r] = "lookedUp" /\ row' = ResetRow(mine[r])
      /\ UNCHANGED <<lastRow, stmt, stripe, faults>>
  BY DEF ClearForRetry
<1>4. /\ row' \in RowType /\ row'.id <= lastRow
      /\ row'.transfer = row.transfer
      /\ row'.status \in {"paid", "reversed"} => row'.status = row.status
  BY <1>1, <1>3 DEF ResetRow, NoRow, RowsOK, RowType
<1>5. RowsOK' /\ StripeOK'
  BY <1>1, <1>3, <1>4 DEF RowsOK, StripeOK, stripe
<1>6. Books'
  BY <1>1, <1>2, <1>3, <1>4 DEF Books, stripe
<1>7. /\ pc' \in [Requests -> Places] /\ pc'[r] = "schedule"
      /\ \A q \in Requests \ {r} : pc'[q] = pc[q]
  BY <1>1, PlaceNames, Moved
<1>8. RequestsOK'
  BY <1>1, <1>3, <1>7 DEF RequestsOK, stripe
<1>9. alone' => row' = NoRow
  BY <1>1, <1>2, <1>3 DEF ReqOK, InFlight, ResetRow
<1>10. ReqOK(r)'
  BY <1>7, <1>9 DEF ReqOK, InFlight
<1> QED
  BY <1>3, <1>5, <1>6, <1>7, <1>8, <1>10, Frame

\* The row a request creates, or finds.
LEMMA PendingRow ==
  ASSUME RowsOK, Books, NEW n \in Nat,
         n = IF row = NoRow THEN lastRow + 1 ELSE lastRow
  PROVE  /\ Pending \in RowType /\ Pending.id <= n /\ lastRow <= n
         /\ Pending.transfer = row.transfer
         /\ row = NoRow => Pending.transfer = 0
<1>1. CASE row = NoRow
  BY <1>1 DEF Pending, NoRow, RowsOK, RowType, Unsent
<1>2. CASE row # NoRow
  BY <1>2 DEF Pending, RowsOK, RowType
<1> QED
  BY <1>1, <1>2

LEMMA CreateStep ==
  ASSUME PayInv, Next, NEW r \in Requests, CreateRow(r)
  PROVE  PayInv'
<1> USE DEF PayInv
<1>1. RowsOK /\ StripeOK /\ RequestsOK /\ Books /\ ReqOK(r)
  BY Parts
<1>2. alone' => alone
  BY History
<1>3. /\ pc[r] = "priorKnown" /\ UNCHANGED stripe
      /\ lastRow' = IF row = NoRow THEN lastRow + 1 ELSE lastRow
  BY DEF CreateRow
<1>4. lastRow' \in Nat /\ lastRow \in Nat /\ landed \in Nat
      /\ answer[r] \in 0..landed /\ stray \in BOOLEAN
  BY <1>1, <1>3 DEF RowsOK, StripeOK, RequestsOK
<1>5. PICK w \in RowType : w = Pending
  BY <1>1, <1>3, <1>4, PendingRow
<1>6. /\ w.id <= lastRow' /\ lastRow <= lastRow' /\ w.transfer = row.transfer
      /\ row = NoRow => w.transfer = 0
  BY <1>1, <1>3, <1>4, <1>5, PendingRow
<1>7. alone => row = NoRow
  BY <1>1, <1>3 DEF ReqOK, Rowless
<1>8. StripeOK'
  BY <1>1, <1>3 DEF StripeOK, stripe
<1>9. CASE answer[r] # 0
  <2>1. /\ row' = [w EXCEPT !.status = "paid", !.transfer = answer[r]]
        /\ MarkStatement /\ Finish(r)
    <3>1. /\ row' = [Pending EXCEPT !.status = "paid", !.transfer = answer[r]]
          /\ MarkStatement /\ Finish(r)
      BY <1>9, Zenon DEF CreateRow
    <3> QED
      BY <1>5, <3>1
  <2>2. row' \in RowType /\ row'.id = w.id /\ row'.transfer = answer[r]
    <3>1. answer[r] \in Nat
      BY <1>4
    <3> QED
      BY <2>1, <3>1 DEF RowType
  <2>3. stmt' \in {"FINALIZED", "PAID"} /\ faults' \in 0..FaultBudget
    BY <1>1, <2>1, Marked
  <2>4. RowsOK'
    BY <1>4, <1>6, <2>2, <2>3 DEF RowsOK
  <2>5. Books'
    BY <1>3, <1>4, <1>9, <2>2 DEF Books, stripe
  <2> QED
    BY <1>3, <1>4, <1>6, <2>1, <2>4, <2>5, EndStep DEF stripe
<1>10. CASE answer[r] = 0
  <2>1. /\ row' = [w EXCEPT !.status = "processing"]
        /\ mine' = [mine EXCEPT ![r] = w.id]
        /\ GoTo(r, "send")
        /\ UNCHANGED <<stmt, seen, answer, faults>>
    BY <1>5, <1>10 DEF CreateRow
  <2>2. /\ row' \in RowType /\ row'.id = w.id /\ row'.transfer = w.transfer
        /\ row'.status = "processing"
    BY <2>1 DEF RowType, Unsent
  <2>3. RowsOK'
    BY <1>1, <1>4, <1>6, <2>1, <2>2 DEF RowsOK
  <2>4. Books'
    BY <1>1, <1>2, <1>3, <1>6, <2>1, <2>2 DEF Books, stripe
  <2>5. /\ pc' \in [Requests -> Places] /\ pc'[r] = "send"
        /\ \A q \in Requests \ {r} : pc'[q] = pc[q]
    BY <1>1, <2>1, PlaceNames, Moved
  <2>6. w.id \in 0..lastRow'
    BY <1>4, <1>6 DEF RowType
  <2>7. mine \in [Requests -> 0..lastRow']
    BY <1>1, <1>4, <1>6, Wider DEF RequestsOK
  <2>8. /\ mine' \in [Requests -> 0..lastRow'] /\ mine'[r] = w.id
        /\ \A q \in Requests \ {r} : mine'[q] = mine[q]
    BY <2>1, <2>6, <2>7
  <2>9. RequestsOK'
    BY <1>1, <1>3, <2>1, <2>5, <2>8 DEF RequestsOK, stripe
  <2>10. ReqOK(r)'
    BY <1>2, <1>6, <1>7, <2>2, <2>5, <2>8 DEF ReqOK, Rowless, Unsent
  <2>11. pc[r] # "idle"
    BY <1>3
  <2> QED
    BY <1>8, <2>1, <2>3, <2>4, <2>5, <2>8, <2>9, <2>10, <2>11, Frame
<1> QED
  BY <1>4, <1>9, <1>10

\* What Stripe does with a createTransfer.
LEMMA Landed ==
  ASSUME StripeOK, Land
  PROVE  /\ landed' \in Nat /\ landed <= landed' /\ key' \in 1..landed'
         /\ key' = Transfer /\ Transfer \in 1..landed' /\ 1..landed \subseteq 1..landed'
  BY DEF StripeOK, Land, Transfer

LEMMA SendStep ==
  ASSUME PayInv, Next, NEW r \in Requests, Send(r) \/ SendFails(r)
  PROVE  PayInv'
<1> USE DEF PayInv
<1>1. RowsOK /\ StripeOK /\ RequestsOK /\ Books /\ ReqOK(r)
  BY Parts
<1>2. alone' => alone
  BY History
<1>3. pc[r] = "send" /\ UNCHANGED <<row, lastRow, stmt, clawed, events, seen, mine>>
  BY DEF Send, SendFails
<1>4. faults' \in 0..FaultBudget /\ stray' \in BOOLEAN
  BY <1>1, Faulted DEF Send, SendFails, RowsOK, StripeOK
<1>5. RowsOK'
  BY <1>1, <1>3, <1>4 DEF RowsOK
<1>6. /\ landed' \in Nat /\ landed <= landed' /\ key' \in 0..landed'
      /\ 1..landed \subseteq 1..landed' /\ landed \in Nat
  <2>1. CASE Send(r)
    BY <1>1, <2>1, Landed DEF Send, StripeOK
  <2>2. CASE SendFails(r)
    BY <1>1, <2>2 DEF SendFails, StripeOK
  <2> QED
    BY <2>1, <2>2
<1>7. StripeOK'
  BY <1>1, <1>3, <1>4, <1>6 DEF StripeOK
<1>8. Books'
  BY <1>1, <1>2, <1>3, <1>6 DEF Books
<1>9. answer \in [Requests -> 0..landed']
  BY <1>1, <1>6, Wider DEF RequestsOK
<1>10. /\ answer' \in [Requests -> 0..landed']
       /\ \A q \in Requests \ {r} : answer'[q] = answer[q]
       /\ Send(r) => answer'[r] # 0
  <2>1. CASE Send(r)
    <3>1. PICK t \in 1..landed' : t = Transfer
      BY <1>1, <2>1, Landed DEF Send
    <3>2. answer' = [answer EXCEPT ![r] = t] /\ t \in 0..landed' /\ t # 0
      BY <1>6, <2>1, <3>1 DEF Send
    <3> QED
      BY <1>9, <3>2
  <2>2. CASE SendFails(r) /\ ~Send(r)
    BY <1>9, <2>2 DEF SendFails
  <2> QED
    BY <2>1, <2>2
<1>11. PICK p \in {"sent", "late"} : GoTo(r, p) /\ (p = "sent" => Send(r))
  BY DEF Send, SendFails
<1>12. /\ pc' \in [Requests -> Places] /\ pc'[r] = p
       /\ \A q \in Requests \ {r} : pc'[q] = pc[q]
  BY <1>1, <1>11, PlaceNames, Moved
<1>13. RequestsOK'
  BY <1>1, <1>3, <1>10, <1>12 DEF RequestsOK
<1>14. ReqOK(r)'
  BY <1>1, <1>2, <1>3, <1>10, <1>11, <1>12 DEF ReqOK, Rowless, InFlight
<1>15. \A q \in Requests \ {r} : mine'[q] = mine[q]
  BY <1>3
<1> QED
  BY <1>3, <1>5, <1>7, <1>8, <1>10, <1>12, <1>13, <1>14, <1>15, Frame

-----------------------------------------------------------------------------
(* Stripe's own steps, and the invariant.                                  *)

\* What a step of Stripe does to the transfers and to the row.
TransferEffect ==
  /\ StripeOK' /\ landed <= landed' /\ landed \in Nat /\ landed' \in Nat
  /\ \/ row' = row
     \/ row.transfer # 0 /\ row' = [row EXCEPT !.status = "reversed"]

LEMMA WorldStep ==
  ASSUME PayInv, Next,
         \/ StrayLands \/ KeyExpiry
         \/ \E t \in 1..landed : Reverse(t) \/ Webhook(t)
         \/ UNCHANGED state
  PROVE  PayInv'
<1> USE DEF PayInv
<1>1. RowsOK /\ StripeOK /\ RequestsOK /\ Books
  BY Parts
<1>2. alone' \in BOOLEAN /\ (alone' => alone) /\ OneAtWork'
  BY History
<1>3. UNCHANGED <<lastRow, stmt, requests, faults>>
  BY DEF StrayLands, KeyExpiry, Reverse, Webhook, state, stripe, requests
<1>4. TransferEffect
  <2>1. CASE StrayLands
    <3>1. /\ landed' \in Nat /\ landed <= landed' /\ key' \in 0..landed'
          /\ 1..landed \subseteq 1..landed'
      BY <1>1, <2>1, Landed DEF StrayLands
    <3>2. stray' = FALSE /\ row' = row /\ clawed' = clawed /\ events' = events
      BY <2>1 DEF StrayLands
    <3>3. clawed \subseteq 1..landed' /\ events \subseteq clawed /\ landed \in Nat
      BY <1>1, <3>1 DEF StripeOK
    <3>4. StripeOK'
      BY <3>1, <3>2, <3>3 DEF StripeOK
    <3> QED
      BY <3>1, <3>2, <3>3, <3>4 DEF TransferEffect
  <2>2. CASE KeyExpiry
    BY <1>1, <2>2 DEF KeyExpiry, StripeOK, TransferEffect
  <2>3. ASSUME NEW t \in 1..landed, Reverse(t) PROVE TransferEffect
    BY <1>1, <2>3 DEF Reverse, StripeOK, TransferEffect
  <2>4. ASSUME NEW t \in 1..landed, Webhook(t) PROVE TransferEffect
    <3>1. t \in Nat /\ t # 0
      BY <1>1 DEF StripeOK
    <3>2. StripeOK' /\ landed' = landed
      BY <1>1, <2>4 DEF Webhook, StripeOK
    <3>3. \/ row' = row
          \/ row.transfer = t /\ row' = [row EXCEPT !.status = "reversed"]
      BY <2>4 DEF Webhook
    <3> QED
      BY <1>1, <3>1, <3>2, <3>3 DEF StripeOK, TransferEffect
  <2>5. CASE UNCHANGED state
    BY <1>1, <2>5 DEF state, stripe, StripeOK, TransferEffect
  <2> QED
    BY <2>1, <2>2, <2>3, <2>4, <2>5
<1>5. /\ row' \in RowType /\ row'.id = row.id /\ row'.transfer = row.transfer
      /\ row'.status = row.status \/ row.transfer # 0
  BY <1>1, <1>4 DEF RowsOK, RowType, TransferEffect
<1>6. RowsOK'
  BY <1>1, <1>3, <1>5 DEF RowsOK
<1>7. Books'
  BY <1>1, <1>2, <1>3, <1>4, <1>5 DEF Books, TransferEffect
<1>8. answer \in [Requests -> 0..landed']
  BY <1>1, <1>4, Wider DEF RequestsOK, TransferEffect
<1>9. RequestsOK'
  BY <1>1, <1>3, <1>8 DEF RequestsOK, requests
<1>10. ASSUME NEW r \in Requests PROVE ReqOK(r)'
  <2>1. ReqOK(r)
    OBVIOUS
  <2>2. CASE row' = row
    BY <1>2, <1>3, <2>1, <2>2 DEF ReqOK, requests
  <2>3. CASE row.transfer # 0
    <3>1. row # NoRow
      BY <2>3 DEF NoRow
    <3> QED
      BY <1>2, <1>3, <2>1, <2>3, <3>1 DEF ReqOK, requests
  <2> QED
    BY <1>4, <2>2, <2>3 DEF TransferEffect
<1>11. TypeOK'
  BY <1>2, <1>4, <1>6, <1>9, Parts DEF TransferEffect
<1> QED
  BY <1>2, <1>7, <1>10, <1>11

LEMMA ServeStep ==
  ASSUME PayInv, Next, NEW r \in Requests, Start(r) \/ Serve(r) \/ Crash(r)
  PROVE  PayInv'
<1>1. CASE PayAfresh(r)
  <2>1. \/ GoTo(r, "schedule") /\ UNCHANGED <<seen, mine, answer>>
        \/ Finish(r)
    BY <1>1 DEF PayAfresh, PayIfEligible
  <2> QED
    BY <1>1, <2>1, OnwardStep, LeftStep
<1>2. CASE Schedule(r)
  <2>1. \/ GoTo(r, "prior") /\ UNCHANGED <<seen, mine, answer>>
        \/ Finish(r)
    BY <1>2 DEF Schedule
  <2> QED
    BY <1>2, <2>1, OnwardStep, LeftStep
<1>3. CASE ClearForRetry(r)
  <2>1. \/ GoTo(r, "schedule") /\ UNCHANGED <<seen, mine, answer>>
        \/ Finish(r)
    BY <1>3 DEF ClearForRetry, PayIfEligible
  <2> QED
    BY <1>3, <2>1, ClearStep, LeftStep
<1>4. CASE SkipSettled(r) \/ AdoptCited(r) \/ Adopt(r) \/ Paid(r)
  BY <1>4, SettledStep
<1>5. CASE Start(r) \/ Suspect(r) \/ Lookup(r) \/ ResponseLost(r)
  BY <1>5, OnwardStep
<1>6. CASE GiveUp(r) \/ Crash(r)
  BY <1>6, LeftStep
<1>7. CASE CreateRow(r)
  BY <1>7, CreateStep
<1>8. CASE Send(r) \/ SendFails(r)
  BY <1>8, SendStep
<1> QED
  BY <1>1, <1>2, <1>3, <1>4, <1>5, <1>6, <1>7, <1>8 DEF Serve

LEMMA InitHolds == Init => PayInv
<1> SUFFICES ASSUME Init PROVE PayInv
  OBVIOUS
<1>1. RowsOK
  BY PayoutsAssumption DEF Init, RowsOK, RowType, NoRow
<1>2. StripeOK
  <2>1. landed = 0 /\ clawed = {} /\ key = 0 /\ stray = FALSE /\ events = {}
    BY DEF Init
  <2>2. landed \in Nat /\ key \in 0..landed
    BY <2>1
  <2>3. clawed \subseteq 1..landed /\ events \subseteq clawed /\ stray \in BOOLEAN
    BY <2>1
  <2> QED
    BY <2>2, <2>3 DEF StripeOK
<1>3. RequestsOK
  BY DEF Init, RequestsOK, Places
<1>4. TypeOK
  BY <1>1, <1>2, <1>3, Parts DEF Init
<1>5. Books
  BY DEF Init, Books, NoRow
<1>6. ASSUME NEW r \in Requests PROVE ReqOK(r)
  BY DEF Init, ReqOK, Rowless, InFlight
<1>7. OneAtWork
  BY DEF Init, OneAtWork, Idle
<1> QED
  BY <1>4, <1>5, <1>6, <1>7 DEF PayInv

LEMMA StepHolds == PayInv /\ [Next]_vars => PayInv'
<1>1. ASSUME PayInv, Next PROVE PayInv'
  BY <1>1, ServeStep, WorldStep DEF Next, Step
<1>2. ASSUME PayInv, UNCHANGED vars PROVE PayInv'
  <2>1. \A r \in Requests : ReqOK(r)'
    BY <1>2 DEF PayInv, ReqOK, vars, state, stripe, requests
  <2> QED
    BY <1>2, <2>1
    DEF PayInv, TypeOK, Books, OneAtWork, Idle, vars, state, stripe, requests
<1> QED
  BY <1>1, <1>2

\* The inductive invariant of a statement's payment: types, books, and requests
\* that work with the row there is as long as they do not overlap.
THEOREM PayInvariant == Spec => []PayInv
<1> QED
  BY InitHolds, StepHolds, PTL DEF Spec

\* The statement, its payout row and Stripe tell one story, whatever calls fail
\* and however requests overlap: the pay handler persists the row first and marks the
\* statement after it.
THEOREM BooksMatchStripeCorrect == Spec => []BooksMatchStripe
<1>1. PayInv => BooksMatchStripe
  BY DEF PayInv, Books, BooksMatchStripe
<1> QED
  BY <1>1, PayInvariant, PTL

-----------------------------------------------------------------------------
(* A reversed row stays reversed.                                          *)

LEMMA ReversedStep ==
  ASSUME PayInv, Next, alone', row.status = "reversed"
  PROVE  row'.status = "reversed"
<1>1. alone
  BY History
<1>2. /\ row.transfer # 0 /\ row.status \notin Unsent /\ row # NoRow
      /\ row.id \in Nat /\ row \in RowType
  BY Parts DEF PayInv, Books, Unsent, NoRow, RowsOK, RowType
<1>3. ASSUME NEW r \in Requests, Start(r) \/ Serve(r) \/ Crash(r)
      PROVE  row'.status = "reversed"
  <2>1. pc[r] \notin InFlight /\ pc[r] \notin Rowless
    BY <1>1, <1>2 DEF PayInv, ReqOK
  <2>2. row' = row
    <3>1. CASE CreateRow(r)
      BY <2>1, <3>1 DEF CreateRow, Rowless
    <3>2. CASE Adopt(r) \/ Paid(r) \/ ClearForRetry(r) \/ GiveUp(r)
      BY <2>1, <3>2 DEF Adopt, Paid, ClearForRetry, GiveUp, InFlight
    <3>3. CASE AdoptCited(r)
      BY <1>2, <3>3 DEF AdoptCited
    <3>4. CASE \/ SkipSettled(r) \/ Suspect(r) \/ PayAfresh(r) \/ Lookup(r)
               \/ Schedule(r) \/ Send(r) \/ SendFails(r) \/ ResponseLost(r)
               \/ Start(r) \/ Crash(r)
      BY <3>4 DEF SkipSettled, Suspect, PayAfresh, Lookup, Schedule, Send,
                  SendFails, ResponseLost, Start, Crash
    <3> QED
      BY <1>3, <3>1, <3>2, <3>3, <3>4 DEF Serve
  <2> QED
    BY <2>2
<1>4. CASE StrayLands \/ KeyExpiry \/ \E t \in 1..landed : Reverse(t)
  BY <1>4 DEF StrayLands, KeyExpiry, Reverse
<1>5. ASSUME NEW t \in 1..landed, Webhook(t) PROVE row'.status = "reversed"
  BY <1>2, <1>5 DEF Webhook, RowType
<1> QED
  BY <1>3, <1>4, <1>5 DEF Next, Step

\* The terminal status of shared/payouts.ts: while requests do not overlap, no
\* retry adopts a reversed transfer as a payment.
THEOREM ReversedIsFinalCorrect == Spec => ReversedIsFinal
<1>1. PayInv /\ [Next]_vars =>
        [alone' /\ row.status = "reversed" => row'.status = "reversed"]_vars
  BY ReversedStep
<1> QED
  BY <1>1, PayInvariant, PTL DEF Spec, ReversedIsFinal

-----------------------------------------------------------------------------
(* One transfer for a statement.                                           *)

\* When the idempotency key has expired, nothing is on its way to Stripe, and no
\* request that is about to send has missed the transfer there is.
OnlyOnce ==
  /\ landed <= 1
  /\ landed > 0 /\ key = 0 =>
       /\ ~stray
       /\ \A r \in Requests :
            pc[r] # "send" /\ (pc[r] = "priorKnown" => answer[r] # 0)

\* A step of request r that makes no transfer.
LEMMA QuietOnce ==
  ASSUME TypeOK, OnlyOnce, NEW r \in Requests,
         landed' = landed, key' = key, stray' => stray \/ pc[r] = "send",
         \A q \in Requests \ {r} : pc'[q] = pc[q] /\ answer'[q] = answer[q],
         pc'[r] = "send" => pc[r] = "priorKnown" /\ answer[r] = 0,
         pc'[r] = "priorKnown" => answer'[r] # 0 \/ key # 0 \/ landed = 0
  PROVE  OnlyOnce'
<1>1. landed \in Nat
  BY DEF TypeOK
<1>2. landed' <= 1
  BY DEF OnlyOnce
<1>3. ASSUME landed > 0, key = 0
      PROVE  /\ ~stray'
             /\ \A q \in Requests :
                  pc'[q] # "send" /\ (pc'[q] = "priorKnown" => answer'[q] # 0)
  <2>1. /\ ~stray
        /\ \A q \in Requests :
             pc[q] # "send" /\ (pc[q] = "priorKnown" => answer[q] # 0)
    BY <1>3 DEF OnlyOnce
  <2>2. landed # 0
    BY <1>1, <1>3
  <2> QED
    BY <1>3, <2>1, <2>2
<1> QED
  BY <1>2, <1>3 DEF OnlyOnce

LEMMA LandOnce ==
  ASSUME TypeOK, OnlyOnce, Land,
         stray \/ \E r \in Requests : pc[r] = "send"
  PROVE  landed' <= 1 /\ key' # 0
<1>1. landed \in Nat /\ key \in 0..landed
  BY DEF TypeOK
<1>2. key # 0 \/ landed = 0
  BY <1>1 DEF OnlyOnce
<1> QED
  BY <1>1, <1>2 DEF Land, Transfer, OnlyOnce

LEMMA OnceStep ==
  ASSUME ~Blind, TypeOK, OnlyOnce, Next
  PROVE  OnlyOnce'
<1>1. RowsOK /\ StripeOK /\ RequestsOK
  BY Parts
<1>2. landed \in Nat
  BY <1>1 DEF StripeOK
<1>3. ASSUME NEW r \in Requests, Start(r) \/ Serve(r) \/ Crash(r)
      PROVE  OnlyOnce'
  <2>1. CASE Send(r)
    <3>1. Land /\ pc[r] = "send"
      BY <2>1 DEF Send
    <3> QED
      BY <3>1, LandOnce DEF OnlyOnce
  <2>2. CASE Lookup(r)
    <3>1. pc[r] \in {"lookup", "prior", "late"} /\ GoTo(r, Resumes[pc[r]])
      BY <2>2 DEF Lookup, Lookups
    <3>2. Resumes[pc[r]] \in {"lookedUp", "priorKnown", "lateKnown"}
      BY <3>1, PlaceNames
    <3>3. /\ pc'[r] = Resumes[pc[r]]
          /\ \A q \in Requests \ {r} : pc'[q] = pc[q]
      BY <1>1, <3>1, <3>2, PlaceNames, Moved
    <3>4. /\ \A q \in Requests \ {r} : answer'[q] = answer[q]
          /\ answer'[r] # 0 \/ key # 0 \/ landed = 0
      BY <1>1, <2>2 DEF Lookup, RequestsOK
    <3>5. UNCHANGED stripe
      BY <2>2 DEF Lookup
    <3> QED
      BY <3>2, <3>3, <3>4, <3>5, QuietOnce DEF stripe
  <2>3. CASE CreateRow(r) /\ ~Finish(r)
    <3>1. /\ pc[r] = "priorKnown" /\ answer[r] = 0
          /\ GoTo(r, "send") /\ answer' = answer /\ UNCHANGED stripe
      BY <2>3 DEF CreateRow
    <3>2. pc'[r] = "send" /\ \A q \in Requests \ {r} : pc'[q] = pc[q]
      BY <1>1, <3>1, PlaceNames, Moved
    <3> QED
      BY <3>1, <3>2, QuietOnce DEF stripe
  <2>4. CASE Finish(r)
    <3>1. /\ pc'[r] = "idle"
          /\ \A q \in Requests \ {r} : pc'[q] = pc[q] /\ answer'[q] = answer[q]
      BY <1>1, <2>4, Finished
    <3>2. CASE ~Send(r)
      <4>1. landed' = landed /\ key' = key /\ (stray' => stray \/ pc[r] = "send")
        <5>1. CASE Crash(r)
          <6>1. stray' \in {stray, stray \/ pc[r] = "send"}
            BY <5>1 DEF Crash
          <6>2. stray' = stray \/ stray' = (stray \/ pc[r] = "send")
            BY <6>1
          <6>3. landed' = landed /\ key' = key
            BY <5>1 DEF Crash
          <6>4. CASE stray' = stray
            BY <6>3, <6>4
          <6>5. CASE stray' = (stray \/ pc[r] = "send")
            BY <6>3, <6>5
          <6> QED
            BY <6>2, <6>4, <6>5
        <5>2. CASE SendFails(r)
          <6>1. pc[r] = "send" /\ landed' = landed /\ key' = key
            BY <5>2 DEF SendFails
          <6> QED
            BY <6>1
        <5>3. CASE ~Crash(r) /\ ~SendFails(r)
          <6>1. UNCHANGED stripe
            BY <1>3, <3>2, <5>3 DEF Start, Serve, SkipSettled, AdoptCited,
               Suspect, PayAfresh, Lookup, Adopt, ClearForRetry, Schedule,
               CreateRow, ResponseLost, Paid, GiveUp
          <6> QED
            BY <6>1 DEF stripe
        <5> QED
          BY <5>1, <5>2, <5>3
      <4> QED
        BY <3>1, <4>1, QuietOnce
    <3> QED
      BY <2>1, <3>2
  <2>5. CASE ~Finish(r) /\ (PayAfresh(r) \/ Schedule(r) \/ ClearForRetry(r))
    <3>1. PICK p \in {"schedule", "prior"} : GoTo(r, p)
      BY <2>5 DEF PayAfresh, Schedule, ClearForRetry, PayIfEligible
    <3>2. answer' = answer /\ UNCHANGED stripe
      BY <2>5 DEF PayAfresh, Schedule, ClearForRetry, PayIfEligible
    <3>3. pc'[r] = p /\ \A q \in Requests \ {r} : pc'[q] = pc[q]
      BY <1>1, <3>1, PlaceNames, Moved
    <3> QED
      BY <3>2, <3>3, QuietOnce DEF stripe
  <2>6. CASE Start(r) \/ Suspect(r) \/ ResponseLost(r) \/ SendFails(r)
    <3>1. PICK p \in {"reconcile", "lookup", "late"} : GoTo(r, p)
      BY <2>6 DEF Start, Suspect, ResponseLost, SendFails
    <3>2. /\ landed' = landed /\ key' = key /\ (stray' => stray \/ pc[r] = "send")
          /\ \A q \in Requests \ {r} : answer'[q] = answer[q]
      <4>1. CASE SendFails(r)
        <5>1. /\ pc[r] = "send" /\ landed' = landed /\ key' = key
              /\ answer' = answer
          BY <4>1 DEF SendFails
        <5> QED
          BY <5>1
      <4>2. CASE Start(r) \/ Suspect(r) \/ ResponseLost(r)
        <5>1. UNCHANGED stripe /\ \A q \in Requests \ {r} : answer'[q] = answer[q]
          BY <1>1, <4>2 DEF Start, Suspect, ResponseLost, RequestsOK
        <5> QED
          BY <5>1 DEF stripe
      <4> QED
        BY <2>6, <4>1, <4>2
    <3>3. pc'[r] = p /\ \A q \in Requests \ {r} : pc'[q] = pc[q]
      BY <1>1, <3>1, PlaceNames, Moved
    <3> QED
      BY <3>2, <3>3, QuietOnce
  <2>7. Finish(r) \/ ~(SkipSettled(r) \/ AdoptCited(r) \/ Adopt(r) \/ Paid(r)
                         \/ GiveUp(r) \/ Crash(r))
    BY DEF SkipSettled, AdoptCited, Adopt, Paid, GiveUp, Crash
  <2> QED
    BY <1>3, <2>1, <2>2, <2>3, <2>4, <2>5, <2>6, <2>7 DEF Serve
<1>4. CASE StrayLands
  BY <1>4, LandOnce DEF StrayLands, OnlyOnce
<1>5. CASE KeyExpiry
  BY <1>5 DEF KeyExpiry, requests, OnlyOnce
<1>6. CASE \E t \in 1..landed : Reverse(t) \/ Webhook(t)
  BY <1>6 DEF Reverse, Webhook, requests, OnlyOnce
<1> QED
  BY <1>3, <1>4, <1>5, <1>6 DEF Next, Step

\* "a lost response / crash / >24h retry can NEVER double-pay": with a lookup that
\* does not fail when it alone knows of the transfer, whatever else fails and
\* however requests overlap.
THEOREM NeverDoublePaidCorrect == ASSUME ~Blind PROVE Spec => []NeverDoublePaid
<1>1. Init => OnlyOnce
  BY DEF Init, OnlyOnce
<1>2. TypeOK /\ OnlyOnce /\ [Next]_vars => OnlyOnce'
  <2>1. ASSUME TypeOK, OnlyOnce, UNCHANGED vars PROVE OnlyOnce'
    BY <2>1 DEF OnlyOnce, vars, state, stripe, requests
  <2> QED
    BY <2>1, OnceStep
<1>3. PayInv => TypeOK
  BY DEF PayInv
<1>4. OnlyOnce => NeverDoublePaid
  BY DEF OnlyOnce, NeverDoublePaid
<1> QED
  BY <1>1, <1>2, <1>3, <1>4, PayInvariant, PTL DEF Spec

=============================================================================
