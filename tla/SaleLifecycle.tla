--------------------------- MODULE SaleLifecycle ----------------------------
(***************************************************************************)
(* The two doors onto a commission sale's status, transitionSale and       *)
(* upsertSale (server/commissionService.ts), and the domain events they    *)
(* emit.  Every request runs four statements that commit one by one: read  *)
(* the sale, write its new status, read it back, emit the event that       *)
(* matches the transition.  Cluster workers serve requests in parallel on  *)
(* one database, so the statements of two requests interleave.             *)
(*                                                                         *)
(* The guards on dates and pay weeks refuse a request before it writes, so *)
(* a refused request leaves no trace here.  The overrides and statements   *)
(* that both doors reconcile after the event are other tables, written     *)
(* from the sale and read by nothing below.                                *)
(***************************************************************************)
EXTENDS DomainEvents

CONSTANTS
  Requests,   \* requests in flight at the same time
  NoSale,
  Faults      \* may emit() throw, or the process die, after the status write?

VARIABLES
  log,    \* domain_events
  sale,   \* commission_sales.status of each sale
  step,   \* where each request is
  req     \* the sale, the target status and the status(es) a request has read

saleVars == <<sale, step, req>>

\* REVERSED stands for every status a live sale can be taken to: REVERSED,
\* DISQUALIFIED and CANCELLED have the same effect on the event log.
SaleStatuses == {"PENDING", "QUALIFIED", "REVERSED"}

NoRequest == [sale |-> NoSale, to |-> "PENDING", prev |-> "PENDING",
              now |-> "PENDING"]

TypeOK ==
  /\ log \in Seq(Event)
  /\ sale \in [Sales -> SaleStatuses]
  /\ step \in [Requests -> {"idle", "write", "readback", "emit"}]
  /\ req \in [Requests -> [sale : Sales \cup {NoSale}, to : SaleStatuses,
                           prev : SaleStatuses, now : SaleStatuses]]

Init ==
  /\ log = <<>>
  /\ sale = [s \in Sales |-> "PENDING"]
  /\ step = [r \in Requests |-> "idle"]
  /\ req = [r \in Requests |-> NoRequest]

\* Read the row: emitSaleLifecycleEvents will compare with what was read here.
\* upsertSale takes any status from its caller, transitionSale all but PENDING.
Begin(r) ==
  /\ step[r] = "idle"
  /\ \E s \in Sales, to \in SaleStatuses :
       req' = [req EXCEPT ![r] = [sale |-> s, to |-> to, prev |-> sale[s],
                                  now |-> sale[s]]]
  /\ step' = [step EXCEPT ![r] = "write"]
  /\ UNCHANGED <<log, sale>>

WriteStatus(r) ==
  /\ step[r] = "write"
  /\ sale' = [sale EXCEPT ![req[r].sale] = req[r].to]
  /\ step' = [step EXCEPT ![r] = "readback"]
  /\ UNCHANGED <<log, req>>

ReadBack(r) ==
  /\ step[r] = "readback"
  /\ req' = [req EXCEPT ![r].now = sale[req[r].sale]]
  /\ step' = [step EXCEPT ![r] = "emit"]
  /\ UNCHANGED <<log, sale>>

\* Mutant: a cancellation only back to PENDING.
CancelsToPending(q) == q.prev = "QUALIFIED" /\ q.now = "PENDING"

\* Emitted on the transition between the two statuses the request has seen.
Approves(q) == q.now = "QUALIFIED" /\ q.prev # "QUALIFIED"

Cancels(q) == q.prev = "QUALIFIED" /\ q.now # "QUALIFIED"

EmitEvent(r) ==
  /\ step[r] = "emit"
  /\ log' = IF Approves(req[r]) THEN EmitTo(log, "SALE_APPROVED", req[r].sale)
            ELSE IF Cancels(req[r])
            THEN EmitTo(log, "SALE_CANCELLED", req[r].sale)
            ELSE log
  /\ step' = [step EXCEPT ![r] = "idle"]
  /\ req' = [req EXCEPT ![r] = NoRequest]
  /\ UNCHANGED sale

\* emit() throws and is caught, or the process dies: the status write stays.
Abandon(r) ==
  /\ Faults
  /\ step[r] # "idle"
  /\ step' = [step EXCEPT ![r] = "idle"]
  /\ req' = [req EXCEPT ![r] = NoRequest]
  /\ UNCHANGED <<log, sale>>

Serve(r) == WriteStatus(r) \/ ReadBack(r) \/ EmitEvent(r)

Next == \E r \in Requests : Begin(r) \/ Serve(r) \/ Abandon(r)

Spec == Init /\ [][Next]_<<log, saleVars>>

-----------------------------------------------------------------------------
AtRest(s) == \A r \in Requests : req[r].sale # s

\* "A database event and required local effects commit together" (ADR 0003):
\* a sale that is QUALIFIED with no request at work on it has its
\* SALE_APPROVED event.
FactHasEvent ==
  \A s \in Sales :
    AtRest(s) /\ sale[s] = "QUALIFIED" => Logged(log, "SALE_APPROVED", s)

\* The reversal half: a sale that was approved and is no longer QUALIFIED has
\* its SALE_CANCELLED event, or nothing ever reverses its awards.
ReversalHasEvent ==
  \A s \in Sales :
    /\ AtRest(s) /\ sale[s] # "QUALIFIED"
    /\ Logged(log, "SALE_APPROVED", s)
    => Logged(log, "SALE_CANCELLED", s)

\* The order the subscriber relies on is the order of the log: no sale's
\* cancellation is recorded before its approval.
ApprovalLoggedFirst ==
  \A i, j \in 1..Len(log) :
    /\ log[i].type = "SALE_CANCELLED"
    /\ log[j] = [type |-> "SALE_APPROVED", sale |-> log[i].sale]
    => j < i
=============================================================================
