------------------------- MODULE IncentivePipeline --------------------------
(***************************************************************************)
(* The path of the money from a sale to the incentive ledger: requests     *)
(* change the status of sales and emit events (SaleLifecycle), and the     *)
(* drains turn the events into awards and clawbacks (EventQueue).  The two *)
(* share the event log, and nothing else.                                  *)
(***************************************************************************)
EXTENDS EventQueue, Integers

CONSTANTS Requests, NoSale, Faults

ASSUME PipelineAssumption ==
  NoSale \notin Sales /\ Faults \in BOOLEAN /\ IsFiniteSet(Requests)

VARIABLES
  sale, step, req,
  broken            \* history: a request has ended half way

Sale == INSTANCE SaleLifecycle

pipeline == <<vars, sale, step, req, broken>>

PipelineInit == Init /\ Sale!Init /\ broken = FALSE

\* The bound of the log: a request begins only while there is room for the
\* events of all requests in flight.
Room == Len(log) + Cardinality({r \in Requests : step[r] # "idle"}) < MaxEvents

SaleStep ==
  /\ \E r \in Requests :
       \/ (Room /\ Sale!Begin(r)) /\ UNCHANGED broken
       \/ Sale!Serve(r) /\ UNCHANGED broken
       \/ Sale!Abandon(r) /\ broken' = TRUE
  /\ UNCHANGED <<cursor, queue, ledger, workers, spent>>

QueueStep == Drain /\ UNCHANGED <<sale, step, req, broken>>

PipelineNext == SaleStep \/ QueueStep

PipelineSpec == PipelineInit /\ [][PipelineNext]_pipeline

-----------------------------------------------------------------------------
\* The queue is drained: every event is behind the cursor and was processed,
\* none was set aside by an operator.
Drained ==
  /\ cursor = Len(log)
  /\ \A e \in 1..Len(log) : status[e] = "completed"

Net(c, s) ==
  LET OfSale == {e \in 1..Len(log) : log[e].sale = s} IN
    Cardinality({a \in OfSale : awards[c][a] > 0})
      - Cardinality({ax \in OfSale \X OfSale : clawbacks[c][ax[1]][ax[2]] > 0})

\* The events tell the story of the sales, in the order the drains rely on: while
\* requests run to their end and none overlap, each sale at rest has the events of
\* the transitions it went through (emitSaleLifecycleEvents), the approval before
\* the cancellation, however often it changes hands.
SalesAreLogged ==
  /\ TypeOK /\ Sale!TypeOK
  /\ ~broken => /\ Sale!FactHasEvent /\ Sale!ReversalHasEvent
                /\ Sale!ApprovalLoggedFirst

\* End to end: when no request is at work on a sale that is not QUALIFIED and
\* the queue is drained, a clawing campaign has left the rep nothing for it,
\* and has not taken more than it gave, unless a request has ended half way.
NothingKeptForLostSale ==
  \A c \in Clawing, s \in Sales :
    ~broken /\ Drained /\ Sale!AtRest(s) /\ sale[s] # "QUALIFIED" => Net(c, s) = 0
=============================================================================
