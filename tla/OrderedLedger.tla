--------------------------- MODULE OrderedLedger ----------------------------
(***************************************************************************)
(* What the incentive event queue promises, whatever processes drain it:   *)
(* the ledger is written strictly in event order.  Only the first event    *)
(* that is not settled may write rows, each of its rows once; then it is   *)
(* settled, by its own success or by an operator, and never written for    *)
(* again.                                                                  *)
(***************************************************************************)
EXTENDS DomainEvents

CONSTANTS Campaigns, MaxEvents

Ids == 1..MaxEvents

VARIABLES
  log,        \* the events, in order
  settled,    \* how many of them, from the first, are settled
  awards,     \* award rows of each campaign and event
  clawbacks   \* clawback rows of each campaign, award event and later event

orderedVars == <<log, settled, awards, clawbacks>>

Init ==
  /\ log = <<>>
  /\ settled = 0
  /\ awards = [c \in Campaigns |-> [e \in Ids |-> 0]]
  /\ clawbacks = [c \in Campaigns |-> [a \in Ids |-> [x \in Ids |-> 0]]]

Record ==
  /\ \E ty \in EventTypes, s \in Sales : log' = EmitTo(log, ty, s)
  /\ UNCHANGED <<settled, awards, clawbacks>>

\* Rows appear once, and only for event e.
OnlyRowsOf(e) ==
  \A c \in Campaigns, a \in Ids :
    /\ awards'[c][a] # awards[c][a] =>
         a = e /\ awards[c][a] = 0 /\ awards'[c][a] = 1
    /\ \A x \in Ids : clawbacks'[c][a][x] # clawbacks[c][a][x] =>
         x = e /\ clawbacks[c][a][x] = 0 /\ clawbacks'[c][a][x] = 1

\* The first unsettled event writes, is settled, or both at once.
Work ==
  /\ settled < Len(log)
  /\ OnlyRowsOf(settled + 1)
  /\ settled' \in {settled, settled + 1}
  /\ log' = log

Next == Record \/ Work

Spec == Init /\ [][Next]_orderedVars
=============================================================================
