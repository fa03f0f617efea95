---------------------------- MODULE DomainEvents ----------------------------
(***************************************************************************)
(* The durable half of the domain event log (server/domainEventStore.ts):  *)
(* an append-only table whose dedupe index makes emit() idempotent, and    *)
(* the cursor a subscriber pulls it with.  Only the two events a sale's    *)
(* lifecycle emits are represented; the id of an event is its position.    *)
(***************************************************************************)
EXTENDS Naturals, Sequences

CONSTANT Sales      \* the sales whose lifecycle feeds the log

EventTypes == {"SALE_APPROVED", "SALE_CANCELLED"}

Event == [type : EventTypes, sale : Sales]

Logged(log, ty, s) ==
  \E i \in 1..Len(log) : log[i] = [type |-> ty, sale |-> s]

\* emit: INSERT ... ON CONFLICT(tenant_id, dedupe_key) DO NOTHING, where the
\* dedupe key of a sale event is its type and its sale (eventDedupeKey).
EmitTo(log, ty, s) ==
  IF Logged(log, ty, s) THEN log ELSE Append(log, [type |-> ty, sale |-> s])

\* advanceCursor: MAX(event_subscriptions.last_event_id, excluded...).
Advanced(cursor, n) == IF n > cursor THEN n ELSE cursor
=============================================================================
