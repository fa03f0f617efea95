---------------------------- MODULE PrimaryLease ----------------------------
(***************************************************************************)
(* The lease that elects the node of a fleet that produces scan work       *)
(* (server/primaryNodeLease.ts) and its caller at boot (server/index.ts).  *)
(*                                                                         *)
(* Time is discrete and the lease counts down: left is expires_at less the *)
(* time now, and skew is how far the clock of a node runs ahead, so that   *)
(* expires_at as node n writes it lies TTL + skew[n] from now.  A renewal  *)
(* that throws changes nothing and is no step; a node that stalls takes    *)
(* none.                                                                   *)
(***************************************************************************)
EXTENDS Naturals

CONSTANTS
  Nodes,
  Nobody,   \* no row in cluster_primary_lease
  TTL,      \* LEASE_TTL_MS
  MaxSkew   \* how far two clocks differ at most

ASSUME LeaseAssumption ==
  /\ Nobody \notin Nodes
  /\ TTL \in Nat /\ MaxSkew \in Nat
  /\ MaxSkew < TTL   \* clocks as far apart as a lease is long elect nobody

VARIABLES
  skew,
  holder,     \* holder of the row
  left,       \* what is left of the lease, down to 0
  up,         \* the node runs
  primary,    \* isPrimary, as the node remembers it
  producing,  \* the node has started its producers
  silent,     \* history: time since the node last heard from the database
  lapsed      \* history: it was silent too long to be sure, since it booted

leaseVars == <<skew, holder, left, up, primary, producing, silent, lapsed>>

LeaseTypeOK ==
  /\ skew \in [Nodes -> 0..MaxSkew]
  /\ holder \in Nodes \cup {Nobody} /\ left \in Nat
  /\ up \in [Nodes -> BOOLEAN] /\ primary \in [Nodes -> BOOLEAN]
  /\ producing \in [Nodes -> BOOLEAN]
  /\ silent \in [Nodes -> 0..TTL] /\ lapsed \in [Nodes -> BOOLEAN]

LeaseInit ==
  /\ skew \in [Nodes -> 0..MaxSkew]
  /\ holder = Nobody /\ left = 0
  /\ up = [n \in Nodes |-> FALSE] /\ primary = [n \in Nodes |-> FALSE]
  /\ producing = [n \in Nodes |-> FALSE]
  /\ silent = [n \in Nodes |-> TTL] /\ lapsed = [n \in Nodes |-> FALSE]

\* Mutant: a lease is taken a moment before it ends.
FreeEarly(n) == holder = Nobody \/ left <= skew[n] + 1

\* Mutant: a lease that has run out is still its holder's.
FreeOnce(n) == holder = Nobody

\* No row, or expires_at <= @now by the clock of n.
Free(n) == holder = Nobody \/ left <= skew[n]

\* tryAcquirePrimaryOn: the upsert, and what is then read back.
Acquire(n) ==
  LET wins == Free(n) \/ holder = n IN
    /\ holder' = IF wins THEN n ELSE holder
    /\ left' = IF wins THEN TTL + skew[n] ELSE left
    /\ primary' = [primary EXCEPT ![n] = wins]
    /\ silent' = [silent EXCEPT ![n] = 0]

\* startPrimaryElection at boot; only its answer starts the producers.
Boot(n) ==
  /\ ~up[n] /\ up' = [up EXCEPT ![n] = TRUE]
  /\ Acquire(n)
  /\ producing' = [producing EXCEPT ![n] = primary'[n]]
  /\ lapsed' = [lapsed EXCEPT ![n] = FALSE]
  /\ UNCHANGED skew

\* The same when the database throws: a lone node assumes it is primary.
BootBlind(n) ==
  /\ ~up[n] /\ up' = [up EXCEPT ![n] = TRUE]
  /\ primary' = [primary EXCEPT ![n] = TRUE]
  /\ producing' = [producing EXCEPT ![n] = TRUE]
  /\ lapsed' = [lapsed EXCEPT ![n] = TRUE]
  /\ UNCHANGED <<skew, holder, left, silent>>

\* The renewal timer.
Renew(n) ==
  /\ up[n] /\ Acquire(n)
  /\ UNCHANGED <<skew, up, producing, lapsed>>

Stop(n) ==
  /\ up[n]
  /\ up' = [up EXCEPT ![n] = FALSE] /\ primary' = [primary EXCEPT ![n] = FALSE]
  /\ producing' = [producing EXCEPT ![n] = FALSE]
  /\ silent' = [silent EXCEPT ![n] = TTL]
  /\ UNCHANGED <<skew, holder, left, lapsed>>

Tick ==
  /\ left' = IF left > 0 THEN left - 1 ELSE 0
  /\ silent' = [n \in Nodes |-> IF silent[n] < TTL THEN silent[n] + 1 ELSE TTL]
  /\ lapsed' = [n \in Nodes |-> lapsed[n] \/ silent'[n] + MaxSkew >= TTL]
  /\ UNCHANGED <<skew, holder, up, primary, producing>>

LeaseNext == Tick \/ \E n \in Nodes : Boot(n) \/ BootBlind(n) \/ Renew(n) \/ Stop(n)

LeaseSpec == LeaseInit /\ [][LeaseNext]_leaseVars

\* Time passes, and a node that stays up renews again and again.
LeaseFairSpec == LeaseSpec /\ WF_leaseVars(Tick) /\ \A n \in Nodes : WF_leaseVars(Renew(n))

-----------------------------------------------------------------------------
(* Properties.                                                             *)

\* n was told that it is primary, so lately that no clock can have run out on it.
Sure(n) == primary[n] /\ silent[n] + MaxSkew < TTL

\* "elects ONE node to run producers": of the nodes that have heard from the
\* database lately enough, whatever stalled, failed to renew, restarted or came up
\* blind, at most one thinks it is primary; and of those that always have since they
\* booted, at most one runs producers.  (Producers are never stopped: a node that
\* lapses once and recovers may produce beside its successor.)
OnePrimary ==
  \A n, m \in Nodes :
    \/ Sure(n) /\ Sure(m)
    \/ producing[n] /\ ~lapsed[n] /\ producing[m] /\ ~lapsed[m]
    => n = m

\* "If the holder dies, another node takes over once the lease goes stale": while
\* any node stays up, some node is primary again and again.  (It is then primary;
\* producers it starts only at its next boot.)
TakenOver ==
  \A n \in Nodes : <>[]up[n] => []<>(\E m \in Nodes : primary[m] /\ holder = m)
=============================================================================
