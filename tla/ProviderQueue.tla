---------------------------- MODULE ProviderQueue ----------------------------
(***************************************************************************)
(* The process-wide queue in front of the address provider                 *)
(* (server/providerRequestQueue.ts): callers ask for a key, equal keys     *)
(* share one task, tasks start most urgent first under a concurrency       *)
(* ceiling and a budget of starts per second, and wait no longer than      *)
(* their deadline or the authority of who asked.                           *)
(*                                                                         *)
(* One event loop: each action is one synchronous piece of it, and the     *)
(* completion of a task runs to its finally before any caller does.  The   *)
(* item a caller owns is named after it; callers come in order, so the     *)
(* name is also the sequence number.  Priorities are small numbers, the    *)
(* statistics and events are left out.                                     *)
(***************************************************************************)
EXTENDS Naturals, Sequences, FiniteSets, Functions

CONSTANTS
  Keys,
  Priorities,      \* PROVIDER_PRIORITY
  MaxConcurrency,
  MaxPerSecond,    \* maxRequestsPerSecond
  MaxPending,      \* 20000
  MaxCallers       \* bound: calls of request()

ASSUME ProviderAssumption ==
  /\ Keys # {} /\ Priorities # {}
  /\ Priorities \subseteq Nat /\ MaxCallers \in Nat /\ MaxPending \in Nat
  /\ MaxConcurrency \in Nat \ {0} /\ MaxPerSecond \in Nat \ {0}

Callers == 1..MaxCallers
None    == 0

VARIABLES
  came,      \* how many callers have come
  caller,    \* what each asked, and what came of it
  urgency,   \* item.priority: its owner's, or that of a more urgent duplicate
  q,         \* the queue: see QueueState
  inFlight,  \* the item of each key, or None
  cached,    \* keys whose answer is kept
  paused     \* pausedUntil lies ahead

vars == <<came, caller, urgency, q, inFlight, cached, paused>>

\* late: the deadline has passed; gone: abort() says so (or throws).
Caller == [at : {"none", "waiting", "answered", "refused"}, key : Keys,
           item : 0..MaxCallers, late : BOOLEAN, gone : BOOLEAN]

\* sorted: not pendingDirty; running: this.active of them; starts: requestStarts
\* of the last second; watch, wake: expiryTimer and wakeTimer are set.
QueueState == [pending : Seq(Callers), sorted : BOOLEAN, running : SUBSET Callers,
               starts : 0..MaxPerSecond, watch : BOOLEAN, wake : BOOLEAN]

TypeOK ==
  /\ came \in 0..MaxCallers
  /\ caller \in [Callers -> Caller]
  /\ urgency \in [Callers -> Priorities]
  /\ q \in QueueState /\ Len(q.pending) <= MaxPending
  /\ inFlight \in [Keys -> 0..MaxCallers]
  /\ cached \subseteq Keys /\ paused \in BOOLEAN

\* Somebody who waits for nothing; the other fields are then of no interest.
Idle(at) == [at |-> at, key |-> CHOOSE k \in Keys : TRUE, item |-> None,
             late |-> FALSE, gone |-> FALSE]

Init ==
  /\ came = 0
  /\ caller = [c \in Callers |-> Idle("none")]
  /\ urgency = [c \in Callers |-> CHOOSE p \in Priorities : TRUE]
  /\ q = [pending |-> <<>>, sorted |-> TRUE, running |-> {}, starts |-> 0,
          watch |-> FALSE, wake |-> FALSE]
  /\ inFlight = [k \in Keys |-> None]
  /\ cached = {} /\ paused = FALSE

-----------------------------------------------------------------------------
(* pump.                                                                   *)

\* An item nobody may start any more: its owner's deadline or authority is gone.
Dead(i) == caller[i].late \/ caller[i].gone

Before(urg, i, j) == urg[i] > urg[j] \/ (urg[i] = urg[j] /\ i < j)

\* The members of S in the order of R.
Arranged(S, R) ==
  CHOOSE t \in [1..Cardinality(S) -> S] :
    \A m, n \in 1..Cardinality(S) : m < n => <<t[m], t[n]>> \in R

\* this.pending.sort; no item is there twice.
Sorted(s, urg) ==
  LET items == Range(s) IN
    Arranged(items, {ij \in items \X items : Before(urg, ij[1], ij[2])})

\* this.pending.filter: what is not dead, in the order it has.
Living(s) ==
  LET places == {m \in 1..Len(s) : ~Dead(s[m])}
      kept   == Arranged(places, {mn \in places \X places : mn[1] < mn[2]})
  IN [n \in 1..Cardinality(places) |-> s[kept[n]]]

\* The loop of pump takes the item in front as long as those it has started leave a
\* place; a dead one takes none.  This many leave a sorted sequence s:
Taken(s, places) ==
  CHOOSE n \in 0..Len(s) : \A m \in 1..Len(s) :
    m <= n <=> Cardinality({k \in 1..(m - 1) : ~Dead(s[k])}) < places

\* What pump makes of a queue; dropped: the items it refuses.
Pump(r, urg, isPaused) ==
  IF r.pending = <<>> \/ Cardinality(r.running) >= MaxConcurrency
  THEN [queue |-> r, dropped |-> {}]
  ELSE
    LET s       == IF r.sorted THEN r.pending ELSE Sorted(r.pending, urg)
        ceiling == MaxConcurrency - Cardinality(r.running)
        budget  == MaxPerSecond - r.starts
        n       == IF isPaused THEN 0
                   ELSE Taken(s, IF ceiling < budget THEN ceiling ELSE budget)
        taken   == {s[m] : m \in 1..n}
        started == {i \in taken : ~Dead(i)}
        rest    == SubSeq(s, n + 1, Len(s))
        short   == rest # <<>> /\ budget = Cardinality(started) /\ budget < ceiling
    IN [queue |-> [r EXCEPT !.pending = rest, !.sorted = TRUE,
                     !.running = @ \cup started, !.starts = @ + Cardinality(started),
                     !.wake = @ \/ isPaused \/ short],
        dropped |-> taken \ started]

\* Everybody who waits for one of these items gets the same answer.
Settled(rows, items, answer) ==
  [c \in Callers |-> IF rows[c].at = "waiting" /\ rows[c].item \in items
                     THEN Idle(answer) ELSE rows[c]]

\* inFlight without the keys of these items.
Without(flights, items) ==
  [k \in Keys |-> IF flights[k] \in items THEN None ELSE flights[k]]

\* Run pump on r and refuse what it drops, and the items in gone.
Pumping(r, urg, isPaused, flights, gone) ==
  LET p == Pump(r, urg, isPaused) IN
    /\ q' = p.queue
    /\ inFlight' = Without(flights, p.dropped \cup gone)
    /\ caller' = Settled(caller, p.dropped \cup gone, "refused")

-----------------------------------------------------------------------------
(* request.                                                                *)

Asks(c) ==
  /\ came < MaxCallers /\ c = came + 1
  /\ came' = c
  /\ UNCHANGED <<cached, paused>>

Waiting(k, i) == [at |-> "waiting", key |-> k, item |-> i, late |-> FALSE, gone |-> FALSE]

\* Answered from the cache, or refused: too late or without authority already, or
\* the queue is full.
AtOnce(c, k) ==
  /\ Asks(c)
  /\ \E at \in {"refused"} \cup IF k \in cached THEN {"answered"} ELSE {} :
       caller' = [caller EXCEPT ![c] = Idle(at)]
  /\ UNCHANGED <<urgency, q, inFlight>>

\* Mutant: an upgrade does not mark the queue for sorting.
StillSorted(i) == q.sorted

\* The queue is in order after item i has been upgraded.
SortedAfterUpgrade(i) == FALSE

\* A key that is in flight: wait with its owner, and lend it one's urgency if it
\* has not started.
Share(c, k, p) ==
  /\ Asks(c)
  /\ k \notin cached /\ inFlight[k] # None
  /\ LET i == inFlight[k] IN
       /\ caller' = [caller EXCEPT ![c] = Waiting(k, i)]
       /\ IF i \notin q.running /\ p > urgency[i]
          THEN /\ urgency' = [urgency EXCEPT ![i] = p]
               /\ q' = [q EXCEPT !.sorted = SortedAfterUpgrade(i)]
          ELSE UNCHANGED <<urgency, q>>
  /\ UNCHANGED inFlight

\* Mutant: the sweep is set up for the first item only.
WatchOnce(pending) == q.watch \/ came = 0

\* watchPending: the sweep is set up whenever something waits and it is not.
Watched(pending) == q.watch \/ pending # <<>>

\* A new key: an item of its own, and a pump.
Enqueue(c, k, p) ==
  /\ Asks(c)
  /\ k \notin cached /\ inFlight[k] = None /\ Len(q.pending) < MaxPending
  /\ urgency' = [urgency EXCEPT ![c] = p]
  /\ LET r == Pump([q EXCEPT !.pending = Append(@, c), !.sorted = FALSE],
                   urgency', paused)
     IN /\ q' = [r.queue EXCEPT !.watch = Watched(r.queue.pending)]
        /\ inFlight' = [Without(inFlight, r.dropped) EXCEPT ![k] = c]
        /\ caller' = [Settled(caller, r.dropped, "refused") EXCEPT ![c] = Waiting(k, c)]

Request == \E c \in Callers, k \in Keys :
             AtOnce(c, k) \/ \E p \in Priorities : Share(c, k, p) \/ Enqueue(c, k, p)

-----------------------------------------------------------------------------
(* The callbacks of the queue.                                             *)

\* Mutant: the key stays in flight.
KeepsKey(i) == inFlight

\* The finally of the task of i.
FreesKey(i) == Without(inFlight, {i})

\* A task ends: its answer is kept if it is worth it, its waiters are told, its
\* place is free.
Finish(i) ==
  /\ i \in q.running
  /\ LET r == Pump([q EXCEPT !.running = @ \ {i}], urgency, paused) IN
       /\ q' = r.queue
       /\ inFlight' = Without(FreesKey(i), r.dropped)
       /\ caller' = Settled(Settled(caller, {i}, "answered"), r.dropped, "refused")
  /\ \E kept \in SUBSET {caller[i].key} : cached' = cached \cup kept
  /\ UNCHANGED <<came, urgency, paused>>

\* The sweep of watchPending, every 100 ms: refuse what is dead, stop when nothing
\* is left, and pump.
Sweep ==
  /\ q.watch
  /\ LET dead == {i \in Range(q.pending) : Dead(i)}
         keep == Living(q.pending)
     IN Pumping([q EXCEPT !.pending = keep, !.watch = keep # <<>>],
                urgency, paused, inFlight, dead)
  /\ UNCHANGED <<came, urgency, cached, paused>>

\* The wake timer.
Wake ==
  /\ q.wake
  /\ Pumping([q EXCEPT !.wake = FALSE], urgency, paused, inFlight, {})
  /\ UNCHANGED <<came, urgency, cached, paused>>

\* The interval of waitForShared: somebody who shares stops waiting, without the
\* item: when gone, or when late and the item has not started.
Leave(c) ==
  /\ caller[c].at = "waiting" /\ caller[c].item # c
  /\ caller[c].gone \/ (caller[c].late /\ caller[c].item \notin q.running)
  /\ caller' = [caller EXCEPT ![c] = Idle("refused")]
  /\ UNCHANGED <<came, urgency, q, inFlight, cached, paused>>

\* pauseFor (a provider that says 429), and resume.
Pause ==
  /\ paused' = TRUE /\ q' = [q EXCEPT !.wake = TRUE]
  /\ UNCHANGED <<came, caller, urgency, inFlight, cached>>

Resume ==
  /\ paused' = FALSE
  /\ Pumping(q, urgency, FALSE, inFlight, {})
  /\ UNCHANGED <<came, urgency, cached>>

-----------------------------------------------------------------------------
(* Time and the world.                                                     *)

\* Only those who wait for something have a deadline that matters.
Late(c) ==
  /\ caller[c].at = "waiting" /\ ~caller[c].late
  /\ caller' = [caller EXCEPT ![c].late = TRUE]
  /\ UNCHANGED <<came, urgency, q, inFlight, cached, paused>>

Gone(c) ==
  /\ caller[c].at = "waiting" /\ ~caller[c].gone
  /\ caller' = [caller EXCEPT ![c].gone = TRUE]
  /\ UNCHANGED <<came, urgency, q, inFlight, cached, paused>>

PauseEnds ==
  /\ paused /\ paused' = FALSE
  /\ UNCHANGED <<came, caller, urgency, q, inFlight, cached>>

\* A start is a second old.
SecondPasses ==
  /\ q.starts > 0 /\ q' = [q EXCEPT !.starts = @ - 1]
  /\ UNCHANGED <<came, caller, urgency, inFlight, cached, paused>>

\* An entry of the cache expires or is displaced.
Forget(k) ==
  /\ k \in cached /\ cached' = cached \ {k}
  /\ UNCHANGED <<came, caller, urgency, q, inFlight, paused>>

Next ==
  \/ Request \/ Sweep \/ Wake \/ Pause \/ Resume \/ PauseEnds \/ SecondPasses
  \/ \E c \in Callers : Finish(c) \/ Leave(c) \/ Late(c) \/ Gone(c)
  \/ \E k \in Keys : Forget(k)

Spec == Init /\ [][Next]_vars

\* Timers fire, deadlines pass, and every task ends (providerTaskWaitMs); a pause
\* or a full ceiling may last for ever.
FairSpec ==
  /\ Spec
  /\ WF_vars(Sweep)
  /\ WF_vars(\E c \in Callers : Finish(c)) /\ WF_vars(\E c \in Callers : Late(c))
-----------------------------------------------------------------------------
(* Properties.                                                             *)

\* "Identical normalized addresses share one promise" and "one aggregate
\* concurrency ceiling": whatever was shared, upgraded, refused or finished, no two
\* tasks are out for one key, the key of every item leads to it, and nobody waits
\* for an item that is gone or is another key's.
OneTaskPerKey ==
  LET items == Range(q.pending) \cup q.running IN
    /\ TypeOK
    /\ \A i \in items : inFlight[caller[i].key] = i
    /\ \A k \in Keys : inFlight[k] # None => inFlight[k] \in items
    /\ \A c \in Callers : caller[c].at = "waiting" =>
         caller[c].item \in items /\ caller[caller[c].item].key = caller[c].key
    /\ Cardinality(q.running) <= MaxConcurrency
    /\ Cardinality(items) = Len(q.pending) + Cardinality(q.running)

\* "A higher-priority duplicate upgrades queued work": when a task starts, none
\* that may still start and is more urgent stays behind.
UrgentFirst ==
  [][\A i \in q'.running \ q.running, j \in Range(q'.pending) :
       ~Dead(j) => urgency'[i] >= urgency'[j]]_vars

\* What the callers of the queue may rely on (FrontDesk), which knows keys and no
\* items: what is asked, what waits and how urgently, and what is out.
AskersOf(rows) ==
  [c \in Callers |-> [at |-> rows[c].at, key |-> rows[c].key,
                      over |-> rows[c].late \/ rows[c].gone]]
KeysOf(rows, items) == {rows[i].key : i \in items}
LineOf(rows, flights, urg, items) ==
  [k \in KeysOf(rows, items) |-> urg[flights[k]]]

Desk == INSTANCE FrontDesk WITH
  Askers <- Callers, Questions <- Keys, Urgencies <- Priorities,
  Ceiling <- MaxConcurrency, Rate <- MaxPerSecond, Room <- MaxPending,
  asker <- AskersOf(caller), out <- KeysOf(caller, q.running),
  line <- LineOf(caller, inFlight, urgency, Range(q.pending)),
  recent <- q.starts, kept <- cached

\* "Identical normalized addresses share one promise", "one aggregate concurrency
\* ceiling", "a higher-priority duplicate upgrades queued work": the queue of items
\* with its sorting, its flights and its timers implements FrontDesk.
ImplementsFrontDesk == Desk!Spec

\* Every caller is answered, though the provider pauses for ever (callers are
\* bounded here, so that it is enough for the waiting to end again and again).
EverybodyIsAnswered == []<>(\A c \in Callers : caller[c].at # "waiting")
=============================================================================
