--------------------------- MODULE GuardedActions ---------------------------
(***************************************************************************)
(* Guarded actions: a change somebody requests is executed, queued for a   *)
(* second person or refused, as the organization's policy says, and may be *)
(* undone later (server/guardedActionEngine.ts over guardedActionStore.ts, *)
(* the policy rules of shared/guardedActions.ts, and the lead.reassign     *)
(* executor of guardedActionExecutors.ts).                                 *)
(*                                                                         *)
(* The engine opens no transaction: a request is a sequence of statements  *)
(* that commit one by one, and the cluster's worker processes serve        *)
(* requests on one database at the same time.  All actions below reassign  *)
(* the same door, which others reassign too, outside the gate.             *)
(***************************************************************************)
EXTENDS Naturals, FiniteSets

CONSTANTS
  Procs,        \* worker processes, each serving one request at a time
  Actions,      \* requested changes, each with its idempotency key
  Large,        \* the actions whose magnitude exceeds the automatic limit
  Users,
  NoUser,
  MaxEdits,     \* bound: no edit outside the gate after this many versions
  FaultBudget   \* bound: crashes, and statements that throw

ASSUME GuardedActionsAssumption ==
  /\ Actions # {} /\ Large \subseteq Actions
  /\ NoUser \notin Users
  /\ MaxEdits \in Nat
  /\ FaultBudget \in Nat

VARIABLES
  act,      \* guarded_actions: the row of each action
  policy,   \* guarded_action_policies: the live policy
  target,   \* the version of the door: its assigned_rep_id and assigned_at
  clock,    \* the last version made: no two changes have one assigned_at
  wrote,    \* history: the versions an action's execute() made
  undid,    \* history: how often an action's reverse() ran
  pc,       \* where each process is
  job,      \* the request it serves, and what it has read
  faults    \* faults so far

vars == <<act, policy, target, clock, wrote, undid, pc, job, faults>>

\* "limited" is mode auto with an approvalAboveMagnitude.
Policies == [mode : {"auto", "limited", "approval", "deny"}, self : BOOLEAN]

States == {"none", "pending", "approved", "rejected", "expired", "executed",
           "failed", "undone"}

\* gate and self are the verdict and the policy snapshot the row keeps, inverse
\* and print what its execution left behind; due: expires_at has passed.
NoRow == [state |-> "none", by |-> NoUser, decider |-> NoUser,
          gate |-> "deny", self |-> FALSE, due |-> FALSE,
          inverse |-> 0, print |-> 0]

Verbs == {"none", "approve", "reject", "expire"}

NoJob == [action |-> CHOOSE a \in Actions : TRUE, user |-> NoUser,
          verb |-> "none", gate |-> "deny", self |-> FALSE,
          before |-> 0, print |-> 0]

TypeOK ==
  /\ act \in [Actions -> [state : States, by : Users \cup {NoUser},
                          decider : Users \cup {NoUser},
                          gate : {"execute", "approval", "deny"},
                          self : BOOLEAN, due : BOOLEAN,
                          inverse : Nat, print : Nat]]
  /\ policy \in Policies
  /\ clock \in Nat /\ target \in 0..clock
  /\ wrote \in [Actions -> SUBSET (1..clock)]
  /\ undid \in [Actions -> Nat]
  /\ pc \in [Procs -> {"idle", "create", "decide", "run", "write", "print",
                       "record", "fail", "drift", "reverse", "undone"}]
  /\ job \in [Procs -> [action : Actions, user : Users \cup {NoUser},
                        verb : Verbs, gate : {"execute", "approval", "deny"},
                        self : BOOLEAN, before : Nat, print : Nat]]
  /\ faults \in 0..FaultBudget

Init ==
  /\ act = [a \in Actions |-> NoRow]
  /\ policy \in Policies
  /\ target = 0 /\ clock = 0
  /\ wrote = [a \in Actions |-> {}]
  /\ undid = [a \in Actions |-> 0]
  /\ pc = [p \in Procs |-> "idle"]
  /\ job = [p \in Procs |-> NoJob]
  /\ faults = 0

Fault == faults < FaultBudget /\ faults' = faults + 1

GoTo(p, where) == pc' = [pc EXCEPT ![p] = where]

\* The request is over: nothing it read is used again.
Finish(p) == GoTo(p, "idle") /\ job' = [job EXCEPT ![p] = NoJob]

Row(p) == act[job[p].action]

\* transition(): UPDATE ... WHERE state = expected, so that the loser of a race
\* writes nothing.
Moved(p, expected) == Row(p).state = expected

-----------------------------------------------------------------------------
(* Submit.                                                                 *)

\* decideGate.
Gate(pol, a) ==
  CASE pol.mode = "deny" -> "deny"
    [] pol.mode = "approval" \/ (pol.mode = "limited" /\ a \in Large) -> "approval"
    [] OTHER -> "execute"

\* No row has the idempotency key, and the preflight passes: judge the request
\* by the policy of this moment.
Submit(p) ==
  /\ pc[p] = "idle"
  /\ \E a \in Actions, u \in Users :
       /\ act[a].state = "none"
       /\ job' = [job EXCEPT ![p].action = a, ![p].user = u,
                             ![p].gate = Gate(policy, a),
                             ![p].self = policy.self]
  /\ GoTo(p, "create")
  /\ UNCHANGED <<act, policy, target, clock, wrote, undid, faults>>

Judged == [execute |-> "approved", approval |-> "pending", deny |-> "rejected"]

\* createAction; the unique index refuses a second row for the key.
Create(p) ==
  /\ pc[p] = "create"
  /\ IF Moved(p, "none")
     THEN /\ act' = [act EXCEPT ![job[p].action] =
                       [NoRow EXCEPT !.state = Judged[job[p].gate],
                                     !.by = job[p].user, !.gate = job[p].gate,
                                     !.self = job[p].self]]
          /\ IF job[p].gate = "execute"
             THEN GoTo(p, "run") /\ job' = job
             ELSE Finish(p)
     ELSE act' = act /\ Finish(p)
  /\ UNCHANGED <<policy, target, clock, wrote, undid, faults>>

-----------------------------------------------------------------------------
(* Approve, reject, and the expiry sweep.                                  *)

\* Mutant: the live policy says who may approve.
MayDecideLive(a, u, verb) ==
  CASE verb = "approve" -> ~act[a].due /\ (policy.self \/ u # act[a].by)
    [] verb = "expire" -> act[a].due
    [] OTHER -> verb = "reject"

\* approveAction: not its requester, unless the snapshot of the policy allows
\* it; an expired request is expired instead.
MayDecide(a, u, verb) ==
  CASE verb = "approve" -> ~act[a].due /\ (act[a].self \/ u # act[a].by)
    [] verb = "expire" -> act[a].due
    [] OTHER -> verb = "reject"

ReadPending(p) ==
  /\ pc[p] = "idle"
  /\ \E a \in Actions, u \in Users, verb \in Verbs :
       /\ act[a].state = "pending"
       /\ MayDecide(a, u, verb)
       /\ job' = [job EXCEPT ![p].action = a, ![p].user = u, ![p].verb = verb]
  /\ GoTo(p, "decide")
  /\ UNCHANGED <<act, policy, target, clock, wrote, undid, faults>>

Decided == [approve |-> "approved", reject |-> "rejected", expire |-> "expired"]

\* Mutant: the decision is written whatever state the row is in.
DecideAnyway(p) ==
  /\ pc[p] = "decide"
  /\ act' = [act EXCEPT ![job[p].action].state = Decided[job[p].verb],
                        ![job[p].action].decider = job[p].user]
  /\ IF job[p].verb = "approve" THEN GoTo(p, "run") /\ job' = job ELSE Finish(p)
  /\ UNCHANGED <<policy, target, clock, wrote, undid, faults>>

Decide(p) ==
  /\ pc[p] = "decide"
  /\ IF Moved(p, "pending")
     THEN /\ act' = [act EXCEPT ![job[p].action].state = Decided[job[p].verb],
                                ![job[p].action].decider =
                                  IF job[p].verb = "expire" THEN @ ELSE job[p].user]
          /\ IF job[p].verb = "approve"
             THEN GoTo(p, "run") /\ job' = job
             ELSE Finish(p)
     ELSE act' = act /\ Finish(p)
  /\ UNCHANGED <<policy, target, clock, wrote, undid, faults>>

-----------------------------------------------------------------------------
(* runExecution.                                                           *)

\* The second preflight, and execute() reading what its inverse will restore.
Preflight(p) ==
  /\ pc[p] = "run"
  /\ \/ GoTo(p, "write") /\ job' = [job EXCEPT ![p].before = target]
     \/ GoTo(p, "fail") /\ job' = job
  /\ UNCHANGED <<act, policy, target, clock, wrote, undid, faults>>

\* execute() writes the door.
Write(p) ==
  /\ pc[p] = "write"
  /\ clock' = clock + 1
  /\ target' = clock + 1
  /\ wrote' = [wrote EXCEPT ![job[p].action] = @ \cup {clock + 1}]
  /\ GoTo(p, "print")
  /\ UNCHANGED <<act, policy, undid, job, faults>>

\* safeFingerprint: one that cannot be computed is recorded as empty.
Fingerprint(p) ==
  /\ pc[p] = "print"
  /\ \/ job' = [job EXCEPT ![p].print = target] /\ faults' = faults
     \/ Fault /\ job' = job
  /\ GoTo(p, "record")
  /\ UNCHANGED <<act, policy, target, clock, wrote, undid>>

Record(p) ==
  /\ pc[p] = "record"
  /\ act' = IF Moved(p, "approved")
            THEN [act EXCEPT ![job[p].action].state = "executed",
                             ![job[p].action].inverse = job[p].before,
                             ![job[p].action].print = job[p].print]
            ELSE act
  /\ Finish(p)
  /\ UNCHANGED <<policy, target, clock, wrote, undid, faults>>

\* One of these statements throws, and runExecution catches it.
Throw(p) ==
  /\ pc[p] \in {"write", "record"}
  /\ Fault
  /\ GoTo(p, "fail")
  /\ UNCHANGED <<act, policy, target, clock, wrote, undid, job>>

Fail(p) ==
  /\ pc[p] = "fail"
  /\ act' = IF Moved(p, "approved")
            THEN [act EXCEPT ![job[p].action].state = "failed"]
            ELSE act
  /\ Finish(p)
  /\ UNCHANGED <<policy, target, clock, wrote, undid, faults>>

-----------------------------------------------------------------------------
(* undoAction.  Its window is taken to be open.                            *)

Undo(p) ==
  /\ pc[p] = "idle"
  /\ \E a \in Actions :
       /\ act[a].state = "executed"
       /\ job' = [job EXCEPT ![p].action = a, ![p].before = act[a].inverse,
                             ![p].print = act[a].print]
  /\ GoTo(p, "drift")
  /\ UNCHANGED <<act, policy, target, clock, wrote, undid, faults>>

\* "post_fingerprint && current !== post_fingerprint"
Drifted(p) == job[p].print # 0 /\ target # job[p].print

\* Mutant: the action is marked undone before it is reversed.
CheckDriftMarking(p) ==
  /\ pc[p] = "drift"
  /\ IF Drifted(p)
     THEN Finish(p) /\ act' = act
     ELSE /\ GoTo(p, "reverse") /\ job' = job
          /\ act' = [act EXCEPT ![job[p].action].state = "undone"]
  /\ UNCHANGED <<policy, target, clock, wrote, undid, faults>>

CheckDrift(p) ==
  /\ pc[p] = "drift"
  /\ IF Drifted(p) THEN Finish(p) ELSE GoTo(p, "reverse") /\ job' = job
  /\ UNCHANGED <<act, policy, target, clock, wrote, undid, faults>>

Reverse(p) ==
  /\ pc[p] = "reverse"
  /\ target' = job[p].before
  /\ undid' = [undid EXCEPT ![job[p].action] = @ + 1]
  /\ GoTo(p, "undone")
  /\ UNCHANGED <<act, policy, clock, wrote, job, faults>>

MarkUndone(p) ==
  /\ pc[p] = "undone"
  /\ act' = IF Moved(p, "executed")
            THEN [act EXCEPT ![job[p].action].state = "undone"]
            ELSE act
  /\ Finish(p)
  /\ UNCHANGED <<policy, target, clock, wrote, undid, faults>>

-----------------------------------------------------------------------------
(* The world around the gate.                                              *)

\* The process dies, or a statement throws where nothing catches it.
Crash(p) ==
  /\ pc[p] # "idle"
  /\ Fault
  /\ Finish(p)
  /\ UNCHANGED <<act, policy, target, clock, wrote, undid>>

\* Somebody reassigns the door outside the gate.
Edit ==
  /\ clock < MaxEdits
  /\ clock' = clock + 1
  /\ target' = clock + 1
  /\ UNCHANGED <<act, policy, wrote, undid, pc, job, faults>>

SavePolicy ==
  /\ policy' \in Policies
  /\ UNCHANGED <<act, target, clock, wrote, undid, pc, job, faults>>

DeadlinePasses(a) ==
  /\ act[a].state = "pending" /\ ~act[a].due
  /\ act' = [act EXCEPT ![a].due = TRUE]
  /\ UNCHANGED <<policy, target, clock, wrote, undid, pc, job, faults>>

Serve(p) ==
  \/ Submit(p)     \/ Create(p)      \/ ReadPending(p) \/ Decide(p)
  \/ Preflight(p)  \/ Write(p)       \/ Fingerprint(p) \/ Record(p)
  \/ Throw(p)      \/ Fail(p)        \/ Undo(p)        \/ CheckDrift(p)
  \/ Reverse(p)    \/ MarkUndone(p)  \/ Crash(p)

Next ==
  \/ \E p \in Procs : Serve(p)
  \/ Edit \/ SavePolicy
  \/ \E a \in Actions : DeadlinePasses(a)

Spec == Init /\ [][Next]_vars

-----------------------------------------------------------------------------
(* Properties.                                                             *)

\* "A lost race is a clear message, not a second execution": whoever approves,
\* rejects, expires or submits again at the same moment, an action runs once.
ExecutesOnce == \A a \in Actions : Cardinality(wrote[a]) <= 1

\* "An approval queue one person can clear alone is a log, not a control": an
\* action runs by itself only within the automatic limits of the policy it was
\* judged under, and otherwise on the decision of somebody who was not its
\* requester, unless that policy allowed self-approval; flipping the live policy
\* afterwards legitimises nothing.
SecondPerson ==
  \A a \in Actions : wrote[a] # {} =>
    \/ act[a].gate = "execute" /\ act[a].decider = NoUser
    \/ /\ act[a].gate = "approval" /\ act[a].decider # NoUser
       /\ act[a].self \/ act[a].decider # act[a].by

\* The history is true: an action ran at most once, one shown as executed or
\* undone has run, one shown as undone was reversed, and "a rejected or expired
\* action never touched the database", wherever a process died.
HistoryIsTrue ==
  TypeOK /\ ExecutesOnce /\ \A a \in Actions :
    /\ act[a].state \in {"executed", "undone"} => wrote[a] # {}
    /\ act[a].state \in {"none", "pending", "rejected", "expired"} => wrote[a] = {}
    /\ act[a].state = "undone" => undid[a] > 0

\* What the rows promise to those who read them (Consent): one judgement, one
\* decision by the right person and on time, one execution and only with leave, and
\* a state that is true when it is written and never rewritten.
Book == [a \in Actions |->
           [stage |-> act[a].state, by |-> act[a].by, gate |-> act[a].gate,
            self |-> act[a].self, decider |-> act[a].decider, due |-> act[a].due]]

Made == [a \in Actions |-> Cardinality(wrote[a])]

Reversed == {a \in Actions : undid[a] > 0}

Promise == INSTANCE Consent WITH
  Changes <- Actions, People <- Users, Nobody <- NoUser,
  book <- Book, made <- Made, reversed <- Reversed

\* The engine implements Consent.
ImplementsConsent == Promise!Spec

\* "Undo refuses on drift": what a reversal overwrites is what the action itself
\* wrote, never somebody else's later edit.
UndoKeepsLaterEdits ==
  [][\A a \in Actions : undid'[a] # undid[a] => target \in wrote[a]]_vars
=============================================================================
