--------------------------- MODULE GuardedProofs ---------------------------
(***************************************************************************)
(* Guarded actions, for any number of worker processes, actions and users: *)
(* an action runs once, on the decision the policy it was judged under     *)
(* calls for, and its row tells what became of it.                         *)
(***************************************************************************)
EXTENDS GuardedActions, FiniteSetTheorems, TLAPS

USE GuardedActionsAssumption

RowType ==
  [state : States, by : Users \cup {NoUser}, decider : Users \cup {NoUser},
   gate : {"execute", "approval", "deny"}, self : BOOLEAN, due : BOOLEAN,
   inverse : Nat, print : Nat]

JobType ==
  [action : Actions, user : Users \cup {NoUser}, verb : Verbs,
   gate : {"execute", "approval", "deny"}, self : BOOLEAN, before : Nat,
   print : Nat]

Steps == {"idle", "create", "decide", "run", "write", "print", "record", "fail",
          "drift", "reverse", "undone"}

\* A process in runExecution.
Running == {"run", "write", "print", "record", "fail"}

\* The states of an action that was let through.
Passed == {"approved", "executed", "failed", "undone"}

\* The decision the policy called for.
Authorized(r) ==
  \/ r.gate = "execute" /\ r.decider = NoUser
  \/ r.gate = "approval" /\ r.decider # NoUser /\ (r.self \/ r.decider # r.by)

\* What a row says of an action, with what was done for it.
RowOK(a) ==
  /\ act[a].inverse <= clock
  /\ act[a].state = "pending" => act[a].gate = "approval" /\ act[a].decider = NoUser
  /\ act[a].state \in Passed => Authorized(act[a])
  /\ wrote[a] # {} => act[a].state \in Passed
  /\ act[a].state \in {"executed", "undone"} => wrote[a] # {}
  /\ act[a].state = "undone" => undid[a] > 0
  /\ \A x, y \in wrote[a] : x = y

\* What a process knows of the action it works on.
JobOK(p) ==
  /\ job[p].before <= clock
  /\ pc[p] \in Running => act[job[p].action].state = "approved"
  /\ pc[p] \in {"run", "write"} => wrote[job[p].action] = {}
  /\ pc[p] \in {"print", "record"} => wrote[job[p].action] # {}
  /\ pc[p] = "undone" => undid[job[p].action] > 0
  /\ pc[p] = "decide" =>
       /\ act[job[p].action].state # "none" /\ job[p].verb # "none"
       /\ job[p].verb = "approve" =>
            /\ job[p].user \in Users
            /\ act[job[p].action].self \/ job[p].user # act[job[p].action].by

\* No two processes run one action.
Alone ==
  \A p, q \in Procs :
    /\ pc[p] \in Running /\ pc[q] \in Running
    /\ job[p].action = job[q].action
    => p = q

GuardInv ==
  /\ TypeOK
  /\ \A a \in Actions : RowOK(a)
  /\ \A p \in Procs : JobOK(p)
  /\ Alone

LEMMA Types ==
  ASSUME TypeOK
  PROVE  /\ act \in [Actions -> RowType] /\ job \in [Procs -> JobType]
         /\ pc \in [Procs -> Steps] /\ clock \in Nat /\ target \in Nat /\ target <= clock
         /\ undid \in [Actions -> Nat] /\ wrote \in [Actions -> SUBSET (1..clock)]
  BY DEF TypeOK, RowType, JobType, Steps

LEMMA NoJobType == NoJob \in JobType /\ NoJob.before = 0
<1>1. (CHOOSE a \in Actions : TRUE) \in Actions
  OBVIOUS
<1> QED
  BY <1>1 DEF NoJob, JobType, Verbs

\* What remains to be shown of a step of process p on action a.
LEMMA Frame ==
  ASSUME GuardInv, TypeOK', NEW p \in Procs, NEW a \in Actions,
         \A q \in Procs : q # p => pc'[q] = pc[q] /\ job'[q] = job[q],
         \A b \in Actions : b # a =>
           act'[b] = act[b] /\ wrote'[b] = wrote[b] /\ undid'[b] = undid[b],
         clock' >= clock, undid'[a] >= undid[a],
         act[a].state # "none" =>
           /\ act'[a].state # "none"
           /\ act'[a].self = act[a].self /\ act'[a].by = act[a].by,
         \/ act'[a].state = act[a].state /\ wrote'[a] = wrote[a]
         \/ act[a].state # "approved"  /\ wrote'[a] = wrote[a]
         \/ pc[p] \in Running /\ job[p].action = a,
         pc'[p] \in Running =>
           \/ pc[p] \in Running /\ job'[p].action = job[p].action
           \/ act[job'[p].action].state # "approved",
         RowOK(a)', JobOK(p)'
  PROVE  GuardInv'
<1>1. /\ act \in [Actions -> RowType] /\ job \in [Procs -> JobType]
      /\ clock \in Nat /\ undid \in [Actions -> Nat]
      /\ wrote \in [Actions -> SUBSET (1..clock)]
  BY Types DEF GuardInv
<1>2. clock' \in Nat /\ undid' \in [Actions -> Nat]
  BY DEF TypeOK
<1>3. ASSUME NEW b \in Actions PROVE RowOK(b)'
  <2>1. CASE b = a
    BY <2>1
  <2>2. CASE b # a
    <3>1. act'[b] = act[b] /\ wrote'[b] = wrote[b] /\ undid'[b] = undid[b]
      BY <2>2
    <3>2. act[b].inverse \in Nat
      BY <1>1 DEF RowType
    <3>3. RowOK(b)
      BY DEF GuardInv
    <3> QED
      BY <1>1, <1>2, <3>1, <3>2, <3>3 DEF RowOK
  <2> QED
    BY <2>1, <2>2
<1>4. ASSUME NEW q \in Procs, q # p PROVE JobOK(q)'
  <2> DEFINE b == job[q].action
  <2>1. b \in Actions /\ job[q].before \in Nat
    BY <1>1 DEF JobType
  <2>2. pc'[q] = pc[q] /\ job'[q] = job[q]
    BY <1>4
  <2>3. JobOK(q)
    BY DEF GuardInv
  <2>4. job'[q].before <= clock'
    BY <1>1, <1>2, <2>1, <2>2, <2>3 DEF JobOK
  <2>5. CASE b # a
    <3>1. act'[b] = act[b] /\ wrote'[b] = wrote[b] /\ undid'[b] = undid[b]
      BY <2>1, <2>5
    <3> QED
      BY <2>2, <2>3, <2>4, <3>1 DEF JobOK
  <2>6. CASE b = a
    <3>1. pc[q] \in Running =>
            act'[a].state = "approved" /\ wrote'[a] = wrote[a]
      <4>1. pc[q] \in Running => act[a].state = "approved"
        BY <2>3, <2>6 DEF JobOK
      <4>2. pc[q] \in Running => ~(pc[p] \in Running /\ job[p].action = a)
        BY <1>4, <2>6 DEF GuardInv, Alone
      <4> QED
        BY <4>1, <4>2
    <3>2. undid[a] \in Nat /\ undid'[a] \in Nat
      BY <1>1, <1>2
    <3>3. pc[q] = "undone" => undid'[a] > 0
      BY <2>3, <2>6, <3>2 DEF JobOK
    <3>4. pc'[q] = "decide" =>
            /\ act'[a].state # "none" /\ job'[q].verb # "none"
            /\ job'[q].verb = "approve" =>
                 job'[q].user \in Users /\ (act'[a].self \/ job'[q].user # act'[a].by)
      BY <2>2, <2>3, <2>6 DEF JobOK
    <3>5. /\ pc[q] \in {"run", "write"} => wrote[a] = {}
          /\ pc[q] \in {"print", "record"} => wrote[a] # {}
          /\ {"run", "write", "print", "record"} \subseteq Running
      BY <2>3, <2>6 DEF JobOK, Running
    <3> QED
      BY <2>2, <2>4, <2>6, <3>1, <3>3, <3>4, <3>5 DEF JobOK
  <2> QED
    BY <2>5, <2>6
<1>5. Alone'
  <2> SUFFICES ASSUME NEW q \in Procs, NEW r \in Procs,
                      pc'[q] \in Running, pc'[r] \in Running,
                      job'[q].action = job'[r].action
               PROVE  q = r
    BY DEF Alone
  <2>1. ASSUME NEW s \in Procs, s # p, pc'[s] \in Running, pc'[p] \in Running,
               job'[s].action = job'[p].action
        PROVE  FALSE
    <3>1. pc[s] \in Running /\ act[job[s].action].state = "approved"
          /\ job'[s] = job[s]
      BY <2>1 DEF GuardInv, JobOK
    <3> QED
      BY <2>1, <3>1 DEF GuardInv, Alone
  <2>2. CASE q # p /\ r # p
    BY <2>2 DEF GuardInv, Alone
  <2> QED
    BY <2>1, <2>2
<1>6. \A q \in Procs : JobOK(q)'
  BY <1>4
<1> QED
  BY <1>3, <1>5, <1>6 DEF GuardInv

-----------------------------------------------------------------------------
(* The steps.                                                              *)

\* A request that ends, whatever it did to its action.
LEMMA Finished ==
  ASSUME TypeOK, NEW p \in Procs, Finish(p)
  PROVE  /\ pc' \in [Procs -> Steps] /\ job' \in [Procs -> JobType]
         /\ pc'[p] = "idle" /\ job'[p].before = 0
         /\ \A q \in Procs : q # p => pc'[q] = pc[q] /\ job'[q] = job[q]
<1>1. pc' = [pc EXCEPT ![p] = "idle"] /\ job' = [job EXCEPT ![p] = NoJob]
  BY DEF Finish, GoTo
<1> QED
  BY <1>1, Types, NoJobType DEF Steps

LEMMA FinishedOK ==
  ASSUME TypeOK, NEW p \in Procs, Finish(p), clock' \in Nat
  PROVE  JobOK(p)'
<1>1. pc'[p] = "idle" /\ job'[p].before = 0
  BY Finished
<1> QED
  BY <1>1 DEF JobOK, Running

LEMMA SubmitStep ==
  ASSUME GuardInv, NEW p \in Procs, Submit(p)
  PROVE  GuardInv'
<1>1. PICK a \in Actions, u \in Users :
        /\ act[a].state = "none"
        /\ job' = [job EXCEPT ![p].action = a, ![p].user = u,
                             ![p].gate = Gate(policy, a), ![p].self = policy.self]
  BY DEF Submit
<1>2. /\ pc' = [pc EXCEPT ![p] = "create"]
      /\ UNCHANGED <<act, policy, target, clock, wrote, undid, faults>>
  BY DEF Submit, GoTo
<1>3. /\ act \in [Actions -> RowType] /\ job \in [Procs -> JobType]
      /\ pc \in [Procs -> Steps] /\ clock \in Nat
      /\ undid \in [Actions -> Nat] /\ TypeOK
  BY Types DEF GuardInv
<1>4. Gate(policy, a) \in {"execute", "approval", "deny"} /\ policy.self \in BOOLEAN
  BY <1>3 DEF Gate, TypeOK, Policies
<1>5. [job[p] EXCEPT !.action = a, !.user = u, !.gate = Gate(policy, a),
                     !.self = policy.self] \in JobType
  BY <1>3, <1>4 DEF JobType
<1>6. /\ job'[p].before = job[p].before
      /\ job' \in [Procs -> JobType]
      /\ \A q \in Procs : q # p => job'[q] = job[q]
  BY <1>1, <1>3, <1>5 DEF JobType
<1>7. /\ pc'[p] = "create" /\ pc' \in [Procs -> Steps]
      /\ \A q \in Procs : q # p => pc'[q] = pc[q]
  BY <1>2, <1>3 DEF Steps
<1>8. TypeOK'
  BY <1>2, <1>3, <1>6, <1>7 DEF TypeOK, JobType, Steps
<1>9. JobOK(p)'
  BY <1>2, <1>6, <1>7 DEF JobOK, Running, GuardInv
<1>10. RowOK(a)'
  BY <1>2 DEF RowOK, GuardInv
<1>11. clock' >= clock /\ undid'[a] >= undid[a]
  BY <1>2, <1>3
<1> QED
  BY <1>2, <1>6, <1>7, <1>8, <1>9, <1>10, <1>11, Frame DEF Running

LEMMA CreateStep ==
  ASSUME GuardInv, NEW p \in Procs, Create(p)
  PROVE  GuardInv'
<1>0. PICK a \in Actions : a = job[p].action
  BY Types DEF GuardInv, JobType
<1> DEFINE r == [NoRow EXCEPT !.state = Judged[job[p].gate], !.by = job[p].user,
                           !.gate = job[p].gate, !.self = job[p].self]
<1>1. /\ act \in [Actions -> RowType] /\ job \in [Procs -> JobType]
      /\ pc \in [Procs -> Steps] /\ clock \in Nat
      /\ undid \in [Actions -> Nat] /\ TypeOK
  BY Types DEF GuardInv
<1>2. job[p] \in JobType /\ pc[p] = "create"
  BY <1>1 DEF Create
<1>3. UNCHANGED <<policy, target, clock, wrote, undid, faults>>
  BY DEF Create
<1>4. clock' >= clock /\ undid'[a] >= undid[a]
  BY <1>1, <1>2, <1>3
<1>5. CASE act[a].state # "none"
  <2>1. act' = act /\ Finish(p)
    BY <1>0, <1>5 DEF Create, Moved, Row
  <2>2. /\ pc' \in [Procs -> Steps] /\ job' \in [Procs -> JobType]
        /\ pc'[p] = "idle"
        /\ \A q \in Procs : q # p => pc'[q] = pc[q] /\ job'[q] = job[q]
        /\ JobOK(p)'
    BY <1>1, <1>3, <2>1, Finished, FinishedOK
  <2>3. TypeOK'
    BY <1>1, <1>3, <2>1, <2>2 DEF TypeOK, JobType, Steps
  <2>4. RowOK(a)'
    BY <1>2, <1>3, <2>1 DEF RowOK, GuardInv
  <2> QED
    BY <1>2, <1>3, <1>4, <2>1, <2>2, <2>3, <2>4, Frame DEF Running
<1>6. CASE act[a].state = "none"
  <2>1. /\ act' = [act EXCEPT ![a] = r]
        /\ IF job[p].gate = "execute" THEN GoTo(p, "run") /\ job' = job ELSE Finish(p)
    BY <1>0, <1>6 DEF Create, Moved, Row
  <2>2. /\ r \in RowType /\ r.inverse = 0 /\ r.gate = job[p].gate /\ r.decider = NoUser
        /\ r.state = Judged[job[p].gate] /\ r.state \in {"approved", "pending", "rejected"}
        /\ r.state = "approved" => r.gate = "execute"
        /\ r.state = "pending" => r.gate = "approval"
        /\ job[p].gate = "execute" => r.state = "approved"
    <3>1. /\ Judged["execute"] = "approved" /\ Judged["approval"] = "pending"
          /\ Judged["deny"] = "rejected"
      BY DEF Judged
    <3>2. /\ job[p].gate \in {"execute", "approval", "deny"}
          /\ job[p].user \in Users \cup {NoUser} /\ job[p].self \in BOOLEAN
      BY <1>2 DEF JobType
    <3> HIDE DEF Judged
    <3> QED
      BY <3>1, <3>2 DEF RowType, NoRow, States
  <2> HIDE DEF r
  <2>3. /\ act' \in [Actions -> RowType] /\ act'[a] = r
        /\ \A b \in Actions : b # a => act'[b] = act[b]
    BY <1>1, <1>2, <2>1, <2>2
  <2>4. wrote[a] = {}
    BY <1>6 DEF GuardInv, RowOK, Passed
  <2>5. RowOK(a)'
    BY <1>1, <1>3, <2>2, <2>3, <2>4 DEF RowOK, Passed, Authorized
  <2>6. /\ pc' \in [Procs -> Steps] /\ job' \in [Procs -> JobType]
        /\ \A q \in Procs : q # p => pc'[q] = pc[q] /\ job'[q] = job[q]
        /\ pc'[p] \in Running => job' = job
        /\ JobOK(p)'
    <3>1. CASE job[p].gate = "execute"
      <4>1. pc' = [pc EXCEPT ![p] = "run"] /\ job' = job
        BY <2>1, <3>1 DEF GoTo
      <4>2. pc'[p] = "run" /\ pc' \in [Procs -> Steps]
            /\ \A q \in Procs : q # p => pc'[q] = pc[q]
        BY <1>1, <4>1 DEF Steps
      <4>3. job[p].before <= clock
        BY DEF GuardInv, JobOK
      <4>4. JobOK(p)'
        BY <1>0, <1>3, <2>2, <2>3, <2>4, <3>1, <4>1, <4>2, <4>3 DEF JobOK
      <4> QED
        BY <1>1, <4>1, <4>2, <4>4
    <3>2. CASE job[p].gate # "execute"
      <4>1. Finish(p)
        BY <2>1, <3>2
      <4> QED
        BY <1>1, <1>3, <4>1, Finished, FinishedOK DEF Running
    <3> QED
      BY <3>1, <3>2
  <2>7. TypeOK'
    BY <1>1, <1>3, <2>3, <2>6 DEF TypeOK, JobType, Steps, RowType
  <2>8. pc'[p] \in Running => act[job'[p].action].state # "approved"
    BY <1>0, <1>6, <2>6
  <2> QED
    BY <1>2, <1>3, <1>4, <1>6, <2>3, <2>5, <2>6, <2>7, <2>8, Frame
<1> QED
  BY <1>5, <1>6

LEMMA ReadStep ==
  ASSUME GuardInv, NEW p \in Procs, ReadPending(p)
  PROVE  GuardInv'
<1>1. PICK a \in Actions, u \in Users, verb \in Verbs :
        /\ act[a].state = "pending" /\ MayDecide(a, u, verb)
        /\ job' = [job EXCEPT ![p].action = a, ![p].user = u, ![p].verb = verb]
  BY DEF ReadPending
<1>2. /\ pc' = [pc EXCEPT ![p] = "decide"]
      /\ UNCHANGED <<act, policy, target, clock, wrote, undid, faults>>
  BY DEF ReadPending, GoTo
<1>3. /\ act \in [Actions -> RowType] /\ job \in [Procs -> JobType]
      /\ pc \in [Procs -> Steps] /\ clock \in Nat
      /\ undid \in [Actions -> Nat] /\ TypeOK
  BY Types DEF GuardInv
<1>4. /\ verb # "none"
      /\ verb = "approve" => act[a].self \/ u # act[a].by
  BY <1>1 DEF MayDecide
<1>5. [job[p] EXCEPT !.action = a, !.user = u, !.verb = verb] \in JobType
  BY <1>3 DEF JobType
<1>6. /\ job'[p].before = job[p].before /\ job'[p].action = a
      /\ job'[p].verb = verb /\ job'[p].user = u
      /\ job' \in [Procs -> JobType]
      /\ \A q \in Procs : q # p => job'[q] = job[q]
  BY <1>1, <1>3, <1>5 DEF JobType
<1>7. /\ pc'[p] = "decide" /\ pc' \in [Procs -> Steps]
      /\ \A q \in Procs : q # p => pc'[q] = pc[q]
  BY <1>2, <1>3 DEF Steps
<1>8. TypeOK'
  BY <1>2, <1>3, <1>6, <1>7 DEF TypeOK, JobType, Steps
<1>9. JobOK(p)'
  BY <1>1, <1>2, <1>4, <1>6, <1>7 DEF JobOK, Running, GuardInv
<1>10. RowOK(a)'
  BY <1>2 DEF RowOK, GuardInv
<1>11. clock' >= clock /\ undid'[a] >= undid[a]
  BY <1>2, <1>3
<1> QED
  BY <1>2, <1>6, <1>7, <1>8, <1>9, <1>10, <1>11, Frame DEF Running

LEMMA DecideStep ==
  ASSUME GuardInv, NEW p \in Procs, Decide(p)
  PROVE  GuardInv'
<1>0. PICK a \in Actions : a = job[p].action
  BY Types DEF GuardInv, JobType
<1>1. /\ act \in [Actions -> RowType] /\ job \in [Procs -> JobType]
      /\ pc \in [Procs -> Steps] /\ clock \in Nat /\ target \in Nat /\ target <= clock
      /\ undid \in [Actions -> Nat] /\ wrote \in [Actions -> SUBSET (1..clock)]
      /\ TypeOK /\ JobOK(p) /\ RowOK(a) /\ act[a] \in RowType /\ job[p] \in JobType
  BY Types DEF GuardInv
<1>2. UNCHANGED <<policy, target, clock, wrote, undid, faults>> /\ pc[p] = "decide"
  BY DEF Decide
<1>3. clock' >= clock /\ undid'[a] >= undid[a]
  BY <1>1, <1>2
<1>4. CASE act[a].state # "pending"
  <2>1. act' = act /\ Finish(p)
    BY <1>0, <1>4 DEF Decide, Moved, Row
  <2>2. /\ pc' \in [Procs -> Steps] /\ job' \in [Procs -> JobType]
        /\ pc'[p] = "idle"
        /\ \A q \in Procs : q # p => pc'[q] = pc[q] /\ job'[q] = job[q]
        /\ JobOK(p)'
    BY <1>1, <1>2, <2>1, Finished, FinishedOK
  <2>3. TypeOK'
    BY <1>1, <1>2, <2>1, <2>2 DEF TypeOK, JobType, Steps
  <2>4. RowOK(a)'
    BY <1>1, <1>2, <2>1 DEF RowOK
  <2> QED
    BY <1>2, <1>3, <2>1, <2>2, <2>3, <2>4, Frame DEF Running
<1>5. CASE act[a].state = "pending"
  <2> DEFINE j == job[p]
             d == IF j.verb = "expire" THEN act[a].decider ELSE j.user
             r == [act[a] EXCEPT !.state = Decided[j.verb], !.decider = d]
  <2>1. /\ act' = [act EXCEPT ![a] = r]
        /\ IF j.verb = "approve" THEN GoTo(p, "run") /\ job' = job ELSE Finish(p)
    BY <1>0, <1>5 DEF Decide, Moved, Row
  <2>2. /\ j.verb \in {"approve", "reject", "expire"}
        /\ j.verb = "approve" => j.user \in Users /\ (act[a].self \/ j.user # act[a].by)
    BY <1>0, <1>1, <1>2 DEF JobOK, JobType, Verbs
  <2>3. /\ r \in RowType /\ r.inverse = act[a].inverse /\ r.gate = act[a].gate
        /\ r.self = act[a].self /\ r.by = act[a].by /\ r.decider = d
        /\ r.state \in {"approved", "rejected", "expired"}
        /\ r.state = "approved" <=> j.verb = "approve"
    <3>1. /\ Decided["approve"] = "approved" /\ Decided["reject"] = "rejected"
          /\ Decided["expire"] = "expired"
      BY DEF Decided
    <3>2. j.user \in Users \cup {NoUser}
      BY <1>1 DEF JobType
    <3> HIDE DEF Decided, j
    <3> QED
      BY <1>1, <2>2, <3>1, <3>2 DEF RowType, States
  <2>4. /\ wrote[a] = {} /\ act[a].gate = "approval" /\ act[a].inverse <= clock
    BY <1>1, <1>5 DEF RowOK, Passed
  <2>5. r.state = "approved" => Authorized(r)
    BY <2>2, <2>3, <2>4 DEF Authorized
  <2> HIDE DEF r
  <2>6. /\ act' \in [Actions -> RowType] /\ act'[a] = r
        /\ \A b \in Actions : b # a => act'[b] = act[b]
    BY <1>1, <2>1, <2>3
  <2>7. RowOK(a)'
    BY <1>2, <2>3, <2>4, <2>5, <2>6 DEF RowOK, Passed
  <2>8. /\ pc' \in [Procs -> Steps] /\ job' \in [Procs -> JobType]
        /\ \A q \in Procs : q # p => pc'[q] = pc[q] /\ job'[q] = job[q]
        /\ pc'[p] \in Running => job' = job
        /\ JobOK(p)'
    <3>1. CASE j.verb = "approve"
      <4>1. pc' = [pc EXCEPT ![p] = "run"] /\ job' = job
        BY <2>1, <3>1 DEF GoTo
      <4>2. pc'[p] = "run" /\ pc' \in [Procs -> Steps]
            /\ \A q \in Procs : q # p => pc'[q] = pc[q]
        BY <1>1, <4>1 DEF Steps
      <4>3. JobOK(p)'
        BY <1>0, <1>1, <1>2, <2>3, <2>4, <2>6, <3>1, <4>1, <4>2 DEF JobOK
      <4> QED
        BY <1>1, <4>1, <4>2, <4>3
    <3>2. CASE j.verb # "approve"
      <4>1. Finish(p)
        BY <2>1, <3>2
      <4> QED
        BY <1>1, <1>2, <4>1, Finished, FinishedOK DEF Running
    <3> QED
      BY <3>1, <3>2
  <2>9. TypeOK'
    BY <1>1, <1>2, <2>6, <2>8 DEF TypeOK, JobType, Steps, RowType
  <2>10. pc'[p] \in Running => act[job'[p].action].state # "approved"
    BY <1>0, <1>5, <2>8
  <2> QED
    BY <1>2, <1>3, <1>5, <2>3, <2>6, <2>7, <2>8, <2>9, <2>10, Frame
<1> QED
  BY <1>4, <1>5

\* A step of the execution, or of an undo, that leaves the rows alone.
LEMMA QuietStep ==
  ASSUME GuardInv, TypeOK', NEW p \in Procs,
         UNCHANGED <<act, wrote, undid, clock>>,
         \A q \in Procs : q # p => pc'[q] = pc[q] /\ job'[q] = job[q],
         job'[p].action \in Actions,
         pc'[p] \in Running =>
           pc[p] \in Running /\ job'[p].action = job[p].action,
         JobOK(p)'
  PROVE  GuardInv'
<1>1. PICK a \in Actions : a = job'[p].action
  OBVIOUS
<1>2. RowOK(a)'
  BY DEF GuardInv, RowOK
<1>3. clock' >= clock /\ undid'[a] >= undid[a]
  BY Types DEF GuardInv
<1> QED
  BY <1>1, <1>2, <1>3, Frame

LEMMA PreflightStep ==
  ASSUME GuardInv, NEW p \in Procs, Preflight(p)
  PROVE  GuardInv'
<1>0. PICK a \in Actions : a = job[p].action
  BY Types DEF GuardInv, JobType
<1>1. /\ act \in [Actions -> RowType] /\ job \in [Procs -> JobType]
      /\ pc \in [Procs -> Steps] /\ clock \in Nat /\ target \in Nat /\ target <= clock
      /\ undid \in [Actions -> Nat] /\ wrote \in [Actions -> SUBSET (1..clock)]
      /\ TypeOK /\ JobOK(p) /\ RowOK(a) /\ act[a] \in RowType /\ job[p] \in JobType
  BY Types DEF GuardInv
<1>2. UNCHANGED <<act, policy, target, clock, wrote, undid, faults>> /\ pc[p] = "run"
  BY DEF Preflight
<1>3. CASE GoTo(p, "write") /\ job' = [job EXCEPT ![p].before = target]
  <2>1. [job[p] EXCEPT !.before = target] \in JobType
    BY <1>1 DEF JobType
  <2>2. /\ job' \in [Procs -> JobType] /\ job'[p].before = target
        /\ job'[p].action = a
        /\ \A q \in Procs : q # p => job'[q] = job[q]
    BY <1>0, <1>1, <1>3, <2>1 DEF JobType
  <2>3. /\ pc' \in [Procs -> Steps] /\ pc'[p] = "write"
        /\ \A q \in Procs : q # p => pc'[q] = pc[q]
    BY <1>1, <1>3 DEF GoTo, Steps
  <2>4. TypeOK'
    BY <1>1, <1>2, <2>2, <2>3 DEF TypeOK, JobType, Steps
  <2>5. JobOK(p)'
    BY <1>0, <1>1, <1>2, <2>2, <2>3 DEF JobOK, Running
  <2> QED
    BY <1>0, <1>2, <2>2, <2>3, <2>4, <2>5, QuietStep DEF Running
<1>4. CASE GoTo(p, "fail") /\ job' = job
  <2>1. /\ pc' \in [Procs -> Steps] /\ pc'[p] = "fail"
        /\ \A q \in Procs : q # p => pc'[q] = pc[q]
    BY <1>1, <1>4 DEF GoTo, Steps
  <2>2. TypeOK'
    BY <1>1, <1>2, <1>4, <2>1 DEF TypeOK, Steps
  <2>3. JobOK(p)'
    BY <1>1, <1>2, <1>4, <2>1 DEF JobOK, Running
  <2> QED
    BY <1>0, <1>2, <1>4, <2>1, <2>2, <2>3, QuietStep DEF Running
<1> QED
  BY <1>3, <1>4 DEF Preflight

LEMMA WriteStep ==
  ASSUME GuardInv, NEW p \in Procs, Write(p)
  PROVE  GuardInv'
<1>0. PICK a \in Actions : a = job[p].action
  BY Types DEF GuardInv, JobType
<1>1. /\ act \in [Actions -> RowType] /\ job \in [Procs -> JobType]
      /\ pc \in [Procs -> Steps] /\ clock \in Nat /\ target \in Nat /\ target <= clock
      /\ undid \in [Actions -> Nat] /\ wrote \in [Actions -> SUBSET (1..clock)]
      /\ TypeOK /\ JobOK(p) /\ RowOK(a) /\ act[a] \in RowType /\ job[p] \in JobType
  BY Types DEF GuardInv
<1>2. /\ UNCHANGED <<act, policy, undid, job, faults>> /\ pc[p] = "write"
      /\ clock' = clock + 1 /\ target' = clock + 1
      /\ wrote' = [wrote EXCEPT ![a] = wrote[a] \cup {clock + 1}]
      /\ pc' = [pc EXCEPT ![p] = "print"]
  BY <1>0 DEF Write, GoTo
<1>3. wrote[a] = {} /\ act[a].state = "approved"
  BY <1>0, <1>1, <1>2 DEF JobOK, Running
<1>4. /\ wrote' \in [Actions -> SUBSET (1..clock')] /\ wrote'[a] = {clock + 1}
      /\ \A b \in Actions : b # a => wrote'[b] = wrote[b]
  <2>1. \A b \in Actions : wrote[b] \in SUBSET (1..clock')
    BY <1>1, <1>2
  <2>2. wrote[a] \cup {clock + 1} \in SUBSET (1..clock')
    BY <1>1, <1>2, <2>1
  <2> QED
    BY <1>1, <1>2, <1>3, <2>1, <2>2
<1>5. /\ pc' \in [Procs -> Steps] /\ pc'[p] = "print"
      /\ \A q \in Procs : q # p => pc'[q] = pc[q]
  BY <1>1, <1>2 DEF Steps
<1>6. TypeOK'
  BY <1>1, <1>2, <1>4, <1>5 DEF TypeOK, Steps
<1>7. clock' >= clock /\ undid'[a] >= undid[a] /\ clock' \in Nat
  BY <1>1, <1>2
<1>8. RowOK(a)'
  <2>1. act[a].inverse \in Nat
    BY <1>1 DEF RowType
  <2> QED
    BY <1>1, <1>2, <1>3, <1>4, <1>7, <2>1 DEF RowOK, Passed
<1>9. JobOK(p)'
  <2>1. job[p].before \in Nat
    BY <1>1 DEF JobType
  <2>2. job'[p].before <= clock'
    BY <1>1, <1>2, <1>7, <2>1 DEF JobOK
  <2> QED
    BY <1>0, <1>2, <1>3, <1>4, <1>5, <2>2 DEF JobOK
<1> QED
  BY <1>0, <1>2, <1>4, <1>5, <1>6, <1>7, <1>8, <1>9, Frame DEF Running

LEMMA FingerprintStep ==
  ASSUME GuardInv, NEW p \in Procs, Fingerprint(p)
  PROVE  GuardInv'
<1>0. PICK a \in Actions : a = job[p].action
  BY Types DEF GuardInv, JobType
<1>1. /\ act \in [Actions -> RowType] /\ job \in [Procs -> JobType]
      /\ pc \in [Procs -> Steps] /\ clock \in Nat /\ target \in Nat /\ target <= clock
      /\ undid \in [Actions -> Nat] /\ wrote \in [Actions -> SUBSET (1..clock)]
      /\ TypeOK /\ JobOK(p) /\ RowOK(a) /\ act[a] \in RowType /\ job[p] \in JobType
  BY Types DEF GuardInv
<1>2. /\ UNCHANGED <<act, policy, target, clock, wrote, undid>> /\ pc[p] = "print"
      /\ pc' = [pc EXCEPT ![p] = "record"]
      /\ job' = [job EXCEPT ![p].print = target] \/ job' = job
  BY DEF Fingerprint, GoTo
<1>3. faults' \in 0..FaultBudget
  <2>1. faults \in 0..FaultBudget
    BY <1>1 DEF TypeOK
  <2>2. faults' = faults \/ (faults < FaultBudget /\ faults' = faults + 1)
    BY DEF Fingerprint, Fault
  <2> QED
    BY <2>1, <2>2
<1>4. [job[p] EXCEPT !.print = target] \in JobType
  BY <1>1 DEF JobType
<1>5. /\ job' \in [Procs -> JobType] /\ job'[p].before = job[p].before
      /\ job'[p].action = a
      /\ \A q \in Procs : q # p => job'[q] = job[q]
  BY <1>0, <1>1, <1>2, <1>4 DEF JobType
<1>6. /\ pc' \in [Procs -> Steps] /\ pc'[p] = "record"
      /\ \A q \in Procs : q # p => pc'[q] = pc[q]
  BY <1>1, <1>2 DEF Steps
<1>7. TypeOK'
  BY <1>1, <1>2, <1>3, <1>5, <1>6 DEF TypeOK, JobType, Steps
<1>8. JobOK(p)'
  BY <1>0, <1>1, <1>2, <1>5, <1>6 DEF JobOK, Running
<1> QED
  BY <1>0, <1>2, <1>5, <1>6, <1>7, <1>8, QuietStep DEF Running

\* A process that writes the end of an action's execution, or of its undo, and is done.
LEMMA SettleStep ==
  ASSUME GuardInv, NEW p \in Procs, Finish(p),
         UNCHANGED <<policy, target, clock, wrote, undid, faults>>,
         NEW a \in Actions, a = job[p].action, NEW r \in RowType,
         act' = act \/ act' = [act EXCEPT ![a] = r],
         r.inverse <= clock, r.gate = act[a].gate, r.decider = act[a].decider,
         r.self = act[a].self, r.by = act[a].by,
         r.state \in {"executed", "failed", "undone"},
         act[a].state \in Passed,
         act[a].state # "approved" \/ pc[p] \in Running,
         r.state \in {"executed", "undone"} => wrote[a] # {},
         r.state = "undone" => undid[a] > 0
  PROVE  GuardInv'
<1>1. /\ act \in [Actions -> RowType] /\ clock \in Nat /\ undid \in [Actions -> Nat]
      /\ TypeOK /\ RowOK(a)
  BY Types DEF GuardInv
<1>2. /\ pc' \in [Procs -> Steps] /\ job' \in [Procs -> JobType] /\ pc'[p] = "idle"
      /\ \A q \in Procs : q # p => pc'[q] = pc[q] /\ job'[q] = job[q]
      /\ JobOK(p)'
  BY <1>1, Finished, FinishedOK
<1>3. /\ act' \in [Actions -> RowType] /\ act'[a] \in {act[a], r}
      /\ \A b \in Actions : b # a => act'[b] = act[b]
  BY <1>1
<1>4. act' \in [Actions -> RowType]
  BY <1>1
<1>5. RowOK(a)'
  <2>1. CASE act'[a] = act[a]
    BY <1>1, <2>1 DEF RowOK
  <2>2. CASE act'[a] = r
    BY <1>1, <2>2 DEF RowOK, Passed, Authorized
  <2> QED
    BY <1>3, <2>1, <2>2
<1>6. TypeOK'
  BY <1>1, <1>2, <1>4 DEF TypeOK, RowType, JobType, Steps
<1>7. clock' >= clock /\ undid'[a] >= undid[a]
  BY <1>1
<1>8. /\ act'[a].state # "none" /\ act'[a].self = act[a].self /\ act'[a].by = act[a].by
  BY <1>3 DEF Passed
<1> QED
  BY <1>2, <1>3, <1>5, <1>6, <1>7, <1>8, Frame DEF Running

LEMMA RecordStep ==
  ASSUME GuardInv, NEW p \in Procs, Record(p)
  PROVE  GuardInv'
<1>0. PICK a \in Actions : a = job[p].action
  BY Types DEF GuardInv, JobType
<1>1. /\ act \in [Actions -> RowType] /\ job \in [Procs -> JobType]
      /\ pc \in [Procs -> Steps] /\ clock \in Nat /\ target \in Nat /\ target <= clock
      /\ undid \in [Actions -> Nat] /\ wrote \in [Actions -> SUBSET (1..clock)]
      /\ TypeOK /\ JobOK(p) /\ RowOK(a) /\ act[a] \in RowType /\ job[p] \in JobType
  BY Types DEF GuardInv
<1>2. /\ UNCHANGED <<policy, target, clock, wrote, undid, faults>> /\ pc[p] = "record"
      /\ Finish(p)
  BY DEF Record
<1>3. act[a].state = "approved" /\ wrote[a] # {} /\ job[p].before <= clock
  BY <1>0, <1>1, <1>2 DEF JobOK, Running
<1> DEFINE r == [act[a] EXCEPT !.state = "executed", !.inverse = job[p].before,
                               !.print = job[p].print]
<1>4. act' = [act EXCEPT ![a] = r]
  BY <1>0, <1>3 DEF Record, Moved, Row
<1>5. /\ r \in RowType /\ r.inverse = job[p].before /\ r.state = "executed"
      /\ r.gate = act[a].gate /\ r.decider = act[a].decider
      /\ r.self = act[a].self /\ r.by = act[a].by
  BY <1>1 DEF RowType, JobType, States
<1> HIDE DEF r
<1> QED
  BY <1>0, <1>2, <1>3, <1>4, <1>5, SettleStep DEF Passed, Running

LEMMA FailStep ==
  ASSUME GuardInv, NEW p \in Procs, Fail(p)
  PROVE  GuardInv'
<1>0. PICK a \in Actions : a = job[p].action
  BY Types DEF GuardInv, JobType
<1>1. /\ act \in [Actions -> RowType] /\ job \in [Procs -> JobType]
      /\ pc \in [Procs -> Steps] /\ clock \in Nat /\ target \in Nat /\ target <= clock
      /\ undid \in [Actions -> Nat] /\ wrote \in [Actions -> SUBSET (1..clock)]
      /\ TypeOK /\ JobOK(p) /\ RowOK(a) /\ act[a] \in RowType /\ job[p] \in JobType
  BY Types DEF GuardInv
<1>2. /\ UNCHANGED <<policy, target, clock, wrote, undid, faults>> /\ pc[p] = "fail"
      /\ Finish(p)
  BY DEF Fail
<1>3. act[a].state = "approved" /\ act[a].inverse <= clock
  BY <1>0, <1>1, <1>2 DEF JobOK, RowOK, Running
<1> DEFINE r == [act[a] EXCEPT !.state = "failed"]
<1>4. act' = [act EXCEPT ![a] = r]
  BY <1>0, <1>3 DEF Fail, Moved, Row
<1>5. /\ r \in RowType /\ r.inverse = act[a].inverse /\ r.state = "failed"
      /\ r.gate = act[a].gate /\ r.decider = act[a].decider
      /\ r.self = act[a].self /\ r.by = act[a].by
  BY <1>1 DEF RowType, States
<1> HIDE DEF r
<1> QED
  BY <1>0, <1>2, <1>3, <1>4, <1>5, SettleStep DEF Passed, Running

LEMMA ThrowStep ==
  ASSUME GuardInv, NEW p \in Procs, Throw(p)
  PROVE  GuardInv'
<1>0. PICK a \in Actions : a = job[p].action
  BY Types DEF GuardInv, JobType
<1>1. /\ act \in [Actions -> RowType] /\ job \in [Procs -> JobType]
      /\ pc \in [Procs -> Steps] /\ clock \in Nat /\ target \in Nat /\ target <= clock
      /\ undid \in [Actions -> Nat] /\ wrote \in [Actions -> SUBSET (1..clock)]
      /\ TypeOK /\ JobOK(p) /\ RowOK(a) /\ act[a] \in RowType /\ job[p] \in JobType
  BY Types DEF GuardInv
<1>2. /\ UNCHANGED <<act, policy, target, clock, wrote, undid, job>>
      /\ pc[p] \in {"write", "record"} /\ pc' = [pc EXCEPT ![p] = "fail"]
      /\ faults < FaultBudget /\ faults' = faults + 1
  BY DEF Throw, GoTo, Fault
<1>3. faults' \in 0..FaultBudget
  BY <1>1, <1>2 DEF TypeOK
<1>4. /\ pc' \in [Procs -> Steps] /\ pc'[p] = "fail"
      /\ \A q \in Procs : q # p => pc'[q] = pc[q]
  BY <1>1, <1>2 DEF Steps
<1>5. TypeOK'
  BY <1>1, <1>2, <1>3, <1>4 DEF TypeOK, Steps
<1>6. JobOK(p)'
  BY <1>1, <1>2, <1>4 DEF JobOK, Running
<1> QED
  BY <1>0, <1>2, <1>4, <1>5, <1>6, QuietStep DEF Running

LEMMA UndoStep ==
  ASSUME GuardInv, NEW p \in Procs, Undo(p)
  PROVE  GuardInv'
<1>1. PICK a \in Actions :
        /\ act[a].state = "executed"
        /\ job' = [job EXCEPT ![p].action = a, ![p].before = act[a].inverse,
                             ![p].print = act[a].print]
  BY DEF Undo
<1>2. /\ UNCHANGED <<act, policy, target, clock, wrote, undid, faults>>
      /\ pc' = [pc EXCEPT ![p] = "drift"]
  BY DEF Undo, GoTo
<1>3. /\ act \in [Actions -> RowType] /\ job \in [Procs -> JobType]
      /\ pc \in [Procs -> Steps] /\ TypeOK /\ act[a].inverse <= clock
      /\ act[a] \in RowType /\ job[p] \in JobType
  BY Types DEF GuardInv, RowOK
<1>4. [job[p] EXCEPT !.action = a, !.before = act[a].inverse, !.print = act[a].print]
        \in JobType
  BY <1>3 DEF JobType, RowType
<1>5. /\ job' \in [Procs -> JobType] /\ job'[p].before = act[a].inverse
      /\ job'[p].action = a
      /\ \A q \in Procs : q # p => job'[q] = job[q]
  BY <1>1, <1>3, <1>4 DEF JobType
<1>6. /\ pc' \in [Procs -> Steps] /\ pc'[p] = "drift"
      /\ \A q \in Procs : q # p => pc'[q] = pc[q]
  BY <1>2, <1>3 DEF Steps
<1>7. TypeOK'
  BY <1>2, <1>3, <1>5, <1>6 DEF TypeOK, JobType, Steps
<1>8. JobOK(p)'
  BY <1>2, <1>3, <1>5, <1>6 DEF JobOK, Running
<1> QED
  BY <1>2, <1>5, <1>6, <1>7, <1>8, QuietStep DEF Running

\* A request that ends and leaves everything as it is.
LEMMA EndStep ==
  ASSUME GuardInv, NEW p \in Procs, Finish(p),
         UNCHANGED <<act, policy, target, clock, wrote, undid>>, faults' \in 0..FaultBudget
  PROVE  GuardInv'
<1>1. TypeOK /\ clock \in Nat
  BY Types DEF GuardInv
<1>2. /\ pc' \in [Procs -> Steps] /\ job' \in [Procs -> JobType] /\ pc'[p] = "idle"
      /\ \A q \in Procs : q # p => pc'[q] = pc[q] /\ job'[q] = job[q]
      /\ JobOK(p)'
  BY <1>1, Finished, FinishedOK
<1>3. TypeOK'
  BY <1>1, <1>2 DEF TypeOK, JobType, Steps
<1>4. job'[p].action \in Actions
  BY <1>2 DEF JobType
<1> QED
  BY <1>2, <1>3, <1>4, QuietStep DEF Running

LEMMA DriftStep ==
  ASSUME GuardInv, NEW p \in Procs, CheckDrift(p)
  PROVE  GuardInv'
<1>0. PICK a \in Actions : a = job[p].action
  BY Types DEF GuardInv, JobType
<1>1. /\ act \in [Actions -> RowType] /\ job \in [Procs -> JobType]
      /\ pc \in [Procs -> Steps] /\ clock \in Nat /\ target \in Nat /\ target <= clock
      /\ undid \in [Actions -> Nat] /\ wrote \in [Actions -> SUBSET (1..clock)]
      /\ TypeOK /\ JobOK(p) /\ RowOK(a) /\ act[a] \in RowType /\ job[p] \in JobType
  BY Types DEF GuardInv
<1>2. UNCHANGED <<act, policy, target, clock, wrote, undid, faults>>
  BY DEF CheckDrift
<1>3. CASE Finish(p)
  BY <1>1, <1>2, <1>3, EndStep DEF TypeOK
<1>4. CASE GoTo(p, "reverse") /\ job' = job
  <2>1. /\ pc' \in [Procs -> Steps] /\ pc'[p] = "reverse"
        /\ \A q \in Procs : q # p => pc'[q] = pc[q]
    BY <1>1, <1>4 DEF GoTo, Steps
  <2>2. TypeOK'
    BY <1>1, <1>2, <1>4, <2>1 DEF TypeOK, Steps
  <2>3. JobOK(p)'
    BY <1>1, <1>2, <1>4, <2>1 DEF JobOK, Running
  <2> QED
    BY <1>0, <1>2, <1>4, <2>1, <2>2, <2>3, QuietStep DEF Running
<1> QED
  BY <1>3, <1>4 DEF CheckDrift

LEMMA ReverseStep ==
  ASSUME GuardInv, NEW p \in Procs, Reverse(p)
  PROVE  GuardInv'
<1>0. PICK a \in Actions : a = job[p].action
  BY Types DEF GuardInv, JobType
<1>1. /\ act \in [Actions -> RowType] /\ job \in [Procs -> JobType]
      /\ pc \in [Procs -> Steps] /\ clock \in Nat /\ target \in Nat /\ target <= clock
      /\ undid \in [Actions -> Nat] /\ wrote \in [Actions -> SUBSET (1..clock)]
      /\ TypeOK /\ JobOK(p) /\ RowOK(a) /\ act[a] \in RowType /\ job[p] \in JobType
  BY Types DEF GuardInv
<1>2. /\ UNCHANGED <<act, policy, clock, wrote, job, faults>>
      /\ target' = job[p].before /\ pc' = [pc EXCEPT ![p] = "undone"]
      /\ undid' = [undid EXCEPT ![a] = undid[a] + 1]
  BY <1>0 DEF Reverse, GoTo
<1>3. /\ undid' \in [Actions -> Nat] /\ undid'[a] = undid[a] + 1 /\ undid[a] \in Nat
      /\ \A b \in Actions : b # a => undid'[b] = undid[b]
  BY <1>1, <1>2
<1>4. undid'[a] > 0 /\ undid'[a] >= undid[a] /\ clock' >= clock
  BY <1>1, <1>2, <1>3
<1>5. /\ pc' \in [Procs -> Steps] /\ pc'[p] = "undone"
      /\ \A q \in Procs : q # p => pc'[q] = pc[q]
  BY <1>1, <1>2 DEF Steps
<1>6. target' \in 0..clock'
  <2>1. job[p].before \in Nat /\ job[p].before <= clock
    BY <1>1 DEF JobOK, JobType
  <2> QED
    BY <1>1, <1>2, <2>1
<1>7. TypeOK'
  BY <1>1, <1>2, <1>3, <1>5, <1>6 DEF TypeOK, Steps
<1>8. JobOK(p)'
  BY <1>0, <1>1, <1>2, <1>4, <1>5 DEF JobOK, Running
<1>9. RowOK(a)'
  BY <1>1, <1>2, <1>4 DEF RowOK
<1> QED
  BY <1>0, <1>2, <1>3, <1>4, <1>5, <1>7, <1>8, <1>9, Frame DEF Running

LEMMA MarkUndoneStep ==
  ASSUME GuardInv, NEW p \in Procs, MarkUndone(p)
  PROVE  GuardInv'
<1>0. PICK a \in Actions : a = job[p].action
  BY Types DEF GuardInv, JobType
<1>1. /\ act \in [Actions -> RowType] /\ job \in [Procs -> JobType]
      /\ pc \in [Procs -> Steps] /\ clock \in Nat /\ target \in Nat /\ target <= clock
      /\ undid \in [Actions -> Nat] /\ wrote \in [Actions -> SUBSET (1..clock)]
      /\ TypeOK /\ JobOK(p) /\ RowOK(a) /\ act[a] \in RowType /\ job[p] \in JobType
  BY Types DEF GuardInv
<1>2. /\ UNCHANGED <<policy, target, clock, wrote, undid, faults>> /\ pc[p] = "undone"
      /\ Finish(p)
  BY DEF MarkUndone
<1>3. CASE act[a].state # "executed"
  <2>1. act' = act
    BY <1>0, <1>3 DEF MarkUndone, Moved, Row
  <2> QED
    BY <1>1, <1>2, <2>1, EndStep DEF TypeOK
<1>4. CASE act[a].state = "executed"
  <2> DEFINE r == [act[a] EXCEPT !.state = "undone"]
  <2>1. act' = [act EXCEPT ![a] = r]
    BY <1>0, <1>4 DEF MarkUndone, Moved, Row
  <2>2. /\ r \in RowType /\ r.inverse = act[a].inverse /\ r.state = "undone"
        /\ r.gate = act[a].gate /\ r.decider = act[a].decider
        /\ r.self = act[a].self /\ r.by = act[a].by
    BY <1>1 DEF RowType, States
  <2>3. undid[a] > 0 /\ wrote[a] # {} /\ act[a].inverse <= clock
    BY <1>0, <1>1, <1>2, <1>4 DEF JobOK, RowOK
  <2> HIDE DEF r
  <2> QED
    BY <1>0, <1>2, <1>4, <2>1, <2>2, <2>3, SettleStep DEF Passed
<1> QED
  BY <1>3, <1>4

LEMMA CrashStep ==
  ASSUME GuardInv, NEW p \in Procs, Crash(p)
  PROVE  GuardInv'
<1>1. faults \in 0..FaultBudget
  BY DEF GuardInv, TypeOK
<1>2. faults' \in 0..FaultBudget
  BY <1>1 DEF Crash, Fault
<1> QED
  BY <1>2, EndStep DEF Crash

\* Others change the door, the policy, or time passes.
LEMMA WorldStep ==
  ASSUME GuardInv, Edit \/ SavePolicy \/ (\E a \in Actions : DeadlinePasses(a))
                   \/ UNCHANGED vars
  PROVE  GuardInv'
<1>1. /\ act \in [Actions -> RowType] /\ job \in [Procs -> JobType]
      /\ clock \in Nat /\ TypeOK /\ wrote \in [Actions -> SUBSET (1..clock)]
  BY Types DEF GuardInv
<1>2. /\ UNCHANGED <<wrote, undid, pc, job, faults>>
      /\ clock' \in Nat /\ clock' >= clock /\ target' \in 0..clock'
      /\ policy' \in Policies
  BY <1>1 DEF Edit, SavePolicy, DeadlinePasses, vars, TypeOK
<1>3. /\ act' \in [Actions -> RowType]
      /\ \A b \in Actions :
           /\ act'[b].state = act[b].state /\ act'[b].by = act[b].by
           /\ act'[b].decider = act[b].decider /\ act'[b].gate = act[b].gate
           /\ act'[b].self = act[b].self /\ act'[b].inverse = act[b].inverse
  <2>1. CASE act' = act
    BY <1>1, <2>1
  <2>2. ASSUME NEW a \in Actions, DeadlinePasses(a) PROVE <1>3!:
    <3>1. act' = [act EXCEPT ![a] = [act[a] EXCEPT !.due = TRUE]] /\ act[a] \in RowType
      BY <1>1, <2>2 DEF DeadlinePasses
    <3>2. [act[a] EXCEPT !.due = TRUE] \in RowType
      BY <3>1 DEF RowType
    <3> QED
      BY <1>1, <3>1, <3>2 DEF RowType
  <2> QED
    BY <2>1, <2>2 DEF Edit, SavePolicy, vars
<1>4. TypeOK'
  <2>1. \A b \in Actions : wrote'[b] \in SUBSET (1..clock')
    BY <1>1, <1>2
  <2>2. wrote' \in [Actions -> SUBSET (1..clock')]
    BY <1>1, <1>2, <2>1
  <2> QED
    BY <1>1, <1>2, <1>3, <2>2 DEF TypeOK, RowType
<1>5. ASSUME NEW b \in Actions PROVE RowOK(b)'
  <2>1. act[b].inverse \in Nat /\ RowOK(b)
    BY <1>1 DEF RowType, GuardInv
  <2> QED
    BY <1>1, <1>2, <1>3, <2>1 DEF RowOK, Authorized
<1>6. ASSUME NEW p \in Procs PROVE JobOK(p)'
  <2>1. job[p].before \in Nat /\ job[p].action \in Actions /\ JobOK(p)
    BY <1>1 DEF JobType, GuardInv
  <2> QED
    BY <1>1, <1>2, <1>3, <2>1 DEF JobOK
<1>7. Alone'
  BY <1>2 DEF Alone, GuardInv
<1> QED
  BY <1>4, <1>5, <1>6, <1>7 DEF GuardInv

-----------------------------------------------------------------------------
(* The invariant, and what follows from it.                                *)

LEMMA InitHolds == Init => GuardInv
<1> SUFFICES ASSUME Init PROVE GuardInv
  OBVIOUS
<1>1. NoRow \in RowType /\ NoRow.state = "none" /\ NoRow.inverse = 0
  BY DEF NoRow, RowType, States
<1>2. TypeOK
  <2>1. act \in [Actions -> RowType] /\ job \in [Procs -> JobType]
    BY <1>1, NoJobType DEF Init
  <2>2. 0 \in 0..FaultBudget /\ 0 \in 0..0
    OBVIOUS
  <2> QED
    BY <2>1, <2>2 DEF Init, TypeOK, RowType, JobType
<1>3. \A a \in Actions : RowOK(a)
  BY <1>1 DEF Init, RowOK, Passed
<1>4. \A p \in Procs : JobOK(p)
  BY NoJobType DEF Init, JobOK, Running
<1>5. Alone
  BY DEF Init, Alone, Running
<1> QED
  BY <1>2, <1>3, <1>4, <1>5 DEF GuardInv

\* Every statement of the engine, and whatever happens between two of them,
\* keeps rows, requests and what was done in step.
THEOREM GuardInvariant == Spec => []GuardInv
<1>1. GuardInv /\ [Next]_vars => GuardInv'
  <2> SUFFICES ASSUME GuardInv, [Next]_vars PROVE GuardInv'
    OBVIOUS
  <2>1. ASSUME NEW p \in Procs, Serve(p) PROVE GuardInv'
    BY <2>1, SubmitStep, CreateStep, ReadStep, DecideStep, PreflightStep, WriteStep,
       FingerprintStep, RecordStep, ThrowStep, FailStep, UndoStep, DriftStep,
       ReverseStep, MarkUndoneStep, CrashStep DEF Serve
  <2> QED
    BY <2>1, WorldStep DEF Next
<1> QED
  BY <1>1, InitHolds, PTL DEF Spec

\* An action has one version at most.
LEMMA OneVersion ==
  ASSUME GuardInv, NEW a \in Actions
  PROVE  wrote[a] = {} \/ \E v : wrote[a] = {v}
<1> SUFFICES ASSUME NEW v \in wrote[a] PROVE wrote[a] = {v}
  OBVIOUS
<1> QED
  BY DEF GuardInv, RowOK

\* What OneVersion says of the number of times an action ran.
LEMMA RunsOnce == GuardInv => ExecutesOnce
<1> SUFFICES ASSUME GuardInv, NEW a \in Actions PROVE Cardinality(wrote[a]) <= 1
  BY DEF ExecutesOnce
<1>1. CASE wrote[a] = {}
  BY <1>1, FS_EmptySet
<1>2. ASSUME NEW v, wrote[a] = {v} PROVE Cardinality(wrote[a]) <= 1
  <2>1. Cardinality({v}) = 1
    BY FS_Singleton
  <2> QED
    BY <1>2, <2>1
<1> QED
  BY <1>1, <1>2, OneVersion

\* transition() compares and swaps the state of a row: an action runs once,
\* whoever approves, rejects, expires or submits again at the same moment.
THEOREM ExecutesOnceCorrect == Spec => []ExecutesOnce
  BY RunsOnce, GuardInvariant, PTL

\* approveAction and decideGate: no action runs without the decision that the
\* policy it was judged under calls for.
THEOREM SecondPersonCorrect == Spec => []SecondPerson
<1>1. GuardInv => SecondPerson
  BY DEF GuardInv, RowOK, Authorized, SecondPerson
<1> QED
  BY <1>1, GuardInvariant, PTL

\* The state of a row tells what was done, wherever a process died.
THEOREM HistoryIsTrueCorrect == Spec => []HistoryIsTrue
<1>1. GuardInv => HistoryIsTrue
  BY RunsOnce DEF GuardInv, RowOK, Passed, HistoryIsTrue
<1> QED
  BY <1>1, GuardInvariant, PTL
-----------------------------------------------------------------------------
(* The rows keep what the gate promises: Consent.                          *)

\* What a row says of its action to those who read it.
Entry(r) ==
  [stage |-> r.state, by |-> r.by, gate |-> r.gate, self |-> r.self,
   decider |-> r.decider, due |-> r.due]

\* Nothing that Consent speaks of has changed.
Unwritten == UNCHANGED <<Book, Made, Reversed>>

Undoing == {"drift", "reverse", "undone"}

\* What a process knows of the action, beyond JobOK, when it is about to write.
Knows(p) ==
  /\ pc[p] \in {"create", "decide"} => job[p].user \in Users
  /\ pc[p] = "decide" /\ job[p].verb = "expire" => act[job[p].action].due
  /\ pc[p] \in Undoing => act[job[p].action].state \in {"executed", "undone"}

AllKnow == \A p \in Procs : Knows(p)

ConsentInv == GuardInv /\ AllKnow

\* A row never forgets that its action was executed, nor that its time is up.
Forward ==
  \A a \in Actions :
    /\ act[a].state \in {"executed", "undone"} => act'[a].state \in {"executed", "undone"}
    /\ act[a].state # "none" /\ act[a].due => act'[a].due

\* transition() and the sweep only move a row on.
LEMMA RowsGoForward ==
  ASSUME GuardInv, [Next]_vars
  PROVE  Forward
<1>1. /\ act \in [Actions -> RowType] /\ job \in [Procs -> JobType]
      /\ \A p \in Procs : job[p].action \in Actions /\ JobOK(p)
  BY Types DEF GuardInv, JobType
<1>2. CASE act' = act
  BY <1>2 DEF Forward
<1>3. ASSUME NEW a \in Actions, NEW r \in RowType,
             act' = [act EXCEPT ![a] = r],
             \/ act[a].state = "none"
             \/ r.due = act[a].due /\ act[a].state \notin {"executed", "undone"}
             \/ r.due /\ r.state = act[a].state
             \/ r.due = act[a].due /\ r.state = "undone"
      PROVE  Forward
  <2>1. act'[a] = r /\ \A b \in Actions : b # a => act'[b] = act[b]
    BY <1>1, <1>3
  <2> SUFFICES ASSUME NEW b \in Actions
               PROVE  /\ act[b].state \in {"executed", "undone"} =>
                           act'[b].state \in {"executed", "undone"}
                      /\ act[b].state # "none" /\ act[b].due => act'[b].due
    BY DEF Forward
  <2> QED
    BY <1>3, <2>1
<1>4. ASSUME NEW p \in Procs, Create(p), act' # act PROVE Forward
  <2> DEFINE r == [NoRow EXCEPT !.state = Judged[job[p].gate], !.by = job[p].user,
                             !.gate = job[p].gate, !.self = job[p].self]
  <2>1. act' = [act EXCEPT ![job[p].action] = r] /\ act[job[p].action].state = "none"
    BY <1>4 DEF Create, Moved, Row
  <2>2. /\ job[p].gate \in {"execute", "approval", "deny"}
        /\ job[p].user \in Users \cup {NoUser} /\ job[p].self \in BOOLEAN
    BY <1>1 DEF JobType
  <2>3. Judged[job[p].gate] \in States
    BY <2>2 DEF Judged, States
  <2>4. r \in RowType
    BY <2>2, <2>3 DEF RowType, NoRow
  <2> HIDE DEF r
  <2> QED
    BY <1>1, <1>3, <2>1, <2>4
<1>5. ASSUME NEW p \in Procs, Decide(p), act' # act PROVE Forward
  <2> DEFINE a == job[p].action
             d == IF job[p].verb = "expire" THEN act[a].decider ELSE job[p].user
             r == [act[a] EXCEPT !.state = Decided[job[p].verb], !.decider = d]
  <2>1. act' = [act EXCEPT ![a] = r] /\ act[a].state = "pending" /\ pc[p] = "decide"
    BY <1>5 DEF Decide, Moved, Row
  <2>2. job[p].verb \in {"approve", "reject", "expire"} /\ job[p].user \in Users \cup {NoUser}
    BY <1>1, <2>1 DEF JobOK, JobType, Verbs
  <2>3. act[a] \in RowType /\ a \in Actions
    BY <1>1
  <2>4. Decided[job[p].verb] \in States
    BY <2>2 DEF Decided, States
  <2> HIDE DEF a
  <2>5. r \in RowType /\ r.due = act[a].due
    BY <2>2, <2>3, <2>4 DEF RowType
  <2> HIDE DEF r
  <2> QED
    BY <1>3, <2>1, <2>3, <2>5
<1>6. ASSUME NEW p \in Procs, Record(p) \/ Fail(p) \/ MarkUndone(p), act' # act
      PROVE  Forward
  <2> DEFINE a == job[p].action
  <2>1. act[a] \in RowType /\ a \in Actions /\ job[p].before \in Nat /\ job[p].print \in Nat
    BY <1>1 DEF JobType
  <2> HIDE DEF a
  <2>2. CASE Record(p)
    <3> DEFINE r == [act[a] EXCEPT !.state = "executed", !.inverse = job[p].before,
                                   !.print = job[p].print]
    <3>1. act' = [act EXCEPT ![a] = r] /\ act[a].state = "approved"
      BY <1>6, <2>2 DEF Record, Moved, Row, a
    <3>2. r \in RowType /\ r.due = act[a].due
      BY <2>1 DEF RowType, States
    <3> HIDE DEF r
    <3> QED
      BY <1>3, <2>1, <3>1, <3>2
  <2>3. CASE Fail(p)
    <3> DEFINE r == [act[a] EXCEPT !.state = "failed"]
    <3>1. act' = [act EXCEPT ![a] = r] /\ act[a].state = "approved"
      BY <1>6, <2>3 DEF Fail, Moved, Row, a
    <3>2. r \in RowType /\ r.due = act[a].due
      BY <2>1 DEF RowType, States
    <3> HIDE DEF r
    <3> QED
      BY <1>3, <2>1, <3>1, <3>2
  <2>4. CASE MarkUndone(p)
    <3> DEFINE r == [act[a] EXCEPT !.state = "undone"]
    <3>1. act' = [act EXCEPT ![a] = r]
      BY <1>6, <2>4 DEF MarkUndone, Moved, Row, a
    <3>2. r \in RowType /\ r.due = act[a].due /\ r.state = "undone"
      BY <2>1 DEF RowType, States
    <3> HIDE DEF r
    <3> QED
      BY <1>3, <2>1, <3>1, <3>2
  <2> QED
    BY <1>6, <2>2, <2>3, <2>4
<1>7. ASSUME NEW a \in Actions, DeadlinePasses(a) PROVE Forward
  <2> DEFINE r == [act[a] EXCEPT !.due = TRUE]
  <2>1. act' = [act EXCEPT ![a] = r]
    BY <1>7 DEF DeadlinePasses
  <2>2. act[a] \in RowType
    BY <1>1
  <2>3. r \in RowType /\ r.due /\ r.state = act[a].state
    BY <2>2 DEF RowType
  <2> HIDE DEF r
  <2> QED
    BY <1>3, <2>1, <2>3
<1>8. \/ act' = act
      \/ \E p \in Procs : Create(p) \/ Decide(p) \/ Record(p) \/ Fail(p) \/ MarkUndone(p)
      \/ \E a \in Actions : DeadlinePasses(a)
  <2>1. ASSUME NEW p \in Procs, Serve(p)
        PROVE  \/ act' = act
               \/ Create(p) \/ Decide(p) \/ Record(p) \/ Fail(p) \/ MarkUndone(p)
    <3>1. Submit(p) \/ ReadPending(p) \/ Preflight(p) => act' = act
      BY DEF Submit, ReadPending, Preflight
    <3>2. Write(p) \/ Fingerprint(p) \/ Throw(p) => act' = act
      BY DEF Write, Fingerprint, Throw
    <3>3. Undo(p) \/ CheckDrift(p) => act' = act
      BY DEF Undo, CheckDrift
    <3>4. Reverse(p) \/ Crash(p) => act' = act
      BY DEF Reverse, Crash
    <3> QED
      BY <2>1, <3>1, <3>2, <3>3, <3>4 DEF Serve
  <2>2. Edit \/ SavePolicy \/ UNCHANGED vars => act' = act
    BY DEF Edit, SavePolicy, vars
  <2> QED
    BY <2>1, <2>2 DEF Next
<1>9. CASE act' # act
  <2>1. ASSUME NEW p \in Procs,
               Create(p) \/ Decide(p) \/ Record(p) \/ Fail(p) \/ MarkUndone(p)
        PROVE  Forward
    BY <1>4, <1>5, <1>6, <1>9, <2>1
  <2> QED
    BY <1>7, <1>8, <1>9, <2>1
<1> QED
  BY <1>2, <1>9

\* A request leaves the other processes alone.
LEMMA OthersWait ==
  ASSUME TypeOK, NEW p \in Procs, Serve(p), NEW q \in Procs, q # p
  PROVE  pc'[q] = pc[q] /\ job'[q] = job[q]
<1>1. pc \in [Procs -> Steps] /\ job \in [Procs -> JobType]
  BY Types
<1>2. ASSUME NEW where \in Steps, GoTo(p, where) PROVE pc'[q] = pc[q]
  BY <1>1, <1>2 DEF GoTo
<1>3. Finish(p) => pc'[q] = pc[q] /\ job'[q] = job[q]
  BY Finished
<1>4. ASSUME NEW j, job' = job \/ job' = [job EXCEPT ![p] = j] PROVE job'[q] = job[q]
  BY <1>1, <1>4
<1>5. Submit(p) \/ ReadPending(p) \/ Undo(p) => pc'[q] = pc[q] /\ job'[q] = job[q]
  <2>1. Submit(p) \/ ReadPending(p) \/ Undo(p) =>
          \E where \in {"create", "decide", "drift"} : GoTo(p, where)
    BY DEF Submit, ReadPending, Undo
  <2>2. Submit(p) => job'[q] = job[q]
    BY <1>1 DEF Submit
  <2>3. ReadPending(p) => job'[q] = job[q]
    BY <1>1 DEF ReadPending
  <2>4. Undo(p) => job'[q] = job[q]
    BY <1>1 DEF Undo
  <2> QED
    BY <1>2, <2>1, <2>2, <2>3, <2>4 DEF Steps
<1>6. Preflight(p) \/ Fingerprint(p) => pc'[q] = pc[q] /\ job'[q] = job[q]
  BY <1>1 DEF Preflight, Fingerprint, GoTo
<1>7. Create(p) \/ Decide(p) \/ CheckDrift(p) => pc'[q] = pc[q] /\ job'[q] = job[q]
  BY <1>1, <1>3 DEF Create, Decide, CheckDrift, GoTo
<1>8. Write(p) \/ Throw(p) \/ Reverse(p) => pc'[q] = pc[q] /\ job'[q] = job[q]
  BY <1>1 DEF Write, Throw, Reverse, GoTo
<1>9. Record(p) \/ Fail(p) \/ MarkUndone(p) \/ Crash(p) =>
        pc'[q] = pc[q] /\ job'[q] = job[q]
  BY <1>3 DEF Record, Fail, MarkUndone, Crash
<1> QED
  BY <1>5, <1>6, <1>7, <1>8, <1>9 DEF Serve

\* What a process knows stays true until it acts on it: nobody takes an action
\* that was executed back to another state, or gives it more time.
LEMMA KnowsStep ==
  ASSUME ConsentInv, [Next]_vars, NEW q \in Procs
  PROVE  Knows(q)'
<1>1. /\ Forward /\ Knows(q) /\ JobOK(q) /\ TypeOK
      /\ job[q].action \in Actions /\ job[q] \in JobType
      /\ pc \in [Procs -> Steps] /\ job \in [Procs -> JobType]
  BY RowsGoForward, Types DEF ConsentInv, AllKnow, GuardInv, JobType
<1>2. CASE pc'[q] = pc[q] /\ job'[q] = job[q]
  BY <1>1, <1>2 DEF Forward, Knows, JobOK
<1>3. ASSUME NEW p \in Procs, Serve(p), q # p PROVE Knows(q)'
  BY <1>1, <1>2, <1>3, OthersWait
<1>4. CASE Serve(q)
  <2>1. CASE pc'[q] \notin {"create", "decide"} \cup Undoing
    BY <2>1 DEF Knows
  <2>2. CASE Finish(q)
    BY <1>1, <2>1, <2>2, Finished DEF Undoing
  <2>3. CASE Submit(q)
    BY <1>1, <2>3 DEF Submit, GoTo, Knows, Undoing
  <2>4. CASE ReadPending(q)
    BY <1>1, <2>4 DEF ReadPending, MayDecide, GoTo, Knows, Undoing
  <2>5. CASE Undo(q)
    BY <1>1, <2>5 DEF Undo, GoTo, Knows, Undoing
  <2>6. CASE CheckDrift(q) /\ ~Finish(q)
    BY <1>1, <2>6 DEF CheckDrift, GoTo, Knows, Undoing
  <2>7. CASE Reverse(q)
    BY <1>1, <2>7 DEF Reverse, GoTo, Knows, Undoing
  <2>8. Create(q) \/ Decide(q) => Finish(q) \/ GoTo(q, "run")
    BY DEF Create, Decide
  <2>9. Preflight(q) \/ Write(q) \/ Fingerprint(q) \/ Throw(q) =>
          \E where \in {"write", "fail", "print", "record"} : GoTo(q, where)
    BY DEF Preflight, Write, Fingerprint, Throw
  <2>10. Record(q) \/ Fail(q) \/ MarkUndone(q) \/ Crash(q) => Finish(q)
    BY DEF Record, Fail, MarkUndone, Crash
  <2>11. ASSUME NEW where \in Running, GoTo(q, where) PROVE Knows(q)'
    BY <1>1, <2>1, <2>11 DEF GoTo, Running, Undoing
  <2> QED
    BY <1>4, <2>2, <2>3, <2>4, <2>5, <2>6, <2>7, <2>8, <2>9, <2>10, <2>11
    DEF Serve, Running
<1>5. CASE UNCHANGED vars \/ Edit \/ SavePolicy \/ \E a \in Actions : DeadlinePasses(a)
  BY <1>2, <1>5 DEF vars, Edit, SavePolicy, DeadlinePasses
<1> QED
  BY <1>3, <1>4, <1>5 DEF Next

\* GuardInv with what the processes know is inductive.
LEMMA ConsentInvariant == Spec => []ConsentInv
<1>1. Init => ConsentInv
  <2>1. Init => AllKnow
    BY DEF Init, AllKnow, Knows, Undoing
  <2> QED
    BY <2>1, InitHolds DEF ConsentInv
<1>2. ConsentInv /\ [Next]_vars => AllKnow'
  BY KnowsStep DEF AllKnow
<1> QED
  BY <1>1, <1>2, GuardInvariant, PTL DEF Spec, ConsentInv

-----------------------------------------------------------------------------
(* Every statement of the engine is a step of Consent, or none.            *)

\* Consent's book, read from the rows.
LEMMA BookOf ==
  ASSUME GuardInv, NEW a \in Actions
  PROVE  /\ Book[a] = Entry(act[a])
         /\ Book[a].stage = act[a].state /\ Book[a].by = act[a].by
         /\ Book[a].self = act[a].self /\ Book[a].due = act[a].due
  BY DEF Book, Entry

\* A row is written, and nothing else that Consent speaks of.
LEMMA EnterStep ==
  ASSUME GuardInv, NEW a \in Actions, NEW r, act' = [act EXCEPT ![a] = r],
         UNCHANGED <<wrote, undid>>
  PROVE  Promise!Enter(a, Entry(r))
<1>1. act \in [Actions -> RowType]
  BY Types DEF GuardInv
<1>2. Book' = [Book EXCEPT ![a] = Entry(r)]
  BY <1>1 DEF Book, Entry
<1>3. Made' = Made /\ Reversed' = Reversed
  BY DEF Made, Reversed
<1> QED
  BY <1>2, <1>3 DEF Promise!Enter

\* Steps that touch neither the rows nor what was done.
LEMMA QuietConsent ==
  ASSUME UNCHANGED <<act, wrote, undid>>
  PROVE  Unwritten
  BY DEF Unwritten, Book, Made, Reversed

\* createAction writes the judgement.
LEMMA CreateIsJudge ==
  ASSUME ConsentInv, NEW p \in Procs, Create(p), act' # act
  PROVE  Promise!Judge(job[p].action)
<1> DEFINE a == job[p].action
           r == [NoRow EXCEPT !.state = Judged[job[p].gate], !.by = job[p].user,
                           !.gate = job[p].gate, !.self = job[p].self]
           v == [gate |-> job[p].gate, stage |-> Judged[job[p].gate]]
<1>1. /\ GuardInv /\ job[p] \in JobType /\ a \in Actions /\ Knows(p)
      /\ pc[p] = "create"
  BY Types DEF ConsentInv, AllKnow, GuardInv, JobType, Create
<1>2. /\ act' = [act EXCEPT ![a] = r] /\ act[a].state = "none"
      /\ UNCHANGED <<wrote, undid>>
  BY DEF Create, Moved, Row
<1>3. job[p].user \in Users /\ job[p].self \in BOOLEAN
  BY <1>1 DEF Knows, JobType
<1>4. v \in Promise!Verdicts
  <2>1. job[p].gate \in {"execute", "approval", "deny"}
    BY <1>1 DEF JobType
  <2> QED
    BY <2>1 DEF Promise!Verdicts, Judged
<1>5. Entry(r) = [stage |-> v.stage, by |-> job[p].user, gate |-> v.gate,
                  self |-> job[p].self, decider |-> NoUser, due |-> FALSE]
  <2> HIDE DEF Judged
  <2> QED
    BY DEF Entry, NoRow
<1>6. Promise!Enter(a, Entry(r))
  <2> HIDE DEF r
  <2> QED
    BY <1>1, <1>2, EnterStep
<1> HIDE DEF a, r, v
<1>7. Book[a].stage = "none"
  BY <1>1, <1>2, BookOf
<1> QED
  BY <1>3, <1>4, <1>5, <1>6, <1>7 DEF Promise!Judge, a

\* A row that somebody decided, and its entry in the book.
LEMMA DecidedEntry ==
  ASSUME NEW s, NEW r, r.by = s.by, r.gate = s.gate, r.self = s.self, r.due = s.due
  PROVE  Entry(r) = [Entry(s) EXCEPT !.stage = r.state, !.decider = r.decider]
<1> DEFINE e == [Entry(s) EXCEPT !.stage = r.state]
<1>1. e = [stage |-> r.state, by |-> s.by, gate |-> s.gate, self |-> s.self,
           decider |-> s.decider, due |-> s.due]
  BY DEF Entry
<1> HIDE DEF e
<1>2. [e EXCEPT !.decider = r.decider] =
        [stage |-> r.state, by |-> s.by, gate |-> s.gate, self |-> s.self,
         decider |-> r.decider, due |-> s.due]
  BY <1>1
<1> QED
  BY <1>2 DEF Entry, e

\* The states that the three decisions lead to.
LEMMA Words ==
  /\ Decided["approve"] = "approved" /\ Decided["reject"] = "rejected"
  /\ Decided["expire"] = "expired"
  BY DEF Decided

\* approveAction, rejectAction and the sweep write the decision.
LEMMA DecideIsDecision ==
  ASSUME ConsentInv, NEW p \in Procs, Decide(p), act' # act
  PROVE  LET a == job[p].action
         IN  Promise!Approve(a) \/ Promise!Reject(a) \/ Promise!Lapse(a)
<1> DEFINE a == job[p].action
           d == IF job[p].verb = "expire" THEN act[a].decider ELSE job[p].user
           r == [act[a] EXCEPT !.state = Decided[job[p].verb], !.decider = d]
<1>1. /\ GuardInv /\ job[p] \in JobType /\ a \in Actions /\ Knows(p) /\ JobOK(p)
      /\ pc[p] = "decide" /\ act[a] \in RowType
  BY Types DEF ConsentInv, AllKnow, GuardInv, JobType, Decide
<1>2. /\ act' = [act EXCEPT ![a] = r] /\ act[a].state = "pending"
      /\ UNCHANGED <<wrote, undid>>
  BY DEF Decide, Moved, Row
<1>3. /\ job[p].user \in Users /\ job[p].verb \in {"approve", "reject", "expire"}
      /\ job[p].verb = "approve" => act[a].self \/ job[p].user # act[a].by
      /\ job[p].verb = "expire" => act[a].due
  BY <1>1 DEF Knows, JobOK, JobType, Verbs
<1>4. Promise!Enter(a, Entry(r))
  <2> HIDE DEF r
  <2> QED
    BY <1>1, <1>2, EnterStep
<1>5. /\ Book[a] = Entry(act[a])
      /\ Book[a].stage = "pending" /\ Book[a].self = act[a].self
      /\ Book[a].by = act[a].by /\ Book[a].due = act[a].due
  <2> HIDE DEF a, r
  <2> QED
    BY <1>1, <1>2, BookOf
<1>6. /\ r.state = Decided[job[p].verb] /\ r.decider = d /\ r.by = act[a].by
      /\ r.gate = act[a].gate /\ r.self = act[a].self /\ r.due = act[a].due
  <2> HIDE DEF a, d, Decided
  <2> QED
    BY <1>1 DEF RowType
<1> HIDE DEF r
<1>7. Entry(r) = [Entry(act[a]) EXCEPT !.stage = r.state, !.decider = r.decider]
  BY <1>6, DecidedEntry
<1>8. CASE job[p].verb = "approve"
  <2> DEFINE entry(u) == [Book[a] EXCEPT !.stage = "approved", !.decider = u]
  <2>0. r.state = "approved" /\ r.decider = job[p].user
    BY <1>6, <1>8, Words
  <2> HIDE DEF a
  <2>1. Entry(r) = entry(job[p].user)
    BY <1>5, <1>7, <2>0
  <2>2. Promise!Enter(a, entry(job[p].user))
    BY <1>4, <2>1
  <2>3. Book[a].self \/ job[p].user # Book[a].by
    BY <1>3, <1>5, <1>8
  <2> HIDE DEF entry
  <2>4. \E u \in Users :
          /\ Book[a].self \/ u # Book[a].by
          /\ Promise!Enter(a, entry(u))
    BY <1>3, <2>2, <2>3
  <2> QED
    BY <1>5, <2>4 DEF Promise!Approve, entry, a
<1>9. CASE job[p].verb = "reject"
  <2> DEFINE entry(u) == [Book[a] EXCEPT !.stage = "rejected", !.decider = u]
  <2>0. r.state = "rejected" /\ r.decider = job[p].user
    BY <1>6, <1>9, Words
  <2> HIDE DEF a
  <2>1. Entry(r) = entry(job[p].user)
    BY <1>5, <1>7, <2>0
  <2>2. Promise!Enter(a, entry(job[p].user))
    BY <1>4, <2>1
  <2> HIDE DEF entry
  <2>3. \E u \in Users : Promise!Enter(a, entry(u))
    BY <1>3, <2>2
  <2> QED
    BY <1>5, <2>3 DEF Promise!Reject, entry, a
<1>10. CASE job[p].verb = "expire"
  <2>1. Entry(r) = [Book[a] EXCEPT !.stage = "expired"]
    BY <1>5, <1>6, <1>10, Words DEF Entry
  <2> HIDE DEF a
  <2> QED
    BY <1>3, <1>4, <1>5, <1>10, <2>1 DEF Promise!Lapse, a
<1> QED
  BY <1>3, <1>8, <1>9, <1>10

\* A row that moves to another state, and its entry in the book.
LEMMA MovedEntry ==
  ASSUME NEW s, NEW r, r.by = s.by, r.gate = s.gate, r.self = s.self, r.due = s.due,
         r.decider = s.decider
  PROVE  Entry(r) = [Entry(s) EXCEPT !.stage = r.state]
  BY DEF Entry

\* How often an action ran, as Consent counts it.
LEMMA MadeOf ==
  ASSUME NEW a \in Actions
  PROVE  /\ wrote[a] = {} => Made[a] = 0
         /\ \A v : wrote[a] = {v} => Made[a] = 1
<1>1. Cardinality({}) = 0 /\ \A v : Cardinality({v}) = 1
  BY FS_EmptySet, FS_Singleton
<1> QED
  BY <1>1 DEF Made

\* runExecution writes how the execution ended.
LEMMA RunIsSettled ==
  ASSUME ConsentInv, NEW p \in Procs, Record(p) \/ Fail(p)
  PROVE  Promise!Executed(job[p].action) \/ Promise!Failed(job[p].action)
<1> DEFINE a == job[p].action
           rec == [act[a] EXCEPT !.state = "executed", !.inverse = job[p].before,
                                 !.print = job[p].print]
           bad == [act[a] EXCEPT !.state = "failed"]
<1>1. /\ GuardInv /\ a \in Actions /\ JobOK(p) /\ act[a] \in RowType
      /\ UNCHANGED <<wrote, undid>>
  BY Types DEF ConsentInv, GuardInv, JobType, Record, Fail
<1>2. act[a].state = "approved" /\ Book[a].stage = "approved"
      /\ Book[a] = Entry(act[a])
  <2>1. act[a].state = "approved"
    BY <1>1 DEF JobOK, Record, Fail, Running
  <2> HIDE DEF a
  <2> QED
    BY <1>1, <2>1, BookOf
<1>3. CASE Record(p)
  <2>1. act' = [act EXCEPT ![a] = rec]
    BY <1>2, <1>3 DEF Record, Moved, Row
  <2>2. /\ rec.state = "executed" /\ rec.by = act[a].by /\ rec.gate = act[a].gate
        /\ rec.self = act[a].self /\ rec.due = act[a].due
        /\ rec.decider = act[a].decider
    BY <1>1 DEF RowType
  <2> HIDE DEF rec
  <2>3. Made[a] = 1
    <3>1. wrote[a] # {}
      BY <1>1, <1>3 DEF JobOK, Record
    <3> HIDE DEF a
    <3> QED
      BY <1>1, <3>1, OneVersion, MadeOf
  <2> HIDE DEF a
  <2>4. Promise!Enter(a, Entry(rec))
    BY <1>1, <2>1, EnterStep
  <2>5. Entry(rec) = [Entry(act[a]) EXCEPT !.stage = rec.state]
    BY <2>2, MovedEntry
  <2> QED
    BY <1>2, <2>2, <2>3, <2>4, <2>5 DEF Promise!Executed, a
<1>4. CASE Fail(p)
  <2>1. act' = [act EXCEPT ![a] = bad]
    BY <1>2, <1>4 DEF Fail, Moved, Row
  <2>2. /\ bad.state = "failed" /\ bad.by = act[a].by /\ bad.gate = act[a].gate
        /\ bad.self = act[a].self /\ bad.due = act[a].due
        /\ bad.decider = act[a].decider
    BY <1>1 DEF RowType
  <2> HIDE DEF a, bad
  <2>3. Promise!Enter(a, Entry(bad))
    BY <1>1, <2>1, EnterStep
  <2>4. Entry(bad) = [Entry(act[a]) EXCEPT !.stage = bad.state]
    BY <2>2, MovedEntry
  <2> QED
    BY <1>2, <2>2, <2>3, <2>4 DEF Promise!Failed, a
<1> QED
  BY <1>3, <1>4

\* execute() makes the change, with leave and for the first time.
LEMMA WriteIsMake ==
  ASSUME ConsentInv, NEW p \in Procs, Write(p)
  PROVE  Promise!Make(job[p].action)
<1> DEFINE a == job[p].action
<1>1. /\ GuardInv /\ a \in Actions /\ JobOK(p) /\ pc[p] = "write" /\ clock \in Nat
      /\ wrote \in [Actions -> SUBSET (1..clock)]
  BY Types DEF ConsentInv, GuardInv, JobType, Write
<1>2. act[a].state = "approved" /\ wrote[a] = {}
  BY <1>1 DEF JobOK, Running
<1>3. wrote' = [wrote EXCEPT ![a] = wrote[a] \cup {clock + 1}]
      /\ act' = act /\ undid' = undid
  BY DEF Write
<1> HIDE DEF a
<1>4. Book[a].stage = "approved" /\ Made[a] = 0
  BY <1>1, <1>2, BookOf, MadeOf
<1>5. Book' = Book /\ Reversed' = Reversed
  BY <1>3 DEF Book, Reversed
<1>6. Made' = [Made EXCEPT ![a] = 1]
  <2>1. wrote'[a] = {clock + 1} /\ \A b \in Actions : b # a => wrote'[b] = wrote[b]
    BY <1>1, <1>2, <1>3
  <2>2. Cardinality({clock + 1}) = 1
    BY FS_Singleton
  <2> QED
    BY <1>1, <2>1, <2>2 DEF Made
<1> QED
  BY <1>4, <1>5, <1>6 DEF Promise!Make, a

\* reverse() undoes what the row shows as executed.  A second process that passed
\* the drift check with the first reverses again, which Consent does not count.
LEMMA ReverseIsReverse ==
  ASSUME ConsentInv, NEW p \in Procs, Reverse(p)
  PROVE  Promise!Reverse(job[p].action) \/ Unwritten
<1> DEFINE a == job[p].action
<1>1. /\ GuardInv /\ a \in Actions /\ Knows(p) /\ RowOK(a) /\ pc[p] = "reverse"
      /\ undid \in [Actions -> Nat]
  BY Types DEF ConsentInv, AllKnow, GuardInv, JobType, Reverse
<1>2. act[a].state \in {"executed", "undone"}
  BY <1>1 DEF Knows, Undoing
<1>3. act[a].state = "undone" => undid[a] > 0
  BY <1>1 DEF RowOK
<1>4. undid' = [undid EXCEPT ![a] = undid[a] + 1] /\ act' = act /\ wrote' = wrote
  BY DEF Reverse
<1> HIDE DEF a
<1>5. Book' = Book /\ Made' = Made
  BY <1>4 DEF Book, Made
<1>6. Reversed' = Reversed \cup {a}
  <2>1. /\ undid'[a] = undid[a] + 1 /\ undid[a] \in Nat
        /\ \A b \in Actions : b # a => undid'[b] = undid[b]
    BY <1>1, <1>4
  <2>2. ASSUME NEW b \in Actions PROVE undid'[b] > 0 <=> undid[b] > 0 \/ b = a
    BY <2>1, <2>2
  <2> QED
    BY <1>1, <2>2 DEF Reversed
<1>7. CASE undid[a] > 0
  <2>1. a \in Reversed
    BY <1>1, <1>7 DEF Reversed
  <2> QED
    BY <1>5, <1>6, <2>1 DEF Unwritten
<1>8. CASE ~(undid[a] > 0)
  <2>1. Book[a].stage = "executed"
    BY <1>1, <1>2, <1>3, <1>8, BookOf
  <2> QED
    BY <1>5, <1>6, <2>1 DEF Promise!Reverse, a
<1> QED
  BY <1>7, <1>8

\* undoAction marks the row when the reversal is done.
LEMMA MarkIsUndone ==
  ASSUME ConsentInv, NEW p \in Procs, MarkUndone(p)
  PROVE  Promise!Undone(job[p].action) \/ Unwritten
<1> DEFINE a == job[p].action
           r == [act[a] EXCEPT !.state = "undone"]
<1>1. /\ GuardInv /\ a \in Actions /\ JobOK(p) /\ act[a] \in RowType /\ pc[p] = "undone"
      /\ UNCHANGED <<wrote, undid>>
  BY Types DEF ConsentInv, GuardInv, JobType, MarkUndone
<1>2. CASE act[a].state # "executed"
  <2>1. act' = act
    BY <1>2 DEF MarkUndone, Moved, Row
  <2> QED
    BY <1>1, <2>1, QuietConsent
<1>3. CASE act[a].state = "executed"
  <2>1. act' = [act EXCEPT ![a] = r]
    BY <1>3 DEF MarkUndone, Moved, Row
  <2>2. /\ r.state = "undone" /\ r.by = act[a].by /\ r.gate = act[a].gate
        /\ r.self = act[a].self /\ r.due = act[a].due /\ r.decider = act[a].decider
    BY <1>1 DEF RowType
  <2>3. undid[a] > 0
    BY <1>1 DEF JobOK
  <2> HIDE DEF a, r
  <2>4. a \in Reversed
    BY <1>1, <2>3 DEF Reversed
  <2>5. Promise!Enter(a, Entry(r))
    BY <1>1, <2>1, EnterStep
  <2>6. Entry(r) = [Entry(act[a]) EXCEPT !.stage = r.state]
    BY <2>2, MovedEntry
  <2>7. Book[a] = Entry(act[a]) /\ Book[a].stage = "executed"
    BY <1>1, <1>3, BookOf
  <2> QED
    BY <2>2, <2>4, <2>5, <2>6, <2>7 DEF Promise!Undone, a
<1> QED
  BY <1>2, <1>3

\* The deadline of a request passes.
LEMMA DeadlineIsFall ==
  ASSUME ConsentInv, NEW a \in Actions, DeadlinePasses(a)
  PROVE  Promise!Fall(a)
<1> DEFINE r == [act[a] EXCEPT !.due = TRUE]
<1>1. /\ GuardInv /\ act[a] \in RowType /\ act[a].state = "pending"
      /\ act' = [act EXCEPT ![a] = r] /\ UNCHANGED <<wrote, undid>>
  BY Types DEF ConsentInv, GuardInv, DeadlinePasses
<1>2. /\ r.due = TRUE /\ r.state = act[a].state /\ r.by = act[a].by
      /\ r.gate = act[a].gate /\ r.self = act[a].self /\ r.decider = act[a].decider
  BY <1>1 DEF RowType
<1> HIDE DEF r
<1>3. Promise!Enter(a, Entry(r))
  BY <1>1, EnterStep
<1>4. Book[a] = Entry(act[a]) /\ Book[a].stage = "pending"
  BY <1>1, BookOf
<1>5. Entry(r) = [Entry(act[a]) EXCEPT !.due = TRUE]
  <2>1. Entry(r) = [Entry(act[a]) EXCEPT !.due = r.due]
    BY <1>2 DEF Entry
  <2> QED
    BY <1>2, <2>1, Zenon
<1> QED
  BY <1>3, <1>4, <1>5 DEF Promise!Fall

\* Every step of the engine, and of the world around it, is a step of Consent on the
\* action that the request is about, or none.
LEMMA ConsentStep ==
  ASSUME ConsentInv, [Next]_vars
  PROVE  [Promise!Next]_(Promise!gateVars)
<1>1. ASSUME NEW p \in Procs, Serve(p) PROVE Promise!Next \/ Unwritten
  <2>1. job[p].action \in Actions
    BY Types DEF ConsentInv, GuardInv, JobType
  <2>2. CASE act' = act /\ wrote' = wrote /\ undid' = undid
    BY <2>2, QuietConsent
  <2>3. CASE (Create(p) \/ Decide(p)) /\ act' # act
    BY <2>1, <2>3, CreateIsJudge, DecideIsDecision DEF Promise!Next
  <2>4. CASE Record(p) \/ Fail(p)
    BY <2>1, <2>4, RunIsSettled DEF Promise!Next
  <2>5. CASE Write(p)
    BY <2>1, <2>5, WriteIsMake DEF Promise!Next
  <2>6. CASE Reverse(p)
    BY <2>1, <2>6, ReverseIsReverse DEF Promise!Next
  <2>7. CASE MarkUndone(p)
    BY <2>1, <2>7, MarkIsUndone DEF Promise!Next
  <2>8. Submit(p) \/ ReadPending(p) \/ Preflight(p) \/ Fingerprint(p) =>
          act' = act /\ wrote' = wrote /\ undid' = undid
    BY DEF Submit, ReadPending, Preflight, Fingerprint
  <2>9. Throw(p) \/ Undo(p) \/ CheckDrift(p) \/ Crash(p) =>
          act' = act /\ wrote' = wrote /\ undid' = undid
    BY DEF Throw, Undo, CheckDrift, Crash
  <2>10. Create(p) \/ Decide(p) => wrote' = wrote /\ undid' = undid
    BY DEF Create, Decide
  <2> QED
    BY <1>1, <2>2, <2>3, <2>4, <2>5, <2>6, <2>7, <2>8, <2>9, <2>10 DEF Serve
<1>2. ASSUME NEW a \in Actions, DeadlinePasses(a) PROVE Promise!Next
  BY <1>2, DeadlineIsFall DEF Promise!Next
<1>3. Edit \/ SavePolicy \/ UNCHANGED vars => Unwritten
  <2>1. Edit \/ SavePolicy \/ UNCHANGED vars => UNCHANGED <<act, wrote, undid>>
    BY DEF Edit, SavePolicy, vars
  <2> QED
    BY <2>1, QuietConsent
<1>4. Unwritten => UNCHANGED Promise!gateVars
  BY DEF Unwritten, Promise!gateVars
<1> QED
  BY <1>1, <1>2, <1>3, <1>4 DEF Next

\* With no rows, the book is blank.
LEMMA ConsentInit == Init => Promise!Init
<1> SUFFICES ASSUME Init PROVE Promise!Init
  OBVIOUS
<1>1. Book = [a \in Actions |-> Promise!Blank]
  BY DEF Init, Book, NoRow, Promise!Blank
<1>2. Made = [a \in Actions |-> 0]
  BY FS_EmptySet DEF Init, Made
<1>3. Reversed = {}
  BY DEF Init, Reversed
<1> QED
  BY <1>1, <1>2, <1>3 DEF Promise!Init

\* The gate keeps its promise: one judgement, one decision by the right person and
\* on time, one execution and only with leave, and a history that is true when it is
\* written and never rewritten.
THEOREM ImplementsConsentCorrect == Spec => ImplementsConsent
  BY ConsentInit, ConsentStep, ConsentInvariant, PTL
  DEF Spec, ImplementsConsent, Promise!Spec
=============================================================================
