--------------------------- MODULE AssignmentOps ---------------------------
(***************************************************************************)
(* Durable bulk assignment of leads (server/assignmentOperationStore.ts):  *)
(* a selection is frozen in chunks, applied chunk by chunk with the        *)
(* inverse of each, completed with a receipt that may carry an undo token, *)
(* undone chunk by chunk, stopped by an operator, and purged.              *)
(*                                                                         *)
(* Every step is one immediate SQLite transaction and keeps its place in   *)
(* the database, so a process has no state of its own: any HTTP worker may *)
(* take the next step of any operation, and one that dies between two      *)
(* steps has merely stopped taking them.  One tenant; a client id names    *)
(* one operation; a token's ten minutes end when Expire says so.           *)
(***************************************************************************)
EXTENDS Naturals, Sequences, FiniteSets

CONSTANTS
  Ops,          \* operations, one for each (actor, kind, client id)
  Leads,
  Reps,
  NoRep,        \* leads.assigned_rep_id IS NULL
  Elsewhere,    \* the writer that is no operation: routes, imports, territories
  PendingCap,   \* operations of a tenant in progress (8)
  UndoCap,      \* receipts of a tenant that can be undone (8)
  MaxChunks,    \* bound: chunks of a selection
  OtherWrites   \* bound: assignments made elsewhere

ASSUME AssignmentAssumption ==
  /\ IsFiniteSet(Ops) /\ IsFiniteSet(Leads)
  /\ NoRep \notin Reps /\ Elsewhere \notin Ops
  /\ PendingCap \in Nat \ {0} /\ UndoCap \in Nat \ {0}
  /\ MaxChunks \in Nat /\ OtherWrites \in Nat

VARIABLES
  owner,     \* leads.assigned_rep_id
  version,   \* leads.assignment_version, advanced by a trigger on every write
  op,        \* the assignment_operations row
  saved,     \* the leads in prior_json of the operation's chunks
  prior,     \* ... and what is written there of each
  writer,    \* history: who assigned the lead last
  assigned,  \* history: the leads an operation has assigned
  refused,   \* history: the leads its undo passed over for want of authority
  others     \* history: assignments made elsewhere

leads   == <<owner, version, writer>>
history == <<assigned, refused>>
vars    == <<leads, op, saved, prior, history, others>>

Holder == Reps \cup {NoRep}

\* The frozen selections: disjoint chunks, in order.
Selections ==
  {s \in UNION {[1..n -> SUBSET Leads \ {{}}] : n \in 0..MaxChunks} :
     \A i, j \in DOMAIN s : i # j => s[i] \cap s[j] = {}}

States == {"none", "running", "completed", "undoing", "undone", "cancelled",
           "forgotten"}

\* live: the receipt has an undo_token that has neither expired nor been evicted;
\* chunks: the chunk rows, none of them once they are purged.
OpRow == [state : States, kind : {"selection", "bulk"}, rep : Holder,
          chunks : Selections, next : 1..(MaxChunks + 1), updated : Nat,
          live : BOOLEAN, undoNext : 1..(MaxChunks + 1), restored : Nat, skipped : Nat]

NewRow(kind, rep, chunks) ==
  [state |-> "running", kind |-> kind, rep |-> rep, chunks |-> chunks,
   next |-> 1, updated |-> 0, live |-> FALSE, undoNext |-> 1, restored |-> 0,
   skipped |-> 0]

NoRow == [NewRow("bulk", NoRep, <<>>) EXCEPT !.state = "none"]

TypeOK ==
  /\ owner \in [Leads -> Holder] /\ version \in [Leads -> Nat]
  /\ op \in [Ops -> OpRow]
  /\ saved \in [Ops -> SUBSET Leads]
  /\ prior \in [Ops -> [Leads -> [rep : Holder, version : Nat]]]
  /\ writer \in [Leads -> Ops \cup {Elsewhere}]
  /\ assigned \in [Ops -> SUBSET Leads] /\ refused \in [Ops -> SUBSET Leads]
  /\ others \in 0..OtherWrites

Init ==
  /\ owner = [l \in Leads |-> NoRep] /\ version = [l \in Leads |-> 0]
  /\ op = [o \in Ops |-> NoRow]
  /\ saved = [o \in Ops |-> {}]
  /\ prior = [o \in Ops |-> [l \in Leads |-> [rep |-> NoRep, version |-> 0]]]
  /\ writer = [l \in Leads |-> Elsewhere]
  /\ assigned = [o \in Ops |-> {}] /\ refused = [o \in Ops |-> {}]
  /\ others = 0

-----------------------------------------------------------------------------
(* The leads.                                                              *)

\* scopePredicate: nobody's lead, or one of a rep the actor may see.
InScope(l, scope) == owner[l] = NoRep \/ owner[l] \in scope

\* An UPDATE of the assignment columns of the leads in S, and the trigger
\* trg_lead_assignment_version.
Write(S, holder, by) ==
  /\ owner' = [l \in Leads |-> IF l \in S THEN holder[l] ELSE owner[l]]
  /\ version' = [l \in Leads |-> version[l] + IF l \in S THEN 1 ELSE 0]
  /\ writer' = [l \in Leads |-> IF l \in S THEN by ELSE writer[l]]

\* Any other assignment: one lead, an import, a territory.
AssignElsewhere ==
  /\ others < OtherWrites /\ others' = others + 1
  /\ \E l \in Leads, r \in Holder : Write({l}, [k \in Leads |-> r], Elsewhere)
  /\ UNCHANGED <<op, saved, prior, history>>

-----------------------------------------------------------------------------
(* Admission and the forward pass.                                         *)

Pending == {o \in Ops : op[o].state \in {"running", "undoing"}}

\* admitAssignmentOperation; one that is there already is returned as it is.
Admit(o) ==
  /\ op[o].state = "none"
  /\ Cardinality(Pending) < PendingCap
  /\ \E kind \in {"selection", "bulk"}, rep \in Holder, s \in Selections :
       op' = [op EXCEPT ![o] = NewRow(kind, rep, s)]
  /\ UNCHANGED <<leads, saved, prior, history, others>>

\* undo_enabled: every selection, and bulk assignments to somebody (the limit
\* of 5000 leads is left out).
Undoable(row) == row.kind = "selection" \/ row.rep # NoRep

\* The leads a chunk changes: those the actor may see now, and in a selection
\* those that do not have the rep already.
Hit(o, scope) ==
  {l \in op[o].chunks[op[o].next] :
     /\ InScope(l, scope)
     /\ op[o].kind = "selection" => owner[l] # op[o].rep}

\* Mutant: the place in the selection is kept in the process that works on it.
ApplyAgain(o, scope) ==
  /\ op[o].state = "running" /\ op[o].next <= Len(op[o].chunks)
  /\ LET hit == Hit(o, scope) IN
       /\ Write(hit, [l \in Leads |-> op[o].rep], o)
       /\ op' = [op EXCEPT ![o].updated = @ + Cardinality(hit)]
       /\ assigned' = [assigned EXCEPT ![o] = @ \cup hit]
       /\ saved' = [saved EXCEPT ![o] = IF Undoable(op[o]) THEN @ \cup hit ELSE @]
       /\ prior' = [prior EXCEPT ![o] = [l \in Leads |->
            IF Undoable(op[o]) /\ l \in hit
            THEN [rep |-> owner[l], version |-> version[l]] ELSE prior[o][l]]]
  /\ UNCHANGED <<refused, others>>

\* continueAssignmentOperation, one chunk: read the leads as they are, save
\* them for the undo, assign them, and move on.
Apply(o, scope) ==
  /\ op[o].state = "running" /\ op[o].next <= Len(op[o].chunks)
  /\ LET hit == Hit(o, scope) IN
       /\ Write(hit, [l \in Leads |-> op[o].rep], o)
       /\ op' = [op EXCEPT ![o].next = @ + 1, ![o].updated = @ + Cardinality(hit)]
       /\ assigned' = [assigned EXCEPT ![o] = @ \cup hit]
       /\ saved' = [saved EXCEPT ![o] = IF Undoable(op[o]) THEN @ \cup hit ELSE @]
       /\ prior' = [prior EXCEPT ![o] = [l \in Leads |->
            IF Undoable(op[o]) /\ l \in hit
            THEN [rep |-> owner[l], version |-> version[l]] ELSE prior[o][l]]]
  /\ UNCHANGED <<refused, others>>

\* Receipts that hold one of the undo slots.
Live == {p \in Ops : op[p].live /\ op[p].state \in {"completed", "undoing"}}

\* The slots to free for one more receipt.
Excess == Cardinality(Live) + 1 - UndoCap

\* finishAssignment: make room by expiring completed receipts (the oldest in
\* the code, any here), never one whose undo is in progress; without room there
\* is no token.
Finish(o) ==
  /\ op[o].state = "running" /\ op[o].next > Len(op[o].chunks)
  /\ \E evicted \in SUBSET {p \in Live : op[p].state = "completed"} :
       /\ LET wants == Undoable(op[o]) /\ op[o].updated > 0
              free  == {p \in Live : op[p].state = "completed"}
              grant == wants /\ Excess <= Cardinality(free)
          IN
          /\ Cardinality(evicted) =
               IF ~wants \/ Excess <= 0 THEN 0
               ELSE IF grant THEN Excess ELSE Cardinality(free)
          /\ op' = [p \in Ops |->
               IF p = o THEN [op[o] EXCEPT !.state = "completed", !.live = grant]
               ELSE IF p \in evicted THEN [op[p] EXCEPT !.live = FALSE]
               ELSE op[p]]
  /\ UNCHANGED <<leads, saved, prior, history, others>>

\* The ten minutes of a token are over (once undone, nobody reads them).
Expire(o) ==
  /\ op[o].live
  /\ op' = [op EXCEPT ![o].live = FALSE]
  /\ UNCHANGED <<leads, saved, prior, history, others>>

-----------------------------------------------------------------------------
(* undoAssignmentOperation: one chunk per transaction.                     *)

\* An undo that has begun in time may end at any time.
MayUndo(o) ==
  \/ op[o].state = "completed" /\ op[o].live
  \/ op[o].state = "undoing"

\* Mutant: the rep and no version tells an untouched lead.
StillAssigned(o, l) == owner[l] = op[o].rep

\* Nobody has assigned the lead since (assigned_at and unassigned_at, compared
\* as well, are then the operation's own).
Untouched(o, l) ==
  owner[l] = op[o].rep /\ version[l] = prior[o][l].version + 1

\* Mutant: the last chunk is never looked at.
LastUndone(o) == op[o].undoNext >= Len(op[o].chunks)

AllUndone(o) == op[o].undoNext > Len(op[o].chunks)

\* present: the reps the actor may see and who still have a row.
UndoChunk(o, scope, present) ==
  /\ MayUndo(o) /\ ~AllUndone(o)
  /\ LET chunk == saved[o] \cap op[o].chunks[op[o].undoNext]
         may   == {l \in chunk : /\ prior[o][l].rep \in present \cup {NoRep}
                                 /\ InScope(l, scope)}
         back  == {l \in may : Untouched(o, l)}
     IN
     /\ Write(back, [l \in Leads |-> prior[o][l].rep], Elsewhere)
     /\ op' = [op EXCEPT ![o].state = "undoing",
                 ![o].undoNext = @ + 1,
                 ![o].restored = @ + Cardinality(back),
                 ![o].skipped  = @ + Cardinality(chunk \ back)]
     /\ refused' = [refused EXCEPT ![o] = @ \cup (chunk \ may)]
  /\ UNCHANGED <<saved, prior, assigned, others>>

EndUndo(o) ==
  /\ MayUndo(o) /\ AllUndone(o)
  /\ op' = [op EXCEPT ![o].state = "undone", ![o].live = FALSE]
  /\ UNCHANGED <<leads, saved, prior, history, others>>

-----------------------------------------------------------------------------
(* Operators and housekeeping.                                             *)

\* stopAssignmentOperation: committed chunks stay, every later one is fenced.
Stop(o) ==
  /\ op[o].state \in {"running", "undoing"}
  /\ op' = [op EXCEPT ![o].state = "cancelled", ![o].live = FALSE]
  /\ UNCHANGED <<leads, saved, prior, history, others>>

\* Mutant: a token that has run out is all it takes.
DisposableOnceExpired(o) ==
  op[o].state \in {"completed", "undoing", "undone", "cancelled"} /\ ~op[o].live

\* The rows an undo could still read stay.
Disposable(o) ==
  /\ op[o].state \in {"completed", "undone", "cancelled"}
  /\ op[o].state = "completed" => ~op[o].live

\* purgeAssignmentReceipts: the chunk rows (all of them at once here) ...
PurgeChunks(o) ==
  /\ Disposable(o) /\ op[o].chunks # <<>>
  /\ op' = [op EXCEPT ![o].chunks = <<>>]
  /\ saved' = [saved EXCEPT ![o] = {}]
  /\ UNCHANGED <<leads, prior, history, others>>

\* ... and, thirty days later, the receipt.
PurgeReceipt(o) ==
  /\ op[o].state \in {"completed", "undone", "cancelled"}
  /\ op[o].chunks = <<>>
  /\ op' = [op EXCEPT ![o] = [NoRow EXCEPT !.state = "forgotten"]]
  /\ UNCHANGED <<leads, saved, prior, history, others>>

Undo(o) == EndUndo(o) \/ \E scope \in SUBSET Reps, present \in SUBSET Reps :
                            present \subseteq scope /\ UndoChunk(o, scope, present)

Next ==
  \/ AssignElsewhere
  \/ \E o \in Ops :
       \/ Admit(o) \/ Finish(o) \/ Expire(o) \/ Undo(o)
       \/ Stop(o)  \/ PurgeChunks(o) \/ PurgeReceipt(o)
       \/ \E scope \in SUBSET Reps : Apply(o, scope)

Spec == Init /\ [][Next]_vars

\* An undo under way goes on: the request loops over the chunks, and where it died
\* the recovery screen offers "Continue put back" as long as the row is undoing.
\* Nobody has to begin an undo, to expire, to stop or to purge anything.
Resume(o) == op[o].state = "undoing" /\ Undo(o)

FairSpec == Spec /\ \A o \in Ops : WF_vars(Resume(o))

-----------------------------------------------------------------------------
(* Properties.                                                             *)

\* "Two HTTP workers can safely help the SAME operation without processing the
\* same chunk twice": the receipt's counts are those of the leads themselves,
\* however many workers took the steps and wherever they died.
CountsAreTrue ==
  TypeOK /\ \A o \in Ops : op[o].state \notin {"none", "forgotten"} =>
    /\ op[o].updated = Cardinality(assigned[o])
    /\ op[o].restored + op[o].skipped <= op[o].updated

\* Eviction, expiry and the purge never take from an undo what it still needs,
\* and never leave more receipts to be undone than there are slots.
InverseIsKept ==
  /\ \A o \in Ops : MayUndo(o) => saved[o] = assigned[o]
  /\ Cardinality(Live) <= UndoCap

\* "a crash cannot strand an incomplete undo merely because its deadline elapsed
\* during recovery": an undo that has begun ends, undone or stopped, whatever
\* expires, is evicted or is assigned meanwhile.
UndoEnds == \A o \in Ops : op[o].state = "undoing" ~> op[o].state # "undoing"

\* An undo that has run to its end left nothing of the assignment behind: every
\* lead it had assigned was given back, written by somebody else, or out of the
\* actor's authority at that moment.
UndoLeavesNothing ==
  \A o \in Ops, l \in Leads :
    op[o].state = "undone" /\ writer[l] = o => l \in refused[o]

\* "never lets an older undo overwrite a same-millisecond assignment or legacy
\* ownership write": an undo moves only leads whose last writer is the operation
\* it undoes, and only to whom they had before.
LaterWorkKept ==
  [][\A o \in Ops : op'[o].undoNext > op[o].undoNext =>
       \A l \in Leads : version'[l] # version[l] =>
         writer[l] = o /\ owner'[l] = prior[o][l].rep]_vars
=============================================================================
