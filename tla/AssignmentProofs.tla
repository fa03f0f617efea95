-------------------------- MODULE AssignmentProofs --------------------------
(***************************************************************************)
(* Bulk assignment, for any set of operations, leads and reps: the counts  *)
(* of a receipt are those of the leads, an undo that may begin or go on    *)
(* has the whole inverse, at most UndoCap receipts can be undone, an undo  *)
(* keeps later work, and one that has ended leaves nothing behind.         *)
(***************************************************************************)
EXTENDS AssignmentOps, FiniteSetTheorems, SequenceTheorems, TLAPS

USE AssignmentAssumption

-----------------------------------------------------------------------------
(* Rows.                                                                   *)

\* A selection is a sequence of at most MaxChunks disjoint sets of leads.
LEMMA SelectionFacts ==
  ASSUME NEW s \in Selections
  PROVE  /\ Len(s) \in Nat /\ Len(s) <= MaxChunks /\ DOMAIN s = 1..Len(s)
         /\ \A i \in 1..Len(s) : s[i] \subseteq Leads
         /\ \A i, j \in 1..Len(s) : i # j => s[i] \cap s[j] = {}
<1>1. PICK n \in 0..MaxChunks : s \in [1..n -> SUBSET Leads \ {{}}]
  BY DEF Selections
<1>2. n \in Nat
  BY <1>1
<1>3. s \in Seq(SUBSET Leads \ {{}})
  BY <1>1, <1>2, SeqDef
<1>4. Len(s) \in Nat /\ DOMAIN s = 1..Len(s)
  BY <1>3, LenProperties
<1>5. Len(s) = n
  BY <1>1, <1>2, <1>3
<1> QED
  BY <1>1, <1>4, <1>5 DEF Selections

LEMMA EmptySelection == <<>> \in Selections
<1>1. <<>> \in [1..0 -> SUBSET Leads \ {{}}]
  OBVIOUS
<1>2. 0 \in 0..MaxChunks
  OBVIOUS
<1>3. <<>> \in UNION {[1..n -> SUBSET Leads \ {{}}] : n \in 0..MaxChunks}
  BY <1>1, <1>2
<1>4. DOMAIN <<>> = {}
  OBVIOUS
<1> QED
  BY <1>3, <1>4 DEF Selections

LEMMA NewRowType ==
  ASSUME NEW kind \in {"selection", "bulk"}, NEW rep \in Holder, NEW s \in Selections
  PROVE  NewRow(kind, rep, s) \in OpRow
BY DEF NewRow, OpRow, States

\* What admission writes.
LEMMA AdmitRow ==
  ASSUME TypeOK, NEW o \in Ops, Admit(o)
  PROVE  /\ op' \in [Ops -> OpRow] /\ \A p \in Ops \ {o} : op'[p] = op[p]
         /\ op[o].state = "none" /\ op'[o].state = "running" /\ op'[o].next = 1
         /\ op'[o].updated = 0 /\ ~op'[o].live /\ op'[o].undoNext = 1
         /\ op'[o].restored = 0 /\ op'[o].skipped = 0
<1>1. PICK kind \in {"selection", "bulk"}, rep \in Holder, s \in Selections :
        op' = [op EXCEPT ![o] = NewRow(kind, rep, s)]
  BY DEF Admit
<1>2. NewRow(kind, rep, s) \in OpRow
  BY NewRowType
<1>3. op'[o] = NewRow(kind, rep, s)
  BY <1>1 DEF TypeOK
<1> QED
  BY <1>1, <1>2, <1>3 DEF TypeOK, Admit, NewRow

\* A chunk of the forward pass.
LEMMA ApplyRow ==
  ASSUME TypeOK, NEW o \in Ops, NEW scope, Apply(o, scope)
  PROVE  /\ op' \in [Ops -> OpRow] /\ \A p \in Ops \ {o} : op'[p] = op[p]
         /\ op[o].state = "running" /\ op[o].next \in 1..Len(op[o].chunks)
         /\ op'[o].state = "running" /\ op'[o].next = op[o].next + 1
         /\ op'[o].updated = op[o].updated + Cardinality(Hit(o, scope))
         /\ op'[o].chunks = op[o].chunks /\ op'[o].kind = op[o].kind
         /\ op'[o].rep = op[o].rep /\ op'[o].live = op[o].live
         /\ op'[o].undoNext = op[o].undoNext /\ op'[o].restored = op[o].restored
         /\ op'[o].skipped = op[o].skipped
         /\ Hit(o, scope) \subseteq Leads /\ IsFiniteSet(Hit(o, scope))
         /\ Hit(o, scope) \subseteq op[o].chunks[op[o].next]
<1> DEFINE hit == Hit(o, scope)
           row == op[o]
<1>1. row \in OpRow /\ op \in [Ops -> OpRow]
  BY DEF TypeOK
<1>2. row.chunks \in Selections /\ row.next \in 1..(MaxChunks + 1) /\ row.updated \in Nat
  BY <1>1 DEF OpRow
<1>3. row.state = "running" /\ row.next <= Len(row.chunks)
  BY DEF Apply
<1>4. row.next \in 1..Len(row.chunks) /\ row.next + 1 \in 1..(MaxChunks + 1)
  BY <1>2, <1>3, SelectionFacts
<1>5. hit \subseteq row.chunks[row.next]
  BY DEF Hit
<1>6. hit \subseteq Leads
  BY <1>2, <1>4, <1>5, SelectionFacts
<1>7. IsFiniteSet(hit) /\ Cardinality(hit) \in Nat
  BY <1>6, FS_Subset, FS_CardinalityType
<1> DEFINE n == row.next + 1
           u == row.updated + Cardinality(hit)
<1>8. n \in 1..(MaxChunks + 1) /\ u \in Nat
  BY <1>2, <1>4, <1>7
<1>9. op' = [op EXCEPT ![o] = [op[o] EXCEPT !.next = n, !.updated = u]]
  BY DEF Apply
<1> HIDE DEF n, u, hit
<1>10. [op[o] EXCEPT !.next = n, !.updated = u] \in OpRow
  BY <1>1, <1>8 DEF OpRow
<1>11. op' \in [Ops -> OpRow] /\ (\A p \in Ops \ {o} : op'[p] = op[p])
       /\ op'[o] = [op[o] EXCEPT !.next = n, !.updated = u]
  BY <1>1, <1>9, <1>10
<1>12. /\ op'[o].next = n /\ op'[o].updated = u /\ op'[o].state = row.state
       /\ op'[o].chunks = row.chunks /\ op'[o].kind = row.kind
       /\ op'[o].rep = row.rep /\ op'[o].live = row.live
       /\ op'[o].undoNext = row.undoNext /\ op'[o].restored = row.restored
       /\ op'[o].skipped = row.skipped
  BY <1>1, <1>11 DEF OpRow
<1> QED
  BY <1>3, <1>4, <1>5, <1>6, <1>7, <1>11, <1>12 DEF n, u, hit

\* A receipt, and the slots that are freed for it.
LEMMA FinishRow ==
  ASSUME TypeOK, NEW o \in Ops, Finish(o)
  PROVE  /\ op' \in [Ops -> OpRow]
         /\ op[o].state = "running" /\ op[o].next > Len(op[o].chunks)
         /\ op'[o].state = "completed"
         /\ \A p \in Ops :
              /\ op'[p].chunks = op[p].chunks /\ op'[p].kind = op[p].kind
              /\ op'[p].rep = op[p].rep /\ op'[p].next = op[p].next
              /\ op'[p].updated = op[p].updated /\ op'[p].undoNext = op[p].undoNext
              /\ op'[p].restored = op[p].restored /\ op'[p].skipped = op[p].skipped
              /\ p # o => op'[p].state = op[p].state /\ (op'[p].live => op[p].live)
         /\ op'[o].live => Undoable(op[o])
         /\ Cardinality(Live) <= UndoCap => Cardinality(Live') <= UndoCap
<1>1. op \in [Ops -> OpRow]
  BY DEF TypeOK
<1>2. op[o].state = "running" /\ op[o].next > Len(op[o].chunks)
  BY DEF Finish
<1> DEFINE wants == Undoable(op[o]) /\ op[o].updated > 0
           free  == {p \in Live : op[p].state = "completed"}
           grant == wants /\ Excess <= Cardinality(free)
<1>3. PICK evicted \in SUBSET free :
        /\ Cardinality(evicted) =
             IF ~wants \/ Excess <= 0 THEN 0
             ELSE IF grant THEN Excess ELSE Cardinality(free)
        /\ op' = [p \in Ops |->
             IF p = o THEN [op[o] EXCEPT !.state = "completed", !.live = grant]
             ELSE IF p \in evicted THEN [op[p] EXCEPT !.live = FALSE]
             ELSE op[p]]
  BY DEF Finish
<1>4. grant \in BOOLEAN /\ (grant => Undoable(op[o]))
  BY DEF Undoable
<1>5. PICK g \in BOOLEAN : g = grant
  BY <1>4
<1> DEFINE receipt == [op[o] EXCEPT !.state = "completed", !.live = g]
<1>6. /\ receipt \in OpRow /\ receipt.state = "completed" /\ receipt.live = g
      /\ receipt.chunks = op[o].chunks /\ receipt.kind = op[o].kind
      /\ receipt.rep = op[o].rep /\ receipt.next = op[o].next
      /\ receipt.updated = op[o].updated /\ receipt.undoNext = op[o].undoNext
      /\ receipt.restored = op[o].restored /\ receipt.skipped = op[o].skipped
  <2>1. op[o] \in OpRow /\ g \in BOOLEAN
    BY <1>1
  <2>2. receipt \in OpRow
    BY <2>1 DEF OpRow, States
  <2>3. receipt.state = "completed" /\ receipt.live = g
    BY <2>1 DEF OpRow
  <2> QED
    BY <2>1, <2>2, <2>3 DEF OpRow
<1>7. op'[o] = receipt /\ op' = [p \in Ops |->
             IF p = o THEN receipt
             ELSE IF p \in evicted THEN [op[p] EXCEPT !.live = FALSE]
             ELSE op[p]]
  BY <1>3, <1>5
<1> HIDE DEF receipt
<1>8. ASSUME NEW p \in Ops \ {o}
      PROVE  /\ op'[p] \in OpRow /\ op'[p].state = op[p].state
             /\ op'[p].live = (op[p].live /\ p \notin evicted)
             /\ op'[p].chunks = op[p].chunks /\ op'[p].kind = op[p].kind
             /\ op'[p].rep = op[p].rep /\ op'[p].next = op[p].next
             /\ op'[p].updated = op[p].updated /\ op'[p].undoNext = op[p].undoNext
             /\ op'[p].restored = op[p].restored /\ op'[p].skipped = op[p].skipped
  <2>1. op[p] \in OpRow
    BY <1>1
  <2>2. CASE p \in evicted
    <3>1. op'[p] = [op[p] EXCEPT !.live = FALSE]
      BY <1>7, <2>2
    <3> QED
      BY <2>1, <2>2, <3>1 DEF OpRow
  <2>3. CASE p \notin evicted
    <3>1. op'[p] = op[p] /\ op[p].live \in BOOLEAN
      BY <1>7, <2>1, <2>3 DEF OpRow
    <3> QED
      BY <2>1, <2>3, <3>1
  <2> QED
    BY <2>2, <2>3
<1>9. op' \in [Ops -> OpRow]
  BY <1>6, <1>7, <1>8
\* The slots.
<1>10. IsFiniteSet(Live) /\ Cardinality(Live) \in Nat /\ o \notin Live
  <2>1. Live \subseteq Ops
    BY DEF Live
  <2> QED
    BY <1>2, <2>1, FS_Subset, FS_CardinalityType DEF Live
<1>11. Live' = (Live \ evicted) \cup (IF g THEN {o} ELSE {})
  <2>1. \A p \in Ops \ {o} : p \in Live' <=> p \in Live /\ p \notin evicted
    BY <1>8 DEF Live
  <2>2. o \in Live' <=> g
    BY <1>6, <1>7 DEF Live
  <2> QED
    BY <1>10, <2>1, <2>2 DEF Live
<1>12. ASSUME Cardinality(Live) <= UndoCap PROVE Cardinality(Live') <= UndoCap
  <2>1. IsFiniteSet(evicted) /\ Cardinality(evicted) \in Nat
    BY <1>10, FS_Subset, FS_CardinalityType
  <2>2. IsFiniteSet(Live \ evicted) /\ Cardinality(Live \ evicted) \in Nat
        /\ Cardinality(Live \ evicted) <= Cardinality(Live)
    BY <1>10, FS_Subset, FS_CardinalityType
  <2>3. Cardinality(Live \ evicted) = Cardinality(Live) - Cardinality(evicted)
    <3>1. Live = evicted \cup (Live \ evicted) /\ evicted \cap (Live \ evicted) = {}
      OBVIOUS
    <3>2. Cardinality(Live) = Cardinality(evicted) + Cardinality(Live \ evicted)
            - Cardinality(evicted \cap (Live \ evicted))
      BY <2>1, <2>2, <3>1, FS_Union
    <3>3. Cardinality(evicted \cap (Live \ evicted)) = 0
      BY <3>1, FS_EmptySet
    <3> QED
      BY <1>10, <2>1, <2>2, <3>2, <3>3
  <2>4. CASE ~g
    <3>1. Live' = Live \ evicted
      BY <1>11, <2>4
    <3> QED
      BY <1>10, <1>12, <2>2, <3>1
  <2>5. CASE g
    <3>1. Live' = (Live \ evicted) \cup {o} /\ o \notin Live \ evicted
      BY <1>10, <1>11, <2>5
    <3>2. Cardinality(Live') = Cardinality(Live \ evicted) + 1
      BY <2>2, <3>1, FS_AddElement
    <3>3. Excess = Cardinality(Live) + 1 - UndoCap
      BY DEF Excess
    <3>4. Cardinality(evicted) = IF Excess <= 0 THEN 0 ELSE Excess
      BY <1>3, <1>5, <2>5
    <3> HIDE DEF grant
    <3> QED
      BY <1>10, <1>12, <2>1, <2>2, <2>3, <3>2, <3>3, <3>4
  <2> QED
    BY <1>5, <2>4, <2>5
<1> QED
  BY <1>2, <1>4, <1>5, <1>6, <1>7, <1>8, <1>9, <1>12

\* A chunk of the undo: what it puts back was untouched, what it passes over was
\* touched, or refused.
LEMMA UndoRow ==
  ASSUME TypeOK, NEW o \in Ops, NEW scope, NEW present \in SUBSET Reps,
         UndoChunk(o, scope, present)
  PROVE  \E back \in SUBSET Leads :
         LET i     == op[o].undoNext
             chunk == saved[o] \cap op[o].chunks[i]
         IN
         /\ i \in 1..Len(op[o].chunks) /\ MayUndo(o)
         /\ back = {l \in chunk : Untouched(o, l) /\ l \in back}
         /\ chunk \in SUBSET Leads
         /\ \A l \in chunk : Untouched(o, l) => l \in back \/ l \in refused'[o]
         /\ Write(back, [l \in Leads |-> prior[o][l].rep], Elsewhere)
         /\ refused' \in [Ops -> SUBSET Leads]
         /\ \A p \in Ops : refused[p] \subseteq refused'[p]
         /\ op' \in [Ops -> OpRow] /\ \A p \in Ops \ {o} : op'[p] = op[p]
         /\ op'[o].state = "undoing" /\ op'[o].undoNext = i + 1
         /\ op'[o].restored + op'[o].skipped
              = op[o].restored + op[o].skipped + Cardinality(chunk)
         /\ op'[o].chunks = op[o].chunks /\ op'[o].kind = op[o].kind
         /\ op'[o].rep = op[o].rep /\ op'[o].live = op[o].live
         /\ op'[o].next = op[o].next /\ op'[o].updated = op[o].updated
<1> DEFINE row   == op[o]
           i     == row.undoNext
           chunk == saved[o] \cap row.chunks[i]
           may   == {l \in chunk : /\ prior[o][l].rep \in present \cup {NoRep}
                                   /\ InScope(l, scope)}
           back  == {l \in may : Untouched(o, l)}
<1>1. op \in [Ops -> OpRow] /\ row \in OpRow /\ refused \in [Ops -> SUBSET Leads]
      /\ saved[o] \subseteq Leads
  BY DEF TypeOK
<1>2. row.chunks \in Selections /\ i \in 1..(MaxChunks + 1) /\ row.restored \in Nat
      /\ row.skipped \in Nat
  BY <1>1 DEF OpRow
<1>3. MayUndo(o) /\ ~(i > Len(row.chunks))
  BY DEF UndoChunk, AllUndone
<1>4. i \in 1..Len(row.chunks) /\ i + 1 \in 1..(MaxChunks + 1)
  BY <1>2, <1>3, SelectionFacts
<1>5. chunk \in SUBSET Leads /\ back \in SUBSET chunk /\ back \in SUBSET Leads
      /\ chunk \ back \in SUBSET chunk
  BY <1>1
<1>6. IsFiniteSet(chunk) /\ IsFiniteSet(back) /\ IsFiniteSet(chunk \ back)
  BY <1>5, FS_Subset
<1>7. Cardinality(chunk) \in Nat /\ Cardinality(back) \in Nat
      /\ Cardinality(chunk \ back) \in Nat
  BY <1>6, FS_CardinalityType
<1>8. Cardinality(chunk) = Cardinality(back) + Cardinality(chunk \ back)
  <2>1. chunk = back \cup (chunk \ back) /\ back \cap (chunk \ back) = {}
    BY <1>5
  <2>2. Cardinality(back \cup (chunk \ back)) = Cardinality(back)
          + Cardinality(chunk \ back) - Cardinality(back \cap (chunk \ back))
    BY <1>6, FS_Union
  <2>3. Cardinality(back \cap (chunk \ back)) = 0
    BY <2>1, FS_EmptySet
  <2>4. Cardinality(back \cup (chunk \ back)) = Cardinality(chunk)
    BY <2>1
  <2> DEFINE b == Cardinality(back)
             c == Cardinality(chunk \ back)
  <2>5. b \in Nat /\ c \in Nat /\ Cardinality(chunk) = b + c - 0
    BY <1>7, <2>2, <2>3, <2>4
  <2> HIDE DEF b, c
  <2>6. Cardinality(chunk) = b + c
    BY <2>5
  <2> QED
    BY <2>6 DEF b, c
<1>9. /\ Write(back, [l \in Leads |-> prior[o][l].rep], Elsewhere)
      /\ refused' = [refused EXCEPT ![o] = @ \cup (chunk \ may)]
  BY DEF UndoChunk
<1>10. /\ refused' \in [Ops -> SUBSET Leads]
       /\ \A p \in Ops : refused[p] \subseteq refused'[p]
       /\ chunk \ may \subseteq refused'[o]
  BY <1>1, <1>5, <1>9
<1>11. \A l \in chunk : Untouched(o, l) => l \in back \/ l \in refused'[o]
  BY <1>10
<1> DEFINE n == i + 1
           r == row.restored + Cardinality(back)
           k == row.skipped + Cardinality(chunk \ back)
<1>12. n \in 1..(MaxChunks + 1) /\ r \in Nat /\ k \in Nat
       /\ r + k = row.restored + row.skipped + Cardinality(chunk)
  <2> DEFINE b == Cardinality(back)
             c == Cardinality(chunk \ back)
             t == Cardinality(chunk)
  <2>1. n \in 1..(MaxChunks + 1)
    BY <1>4
  <2>2. b \in Nat /\ c \in Nat /\ t = b + c
    BY <1>7, <1>8
  <2> HIDE DEF b, c, t
  <2>3. row.restored + b \in Nat /\ row.skipped + c \in Nat
        /\ (row.restored + b) + (row.skipped + c) = row.restored + row.skipped + t
    BY <1>2, <2>2
  <2> QED
    BY <2>1, <2>3 DEF b, c, t
<1> DEFINE after == [op[o] EXCEPT !.state = "undoing", !.undoNext = n, !.restored = r,
                                  !.skipped = k]
<1>13. op' = [op EXCEPT ![o] = after]
  BY DEF UndoChunk
<1>14. /\ after \in OpRow /\ after.state = "undoing" /\ after.undoNext = n
       /\ after.restored = r /\ after.skipped = k
       /\ after.chunks = row.chunks /\ after.kind = row.kind /\ after.rep = row.rep
       /\ after.live = row.live /\ after.next = row.next /\ after.updated = row.updated
  <2>1. op[o] \in OpRow /\ n \in 1..(MaxChunks + 1) /\ r \in Nat /\ k \in Nat
    BY <1>1, <1>12
  <2> HIDE DEF n, r, k
  <2>2. after \in OpRow
    BY <2>1 DEF OpRow, States
  <2>3. after.state = "undoing" /\ after.undoNext = n /\ after.restored = r
        /\ after.skipped = k
    BY <2>1 DEF OpRow
  <2> QED
    BY <2>1, <2>2, <2>3 DEF OpRow
<1> HIDE DEF after
<1>15. op' \in [Ops -> OpRow] /\ (\A p \in Ops \ {o} : op'[p] = op[p]) /\ op'[o] = after
  BY <1>1, <1>13, <1>14
<1>16. back = {l \in chunk : Untouched(o, l) /\ l \in back}
  BY <1>5
<1>17. op'[o].restored + op'[o].skipped
         = row.restored + row.skipped + Cardinality(chunk)
  BY <1>12, <1>14, <1>15
<1> HIDE DEF back
<1> WITNESS back \in SUBSET Leads
<1> QED
  BY <1>3, <1>4, <1>5, <1>9, <1>10, <1>11, <1>14, <1>15, <1>16, <1>17

\* Steps that end, fence or empty a receipt and touch no lead: how the row of p
\* may change, and the chunk rows with it.
Ends(p) ==
  /\ op'[p].kind = op[p].kind /\ op'[p].rep = op[p].rep
  /\ op'[p].next = op[p].next /\ op'[p].updated = op[p].updated
  /\ op'[p].undoNext = op[p].undoNext /\ op'[p].restored = op[p].restored
  /\ op'[p].skipped = op[p].skipped
  /\ \/ op'[p].chunks = op[p].chunks /\ saved'[p] = saved[p]
     \/ /\ op'[p].chunks = <<>> /\ saved'[p] = {}
        /\ op'[p].state \in {"completed", "undone", "cancelled"}
        /\ op'[p].state = "completed" => ~op'[p].live
  /\ \/ op'[p].state = op[p].state /\ (op'[p].live => op[p].live)
     \/ /\ op[p].state = "running" /\ op'[p].state = "completed"
        /\ op'[p].live => Undoable(op[p])
     \/ /\ MayUndo(p) /\ AllUndone(p) /\ ~op'[p].live /\ op'[p].state = "undone"
     \/ /\ op[p].state \in {"running", "undoing"}
        /\ ~op'[p].live /\ op'[p].state = "cancelled"

Ending ==
  /\ op' \in [Ops -> OpRow] /\ saved' \in [Ops -> SUBSET Leads]
  /\ \A p \in Ops : Ends(p)
  /\ Cardinality(Live) <= UndoCap => Cardinality(Live') <= UndoCap
  /\ UNCHANGED <<leads, prior, history, others>>

\* A row that ends takes no slot.
LEMMA FewerLive ==
  ASSUME Live' \subseteq Live
  PROVE  Cardinality(Live) <= UndoCap => Cardinality(Live') <= UndoCap
<1>1. IsFiniteSet(Live)
  BY FS_Subset DEF Live
<1>2. Cardinality(Live') <= Cardinality(Live)
  BY <1>1, FS_Subset
<1>3. Cardinality(Live) \in Nat /\ Cardinality(Live') \in Nat
  BY <1>1, FS_Subset, FS_CardinalityType
<1> QED
  BY <1>2, <1>3

LEMMA EndingSteps ==
  ASSUME TypeOK, NEW o \in Ops,
         Finish(o) \/ Expire(o) \/ EndUndo(o) \/ Stop(o) \/ PurgeChunks(o)
  PROVE  Ending
<1> DEFINE row == op[o]
<1>1. op \in [Ops -> OpRow] /\ row \in OpRow /\ saved \in [Ops -> SUBSET Leads]
      /\ \A p \in Ops : op[p] \in OpRow
  BY DEF TypeOK
<1>2. CASE Finish(o)
  <2>1. UNCHANGED <<leads, saved, prior, history, others>>
    BY <1>2 DEF Finish
  <2>2. /\ op' \in [Ops -> OpRow] /\ row.state = "running"
        /\ op'[o].state = "completed" /\ (op'[o].live => Undoable(row))
        /\ Cardinality(Live) <= UndoCap => Cardinality(Live') <= UndoCap
    BY <1>2, FinishRow
  <2>3. \A p \in Ops : Ends(p)
    BY <1>2, <2>1, <2>2, FinishRow DEF Ends
  <2> QED
    BY <1>1, <2>1, <2>2, <2>3 DEF Ending
<1>3. CASE Expire(o) \/ EndUndo(o) \/ Stop(o)
  <2>1. UNCHANGED <<leads, saved, prior, history, others>>
    BY <1>3 DEF Expire, EndUndo, Stop
  <2>2. PICK after \in OpRow :
          /\ op' = [op EXCEPT ![o] = after] /\ ~after.live
          /\ after.kind = row.kind /\ after.rep = row.rep /\ after.next = row.next
          /\ after.updated = row.updated /\ after.undoNext = row.undoNext
          /\ after.restored = row.restored /\ after.skipped = row.skipped
          /\ after.chunks = row.chunks
          /\ \/ after.state = row.state
             \/ MayUndo(o) /\ AllUndone(o) /\ after.state = "undone"
             \/ row.state \in {"running", "undoing"} /\ after.state = "cancelled"
    <3>1. CASE Expire(o)
      <4> DEFINE after == [op[o] EXCEPT !.live = FALSE]
      <4>1. after \in OpRow /\ ~after.live
        BY <1>1 DEF OpRow
      <4>2. op' = [op EXCEPT ![o] = after] /\ after.state = row.state
        BY <1>1, <3>1 DEF Expire, OpRow
      <4>3. /\ after.kind = row.kind /\ after.rep = row.rep /\ after.next = row.next
            /\ after.updated = row.updated /\ after.undoNext = row.undoNext
            /\ after.restored = row.restored /\ after.skipped = row.skipped
            /\ after.chunks = row.chunks
        BY <1>1 DEF OpRow
      <4> QED
        BY <1>1, <4>1, <4>2, <4>3
    <3>2. CASE EndUndo(o)
      <4> DEFINE after == [op[o] EXCEPT !.state = "undone", !.live = FALSE]
      <4>1. after \in OpRow /\ ~after.live /\ after.state = "undone"
        BY <1>1 DEF OpRow, States
      <4>2. op' = [op EXCEPT ![o] = after] /\ MayUndo(o) /\ AllUndone(o)
        BY <3>2 DEF EndUndo
      <4>3. /\ after.kind = row.kind /\ after.rep = row.rep /\ after.next = row.next
            /\ after.updated = row.updated /\ after.undoNext = row.undoNext
            /\ after.restored = row.restored /\ after.skipped = row.skipped
            /\ after.chunks = row.chunks
        BY <1>1 DEF OpRow
      <4> QED
        BY <1>1, <4>1, <4>2, <4>3
    <3>3. CASE Stop(o)
      <4> DEFINE after == [op[o] EXCEPT !.state = "cancelled", !.live = FALSE]
      <4>1. after \in OpRow /\ ~after.live /\ after.state = "cancelled"
        BY <1>1 DEF OpRow, States
      <4>2. op' = [op EXCEPT ![o] = after] /\ row.state \in {"running", "undoing"}
        BY <3>3 DEF Stop
      <4>3. /\ after.kind = row.kind /\ after.rep = row.rep /\ after.next = row.next
            /\ after.updated = row.updated /\ after.undoNext = row.undoNext
            /\ after.restored = row.restored /\ after.skipped = row.skipped
            /\ after.chunks = row.chunks
        BY <1>1 DEF OpRow
      <4> QED
        BY <1>1, <4>1, <4>2, <4>3
    <3> QED
      BY <1>3, <3>1, <3>2, <3>3
  <2>3. op' \in [Ops -> OpRow] /\ op'[o] = after /\ \A p \in Ops \ {o} : op'[p] = op[p]
    BY <1>1, <2>2
  <2>4. \A p \in Ops : Ends(p)
    BY <2>1, <2>2, <2>3 DEF Ends
  <2>5. Live' \subseteq Live
    BY <2>2, <2>3 DEF Live
  <2> QED
    BY <1>1, <2>1, <2>3, <2>4, <2>5, FewerLive DEF Ending
<1>4. CASE PurgeChunks(o)
  <2>1. UNCHANGED <<leads, prior, history, others>> /\ saved' = [saved EXCEPT ![o] = {}]
        /\ Disposable(o)
    BY <1>4 DEF PurgeChunks
  <2> DEFINE after == [op[o] EXCEPT !.chunks = <<>>]
  <2>2. /\ after \in OpRow /\ after.chunks = <<>> /\ after.state = row.state
        /\ after.live = row.live
        /\ after.kind = row.kind /\ after.rep = row.rep /\ after.next = row.next
        /\ after.updated = row.updated /\ after.undoNext = row.undoNext
        /\ after.restored = row.restored /\ after.skipped = row.skipped
    BY <1>1, EmptySelection DEF OpRow
  <2>3. op' = [op EXCEPT ![o] = after]
    BY <1>4 DEF PurgeChunks
  <2> HIDE DEF after
  <2>4. op' \in [Ops -> OpRow] /\ op'[o] = after /\ \A p \in Ops \ {o} : op'[p] = op[p]
    BY <1>1, <2>2, <2>3
  <2>5. saved'[o] = {} /\ \A p \in Ops \ {o} : saved'[p] = saved[p]
    BY <1>1, <2>1
  <2>6. saved' \in [Ops -> SUBSET Leads]
    BY <1>1, <2>1
  <2>7. Ends(o)
    BY <2>1, <2>2, <2>4, <2>5 DEF Ends, Disposable
  <2>8. \A p \in Ops \ {o} : Ends(p)
    BY <2>4, <2>5 DEF Ends
  <2>9. Live' \subseteq Live
    BY <2>2, <2>4 DEF Live
  <2> QED
    BY <2>1, <2>4, <2>6, <2>7, <2>8, <2>9, FewerLive DEF Ending
<1> QED
  BY <1>2, <1>3, <1>4

\* A receipt that is purged.
LEMMA ForgetRow ==
  ASSUME TypeOK, NEW o \in Ops, PurgeReceipt(o)
  PROVE  /\ op' \in [Ops -> OpRow] /\ \A p \in Ops \ {o} : op'[p] = op[p]
         /\ op[o].chunks = <<>> /\ op'[o].state = "forgotten"
         /\ op'[o].chunks = <<>> /\ op'[o].undoNext = 1 /\ op'[o].restored = 0
         /\ op'[o].skipped = 0 /\ op'[o].updated = 0 /\ ~op'[o].live
         /\ UNCHANGED <<leads, saved, prior, history, others>>
<1> DEFINE after == [NoRow EXCEPT !.state = "forgotten"]
<1>1. NewRow("bulk", NoRep, <<>>) \in OpRow
  BY NewRowType, EmptySelection DEF Holder
<1>2. NoRow \in OpRow /\ NoRow.chunks = <<>> /\ NoRow.undoNext = 1 /\ NoRow.restored = 0
      /\ NoRow.skipped = 0 /\ NoRow.updated = 0 /\ ~NoRow.live /\ NoRow.state = "none"
  BY <1>1 DEF NoRow, NewRow, OpRow, States
<1>3. after \in OpRow /\ after.chunks = <<>> /\ after.undoNext = 1 /\ after.restored = 0
      /\ after.skipped = 0 /\ after.updated = 0 /\ ~after.live
      /\ after.state = "forgotten"
  BY <1>2 DEF OpRow, States
<1>4. op' = [op EXCEPT ![o] = after] /\ op[o].chunks = <<>>
      /\ UNCHANGED <<leads, saved, prior, history, others>>
  BY DEF PurgeReceipt
<1> HIDE DEF after
<1> QED
  BY <1>3, <1>4 DEF TypeOK

-----------------------------------------------------------------------------
(* Leads, and the steps by kind.                                           *)

LEMMA WriteLeads ==
  ASSUME TypeOK, NEW S \in SUBSET Leads, NEW holder \in [Leads -> Holder],
         NEW by \in Ops \cup {Elsewhere}, Write(S, holder, by)
  PROVE  /\ owner' \in [Leads -> Holder] /\ version' \in [Leads -> Nat]
         /\ writer' \in [Leads -> Ops \cup {Elsewhere}]
         /\ \A l \in S : owner'[l] = holder[l] /\ version'[l] = version[l] + 1
                       /\ writer'[l] = by
         /\ \A l \in Leads \ S : owner'[l] = owner[l] /\ version'[l] = version[l]
                                /\ writer'[l] = writer[l]
BY DEF Write, TypeOK

\* The inverse a chunk leaves behind.
LEMMA ApplyLeads ==
  ASSUME TypeOK, NEW o \in Ops, NEW scope, Apply(o, scope)
  PROVE  LET hit == Hit(o, scope) IN
         /\ Write(hit, [l \in Leads |-> op[o].rep], o)
         /\ [l \in Leads |-> op[o].rep] \in [Leads -> Holder]
         /\ saved' \in [Ops -> SUBSET Leads] /\ assigned' \in [Ops -> SUBSET Leads]
         /\ prior' \in [Ops -> [Leads -> [rep : Holder, version : Nat]]]
         /\ assigned'[o] = assigned[o] \cup hit
         /\ saved'[o] = saved[o] \cup (IF Undoable(op[o]) THEN hit ELSE {})
         /\ \A p \in Ops \ {o} : saved'[p] = saved[p] /\ prior'[p] = prior[p]
                               /\ assigned'[p] = assigned[p]
         /\ \A l \in Leads : prior'[o][l] =
              IF Undoable(op[o]) /\ l \in hit
              THEN [rep |-> owner[l], version |-> version[l]] ELSE prior[o][l]
         /\ UNCHANGED <<refused, others>>
<1> DEFINE hit == Hit(o, scope)
           was == [l \in Leads |->
             IF Undoable(op[o]) /\ l \in hit
             THEN [rep |-> owner[l], version |-> version[l]] ELSE prior[o][l]]
<1>1. /\ Write(hit, [l \in Leads |-> op[o].rep], o)
      /\ assigned' = [assigned EXCEPT ![o] = @ \cup hit]
      /\ saved' = [saved EXCEPT ![o] = IF Undoable(op[o]) THEN @ \cup hit ELSE @]
      /\ prior' = [prior EXCEPT ![o] = was]
      /\ UNCHANGED <<refused, others>>
  BY DEF Apply
<1>2. hit \subseteq Leads
  BY ApplyRow
<1>3. op[o].rep \in Holder
  BY DEF TypeOK, OpRow
<1>4. was \in [Leads -> [rep : Holder, version : Nat]]
  BY DEF TypeOK
<1>5. /\ prior' \in [Ops -> [Leads -> [rep : Holder, version : Nat]]]
      /\ prior'[o] = was /\ \A p \in Ops \ {o} : prior'[p] = prior[p]
  <2> HIDE DEF was
  <2> QED
    BY <1>1, <1>4 DEF TypeOK
<1>6. \A l \in Leads : prior'[o][l] =
        IF Undoable(op[o]) /\ l \in hit
        THEN [rep |-> owner[l], version |-> version[l]] ELSE prior[o][l]
  BY <1>5
<1> HIDE DEF hit, was
<1>7. /\ saved' \in [Ops -> SUBSET Leads] /\ assigned' \in [Ops -> SUBSET Leads]
      /\ assigned'[o] = assigned[o] \cup hit
      /\ saved'[o] = saved[o] \cup (IF Undoable(op[o]) THEN hit ELSE {})
      /\ \A p \in Ops \ {o} : saved'[p] = saved[p] /\ assigned'[p] = assigned[p]
  BY <1>1, <1>2 DEF TypeOK
<1> QED
  BY <1>1, <1>3, <1>5, <1>6, <1>7 DEF hit

\* The steps, by what they change.
LEMMA Steps ==
  ASSUME TypeOK, [Next]_vars
  PROVE  \/ AssignElsewhere
         \/ \E o \in Ops :
              \/ Admit(o) \/ PurgeReceipt(o)
              \/ \E scope \in SUBSET Reps : Apply(o, scope)
              \/ \E scope, present \in SUBSET Reps : UndoChunk(o, scope, present)
         \/ Ending
<1>1. CASE Next
  BY <1>1, EndingSteps DEF Next, Undo
<1>2. CASE UNCHANGED vars
  <2>1. op' = op /\ saved' = saved /\ UNCHANGED <<leads, prior, history, others>>
    BY <1>2 DEF vars
  <2>2. Live' = Live
    BY <2>1 DEF Live
  <2>3. \A p \in Ops : Ends(p)
    BY <2>1 DEF Ends
  <2> QED
    BY <2>1, <2>2, <2>3 DEF Ending, TypeOK
<1> QED
  BY <1>1, <1>2

-----------------------------------------------------------------------------
(* Types.                                                                  *)

\* A fresh database (Init).
LEMMA InitTypes == Init => TypeOK
<1> SUFFICES ASSUME Init PROVE TypeOK
  OBVIOUS
<1>1. NewRow("bulk", NoRep, <<>>) \in OpRow
  BY NewRowType, EmptySelection DEF Holder
<1>2. NoRow \in OpRow
  BY <1>1 DEF NoRow, OpRow, States
<1>3. op \in [Ops -> OpRow]
  BY <1>2 DEF Init
<1>4. NoRep \in Holder /\ 0 \in Nat /\ 0 \in 0..OtherWrites
  BY DEF Holder
<1> QED
  BY <1>3, <1>4 DEF Init, TypeOK

LEMMA StepTypes ==
  ASSUME TypeOK, [Next]_vars
  PROVE  TypeOK'
<1>1. CASE AssignElsewhere
  <2>1. PICK l \in Leads, r \in Holder : Write({l}, [k \in Leads |-> r], Elsewhere)
    BY <1>1 DEF AssignElsewhere
  <2>2. [k \in Leads |-> r] \in [Leads -> Holder] /\ {l} \in SUBSET Leads
    OBVIOUS
  <2>3. others' \in 0..OtherWrites /\ UNCHANGED <<op, saved, prior, history>>
    BY <1>1 DEF AssignElsewhere, TypeOK
  <2>4. owner' \in [Leads -> Holder] /\ version' \in [Leads -> Nat]
        /\ writer' \in [Leads -> Ops \cup {Elsewhere}]
    BY <2>1, <2>2, WriteLeads
  <2> QED
    BY <2>3, <2>4 DEF TypeOK, history
<1>2. ASSUME NEW o \in Ops, Admit(o) PROVE TypeOK'
  <2>1. op' \in [Ops -> OpRow]
    BY <1>2, AdmitRow
  <2>2. UNCHANGED <<leads, saved, prior, history, others>>
    BY <1>2 DEF Admit
  <2> QED
    BY <2>1, <2>2 DEF TypeOK, leads, history
<1>3. ASSUME NEW o \in Ops, PurgeReceipt(o) PROVE TypeOK'
  <2>1. op' \in [Ops -> OpRow] /\ UNCHANGED <<leads, saved, prior, history, others>>
    BY <1>3, ForgetRow
  <2> QED
    BY <2>1 DEF TypeOK, leads, history
<1>4. ASSUME NEW o \in Ops, NEW scope \in SUBSET Reps, Apply(o, scope) PROVE TypeOK'
  <2>1. op' \in [Ops -> OpRow] /\ Hit(o, scope) \in SUBSET Leads
    BY <1>4, ApplyRow
  <2>2. /\ Write(Hit(o, scope), [l \in Leads |-> op[o].rep], o)
        /\ [l \in Leads |-> op[o].rep] \in [Leads -> Holder]
        /\ saved' \in [Ops -> SUBSET Leads] /\ assigned' \in [Ops -> SUBSET Leads]
        /\ prior' \in [Ops -> [Leads -> [rep : Holder, version : Nat]]]
        /\ UNCHANGED <<refused, others>>
    BY <1>4, ApplyLeads
  <2>3. owner' \in [Leads -> Holder] /\ version' \in [Leads -> Nat]
        /\ writer' \in [Leads -> Ops \cup {Elsewhere}]
    BY <2>1, <2>2, WriteLeads
  <2> QED
    BY <2>1, <2>2, <2>3 DEF TypeOK
<1>5. ASSUME NEW o \in Ops, NEW scope \in SUBSET Reps, NEW present \in SUBSET Reps,
             UndoChunk(o, scope, present)
      PROVE  TypeOK'
  <2>1. UNCHANGED <<saved, prior, assigned, others>>
    BY <1>5 DEF UndoChunk
  <2>2. PICK back \in SUBSET Leads :
          /\ Write(back, [l \in Leads |-> prior[o][l].rep], Elsewhere)
          /\ refused' \in [Ops -> SUBSET Leads] /\ op' \in [Ops -> OpRow]
    BY <1>5, UndoRow
  <2>3. [l \in Leads |-> prior[o][l].rep] \in [Leads -> Holder]
    BY DEF TypeOK
  <2>4. owner' \in [Leads -> Holder] /\ version' \in [Leads -> Nat]
        /\ writer' \in [Leads -> Ops \cup {Elsewhere}]
    BY <2>2, <2>3, WriteLeads
  <2> QED
    BY <2>1, <2>2, <2>4 DEF TypeOK
<1>6. CASE Ending
  BY <1>6 DEF Ending, TypeOK, leads, history
<1> QED
  BY <1>1, <1>2, <1>3, <1>4, <1>5, <1>6, Steps

-----------------------------------------------------------------------------
(* The invariant.                                                          *)

\* An undo reads whole inverses: what was assigned is saved for as long as it may
\* be needed, and nothing is undone before the operation is complete.
WholeInverse ==
  \A o \in Ops :
    /\ op[o].state = "none" => saved[o] = {} /\ assigned[o] = {}
    /\ op[o].state = "running" =>
         ~op[o].live /\ (Undoable(op[o]) => saved[o] = assigned[o])
    /\ ~Undoable(op[o]) => saved[o] = {}
    /\ MayUndo(o) => saved[o] = assigned[o]
    /\ op[o].state \in {"running", "completed"} =>
         op[o].undoNext = 1 /\ op[o].restored = 0 /\ op[o].skipped = 0
    /\ \A l \in saved[o] :
         \E i \in 1..Len(op[o].chunks) : l \in op[o].chunks[i]

\* What is saved of a lead is older than the lead, and one write older only if the
\* operation made that write.
SavedIsOlder ==
  \A o \in Ops : \A l \in saved[o] :
    /\ prior[o][l].version < version[l]
    /\ version[l] = prior[o][l].version + 1 => writer[l] = o

\* A lead an operation wrote last is its own, and untouched.
WriterKnows ==
  \A o \in Ops, l \in Leads : writer[l] = o =>
    l \in assigned[o] /\ (l \in saved[o] => Untouched(o, l))

\* Both, of one operation.
KnownBy(o) ==
  /\ \A l \in saved[o] :
       /\ prior[o][l].version < version[l]
       /\ version[l] = prior[o][l].version + 1 => writer[l] = o
  /\ \A l \in Leads : writer[l] = o =>
       l \in assigned[o] /\ (l \in saved[o] => Untouched(o, l))

AssignInv == TypeOK /\ WholeInverse /\ SavedIsOlder /\ WriterKnows

LEMMA InitAssign == Init => AssignInv
<1> SUFFICES ASSUME Init PROVE AssignInv
  OBVIOUS
<1>1. TypeOK
  BY InitTypes
<1>2. \A o \in Ops : op[o].state = "none"
  <2>1. NoRow.state = "none"
    BY DEF NoRow, NewRow
  <2> QED
    BY <2>1 DEF Init
<1>3. WholeInverse
  BY <1>2 DEF Init, WholeInverse, MayUndo
<1>4. SavedIsOlder /\ WriterKnows
  BY DEF Init, SavedIsOlder, WriterKnows
<1> QED
  BY <1>1, <1>3, <1>4 DEF AssignInv

\* A write by nobody that p is: its leads are as they were, or are not p's.
LEMMA OtherWriter ==
  ASSUME AssignInv, NEW S \in SUBSET Leads, NEW holder \in [Leads -> Holder],
         NEW by \in Ops \cup {Elsewhere}, Write(S, holder, by), NEW p \in Ops, p # by,
         saved'[p] = saved[p], prior'[p] = prior[p], assigned'[p] = assigned[p],
         op'[p].rep = op[p].rep
  PROVE  KnownBy(p)'
<1>1. \A l \in Leads : prior[p][l].version \in Nat /\ version[l] \in Nat
  BY DEF AssignInv, TypeOK
<1>2. saved[p] \subseteq Leads
  BY DEF AssignInv, TypeOK
<1>3. TypeOK
  BY DEF AssignInv
<1>4. \A l \in S : version'[l] = version[l] + 1 /\ writer'[l] = by
  BY <1>3, WriteLeads
<1>5. \A l \in Leads \ S : /\ owner'[l] = owner[l] /\ version'[l] = version[l]
                          /\ writer'[l] = writer[l]
  BY <1>3, WriteLeads
<1>6. ASSUME NEW l \in saved[p]
      PROVE  /\ prior'[p][l].version < version'[l]
             /\ version'[l] = prior'[p][l].version + 1 => writer'[l] = p
  <2>1. prior[p][l].version < version[l]
        /\ (version[l] = prior[p][l].version + 1 => writer[l] = p)
    BY DEF AssignInv, SavedIsOlder
  <2>2. CASE l \in S
    BY <1>1, <1>2, <1>4, <2>1, <2>2
  <2>3. CASE l \notin S
    BY <1>1, <1>2, <1>5, <2>1, <2>3
  <2> QED
    BY <2>2, <2>3
<1>7. ASSUME NEW l \in Leads, writer'[l] = p
      PROVE  writer[l] = p /\ l \in assigned'[p] /\ (l \in saved'[p] => Untouched(p, l)')
  <2>1. l \notin S
    BY <1>4, <1>7
  <2>2. writer[l] = p /\ owner'[l] = owner[l] /\ version'[l] = version[l]
    BY <1>5, <1>7, <2>1
  <2> QED
    BY <2>2 DEF AssignInv, WriterKnows, Untouched
<1> QED
  BY <1>6, <1>7 DEF KnownBy

LEMMA AdmitAssign ==
  ASSUME AssignInv, NEW o \in Ops, Admit(o)
  PROVE  (WholeInverse /\ SavedIsOlder /\ WriterKnows)'
<1>1. TypeOK
  BY DEF AssignInv
<1>2. /\ \A p \in Ops \ {o} : op'[p] = op[p]
      /\ op[o].state = "none" /\ op'[o].state = "running" /\ ~op'[o].live
      /\ op'[o].undoNext = 1 /\ op'[o].restored = 0 /\ op'[o].skipped = 0
  BY <1>1, AdmitRow
<1>3. UNCHANGED <<owner, version, writer, saved, prior, assigned>>
  BY DEF Admit, leads, history
<1>4. saved[o] = {} /\ assigned[o] = {}
  BY <1>2 DEF AssignInv, WholeInverse
<1>5. WholeInverse'
  <2> SUFFICES ASSUME NEW p \in Ops
               PROVE  /\ op'[p].state = "none" => saved'[p] = {} /\ assigned'[p] = {}
                      /\ op'[p].state = "running" => ~op'[p].live
                           /\ (Undoable(op'[p]) => saved'[p] = assigned'[p])
                      /\ ~Undoable(op'[p]) => saved'[p] = {}
                      /\ MayUndo(p)' => saved'[p] = assigned'[p]
                      /\ op'[p].state \in {"running", "completed"} =>
                           op'[p].undoNext = 1 /\ op'[p].restored = 0 /\ op'[p].skipped = 0
                      /\ \A l \in saved'[p] :
                           \E i \in 1..Len(op'[p].chunks) : l \in op'[p].chunks[i]
    BY DEF WholeInverse
  <2>1. CASE p = o
    BY <1>2, <1>3, <1>4, <2>1
  <2>2. CASE p # o
    <3>1. op'[p] = op[p]
      BY <1>2, <2>2
    <3> QED
      BY <1>3, <3>1 DEF AssignInv, WholeInverse, MayUndo
  <2> QED
    BY <2>1, <2>2
<1>6. SavedIsOlder'
  BY <1>3 DEF AssignInv, SavedIsOlder
<1>7. WriterKnows'
  BY <1>2, <1>3, <1>4 DEF AssignInv, WriterKnows, Untouched
<1> QED
  BY <1>5, <1>6, <1>7

LEMMA ForgetAssign ==
  ASSUME AssignInv, NEW o \in Ops, PurgeReceipt(o)
  PROVE  (WholeInverse /\ SavedIsOlder /\ WriterKnows)'
<1>1. TypeOK
  BY DEF AssignInv
<1>2. /\ \A p \in Ops \ {o} : op'[p] = op[p]
      /\ op[o].chunks = <<>> /\ op'[o].state = "forgotten"
      /\ UNCHANGED <<leads, saved, prior, history, others>>
  BY <1>1, ForgetRow
<1>3. UNCHANGED <<owner, version, writer, saved, prior, assigned>>
  BY <1>2 DEF leads, history
<1>4. saved[o] = {}
  <2>1. \A l \in saved[o] : \E i \in 1..Len(<<>>) : TRUE
    BY <1>2 DEF AssignInv, WholeInverse
  <2>2. 1..Len(<<>>) = {}
    OBVIOUS
  <2> QED
    BY <2>1, <2>2
<1>5. WholeInverse'
  BY <1>2, <1>3, <1>4 DEF AssignInv, WholeInverse, MayUndo, Undoable
<1>6. SavedIsOlder'
  BY <1>3 DEF AssignInv, SavedIsOlder
<1>7. WriterKnows'
  BY <1>2, <1>3, <1>4 DEF AssignInv, WriterKnows, Untouched
<1> QED
  BY <1>5, <1>6, <1>7

LEMMA EndingAssign ==
  ASSUME AssignInv, Ending
  PROVE  (WholeInverse /\ SavedIsOlder /\ WriterKnows)'
<1>1. UNCHANGED <<owner, version, writer, prior, assigned>>
  BY DEF Ending, leads, history
<1>2. \A p \in Ops : Ends(p)
  BY DEF Ending
<1>3. \A p \in Ops : saved'[p] = {} \/ saved'[p] = saved[p]
  BY <1>2 DEF Ends
<1>4. SavedIsOlder'
  BY <1>1, <1>3 DEF AssignInv, SavedIsOlder
<1>5. WriterKnows'
  BY <1>1, <1>2, <1>3 DEF AssignInv, WriterKnows, Untouched, Ends
<1>6. ASSUME NEW o \in Ops
      PROVE  /\ op'[o].state = "none" => saved'[o] = {} /\ assigned'[o] = {}
             /\ op'[o].state = "running" =>
                  ~op'[o].live /\ (Undoable(op'[o]) => saved'[o] = assigned'[o])
             /\ ~Undoable(op'[o]) => saved'[o] = {}
             /\ MayUndo(o)' => saved'[o] = assigned'[o]
             /\ op'[o].state \in {"running", "completed"} =>
                  op'[o].undoNext = 1 /\ op'[o].restored = 0 /\ op'[o].skipped = 0
             /\ \A l \in saved'[o] :
                  \E i \in 1..Len(op'[o].chunks) : l \in op'[o].chunks[i]
  <2> USE DEF AssignInv, WholeInverse
  <2>1. Ends(o)
    BY <1>2
  <2>2. Undoable(op'[o]) = Undoable(op[o])
    BY <2>1 DEF Ends, Undoable
  <2>3. MayUndo(o)' => saved'[o] = saved[o] /\ saved[o] = assigned[o]
    BY <2>1 DEF Ends, MayUndo
  <2>4. \A l \in saved'[o] : \E i \in 1..Len(op'[o].chunks) : l \in op'[o].chunks[i]
    BY <2>1 DEF Ends
  <2>5. op'[o].state \in {"running", "completed"} =>
          op'[o].undoNext = 1 /\ op'[o].restored = 0 /\ op'[o].skipped = 0
    BY <2>1 DEF Ends
  <2>6. op'[o].state = "none" => saved'[o] = {} /\ assigned'[o] = {}
    BY <1>1, <2>1 DEF Ends
  <2>7. op'[o].state = "running" =>
          ~op'[o].live /\ (Undoable(op'[o]) => saved'[o] = assigned'[o])
    BY <1>1, <2>1, <2>2 DEF Ends
  <2>8. ~Undoable(op'[o]) => saved'[o] = {}
    BY <1>3, <2>2
  <2> QED
    BY <1>1, <2>3, <2>4, <2>5, <2>6, <2>7, <2>8
<1>7. WholeInverse'
  BY <1>6 DEF WholeInverse
<1> QED
  BY <1>4, <1>5, <1>7

LEMMA ApplyAssign ==
  ASSUME AssignInv, NEW o \in Ops, NEW scope, Apply(o, scope)
  PROVE  (WholeInverse /\ SavedIsOlder /\ WriterKnows)'
<1> DEFINE hit == Hit(o, scope)
<1>1. TypeOK
  BY DEF AssignInv
<1>2. /\ \A p \in Ops \ {o} : op'[p] = op[p]
      /\ op[o].state = "running" /\ op[o].next \in 1..Len(op[o].chunks)
      /\ op'[o].state = "running"
      /\ op'[o].chunks = op[o].chunks /\ op'[o].kind = op[o].kind
      /\ op'[o].rep = op[o].rep /\ op'[o].live = op[o].live
      /\ op'[o].undoNext = op[o].undoNext /\ op'[o].restored = op[o].restored
      /\ op'[o].skipped = op[o].skipped
      /\ hit \in SUBSET Leads /\ hit \subseteq op[o].chunks[op[o].next]
  BY <1>1, ApplyRow
<1>3. /\ Write(hit, [l \in Leads |-> op[o].rep], o)
      /\ [l \in Leads |-> op[o].rep] \in [Leads -> Holder]
      /\ assigned'[o] = assigned[o] \cup hit
      /\ saved'[o] = saved[o] \cup (IF Undoable(op[o]) THEN hit ELSE {})
      /\ \A p \in Ops \ {o} : saved'[p] = saved[p] /\ prior'[p] = prior[p]
                            /\ assigned'[p] = assigned[p]
      /\ \A l \in Leads : prior'[o][l] =
           IF Undoable(op[o]) /\ l \in hit
           THEN [rep |-> owner[l], version |-> version[l]] ELSE prior[o][l]
  BY <1>1, ApplyLeads
<1> HIDE DEF hit
<1>4. \A l \in hit : owner'[l] = op[o].rep /\ version'[l] = version[l] + 1 /\ writer'[l] = o
  BY <1>1, <1>2, <1>3, WriteLeads
<1>5. \A l \in Leads \ hit : /\ owner'[l] = owner[l] /\ version'[l] = version[l]
                            /\ writer'[l] = writer[l]
  BY <1>1, <1>2, <1>3, WriteLeads
<1>6. Undoable(op'[o]) = Undoable(op[o])
  BY <1>2 DEF Undoable
<1>7. \A l \in Leads : version[l] \in Nat /\ prior[o][l].version \in Nat
  BY <1>1 DEF TypeOK
<1>8. saved[o] \subseteq Leads
  BY <1>1 DEF TypeOK
\* The other operations.
<1>9. \A p \in Ops \ {o} : KnownBy(p)'
  BY <1>2, <1>3, OtherWriter
\* Its own leads: those of the chunk, and those of the chunks before.
<1>10. ASSUME NEW l \in Leads, l \in hit, Undoable(op[o])
       PROVE  prior'[o][l].version = version[l] /\ version'[l] = version[l] + 1
              /\ writer'[l] = o /\ owner'[l] = op'[o].rep
  <2>1. prior'[o][l] = [rep |-> owner[l], version |-> version[l]]
    BY <1>3, <1>10
  <2>2. version'[l] = version[l] + 1 /\ writer'[l] = o /\ owner'[l] = op'[o].rep
    BY <1>2, <1>4, <1>10
  <2> QED
    BY <2>1, <2>2
<1>11. ASSUME NEW l \in saved'[o]
       PROVE  /\ prior'[o][l].version < version'[l]
              /\ version'[l] = prior'[o][l].version + 1 => writer'[l] = o
  <2>1. CASE l \in hit
    <3>1. Undoable(op[o])
      BY <1>3, <1>11 DEF AssignInv, WholeInverse
    <3>2. l \in Leads
      BY <1>2, <2>1
    <3> QED
      BY <1>7, <1>10, <2>1, <3>1, <3>2
  <2>2. CASE l \notin hit
    <3>1. l \in saved[o] /\ l \in Leads
      BY <1>3, <1>8, <1>11, <2>2
    <3>2. prior'[o][l] = prior[o][l] /\ version'[l] = version[l] /\ writer'[l] = writer[l]
      BY <1>3, <1>5, <2>2, <3>1
    <3> QED
      BY <3>1, <3>2 DEF AssignInv, SavedIsOlder
  <2> QED
    BY <2>1, <2>2
<1>12. ASSUME NEW l \in Leads, writer'[l] = o
       PROVE  l \in assigned'[o] /\ (l \in saved'[o] => Untouched(o, l)')
  <2>1. CASE l \in hit
    <3>1. l \in saved'[o] => Undoable(op[o])
      BY <1>3 DEF AssignInv, WholeInverse
    <3>2. Undoable(op[o]) => Untouched(o, l)'
      BY <1>10, <2>1 DEF Untouched
    <3> QED
      BY <1>3, <2>1, <3>1, <3>2
  <2>2. CASE l \notin hit
    <3>1. prior'[o][l] = prior[o][l] /\ version'[l] = version[l] /\ writer'[l] = writer[l]
          /\ owner'[l] = owner[l] /\ op'[o].rep = op[o].rep
      BY <1>2, <1>3, <1>5, <2>2
    <3>2. l \in assigned[o] /\ (l \in saved[o] => Untouched(o, l))
      BY <1>12, <3>1 DEF AssignInv, WriterKnows
    <3> QED
      BY <1>3, <2>2, <3>1, <3>2 DEF Untouched
  <2> QED
    BY <2>1, <2>2
<1>13. KnownBy(o)'
  BY <1>11, <1>12 DEF KnownBy
<1>14. SavedIsOlder' /\ WriterKnows'
  BY <1>9, <1>13 DEF SavedIsOlder, WriterKnows, KnownBy
<1>15. ASSUME NEW p \in Ops
       PROVE  /\ op'[p].state = "none" => saved'[p] = {} /\ assigned'[p] = {}
              /\ op'[p].state = "running" =>
                   ~op'[p].live /\ (Undoable(op'[p]) => saved'[p] = assigned'[p])
              /\ ~Undoable(op'[p]) => saved'[p] = {}
              /\ MayUndo(p)' => saved'[p] = assigned'[p]
              /\ op'[p].state \in {"running", "completed"} =>
                   op'[p].undoNext = 1 /\ op'[p].restored = 0 /\ op'[p].skipped = 0
              /\ \A l \in saved'[p] :
                   \E i \in 1..Len(op'[p].chunks) : l \in op'[p].chunks[i]
  <2>1. CASE p = o
    <3> USE DEF AssignInv, WholeInverse
    <3>1. ~op'[o].live /\ (Undoable(op'[o]) => saved'[o] = assigned'[o])
          /\ (~Undoable(op'[o]) => saved'[o] = {})
      BY <1>2, <1>3, <1>6
    <3>2. \A l \in saved'[o] : \E i \in 1..Len(op'[o].chunks) : l \in op'[o].chunks[i]
      BY <1>2, <1>3
    <3>3. op'[o].undoNext = 1 /\ op'[o].restored = 0 /\ op'[o].skipped = 0
      BY <1>2
    <3>4. ~MayUndo(o)'
      BY <1>2 DEF MayUndo
    <3> QED
      BY <1>2, <2>1, <3>1, <3>2, <3>3, <3>4
  <2>2. CASE p # o
    <3>1. op'[p] = op[p] /\ saved'[p] = saved[p] /\ assigned'[p] = assigned[p]
      BY <1>2, <1>3, <2>2
    <3> QED
      BY <3>1 DEF AssignInv, WholeInverse, MayUndo
  <2> QED
    BY <2>1, <2>2
<1>16. WholeInverse'
  BY <1>15 DEF WholeInverse
<1> QED
  BY <1>14, <1>16

LEMMA UndoAssign ==
  ASSUME AssignInv, NEW o \in Ops, NEW scope, NEW present \in SUBSET Reps,
         UndoChunk(o, scope, present)
  PROVE  (WholeInverse /\ SavedIsOlder /\ WriterKnows)'
<1>1. TypeOK
  BY DEF AssignInv
<1>2. UNCHANGED <<saved, prior, assigned>>
  BY DEF UndoChunk
<1>3. PICK back \in SUBSET Leads :
        /\ MayUndo(o)
        /\ Write(back, [l \in Leads |-> prior[o][l].rep], Elsewhere)
        /\ \A p \in Ops \ {o} : op'[p] = op[p]
        /\ op'[o].state = "undoing"
        /\ op'[o].chunks = op[o].chunks /\ op'[o].kind = op[o].kind
        /\ op'[o].rep = op[o].rep
  BY <1>1, UndoRow
<1>4. [l \in Leads |-> prior[o][l].rep] \in [Leads -> Holder]
  BY <1>1 DEF TypeOK
<1>5. \A p \in Ops : op'[p].rep = op[p].rep /\ p # Elsewhere
  BY <1>3
<1>6. \A p \in Ops : KnownBy(p)'
  BY <1>2, <1>3, <1>4, <1>5, OtherWriter
<1>7. WholeInverse'
  <2> USE DEF AssignInv, WholeInverse
  <2>1. Undoable(op'[o]) = Undoable(op[o])
    BY <1>3 DEF Undoable
  <2>2. saved[o] = assigned[o]
    BY <1>3
  <2> SUFFICES ASSUME NEW p \in Ops
               PROVE  /\ op'[p].state = "none" => saved'[p] = {} /\ assigned'[p] = {}
                      /\ op'[p].state = "running" => ~op'[p].live
                           /\ (Undoable(op'[p]) => saved'[p] = assigned'[p])
                      /\ ~Undoable(op'[p]) => saved'[p] = {}
                      /\ MayUndo(p)' => saved'[p] = assigned'[p]
                      /\ op'[p].state \in {"running", "completed"} =>
                           op'[p].undoNext = 1 /\ op'[p].restored = 0 /\ op'[p].skipped = 0
                      /\ \A l \in saved'[p] :
                           \E i \in 1..Len(op'[p].chunks) : l \in op'[p].chunks[i]
    OBVIOUS
  <2>3. CASE p = o
    BY <1>2, <1>3, <2>1, <2>2, <2>3
  <2>4. CASE p # o
    <3>1. op'[p] = op[p]
      BY <1>3, <2>4
    <3> QED
      BY <1>2, <3>1 DEF MayUndo
  <2> QED
    BY <2>3, <2>4
<1>8. SavedIsOlder' /\ WriterKnows'
  BY <1>6 DEF SavedIsOlder, WriterKnows, KnownBy
<1> QED
  BY <1>7, <1>8

LEMMA ElsewhereAssign ==
  ASSUME AssignInv, AssignElsewhere
  PROVE  (WholeInverse /\ SavedIsOlder /\ WriterKnows)'
<1>1. PICK l \in Leads, r \in Holder : Write({l}, [k \in Leads |-> r], Elsewhere)
  BY DEF AssignElsewhere
<1>2. [k \in Leads |-> r] \in [Leads -> Holder] /\ {l} \in SUBSET Leads
  OBVIOUS
<1>3. UNCHANGED <<op, saved, prior, assigned>>
  BY DEF AssignElsewhere, history
<1>4. \A p \in Ops : KnownBy(p)'
  BY <1>1, <1>2, <1>3, OtherWriter
<1>5. WholeInverse'
  BY <1>3 DEF AssignInv, WholeInverse, MayUndo
<1> QED
  BY <1>4, <1>5 DEF SavedIsOlder, WriterKnows, KnownBy

LEMMA StepAssign ==
  ASSUME AssignInv, [Next]_vars
  PROVE  AssignInv'
<1>1. TypeOK
  BY DEF AssignInv
<1>2. TypeOK'
  BY <1>1, StepTypes
<1>3. (WholeInverse /\ SavedIsOlder /\ WriterKnows)'
  BY <1>1, Steps, AdmitAssign, ForgetAssign, EndingAssign, ApplyAssign, UndoAssign,
     ElsewhereAssign
<1> QED
  BY <1>2, <1>3 DEF AssignInv

LEMMA AlwaysAssign == Spec => []AssignInv
<1>1. Init => AssignInv
  BY InitAssign
<1>2. AssignInv /\ [Next]_vars => AssignInv'
  BY StepAssign
<1> QED
  BY <1>1, <1>2, PTL DEF Spec

-----------------------------------------------------------------------------
(* The undo slots and the inverse.                                         *)

Slots == Cardinality(Live) <= UndoCap

LEMMA StepSlots ==
  ASSUME TypeOK, Slots, [Next]_vars
  PROVE  Slots'
<1>1. CASE Live' \subseteq Live
  BY <1>1, FewerLive DEF Slots
<1>2. CASE Ending
  BY <1>2 DEF Ending, Slots
<1>3. CASE AssignElsewhere
  <2>1. op' = op
    BY <1>3 DEF AssignElsewhere
  <2> QED
    BY <1>1, <2>1 DEF Live
<1>4. ASSUME NEW o \in Ops, Admit(o) \/ PurgeReceipt(o)
                          \/ \E scope \in SUBSET Reps : Apply(o, scope)
      PROVE  Slots'
  <2>1. (\A p \in Ops \ {o} : op'[p] = op[p])
        /\ op'[o].state \notin {"completed", "undoing"}
    BY <1>4, AdmitRow, ForgetRow, ApplyRow
  <2> QED
    BY <1>1, <2>1 DEF Live
<1>5. ASSUME NEW o \in Ops, NEW scope \in SUBSET Reps, NEW present \in SUBSET Reps,
             UndoChunk(o, scope, present)
      PROVE  Slots'
  <2>1. (\A p \in Ops \ {o} : op'[p] = op[p]) /\ MayUndo(o) /\ op'[o].live = op[o].live
    BY <1>5, UndoRow
  <2> QED
    BY <1>1, <2>1 DEF Live, MayUndo
<1> QED
  BY <1>2, <1>3, <1>4, <1>5, Steps

\* Eviction, expiry, the purge and other operations never take from an undo what it
\* still needs, and there are never more receipts to undo than slots
\* (finishAssignment, purgeAssignmentReceipts).
THEOREM InverseIsKeptCorrect == Spec => []InverseIsKept
<1>1. Init => Slots
  <2> SUFFICES ASSUME Init PROVE Slots
    OBVIOUS
  <2>1. NoRow.state = "none"
    BY DEF NoRow, NewRow
  <2>2. Live = {}
    BY <2>1 DEF Init, Live
  <2> QED
    BY <2>2, FS_EmptySet DEF Slots
<1>2. AssignInv /\ Slots /\ [Next]_vars => Slots'
  BY StepSlots DEF AssignInv
<1>3. AssignInv /\ Slots => InverseIsKept
  BY DEF AssignInv, WholeInverse, Slots, InverseIsKept
<1> QED
  BY <1>1, <1>2, <1>3, AlwaysAssign, PTL DEF Spec

-----------------------------------------------------------------------------
(* Later work.                                                             *)

\* Whatever other operations, routes and imports did in between, an undo moves only
\* leads its own operation wrote last, and only to whom they had before
\* (undoAssignmentOperation and its version fence).
THEOREM LaterWorkKeptCorrect == Spec => LaterWorkKept
<1>1. ASSUME AssignInv, [Next]_vars, NEW o \in Ops, op'[o].undoNext > op[o].undoNext,
             NEW l \in Leads, version'[l] # version[l]
      PROVE  writer[l] = o /\ owner'[l] = prior[o][l].rep
  <2>1. TypeOK
    BY <1>1 DEF AssignInv
  <2>2. op[o].undoNext \in 1..(MaxChunks + 1)
    BY <2>1 DEF TypeOK, OpRow
  <2>3. op'[o] # op[o]
    BY <1>1, <2>2
  <2>4. PICK scope \in SUBSET Reps, present \in SUBSET Reps : UndoChunk(o, scope, present)
    <3>1. ~AssignElsewhere
      BY <2>3 DEF AssignElsewhere
    <3>2. ~Ending
      BY <1>1, <2>2 DEF Ending, Ends
    <3>3. ASSUME NEW p \in Ops, Admit(p) PROVE FALSE
      <4>1. op'[p].undoNext = 1 /\ \A q \in Ops \ {p} : op'[q] = op[q]
        BY <2>1, <3>3, AdmitRow
      <4> QED
        BY <1>1, <2>2, <2>3, <4>1
    <3>4. ASSUME NEW p \in Ops, PurgeReceipt(p) PROVE FALSE
      <4>1. op'[p].undoNext = 1 /\ \A q \in Ops \ {p} : op'[q] = op[q]
        BY <2>1, <3>4, ForgetRow
      <4> QED
        BY <1>1, <2>2, <2>3, <4>1
    <3>5. ASSUME NEW p \in Ops, NEW scope \in SUBSET Reps, Apply(p, scope) PROVE FALSE
      <4>1. op'[p].undoNext = op[p].undoNext /\ \A q \in Ops \ {p} : op'[q] = op[q]
        BY <2>1, <3>5, ApplyRow
      <4> QED
        BY <1>1, <2>2, <2>3, <4>1
    <3>6. PICK p \in Ops : \E scope, present \in SUBSET Reps : UndoChunk(p, scope, present)
      BY <1>1, <2>1, <3>1, <3>2, <3>3, <3>4, <3>5, Steps
    <3>7. p = o
      BY <2>1, <2>3, <3>6, UndoRow
    <3> QED
      BY <3>6, <3>7
  <2>5. PICK back \in SUBSET Leads :
          /\ Write(back, [k \in Leads |-> prior[o][k].rep], Elsewhere)
          /\ back = {k \in saved[o] \cap op[o].chunks[op[o].undoNext] :
                       Untouched(o, k) /\ k \in back}
    BY <2>1, <2>4, UndoRow
  <2>6. [k \in Leads |-> prior[o][k].rep] \in [Leads -> Holder]
    BY <2>1 DEF TypeOK
  <2>7. l \in back /\ owner'[l] = prior[o][l].rep
    <3> DEFINE was == [k \in Leads |-> prior[o][k].rep]
    <3>1. was \in [Leads -> Holder] /\ Write(back, was, Elsewhere) /\ was[l] = prior[o][l].rep
      BY <1>1, <2>5, <2>6
    <3> HIDE DEF was
    <3>2. (\A k \in back : owner'[k] = was[k])
          /\ (\A k \in Leads \ back : version'[k] = version[k])
      BY <2>1, <3>1, WriteLeads
    <3> QED
      BY <1>1, <3>1, <3>2
  <2>8. l \in saved[o] /\ Untouched(o, l)
    BY <2>5, <2>7
  <2> QED
    BY <1>1, <2>7, <2>8 DEF AssignInv, SavedIsOlder, Untouched
<1>2. AssignInv /\ [Next]_vars =>
        [\A o \in Ops : op'[o].undoNext > op[o].undoNext =>
          \A l \in Leads : version'[l] # version[l] =>
            writer[l] = o /\ owner'[l] = prior[o][l].rep]_vars
  BY <1>1
<1> QED
  BY <1>2, AlwaysAssign, PTL DEF Spec, LaterWorkKept

-----------------------------------------------------------------------------
(* What an undo leaves.                                                    *)

\* The chunks an undo has done hold nothing of the operation any more, unless it was
\* refused; once it is undone, no lead does.
ChunksAreUndone ==
  \A o \in Ops :
    /\ \A i \in 1..Len(op[o].chunks) : i < op[o].undoNext =>
         \A l \in saved[o] \cap op[o].chunks[i] : writer[l] = o => l \in refused[o]
    /\ op[o].state = "undone" => \A l \in Leads : writer[l] = o => l \in refused[o]

\* A step that changes nothing of p, and writes leads in its name nowhere.
LEMMA UndoneElsewhere ==
  ASSUME ChunksAreUndone, NEW p \in Ops, op'[p] = op[p], saved'[p] = saved[p],
         refused[p] \subseteq refused'[p],
         \A l \in Leads : writer'[l] = p => writer[l] = p, saved[p] \subseteq Leads
  PROVE  /\ \A i \in 1..Len(op'[p].chunks) : i < op'[p].undoNext =>
              \A l \in saved'[p] \cap op'[p].chunks[i] : writer'[l] = p => l \in refused'[p]
         /\ op'[p].state = "undone" => \A l \in Leads : writer'[l] = p => l \in refused'[p]
BY DEF ChunksAreUndone

\* Who may have written a lead, after a step.
LEMMA NoNewWriter ==
  ASSUME TypeOK, NEW S \in SUBSET Leads, NEW holder \in [Leads -> Holder],
         NEW by \in Ops \cup {Elsewhere}, Write(S, holder, by), NEW p \in Ops, p # by
  PROVE  \A l \in Leads : writer'[l] = p => writer[l] = p
<1>1. (\A l \in S : writer'[l] = by) /\ (\A l \in Leads \ S : writer'[l] = writer[l])
  BY WriteLeads
<1> QED
  BY <1>1

LEMMA UndoneUndo ==
  ASSUME AssignInv, ChunksAreUndone, NEW o \in Ops, NEW scope,
         NEW present \in SUBSET Reps, UndoChunk(o, scope, present)
  PROVE  ChunksAreUndone'
<1> DEFINE i == op[o].undoNext
           chunk == saved[o] \cap op[o].chunks[i]
<1>1. TypeOK
  BY DEF AssignInv
<1>2. saved' = saved /\ \A p \in Ops : saved[p] \subseteq Leads
  BY <1>1 DEF UndoChunk, TypeOK
<1>3. PICK back \in SUBSET Leads :
        /\ i \in 1..Len(op[o].chunks)
        /\ \A l \in chunk : Untouched(o, l) => l \in back \/ l \in refused'[o]
        /\ Write(back, [l \in Leads |-> prior[o][l].rep], Elsewhere)
        /\ \A p \in Ops : refused[p] \subseteq refused'[p]
        /\ \A p \in Ops \ {o} : op'[p] = op[p]
        /\ op'[o].state = "undoing" /\ op'[o].undoNext = i + 1
        /\ op'[o].chunks = op[o].chunks
  BY <1>1, UndoRow
<1>4. [l \in Leads |-> prior[o][l].rep] \in [Leads -> Holder]
  BY <1>1 DEF TypeOK
<1>5. \A p \in Ops : \A l \in Leads : writer'[l] = p => writer[l] = p
  BY <1>1, <1>3, <1>4, NoNewWriter
<1>6. \A l \in back : writer'[l] = Elsewhere
  BY <1>1, <1>3, <1>4, WriteLeads
<1>7. ASSUME NEW l \in chunk, writer'[l] = o PROVE l \in refused'[o]
  <2>1. l \in Leads /\ writer[l] = o
    BY <1>2, <1>5, <1>7
  <2>2. Untouched(o, l)
    BY <2>1 DEF AssignInv, WriterKnows
  <2>3. l \notin back
    BY <1>6, <1>7
  <2> QED
    BY <1>3, <2>2, <2>3
<1>8. ASSUME NEW j \in 1..Len(op'[o].chunks), j < op'[o].undoNext,
             NEW l \in saved'[o] \cap op'[o].chunks[j], writer'[l] = o
      PROVE  l \in refused'[o]
  <2>1. op[o].chunks \in Selections /\ i \in Nat
    BY <1>1 DEF TypeOK, OpRow
  <2>2. j \in Nat /\ (j < i \/ j = i)
    BY <1>3, <1>8, <2>1, SelectionFacts
  <2>3. CASE j = i
    BY <1>2, <1>3, <1>7, <1>8, <2>3
  <2>4. CASE j < i
    <3>1. l \in Leads /\ writer[l] = o /\ l \in saved[o] \cap op[o].chunks[j]
          /\ j \in 1..Len(op[o].chunks)
      BY <1>2, <1>3, <1>5, <1>8
    <3> QED
      BY <1>3, <2>4, <3>1 DEF ChunksAreUndone
  <2> QED
    BY <2>2, <2>3, <2>4
<1> SUFFICES ASSUME NEW p \in Ops
             PROVE  /\ \A j \in 1..Len(op'[p].chunks) : j < op'[p].undoNext =>
                         \A l \in saved'[p] \cap op'[p].chunks[j] :
                           writer'[l] = p => l \in refused'[p]
                    /\ op'[p].state = "undone" =>
                         \A l \in Leads : writer'[l] = p => l \in refused'[p]
  BY DEF ChunksAreUndone
<1>9. CASE p = o
  BY <1>3, <1>8, <1>9
<1>10. CASE p # o
  BY <1>2, <1>3, <1>5, <1>10, UndoneElsewhere
<1> QED
  BY <1>9, <1>10

LEMMA UndoneApply ==
  ASSUME AssignInv, ChunksAreUndone, NEW o \in Ops, NEW scope, Apply(o, scope)
  PROVE  ChunksAreUndone'
<1> DEFINE hit == Hit(o, scope)
<1>1. TypeOK
  BY DEF AssignInv
<1>2. /\ \A p \in Ops \ {o} : op'[p] = op[p]
      /\ op[o].state = "running" /\ op'[o].state = "running"
      /\ op'[o].undoNext = op[o].undoNext /\ hit \in SUBSET Leads
  BY <1>1, ApplyRow
<1>3. /\ Write(hit, [l \in Leads |-> op[o].rep], o)
      /\ [l \in Leads |-> op[o].rep] \in [Leads -> Holder]
      /\ \A p \in Ops \ {o} : saved'[p] = saved[p]
      /\ refused' = refused
  BY <1>1, ApplyLeads
<1>4. op'[o].undoNext = 1 /\ op'[o].state # "undone"
  BY <1>2 DEF AssignInv, WholeInverse
<1>5. \A p \in Ops \ {o} : \A l \in Leads : writer'[l] = p => writer[l] = p
  BY <1>1, <1>2, <1>3, NoNewWriter
<1>6. op'[o].chunks \in Selections
  <2>1. op' \in [Ops -> OpRow]
    BY <1>1, ApplyRow
  <2> QED
    BY <2>1 DEF OpRow
<1>7. \A i \in 1..Len(op'[o].chunks) : ~(i < op'[o].undoNext)
  BY <1>4, <1>6, SelectionFacts
<1>8. \A p \in Ops : saved[p] \subseteq Leads
  BY <1>1 DEF TypeOK
<1> SUFFICES ASSUME NEW p \in Ops
             PROVE  /\ \A i \in 1..Len(op'[p].chunks) : i < op'[p].undoNext =>
                         \A l \in saved'[p] \cap op'[p].chunks[i] :
                           writer'[l] = p => l \in refused'[p]
                    /\ op'[p].state = "undone" =>
                         \A l \in Leads : writer'[l] = p => l \in refused'[p]
  BY DEF ChunksAreUndone
<1>9. CASE p = o
  BY <1>4, <1>7, <1>9
<1>10. CASE p # o
  BY <1>2, <1>3, <1>5, <1>8, <1>10, UndoneElsewhere
<1> QED
  BY <1>9, <1>10

\* A receipt that is admitted or purged, and assignments elsewhere.
LEMMA UndoneOtherwise ==
  ASSUME AssignInv, ChunksAreUndone,
         AssignElsewhere \/ \E o \in Ops : Admit(o) \/ PurgeReceipt(o)
  PROVE  ChunksAreUndone'
<1>1. TypeOK
  BY DEF AssignInv
<1>2. saved' = saved /\ refused' = refused /\ \A p \in Ops : saved[p] \subseteq Leads
  BY <1>1 DEF AssignElsewhere, Admit, PurgeReceipt, history, TypeOK
<1>3. \A p \in Ops : \A l \in Leads : writer'[l] = p => writer[l] = p
  <2>1. CASE AssignElsewhere
    <3>1. PICK l \in Leads, r \in Holder : Write({l}, [k \in Leads |-> r], Elsewhere)
      BY <2>1 DEF AssignElsewhere
    <3>2. [k \in Leads |-> r] \in [Leads -> Holder] /\ {l} \in SUBSET Leads
      OBVIOUS
    <3> QED
      BY <1>1, <3>1, <3>2, NoNewWriter
  <2>2. CASE \E o \in Ops : Admit(o) \/ PurgeReceipt(o)
    BY <2>2 DEF Admit, PurgeReceipt, leads
  <2> QED
    BY <2>1, <2>2
<1>4. \A p \in Ops :
        op'[p] = op[p] \/ (op'[p].undoNext = 1 /\ op'[p].state # "undone")
  BY <1>1, AdmitRow, ForgetRow DEF AssignElsewhere
<1>5. \A p \in Ops : op'[p].chunks \in Selections
  <2>1. op' \in [Ops -> OpRow]
    BY <1>1, AdmitRow, ForgetRow DEF AssignElsewhere, TypeOK
  <2> QED
    BY <2>1 DEF OpRow
<1> SUFFICES ASSUME NEW p \in Ops
             PROVE  /\ \A i \in 1..Len(op'[p].chunks) : i < op'[p].undoNext =>
                         \A l \in saved'[p] \cap op'[p].chunks[i] :
                           writer'[l] = p => l \in refused'[p]
                    /\ op'[p].state = "undone" =>
                         \A l \in Leads : writer'[l] = p => l \in refused'[p]
  BY DEF ChunksAreUndone
<1>6. CASE op'[p] = op[p]
  BY <1>2, <1>3, <1>6, UndoneElsewhere
<1>7. CASE op'[p].undoNext = 1 /\ op'[p].state # "undone"
  <2>1. \A i \in 1..Len(op'[p].chunks) : ~(i < op'[p].undoNext)
    BY <1>5, <1>7, SelectionFacts
  <2> QED
    BY <1>7, <2>1
<1> QED
  BY <1>4, <1>6, <1>7

LEMMA UndoneEnding ==
  ASSUME AssignInv, ChunksAreUndone, Ending
  PROVE  ChunksAreUndone'
<1>1. TypeOK
  BY DEF AssignInv
<1>2. writer' = writer /\ refused' = refused /\ \A p \in Ops : saved[p] \subseteq Leads
  BY <1>1 DEF Ending, leads, history, TypeOK
<1> SUFFICES ASSUME NEW p \in Ops
             PROVE  /\ \A i \in 1..Len(op'[p].chunks) : i < op'[p].undoNext =>
                         \A l \in saved'[p] \cap op'[p].chunks[i] :
                           writer'[l] = p => l \in refused'[p]
                    /\ op'[p].state = "undone" =>
                         \A l \in Leads : writer'[l] = p => l \in refused'[p]
  BY DEF ChunksAreUndone
<1>3. Ends(p)
  BY DEF Ending
<1>4. \A i \in 1..Len(op'[p].chunks) : i < op'[p].undoNext =>
        \A l \in saved'[p] \cap op'[p].chunks[i] : writer'[l] = p => l \in refused'[p]
  <2>1. CASE saved'[p] = {}
    BY <2>1
  <2>2. CASE op'[p].chunks = op[p].chunks /\ saved'[p] = saved[p]
    BY <1>2, <1>3, <2>2 DEF ChunksAreUndone, Ends
  <2> QED
    BY <1>3, <2>1, <2>2 DEF Ends
<1>5. ASSUME op'[p].state = "undone", NEW l \in Leads, writer'[l] = p
      PROVE  l \in refused'[p]
  <2>1. CASE op[p].state = "undone"
    BY <1>2, <1>5, <2>1 DEF ChunksAreUndone
  <2>2. CASE op[p].state # "undone"
    <3>1. MayUndo(p) /\ AllUndone(p)
      BY <1>3, <1>5, <2>2 DEF Ends
    <3>2. l \in saved[p]
      BY <1>2, <1>5, <3>1 DEF AssignInv, WholeInverse, WriterKnows
    <3>3. PICK i \in 1..Len(op[p].chunks) : l \in op[p].chunks[i]
      BY <3>2 DEF AssignInv, WholeInverse
    <3>4. op[p].chunks \in Selections /\ op[p].undoNext \in Nat
      BY <1>1 DEF TypeOK, OpRow
    <3>5. i < op[p].undoNext
      BY <3>1, <3>3, <3>4, SelectionFacts DEF AllUndone
    <3> QED
      BY <1>2, <1>5, <3>2, <3>3, <3>5 DEF ChunksAreUndone
  <2> QED
    BY <2>1, <2>2
<1> QED
  BY <1>4, <1>5

\* An undo that has run to its end has left nothing of the assignment behind but
\* what the actor had no authority over (undoAssignmentOperation).
THEOREM UndoLeavesNothingCorrect == Spec => []UndoLeavesNothing
<1>1. Init => ChunksAreUndone
  <2> SUFFICES ASSUME Init PROVE ChunksAreUndone
    OBVIOUS
  <2>1. \A o \in Ops : saved[o] = {} /\ \A l \in Leads : writer[l] # o
    BY DEF Init
  <2> QED
    BY <2>1 DEF ChunksAreUndone
<1>2. AssignInv /\ ChunksAreUndone /\ [Next]_vars => ChunksAreUndone'
  <2> SUFFICES ASSUME AssignInv, ChunksAreUndone, [Next]_vars PROVE ChunksAreUndone'
    OBVIOUS
  <2>1. TypeOK
    BY DEF AssignInv
  <2> QED
    BY <2>1, Steps, UndoneUndo, UndoneApply, UndoneOtherwise, UndoneEnding
<1>3. ChunksAreUndone => UndoLeavesNothing
  BY DEF ChunksAreUndone, UndoLeavesNothing
<1> QED
  BY <1>1, <1>2, <1>3, AlwaysAssign, PTL DEF Spec

-----------------------------------------------------------------------------
(* The counts of a receipt.                                                *)

\* The leads whose undo has been tried.
Tried(o) ==
  {l \in saved[o] : \E i \in 1..Len(op[o].chunks) :
     i < op[o].undoNext /\ l \in op[o].chunks[i]}

\* A lead is assigned by the chunk it is in, once; it is tried once as well.
Counts(o) ==
  /\ op[o].state = "running" => \A l \in assigned[o] :
       \E i \in 1..Len(op[o].chunks) : i < op[o].next /\ l \in op[o].chunks[i]
  /\ op[o].state \notin {"none", "forgotten"} =>
       /\ op[o].updated = Cardinality(assigned[o])
       /\ op[o].restored + op[o].skipped <= op[o].updated
  /\ op[o].state = "undoing" => op[o].restored + op[o].skipped <= Cardinality(Tried(o))

CountInv == \A o \in Ops : Counts(o)

LEMMA CountsApply ==
  ASSUME AssignInv, CountInv, NEW o \in Ops, NEW scope, Apply(o, scope)
  PROVE  Counts(o)'
<1> DEFINE hit == Hit(o, scope)
<1>1. TypeOK /\ Counts(o)
  BY DEF AssignInv, CountInv
<1>2. /\ op[o].state = "running" /\ op[o].next \in 1..Len(op[o].chunks)
      /\ op'[o].state = "running" /\ op'[o].next = op[o].next + 1
      /\ op'[o].updated = op[o].updated + Cardinality(hit)
      /\ op'[o].chunks = op[o].chunks /\ op'[o].restored = op[o].restored
      /\ op'[o].skipped = op[o].skipped
      /\ IsFiniteSet(hit) /\ hit \subseteq op[o].chunks[op[o].next]
  BY <1>1, ApplyRow
<1>3. assigned'[o] = assigned[o] \cup hit
  BY <1>1, ApplyLeads
<1> HIDE DEF hit
<1>4. op[o].chunks \in Selections /\ op[o].updated \in Nat
  BY <1>1 DEF TypeOK, OpRow
<1>5. \A i, j \in 1..Len(op[o].chunks) :
        i # j => op[o].chunks[i] \cap op[o].chunks[j] = {}
  BY <1>4, SelectionFacts
<1>6. Len(op[o].chunks) \in Nat
  BY <1>4, SelectionFacts
<1>7. assigned[o] \cap hit = {}
  <2> SUFFICES ASSUME NEW l \in assigned[o], l \in hit PROVE FALSE
    OBVIOUS
  <2>1. PICK i \in 1..Len(op[o].chunks) : i < op[o].next /\ l \in op[o].chunks[i]
    BY <1>1, <1>2 DEF Counts
  <2>2. i # op[o].next
    BY <1>2, <1>6, <2>1
  <2> QED
    BY <1>2, <1>5, <2>1, <2>2
<1>8. IsFiniteSet(assigned[o])
  BY <1>1, FS_Subset DEF TypeOK
<1>9. Cardinality(assigned'[o]) = Cardinality(assigned[o]) + Cardinality(hit)
  <2>1. Cardinality(assigned[o] \cap hit) = 0
    BY <1>7, FS_EmptySet
  <2>2. Cardinality(assigned[o] \cup hit) = Cardinality(assigned[o]) + Cardinality(hit)
          - Cardinality(assigned[o] \cap hit)
    BY <1>2, <1>8, FS_Union
  <2>3. Cardinality(assigned[o]) \in Nat /\ Cardinality(hit) \in Nat
    BY <1>2, <1>8, FS_CardinalityType
  <2> QED
    BY <1>3, <2>1, <2>2, <2>3
<1>10. op[o].updated = Cardinality(assigned[o])
  BY <1>1, <1>2 DEF Counts
<1>11. op'[o].restored + op'[o].skipped = 0
  BY <1>2 DEF AssignInv, WholeInverse
<1>12. op'[o].updated \in Nat
  BY <1>2, <1>4, FS_CardinalityType
<1>13. \A l \in assigned'[o] : \E i \in 1..Len(op'[o].chunks) :
         i < op'[o].next /\ l \in op'[o].chunks[i]
  <2> SUFFICES ASSUME NEW l \in assigned'[o]
               PROVE  \E i \in 1..Len(op[o].chunks) :
                        i < op[o].next + 1 /\ l \in op[o].chunks[i]
    BY <1>2
  <2>1. CASE l \in hit
    <3>1. op[o].next < op[o].next + 1
      BY <1>2, <1>6
    <3> QED
      BY <1>2, <2>1, <3>1
  <2>2. CASE l \in assigned[o]
    <3>1. PICK i \in 1..Len(op[o].chunks) : i < op[o].next /\ l \in op[o].chunks[i]
      BY <1>1, <1>2, <2>2 DEF Counts
    <3>2. i < op[o].next + 1
      BY <1>2, <1>6, <3>1
    <3> QED
      BY <3>1, <3>2
  <2> QED
    BY <1>3, <2>1, <2>2
<1>14. op'[o].updated = Cardinality(assigned'[o])
       /\ op'[o].restored + op'[o].skipped <= op'[o].updated
  BY <1>2, <1>9, <1>10, <1>11, <1>12
<1> QED
  BY <1>2, <1>13, <1>14 DEF Counts

LEMMA CountsUndo ==
  ASSUME AssignInv, WholeInverse', CountInv, NEW o \in Ops, NEW scope,
         NEW present \in SUBSET Reps, UndoChunk(o, scope, present)
  PROVE  Counts(o)'
<1> DEFINE i == op[o].undoNext
           chunk == saved[o] \cap op[o].chunks[i]
<1>1. TypeOK /\ Counts(o)
  BY DEF AssignInv, CountInv
<1>2. /\ i \in 1..Len(op[o].chunks) /\ MayUndo(o) /\ chunk \in SUBSET Leads
      /\ op' \in [Ops -> OpRow]
      /\ op'[o].state = "undoing" /\ op'[o].undoNext = i + 1
      /\ op'[o].restored + op'[o].skipped
           = op[o].restored + op[o].skipped + Cardinality(chunk)
      /\ op'[o].chunks = op[o].chunks /\ op'[o].updated = op[o].updated
  BY <1>1, UndoRow
<1>3. saved' = saved /\ assigned' = assigned
  BY DEF UndoChunk
<1>4. /\ op[o].chunks \in Selections /\ i \in Nat
      /\ op[o].restored \in Nat /\ op[o].skipped \in Nat
      /\ op'[o].restored \in Nat /\ op'[o].skipped \in Nat
      /\ saved[o] \in SUBSET Leads
  BY <1>1, <1>2 DEF TypeOK, OpRow
<1>5. Len(op[o].chunks) \in Nat
      /\ \A j, k \in 1..Len(op[o].chunks) :
           j # k => op[o].chunks[j] \cap op[o].chunks[k] = {}
  BY <1>4, SelectionFacts
<1>6. Tried(o) \in SUBSET saved[o] /\ Tried(o)' \in SUBSET saved[o]
  BY <1>3 DEF Tried
<1>7. Tried(o) \cap chunk = {}
  <2> SUFFICES ASSUME NEW l \in Tried(o), l \in chunk PROVE FALSE
    OBVIOUS
  <2>1. PICK j \in 1..Len(op[o].chunks) : j < i /\ l \in op[o].chunks[j]
    BY DEF Tried
  <2>2. j # i
    BY <1>2, <1>5, <2>1
  <2> QED
    BY <1>2, <1>5, <2>1, <2>2
<1>8. Tried(o) \cup chunk \in SUBSET Tried(o)'
  <2>1. ASSUME NEW l \in Tried(o) PROVE l \in Tried(o)'
    <3>1. PICK j \in 1..Len(op[o].chunks) : j < i /\ l \in op[o].chunks[j]
      BY DEF Tried
    <3>2. j < i + 1
      BY <1>4, <1>5, <3>1
    <3> QED
      BY <1>2, <1>3, <1>6, <3>1, <3>2 DEF Tried
  <2>2. ASSUME NEW l \in chunk PROVE l \in Tried(o)'
    <3>1. i < i + 1
      BY <1>4
    <3> QED
      BY <1>2, <1>3, <3>1 DEF Tried
  <2> QED
    BY <2>1, <2>2
<1> HIDE DEF chunk, i
<1>9. IsFiniteSet(saved[o]) /\ IsFiniteSet(chunk) /\ IsFiniteSet(Tried(o))
      /\ IsFiniteSet(Tried(o)')
  <2>1. IsFiniteSet(saved[o]) /\ IsFiniteSet(chunk)
    BY <1>2, <1>4, FS_Subset
  <2> QED
    BY <1>6, <2>1, FS_Subset
<1>10. /\ Cardinality(chunk) \in Nat /\ Cardinality(Tried(o)) \in Nat
       /\ Cardinality(Tried(o)') \in Nat /\ Cardinality(saved[o]) \in Nat
  BY <1>9, FS_CardinalityType
<1>11. Cardinality(Tried(o)') <= Cardinality(saved[o])
  BY <1>6, <1>9, FS_Subset
<1>12. Cardinality(Tried(o)) + Cardinality(chunk) <= Cardinality(Tried(o)')
  <2>1. Cardinality(Tried(o) \cap chunk) = 0
    BY <1>7, FS_EmptySet
  <2>2. Cardinality(Tried(o) \cup chunk) = Cardinality(Tried(o)) + Cardinality(chunk)
          - Cardinality(Tried(o) \cap chunk)
    BY <1>9, FS_Union
  <2>3. Cardinality(Tried(o) \cup chunk) <= Cardinality(Tried(o)')
    BY <1>8, <1>9, FS_Subset
  <2> QED
    BY <1>10, <2>1, <2>2, <2>3
<1>13. op[o].restored + op[o].skipped <= Cardinality(Tried(o))
  <2>1. CASE op[o].state = "undoing"
    BY <1>1, <2>1 DEF Counts
  <2>2. CASE op[o].state = "completed"
    BY <1>10, <2>2 DEF AssignInv, WholeInverse
  <2> QED
    BY <1>2, <2>1, <2>2 DEF MayUndo
<1>14. op[o].updated = Cardinality(assigned[o]) /\ saved[o] = assigned[o]
  BY <1>1, <1>2 DEF Counts, MayUndo, AssignInv, WholeInverse
<1> DEFINE t == op[o].restored + op[o].skipped
           u == op'[o].restored + op'[o].skipped
           c == Cardinality(chunk)
           d == Cardinality(Tried(o))
           e == Cardinality(Tried(o)')
           f == Cardinality(saved[o])
<1>15. t \in Nat /\ u = t + c /\ c \in Nat /\ d \in Nat /\ e \in Nat /\ f \in Nat
       /\ e <= f /\ d + c <= e /\ t <= d
  <2>1. t \in Nat
    BY <1>4
  <2>2. u = t + c
    BY <1>2
  <2>3. c \in Nat /\ d \in Nat /\ e \in Nat /\ f \in Nat
    BY <1>10
  <2>4. e <= f /\ d + c <= e /\ t <= d
    BY <1>11, <1>12, <1>13
  <2> HIDE DEF t, u, c, d, e, f
  <2> QED
    BY <2>1, <2>2, <2>3, <2>4
<1> HIDE DEF t, u, c, d, e, f
<1>16. u <= e /\ u <= f
  BY <1>15
<1>17. op'[o].updated = Cardinality(assigned'[o]) /\ op'[o].updated = f
  BY <1>2, <1>3, <1>14 DEF f
<1> QED
  BY <1>2, <1>16, <1>17 DEF Counts, u, e

\* An operation of which nothing changes but, perhaps, leads of others.
LEMMA CountsElsewhere ==
  ASSUME NEW p \in Ops, Counts(p), op'[p] = op[p], saved'[p] = saved[p],
         assigned'[p] = assigned[p]
  PROVE  Counts(p)'
<1>1. Tried(p)' = Tried(p)
  BY DEF Tried
<1> QED
  BY <1>1 DEF Counts

LEMMA CountsEnding ==
  ASSUME AssignInv, CountInv, Ending, NEW p \in Ops
  PROVE  Counts(p)'
<1>1. Ends(p) /\ Counts(p) /\ assigned' = assigned
  BY DEF Ending, CountInv, history
<1>2. op'[p].state \notin {"none", "forgotten"} =>
        /\ op'[p].updated = Cardinality(assigned'[p])
        /\ op'[p].restored + op'[p].skipped <= op'[p].updated
  BY <1>1 DEF Ends, Counts, MayUndo
<1>3. op'[p].state = "running" => \A l \in assigned'[p] :
        \E i \in 1..Len(op'[p].chunks) : i < op'[p].next /\ l \in op'[p].chunks[i]
  BY <1>1 DEF Ends, Counts
<1>4. ASSUME op'[p].state = "undoing"
      PROVE  op'[p].restored + op'[p].skipped <= Cardinality(Tried(p)')
  <2>1. op[p].state = "undoing" /\ op'[p].chunks = op[p].chunks /\ saved'[p] = saved[p]
        /\ op'[p].undoNext = op[p].undoNext /\ op'[p].restored = op[p].restored
        /\ op'[p].skipped = op[p].skipped
    BY <1>1, <1>4 DEF Ends
  <2>2. Tried(p)' = Tried(p)
    BY <2>1 DEF Tried
  <2> QED
    BY <1>1, <2>1, <2>2 DEF Counts
<1> QED
  BY <1>2, <1>3, <1>4 DEF Counts

LEMMA CountsAdmit ==
  ASSUME AssignInv, CountInv, NEW o \in Ops, Admit(o)
  PROVE  Counts(o)'
<1>1. op[o].state = "none" /\ op'[o].state = "running" /\ op'[o].updated = 0
      /\ op'[o].restored = 0 /\ op'[o].skipped = 0
  BY AdmitRow DEF AssignInv
<1>2. assigned'[o] = {}
  BY <1>1 DEF AssignInv, WholeInverse, Admit, history
<1> QED
  BY <1>1, <1>2, FS_EmptySet DEF Counts

LEMMA StepCounts ==
  ASSUME AssignInv, CountInv, [Next]_vars
  PROVE  CountInv'
<1>1. TypeOK /\ WholeInverse' /\ \A p \in Ops : Counts(p)
  BY StepAssign DEF AssignInv, CountInv
<1> SUFFICES ASSUME NEW p \in Ops PROVE Counts(p)'
  BY DEF CountInv
<1>2. CASE AssignElsewhere
  BY <1>1, <1>2, CountsElsewhere DEF AssignElsewhere, history
<1>3. ASSUME NEW o \in Ops, Admit(o) PROVE Counts(p)'
  <2>1. (\A q \in Ops \ {o} : op'[q] = op[q]) /\ UNCHANGED <<saved, assigned>>
    BY <1>1, <1>3, AdmitRow DEF Admit, history
  <2> QED
    BY <1>1, <1>3, <2>1, CountsAdmit, CountsElsewhere
<1>4. ASSUME NEW o \in Ops, PurgeReceipt(o) PROVE Counts(p)'
  <2>1. /\ \A q \in Ops \ {o} : op'[q] = op[q]
        /\ op'[o].state = "forgotten" /\ UNCHANGED <<saved, assigned>>
    BY <1>1, <1>4, ForgetRow DEF PurgeReceipt, history
  <2>2. CASE p = o
    BY <2>1, <2>2 DEF Counts
  <2> QED
    BY <1>1, <2>1, <2>2, CountsElsewhere
<1>5. ASSUME NEW o \in Ops, NEW scope \in SUBSET Reps, Apply(o, scope) PROVE Counts(p)'
  <2>1. \A q \in Ops \ {o} : op'[q] = op[q]
    BY <1>1, <1>5, ApplyRow
  <2>2. \A q \in Ops \ {o} : saved'[q] = saved[q] /\ assigned'[q] = assigned[q]
    BY <1>1, <1>5, ApplyLeads
  <2> QED
    BY <1>1, <1>5, <2>1, <2>2, CountsApply, CountsElsewhere
<1>6. ASSUME NEW o \in Ops, NEW scope \in SUBSET Reps, NEW present \in SUBSET Reps,
             UndoChunk(o, scope, present)
      PROVE  Counts(p)'
  <2>1. \A q \in Ops \ {o} : op'[q] = op[q]
    BY <1>1, <1>6, UndoRow
  <2>2. UNCHANGED <<saved, assigned>>
    BY <1>6 DEF UndoChunk
  <2> QED
    BY <1>1, <1>6, <2>1, <2>2, CountsUndo, CountsElsewhere
<1>7. CASE Ending
  BY <1>7, CountsEnding
<1> QED
  BY <1>1, <1>2, <1>3, <1>4, <1>5, <1>6, <1>7, Steps

\* However many workers took the steps of an operation and wherever they died, its
\* receipt counts every lead it assigned once, and none twice
\* (continueAssignmentOperation); no undo restores and skips more than that.
THEOREM CountsAreTrueCorrect == Spec => []CountsAreTrue
<1>1. Init => CountInv
  <2> SUFFICES ASSUME Init PROVE CountInv
    OBVIOUS
  <2>1. NoRow.state = "none"
    BY DEF NoRow, NewRow
  <2> QED
    BY <2>1 DEF Init, CountInv, Counts
<1>2. AssignInv /\ CountInv /\ [Next]_vars => CountInv'
  BY StepCounts
<1>3. AssignInv /\ CountInv => CountsAreTrue
  BY DEF AssignInv, CountInv, Counts, CountsAreTrue
<1> QED
  BY <1>1, <1>2, <1>3, AlwaysAssign, PTL DEF Spec
=============================================================================
