------------------------------ MODULE FrontDesk ------------------------------
(***************************************************************************)
(* What a desk in front of a slow and easily offended service promises.    *)
(* Whoever asks for the same thing waits for the same answer: nothing is   *)
(* in the line twice, or out and in the line.  The most urgent of the line *)
(* goes out first, never too many at a time, never too many in a while,    *)
(* never during a pause.  The line forgets nothing, and drops a question   *)
(* only if somebody who waits for its answer may wait no longer.           *)
(***************************************************************************)
EXTENDS Naturals, FiniteSets

CONSTANTS
  Askers,
  Questions,
  Urgencies,
  Ceiling,   \* questions out at a time
  Rate,      \* questions sent out in a while
  Room       \* questions in the line

VARIABLES
  asker,     \* what each asked, what came of it, and whether its time is up
  line,      \* the questions that wait, with their urgency
  out,       \* the questions that are out
  recent,    \* how many went out in the last while
  kept,      \* the questions whose answer is at hand
  paused

deskVars == <<asker, line, out, recent, kept, paused>>

Away(at)      == [at |-> at, key |-> CHOOSE k \in Questions : TRUE, over |-> FALSE]
Here(k, over) == [at |-> "waiting", key |-> k, over |-> over]

Init ==
  /\ asker = [c \in Askers |-> Away("none")]
  /\ line = [k \in {} |-> 0] /\ out = {} /\ recent = 0
  /\ kept = {} /\ paused = FALSE

\* All who wait for these questions hear the same.
Told(rows, ks, at) ==
  [c \in Askers |-> IF rows[c].at = "waiting" /\ rows[c].key \in ks
                    THEN Away(at) ELSE rows[c]]

\* The desk goes through line l, while the questions in o are out.
Work(rows, l, o) ==
  \E start \in SUBSET DOMAIN l : \E drop \in SUBSET (DOMAIN l \ start) :
    LET stay == DOMAIN l \ (start \cup drop) IN
    /\ \A k \in drop : \E c \in Askers :
         rows[c].at = "waiting" /\ rows[c].key = k /\ rows[c].over
    /\ \A k \in start, j \in stay : l[k] >= l[j]
    /\ paused' => start = {}
    /\ Cardinality(o \cup start) <= Ceiling
    /\ recent + Cardinality(start) <= Rate
    /\ out' = o \cup start
    /\ line' = [k \in stay |-> l[k]]
    /\ recent' = recent + Cardinality(start)
    /\ asker' = Told(rows, drop, "refused")

New(c) == asker[c].at = "none"

\* Answered from what is at hand, or sent away.
Turn(c) ==
  /\ New(c)
  /\ \E at \in {"refused"} \cup IF kept = {} THEN {} ELSE {"answered"} :
       asker' = [asker EXCEPT ![c] = Away(at)]
  /\ UNCHANGED <<line, out, recent, kept, paused>>

\* To a question that is known already one lends one's urgency.
Join(c, k, p) ==
  /\ New(c) /\ k \in DOMAIN line \cup out /\ k \notin kept
  /\ asker' = [asker EXCEPT ![c] = Here(k, FALSE)]
  /\ line' = [j \in DOMAIN line |-> IF j = k /\ p > line[j] THEN p ELSE line[j]]
  /\ UNCHANGED <<out, recent, kept, paused>>

Enter(c, k, p) ==
  /\ New(c) /\ k \notin DOMAIN line \cup out \cup kept
  /\ Cardinality(DOMAIN line) < Room
  /\ Work([asker EXCEPT ![c] = Here(k, FALSE)],
          [j \in DOMAIN line \cup {k} |-> IF j = k THEN p ELSE line[j]], out)
  /\ UNCHANGED <<kept, paused>>

\* An answer comes, and may be kept.
Hear(k) ==
  /\ k \in out
  /\ Work(Told(asker, {k}, "answered"), line, out \ {k})
  /\ kept' \in {kept, kept \cup {k}}
  /\ UNCHANGED paused

Go   == Work(asker, line, out) /\ UNCHANGED <<kept, paused>>
Lift == Work(asker, line, out) /\ paused' = FALSE /\ UNCHANGED kept

Pause ==
  /\ paused' = TRUE
  /\ UNCHANGED <<asker, line, out, recent, kept>>

\* One's time is up, and one may leave.
Over(c) ==
  /\ asker[c].at = "waiting"
  /\ asker' = [asker EXCEPT ![c] = Here(asker[c].key, TRUE)]
  /\ UNCHANGED <<line, out, recent, kept, paused>>

Leave(c) ==
  /\ asker[c].at = "waiting" /\ asker[c].over
  /\ asker' = [asker EXCEPT ![c] = Away("refused")]
  /\ UNCHANGED <<line, out, recent, kept, paused>>

Tick ==
  /\ recent > 0 /\ recent' = recent - 1
  /\ UNCHANGED <<asker, line, out, kept, paused>>

Forget(k) ==
  /\ kept' = kept \ {k}
  /\ UNCHANGED <<asker, line, out, recent, paused>>

Next ==
  \/ Go \/ Lift \/ Pause \/ Tick
  \/ \E c \in Askers : Turn(c) \/ Over(c) \/ Leave(c)
  \/ \E c \in Askers, k \in Questions, p \in Urgencies : Join(c, k, p) \/ Enter(c, k, p)
  \/ \E k \in Questions : Hear(k) \/ Forget(k)

Spec == Init /\ [][Next]_deskVars
=============================================================================
