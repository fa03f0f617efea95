------------------------------ MODULE Consent ------------------------------
(***************************************************************************)
(* What a gate in front of dangerous changes promises.  A request is       *)
(* judged once; if it needs leave, one decision is taken on it, by a       *)
(* second person unless the judgement allows its requester.  Only with     *)
(* leave is the change made, and only once.  The book says of a change     *)
(* what is true, and neither takes a judgement or a decision back nor      *)
(* says anything twice, whatever fails on the way.                         *)
(***************************************************************************)
EXTENDS Naturals

CONSTANTS Changes, People, Nobody

VARIABLES
  book,      \* what is written about each change
  made,      \* how often each change was made
  reversed   \* the changes that were reversed

gateVars == <<book, made, reversed>>

Blank == [stage |-> "none", by |-> Nobody, gate |-> "deny", self |-> FALSE,
          decider |-> Nobody, due |-> FALSE]

Init ==
  /\ book = [c \in Changes |-> Blank]
  /\ made = [c \in Changes |-> 0]
  /\ reversed = {}

\* The book is written, and nothing else happens.
Enter(c, entry) ==
  /\ book' = [book EXCEPT ![c] = entry]
  /\ UNCHANGED <<made, reversed>>

Verdicts == {[gate |-> "execute",  stage |-> "approved"],
             [gate |-> "approval", stage |-> "pending"],
             [gate |-> "deny",     stage |-> "rejected"]}

\* A person asks, and the rules of the moment say whether leave is needed.
Judge(c) ==
  /\ book[c].stage = "none"
  /\ \E u \in People, v \in Verdicts, self \in BOOLEAN :
       Enter(c, [stage |-> v.stage, by |-> u, gate |-> v.gate, self |-> self,
                 decider |-> Nobody, due |-> FALSE])

Fall(c) ==
  /\ book[c].stage = "pending"
  /\ Enter(c, [book[c] EXCEPT !.due = TRUE])

Approve(c) ==
  /\ book[c].stage = "pending"
  /\ \E u \in People :
       /\ book[c].self \/ u # book[c].by
       /\ Enter(c, [book[c] EXCEPT !.stage = "approved", !.decider = u])

Reject(c) ==
  /\ book[c].stage = "pending"
  /\ \E u \in People :
       Enter(c, [book[c] EXCEPT !.stage = "rejected", !.decider = u])

Lapse(c) ==
  /\ book[c].stage = "pending" /\ book[c].due
  /\ Enter(c, [book[c] EXCEPT !.stage = "expired"])

\* The change itself, which is never made twice.
Make(c) ==
  /\ book[c].stage = "approved" /\ made[c] = 0
  /\ made' = [made EXCEPT ![c] = 1]
  /\ UNCHANGED <<book, reversed>>

Executed(c) ==
  /\ book[c].stage = "approved" /\ made[c] = 1
  /\ Enter(c, [book[c] EXCEPT !.stage = "executed"])

Failed(c) ==
  /\ book[c].stage = "approved"
  /\ Enter(c, [book[c] EXCEPT !.stage = "failed"])

\* Only what the book shows as executed is reversed.
Reverse(c) ==
  /\ book[c].stage = "executed"
  /\ reversed' = reversed \cup {c}
  /\ UNCHANGED <<book, made>>

Undone(c) ==
  /\ book[c].stage = "executed" /\ c \in reversed
  /\ Enter(c, [book[c] EXCEPT !.stage = "undone"])

Next ==
  \E c \in Changes :
    \/ Judge(c) \/ Fall(c)     \/ Approve(c) \/ Reject(c)  \/ Lapse(c)
    \/ Make(c)  \/ Executed(c) \/ Failed(c)  \/ Reverse(c) \/ Undone(c)

Spec == Init /\ [][Next]_gateVars
=============================================================================
