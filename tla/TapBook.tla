------------------------------ MODULE TapBook -------------------------------
(***************************************************************************)
(* What the phones and the server promise about the taps of one door,      *)
(* whatever is lost, repeated or refused on the way.  The door shows the   *)
(* newest outcome it was given, by a tap or by a manager.  A tap reaches   *)
(* the door only once it is on record.  The representative who made it     *)
(* gets one verdict on it, which is true when it is given and never taken  *)
(* back.  The server may give up on a tap that is on record: it is then    *)
(* called saved, although the door may never have shown it.                *)
(***************************************************************************)
EXTENDS Naturals

CONSTANTS MaxTaps, MaxTime

Taps     == 1..MaxTaps
Times    == 1..MaxTime
Outcomes == {"sold", "other"}

VARIABLES
  said,      \* the outcome that each tap says, and when
  told,      \* the verdict on each tap
  recorded,  \* the taps on the server's record
  door,      \* the outcome that the door shows, and of when
  applied,   \* the taps that have reached the door
  givenUp    \* the taps whose repetition failed on the server

bookVars == <<said, told, recorded, door, applied, givenUp>>

Init ==
  /\ said = [t \in Taps |-> [outcome |-> "other", at |-> 0]]
  /\ told = [t \in Taps |-> "none"]
  /\ door = [outcome |-> "none", at |-> 0]
  /\ recorded = {} /\ applied = {} /\ givenUp = {}

\* Newer than what the door shows, or just that.
Wins(t) == door.at < said[t].at \/ door = said[t]

Made(t) == said[t].at > 0

\* A representative taps.
Make(t) ==
  /\ ~Made(t)
  /\ \E o \in Outcomes, at \in Times :
       said' = [said EXCEPT ![t] = [outcome |-> o, at |-> at]]
  /\ told' = [told EXCEPT ![t] = "waiting"]
  /\ UNCHANGED <<recorded, door, applied, givenUp>>

\* The tap arrives for the first time.
Record(t) ==
  /\ Made(t)
  /\ recorded' = recorded \cup {t}
  /\ UNCHANGED <<said, told, door, applied, givenUp>>

\* The tap reaches the door, or is repeated there.
Show(t) ==
  /\ t \in recorded /\ Wins(t)
  /\ door' = said[t]
  /\ applied' = applied \cup {t}
  /\ UNCHANGED <<said, told, recorded, givenUp>>

\* A tap that comes once more may meet a failure instead.
GiveUp(t) ==
  /\ t \in recorded
  /\ givenUp' = givenUp \cup {t}
  /\ UNCHANGED <<said, told, recorded, door, applied>>

\* A manager sets a newer outcome.
Overrule ==
  /\ \E o \in Outcomes, at \in Times :
       at > door.at /\ door' = [outcome |-> o, at |-> at]
  /\ UNCHANGED <<said, told, recorded, applied, givenUp>>

\* The verdict, once for each tap: a tap called saved has reached the door or was
\* given up, and one called superseded has met something as new.
Settle(t) ==
  /\ told[t] = "waiting"
  /\ \E v \in {"saved", "superseded", "dropped"} :
       /\ v = "saved" => t \in applied \cup givenUp
       /\ v = "superseded" => t \in recorded /\ door.at >= said[t].at
       /\ told' = [told EXCEPT ![t] = v]
  /\ UNCHANGED <<said, recorded, door, applied, givenUp>>

Next ==
  \/ \E t \in Taps : Make(t) \/ Record(t) \/ Show(t) \/ GiveUp(t) \/ Settle(t)
  \/ Overrule

Spec == Init /\ [][Next]_bookVars
=============================================================================
