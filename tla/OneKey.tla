------------------------------- MODULE OneKey -------------------------------
(***************************************************************************)
(* What one-time codes promise to an account, however many of them were    *)
(* issued: there is one key at most, the last one issued.  It opens one    *)
(* session, and it is gone when it has, when its time is over, when it was *)
(* missed too often, and when the next one is issued.  The sender of each  *)
(* key gets one verdict, which is true and never changes.                  *)
(***************************************************************************)
EXTENDS Naturals

CONSTANTS MaxKeys, MaxTries

Keys == 1..MaxKeys

VARIABLES
  newest,    \* the number of keys issued
  valid,     \* the newest key opens a session
  misses,    \* wrong keys tried since
  late,      \* the keys whose time is over
  opened,    \* the keys that opened a session
  verdict,   \* what became of each key's delivery
  active,    \* the account may be used
  idled      \* it could not be used at some time

keyVars == <<newest, valid, misses, late, opened, verdict, active, idled>>

Init ==
  /\ newest = 0 /\ valid = FALSE /\ misses = 0
  /\ late = {} /\ opened = {}
  /\ verdict = [k \in Keys |-> "none"]
  /\ active = TRUE /\ idled = FALSE

Gone == valid' = FALSE /\ misses' = 0

\* A new key, which makes the one before useless, delivered or not.
Issue ==
  /\ active /\ newest < MaxKeys
  /\ newest' = newest + 1 /\ valid' = TRUE /\ misses' = 0
  /\ verdict' = [k \in Keys |-> IF k = newest + 1 THEN "waiting"
                                ELSE IF verdict[k] = "waiting" THEN "superseded"
                                ELSE verdict[k]]
  /\ UNCHANGED <<late, opened, active, idled>>

\* The key is used up, whether the account may be used or not.
Use ==
  /\ valid /\ Gone
  /\ opened' = IF active THEN opened \cup {newest} ELSE opened
  /\ UNCHANGED <<newest, late, verdict, active, idled>>

Miss ==
  /\ valid
  /\ IF misses + 1 >= MaxTries THEN Gone ELSE valid' = TRUE /\ misses' = misses + 1
  /\ UNCHANGED <<newest, late, opened, verdict, active, idled>>

Expire(k) ==
  /\ k <= newest /\ k \notin late
  /\ late' = late \cup {k}
  /\ IF k = newest THEN Gone ELSE UNCHANGED <<valid, misses>>
  /\ UNCHANGED <<newest, opened, verdict, active, idled>>

Switch ==
  /\ active' = ~active /\ idled' = TRUE
  /\ UNCHANGED <<newest, valid, misses, late, opened, verdict>>

Honest(k, v) ==
  /\ v \in {"accepted", "failed", "expired", "superseded"}
  /\ v = "expired" => k \in late
  /\ v = "superseded" => k # newest \/ ~valid \/ idled

\* The verdicts on some keys, once for each.
Settle ==
  /\ \A k \in Keys : \/ verdict'[k] = verdict[k]
                     \/ verdict[k] = "waiting" /\ Honest(k, verdict'[k])
  /\ UNCHANGED <<newest, valid, misses, late, opened, active, idled>>

Next ==
  \/ Issue \/ Use \/ Miss \/ Switch \/ Settle
  \/ \E k \in Keys : Expire(k)

Spec == Init /\ [][Next]_keyVars
=============================================================================
