----------------------------- MODULE KnockSync -----------------------------
(***************************************************************************)
(* Door knocks from the tap to the books: the offline queue of each phone  *)
(* (client/src/lib/knockQueue.ts, with the failure policy of               *)
(* features/knocking/knockFailurePolicy.ts) over the server of             *)
(* KnockServer.                                                            *)
(*                                                                         *)
(* A tap is persisted before anything else happens to it.  One flush at a  *)
(* time walks through the pending taps that are due and awaits a post for  *)
(* each.  Losing the session or the page makes a running flush stale: it   *)
(* goes on at its await, and must then touch nothing.                      *)
(***************************************************************************)
EXTENDS KnockServer, Sequences, SequencesExt

CONSTANT MaxAttempts  \* KNOCK_QUEUE_MAX_ATTEMPTS

ASSUME AttemptsAssumption == MaxAttempts \in Nat \ {0}

VARIABLES
  pending,    \* the pending lane of each phone, in order
  dead,       \* the taps in its dead lane, in order
  inflight,   \* is a flush running?
  suspended,  \* has the phone no valid session?
  told        \* what the representative was told of a tap

phones == <<pending, dead, inflight, suspended, told>>
vars   == <<server, phones>>

Waiting == "waiting"

TypeOK ==
  /\ ServerTypeOK
  /\ pending \in [Phones -> Seq([tap : Taps, attempts : 0..MaxAttempts,
                                 due : BOOLEAN])]
  /\ dead \in [Phones -> Seq(Taps)]
  /\ inflight \in [Phones -> BOOLEAN]
  /\ suspended \in [Phones -> BOOLEAN]
  /\ told \in [Taps -> {"none", Waiting, "saved", "superseded", "dropped"}]

Init ==
  /\ ServerInit
  /\ pending = [p \in Phones |-> <<>>]
  /\ dead = [p \in Phones |-> <<>>]
  /\ inflight = [p \in Phones |-> FALSE]
  /\ suspended = [p \in Phones |-> FALSE]
  /\ told = [t \in Taps |-> "none"]

-----------------------------------------------------------------------------
(* The two lanes of one phone.                                             *)

Item(t, n) == [tap |-> t, attempts |-> n, due |-> TRUE]

Tries(n) == IF n < MaxAttempts THEN n + 1 ELSE n

\* autoSweep: every parked tap gets one more attempt.
Swept(q, d) ==
  q \o [i \in 1..Len(d) |-> Item(d[i], MaxAttempts - 1)]

\* retryDead: a parked tap starts over.
Revived(q, d) == q \o [i \in 1..Len(d) |-> Item(d[i], 0)]

DueFrom(q, i) == {j \in i..Len(q) : q[j].due}

\* The loop of flush from position i on: post the next tap that is due and
\* await the answer in call c, or end the flush.
Walk(c, p, q, i) ==
  LET due == DueFrom(q, i)
      j   == CHOOSE k \in due : \A l \in due : k <= l
  IN IF due = {}
     THEN /\ call' = [call EXCEPT ![c] = NoCall]
          /\ inflight' = [inflight EXCEPT ![p] = FALSE]
     ELSE /\ call' = [call EXCEPT ![c] =
                        [st |-> "sent", tap |-> q[j].tap, phone |-> p,
                         idx |-> j, fresh |-> TRUE, ans |-> "none"]]
          /\ inflight' = [inflight EXCEPT ![p] = TRUE]

\* Mutant: the flag stays up when the loop is left by break.
StopKeepsFlag(c, p) ==
  call' = [call EXCEPT ![c] = NoCall] /\ UNCHANGED inflight

\* The loop is left by break.
Stop(c, p) ==
  /\ call' = [call EXCEPT ![c] = NoCall]
  /\ inflight' = [inflight EXCEPT ![p] = FALSE]

-----------------------------------------------------------------------------
(* Taps and sweeps.                                                        *)

\* stage
Tap(p, o) ==
  /\ ~suspended[p]
  /\ \E t \in Taps, at \in Times : \E rep \in Credits[t] :
       /\ taps[t].at = 0
       /\ \A u \in Taps : u < t => taps[u].at > 0
       /\ taps' = [taps EXCEPT ![t] = [phone |-> p, rep |-> rep,
                                       outcome |-> o, at |-> at]]
       /\ pending' = [pending EXCEPT ![p] = Append(@, Item(t, 0))]
       /\ told' = [told EXCEPT ![t] = Waiting]
  /\ UNCHANGED <<books, call, faults, dead, inflight, suspended>>

\* A recovery signal, and the cooldown of the sweep is over: the browser is
\* online again, the app is looked at again, a request of another part of the
\* app succeeded.
Recover(p) ==
  /\ ~suspended[p] /\ dead[p] # <<>>
  /\ pending' = [pending EXCEPT ![p] = Swept(@, dead[p])]
  /\ dead' = [dead EXCEPT ![p] = <<>>]
  /\ UNCHANGED <<server, inflight, suspended, told>>

\* The representative presses Retry.
RetryDead(p) ==
  /\ ~suspended[p] /\ dead[p] # <<>>
  /\ pending' = [pending EXCEPT ![p] = Revived(@, dead[p])]
  /\ dead' = [dead EXCEPT ![p] = <<>>]
  /\ UNCHANGED <<server, inflight, suspended, told>>

-----------------------------------------------------------------------------
(* The flush.                                                              *)

Idle(c) == call[c] = NoCall

\* A call slot for a new flush.
StartFlush(p) ==
  /\ ~inflight[p] /\ ~suspended[p] /\ DueFrom(pending[p], 1) # {}
  /\ \E c \in Calls : Idle(c)
  /\ LET c == CHOOSE d \in Calls : Idle(d) /\ \A e \in Calls : Idle(e) => d <= e
     IN Walk(c, p, pending[p], 1)
  /\ UNCHANGED <<taps, books, faults, pending, dead, suspended, told>>

Hears(c, answers) ==
  /\ call[c].st = "answered" /\ call[c].ans \in answers
  /\ call[c].phone # Nobody /\ call[c].fresh

\* The knock is recorded.  That is a recovery signal too; whether the cooldown
\* of the sweep is over is any choice.
HearSaved(c) ==
  /\ Hears(c, {"applied", "superseded"})
  /\ LET p == call[c].phone
         i == call[c].idx
         q == RemoveAt(pending[p], i)
     IN /\ told' = [told EXCEPT ![call[c].tap] =
                      IF call[c].ans = "applied" THEN "saved"
                      ELSE "superseded"]
        /\ \E d \in {<<>>, dead[p]} :
             /\ pending' = [pending EXCEPT ![p] = Swept(q, d)]
             /\ dead' = IF d = <<>> THEN dead ELSE [dead EXCEPT ![p] = <<>>]
             /\ Walk(c, p, Swept(q, d), i)
  /\ UNCHANGED <<taps, books, faults, suspended>>

\* resolveTerminal: the server will never take it.
HearTerminal(c) ==
  /\ Hears(c, {"terminal"})
  /\ LET p == call[c].phone
         i == call[c].idx
         q == RemoveAt(pending[p], i)
     IN /\ told' = [told EXCEPT ![call[c].tap] = "dropped"]
        /\ pending' = [pending EXCEPT ![p] = q]
        /\ Walk(c, p, q, i)
  /\ UNCHANGED <<taps, books, faults, dead, suspended>>

\* The item waits for its backoff; n attempts are on it now.
Defer(c, n) ==
  LET p == call[c].phone
  IN /\ pending' = [pending EXCEPT ![p][call[c].idx] =
                      [@ EXCEPT !.attempts = n, !.due = FALSE]]
     /\ Stop(c, p)

Attempts(c) == pending[call[c].phone][call[c].idx].attempts

\* The session ran out: the tap is fine and keeps its attempts.
HearAuth(c) ==
  /\ Hears(c, {"auth"})
  /\ Defer(c, Attempts(c))
  /\ UNCHANGED <<taps, books, faults, dead, suspended, told>>

\* 403: soon after a transient failure, which is any choice, it counts for
\* nothing; else it is one of MaxAttempts, after which the tap is parked and
\* the line moves on.
HearForbidden(c) ==
  /\ Hears(c, {"forbidden"})
  /\ LET p == call[c].phone
         i == call[c].idx
         n == Tries(Attempts(c))
     IN \/ Defer(c, Attempts(c)) /\ dead' = dead
        \/ n < MaxAttempts /\ Defer(c, n) /\ dead' = dead
        \/ /\ n >= MaxAttempts
           /\ pending' = [pending EXCEPT ![p] = RemoveAt(@, i)]
           /\ dead' = [dead EXCEPT ![p] = Append(@, call[c].tap)]
           /\ Walk(c, p, RemoveAt(pending[p], i), i)
  /\ UNCHANGED <<taps, books, faults, suspended, told>>

\* The network, a timeout, 429 or 5xx.
HearError(c) ==
  /\ Hears(c, {"error"})
  /\ Defer(c, Tries(Attempts(c)))
  /\ UNCHANGED <<taps, books, faults, dead, suspended, told>>

\* The deadline of the request passes, or its answer is lost; whoever
\* serves it goes on.
LoseAnswer(c) ==
  /\ call[c].phone # Nobody /\ call[c].fresh /\ Fault
  /\ LET p == call[c].phone
     IN /\ pending' = [pending EXCEPT ![p][call[c].idx] =
                         [@ EXCEPT !.attempts = Tries(Attempts(c)), !.due = FALSE]]
        /\ inflight' = [inflight EXCEPT ![p] = FALSE]
  /\ call' = [call EXCEPT ![c] =
                IF @.st = "answered" THEN NoCall
                ELSE [@ EXCEPT !.phone = Nobody, !.idx = 0, !.fresh = FALSE]]
  /\ UNCHANGED <<taps, books, dead, suspended, told>>

\* Mutant: the flush that ends clears the flag, whoever set it.
ClearsAlways(c) == TRUE

\* finally: only the flush of the current run clears the flag.
ClearsFlag(c) == call[c].fresh

\* A flush whose run is over ends at its await, and touches nothing.
EndStale(c) ==
  /\ call[c].phone # Nobody /\ ~call[c].fresh
  /\ inflight' = IF ClearsFlag(c)
                 THEN [inflight EXCEPT ![call[c].phone] = FALSE]
                 ELSE inflight
  /\ call' = [call EXCEPT ![c] =
                IF @.st = "answered" THEN NoCall
                ELSE [@ EXCEPT !.phone = Nobody, !.idx = 0]]
  /\ UNCHANGED <<taps, books, faults, pending, dead, suspended, told>>

Hear(c) ==
  \/ HearSaved(c) \/ HearTerminal(c) \/ HearAuth(c) \/ HearForbidden(c)
  \/ HearError(c) \/ EndStale(c)

-----------------------------------------------------------------------------
(* Sessions, pages and time.                                               *)

\* runVersion++
Outdated(p) ==
  [c \in Calls |-> IF call[c].phone = p
                   THEN [call[c] EXCEPT !.fresh = FALSE] ELSE call[c]]

\* suspend: the session is gone and its requests are aborted.
Suspend(p) ==
  /\ ~suspended[p] /\ Fault
  /\ suspended' = [suspended EXCEPT ![p] = TRUE]
  /\ inflight' = [inflight EXCEPT ![p] = FALSE]
  /\ call' = Outdated(p)
  /\ UNCHANGED <<taps, books, pending, dead, told>>

\* resume: the same representative signs in again.
Resume(p) ==
  /\ suspended[p]
  /\ suspended' = [suspended EXCEPT ![p] = FALSE]
  /\ inflight' = [inflight EXCEPT ![p] = FALSE]
  /\ call' = Outdated(p)
  /\ UNCHANGED <<taps, books, faults, pending, dead, told>>

\* The page is closed and opened again: both lanes come back from storage,
\* the requests are on their own, and the parked taps are swept.
Reload(p) ==
  /\ ~suspended[p] /\ Fault
  /\ pending' = [pending EXCEPT ![p] = Swept(@, dead[p])]
  /\ dead' = [dead EXCEPT ![p] = <<>>]
  /\ inflight' = [inflight EXCEPT ![p] = FALSE]
  /\ call' = [c \in Calls |->
                IF call[c].phone # p THEN call[c]
                ELSE IF call[c].st = "answered" THEN NoCall
                ELSE [call[c] EXCEPT !.phone = Nobody, !.idx = 0,
                                     !.fresh = FALSE]]
  /\ UNCHANGED <<taps, books, suspended, told>>

BackoffElapses(p) ==
  /\ \E i \in 1..Len(pending[p]) :
       /\ ~pending[p][i].due
       /\ pending' = [pending EXCEPT ![p][i].due = TRUE]
  /\ UNCHANGED <<server, dead, inflight, suspended, told>>

-----------------------------------------------------------------------------
Next ==
  \/ ServerNext /\ UNCHANGED phones
  \/ \E c \in Calls : Hear(c) \/ LoseAnswer(c)
  \/ \E p \in Phones :
       \/ \E o \in Outcomes : Tap(p, o)
       \/ Recover(p) \/ RetryDead(p) \/ StartFlush(p)
       \/ Suspend(p) \/ Resume(p) \/ Reload(p)
       \/ BackoffElapses(p)

Spec == Init /\ [][Next]_vars

FairSpec ==
  /\ Spec
  /\ \A c \in Calls : WF_vars(Serve(c) /\ UNCHANGED phones) /\ WF_vars(Hear(c))
  /\ \A p \in Phones :
       /\ WF_vars(StartFlush(p)) /\ WF_vars(BackoffElapses(p))
       /\ WF_vars(Resume(p)) /\ WF_vars(Recover(p))

-----------------------------------------------------------------------------
\* What a tap says of the door.
Said == [t \in Taps |-> [outcome |-> taps[t].outcome, at |-> taps[t].at]]

\* The taps that have a knock_log row.
Recorded == {t \in Taps : row[t] # "none"}

TheBook == INSTANCE TapBook
             WITH said <- Said, recorded <- Recorded, givenUp <- unhealed

-----------------------------------------------------------------------------
(* Properties.                                                             *)

\* Phones and server together keep the book of TapBook: one true verdict on each
\* tap, given once, and a door that only a newer outcome changes, whatever is
\* lost, repeated, reordered or cut off between them.
ImplementsTapBook == TheBook!Spec

Places(p, t) ==
  {<<"pending", i>> : i \in {j \in 1..Len(pending[p]) : pending[p][j].tap = t}}
  \cup {<<"dead", i>> : i \in {j \in 1..Len(dead[p]) : dead[p][j] = t}}

\* A tap is never lost and never queued twice: until its representative is
\* told what became of it, it is in exactly one place of one lane of the
\* phone it was made on; afterwards it is in none.
TapsAreKept ==
  TypeOK /\ \A p \in Phones, t \in Taps :
    IF told[t] = Waiting /\ taps[t].phone = p
    THEN \E x \in Places(p, t) : Places(p, t) = {x}
    ELSE Places(p, t) = {}

\* What the representative is told is true: a tap shown as saved is on the server's
\* record and has won its door and its money there, unless it was repeated and
\* that repetition failed; one shown as superseded is on record and met an
\* outcome at least as new.
VerdictsAreTrue ==
  \A t \in Taps :
    /\ told[t] = "saved" => row[t] # "none" /\ t \in applied \cup unhealed
    /\ told[t] = "superseded" => row[t] # "none" /\ door.at >= taps[t].at

\* However late and in whatever order taps arrive, an older one never takes
\* the door back from a newer one or from a manager.
NewestTapWins ==
  \A t \in applied :
    \/ door.at > taps[t].at
    \/ door = [outcome |-> taps[t].outcome, at |-> taps[t].at]

Newest == {t \in applied : \A u \in applied : taps[u].at <= taps[t].at}

\* The money follows the newest knock: one unpaid commission for a door at
\* most; none to come and no sale to count once it was un-sold; and a door
\* that was sold has its sale and its commission.
MoneyFollowsKnocks ==
  /\ \A d, e \in dues : d[2] # "paid" /\ e[2] # "paid" => d = e
  /\ \A t \in Newest :
       IF taps[t].outcome = "sold"
       THEN sale.st # "none" /\ dues # {}
       ELSE /\ sale.st \in {"none", "REVERSED"}
            /\ \A d \in dues : d[2] # "pending"

\* Every tap is settled in the end: the representative learns that it was
\* saved, superseded or dropped.
EveryTapSettles ==
  \A t \in Taps : told[t] = Waiting ~> told[t] # Waiting

\* No money guard fails a knock: a tap shown as saved has reached the door.
KnocksAreNeverFailed == \A t \in Taps : told[t] = "saved" => t \in applied

\* One knock earns one commission, however often the phone repeats it.
OneCommissionPerKnock ==
  \A d, e \in dues : d[1] = e[1] => d = e

\* Only a knock that was not applied before brings a reversed sale back.
ReversalStands ==
  [][sale.st = "REVERSED" /\ sale'.st \in {"QUALIFIED", "PENDING"}
       => applied' # applied]_vars

=============================================================================
