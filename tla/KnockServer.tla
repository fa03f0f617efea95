---------------------------- MODULE KnockServer ----------------------------
(***************************************************************************)
(* POST /api/leads/:id/knock (server/routes.ts) and what it writes: the    *)
(* knock_log row of a tap, the outcome of its door, the door's sale and    *)
(* its commissions.  Doors share nothing, so the state is about one.       *)
(*                                                                         *)
(* A tap is told apart by the clientId the phone gave it.  The handler     *)
(* never awaits, but each of its statements commits by itself, except for  *)
(* the "money bundle", which is one immediate transaction.  Calls served   *)
(* by different processes of the cluster interleave between statements,    *)
(* and a process may die there.                                            *)
(***************************************************************************)
EXTENDS Naturals

CONSTANTS
  Phones,       \* the representatives' phones
  Nobody,       \* the phone of a call nobody waits for
  Reps,         \* the representatives a knock may credit
  MaxTaps,      \* bound: taps on this door
  Credits,      \* whom the n-th tap may credit: a manager may log for any rep
  MaxTime,      \* bound: the moments a tap or a manager's mark may carry
  MaxCalls,     \* bound: calls under way at the same time
  FaultBudget   \* bound: refusals, failures, losses and interruptions

ASSUME KnockAssumption ==
  /\ Nobody \notin Phones
  /\ MaxTaps \in Nat /\ MaxTime \in Nat /\ MaxCalls \in Nat
  /\ FaultBudget \in Nat
  /\ Credits \in [1..MaxTaps -> SUBSET Reps]

Taps     == 1..MaxTaps
Calls    == 1..MaxCalls
Times    == 1..MaxTime
Outcomes == {"sold", "other"}

VARIABLES
  taps,     \* what was tapped: on which phone, for whom, the outcome, knockedAt
  row,      \* the knock_log row of a tap, by its superseded column
  door,     \* last_outcome and last_outcome_at of the lead
  sale,     \* the door's commission_sales row: its status and its rep
  dues,     \* the commissions rows: the knock each cites and its status
  call,     \* the requests under way, with the flush that waits for each
  applied,  \* history: the taps whose bundle won the door
  unhealed, \* history: the taps whose repetition failed
  faults    \* faults so far

books  == <<row, door, sale, dues, applied, unhealed>>
server == <<taps, books, call, faults>>

NoTap  == [phone |-> Nobody, rep |-> Nobody, outcome |-> "other", at |-> 0]
NoCall == [st |-> "idle", tap |-> 0, phone |-> Nobody, idx |-> 0,
           fresh |-> FALSE, ans |-> "none"]

\* What a call may be answered with, as knockFailurePolicy tells it apart.
Refusals == {"auth", "forbidden", "terminal"}
Answers  == {"applied", "superseded", "error"} \cup Refusals

DueStates == {"pending", "approved", "paid"}

ServerTypeOK ==
  /\ taps \in [Taps -> [phone : Phones \cup {Nobody}, rep : Reps \cup {Nobody},
                        outcome : Outcomes, at : Times \cup {0}]]
  /\ row \in [Taps -> {"none", "unmarked", "applied", "superseded"}]
  /\ door \in [outcome : Outcomes \cup {"none"}, at : Times \cup {0}]
  /\ sale \in [st : {"none", "QUALIFIED", "PENDING", "REVERSED"},
              rep : Reps \cup {Nobody}]
  /\ dues \subseteq Taps \X DueStates
  /\ call \in [Calls -> [st : {"idle", "sent", "insert", "bundle", "mark",
                               "heal", "remark", "answered"},
                         tap : Taps \cup {0}, phone : Phones \cup {Nobody},
                         idx : Nat, fresh : BOOLEAN,
                         ans : Answers \cup {"none"}]]
  /\ applied \subseteq Taps /\ unhealed \subseteq Taps
  /\ faults \in 0..FaultBudget

ServerInit ==
  /\ taps = [t \in Taps |-> NoTap]
  /\ row = [t \in Taps |-> "none"]
  /\ door = [outcome |-> "none", at |-> 0]
  /\ sale = [st |-> "none", rep |-> Nobody] /\ dues = {}
  /\ call = [c \in Calls |-> NoCall]
  /\ applied = {} /\ unhealed = {} /\ faults = 0

Fault == faults < FaultBudget /\ faults' = faults + 1

-----------------------------------------------------------------------------
(* The money bundle (runMoneyBundle).                                      *)

\* Mutant: whoever comes last wins.
WinsAlways(t) == TRUE

\* applyKnockOutcomeCas: newer than what the door shows, or that very knock.
Wins(t) ==
  \/ door.at < taps[t].at
  \/ door = [outcome |-> taps[t].outcome, at |-> taps[t].at]

\* Mutant: an approved commission does not count.
OutstandingPending == {d \in dues : d[2] = "pending"}

\* LIVE_COMMISSION_STATUSES: what is owed and not paid yet.
Outstanding == {d \in dues : d[2] \in {"pending", "approved"}}

\* SALE_CREDIT_LOCKED: upsertSale throws when the row, whatever became of it,
\* was booked for somebody else; recordFieldSaleFromKnock looks out for that
\* only while the sale is qualified.
Throws(t) ==
  /\ taps[t].outcome = "sold"
  /\ sale.st \in {"PENDING", "REVERSED"} /\ sale.rep # taps[t].rep

\* recordFieldSaleFromKnock: a qualified sale is frozen; a sale in a week
\* that is already final is booked PENDING.  createCommission follows unless
\* one is outstanding for the door.
Book(t) ==
  /\ IF sale.st = "QUALIFIED" THEN sale' = sale
     ELSE sale' \in [st : {"QUALIFIED", "PENDING"}, rep : {taps[t].rep}]
  /\ dues' = IF Outstanding = {} THEN dues \cup {<<t, "pending">>} ELSE dues

\* reverseFieldSale, and the commissions nobody has approved yet.
Unbook ==
  /\ sale' = IF sale.st = "none" THEN sale ELSE [sale EXCEPT !.st = "REVERSED"]
  /\ dues' = {d \in dues : d[2] # "pending"}

\* The transaction.  It reports whether the knock lost to a newer outcome.
MoneyBundle(t) ==
  \/ /\ Wins(t) /\ ~Throws(t)
     /\ door' = [outcome |-> taps[t].outcome, at |-> taps[t].at]
     /\ applied' = applied \cup {t}
     /\ IF taps[t].outcome = "sold" THEN Book(t) ELSE Unbook
  \/ /\ ~Wins(t)
     /\ UNCHANGED <<door, applied, sale, dues>>

-----------------------------------------------------------------------------
(* The handler.                                                            *)

At(c, st) == call[c].st = st

GoTo(c, st) == call' = [call EXCEPT ![c].st = st]

\* An answer nobody waits for is gone.
Answered(c, a) ==
  call' = [call EXCEPT ![c] =
             IF @.phone = Nobody THEN NoCall
             ELSE [@ EXCEPT !.st = "answered", !.ans = a]]

\* Sign-in, scope, do-not-knock and tenant walls, all before the lookup; or
\* a proxy that answers for a server that is restarting.
Refuse(c) ==
  /\ At(c, "sent") /\ Fault
  /\ \E a \in Refusals \cup {"error"} : Answered(c, a)
  /\ UNCHANGED <<taps, books>>

\* getKnockByClientId.  A repeated knock remembers the verdict on its row.
Lookup(c) ==
  /\ At(c, "sent")
  /\ LET w == row[call[c].tap]
     IN IF w = "none" THEN GoTo(c, "insert")
        ELSE call' = [call EXCEPT
               ![c].st = "heal",
               ![c].ans = IF w = "superseded" THEN w ELSE "applied"]
  /\ UNCHANGED <<taps, books, faults>>

\* createKnock; the unique index on client_id refuses a second row.
Insert(c) ==
  /\ At(c, "insert")
  /\ IF row[call[c].tap] = "none"
     THEN /\ row' = [row EXCEPT ![call[c].tap] = "unmarked"]
          /\ GoTo(c, "bundle")
     ELSE row' = row /\ Answered(c, "error")
  /\ UNCHANGED <<taps, door, sale, dues, applied, unhealed, faults>>

\* Mutant: a failed bundle is logged and the knock is answered all the same.
FailedAnyway(c) == Answered(c, "applied")

\* 503: "Could not apply the outcome - retry".
Failed(c) == Answered(c, "error")

\* The bundle is rolled back as a whole.
RolledBack(t) == Wins(t) /\ Throws(t)

Verdict(t) == IF Wins(t) THEN "applied" ELSE "superseded"

\* The first pass: the bundle, and then the superseded column.  A winner for
\* whose money no organization is found is turned away for good.
Bundle(c) ==
  /\ At(c, "bundle")
  /\ \/ /\ MoneyBundle(call[c].tap)
        /\ call' = [call EXCEPT ![c].st = "mark",
                                ![c].ans = Verdict(call[c].tap)]
        /\ faults' = faults
     \/ /\ IF RolledBack(call[c].tap) THEN faults' = faults ELSE Fault
        /\ Failed(c)
        /\ UNCHANGED <<door, sale, dues, applied>>
     \/ /\ Wins(call[c].tap) /\ Fault
        /\ Answered(c, "terminal")
        /\ UNCHANGED <<door, sale, dues, applied>>
  /\ UNCHANGED <<taps, row, unhealed>>

\* A repeated knock runs the bundle again, and writes the column only when
\* the verdict differs from the one it read on the row.
Heal(c) ==
  /\ At(c, "heal")
  /\ MoneyBundle(call[c].tap)
  /\ IF Verdict(call[c].tap) = call[c].ans THEN Answered(c, call[c].ans)
     ELSE GoTo(c, "remark")
  /\ UNCHANGED <<taps, row, unhealed, faults>>

Other(verdict) == IF verdict = "applied" THEN "superseded" ELSE "applied"

\* The new verdict goes to the row and into the answer.
Remark(c) ==
  /\ At(c, "remark")
  /\ row' = [row EXCEPT ![call[c].tap] = Other(call[c].ans)]
  /\ Answered(c, Other(call[c].ans))
  /\ UNCHANGED <<taps, door, sale, dues, applied, unhealed, faults>>

\* Whatever is thrown by the repeated bundle or by that write, a refusal of the
\* money or a failure of any tap, is logged, and the answer is 200 with the verdict
\* read on the row.  It is never asked for again, so it needs no budget.
HealFails(c) ==
  /\ call[c].st \in {"heal", "remark"}
  /\ unhealed' = unhealed \cup {call[c].tap}
  /\ Answered(c, call[c].ans)
  /\ UNCHANGED <<taps, row, door, sale, dues, applied, faults>>

\* The superseded column.
Mark(c) ==
  /\ At(c, "mark")
  /\ row' = [row EXCEPT ![call[c].tap] = call[c].ans]
  /\ Answered(c, call[c].ans)
  /\ UNCHANGED <<taps, door, sale, dues, applied, unhealed, faults>>

\* The process dies between two statements; the phone sees a network error.
Die(c) ==
  /\ call[c].st \in {"sent", "insert", "bundle", "mark", "heal", "remark"} /\ Fault
  /\ Answered(c, "error")
  /\ UNCHANGED <<taps, books>>

Serve(c) ==
  \/ Lookup(c) \/ Insert(c) \/ Bundle(c) \/ Mark(c)
  \/ Heal(c) \/ Remark(c) \/ HealFails(c)

-----------------------------------------------------------------------------
(* Managers.  central-disposition, bulk-status and PATCH /api/leads/:id    *)
(* set the outcome and its time without a knock and without touching the   *)
(* money.  Their time is the server's, and no phone's clock is ahead of it *)
(* here.  Approving and paying a commission, and reversing a sale, are     *)
(* decisions of their own.                                                 *)

Overrule ==
  /\ \E o \in Outcomes, at \in Times :
       at > door.at /\ door' = [outcome |-> o, at |-> at]
  /\ UNCHANGED <<taps, row, sale, dues, applied, call, unhealed,
                 faults>>

Approve(t) ==
  /\ <<t, "pending">> \in dues
  /\ dues' = (dues \ {<<t, "pending">>}) \cup {<<t, "approved">>}
  /\ UNCHANGED <<taps, row, door, sale, applied, call, unhealed,
                 faults>>

Pay(t) ==
  /\ <<t, "approved">> \in dues
  /\ dues' = (dues \ {<<t, "approved">>}) \cup {<<t, "paid">>}
  /\ UNCHANGED <<taps, row, door, sale, applied, call, unhealed,
                 faults>>

ReverseSale ==
  /\ sale.st \in {"QUALIFIED", "PENDING"}
  /\ sale' = [sale EXCEPT !.st = "REVERSED"]
  /\ UNCHANGED <<taps, row, door, dues, applied, call, unhealed,
                 faults>>

ServerNext ==
  \/ \E c \in Calls : Serve(c) \/ Refuse(c) \/ Die(c)
  \/ Overrule \/ ReverseSale
  \/ \E t \in Taps : Approve(t) \/ Pay(t)

=============================================================================
