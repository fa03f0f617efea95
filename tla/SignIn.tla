------------------------------- MODULE SignIn -------------------------------
(***************************************************************************)
(* One-time sign-in codes of one account and their mail: a request burns   *)
(* the codes before it and queues a delivery (server/otpDeliveryStore.ts), *)
(* drains claim deliveries under a lease, mail them through Resend and     *)
(* settle them (server/otpDeliveryWorker.ts), and the account holder       *)
(* verifies a code (verifyOtp in server/storage.ts).                       *)
(*                                                                         *)
(* Claiming, settling, retiring, requesting and verifying are immediate    *)
(* transactions; a worker holds nothing but its job between them, and may  *)
(* die or outlive its lease anywhere.  Times are flags that Wait and       *)
(* Expire raise.  The rate limits in front of the routes, encryption that  *)
(* fails, the operator's discard and the deletion of old rows are left     *)
(* out.                                                                    *)
(***************************************************************************)
EXTENDS Naturals, FiniteSets

CONSTANTS
  MaxCodes,     \* bound: requests for a code
  Workers,      \* processes that drain the deliveries
  MaxAttempts,  \* OTP_DELIVERY_ATTEMPTS (5)
  MaxMisses     \* wrong codes that burn one (5)

ASSUME SignInAssumption ==
  /\ MaxCodes \in Nat
  /\ MaxAttempts \in Nat \ {0} /\ MaxMisses \in Nat \ {0}

Codes == 1..MaxCodes

VARIABLES
  issued,    \* codes issued; code c is the c-th row of otp_codes
  code,      \* otp_codes
  mail,      \* auth_delivery_outbox, one row for each code
  active,    \* users.active
  worker,    \* the drains
  idled,     \* history: the account has been inactive
  opened     \* history: codes that opened a session

history == <<idled, opened>>
vars    == <<issued, code, mail, active, worker, history>>

Open  == {"pending", "processing"}
Final == {"accepted", "failed", "expired", "superseded"}

\* misses: failed_attempts.
CodeRow == [used : BOOLEAN, live : BOOLEAN, misses : 0..MaxMisses]

\* ready: next_attempt_at of a pending row, or lease_until of a processing one,
\* has passed.  The lease token is the number of the attempt: every claim makes
\* a new one and counts one.
MailRow == [status : {"none"} \cup Open \cup Final, attempts : 0..MaxAttempts,
            ready : BOOLEAN]

NoCode == [used |-> FALSE, live |-> TRUE, misses |-> 0]
NoMail == [status |-> "none", attempts |-> 0, ready |-> FALSE]
NoJob  == [at |-> "idle", code |-> 0, attempt |-> 0]

TypeOK ==
  /\ issued \in 0..MaxCodes
  /\ code \in [Codes -> CodeRow] /\ mail \in [Codes -> MailRow]
  /\ active \in BOOLEAN
  /\ worker \in [Workers -> [at : {"idle", "claim", "check", "send"},
                             code : 0..MaxCodes, attempt : 0..MaxAttempts]]
  /\ idled \in BOOLEAN /\ opened \subseteq Codes

Init ==
  /\ issued = 0
  /\ code = [c \in Codes |-> NoCode] /\ mail = [c \in Codes |-> NoMail]
  /\ active = TRUE
  /\ worker = [w \in Workers |-> NoJob]
  /\ idled = FALSE /\ opened = {}

-----------------------------------------------------------------------------
(* The account holder.                                                     *)

\* Mutant: the codes before stay valid.
UsedKept(c) == code[c].used

\* The codes an issue burns: all of the account.
UsedAfterIssue(c) == c <= issued \/ code[c].used

\* The row of a delivery that has its status s, or waits for its turn to.
Closed(c, s) == [status |-> s, attempts |-> mail[c].attempts, ready |-> FALSE]

\* issueDurableOtp: burn and supersede what there is, then insert.
RequestCode ==
  /\ active /\ issued < MaxCodes
  /\ issued' = issued + 1
  /\ code' = [c \in Codes |-> [code[c] EXCEPT !.used = UsedAfterIssue(c)]]
  /\ mail' = [c \in Codes |->
       IF c = issued + 1 THEN [status |-> "pending", attempts |-> 0, ready |-> TRUE]
       ELSE IF mail[c].status \in Open THEN Closed(c, "superseded")
       ELSE mail[c]]
  /\ UNCHANGED <<active, worker, history>>

Usable == {c \in 1..issued : ~code[c].used /\ code[c].live}

\* verifyOtp compares with the newest usable code only.
Newest == CHOOSE c \in Usable : \A d \in Usable : d <= c

\* A right code is used up even if the account turns out to be inactive.
VerifyRight ==
  /\ Usable # {}
  /\ code' = [code EXCEPT ![Newest].used = TRUE]
  /\ opened' = IF active THEN opened \cup {Newest} ELSE opened
  /\ UNCHANGED <<issued, mail, active, worker, idled>>

\* A wrong one, or an old one, counts against every usable code and burns those
\* that have been missed too often.
VerifyWrong ==
  /\ Usable # {}
  /\ code' = [c \in Codes |->
       IF c \notin Usable THEN code[c]
       ELSE [used |-> code[c].misses + 1 >= MaxMisses, live |-> TRUE,
             misses |-> code[c].misses + 1]]
  /\ UNCHANGED <<issued, mail, active, worker, history>>

\* An administrator deactivates the account, or activates it again.
SetActive ==
  /\ active' = ~active
  /\ idled' = TRUE
  /\ UNCHANGED <<issued, code, mail, worker, opened>>

-----------------------------------------------------------------------------
(* Time: a code lives ten minutes, a lease one, a retry waits its turn.    *)

\* (Once a code is used up and its mail settled, nobody reads the clock again.)
Expire(c) ==
  /\ c <= issued /\ code[c].live
  /\ ~code[c].used \/ mail[c].status \in Open
  /\ code' = [code EXCEPT ![c].live = FALSE]
  /\ UNCHANGED <<issued, mail, active, worker, history>>

Wait(c) ==
  /\ mail[c].status \in Open /\ ~mail[c].ready
  /\ mail' = [mail EXCEPT ![c].ready = TRUE]
  /\ UNCHANGED <<issued, code, active, worker, history>>

-----------------------------------------------------------------------------
(* drainOtpDeliveries.                                                     *)

Goes(w, job) == worker' = [worker EXCEPT ![w] = job]

\* otpDeliveryDue.
Due == \E c \in Codes : mail[c].status \in Open /\ mail[c].ready

\* Mutant: only rows nobody has claimed are retired.
RetiredPending(c) ==
  /\ mail[c].status = "pending"
  /\ ~code[c].live \/ mail[c].attempts >= MaxAttempts

\* retireExpiredOtpDeliveries: nobody may claim these any more.
Retired(c) ==
  /\ mail[c].status = "processing" => mail[c].ready
  /\ mail[c].status \in Open
  /\ ~code[c].live \/ mail[c].attempts >= MaxAttempts

Start(w) ==
  /\ worker[w].at = "idle" /\ Due
  /\ mail' = [c \in Codes |->
       IF Retired(c) THEN Closed(c, IF code[c].live THEN "failed" ELSE "expired")
       ELSE mail[c]]
  /\ Goes(w, [NoJob EXCEPT !.at = "claim"])
  /\ UNCHANGED <<issued, code, active, history>>

\* A due retry, or a lease that has run out; the oldest first in the code.
Claimable(c) ==
  /\ mail[c].status \in Open /\ mail[c].ready
  /\ code[c].live /\ mail[c].attempts < MaxAttempts

Claim(w) ==
  /\ worker[w].at = "claim"
  /\ \/ /\ \A c \in Codes : ~Claimable(c)
        /\ Goes(w, NoJob) /\ UNCHANGED mail
     \/ \E c \in Codes :
          /\ Claimable(c)
          /\ mail' = [mail EXCEPT ![c] = [status |-> "processing",
                        attempts |-> mail[c].attempts + 1, ready |-> FALSE]]
          /\ Goes(w, [at |-> "check", code |-> c, attempt |-> mail[c].attempts + 1])
  /\ UNCHANGED <<issued, code, active, history>>

\* The row is still this worker's.
Holds(w) ==
  LET m == mail[worker[w].code] IN
    m.status = "processing" /\ m.attempts = worker[w].attempt /\ ~m.ready

\* Mutant: the row is addressed by its id alone.
SettlesById(w) == TRUE

\* Mutant: a row in processing is taken for one's own.
SettlesAnyLease(w) == mail[worker[w].code].status = "processing"

\* The row is settled only under the lease it was claimed with.
Settles(w) == Holds(w)

\* settleOtpDelivery, and on to the next (a drain takes eight at most).  The clock
\* behind the result was read before this transaction could begin: what has
\* expired by now may not have then.
Settle(w, result) ==
  LET c == worker[w].code IN
  /\ \E s \in IF code[c].live \/ result = "accepted" THEN {result} ELSE {result, "expired"} :
       mail' = IF Settles(w) THEN [mail EXCEPT ![c] = Closed(c, s)] ELSE mail
  /\ Goes(w, [NoJob EXCEPT !.at = "claim"])

\* eligibleOtpMail, outside a transaction: what it finds may change while the
\* mail is on its way.
Check(w) ==
  /\ worker[w].at = "check"
  /\ LET c == worker[w].code IN
       IF Holds(w) /\ ~code[c].used /\ code[c].live /\ active
       THEN Goes(w, [worker[w] EXCEPT !.at = "send"]) /\ UNCHANGED mail
       ELSE Settle(w, "superseded")
  /\ UNCHANGED <<issued, code, active, history>>

\* Resend has answered: taken, refused for good, or a failure (a mail that was
\* taken and its answer lost among them) to be tried again.
Answer(w) ==
  /\ worker[w].at = "send"
  /\ \E result \in {"accepted", "failed", "pending"} :
       /\ result = "pending" => worker[w].attempt < MaxAttempts
       /\ Settle(w, result)
  /\ UNCHANGED <<issued, code, active, history>>

\* The process of the worker dies; its successor starts idle.
Crash(w) ==
  /\ worker[w].at # "idle"
  /\ Goes(w, NoJob)
  /\ UNCHANGED <<issued, code, mail, active, history>>

Drain(w) == Start(w) \/ Claim(w) \/ Check(w) \/ Answer(w)

Next ==
  \/ RequestCode \/ VerifyRight \/ VerifyWrong \/ SetActive
  \/ \E c \in Codes : Expire(c) \/ Wait(c)
  \/ \E w \in Workers : Drain(w) \/ Crash(w)

Spec == Init /\ [][Next]_vars

\* Time passes, and the interval of every process fires again (install in
\* globalMaintenance); people owe nothing, and workers may die for ever.
FairSpec ==
  /\ Spec
  /\ \A c \in Codes : WF_vars(Wait(c)) /\ WF_vars(Expire(c))
  /\ \A w \in Workers : WF_vars(Drain(w))

-----------------------------------------------------------------------------
(* Properties.                                                             *)

\* "only the newest code is ever valid": a session is opened by the last code
\* issued, in its ten minutes, and only once, whatever was issued, missed or used
\* before.
NewestOpensOnce ==
  [][opened' # opened =>
       /\ opened' = opened \cup {issued} /\ issued \notin opened
       /\ code[issued].live]_vars

\* What the outbox says of a delivery is so, though workers outlive their leases,
\* answers are lost and codes are replaced under way: an expired code has expired,
\* and a superseded one is of no use (or was not while the account was inactive).
VerdictIsTrue ==
  TypeOK /\ \A c \in Codes :
    LET s == mail[c].status IN
    /\ s = "expired" => ~code[c].live
    /\ s = "superseded" => code[c].used \/ ~code[c].live \/ idled

\* A settled delivery stays settled: no late answer revives or relabels it.
SettledIsFinal ==
  [][\A c \in Codes : mail[c].status \in Final => mail'[c].status = mail[c].status]_vars

\* What an account may rely on (OneKey): the table of codes is as good as one key,
\* which opens one session and is gone when it is used, late, missed too often or
\* replaced, and every delivery has one verdict, true when it is given.
Tries   == IF Usable = {} THEN 0 ELSE code[issued].misses
Late    == {c \in Codes : ~code[c].live}
Verdict == [c \in Codes |-> IF mail[c].status \in Open THEN "waiting"
                            ELSE mail[c].status]

Key == INSTANCE OneKey WITH
  MaxKeys <- MaxCodes, MaxTries <- MaxMisses, newest <- issued,
  valid <- (Usable # {}), misses <- Tries, late <- Late, verdict <- Verdict

\* The codes and their deliveries implement OneKey.
ImplementsOneKey == Key!Spec

\* Every delivery is settled in the end, though the worker that made the last
\* attempt died with it, and every other one too.
EveryCodeSettles ==
  \A c \in Codes : mail[c].status \in Open ~> mail[c].status \in Final
=============================================================================
