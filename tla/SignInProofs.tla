---------------------------- MODULE SignInProofs ----------------------------
(***************************************************************************)
(* Sign-in codes, for any number of requests, workers, attempts and        *)
(* misses: what the outbox says is so, settled deliveries stay settled,    *)
(* and only the newest code opens a session, once.                         *)
(***************************************************************************)
EXTENDS SignIn, TLAPS

\* What the properties rest on: rows that are not there yet are empty, every code
\* but the last has been burnt, a burnt code opened every session there is, a code
\* that is not burnt can be missed once more, and a job names a code.
BurntInOrder ==
  \A c \in Codes :
    /\ c > issued => mail[c].status = "none"
    /\ c < issued => code[c].used
    /\ c \in opened => code[c].used
    /\ ~code[c].used => code[c].misses < MaxMisses

JobsAreNamed ==
  /\ ~active => idled
  /\ \A w \in Workers : worker[w].at \in {"check", "send"} => worker[w].code \in Codes

SignInInv == VerdictIsTrue /\ BurntInOrder /\ JobsAreNamed

USE SignInAssumption DEF Codes, Open, Final

\* A fresh database and its processes (Init).
LEMMA InitSignIn == Init => SignInInv
<1> SUFFICES ASSUME Init PROVE SignInInv
  OBVIOUS
<1> USE DEF Init, NoCode, NoMail, NoJob
<1>1. NoCode \in CodeRow /\ NoMail \in MailRow
  BY DEF CodeRow, MailRow
<1>2. NoJob \in [at : {"idle", "claim", "check", "send"}, code : 0..MaxCodes,
                 attempt : 0..MaxAttempts]
  OBVIOUS
<1>3. TypeOK
  BY <1>1, <1>2 DEF TypeOK
<1> QED
  BY <1>3 DEF SignInInv, BurntInOrder, JobsAreNamed, VerdictIsTrue

\* verifyOtp looks at the last code issued, and at no other.
LEMMA NewestIsLast ==
  ASSUME SignInInv, Usable # {}
  PROVE  Usable = {issued} /\ Newest = issued /\ issued \in Codes
<1> USE DEF SignInInv, BurntInOrder, JobsAreNamed, VerdictIsTrue, TypeOK
<1>1. issued \in 0..MaxCodes /\ \A c \in Usable : c \in 1..issued
  BY DEF Usable
<1>2. \A c \in Usable : c \in Codes /\ ~(c < issued)
  BY <1>1 DEF Usable
<1>3. \A c \in Usable : c = issued
  BY <1>1, <1>2
<1>4. Usable = {issued} /\ issued \in Codes
  BY <1>2, <1>3
<1>5. Newest = CHOOSE c \in {issued} : \A d \in {issued} : d <= c
  BY <1>4 DEF Newest
<1>6. \A d \in {issued} : d <= issued
  BY <1>1
<1>7. Newest = issued
  BY <1>5, <1>6
<1> QED
  BY <1>4, <1>7

\* A row that is settled was in the hands of the worker that settles it, and says
\* expired only if it is (settleOtpDelivery, under its lease).
LEMMA SettleOpen ==
  ASSUME SignInInv, NEW w \in Workers, worker[w].code \in Codes,
         NEW result \in {"accepted", "failed", "pending", "superseded"}, Settle(w, result)
  PROVE  \/ mail' = mail
         \/ /\ Holds(w)
            /\ \E row \in MailRow :
                 /\ row.status \in {result, "expired"}
                 /\ row.status = "expired" => ~code[worker[w].code].live
                 /\ mail' = [mail EXCEPT ![worker[w].code] = row]
<1> DEFINE c == worker[w].code
<1>1. PICK s \in {result, "expired"} :
        /\ s = "expired" => ~code[c].live
        /\ mail' = IF Settles(w) THEN [mail EXCEPT ![c] = Closed(c, s)] ELSE mail
  BY DEF Settle
<1>2. CASE ~Settles(w)
  BY <1>1, <1>2
<1>3. CASE Settles(w)
  <2>1. mail \in [Codes -> MailRow] /\ c \in Codes
    BY DEF SignInInv, VerdictIsTrue, TypeOK
  <2>2. Closed(c, s) \in MailRow /\ Closed(c, s).status = s
    BY <2>1 DEF MailRow, Closed
  <2>3. mail' = [mail EXCEPT ![c] = Closed(c, s)]
    BY <1>1, <1>3
  <2> QED
    BY <1>1, <1>3, <2>2, <2>3 DEF Settles
<1> QED
  BY <1>2, <1>3

\* What a drain does to its job: it names a code, or none (Goes).
LEMMA JobTypes ==
  ASSUME SignInInv, NEW w \in Workers, Drain(w) \/ Crash(w)
  PROVE  /\ worker' \in [Workers -> [at : {"idle", "claim", "check", "send"},
                                     code : 0..MaxCodes, attempt : 0..MaxAttempts]]
         /\ \A v \in Workers : worker'[v].at \in {"check", "send"} => worker'[v].code \in Codes
<1> DEFINE Job == [at : {"idle", "claim", "check", "send"}, code : 0..MaxCodes,
                   attempt : 0..MaxAttempts]
           Named(job) == job \in Job /\ (job.at \in {"check", "send"} => job.code \in Codes)
<1>1. worker \in [Workers -> Job] /\ \A v \in Workers : Named(worker[v])
  BY DEF SignInInv, BurntInOrder, JobsAreNamed, VerdictIsTrue, TypeOK
<1>2. SUFFICES \E job : Named(job) /\ Goes(w, job)
  BY <1>1 DEF Goes
<1>3. Named(NoJob) /\ Named([NoJob EXCEPT !.at = "claim"])
  BY DEF NoJob
<1>4. CASE Start(w)
  BY <1>3, <1>4 DEF Start
<1>5. CASE Claim(w)
  <2>1. CASE Goes(w, NoJob)
    BY <1>3, <2>1
  <2>2. ASSUME NEW c \in Codes, Claimable(c),
               Goes(w, [at |-> "check", code |-> c, attempt |-> mail[c].attempts + 1])
        PROVE  \E job : Named(job) /\ Goes(w, job)
    <3>1. mail[c].attempts + 1 \in 0..MaxAttempts
      BY <2>2 DEF Claimable, SignInInv, VerdictIsTrue, TypeOK, MailRow
    <3> DEFINE job == [at |-> "check", code |-> c, attempt |-> mail[c].attempts + 1]
    <3>2. Named(job)
      <4>1. c \in 0..MaxCodes
        OBVIOUS
      <4> QED
        BY <3>1, <4>1
    <3>3. Goes(w, job)
      BY <2>2
    <3> WITNESS job
    <3> QED
      BY <3>2, <3>3
  <2> QED
    BY <1>5, <2>1, <2>2 DEF Claim
<1>6. CASE Check(w)
  <2>1. Named([worker[w] EXCEPT !.at = "send"])
    BY <1>1, <1>6 DEF Check
  <2> QED
    BY <1>3, <1>6, <2>1 DEF Check, Settle
<1>7. CASE Answer(w)
  BY <1>3, <1>7 DEF Answer, Settle
<1>8. CASE Crash(w)
  BY <1>3, <1>8 DEF Crash
<1> QED
  BY <1>4, <1>5, <1>6, <1>7, <1>8 DEF Drain

\* A drain writes nothing but jobs and the mail.
LEMMA DrainLeaves ==
  ASSUME NEW w \in Workers, Drain(w) \/ Crash(w)
  PROVE  UNCHANGED <<issued, code, active, idled, opened>>
  BY DEF Drain, Start, Claim, Check, Answer, Crash, history

\* ... and to the mail only this: a row that is written was open, and says
\* superseded or expired only where that is so.
LEMMA DrainMail ==
  ASSUME SignInInv, NEW w \in Workers, Drain(w)
  PROVE  /\ mail' \in [Codes -> MailRow]
         /\ \A c \in Codes : mail'[c] = mail[c] \/
              /\ mail[c].status \in Open
              /\ mail'[c].status # "none"
              /\ mail'[c].status = "expired" => ~code[c].live
              /\ mail'[c].status = "superseded" => code[c].used \/ ~code[c].live \/ idled
<1> USE DEF SignInInv, BurntInOrder, JobsAreNamed, VerdictIsTrue, TypeOK, MailRow
<1>1. CASE Start(w)
  BY <1>1 DEF Start, Retired, Closed
<1>2. CASE Claim(w)
  <2>1. CASE mail' = mail
    BY <2>1
  <2>2. ASSUME NEW c \in Codes, Claimable(c),
               mail' = [mail EXCEPT ![c] = [status |-> "processing",
                          attempts |-> mail[c].attempts + 1, ready |-> FALSE]]
        PROVE  /\ mail' \in [Codes -> MailRow]
               /\ \A d \in Codes : mail'[d] = mail[d] \/
                    (mail[d].status \in Open /\ mail'[d].status = "processing")
    <3>1. mail[c].attempts + 1 \in 0..MaxAttempts
      BY <2>2 DEF Claimable
    <3> QED
      BY <2>2, <3>1 DEF Claimable
  <2> QED
    BY <1>2, <2>1, <2>2 DEF Claim
<1>3. CASE Check(w)
  <2>1. CASE mail' = mail
    BY <2>1
  <2>2. CASE mail' # mail
    <3>1. worker[w].code \in Codes /\ Settle(w, "superseded")
      BY <1>3, <2>2 DEF Check
    <3>2. ~(Holds(w) /\ ~code[worker[w].code].used /\ code[worker[w].code].live /\ active)
      BY <1>3, <2>2 DEF Check
    <3>3. Holds(w)
      BY <3>1, <2>2 DEF Settle, Settles
    <3>4. code[worker[w].code].used \/ ~code[worker[w].code].live \/ idled
      BY <3>2, <3>3
    <3>5. PICK row \in MailRow :
            /\ row.status \in {"superseded", "expired"}
            /\ row.status = "expired" => ~code[worker[w].code].live
            /\ mail' = [mail EXCEPT ![worker[w].code] = row]
      BY <3>1, <2>2, SettleOpen
    <3> QED
      BY <3>1, <3>3, <3>4, <3>5 DEF Holds
  <2> QED
    BY <2>1, <2>2
<1>4. CASE Answer(w)
  <2>1. worker[w].code \in Codes
    BY <1>4 DEF Answer
  <2>2. PICK result \in {"accepted", "failed", "pending", "superseded"} :
          result # "superseded" /\ Settle(w, result)
    BY <1>4 DEF Answer
  <2>3. CASE mail' = mail
    BY <2>3
  <2>4. CASE mail' # mail
    <3> HIDE DEF SignInInv, VerdictIsTrue, TypeOK, MailRow
    <3>1. Holds(w)
      BY <2>1, <2>2, <2>4, SettleOpen
    <3>2. PICK row \in MailRow :
            /\ row.status \in {result, "expired"}
            /\ row.status = "expired" => ~code[worker[w].code].live
            /\ mail' = [mail EXCEPT ![worker[w].code] = row]
      BY <2>1, <2>2, <2>4, SettleOpen
    <3>3. mail \in [Codes -> MailRow]
      BY DEF SignInInv, VerdictIsTrue, TypeOK
    <3>4. mail[worker[w].code].status = "processing"
      BY <3>1 DEF Holds
    <3> QED
      BY <2>1, <2>2, <3>2, <3>3, <3>4
  <2> QED
    BY <2>3, <2>4
<1> QED
  BY <1>1, <1>2, <1>3, <1>4 DEF Drain

\* What a request for a code does (issueDurableOtp).
LEMMA RequestKeeps ==
  ASSUME SignInInv, RequestCode
  PROVE  SignInInv'
<1>1. /\ issued \in Nat /\ issued' = issued + 1 /\ issued' \in Codes
      /\ code \in [Codes -> CodeRow] /\ mail \in [Codes -> MailRow]
  <2>1. /\ issued \in 0..MaxCodes
        /\ code \in [Codes -> CodeRow] /\ mail \in [Codes -> MailRow]
    BY DEF SignInInv, VerdictIsTrue, TypeOK
  <2>2. issued < MaxCodes /\ issued' = issued + 1
    BY DEF RequestCode
  <2> QED
    BY <2>1, <2>2
<1>2. \A c \in Codes : /\ code'[c] \in CodeRow
                       /\ code'[c].used <=> (c <= issued \/ code[c].used)
                       /\ code'[c].live = code[c].live /\ code'[c].misses = code[c].misses
  <2> SUFFICES ASSUME NEW c \in Codes
               PROVE  /\ code'[c] \in CodeRow
                      /\ code'[c].used <=> (c <= issued \/ code[c].used)
                      /\ code'[c].live = code[c].live /\ code'[c].misses = code[c].misses
    OBVIOUS
  <2>1. code'[c] = [code[c] EXCEPT !.used = UsedAfterIssue(c)]
    BY DEF RequestCode
  <2>2. code[c] \in CodeRow
    BY <1>1
  <2> QED
    BY <2>1, <2>2, <1>1 DEF CodeRow, UsedAfterIssue
<1>3. \A c \in Codes :
        \/ c = issued + 1 /\ mail'[c] \in MailRow /\ mail'[c].status = "pending"
        \/ c <= issued /\ mail'[c] \in MailRow /\ mail'[c].status = "superseded"
        \/ mail'[c] = mail[c] /\ c # issued + 1
  <2> SUFFICES ASSUME NEW c \in Codes
               PROVE  \/ c = issued + 1 /\ mail'[c] \in MailRow /\ mail'[c].status = "pending"
                      \/ c <= issued /\ mail'[c] \in MailRow /\ mail'[c].status = "superseded"
                      \/ mail'[c] = mail[c] /\ c # issued + 1
    OBVIOUS
  <2>1. CASE c = issued + 1
    <3>1. mail'[c] = [status |-> "pending", attempts |-> 0, ready |-> TRUE]
      BY <2>1 DEF RequestCode
    <3> QED
      BY <2>1, <3>1 DEF MailRow
  <2>2. CASE c # issued + 1 /\ mail[c].status \in Open
    <3>1. c <= issued
      BY <1>1, <2>2 DEF SignInInv, BurntInOrder
    <3>2. mail'[c] = Closed(c, "superseded")
      BY <2>2 DEF RequestCode
    <3>3. mail[c] \in MailRow
      BY <1>1
    <3> QED
      BY <3>1, <3>2, <3>3 DEF MailRow, Closed
  <2>3. CASE c # issued + 1 /\ mail[c].status \notin Open
    BY <2>3 DEF RequestCode
  <2> QED
    BY <2>1, <2>2, <2>3
<1>4. TypeOK'
  <2>1. code' \in [Codes -> CodeRow]
    BY <1>2 DEF RequestCode
  <2>2. mail' \in [Codes -> MailRow]
    BY <1>1, <1>3 DEF RequestCode
  <2>3. UNCHANGED <<active, worker, idled, opened>>
    BY DEF RequestCode, history
  <2>4. issued' \in 0..MaxCodes
    BY <1>1
  <2> QED
    BY <2>1, <2>2, <2>3, <2>4 DEF SignInInv, VerdictIsTrue, TypeOK
<1>5. VerdictIsTrue'
  <2> SUFFICES ASSUME NEW c \in Codes
               PROVE  /\ mail'[c].status = "expired" => ~code'[c].live
                      /\ mail'[c].status = "superseded" =>
                           code'[c].used \/ ~code'[c].live \/ idled'
    BY <1>4 DEF VerdictIsTrue
  <2>1. /\ mail[c].status = "expired" => ~code[c].live
        /\ mail[c].status = "superseded" => code[c].used \/ ~code[c].live \/ idled
    BY DEF SignInInv, VerdictIsTrue
  <2>2. idled' = idled
    BY DEF RequestCode, history
  <2> QED
    BY <1>2, <1>3, <2>1, <2>2
<1>6. BurntInOrder'
  <2> SUFFICES ASSUME NEW c \in Codes
               PROVE  /\ c > issued' => mail'[c].status = "none"
                      /\ c < issued' => code'[c].used
                      /\ c \in opened' => code'[c].used
                      /\ ~code'[c].used => code'[c].misses < MaxMisses
    BY DEF BurntInOrder
  <2>1. /\ c > issued => mail[c].status = "none"
        /\ c < issued => code[c].used
        /\ c \in opened => code[c].used
        /\ ~code[c].used => code[c].misses < MaxMisses
    BY DEF SignInInv, BurntInOrder
  <2>2. opened' = opened
    BY DEF RequestCode, history
  <2>3. c > issued' => c > issued /\ c # issued + 1
    BY <1>1
  <2>4. c < issued' => c <= issued
    BY <1>1
  <2> QED
    BY <1>1, <1>2, <1>3, <2>1, <2>2, <2>3, <2>4
<1>7. JobsAreNamed'
  BY DEF RequestCode, SignInInv, JobsAreNamed, history
<1> QED
  BY <1>4, <1>5, <1>6, <1>7 DEF SignInInv

\* What a code does that is presented (verifyOtp), right or wrong.
LEMMA VerifyKeeps ==
  ASSUME SignInInv, VerifyRight \/ VerifyWrong
  PROVE  SignInInv'
<1>1. Usable = {issued} /\ Newest = issued /\ issued \in Codes /\ ~code[issued].used
  BY NewestIsLast DEF VerifyRight, VerifyWrong, Usable
<1>2. code \in [Codes -> CodeRow] /\ code[issued] \in CodeRow /\ code[issued].misses < MaxMisses
  BY <1>1 DEF SignInInv, VerdictIsTrue, TypeOK, BurntInOrder
<1>3. /\ code' \in [Codes -> CodeRow]
      /\ \A c \in Codes : c # issued => code'[c] = code[c]
      /\ code'[issued].live = code[issued].live
      /\ code'[issued].used \/ code'[issued].misses < MaxMisses
  <2>1. CASE VerifyRight
    <3>1. code' = [code EXCEPT ![issued] = [code[issued] EXCEPT !.used = TRUE]]
      BY <1>1, <2>1 DEF VerifyRight
    <3>2. [code[issued] EXCEPT !.used = TRUE] \in CodeRow
      BY <1>2 DEF CodeRow
    <3> QED
      BY <1>1, <1>2, <3>1, <3>2 DEF CodeRow
  <2>2. CASE VerifyWrong
    <3> DEFINE row == [used |-> code[issued].misses + 1 >= MaxMisses, live |-> TRUE,
                       misses |-> code[issued].misses + 1]
    <3>1. row \in CodeRow /\ row.live = code[issued].live /\ (row.used \/ row.misses < MaxMisses)
      <4>1. code[issued].live
        BY <1>1 DEF Usable
      <4>2. code[issued].misses \in 0..MaxMisses
        BY <1>2 DEF CodeRow
      <4>3. code[issued].misses + 1 \in 0..MaxMisses
        BY <1>2, <4>2
      <4>4. row \in CodeRow
        BY <4>3 DEF CodeRow
      <4>5. row.used = (code[issued].misses + 1 >= MaxMisses) /\ row.live
            /\ row.misses = code[issued].misses + 1
        OBVIOUS
      <4>6. code[issued].misses + 1 >= MaxMisses \/ code[issued].misses + 1 < MaxMisses
        BY <4>2
      <4> HIDE DEF row
      <4>7. row.live = code[issued].live
        BY <4>1, <4>4, <4>5 DEF CodeRow
      <4>8. row.used \/ row.misses < MaxMisses
        BY <4>5, <4>6
      <4> QED
        BY <4>4, <4>7, <4>8
    <3>2. code' = [code EXCEPT ![issued] = row]
      BY <1>1, <1>2, <2>2 DEF VerifyWrong
    <3> QED
      BY <1>1, <1>2, <3>1, <3>2
  <2> QED
    BY <2>1, <2>2
<1>4. opened' = opened \/ (opened' = opened \cup {issued} /\ code'[issued].used)
  <2>1. CASE VerifyRight
    BY <1>1, <1>2, <2>1 DEF VerifyRight, CodeRow
  <2>2. CASE VerifyWrong
    BY <2>2 DEF VerifyWrong, history
  <2> QED
    BY <2>1, <2>2
<1>5. UNCHANGED <<issued, mail, active, worker, idled>>
  BY DEF VerifyRight, VerifyWrong, history
<1>6. TypeOK'
  BY <1>1, <1>3, <1>4, <1>5 DEF SignInInv, VerdictIsTrue, TypeOK
<1>7. \A c \in Codes : code'[c].live = code[c].live /\ (code[c].used => code'[c].used)
  BY <1>1, <1>3
<1>8. VerdictIsTrue'
  BY <1>5, <1>6, <1>7 DEF SignInInv, VerdictIsTrue
<1>9. BurntInOrder'
  BY <1>1, <1>3, <1>4, <1>5, <1>7 DEF SignInInv, BurntInOrder
<1>10. JobsAreNamed'
  BY <1>5 DEF SignInInv, JobsAreNamed
<1> QED
  BY <1>6, <1>8, <1>9, <1>10 DEF SignInInv

LEMMA NextSignIn == SignInInv /\ [Next]_vars => SignInInv'
<1> SUFFICES ASSUME SignInInv, [Next]_vars PROVE SignInInv'
  OBVIOUS
<1> USE DEF SignInInv, VerdictIsTrue, TypeOK, BurntInOrder, JobsAreNamed, CodeRow, MailRow,
        history
<1>1. CASE RequestCode
  BY <1>1, RequestKeeps
<1>2. CASE VerifyRight \/ VerifyWrong
  BY <1>2, VerifyKeeps
<1>4. CASE SetActive
  <2>1. TypeOK'
    BY <1>4 DEF SetActive
  <2>2. VerdictIsTrue'
    BY <1>4, <2>1 DEF SetActive
  <2>3. BurntInOrder'
    BY <1>4 DEF SetActive
  <2>4. JobsAreNamed'
    BY <1>4 DEF SetActive
  <2> QED
    BY <2>1, <2>2, <2>3, <2>4 DEF SignInInv
<1>5. ASSUME NEW c \in Codes, Expire(c) PROVE SignInInv'
  <2>1. TypeOK'
    BY <1>5 DEF Expire
  <2>2. VerdictIsTrue'
    BY <1>5, <2>1 DEF Expire
  <2>3. BurntInOrder'
    BY <1>5 DEF Expire
  <2>4. JobsAreNamed'
    BY <1>5 DEF Expire
  <2> QED
    BY <2>1, <2>2, <2>3, <2>4 DEF SignInInv
<1>6. ASSUME NEW c \in Codes, Wait(c) PROVE SignInInv'
  <2>1. TypeOK'
    BY <1>6 DEF Wait
  <2>2. VerdictIsTrue'
    BY <1>6, <2>1 DEF Wait
  <2>3. BurntInOrder'
    BY <1>6 DEF Wait
  <2>4. JobsAreNamed'
    BY <1>6 DEF Wait
  <2> QED
    BY <2>1, <2>2, <2>3, <2>4 DEF SignInInv
<1>7. ASSUME NEW w \in Workers, Drain(w) PROVE SignInInv'
  <2>1. TypeOK'
    BY <1>7, JobTypes, DrainLeaves, DrainMail
  <2>2. VerdictIsTrue'
    BY <1>7, JobTypes, DrainLeaves, DrainMail, <2>1
  <2>3. BurntInOrder'
    BY <1>7, JobTypes, DrainLeaves, DrainMail
  <2>4. JobsAreNamed'
    BY <1>7, JobTypes, DrainLeaves, DrainMail
  <2> QED
    BY <2>1, <2>2, <2>3, <2>4 DEF SignInInv
<1>8. ASSUME NEW w \in Workers, Crash(w) PROVE SignInInv'
  <2>1. TypeOK'
    BY <1>8, JobTypes, DrainLeaves DEF Crash
  <2>2. VerdictIsTrue'
    BY <1>8, JobTypes, DrainLeaves, <2>1 DEF Crash
  <2>3. BurntInOrder'
    BY <1>8, JobTypes, DrainLeaves DEF Crash
  <2>4. JobsAreNamed'
    BY <1>8, JobTypes, DrainLeaves DEF Crash
  <2> QED
    BY <2>1, <2>2, <2>3, <2>4 DEF SignInInv
<1>9. CASE UNCHANGED vars
  <2>1. TypeOK'
    BY <1>9 DEF vars
  <2>2. VerdictIsTrue'
    BY <1>9, <2>1 DEF vars
  <2>3. BurntInOrder'
    BY <1>9 DEF vars
  <2>4. JobsAreNamed'
    BY <1>9 DEF vars
  <2> QED
    BY <2>1, <2>2, <2>3, <2>4 DEF SignInInv
<1> QED
  BY <1>1, <1>2, <1>4, <1>5, <1>6, <1>7, <1>8, <1>9 DEF Next

\* What the outbox says of a delivery is so (VerdictIsTrue).
THEOREM VerdictIsTrueCorrect == Spec => []VerdictIsTrue
<1>1. SignInInv => VerdictIsTrue
  BY DEF SignInInv, BurntInOrder, JobsAreNamed
<1> QED
  BY <1>1, InitSignIn, NextSignIn, PTL DEF Spec

\* No late answer, issue or retirement touches a settled delivery (SettledIsFinal).
THEOREM SettledIsFinalCorrect == Spec => SettledIsFinal
<1> DEFINE Kept == \A c \in Codes : mail[c].status \in Final => mail'[c].status = mail[c].status
<1>1. SignInInv /\ [Next]_vars => [Kept]_vars
  <2> SUFFICES ASSUME SignInInv, Next PROVE Kept
    OBVIOUS
  <2> USE DEF SignInInv, BurntInOrder, JobsAreNamed, VerdictIsTrue, TypeOK, MailRow
  <2>1. CASE RequestCode
    <3>1. \A c \in Codes : mail[c].status \in Final => c # issued + 1
      BY <2>1 DEF BurntInOrder
    <3> QED
      BY <2>1, <3>1 DEF RequestCode
  <2>2. CASE VerifyRight \/ VerifyWrong \/ SetActive
    BY <2>2 DEF VerifyRight, VerifyWrong, SetActive
  <2>3. ASSUME NEW c \in Codes, Expire(c) \/ Wait(c) PROVE Kept
    BY <2>3 DEF Expire, Wait
  <2>4. ASSUME NEW w \in Workers, Drain(w) PROVE Kept
    BY <2>4, DrainMail
  <2>5. ASSUME NEW w \in Workers, Crash(w) PROVE Kept
    BY <2>5 DEF Crash
  <2> QED
    BY <2>1, <2>2, <2>3, <2>4, <2>5 DEF Next
<1> QED
  BY <1>1, InitSignIn, NextSignIn, PTL DEF Spec, SettledIsFinal

\* Only the newest code opens a session, in time and once (NewestOpensOnce).
THEOREM NewestOpensOnceCorrect == Spec => NewestOpensOnce
<1> DEFINE Opens == opened' # opened => /\ opened' = opened \cup {issued} /\ issued \notin opened
                                        /\ code[issued].live
<1>1. SignInInv /\ [Next]_vars => [Opens]_vars
  <2> SUFFICES ASSUME SignInInv, Next, opened' # opened
               PROVE  /\ opened' = opened \cup {issued} /\ issued \notin opened
                      /\ code[issued].live
    OBVIOUS
  <2>1. VerifyRight
    BY DrainLeaves DEF Next, RequestCode, VerifyWrong, SetActive, Expire, Wait, history
  <2>2. Newest = issued /\ issued \in Usable /\ issued \in Codes
    BY <2>1, NewestIsLast DEF VerifyRight
  <2> QED
    BY <2>1, <2>2 DEF VerifyRight, Usable, SignInInv
<1> QED
  BY <1>1, InitSignIn, NextSignIn, PTL DEF Spec, NewestOpensOnce

-----------------------------------------------------------------------------
(* The table of codes is as good as one key: OneKey.                       *)

\* Nobody has touched the row of a code that is not issued yet.
Untouched ==
  \A c \in Codes : c > issued => ~code[c].used /\ code[c].live /\ code[c].misses = 0

KeyInv == SignInInv /\ Untouched

\* No transaction writes a code before it is issued.
LEMMA UntouchedStep ==
  ASSUME KeyInv, [Next]_vars
  PROVE  Untouched'
<1> USE DEF KeyInv, Untouched
<1>1. issued \in Nat /\ code \in [Codes -> CodeRow] /\ \A c \in Usable : c <= issued
  BY DEF SignInInv, VerdictIsTrue, TypeOK, Usable
<1>2. CASE RequestCode
  <2>1. issued' = issued + 1
        /\ \A c \in Codes : code'[c] = [code[c] EXCEPT !.used = UsedAfterIssue(c)]
    BY <1>2 DEF RequestCode
  <2> SUFFICES ASSUME NEW c \in Codes, c > issued'
               PROVE  ~code'[c].used /\ code'[c].live /\ code'[c].misses = 0
    OBVIOUS
  <2>2. c > issued /\ ~(c <= issued) /\ code[c] \in CodeRow
    BY <1>1, <2>1
  <2> QED
    BY <2>1, <2>2 DEF UsedAfterIssue, CodeRow
<1>3. CASE VerifyRight
  <2>1. Newest = issued /\ issued' = issued
    BY <1>3, NewestIsLast DEF VerifyRight
  <2>2. code' = [code EXCEPT ![issued].used = TRUE]
    BY <1>3, <2>1 DEF VerifyRight
  <2> QED
    BY <1>1, <2>1, <2>2
<1>4. CASE VerifyWrong
  BY <1>1, <1>4 DEF VerifyWrong
<1>5. ASSUME NEW c \in Codes, Expire(c) \/ Wait(c) PROVE Untouched'
  BY <1>1, <1>5 DEF Expire, Wait
<1>6. ASSUME NEW w \in Workers, Drain(w) \/ Crash(w) PROVE Untouched'
  BY <1>6, DrainLeaves
<1>7. CASE SetActive \/ UNCHANGED vars
  BY <1>7 DEF SetActive, vars
<1> QED
  BY <1>2, <1>3, <1>4, <1>5, <1>6, <1>7 DEF Next

\* SignInInv with the rows nobody has touched is inductive.
LEMMA KeyInvariant == Spec => []KeyInv
<1>1. Init => KeyInv
  BY InitSignIn DEF KeyInv, Untouched, Init, NoCode
<1>2. KeyInv /\ [Next]_vars => KeyInv'
  BY NextSignIn, UntouchedStep DEF KeyInv
<1> QED
  BY <1>1, <1>2, PTL DEF Spec

\* Of all codes only the last can be usable.
LEMMA UsableOf ==
  ASSUME KeyInv
  PROVE  /\ issued \in Nat /\ issued <= MaxCodes
         /\ code \in [Codes -> CodeRow] /\ mail \in [Codes -> MailRow]
         /\ Usable = {} \/ (Usable = {issued} /\ issued \in Codes)
         /\ issued \in Codes =>
              (Usable # {} <=> ~code[issued].used /\ code[issued].live)
<1>1. /\ issued \in 0..MaxCodes /\ code \in [Codes -> CodeRow] /\ mail \in [Codes -> MailRow]
  BY DEF KeyInv, SignInInv, VerdictIsTrue, TypeOK
<1>2. Usable # {} => Usable = {issued} /\ issued \in Codes
  BY NewestIsLast DEF KeyInv
<1>3. issued \in Codes => (issued \in Usable <=> ~code[issued].used /\ code[issued].live)
  BY <1>1 DEF Usable
<1> QED
  BY <1>1, <1>2, <1>3

\* issueDurableOtp: the key before is gone, and its mail with it.
LEMMA RequestIsIssue ==
  ASSUME KeyInv, RequestCode
  PROVE  Key!Issue
<1>1. /\ issued \in Nat /\ code \in [Codes -> CodeRow] /\ mail \in [Codes -> MailRow]
      /\ active /\ issued < MaxCodes /\ issued' = issued + 1 /\ issued + 1 \in Codes
      /\ UNCHANGED <<active, idled, opened>>
  BY UsableOf DEF RequestCode, history
<1>2. \A c \in Codes : code'[c] = [code[c] EXCEPT !.used = UsedAfterIssue(c)]
  BY DEF RequestCode
<1>3. ASSUME NEW c \in Codes
      PROVE  /\ code'[c].used <=> (c <= issued \/ code[c].used)
             /\ code'[c].live = code[c].live /\ code'[c].misses = code[c].misses
  <2>1. code[c] \in CodeRow
    BY <1>1
  <2> QED
    BY <1>2, <2>1 DEF CodeRow, UsedAfterIssue
<1>4. ~code[issued + 1].used /\ code[issued + 1].live /\ code[issued + 1].misses = 0
  BY <1>1 DEF KeyInv, Untouched
<1>5. issued + 1 \in Usable'
  <2>1. ~code'[issued + 1].used /\ code'[issued + 1].live
    BY <1>1, <1>3, <1>4
  <2>2. issued + 1 \in 1..issued'
    BY <1>1
  <2> QED
    BY <2>1, <2>2 DEF Usable
<1>6. Usable' # {} /\ Tries' = 0
  BY <1>1, <1>3, <1>4, <1>5 DEF Tries
<1>7. Late' = Late
  BY <1>3 DEF Late
<1>8. Verdict' = [c \in Codes |-> IF c = issued + 1 THEN "waiting"
                                 ELSE IF Verdict[c] = "waiting" THEN "superseded"
                                 ELSE Verdict[c]]
  <2> SUFFICES ASSUME NEW c \in Codes
               PROVE  Verdict'[c] = IF c = issued + 1 THEN "waiting"
                                    ELSE IF Verdict[c] = "waiting" THEN "superseded"
                                    ELSE Verdict[c]
    BY DEF Verdict
  <2>1. mail'[c].status = IF c = issued + 1 THEN "pending"
                          ELSE IF mail[c].status \in Open THEN "superseded"
                          ELSE mail[c].status
    BY <1>1 DEF RequestCode, Closed
  <2>2. mail[c].status # "waiting"
    BY <1>1 DEF MailRow
  <2> QED
    BY <2>1, <2>2 DEF Verdict
<1> QED
  BY <1>1, <1>6, <1>7, <1>8 DEF Key!Issue, Key!Keys

\* verifyOtp with the right code uses the key up.
LEMMA RightIsUse ==
  ASSUME KeyInv, VerifyRight
  PROVE  Key!Use
<1>1. /\ Usable # {} /\ Newest = issued /\ issued \in Codes /\ issued \in Nat
      /\ code \in [Codes -> CodeRow]
      /\ UNCHANGED <<issued, mail, active, idled>>
      /\ opened' = IF active THEN opened \cup {issued} ELSE opened
      /\ Usable = {issued}
  BY UsableOf, NewestIsLast DEF KeyInv, VerifyRight
<1>2. code' = [code EXCEPT ![issued].used = TRUE]
  BY <1>1 DEF VerifyRight
<1>3. /\ code'[issued].used
      /\ \A c \in Codes : /\ code'[c].live = code[c].live
                          /\ c # issued => code'[c] = code[c]
  BY <1>1, <1>2 DEF CodeRow
<1>4. Usable' = {}
  BY <1>1, <1>3 DEF Usable
<1>5. Tries' = 0 /\ Late' = Late /\ Verdict' = Verdict
  BY <1>1, <1>3, <1>4 DEF Tries, Late, Verdict
<1> QED
  BY <1>1, <1>4, <1>5 DEF Key!Use, Key!Gone

\* A wrong code is one miss more, and too many are the end of the key.
LEMMA WrongIsMiss ==
  ASSUME KeyInv, VerifyWrong
  PROVE  Key!Miss
<1>1. /\ Usable # {} /\ issued \in Codes /\ issued \in Nat
      /\ code \in [Codes -> CodeRow] /\ Usable = {issued}
      /\ UNCHANGED <<issued, mail, active, idled, opened>>
  BY UsableOf, NewestIsLast DEF KeyInv, VerifyWrong, history
<1>2. /\ code'[issued] = [used |-> code[issued].misses + 1 >= MaxMisses, live |-> TRUE,
                          misses |-> code[issued].misses + 1]
      /\ \A c \in Codes : c # issued => code'[c] = code[c]
  BY <1>1 DEF VerifyWrong
<1>3. code[issued].live
  BY <1>1 DEF Usable
<1>4. \A c \in Codes : code'[c].live <=> code[c].live
  BY <1>1, <1>2, <1>3
<1>5. Late' = Late /\ Verdict' = Verdict
  BY <1>1, <1>4 DEF Late, Verdict
<1>6. /\ \A c \in Usable' : c = issued
      /\ issued \in Usable' <=> ~(code[issued].misses + 1 >= MaxMisses)
  <2>1. /\ code'[issued].used = (code[issued].misses + 1 >= MaxMisses)
        /\ code'[issued].live = TRUE
    BY <1>2
  <2>2. Usable' = {c \in 1..issued : ~code'[c].used /\ code'[c].live}
    BY <1>1 DEF Usable
  <2>3. ASSUME NEW c \in 1..issued, c # issued PROVE c \notin Usable'
    <3>1. c \in Codes /\ c \notin Usable
      BY <1>1, <2>3
    <3> QED
      BY <1>2, <2>2, <2>3, <3>1 DEF Usable
  <2>4. issued \in 1..issued
    BY <1>1
  <2> QED
    BY <2>1, <2>2, <2>3, <2>4
<1>7. Tries = code[issued].misses
  BY <1>1 DEF Tries
<1>8. CASE code[issued].misses + 1 >= MaxMisses
  <2>1. Usable' = {} /\ Tries' = 0
    BY <1>6, <1>8 DEF Tries
  <2> QED
    BY <1>1, <1>5, <1>7, <1>8, <2>1 DEF Key!Miss, Key!Gone
<1>9. CASE ~(code[issued].misses + 1 >= MaxMisses)
  <2>1. Usable' # {} /\ Tries' = code[issued].misses + 1
    BY <1>1, <1>2, <1>6, <1>9 DEF Tries
  <2> QED
    BY <1>1, <1>5, <1>7, <1>9, <2>1 DEF Key!Miss
<1> QED
  BY <1>8, <1>9

\* A code whose ten minutes are over.
LEMMA ExpireIsExpire ==
  ASSUME KeyInv, NEW c \in Codes, Expire(c)
  PROVE  Key!Expire(c)
<1>1. /\ issued \in Nat /\ issued <= MaxCodes /\ code \in [Codes -> CodeRow]
      /\ c <= issued /\ code[c].live
      /\ code' = [code EXCEPT ![c].live = FALSE]
      /\ UNCHANGED <<issued, mail, active, idled, opened>>
      /\ Usable = {} \/ Usable = {issued}
  BY UsableOf DEF Expire, history
<1>2. /\ ~code'[c].live /\ code'[c].used = code[c].used
      /\ code'[c].misses = code[c].misses
      /\ \A d \in Codes : d # c => code'[d] = code[d]
  BY <1>1 DEF CodeRow
<1>3. c \notin Late /\ Late' = Late \cup {c} /\ Verdict' = Verdict
  BY <1>1, <1>2 DEF Late, Verdict
<1>4. Usable' = Usable \ {c}
  BY <1>1, <1>2 DEF Usable
<1>5. CASE c = issued
  <2>1. Usable' = {} /\ Tries' = 0
    BY <1>1, <1>4, <1>5 DEF Tries
  <2> QED
    BY <1>1, <1>3, <1>5, <2>1 DEF Key!Expire, Key!Gone
<1>6. CASE c # issued
  <2>1. Usable' = Usable
    BY <1>1, <1>4, <1>6
  <2>2. issued \in Codes
    BY <1>1
  <2>3. Tries' = Tries
    BY <1>1, <1>2, <1>6, <2>1, <2>2 DEF Tries
  <2> QED
    BY <1>1, <1>3, <1>6, <2>1, <2>3 DEF Key!Expire
<1> QED
  BY <1>5, <1>6

\* Whatever a drain writes to a delivery is a true verdict on it, and its first.
LEMMA DrainIsSettle ==
  ASSUME KeyInv, NEW w \in Workers, Drain(w)
  PROVE  Key!Settle
<1>1. /\ UNCHANGED <<issued, code, active, idled, opened>>
      /\ issued \in Nat /\ issued <= MaxCodes /\ mail \in [Codes -> MailRow]
      /\ Usable = {} \/ Usable = {issued}
  BY DrainLeaves, UsableOf
<1>2. Usable' = Usable /\ Tries' = Tries /\ Late' = Late
  BY <1>1 DEF Usable, Tries, Late
<1>3. ASSUME NEW c \in Codes
      PROVE  \/ Verdict'[c] = Verdict[c]
             \/ Verdict[c] = "waiting" /\ Key!Honest(c, Verdict'[c])
  <2>1. mail'[c] = mail[c] \/
          /\ mail[c].status \in Open
          /\ mail'[c].status # "none"
          /\ mail'[c].status = "expired" => ~code[c].live
          /\ mail'[c].status = "superseded" => code[c].used \/ ~code[c].live \/ idled
    BY DrainMail DEF KeyInv
  <2>2. mail'[c] \in MailRow
    BY DrainMail DEF KeyInv
  <2>3. CASE mail'[c] = mail[c] \/ mail'[c].status \in Open
    BY <2>1, <2>3 DEF Verdict
  <2>4. CASE mail'[c] # mail[c] /\ mail'[c].status \notin Open
    <3>1. Verdict[c] = "waiting" /\ Verdict'[c] = mail'[c].status
      BY <2>1, <2>4 DEF Verdict
    <3>2. mail'[c].status \in Final
      BY <2>1, <2>2, <2>4 DEF MailRow
    <3>3. ~code[c].live => c \in Late
      BY DEF Late
    <3>4. code[c].used \/ ~code[c].live => c # issued \/ ~(Usable # {})
      BY <1>1 DEF Usable
    <3> QED
      BY <2>1, <2>4, <3>1, <3>2, <3>3, <3>4 DEF Key!Honest
  <2> QED
    BY <2>3, <2>4
<1> QED
  BY <1>1, <1>2, <1>3 DEF Key!Settle, Key!Keys

\* Every transaction is a step of OneKey, or none.
LEMMA KeyStep ==
  ASSUME KeyInv, [Next]_vars
  PROVE  [Key!Next]_(Key!keyVars)
<1>1. CASE RequestCode
  BY <1>1, RequestIsIssue DEF Key!Next
<1>2. CASE VerifyRight
  BY <1>2, RightIsUse DEF Key!Next
<1>3. CASE VerifyWrong
  BY <1>3, WrongIsMiss DEF Key!Next
<1>4. CASE SetActive
  <2>1. Usable' = Usable /\ Tries' = Tries /\ Late' = Late /\ Verdict' = Verdict
    BY <1>4 DEF SetActive, Usable, Tries, Late, Verdict
  <2>2. Key!Switch
    BY <1>4, <2>1 DEF SetActive, Key!Switch
  <2> QED
    BY <2>2 DEF Key!Next
<1>5. ASSUME NEW c \in Codes, Expire(c) PROVE Key!Next
  BY <1>5, ExpireIsExpire DEF Key!Next, Key!Keys
<1>6. ASSUME NEW w \in Workers, Drain(w) PROVE Key!Next
  BY <1>6, DrainIsSettle DEF Key!Next
<1>7. CASE \/ UNCHANGED vars \/ \E c \in Codes : Wait(c)
           \/ \E w \in Workers : Crash(w)
  <2>1. UNCHANGED <<issued, code, active, idled, opened>>
    BY <1>7 DEF vars, history, Wait, Crash
  <2>2. ASSUME NEW c \in Codes
        PROVE  mail'[c].status = mail[c].status
    <3>1. ASSUME NEW d \in Codes, Wait(d) PROVE mail'[c].status = mail[c].status
      <4>1. mail \in [Codes -> MailRow]
        BY UsableOf
      <4> QED
        BY <3>1, <4>1 DEF Wait, MailRow
    <3> QED
      BY <1>7, <3>1 DEF vars, Crash
  <2>3. Usable' = Usable /\ Tries' = Tries /\ Late' = Late /\ Verdict' = Verdict
    BY <2>1, <2>2 DEF Usable, Tries, Late, Verdict
  <2> QED
    BY <2>1, <2>3 DEF Key!keyVars
<1> QED
  BY <1>1, <1>2, <1>3, <1>4, <1>5, <1>6, <1>7 DEF Next

\* A fresh table has no key.
LEMMA KeyInit == Init => Key!Init
<1> SUFFICES ASSUME Init PROVE Key!Init
  OBVIOUS
<1>1. issued = 0 /\ \A c \in Codes : code[c].live /\ mail[c].status = "none"
  BY DEF Init, NoCode, NoMail
<1>2. Usable = {}
  BY <1>1 DEF Usable
<1>3. Tries = 0 /\ Late = {}
  BY <1>1, <1>2 DEF Tries, Late
<1>4. Verdict = [c \in Codes |-> "none"]
  BY <1>1 DEF Verdict
<1> QED
  BY <1>1, <1>2, <1>3, <1>4 DEF Init, Key!Init, Key!Keys

\* The codes of an account and their deliveries are as good as one key: it opens one
\* session, is gone when it is used, late, missed too often or replaced, and every
\* delivery has one verdict, true when it is given (ImplementsOneKey).
THEOREM ImplementsOneKeyCorrect == Spec => ImplementsOneKey
  BY KeyInit, KeyStep, KeyInvariant, PTL DEF Spec, ImplementsOneKey, Key!Spec
=============================================================================
