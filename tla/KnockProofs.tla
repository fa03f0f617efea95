---------------------------- MODULE KnockProofs ----------------------------
(***************************************************************************)
(* Knocks, for any number of phones, representatives, taps, calls and      *)
(* faults: no tap is lost or queued twice, what its representative is told *)
(* is true, the newest tap keeps the door, and the money follows it.       *)
(***************************************************************************)
EXTENDS KnockSync, SequenceTheorems, WellFoundedInduction, TLAPS

USE KnockAssumption, AttemptsAssumption

Lane == [tap : Taps, attempts : 0..MaxAttempts, due : BOOLEAN]

-----------------------------------------------------------------------------
(* The lanes of one phone.                                                 *)

\* The lanes q and d hold every tap of W once, and nothing else.
Hold(q, d, W) ==
  /\ q \in Seq(Lane) /\ d \in Seq(Taps)
  /\ \A i \in 1..Len(q) : q[i].tap \in W
  /\ \A i \in 1..Len(d) : d[i] \in W
  /\ \A i, j \in 1..Len(q) : q[i].tap = q[j].tap => i = j
  /\ \A i, j \in 1..Len(d) : d[i] = d[j] => i = j
  /\ \A i \in 1..Len(q), j \in 1..Len(d) : q[i].tap # d[j]
  /\ \A t \in W : \/ \E i \in 1..Len(q) : q[i].tap = t
                  \/ \E i \in 1..Len(d) : d[i] = t

\* What removing one position does to a sequence.
LEMMA RemoveAtFacts ==
  ASSUME NEW S, NEW q \in Seq(S), NEW i \in 1..Len(q)
  PROVE  /\ RemoveAt(q, i) \in Seq(S)
         /\ Len(RemoveAt(q, i)) = Len(q) - 1
         /\ \A j \in 1..(Len(q) - 1) :
              RemoveAt(q, i)[j] = IF j < i THEN q[j] ELSE q[j + 1]
<1> DEFINE a == SubSeq(q, 1, i - 1)
           b == SubSeq(q, i + 1, Len(q))
<1>1. Len(q) \in Nat /\ \A j \in 1..Len(q) : q[j] \in S
  BY LenProperties, ElementOfSeq
<1>2. /\ a \in Seq(S) /\ Len(a) = i - 1
      /\ \A j \in 1..(i - 1) : a[j] = q[j]
  <2>1. /\ a \in Seq(S) /\ Len(a) = IF 1 <= i - 1 THEN (i - 1) - 1 + 1 ELSE 0
        /\ \A j \in 1..((i - 1) - 1 + 1) : a[j] = q[1 + j - 1]
    <3>1. \A j \in 1..(i - 1) : q[j] \in S
      BY <1>1
    <3>2. 1 \in Int /\ i - 1 \in Int
      BY <1>1
    <3> HIDE DEF a
    <3> QED
      BY <3>1, <3>2, SubSeqProperties DEF a
  <2> QED
    BY <1>1, <2>1
<1>3. /\ b \in Seq(S) /\ Len(b) = Len(q) - i
      /\ \A j \in 1..(Len(q) - i) : b[j] = q[i + j]
  <2>1. /\ b \in Seq(S) /\ Len(b) = IF i + 1 <= Len(q) THEN Len(q) - (i + 1) + 1 ELSE 0
        /\ \A j \in 1..(Len(q) - (i + 1) + 1) : b[j] = q[(i + 1) + j - 1]
    <3>1. \A j \in (i + 1)..Len(q) : q[j] \in S
      BY <1>1
    <3>2. i + 1 \in Int /\ Len(q) \in Int
      BY <1>1
    <3> HIDE DEF b
    <3> QED
      BY <3>1, <3>2, SubSeqProperties DEF b
  <2> QED
    BY <1>1, <2>1
<1>4. /\ a \o b \in Seq(S) /\ Len(a \o b) = Len(a) + Len(b)
      /\ \A j \in 1..(Len(a) + Len(b)) :
           (a \o b)[j] = IF j <= Len(a) THEN a[j] ELSE b[j - Len(a)]
  BY <1>2, <1>3, ConcatProperties
<1> HIDE DEF a, b
<1>5. RemoveAt(q, i) = a \o b
  BY DEF RemoveAt, a, b
<1>6. Len(a) + Len(b) = Len(q) - 1
  BY <1>1, <1>2, <1>3
<1>7. ASSUME NEW j \in 1..(Len(q) - 1)
      PROVE  (a \o b)[j] = IF j < i THEN q[j] ELSE q[j + 1]
  <2>1. CASE j < i
    <3>1. j \in 1..(i - 1) /\ j <= Len(a)
      BY <1>1, <1>2, <2>1
    <3> QED
      BY <1>2, <1>4, <1>6, <2>1, <3>1
  <2>2. CASE ~(j < i)
    <3>1. j - (i - 1) \in 1..(Len(q) - i) /\ ~(j <= Len(a)) /\ i + (j - (i - 1)) = j + 1
      BY <1>1, <1>2, <2>2
    <3>2. b[j - (i - 1)] = q[i + (j - (i - 1))]
      BY <1>3, <3>1
    <3> QED
      BY <1>2, <1>4, <1>6, <2>2, <3>1, <3>2
  <2> QED
    BY <2>1, <2>2
<1> QED
  BY <1>4, <1>5, <1>6, <1>7

\* The pending taps, and the parked ones behind them with n attempts.
Behind(q, d, n) == q \o [i \in 1..Len(d) |-> Item(d[i], n)]

\* What putting the parked taps behind the pending ones does.
LEMMA SweepFacts ==
  ASSUME NEW q \in Seq(Lane), NEW d \in Seq(Taps), NEW n \in 0..MaxAttempts
  PROVE  /\ Behind(q, d, n) \in Seq(Lane)
         /\ Len(Behind(q, d, n)) = Len(q) + Len(d)
         /\ \A i \in 1..Len(q) : Behind(q, d, n)[i] = q[i]
         /\ \A i \in 1..Len(d) : Behind(q, d, n)[Len(q) + i].tap = d[i]
<1> DEFINE s == Behind(q, d, n)
<1> DEFINE b == [i \in 1..Len(d) |-> Item(d[i], n)]
<1>1. Len(q) \in Nat /\ Len(d) \in Nat
  BY LenProperties
<1>2. \A i \in 1..Len(d) : d[i] \in Taps /\ Item(d[i], n) \in Lane
  BY ElementOfSeq DEF Item, Lane
<1>3. b \in [1..Len(d) -> Lane]
  BY <1>2
<1>4. b \in Seq(Lane)
  BY <1>1, <1>3, SeqDef
<1>5. Len(b) = Len(d)
  BY <1>1, <1>3, <1>4, LenProperties
<1>6. \A i \in 1..Len(d) : b[i].tap = d[i]
  BY DEF Item
<1> HIDE DEF b
<1>7. /\ q \o b \in Seq(Lane) /\ Len(q \o b) = Len(q) + Len(b)
      /\ \A i \in 1..(Len(q) + Len(b)) :
           (q \o b)[i] = IF i <= Len(q) THEN q[i] ELSE b[i - Len(q)]
  BY <1>4, ConcatProperties
<1>8. s = q \o b
  BY DEF b, Behind
<1>9. ASSUME NEW i \in 1..Len(d) PROVE s[Len(q) + i].tap = d[i]
  <2>1. Len(q) + i \in 1..(Len(q) + Len(b)) /\ ~(Len(q) + i <= Len(q))
        /\ (Len(q) + i) - Len(q) = i
    BY <1>1, <1>5
  <2> QED
    BY <1>6, <1>7, <1>8, <2>1
<1> QED
  BY <1>1, <1>5, <1>7, <1>8, <1>9

\* A tap that is settled leaves its lane.
LEMMA HoldRemove ==
  ASSUME NEW q, NEW d, NEW W, Hold(q, d, W), NEW i \in 1..Len(q)
  PROVE  Hold(RemoveAt(q, i), d, W \ {q[i].tap})
<1> DEFINE r == RemoveAt(q, i)
<1>1. /\ r \in Seq(Lane) /\ Len(r) = Len(q) - 1
      /\ \A j \in 1..(Len(q) - 1) : r[j] = IF j < i THEN q[j] ELSE q[j + 1]
  BY RemoveAtFacts DEF Hold
<1> HIDE DEF r
<1>2. Len(q) \in Nat /\ Len(d) \in Nat
  BY LenProperties DEF Hold
<1>3. \A j \in 1..Len(r) : \E k \in 1..Len(q) : r[j] = q[k] /\ k # i
                              /\ k = IF j < i THEN j ELSE j + 1
  BY <1>1, <1>2
<1>4. \A k \in 1..Len(q) : k # i => \E j \in 1..Len(r) : r[j] = q[k]
  <2> SUFFICES ASSUME NEW k \in 1..Len(q), k # i
               PROVE  \E j \in 1..Len(r) : r[j] = q[k]
    OBVIOUS
  <2>1. CASE k < i
    <3>1. k \in 1..Len(r) /\ r[k] = q[k]
      BY <1>1, <1>2, <2>1
    <3> QED
      BY <3>1
  <2>2. CASE ~(k < i)
    <3>1. k - 1 \in 1..Len(r) /\ r[k - 1] = q[k]
      BY <1>1, <1>2, <2>2
    <3> QED
      BY <3>1
  <2> QED
    BY <2>1, <2>2
<1>5. \A j \in 1..Len(r) : r[j].tap \in W \ {q[i].tap}
  BY <1>3 DEF Hold
<1>6. \A j, k \in 1..Len(r) : r[j].tap = r[k].tap => j = k
  <2> SUFFICES ASSUME NEW j \in 1..Len(r), NEW k \in 1..Len(r), r[j].tap = r[k].tap
               PROVE  j = k
    OBVIOUS
  <2>1. PICK x \in 1..Len(q) : r[j] = q[x] /\ x = IF j < i THEN j ELSE j + 1
    BY <1>3
  <2>2. PICK y \in 1..Len(q) : r[k] = q[y] /\ y = IF k < i THEN k ELSE k + 1
    BY <1>3
  <2>3. x = y
    BY <2>1, <2>2 DEF Hold
  <2> QED
    BY <1>1, <1>2, <2>1, <2>2, <2>3
<1>7. \A j \in 1..Len(r), k \in 1..Len(d) : r[j].tap # d[k]
  BY <1>3 DEF Hold
<1>8. \A k \in 1..Len(d) : d[k] \in W \ {q[i].tap}
  BY DEF Hold
<1>9. ASSUME NEW t \in W \ {q[i].tap}
      PROVE  \/ \E j \in 1..Len(r) : r[j].tap = t
             \/ \E j \in 1..Len(d) : d[j] = t
  <2>1. CASE \E k \in 1..Len(q) : q[k].tap = t
    <3>1. PICK k \in 1..Len(q) : q[k].tap = t
      BY <2>1
    <3>2. k # i
      BY <3>1
    <3> QED
      BY <1>4, <3>1, <3>2
  <2>2. CASE \E j \in 1..Len(d) : d[j] = t
    BY <2>2
  <2> QED
    BY <2>1, <2>2 DEF Hold
<1>10. d \in Seq(Taps) /\ \A j, k \in 1..Len(d) : d[j] = d[k] => j = k
  BY DEF Hold
<1> QED
  BY <1>1, <1>5, <1>6, <1>7, <1>8, <1>9, <1>10 DEF Hold, r

\* A tap that is parked changes lanes.
LEMMA HoldPark ==
  ASSUME NEW q, NEW d, NEW W, Hold(q, d, W), NEW i \in 1..Len(q)
  PROVE  Hold(RemoveAt(q, i), Append(d, q[i].tap), W)
<1> DEFINE r == RemoveAt(q, i)
           t == q[i].tap
           e == Append(d, t)
<1>1. Hold(r, d, W \ {t})
  BY HoldRemove
<1>2. t \in Taps /\ t \in W
  <2>1. q[i] \in Lane
    BY ElementOfSeq DEF Hold
  <2> QED
    BY <2>1 DEF Hold, Lane
<1>3. /\ e \in Seq(Taps) /\ Len(e) = Len(d) + 1
      /\ \A k \in 1..Len(d) : e[k] = d[k]
      /\ e[Len(d) + 1] = t
  BY <1>2, AppendProperties DEF Hold
<1>4. Len(d) \in Nat /\ Len(r) \in Nat
  BY <1>1, LenProperties DEF Hold
<1> HIDE DEF r, t, e
<1>5. \A k \in 1..Len(e) : k \in 1..Len(d) \/ k = Len(d) + 1
  BY <1>3, <1>4
<1>6. \A k \in 1..Len(d) : k \in 1..Len(e)
  BY <1>3, <1>4
<1>7. Len(d) + 1 \in 1..Len(e)
  BY <1>3, <1>4
<1>8. \A k \in 1..Len(e) : e[k] \in W
  BY <1>1, <1>2, <1>3, <1>5 DEF Hold
<1>13. /\ \A k \in 1..Len(d) : d[k] # t
       /\ \A k \in 1..Len(r) : r[k].tap # t
       /\ \A j, k \in 1..Len(d) : d[j] = d[k] => j = k
       /\ \A j \in 1..Len(r), k \in 1..Len(d) : r[j].tap # d[k]
  BY <1>1 DEF Hold
<1>9. \A j, k \in 1..Len(e) : e[j] = e[k] => j = k
  BY <1>3, <1>5, <1>13
<1>10. \A j \in 1..Len(r), k \in 1..Len(e) : r[j].tap # e[k]
  BY <1>3, <1>5, <1>13
<1>11. ASSUME NEW u \in W
       PROVE  \/ \E j \in 1..Len(r) : r[j].tap = u
              \/ \E j \in 1..Len(e) : e[j] = u
  <2>1. CASE u = t
    BY <1>3, <1>7, <2>1
  <2>2. CASE u # t
    BY <1>1, <1>3, <1>6, <2>2 DEF Hold
  <2> QED
    BY <2>1, <2>2
<1>12. /\ r \in Seq(Lane) /\ \A j \in 1..Len(r) : r[j].tap \in W
       /\ \A j, k \in 1..Len(r) : r[j].tap = r[k].tap => j = k
  BY <1>1 DEF Hold
<1> QED
  BY <1>3, <1>8, <1>9, <1>10, <1>11, <1>12 DEF Hold, r, t, e

\* The parked taps go behind the pending ones.
LEMMA HoldSweep ==
  ASSUME NEW q, NEW d, NEW W, Hold(q, d, W), NEW n \in 0..MaxAttempts
  PROVE  Hold(Behind(q, d, n), <<>>, W)
<1> DEFINE s == Behind(q, d, n)
<1>1. /\ s \in Seq(Lane) /\ Len(s) = Len(q) + Len(d)
      /\ \A i \in 1..Len(q) : s[i] = q[i]
      /\ \A i \in 1..Len(d) : s[Len(q) + i].tap = d[i]
  <2>1. q \in Seq(Lane) /\ d \in Seq(Taps)
    BY DEF Hold
  <2> QED
    BY <2>1, SweepFacts
<1> HIDE DEF s
<1>2. Len(q) \in Nat /\ Len(d) \in Nat
  BY LenProperties DEF Hold
<1>3. /\ <<>> \in Seq(Taps) /\ 1..Len(<<>>) = {}
  BY EmptySeq
<1>4. \A i \in 1..Len(s) : \/ i \in 1..Len(q) /\ s[i] = q[i]
                           \/ /\ i - Len(q) \in 1..Len(d) /\ ~(i \in 1..Len(q))
                              /\ s[i].tap = d[i - Len(q)]
  <2> SUFFICES ASSUME NEW i \in 1..Len(s), ~(i \in 1..Len(q))
               PROVE  i - Len(q) \in 1..Len(d) /\ s[i].tap = d[i - Len(q)]
    BY <1>1
  <2>1. i - Len(q) \in 1..Len(d) /\ Len(q) + (i - Len(q)) = i
    BY <1>1, <1>2
  <2> QED
    BY <1>1, <2>1
<1>5. \A i \in 1..Len(s) : s[i].tap \in W
  BY <1>4 DEF Hold
<1>6. ASSUME NEW i \in 1..Len(s), NEW j \in 1..Len(s), s[i].tap = s[j].tap
      PROVE  i = j
  <2>1. CASE i \in 1..Len(q) /\ j \in 1..Len(q)
    BY <1>1, <1>6, <2>1 DEF Hold
  <2>5. \A k \in 1..Len(q), l \in 1..Len(d) : q[k].tap # d[l]
    BY DEF Hold
  <2>2. CASE i \in 1..Len(q) /\ ~(j \in 1..Len(q))
    <3>1. s[i] = q[i]
      BY <1>1, <2>2
    <3>2. j - Len(q) \in 1..Len(d) /\ s[j].tap = d[j - Len(q)]
      BY <1>4, <2>2
    <3> QED
      BY <1>6, <2>2, <2>5, <3>1, <3>2
  <2>3. CASE ~(i \in 1..Len(q)) /\ j \in 1..Len(q)
    <3>1. s[j] = q[j]
      BY <1>1, <2>3
    <3>2. i - Len(q) \in 1..Len(d) /\ s[i].tap = d[i - Len(q)]
      BY <1>4, <2>3
    <3> QED
      BY <1>6, <2>3, <2>5, <3>1, <3>2
  <2>4. CASE ~(i \in 1..Len(q)) /\ ~(j \in 1..Len(q))
    <3>1. i - Len(q) = j - Len(q)
      <4>1. /\ i - Len(q) \in 1..Len(d) /\ s[i].tap = d[i - Len(q)]
            /\ j - Len(q) \in 1..Len(d) /\ s[j].tap = d[j - Len(q)]
        BY <1>4, <2>4
      <4>2. \A k, l \in 1..Len(d) : d[k] = d[l] => k = l
        BY DEF Hold
      <4> QED
        BY <1>6, <4>1, <4>2
    <3>2. i \in Nat /\ j \in Nat
      BY <1>1, <1>2
    <3> QED
      BY <1>2, <3>1, <3>2
  <2> QED
    BY <2>1, <2>2, <2>3, <2>4
<1>7. ASSUME NEW t \in W
      PROVE  \E i \in 1..Len(s) : s[i].tap = t
  <2>1. CASE \E i \in 1..Len(q) : q[i].tap = t
    <3>1. PICK i \in 1..Len(q) : q[i].tap = t
      BY <2>1
    <3>2. i \in 1..Len(s)
      BY <1>1, <1>2
    <3> QED
      BY <1>1, <3>1, <3>2
  <2>2. CASE \E i \in 1..Len(d) : d[i] = t
    <3>1. PICK i \in 1..Len(d) : d[i] = t
      BY <2>2
    <3>2. Len(q) + i \in 1..Len(s)
      BY <1>1, <1>2
    <3> QED
      BY <1>1, <3>1, <3>2
  <2> QED
    BY <2>1, <2>2 DEF Hold
<1> QED
  BY <1>1, <1>3, <1>5, <1>6, <1>7 DEF Hold, s

\* A new tap goes last.
LEMMA HoldAppend ==
  ASSUME NEW q, NEW d, NEW W, Hold(q, d, W), NEW t \in Taps, t \notin W
  PROVE  Hold(Append(q, Item(t, 0)), d, W \cup {t})
<1> DEFINE x == Item(t, 0)
           s == Append(q, x)
<1>1. x \in Lane /\ x.tap = t
  BY DEF Item, Lane
<1>2. /\ s \in Seq(Lane) /\ Len(s) = Len(q) + 1
      /\ \A k \in 1..Len(q) : s[k] = q[k]
      /\ s[Len(q) + 1] = x
  <2> HIDE DEF x
  <2> QED
    BY <1>1, AppendProperties DEF Hold
<1>3. Len(q) \in Nat
  BY LenProperties DEF Hold
<1> HIDE DEF x, s
<1>4. \A k \in 1..Len(s) : k \in 1..Len(q) \/ k = Len(q) + 1
  BY <1>2, <1>3
<1>5. (\A k \in 1..Len(q) : k \in 1..Len(s)) /\ Len(q) + 1 \in 1..Len(s)
  BY <1>2, <1>3
<1>6. \A k \in 1..Len(s) : s[k].tap \in W \cup {t}
  BY <1>1, <1>2, <1>4 DEF Hold
<1>7. \A j, k \in 1..Len(s) : s[j].tap = s[k].tap => j = k
  BY <1>1, <1>2, <1>4 DEF Hold
<1>8. \A j \in 1..Len(s), k \in 1..Len(d) : s[j].tap # d[k]
  BY <1>1, <1>2, <1>4 DEF Hold
<1>9. ASSUME NEW u \in W \cup {t}
      PROVE  \/ \E j \in 1..Len(s) : s[j].tap = u
             \/ \E j \in 1..Len(d) : d[j] = u
  <2>1. CASE u = t
    BY <1>1, <1>2, <1>5, <2>1
  <2>2. CASE \E j \in 1..Len(q) : q[j].tap = u
    <3>1. PICK j \in 1..Len(q) : q[j].tap = u
      BY <2>2
    <3>2. j \in 1..Len(s) /\ s[j].tap = u
      BY <1>2, <1>5, <3>1
    <3> QED
      BY <3>2
  <2> QED
    BY <2>1, <2>2 DEF Hold
<1>10. /\ d \in Seq(Taps) /\ \A j \in 1..Len(d) : d[j] \in W \cup {t}
       /\ \A j, k \in 1..Len(d) : d[j] = d[k] => j = k
  BY DEF Hold
<1> QED
  BY <1>2, <1>6, <1>7, <1>8, <1>9, <1>10 DEF Hold, s, x

\* An item that waits, or waits no longer, stays where it is.
LEMMA HoldEdit ==
  ASSUME NEW q, NEW d, NEW W, Hold(q, d, W), NEW i \in 1..Len(q),
         NEW x \in Lane, x.tap = q[i].tap
  PROVE  /\ Hold([q EXCEPT ![i] = x], d, W)
         /\ Len([q EXCEPT ![i] = x]) = Len(q)
         /\ \A j \in 1..Len(q) : [q EXCEPT ![i] = x][j].tap = q[j].tap
<1> DEFINE s == [q EXCEPT ![i] = x]
<1>1. /\ s \in Seq(Lane) /\ Len(s) = Len(q)
      /\ \A j \in 1..Len(q) : s[j] = IF j = i THEN x ELSE q[j]
  BY ExceptSeq DEF Hold
<1> HIDE DEF s
<1>2. \A j \in 1..Len(q) : s[j].tap = q[j].tap
  BY <1>1
<1>3. Hold(s, d, W)
  <2>1. /\ \A j \in 1..Len(s) : s[j].tap \in W
        /\ \A j, k \in 1..Len(s) : s[j].tap = s[k].tap => j = k
        /\ \A j \in 1..Len(s), k \in 1..Len(d) : s[j].tap # d[k]
    BY <1>1, <1>2 DEF Hold
  <2>2. ASSUME NEW t \in W
        PROVE  \/ \E j \in 1..Len(s) : s[j].tap = t
               \/ \E j \in 1..Len(d) : d[j] = t
    <3>1. CASE \E j \in 1..Len(q) : q[j].tap = t
      <4>1. PICK j \in 1..Len(q) : q[j].tap = t
        BY <3>1
      <4>2. j \in 1..Len(s) /\ s[j].tap = t
        BY <1>1, <1>2, <4>1
      <4> QED
        BY <4>2
    <3> QED
      BY <3>1 DEF Hold
  <2>3. /\ d \in Seq(Taps) /\ \A j \in 1..Len(d) : d[j] \in W
        /\ \A j, k \in 1..Len(d) : d[j] = d[k] => j = k
    BY DEF Hold
  <2> QED
    BY <1>1, <2>1, <2>2, <2>3 DEF Hold
<1> QED
  BY <1>1, <1>2, <1>3 DEF s

\* An empty phone.
LEMMA HoldNothing == Hold(<<>>, <<>>, {})
  BY EmptySeq DEF Hold

-----------------------------------------------------------------------------
(* Types.                                                                  *)

CallRow ==
  [st : {"idle", "sent", "insert", "bundle", "mark", "heal", "remark", "answered"},
   tap : Taps \cup {0}, phone : Phones \cup {Nobody}, idx : Nat,
   fresh : BOOLEAN, ans : Answers \cup {"none"}]

\* A request under way goes on about the same tap, for the same flush; one that
\* nobody waits for may end.
GoesOn(d) ==
  \/ /\ call'[d].tap = call[d].tap /\ call'[d].phone = call[d].phone
     /\ call'[d].idx = call[d].idx /\ call'[d].fresh = call[d].fresh
     /\ call'[d].st # "idle" => call[d].st # "idle"
  \/ call[d].phone = Nobody /\ call'[d] = NoCall

\* What a request under way is about, and what a marked one knows.
CallsAreNamed ==
  \A c \in Calls :
    /\ call[c].st # "idle" =>
         call[c].tap \in Taps /\ taps[call[c].tap].at > 0
    /\ call[c].st \in {"heal", "remark", "mark"} =>
         call[c].ans \in {"applied", "superseded"}

LEMMA TimesAreNumbers == Times \cup {0} \subseteq Nat /\ 0 \notin Times
  BY DEF Times

LEMMA NoCallType == NoCall \in CallRow
  BY DEF NoCall, CallRow, Answers

LEMMA Answering ==
  ASSUME ServerTypeOK, NEW c \in Calls, NEW a \in Answers, Answered(c, a),
         call[c].st # "idle"
  PROVE  call' \in [Calls -> CallRow] /\ \A d \in Calls : GoesOn(d)
<1>1. call \in [Calls -> CallRow]
  BY DEF ServerTypeOK, CallRow
<1>2. CASE call[c].phone = Nobody
  <2>1. call' = [call EXCEPT ![c] = NoCall]
    BY <1>1, <1>2 DEF Answered
  <2> QED
    BY <1>1, <1>2, <2>1, NoCallType DEF GoesOn
<1>3. CASE call[c].phone # Nobody
  <2>1. call' = [call EXCEPT ![c] = [call[c] EXCEPT !.st = "answered", !.ans = a]]
    BY <1>1, <1>3 DEF Answered
  <2>2. [call[c] EXCEPT !.st = "answered", !.ans = a] \in CallRow
    BY <1>1 DEF CallRow
  <2> QED
    BY <1>1, <2>1, <2>2 DEF GoesOn, CallRow
<1> QED
  BY <1>2, <1>3

\* A statement of the handler that is not the last.
LEMMA Proceeding ==
  ASSUME ServerTypeOK, NEW c \in Calls, call[c].st # "idle",
         NEW st \in {"insert", "bundle", "heal", "remark", "mark"},
         NEW a \in Answers \cup {"none"},
         call' = [call EXCEPT ![c] = [call[c] EXCEPT !.st = st, !.ans = a]]
  PROVE  call' \in [Calls -> CallRow] /\ \A d \in Calls : GoesOn(d)
<1>1. call \in [Calls -> CallRow]
  BY DEF ServerTypeOK, CallRow
<1>2. [call[c] EXCEPT !.st = st, !.ans = a] \in CallRow
  BY <1>1 DEF CallRow
<1> QED
  BY <1>1, <1>2 DEF GoesOn, CallRow

\* Every step of a request keeps its row in order.
LEMMA ServeCalls ==
  ASSUME ServerTypeOK, CallsAreNamed, NEW c \in Calls, Serve(c) \/ Refuse(c) \/ Die(c)
  PROVE  /\ call' \in [Calls -> CallRow] /\ \A d \in Calls : GoesOn(d)
         /\ call[c].st # "idle" /\ call[c].tap \in Taps /\ taps[call[c].tap].at > 0
         /\ taps' = taps
<1>1. call[c].st # "idle" /\ taps' = taps
  BY DEF Serve, Lookup, Insert, Bundle, Heal, Remark, HealFails, Mark, Refuse, Die, At
<1>2. call[c].tap \in Taps /\ taps[call[c].tap].at > 0
  BY <1>1 DEF CallsAreNamed
<1>3. call \in [Calls -> CallRow]
  BY DEF ServerTypeOK, CallRow
<1>4. call[c] = [st |-> call[c].st, tap |-> call[c].tap, phone |-> call[c].phone,
                 idx |-> call[c].idx, fresh |-> call[c].fresh, ans |-> call[c].ans]
      /\ call[c].ans \in Answers \cup {"none"}
  BY <1>3 DEF CallRow
<1>5. ASSUME Refuse(c) \/ Die(c)
      PROVE  call' \in [Calls -> CallRow] /\ \A d \in Calls : GoesOn(d)
  <2>1. PICK a \in Answers : Answered(c, a)
    BY <1>5 DEF Refuse, Die, Answers
  <2> QED
    BY <1>1, <2>1, Answering
<1>6. ASSUME Lookup(c)
      PROVE  call' \in [Calls -> CallRow] /\ \A d \in Calls : GoesOn(d)
  <2>1. PICK st \in {"insert", "heal"}, a \in Answers \cup {"none"} :
          call' = [call EXCEPT ![c] = [call[c] EXCEPT !.st = st, !.ans = a]]
    <3>1. CASE row[call[c].tap] = "none"
      <4>1. call' = [call EXCEPT ![c].st = "insert"]
        BY <1>6, <3>1 DEF Lookup, GoTo
      <4>2. call' = [call EXCEPT ![c] = [call[c] EXCEPT !.st = "insert", !.ans = call[c].ans]]
        BY <1>3, <1>4, <4>1 DEF CallRow
      <4> QED
        BY <1>4, <4>2
    <3>2. CASE row[call[c].tap] # "none"
      <4> DEFINE a == IF row[call[c].tap] = "superseded" THEN "superseded" ELSE "applied"
      <4>1. call' = [call EXCEPT ![c].st = "heal", ![c].ans = a]
        BY <1>6, <3>2 DEF Lookup
      <4>2. call' = [call EXCEPT ![c] = [call[c] EXCEPT !.st = "heal", !.ans = a]]
        BY <1>3, <1>4, <4>1 DEF CallRow
      <4>3. a \in Answers
        BY DEF Answers
      <4> QED
        BY <4>2, <4>3
    <3> QED
      BY <3>1, <3>2
  <2> QED
    BY <1>1, <2>1, Proceeding
<1>7. ASSUME Insert(c)
      PROVE  call' \in [Calls -> CallRow] /\ \A d \in Calls : GoesOn(d)
  <2>1. CASE row[call[c].tap] = "none"
    <3>1. call' = [call EXCEPT ![c].st = "bundle"]
      BY <1>7, <2>1 DEF Insert, GoTo
    <3>2. call' = [call EXCEPT ![c] = [call[c] EXCEPT !.st = "bundle", !.ans = call[c].ans]]
      BY <1>3, <1>4, <3>1 DEF CallRow
    <3> QED
      BY <1>1, <1>4, <3>2, Proceeding
  <2>2. CASE row[call[c].tap] # "none"
    BY <1>1, <1>7, <2>2, Answering DEF Insert, Answers
  <2> QED
    BY <2>1, <2>2
<1>8. ASSUME NEW v, v \in {"applied", "superseded"},
             call' = [call EXCEPT ![c].st = "mark", ![c].ans = v]
      PROVE  call' \in [Calls -> CallRow] /\ \A d \in Calls : GoesOn(d)
  <2>1. call' = [call EXCEPT ![c] = [call[c] EXCEPT !.st = "mark", !.ans = v]]
    BY <1>3, <1>4, <1>8 DEF CallRow
  <2>2. v \in Answers
    BY <1>8 DEF Answers
  <2> QED
    BY <1>1, <2>1, <2>2, Proceeding
<1>9. Verdict(call[c].tap) \in {"applied", "superseded"}
  BY DEF Verdict
<1>10. ASSUME Bundle(c)
       PROVE  call' \in [Calls -> CallRow] /\ \A d \in Calls : GoesOn(d)
  <2>1. CASE call' = [call EXCEPT ![c].st = "mark", ![c].ans = Verdict(call[c].tap)]
    BY <1>8, <1>9, <2>1
  <2>2. CASE Failed(c) \/ Answered(c, "terminal")
    BY <1>1, <2>2, Answering DEF Failed, Answers, Refusals
  <2> QED
    BY <1>10, <2>1, <2>2 DEF Bundle
<1>11. ASSUME Heal(c)
       PROVE  call' \in [Calls -> CallRow] /\ \A d \in Calls : GoesOn(d)
  <2>1. call[c].ans \in Answers
    BY <1>11 DEF Heal, At, CallsAreNamed, Answers
  <2>2. CASE GoTo(c, "remark")
    <3>1. call' = [call EXCEPT ![c].st = "remark"]
      BY <2>2 DEF GoTo
    <3>2. call' = [call EXCEPT ![c] = [call[c] EXCEPT !.st = "remark", !.ans = call[c].ans]]
      BY <1>3, <1>4, <3>1 DEF CallRow
    <3> QED
      BY <1>1, <1>4, <3>2, Proceeding
  <2>3. CASE Answered(c, call[c].ans)
    BY <1>1, <2>1, <2>3, Answering
  <2> QED
    BY <1>11, <2>2, <2>3 DEF Heal
<1>12. ASSUME Remark(c) \/ HealFails(c) \/ Mark(c)
       PROVE  call' \in [Calls -> CallRow] /\ \A d \in Calls : GoesOn(d)
  <2>1. PICK a \in {call[c].ans, Other(call[c].ans)} : Answered(c, a)
    BY <1>12 DEF Remark, HealFails, Mark
  <2>2. call[c].ans \in {"applied", "superseded"}
    BY <1>12 DEF Remark, HealFails, Mark, At, CallsAreNamed
  <2>3. a \in Answers
    BY <2>1, <2>2 DEF Other, Answers
  <2> QED
    BY <1>1, <2>1, <2>3, Answering
<1> QED
  BY <1>1, <1>2, <1>5, <1>6, <1>7, <1>10, <1>11, <1>12 DEF Serve

-----------------------------------------------------------------------------
(* The door and its money.                                                 *)

\* What the money bundle does for a tap.
LEMMA BundleTypes ==
  ASSUME ServerTypeOK, NEW t \in Taps, MoneyBundle(t), taps[t].at > 0
  PROVE  /\ door' \in [outcome : Outcomes \cup {"none"}, at : Times \cup {0}]
         /\ sale' \in [st : {"none", "QUALIFIED", "PENDING", "REVERSED"},
                       rep : Reps \cup {Nobody}]
         /\ dues' \subseteq Taps \X DueStates
         /\ applied' \subseteq Taps /\ applied \subseteq applied'
         /\ door'.at >= door.at /\ door'.at >= taps[t].at
         /\ Wins(t) => t \in applied'
<1>1. /\ taps[t].at \in Times \cup {0} /\ taps[t].outcome \in Outcomes
      /\ taps[t].rep \in Reps \cup {Nobody} /\ taps[t].at \in Nat
      /\ door.at \in Nat
  BY TimesAreNumbers DEF ServerTypeOK
<1>2. CASE ~Wins(t)
  <2>1. UNCHANGED <<door, applied, sale, dues>>
    BY <1>2 DEF MoneyBundle
  <2>2. door.at >= taps[t].at
    BY <1>1, <1>2 DEF Wins
  <2> QED
    BY <1>1, <1>2, <2>1, <2>2 DEF ServerTypeOK
<1>3. CASE Wins(t)
  <2>1. /\ door' = [outcome |-> taps[t].outcome, at |-> taps[t].at]
        /\ applied' = applied \cup {t}
        /\ IF taps[t].outcome = "sold" THEN Book(t) ELSE Unbook
    BY <1>3 DEF MoneyBundle
  <2>2. door'.at >= door.at /\ door'.at >= taps[t].at
    BY <1>1, <1>3, <2>1 DEF Wins
  <2>3. /\ sale' \in [st : {"none", "QUALIFIED", "PENDING", "REVERSED"},
                      rep : Reps \cup {Nobody}]
        /\ dues' \subseteq Taps \X DueStates
    <3>1. CASE taps[t].outcome = "sold"
      BY <1>1, <2>1, <3>1 DEF Book, ServerTypeOK, DueStates
    <3>2. CASE taps[t].outcome # "sold"
      BY <2>1, <3>2 DEF Unbook, ServerTypeOK
    <3> QED
      BY <3>1, <3>2
  <2>4. door' \in [outcome : Outcomes \cup {"none"}, at : Times \cup {0}]
    BY <1>1, <2>1
  <2> QED
    BY <2>1, <2>2, <2>3, <2>4 DEF ServerTypeOK
<1> QED
  BY <1>2, <1>3

\* The door shows the newest applied tap, or something newer still, and its money
\* is what that tap calls for.
DoorInv ==
  /\ \A t \in applied : taps[t].at > 0
  /\ NewestTapWins /\ MoneyFollowsKnocks

\* A tap that wins the door, and its bundle.
LEMMA BundleDoor ==
  ASSUME ServerTypeOK, DoorInv, NEW t \in Taps, MoneyBundle(t), taps[t].at > 0,
         taps' = taps
  PROVE  DoorInv'
<1>1. \A u \in Taps : taps[u].at \in Nat
  BY TimesAreNumbers DEF ServerTypeOK
<1>2. door.at \in Nat
  BY TimesAreNumbers DEF ServerTypeOK
<1>3. CASE ~Wins(t)
  <2>1. UNCHANGED <<door, applied, sale, dues, taps>>
    BY <1>3 DEF MoneyBundle
  <2> QED
    BY <2>1 DEF DoorInv, NewestTapWins, MoneyFollowsKnocks, Newest
<1>4. CASE Wins(t)
  <2>1. /\ door' = [outcome |-> taps[t].outcome, at |-> taps[t].at]
        /\ applied' = applied \cup {t}
        /\ IF taps[t].outcome = "sold" THEN Book(t) ELSE Unbook
    BY <1>4 DEF MoneyBundle
  <2>2. (\A u \in applied' : taps'[u].at > 0) /\ applied \subseteq Taps
    BY <2>1 DEF DoorInv, ServerTypeOK
  <2>3. ASSUME NEW u \in applied'
        PROVE  \/ door'.at > taps[u].at
               \/ door' = [outcome |-> taps[u].outcome, at |-> taps[u].at]
    <3>1. CASE u = t
      BY <2>1, <3>1
    <3>2. CASE u # t
      <4>1. u \in applied /\ u \in Taps
        BY <2>1, <2>2, <3>2
      <4>2. \/ door.at > taps[u].at
            \/ door = [outcome |-> taps[u].outcome, at |-> taps[u].at]
        BY <4>1 DEF DoorInv, NewestTapWins
      <4>3. CASE door.at < taps[t].at
        BY <1>1, <1>2, <2>1, <4>1, <4>2, <4>3
      <4>4. CASE door = [outcome |-> taps[t].outcome, at |-> taps[t].at]
        BY <2>1, <4>2, <4>4
      <4> QED
        BY <1>4, <4>3, <4>4 DEF Wins
    <3> QED
      BY <3>1, <3>2
  <2>4. \A u \in Newest' : taps[u].outcome = taps[t].outcome
    <3> SUFFICES ASSUME NEW u \in Newest' PROVE taps[u].outcome = taps[t].outcome
      OBVIOUS
    <3>1. u \in applied' /\ taps[t].at <= taps[u].at
      BY <2>1 DEF Newest
    <3>2. u \in Taps
      BY <2>1, <2>2, <3>1
    <3>3. door'.at = taps[t].at
      BY <2>1
    <3>4. door' = [outcome |-> taps[u].outcome, at |-> taps[u].at]
      BY <1>1, <2>3, <3>1, <3>2, <3>3
    <3> QED
      BY <2>1, <3>4
  <2>5. Outstanding' = {d \in dues' : d[2] \in {"pending", "approved"}}
    BY DEF Outstanding
  <2>6. \A d \in dues : d[2] # "paid" => d \in Outstanding
    BY DEF Outstanding, ServerTypeOK, DueStates
  <2>7. MoneyFollowsKnocks'
    <3>1. CASE taps[t].outcome = "sold"
      <4>1. /\ sale'.st # "none"
            /\ dues' = IF Outstanding = {} THEN dues \cup {<<t, "pending">>} ELSE dues
        BY <2>1, <3>1 DEF Book
      <4>2. dues' # {}
        BY <4>1 DEF Outstanding
      <4>3. \A d, e \in dues' : d[2] # "paid" /\ e[2] # "paid" => d = e
        <5>1. CASE Outstanding = {}
          BY <2>6, <4>1, <5>1
        <5>2. CASE Outstanding # {}
          BY <4>1, <5>2 DEF DoorInv, MoneyFollowsKnocks
        <5> QED
          BY <5>1, <5>2
      <4> QED
        BY <2>4, <3>1, <4>1, <4>2, <4>3 DEF MoneyFollowsKnocks
    <3>2. CASE taps[t].outcome # "sold"
      <4>1. /\ sale' = IF sale.st = "none" THEN sale ELSE [sale EXCEPT !.st = "REVERSED"]
            /\ dues' = {d \in dues : d[2] # "pending"}
        BY <2>1, <3>2 DEF Unbook
      <4>2. sale'.st \in {"none", "REVERSED"}
        BY <4>1 DEF ServerTypeOK
      <4>3. \A d, e \in dues' : d[2] # "paid" /\ e[2] # "paid" => d = e
        BY <4>1 DEF DoorInv, MoneyFollowsKnocks
      <4>4. \A d \in dues' : d[2] # "pending"
        BY <4>1
      <4> QED
        BY <2>4, <3>2, <4>2, <4>3, <4>4 DEF MoneyFollowsKnocks
    <3> QED
      BY <3>1, <3>2
  <2>8. NewestTapWins'
    BY <2>3 DEF NewestTapWins
  <2> QED
    BY <2>2, <2>7, <2>8 DEF DoorInv
<1> QED
  BY <1>3, <1>4

-----------------------------------------------------------------------------
(* The server.                                                             *)

\* What a call is about to be answered is so.
TrueAnswer(c) ==
  /\ call[c].st \in {"mark", "answered"} /\ call[c].ans = "applied" =>
       call[c].tap \in applied \cup unhealed
  /\ call[c].st \in {"heal", "mark", "answered"} /\ call[c].ans = "superseded" =>
       door.at >= taps[call[c].tap].at
  /\ call[c].st = "remark" =>
       /\ door.at >= taps[call[c].tap].at
       /\ call[c].ans = "superseded" => call[c].tap \in applied

\* A call that is past the insert is about a tap with a row.
HasRow(c) ==
  \/ call[c].st \in {"bundle", "mark", "heal", "remark"}
  \/ call[c].st = "answered" /\ call[c].ans \in {"applied", "superseded"}
  => row[call[c].tap] # "none"

\* ... and so is what the row of a tap remembers.
AnswersAreTrue ==
  /\ \A t \in Taps : row[t] # "none" => taps[t].at > 0
  /\ \A t \in Taps : row[t] = "superseded" => door.at >= taps[t].at
  /\ \A c \in Calls : TrueAnswer(c) /\ HasRow(c)
  /\ VerdictsAreTrue

ServerInv == ServerTypeOK /\ CallsAreNamed /\ DoorInv /\ AnswersAreTrue

\* The door never goes back, and nothing applied is forgotten.
Advances ==
  /\ taps' = taps
  /\ applied \subseteq applied' /\ unhealed \subseteq unhealed'
  /\ door'.at \in Nat /\ door'.at >= door.at

\* A step of call c leaves the others alone.
LEMMA OtherCalls ==
  ASSUME ServerTypeOK, NEW c \in Calls, Serve(c) \/ Refuse(c) \/ Die(c)
  PROVE  \A d \in Calls : d # c => call'[d] = call[d]
<1>1. call \in [Calls -> CallRow]
  BY DEF ServerTypeOK, CallRow
<1>2. ASSUME NEW r, call' = [call EXCEPT ![c] = r]
      PROVE  \A d \in Calls : d # c => call'[d] = call[d]
  BY <1>1, <1>2
<1>3. ASSUME NEW a, Answered(c, a)
      PROVE  \A d \in Calls : d # c => call'[d] = call[d]
  BY <1>1, <1>3 DEF Answered
<1>4. ASSUME NEW st, NEW a, call' = [call EXCEPT ![c].st = st, ![c].ans = a]
      PROVE  \A d \in Calls : d # c => call'[d] = call[d]
  BY <1>1, <1>4
<1>5. ASSUME NEW st, GoTo(c, st)
      PROVE  \A d \in Calls : d # c => call'[d] = call[d]
  BY <1>1, <1>5 DEF GoTo
<1>6. CASE Refuse(c) \/ Die(c)
  BY <1>3, <1>6 DEF Refuse, Die
<1>7. CASE Lookup(c)
  <2>1. CASE row[call[c].tap] = "none"
    BY <1>5, <1>7, <2>1 DEF Lookup
  <2>2. CASE row[call[c].tap] # "none"
    BY <1>4, <1>7, <2>2 DEF Lookup
  <2> QED
    BY <2>1, <2>2
<1>8. CASE Insert(c)
  BY <1>3, <1>5, <1>8 DEF Insert
<1>9. CASE Bundle(c)
  BY <1>3, <1>4, <1>9 DEF Bundle, Failed
<1>10. CASE Heal(c)
  BY <1>3, <1>5, <1>10 DEF Heal
<1>11. CASE Remark(c) \/ HealFails(c) \/ Mark(c)
  BY <1>3, <1>11 DEF Remark, HealFails, Mark
<1> QED
  BY <1>6, <1>7, <1>8, <1>9, <1>10, <1>11 DEF Serve

\* A call that is answered with the truth.
LEMMA AnsweredTruly ==
  ASSUME ServerTypeOK, NEW c \in Calls, NEW a, Answered(c, a), taps' = taps,
         a = "applied" => call[c].tap \in applied' \cup unhealed',
         a = "superseded" => door'.at >= taps[call[c].tap].at,
         a \in {"applied", "superseded"} => row'[call[c].tap] # "none"
  PROVE  /\ TrueAnswer(c)' /\ HasRow(c)'
         /\ call'[c].st \in {"idle", "answered"}
<1>1. call \in [Calls -> CallRow]
  BY DEF ServerTypeOK, CallRow
<1>2. CASE call[c].phone = Nobody
  <2>1. call'[c] = NoCall
    BY <1>1, <1>2 DEF Answered
  <2> QED
    BY <2>1 DEF TrueAnswer, HasRow, NoCall
<1>3. CASE call[c].phone # Nobody
  <2>1. /\ call'[c].st = "answered" /\ call'[c].ans = a /\ call'[c].tap = call[c].tap
    BY <1>1, <1>3 DEF Answered, CallRow
  <2> QED
    BY <2>1 DEF TrueAnswer, HasRow
<1> QED
  BY <1>2, <1>3

\* What remains to be shown of a step of a request.
LEMMA ServeFrame ==
  ASSUME ServerInv, NEW c \in Calls, Serve(c) \/ Refuse(c) \/ Die(c),
         Advances, told' = told, TrueAnswer(c)', HasRow(c)',
         call'[c].st \in {"heal", "remark", "mark"} =>
           call'[c].ans \in {"applied", "superseded"},
         \A t \in Taps : \/ row'[t] = row[t]
                         \/ /\ taps[t].at > 0 /\ row'[t] # "none"
                            /\ row'[t] = "superseded" => door'.at >= taps[t].at
  PROVE  CallsAreNamed' /\ AnswersAreTrue'
<1>1. \A d \in Calls : d # c => call'[d] = call[d]
  BY OtherCalls DEF ServerInv
<1>2. \A d \in Calls : GoesOn(d)
  BY ServeCalls DEF ServerInv
<1>3. \A t \in Taps : taps[t].at \in Nat
  BY TimesAreNumbers DEF ServerInv, ServerTypeOK
<1>4. door.at \in Nat
  BY TimesAreNumbers DEF ServerInv, ServerTypeOK
<1>5. CallsAreNamed'
  <2>1. ASSUME NEW d \in Calls, call'[d].st # "idle"
        PROVE  call'[d].tap \in Taps /\ taps'[call'[d].tap].at > 0
    <3>1. call'[d].tap = call[d].tap /\ call[d].st # "idle"
      BY <1>2, <2>1 DEF GoesOn, NoCall
    <3> QED
      BY <3>1 DEF ServerInv, CallsAreNamed, Advances
  <2>2. ASSUME NEW d \in Calls, call'[d].st \in {"heal", "remark", "mark"}
        PROVE  call'[d].ans \in {"applied", "superseded"}
    <3>1. CASE d = c
      BY <2>2, <3>1
    <3>2. CASE d # c
      BY <1>1, <2>2, <3>2 DEF ServerInv, CallsAreNamed
    <3> QED
      BY <3>1, <3>2
  <2> QED
    BY <2>1, <2>2 DEF CallsAreNamed
<1>6. ASSUME NEW d \in Calls PROVE TrueAnswer(d)' /\ HasRow(d)'
  <2>1. CASE d = c
    BY <2>1
  <2>2. CASE d # c
    <3>1. call'[d] = call[d]
      BY <1>1, <2>2
    <3>2. TrueAnswer(d) /\ HasRow(d)
      BY DEF ServerInv, AnswersAreTrue
    <3>3. call[d].st # "idle" => call[d].tap \in Taps
      BY DEF ServerInv, CallsAreNamed
    <3>4. taps' = taps /\ applied \subseteq applied' /\ unhealed \subseteq unhealed'
          /\ door'.at >= door.at
      BY DEF Advances
    <3>5. ASSUME call[d].st # "idle", door.at >= taps[call[d].tap].at
          PROVE  door'.at >= taps[call[d].tap].at
      <4>1. door'.at \in Nat /\ call[d].tap \in Taps
        BY <3>3, <3>5 DEF Advances
      <4> QED
        BY <1>3, <1>4, <3>4, <3>5, <4>1
    <3>6. TrueAnswer(d)'
      BY <3>1, <3>2, <3>4, <3>5 DEF TrueAnswer
    <3>7. HasRow(d)'
      BY <3>1, <3>2, <3>3 DEF HasRow
    <3> QED
      BY <3>6, <3>7
  <2> QED
    BY <2>1, <2>2
<1>7. VerdictsAreTrue'
  BY <1>3, <1>4 DEF ServerInv, AnswersAreTrue, VerdictsAreTrue, Advances
<1>8. \A t \in Taps : row'[t] # "none" => taps'[t].at > 0
  BY DEF ServerInv, AnswersAreTrue, Advances
<1>9. \A t \in Taps : row'[t] = "superseded" => door'.at >= taps'[t].at
  BY <1>3, <1>4 DEF ServerInv, AnswersAreTrue, Advances
<1> QED
  BY <1>5, <1>6, <1>7, <1>8, <1>9 DEF AnswersAreTrue

\* Nothing happens to the door.
LEMMA DoorStays ==
  ASSUME ServerInv, taps' = taps, UNCHANGED <<door, sale, dues, applied>>,
         unhealed \subseteq unhealed'
  PROVE  DoorInv' /\ Advances
<1>1. door.at \in Nat
  BY TimesAreNumbers DEF ServerInv, ServerTypeOK
<1> QED
  BY <1>1 DEF ServerInv, DoorInv, NewestTapWins, MoneyFollowsKnocks, Newest, Advances

\* The money bundle of a call.
LEMMA DoorMoves ==
  ASSUME ServerInv, NEW t \in Taps, MoneyBundle(t), taps[t].at > 0, taps' = taps,
         unhealed' = unhealed
  PROVE  /\ DoorInv' /\ Advances
         /\ Verdict(t) = "applied" => t \in applied'
         /\ door'.at >= taps[t].at
<1>1. door'.at \in Nat
  BY BundleTypes, TimesAreNumbers DEF ServerInv
<1>2. DoorInv'
  BY BundleDoor DEF ServerInv
<1>3. /\ applied \subseteq applied' /\ door'.at >= door.at /\ door'.at >= taps[t].at
      /\ Wins(t) => t \in applied'
  BY BundleTypes DEF ServerInv
<1> QED
  BY <1>1, <1>2, <1>3 DEF Advances, Verdict

\* Every statement of the handler keeps the server's invariant.
LEMMA ServeStep ==
  ASSUME ServerInv, NEW c \in Calls, Serve(c) \/ Refuse(c) \/ Die(c), told' = told
  PROVE  ServerInv'
<1> DEFINE t == call[c].tap
<1>1. /\ call' \in [Calls -> CallRow] /\ t \in Taps /\ taps[t].at > 0 /\ taps' = taps
      /\ call[c].st # "idle"
  BY ServeCalls DEF ServerInv
<1>2. call \in [Calls -> CallRow]
  BY DEF ServerInv, ServerTypeOK, CallRow
<1>3. TrueAnswer(c) /\ HasRow(c)
  BY DEF ServerInv, AnswersAreTrue
<1> HIDE DEF t
<1>4. ASSUME UNCHANGED <<door, sale, dues, applied, unhealed>>, faults' \in 0..FaultBudget,
             row' \in [Taps -> {"none", "unmarked", "applied", "superseded"}]
      PROVE  ServerTypeOK' /\ DoorInv' /\ Advances
  <2>1. DoorInv' /\ Advances
    BY <1>1, <1>4, DoorStays
  <2> QED
    BY <1>1, <1>4, <2>1 DEF ServerInv, ServerTypeOK, CallRow
<1>5. ASSUME UNCHANGED books, faults' \in 0..FaultBudget, TrueAnswer(c)', HasRow(c)',
             call'[c].st \in {"heal", "remark", "mark"} =>
               call'[c].ans \in {"applied", "superseded"}
      PROVE  ServerInv'
  <2>1. ServerTypeOK' /\ DoorInv' /\ Advances
    BY <1>4, <1>5 DEF books, ServerInv, ServerTypeOK
  <2>2. CallsAreNamed' /\ AnswersAreTrue'
    BY <1>5, <2>1, ServeFrame DEF books
  <2> QED
    BY <2>1, <2>2 DEF ServerInv
<1>6. CASE Refuse(c) \/ Die(c)
  <2>1. PICK a \in Refusals \cup {"error"} : Answered(c, a)
    BY <1>6 DEF Refuse, Die
  <2>2. a # "applied" /\ a # "superseded"
    BY <2>1 DEF Refusals
  <2>3. TrueAnswer(c)' /\ HasRow(c)' /\ call'[c].st \in {"idle", "answered"}
    BY <1>1, <2>1, <2>2, AnsweredTruly DEF ServerInv
  <2>4. UNCHANGED books /\ faults' \in 0..FaultBudget
    BY <1>6 DEF Refuse, Die, Fault, ServerInv, ServerTypeOK
  <2> QED
    BY <1>5, <2>3, <2>4
<1>7. CASE Lookup(c)
  <2>1. UNCHANGED books /\ faults' \in 0..FaultBudget
    BY <1>7 DEF Lookup, ServerInv, ServerTypeOK
  <2>2. CASE row[t] = "none"
    <3>1. call'[c].st = "insert"
      <4>1. call' = [call EXCEPT ![c].st = "insert"]
        BY <1>7, <2>2 DEF Lookup, GoTo, t
      <4> QED
        BY <1>2, <4>1 DEF CallRow
    <3>2. TrueAnswer(c)' /\ HasRow(c)'
      BY <3>1 DEF TrueAnswer, HasRow
    <3> QED
      BY <1>5, <2>1, <3>1, <3>2
  <2>3. CASE row[t] # "none"
    <3>1. /\ call'[c].st = "heal" /\ call'[c].tap = t
          /\ call'[c].ans = IF row[t] = "superseded" THEN "superseded" ELSE "applied"
      BY <1>2, <1>7, <2>3 DEF Lookup, t, CallRow
    <3>2. row[t] = "superseded" => door.at >= taps[t].at
      BY <1>1 DEF ServerInv, AnswersAreTrue
    <3>3. TrueAnswer(c)' /\ HasRow(c)'
      BY <1>1, <2>1, <2>3, <3>1, <3>2 DEF TrueAnswer, HasRow, books
    <3> QED
      BY <1>5, <2>1, <3>1, <3>3
  <2> QED
    BY <2>2, <2>3
<1>8. CASE Insert(c)
  <2>1. UNCHANGED <<door, sale, dues, applied, unhealed>> /\ faults' \in 0..FaultBudget
    BY <1>8 DEF Insert, ServerInv, ServerTypeOK
  <2>2. CASE row[t] = "none"
    <3>1. /\ row' = [row EXCEPT ![t] = "unmarked"]
          /\ call'[c].st = "bundle" /\ call'[c].tap = t
      <4>1. /\ row' = [row EXCEPT ![t] = "unmarked"]
            /\ call' = [call EXCEPT ![c].st = "bundle"]
        BY <1>8, <2>2 DEF Insert, GoTo, t
      <4> QED
        BY <1>2, <4>1 DEF CallRow, t
    <3>2. /\ row' \in [Taps -> {"none", "unmarked", "applied", "superseded"}]
          /\ row'[t] = "unmarked"
          /\ \A u \in Taps : row'[u] = row[u] \/ (taps[u].at > 0 /\ row'[u] = "unmarked")
      BY <1>1, <3>1 DEF ServerInv, ServerTypeOK
    <3>3. ServerTypeOK' /\ DoorInv' /\ Advances
      BY <1>4, <2>1, <3>2
    <3>4. TrueAnswer(c)' /\ HasRow(c)'
      BY <3>1, <3>2 DEF TrueAnswer, HasRow
    <3>5. CallsAreNamed' /\ AnswersAreTrue'
      BY <3>1, <3>2, <3>3, <3>4, ServeFrame
    <3> QED
      BY <3>3, <3>5 DEF ServerInv
  <2>3. CASE row[t] # "none"
    <3>1. row' = row /\ Answered(c, "error")
      BY <1>8, <2>3 DEF Insert, t
    <3>2. TrueAnswer(c)' /\ HasRow(c)' /\ call'[c].st \in {"idle", "answered"}
      BY <1>1, <3>1, AnsweredTruly DEF ServerInv
    <3> QED
      BY <1>5, <2>1, <3>1, <3>2 DEF books
  <2> QED
    BY <2>2, <2>3
<1>9. ASSUME MoneyBundle(t), UNCHANGED <<row, unhealed>>, faults' \in 0..FaultBudget,
             TrueAnswer(c)', HasRow(c)',
             call'[c].st \in {"heal", "remark", "mark"} =>
               call'[c].ans \in {"applied", "superseded"}
      PROVE  ServerInv'
  <2>1. DoorInv' /\ Advances
    BY <1>1, <1>9, DoorMoves
  <2>2. /\ door' \in [outcome : Outcomes \cup {"none"}, at : Times \cup {0}]
        /\ sale' \in [st : {"none", "QUALIFIED", "PENDING", "REVERSED"},
                      rep : Reps \cup {Nobody}]
        /\ dues' \subseteq Taps \X DueStates
        /\ applied' \subseteq Taps
    BY <1>1, <1>9, BundleTypes DEF ServerInv
  <2>3. ServerTypeOK'
    BY <1>1, <1>9, <2>2 DEF ServerInv, ServerTypeOK, CallRow
  <2>4. CallsAreNamed' /\ AnswersAreTrue'
    BY <1>9, <2>1, ServeFrame
  <2> QED
    BY <2>1, <2>3, <2>4 DEF ServerInv
<1>10. ASSUME MoneyBundle(t), UNCHANGED unhealed
       PROVE  /\ Verdict(t) = "applied" => t \in applied'
              /\ door'.at >= taps[t].at
  BY <1>1, <1>10, DoorMoves
<1>11. call[c].st \in {"bundle", "mark", "heal", "remark"} => row[t] # "none"
  BY <1>3 DEF HasRow, t
<1>12. CASE Bundle(c)
  <2>1. CASE /\ MoneyBundle(t) /\ faults' = faults
             /\ call' = [call EXCEPT ![c].st = "mark", ![c].ans = Verdict(t)]
    <3>1. UNCHANGED <<row, unhealed>> /\ faults' \in 0..FaultBudget
      BY <1>12, <2>1 DEF Bundle, ServerInv, ServerTypeOK
    <3>2. call'[c].st = "mark" /\ call'[c].ans = Verdict(t) /\ call'[c].tap = t
      BY <1>2, <2>1 DEF t, CallRow
    <3>3. TrueAnswer(c)'
      BY <1>1, <1>10, <2>1, <3>1, <3>2 DEF TrueAnswer, Verdict
    <3>4. HasRow(c)'
      BY <1>11, <1>12, <3>1, <3>2 DEF HasRow, Bundle, At
    <3>5. call'[c].ans \in {"applied", "superseded"}
      BY <3>2 DEF Verdict
    <3> QED
      BY <1>9, <2>1, <3>1, <3>3, <3>4, <3>5
  <2>2. CASE /\ Failed(c) \/ Answered(c, "terminal")
             /\ UNCHANGED <<door, sale, dues, applied>>
             /\ faults' = faults \/ Fault
    <3>1. UNCHANGED books /\ faults' \in 0..FaultBudget
      BY <1>12, <2>2 DEF Bundle, books, Fault, ServerInv, ServerTypeOK
    <3>2. TrueAnswer(c)' /\ HasRow(c)' /\ call'[c].st \in {"idle", "answered"}
      BY <1>1, <2>2, AnsweredTruly DEF ServerInv, Failed
    <3> QED
      BY <1>5, <3>1, <3>2
  <2> QED
    BY <1>12, <2>1, <2>2 DEF Bundle, t
<1>13. CASE Heal(c)
  <2>1. /\ MoneyBundle(t) /\ UNCHANGED <<row, unhealed>> /\ faults' \in 0..FaultBudget
        /\ call[c].st = "heal" /\ call[c].ans \in {"applied", "superseded"}
    BY <1>13 DEF Heal, At, t, ServerInv, ServerTypeOK, CallsAreNamed
  <2>2. row'[t] # "none"
    BY <1>11, <2>1
  <2>3. CASE GoTo(c, "remark") /\ Verdict(t) # call[c].ans
    <3>1. call'[c].st = "remark" /\ call'[c].ans = call[c].ans /\ call'[c].tap = t
      BY <1>2, <2>3 DEF GoTo, CallRow, t
    <3>2. call[c].ans = "superseded" => t \in applied'
      BY <1>10, <2>1, <2>3 DEF Verdict
    <3>3. TrueAnswer(c)' /\ HasRow(c)'
      BY <1>1, <1>10, <2>1, <2>2, <3>1, <3>2 DEF TrueAnswer, HasRow
    <3> QED
      BY <1>9, <2>1, <3>1, <3>3
  <2>4. CASE Answered(c, Verdict(t)) /\ Verdict(t) = call[c].ans
    <3>1. TrueAnswer(c)' /\ HasRow(c)' /\ call'[c].st \in {"idle", "answered"}
      BY <1>1, <1>10, <2>1, <2>2, <2>4, AnsweredTruly DEF ServerInv, t
    <3> QED
      BY <1>9, <2>1, <3>1
  <2> QED
    BY <1>13, <2>3, <2>4 DEF Heal, t
<1>14. CASE HealFails(c)
  <2>1. /\ UNCHANGED <<row, door, sale, dues, applied, faults>>
        /\ unhealed' = unhealed \cup {t} /\ Answered(c, call[c].ans)
        /\ call[c].st \in {"heal", "remark"}
    BY <1>14 DEF HealFails, t
  <2>2. DoorInv' /\ Advances
    BY <1>1, <2>1, DoorStays
  <2>3. call[c].ans = "superseded" => door'.at >= taps[t].at
    BY <1>3, <2>1 DEF TrueAnswer, t
  <2>4. TrueAnswer(c)' /\ HasRow(c)' /\ call'[c].st \in {"idle", "answered"}
    BY <1>1, <1>11, <2>1, <2>3, AnsweredTruly DEF ServerInv, t
  <2>5. CallsAreNamed' /\ AnswersAreTrue'
    BY <2>1, <2>2, <2>4, ServeFrame
  <2>6. ServerTypeOK'
    BY <1>1, <2>1 DEF ServerInv, ServerTypeOK, CallRow
  <2> QED
    BY <2>2, <2>5, <2>6 DEF ServerInv
<1>15. ASSUME NEW v \in {"applied", "superseded"}, Answered(c, v),
              row' = [row EXCEPT ![t] = v],
              UNCHANGED <<door, sale, dues, applied, unhealed, faults>>,
              v = "superseded" => door.at >= taps[t].at,
              v = "applied" => t \in applied \cup unhealed
       PROVE  ServerInv'
  <2>1. /\ row' \in [Taps -> {"none", "unmarked", "applied", "superseded"}]
        /\ faults' \in 0..FaultBudget /\ row'[t] = v
        /\ \A u \in Taps : u # t => row'[u] = row[u]
    BY <1>1, <1>15 DEF ServerInv, ServerTypeOK
  <2>2. ServerTypeOK' /\ DoorInv' /\ Advances
    BY <1>4, <1>15, <2>1
  <2>3. TrueAnswer(c)' /\ HasRow(c)' /\ call'[c].st \in {"idle", "answered"}
    BY <1>1, <1>15, <2>1, AnsweredTruly DEF ServerInv, t
  <2>4. \A u \in Taps : \/ row'[u] = row[u]
                        \/ /\ taps[u].at > 0 /\ row'[u] # "none"
                           /\ row'[u] = "superseded" => door'.at >= taps[u].at
    BY <1>1, <1>15, <2>1
  <2>5. CallsAreNamed' /\ AnswersAreTrue'
    BY <2>2, <2>3, <2>4, ServeFrame
  <2> QED
    BY <2>2, <2>5 DEF ServerInv
<1>16. CASE Mark(c)
  <2>1. call[c].ans \in {"applied", "superseded"} /\ call[c].st = "mark"
    BY <1>16 DEF Mark, At, ServerInv, CallsAreNamed
  <2>2. /\ call[c].ans = "superseded" => door.at >= taps[t].at
        /\ call[c].ans = "applied" => t \in applied \cup unhealed
    BY <1>3, <2>1 DEF TrueAnswer, t
  <2> QED
    BY <1>15, <1>16, <2>1, <2>2 DEF Mark, t
<1>17. CASE Remark(c)
  <2>1. call[c].ans \in {"applied", "superseded"} /\ call[c].st = "remark"
    BY <1>17 DEF Remark, At, ServerInv, CallsAreNamed
  <2>2. Other(call[c].ans) \in {"applied", "superseded"}
    BY DEF Other
  <2>3. door.at >= taps[t].at /\ (Other(call[c].ans) = "applied" => t \in applied)
    BY <1>3, <2>1 DEF TrueAnswer, Other, t
  <2> QED
    BY <1>15, <1>17, <2>2, <2>3 DEF Remark, t
<1> QED
  BY <1>6, <1>7, <1>8, <1>12, <1>13, <1>14, <1>16, <1>17 DEF Serve

\* Managers decide about the door, its commissions and its sale, and leave the
\* requests alone.
LEMMA ManagerStep ==
  ASSUME ServerInv, told' = told,
         Overrule \/ ReverseSale \/ \E t \in Taps : Approve(t) \/ Pay(t)
  PROVE  ServerInv'
<1>1. UNCHANGED <<taps, row, applied, call, unhealed, faults>>
  BY DEF Overrule, ReverseSale, Approve, Pay
<1>2. /\ \A t \in Taps : taps[t].at \in Nat
      /\ door.at \in Nat
  BY TimesAreNumbers DEF ServerInv, ServerTypeOK
<1>3. /\ door' \in [outcome : Outcomes \cup {"none"}, at : Times \cup {0}]
      /\ door'.at \in Nat /\ door'.at >= door.at
      /\ door' # door => door'.at > door.at
  <2>1. CASE Overrule
    <3>1. PICK o \in Outcomes, at \in Times :
            at > door.at /\ door' = [outcome |-> o, at |-> at]
      BY <2>1 DEF Overrule
    <3>2. at \in Nat /\ door'.at = at
      BY <3>1, TimesAreNumbers
    <3> QED
      BY <1>2, <3>1, <3>2
  <2>2. CASE door' = door
    BY <1>2, <2>2 DEF ServerInv, ServerTypeOK
  <2> QED
    BY <2>1, <2>2 DEF ReverseSale, Approve, Pay
<1>4. /\ sale' \in [st : {"none", "QUALIFIED", "PENDING", "REVERSED"},
                    rep : Reps \cup {Nobody}]
      /\ sale.st = "none" <=> sale'.st = "none"
      /\ sale.st \in {"none", "REVERSED"} => sale'.st \in {"none", "REVERSED"}
  <2>1. CASE ReverseSale
    BY <2>1 DEF ReverseSale, ServerInv, ServerTypeOK
  <2>2. CASE sale' = sale
    BY <2>2 DEF ServerInv, ServerTypeOK
  <2> QED
    BY <2>1, <2>2 DEF Overrule, Approve, Pay
<1>5. /\ dues' \subseteq Taps \X DueStates
      /\ dues # {} => dues' # {}
      /\ (\A d \in dues : d[2] # "pending") => \A d \in dues' : d[2] # "pending"
      /\ \A d, e \in dues' : d[2] # "paid" /\ e[2] # "paid" => d = e
  <2>1. /\ dues \subseteq Taps \X DueStates
        /\ \A d, e \in dues : d[2] # "paid" /\ e[2] # "paid" => d = e
    BY DEF ServerInv, ServerTypeOK, DoorInv, MoneyFollowsKnocks
  <2>2. CASE dues' = dues
    BY <2>1, <2>2
  <2>3. CASE \E t \in Taps : Approve(t)
    <3>1. PICK t \in Taps : /\ <<t, "pending">> \in dues
                            /\ dues' = (dues \ {<<t, "pending">>}) \cup {<<t, "approved">>}
      BY <2>3 DEF Approve
    <3>2. <<t, "approved">> \in Taps \X DueStates
      BY DEF DueStates
    <3>3. \A d, e \in dues' : d[2] # "paid" /\ e[2] # "paid" => d = e
      <4>1. \A d \in dues' : d[2] # "paid" => d = <<t, "approved">>
        <5> SUFFICES ASSUME NEW d \in dues', d[2] # "paid", d # <<t, "approved">>
                     PROVE  FALSE
          OBVIOUS
        <5>1. d \in dues /\ d # <<t, "pending">>
          BY <3>1
        <5>2. d = <<t, "pending">>
          BY <2>1, <3>1, <5>1
        <5> QED
          BY <5>1, <5>2
      <4> QED
        BY <4>1
    <3> QED
      BY <2>1, <3>1, <3>2, <3>3
  <2>4. CASE \E t \in Taps : Pay(t)
    <3>1. PICK t \in Taps : /\ <<t, "approved">> \in dues
                            /\ dues' = (dues \ {<<t, "approved">>}) \cup {<<t, "paid">>}
      BY <2>4 DEF Pay
    <3>2. <<t, "paid">> \in Taps \X DueStates
      BY DEF DueStates
    <3>3. \A d \in dues' : d[2] # "paid" => d \in dues
      BY <3>1
    <3> QED
      BY <2>1, <3>1, <3>2, <3>3
  <2> QED
    BY <2>2, <2>3, <2>4 DEF Overrule, ReverseSale
<1>6. ServerTypeOK'
  BY <1>1, <1>3, <1>4, <1>5 DEF ServerInv, ServerTypeOK
<1>7. NewestTapWins'
  <2> SUFFICES ASSUME NEW t \in applied
               PROVE  \/ door'.at > taps[t].at
                      \/ door' = [outcome |-> taps[t].outcome, at |-> taps[t].at]
    BY <1>1 DEF NewestTapWins
  <2>1. \/ door.at > taps[t].at
        \/ door = [outcome |-> taps[t].outcome, at |-> taps[t].at]
    BY DEF ServerInv, DoorInv, NewestTapWins
  <2>2. taps[t].at \in Nat
    BY <1>2 DEF ServerInv, ServerTypeOK
  <2>3. CASE door' = door
    BY <2>1, <2>3
  <2>4. CASE door' # door
    <3>1. door'.at > door.at /\ door.at >= taps[t].at
      BY <1>2, <1>3, <2>1, <2>2, <2>4
    <3> QED
      BY <1>2, <1>3, <2>2, <3>1
  <2> QED
    BY <2>3, <2>4
<1>8. MoneyFollowsKnocks'
  <2>1. Newest' = Newest
    BY <1>1 DEF Newest
  <2>2. \A t \in Newest :
          IF taps[t].outcome = "sold"
          THEN sale.st # "none" /\ dues # {}
          ELSE /\ sale.st \in {"none", "REVERSED"}
               /\ \A d \in dues : d[2] # "pending"
    BY DEF ServerInv, DoorInv, MoneyFollowsKnocks
  <2>3. \A t \in Newest :
          IF taps'[t].outcome = "sold"
          THEN sale'.st # "none" /\ dues' # {}
          ELSE /\ sale'.st \in {"none", "REVERSED"}
               /\ \A d \in dues' : d[2] # "pending"
    BY <1>1, <1>4, <1>5, <2>2
  <2> QED
    BY <1>5, <2>1, <2>3 DEF MoneyFollowsKnocks
<1>9. DoorInv'
  BY <1>1, <1>7, <1>8 DEF ServerInv, DoorInv
<1>10. CallsAreNamed'
  BY <1>1 DEF ServerInv, CallsAreNamed
<1>11. ASSUME NEW c \in Calls PROVE TrueAnswer(c)' /\ HasRow(c)'
  <2>1. /\ TrueAnswer(c) /\ HasRow(c)
        /\ call[c].st # "idle" => call[c].tap \in Taps
    BY DEF ServerInv, AnswersAreTrue, CallsAreNamed
  <2>2. TrueAnswer(c)'
    BY <1>1, <1>2, <1>3, <2>1 DEF TrueAnswer
  <2> QED
    BY <1>1, <2>1, <2>2 DEF HasRow
<1>12. /\ \A t \in Taps : row'[t] # "none" => taps'[t].at > 0
       /\ \A t \in Taps : row'[t] = "superseded" => door'.at >= taps'[t].at
       /\ VerdictsAreTrue'
  <2>1. /\ \A t \in Taps : row[t] # "none" => taps[t].at > 0
        /\ \A t \in Taps : row[t] = "superseded" => door.at >= taps[t].at
        /\ VerdictsAreTrue
    BY DEF ServerInv, AnswersAreTrue
  <2> QED
    BY <1>1, <1>2, <1>3, <2>1 DEF VerdictsAreTrue
<1> QED
  BY <1>6, <1>9, <1>10, <1>11, <1>12 DEF ServerInv, AnswersAreTrue

-----------------------------------------------------------------------------
(* The phones.                                                             *)

Owed(p) == {t \in Taps : told[t] = Waiting /\ taps[t].phone = p}

\* The lanes of a phone hold what its representative waits for.
LanesHold ==
  /\ \A p \in Phones : Hold(pending[p], dead[p], Owed(p))
  /\ \A t \in Taps : told[t] # "none" => taps[t].at > 0 /\ taps[t].phone \in Phones

\* A flush that is not stale waits for the tap its index leads to, and is the only
\* one of its phone.
FlushPoints ==
  \A c \in Calls : call[c].fresh =>
    LET p == call[c].phone IN
    /\ p \in Phones /\ inflight[p]
    /\ call[c].idx \in 1..Len(pending[p])
    /\ pending[p][call[c].idx].tap = call[c].tap
    /\ \A d \in Calls : call[d].fresh /\ call[d].phone = p => d = c

KnockInv == TypeOK /\ ServerInv /\ LanesHold /\ FlushPoints

Posted(p, q, j) ==
  [st |-> "sent", tap |-> q[j].tap, phone |-> p, idx |-> j, fresh |-> TRUE,
   ans |-> "none"]

\* A set of numbers has a least one.
LEMMA Least ==
  ASSUME NEW S, S \subseteq Nat, S # {}
  PROVE  \E x \in S : \A y \in S : x <= y
<1>1. PICK x \in S : \A y \in S : ~(<<y, x>> \in OpToRel(<, Nat))
  BY NatLessThanWellFounded, WFMin, Zenon
<1>2. \A y \in S : ~(y < x)
  BY <1>1 DEF OpToRel
<1> QED
  BY <1>2

\* The loop of a flush ends or posts one tap of the lane.
LEMMA WalkCases ==
  ASSUME NEW c, NEW p, NEW q \in Seq(Lane), NEW i \in Nat \ {0}, Walk(c, p, q, i)
  PROVE  \/ /\ call' = [call EXCEPT ![c] = NoCall]
            /\ inflight' = [inflight EXCEPT ![p] = FALSE]
         \/ \E j \in 1..Len(q) :
              /\ call' = [call EXCEPT ![c] = Posted(p, q, j)]
              /\ inflight' = [inflight EXCEPT ![p] = TRUE]
<1> DEFINE due == DueFrom(q, i)
           j   == CHOOSE k \in due : \A l \in due : k <= l
<1>1. CASE due = {}
  BY <1>1 DEF Walk
<1>2. CASE due # {}
  <2>1. Len(q) \in Nat
    BY LenProperties
  <2>2. due \subseteq 1..Len(q) /\ due \subseteq Nat
    BY <2>1 DEF DueFrom
  <2>3. \E k \in due : \A l \in due : k <= l
    <3> HIDE DEF due
    <3> QED
      BY <1>2, <2>2, Least
  <2>4. j \in due
    <3> HIDE DEF due
    <3> QED
      BY <2>3
  <2>5. /\ call' = [call EXCEPT ![c] = Posted(p, q, j)]
        /\ inflight' = [inflight EXCEPT ![p] = TRUE]
    BY <1>2 DEF Walk, Posted
  <2> HIDE DEF due, j
  <2> QED
    BY <2>2, <2>4, <2>5
<1> QED
  BY <1>1, <1>2

\* Flushes that go on, in lanes that keep what they point at.
LEMMA FlushFrame ==
  ASSUME FlushPoints,
         \A d \in Calls : call'[d].fresh =>
           /\ call[d].fresh
           /\ call'[d].tap = call[d].tap /\ call'[d].idx = call[d].idx
           /\ call'[d].phone = call[d].phone,
         \A d \in Calls : call'[d].fresh =>
           LET p == call[d].phone IN
           /\ inflight'[p] = inflight[p]
           /\ call[d].idx \in 1..Len(pending'[p])
           /\ pending'[p][call[d].idx].tap = pending[p][call[d].idx].tap
  PROVE  FlushPoints'
  BY DEF FlushPoints

\* A flush that goes on to the next tap of its phone, or ends.
LEMMA WalkFlush ==
  ASSUME KnockInv, NEW c \in Calls, NEW p \in Phones, NEW q \in Seq(Lane),
         NEW i \in Nat \ {0}, Walk(c, p, q, i),
         \A d \in Calls : call[d].fresh /\ call[d].phone = p => d = c,
         pending' = [pending EXCEPT ![p] = q]
  PROVE  /\ FlushPoints'
         /\ call' \in [Calls -> CallRow] /\ inflight' \in [Phones -> BOOLEAN]
         /\ \A d \in Calls : d # c => call'[d] = call[d]
         /\ \/ call'[c].st = "idle"
            \/ call'[c].st = "sent" /\ \E j \in 1..Len(q) : call'[c].tap = q[j].tap
<1>1. /\ call \in [Calls -> CallRow] /\ inflight \in [Phones -> BOOLEAN]
      /\ pending \in [Phones -> Seq(Lane)]
  BY DEF KnockInv, TypeOK, ServerTypeOK, CallRow, Lane
<1>2. pending'[p] = q /\ \A r \in Phones : r # p => pending'[r] = pending[r]
  BY <1>1
<1>3. ASSUME call' = [call EXCEPT ![c] = NoCall],
             inflight' = [inflight EXCEPT ![p] = FALSE]
      PROVE  /\ FlushPoints'
             /\ call' \in [Calls -> CallRow] /\ inflight' \in [Phones -> BOOLEAN]
             /\ call'[c].st = "idle"
             /\ \A d \in Calls : d # c => call'[d] = call[d]
  <2>1. /\ call'[c] = NoCall /\ \A d \in Calls : d # c => call'[d] = call[d]
        /\ \A r \in Phones : r # p => inflight'[r] = inflight[r]
    BY <1>1, <1>3
  <2>2. ASSUME NEW d \in Calls, call'[d].fresh
        PROVE  d # c /\ call'[d] = call[d] /\ call[d].phone \in Phones /\ call[d].phone # p
    <3>1. d # c
      BY <2>1, <2>2 DEF NoCall
    <3> QED
      BY <2>1, <2>2, <3>1 DEF KnockInv, FlushPoints
  <2>3. FlushPoints'
    BY <1>2, <2>1, <2>2, FlushFrame DEF KnockInv, FlushPoints
  <2> QED
    BY <1>1, <1>3, <2>1, <2>3, NoCallType DEF NoCall
<1>4. ASSUME NEW j \in 1..Len(q), call' = [call EXCEPT ![c] = Posted(p, q, j)],
             inflight' = [inflight EXCEPT ![p] = TRUE]
      PROVE  /\ FlushPoints'
             /\ call' \in [Calls -> CallRow] /\ inflight' \in [Phones -> BOOLEAN]
             /\ call'[c].st = "sent" /\ call'[c].tap = q[j].tap
             /\ \A d \in Calls : d # c => call'[d] = call[d]
  <2>1. q[j].tap \in Taps /\ j \in Nat
    <3>1. q[j] \in Lane
      BY ElementOfSeq
    <3> QED
      BY <3>1 DEF Lane
  <2>2. Posted(p, q, j) \in CallRow
    BY <2>1 DEF Posted, CallRow
  <2>3. /\ call'[c] = Posted(p, q, j) /\ \A d \in Calls : d # c => call'[d] = call[d]
        /\ inflight'[p] = TRUE
        /\ \A r \in Phones : r # p => inflight'[r] = inflight[r]
    BY <1>1, <1>4
  <2>4. /\ call'[c].st = "sent" /\ call'[c].tap = q[j].tap /\ call'[c].phone = p
        /\ call'[c].idx = j /\ call'[c].fresh
    BY <2>3 DEF Posted
  <2>5. ASSUME NEW d \in Calls, call'[d].fresh, d # c
        PROVE  call'[d] = call[d] /\ call[d].phone \in Phones /\ call[d].phone # p
    BY <2>3, <2>5 DEF KnockInv, FlushPoints
  <2>6. FlushPoints'
    <3> SUFFICES ASSUME NEW d \in Calls, call'[d].fresh
                 PROVE  LET r == call'[d].phone IN
                        /\ r \in Phones /\ inflight'[r]
                        /\ call'[d].idx \in 1..Len(pending'[r])
                        /\ pending'[r][call'[d].idx].tap = call'[d].tap
                        /\ \A e \in Calls : call'[e].fresh /\ call'[e].phone = r => e = d
      BY DEF FlushPoints
    <3>1. CASE d = c
      BY <1>2, <2>3, <2>4, <2>5, <3>1
    <3>2. CASE d # c
      <4>1. call'[d] = call[d] /\ call[d].phone \in Phones /\ call[d].phone # p
        BY <2>5, <3>2
      <4>2. /\ inflight'[call[d].phone] = inflight[call[d].phone]
            /\ pending'[call[d].phone] = pending[call[d].phone]
        BY <1>2, <2>3, <4>1
      <4>3. \A e \in Calls : call'[e].fresh /\ call'[e].phone = call[d].phone => e # c
        BY <2>4, <4>1
      <4> QED
        BY <2>5, <4>1, <4>2, <4>3 DEF KnockInv, FlushPoints
    <3> QED
      BY <3>1, <3>2
  <2> QED
    BY <1>1, <1>4, <2>2, <2>3, <2>4, <2>6
<1>5. CASE /\ call' = [call EXCEPT ![c] = NoCall]
           /\ inflight' = [inflight EXCEPT ![p] = FALSE]
  BY <1>3, <1>5
<1>6. CASE \E j \in 1..Len(q) : /\ call' = [call EXCEPT ![c] = Posted(p, q, j)]
                                /\ inflight' = [inflight EXCEPT ![p] = TRUE]
  BY <1>4, <1>6
<1> QED
  BY <1>5, <1>6, WalkCases

\* The taps in the lanes are taps that were made.
LEMMA LanesAreTaps ==
  ASSUME KnockInv, NEW p \in Phones
  PROVE  /\ Hold(pending[p], dead[p], Owed(p))
         /\ pending[p] \in Seq(Lane) /\ dead[p] \in Seq(Taps)
         /\ \A j \in 1..Len(pending[p]) :
              pending[p][j].tap \in Taps /\ taps[pending[p][j].tap].at > 0
<1>1. Hold(pending[p], dead[p], Owed(p))
  BY DEF KnockInv, LanesHold
<1>2. \A t \in Owed(p) : t \in Taps /\ taps[t].at > 0
  BY DEF Owed, KnockInv, LanesHold, Waiting
<1> QED
  BY <1>1, <1>2 DEF Hold

\* A step of a phone posts taps that were made, drops requests or lets them be.
LEMMA PhoneCalls ==
  ASSUME KnockInv, UNCHANGED <<taps, books>>, faults' \in 0..FaultBudget,
         call' \in [Calls -> CallRow], VerdictsAreTrue',
         \A d \in Calls :
           \/ call'[d].st = "idle"
           \/ /\ call'[d].st = "sent" /\ call'[d].tap \in Taps
              /\ taps[call'[d].tap].at > 0
           \/ /\ call'[d].st = call[d].st /\ call'[d].tap = call[d].tap
              /\ call'[d].ans = call[d].ans
  PROVE  ServerInv'
<1> USE DEF KnockInv, ServerInv, books
<1>1. ServerTypeOK'
  BY DEF ServerTypeOK, CallRow
<1>2. CallsAreNamed'
  BY DEF CallsAreNamed
<1>3. DoorInv'
  BY DEF DoorInv, NewestTapWins, MoneyFollowsKnocks, Newest
<1>4. ASSUME NEW d \in Calls PROVE TrueAnswer(d)' /\ HasRow(d)'
  BY DEF TrueAnswer, HasRow, AnswersAreTrue
<1>5. AnswersAreTrue'
  BY <1>4 DEF AnswersAreTrue
<1> QED
  BY <1>1, <1>2, <1>3, <1>5

\* One phone's lanes change, and nothing else is told or tapped.
LEMMA LanesMove ==
  ASSUME KnockInv, taps' = taps, told' = told, NEW p \in Phones, NEW q, NEW d,
         pending' = [pending EXCEPT ![p] = q], dead' = [dead EXCEPT ![p] = d],
         Hold(q, d, Owed(p))
  PROVE  /\ LanesHold' /\ pending'[p] = q
         /\ \A r \in Phones : r # p => pending'[r] = pending[r]
         /\ pending' \in [Phones -> Seq(Lane)] /\ dead' \in [Phones -> Seq(Taps)]
<1>1. /\ pending \in [Phones -> Seq(Lane)] /\ dead \in [Phones -> Seq(Taps)]
  BY DEF KnockInv, TypeOK, Lane
<1>2. q \in Seq(Lane) /\ d \in Seq(Taps)
  BY DEF Hold
<1>3. /\ pending'[p] = q /\ \A r \in Phones : r # p => pending'[r] = pending[r]
      /\ dead'[p] = d /\ \A r \in Phones : r # p => dead'[r] = dead[r]
  BY <1>1
<1>4. \A r : Owed(r)' = Owed(r)
  BY DEF Owed
<1>5. ASSUME NEW r \in Phones PROVE Hold(pending'[r], dead'[r], Owed(r)')
  BY <1>3, <1>4 DEF KnockInv, LanesHold
<1>6. Hold(pending[p], dead[p], Owed(p))'
  BY <1>5
<1>7. \A r \in Phones : Hold(pending[r], dead[r], Owed(r))'
  BY <1>5
<1> QED
  BY <1>1, <1>2, <1>3, <1>7 DEF KnockInv, LanesHold

\* Lanes and what is told stay as they are.
LEMMA LanesStay ==
  ASSUME KnockInv, UNCHANGED <<taps, told, pending, dead>>
  PROVE  LanesHold'
<1>1. \A r : Owed(r)' = Owed(r)
  BY DEF Owed
<1>2. ASSUME NEW r \in Phones PROVE Hold(pending'[r], dead'[r], Owed(r)')
  BY <1>1 DEF KnockInv, LanesHold
<1>3. \A r \in Phones : Hold(pending[r], dead[r], Owed(r))'
  BY <1>2
<1> QED
  BY <1>3 DEF KnockInv, LanesHold

LEMMA Longer ==
  ASSUME NEW a \in Nat, NEW b \in Nat, NEW l, l = a + b
  PROVE  \A i \in 1..a : i \in 1..l
  OBVIOUS

\* The two lanes of a phone become one: a flush that goes on finds its place.
LEMMA SweptLanes ==
  ASSUME KnockInv, UNCHANGED <<server, inflight, suspended, told>>,
         NEW p \in Phones, NEW n \in 0..MaxAttempts,
         pending' = [pending EXCEPT ![p] = Behind(pending[p], dead[p], n)],
         dead' = [dead EXCEPT ![p] = <<>>]
  PROVE  KnockInv'
<1> DEFINE s == Behind(pending[p], dead[p], n)
<1>1. /\ Hold(pending[p], dead[p], Owed(p))
      /\ pending[p] \in Seq(Lane) /\ dead[p] \in Seq(Taps)
  BY LanesAreTaps
<1>2. Hold(s, <<>>, Owed(p))
  BY <1>1, HoldSweep
<1>3. /\ Len(s) = Len(pending[p]) + Len(dead[p])
      /\ \A i \in 1..Len(pending[p]) : s[i] = pending[p][i]
  BY <1>1, SweepFacts
<1> HIDE DEF s
<1>4. /\ LanesHold' /\ pending'[p] = s
      /\ pending' \in [Phones -> Seq(Lane)] /\ dead' \in [Phones -> Seq(Taps)]
      /\ \A r \in Phones : r # p => pending'[r] = pending[r]
  BY <1>2, LanesMove DEF s, server
<1>5. \A r \in Phones : r # p => pending'[r] = pending[r]
  BY <1>4
<1>6. Len(pending[p]) \in Nat /\ Len(dead[p]) \in Nat
  BY <1>1, LenProperties
<1>7. \A i \in 1..Len(pending[p]) : i \in 1..Len(s)
  BY <1>3, <1>6, Longer
<1>8. FlushPoints'
  <2>1. \A d \in Calls : call'[d].fresh =>
          LET r == call[d].phone IN
          /\ inflight'[r] = inflight[r]
          /\ call[d].idx \in 1..Len(pending'[r])
          /\ pending'[r][call[d].idx].tap = pending[r][call[d].idx].tap
    <3> SUFFICES ASSUME NEW d \in Calls, call[d].fresh
                 PROVE  LET r == call[d].phone IN
                        /\ call[d].idx \in 1..Len(pending'[r])
                        /\ pending'[r][call[d].idx].tap = pending[r][call[d].idx].tap
      BY DEF server
    <3>1. /\ call[d].phone \in Phones
          /\ call[d].idx \in 1..Len(pending[call[d].phone])
      BY DEF KnockInv, FlushPoints
    <3>2. CASE call[d].phone = p
      BY <1>3, <1>4, <1>7, <3>1, <3>2
    <3>3. CASE call[d].phone # p
      BY <1>5, <3>1, <3>3
    <3> QED
      BY <3>2, <3>3
  <2> QED
    BY <2>1, FlushFrame DEF KnockInv, server
<1>9. ServerInv' /\ ServerTypeOK'
  BY DEF KnockInv, ServerInv, server, books, ServerTypeOK, CallsAreNamed, DoorInv,
         NewestTapWins, MoneyFollowsKnocks, Newest, AnswersAreTrue, TrueAnswer,
         HasRow, VerdictsAreTrue
<1>10. TypeOK'
  BY <1>4, <1>9 DEF KnockInv, TypeOK, Lane
<1> QED
  BY <1>4, <1>8, <1>9, <1>10 DEF KnockInv

\* A step of the server leaves the phones as they are.
LEMMA ServerMoves ==
  ASSUME KnockInv, ServerNext, UNCHANGED phones
  PROVE  KnockInv'
<1>1. UNCHANGED <<pending, dead, inflight, suspended, told>>
  BY DEF phones
<1>2. ServerInv' /\ taps' = taps /\ \A d \in Calls : GoesOn(d)
  <2>1. CASE \E c \in Calls : Serve(c) \/ Refuse(c) \/ Die(c)
    <3>1. PICK c \in Calls : Serve(c) \/ Refuse(c) \/ Die(c)
      BY <2>1
    <3>2. ServerInv'
      BY <1>1, <3>1, ServeStep DEF KnockInv
    <3>3. taps' = taps /\ \A d \in Calls : GoesOn(d)
      BY <3>1, ServeCalls DEF KnockInv, ServerInv
    <3> QED
      BY <3>2, <3>3
  <2>2. CASE Overrule \/ ReverseSale \/ \E t \in Taps : Approve(t) \/ Pay(t)
    <3>1. ServerInv'
      BY <1>1, <2>2, ManagerStep DEF KnockInv
    <3>2. taps' = taps /\ call' = call
      BY <2>2 DEF Overrule, ReverseSale, Approve, Pay
    <3> QED
      BY <3>1, <3>2 DEF GoesOn
  <2> QED
    BY <2>1, <2>2 DEF ServerNext
<1>3. FlushPoints'
  <2>1. \A d \in Calls : call'[d].fresh =>
          /\ call[d].fresh /\ call'[d].tap = call[d].tap /\ call'[d].idx = call[d].idx
          /\ call'[d].phone = call[d].phone
    BY <1>2 DEF GoesOn, NoCall
  <2>2. \A d \in Calls : call'[d].fresh =>
          LET p == call[d].phone IN
          /\ inflight'[p] = inflight[p] /\ call[d].idx \in 1..Len(pending'[p])
          /\ pending'[p][call[d].idx].tap = pending[p][call[d].idx].tap
    BY <1>1, <2>1 DEF KnockInv, FlushPoints
  <2> QED
    BY <2>1, <2>2, FlushFrame DEF KnockInv
<1>4. LanesHold'
  BY <1>1, <1>2, LanesStay
<1>5. TypeOK'
  BY <1>1, <1>2 DEF KnockInv, TypeOK, ServerInv
<1> QED
  BY <1>2, <1>3, <1>4, <1>5 DEF KnockInv

\* A new tap goes to the end of the lane of its phone.
LEMMA TapStep ==
  ASSUME KnockInv, NEW p \in Phones, NEW o \in Outcomes, Tap(p, o)
  PROVE  KnockInv'
<1>1. PICK t \in Taps, at \in Times, rep \in Reps :
        /\ taps[t].at = 0
        /\ taps' = [taps EXCEPT ![t] = [phone |-> p, rep |-> rep, outcome |-> o,
                                       at |-> at]]
        /\ pending' = [pending EXCEPT ![p] = Append(@, Item(t, 0))]
        /\ told' = [told EXCEPT ![t] = Waiting]
  <2>1. \A t \in Taps : Credits[t] \subseteq Reps
    BY DEF Taps
  <2> QED
    BY <2>1 DEF Tap
<1>2. UNCHANGED <<row, door, sale, dues, applied, unhealed, call, faults, dead,
                  inflight, suspended>>
  BY DEF Tap, books
<1>3. /\ taps \in [Taps -> [phone : Phones \cup {Nobody}, rep : Reps \cup {Nobody},
                           outcome : Outcomes, at : Times \cup {0}]]
      /\ told \in [Taps -> {"none", Waiting, "saved", "superseded", "dropped"}]
      /\ pending \in [Phones -> Seq(Lane)] /\ dead \in [Phones -> Seq(Taps)]
  BY DEF KnockInv, TypeOK, ServerTypeOK, Lane
<1>4. at \in Nat /\ at > 0 /\ at \in Times
  BY DEF Times
<1>5. /\ taps'[t].at = at /\ taps'[t].phone = p /\ told'[t] = Waiting
      /\ \A u \in Taps : u # t => taps'[u] = taps[u] /\ told'[u] = told[u]
  BY <1>1, <1>3
<1>6. told[t] = "none" /\ t \notin applied /\ row[t] = "none"
      /\ \A c \in Calls : call[c].st # "idle" => call[c].tap \in Taps /\ call[c].tap # t
  <2>1. told[t] = "none"
    BY <1>1 DEF KnockInv, LanesHold
  <2>2. t \notin applied
    BY <1>1 DEF KnockInv, ServerInv, DoorInv
  <2>3. row[t] = "none"
    BY <1>1 DEF KnockInv, ServerInv, AnswersAreTrue
  <2>4. \A c \in Calls : call[c].st # "idle" => call[c].tap \in Taps /\ call[c].tap # t
    BY <1>1 DEF KnockInv, ServerInv, CallsAreNamed
  <2> QED
    BY <2>1, <2>2, <2>3, <2>4
<1>7. ServerTypeOK'
  <2>1. taps' \in [Taps -> [phone : Phones \cup {Nobody}, rep : Reps \cup {Nobody},
                           outcome : Outcomes, at : Times \cup {0}]]
    BY <1>1, <1>3, <1>4
  <2> QED
    BY <1>2, <2>1 DEF KnockInv, ServerInv, ServerTypeOK
<1>8. ServerInv'
  <2>1. CallsAreNamed'
    BY <1>2, <1>5, <1>6 DEF KnockInv, ServerInv, CallsAreNamed
  <2>2. applied \subseteq Taps /\ \A u \in applied : taps'[u] = taps[u]
    BY <1>5, <1>6 DEF KnockInv, ServerInv, ServerTypeOK
  <2>3. Newest' = Newest
    BY <1>2, <2>2 DEF Newest
  <2>4. DoorInv'
    <3>1. \A u \in Newest : taps'[u] = taps[u]
      BY <2>2 DEF Newest
    <3>2. MoneyFollowsKnocks'
      BY <1>2, <2>3, <3>1 DEF KnockInv, ServerInv, DoorInv, MoneyFollowsKnocks
    <3>3. NewestTapWins'
      BY <1>2, <2>2 DEF KnockInv, ServerInv, DoorInv, NewestTapWins
    <3> QED
      BY <1>2, <2>2, <3>2, <3>3 DEF KnockInv, ServerInv, DoorInv
  <2>5. \A c \in Calls : TrueAnswer(c)' /\ HasRow(c)'
    BY <1>2, <1>5, <1>6 DEF KnockInv, ServerInv, AnswersAreTrue, TrueAnswer, HasRow
  <2>6. VerdictsAreTrue'
    BY <1>2, <1>5 DEF KnockInv, ServerInv, AnswersAreTrue, VerdictsAreTrue, Waiting
  <2>7. /\ \A u \in Taps : row'[u] # "none" => taps'[u].at > 0
        /\ \A u \in Taps : row'[u] = "superseded" => door'.at >= taps'[u].at
    BY <1>2, <1>5, <1>6 DEF KnockInv, ServerInv, AnswersAreTrue
  <2> QED
    BY <1>7, <2>1, <2>4, <2>5, <2>6, <2>7 DEF ServerInv, AnswersAreTrue
<1>9. /\ Hold(pending[p], dead[p], Owed(p)) /\ pending[p] \in Seq(Lane)
      /\ \A r \in Phones : Hold(pending[r], dead[r], Owed(r))
  BY LanesAreTaps DEF KnockInv, LanesHold
<1>10. t \notin Owed(p)
  BY <1>6 DEF Owed, Waiting
<1>11. Owed(p)' = Owed(p) \cup {t} /\ \A r \in Phones : r # p => Owed(r)' = Owed(r)
  BY <1>5, <1>6 DEF Owed, Waiting
<1>12. /\ pending'[p] = Append(pending[p], Item(t, 0))
       /\ \A r \in Phones : r # p => pending'[r] = pending[r]
  BY <1>1, <1>3
<1>13. Hold(pending'[p], dead'[p], Owed(p)')
  BY <1>2, <1>9, <1>10, <1>11, <1>12, HoldAppend
<1>14. pending'[p] \in Seq(Lane)
  BY <1>13 DEF Hold
<1>15. LanesHold'
  <2>1. ASSUME NEW r \in Phones PROVE Hold(pending'[r], dead'[r], Owed(r)')
    BY <1>2, <1>9, <1>11, <1>12, <1>13
  <2>2. \A r \in Phones : Hold(pending[r], dead[r], Owed(r))'
    BY <2>1
  <2>3. \A u \in Taps : told'[u] # "none" => taps'[u].at > 0 /\ taps'[u].phone \in Phones
    BY <1>4, <1>5 DEF KnockInv, LanesHold
  <2> QED
    BY <2>2, <2>3 DEF LanesHold
<1>16. FlushPoints'
  <2>1. Len(pending[p]) \in Nat /\ Len(pending'[p]) = Len(pending[p]) + 1
        /\ \A i \in 1..Len(pending[p]) : pending'[p][i] = pending[p][i]
    <3>1. Item(t, 0) \in Lane
      BY DEF Item, Lane
    <3>2. Len(pending[p]) \in Nat
      BY <1>9, LenProperties
    <3> QED
      BY <1>9, <1>12, <3>1, <3>2, AppendProperties
  <2>2. \A d \in Calls : call[d].fresh =>
          LET r == call[d].phone IN
          /\ call[d].idx \in 1..Len(pending'[r])
          /\ pending'[r][call[d].idx].tap = pending[r][call[d].idx].tap
    <3> SUFFICES ASSUME NEW d \in Calls, call[d].fresh
                 PROVE  LET r == call[d].phone IN
                        /\ call[d].idx \in 1..Len(pending'[r])
                        /\ pending'[r][call[d].idx].tap = pending[r][call[d].idx].tap
      OBVIOUS
    <3>1. call[d].phone \in Phones /\ call[d].idx \in 1..Len(pending[call[d].phone])
      BY DEF KnockInv, FlushPoints
    <3>2. CASE call[d].phone = p
      BY <2>1, <3>1, <3>2
    <3>3. CASE call[d].phone # p
      BY <1>12, <3>1, <3>3
    <3> QED
      BY <3>2, <3>3
  <2> QED
    BY <1>2, <2>2, FlushFrame DEF KnockInv
<1>17. TypeOK'
  <2>1. /\ pending' \in [Phones -> Seq(Lane)]
        /\ told' \in [Taps -> {"none", Waiting, "saved", "superseded", "dropped"}]
    BY <1>1, <1>3, <1>12, <1>14
  <2> QED
    BY <1>2, <1>7, <2>1 DEF KnockInv, TypeOK, Lane
<1> QED
  BY <1>8, <1>15, <1>16, <1>17 DEF KnockInv

\* Parked taps become pending.
LEMMA SweepSteps ==
  ASSUME KnockInv, NEW p \in Phones, Recover(p) \/ RetryDead(p)
  PROVE  KnockInv'
<1>1. UNCHANGED <<server, inflight, suspended, told>>
  BY DEF Recover, RetryDead
<1>2. dead' = [dead EXCEPT ![p] = <<>>]
  BY DEF Recover, RetryDead
<1>3. MaxAttempts - 1 \in 0..MaxAttempts /\ 0 \in 0..MaxAttempts
  OBVIOUS
<1>4. pending \in [Phones -> Seq(Lane)]
  BY DEF KnockInv, TypeOK, Lane
<1>5. CASE Recover(p)
  <2>1. pending' = [pending EXCEPT ![p] = Behind(pending[p], dead[p], MaxAttempts - 1)]
    BY <1>5 DEF Recover, Swept, Behind
  <2> QED
    BY <1>1, <1>2, <1>3, <2>1, SweptLanes
<1>6. CASE RetryDead(p)
  <2>1. pending' = [pending EXCEPT ![p] = Behind(pending[p], dead[p], 0)]
    BY <1>6 DEF RetryDead, Revived, Behind
  <2> QED
    BY <1>1, <1>2, <1>3, <2>1, SweptLanes
<1> QED
  BY <1>5, <1>6

\* A step that keeps what was told keeps the truth of it.
LEMMA VerdictsStay ==
  ASSUME KnockInv, UNCHANGED <<taps, books, told>>
  PROVE  VerdictsAreTrue'
  BY DEF KnockInv, ServerInv, AnswersAreTrue, VerdictsAreTrue, books

\* A flush goes on in a lane that holds taps its representative waits for.
LEMMA FlushGoesOn ==
  ASSUME KnockInv, UNCHANGED <<taps, books, faults, suspended>>,
         NEW c \in Calls, NEW p \in Phones, NEW q, NEW d, NEW i \in Nat \ {0},
         NEW W, W \subseteq Owed(p), Hold(q, d, W), Walk(c, p, q, i),
         \A e \in Calls : call[e].fresh /\ call[e].phone = p => e = c,
         pending' = [pending EXCEPT ![p] = q],
         VerdictsAreTrue', LanesHold',
         dead' \in [Phones -> Seq(Taps)],
         told' \in [Taps -> {"none", Waiting, "saved", "superseded", "dropped"}]
  PROVE  KnockInv'
<1>1. q \in Seq(Lane)
  BY DEF Hold
<1>2. /\ FlushPoints'
      /\ call' \in [Calls -> CallRow] /\ inflight' \in [Phones -> BOOLEAN]
      /\ \A e \in Calls : e # c => call'[e] = call[e]
      /\ \/ call'[c].st = "idle"
         \/ call'[c].st = "sent" /\ \E j \in 1..Len(q) : call'[c].tap = q[j].tap
  BY <1>1, WalkFlush
<1>3. \A t \in W : t \in Taps /\ taps[t].at > 0
  BY DEF Owed, KnockInv, LanesHold, Waiting
<1>4. \A j \in 1..Len(q) : q[j].tap \in Taps /\ taps[q[j].tap].at > 0
  BY <1>3 DEF Hold
<1>5. faults' \in 0..FaultBudget
  BY DEF KnockInv, ServerInv, ServerTypeOK
<1>6. ServerInv'
  BY <1>2, <1>4, <1>5, PhoneCalls
<1>7. pending' \in [Phones -> Seq(Lane)]
  BY <1>1 DEF KnockInv, TypeOK, Lane
<1>8. TypeOK'
  BY <1>2, <1>6, <1>7 DEF KnockInv, TypeOK, ServerInv, Lane
<1> QED
  BY <1>2, <1>6, <1>8 DEF KnockInv

\* What a phone knows when it hears of a request it still waits for.
LEMMA Hearing ==
  ASSUME KnockInv, NEW c \in Calls, call[c].fresh
  PROVE  /\ call[c].phone \in Phones
         /\ call[c].idx \in 1..Len(pending[call[c].phone]) /\ call[c].idx \in Nat \ {0}
         /\ pending[call[c].phone][call[c].idx].tap = call[c].tap
         /\ pending[call[c].phone][call[c].idx] \in Lane
         /\ call[c].tap \in Taps /\ call[c].tap \in Owed(call[c].phone)
         /\ \A e \in Calls : call[e].fresh /\ call[e].phone = call[c].phone => e = c
<1>1. /\ call[c].phone \in Phones
      /\ call[c].idx \in 1..Len(pending[call[c].phone])
      /\ pending[call[c].phone][call[c].idx].tap = call[c].tap
      /\ \A e \in Calls : call[e].fresh /\ call[e].phone = call[c].phone => e = c
  BY DEF KnockInv, FlushPoints
<1>2. /\ Hold(pending[call[c].phone], dead[call[c].phone], Owed(call[c].phone))
      /\ pending[call[c].phone] \in Seq(Lane)
  BY <1>1, LanesAreTaps
<1>3. pending[call[c].phone][call[c].idx] \in Lane
  BY <1>1, <1>2, ElementOfSeq
<1>4. Len(pending[call[c].phone]) \in Nat
  BY <1>2, LenProperties
<1>5. call[c].tap \in Owed(call[c].phone)
  BY <1>1, <1>2 DEF Hold
<1>6. call[c].idx \in Nat \ {0}
  BY <1>1, <1>4
<1> QED
  BY <1>1, <1>3, <1>5, <1>6 DEF Owed

\* The lanes of a phone let go of a tap that is settled.
LEMMA LanesSettle ==
  ASSUME KnockInv, taps' = taps, NEW p \in Phones, NEW t \in Owed(p),
         NEW v \in {"saved", "superseded", "dropped"}, told' = [told EXCEPT ![t] = v],
         NEW q, NEW d, pending' = [pending EXCEPT ![p] = q],
         dead' = [dead EXCEPT ![p] = d], Hold(q, d, Owed(p) \ {t})
  PROVE  /\ LanesHold'
         /\ dead' \in [Phones -> Seq(Taps)]
         /\ told' \in [Taps -> {"none", Waiting, "saved", "superseded", "dropped"}]
<1>1. /\ pending \in [Phones -> Seq(Lane)] /\ dead \in [Phones -> Seq(Taps)]
      /\ told \in [Taps -> {"none", Waiting, "saved", "superseded", "dropped"}]
  BY DEF KnockInv, TypeOK, Lane
<1>2. t \in Taps /\ told[t] = Waiting /\ taps[t].phone = p
  BY DEF Owed
<1>3. told'[t] = v /\ \A u \in Taps : u # t => told'[u] = told[u]
  BY <1>1, <1>2
<1>4. Owed(p)' = Owed(p) \ {t} /\ \A r \in Phones : r # p => Owed(r)' = Owed(r)
  BY <1>2, <1>3 DEF Owed, Waiting
<1>5. /\ pending'[p] = q /\ \A r \in Phones : r # p => pending'[r] = pending[r]
      /\ dead'[p] = d /\ \A r \in Phones : r # p => dead'[r] = dead[r]
  BY <1>1
<1>6. ASSUME NEW r \in Phones PROVE Hold(pending'[r], dead'[r], Owed(r)')
  BY <1>4, <1>5 DEF KnockInv, LanesHold
<1>7. \A r \in Phones : Hold(pending[r], dead[r], Owed(r))'
  BY <1>6
<1>8. \A u \in Taps : told'[u] # "none" => taps'[u].at > 0 /\ taps'[u].phone \in Phones
  BY <1>2, <1>3 DEF KnockInv, LanesHold, Waiting
<1>9. d \in Seq(Taps)
  BY DEF Hold
<1>10. dead' \in [Phones -> Seq(Taps)]
  BY <1>1, <1>9
<1>11. told' \in [Taps -> {"none", Waiting, "saved", "superseded", "dropped"}]
  BY <1>1, <1>2
<1> QED
  BY <1>7, <1>8, <1>10, <1>11 DEF LanesHold

\* Nothing parked, nothing swept.
LEMMA NothingSwept ==
  ASSUME NEW q \in Seq(Lane)
  PROVE  Behind(q, <<>>, MaxAttempts - 1) = q
<1> DEFINE s == Behind(q, <<>>, MaxAttempts - 1)
<1>1. <<>> \in Seq(Taps) /\ Len(<<>>) = 0
  BY EmptySeq
<1>2. MaxAttempts - 1 \in 0..MaxAttempts
  OBVIOUS
<1>3. /\ s \in Seq(Lane) /\ Len(s) = Len(q) + Len(<<>>)
      /\ \A i \in 1..Len(q) : s[i] = q[i]
  BY <1>1, <1>2, SweepFacts
<1> HIDE DEF s
<1>4. Len(q) \in Nat
  BY LenProperties
<1>5. Len(s) = Len(q)
  BY <1>1, <1>3, <1>4
<1>6. s = q
  BY <1>3, <1>5, SeqEqual
<1> QED
  BY <1>6 DEF s

\* The representative is told that the knock is recorded.
LEMMA SavedStep ==
  ASSUME KnockInv, NEW c \in Calls, HearSaved(c)
  PROVE  KnockInv'
<1> DEFINE p == call[c].phone
           i == call[c].idx
           t == call[c].tap
           q == RemoveAt(pending[p], i)
           v == IF call[c].ans = "applied" THEN "saved" ELSE "superseded"
<1>1. /\ call[c].st = "answered" /\ call[c].ans \in {"applied", "superseded"}
      /\ call[c].fresh
  BY DEF HearSaved, Hears
<1>2. /\ p \in Phones /\ i \in 1..Len(pending[p]) /\ i \in Nat \ {0}
      /\ pending[p][i].tap = t /\ t \in Taps /\ t \in Owed(p)
      /\ \A e \in Calls : call[e].fresh /\ call[e].phone = p => e = c
  BY <1>1, Hearing
<1>3. UNCHANGED <<taps, books, faults, suspended>>
  BY DEF HearSaved
<1>4. told' = [told EXCEPT ![t] = v] /\ v \in {"saved", "superseded", "dropped"}
  BY DEF HearSaved
<1>5. PICK d \in {<<>>, dead[p]} :
        /\ pending' = [pending EXCEPT ![p] = Behind(q, d, MaxAttempts - 1)]
        /\ dead' = IF d = <<>> THEN dead ELSE [dead EXCEPT ![p] = <<>>]
        /\ Walk(c, p, Behind(q, d, MaxAttempts - 1), i)
  BY DEF HearSaved, Swept, Behind
<1>6. /\ v = "saved" => t \in applied \cup unhealed
      /\ v = "superseded" => door.at >= taps[t].at
      /\ row[t] # "none"
  BY <1>1 DEF KnockInv, ServerInv, AnswersAreTrue, TrueAnswer, HasRow
<1> HIDE DEF v
<1>7. VerdictsAreTrue'
  <2>1. told \in [Taps -> {"none", Waiting, "saved", "superseded", "dropped"}]
    BY DEF KnockInv, TypeOK
  <2>2. told'[t] = v /\ \A u \in Taps : u # t => told'[u] = told[u]
    BY <1>2, <1>4, <2>1
  <2>3. VerdictsAreTrue
    BY DEF KnockInv, ServerInv, AnswersAreTrue
  <2> HIDE DEF t
  <2> QED
    BY <1>3, <1>6, <2>2, <2>3 DEF VerdictsAreTrue, books
<1>8. Hold(q, dead[p], Owed(p) \ {t})
  <2>1. Hold(pending[p], dead[p], Owed(p))
    BY <1>2, LanesAreTaps
  <2> QED
    BY <1>2, <2>1, HoldRemove
<1> HIDE DEF p, i, t, q
<1>9. dead \in [Phones -> Seq(Taps)]
  BY DEF KnockInv, TypeOK
<1>10. ASSUME NEW s, NEW e, Hold(s, e, Owed(p) \ {t}), Walk(c, p, s, i),
              pending' = [pending EXCEPT ![p] = s], dead' = [dead EXCEPT ![p] = e]
       PROVE  KnockInv'
  <2>1. /\ LanesHold' /\ dead' \in [Phones -> Seq(Taps)]
        /\ told' \in [Taps -> {"none", Waiting, "saved", "superseded", "dropped"}]
    BY <1>2, <1>3, <1>4, <1>10, LanesSettle
  <2>2. Owed(p) \ {t} \subseteq Owed(p)
    OBVIOUS
  <2> QED
    BY <1>2, <1>3, <1>7, <1>10, <2>1, <2>2, FlushGoesOn
<1>11. CASE d = <<>>
  <2>1. Behind(q, d, MaxAttempts - 1) = q
    BY <1>8, <1>11, NothingSwept DEF Hold
  <2>2. dead' = [dead EXCEPT ![p] = dead[p]]
    BY <1>2, <1>5, <1>9, <1>11
  <2> QED
    BY <1>5, <1>8, <1>10, <2>1, <2>2
<1>12. CASE d # <<>>
  <2>1. d = dead[p] /\ dead' = [dead EXCEPT ![p] = <<>>]
    BY <1>5, <1>12
  <2>2. MaxAttempts - 1 \in 0..MaxAttempts
    OBVIOUS
  <2>3. Hold(Behind(q, d, MaxAttempts - 1), <<>>, Owed(p) \ {t})
    BY <1>8, <2>1, <2>2, HoldSweep
  <2> QED
    BY <1>5, <1>10, <2>1, <2>3
<1> QED
  BY <1>11, <1>12

\* The representative is told that the knock is lost for good.
LEMMA TerminalStep ==
  ASSUME KnockInv, NEW c \in Calls, HearTerminal(c)
  PROVE  KnockInv'
<1> DEFINE p == call[c].phone
           i == call[c].idx
           t == call[c].tap
           q == RemoveAt(pending[p], i)
<1>1. /\ call[c].fresh /\ UNCHANGED <<taps, books, faults, dead, suspended>>
      /\ told' = [told EXCEPT ![t] = "dropped"] /\ Walk(c, p, q, i)
      /\ pending' = [pending EXCEPT ![p] = q]
  BY DEF HearTerminal, Hears
<1>2. /\ p \in Phones /\ i \in 1..Len(pending[p]) /\ i \in Nat \ {0}
      /\ pending[p][i].tap = t /\ t \in Taps /\ t \in Owed(p)
      /\ \A e \in Calls : call[e].fresh /\ call[e].phone = p => e = c
  BY <1>1, Hearing
<1>3. VerdictsAreTrue'
  <2>1. told \in [Taps -> {"none", Waiting, "saved", "superseded", "dropped"}]
    BY DEF KnockInv, TypeOK
  <2>2. told'[t] = "dropped" /\ \A u \in Taps : u # t => told'[u] = told[u]
    BY <1>1, <1>2, <2>1
  <2>3. VerdictsAreTrue
    BY DEF KnockInv, ServerInv, AnswersAreTrue
  <2> HIDE DEF t
  <2> QED
    BY <1>1, <2>2, <2>3 DEF VerdictsAreTrue, books
<1>4. Hold(q, dead[p], Owed(p) \ {t})
  <2>1. Hold(pending[p], dead[p], Owed(p))
    BY <1>2, LanesAreTaps
  <2> QED
    BY <1>2, <2>1, HoldRemove
<1> HIDE DEF p, i, t, q
<1>5. dead' = [dead EXCEPT ![p] = dead[p]]
  <2>1. dead \in [Phones -> Seq(Taps)]
    BY DEF KnockInv, TypeOK
  <2> QED
    BY <1>1, <1>2, <2>1
<1>6. /\ LanesHold' /\ dead' \in [Phones -> Seq(Taps)]
      /\ told' \in [Taps -> {"none", Waiting, "saved", "superseded", "dropped"}]
  BY <1>1, <1>2, <1>4, <1>5, LanesSettle
<1>7. Owed(p) \ {t} \subseteq Owed(p)
  OBVIOUS
<1> QED
  BY <1>1, <1>2, <1>3, <1>4, <1>6, <1>7, FlushGoesOn

\* A flush of an idle phone starts.
LEMMA StartStep ==
  ASSUME KnockInv, NEW p \in Phones, StartFlush(p)
  PROVE  KnockInv'
<1>1. /\ ~inflight[p]
      /\ UNCHANGED <<taps, books, faults, pending, dead, suspended, told>>
  BY DEF StartFlush
<1>2. PICK c \in Calls : Walk(c, p, pending[p], 1)
  <2> DEFINE S == {d \in Calls : Idle(d)}
  <2>1. S \subseteq Nat /\ S # {}
    BY DEF StartFlush, Calls
  <2>2. \E d \in S : \A e \in S : d <= e
    <3> HIDE DEF S
    <3> QED
      BY <2>1, Least
  <2>3. \E d \in Calls : Idle(d) /\ \A e \in Calls : Idle(e) => d <= e
    BY <2>2
  <2> DEFINE c == CHOOSE d \in Calls : Idle(d) /\ \A e \in Calls : Idle(e) => d <= e
  <2>4. c \in Calls
    BY <2>3
  <2>5. Walk(c, p, pending[p], 1)
    BY DEF StartFlush
  <2> QED
    BY <2>4, <2>5
<1>3. \A e \in Calls : call[e].fresh /\ call[e].phone = p => e = c
  BY <1>1 DEF KnockInv, FlushPoints
<1>4. /\ Hold(pending[p], dead[p], Owed(p))
  BY LanesAreTaps
<1>5. pending' = [pending EXCEPT ![p] = pending[p]]
  <2>1. pending \in [Phones -> Seq(Lane)]
    BY DEF KnockInv, TypeOK, Lane
  <2> QED
    BY <1>1, <2>1
<1>6. VerdictsAreTrue' /\ LanesHold'
  BY <1>1, VerdictsStay, LanesStay
<1>7. /\ dead' \in [Phones -> Seq(Taps)]
      /\ told' \in [Taps -> {"none", Waiting, "saved", "superseded", "dropped"}]
  BY <1>1 DEF KnockInv, TypeOK
<1>8. 1 \in Nat \ {0} /\ Owed(p) \subseteq Owed(p)
  OBVIOUS
<1> QED
  BY <1>1, <1>2, <1>3, <1>4, <1>5, <1>6, <1>7, <1>8, FlushGoesOn

\* A flush leaves its loop and one item behind that waits for its backoff.
LEMMA Deferred ==
  ASSUME KnockInv, UNCHANGED <<taps, books, dead, suspended, told>>,
         faults' \in 0..FaultBudget, NEW c \in Calls, call[c].fresh,
         NEW p, p = call[c].phone, NEW i, i = call[c].idx,
         NEW x \in Lane, x.tap = pending[p][i].tap,
         pending' = [pending EXCEPT ![p] = [pending[p] EXCEPT ![i] = x]],
         inflight' = [inflight EXCEPT ![p] = FALSE],
         call' \in [Calls -> CallRow],
         \A e \in Calls : e # c => call'[e] = call[e],
         ~call'[c].fresh,
         \/ call'[c].st = "idle"
         \/ /\ call'[c].st = call[c].st /\ call'[c].tap = call[c].tap
            /\ call'[c].ans = call[c].ans
  PROVE  KnockInv'
<1> DEFINE q == [pending[p] EXCEPT ![i] = x]
<1>1. /\ p \in Phones /\ i \in 1..Len(pending[p])
      /\ \A e \in Calls : call[e].fresh /\ call[e].phone = p => e = c
  BY Hearing
<1>2. Hold(pending[p], dead[p], Owed(p))
  BY <1>1, LanesAreTaps
<1>3. Hold(q, dead[p], Owed(p))
  BY <1>1, <1>2, HoldEdit
<1>4. pending' = [pending EXCEPT ![p] = q]
  OBVIOUS
<1> HIDE DEF q
<1>5. dead' = [dead EXCEPT ![p] = dead[p]]
  <2>1. dead \in [Phones -> Seq(Taps)]
    BY DEF KnockInv, TypeOK
  <2> QED
    BY <1>1, <2>1
<1>6. /\ LanesHold' /\ \A r \in Phones : r # p => pending'[r] = pending[r]
      /\ pending' \in [Phones -> Seq(Lane)] /\ dead' \in [Phones -> Seq(Taps)]
  BY <1>1, <1>3, <1>4, <1>5, LanesMove
<1>7. inflight \in [Phones -> BOOLEAN]
  BY DEF KnockInv, TypeOK
<1>8. FlushPoints'
  <2>1. \A e \in Calls : call'[e].fresh => e # c /\ call'[e] = call[e] /\ call[e].fresh
    OBVIOUS
  <2>2. \A e \in Calls : call'[e].fresh => call[e].phone \in Phones /\ call[e].phone # p
    BY <1>1, <2>1 DEF KnockInv, FlushPoints
  <2>3. \A r \in Phones : r # p => inflight'[r] = inflight[r]
    BY <1>7
  <2>4. \A e \in Calls : call'[e].fresh =>
          LET r == call[e].phone IN
          /\ inflight'[r] = inflight[r] /\ call[e].idx \in 1..Len(pending'[r])
          /\ pending'[r][call[e].idx].tap = pending[r][call[e].idx].tap
    BY <1>6, <2>1, <2>2, <2>3 DEF KnockInv, FlushPoints
  <2>5. \A e \in Calls : call'[e].fresh =>
          /\ call[e].fresh /\ call'[e].tap = call[e].tap /\ call'[e].idx = call[e].idx
          /\ call'[e].phone = call[e].phone
    BY <2>1
  <2> QED
    BY <2>4, <2>5, FlushFrame DEF KnockInv
<1>9. VerdictsAreTrue'
  BY VerdictsStay
<1>10. \A e \in Calls :
         \/ call'[e].st = "idle"
         \/ /\ call'[e].st = call[e].st /\ call'[e].tap = call[e].tap
            /\ call'[e].ans = call[e].ans
  OBVIOUS
<1>11. ServerInv'
  BY <1>9, <1>10, PhoneCalls
<1>12. inflight' \in [Phones -> BOOLEAN]
  BY <1>7
<1>13. TypeOK'
  BY <1>6, <1>11, <1>12 DEF KnockInv, TypeOK, ServerInv, Lane
<1> QED
  BY <1>6, <1>8, <1>11, <1>13 DEF KnockInv

\* An item that waits, with some number of attempts.
LEMMA DeferStep ==
  ASSUME KnockInv, UNCHANGED <<taps, books, faults, dead, suspended, told>>,
         NEW c \in Calls, call[c].fresh, NEW n \in 0..MaxAttempts, Defer(c, n)
  PROVE  KnockInv'
<1> DEFINE p == call[c].phone
           i == call[c].idx
           x == [pending[p][i] EXCEPT !.attempts = n, !.due = FALSE]
<1>1. p \in Phones /\ i \in 1..Len(pending[p]) /\ pending[p][i] \in Lane
  BY Hearing
<1>2. x \in Lane /\ x.tap = pending[p][i].tap
  BY <1>1 DEF Lane
<1>3. pending' = [pending EXCEPT ![p] = [pending[p] EXCEPT ![i] = x]]
  BY DEF Defer
<1>4. /\ call' = [call EXCEPT ![c] = NoCall]
      /\ inflight' = [inflight EXCEPT ![p] = FALSE]
  BY DEF Defer, Stop
<1>5. call \in [Calls -> CallRow]
  BY DEF KnockInv, ServerInv, ServerTypeOK, CallRow
<1>6. /\ call' \in [Calls -> CallRow] /\ call'[c] = NoCall
      /\ \A e \in Calls : e # c => call'[e] = call[e]
  BY <1>4, <1>5, NoCallType
<1>7. ~call'[c].fresh /\ call'[c].st = "idle"
  BY <1>6 DEF NoCall
<1>8. faults' \in 0..FaultBudget
  BY DEF KnockInv, ServerInv, ServerTypeOK
<1> HIDE DEF x, p, i
<1> QED
  BY <1>2, <1>3, <1>4, <1>6, <1>7, <1>8, Deferred DEF p, i

LEMMA AttemptsType ==
  ASSUME KnockInv, NEW c \in Calls, call[c].fresh
  PROVE  Attempts(c) \in 0..MaxAttempts /\ Tries(Attempts(c)) \in 0..MaxAttempts
<1>1. pending[call[c].phone][call[c].idx] \in Lane
  BY Hearing
<1>2. Attempts(c) \in 0..MaxAttempts
  BY <1>1 DEF Attempts, Lane
<1> QED
  BY <1>2 DEF Tries

\* 401, 429, 5xx and no network.
LEMMA RetryStep ==
  ASSUME KnockInv, NEW c \in Calls, HearAuth(c) \/ HearError(c)
  PROVE  KnockInv'
<1>1. call[c].fresh /\ UNCHANGED <<taps, books, faults, dead, suspended, told>>
  BY DEF HearAuth, HearError, Hears
<1>2. \E n \in 0..MaxAttempts : Defer(c, n)
  BY <1>1, AttemptsType DEF HearAuth, HearError
<1> QED
  BY <1>1, <1>2, DeferStep

\* 403.
LEMMA ForbiddenStep ==
  ASSUME KnockInv, NEW c \in Calls, HearForbidden(c)
  PROVE  KnockInv'
<1> DEFINE p == call[c].phone
           i == call[c].idx
           t == call[c].tap
           q == RemoveAt(pending[p], i)
           e == Append(dead[p], t)
<1>1. call[c].fresh /\ UNCHANGED <<taps, books, faults, suspended, told>>
  BY DEF HearForbidden, Hears
<1>2. CASE dead' = dead /\ \E n \in 0..MaxAttempts : Defer(c, n)
  BY <1>1, <1>2, DeferStep
<1>3. CASE /\ pending' = [pending EXCEPT ![p] = q]
           /\ dead' = [dead EXCEPT ![p] = e]
           /\ Walk(c, p, q, i)
  <2>1. /\ p \in Phones /\ i \in 1..Len(pending[p]) /\ i \in Nat \ {0}
        /\ pending[p][i].tap = t
        /\ \A f \in Calls : call[f].fresh /\ call[f].phone = p => f = c
    BY <1>1, Hearing
  <2>2. Hold(q, e, Owed(p))
    <3>1. Hold(pending[p], dead[p], Owed(p))
      BY <2>1, LanesAreTaps
    <3>2. Hold(q, Append(dead[p], pending[p][i].tap), Owed(p))
      BY <2>1, <3>1, HoldPark
    <3> QED
      BY <2>1, <3>2
  <2> HIDE DEF p, i, t, q, e
  <2>3. LanesHold' /\ dead' \in [Phones -> Seq(Taps)]
    BY <1>1, <1>3, <2>1, <2>2, LanesMove
  <2>4. VerdictsAreTrue'
    BY <1>1, VerdictsStay
  <2>5. told' \in [Taps -> {"none", Waiting, "saved", "superseded", "dropped"}]
    BY <1>1 DEF KnockInv, TypeOK
  <2>6. Owed(p) \subseteq Owed(p)
    OBVIOUS
  <2> QED
    BY <1>1, <1>3, <2>1, <2>2, <2>3, <2>4, <2>5, <2>6, FlushGoesOn
<1>4. Attempts(c) \in 0..MaxAttempts /\ Tries(Attempts(c)) \in 0..MaxAttempts
  BY <1>1, AttemptsType
<1>5. \/ dead' = dead /\ \E n \in 0..MaxAttempts : Defer(c, n)
      \/ /\ pending' = [pending EXCEPT ![p] = q]
         /\ dead' = [dead EXCEPT ![p] = e]
         /\ Walk(c, p, q, i)
  BY <1>4 DEF HearForbidden
<1> QED
  BY <1>2, <1>3, <1>5

\* A request nobody waits for any more.
LEMMA LetGo ==
  ASSUME KnockInv, NEW c \in Calls, NEW x,
         x = (IF call[c].st = "answered" THEN NoCall
              ELSE [call[c] EXCEPT !.phone = Nobody, !.idx = 0, !.fresh = FALSE])
  PROVE  /\ x \in CallRow /\ ~x.fresh
         /\ \/ x.st = "idle"
            \/ x.st = call[c].st /\ x.tap = call[c].tap /\ x.ans = call[c].ans
<1>1. call[c] \in CallRow
  BY DEF KnockInv, ServerInv, ServerTypeOK, CallRow
<1> QED
  BY <1>1, NoCallType DEF CallRow, NoCall

LEMMA LoseStep ==
  ASSUME KnockInv, NEW c \in Calls, LoseAnswer(c)
  PROVE  KnockInv'
<1> DEFINE p == call[c].phone
           i == call[c].idx
           n == Tries(Attempts(c))
           x == [pending[p][i] EXCEPT !.attempts = n, !.due = FALSE]
           y == IF call[c].st = "answered" THEN NoCall
                ELSE [call[c] EXCEPT !.phone = Nobody, !.idx = 0, !.fresh = FALSE]
<1>1. /\ call[c].fresh /\ UNCHANGED <<taps, books, dead, suspended, told>>
      /\ faults' \in 0..FaultBudget
  BY DEF LoseAnswer, Fault, KnockInv, ServerInv, ServerTypeOK
<1>2. p \in Phones /\ i \in 1..Len(pending[p]) /\ pending[p][i] \in Lane
  BY <1>1, Hearing
<1>3. x \in Lane /\ x.tap = pending[p][i].tap
  <2>1. n \in 0..MaxAttempts
    BY <1>1, AttemptsType
  <2> HIDE DEF n
  <2> QED
    BY <1>2, <2>1 DEF Lane
<1>4. pending' = [pending EXCEPT ![p] = [pending[p] EXCEPT ![i] = x]]
  BY DEF LoseAnswer
<1>5. call' = [call EXCEPT ![c] = y] /\ inflight' = [inflight EXCEPT ![p] = FALSE]
  BY DEF LoseAnswer
<1>6. /\ y \in CallRow /\ ~y.fresh
      /\ \/ y.st = "idle"
         \/ y.st = call[c].st /\ y.tap = call[c].tap /\ y.ans = call[c].ans
  BY LetGo
<1> HIDE DEF x, y, p, i
<1>7. call \in [Calls -> CallRow]
  BY DEF KnockInv, ServerInv, ServerTypeOK, CallRow
<1>8. /\ call' \in [Calls -> CallRow] /\ call'[c] = y
      /\ \A e \in Calls : e # c => call'[e] = call[e]
  BY <1>5, <1>6, <1>7
<1>9. /\ ~call'[c].fresh
      /\ \/ call'[c].st = "idle"
         \/ /\ call'[c].st = call[c].st /\ call'[c].tap = call[c].tap
            /\ call'[c].ans = call[c].ans
  BY <1>6, <1>8
<1> QED
  BY <1>1, <1>3, <1>4, <1>5, <1>8, <1>9, Deferred DEF p, i

\* A flush whose run is over ends.
LEMMA StaleStep ==
  ASSUME KnockInv, NEW c \in Calls, EndStale(c)
  PROVE  KnockInv'
<1> DEFINE y == IF call[c].st = "answered" THEN NoCall
                ELSE [call[c] EXCEPT !.phone = Nobody, !.idx = 0]
<1>1. /\ ~call[c].fresh /\ inflight' = inflight
      /\ UNCHANGED <<taps, books, faults, pending, dead, suspended, told>>
      /\ call' = [call EXCEPT ![c] = y]
  BY DEF EndStale, ClearsFlag
<1>2. call \in [Calls -> CallRow]
  BY DEF KnockInv, ServerInv, ServerTypeOK, CallRow
<1>3. /\ y \in CallRow /\ ~y.fresh
      /\ \/ y.st = "idle"
         \/ y.st = call[c].st /\ y.tap = call[c].tap /\ y.ans = call[c].ans
  <2>1. call[c] \in CallRow
    BY <1>2
  <2> QED
    BY <1>1, <2>1, NoCallType DEF CallRow, NoCall
<1> HIDE DEF y
<1>4. /\ call' \in [Calls -> CallRow] /\ call'[c] = y
      /\ \A e \in Calls : e # c => call'[e] = call[e]
  BY <1>1, <1>2, <1>3
<1>5. FlushPoints'
  <2>1. \A e \in Calls : call'[e].fresh => call[e].fresh /\ call'[e] = call[e]
    BY <1>3, <1>4
  <2>2. \A e \in Calls : call'[e].fresh =>
          LET r == call[e].phone IN
          /\ inflight'[r] = inflight[r] /\ call[e].idx \in 1..Len(pending'[r])
          /\ pending'[r][call[e].idx].tap = pending[r][call[e].idx].tap
    BY <1>1, <2>1 DEF KnockInv, FlushPoints
  <2>3. \A e \in Calls : call'[e].fresh =>
          /\ call[e].fresh /\ call'[e].tap = call[e].tap /\ call'[e].idx = call[e].idx
          /\ call'[e].phone = call[e].phone
    BY <2>1
  <2> QED
    BY <2>2, <2>3, FlushFrame DEF KnockInv
<1>6. LanesHold' /\ VerdictsAreTrue'
  BY <1>1, LanesStay, VerdictsStay
<1>7. faults' \in 0..FaultBudget
  BY <1>1 DEF KnockInv, ServerInv, ServerTypeOK
<1>8. \A e \in Calls :
        \/ call'[e].st = "idle"
        \/ /\ call'[e].st = call[e].st /\ call'[e].tap = call[e].tap
           /\ call'[e].ans = call[e].ans
  BY <1>3, <1>4
<1>9. ServerInv'
  BY <1>1, <1>4, <1>6, <1>7, <1>8, PhoneCalls
<1>10. TypeOK'
  BY <1>1, <1>9 DEF KnockInv, TypeOK, ServerInv
<1> QED
  BY <1>5, <1>6, <1>9, <1>10 DEF KnockInv

\* The run of a phone is over: none of its requests is waited for.
LEMMA RunEnds ==
  ASSUME KnockInv, UNCHANGED <<taps, books, told>>, faults' \in 0..FaultBudget,
         NEW p \in Phones, inflight' = [inflight EXCEPT ![p] = FALSE],
         suspended' \in [Phones -> BOOLEAN], LanesHold',
         \A r \in Phones : r # p => pending'[r] = pending[r],
         pending' \in [Phones -> Seq(Lane)], dead' \in [Phones -> Seq(Taps)],
         call' \in [Calls -> CallRow],
         \A d \in Calls :
           /\ IF call[d].phone = p THEN ~call'[d].fresh ELSE call'[d] = call[d]
           /\ \/ call'[d].st = "idle"
              \/ /\ call'[d].st = call[d].st /\ call'[d].tap = call[d].tap
                 /\ call'[d].ans = call[d].ans
  PROVE  KnockInv'
<1>1. inflight \in [Phones -> BOOLEAN]
  BY DEF KnockInv, TypeOK
<1>2. /\ inflight' \in [Phones -> BOOLEAN]
      /\ \A r \in Phones : r # p => inflight'[r] = inflight[r]
  BY <1>1
<1>3. FlushPoints'
  <2>1. \A e \in Calls : call'[e].fresh =>
          call[e].phone # p /\ call'[e] = call[e] /\ call[e].fresh
    OBVIOUS
  <2>2. \A e \in Calls : call'[e].fresh =>
          LET r == call[e].phone IN
          /\ inflight'[r] = inflight[r] /\ call[e].idx \in 1..Len(pending'[r])
          /\ pending'[r][call[e].idx].tap = pending[r][call[e].idx].tap
    BY <1>2, <2>1 DEF KnockInv, FlushPoints
  <2>3. \A e \in Calls : call'[e].fresh =>
          /\ call[e].fresh /\ call'[e].tap = call[e].tap /\ call'[e].idx = call[e].idx
          /\ call'[e].phone = call[e].phone
    BY <2>1
  <2> QED
    BY <2>2, <2>3, FlushFrame DEF KnockInv
<1>4. VerdictsAreTrue'
  BY VerdictsStay
<1>5. ServerInv'
  BY <1>4, PhoneCalls
<1>6. TypeOK'
  BY <1>2, <1>5 DEF KnockInv, TypeOK, ServerInv, Lane
<1> QED
  BY <1>3, <1>5, <1>6 DEF KnockInv

\* The session is lost or comes back.
LEMMA SessionStep ==
  ASSUME KnockInv, NEW p \in Phones, Suspend(p) \/ Resume(p)
  PROVE  KnockInv'
<1>1. /\ UNCHANGED <<taps, books, pending, dead, told>> /\ call' = Outdated(p)
      /\ inflight' = [inflight EXCEPT ![p] = FALSE]
  BY DEF Suspend, Resume
<1>2. faults' \in 0..FaultBudget
  BY DEF Suspend, Resume, Fault, KnockInv, ServerInv, ServerTypeOK
<1>3. suspended' \in [Phones -> BOOLEAN]
  BY DEF Suspend, Resume, KnockInv, TypeOK
<1>4. call \in [Calls -> CallRow]
  BY DEF KnockInv, ServerInv, ServerTypeOK, CallRow
<1>5. ASSUME NEW d \in Calls
      PROVE  /\ call'[d] \in CallRow
             /\ IF call[d].phone = p THEN ~call'[d].fresh ELSE call'[d] = call[d]
             /\ call'[d].st = call[d].st /\ call'[d].tap = call[d].tap
             /\ call'[d].ans = call[d].ans
  <2>1. call[d] \in CallRow
    BY <1>4
  <2>2. call'[d] = IF call[d].phone = p THEN [call[d] EXCEPT !.fresh = FALSE]
                   ELSE call[d]
    BY <1>1 DEF Outdated
  <2> QED
    BY <2>1, <2>2 DEF CallRow
<1>6. call' \in [Calls -> CallRow]
  <2>1. call' = [d \in Calls |-> call'[d]]
    BY <1>1 DEF Outdated
  <2> QED
    BY <1>5, <2>1
<1>7. LanesHold'
  BY <1>1, LanesStay
<1>8. pending' \in [Phones -> Seq(Lane)] /\ dead' \in [Phones -> Seq(Taps)]
  BY <1>1 DEF KnockInv, TypeOK, Lane
<1> QED
  BY <1>1, <1>2, <1>3, <1>5, <1>6, <1>7, <1>8, RunEnds

\* The page is opened again.
LEMMA ReloadStep ==
  ASSUME KnockInv, NEW p \in Phones, Reload(p)
  PROVE  KnockInv'
<1> DEFINE s == Behind(pending[p], dead[p], MaxAttempts - 1)
<1>1. /\ UNCHANGED <<taps, books, suspended, told>>
      /\ inflight' = [inflight EXCEPT ![p] = FALSE]
      /\ dead' = [dead EXCEPT ![p] = <<>>]
      /\ call' = [d \in Calls |->
                    IF call[d].phone # p THEN call[d]
                    ELSE IF call[d].st = "answered" THEN NoCall
                    ELSE [call[d] EXCEPT !.phone = Nobody, !.idx = 0, !.fresh = FALSE]]
  BY DEF Reload
<1>2. pending' = [pending EXCEPT ![p] = s]
  BY DEF Reload, Swept, Behind
<1>3. Hold(s, <<>>, Owed(p))
  <2>1. Hold(pending[p], dead[p], Owed(p))
    BY LanesAreTaps
  <2>2. MaxAttempts - 1 \in 0..MaxAttempts
    OBVIOUS
  <2> QED
    BY <2>1, <2>2, HoldSweep
<1> HIDE DEF s
<1>4. /\ LanesHold' /\ \A r \in Phones : r # p => pending'[r] = pending[r]
      /\ pending' \in [Phones -> Seq(Lane)] /\ dead' \in [Phones -> Seq(Taps)]
  BY <1>1, <1>2, <1>3, LanesMove
<1>5. ASSUME NEW d \in Calls
      PROVE  /\ call'[d] \in CallRow
             /\ IF call[d].phone = p THEN ~call'[d].fresh ELSE call'[d] = call[d]
             /\ \/ call'[d].st = "idle"
                \/ /\ call'[d].st = call[d].st /\ call'[d].tap = call[d].tap
                   /\ call'[d].ans = call[d].ans
  <2>1. call[d] \in CallRow
    BY DEF KnockInv, ServerInv, ServerTypeOK, CallRow
  <2>2. CASE call[d].phone # p
    BY <1>1, <2>1, <2>2
  <2>3. CASE call[d].phone = p
    <3>1. call'[d] = IF call[d].st = "answered" THEN NoCall
                     ELSE [call[d] EXCEPT !.phone = Nobody, !.idx = 0, !.fresh = FALSE]
      BY <1>1, <2>3
    <3> QED
      BY <2>3, <3>1, LetGo
  <2> QED
    BY <2>2, <2>3
<1>6. call' \in [Calls -> CallRow]
  <2>1. call' = [d \in Calls |-> call'[d]]
    BY <1>1
  <2> QED
    BY <1>5, <2>1
<1>7. faults' \in 0..FaultBudget /\ suspended' \in [Phones -> BOOLEAN]
  <2>1. faults \in 0..FaultBudget /\ suspended \in [Phones -> BOOLEAN]
    BY DEF KnockInv, TypeOK, ServerTypeOK
  <2>2. faults < FaultBudget /\ faults' = faults + 1
    BY DEF Reload, Fault
  <2>3. faults' \in 0..FaultBudget
    BY <2>1, <2>2, SMTT(20)
  <2>4. suspended' = suspended
    BY DEF Reload
  <2> QED
    BY <2>1, <2>3, <2>4
<1> QED
  BY <1>1, <1>4, <1>5, <1>6, <1>7, RunEnds

\* A backoff elapses.
LEMMA BackoffStep ==
  ASSUME KnockInv, NEW p \in Phones, BackoffElapses(p)
  PROVE  KnockInv'
<1>1. UNCHANGED <<server, dead, inflight, suspended, told>>
  BY DEF BackoffElapses
<1>2. PICK i \in 1..Len(pending[p]) : pending' = [pending EXCEPT ![p][i].due = TRUE]
  BY DEF BackoffElapses
<1> DEFINE x == [pending[p][i] EXCEPT !.due = TRUE]
           q == [pending[p] EXCEPT ![i] = x]
<1>3. Hold(pending[p], dead[p], Owed(p)) /\ pending[p][i] \in Lane
  BY LanesAreTaps, ElementOfSeq
<1>4. x \in Lane /\ x.tap = pending[p][i].tap
  BY <1>3 DEF Lane
<1>5. pending' = [pending EXCEPT ![p] = q]
  BY <1>2
<1> HIDE DEF x
<1>6. /\ Hold(q, dead[p], Owed(p)) /\ Len(q) = Len(pending[p])
      /\ \A j \in 1..Len(pending[p]) : q[j].tap = pending[p][j].tap
  BY <1>3, <1>4, HoldEdit
<1> HIDE DEF q
<1>7. dead' = [dead EXCEPT ![p] = dead[p]]
  <2>1. dead \in [Phones -> Seq(Taps)]
    BY DEF KnockInv, TypeOK
  <2> QED
    BY <1>1, <2>1
<1>8. /\ LanesHold' /\ pending'[p] = q
      /\ \A r \in Phones : r # p => pending'[r] = pending[r]
      /\ pending' \in [Phones -> Seq(Lane)] /\ dead' \in [Phones -> Seq(Taps)]
  BY <1>1, <1>5, <1>6, <1>7, LanesMove DEF server
<1>9. FlushPoints'
  <2>1. \A d \in Calls : call[d].fresh =>
          LET r == call[d].phone IN
          /\ call[d].idx \in 1..Len(pending'[r])
          /\ pending'[r][call[d].idx].tap = pending[r][call[d].idx].tap
    BY <1>6, <1>8 DEF KnockInv, FlushPoints
  <2> QED
    BY <1>1, <2>1, FlushFrame DEF KnockInv, server
<1>10. VerdictsAreTrue'
  BY <1>1, VerdictsStay DEF server
<1>11. call' \in [Calls -> CallRow] /\ faults' \in 0..FaultBudget
  BY <1>1 DEF server, KnockInv, ServerInv, ServerTypeOK, CallRow
<1>12. ServerInv'
  BY <1>1, <1>10, <1>11, PhoneCalls DEF server
<1>13. TypeOK'
  BY <1>1, <1>8, <1>12 DEF KnockInv, TypeOK, ServerInv, Lane
<1> QED
  BY <1>8, <1>9, <1>12, <1>13 DEF KnockInv

\* Nothing happens.
LEMMA StutterStep ==
  ASSUME KnockInv, UNCHANGED vars
  PROVE  KnockInv'
<1>1. UNCHANGED <<taps, books, call, faults, pending, dead, inflight, suspended, told>>
  BY DEF vars, server, phones
<1>2. LanesHold' /\ VerdictsAreTrue'
  BY <1>1, LanesStay, VerdictsStay
<1>3. FlushPoints'
  BY <1>1 DEF KnockInv, FlushPoints
<1>4. call' \in [Calls -> CallRow] /\ faults' \in 0..FaultBudget
  BY <1>1 DEF KnockInv, ServerInv, ServerTypeOK, CallRow
<1>5. ServerInv'
  BY <1>1, <1>2, <1>4, PhoneCalls
<1>6. TypeOK'
  BY <1>1, <1>5 DEF KnockInv, TypeOK, ServerInv
<1> QED
  BY <1>2, <1>3, <1>5, <1>6 DEF KnockInv

-----------------------------------------------------------------------------
(* The invariant, and what follows from it.                                *)

LEMMA InitHolds == Init => KnockInv
<1> SUFFICES ASSUME Init PROVE KnockInv
  OBVIOUS
<1>1. <<>> \in Seq(Lane) /\ <<>> \in Seq(Taps)
  BY EmptySeq
<1>2. ServerTypeOK
  <2>1. NoTap \in [phone : Phones \cup {Nobody}, rep : Reps \cup {Nobody},
                  outcome : Outcomes, at : Times \cup {0}]
    BY DEF NoTap, Outcomes
  <2>2. 0 \in 0..FaultBudget
    OBVIOUS
  <2>3. call \in [Calls -> CallRow]
    BY NoCallType DEF Init, ServerInit
  <2>4. taps \in [Taps -> [phone : Phones \cup {Nobody}, rep : Reps \cup {Nobody},
                          outcome : Outcomes, at : Times \cup {0}]]
    BY <2>1 DEF Init, ServerInit
  <2> QED
    BY <2>2, <2>3, <2>4 DEF Init, ServerInit, ServerTypeOK, CallRow
<1>3. TypeOK
  BY <1>1, <1>2 DEF Init, TypeOK, Lane
<1>4. CallsAreNamed
  BY DEF Init, ServerInit, CallsAreNamed, NoCall
<1>5. DoorInv
  BY DEF Init, ServerInit, DoorInv, NewestTapWins, MoneyFollowsKnocks, Newest
<1>6. AnswersAreTrue
  <2>1. \A c \in Calls : TrueAnswer(c) /\ HasRow(c)
    BY DEF Init, ServerInit, TrueAnswer, HasRow, NoCall
  <2> QED
    BY <2>1 DEF Init, ServerInit, AnswersAreTrue, VerdictsAreTrue
<1>7. LanesHold
  <2>1. \A p \in Phones : Owed(p) = {} /\ pending[p] = <<>> /\ dead[p] = <<>>
    BY DEF Init, Owed, Waiting
  <2>2. \A t \in Taps : told[t] = "none"
    BY DEF Init
  <2> QED
    BY <2>1, <2>2, HoldNothing DEF LanesHold
<1>8. FlushPoints
  BY DEF Init, ServerInit, FlushPoints, NoCall
<1> QED
  BY <1>2, <1>3, <1>4, <1>5, <1>6, <1>7, <1>8 DEF KnockInv, ServerInv

LEMMA NextKeeps == KnockInv /\ [Next]_vars => KnockInv'
<1> SUFFICES ASSUME KnockInv, [Next]_vars PROVE KnockInv'
  OBVIOUS
<1>1. CASE ServerNext /\ UNCHANGED phones
  BY <1>1, ServerMoves
<1>2. ASSUME NEW c \in Calls, Hear(c) \/ LoseAnswer(c) PROVE KnockInv'
  BY <1>2, SavedStep, TerminalStep, RetryStep, ForbiddenStep, StaleStep, LoseStep DEF Hear
<1>3. ASSUME NEW p \in Phones,
             \/ \E o \in Outcomes : Tap(p, o)
             \/ Recover(p) \/ RetryDead(p) \/ StartFlush(p)
             \/ Suspend(p) \/ Resume(p) \/ Reload(p)
             \/ BackoffElapses(p)
      PROVE  KnockInv'
  BY <1>3, TapStep, SweepSteps, StartStep, SessionStep, ReloadStep, BackoffStep
<1>4. CASE UNCHANGED vars
  BY <1>4, StutterStep
<1> QED
  BY <1>1, <1>2, <1>3, <1>4 DEF Next

\* Every statement of the handler, every answer a phone hears and every loss of
\* a session or page keeps lanes, flushes, answers, door and money in order.
THEOREM KnockInvariant == Spec => []KnockInv
<1>1. Init => KnockInv
  BY InitHolds
<1>2. KnockInv /\ [Next]_vars => KnockInv'
  BY NextKeeps
<1> QED
  BY <1>1, <1>2, PTL DEF Spec

\* Lanes that hold what is owed keep every tap in its one place.
LEMMA LanesKeepTaps == KnockInv => TapsAreKept
<1> SUFFICES ASSUME KnockInv, NEW p \in Phones, NEW t \in Taps
             PROVE  IF told[t] = Waiting /\ taps[t].phone = p
                    THEN \E x \in Places(p, t) : Places(p, t) = {x}
                    ELSE Places(p, t) = {}
  BY DEF TapsAreKept, KnockInv
<1> DEFINE q == pending[p]
           d == dead[p]
<1>1. Hold(q, d, Owed(p))
  BY LanesAreTaps
<1>2. Places(p, t) =
        {<<"pending", i>> : i \in {j \in 1..Len(q) : q[j].tap = t}}
        \cup {<<"dead", i>> : i \in {j \in 1..Len(d) : d[j] = t}}
  BY DEF Places
<1> HIDE DEF q, d
<1>3. CASE t \in Owed(p)
  <2>1. CASE \E i \in 1..Len(q) : q[i].tap = t
    <3>1. PICK i \in 1..Len(q) : q[i].tap = t
      BY <2>1
    <3>2. {j \in 1..Len(q) : q[j].tap = t} = {i}
      BY <1>1, <3>1 DEF Hold
    <3>3. {j \in 1..Len(d) : d[j] = t} = {}
      BY <1>1, <3>1 DEF Hold
    <3>4. Places(p, t) = {<<"pending", i>>}
      BY <1>2, <3>2, <3>3
    <3> QED
      BY <1>3, <3>4 DEF Owed
  <2>2. CASE ~\E i \in 1..Len(q) : q[i].tap = t
    <3>1. PICK i \in 1..Len(d) : d[i] = t
      BY <1>1, <1>3, <2>2 DEF Hold
    <3>2. {j \in 1..Len(d) : d[j] = t} = {i}
      BY <1>1, <3>1 DEF Hold
    <3>3. {j \in 1..Len(q) : q[j].tap = t} = {}
      BY <2>2
    <3>4. Places(p, t) = {<<"dead", i>>}
      BY <1>2, <3>2, <3>3
    <3> QED
      BY <1>3, <3>4 DEF Owed
  <2> QED
    BY <2>1, <2>2
<1>4. CASE t \notin Owed(p)
  <2>1. /\ {j \in 1..Len(q) : q[j].tap = t} = {}
        /\ {j \in 1..Len(d) : d[j] = t} = {}
    BY <1>1, <1>4 DEF Hold
  <2>2. Places(p, t) = {}
    BY <1>2, <2>1
  <2> QED
    BY <1>4, <2>2 DEF Owed
<1> QED
  BY <1>3, <1>4

\* The queue of a phone neither loses a tap nor queues it twice, whatever
\* sessions, pages, backoffs, sweeps and answers come in between.
THEOREM TapsAreKeptCorrect == Spec => []TapsAreKept
  BY KnockInvariant, LanesKeepTaps, PTL

\* What a phone tells its representative about a knock is so on the server: it is
\* on record, and it has won its door, met something as new or failed when repeated.
THEOREM VerdictsAreTrueCorrect == Spec => []VerdictsAreTrue
<1>1. KnockInv => VerdictsAreTrue
  BY DEF KnockInv, ServerInv, AnswersAreTrue
<1> QED
  BY <1>1, KnockInvariant, PTL

\* The money bundle gives the door to the newest knock in whatever order
\* calls are served, repeated, interrupted and overruled.
THEOREM NewestTapWinsCorrect == Spec => []NewestTapWins
<1>1. KnockInv => NewestTapWins
  BY DEF KnockInv, ServerInv, DoorInv
<1> QED
  BY <1>1, KnockInvariant, PTL

\* The money bundle books and takes back sale and commission with the door.
THEOREM MoneyFollowsKnocksCorrect == Spec => []MoneyFollowsKnocks
<1>1. KnockInv => MoneyFollowsKnocks
  BY DEF KnockInv, ServerInv, DoorInv
<1> QED
  BY <1>1, KnockInvariant, PTL

-----------------------------------------------------------------------------
(* Refinement: the phones and the server keep the book of TapBook.         *)

\* The book and the model speak of the same taps, moments and wins.
LEMMA SameWords ==
  /\ TheBook!Taps = Taps /\ TheBook!Times = Times /\ TheBook!Outcomes = Outcomes
  /\ \A t \in Taps : /\ Said[t] = [outcome |-> taps[t].outcome, at |-> taps[t].at]
                     /\ Said[t].outcome = taps[t].outcome /\ Said[t].at = taps[t].at
                     /\ TheBook!Made(t) <=> taps[t].at > 0
                     /\ TheBook!Wins(t) <=> Wins(t)
<1>1. TheBook!Taps = Taps /\ TheBook!Times = Times /\ TheBook!Outcomes = Outcomes
  BY DEF TheBook!Taps, TheBook!Times, TheBook!Outcomes, Taps, Times, Outcomes
<1>2. \A t \in Taps : Said[t] = [outcome |-> taps[t].outcome, at |-> taps[t].at]
  BY DEF Said
<1> QED
  BY <1>1, <1>2 DEF TheBook!Made, TheBook!Wins, Wins

\* Nothing that the book writes down.
Unwritten == UNCHANGED <<Said, told, Recorded, door, applied, unhealed>>

LEMMA SameSaid ==
  /\ taps' = taps => Said' = Said
  /\ row' = row => Recorded' = Recorded
  BY DEF Said, Recorded

\* Every statement of the handler puts the tap on record, shows it, gives it up or
\* writes nothing in the book.
LEMMA ServeBook ==
  ASSUME KnockInv, NEW c \in Calls, Serve(c) \/ Refuse(c) \/ Die(c), told' = told
  PROVE  TheBook!Next \/ Unwritten
<1> DEFINE t == call[c].tap
<1>1. t \in Taps /\ taps[t].at > 0 /\ Said' = Said
  BY ServeCalls, SameSaid DEF KnockInv, ServerInv
<1>2. call[c].st \in {"bundle", "mark", "heal", "remark"} => t \in Recorded
  BY <1>1 DEF KnockInv, ServerInv, AnswersAreTrue, HasRow, Recorded
<1> HIDE DEF t
<1>3. ASSUME MoneyBundle(t), UNCHANGED <<row, unhealed>>, t \in Recorded
      PROVE  TheBook!Next \/ Unwritten
  <2>1. Recorded' = Recorded
    BY <1>3, SameSaid
  <2>2. CASE Wins(t)
    <3>1. /\ door' = [outcome |-> taps[t].outcome, at |-> taps[t].at]
          /\ applied' = applied \cup {t}
      BY <1>3, <2>2 DEF MoneyBundle
    <3>2. TheBook!Show(t)
      BY <1>1, <1>3, <2>1, <2>2, <3>1, SameWords DEF TheBook!Show
    <3> QED
      BY <1>1, <3>2, SameWords DEF TheBook!Next
  <2>3. CASE ~Wins(t)
    <3>1. UNCHANGED <<door, applied>>
      BY <1>3, <2>3 DEF MoneyBundle
    <3> QED
      BY <1>1, <1>3, <2>1, <3>1 DEF Unwritten
  <2> QED
    BY <2>2, <2>3
<1>4. CASE Refuse(c) \/ Die(c) \/ Lookup(c)
  <2>1. UNCHANGED <<row, door, applied, unhealed>>
    BY <1>4 DEF Refuse, Die, Lookup, books
  <2> QED
    BY <1>1, <2>1, SameSaid DEF Unwritten
<1>5. CASE Insert(c)
  <2>1. UNCHANGED <<door, applied, unhealed>>
    BY <1>5 DEF Insert
  <2>2. CASE row' = row
    BY <1>1, <2>1, <2>2, SameSaid DEF Unwritten
  <2>3. CASE row' = [row EXCEPT ![t] = "unmarked"]
    <3>1. Recorded' = Recorded \cup {t}
      BY <1>1, <2>3 DEF Recorded, KnockInv, ServerInv, ServerTypeOK
    <3>2. TheBook!Record(t)
      BY <1>1, <2>1, <3>1, SameWords DEF TheBook!Record
    <3> QED
      BY <1>1, <3>2, SameWords DEF TheBook!Next
  <2> QED
    BY <1>5, <2>2, <2>3 DEF Insert, t
<1>6. CASE Mark(c) \/ Remark(c)
  <2>1. /\ UNCHANGED <<door, applied, unhealed>> /\ t \in Recorded
        /\ \E v \in {"applied", "superseded"} : row' = [row EXCEPT ![t] = v]
    BY <1>2, <1>6 DEF Mark, Remark, At, Other, t, KnockInv, ServerInv, CallsAreNamed
  <2>2. Recorded' = Recorded
    BY <1>1, <2>1 DEF Recorded, KnockInv, ServerInv, ServerTypeOK
  <2> QED
    BY <1>1, <2>1, <2>2 DEF Unwritten
<1>7. CASE Bundle(c)
  <2>1. /\ UNCHANGED <<row, unhealed>> /\ t \in Recorded
        /\ MoneyBundle(t) \/ UNCHANGED <<door, applied>>
    BY <1>2, <1>7 DEF Bundle, At, t
  <2> QED
    BY <1>1, <1>3, <2>1, SameSaid DEF Unwritten
<1>8. CASE Heal(c)
  <2>1. UNCHANGED <<row, unhealed>> /\ t \in Recorded /\ MoneyBundle(t)
    BY <1>2, <1>8 DEF Heal, At, t
  <2> QED
    BY <1>3, <2>1
<1>9. CASE HealFails(c)
  <2>1. /\ unhealed' = unhealed \cup {t} /\ UNCHANGED <<row, door, applied>>
        /\ t \in Recorded
    BY <1>2, <1>9 DEF HealFails, t
  <2>2. TheBook!GiveUp(t)
    BY <1>1, <2>1, SameSaid DEF TheBook!GiveUp
  <2> QED
    BY <1>1, <2>2, SameWords DEF TheBook!Next
<1> QED
  BY <1>4, <1>5, <1>6, <1>7, <1>8, <1>9 DEF Serve

\* Managers overrule the door, or write elsewhere.
LEMMA ManagerBook ==
  ASSUME Overrule \/ ReverseSale \/ \E t \in Taps : Approve(t) \/ Pay(t), told' = told
  PROVE  TheBook!Next \/ Unwritten
<1>1. Said' = Said /\ Recorded' = Recorded /\ UNCHANGED <<applied, unhealed>>
  BY SameSaid DEF Overrule, ReverseSale, Approve, Pay
<1>2. CASE Overrule
  <2>1. TheBook!Overrule
    BY <1>1, <1>2, SameWords DEF Overrule, TheBook!Overrule
  <2> QED
    BY <2>1 DEF TheBook!Next
<1>3. CASE ReverseSale \/ \E t \in Taps : Approve(t) \/ Pay(t)
  <2>1. door' = door
    BY <1>3 DEF ReverseSale, Approve, Pay
  <2> QED
    BY <1>1, <2>1 DEF Unwritten
<1> QED
  BY <1>2, <1>3

\* A tap is written down as it is made.
LEMMA TapBooked ==
  ASSUME KnockInv, NEW p \in Phones, NEW o \in Outcomes, Tap(p, o)
  PROVE  TheBook!Next
<1>1. PICK t \in Taps, at \in Times :
        /\ taps[t].at = 0
        /\ \E rep \in Credits[t] :
             taps' = [taps EXCEPT ![t] = [phone |-> p, rep |-> rep, outcome |-> o,
                                          at |-> at]]
        /\ told' = [told EXCEPT ![t] = Waiting]
  BY DEF Tap
<1>2. taps \in [Taps -> [phone : Phones \cup {Nobody}, rep : Reps \cup {Nobody},
                         outcome : Outcomes, at : Times \cup {0}]]
  BY DEF KnockInv, TypeOK, ServerTypeOK
<1>3. Said' = [Said EXCEPT ![t] = [outcome |-> o, at |-> at]]
  <2>1. /\ taps'[t].outcome = o /\ taps'[t].at = at
        /\ \A u \in Taps : u # t => taps'[u] = taps[u]
    BY <1>1, <1>2
  <2>2. Said' = [u \in Taps |-> [outcome |-> taps'[u].outcome, at |-> taps'[u].at]]
    BY DEF Said
  <2> QED
    BY <2>1, <2>2 DEF Said
<1>4. ~TheBook!Made(t)
  <2>1. Said[t].at = 0
    BY <1>1, SameWords
  <2> QED
    BY <2>1 DEF TheBook!Made
<1>5. Recorded' = Recorded /\ UNCHANGED <<door, applied, unhealed>>
  BY SameSaid DEF Tap, books
<1>6. TheBook!Make(t)
  BY <1>1, <1>3, <1>4, <1>5, SameWords DEF TheBook!Make, Waiting
<1> QED
  BY <1>6, SameWords DEF TheBook!Next

\* A verdict that a phone hears is due, and true.
LEMMA HearBook ==
  ASSUME KnockInv, NEW c \in Calls, HearSaved(c) \/ HearTerminal(c)
  PROVE  TheBook!Next
<1> DEFINE t == call[c].tap
<1>1. call[c].fresh /\ call[c].st = "answered"
  BY DEF HearSaved, HearTerminal, Hears
<1>2. t \in Taps /\ told[t] = Waiting
  BY <1>1, Hearing DEF Owed
<1>3. TrueAnswer(c) /\ HasRow(c)
  BY DEF KnockInv, ServerInv, AnswersAreTrue
<1>4. Said' = Said /\ Recorded' = Recorded /\ UNCHANGED <<door, applied, unhealed>>
  BY SameSaid DEF HearSaved, HearTerminal, books
<1>5. PICK v \in {"saved", "superseded", "dropped"} :
        /\ v = "saved" => t \in applied \cup unhealed
        /\ v = "superseded" => t \in Recorded /\ door.at >= taps[t].at
        /\ told' = [told EXCEPT ![t] = v]
  <2>1. CASE HearTerminal(c)
    BY <2>1 DEF HearTerminal
  <2>2. CASE HearSaved(c) /\ call[c].ans = "applied"
    BY <1>1, <1>3, <2>2 DEF HearSaved, TrueAnswer
  <2>3. CASE HearSaved(c) /\ call[c].ans = "superseded"
    BY <1>1, <1>2, <1>3, <2>3 DEF HearSaved, TrueAnswer, HasRow, Recorded
  <2> QED
    BY <2>1, <2>2, <2>3 DEF HearSaved, Hears
<1> HIDE DEF t
<1>6. TheBook!Settle(t)
  BY <1>2, <1>4, <1>5, SameWords DEF TheBook!Settle, Waiting
<1> QED
  BY <1>2, <1>6, SameWords DEF TheBook!Next

LEMMA BookStep ==
  KnockInv /\ [Next]_vars => [TheBook!Next]_(TheBook!bookVars)
<1> SUFFICES ASSUME KnockInv, [Next]_vars PROVE TheBook!Next \/ Unwritten
  BY DEF Unwritten, TheBook!bookVars
<1>1. CASE ServerNext /\ UNCHANGED phones
  BY <1>1, ServeBook, ManagerBook DEF ServerNext, phones
<1>2. ASSUME NEW c \in Calls, Hear(c) \/ LoseAnswer(c)
      PROVE  TheBook!Next \/ Unwritten
  <2>1. CASE HearSaved(c) \/ HearTerminal(c)
    BY <2>1, HearBook
  <2>2. CASE HearAuth(c) \/ HearForbidden(c) \/ HearError(c) \/ EndStale(c)
             \/ LoseAnswer(c)
    BY <2>2, SameSaid
       DEF HearAuth, HearForbidden, HearError, EndStale, LoseAnswer, books, Unwritten
  <2> QED
    BY <1>2, <2>1, <2>2 DEF Hear
<1>3. ASSUME NEW p \in Phones,
             \/ \E o \in Outcomes : Tap(p, o)
             \/ Recover(p) \/ RetryDead(p) \/ StartFlush(p)
             \/ Suspend(p) \/ Resume(p) \/ Reload(p)
             \/ BackoffElapses(p)
      PROVE  TheBook!Next \/ Unwritten
  <2>1. CASE \E o \in Outcomes : Tap(p, o)
    BY <2>1, TapBooked
  <2>2. CASE Recover(p) \/ RetryDead(p) \/ BackoffElapses(p)
    BY <2>2, SameSaid DEF Recover, RetryDead, BackoffElapses, server, books, Unwritten
  <2>3. CASE StartFlush(p) \/ Suspend(p) \/ Resume(p) \/ Reload(p)
    BY <2>3, SameSaid DEF StartFlush, Suspend, Resume, Reload, books, Unwritten
  <2> QED
    BY <1>3, <2>1, <2>2, <2>3
<1>4. CASE UNCHANGED vars
  BY <1>4, SameSaid DEF vars, server, books, phones, Unwritten
<1> QED
  BY <1>1, <1>2, <1>3, <1>4 DEF Next

\* Phones, calls and handler implement the book: each tap gets one verdict, true
\* when it is given and never taken back, and only a newer outcome moves the door.
THEOREM ImplementsTapBookCorrect == Spec => ImplementsTapBook
<1>1. Init => TheBook!Init
  <2> SUFFICES ASSUME Init PROVE TheBook!Init
    OBVIOUS
  <2>1. Said = [t \in Taps |-> [outcome |-> "other", at |-> 0]]
    BY DEF Init, ServerInit, Said, NoTap
  <2>2. Recorded = {}
    BY DEF Init, ServerInit, Recorded
  <2> QED
    BY <2>1, <2>2, SameWords DEF Init, ServerInit, TheBook!Init
<1> QED
  BY <1>1, BookStep, KnockInvariant, PTL DEF Spec, ImplementsTapBook, TheBook!Spec
=============================================================================
