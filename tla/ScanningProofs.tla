--------------------------- MODULE ScanningProofs ---------------------------
(***************************************************************************)
(* Scanning, for any instance: the queue in front of the provider keeps    *)
(* one task for each key and starts the most urgent first, and the lease   *)
(* elects one node of the fleet to feed it.                                *)
(*                                                                         *)
(* The queue: Arranged puts any finite set in order (each member at the    *)
(* place that what comes before it leaves), so sorting, filtering, cutting *)
(* keep what they should; hence what one pump does (Pumped), hence what    *)
(* each event does (QueueInv).  The lease: LeaseInv.                       *)
(***************************************************************************)
EXTENDS ProviderQueue, PrimaryLease, FiniteSetTheorems, SequenceTheorems, TLAPS

-----------------------------------------------------------------------------
(* Facts about the operators of the queue.                                 *)

\* A set of numbers that is not empty has a least one.
LEMMA LeastNumber ==
  ASSUME NEW T \in SUBSET Nat, T # {}
  PROVE  \E x \in T : \A y \in T : x <= y
<1> DEFINE R == {ss \in Nat \X Nat : ss[1] < ss[2]}
<1>1. IsWellFoundedOn(R, Nat)
  BY NatLessThanWellFounded DEF OpToRel
<1>2. PICK x \in T : \A y \in T : ~ (<<y, x>> \in R)
  <2> HIDE DEF R
  <2> QED BY <1>1, WFMin
<1>3. ASSUME NEW y \in T PROVE x <= y
  <2>1. x \in Nat /\ y \in Nat
    OBVIOUS
  <2>2. y < x => <<y, x>> \in R
    BY <2>1
  <2>3. ~ (y < x)
    <3> HIDE DEF R
    <3> QED BY <1>2, <2>2
  <2> QED BY <2>1, <2>3
<1> QED BY <1>3

\* There are n numbers up to n.
LEMMA UpTo ==
  ASSUME NEW n \in Nat
  PROVE  IsFiniteSet(1..n) /\ Cardinality(1..n) = n
<1>1. /\ IsFiniteSet(1..n)
      /\ Cardinality(1..n) = IF 1 > n THEN 0 ELSE n - 1 + 1
  BY FS_Interval
<1> QED BY <1>1

\* R puts the members of S in a strict order.
Orders(R, S) ==
  /\ \A x \in S : <<x, x>> \notin R
  /\ \A x, y, z \in S : <<x, y>> \in R /\ <<y, z>> \in R => <<x, z>> \in R
  /\ \A x, y \in S : x # y => <<x, y>> \in R \/ <<y, x>> \in R

\* The place of x in the order of R.
Place(x, S, R) == Cardinality({y \in S : <<y, x>> \in R}) + 1

LEMMA PlaceGrows ==
  ASSUME NEW S, IsFiniteSet(S), NEW R, Orders(R, S)
  PROVE  /\ \A x \in S : Place(x, S, R) \in 1..Cardinality(S)
         /\ \A x, y \in S : <<x, y>> \in R => Place(x, S, R) < Place(y, S, R)
<1> DEFINE Below(x) == {y \in S : <<y, x>> \in R}
<1>1. \A x \in S : IsFiniteSet(Below(x)) /\ Cardinality(Below(x)) \in Nat
  <2> TAKE x \in S
  <2>1. Below(x) \in SUBSET S
    OBVIOUS
  <2> HIDE DEF Below
  <2> QED BY <2>1, FS_Subset, FS_CardinalityType
<1>2. \A x \in S : Place(x, S, R) = Cardinality(Below(x)) + 1
  BY DEF Place
<1>3. ASSUME NEW x \in S PROVE Place(x, S, R) \in 1..Cardinality(S)
  <2>1. Below(x) \in SUBSET (S \ {x})
    BY DEF Orders
  <2> HIDE DEF Below
  <2>2. IsFiniteSet(S \ {x}) /\ Cardinality(S \ {x}) = Cardinality(S) - 1
    BY FS_RemoveElement
  <2>3. Cardinality(Below(x)) <= Cardinality(S) - 1
    BY <2>1, <2>2, FS_Subset
  <2> QED BY <1>1, <1>2, <2>3, FS_CardinalityType
<1>4. ASSUME NEW x \in S, NEW y \in S, <<x, y>> \in R
      PROVE  Place(x, S, R) < Place(y, S, R)
  <2>1. (Below(x) \cup {x}) \in SUBSET Below(y) /\ x \notin Below(x)
    BY <1>4 DEF Orders
  <2> HIDE DEF Below
  <2>2. Cardinality(Below(x) \cup {x}) = Cardinality(Below(x)) + 1
    BY <1>1, <2>1, FS_AddElement
  <2>3. Cardinality(Below(x) \cup {x}) <= Cardinality(Below(y))
    BY <1>1, <2>1, FS_Subset
  <2> QED BY <1>1, <1>2, <2>2, <2>3
<1> QED BY <1>3, <1>4

\* Everything in a finite set can be put in order,
LEMMA ArrangedExists ==
  ASSUME NEW S, IsFiniteSet(S), NEW R, Orders(R, S)
  PROVE  \E t \in [1..Cardinality(S) -> S] :
           \A m, n \in 1..Cardinality(S) : m < n => <<t[m], t[n]>> \in R
<1> DEFINE N == Cardinality(S)
           place == [x \in S |-> Place(x, S, R)]
           t == [m \in 1..N |-> CHOOSE x \in S : place[x] = m]
<1>0. N \in Nat
  BY FS_CardinalityType
<1>1. /\ place \in [S -> 1..N]
      /\ \A x, y \in S : <<x, y>> \in R => place[x] < place[y]
  BY PlaceGrows
<1>2. \A x, y \in S : place[x] = place[y] => x = y
  <2> HIDE DEF place
  <2> SUFFICES ASSUME NEW x \in S, NEW y \in S, place[x] = place[y], x # y
               PROVE  FALSE
    OBVIOUS
  <2>1. place[x] < place[y] \/ place[y] < place[x]
    BY <1>1 DEF Orders
  <2> QED BY <1>0, <1>1, <2>1
<1>3. place \in Surjection(S, 1..N)
  <2> HIDE DEF place
  <2>1. place \in Injection(S, 1..N)
    BY <1>1, <1>2 DEF Injection, IsInjective
  <2>2. IsFiniteSet(1..N) /\ Cardinality(1..N) = N
    BY <1>0, UpTo
  <2> QED BY <2>1, <2>2, FS_Injection
<1> HIDE DEF place
<1>4. \A m \in 1..N : t[m] \in S /\ place[t[m]] = m
  BY <1>3 DEF Surjection
<1>5. ASSUME NEW m \in 1..N, NEW n \in 1..N, m < n
      PROVE  <<t[m], t[n]>> \in R
  <2>1. t[m] # t[n] /\ t[m] \in S /\ t[n] \in S
    BY <1>0, <1>4, <1>5
  <2>2. <<t[n], t[m]>> \notin R
    BY <1>0, <1>1, <1>4, <1>5, <2>1
  <2> HIDE DEF t
  <2> QED BY <2>1, <2>2 DEF Orders
<1>6. t \in [1..N -> S]
  BY <1>4
<1> QED BY <1>5, <1>6

\* and Arranged does.
LEMMA ArrangedOrder ==
  ASSUME NEW S, IsFiniteSet(S), NEW R, Orders(R, S)
  PROVE  /\ Arranged(S, R) \in Seq(S)
         /\ Len(Arranged(S, R)) = Cardinality(S)
         /\ \A m, n \in 1..Cardinality(S) :
              m < n => <<Arranged(S, R)[m], Arranged(S, R)[n]>> \in R
         /\ \A m, n \in 1..Cardinality(S) :
              Arranged(S, R)[m] = Arranged(S, R)[n] => m = n
         /\ Range(Arranged(S, R)) = S
<1> DEFINE N == Cardinality(S)
           t == Arranged(S, R)
<1>0. N \in Nat
  BY FS_CardinalityType
<1>1. /\ t \in [1..N -> S]
      /\ \A m, n \in 1..N : m < n => <<t[m], t[n]>> \in R
  BY ArrangedExists DEF Arranged
<1> HIDE DEF t
<1>2. \A m, n \in 1..N : t[m] = t[n] => m = n
  <2> SUFFICES ASSUME NEW m \in 1..N, NEW n \in 1..N, t[m] = t[n], m # n
               PROVE  FALSE
    OBVIOUS
  <2>1. <<t[m], t[n]>> \in R \/ <<t[n], t[m]>> \in R
    BY <1>0, <1>1
  <2>2. t[m] \in S
    BY <1>1
  <2> QED BY <2>1, <2>2 DEF Orders
<1>3. t \in Surjection(1..N, S)
  <2>1. t \in Injection(1..N, S)
    BY <1>1, <1>2 DEF Injection, IsInjective
  <2>2. IsFiniteSet(1..N) /\ Cardinality(1..N) = N
    BY <1>0, UpTo
  <2> QED BY <2>1, <2>2, FS_Injection
<1>4. Range(t) = S
  BY <1>1, <1>3 DEF Range, Surjection
<1>5. t \in Seq(S) /\ Len(t) = N
  BY <1>0, <1>1
<1> QED BY <1>1, <1>2, <1>4, <1>5 DEF t

Distinct(s) == \A m, n \in 1..Len(s) : s[m] = s[n] => m = n

InOrder(s, urg) == \A m, n \in 1..Len(s) : m < n => Before(urg, s[m], s[n])

\* A sequence without repetitions is as long as its range is large.
LEMMA RangeSize ==
  ASSUME NEW S, NEW s \in Seq(S), Distinct(s)
  PROVE  /\ Range(s) \in SUBSET S /\ IsFiniteSet(Range(s))
         /\ Cardinality(Range(s)) = Len(s)
<1>1. Len(s) \in Nat /\ DOMAIN s = 1..Len(s) /\ \A m \in 1..Len(s) : s[m] \in S
  OBVIOUS
<1>2. Range(s) \in SUBSET S /\ s \in [1..Len(s) -> Range(s)]
  BY <1>1 DEF Range
<1>3. s \in Bijection(1..Len(s), Range(s))
  BY <1>1, <1>2 DEF Range, Bijection, Injection, Surjection, IsInjective, Distinct
<1>4. IsFiniteSet(1..Len(s)) /\ Cardinality(1..Len(s)) = Len(s)
  BY <1>1, UpTo
<1>5. ExistsBijection(1..Len(s), Range(s))
  BY <1>3 DEF ExistsBijection
<1> QED BY <1>2, <1>4, <1>5, FS_Bijection

\* "Most urgent first, then first come" is an order on the items,
LEMMA BeforeOrders ==
  ASSUME NEW S \in SUBSET Callers, NEW urg \in [Callers -> Nat]
  PROVE  Orders({ij \in S \X S : Before(urg, ij[1], ij[2])}, S)
<1> DEFINE R == {ij \in S \X S : Before(urg, ij[1], ij[2])}
<1>1. \A x \in S : x \in Nat /\ urg[x] \in Nat
  BY ProviderAssumption DEF Callers
<1>2. \A x, y \in S : <<x, y>> \in R <=> Before(urg, x, y)
  OBVIOUS
<1> HIDE DEF R
<1>3. Orders(R, S)
  BY <1>1, <1>2 DEF Orders, Before
<1> QED BY <1>3 DEF R

\* which sortPending brings them in.
LEMMA SortedOrder ==
  ASSUME NEW s \in Seq(Callers), Distinct(s), NEW urg \in [Callers -> Nat]
  PROVE  /\ Sorted(s, urg) \in Seq(Callers) /\ Len(Sorted(s, urg)) = Len(s)
         /\ Distinct(Sorted(s, urg)) /\ InOrder(Sorted(s, urg), urg)
         /\ Range(Sorted(s, urg)) = Range(s)
<1> DEFINE S == Range(s)
           R == {ij \in S \X S : Before(urg, ij[1], ij[2])}
           t == Arranged(S, R)
<1>1. S \in SUBSET Callers /\ IsFiniteSet(S) /\ Cardinality(S) = Len(s)
  BY RangeSize
<1>2. Sorted(s, urg) = t
  BY DEF Sorted
<1>3. Orders(R, S)
  <2> HIDE DEF S
  <2> QED BY <1>1, BeforeOrders
<1>4. \A x, y \in S : <<x, y>> \in R <=> Before(urg, x, y)
  OBVIOUS
<1> HIDE DEF S, R
<1>5. /\ t \in Seq(S) /\ Len(t) = Len(s) /\ Range(t) = S
      /\ \A m, n \in 1..Len(s) : m < n => <<t[m], t[n]>> \in R
      /\ \A m, n \in 1..Len(s) : t[m] = t[n] => m = n
  BY <1>1, <1>3, ArrangedOrder
<1> HIDE DEF t
<1>6. Distinct(t) /\ InOrder(t, urg)
  <2>1. Len(s) \in Nat /\ \A m \in 1..Len(s) : t[m] \in S
    BY <1>5
  <2> QED BY <1>4, <1>5, <2>1 DEF Distinct, InOrder
<1>7. t \in Seq(Callers)
  BY <1>1, <1>5
<1> QED BY <1>2, <1>5, <1>6, <1>7 DEF S

\* The sweep keeps what is not dead, in the order it had.
LEMMA LivingOrder ==
  ASSUME NEW s \in Seq(Callers), Distinct(s)
  PROVE  /\ Living(s) \in Seq(Callers) /\ Len(Living(s)) <= Len(s)
         /\ Distinct(Living(s))
         /\ Range(Living(s)) = {i \in Range(s) : ~Dead(i)}
         /\ \A urg : InOrder(s, urg) => InOrder(Living(s), urg)
<1> DEFINE P == {m \in 1..Len(s) : ~Dead(s[m])}
           R == {mn \in P \X P : mn[1] < mn[2]}
           t == Arranged(P, R)
           keep == [n \in 1..Cardinality(P) |-> s[t[n]]]
<1>0. Len(s) \in Nat /\ DOMAIN s = 1..Len(s) /\ \A m \in 1..Len(s) : s[m] \in Callers
  OBVIOUS
<1>1. Living(s) = keep
  BY DEF Living
<1>2. /\ P \in SUBSET (1..Len(s)) /\ IsFiniteSet(P)
      /\ Cardinality(P) \in Nat /\ Cardinality(P) <= Len(s)
  <2>1. P \in SUBSET (1..Len(s))
    OBVIOUS
  <2>2. IsFiniteSet(1..Len(s)) /\ Cardinality(1..Len(s)) = Len(s)
    BY <1>0, UpTo
  <2> HIDE DEF P
  <2> QED BY <2>1, <2>2, FS_Subset, FS_CardinalityType
<1>3. \A m, n \in P : <<m, n>> \in R <=> m < n
  OBVIOUS
<1>4. \A m \in P : ~Dead(s[m])
  OBVIOUS
<1>5. \A m \in 1..Len(s) : ~Dead(s[m]) => m \in P
  OBVIOUS
<1> HIDE DEF P, R
<1>6. Orders(R, P)
  BY <1>0, <1>2, <1>3 DEF Orders
<1>7. /\ t \in Seq(P) /\ Len(t) = Cardinality(P) /\ Range(t) = P
      /\ \A m, n \in 1..Cardinality(P) : m < n => <<t[m], t[n]>> \in R
      /\ \A m, n \in 1..Cardinality(P) : t[m] = t[n] => m = n
  BY <1>2, <1>6, ArrangedOrder
<1> HIDE DEF t
<1>8. \A n \in 1..Cardinality(P) : t[n] \in P /\ t[n] \in 1..Len(s)
  <2>1. \A n \in 1..Len(t) : t[n] \in P
    BY <1>7
  <2> QED BY <1>2, <1>7, <2>1
<1>9. keep \in Seq(Callers) /\ Len(keep) = Cardinality(P)
  BY <1>0, <1>2, <1>8
<1>10. Distinct(keep)
  BY <1>7, <1>8, <1>9 DEF Distinct
<1>11. Range(keep) = {i \in Range(s) : ~Dead(i)}
  <2>1. ASSUME NEW i \in Range(keep) PROVE i \in Range(s) /\ ~Dead(i)
    <3>1. PICK n \in 1..Cardinality(P) : i = s[t[n]]
      BY DEF Range
    <3> QED BY <1>0, <1>4, <1>8, <3>1 DEF Range
  <2>2. ASSUME NEW i \in Range(s), ~Dead(i) PROVE i \in Range(keep)
    <3>1. PICK m \in 1..Len(s) : i = s[m]
      BY <1>0 DEF Range
    <3>2. m \in Range(t)
      BY <1>5, <1>7, <2>2, <3>1
    <3>3. PICK n \in 1..Cardinality(P) : m = t[n]
      BY <1>7, <3>2 DEF Range
    <3> QED BY <3>1, <3>3 DEF Range
  <2> QED BY <2>1, <2>2
<1>12. ASSUME NEW urg, InOrder(s, urg) PROVE InOrder(keep, urg)
  <2> SUFFICES ASSUME NEW m \in 1..Cardinality(P), NEW n \in 1..Cardinality(P), m < n
               PROVE  Before(urg, s[t[m]], s[t[n]])
    BY <1>9 DEF InOrder
  <2>1. t[m] < t[n]
    BY <1>3, <1>7, <1>8
  <2> QED BY <1>8, <1>12, <2>1 DEF InOrder
<1> HIDE DEF keep
<1> QED BY <1>1, <1>2, <1>9, <1>10, <1>11, <1>12

\* The loop of pump takes a first part of the sequence, with no more live items in
\* it than there are places.
LEMMA TakenPrefix ==
  ASSUME NEW s \in Seq(Callers), NEW places \in Nat
  PROVE  /\ Taken(s, places) \in 0..Len(s)
         /\ Cardinality({k \in 1..Taken(s, places) : ~Dead(s[k])}) <= places
<1> DEFINE Live(m) == {k \in 1..m : ~Dead(s[k])}
           Good(n) == \A m \in 1..Len(s) : m <= n <=> Cardinality(Live(m - 1)) < places
           T == {m \in 1..(Len(s) + 1) :
                   m = Len(s) + 1 \/ ~(Cardinality(Live(m - 1)) < places)}
<1>0. Len(s) \in Nat
  OBVIOUS
<1>1. \A m \in Nat : IsFiniteSet(Live(m)) /\ Cardinality(Live(m)) \in Nat
  <2> TAKE m \in Nat
  <2>1. Live(m) \in SUBSET (1..m) /\ IsFiniteSet(1..m)
    BY FS_Interval
  <2> HIDE DEF Live
  <2> QED BY <2>1, FS_Subset, FS_CardinalityType
<1>2. \A m, n \in Nat : m <= n => Cardinality(Live(m)) <= Cardinality(Live(n))
  <2> TAKE m, n \in Nat
  <2> HAVE m <= n
  <2>1. Live(m) \in SUBSET Live(n)
    OBVIOUS
  <2> HIDE DEF Live
  <2> QED BY <1>1, <2>1, FS_Subset
<1>3. \E n \in 0..Len(s) : Good(n)
  <2>1. T \in SUBSET Nat /\ T # {}
    BY <1>0
  <2>2. PICK x \in T : \A y \in T : x <= y
    <3> HIDE DEF T
    <3> QED BY <2>1, LeastNumber
  <2>3. x \in 1..(Len(s) + 1) /\ x - 1 \in 0..Len(s)
    BY <1>0
  <2>4. ASSUME NEW m \in 1..Len(s)
        PROVE  m <= x - 1 <=> Cardinality(Live(m - 1)) < places
    <3> HIDE DEF Live
    <3>1. CASE m <= x - 1
      <4>1. m \notin T
        BY <2>1, <2>2, <2>3, <3>1
      <4> QED BY <1>0, <3>1, <4>1
    <3>2. CASE m >= x
      <4>1. ~(Cardinality(Live(x - 1)) < places)
        BY <1>0, <2>3, <3>2
      <4>2. Cardinality(Live(x - 1)) <= Cardinality(Live(m - 1))
        BY <1>2, <2>3, <3>2
      <4>3. Cardinality(Live(x - 1)) \in Nat /\ Cardinality(Live(m - 1)) \in Nat
        <5>1. x - 1 \in Nat /\ m - 1 \in Nat
          BY <2>3
        <5> QED BY <1>1, <5>1
      <4> QED BY <2>3, <3>2, <4>1, <4>2, <4>3
    <3> QED BY <2>3, <3>1, <3>2
  <2> QED BY <2>3, <2>4
<1>4. Taken(s, places) \in 0..Len(s) /\ Good(Taken(s, places))
  BY <1>3 DEF Taken
<1>5. ASSUME NEW n \in 0..Len(s), Good(n)
      PROVE  Cardinality(Live(n)) <= places
  <2>1. CASE n = 0
    <3>1. Live(n) = {}
      BY <2>1
    <3> HIDE DEF Live
    <3> QED BY <3>1, FS_EmptySet
  <2>2. CASE n # 0
    <3>1. n \in 1..Len(s)
      BY <2>2
    <3>2. Cardinality(Live(n - 1)) < places
      BY <1>5, <3>1
    <3>3. Live(n) \in SUBSET (Live(n - 1) \cup {n})
      BY <3>1
    <3> HIDE DEF Live
    <3>4. /\ IsFiniteSet(Live(n - 1) \cup {n}) /\ Cardinality(Live(n - 1)) \in Nat
          /\ Cardinality(Live(n - 1) \cup {n}) <= Cardinality(Live(n - 1)) + 1
      <4>1. IsFiniteSet(Live(n - 1)) /\ Cardinality(Live(n - 1)) \in Nat
        BY <1>1, <3>1
      <4>2. /\ IsFiniteSet(Live(n - 1) \cup {n})
            /\ Cardinality(Live(n - 1) \cup {n}) =
                 IF n \in Live(n - 1) THEN Cardinality(Live(n - 1))
                 ELSE Cardinality(Live(n - 1)) + 1
        BY <4>1, FS_AddElement
      <4> QED BY <4>1, <4>2
    <3>5. Cardinality(Live(n)) <= Cardinality(Live(n - 1) \cup {n})
      BY <3>3, <3>4, FS_Subset
    <3>6. Cardinality(Live(n)) \in Nat
      BY <1>1, <3>1
    <3>7. Cardinality(Live(n - 1) \cup {n}) \in Nat
      BY <3>4, FS_CardinalityType
    <3> QED BY <3>2, <3>4, <3>5, <3>6, <3>7
  <2> QED BY <2>1, <2>2
<1> QED BY <1>4, <1>5

\* Cutting a sequence in two separates its items, the first from the later ones.
LEMMA CutInTwo ==
  ASSUME NEW s \in Seq(Callers), Distinct(s), NEW n \in 0..Len(s)
  PROVE  LET taken == {s[m] : m \in 1..n}
             rest  == SubSeq(s, n + 1, Len(s))
         IN /\ rest \in Seq(Callers) /\ Len(rest) <= Len(s) /\ Distinct(rest)
            /\ taken \cup Range(rest) = Range(s) /\ taken \cap Range(rest) = {}
            /\ \A urg : InOrder(s, urg) =>
                 /\ InOrder(rest, urg)
                 /\ \A i \in taken, j \in Range(rest) : Before(urg, i, j)
<1> DEFINE taken == {s[m] : m \in 1..n}
           rest  == SubSeq(s, n + 1, Len(s))
<1>0. /\ Len(s) \in Nat /\ n \in Nat /\ n <= Len(s) /\ DOMAIN s = 1..Len(s)
      /\ \A m \in 1..Len(s) : s[m] \in Callers
  OBVIOUS
<1>1. /\ rest \in Seq(Callers) /\ Len(rest) = Len(s) - n
      /\ \A m \in 1..(Len(s) - n) : rest[m] = s[n + m]
  <2>1. n + 1 \in Int /\ Len(s) \in Int /\ \A m \in (n + 1)..Len(s) : s[m] \in Callers
    BY <1>0
  <2>2. /\ rest \in Seq(Callers)
        /\ Len(rest) = IF n + 1 <= Len(s) THEN Len(s) - (n + 1) + 1 ELSE 0
        /\ \A m \in 1..(Len(s) - (n + 1) + 1) : rest[m] = s[(n + 1) + m - 1]
    BY <2>1, SubSeqProperties
  <2>3. Len(s) - (n + 1) + 1 = Len(s) - n
    BY <1>0
  <2>4. \A m \in 1..(Len(s) - n) : (n + 1) + m - 1 = n + m
    BY <1>0
  <2> HIDE DEF rest
  <2>5. Len(rest) = Len(s) - n
    <3>1. CASE n < Len(s)
      <4>1. n + 1 <= Len(s)
        BY <1>0, <3>1
      <4>2. Len(rest) = Len(s) - (n + 1) + 1
        BY <2>2, <4>1
      <4> QED BY <2>3, <4>2
    <3>2. CASE n = Len(s)
      <4>1. ~(n + 1 <= Len(s)) /\ Len(s) - n = 0
        BY <1>0, <3>2
      <4>2. Len(rest) = 0
        BY <2>2, <4>1
      <4> QED BY <4>1, <4>2
    <3>3. ~(n < Len(s)) => n = Len(s)
      <4>1. Len(s) \in Nat /\ n \in Nat /\ n <= Len(s)
        BY <1>0
      <4> HIDE DEF taken
      <4> QED BY <4>1
    <3> QED BY <3>1, <3>2, <3>3
  <2>6. \A m \in 1..(Len(s) - n) : rest[m] = s[n + m]
    BY <2>2, <2>3, <2>4
  <2> QED BY <2>2, <2>5, <2>6
<1> HIDE DEF rest
<1>2. Range(rest) = {s[m] : m \in (n + 1)..Len(s)}
  <2>1. DOMAIN rest = 1..(Len(s) - n)
    BY <1>1
  <2>2. ASSUME NEW i \in Range(rest) PROVE i \in {s[m] : m \in (n + 1)..Len(s)}
    <3>1. PICK m \in 1..(Len(s) - n) : i = rest[m]
      BY <2>1 DEF Range
    <3>2. n + m \in (n + 1)..Len(s) /\ i = s[n + m]
      BY <1>0, <1>1, <3>1
    <3> QED BY <3>2
  <2>3. ASSUME NEW m \in (n + 1)..Len(s) PROVE s[m] \in Range(rest)
    <3>1. m - n \in 1..(Len(s) - n) /\ n + (m - n) = m
      BY <1>0
    <3>2. rest[m - n] = s[m]
      BY <1>1, <3>1
    <3> QED BY <2>1, <3>1, <3>2 DEF Range
  <2> QED BY <2>2, <2>3
<1>3. Distinct(rest)
  <2> SUFFICES ASSUME NEW m \in 1..Len(rest), NEW k \in 1..Len(rest),
                      rest[m] = rest[k]
               PROVE  m = k
    BY DEF Distinct
  <2>1. n + m \in 1..Len(s) /\ n + k \in 1..Len(s) /\ m \in Nat /\ k \in Nat
    BY <1>0, <1>1
  <2>2. s[n + m] = s[n + k]
    BY <1>1
  <2>3. n + m = n + k
    BY <2>1, <2>2 DEF Distinct
  <2> QED BY <1>0, <2>1, <2>3
<1>4. taken \cup Range(rest) = Range(s)
  <2>1. Range(s) = {s[m] : m \in 1..Len(s)}
    BY <1>0 DEF Range
  <2>2. \A m \in 1..Len(s) : m \in 1..n \/ m \in (n + 1)..Len(s)
    BY <1>0
  <2>3. \A m \in 1..n : m \in 1..Len(s)
    BY <1>0
  <2>4. \A m \in (n + 1)..Len(s) : m \in 1..Len(s)
    BY <1>0
  <2> QED BY <1>2, <2>1, <2>2, <2>3, <2>4
<1>5. \A m \in 1..n, k \in (n + 1)..Len(s) :
        m \in 1..Len(s) /\ k \in 1..Len(s) /\ m < k /\ m # k
  BY <1>0
<1>6. taken \cap Range(rest) = {}
  BY <1>2, <1>5 DEF Distinct
<1>7. ASSUME NEW urg, InOrder(s, urg)
      PROVE  /\ InOrder(rest, urg)
             /\ \A i \in taken, j \in Range(rest) : Before(urg, i, j)
  <2>1. \A i \in taken, j \in Range(rest) : Before(urg, i, j)
    BY <1>2, <1>5, <1>7 DEF InOrder
  <2>2. ASSUME NEW m \in 1..Len(rest), NEW k \in 1..Len(rest), m < k
        PROVE  Before(urg, rest[m], rest[k])
    <3>1. n + m \in 1..Len(s) /\ n + k \in 1..Len(s) /\ n + m < n + k
      BY <1>0, <1>1, <2>2
    <3>2. Before(urg, s[n + m], s[n + k])
      BY <1>7, <3>1 DEF InOrder
    <3> QED BY <1>1, <3>2
  <2> QED BY <2>1, <2>2 DEF InOrder
<1>8. Len(rest) <= Len(s)
  BY <1>0, <1>1
<1> QED BY <1>1, <1>3, <1>4, <1>6, <1>7, <1>8 DEF rest

\* The items that start are no more than the live places they had.
LEMMA StartedFew ==
  ASSUME NEW s \in Seq(Callers), NEW n \in 0..Len(s)
  PROVE  LET started == {i \in {s[m] : m \in 1..n} : ~Dead(i)}
             live    == {m \in 1..n : ~Dead(s[m])}
         IN /\ IsFiniteSet(started) /\ Cardinality(started) \in Nat
            /\ Cardinality(started) <= Cardinality(live)
<1> DEFINE started == {i \in {s[m] : m \in 1..n} : ~Dead(i)}
           live    == {m \in 1..n : ~Dead(s[m])}
           f       == [m \in live |-> s[m]]
<1>1. f \in Surjection(live, started)
  BY DEF Surjection
<1>2. IsFiniteSet(live)
  <2>1. live \in SUBSET (1..n) /\ n \in Nat
    OBVIOUS
  <2> HIDE DEF live
  <2> QED BY <2>1, UpTo, FS_Subset
<1> HIDE DEF live, started, f
<1>3. IsFiniteSet(started) /\ Cardinality(started) <= Cardinality(live)
  BY <1>1, <1>2, FS_Surjection
<1>4. Cardinality(started) \in Nat
  BY <1>3, FS_CardinalityType
<1> QED BY <1>3, <1>4 DEF started, live

-----------------------------------------------------------------------------
(* pump.                                                                   *)

\* What pump finds, and leaves: different items wait and run, and those that wait
\* are in order unless the queue says that they are not.
QueueOK(r, urg) ==
  /\ r \in QueueState
  /\ Distinct(r.pending) /\ Range(r.pending) \cap r.running = {}
  /\ Cardinality(r.running) <= MaxConcurrency
  /\ r.sorted => InOrder(r.pending, urg)

\* From r it makes p: it moves items to the running ones or drops them, none is lost
\* and none appears, and what starts is at least as urgent as what is left.
Pumped(r, urg, p) ==
  LET rest == Range(p.queue.pending) IN
    /\ QueueOK(p.queue, urg)
    /\ Len(p.queue.pending) <= Len(r.pending)
    /\ p.dropped \subseteq Range(r.pending) /\ \A i \in p.dropped : Dead(i)
    /\ r.running \subseteq p.queue.running
    /\ rest \cup p.queue.running \cup p.dropped = Range(r.pending) \cup r.running
    /\ p.dropped \cap (rest \cup p.queue.running) = {}
    /\ \A i \in p.queue.running \ r.running, j \in rest : urg[i] >= urg[j]

\* It starts nothing during a pause, and counts what it starts.
Counted(r, isPaused, p) ==
  /\ isPaused => p.queue.running = r.running
  /\ p.queue.starts = r.starts + Cardinality(p.queue.running \ r.running)

LEMMA PumpMoves ==
  ASSUME NEW urg \in [Callers -> Nat], NEW r, QueueOK(r, urg), NEW isPaused \in BOOLEAN
  PROVE  /\ Pumped(r, urg, Pump(r, urg, isPaused))
         /\ Counted(r, isPaused, Pump(r, urg, isPaused))
<1>0. /\ r \in QueueState /\ r.pending \in Seq(Callers) /\ r.running \in SUBSET Callers
      /\ r.starts \in Nat /\ r.starts <= MaxPerSecond /\ MaxPerSecond \in Nat
      /\ MaxConcurrency \in Nat /\ Len(r.pending) \in Nat
  BY ProviderAssumption DEF QueueOK, QueueState
<1>1. IsFiniteSet(r.running) /\ Cardinality(r.running) \in Nat
  <2>1. IsFiniteSet(Callers)
    BY UpTo, ProviderAssumption DEF Callers
  <2> QED BY <1>0, <2>1, FS_Subset, FS_CardinalityType
<1>2. CASE r.pending = <<>> \/ Cardinality(r.running) >= MaxConcurrency
  <2>1. Pump(r, urg, isPaused) = [queue |-> r, dropped |-> {}]
    BY <1>2 DEF Pump
  <2>2. Cardinality(r.running \ r.running) = 0
    BY FS_EmptySet
  <2> QED BY <1>0, <2>1, <2>2 DEF Pumped, Counted, QueueOK
<1>3. CASE ~(r.pending = <<>> \/ Cardinality(r.running) >= MaxConcurrency)
  <2> DEFINE s       == IF r.sorted THEN r.pending ELSE Sorted(r.pending, urg)
             ceiling == MaxConcurrency - Cardinality(r.running)
             budget  == MaxPerSecond - r.starts
             places  == IF ceiling < budget THEN ceiling ELSE budget
             n       == IF isPaused THEN 0 ELSE Taken(s, places)
             taken   == {s[m] : m \in 1..n}
             started == {i \in taken : ~Dead(i)}
             rest    == SubSeq(s, n + 1, Len(s))
             short   == rest # <<>> /\ budget = Cardinality(started) /\ budget < ceiling
             r2      == [r EXCEPT !.pending = rest, !.sorted = TRUE,
                           !.running = @ \cup started,
                           !.starts = @ + Cardinality(started),
                           !.wake = @ \/ isPaused \/ short]
  <2>1. Pump(r, urg, isPaused) = [queue |-> r2, dropped |-> taken \ started]
    BY <1>3 DEF Pump
  <2>2. /\ s \in Seq(Callers) /\ Len(s) = Len(r.pending) /\ Distinct(s)
        /\ InOrder(s, urg) /\ Range(s) = Range(r.pending)
    <3>1. CASE r.sorted
      BY <1>0, <3>1 DEF QueueOK
    <3>2. CASE ~r.sorted
      BY <1>0, <3>2, SortedOrder DEF QueueOK
    <3> QED BY <3>1, <3>2
  <2> HIDE DEF s
  <2>3. /\ ceiling \in Nat /\ budget \in Nat /\ places \in Nat
        /\ places <= ceiling /\ places <= budget
    BY <1>0, <1>1, <1>3
  <2> HIDE DEF places
  <2>4. /\ n \in 0..Len(s) /\ Cardinality({m \in 1..n : ~Dead(s[m])}) <= places
        /\ isPaused => taken = {}
    <3>1. CASE isPaused
      <4>1. n = 0 /\ {m \in 1..n : ~Dead(s[m])} = {}
        BY <3>1
      <4>2. Cardinality({m \in 1..n : ~Dead(s[m])}) = 0
        BY <4>1, FS_EmptySet
      <4>3. taken = {}
        BY <4>1
      <4> QED BY <2>2, <2>3, <4>1, <4>2, <4>3
    <3>2. CASE ~isPaused
      BY <2>2, <2>3, <3>2, TakenPrefix
    <3> QED BY <3>1, <3>2
  <2> HIDE DEF n
  <2>5. /\ IsFiniteSet(started) /\ Cardinality(started) \in Nat
        /\ Cardinality(started) <= places
    <3>1. /\ IsFiniteSet(started) /\ Cardinality(started) \in Nat
          /\ Cardinality(started) <= Cardinality({m \in 1..n : ~Dead(s[m])})
      BY <2>2, <2>4, StartedFew
    <3>2. Cardinality({m \in 1..n : ~Dead(s[m])}) \in Nat
      <4>1. {m \in 1..n : ~Dead(s[m])} \in SUBSET (1..n) /\ n \in Nat
        BY <2>4
      <4> QED BY <4>1, UpTo, FS_Subset, FS_CardinalityType
    <3> QED BY <2>3, <2>4, <3>1, <3>2
  <2>6. /\ rest \in Seq(Callers) /\ Len(rest) <= Len(s) /\ Distinct(rest)
        /\ taken \cup Range(rest) = Range(s) /\ taken \cap Range(rest) = {}
        /\ InOrder(rest, urg)
        /\ \A i \in taken, j \in Range(rest) : Before(urg, i, j)
    BY <2>2, <2>4, CutInTwo
  <2>7. started \subseteq taken
    OBVIOUS
  <2>8. taken \in SUBSET Callers
    BY <1>0, <2>2, <2>6, RangeSize
  <2> HIDE DEF rest, taken, started
  <2>9. short \in BOOLEAN
    OBVIOUS
  <2> HIDE DEF short
  <2>10. /\ r2 \in QueueState /\ r2.pending = rest /\ r2.sorted
         /\ r2.running = r.running \cup started
         /\ r2.starts = r.starts + Cardinality(started)
    <3>1. r.starts + Cardinality(started) \in 0..MaxPerSecond
      BY <1>0, <2>3, <2>5
    <3>2. r.running \cup started \in SUBSET Callers
      BY <1>0, <2>7, <2>8
    <3>3. (r.wake \/ isPaused \/ short) \in BOOLEAN
      OBVIOUS
    <3> QED BY <1>0, <2>6, <3>1, <3>2, <3>3 DEF QueueState
  <2> HIDE DEF r2
  <2>11. started \cap r.running = {}
    BY <2>2, <2>6, <2>7 DEF QueueOK
  <2>12. Cardinality(r2.running) <= MaxConcurrency
    <3>1. Cardinality(r.running \cap started) = 0
      BY <2>11, FS_EmptySet
    <3>2. Cardinality(r.running \cup started)
            = Cardinality(r.running) + Cardinality(started)
                - Cardinality(r.running \cap started)
      BY <1>1, <2>5, FS_Union
    <3>4. Cardinality(r2.running) = Cardinality(r.running) + Cardinality(started)
      BY <1>1, <2>5, <2>10, <3>1, <3>2
    <3>5. Cardinality(started) <= ceiling
      BY <2>3, <2>5
    <3> QED BY <1>0, <1>1, <2>5, <3>4, <3>5
  <2>13. QueueOK(r2, urg)
    BY <2>2, <2>6, <2>7, <2>10, <2>12 DEF QueueOK
  <2>14. ASSUME NEW i \in r2.running \ r.running, NEW j \in Range(rest)
         PROVE  urg[i] >= urg[j]
    <3>1. i \in taken /\ Before(urg, i, j)
      BY <2>6, <2>7, <2>10
    <3>2. urg[i] \in Nat /\ urg[j] \in Nat
      BY <2>6, <2>8, <3>1, RangeSize
    <3> QED BY <3>1, <3>2 DEF Before
  <2>15. \A i \in taken \ started : Dead(i)
    BY DEF started
  <2> DEFINE p == [queue |-> r2, dropped |-> taken \ started]
  <2>16. p.queue = r2 /\ p.dropped = taken \ started
    OBVIOUS
  <2> HIDE DEF p
  <2>17. Pumped(r, urg, p)
    BY <2>2, <2>6, <2>7, <2>10, <2>11, <2>13, <2>14, <2>15, <2>16 DEF Pumped, QueueOK
  <2>18. Counted(r, isPaused, p)
    <3>1. r2.running \ r.running = started
      BY <2>10, <2>11
    <3> QED BY <2>4, <2>7, <2>10, <2>16, <3>1 DEF Counted
  <2> QED BY <2>1, <2>17, <2>18 DEF p
<1> QED BY <1>2, <1>3

-----------------------------------------------------------------------------
(* Keys, items and waiters.                                                *)

\* What waits or runs.
Items(r) == Range(r.pending) \cup r.running

\* The owner of an item waits for it, its key leads to it, no key leads anywhere
\* else, and whoever waits waits for such an item, of the key asked for.
Keyed(rows, flights, items) ==
  /\ \A i \in items : /\ rows[i].at = "waiting" /\ rows[i].item = i
                      /\ flights[rows[i].key] = i
  /\ \A k \in Keys : flights[k] # None =>
       flights[k] \in items /\ rows[flights[k]].key = k
  /\ \A c \in Callers : rows[c].at = "waiting" =>
       rows[c].item \in items /\ rows[rows[c].item].key = rows[c].key

\* An answer has the shape of a caller's row.
LEMMA IdleType ==
  ASSUME NEW at \in {"none", "answered", "refused"}
  PROVE  Idle(at) \in Caller /\ Idle(at).at = at /\ Idle(at).late = FALSE
                           /\ Idle(at).gone = FALSE
<1>1. (CHOOSE k \in Keys : TRUE) \in Keys
  BY ProviderAssumption
<1>2. None \in 0..MaxCallers
  BY ProviderAssumption DEF None
<1> QED BY <1>1, <1>2 DEF Idle, Caller

\* Items that are settled and whose keys are freed leave the others as they were.
LEMMA SettledKeepsOthers ==
  ASSUME NEW rows \in [Callers -> Caller], NEW flights \in [Keys -> 0..MaxCallers],
         NEW items \in SUBSET Callers, Keyed(rows, flights, items),
         NEW done, NEW at \in {"answered", "refused"}
  PROVE  /\ Settled(rows, done, at) \in [Callers -> Caller]
         /\ Without(flights, done) \in [Keys -> 0..MaxCallers]
         /\ Keyed(Settled(rows, done, at), Without(flights, done), items \ done)
<1>1. Idle(at) \in Caller
  BY IdleType
<1>2. None \in 0..MaxCallers
  BY ProviderAssumption DEF None
<1>3. Settled(rows, done, at) \in [Callers -> Caller]
  BY <1>1 DEF Settled
<1>4. Without(flights, done) \in [Keys -> 0..MaxCallers]
  BY <1>2 DEF Without
<1>5. ASSUME NEW i \in items \ done
      PROVE  /\ Settled(rows, done, at)[i] = rows[i]
             /\ Without(flights, done)[rows[i].key] = i
  <2>1. i \in Callers /\ rows[i] \in Caller /\ rows[i].key \in Keys
    BY DEF Caller
  <2>2. rows[i].item = i /\ flights[rows[i].key] = i
    BY DEF Keyed
  <2> QED BY <2>1, <2>2 DEF Settled, Without
<1>6. ASSUME NEW k \in Keys, Without(flights, done)[k] # None
      PROVE  /\ Without(flights, done)[k] \in items \ done
             /\ Settled(rows, done, at)[Without(flights, done)[k]].key = k
  <2>1. Without(flights, done)[k] = flights[k] /\ flights[k] \notin done /\ flights[k] # None
    BY <1>6 DEF Without
  <2>2. flights[k] \in items \ done /\ rows[flights[k]].key = k
    BY <2>1 DEF Keyed
  <2> QED BY <1>5, <2>1, <2>2
<1>7. ASSUME NEW c \in Callers, Settled(rows, done, at)[c].at = "waiting"
      PROVE  /\ Settled(rows, done, at)[c].item \in items \ done
             /\ Settled(rows, done, at)[Settled(rows, done, at)[c].item].key
                  = Settled(rows, done, at)[c].key
  <2>1. rows[c].at = "waiting" /\ rows[c].item \notin done
    BY <1>7, IdleType DEF Settled
  <2>2. Settled(rows, done, at)[c] = rows[c]
    BY <2>1 DEF Settled
  <2>3. rows[c].item \in items \ done /\ rows[rows[c].item].key = rows[c].key
    BY <2>1 DEF Keyed
  <2> QED BY <1>5, <2>2, <2>3
<1>8. Keyed(Settled(rows, done, at), Without(flights, done), items \ done)
  <2>1. \A i \in items : rows[i].at = "waiting" /\ rows[i].item = i
    BY DEF Keyed
  <2> QED BY <1>5, <1>6, <1>7, <2>1 DEF Keyed
<1> QED BY <1>3, <1>4, <1>8

\* What everything that happens keeps.
QueueInv ==
  /\ TypeOK
  /\ QueueOK(q, urgency)
  /\ Keyed(caller, inFlight, Items(q))
  /\ \A c \in Callers : c > came => caller[c] = Idle("none") /\ c \notin Items(q)

\* What a step may start (UrgentFirst, and a little more).
Starts ==
  \A i \in q'.running \ q.running, j \in Range(q'.pending) : urgency'[i] >= urgency'[j]

\* Items are callers.
LEMMA ItemsAre ==
  ASSUME NEW r \in QueueState
  PROVE  Items(r) \in SUBSET Callers
<1>1. r.pending \in Seq(Callers) /\ r.running \in SUBSET Callers
  BY DEF QueueState
<1>2. Range(r.pending) \in SUBSET Callers
  BY <1>1 DEF Range
<1> QED BY <1>1, <1>2 DEF Items

\* The parts of a state the steps need.
LEMMA QueueTypes ==
  ASSUME QueueInv
  PROVE  /\ caller \in [Callers -> Caller] /\ inFlight \in [Keys -> 0..MaxCallers]
         /\ urgency \in [Callers -> Nat] /\ paused \in BOOLEAN /\ came \in Nat
         /\ q \in QueueState /\ QueueOK(q, urgency) /\ Items(q) \in SUBSET Callers
         /\ q.pending \in Seq(Callers) /\ q.running \in SUBSET Callers
         /\ Keyed(caller, inFlight, Items(q))
<1>1. urgency \in [Callers -> Nat]
  BY ProviderAssumption DEF QueueInv, TypeOK
<1>2. Items(q) \in SUBSET Callers
  BY ItemsAre DEF QueueInv, TypeOK
<1>3. q.pending \in Seq(Callers) /\ q.running \in SUBSET Callers
  BY DEF QueueInv, TypeOK, QueueState
<1>4. came \in Nat
  BY ProviderAssumption DEF QueueInv, TypeOK
<1> QED BY <1>1, <1>2, <1>3, <1>4 DEF QueueInv, TypeOK

\* A step that has no caller coming and that leaves the urgency alone keeps the
\* invariant if it keeps these.
LEMMA EventKeeps ==
  ASSUME QueueInv, came' = came, urgency' = urgency,
         cached' \subseteq Keys, paused' \in BOOLEAN,
         QueueOK(q', urgency), Len(q'.pending) <= Len(q.pending),
         caller' \in [Callers -> Caller], inFlight' \in [Keys -> 0..MaxCallers],
         Keyed(caller', inFlight', Items(q')), Items(q') \subseteq Items(q),
         \A c \in Callers : caller[c].at # "waiting" => caller'[c] = caller[c]
  PROVE  QueueInv'
<1>1. Len(q'.pending) <= MaxPending
  <2>1. q' \in QueueState /\ q'.pending \in Seq(Callers) /\ q.pending \in Seq(Callers)
    BY QueueTypes DEF QueueOK, QueueState
  <2>2. Len(q'.pending) \in Nat /\ Len(q.pending) \in Nat /\ MaxPending \in Nat
    BY <2>1, ProviderAssumption
  <2> QED BY <2>2 DEF QueueInv, TypeOK
<1>2. TypeOK'
  BY <1>1 DEF QueueInv, TypeOK, QueueOK
<1>3. ASSUME NEW c \in Callers, c > came
      PROVE  caller'[c] = Idle("none") /\ c \notin Items(q')
  <2>1. caller[c] = Idle("none") /\ c \notin Items(q)
    BY <1>3 DEF QueueInv
  <2>2. caller[c].at # "waiting"
    BY <2>1, IdleType
  <2> QED BY <2>1, <2>2
<1>4. QueueOK(q', urgency')
  OBVIOUS
<1>5. (\A c \in Callers : c > came => caller[c] = Idle("none") /\ c \notin Items(q))'
  BY <1>3
<1> QED BY <1>2, <1>4, <1>5 DEF QueueInv, QueueOK, InOrder, Before, Distinct, Keyed, Items

\* A pump on what an event has left of the queue.
LEMMA PumpingKeeps ==
  ASSUME QueueInv, NEW r, QueueOK(r, urgency), NEW isPaused \in BOOLEAN,
         NEW gone, Items(r) = Items(q) \ gone, r.running = q.running,
         Len(r.pending) <= Len(q.pending),
         Pumping(r, urgency, isPaused, inFlight, gone),
         came' = came, urgency' = urgency, cached' \subseteq Keys, paused' \in BOOLEAN
  PROVE  QueueInv' /\ Starts
<1> DEFINE p    == Pump(r, urgency, isPaused)
           done == p.dropped \cup gone
<1>1. Pumped(r, urgency, p)
  BY QueueTypes, PumpMoves
<1>2. /\ q' = p.queue /\ inFlight' = Without(inFlight, done)
      /\ caller' = Settled(caller, done, "refused")
  BY DEF Pumping
<1>3. done = p.dropped \cup gone
  OBVIOUS
<1> HIDE DEF p, done
<1>4. /\ Items(p.queue) = Items(q) \ done
      /\ Settled(caller, done, "refused") \in [Callers -> Caller]
      /\ Without(inFlight, done) \in [Keys -> 0..MaxCallers]
      /\ Keyed(Settled(caller, done, "refused"), Without(inFlight, done), Items(p.queue))
  <2>1. /\ caller \in [Callers -> Caller] /\ inFlight \in [Keys -> 0..MaxCallers]
        /\ Items(q) \in SUBSET Callers /\ Keyed(caller, inFlight, Items(q))
    BY QueueTypes
  <2>2. Items(p.queue) = Items(r) \ p.dropped
    BY <1>1 DEF Pumped, Items
  <2>3. Items(p.queue) = Items(q) \ done
    BY <1>3, <2>2
  <2>4. /\ Settled(caller, done, "refused") \in [Callers -> Caller]
        /\ Without(inFlight, done) \in [Keys -> 0..MaxCallers]
        /\ Keyed(Settled(caller, done, "refused"), Without(inFlight, done),
                 Items(q) \ done)
    BY <2>1, SettledKeepsOthers
  <2> QED BY <2>3, <2>4
<1>5. \A c \in Callers : caller[c].at # "waiting" => caller'[c] = caller[c]
  BY <1>2 DEF Settled
<1>6. QueueOK(p.queue, urgency) /\ Len(p.queue.pending) <= Len(r.pending)
  BY <1>1 DEF Pumped
<1>7. Len(q'.pending) <= Len(q.pending)
  <2>1. /\ r.pending \in Seq(Callers) /\ q.pending \in Seq(Callers)
        /\ p.queue.pending \in Seq(Callers)
    BY <1>6, QueueTypes DEF QueueOK, QueueState
  <2> QED BY <1>2, <1>6, <2>1
<1>8. Items(q') \subseteq Items(q)
  BY <1>2, <1>4
<1>9. QueueInv'
  BY <1>2, <1>4, <1>5, <1>6, <1>7, <1>8, EventKeeps
<1>10. Starts
  BY <1>1, <1>2 DEF Starts, Pumped
<1> QED BY <1>9, <1>10

\* A queue that differs in its timers only.
LEMMA SameQueue ==
  ASSUME NEW r, NEW urg, QueueOK(r, urg), NEW r2 \in QueueState,
         r2.pending = r.pending, r2.running = r.running, r2.sorted = r.sorted
  PROVE  QueueOK(r2, urg) /\ Items(r2) = Items(r)
  BY DEF QueueOK, Items

\* The sweep of watchPending.
LEMMA SweepKeeps == QueueInv /\ Sweep => QueueInv' /\ Starts
<1> SUFFICES ASSUME QueueInv, Sweep PROVE QueueInv' /\ Starts
  OBVIOUS
<1> DEFINE dead == {i \in Range(q.pending) : Dead(i)}
           keep == Living(q.pending)
           r    == [q EXCEPT !.pending = keep, !.watch = keep # <<>>]
<1>1. /\ Pumping(r, urgency, paused, inFlight, dead)
      /\ came' = came /\ urgency' = urgency /\ cached' = cached /\ paused' = paused
  BY DEF Sweep
<1>2. /\ q \in QueueState /\ q.pending \in Seq(Callers) /\ QueueOK(q, urgency)
      /\ paused \in BOOLEAN /\ Range(q.pending) \cap q.running = {}
      /\ Distinct(q.pending)
  BY QueueTypes DEF QueueOK
<1>3. /\ keep \in Seq(Callers) /\ Len(keep) <= Len(q.pending) /\ Distinct(keep)
      /\ Range(keep) = {i \in Range(q.pending) : ~Dead(i)}
      /\ InOrder(q.pending, urgency) => InOrder(keep, urgency)
  BY <1>2, LivingOrder
<1> HIDE DEF keep
<1>4. r.pending = keep /\ r.running = q.running /\ r.sorted = q.sorted
      /\ r \in QueueState
  <2>1. (keep # <<>>) \in BOOLEAN
    OBVIOUS
  <2> QED BY <1>2, <1>3, <2>1 DEF QueueState
<1>5. dead \cup Range(keep) = Range(q.pending) /\ dead \cap Range(keep) = {}
  BY <1>3
<1> HIDE DEF r, dead
<1>6. QueueOK(r, urgency)
  BY <1>2, <1>3, <1>4 DEF QueueOK
<1>7. Items(r) = Items(q) \ dead
  BY <1>2, <1>4, <1>5 DEF Items
<1>8. cached' \subseteq Keys /\ paused' \in BOOLEAN
  BY <1>1, <1>2 DEF QueueInv, TypeOK
<1> QED BY <1>1, <1>2, <1>3, <1>4, <1>6, <1>7, <1>8, PumpingKeeps

\* The wake timer.
LEMMA WakeKeeps == QueueInv /\ Wake => QueueInv' /\ Starts
<1> SUFFICES ASSUME QueueInv, Wake PROVE QueueInv' /\ Starts
  OBVIOUS
<1> DEFINE r == [q EXCEPT !.wake = FALSE]
<1>1. /\ Pumping(r, urgency, paused, inFlight, {})
      /\ came' = came /\ urgency' = urgency /\ cached' = cached /\ paused' = paused
  BY DEF Wake
<1>2. q \in QueueState /\ QueueOK(q, urgency) /\ paused \in BOOLEAN
  BY QueueTypes
<1>3. /\ r \in QueueState /\ r.pending = q.pending /\ r.running = q.running
      /\ r.sorted = q.sorted
  BY <1>2 DEF QueueState
<1> HIDE DEF r
<1>4. QueueOK(r, urgency) /\ Items(r) = Items(q) \ {}
  BY <1>2, <1>3, SameQueue
<1>5. Len(r.pending) <= Len(q.pending)
  BY <1>2, <1>3 DEF QueueState
<1>6. cached' \subseteq Keys /\ paused' \in BOOLEAN
  BY <1>1, <1>2 DEF QueueInv, TypeOK
<1> QED BY <1>1, <1>2, <1>3, <1>4, <1>5, <1>6, PumpingKeeps

\* resume.
LEMMA ResumeKeeps == QueueInv /\ Resume => QueueInv' /\ Starts
<1> SUFFICES ASSUME QueueInv, Resume PROVE QueueInv' /\ Starts
  OBVIOUS
<1>1. /\ Pumping(q, urgency, FALSE, inFlight, {})
      /\ came' = came /\ urgency' = urgency /\ cached' = cached /\ paused' = FALSE
  BY DEF Resume
<1>2. q \in QueueState /\ QueueOK(q, urgency) /\ FALSE \in BOOLEAN
  BY QueueTypes
<1>3. Items(q) = Items(q) \ {} /\ Len(q.pending) <= Len(q.pending)
  BY <1>2 DEF QueueState
<1>4. cached' \subseteq Keys /\ paused' \in BOOLEAN
  BY <1>1 DEF QueueInv, TypeOK
<1> QED BY <1>1, <1>2, <1>3, <1>4, PumpingKeeps

\* A task ends, and what it leaves room for starts.
LEMMA FinishKeeps ==
  ASSUME QueueInv, NEW i \in Callers, Finish(i)
  PROVE  QueueInv' /\ Starts
<1> DEFINE r    == [q EXCEPT !.running = @ \ {i}]
           p    == Pump(r, urgency, paused)
           rows == Settled(caller, {i}, "answered")
           fls  == Without(inFlight, {i})
<1>1. /\ i \in q.running /\ q' = p.queue
      /\ inFlight' = Without(fls, p.dropped)
      /\ caller' = Settled(rows, p.dropped, "refused")
      /\ came' = came /\ urgency' = urgency /\ paused' = paused
  BY DEF Finish, FreesKey
<1>2. /\ caller \in [Callers -> Caller] /\ inFlight \in [Keys -> 0..MaxCallers]
      /\ urgency \in [Callers -> Nat] /\ paused \in BOOLEAN
      /\ q \in QueueState /\ QueueOK(q, urgency) /\ Items(q) \in SUBSET Callers
      /\ q.pending \in Seq(Callers) /\ q.running \in SUBSET Callers
      /\ Keyed(caller, inFlight, Items(q))
  BY QueueTypes
<1>3. /\ r \in QueueState /\ r.pending = q.pending /\ r.running = q.running \ {i}
      /\ r.sorted = q.sorted
  BY <1>2 DEF QueueState
<1> HIDE DEF r
<1>4. QueueOK(r, urgency)
  <2>1. Cardinality(q.running \ {i}) <= MaxConcurrency
    <3>1. IsFiniteSet(q.running)
      BY <1>2, UpTo, FS_Subset, ProviderAssumption DEF Callers
    <3>2. Cardinality(q.running \ {i}) = Cardinality(q.running) - 1
      BY <1>1, <3>1, FS_RemoveElement
    <3>3. Cardinality(q.running) \in Nat /\ Cardinality(q.running) <= MaxConcurrency
      BY <1>2, <3>1, FS_CardinalityType DEF QueueOK
    <3> QED BY <3>2, <3>3, ProviderAssumption
  <2> QED BY <1>2, <1>3, <2>1 DEF QueueOK
<1>5. Items(r) = Items(q) \ {i}
  BY <1>1, <1>2, <1>3 DEF QueueOK, Items
<1>6. /\ rows \in [Callers -> Caller] /\ fls \in [Keys -> 0..MaxCallers]
      /\ Keyed(rows, fls, Items(q) \ {i})
  BY <1>2, SettledKeepsOthers
<1>7. \A c \in Callers : caller[c].at # "waiting" => rows[c] = caller[c]
  BY DEF Settled
<1>8. Pumped(r, urgency, p)
  BY <1>2, <1>4, PumpMoves
<1> HIDE DEF rows, fls, p
<1>9. Items(p.queue) = (Items(q) \ {i}) \ p.dropped
  BY <1>5, <1>8 DEF Pumped, Items
<1>10. /\ caller' \in [Callers -> Caller] /\ inFlight' \in [Keys -> 0..MaxCallers]
       /\ Keyed(caller', inFlight', Items(q'))
  <2>1. (Items(q) \ {i}) \in SUBSET Callers
    BY <1>2
  <2>2. /\ Settled(rows, p.dropped, "refused") \in [Callers -> Caller]
        /\ Without(fls, p.dropped) \in [Keys -> 0..MaxCallers]
        /\ Keyed(Settled(rows, p.dropped, "refused"), Without(fls, p.dropped),
                 (Items(q) \ {i}) \ p.dropped)
    BY <1>6, <2>1, SettledKeepsOthers
  <2> QED BY <1>1, <1>9, <2>2
<1>11. \A c \in Callers : caller[c].at # "waiting" => caller'[c] = caller[c]
  BY <1>1, <1>7 DEF Settled
<1>12. cached' \subseteq Keys /\ paused' \in BOOLEAN
  <2>1. caller[i].key \in Keys
    BY <1>2 DEF Caller
  <2>2. PICK kept \in SUBSET {caller[i].key} : cached' = cached \cup kept
    BY DEF Finish
  <2> QED BY <1>1, <1>2, <2>1, <2>2 DEF QueueInv, TypeOK
<1>13. QueueOK(q', urgency) /\ Len(q'.pending) <= Len(q.pending)
  BY <1>1, <1>3, <1>8 DEF Pumped
<1>14. Items(q') \subseteq Items(q)
  BY <1>1, <1>9
<1>15. QueueInv'
  BY <1>1, <1>10, <1>11, <1>12, <1>13, <1>14, EventKeeps
<1>16. Starts
  BY <1>1, <1>3, <1>8 DEF Starts, Pumped
<1> QED BY <1>15, <1>16

\* Somebody new at the end.
LEMMA Appended ==
  ASSUME NEW s \in Seq(Callers), NEW c \in Callers, Distinct(s), c \notin Range(s)
  PROVE  /\ Append(s, c) \in Seq(Callers) /\ Len(Append(s, c)) = Len(s) + 1
         /\ Distinct(Append(s, c)) /\ Range(Append(s, c)) = Range(s) \cup {c}
<1> DEFINE t == Append(s, c)
<1>1. /\ Len(s) \in Nat /\ DOMAIN s = 1..Len(s)
      /\ t \in Seq(Callers) /\ Len(t) = Len(s) + 1 /\ DOMAIN t = 1..(Len(s) + 1)
      /\ t[Len(s) + 1] = c /\ \A m \in 1..Len(s) : t[m] = s[m]
  OBVIOUS
<1> HIDE DEF t
<1>2. \A m \in 1..(Len(s) + 1) : m \in 1..Len(s) \/ m = Len(s) + 1
  BY <1>1
<1>3. \A m \in 1..Len(s) : s[m] \in Range(s) /\ s[m] # c
  BY <1>1 DEF Range
<1>4. Distinct(t)
  BY <1>1, <1>2, <1>3 DEF Distinct
<1>5. Range(t) = Range(s) \cup {c}
  <2>1. ASSUME NEW x \in Range(t) PROVE x \in Range(s) \cup {c}
    BY <1>1, <1>2, <1>3 DEF Range
  <2>2. ASSUME NEW x \in Range(s) PROVE x \in Range(t)
    <3>1. PICK m \in 1..Len(s) : x = s[m]
      BY <1>1 DEF Range
    <3>2. m \in DOMAIN t /\ x = t[m]
      BY <1>1, <3>1
    <3> QED BY <3>2 DEF Range
  <2>3. c \in Range(t)
    <3>1. Len(s) + 1 \in DOMAIN t
      BY <1>1
    <3> QED BY <1>1, <3>1 DEF Range
  <2> QED BY <2>1, <2>2, <2>3
<1> QED BY <1>1, <1>4, <1>5 DEF t

\* Nobody who has not come has an item, or is late or gone.
LEMMA Newcomer ==
  ASSUME QueueInv, NEW c \in Callers, c = came + 1
  PROVE  /\ c \notin Items(q) /\ ~Dead(c) /\ caller[c] = Idle("none")
         /\ c \in 0..MaxCallers /\ c \in Nat /\ c # None
         /\ \A d \in Callers : d > c =>
              d > came /\ d # c /\ caller[d] = Idle("none") /\ d \notin Items(q)
<1>1. came \in Nat /\ c > came /\ MaxCallers \in Nat
  BY QueueTypes, ProviderAssumption
<1>2. c \notin Items(q) /\ caller[c] = Idle("none")
  BY <1>1 DEF QueueInv
<1>3. ~Dead(c)
  BY <1>2, IdleType DEF Dead
<1>4. c \in 0..MaxCallers /\ c \in Nat /\ c # None
  BY <1>1 DEF Callers, None
<1>5. \A d \in Callers : d \in Nat /\ (d > c => d > came /\ d # c)
  BY <1>1 DEF Callers
<1> QED BY <1>2, <1>3, <1>4, <1>5 DEF QueueInv

\* A new key: an item of its own.
LEMMA EnqueueKeeps ==
  ASSUME QueueInv, NEW c \in Callers, NEW k \in Keys, NEW p \in Priorities,
         Enqueue(c, k, p)
  PROVE  QueueInv' /\ Starts
<1> DEFINE urg  == [urgency EXCEPT ![c] = p]
           r    == [q EXCEPT !.pending = Append(@, c), !.sorted = FALSE]
           new  == Pump(r, urg, paused)
           rows == Settled(caller, new.dropped, "refused")
           fls  == Without(inFlight, new.dropped)
<1>1. /\ c = came + 1 /\ came' = c /\ cached' = cached /\ paused' = paused
      /\ inFlight[k] = None /\ Len(q.pending) < MaxPending
      /\ urgency' = urg
      /\ q' = [new.queue EXCEPT !.watch = Watched(new.queue.pending)]
      /\ inFlight' = [fls EXCEPT ![k] = c]
      /\ caller' = [rows EXCEPT ![c] = Waiting(k, c)]
  BY DEF Enqueue, Asks
<1>2. /\ caller \in [Callers -> Caller] /\ inFlight \in [Keys -> 0..MaxCallers]
      /\ urgency \in [Callers -> Priorities] /\ paused \in BOOLEAN
      /\ q \in QueueState /\ QueueOK(q, urgency) /\ Items(q) \in SUBSET Callers
      /\ q.pending \in Seq(Callers) /\ q.running \in SUBSET Callers
      /\ Keyed(caller, inFlight, Items(q))
  BY QueueTypes DEF QueueInv, TypeOK
<1>3. urg \in [Callers -> Priorities] /\ urg \in [Callers -> Nat]
  BY <1>2, ProviderAssumption
<1>4. /\ c \notin Items(q) /\ ~Dead(c) /\ c # None /\ c \in 0..MaxCallers
      /\ \A d \in Callers : d > c =>
           d # c /\ caller[d] = Idle("none") /\ d \notin Items(q)
  BY <1>1, Newcomer
<1>5. c \notin Range(q.pending) /\ c \notin q.running
  BY <1>4 DEF Items
<1>6. /\ Append(q.pending, c) \in Seq(Callers)
      /\ Len(Append(q.pending, c)) = Len(q.pending) + 1
      /\ Distinct(Append(q.pending, c))
      /\ Range(Append(q.pending, c)) = Range(q.pending) \cup {c}
  BY <1>2, <1>5, Appended DEF QueueOK
<1>7. /\ r \in QueueState /\ r.pending = Append(q.pending, c) /\ r.running = q.running
      /\ r.sorted = FALSE
  BY <1>2, <1>6 DEF QueueState
<1> HIDE DEF r, urg
<1>8. QueueOK(r, urg)
  BY <1>2, <1>5, <1>6, <1>7 DEF QueueOK
<1>9. Items(r) = Items(q) \cup {c}
  BY <1>6, <1>7 DEF Items
<1>10. Pumped(r, urg, new)
  BY <1>2, <1>3, <1>8, PumpMoves
<1>11. /\ rows \in [Callers -> Caller] /\ fls \in [Keys -> 0..MaxCallers]
       /\ Keyed(rows, fls, Items(q) \ new.dropped)
  BY <1>2, SettledKeepsOthers
<1>12. fls[k] = None /\ \A d \in Callers : caller[d] = Idle("none") => rows[d] = caller[d]
  BY <1>1, IdleType DEF Without, Settled
<1> HIDE DEF new, rows, fls
<1>13. c \notin new.dropped
  BY <1>4, <1>10 DEF Pumped
<1>14. Items(new.queue) = (Items(q) \ new.dropped) \cup {c}
  BY <1>9, <1>10, <1>13 DEF Pumped, Items
<1>15. QueueOK(new.queue, urg) /\ new.queue \in QueueState
  BY <1>10 DEF Pumped, QueueOK
<1>16. /\ q' \in QueueState /\ q'.pending = new.queue.pending
       /\ q'.running = new.queue.running /\ q'.sorted = new.queue.sorted
  <2>1. Watched(new.queue.pending) \in BOOLEAN
    BY <1>2 DEF Watched, QueueState
  <2> QED BY <1>1, <1>15, <2>1 DEF QueueState
<1>17. QueueOK(q', urg) /\ Items(q') = (Items(q) \ new.dropped) \cup {c}
  BY <1>14, <1>15, <1>16, SameQueue
<1>18. Waiting(k, c) \in Caller
  BY <1>4 DEF Waiting, Caller
<1>19. caller' \in [Callers -> Caller] /\ inFlight' \in [Keys -> 0..MaxCallers]
  BY <1>1, <1>4, <1>11, <1>18
<1>20. Keyed(caller', inFlight', Items(q'))
  <2>1. /\ caller'[c].at = "waiting" /\ caller'[c].item = c /\ caller'[c].key = k
        /\ inFlight'[k] = c
    BY <1>1, <1>11 DEF Waiting
  <2>2. ASSUME NEW i \in Items(q) \ new.dropped
        PROVE  /\ caller'[i].at = "waiting" /\ caller'[i].item = i
               /\ inFlight'[caller'[i].key] = i
    <3>1. i \in Callers /\ i # c /\ i # None
      BY <1>2, <1>4 DEF Callers, None
    <3>2. /\ rows[i].at = "waiting" /\ rows[i].item = i /\ fls[rows[i].key] = i
          /\ rows[i].key \in Keys
      BY <1>11, <3>1 DEF Keyed, Caller
    <3>3. caller'[i] = rows[i] /\ rows[i].key # k
      BY <1>1, <1>11, <1>12, <3>1, <3>2
    <3> QED BY <1>1, <1>11, <3>2, <3>3
  <2>3. ASSUME NEW l \in Keys, inFlight'[l] # None
        PROVE  inFlight'[l] \in Items(q') /\ caller'[inFlight'[l]].key = l
    <3>1. CASE l = k
      BY <1>17, <2>1, <3>1
    <3>2. CASE l # k
      <4>1. inFlight'[l] = fls[l]
        BY <1>1, <1>11, <3>2
      <4>2. fls[l] \in Items(q) \ new.dropped /\ rows[fls[l]].key = l
        BY <1>11, <2>3, <4>1 DEF Keyed
      <4>3. fls[l] # c /\ fls[l] \in Callers
        BY <1>2, <1>4, <4>2
      <4>4. caller'[fls[l]] = rows[fls[l]]
        BY <1>1, <1>11, <4>3
      <4> QED BY <1>17, <4>1, <4>2, <4>4
    <3> QED BY <3>1, <3>2
  <2>4. ASSUME NEW d \in Callers, caller'[d].at = "waiting"
        PROVE  caller'[d].item \in Items(q') /\ caller'[caller'[d].item].key = caller'[d].key
    <3>1. CASE d = c
      BY <1>17, <2>1, <3>1
    <3>2. CASE d # c
      <4>1. caller'[d] = rows[d]
        BY <1>1, <1>11, <3>2
      <4>2. /\ rows[d].item \in Items(q) \ new.dropped
            /\ rows[rows[d].item].key = rows[d].key
        BY <1>11, <2>4, <4>1 DEF Keyed
      <4>3. rows[d].item # c /\ rows[d].item \in Callers
        BY <1>2, <1>4, <4>2
      <4>4. caller'[rows[d].item] = rows[rows[d].item]
        BY <1>1, <1>11, <4>3
      <4> QED BY <1>17, <4>1, <4>2, <4>4
    <3> QED BY <3>1, <3>2
  <2> QED BY <1>17, <2>1, <2>2, <2>3, <2>4 DEF Keyed
<1>21. Len(q'.pending) <= MaxPending
  <2>1. q.pending \in Seq(Callers) /\ q'.pending \in Seq(Callers)
    BY <1>2, <1>16 DEF QueueState
  <2>2. Len(q.pending) \in Nat /\ Len(q'.pending) \in Nat /\ MaxPending \in Nat
    BY <2>1, ProviderAssumption
  <2>3. Len(q'.pending) <= Len(q.pending) + 1
    BY <1>6, <1>7, <1>10, <1>16 DEF Pumped
  <2> QED BY <1>1, <2>2, <2>3
<1>22. TypeOK'
  BY <1>1, <1>2, <1>3, <1>4, <1>16, <1>19, <1>21 DEF QueueInv, TypeOK
<1>23. ASSUME NEW d \in Callers, d > c
       PROVE  caller'[d] = Idle("none") /\ d \notin Items(q')
  BY <1>1, <1>4, <1>11, <1>12, <1>17, <1>23
<1>24. QueueInv'
  <2>1. QueueOK(q', urgency')
    BY <1>1, <1>17
  <2>2. (\A d \in Callers : d > came => caller[d] = Idle("none") /\ d \notin Items(q))'
    BY <1>1, <1>23
  <2> QED BY <1>20, <1>22, <2>1, <2>2
       DEF QueueInv, QueueOK, InOrder, Before, Distinct, Keyed, Items
<1>25. Starts
  BY <1>1, <1>7, <1>10, <1>16 DEF Starts, Pumped
<1> QED BY <1>24, <1>25

\* A caller who gets no item: it shares one, or is answered at once.
LEMMA ComerKeeps ==
  ASSUME QueueInv, NEW c \in Callers, Asks(c),
         NEW row \in Caller, caller' = [caller EXCEPT ![c] = row],
         row.at = "waiting" => row.item \in Items(q) /\ caller[row.item].key = row.key,
         inFlight' = inFlight, urgency' \in [Callers -> Priorities],
         QueueOK(q', urgency'), q'.pending = q.pending, q'.running = q.running
  PROVE  QueueInv' /\ Starts
<1>1. c = came + 1 /\ came' = c /\ cached' = cached /\ paused' = paused
  BY DEF Asks
<1>2. /\ caller \in [Callers -> Caller] /\ Items(q) \in SUBSET Callers
      /\ Keyed(caller, inFlight, Items(q))
  BY QueueTypes
<1>3. /\ c \notin Items(q) /\ c \in 0..MaxCallers
      /\ \A d \in Callers : d > c =>
           d # c /\ caller[d] = Idle("none") /\ d \notin Items(q)
  BY <1>1, Newcomer
<1>4. Items(q') = Items(q)
  BY DEF Items
<1>5. Keyed(caller', inFlight', Items(q'))
  <2>1. \A i \in Items(q) : caller'[i] = caller[i]
    BY <1>2, <1>3
  <2>2. ASSUME NEW d \in Callers, caller'[d].at = "waiting"
        PROVE  caller'[d].item \in Items(q) /\ caller'[caller'[d].item].key = caller'[d].key
    <3>1. CASE d = c
      BY <1>2, <2>1, <2>2, <3>1
    <3>2. CASE d # c
      <4>1. caller'[d] = caller[d]
        BY <1>2, <3>2
      <4> QED BY <1>2, <2>1, <2>2, <4>1 DEF Keyed
    <3> QED BY <3>1, <3>2
  <2> QED BY <1>2, <1>4, <2>1, <2>2 DEF Keyed
<1>6. TypeOK'
  BY <1>1, <1>2, <1>3 DEF QueueInv, TypeOK, QueueOK
<1>7. (\A d \in Callers : d > came => caller[d] = Idle("none") /\ d \notin Items(q))'
  BY <1>1, <1>2, <1>3, <1>4
<1>8. QueueInv'
  BY <1>5, <1>6, <1>7 DEF QueueInv, QueueOK, InOrder, Before, Distinct, Keyed, Items
<1> QED BY <1>8 DEF Starts

\* A key that is in flight.
LEMMA ShareKeeps ==
  ASSUME QueueInv, NEW c \in Callers, NEW k \in Keys, NEW p \in Priorities,
         Share(c, k, p)
  PROVE  QueueInv' /\ Starts
<1> DEFINE i == inFlight[k]
<1>1. /\ Asks(c) /\ i # None /\ inFlight' = inFlight
      /\ caller' = [caller EXCEPT ![c] = Waiting(k, i)]
      /\ IF i \notin q.running /\ p > urgency[i]
         THEN /\ urgency' = [urgency EXCEPT ![i] = p]
              /\ q' = [q EXCEPT !.sorted = SortedAfterUpgrade(i)]
         ELSE urgency' = urgency /\ q' = q
  BY DEF Share
<1>2. q \in QueueState /\ QueueOK(q, urgency) /\ urgency \in [Callers -> Priorities]
  BY QueueTypes DEF QueueInv, TypeOK
<1>3. Waiting(k, i) \in Caller
  <2>1. i \in 0..MaxCallers
    BY DEF QueueInv, TypeOK
  <2> QED BY <2>1 DEF Waiting, Caller
<1>4. /\ QueueOK(q', urgency') /\ q'.pending = q.pending /\ q'.running = q.running
      /\ urgency' \in [Callers -> Priorities]
  <2>1. CASE urgency' = urgency /\ q' = q
    BY <1>2, <2>1
  <2>2. CASE /\ urgency' = [urgency EXCEPT ![i] = p]
             /\ q' = [q EXCEPT !.sorted = SortedAfterUpgrade(i)]
    <3>1. /\ q' \in QueueState /\ q'.pending = q.pending /\ q'.running = q.running
          /\ q'.sorted = FALSE
      BY <1>2, <2>2 DEF QueueState, SortedAfterUpgrade
    <3>2. urgency' \in [Callers -> Priorities]
      BY <1>2, <2>2
    <3> QED BY <1>2, <3>1, <3>2 DEF QueueOK
  <2> QED BY <1>1, <2>1, <2>2
<1>5. i \in Items(q) /\ caller[i].key = k
  <2>1. i \in Items(q) /\ caller \in [Callers -> Caller] /\ Keyed(caller, inFlight, Items(q))
    BY <1>1, QueueTypes DEF Keyed
  <2> QED BY <1>1, <2>1 DEF Keyed
<1>6. Waiting(k, i).item = i /\ Waiting(k, i).key = k
  BY DEF Waiting
<1> QED BY <1>1, <1>3, <1>4, <1>5, <1>6, ComerKeeps

\* An answer at once.
LEMMA AtOnceKeeps ==
  ASSUME QueueInv, NEW c \in Callers, NEW k \in Keys, AtOnce(c, k)
  PROVE  QueueInv' /\ Starts
<1>1. /\ Asks(c) /\ urgency' = urgency /\ q' = q /\ inFlight' = inFlight
  BY DEF AtOnce
<1>2. PICK at \in {"refused", "answered"} : caller' = [caller EXCEPT ![c] = Idle(at)]
  BY DEF AtOnce
<1>3. Idle(at) \in Caller /\ Idle(at).at # "waiting"
  BY <1>2, IdleType
<1>4. QueueOK(q', urgency') /\ urgency' \in [Callers -> Priorities]
  BY <1>1, QueueTypes DEF QueueInv, TypeOK
<1> QED BY <1>1, <1>2, <1>3, <1>4, ComerKeeps

\* Somebody who shares an item leaves it, or whose time or authority is over.
LEMMA RowKeeps ==
  ASSUME QueueInv, NEW c \in Callers, Leave(c) \/ Late(c) \/ Gone(c)
  PROVE  QueueInv' /\ Starts
<1>1. /\ came' = came /\ urgency' = urgency /\ q' = q /\ inFlight' = inFlight
      /\ cached' = cached /\ paused' = paused /\ caller[c].at = "waiting"
  BY DEF Leave, Late, Gone
<1>2. /\ caller \in [Callers -> Caller] /\ Keyed(caller, inFlight, Items(q))
      /\ QueueOK(q, urgency) /\ q \in QueueState /\ inFlight \in [Keys -> 0..MaxCallers]
      /\ Items(q) \in SUBSET Callers
  BY QueueTypes
<1>3. /\ caller' \in [Callers -> Caller] /\ \A d \in Callers : d # c => caller'[d] = caller[d]
      /\ c \in Items(q) => caller'[c].at = "waiting"
      /\ caller'[c].at = "waiting" =>
           caller'[c].item = caller[c].item /\ caller'[c].key = caller[c].key
  <2>1. CASE Leave(c)
    <3>1. c \notin Items(q)
      BY <1>2, <2>1 DEF Leave, Keyed
    <3>2. Idle("refused") \in Caller /\ Idle("refused").at # "waiting"
      BY IdleType
    <3> QED BY <1>2, <2>1, <3>1, <3>2 DEF Leave
  <2>2. CASE Late(c)
    <3>1. caller' = [caller EXCEPT ![c] = [caller[c] EXCEPT !.late = TRUE]]
      BY <2>2 DEF Late
    <3>2. /\ caller[c] \in Caller
          /\ [caller[c] EXCEPT !.late = TRUE] \in Caller
          /\ [caller[c] EXCEPT !.late = TRUE].at = caller[c].at
          /\ [caller[c] EXCEPT !.late = TRUE].item = caller[c].item
          /\ [caller[c] EXCEPT !.late = TRUE].key = caller[c].key
      BY <1>2 DEF Caller
    <3>3. caller'[c] = [caller[c] EXCEPT !.late = TRUE]
      BY <1>2, <3>1
    <3> QED BY <1>1, <1>2, <3>1, <3>2, <3>3
  <2>3. CASE Gone(c)
    <3>1. caller' = [caller EXCEPT ![c] = [caller[c] EXCEPT !.gone = TRUE]]
      BY <2>3 DEF Gone
    <3>2. /\ caller[c] \in Caller
          /\ [caller[c] EXCEPT !.gone = TRUE] \in Caller
          /\ [caller[c] EXCEPT !.gone = TRUE].at = caller[c].at
          /\ [caller[c] EXCEPT !.gone = TRUE].item = caller[c].item
          /\ [caller[c] EXCEPT !.gone = TRUE].key = caller[c].key
      BY <1>2 DEF Caller
    <3>3. caller'[c] = [caller[c] EXCEPT !.gone = TRUE]
      BY <1>2, <3>1
    <3> QED BY <1>1, <1>2, <3>1, <3>2, <3>3
  <2> QED BY <2>1, <2>2, <2>3
<1>4. Keyed(caller', inFlight', Items(q'))
  <2>1. ASSUME NEW i \in Items(q)
        PROVE  /\ caller'[i].at = "waiting" /\ caller'[i].item = i
               /\ caller'[i].key = caller[i].key /\ inFlight[caller[i].key] = i
    <3>1. caller[i].at = "waiting" /\ caller[i].item = i /\ inFlight[caller[i].key] = i
      BY <1>2 DEF Keyed
    <3> QED BY <1>2, <1>3, <3>1
  <2>2. ASSUME NEW k \in Keys, inFlight[k] # None
        PROVE  inFlight[k] \in Items(q) /\ caller'[inFlight[k]].key = k
    BY <1>2, <2>1, <2>2 DEF Keyed
  <2>3. ASSUME NEW d \in Callers, caller'[d].at = "waiting"
        PROVE  caller'[d].item \in Items(q) /\ caller'[caller'[d].item].key = caller'[d].key
    <3>1. /\ caller[d].at = "waiting" /\ caller'[d].item = caller[d].item
          /\ caller'[d].key = caller[d].key
      BY <1>1, <1>3, <2>3
    <3>2. caller[d].item \in Items(q) /\ caller[caller[d].item].key = caller[d].key
      BY <1>2, <3>1 DEF Keyed
    <3> QED BY <2>1, <3>1, <3>2
  <2> QED BY <1>1, <2>1, <2>2, <2>3 DEF Keyed
<1>5. \A d \in Callers : caller[d].at # "waiting" => caller'[d] = caller[d]
  BY <1>1, <1>3
<1>6. cached' \subseteq Keys /\ paused' \in BOOLEAN /\ Len(q'.pending) <= Len(q.pending)
  BY <1>1, <1>2 DEF QueueInv, TypeOK, QueueState
<1>7. QueueInv'
  BY <1>1, <1>2, <1>3, <1>4, <1>5, <1>6, EventKeeps
<1> QED BY <1>1, <1>7 DEF Starts

\* The provider pauses, time passes, answers are forgotten.
LEMMA WorldKeeps ==
  ASSUME QueueInv, Pause \/ PauseEnds \/ SecondPasses \/ (\E k \in Keys : Forget(k))
  PROVE  QueueInv' /\ Starts
<1>1. /\ came' = came /\ caller' = caller /\ urgency' = urgency /\ inFlight' = inFlight
  BY DEF Pause, PauseEnds, SecondPasses, Forget
<1>2. /\ caller \in [Callers -> Caller] /\ Keyed(caller, inFlight, Items(q))
      /\ QueueOK(q, urgency) /\ q \in QueueState /\ inFlight \in [Keys -> 0..MaxCallers]
  BY QueueTypes
<1>3. cached' \subseteq Keys /\ paused' \in BOOLEAN
  BY DEF QueueInv, TypeOK, Pause, PauseEnds, SecondPasses, Forget
<1>4. /\ q' \in QueueState /\ q'.pending = q.pending /\ q'.running = q.running
      /\ q'.sorted = q.sorted
  <2>1. CASE q' = q
    BY <1>2, <2>1
  <2>2. CASE Pause
    BY <1>2, <2>2 DEF Pause, QueueState
  <2>3. CASE SecondPasses
    <3>1. q.starts - 1 \in 0..MaxPerSecond
      BY <1>2, <2>3, ProviderAssumption DEF SecondPasses, QueueState
    <3> QED BY <1>2, <2>3, <3>1 DEF SecondPasses, QueueState
  <2> QED BY <2>1, <2>2, <2>3 DEF PauseEnds, Forget
<1>5. QueueOK(q', urgency) /\ Items(q') = Items(q)
  BY <1>2, <1>4, SameQueue
<1>6. Len(q'.pending) <= Len(q.pending)
  BY <1>2, <1>4 DEF QueueState
<1>7. Keyed(caller', inFlight', Items(q'))
  BY <1>1, <1>2, <1>5
<1>8. QueueInv'
  BY <1>1, <1>2, <1>3, <1>5, <1>6, <1>7, EventKeeps
<1> QED BY <1>4, <1>8 DEF Starts

-----------------------------------------------------------------------------
(* Theorems about the queue.                                               *)

\* Nothing waits at the beginning,
LEMMA QueueInit == Init => QueueInv
<1> SUFFICES ASSUME Init PROVE QueueInv
  OBVIOUS
<1> USE DEF Init
<1>1. /\ q.pending = <<>> /\ q.running = {} /\ q \in QueueState
  BY ProviderAssumption DEF QueueState
<1>2. Items(q) = {} /\ Range(q.pending) = {} /\ Len(q.pending) = 0
  BY <1>1 DEF Items, Range
<1>3. Cardinality(q.running) = 0
  BY <1>1, FS_EmptySet
<1>4. QueueOK(q, urgency)
  BY <1>1, <1>2, <1>3, ProviderAssumption DEF QueueOK, Distinct, InOrder
<1>5. (CHOOSE p \in Priorities : TRUE) \in Priorities /\ None \in 0..MaxCallers
  BY ProviderAssumption DEF None
<1>6. TypeOK
  <2>1. caller \in [Callers -> Caller]
    BY IdleType
  <2>2. came \in 0..MaxCallers /\ Len(q.pending) <= MaxPending
    BY <1>2, ProviderAssumption
  <2>3. urgency \in [Callers -> Priorities] /\ inFlight \in [Keys -> 0..MaxCallers]
    BY <1>5
  <2> QED BY <1>1, <2>1, <2>2, <2>3 DEF TypeOK
<1>7. Keyed(caller, inFlight, Items(q))
  <2>1. \A c \in Callers : caller[c].at # "waiting"
    BY IdleType
  <2> QED BY <1>2, <2>1 DEF Keyed
<1> QED BY <1>2, <1>4, <1>6, <1>7 DEF QueueInv

\* and every step keeps the invariant, and starts what is most urgent.
LEMMA QueueNext == QueueInv /\ [Next]_vars => QueueInv' /\ Starts
<1> SUFFICES ASSUME QueueInv, [Next]_vars PROVE QueueInv' /\ Starts
  OBVIOUS
<1>1. ASSUME Request PROVE QueueInv' /\ Starts
  BY <1>1, AtOnceKeeps, ShareKeeps, EnqueueKeeps DEF Request
<1>2. ASSUME NEW c \in Callers, Finish(c) \/ Leave(c) \/ Late(c) \/ Gone(c)
      PROVE  QueueInv' /\ Starts
  BY <1>2, FinishKeeps, RowKeeps
<1>3. CASE UNCHANGED vars
  <2>1. QueueInv'
    BY <1>3 DEF vars, QueueInv, TypeOK, QueueOK, InOrder, Before, Distinct, Keyed, Items
  <2>2. Starts
    BY <1>3 DEF vars, Starts
  <2> QED BY <2>1, <2>2
<1> QED BY <1>1, <1>2, <1>3, SweepKeeps, WakeKeeps, ResumeKeeps, WorldKeeps DEF Next

\* The queue and its callers keep their types (createProviderRequestQueue).
THEOREM ProviderTypeCorrect == Spec => []TypeOK
<1>1. QueueInv => TypeOK
  BY DEF QueueInv
<1> QED BY <1>1, QueueInit, QueueNext, PTL DEF Spec

\* Whatever is shared, upgraded, dropped, refused or finished, no two tasks are out for
\* one key, the key of every item leads to it, no item waits twice, and no more run than
\* the ceiling allows (request, pump): for any keys, priorities, ceilings and budgets.
THEOREM OneTaskPerKeyCorrect == Spec => []OneTaskPerKey
<1>1. QueueInv => OneTaskPerKey
  <2> SUFFICES ASSUME QueueInv PROVE OneTaskPerKey
    OBVIOUS
  <2>1. /\ QueueOK(q, urgency) /\ Keyed(caller, inFlight, Items(q))
        /\ q.pending \in Seq(Callers) /\ q.running \in SUBSET Callers
    BY QueueTypes
  <2>2. /\ IsFiniteSet(Range(q.pending)) /\ Cardinality(Range(q.pending)) = Len(q.pending)
    BY <2>1, RangeSize DEF QueueOK
  <2>3. IsFiniteSet(q.running)
    BY <2>1, UpTo, FS_Subset, ProviderAssumption DEF Callers
  <2>4. Cardinality(Items(q)) = Len(q.pending) + Cardinality(q.running)
    <3>1. Cardinality(Range(q.pending) \cap q.running) = 0
      BY <2>1, FS_EmptySet DEF QueueOK
    <3>2. Cardinality(Items(q)) = Cardinality(Range(q.pending)) + Cardinality(q.running)
                                    - Cardinality(Range(q.pending) \cap q.running)
      BY <2>2, <2>3, FS_Union DEF Items
    <3>3. Len(q.pending) \in Nat /\ Cardinality(q.running) \in Nat
      BY <2>1, <2>3, FS_CardinalityType
    <3> QED BY <2>2, <3>1, <3>2, <3>3
  <2> QED BY <2>1, <2>4 DEF OneTaskPerKey, Items, Keyed, QueueOK, QueueInv
<1> QED BY <1>1, QueueInit, QueueNext, PTL DEF Spec

\* When a task starts, none that is more urgent stays behind (sortPending, pump).
THEOREM UrgentFirstCorrect == Spec => UrgentFirst
<1>1. QueueInv /\ [Next]_vars
        => [\A i \in q'.running \ q.running, j \in Range(q'.pending) :
              ~Dead(j) => urgency'[i] >= urgency'[j]]_vars
  BY QueueNext DEF Starts
<1> QED BY <1>1, QueueInit, QueueNext, PTL DEF Spec, UrgentFirst

-----------------------------------------------------------------------------
(* The queue implements FrontDesk.                                         *)

\* FrontDesk counts as everybody does.
LEMMA SameCount == \A S : Desk!Cardinality(S) = Cardinality(S)
  BY DEF Cardinality, Desk!Cardinality

\* An item is one with its key: the flights lead back.
LEMMA ItemsHaveKeys ==
  ASSUME NEW rows \in [Callers -> Caller], NEW flights, NEW items \in SUBSET Callers,
         Keyed(rows, flights, items)
  PROVE  \A i \in items : /\ rows[i].at = "waiting" /\ rows[i].item = i
                          /\ rows[i].key \in Keys /\ flights[rows[i].key] = i
  BY DEF Keyed, Caller

\* To settle items is to tell all who wait for their keys.
LEMMA SettledIsTold ==
  ASSUME NEW rows \in [Callers -> Caller], NEW flights, NEW items \in SUBSET Callers,
         Keyed(rows, flights, items), NEW done \in SUBSET items,
         NEW at \in {"answered", "refused"}
  PROVE  AskersOf(Settled(rows, done, at))
           = Desk!Told(AskersOf(rows), KeysOf(rows, done), at)
<1> DEFINE row(x) == [at |-> x.at, key |-> x.key, over |-> x.late \/ x.gone]
<1>1. \A i \in items : flights[rows[i].key] = i
  BY ItemsHaveKeys
<1>2. row(Idle(at)) = Desk!Away(at)
  <2>1. (Idle(at).late \/ Idle(at).gone) = FALSE
    BY IdleType
  <2> QED BY <2>1 DEF Idle, Desk!Away
<1>3. ASSUME NEW c \in Callers, rows[c].at = "waiting"
      PROVE  rows[c].item \in done <=> rows[c].key \in KeysOf(rows, done)
  <2>1. rows[c].item \in items /\ rows[rows[c].item].key = rows[c].key
    BY <1>3 DEF Keyed
  <2>2. ASSUME rows[c].key \in KeysOf(rows, done) PROVE rows[c].item \in done
    <3>1. PICK i \in done : rows[c].key = rows[i].key
      BY <2>2 DEF KeysOf
    <3> QED BY <1>1, <2>1, <3>1
  <2> QED BY <2>1, <2>2 DEF KeysOf
<1>4. ASSUME NEW c \in Callers
      PROVE  row(Settled(rows, done, at)[c])
               = Desk!Told(AskersOf(rows), KeysOf(rows, done), at)[c]
  <2>1. AskersOf(rows)[c] = row(rows[c])
    BY DEF AskersOf
  <2>2. row(rows[c]).at = rows[c].at /\ row(rows[c]).key = rows[c].key
    OBVIOUS
  <2>3. CASE rows[c].at = "waiting" /\ rows[c].item \in done
    <3>1. Settled(rows, done, at)[c] = Idle(at)
      BY <2>3 DEF Settled
    <3>2. Desk!Told(AskersOf(rows), KeysOf(rows, done), at)[c] = Desk!Away(at)
      BY <1>3, <2>1, <2>2, <2>3 DEF Desk!Told
    <3> QED BY <1>2, <3>1, <3>2
  <2>4. CASE ~(rows[c].at = "waiting" /\ rows[c].item \in done)
    <3>1. Settled(rows, done, at)[c] = rows[c]
      BY <2>4 DEF Settled
    <3>2. Desk!Told(AskersOf(rows), KeysOf(rows, done), at)[c] = row(rows[c])
      BY <1>3, <2>1, <2>2, <2>4 DEF Desk!Told
    <3> QED BY <3>1, <3>2
  <2> QED BY <2>3, <2>4
<1> QED BY <1>4 DEF AskersOf, Desk!Told

\* Settling leaves the keys of the other items, and their places in the line.
LEMMA OthersStay ==
  ASSUME NEW rows \in [Callers -> Caller], NEW flights \in [Keys -> 0..MaxCallers],
         NEW items \in SUBSET Callers, Keyed(rows, flights, items), NEW done,
         NEW at \in {"answered", "refused"}, NEW rest \in SUBSET (items \ done), NEW urg
  PROVE  /\ KeysOf(Settled(rows, done, at), rest) = KeysOf(rows, rest)
         /\ LineOf(Settled(rows, done, at), Without(flights, done), urg, rest)
              = LineOf(rows, flights, urg, rest)
<1>1. ASSUME NEW i \in rest
      PROVE  /\ Settled(rows, done, at)[i].key = rows[i].key
             /\ Without(flights, done)[rows[i].key] = flights[rows[i].key]
  BY ItemsHaveKeys DEF Settled, Without
<1>2. KeysOf(Settled(rows, done, at), rest) = KeysOf(rows, rest)
  BY <1>1 DEF KeysOf
<1>3. \A k \in KeysOf(rows, rest) : Without(flights, done)[k] = flights[k]
  BY <1>1 DEF KeysOf
<1> QED BY <1>2, <1>3 DEF LineOf

\* As many keys as items.
LEMMA AsManyKeys ==
  ASSUME NEW rows \in [Callers -> Caller], NEW flights, NEW items \in SUBSET Callers,
         Keyed(rows, flights, items), NEW some \in SUBSET items
  PROVE  /\ Cardinality(KeysOf(rows, some)) = Cardinality(some)
         /\ Cardinality(some) \in Nat
<1> DEFINE f == [i \in some |-> rows[i].key]
<1>1. IsFiniteSet(some)
  <2>1. some \in SUBSET Callers
    OBVIOUS
  <2> QED BY <2>1, UpTo, FS_Subset, ProviderAssumption DEF Callers
<1>2. \A i, j \in some : rows[i].key = rows[j].key => i = j
  BY ItemsHaveKeys
<1>3. f \in Bijection(some, KeysOf(rows, some))
  BY <1>2 DEF KeysOf, Bijection, Injection, Surjection, IsInjective
<1>4. ExistsBijection(some, KeysOf(rows, some))
  BY <1>3 DEF ExistsBijection
<1> QED BY <1>1, <1>4, FS_Bijection, FS_CardinalityType

\* What an event and its pump do to rows, flights and the queue of wait and run is
\* Work of the desk: what starts and what is dropped are sets of keys.
LEMMA PumpIsWork ==
  ASSUME NEW rows \in [Callers -> Caller], NEW flights \in [Keys -> 0..MaxCallers],
         NEW urg \in [Callers -> Nat],
         NEW wait \in SUBSET Callers, NEW run \in SUBSET Callers, wait \cap run = {},
         Keyed(rows, flights, wait \cup run),
         NEW done \in SUBSET wait, \A i \in done : rows[i].late \/ rows[i].gone,
         QueueOK(q', urg), run \subseteq q'.running,
         Range(q'.pending) \cup q'.running \cup done = wait \cup run,
         done \cap (Range(q'.pending) \cup q'.running) = {},
         \A i \in q'.running \ run, j \in Range(q'.pending) : urg[i] >= urg[j],
         paused' => q'.running = run,
         q'.starts = q.starts + Cardinality(q'.running \ run),
         caller' = Settled(rows, done, "refused"),
         inFlight' = Without(flights, done), urgency' = urg
  PROVE  Desk!Work(AskersOf(rows), LineOf(rows, flights, urg, wait), KeysOf(rows, run))
<1> DEFINE items == wait \cup run
           wait2 == Range(q'.pending)
           run2  == q'.running
           start == KeysOf(rows, run2 \ run)
           drop  == KeysOf(rows, done)
           l     == LineOf(rows, flights, urg, wait)
<1>1. \A i \in items : /\ rows[i].at = "waiting" /\ rows[i].item = i
                       /\ rows[i].key \in Keys /\ flights[rows[i].key] = i
  BY ItemsHaveKeys
<1>2. /\ run2 \ run \subseteq wait /\ wait2 = wait \ ((run2 \ run) \cup done)
      /\ (run2 \ run) \cap done = {} /\ wait2 \cap run2 = {}
      /\ run2 \in SUBSET items /\ wait2 \in SUBSET items /\ run2 = run \cup (run2 \ run)
      /\ wait2 \in SUBSET (items \ done) /\ run2 \in SUBSET (items \ done)
  BY DEF QueueOK
<1>3. /\ DOMAIN l = KeysOf(rows, wait)
      /\ \A i \in wait : rows[i].key \in DOMAIN l /\ l[rows[i].key] = urg[i]
  BY <1>1 DEF LineOf, KeysOf
<1>4. \A i, j \in items : rows[i].key = rows[j].key => i = j
  BY <1>1
<1>5. start \in SUBSET DOMAIN l /\ drop \in SUBSET (DOMAIN l \ start)
  BY <1>2, <1>3, <1>4 DEF KeysOf
<1>6. DOMAIN l \ (start \cup drop) = KeysOf(rows, wait2)
  BY <1>2, <1>3, <1>4 DEF KeysOf
<1>7. ASSUME NEW k \in drop
      PROVE  \E c \in Callers : /\ AskersOf(rows)[c].at = "waiting"
                                /\ AskersOf(rows)[c].key = k /\ AskersOf(rows)[c].over
  <2>1. PICK i \in done : k = rows[i].key
    BY DEF KeysOf
  <2> QED BY <1>1, <2>1 DEF AskersOf
<1>8. ASSUME NEW k \in start, NEW j \in KeysOf(rows, wait2) PROVE l[k] >= l[j]
  <2>1. PICK m \in run2 \ run : k = rows[m].key
    BY DEF KeysOf
  <2>2. PICK n \in wait2 : j = rows[n].key
    BY DEF KeysOf
  <2> QED BY <1>2, <1>3, <2>1, <2>2
<1>9. paused' => start = {}
  BY DEF KeysOf
<1>10. KeysOf(rows, run) \cup start = KeysOf(rows, run2)
  BY <1>2 DEF KeysOf
<1>11. Cardinality(KeysOf(rows, run) \cup start) <= MaxConcurrency
  <2>1. Cardinality(KeysOf(rows, run2)) = Cardinality(run2)
    BY <1>2, AsManyKeys
  <2> QED BY <1>10, <2>1 DEF QueueOK
<1>12. Cardinality(start) = Cardinality(run2 \ run)
  <2>1. run2 \ run \in SUBSET items
    BY <1>2
  <2> QED BY <2>1, AsManyKeys
<1>13. q.starts + Cardinality(start) <= MaxPerSecond
  BY <1>12, ProviderAssumption DEF QueueOK, QueueState
<1>14. KeysOf(caller', run2) = KeysOf(rows, run2)
  BY <1>2, OthersStay
<1>15. LineOf(caller', inFlight', urg, wait2) = LineOf(rows, flights, urg, wait2)
  <2>1. wait2 \in SUBSET (items \ done) /\ items \in SUBSET Callers
    BY <1>2
  <2> HIDE DEF wait2, items
  <2>2. Keyed(rows, flights, items)
    BY DEF items
  <2>3. LineOf(Settled(rows, done, "refused"), Without(flights, done), urg, wait2)
          = LineOf(rows, flights, urg, wait2)
    BY <2>1, <2>2, OthersStay
  <2> QED BY <2>3
<1>16. LineOf(rows, flights, urg, wait2) = [k \in KeysOf(rows, wait2) |-> l[k]]
  <2>1. \A k \in KeysOf(rows, wait2) : k \in KeysOf(rows, wait)
    BY <1>3, <1>6
  <2>2. \A k \in KeysOf(rows, wait2) : l[k] = urg[flights[k]]
    BY <2>1 DEF LineOf
  <2> QED BY <2>2 DEF LineOf
<1>17. AskersOf(caller') = Desk!Told(AskersOf(rows), drop, "refused")
  BY SettledIsTold
<1> HIDE DEF items, wait2, run2, start, drop, l
<1>18. /\ LineOf(caller, inFlight, urgency, Range(q.pending))'
            = [k \in DOMAIN l \ (start \cup drop) |-> l[k]]
       /\ KeysOf(caller, q.running)' = KeysOf(rows, run) \cup start
       /\ AskersOf(caller)' = Desk!Told(AskersOf(rows), drop, "refused")
  <2>1. LineOf(caller, inFlight, urgency, Range(q.pending))'
          = LineOf(caller', inFlight', urg, wait2)
    BY DEF wait2, LineOf, KeysOf, Range
  <2>2. KeysOf(caller, q.running)' = KeysOf(caller', run2)
    BY DEF run2, KeysOf
  <2>3. AskersOf(caller)' = AskersOf(caller')
    BY DEF AskersOf
  <2> QED BY <1>6, <1>10, <1>14, <1>15, <1>16, <1>17, <2>1, <2>2, <2>3
<1>19. q'.starts = q.starts + Cardinality(start)
  BY <1>12 DEF run2
<1>20. Desk!Work(AskersOf(rows), l, KeysOf(rows, run))
  <2>1. \A k \in start, j \in DOMAIN l \ (start \cup drop) : l[k] >= l[j]
    BY <1>6, <1>8
  <2> QED BY <1>5, <1>7, <1>9, <1>11, <1>13, <1>18, <1>19, <2>1, SameCount
        DEF Desk!Work
<1> QED BY <1>20 DEF l

\* What the desk sees of a state.
Asked  == AskersOf(caller)
InLine == LineOf(caller, inFlight, urgency, Range(q.pending))
Sent   == KeysOf(caller, q.running)

\* What the lemmas below need of the state.
LEMMA DeskState ==
  ASSUME QueueInv
  PROVE  /\ Range(q.pending) \in SUBSET Callers /\ q.running \in SUBSET Callers
         /\ Range(q.pending) \cap q.running = {}
         /\ Keyed(caller, inFlight, Range(q.pending) \cup q.running)
         /\ DOMAIN InLine = KeysOf(caller, Range(q.pending))
         /\ \A i \in Range(q.pending) : /\ caller[i].key \in DOMAIN InLine
                                        /\ InLine[caller[i].key] = urgency[i]
         /\ \A i, j \in Items(q) : caller[i].key = caller[j].key => i = j
         /\ \A i \in Items(q) : /\ caller[i].at = "waiting" /\ caller[i].item = i
                                /\ caller[i].key \in Keys
                                /\ inFlight[caller[i].key] = i
<1>1. /\ q.running \in SUBSET Callers /\ Items(q) \in SUBSET Callers
      /\ caller \in [Callers -> Caller] /\ Keyed(caller, inFlight, Items(q))
      /\ Range(q.pending) \cap q.running = {}
  BY QueueTypes DEF QueueOK
<1>2. \A i \in Items(q) : /\ caller[i].at = "waiting" /\ caller[i].item = i
                          /\ caller[i].key \in Keys /\ inFlight[caller[i].key] = i
  BY <1>1, ItemsHaveKeys
<1>3. DOMAIN InLine = KeysOf(caller, Range(q.pending))
  BY DEF InLine, LineOf
<1>4. ASSUME NEW i \in Range(q.pending)
      PROVE  caller[i].key \in DOMAIN InLine /\ InLine[caller[i].key] = urgency[i]
  BY <1>2 DEF InLine, LineOf, KeysOf, Items
<1>5. \A i, j \in Items(q) : caller[i].key = caller[j].key => i = j
  BY <1>2
<1> QED BY <1>1, <1>2, <1>3, <1>4, <1>5 DEF Items

\* A pump after an event that has dropped some items already.
LEMMA PumpingIsWork ==
  ASSUME QueueInv, NEW r, QueueOK(r, urgency), NEW isPaused \in BOOLEAN,
         NEW gone \in SUBSET Range(q.pending), \A i \in gone : Dead(i),
         Range(r.pending) = Range(q.pending) \ gone,
         r.running = q.running, r.starts = q.starts,
         Pumping(r, urgency, isPaused, inFlight, gone),
         urgency' = urgency, paused' = isPaused
  PROVE  Desk!Work(Asked, InLine, Sent)
<1> DEFINE p    == Pump(r, urgency, isPaused)
           done == p.dropped \cup gone
           wait == Range(q.pending)
           run  == q.running
<1>1. Pumped(r, urgency, p) /\ Counted(r, isPaused, p)
  BY QueueTypes, PumpMoves
<1>2. /\ q' = p.queue /\ inFlight' = Without(inFlight, done)
      /\ caller' = Settled(caller, done, "refused")
  BY DEF Pumping
<1> HIDE DEF p
<1>3. /\ wait \in SUBSET Callers /\ run \in SUBSET Callers /\ wait \cap run = {}
      /\ Keyed(caller, inFlight, wait \cup run)
      /\ caller \in [Callers -> Caller] /\ inFlight \in [Keys -> 0..MaxCallers]
      /\ urgency \in [Callers -> Nat]
  BY DeskState, QueueTypes
<1>4. done \in SUBSET wait /\ \A i \in done : caller[i].late \/ caller[i].gone
  BY <1>1 DEF Pumped, Dead
<1>5. /\ QueueOK(q', urgency) /\ run \subseteq q'.running
      /\ Range(q'.pending) \cup q'.running \cup done = wait \cup run
      /\ done \cap (Range(q'.pending) \cup q'.running) = {}
      /\ \A i \in q'.running \ run, j \in Range(q'.pending) : urgency[i] >= urgency[j]
  BY <1>1, <1>2, <1>3 DEF Pumped
<1>6. /\ paused' => q'.running = run
      /\ q'.starts = q.starts + Cardinality(q'.running \ run)
  BY <1>1, <1>2 DEF Counted
<1> HIDE DEF wait, run, done
<1>7. Desk!Work(AskersOf(caller), LineOf(caller, inFlight, urgency, wait),
                KeysOf(caller, run))
  BY <1>2, <1>3, <1>4, <1>5, <1>6, PumpIsWork
<1> QED BY <1>7 DEF wait, run, Asked, InLine, Sent

\* The sweep drops what is dead and pumps.
LEMMA SweepIsGo == QueueInv /\ Sweep => Desk!Go
<1> SUFFICES ASSUME QueueInv, Sweep PROVE Desk!Go
  OBVIOUS
<1> DEFINE dead == {i \in Range(q.pending) : Dead(i)}
           keep == Living(q.pending)
           r    == [q EXCEPT !.pending = keep, !.watch = keep # <<>>]
<1>1. /\ Pumping(r, urgency, paused, inFlight, dead)
      /\ urgency' = urgency /\ cached' = cached /\ paused' = paused
  BY DEF Sweep
<1>2. /\ q \in QueueState /\ q.pending \in Seq(Callers) /\ QueueOK(q, urgency)
      /\ paused \in BOOLEAN /\ Distinct(q.pending)
  BY QueueTypes DEF QueueOK
<1>3. /\ keep \in Seq(Callers) /\ Len(keep) <= Len(q.pending) /\ Distinct(keep)
      /\ Range(keep) = {i \in Range(q.pending) : ~Dead(i)}
      /\ InOrder(q.pending, urgency) => InOrder(keep, urgency)
  BY <1>2, LivingOrder
<1> HIDE DEF keep
<1>4. /\ r.pending = keep /\ r.running = q.running /\ r.sorted = q.sorted
      /\ r.starts = q.starts /\ r \in QueueState
  <2>1. (keep # <<>>) \in BOOLEAN
    OBVIOUS
  <2> QED BY <1>2, <1>3, <2>1 DEF QueueState
<1>5. /\ dead \in SUBSET Range(q.pending) /\ \A i \in dead : Dead(i)
      /\ Range(r.pending) = Range(q.pending) \ dead
  BY <1>3, <1>4
<1> HIDE DEF r, dead
<1>6. QueueOK(r, urgency)
  BY <1>2, <1>3, <1>4, <1>5 DEF QueueOK
<1>7. Desk!Work(Asked, InLine, Sent)
  BY <1>1, <1>2, <1>4, <1>5, <1>6, PumpingIsWork
<1> QED BY <1>1, <1>7 DEF Desk!Go, Asked, InLine, Sent

\* So does the wake timer,
LEMMA WakeIsGo == QueueInv /\ Wake => Desk!Go
<1> SUFFICES ASSUME QueueInv, Wake PROVE Desk!Go
  OBVIOUS
<1> DEFINE r == [q EXCEPT !.wake = FALSE]
<1>1. /\ Pumping(r, urgency, paused, inFlight, {})
      /\ urgency' = urgency /\ cached' = cached /\ paused' = paused
  BY DEF Wake
<1>2. q \in QueueState /\ QueueOK(q, urgency) /\ paused \in BOOLEAN
  BY QueueTypes
<1>3. /\ r \in QueueState /\ r.pending = q.pending /\ r.running = q.running
      /\ r.sorted = q.sorted /\ r.starts = q.starts
  BY <1>2 DEF QueueState
<1> HIDE DEF r
<1>4. QueueOK(r, urgency) /\ Range(r.pending) = Range(q.pending) \ {}
  BY <1>2, <1>3, SameQueue
<1>5. Desk!Work(Asked, InLine, Sent)
  BY <1>1, <1>2, <1>3, <1>4, PumpingIsWork
<1> QED BY <1>1, <1>5 DEF Desk!Go, Asked, InLine, Sent

\* and resume, and a pause that runs out without a pump.
LEMMA ResumeIsLift == QueueInv /\ (Resume \/ PauseEnds) => Desk!Lift
<1>1. ASSUME QueueInv, Resume PROVE Desk!Lift
  <2>1. /\ Pumping(q, urgency, FALSE, inFlight, {})
        /\ urgency' = urgency /\ cached' = cached /\ paused' = FALSE
    BY <1>1 DEF Resume
  <2>2. /\ QueueOK(q, urgency) /\ Range(q.pending) = Range(q.pending) \ {}
        /\ {} \in SUBSET Range(q.pending) /\ FALSE \in BOOLEAN
        /\ \A i \in {} : Dead(i)
    BY <1>1, QueueTypes
  <2>3. Desk!Work(Asked, InLine, Sent)
    BY <1>1, <2>1, <2>2, PumpingIsWork
  <2> QED BY <2>1, <2>3 DEF Desk!Lift, Asked, InLine, Sent
<1>2. ASSUME QueueInv, PauseEnds PROVE Desk!Lift
  <2>1. /\ paused' = FALSE /\ q' = q /\ caller' = caller /\ inFlight' = inFlight
        /\ urgency' = urgency /\ cached' = cached
    BY <1>2 DEF PauseEnds
  <2>2. /\ caller \in [Callers -> Caller] /\ inFlight \in [Keys -> 0..MaxCallers]
        /\ urgency \in [Callers -> Nat] /\ QueueOK(q, urgency) /\ q \in QueueState
    BY <1>2, QueueTypes
  <2>3. caller' = Settled(caller, {}, "refused") /\ inFlight' = Without(inFlight, {})
    BY <2>1, <2>2 DEF Settled, Without
  <2>4. q'.running = q.running /\ q'.starts = q.starts + Cardinality(q'.running \ q.running)
    <3>1. Cardinality(q'.running \ q.running) = 0
      BY <2>1, FS_EmptySet
    <3> QED BY <2>1, <2>2, <3>1 DEF QueueState
  <2> DEFINE wait == Range(q.pending)
             run  == q.running
             none == {}
  <2>5. /\ wait \in SUBSET Callers /\ run \in SUBSET Callers /\ wait \cap run = {}
        /\ Keyed(caller, inFlight, wait \cup run)
    BY <1>2, DeskState
  <2>6. /\ none \in SUBSET wait /\ run \subseteq q'.running
        /\ Range(q'.pending) \cup q'.running \cup none = wait \cup run
        /\ none \cap (Range(q'.pending) \cup q'.running) = {}
        /\ QueueOK(q', urgency) /\ q'.running = run
        /\ \A i \in none : caller[i].late \/ caller[i].gone
        /\ \A i \in q'.running \ run, j \in Range(q'.pending) : urgency[i] >= urgency[j]
    BY <2>1, <2>2
  <2> HIDE DEF wait, run
  <2>7. Desk!Work(AskersOf(caller), LineOf(caller, inFlight, urgency, wait),
                  KeysOf(caller, run))
    <3>1. q'.starts = q.starts + Cardinality(q'.running \ run)
      BY <2>4 DEF run
    <3> QED BY <2>1, <2>2, <2>3, <2>5, <2>6, <3>1, PumpIsWork
  <2> QED BY <2>1, <2>7 DEF Desk!Lift, wait, run
<1> QED BY <1>1, <1>2

\* A task that ends is an answer that is heard.
LEMMA FinishIsHear ==
  ASSUME QueueInv, NEW i \in Callers, Finish(i)
  PROVE  Desk!Hear(caller[i].key)
<1> DEFINE r    == [q EXCEPT !.running = @ \ {i}]
           p    == Pump(r, urgency, paused)
           rows == Settled(caller, {i}, "answered")
           fls  == Without(inFlight, {i})
           wait == Range(q.pending)
           run  == q.running \ {i}
           done == p.dropped
<1>1. /\ i \in q.running /\ q' = p.queue
      /\ inFlight' = Without(fls, done)
      /\ caller' = Settled(rows, done, "refused")
      /\ urgency' = urgency /\ paused' = paused
  BY DEF Finish, FreesKey
<1>2. /\ caller \in [Callers -> Caller] /\ inFlight \in [Keys -> 0..MaxCallers]
      /\ urgency \in [Callers -> Nat] /\ paused \in BOOLEAN
      /\ q \in QueueState /\ QueueOK(q, urgency)
      /\ Items(q) \in SUBSET Callers /\ Keyed(caller, inFlight, Items(q))
  BY QueueTypes
<1>3. /\ wait \in SUBSET Callers /\ q.running \in SUBSET Callers
      /\ wait \cap q.running = {} /\ Items(q) = wait \cup q.running
  BY DeskState DEF Items
<1>4. /\ r \in QueueState /\ r.pending = q.pending /\ r.running = q.running \ {i}
      /\ r.sorted = q.sorted /\ r.starts = q.starts
  BY <1>2 DEF QueueState
<1> HIDE DEF r
<1>5. QueueOK(r, urgency)
  <2>1. IsFiniteSet(q.running)
    BY <1>3, UpTo, FS_Subset, ProviderAssumption DEF Callers
  <2>2. Cardinality(q.running \ {i}) = Cardinality(q.running) - 1
    BY <1>1, <2>1, FS_RemoveElement
  <2>3. Cardinality(q.running) \in Nat /\ Cardinality(q.running) <= MaxConcurrency
    BY <1>2, <2>1, FS_CardinalityType DEF QueueOK
  <2>4. Cardinality(q.running \ {i}) <= MaxConcurrency
    BY <2>2, <2>3, ProviderAssumption
  <2> QED BY <1>2, <1>4, <2>4 DEF QueueOK
<1>6. Pumped(r, urgency, p) /\ Counted(r, paused, p)
  BY <1>2, <1>5, PumpMoves
<1> HIDE DEF p
<1>7. /\ rows \in [Callers -> Caller] /\ fls \in [Keys -> 0..MaxCallers]
      /\ Keyed(rows, fls, Items(q) \ {i})
  BY <1>2, SettledKeepsOthers
<1>8. /\ run \in SUBSET Callers /\ wait \cap run = {} /\ wait \cup run = Items(q) \ {i}
      /\ r.running = run /\ wait \in SUBSET (Items(q) \ {i})
      /\ run \in SUBSET (Items(q) \ {i})
  BY <1>1, <1>3, <1>4
<1>9. done \in SUBSET wait /\ \A j \in done : Dead(j)
  BY <1>4, <1>6 DEF Pumped
<1>10. \A j \in done : rows[j].late \/ rows[j].gone
  <2>1. \A j \in Items(q) : caller[j].item = j
    BY <1>2, ItemsHaveKeys
  <2>2. \A j \in done : j \in Callers /\ rows[j] = caller[j]
    BY <1>3, <1>8, <1>9, <2>1 DEF Settled
  <2> QED BY <1>9, <2>2 DEF Dead
<1>11. /\ QueueOK(q', urgency) /\ run \subseteq q'.running
       /\ Range(q'.pending) \cup q'.running \cup done = wait \cup run
       /\ done \cap (Range(q'.pending) \cup q'.running) = {}
       /\ \A j \in q'.running \ run, k \in Range(q'.pending) : urgency[j] >= urgency[k]
  BY <1>1, <1>4, <1>6, <1>8 DEF Pumped
<1>12. /\ paused' => q'.running = run
       /\ q'.starts = q.starts + Cardinality(q'.running \ run)
  BY <1>1, <1>4, <1>6, <1>8 DEF Counted
<1>13. /\ AskersOf(rows) = Desk!Told(AskersOf(caller), KeysOf(caller, {i}), "answered")
       /\ KeysOf(caller, {i}) = {caller[i].key}
  <2>1. {i} \in SUBSET Items(q)
    BY <1>1, <1>3
  <2> QED BY <1>2, <2>1, SettledIsTold DEF KeysOf
<1>14. /\ LineOf(rows, fls, urgency, wait) = LineOf(caller, inFlight, urgency, wait)
       /\ KeysOf(rows, run) = KeysOf(caller, run)
  <2> DEFINE items == Items(q)
             one   == {i}
  <2>1. /\ items \in SUBSET Callers /\ Keyed(caller, inFlight, items)
        /\ wait \in SUBSET (items \ one) /\ run \in SUBSET (items \ one)
    BY <1>2, <1>8
  <2> HIDE DEF items, one, wait, run
  <2>2. LineOf(Settled(caller, one, "answered"), Without(inFlight, one), urgency, wait)
          = LineOf(caller, inFlight, urgency, wait)
    BY <1>2, <2>1, OthersStay
  <2>3. KeysOf(Settled(caller, one, "answered"), run) = KeysOf(caller, run)
    BY <1>2, <2>1, OthersStay
  <2> QED BY <2>2, <2>3 DEF one
<1>15. /\ LineOf(rows, fls, urgency, wait) = InLine
       /\ KeysOf(rows, run) = Sent \ {caller[i].key}
  <2>1. KeysOf(caller, q.running \ {i}) = KeysOf(caller, q.running) \ {caller[i].key}
    BY <1>1, DeskState DEF KeysOf, Items
  <2> QED BY <1>14, <2>1 DEF InLine, Sent
<1>16. caller[i].key \in Sent
  BY <1>1 DEF Sent, KeysOf
<1>17. cached' \in {cached, cached \cup {caller[i].key}}
  <2>1. PICK some \in SUBSET {caller[i].key} : cached' = cached \cup some
    BY DEF Finish
  <2>2. some = {} \/ some = {caller[i].key}
    OBVIOUS
  <2> QED BY <2>1, <2>2
<1> HIDE DEF rows, fls, wait, run, done
<1>18. Desk!Work(AskersOf(rows), LineOf(rows, fls, urgency, wait), KeysOf(rows, run))
  BY <1>1, <1>2, <1>3, <1>7, <1>8, <1>9, <1>10, <1>11, <1>12, PumpIsWork
<1>19. Desk!Work(Desk!Told(Asked, {caller[i].key}, "answered"), InLine,
                 Sent \ {caller[i].key})
  BY <1>13, <1>15, <1>18 DEF Asked
<1> QED BY <1>1, <1>16, <1>17, <1>19 DEF Desk!Hear, Asked, InLine, Sent

\* Somebody new who asks for a key of its own.
LEMMA KeyedWithNew ==
  ASSUME NEW rows \in [Callers -> Caller], NEW flights \in [Keys -> 0..MaxCallers],
         NEW items \in SUBSET Callers, Keyed(rows, flights, items),
         NEW c \in Callers, c \notin items, NEW k \in Keys, flights[k] = None
  PROVE  /\ [rows EXCEPT ![c] = Waiting(k, c)] \in [Callers -> Caller]
         /\ [flights EXCEPT ![k] = c] \in [Keys -> 0..MaxCallers]
         /\ Keyed([rows EXCEPT ![c] = Waiting(k, c)], [flights EXCEPT ![k] = c],
                  items \cup {c})
<1> DEFINE rows2 == [rows EXCEPT ![c] = Waiting(k, c)]
           fls2  == [flights EXCEPT ![k] = c]
<1>1. /\ c \in 0..MaxCallers /\ c # None /\ \A i \in items : i # c /\ i # None
  BY ProviderAssumption DEF Callers, None
<1>2. Waiting(k, c) \in Caller
  BY <1>1 DEF Waiting, Caller
<1>3. rows2 \in [Callers -> Caller] /\ fls2 \in [Keys -> 0..MaxCallers]
  BY <1>1, <1>2
<1>4. /\ rows2[c].at = "waiting" /\ rows2[c].item = c /\ rows2[c].key = k /\ fls2[k] = c
      /\ \A d \in Callers : d # c => rows2[d] = rows[d]
      /\ \A l \in Keys : l # k => fls2[l] = flights[l]
  BY DEF Waiting
<1> HIDE DEF rows2, fls2
<1>5. ASSUME NEW i \in items
      PROVE  /\ rows2[i].at = "waiting" /\ rows2[i].item = i
             /\ fls2[rows2[i].key] = i
  <2>1. /\ rows[i].at = "waiting" /\ rows[i].item = i /\ flights[rows[i].key] = i
        /\ rows[i].key \in Keys
    BY ItemsHaveKeys
  <2>2. rows[i].key # k /\ rows2[i] = rows[i]
    BY <1>1, <1>4, <2>1
  <2> QED BY <1>4, <2>1, <2>2
<1>6. ASSUME NEW l \in Keys, fls2[l] # None
      PROVE  fls2[l] \in items \cup {c} /\ rows2[fls2[l]].key = l
  <2>1. CASE l = k
    BY <1>4, <2>1
  <2>2. CASE l # k
    <3>1. flights[l] \in items /\ rows[flights[l]].key = l /\ fls2[l] = flights[l]
      BY <1>4, <1>6, <2>2 DEF Keyed
    <3> QED BY <1>1, <1>4, <3>1
  <2> QED BY <2>1, <2>2
<1>7. ASSUME NEW d \in Callers, rows2[d].at = "waiting"
      PROVE  rows2[d].item \in items \cup {c} /\ rows2[rows2[d].item].key = rows2[d].key
  <2>1. CASE d = c
    BY <1>4, <2>1
  <2>2. CASE d # c
    <3>1. rows2[d] = rows[d]
      BY <1>4, <2>2
    <3>2. rows[d].item \in items /\ rows[rows[d].item].key = rows[d].key
      BY <1>7, <3>1 DEF Keyed
    <3> QED BY <1>1, <1>4, <3>1, <3>2
  <2> QED BY <2>1, <2>2
<1>8. Keyed(rows2, fls2, items \cup {c})
  BY <1>4, <1>5, <1>6, <1>7 DEF Keyed
<1> QED BY <1>3, <1>8 DEF rows2, fls2

\* A new key: somebody enters the line, and the desk goes through it.
LEMMA EnqueueIsEnter ==
  ASSUME QueueInv, NEW c \in Callers, NEW k \in Keys, NEW p \in Priorities,
         Enqueue(c, k, p)
  PROVE  Desk!Enter(c, k, p)
<1> DEFINE urg  == [urgency EXCEPT ![c] = p]
           r    == [q EXCEPT !.pending = Append(@, c), !.sorted = FALSE]
           new  == Pump(r, urg, paused)
           done == new.dropped
           rows == [caller EXCEPT ![c] = Waiting(k, c)]
           fls  == [inFlight EXCEPT ![k] = c]
           wait == Range(q.pending) \cup {c}
           run  == q.running
<1>1. /\ c = came + 1 /\ cached' = cached /\ paused' = paused
      /\ k \notin cached /\ inFlight[k] = None /\ Len(q.pending) < MaxPending
      /\ urgency' = urg
      /\ q' = [new.queue EXCEPT !.watch = Watched(new.queue.pending)]
      /\ inFlight' = [Without(inFlight, done) EXCEPT ![k] = c]
      /\ caller' = [Settled(caller, done, "refused") EXCEPT ![c] = Waiting(k, c)]
  BY DEF Enqueue, Asks
<1>2. /\ caller \in [Callers -> Caller] /\ inFlight \in [Keys -> 0..MaxCallers]
      /\ urgency \in [Callers -> Priorities] /\ paused \in BOOLEAN
      /\ q \in QueueState /\ QueueOK(q, urgency) /\ Items(q) \in SUBSET Callers
      /\ q.pending \in Seq(Callers) /\ Keyed(caller, inFlight, Items(q))
  BY QueueTypes DEF QueueInv, TypeOK
<1>3. urg \in [Callers -> Nat] /\ urg[c] = p /\ \A i \in Callers : i # c => urg[i] = urgency[i]
  BY <1>2, ProviderAssumption
<1>4. c \notin Items(q) /\ ~Dead(c) /\ caller[c] = Idle("none") /\ c # None
  BY <1>1, Newcomer
<1>5. /\ c \notin Range(q.pending) /\ c \notin q.running
      /\ Range(q.pending) \in SUBSET Callers /\ q.running \in SUBSET Callers
      /\ Range(q.pending) \cap q.running = {}
  BY <1>4, DeskState DEF Items
<1>6. /\ Append(q.pending, c) \in Seq(Callers) /\ Distinct(Append(q.pending, c))
      /\ Range(Append(q.pending, c)) = wait
  BY <1>2, <1>5, Appended DEF QueueOK
<1>7. /\ r \in QueueState /\ r.pending = Append(q.pending, c) /\ r.running = q.running
      /\ r.sorted = FALSE /\ r.starts = q.starts
  BY <1>2, <1>6 DEF QueueState
<1> HIDE DEF r, urg
<1>8. QueueOK(r, urg)
  BY <1>2, <1>5, <1>6, <1>7 DEF QueueOK
<1>9. Pumped(r, urg, new) /\ Counted(r, paused, new)
  BY <1>2, <1>3, <1>8, PumpMoves
<1> HIDE DEF new
<1>10. /\ q'.pending = new.queue.pending /\ q'.running = new.queue.running
       /\ q'.starts = new.queue.starts /\ QueueOK(q', urg)
  <2>1. new.queue \in QueueState /\ QueueOK(new.queue, urg)
    BY <1>9 DEF Pumped, QueueOK
  <2>2. Watched(new.queue.pending) \in BOOLEAN
    BY <1>2 DEF Watched, QueueState
  <2>3. /\ q' \in QueueState /\ q'.pending = new.queue.pending
        /\ q'.running = new.queue.running /\ q'.sorted = new.queue.sorted
        /\ q'.starts = new.queue.starts
    BY <1>1, <2>1, <2>2 DEF QueueState
  <2> QED BY <2>1, <2>3, SameQueue
<1>11. /\ wait \in SUBSET Callers /\ run \in SUBSET Callers /\ wait \cap run = {}
       /\ wait \cup run = Items(q) \cup {c}
  BY <1>5 DEF Items
<1>12. /\ rows \in [Callers -> Caller] /\ fls \in [Keys -> 0..MaxCallers]
       /\ Keyed(rows, fls, wait \cup run)
  <2> DEFINE items == Items(q)
  <2>1. /\ items \in SUBSET Callers /\ Keyed(caller, inFlight, items)
        /\ c \notin items /\ wait \cup run = items \cup {c}
    BY <1>2, <1>4, <1>11
  <2> HIDE DEF items
  <2>2. /\ rows \in [Callers -> Caller] /\ fls \in [Keys -> 0..MaxCallers]
        /\ Keyed(rows, fls, items \cup {c})
    BY <1>1, <1>2, <2>1, KeyedWithNew
  <2> HIDE DEF rows, fls, wait, run
  <2> QED BY <2>1, <2>2
<1>13. /\ done \in SUBSET wait /\ c \notin done
       /\ \A i \in done : i # c /\ i \in Callers /\ Dead(i)
  BY <1>4, <1>6, <1>7, <1>9, <1>11 DEF Pumped
<1>14. \A i \in done : rows[i].late \/ rows[i].gone
  BY <1>2, <1>13 DEF Dead
<1>15. caller' = Settled(rows, done, "refused")
  <2>1. Waiting(k, c).item = c
    BY DEF Waiting
  <2> QED BY <1>1, <1>2, <1>13, <2>1 DEF Settled
<1>16. inFlight' = Without(fls, done)
  BY <1>1, <1>2, <1>13 DEF Without
<1>17. /\ run \subseteq q'.running
       /\ Range(q'.pending) \cup q'.running \cup done = wait \cup run
       /\ done \cap (Range(q'.pending) \cup q'.running) = {}
       /\ \A i \in q'.running \ run, j \in Range(q'.pending) : urg[i] >= urg[j]
  BY <1>6, <1>7, <1>9, <1>10 DEF Pumped
<1>18. /\ paused' => q'.running = run
       /\ q'.starts = q.starts + Cardinality(q'.running \ run)
  BY <1>1, <1>7, <1>9, <1>10 DEF Counted
<1>19. AskersOf(rows) = [Asked EXCEPT ![c] = Desk!Here(k, FALSE)]
  <2>1. Waiting(k, c) \in Caller
    <3>1. c \in 0..MaxCallers
      BY <1>1, Newcomer
    <3> QED BY <3>1 DEF Waiting, Caller
  <2> DEFINE row == Waiting(k, c)
  <2>2. /\ row \in Caller /\ row.at = "waiting" /\ row.key = k
        /\ (row.late \/ row.gone) = FALSE
    BY <2>1 DEF Waiting
  <2> HIDE DEF row
  <2>3. AskersOf([caller EXCEPT ![c] = row])
          = [AskersOf(caller) EXCEPT ![c] = [at |-> row.at, key |-> row.key, over |-> FALSE]]
    BY <1>2, <2>2 DEF AskersOf
  <2>4. AskersOf(rows) = AskersOf([caller EXCEPT ![c] = row])
    BY DEF row
  <2> HIDE DEF rows
  <2> QED BY <2>2, <2>3, <2>4 DEF Asked, Desk!Here
<1>20. k \notin DOMAIN InLine \cup Sent \cup cached
  BY <1>1, <1>5, DeskState DEF Sent, KeysOf, Items, Callers, None
<1>21. LineOf(rows, fls, urg, wait)
         = [j \in DOMAIN InLine \cup {k} |-> IF j = k THEN p ELSE InLine[j]]
  <2>1. rows[c].key = k /\ \A i \in Range(q.pending) : rows[i] = caller[i]
    BY <1>2, <1>5 DEF Waiting
  <2>2. KeysOf(rows, wait) = KeysOf(caller, Range(q.pending)) \cup {k}
    BY <2>1 DEF KeysOf
  <2>3. DOMAIN InLine = KeysOf(caller, Range(q.pending))
    BY DeskState
  <2>4. fls[k] = c /\ urg[fls[k]] = p
    BY <1>2, <1>3
  <2>5. ASSUME NEW j \in DOMAIN InLine PROVE j # k /\ urg[fls[j]] = InLine[j]
    <3>1. PICK i \in Range(q.pending) : j = caller[i].key
      BY <2>3, <2>5 DEF KeysOf
    <3>2. j # k /\ j \in Keys /\ inFlight[j] = i /\ InLine[j] = urgency[i]
      BY <1>20, <3>1, <2>5, DeskState DEF Items
    <3> QED BY <1>2, <1>3, <1>5, <3>2
  <2>6. DOMAIN InLine \cup {k} = KeysOf(rows, wait)
    BY <2>2, <2>3
  <2> HIDE DEF rows, wait, fls
  <2>7. \A j \in KeysOf(rows, wait) :
          urg[fls[j]] = (IF j = k THEN p ELSE InLine[j])
    BY <2>4, <2>5, <2>6
  <2> QED BY <2>6, <2>7 DEF LineOf
<1>22. KeysOf(rows, run) = Sent
  <2>1. \A i \in run : rows[i] = caller[i]
    BY <1>2, <1>5
  <2> QED BY <2>1 DEF KeysOf, Sent
<1>23. Cardinality(DOMAIN InLine) < MaxPending
  <2>1. Range(q.pending) \in SUBSET Items(q)
    BY DEF Items
  <2>2. Cardinality(KeysOf(caller, Range(q.pending))) = Cardinality(Range(q.pending))
    BY <1>2, <2>1, AsManyKeys
  <2>3. Cardinality(Range(q.pending)) = Len(q.pending)
    BY <1>2, RangeSize DEF QueueOK
  <2> QED BY <1>1, <2>2, <2>3, DeskState
<1>24. Asked[c].at = "none"
  BY <1>4, IdleType DEF Asked, AskersOf
<1> HIDE DEF rows, fls, wait, run, done
<1>25. Desk!Work(AskersOf(rows), LineOf(rows, fls, urg, wait), KeysOf(rows, run))
  BY <1>1, <1>3, <1>10, <1>11, <1>12, <1>13, <1>14, <1>15, <1>16, <1>17, <1>18,
     PumpIsWork
<1>26. Desk!Work([Asked EXCEPT ![c] = Desk!Here(k, FALSE)],
                 [j \in DOMAIN InLine \cup {k} |-> IF j = k THEN p ELSE InLine[j]], Sent)
  BY <1>19, <1>21, <1>22, <1>25
<1> QED BY <1>1, <1>20, <1>23, <1>24, <1>26, SameCount
      DEF Desk!Enter, Desk!New, Asked, InLine, Sent

\* Somebody whose key is known already joins, and lends the urgency.
LEMMA ShareIsJoin ==
  ASSUME QueueInv, NEW c \in Callers, NEW k \in Keys, NEW p \in Priorities,
         Share(c, k, p)
  PROVE  Desk!Join(c, k, p)
<1> DEFINE i   == inFlight[k]
           row == Waiting(k, i)
<1>1. /\ c = came + 1 /\ cached' = cached /\ paused' = paused /\ k \notin cached
      /\ i # None /\ inFlight' = inFlight /\ caller' = [caller EXCEPT ![c] = row]
      /\ IF i \notin q.running /\ p > urgency[i]
         THEN /\ urgency' = [urgency EXCEPT ![i] = p]
              /\ q' = [q EXCEPT !.sorted = SortedAfterUpgrade(i)]
         ELSE urgency' = urgency /\ q' = q
  BY DEF Share, Asks
<1>2. /\ caller \in [Callers -> Caller] /\ inFlight \in [Keys -> 0..MaxCallers]
      /\ urgency \in [Callers -> Nat] /\ q \in QueueState
      /\ Keyed(caller, inFlight, Items(q)) /\ Items(q) \in SUBSET Callers
  BY QueueTypes
<1>3. c \notin Items(q) /\ caller[c] = Idle("none")
  BY <1>1, Newcomer
<1>4. i \in Items(q) /\ caller[i].key = k
  BY <1>1, <1>2 DEF Keyed
<1>5. q'.pending = q.pending /\ q'.running = q.running /\ q'.starts = q.starts
  BY <1>1, <1>2 DEF QueueState
<1>6. \A j \in Items(q) : caller'[j] = caller[j]
  BY <1>1, <1>2, <1>3
<1>7. /\ row \in Caller /\ row.at = "waiting" /\ row.key = k
      /\ (row.late \/ row.gone) = FALSE
  BY <1>2 DEF Waiting, Caller
<1> HIDE DEF row
<1>8. AskersOf(caller)' = [Asked EXCEPT ![c] = Desk!Here(k, FALSE)]
  <2>1. AskersOf([caller EXCEPT ![c] = row])
          = [AskersOf(caller) EXCEPT ![c] = [at |-> row.at, key |-> row.key, over |-> FALSE]]
    BY <1>2, <1>7 DEF AskersOf
  <2>2. AskersOf(caller)' = AskersOf([caller EXCEPT ![c] = row])
    BY <1>1 DEF AskersOf
  <2> QED BY <1>7, <2>1, <2>2 DEF Asked, Desk!Here
<1>9. KeysOf(caller, q.running)' = Sent
  BY <1>5, <1>6 DEF KeysOf, Sent, Items
<1>10. KeysOf(caller', Range(q'.pending)) = DOMAIN InLine
  <2>1. DOMAIN InLine = KeysOf(caller, Range(q.pending))
    BY DeskState
  <2> QED BY <1>5, <1>6, <2>1 DEF KeysOf, Items
<1>11. ASSUME NEW j \in DOMAIN InLine
       PROVE  urgency'[inFlight[j]]
                = IF j = k /\ p > InLine[j] THEN p ELSE InLine[j]
  <2>1. PICK m \in Range(q.pending) : j = caller[m].key
    BY <1>11, DeskState DEF KeysOf
  <2>2. /\ inFlight[j] = m /\ InLine[j] = urgency[m] /\ m \in Items(q) /\ m \in Callers
        /\ m \notin q.running
    BY <1>2, <2>1, DeskState DEF Items
  <2>3. m = i <=> j = k
    BY <1>4, <2>1, <2>2
  <2> HIDE DEF i
  <2> QED BY <1>1, <1>2, <2>2, <2>3
<1>12. LineOf(caller, inFlight, urgency, Range(q.pending))'
         = [j \in DOMAIN InLine |-> IF j = k /\ p > InLine[j] THEN p ELSE InLine[j]]
  <2>1. LineOf(caller, inFlight, urgency, Range(q.pending))'
          = [j \in KeysOf(caller', Range(q'.pending)) |-> urgency'[inFlight'[j]]]
    BY DEF LineOf, KeysOf, Range
  <2> QED BY <1>1, <1>10, <1>11, <2>1
<1>13. k \in DOMAIN InLine \cup Sent
  BY <1>4, DeskState DEF KeysOf, Sent, Items
<1>14. Asked[c].at = "none"
  BY <1>3, IdleType DEF Asked, AskersOf
<1> QED BY <1>1, <1>5, <1>8, <1>9, <1>12, <1>13, <1>14
      DEF Desk!Join, Desk!New, Asked, InLine, Sent

\* An answer at once.
LEMMA AtOnceIsTurn ==
  ASSUME QueueInv, NEW c \in Callers, NEW k \in Keys, AtOnce(c, k)
  PROVE  Desk!Turn(c)
<1>1. /\ c = came + 1 /\ cached' = cached /\ paused' = paused
      /\ urgency' = urgency /\ q' = q /\ inFlight' = inFlight
  BY DEF AtOnce, Asks
<1>2. PICK at \in {"refused"} \cup (IF k \in cached THEN {"answered"} ELSE {}) :
        caller' = [caller EXCEPT ![c] = Idle(at)]
  BY DEF AtOnce
<1>3. caller \in [Callers -> Caller] /\ Items(q) \in SUBSET Callers
  BY QueueTypes
<1>4. c \notin Items(q) /\ caller[c] = Idle("none")
  BY <1>1, Newcomer
<1>5. \A j \in Items(q) : caller'[j] = caller[j]
  BY <1>2, <1>3, <1>4
<1>6. at \in {"refused"} \cup (IF cached = {} THEN {} ELSE {"answered"})
  BY <1>2
<1>7. AskersOf(caller)' = [Asked EXCEPT ![c] = Desk!Away(at)]
  <2> DEFINE row == Idle(at)
  <2>1. /\ row.at = at /\ row.key = (CHOOSE j \in Keys : TRUE)
        /\ (row.late \/ row.gone) = FALSE
    BY DEF Idle
  <2> HIDE DEF row
  <2>2. AskersOf([caller EXCEPT ![c] = row])
          = [AskersOf(caller) EXCEPT ![c] = [at |-> row.at, key |-> row.key, over |-> FALSE]]
    BY <1>3, <2>1 DEF AskersOf
  <2>3. AskersOf(caller)' = AskersOf([caller EXCEPT ![c] = row])
    BY <1>2 DEF AskersOf, row
  <2> QED BY <2>1, <2>2, <2>3 DEF Asked, Desk!Away
<1>8. KeysOf(caller, q.running)' = Sent
  BY <1>1, <1>5 DEF KeysOf, Sent, Items
<1>9. LineOf(caller, inFlight, urgency, Range(q.pending))' = InLine
  BY <1>1, <1>5 DEF LineOf, KeysOf, InLine, Items, Range
<1>10. Asked[c].at = "none"
  BY <1>4, IdleType DEF Asked, AskersOf
<1> QED BY <1>1, <1>6, <1>7, <1>8, <1>9, <1>10
      DEF Desk!Turn, Desk!New, Asked, InLine, Sent

\* Time or authority is over, and somebody leaves.
LEMMA RowIsOver ==
  ASSUME QueueInv, NEW c \in Callers, Leave(c) \/ Late(c) \/ Gone(c)
  PROVE  Desk!Leave(c) \/ Desk!Over(c)
<1>1. /\ urgency' = urgency /\ q' = q /\ inFlight' = inFlight
      /\ cached' = cached /\ paused' = paused /\ caller[c].at = "waiting"
  BY DEF Leave, Late, Gone
<1>2. /\ caller \in [Callers -> Caller] /\ Keyed(caller, inFlight, Items(q))
      /\ Items(q) \in SUBSET Callers
  BY QueueTypes
<1>3. Asked[c].at = "waiting" /\ (Asked[c].over <=> caller[c].late \/ caller[c].gone)
  BY <1>1, <1>2 DEF Asked, AskersOf
<1>4. ASSUME \A j \in Items(q) : caller'[j].key = caller[j].key
      PROVE  /\ KeysOf(caller, q.running)' = Sent
             /\ LineOf(caller, inFlight, urgency, Range(q.pending))' = InLine
  BY <1>1, <1>4 DEF LineOf, KeysOf, InLine, Sent, Items, Range
<1>5. CASE Leave(c)
  <2> DEFINE row == Idle("refused")
  <2>1. caller' = [caller EXCEPT ![c] = row] /\ (caller[c].late \/ caller[c].gone)
    BY <1>5 DEF Leave
  <2>2. c \notin Items(q)
    BY <1>2, <1>5 DEF Leave, Keyed
  <2>3. \A j \in Items(q) : caller'[j].key = caller[j].key
    BY <1>2, <2>1, <2>2
  <2>4. /\ row.at = "refused" /\ row.key = (CHOOSE j \in Keys : TRUE)
        /\ (row.late \/ row.gone) = FALSE
    BY DEF Idle
  <2> HIDE DEF row
  <2>5. AskersOf([caller EXCEPT ![c] = row])
          = [AskersOf(caller) EXCEPT ![c] = [at |-> row.at, key |-> row.key, over |-> FALSE]]
    BY <1>2, <2>4 DEF AskersOf
  <2>6. AskersOf(caller)' = AskersOf([caller EXCEPT ![c] = row])
    BY <2>1 DEF AskersOf
  <2>7. AskersOf(caller)' = [Asked EXCEPT ![c] = Desk!Away("refused")]
    BY <2>4, <2>5, <2>6 DEF Asked, Desk!Away
  <2> QED BY <1>1, <1>3, <1>4, <2>1, <2>3, <2>7 DEF Desk!Leave, Asked, InLine, Sent
<1>6. CASE Late(c) \/ Gone(c)
  <2>1. PICK row \in Caller :
          /\ caller' = [caller EXCEPT ![c] = row]
          /\ row.at = caller[c].at /\ row.key = caller[c].key
          /\ (row.late \/ row.gone) = TRUE
    <3>1. CASE Late(c)
      <4> DEFINE new == [caller[c] EXCEPT !.late = TRUE]
      <4>1. caller' = [caller EXCEPT ![c] = new]
        BY <3>1 DEF Late
      <4>2. /\ new \in Caller /\ new.at = caller[c].at /\ new.key = caller[c].key
            /\ (new.late \/ new.gone) = TRUE
        BY <1>2 DEF Caller
      <4> HIDE DEF new
      <4> QED BY <4>1, <4>2
    <3>2. CASE Gone(c)
      <4> DEFINE new == [caller[c] EXCEPT !.gone = TRUE]
      <4>1. caller' = [caller EXCEPT ![c] = new]
        BY <3>2 DEF Gone
      <4>2. /\ new \in Caller /\ new.at = caller[c].at /\ new.key = caller[c].key
            /\ (new.late \/ new.gone) = TRUE
        BY <1>2 DEF Caller
      <4> HIDE DEF new
      <4> QED BY <4>1, <4>2
    <3> QED BY <1>6, <3>1, <3>2
  <2>2. \A j \in Items(q) : caller'[j].key = caller[j].key
    BY <1>2, <2>1
  <2>3. AskersOf([caller EXCEPT ![c] = row])
          = [AskersOf(caller) EXCEPT ![c] = [at |-> row.at, key |-> row.key, over |-> TRUE]]
    BY <1>2, <2>1 DEF AskersOf
  <2>4. AskersOf(caller)' = AskersOf([caller EXCEPT ![c] = row])
    BY <2>1 DEF AskersOf
  <2>5. Asked[c].key = row.key /\ row.at = "waiting"
    BY <1>1, <1>2, <2>1 DEF Asked, AskersOf
  <2>6. AskersOf(caller)' = [Asked EXCEPT ![c] = Desk!Here(Asked[c].key, TRUE)]
    BY <2>3, <2>4, <2>5 DEF Asked, Desk!Here
  <2> QED BY <1>1, <1>3, <1>4, <2>2, <2>6 DEF Desk!Over, Asked, InLine, Sent
<1> QED BY <1>5, <1>6

\* The provider pauses, a second passes, an answer is forgotten.
LEMMA WorldIsDesk ==
  /\ QueueInv /\ Pause => Desk!Pause
  /\ QueueInv /\ SecondPasses => Desk!Tick
  /\ QueueInv => \A k \in Keys : Forget(k) => Desk!Forget(k)
<1>1. ASSUME QueueInv, caller' = caller, inFlight' = inFlight, urgency' = urgency,
             q'.pending = q.pending, q'.running = q.running
      PROVE  /\ AskersOf(caller)' = Asked /\ KeysOf(caller, q.running)' = Sent
             /\ LineOf(caller, inFlight, urgency, Range(q.pending))' = InLine
  BY <1>1 DEF AskersOf, LineOf, KeysOf, Asked, InLine, Sent, Range
<1>2. ASSUME QueueInv, Pause PROVE Desk!Pause
  <2>1. q \in QueueState
    BY <1>2, QueueTypes
  <2>2. q'.pending = q.pending /\ q'.running = q.running /\ q'.starts = q.starts
    BY <1>2, <2>1 DEF Pause, QueueState
  <2> QED BY <1>1, <1>2, <2>2 DEF Pause, Desk!Pause, Asked, InLine, Sent
<1>3. ASSUME QueueInv, SecondPasses PROVE Desk!Tick
  <2>1. q \in QueueState
    BY <1>3, QueueTypes
  <2>2. q'.pending = q.pending /\ q'.running = q.running /\ q'.starts = q.starts - 1
    BY <1>3, <2>1 DEF SecondPasses, QueueState
  <2> QED BY <1>1, <1>3, <2>2 DEF SecondPasses, Desk!Tick, Asked, InLine, Sent
<1>4. ASSUME QueueInv, NEW k \in Keys, Forget(k) PROVE Desk!Forget(k)
  BY <1>1, <1>4 DEF Forget, Desk!Forget, Asked, InLine, Sent
<1> QED BY <1>2, <1>3, <1>4

\* At the beginning nobody has asked,
LEMMA DeskInit == Init => Desk!Init
<1> SUFFICES ASSUME Init PROVE Desk!Init
  OBVIOUS
<1>1. Range(q.pending) = {} /\ q.running = {} /\ q.starts = 0
  BY DEF Init, Range
<1>2. AskersOf(caller) = [c \in Callers |-> Desk!Away("none")]
  <2>1. \A c \in Callers : caller[c] = Idle("none")
    BY DEF Init
  <2>2. /\ Idle("none").at = "none" /\ Idle("none").key = (CHOOSE k \in Keys : TRUE)
        /\ (Idle("none").late \/ Idle("none").gone) = FALSE
    BY DEF Idle
  <2> HIDE DEF Idle
  <2>3. \A c \in Callers :
          [at |-> caller[c].at, key |-> caller[c].key, over |-> caller[c].late \/ caller[c].gone]
            = Desk!Away("none")
    BY <2>1, <2>2 DEF Desk!Away
  <2> QED BY <2>3 DEF AskersOf
<1>3. KeysOf(caller, q.running) = {} /\ KeysOf(caller, Range(q.pending)) = {}
  BY <1>1 DEF KeysOf
<1>4. LineOf(caller, inFlight, urgency, Range(q.pending)) = [k \in {} |-> 0]
  BY <1>3 DEF LineOf
<1> QED BY <1>1, <1>2, <1>3, <1>4 DEF Init, Desk!Init

\* and every step of the queue is a step of the desk, or nothing the desk sees.
LEMMA DeskStep == QueueInv /\ [Next]_vars => [Desk!Next]_(Desk!deskVars)
<1> SUFFICES ASSUME QueueInv, [Next]_vars PROVE [Desk!Next]_(Desk!deskVars)
  OBVIOUS
<1>1. ASSUME Request PROVE Desk!Next
  BY <1>1, AtOnceIsTurn, ShareIsJoin, EnqueueIsEnter DEF Request, Desk!Next
<1>2. ASSUME NEW c \in Callers, Finish(c) \/ Leave(c) \/ Late(c) \/ Gone(c)
      PROVE  Desk!Next
  <2>1. caller[c].key \in Keys
    BY QueueTypes DEF Caller
  <2> QED BY <1>2, <2>1, FinishIsHear, RowIsOver DEF Desk!Next
<1>3. ASSUME Sweep \/ Wake \/ Resume \/ PauseEnds PROVE Desk!Next
  BY <1>3, SweepIsGo, WakeIsGo, ResumeIsLift DEF Desk!Next
<1>4. ASSUME Pause \/ SecondPasses \/ \E k \in Keys : Forget(k) PROVE Desk!Next
  BY <1>4, WorldIsDesk DEF Desk!Next
<1>5. CASE UNCHANGED vars
  BY <1>5 DEF vars, Desk!deskVars, AskersOf, KeysOf, LineOf, Range
<1> QED BY <1>1, <1>2, <1>3, <1>4, <1>5 DEF Next

\* The queue with its items, its order and its timers is as good as a desk that knows
\* only keys: equal keys share one answer, the most urgent goes first within the ceiling,
\* the rate and the pauses, and nothing is dropped that all who wait may still wait for
\* (ImplementsFrontDesk).
THEOREM ImplementsFrontDeskCorrect == Spec => ImplementsFrontDesk
  BY DeskInit, DeskStep, QueueInit, QueueNext, PTL DEF Spec, ImplementsFrontDesk, Desk!Spec

-----------------------------------------------------------------------------
(* The lease: one node, for any fleet, any TTL and any difference of the   *)
(* clocks below it.                                                        *)

\* A node that may rely on what it was told holds the row, and what is left of the
\* lease is what its silence has left of it: more than any clock can make up for.
Leased(n) == holder = n /\ left = TTL + skew[n] - silent[n]

LeaseInv ==
  /\ LeaseTypeOK
  /\ \A n \in Nodes :
       /\ Sure(n) => Leased(n)
       /\ producing[n] /\ ~lapsed[n] => Sure(n)
       /\ ~up[n] => silent[n] = TTL

USE LeaseAssumption

\* The types hold from the start (LeaseInit) ...
LEMMA InitLease == LeaseInit => LeaseInv
  BY DEF LeaseInit, LeaseInv, LeaseTypeOK, Sure

\* ... and what a node writes when it renews or boots has them.
LEMMA AcquireTypes ==
  ASSUME LeaseTypeOK, NEW n \in Nodes, Acquire(n)
  PROVE  /\ holder' \in Nodes \cup {Nobody} /\ left' \in Nat
         /\ primary' \in [Nodes -> BOOLEAN] /\ silent' \in [Nodes -> 0..TTL]
<1>1. skew[n] \in Nat /\ left \in Nat
  BY DEF LeaseTypeOK
<1>2. holder' \in Nodes \cup {Nobody} /\ left' \in Nat
  BY <1>1 DEF LeaseTypeOK, Acquire
<1>3. (Free(n) \/ holder = n) \in BOOLEAN
  BY DEF Free
<1>4. primary' \in [Nodes -> BOOLEAN]
  BY <1>3 DEF LeaseTypeOK, Acquire
<1>5. 0 \in 0..TTL
  OBVIOUS
<1>6. silent' \in [Nodes -> 0..TTL]
  BY <1>5 DEF LeaseTypeOK, Acquire
<1> QED
  BY <1>2, <1>4, <1>6

\* A node that asks takes the row from nobody who is sure, and is sure itself only
\* if it got it (tryAcquirePrimaryOn).
LEMMA AcquireSafe ==
  ASSUME LeaseInv, skew' = skew, NEW n \in Nodes, Acquire(n)
  PROVE  \A m \in Nodes : Sure(m)' => Leased(m)'
<1> SUFFICES ASSUME NEW m \in Nodes, Sure(m)' PROVE Leased(m)'
  OBVIOUS
<1> USE DEF LeaseInv, LeaseTypeOK, Sure, Leased, Acquire
<1>1. CASE m = n
  <2>1. Free(n) \/ holder = n
    BY <1>1 DEF Free
  <2>2. holder' = n /\ left' = TTL + skew[n] /\ silent'[n] = 0 /\ skew[n] \in Nat
    BY <2>1
  <2> QED
    BY <2>2, <1>1
<1>2. CASE m # n
  <2>1. Sure(m) /\ Leased(m)
    BY <1>2
  <2>2. left > skew[n] /\ holder # n /\ holder # Nobody
    BY <2>1, <1>2
  <2>3. ~Free(n)
    BY <2>2 DEF Free
  <2> QED
    BY <2>1, <2>2, <2>3, <1>2
<1> QED
  BY <1>1, <1>2

LEMMA NextLease == LeaseInv /\ [LeaseNext]_leaseVars => LeaseInv'
<1> SUFFICES ASSUME LeaseInv, [LeaseNext]_leaseVars PROVE LeaseInv'
  OBVIOUS
<1>1. CASE Tick
  <2> USE DEF LeaseInv, LeaseTypeOK, Tick
  <2>1. LeaseTypeOK'
    BY <1>1
  <2>2. \A n \in Nodes : Sure(n)' => Sure(n) /\ silent'[n] = silent[n] + 1
    BY <1>1 DEF Sure
  <2>3. \A n \in Nodes : Sure(n)' => Leased(n)'
    <3> SUFFICES ASSUME NEW n \in Nodes, Sure(n)' PROVE Leased(n)'
      OBVIOUS
    <3>1. Leased(n) /\ silent'[n] = silent[n] + 1 /\ silent[n] < TTL
      BY <2>2 DEF Sure
    <3>2. silent[n] \in Nat /\ skew[n] \in Nat /\ left > 0
      BY <3>1 DEF Leased
    <3> QED
      BY <1>1, <3>1, <3>2 DEF Leased
  <2>4. \A n \in Nodes : (producing[n] /\ ~lapsed[n])' => Sure(n)'
    BY <1>1 DEF Sure
  <2>5. \A n \in Nodes : ~up'[n] => silent'[n] = TTL
    BY <1>1
  <2> QED
    BY <2>1, <2>3, <2>4, <2>5
<1>2. ASSUME NEW n \in Nodes, Boot(n) PROVE LeaseInv'
  <2>1. LeaseTypeOK'
    BY <1>2, AcquireTypes DEF LeaseInv, LeaseTypeOK, Boot
  <2>2. \A m \in Nodes : Sure(m)' => Leased(m)'
    BY <1>2, AcquireSafe DEF Boot
  <2>3. \A m \in Nodes : (producing[m] /\ ~lapsed[m])' => Sure(m)'
    <3> SUFFICES ASSUME NEW m \in Nodes, (producing[m] /\ ~lapsed[m])' PROVE Sure(m)'
      OBVIOUS
    <3>1. CASE m = n
      BY <1>2, <3>1 DEF Boot, Acquire, LeaseInv, LeaseTypeOK, Sure
    <3>2. CASE m # n
      BY <1>2, <3>2 DEF Boot, Acquire, LeaseInv, LeaseTypeOK, Sure
    <3> QED
      BY <3>1, <3>2
  <2>4. \A m \in Nodes : ~up'[m] => silent'[m] = TTL
    BY <1>2 DEF Boot, Acquire, LeaseInv, LeaseTypeOK
  <2> QED
    BY <2>1, <2>2, <2>3, <2>4 DEF LeaseInv
<1>3. ASSUME NEW n \in Nodes, BootBlind(n) PROVE LeaseInv'
  <2> USE DEF LeaseInv, LeaseTypeOK, BootBlind
  <2>1. LeaseTypeOK'
    BY <1>3
  <2>2. silent'[n] = TTL /\ MaxSkew >= 0
    BY <1>3
  <2>3. \A m \in Nodes : Sure(m)' => m # n /\ Sure(m)
    BY <1>3, <2>2 DEF Sure
  <2>4. \A m \in Nodes : Sure(m)' => Leased(m)'
    BY <1>3, <2>3 DEF Leased
  <2>5. \A m \in Nodes : (producing[m] /\ ~lapsed[m])' => m # n
    BY <1>3
  <2>6. \A m \in Nodes : (producing[m] /\ ~lapsed[m])' => Sure(m)'
    BY <1>3, <2>5 DEF Sure
  <2>7. \A m \in Nodes : ~up'[m] => silent'[m] = TTL
    BY <1>3
  <2> QED
    BY <2>1, <2>4, <2>6, <2>7
<1>4. ASSUME NEW n \in Nodes, Renew(n) PROVE LeaseInv'
  <2>1. LeaseTypeOK'
    BY <1>4, AcquireTypes DEF LeaseInv, LeaseTypeOK, Renew
  <2>2. \A m \in Nodes : Sure(m)' => Leased(m)'
    BY <1>4, AcquireSafe DEF Renew
  <2>3. \A m \in Nodes : (producing[m] /\ ~lapsed[m])' => Sure(m)'
    BY <1>4 DEF Renew, Acquire, LeaseInv, LeaseTypeOK, Sure, Leased
  <2>4. \A m \in Nodes : ~up'[m] => silent'[m] = TTL
    BY <1>4 DEF Renew, Acquire, LeaseInv, LeaseTypeOK
  <2> QED
    BY <2>1, <2>2, <2>3, <2>4 DEF LeaseInv
<1>5. ASSUME NEW n \in Nodes, Stop(n) PROVE LeaseInv'
  BY <1>5 DEF LeaseInv, LeaseTypeOK, Stop, Sure, Leased
<1>6. CASE UNCHANGED leaseVars
  BY <1>6 DEF LeaseInv, LeaseTypeOK, Sure, Leased, leaseVars
<1> QED
  BY <1>1, <1>2, <1>3, <1>4, <1>5, <1>6 DEF LeaseNext

\* The row and what each node knows of it keep their types.
THEOREM LeaseTypeCorrect == LeaseSpec => []LeaseTypeOK
<1>1. LeaseInv => LeaseTypeOK
  BY DEF LeaseInv
<1> QED
  BY <1>1, InitLease, NextLease, PTL DEF LeaseSpec

\* Of the nodes that have heard from the database lately enough one at most thinks it
\* is primary, and of those that always have one at most produces
\* (tryAcquirePrimaryOn, startPrimaryElection), for any number of nodes whose clocks
\* differ by less than the lease.
THEOREM OnePrimaryCorrect == LeaseSpec => []OnePrimary
<1>1. LeaseInv => OnePrimary
  BY DEF LeaseInv, OnePrimary, Leased
<1> QED
  BY <1>1, InitLease, NextLease, PTL DEF LeaseSpec
=============================================================================
