---------------------------- MODULE DigestProofs ----------------------------
(***************************************************************************)
(* Module Digest for batches of any length and any number of accounts and  *)
(* labels.                                                                 *)
(*                                                                         *)
(* Three things are shown of the operators first: a relation that orders   *)
(* finitely many places arranges them (Arrangement), so that filters and   *)
(* sorts do what they say; a sum over a finite set is whatever satisfies   *)
(* its equations (SumIs), so that counts by class add up to the whole      *)
(* (CountsByClass); and entries tell messages apart.                       *)
(***************************************************************************)
EXTENDS Digest, FiniteSetTheorems, SequenceTheorems, TLAPS

-----------------------------------------------------------------------------
(* Arranging finitely many places *)

Orders(R, S) ==
  /\ \A x \in S : <<x, x>> \notin R
  /\ \A x, y, z \in S : <<x, y>> \in R /\ <<y, z>> \in R => <<x, z>> \in R
  /\ \A x, y \in S : x = y \/ <<x, y>> \in R \/ <<y, x>> \in R

\* o lists the elements of S, each once, in the order of R.
Lists(o, S, R) ==
  /\ o \in [1..Cardinality(S) -> S]
  /\ \A x \in S : \E i \in 1..Cardinality(S) : o[i] = x
  /\ \A i, j \in 1..Cardinality(S) : o[i] = o[j] => i = j
  /\ \A i, j \in 1..Cardinality(S) : i < j => <<o[i], o[j]>> \in R

ByRank(S, R) ==
  [i \in 1..Cardinality(S) |->
     CHOOSE p \in S : Cardinality({q \in S : <<q, p>> \in R}) = i - 1]

\* Each place has a rank of its own, and every rank is taken.
LEMMA Ranks ==
  ASSUME NEW S, IsFiniteSet(S), NEW R, Orders(R, S)
  PROVE  Lists(ByRank(S, R), S, R)
<1>. DEFINE n == Cardinality(S)
            below(p) == {q \in S : <<q, p>> \in R}
            rank == [p \in S |-> Cardinality(below(p)) + 1]
            o == [i \in 1..n |-> CHOOSE p \in S : Cardinality(below(p)) = i - 1]
<1>1. n \in Nat BY FS_CardinalityType
<1>2. \A p \in S : IsFiniteSet(below(p)) /\ Cardinality(below(p)) \in Nat
  <2> SUFFICES ASSUME NEW p \in S
               PROVE  IsFiniteSet(below(p)) /\ Cardinality(below(p)) \in Nat
    OBVIOUS
  <2>1. below(p) \in SUBSET S OBVIOUS
  <2>. HIDE DEF below
  <2> QED BY <2>1, FS_Subset, FS_CardinalityType
<1>3. rank \in [S -> 1..n]
  <2> SUFFICES ASSUME NEW p \in S PROVE Cardinality(below(p)) + 1 \in 1..n
    OBVIOUS
  <2>1. below(p) \in SUBSET (S \ {p}) BY DEF Orders
  <2>2. IsFiniteSet(S \ {p}) /\ Cardinality(S \ {p}) = n - 1 BY FS_RemoveElement
  <2>. HIDE DEF below
  <2>3. Cardinality(below(p)) <= n - 1 BY <2>1, <2>2, FS_Subset
  <2> QED BY <1>1, <1>2, <2>3
<1>4. \A x, y \in S : <<x, y>> \in R => rank[x] < rank[y]
  <2> SUFFICES ASSUME NEW x \in S, NEW y \in S, <<x, y>> \in R
               PROVE  rank[x] < rank[y]
    OBVIOUS
  <2>1. below(x) \in SUBSET (below(y) \ {x}) /\ x \in below(y) BY DEF Orders
  <2>2. IsFiniteSet(below(y) \ {x}) /\ Cardinality(below(y) \ {x}) = Cardinality(below(y)) - 1
    <3>. HIDE DEF below
    <3> QED BY <1>2, <2>1, FS_RemoveElement
  <2>3. Cardinality(below(x)) <= Cardinality(below(y)) - 1
    <3>. HIDE DEF below
    <3> QED BY <2>1, <2>2, FS_Subset
  <2>4. rank[x] = Cardinality(below(x)) + 1 /\ rank[y] = Cardinality(below(y)) + 1
    OBVIOUS
  <2>. HIDE DEF below, rank
  <2> QED BY <1>2, <2>3, <2>4
<1>. HIDE DEF rank, below
<1>5. \A x, y \in S : rank[x] = rank[y] => x = y
  <2> SUFFICES ASSUME NEW x \in S, NEW y \in S, rank[x] = rank[y], x # y PROVE FALSE
    OBVIOUS
  <2>1. rank[x] < rank[y] \/ rank[y] < rank[x] BY <1>4 DEF Orders
  <2>2. rank[x] \in Int /\ rank[y] \in Int BY <1>3
  <2> QED BY <2>1, <2>2
<1>6. \A i \in 1..n : \E p \in S : rank[p] = i
  <2>1. rank \in Injection(S, 1..n) BY <1>3, <1>5 DEF Injection, IsInjective
  <2>2. IsFiniteSet(1..n) /\ Cardinality(1..n) = n BY <1>1, FS_Interval
  <2>. HIDE DEF n
  <2>3. Cardinality(S) = Cardinality(1..n) => rank \in Surjection(S, 1..n)
    BY <2>1, <2>2, FS_Injection
  <2> QED BY <2>2, <2>3 DEF Surjection, n
<1>7. \A i \in 1..n : o[i] \in S /\ rank[o[i]] = i
  <2> SUFFICES ASSUME NEW i \in 1..n PROVE o[i] \in S /\ rank[o[i]] = i
    OBVIOUS
  <2>1. PICK p \in S : rank[p] = i BY <1>6
  <2>2. Cardinality(below(p)) = i - 1 BY <1>1, <1>2, <2>1 DEF rank
  <2>3. o[i] \in S /\ Cardinality(below(o[i])) = i - 1 BY <2>2
  <2> QED BY <1>1, <2>3 DEF rank
<1>8. o \in [1..n -> S] BY <1>7
<1>. HIDE DEF o
<1>9. \A x \in S : \E i \in 1..n : o[i] = x
  <2> SUFFICES ASSUME NEW x \in S PROVE o[rank[x]] = x /\ rank[x] \in 1..n
    OBVIOUS
  <2>1. rank[x] \in 1..n BY <1>3
  <2> QED BY <1>5, <1>7, <2>1
<1>10. \A i, j \in 1..n : o[i] = o[j] => i = j BY <1>7
<1>11. \A i, j \in 1..n : i < j => <<o[i], o[j]>> \in R
  <2> SUFFICES ASSUME NEW i \in 1..n, NEW j \in 1..n, i < j, <<o[i], o[j]>> \notin R
               PROVE  FALSE
    OBVIOUS
  <2>1. o[i] \in S /\ o[j] \in S /\ o[i] # o[j] BY <1>7, <1>10
  <2>2. <<o[j], o[i]>> \in R BY <2>1 DEF Orders
  <2>3. rank[o[j]] < rank[o[i]] BY <1>4, <2>1, <2>2
  <2> QED BY <1>1, <1>7, <2>3
<1>12. Lists(o, S, R) BY <1>8, <1>9, <1>10, <1>11 DEF Lists
<1>13. ByRank(S, R) = o BY DEF ByRank, o, below
<1> QED BY <1>12, <1>13

LEMMA Arrangement ==
  ASSUME NEW s, NEW S, IsFiniteSet(S), NEW R, Orders(R, S)
  PROVE  /\ Arranged(s, S, R) = [i \in 1..Cardinality(S) |-> Arranged(s, S, R)[i]]
         /\ \E o : /\ Lists(o, S, R)
                  /\ \A i \in 1..Cardinality(S) : Arranged(s, S, R)[i] = s[o[i]]
<1>1. Lists(ByRank(S, R), S, R) BY Ranks
<1>2. \A i \in 1..Cardinality(S) : Arranged(s, S, R)[i] = s[ByRank(S, R)[i]]
  BY DEF Arranged, ByRank
<1>3. Arranged(s, S, R) = [i \in 1..Cardinality(S) |-> Arranged(s, S, R)[i]]
  BY DEF Arranged
<1> QED BY <1>1, <1>2, <1>3

-----------------------------------------------------------------------------
(* Filters, sorts and the cap *)

LEMMA UpTo ==
  ASSUME NEW n \in Nat
  PROVE  IsFiniteSet(1..n) /\ Cardinality(1..n) = n
BY FS_Interval

\* t consists of the elements of s at the places S, in the order of R.
Follows(t, s, S, R) ==
  /\ Len(t) = Cardinality(S) /\ Len(t) <= Len(s)
  /\ ToSet(t) = {s[p] : p \in S}
  /\ IsInjective(s) => IsInjective(t)
  /\ \A i, j \in DOMAIN t : i < j =>
       \E p, q \in S : <<p, q>> \in R /\ t[i] = s[p] /\ t[j] = s[q]

LEMMA ArrangedSequence ==
  ASSUME NEW E, NEW s \in Seq(E), NEW S \in SUBSET DOMAIN s, NEW R, Orders(R, S)
  PROVE  Arranged(s, S, R) \in Seq(E) /\ Follows(Arranged(s, S, R), s, S, R)
<1>. DEFINE n == Cardinality(S)
            t == Arranged(s, S, R)
<1>1. DOMAIN s = 1..Len(s) /\ Len(s) \in Nat /\ \A p \in DOMAIN s : s[p] \in E
  BY ElementOfSeq, LenProperties
<1>2. IsFiniteSet(S) /\ n \in Nat /\ n <= Len(s)
  <2>1. IsFiniteSet(1..Len(s)) /\ Cardinality(1..Len(s)) = Len(s) BY <1>1, UpTo
  <2> QED BY <1>1, <2>1, FS_Subset, FS_CardinalityType
<1>0. t = [i \in 1..n |-> t[i]] BY <1>2, Arrangement
<1>3. PICK o : Lists(o, S, R) /\ \A i \in 1..n : t[i] = s[o[i]] BY <1>2, Arrangement
<1>. HIDE DEF n, t
<1>4. \A i \in 1..n : o[i] \in S /\ t[i] = s[o[i]] BY <1>3 DEF Lists, n
<1>5. t \in [1..n -> E] BY <1>0, <1>1, <1>4
<1>6. t \in Seq(E) /\ Len(t) = n /\ DOMAIN t = 1..n
  <2>1. t \in Seq(E) BY <1>2, <1>5, SeqDef
  <2> QED BY <1>2, <1>5, <2>1, LenProperties
<1>7. ToSet(t) = {s[p] : p \in S}
  <2>1. \A p \in S : \E i \in 1..n : s[p] = t[i] BY <1>3 DEF Lists, n
  <2> QED BY <1>4, <1>6, <2>1 DEF ToSet
<1>8. IsInjective(s) => IsInjective(t) BY <1>3, <1>4, <1>6 DEF Lists, IsInjective, n
<1>9. \A i, j \in DOMAIN t : i < j =>
        \E p, q \in S : <<p, q>> \in R /\ t[i] = s[p] /\ t[j] = s[q]
  BY <1>3, <1>4, <1>6 DEF Lists, n
<1> QED BY <1>2, <1>6, <1>7, <1>8, <1>9 DEF Follows, n, t

\* What SelectSeq would yield.
LEMMA WhereHolds ==
  ASSUME NEW E, NEW s \in Seq(E), NEW S
  PROVE  /\ Where(s, S) \in Seq(E) /\ Len(Where(s, S)) <= Len(s)
         /\ ToSet(Where(s, S)) = ToSet(s) \cap S
         /\ IsInjective(s) => IsInjective(Where(s, S))
<1>. DEFINE places == {i \in DOMAIN s : s[i] \in S}
            R == {p \in (DOMAIN s) \X (DOMAIN s) : p[1] < p[2]}
            t == Where(s, S)
<1>1. DOMAIN s = 1..Len(s) /\ Len(s) \in Nat BY LenProperties
<1>2. places \in SUBSET DOMAIN s OBVIOUS
<1>3. Orders(R, places) BY <1>1 DEF Orders
<1>4. t = Arranged(s, places, R) BY DEF Where
<1>5. {s[p] : p \in places} = ToSet(s) \cap S BY DEF ToSet
<1>. HIDE DEF places, R, t
<1>6. t \in Seq(E) /\ Follows(t, s, places, R)
  BY <1>2, <1>3, <1>4, ArrangedSequence
<1> QED BY <1>5, <1>6 DEF Follows, t

LEMMA Ranked == \A e : Rank(e) \in 0..3 /\ (Rank(e) = 0 <=> IsHigh(e))
BY DEF Rank, IsHigh

\* Urgency with recency orders entries that have a date.
LEMMA AheadOrders ==
  ASSUME NEW E, \A e \in E : e.date \in Nat
  PROVE  /\ \A e \in E : ~Ahead(e, e)
         /\ \A e, f, g \in E : Ahead(e, f) /\ Ahead(f, g) => Ahead(e, g)
         /\ \A e, f, g \in E : ~Ahead(e, f) /\ ~Ahead(f, g) => ~Ahead(e, g)
<1>1. \A e : Rank(e) \in Int BY Ranked
<1> QED BY <1>1 DEF Ahead

LEMMA SortHolds ==
  ASSUME NEW E, \A e \in E : e.date \in Nat, NEW s \in Seq(E)
  PROVE  LET t == StableSort(s) IN
         /\ t \in Seq(E) /\ Len(t) = Len(s) /\ ToSet(t) = ToSet(s)
         /\ IsInjective(s) => IsInjective(t)
         /\ \A i, j \in DOMAIN t : i < j => ~Ahead(t[j], t[i])
<1>. DEFINE t == StableSort(s)
            R == Before(s)
<1>1. DOMAIN s = 1..Len(s) /\ Len(s) \in Nat /\ \A p \in DOMAIN s : s[p] \in E
  BY ElementOfSeq, LenProperties
<1>2. Orders(R, DOMAIN s)
  <2>1. \A x \in DOMAIN s : <<x, x>> \notin R BY <1>1, AheadOrders DEF Before
  <2>2. \A x, y \in DOMAIN s : x = y \/ <<x, y>> \in R \/ <<y, x>> \in R
    BY <1>1 DEF Before
  <2>3. \A x, y, z \in DOMAIN s : <<x, y>> \in R /\ <<y, z>> \in R => <<x, z>> \in R
    <3> SUFFICES ASSUME NEW x \in DOMAIN s, NEW y \in DOMAIN s, NEW z \in DOMAIN s,
                        <<x, y>> \in R, <<y, z>> \in R
                 PROVE  <<x, z>> \in R
      OBVIOUS
    <3>1. ~Ahead(s[y], s[x]) /\ ~Ahead(s[z], s[y])
      <4>1. \A e, f \in E : Ahead(e, f) => ~Ahead(f, e) BY AheadOrders
      <4> QED BY <1>1, <4>1 DEF Before
    <3>2. ~Ahead(s[z], s[x]) BY <1>1, <3>1, AheadOrders
    <3>3. CASE Ahead(s[x], s[y]) \/ Ahead(s[y], s[z])
      <4>1. Ahead(s[x], s[z])
        <5>1. \A e : Rank(e) \in Int BY Ranked
        <5>2. s[x].date \in Nat /\ s[y].date \in Nat /\ s[z].date \in Nat BY <1>1
        <5> QED BY <3>1, <3>3, <5>1, <5>2 DEF Ahead
      <4> QED BY <4>1 DEF Before
    <3>4. CASE ~Ahead(s[x], s[y]) /\ ~Ahead(s[y], s[z])
      <4>1. x < y /\ y < z BY <3>4 DEF Before
      <4> QED BY <1>1, <3>2, <4>1 DEF Before
    <3> QED BY <3>3, <3>4
  <2> QED BY <2>1, <2>2, <2>3 DEF Orders
<1>3. t = Arranged(s, DOMAIN s, R) BY DEF StableSort
<1>4. Cardinality(DOMAIN s) = Len(s) BY <1>1, UpTo
<1>5. {s[p] : p \in DOMAIN s} = ToSet(s) BY DEF ToSet
<1>6. \A p, q \in DOMAIN s : <<p, q>> \in R => ~Ahead(s[q], s[p])
  <2>1. \A e, f \in E : Ahead(e, f) => ~Ahead(f, e) BY AheadOrders
  <2> QED BY <1>1, <2>1 DEF Before
<1>. HIDE DEF t, R
<1>0. DOMAIN s \in SUBSET DOMAIN s OBVIOUS
<1>7. t \in Seq(E) /\ Follows(t, s, DOMAIN s, R)
  BY <1>0, <1>2, <1>3, ArrangedSequence
<1>8. \A i, j \in DOMAIN t : i < j => ~Ahead(t[j], t[i])
  <2> SUFFICES ASSUME NEW i \in DOMAIN t, NEW j \in DOMAIN t, i < j
               PROVE  ~Ahead(t[j], t[i])
    OBVIOUS
  <2>1. PICK p \in DOMAIN s, q \in DOMAIN s : <<p, q>> \in R /\ t[i] = s[p] /\ t[j] = s[q]
    BY <1>7 DEF Follows
  <2> QED BY <1>6, <2>1
<1> QED BY <1>4, <1>5, <1>7, <1>8 DEF Follows, t

LEMMA CapHolds ==
  ASSUME NEW E, NEW s \in Seq(E), config.cap \in Nat
  PROVE  /\ Capped(s) \in Seq(E) /\ ToSet(Capped(s)) \subseteq ToSet(s)
         /\ IsInjective(s) => IsInjective(Capped(s))
         /\ ~OverCap(s) => Capped(s) = s
         /\ OverCap(s) => /\ config.cap \in 1..Len(s) /\ Len(Capped(s)) = config.cap
                         /\ \A i \in 1..config.cap : Capped(s)[i] = s[i]
<1>1. DOMAIN s = 1..Len(s) /\ Len(s) \in Nat BY LenProperties
<1>2. CASE ~OverCap(s) BY <1>2 DEF Capped
<1>3. CASE OverCap(s)
  <2>. DEFINE c == Capped(s)
              n == config.cap
  <2>1. n \in 1..Len(s) BY <1>1, <1>3 DEF OverCap
  <2>2. c = SubSeq(s, 1, n) BY <1>3 DEF Capped
  <2>. HIDE DEF c
  <2>3. c \in Seq(E) /\ Len(c) = n /\ \A i \in 1..n : c[i] = s[i]
    <3>1. 1 \in 1..(Len(s) + 1) /\ n \in 0..Len(s) /\ 1 <= n /\ 1..n \subseteq 1..Len(s) BY <1>1, <2>1
    <3> QED BY <1>1, <2>1, <2>2, <3>1, SubSeqProperties
  <2>4. DOMAIN c = 1..n /\ DOMAIN c \subseteq DOMAIN s BY <1>1, <2>1, <2>3
  <2> QED BY <1>3, <2>1, <2>3, <2>4 DEF c, ToSet, IsInjective
<1> QED BY <1>2, <1>3

-----------------------------------------------------------------------------
(* Sums *)

\* Induction over the subsets of a finite set.
LEMMA SubsetInduction ==
  ASSUME NEW T, IsFiniteSet(T), NEW G,
         \A S \in SUBSET T : (\A U \in SUBSET S : U # S => U \in G) => S \in G
  PROVE  T \in G
<1>. DEFINE R == StrictSubsetOrdering(T)
            bad == {S \in SUBSET T : S \notin G}
<1> SUFFICES ASSUME bad # {} PROVE FALSE
  OBVIOUS
<1>1. IsWellFoundedOn(R, SUBSET T)
  <2>1. IsWellFoundedOn(R, FiniteSubsetsOf(T)) BY FS_StrictSubsetOrderingWellFounded
  <2>2. FiniteSubsetsOf(T) = SUBSET T BY FS_FiniteSubsetsOfFinite
  <2> QED BY <2>1, <2>2, Zenon
<1>2. bad \subseteq SUBSET T OBVIOUS
<1>3. PICK S \in bad : \A U \in bad : ~(<<U, S>> \in R)
  <2>. HIDE DEF R, bad
  <2> QED BY <1>1, <1>2, WFMin
<1>4. \A U \in SUBSET S : U # S => U \in G BY <1>3 DEF StrictSubsetOrdering
<1> QED BY <1>3, <1>4

\* The sum of a function is what its equations say, in whatever order it is taken.
LEMMA SumIs ==
  ASSUME NEW f, IsFiniteSet(DOMAIN f), NEW c, c[{}] = 0,
         \A S \in SUBSET DOMAIN f : \A x \in S : c[S] = f[x] + c[S \ {x}]
  PROVE  SumFunction(f) = c[DOMAIN f]
<1>. DEFINE T == DOMAIN f
            some(S) == CHOOSE x \in S : TRUE
            equations(h) == h = [S \in SUBSET T |->
                                   IF S = {} THEN 0 ELSE f[some(S)] + h[S \ {some(S)}]]
            sum == CHOOSE h : equations(h)
            G == {S \in SUBSET T : sum[S] = c[S]}
<1>1. SumFunction(f) = sum[T]
  BY Zenon DEF SumFunction, SumFunctionOnSet, FoldFunctionOnSet, MapThenFoldSet
<1>2. \A S \in SUBSET T : S # {} => some(S) \in S OBVIOUS
<1>. HIDE DEF some
<1>3. equations([S \in SUBSET T |-> c[S]])
  <2>. DEFINE d == [S \in SUBSET T |-> c[S]]
  <2> SUFFICES ASSUME NEW S \in SUBSET T
               PROVE  c[S] = IF S = {} THEN 0 ELSE f[some(S)] + d[S \ {some(S)}]
    OBVIOUS
  <2>1. d[S \ {some(S)}] = c[S \ {some(S)}] OBVIOUS
  <2> QED BY <1>2, <2>1
<1>4. equations(sum) BY <1>3
<1>. HIDE DEF sum
<1>5. \A S \in SUBSET T :
        sum[S] = IF S = {} THEN 0 ELSE f[some(S)] + sum[S \ {some(S)}]
  BY <1>4
<1>6. \A S \in SUBSET T : (\A U \in SUBSET S : U # S => U \in G) => S \in G
  <2> SUFFICES ASSUME NEW S \in SUBSET T, \A U \in SUBSET S : U # S => U \in G
               PROVE  sum[S] = c[S]
    OBVIOUS
  <2>1. CASE S = {} BY <1>5, <2>1
  <2>2. CASE S # {}
    <3>1. some(S) \in S /\ S \ {some(S)} \in SUBSET S /\ S \ {some(S)} # S BY <1>2, <2>2
    <3>2. sum[S \ {some(S)}] = c[S \ {some(S)}] BY <3>1
    <3>3. sum[S] = f[some(S)] + sum[S \ {some(S)}] BY <1>5, <2>2
    <3> QED BY <3>1, <3>2, <3>3
  <2> QED BY <2>1, <2>2
<1>. HIDE DEF G
<1>7. T \in G BY <1>6, SubsetInduction
<1> QED BY <1>1, <1>7 DEF G

\* Counting the elements of a set class by class counts all of them.
LEMMA CountsByClass ==
  ASSUME NEW T, IsFiniteSet(T), NEW Q, IsFiniteSet(Q), NEW class, \A q \in Q : class[q] \in T,
         NEW f, DOMAIN f = T, \A t \in T : f[t] = Cardinality({q \in Q : class[q] = t})
  PROVE  SumFunction(f) = Cardinality(Q)
<1>. DEFINE in(S) == {q \in Q : class[q] \in S}
            c == [S \in SUBSET T |-> Cardinality(in(S))]
<1>1. c[{}] = 0
  <2>1. in({}) = {} OBVIOUS
  <2> QED BY <2>1, FS_EmptySet
<1>2. ASSUME NEW S \in SUBSET T, NEW x \in S
      PROVE  c[S] = f[x] + c[S \ {x}]
  <2>. DEFINE A == {q \in Q : class[q] = x}
              B == in(S \ {x})
  <2>1. A \in SUBSET Q /\ B \in SUBSET Q /\ A \cap B = {} /\ A \cup B = in(S) OBVIOUS
  <2>2. f[x] = Cardinality(A) /\ c[S] = Cardinality(in(S)) /\ c[S \ {x}] = Cardinality(B)
    OBVIOUS
  <2>. HIDE DEF A, B, c, in
  <2>3. IsFiniteSet(A) /\ IsFiniteSet(B) BY <2>1, FS_Subset
  <2>4. Cardinality(A) \in Nat /\ Cardinality(B) \in Nat BY <2>3, FS_CardinalityType
  <2>5. Cardinality(A \cup B) = Cardinality(A) + Cardinality(B) - Cardinality(A \cap B)
    BY <2>3, FS_Union
  <2>6. Cardinality(A \cap B) = 0 BY <2>1, FS_EmptySet, Zenon
  <2>7. c[S] = Cardinality(A \cup B) BY <2>1, <2>2, Zenon
  <2> QED BY <2>2, <2>4, <2>5, <2>6, <2>7
<1>3. in(T) = Q /\ c[T] = Cardinality(in(T)) OBVIOUS
<1>. HIDE DEF c, in
<1>4. SumFunction(f) = c[DOMAIN f] BY <1>1, <1>2, SumIs
<1> QED BY <1>3, <1>4

-----------------------------------------------------------------------------
(* Entries *)

\* What Init chooses and no step changes.
InputsOK ==
  /\ batch \in Seq(Messages) /\ date \in [DOMAIN batch -> Nat]
  /\ call.label \in Labelling /\ call.bad \subseteq ToSet(batch)
  /\ call.bad \cap ClassifiedKeys = {}
  /\ priority \in [Messages -> {"high", "medium", "low", ""}]
  /\ \A m \in Messages : call.label[m] = NoLabel => priority[m] = ""
  /\ config.cap \in Nat /\ fetchErr \subseteq Accounts

Listed == ToSet(Entries)

\* A list of the entries, each once; sorting for the cap changes the order.
Reordered(s) == s \in Seq(Listed) /\ ToSet(s) = Listed /\ IsInjective(s)

LEMMA PlacesOfBatch ==
  ASSUME InputsOK
  PROVE  /\ Places = 1..Len(batch) /\ Len(batch) \in Nat
         /\ IsFiniteSet(Places) /\ Cardinality(Places) = Len(batch)
         /\ \A i \in Places : batch[i] \in Messages
<1>1. batch \in Seq(Messages) BY DEF InputsOK
<1>2. DOMAIN batch = 1..Len(batch) /\ Len(batch) \in Nat BY <1>1, LenProperties
<1>3. \A i \in 1..Len(batch) : batch[i] \in Messages BY <1>1, ElementOfSeq
<1> QED BY <1>2, <1>3, UpTo DEF Places

LEMMA EntryHolds ==
  ASSUME InputsOK, NEW i \in Places
  PROVE  LET e == EntryAt(i) IN
         /\ Entries[i] = e /\ e.at = i /\ e.key = batch[i] /\ e.date \in Nat
         /\ e.label \in AnyLabel
         /\ e.error <=> batch[i] \in call.bad
         /\ IsHigh(e) => batch[i] \in ClassifiedKeys
<1>1. batch[i] \in Messages BY PlacesOfBatch
<1>2. Entries[i] = EntryAt(i) BY DEF Entries
<1>3. date[i] \in Nat BY DEF InputsOK, Places
<1>4. call.label[batch[i]] \in AnyLabel \cup {NoLabel} BY <1>1 DEF InputsOK, Labelling
<1>5. EntryAt(i).error <=> batch[i] \in call.bad BY DEF EntryAt
<1>6. EntryAt(i).label \in AnyLabel BY <1>4 DEF EntryAt, AnyLabel
<1>7. IsHigh(EntryAt(i)) => batch[i] \in ClassifiedKeys
  BY <1>1 DEF EntryAt, IsHigh, ClassifiedKeys, Labelled
<1> QED BY <1>2, <1>3, <1>5, <1>6, <1>7 DEF EntryAt

LEMMA EntriesHold ==
  ASSUME InputsOK
  PROVE  /\ Reordered(Entries) /\ Len(Entries) = Len(batch)
         /\ \A e \in Listed : e.at \in Places /\ e = EntryAt(e.at) /\ e.date \in Nat
<1>1. Places = 1..Len(batch) /\ Len(batch) \in Nat BY PlacesOfBatch
<1>2. \A i \in Places : Entries[i].at = i /\ Entries[i] = EntryAt(i) /\ Entries[i].date \in Nat
  BY EntryHolds
<1>3. DOMAIN Entries = Places BY DEF Entries
<1>4. Listed = {Entries[i] : i \in Places} BY <1>3 DEF Listed, ToSet
<1>5. Entries \in [1..Len(batch) -> Listed]
  <2>1. Entries = [i \in 1..Len(batch) |-> Entries[i]] BY <1>1 DEF Entries
  <2>2. \A i \in 1..Len(batch) : Entries[i] \in Listed BY <1>1, <1>4
  <2> QED BY <2>1, <2>2
<1>6. Entries \in Seq(Listed) BY <1>1, <1>5, SeqDef
<1>7. Len(Entries) = Len(batch) BY <1>1, <1>5, <1>6, LenProperties
<1>8. IsInjective(Entries) BY <1>2, <1>3 DEF IsInjective
<1> QED BY <1>2, <1>4, <1>6, <1>7, <1>8 DEF Reordered, Listed

-----------------------------------------------------------------------------
(* The markdown digest *)

Eligible == {e \in Listed : config.priorityOnly => IsHigh(e)}

LEMMA UrgentHolds ==
  ASSUME NEW E, NEW s \in Seq(E)
  PROVE  /\ Urgent(s) \in Seq(E) /\ Len(Urgent(s)) <= Len(s)
         /\ ToSet(Urgent(s)) = {e \in ToSet(s) : IsHigh(e)}
         /\ IsInjective(s) => IsInjective(Urgent(s))
<1>. DEFINE S == {e \in ToSet(s) : IsHigh(e)}
            w == Where(s, S)
<1>1. Urgent(s) = w BY DEF Urgent
<1>2. ToSet(s) \cap S = S OBVIOUS
<1>. HIDE DEF S
<1>3. /\ w \in Seq(E) /\ Len(w) <= Len(s) /\ ToSet(w) = S
      /\ IsInjective(s) => IsInjective(w)
  BY <1>2, WhereHolds
<1>. HIDE DEF w
<1> QED BY <1>1, <1>3 DEF S

LEMMA FilterHolds ==
  ASSUME NEW s, Reordered(s)
  PROVE  LET f == PriorityFilter(s) IN
         f \in Seq(Listed) /\ ToSet(f) = Eligible /\ IsInjective(f)
<1>1. s \in Seq(Listed) /\ ToSet(s) = Listed /\ IsInjective(s) BY DEF Reordered
<1>2. CASE config.priorityOnly
  <2>1. PriorityFilter(s) = Urgent(s) BY <1>2 DEF PriorityFilter
  <2>2. Urgent(s) \in Seq(Listed) /\ ToSet(Urgent(s)) = {e \in Listed : IsHigh(e)}
        /\ IsInjective(Urgent(s))
    BY <1>1, UrgentHolds
  <2>3. Eligible = {e \in Listed : IsHigh(e)} BY <1>2 DEF Eligible
  <2> QED BY <2>1, <2>2, <2>3
<1>3. CASE ~config.priorityOnly
  <2>1. PriorityFilter(s) = s BY <1>3 DEF PriorityFilter
  <2>2. Eligible = Listed BY <1>3 DEF Eligible
  <2> QED BY <1>1, <2>1, <2>2
<1> QED BY <1>2, <1>3

\* What the cap hides is behind what it leaves.
LEMMA BestHolds ==
  ASSUME InputsOK, NEW f \in Seq(Listed), IsInjective(f), NEW b, b = Best(f)
  PROVE  /\ b \in Seq(Listed) /\ IsInjective(b) /\ ToSet(b) \subseteq ToSet(f)
         /\ \A e \in ToSet(b), g \in ToSet(f) \ ToSet(b) : ~Ahead(g, e)
         /\ ToSet(f) \ ToSet(b) # {} => config.cap > 0 /\ Len(b) = config.cap
<1>1. config.cap \in Nat BY DEF InputsOK
<1>2. CASE ~OverCap(f)
  <2>1. b = f BY <1>2 DEF Best, Capped
  <2> QED BY <2>1
<1>3. CASE OverCap(f)
  <2>. DEFINE t == StableSort(f)
              n == config.cap
  <2>1. b = Capped(t) BY <1>3 DEF Best
  <2>2. \A e \in Listed : e.date \in Nat BY EntriesHold
  <2>. HIDE DEF t
  <2>3. /\ t \in Seq(Listed) /\ Len(t) = Len(f) /\ ToSet(t) = ToSet(f) /\ IsInjective(t)
        /\ \A i, j \in DOMAIN t : i < j => ~Ahead(t[j], t[i])
    BY <2>2, SortHolds DEF t
  <2>4. OverCap(t) BY <1>3, <2>3 DEF OverCap
  <2>5. /\ b \in Seq(Listed) /\ ToSet(b) \subseteq ToSet(t) /\ IsInjective(b)
        /\ n \in 1..Len(t) /\ Len(b) = n /\ \A i \in 1..n : b[i] = t[i]
    BY <1>1, <2>1, <2>3, <2>4, CapHolds
  <2>6. DOMAIN b = 1..n /\ DOMAIN t = 1..Len(t) /\ Len(t) \in Nat
    BY <2>3, <2>5, LenProperties
  <2>7. ASSUME NEW e \in ToSet(b), NEW g \in ToSet(f) \ ToSet(b) PROVE ~Ahead(g, e)
    <3>1. PICK i \in 1..n : e = b[i] BY <2>6 DEF ToSet
    <3>2. PICK j \in 1..Len(t) : g = t[j] BY <2>3, <2>6 DEF ToSet
    <3>3. j \notin 1..n
      <4> SUFFICES ASSUME j \in 1..n PROVE FALSE OBVIOUS
      <4>1. g = b[j] BY <2>5, <3>2
      <4> QED BY <2>6, <4>1 DEF ToSet
    <3>4. i < j /\ i \in DOMAIN t /\ j \in DOMAIN t BY <2>5, <2>6, <3>3
    <3>5. e = t[i] BY <2>5, <3>1
    <3> QED BY <2>3, <3>2, <3>4, <3>5
  <2> QED BY <2>3, <2>5, <2>7
<1> QED BY <1>2, <1>3

\* The section of a label.
LEMMA GroupHolds ==
  ASSUME InputsOK, NEW shown \in Seq(Listed), IsInjective(shown),
         NEW l \in {e.label : e \in ToSet(shown)}, NEW g, g = Groups(shown)[l]
  PROVE  /\ g \in Seq(Listed) /\ Len(g) <= Len(shown) /\ IsInjective(g)
         /\ ToSet(g) = {e \in ToSet(shown) : e.label = l}
         /\ \A i, j \in DOMAIN g : i < j => ~Ahead(g[j], g[i])
<1>. DEFINE S == {e \in ToSet(shown) : e.label = l}
            w == Where(shown, S)
<1>1. g = StableSort(w) BY DEF Groups
<1>2. ToSet(shown) \cap S = S OBVIOUS
<1>. HIDE DEF S
<1>3. w \in Seq(Listed) /\ Len(w) <= Len(shown) /\ ToSet(w) = S /\ IsInjective(w)
  BY <1>2, WhereHolds
<1>. HIDE DEF w
<1>4. \A e \in Listed : e.date \in Nat BY EntriesHold
<1>5. /\ g \in Seq(Listed) /\ Len(g) = Len(w) /\ ToSet(g) = ToSet(w) /\ IsInjective(g)
      /\ \A i, j \in DOMAIN g : i < j => ~Ahead(g[j], g[i])
  BY <1>1, <1>3, <1>4, SortHolds
<1> QED BY <1>3, <1>5 DEF S

LEMMA SectionsHold ==
  ASSUME InputsOK, NEW shown \in Seq(Listed), IsInjective(shown),
         NEW g, g = Groups(shown), NEW e
  PROVE  Cardinality({p \in (DOMAIN g) \X (1..Len(shown)) :
                        p[2] <= Len(g[p[1]]) /\ g[p[1]][p[2]] = e})
           = IF e \in ToSet(shown) THEN 1 ELSE 0
<1>. DEFINE labels == {d.label : d \in ToSet(shown)}
            S == {p \in (DOMAIN g) \X (1..Len(shown)) :
                    p[2] <= Len(g[p[1]]) /\ g[p[1]][p[2]] = e}
<1>1. DOMAIN g = labels BY DEF Groups
<1>2. \A l \in labels :
        /\ g[l] \in Seq(Listed) /\ Len(g[l]) <= Len(shown) /\ IsInjective(g[l])
        /\ ToSet(g[l]) = {d \in ToSet(shown) : d.label = l}
  BY GroupHolds
<1>3. \A l \in labels : DOMAIN g[l] = 1..Len(g[l]) /\ Len(g[l]) \in Nat
  BY <1>2, LenProperties
<1>4. Len(shown) \in Nat BY LenProperties
<1>. HIDE DEF labels
<1>5. CASE e \in ToSet(shown)
  <2>1. e.label \in labels BY <1>5 DEF labels
  <2>2. PICK i \in DOMAIN g[e.label] : g[e.label][i] = e BY <1>2, <1>5, <2>1 DEF ToSet
  <2>3. i \in 1..Len(shown) /\ i <= Len(g[e.label]) BY <1>2, <1>3, <1>4, <2>1, <2>2
  <2>4. <<e.label, i>> \in S BY <1>1, <2>1, <2>2, <2>3
  <2>5. ASSUME NEW p \in S PROVE p = <<e.label, i>>
    <3>1. p[1] \in labels /\ p[2] \in DOMAIN g[p[1]] /\ g[p[1]][p[2]] = e /\ p = <<p[1], p[2]>>
      BY <1>1, <1>3
    <3>2. e \in ToSet(g[p[1]]) BY <3>1 DEF ToSet
    <3>3. p[1] = e.label BY <1>2, <3>1, <3>2
    <3>4. p[2] = i BY <1>2, <2>1, <2>2, <3>1, <3>3 DEF IsInjective
    <3> QED BY <3>1, <3>3, <3>4
  <2>6. S = {<<e.label, i>>} BY <2>4, <2>5
  <2>. HIDE DEF S
  <2>7. Cardinality(S) = 1 BY <2>6, FS_Singleton
  <2> QED BY <1>5, <2>7 DEF S
<1>6. CASE e \notin ToSet(shown)
  <2>1. ASSUME NEW p \in S PROVE FALSE
    <3>1. p[1] \in labels /\ p[2] \in DOMAIN g[p[1]] /\ g[p[1]][p[2]] = e BY <1>1, <1>3
    <3>2. e \in ToSet(g[p[1]]) BY <3>1 DEF ToSet
    <3> QED BY <1>2, <1>6, <3>1, <3>2
  <2>2. S = {} BY <2>1
  <2> QED BY <1>6, <2>2, FS_EmptySet
<1> QED BY <1>5, <1>6

-----------------------------------------------------------------------------
(* The numbers of the summary *)

\* Two classes that share nothing and leave nothing out.
LEMMA Split ==
  ASSUME NEW S, IsFiniteSet(S), NEW A, NEW B, A \cup B = S, A \cap B = {}
  PROVE  /\ Cardinality(A) \in Nat /\ Cardinality(B) \in Nat
         /\ Cardinality(A) + Cardinality(B) = Cardinality(S)
<1>1. A \in SUBSET S /\ B \in SUBSET S OBVIOUS
<1>2. IsFiniteSet(A) /\ IsFiniteSet(B) BY <1>1, FS_Subset
<1>3. Cardinality(A) \in Nat /\ Cardinality(B) \in Nat BY <1>2, FS_CardinalityType
<1>4. Cardinality(A \cup B) = Cardinality(A) + Cardinality(B) - Cardinality(A \cap B)
  BY <1>2, FS_Union
<1>5. Cardinality(A \cap B) = 0 BY FS_EmptySet, Zenon
<1>6. Cardinality(S) = Cardinality(A \cup B) OBVIOUS
<1> QED BY <1>3, <1>4, <1>5, <1>6

LEMMA AccountsFinite == IsFiniteSet(Accounts)
<1>. DEFINE h == [m \in Messages |-> AccountOf[m]]
<1>1. h \in Surjection(Messages, Accounts) BY DEF Surjection, Accounts
<1>2. IsFiniteSet(Messages) BY DigestAssumption
<1>. HIDE DEF h
<1> QED BY <1>1, <1>2, FS_Surjection

\* A field that counts places with some property, account by account.
LEMMA FieldAddsUp ==
  ASSUME InputsOK, stats = Stats, NEW field, NEW Q \in SUBSET Places,
         \A a \in Accounts : Counts(Of(a))[field] = Cardinality({i \in Q : AccountOf[batch[i]] = a})
  PROVE  SumOf(field) = Cardinality(Q)
<1>. DEFINE f == [a \in Accounts |-> stats.account[a][field]]
            class == [i \in Q |-> AccountOf[batch[i]]]
<1>1. SumOf(field) = SumFunction(f) BY DEF SumOf
<1>2. DOMAIN f = Accounts OBVIOUS
<1>3. \A a \in Accounts : f[a] = Cardinality({i \in Q : class[i] = a})
  <2> SUFFICES ASSUME NEW a \in Accounts
               PROVE  f[a] = Cardinality({i \in Q : class[i] = a})
    OBVIOUS
  <2>1. stats.account[a] = Counts(Of(a)) BY DEF Stats
  <2>2. {i \in Q : AccountOf[batch[i]] = a} = {i \in Q : class[i] = a} OBVIOUS
  <2>. HIDE DEF class
  <2> QED BY <2>1, <2>2
<1>4. \A i \in Q : class[i] \in Accounts
  BY PlacesOfBatch DEF Accounts
<1>5. IsFiniteSet(Q) BY PlacesOfBatch, FS_Subset
<1>. HIDE DEF f, class
<1> QED BY <1>1, <1>2, <1>3, <1>4, <1>5, AccountsFinite, CountsByClass

LEMMA FieldsAddUp ==
  ASSUME InputsOK, stats = Stats
  PROVE  /\ \A field \in {"fetched", "read", "unread", "failed", "unanalysed"} :
              stats.all[field] = SumOf(field)
         /\ SumOf("classified") = Cardinality({i \in Places : batch[i] \in ClassifiedKeys})
<1>1. stats.all["fetched"] = SumOf("fetched")
  <2>1. \A a \in Accounts :
          Counts(Of(a))["fetched"] = Cardinality({i \in Places : AccountOf[batch[i]] = a})
    BY DEF Counts, Of
  <2>2. Places \in SUBSET Places OBVIOUS
  <2>3. SumOf("fetched") = Cardinality(Places) BY <2>1, <2>2, FieldAddsUp
  <2> QED BY <2>3 DEF Stats, Counts
<1>2. stats.all["read"] = SumOf("read")
  <2>. DEFINE Q == {i \in Places : Read[i]}
  <2>1. \A a \in Accounts : Counts(Of(a))["read"] = Cardinality({i \in Q : AccountOf[batch[i]] = a})
    <3> SUFFICES ASSUME NEW a \in Accounts
                 PROVE  Counts(Of(a))["read"] = Cardinality({i \in Q : AccountOf[batch[i]] = a})
      OBVIOUS
    <3>1. {i \in Of(a) : Read[i]} = {i \in Q : AccountOf[batch[i]] = a} BY DEF Of
    <3> QED BY <3>1 DEF Counts, CountIn
  <2>2. Q \in SUBSET Places OBVIOUS
  <2>3. stats.all["read"] = Cardinality(Q) BY DEF Stats, Counts, CountIn
  <2>. HIDE DEF Q
  <2> QED BY <2>1, <2>2, <2>3, FieldAddsUp
<1>3. stats.all["unread"] = SumOf("unread")
  <2>. DEFINE Q == {i \in Places : ~Read[i]}
  <2>1. \A a \in Accounts : Counts(Of(a))["unread"] = Cardinality({i \in Q : AccountOf[batch[i]] = a})
    <3> SUFFICES ASSUME NEW a \in Accounts
                 PROVE  Counts(Of(a))["unread"] = Cardinality({i \in Q : AccountOf[batch[i]] = a})
      OBVIOUS
    <3>1. {i \in Of(a) : ~Read[i]} = {i \in Q : AccountOf[batch[i]] = a} BY DEF Of
    <3> QED BY <3>1 DEF Counts, CountIn
  <2>2. Q \in SUBSET Places OBVIOUS
  <2>3. stats.all["unread"] = Cardinality(Q) BY DEF Stats, Counts, CountIn
  <2>. HIDE DEF Q
  <2> QED BY <2>1, <2>2, <2>3, FieldAddsUp
<1>4. stats.all["failed"] = SumOf("failed")
  <2>. DEFINE Q == {i \in Places : batch[i] \notin ClassifiedKeys}
  <2>1. \A a \in Accounts : Counts(Of(a))["failed"] = Cardinality({i \in Q : AccountOf[batch[i]] = a})
    <3> SUFFICES ASSUME NEW a \in Accounts
                 PROVE  Counts(Of(a))["failed"] = Cardinality({i \in Q : AccountOf[batch[i]] = a})
      OBVIOUS
    <3>1. {i \in Of(a) : batch[i] \notin ClassifiedKeys} = {i \in Q : AccountOf[batch[i]] = a}
      BY DEF Of
    <3> QED BY <3>1 DEF Counts, CountIn
  <2>2. Q \in SUBSET Places OBVIOUS
  <2>3. stats.all["failed"] = Cardinality(Q) BY DEF Stats, Counts, CountIn
  <2>. HIDE DEF Q
  <2> QED BY <2>1, <2>2, <2>3, FieldAddsUp
<1>5. stats.all["unanalysed"] = SumOf("unanalysed")
  <2>. DEFINE Q == {i \in Places : EntryAt(i).error}
  <2>1. \A a \in Accounts : Counts(Of(a))["unanalysed"] = Cardinality({i \in Q : AccountOf[batch[i]] = a})
    <3> SUFFICES ASSUME NEW a \in Accounts
                 PROVE  Counts(Of(a))["unanalysed"] = Cardinality({i \in Q : AccountOf[batch[i]] = a})
      OBVIOUS
    <3>1. {i \in Of(a) : EntryAt(i).error} = {i \in Q : AccountOf[batch[i]] = a}
      BY DEF Of
    <3> QED BY <3>1 DEF Counts, CountIn
  <2>2. Q \in SUBSET Places OBVIOUS
  <2>3. stats.all["unanalysed"] = Cardinality(Q) BY DEF Stats, Counts, CountIn
  <2>. HIDE DEF Q
  <2> QED BY <2>1, <2>2, <2>3, FieldAddsUp
<1>6. SumOf("classified") = Cardinality({i \in Places : batch[i] \in ClassifiedKeys})
  <2>. DEFINE Q == {i \in Places : batch[i] \in ClassifiedKeys}
  <2>1. \A a \in Accounts : Counts(Of(a))["classified"] = Cardinality({i \in Q : AccountOf[batch[i]] = a})
    <3> SUFFICES ASSUME NEW a \in Accounts
                 PROVE  Counts(Of(a))["classified"] = Cardinality({i \in Q : AccountOf[batch[i]] = a})
      OBVIOUS
    <3>1. {i \in Of(a) : batch[i] \in ClassifiedKeys} = {i \in Q : AccountOf[batch[i]] = a}
      BY DEF Of
    <3> QED BY <3>1 DEF Counts, CountIn
  <2>2. Q \in SUBSET Places OBVIOUS
  <2>. HIDE DEF Q
  <2>3. SumOf("classified") = Cardinality(Q) BY <2>1, <2>2, FieldAddsUp
  <2> QED BY <2>3 DEF Q
<1> QED BY <1>1, <1>2, <1>3, <1>4, <1>5, <1>6

\* The numbers of one account.
LEMMA AccountAddsUp ==
  ASSUME InputsOK, NEW a
  PROVE  LET n == Counts(Of(a)) IN
         /\ n.classified + n.failed = n.fetched /\ n.read + n.unread = n.fetched
         /\ SumFunction(n.byLabel) = n.fetched /\ n.unanalysed <= n.failed
<1>. DEFINE S == Of(a)
            n == Counts(S)
<1>0. S \in SUBSET Places BY DEF Of
<1>. HIDE DEF S
<1>1. IsFiniteSet(S) BY <1>0, PlacesOfBatch, FS_Subset
<1>2. n.fetched = Cardinality(S) BY DEF Counts
<1>3. n.classified + n.failed = n.fetched
  <2>. DEFINE A == {i \in S : batch[i] \in ClassifiedKeys}
              B == {i \in S : batch[i] \notin ClassifiedKeys}
  <2>1. A \cup B = S /\ A \cap B = {} OBVIOUS
  <2>2. n.classified = Cardinality(A) /\ n.failed = Cardinality(B) BY DEF Counts, CountIn
  <2>. HIDE DEF A, B, n
  <2> QED BY <1>1, <1>2, <2>1, <2>2, Split
<1>4. n.read + n.unread = n.fetched
  <2>. DEFINE A == {i \in S : Read[i]}
              B == {i \in S : ~Read[i]}
  <2>1. A \cup B = S /\ A \cap B = {} OBVIOUS
  <2>2. n.read = Cardinality(A) /\ n.unread = Cardinality(B) BY DEF Counts, CountIn
  <2>. HIDE DEF A, B, n
  <2> QED BY <1>1, <1>2, <2>1, <2>2, Split
<1>5. SumFunction(n.byLabel) = n.fetched
  <2>. DEFINE f == n.byLabel
              class == [i \in S |-> EntryAt(i).label]
  <2>1. DOMAIN f = AnyLabel BY DEF Counts
  <2>2. \A l \in AnyLabel : f[l] = Cardinality({i \in S : class[i] = l})
    <3> SUFFICES ASSUME NEW l \in AnyLabel
                 PROVE  f[l] = Cardinality({i \in S : class[i] = l})
      OBVIOUS
    <3>1. {i \in S : EntryAt(i).label = l} = {i \in S : class[i] = l} OBVIOUS
    <3>2. f[l] = Cardinality({i \in S : EntryAt(i).label = l}) BY DEF Counts, CountIn
    <3>. HIDE DEF f, class
    <3> QED BY <3>1, <3>2
  <2>3. \A i \in S : class[i] \in AnyLabel BY <1>0, EntryHolds
  <2>4. IsFiniteSet(AnyLabel)
    BY DigestAssumption, FS_AddElement DEF AnyLabel
  <2>. HIDE DEF f, class
  <2>5. SumFunction(f) = Cardinality(S) BY <1>1, <2>1, <2>2, <2>3, <2>4, CountsByClass
  <2> QED BY <1>2, <2>5 DEF f
<1>6. n.unanalysed <= n.failed
  <2>. DEFINE A == {i \in S : EntryAt(i).error}
              B == {i \in S : batch[i] \notin ClassifiedKeys}
  <2>1. A \in SUBSET B
    <3> SUFFICES ASSUME NEW i \in A PROVE batch[i] \notin ClassifiedKeys OBVIOUS
    <3>1. batch[i] \in call.bad BY <1>0, EntryHolds
    <3> QED BY <3>1 DEF InputsOK
  <2>2. n.unanalysed = Cardinality(A) /\ n.failed = Cardinality(B) BY DEF Counts, CountIn
  <2>3. B \in SUBSET S OBVIOUS
  <2>. HIDE DEF A, B, n
  <2>4. IsFiniteSet(B) BY <1>1, <2>3, FS_Subset
  <2> QED BY <2>1, <2>2, <2>4, FS_Subset
<1> QED BY <1>3, <1>4, <1>5, <1>6 DEF S

\* The classifications of the provider and the classified messages.
LEMMA ClassifiedAddsUp ==
  ASSUME InputsOK, NEW C, C = {i \in Places : batch[i] \in ClassifiedKeys}
  PROVE  /\ Extras = {} /\ Repeats = 0 => Cardinality(ClassifiedKeys) = Cardinality(C)
         /\ Cardinality(ClassifiedKeys) <= Cardinality(C) + Cardinality(Extras)
<1>. DEFINE K == ClassifiedKeys \cap ToSet(batch)
            h == [i \in C |-> batch[i]]
<1>1. IsFiniteSet(ClassifiedKeys)
  <2>1. ClassifiedKeys \in SUBSET Messages BY DEF ClassifiedKeys, Labelled
  <2> QED BY <2>1, DigestAssumption, FS_Subset
<1>2. IsFiniteSet(C) /\ Cardinality(C) \in Nat
  <2>1. C \in SUBSET Places OBVIOUS
  <2> QED BY <2>1, PlacesOfBatch, FS_Subset, FS_CardinalityType
<1>3. h \in Surjection(C, K)
  <2>1. \A k \in K : \E i \in C : batch[i] = k BY DEF ToSet, Places
  <2>2. \A i \in C : batch[i] \in K BY DEF ToSet, Places
  <2> QED BY <2>1, <2>2 DEF Surjection
<1>4. K \cup Extras = ClassifiedKeys /\ K \cap Extras = {} BY DEF Extras
<1>5. Extras = {} => K = ClassifiedKeys BY <1>4
<1>6. Repeats = 0 => h \in Injection(C, K)
  <2> SUFFICES ASSUME Repeats = 0 PROVE h \in Injection(C, K) OBVIOUS
  <2>1. batch \in Surjection(Places, ToSet(batch))
    <3>1. batch \in [Places -> ToSet(batch)]
      <4>1. batch \in Seq(Messages) BY DEF InputsOK
      <4>2. batch = [i \in Places |-> batch[i]] BY <4>1, LenProperties, PlacesOfBatch
      <4> QED BY <4>2 DEF ToSet, Places
    <3> QED BY <3>1 DEF Surjection, ToSet, Places
  <2>2. Cardinality(ToSet(batch)) = Cardinality(Places)
    <3>1. IsFiniteSet(ToSet(batch)) BY <2>1, PlacesOfBatch, FS_Surjection
    <3>2. Cardinality(ToSet(batch)) \in Nat BY <3>1, FS_CardinalityType
    <3> QED BY <3>2, PlacesOfBatch DEF Repeats
  <2>3. batch \in Injection(Places, ToSet(batch))
    BY <2>1, <2>2, PlacesOfBatch, FS_Surjection
  <2>4. \A i, j \in Places : batch[i] = batch[j] => i = j
    BY <2>3 DEF Injection, IsInjective, Places
  <2>5. h \in [C -> K] BY <1>3 DEF Surjection
  <2>6. C \subseteq Places OBVIOUS
  <2> QED BY <2>4, <2>5, <2>6 DEF Injection, IsInjective
<1>. HIDE DEF K, h
<1>7. /\ Cardinality(K) <= Cardinality(C)
      /\ Cardinality(K) = Cardinality(C) <=> h \in Injection(C, K)
  BY <1>2, <1>3, FS_Surjection
<1>8. /\ Cardinality(K) \in Nat /\ Cardinality(Extras) \in Nat
      /\ Cardinality(K) + Cardinality(Extras) = Cardinality(ClassifiedKeys)
  BY <1>1, <1>4, Split
<1>9. Cardinality(ClassifiedKeys) <= Cardinality(C) + Cardinality(Extras)
  BY <1>2, <1>7, <1>8
<1>10. Extras = {} /\ Repeats = 0 => Cardinality(ClassifiedKeys) = Cardinality(C)
  BY <1>5, <1>6, <1>7
<1> QED BY <1>9, <1>10

-----------------------------------------------------------------------------
(* Highlights *)

\* The urgent entries are as many as the summary counts.
LEMMA UrgentCounted ==
  ASSUME InputsOK, NEW U, U = {e \in Listed : IsHigh(e)}
  PROVE  IsFiniteSet(U) /\ Cardinality(U) = HighOf(Places) /\ HighOf(Places) \in Nat
<1>. DEFINE H == {i \in Places : batch[i] \in ClassifiedKeys /\ EntryAt(i).priority = "high"}
            h == [i \in H |-> EntryAt(i)]
<1>1. HighOf(Places) = Cardinality(H) BY DEF HighOf, CountIn
<1>2. IsFiniteSet(H)
  <2>1. H \in SUBSET Places OBVIOUS
  <2>. HIDE DEF H
  <2> QED BY <2>1, PlacesOfBatch, FS_Subset
<1>3. \A i \in Places : /\ Entries[i] = EntryAt(i) /\ EntryAt(i).at = i
                        /\ IsHigh(EntryAt(i)) => batch[i] \in ClassifiedKeys
  BY EntryHolds
<1>4. Listed = {Entries[i] : i \in Places} BY DEF Listed, ToSet, Entries
<1>a. /\ DOMAIN h = H
      /\ \A i \in H : i \in Places /\ h[i] = EntryAt(i) /\ IsHigh(EntryAt(i))
  BY DEF IsHigh
<1>b. \A i \in Places : IsHigh(EntryAt(i)) => i \in H BY <1>3 DEF IsHigh
<1>c. h = [i \in H |-> h[i]] OBVIOUS
<1>. HIDE DEF H, h
<1>5. h \in [H -> U]
  <2>1. \A i \in H : h[i] \in U
    <3> SUFFICES ASSUME NEW i \in H PROVE h[i] \in U OBVIOUS
    <3>1. i \in Places /\ h[i] = EntryAt(i) /\ IsHigh(EntryAt(i)) BY <1>a
    <3>2. h[i] \in Listed BY <3>1, <1>3, <1>4
    <3> QED BY <3>1, <3>2
  <2> QED BY <2>1, <1>a, <1>c
<1>6. \A e \in U : \E i \in H : h[i] = e
  <2> SUFFICES ASSUME NEW e \in U PROVE \E i \in H : h[i] = e OBVIOUS
  <2>1. PICK i \in Places : e = Entries[i] BY <1>4
  <2>2. e = EntryAt(i) /\ IsHigh(e) BY <2>1, <1>3
  <2> QED BY <2>2, <1>a, <1>b
<1>7. \A i, j \in H : h[i] = h[j] => i = j
  <2> SUFFICES ASSUME NEW i \in H, NEW j \in H, h[i] = h[j] PROVE i = j OBVIOUS
  <2>1. i \in Places /\ j \in Places /\ EntryAt(i) = EntryAt(j) BY <1>a
  <2> QED BY <2>1, <1>3
<1>8. h \in Surjection(H, U) /\ h \in Injection(H, U)
  BY <1>5, <1>6, <1>7 DEF Surjection, Injection, IsInjective
<1>9. IsFiniteSet(U) /\ Cardinality(U) = Cardinality(H) BY <1>2, <1>8, FS_Surjection
<1>10. Cardinality(H) \in Nat BY <1>2, FS_CardinalityType
<1> QED BY <1>1, <1>9, <1>10

LEMMA LengthIsCount ==
  ASSUME NEW E, NEW s \in Seq(E), IsInjective(s)
  PROVE  IsFiniteSet(ToSet(s)) /\ Cardinality(ToSet(s)) = Len(s) /\ Len(s) \in Nat
<1>1. DOMAIN s = 1..Len(s) /\ Len(s) \in Nat /\ s = [i \in DOMAIN s |-> s[i]] BY LenProperties
<1>2. s \in Surjection(1..Len(s), ToSet(s)) BY <1>1 DEF Surjection, ToSet
<1>3. s \in Injection(1..Len(s), ToSet(s)) BY <1>1, <1>2 DEF Surjection, Injection
<1>4. IsFiniteSet(1..Len(s)) /\ Cardinality(1..Len(s)) = Len(s) BY <1>1, UpTo
<1> QED BY <1>1, <1>2, <1>3, <1>4, FS_Surjection

\* What is under "Needs Attention", against the number of urgent messages.
LEMMA AttentionHolds ==
  ASSUME InputsOK, NEW s, Reordered(s), NEW d, d = Markdown(s)
  PROVE  /\ HighOf(Places) > 0 <=> d.attention # <<>>
         /\ Len(d.attention) <= HighOf(Places)
         /\ Len(d.attention) < HighOf(Places) => Len(d.shown) = config.cap
<1>. DEFINE f == PriorityFilter(s)
            shown == Best(f)
            att == Urgent(shown)
            U == {e \in Listed : IsHigh(e)}
            high == HighOf(Places)
<1>1. d.attention = att /\ d.shown = shown BY DEF Markdown
<1>. HIDE DEF f
<1>2. f \in Seq(Listed) /\ ToSet(f) = Eligible /\ IsInjective(f) BY FilterHolds DEF f
<1>. HIDE DEF shown
<1>3. /\ shown \in Seq(Listed) /\ IsInjective(shown) /\ ToSet(shown) \subseteq Eligible
      /\ \A e \in ToSet(shown), g \in Eligible \ ToSet(shown) : ~Ahead(g, e)
      /\ Eligible \ ToSet(shown) # {} => config.cap > 0 /\ Len(shown) = config.cap
  BY <1>2, BestHolds DEF shown
<1>. HIDE DEF att
<1>4. att \in Seq(Listed) /\ IsInjective(att) /\ ToSet(att) = {e \in ToSet(shown) : IsHigh(e)}
  BY <1>3, UrgentHolds DEF att
<1>5. IsFiniteSet(U) /\ Cardinality(U) = high /\ high \in Nat BY UrgentCounted
<1>. HIDE DEF high
<1>6. IsFiniteSet(ToSet(att)) /\ Cardinality(ToSet(att)) = Len(att) /\ Len(att) \in Nat
  BY <1>4, LengthIsCount
<1>7. ToSet(att) \in SUBSET U /\ U \subseteq Eligible BY <1>3, <1>4 DEF Eligible
<1>8. att = <<>> <=> ToSet(att) = {}
  <2>1. att = <<>> <=> Len(att) = 0 BY <1>4, EmptySeq
  <2>2. Len(att) = 0 <=> ToSet(att) = {} BY <1>6, FS_EmptySet
  <2> QED BY <2>1, <2>2
<1>9. high = 0 <=> U = {} BY <1>5, FS_EmptySet
<1>10. Len(att) <= high
  <2>. HIDE DEF U
  <2> QED BY <1>5, <1>6, <1>7, FS_Subset
<1>11. ToSet(att) # U => Eligible \ ToSet(shown) # {} BY <1>4, <1>7
<1>12. Len(att) < high => Len(shown) = config.cap
  <2>1. Len(att) < high => ToSet(att) # U
    <3>. HIDE DEF U
    <3> QED BY <1>5, <1>6
  <2> QED BY <1>3, <1>11, <2>1
<1>13. U # {} => ToSet(att) # {}
  <2> SUFFICES ASSUME NEW e \in U, ToSet(att) = {} PROVE FALSE OBVIOUS
  <2>1. e \in Eligible \ ToSet(shown) BY <1>4, <1>7
  <2>2. config.cap > 0 /\ Len(shown) = config.cap BY <1>3, <2>1
  <2>3. DOMAIN shown = 1..Len(shown) /\ Len(shown) \in Nat BY <1>3, LenProperties
  <2>4. shown[1] \in ToSet(shown) BY <2>2, <2>3 DEF ToSet
  <2>5. ~Ahead(e, shown[1]) BY <1>3, <2>1, <2>4
  <2>6. Rank(e) = 0 BY Ranked
  <2>7. Rank(shown[1]) \in Nat BY Ranked
  <2>8. Rank(shown[1]) = 0 BY <2>5, <2>6, <2>7 DEF Ahead
  <2>9. IsHigh(shown[1]) BY <2>8, Ranked
  <2> QED BY <1>4, <2>4, <2>9
<1>14. ToSet(att) # {} => U # {} BY <1>7
<1>15. high > 0 <=> att # <<>> BY <1>5, <1>8, <1>9, <1>13, <1>14
<1> QED BY <1>1, <1>10, <1>12, <1>15 DEF high

LEMMA NewsOfUrgent ==
  ASSUME InputsOK, notes = Highlights
  PROVE  notes \cap [kind : {"high"}, about : Nat] # {} <=> HighOf(Places) > 0
<1>1. HighOf(Places) \in Nat BY UrgentCounted
<1>2. Stats.high = HighOf(Places) BY DEF Stats
<1>3. ASSUME HighOf(Places) > 0
      PROVE  News("high", HighOf(Places)) \in notes \cap [kind : {"high"}, about : Nat]
  <2>1. News("high", HighOf(Places)) \in notes BY <1>2, <1>3 DEF Highlights
  <2> QED BY <1>1, <2>1 DEF News
<1>4. ASSUME NEW n \in notes, n.kind = "high" PROVE HighOf(Places) > 0
  BY <1>2, <1>4 DEF Highlights, News
<1> QED BY <1>3, <1>4

\* Against a run with the same numbers nothing has changed.
LEMMA NoNewsOfChange ==
  ASSUME InputsOK, notes = Highlights, stats = Stats,
         previous # NoSnapshot, previous.ads = stats.all.byLabel[Promotions],
         previous.broken = Cardinality(fetchErr),
         \A s \in Senders : previous.sent[s] = SentBy(s),
         NEW n \in notes
  PROVE  n.kind \in {"high", "failed"}
<1>. DEFINE ads == Stats.all.byLabel[Promotions]
<1>1. ads \in Nat
  <2>. DEFINE A == {i \in Places : EntryAt(i).label = Promotions}
  <2>1. Promotions \in AnyLabel BY DigestAssumption DEF AnyLabel
  <2>2. ads = Cardinality(A) BY <2>1 DEF Stats, Counts, CountIn
  <2>3. A \in SUBSET Places OBVIOUS
  <2>. HIDE DEF A, ads
  <2>4. IsFiniteSet(A) BY <2>3, PlacesOfBatch, FS_Subset
  <2> QED BY <2>2, <2>4, FS_CardinalityType
<1>2. Cardinality(fetchErr) \in Nat
  BY AccountsFinite, FS_Subset, FS_CardinalityType DEF InputsOK
<1>3. \A s \in Senders : SentBy(s) \in Nat
  <2> SUFFICES ASSUME NEW s \in Senders PROVE SentBy(s) \in Nat OBVIOUS
  <2>. DEFINE A == {i \in Places : Sender[i] = s}
  <2>1. A \in SUBSET Places /\ SentBy(s) = Cardinality(A) BY DEF SentBy, CountIn
  <2>. HIDE DEF A
  <2>2. IsFiniteSet(A) BY <2>1, PlacesOfBatch, FS_Subset
  <2> QED BY <2>1, <2>2, FS_CardinalityType
<1>4. previous.ads = ads OBVIOUS
<1>. HIDE DEF ads
<1>5. ~(ads > previous.ads) /\ ~(Cardinality(fetchErr) > previous.broken)
      /\ \A s \in Senders : ~(SentBy(s) > previous.sent[s])
  BY <1>1, <1>2, <1>3, <1>4
<1>6. \/ n \in {News("high", Stats.high)}
      \/ n \in {News("failed", a) : a \in fetchErr}
  BY <1>5 DEF Highlights, ads
<1> QED BY <1>6 DEF News


-----------------------------------------------------------------------------
(* The invariant *)

Built == Reordered(entries) /\ stats = Stats /\ notes = Highlights
NotBuilt == entries = <<>> /\ stats = NoDigest /\ notes = {} /\ digest = NoDigest
FromEntries == digest.by = "fallback" \/ \E s : Reordered(s) /\ digest = Markdown(s)

Inv ==
  /\ InputsOK /\ (Built \/ NotBuilt)
  /\ Rendered => Built /\ FromEntries

\* What is computed depends on the inputs alone.
LEMMA InputsKept ==
  ASSUME UNCHANGED inputs
  PROVE  /\ InputsOK' = InputsOK /\ Entries' = Entries /\ Listed' = Listed
         /\ Stats' = Stats /\ Highlights' = Highlights
         /\ \A s : Reordered(s)' = Reordered(s) /\ Markdown(s)' = Markdown(s)
<1>1. /\ Entries' = Entries /\ Stats' = Stats
  BY DEF inputs, Stats, Counts, CountIn, Places, Entries, EntryAt,
         ClassifiedKeys, Labelled, HighOf, Of, Top, MoreFrequent, Senders, SentBy
<1>2. Highlights' = Highlights
  BY <1>1 DEF inputs, Highlights, Senders, SentBy, CountIn, Places
<1>3. InputsOK' = InputsOK BY DEF inputs, InputsOK, ClassifiedKeys, Labelled, Accounts
<1>4. Listed' = Listed BY <1>1 DEF Listed, ToSet
<1>5. \A s : Reordered(s)' = Reordered(s) BY <1>4 DEF Reordered, ToSet, IsInjective
<1>6. \A s : Markdown(s)' = Markdown(s)
  BY DEF inputs, Markdown, Best, Capped, OverCap, PriorityFilter
<1> QED BY <1>1, <1>2, <1>3, <1>4, <1>5, <1>6

LEMMA InvKept ==
  ASSUME Inv, UNCHANGED inputs, stats' = Stats, notes' = Highlights, Reordered(entries'),
         \/ digest' = digest
         \/ digest'.by = "fallback"
         \/ Reordered(entries) /\ digest' = Markdown(entries)
  PROVE  Inv'
<1>1. InputsOK' BY InputsKept DEF Inv
<1>2. Built' BY InputsKept DEF Built
<1>3. ASSUME Rendered' PROVE FromEntries'
  <2>. SUFFICES ASSUME digest'.by # "fallback"
                PROVE  \E s : Reordered(s)' /\ digest' = Markdown(s)'
    BY DEF FromEntries
  <2>1. \E s : Reordered(s) /\ digest' = Markdown(s)
    <3>1. CASE digest' = digest
      BY <1>3, <3>1 DEF Inv, FromEntries, Rendered
    <3>2. CASE Reordered(entries) /\ digest' = Markdown(entries) BY <3>2
    <3> QED BY <3>1, <3>2
  <2> QED BY <2>1, InputsKept
<1> QED BY <1>1, <1>2, <1>3 DEF Inv

LEMMA InvInit == Init => Inv
<1> SUFFICES ASSUME Init PROVE Inv OBVIOUS
<1>1. batch \in Seq(Messages) /\ date \in [DOMAIN batch -> Nat]
  BY DigestAssumption DEF Init
<1>2. /\ call.label \in Labelling /\ call.bad \subseteq ToSet(batch)
      /\ call.bad \cap ClassifiedKeys = {}
  <2>1. CASE call = Failure
    BY <2>1 DEF Failure, Labelling, ClassifiedKeys, Labelled
  <2>2. CASE \E r \in Results(ToSet(batch), TRUE, TRUE) :
               call = [err |-> FALSE, label |-> r.label, bad |-> r.bad]
    BY <2>2 DEF Results, ClassifiedKeys
  <2> QED BY <2>1, <2>2 DEF Init, Calls
<1>3. /\ priority \in [Messages -> {"high", "medium", "low", ""}]
      /\ \A m \in Messages : call.label[m] = NoLabel => priority[m] = ""
      /\ config.cap \in Nat /\ fetchErr \subseteq Accounts
  BY DigestAssumption DEF Init
<1>4. NotBuilt BY DEF Init, NotBuilt
<1> QED BY <1>1, <1>2, <1>3, <1>4 DEF Inv, InputsOK, NotBuilt, Rendered

LEMMA InvNext == Inv /\ [Next]_vars => Inv'
<1> SUFFICES ASSUME Inv, [Next]_vars PROVE Inv' OBVIOUS
<1>1. CASE Build
  <2>1. UNCHANGED inputs /\ entries' = Entries /\ stats' = Stats /\ notes' = Highlights
        /\ digest' = digest
    BY <1>1 DEF Build
  <2>2. Reordered(entries') BY <2>1, EntriesHold DEF Inv
  <2> QED BY <2>1, <2>2, InvKept
<1>2. CASE RenderMarkdown
  <2>1. Built BY <1>2 DEF RenderMarkdown, Inv, NotBuilt
  <2>2. UNCHANGED inputs /\ stats' = Stats /\ notes' = Highlights
        /\ digest' = Markdown(entries)
    BY <1>2, <2>1 DEF RenderMarkdown, Built
  <2>3. Reordered(entries')
    <3>1. entries \in Seq(Listed) /\ ToSet(entries) = Listed /\ IsInjective(entries)
      BY <2>1 DEF Built, Reordered
    <3>2. \A e \in Listed : e.date \in Nat BY EntriesHold DEF Inv
    <3>3. Reordered(StableSort(entries)) BY <3>1, <3>2, SortHolds DEF Reordered
    <3>4. entries' \in {entries, StableSort(entries)} BY <1>2 DEF RenderMarkdown
    <3> QED BY <2>1, <3>3, <3>4 DEF Built
  <2> QED BY <2>1, <2>2, <2>3, InvKept DEF Built
<1>3. CASE RenderFallback
  <2>1. Built BY <1>3 DEF RenderFallback, Inv, NotBuilt
  <2>2. UNCHANGED inputs /\ stats' = Stats /\ notes' = Highlights
        /\ entries' = entries /\ digest'.by = "fallback"
    BY <1>3, <2>1 DEF RenderFallback, Built, Fallback
  <2> QED BY <2>1, <2>2, InvKept DEF Built
<1>4. CASE UNCHANGED vars
  <2>1. UNCHANGED <<inputs, entries, stats, notes, digest>> BY <1>4 DEF vars
  <2>2. CASE Built BY <2>1, <2>2, InvKept DEF Built
  <2>3. CASE NotBuilt
    <3>1. InputsOK' BY <2>1, InputsKept DEF Inv
    <3> QED BY <2>1, <2>3, <3>1 DEF Inv, NotBuilt, Rendered
  <2> QED BY <2>2, <2>3 DEF Inv
<1> QED BY <1>1, <1>2, <1>3, <1>4 DEF Next

\* The digest is always made from the entries, the statistics and the highlights
\* of the batch, whatever order sorting for the cap has left the entries in.
THEOREM InvariantHolds == Spec => []Inv
<1>1. Init => Inv BY InvInit
<1>2. Inv /\ [Next]_vars => Inv' BY InvNext
<1> QED BY <1>1, <1>2, PTL DEF Spec

-----------------------------------------------------------------------------
(* The properties *)

\* A markdown digest is rendered from some order of the entries.
LEMMA RenderedFrom ==
  ASSUME Inv, Rendered, digest.by = "markdown"
  PROVE  /\ Built /\ ToSet(entries) = Listed
         /\ \E s : Reordered(s) /\ digest = Markdown(s)
BY DEF Inv, Built, Reordered, FromEntries

LEMMA ShownOf ==
  ASSUME InputsOK, NEW s, Reordered(s), NEW shown, shown = Best(PriorityFilter(s))
  PROVE  /\ shown \in Seq(Listed) /\ IsInjective(shown) /\ ToSet(shown) \subseteq Eligible
         /\ \A e \in ToSet(shown), g \in Eligible \ ToSet(shown) : ~Ahead(g, e)
         /\ Eligible \ ToSet(shown) # {} => config.cap > 0 /\ Len(shown) = config.cap
<1>. DEFINE f == PriorityFilter(s)
<1>1. f \in Seq(Listed) /\ ToSet(f) = Eligible /\ IsInjective(f) BY FilterHolds
<1>. HIDE DEF f
<1> QED BY <1>1, BestHolds DEF f

\* What Markdown leaves out for the cap is no more urgent, and no more recent
\* among its equals, than anything it lists; without a cap nothing is left out.
THEOREM MostUrgentIsShown == Spec => []ShowsMostUrgent
<1>1. Inv => ShowsMostUrgent
  <2> SUFFICES ASSUME Inv, Rendered, digest.by = "markdown"
               PROVE  ShowsMostUrgent
    BY DEF ShowsMostUrgent
  <2>1. PICK s : Reordered(s) /\ digest = Markdown(s) BY RenderedFrom
  <2>. DEFINE shown == digest.shown
  <2>2. shown = Best(PriorityFilter(s)) BY <2>1 DEF Markdown
  <2>3. /\ ToSet(shown) \subseteq Eligible
        /\ \A e \in ToSet(shown), g \in Eligible \ ToSet(shown) : ~Ahead(g, e)
        /\ Eligible \ ToSet(shown) # {} => config.cap > 0 /\ Len(shown) = config.cap
    BY <2>1, <2>2, ShownOf DEF Inv
  <2>4. Eligible = {e \in ToSet(entries) : config.priorityOnly => IsHigh(e)}
    BY RenderedFrom DEF Eligible
  <2>5. Hidden \cap Eligible = Eligible \ ToSet(shown)
    BY <2>4 DEF Hidden, Shown
  <2> QED BY <2>3, <2>4, <2>5 DEF ShowsMostUrgent, Shown
<1> QED BY <1>1, InvariantHolds, PTL

\* renderMarkdown lists each shown message in one section and once, sections are
\* in order of urgency, and "Needs Attention" repeats the urgent ones.
THEOREM SectionsAreComplete == Spec => []SectionsHoldShown
<1>1. Inv => SectionsHoldShown
  <2> SUFFICES ASSUME Inv, Rendered, digest.by = "markdown"
               PROVE  SectionsHoldShown
    BY DEF SectionsHoldShown
  <2>1. PICK s : Reordered(s) /\ digest = Markdown(s) BY RenderedFrom
  <2>. DEFINE shown == digest.shown
              g == digest.groups
  <2>2. shown = Best(PriorityFilter(s)) /\ g = Groups(shown) /\ digest.attention = Urgent(shown)
    BY <2>1 DEF Markdown
  <2>3. InputsOK BY DEF Inv
  <2>. HIDE DEF shown, g
  <2>4. shown \in Seq(Listed) /\ IsInjective(shown) BY <2>1, <2>2, <2>3, ShownOf
  <2>5. \A e : Cardinality({p \in (DOMAIN g) \X (1..Len(shown)) :
                             p[2] <= Len(g[p[1]]) /\ g[p[1]][p[2]] = e})
                 = IF e \in ToSet(shown) THEN 1 ELSE 0
    BY <2>2, <2>3, <2>4, SectionsHold
  <2>6. \A l \in DOMAIN g : \A i, j \in DOMAIN g[l] : i < j => ~Ahead(g[l][j], g[l][i])
    <3> SUFFICES ASSUME NEW l \in DOMAIN g
                 PROVE  \A i, j \in DOMAIN g[l] : i < j => ~Ahead(g[l][j], g[l][i])
      OBVIOUS
    <3>1. l \in {e.label : e \in ToSet(shown)} BY <2>2 DEF Groups
    <3> QED BY <2>2, <2>3, <2>4, <3>1, GroupHolds
  <2>7. ToSet(digest.attention) = {e \in ToSet(shown) : IsHigh(e)} BY <2>2, <2>4, UrgentHolds
  <2> QED BY <2>5, <2>6, <2>7 DEF SectionsHoldShown, Shown, shown, g
<1> QED BY <1>1, InvariantHolds, PTL

\* buildDigestStats counts each message of the batch once in each breakdown, by
\* account, by classification, by read flag and by label.
THEOREM NumbersAddUp == Spec => []CountsAddUp
<1>1. Inv => CountsAddUp
  <2> SUFFICES ASSUME Inv, stats # NoDigest PROVE CountsAddUp BY DEF CountsAddUp
  <2>1. InputsOK /\ stats = Stats BY DEF Inv, Built, NotBuilt
  <2>. DEFINE C == {i \in Places : batch[i] \in ClassifiedKeys}
  <2>2. /\ \A field \in {"fetched", "read", "unread", "failed", "unanalysed"} :
             stats.all[field] = SumOf(field)
        /\ SumOf("classified") = Cardinality(C)
    BY <2>1, FieldsAddUp
  <2>3. \A a \in Accounts : stats.account[a] = Counts(Of(a)) BY <2>1 DEF Stats
  <2>4. \A a \in Accounts : LET n == stats.account[a] IN
          /\ n.classified + n.failed = n.fetched /\ n.read + n.unread = n.fetched
          /\ SumFunction(n.byLabel) = n.fetched /\ n.unanalysed <= n.failed
    BY <2>1, <2>3, AccountAddsUp
  <2>5. stats.all.classified = Cardinality(ClassifiedKeys) BY <2>1 DEF Stats, Counts
  <2>6. /\ Extras = {} /\ Repeats = 0 => Cardinality(ClassifiedKeys) = Cardinality(C)
        /\ Cardinality(ClassifiedKeys) <= Cardinality(C) + Cardinality(Extras)
    BY <2>1, ClassifiedAddsUp
  <2>. HIDE DEF C
  <2> QED BY <2>2, <2>4, <2>5, <2>6 DEF CountsAddUp
<1> QED BY <1>1, InvariantHolds, PTL

\* buildHighlights announces urgent messages exactly when "Needs Attention" lists
\* some, as many unless the cap hides some, and no change when there is none.
THEOREM HighlightsAreTrue == Spec => []HighlightsTruthful
<1>1. ASSUME Inv, Rendered, digest.by = "markdown"
      PROVE  /\ notes \cap [kind: {"high"}, about: Nat] # {} <=> digest.attention # <<>>
             /\ Len(digest.attention) <= stats.high
             /\ Len(digest.attention) < stats.high => Len(digest.shown) = config.cap
  <2>1. PICK s : Reordered(s) /\ digest = Markdown(s) BY <1>1, RenderedFrom
  <2>2. InputsOK /\ stats = Stats /\ notes = Highlights
    BY <1>1, RenderedFrom DEF Inv, Built
  <2>3. stats.high = HighOf(Places) BY <2>2 DEF Stats
  <2>4. notes \cap [kind: {"high"}, about: Nat] # {} <=> HighOf(Places) > 0
    BY <2>2, NewsOfUrgent
  <2>5. /\ HighOf(Places) > 0 <=> digest.attention # <<>>
        /\ Len(digest.attention) <= HighOf(Places)
        /\ Len(digest.attention) < HighOf(Places) => Len(digest.shown) = config.cap
    BY <2>1, <2>2, AttentionHolds
  <2> QED BY <2>3, <2>4, <2>5
<1>2. ASSUME Inv, previous # NoSnapshot, stats # NoDigest,
             previous.ads = stats.all.byLabel[Promotions],
             previous.broken = Cardinality(fetchErr),
             \A s \in Senders : previous.sent[s] = SentBy(s),
             NEW n \in notes
      PROVE  n.kind \in {"high", "failed"}
  <2>1. InputsOK /\ stats = Stats /\ notes = Highlights BY <1>2 DEF Inv, Built, NotBuilt
  <2> QED BY <1>2, <2>1, NoNewsOfChange
<1>3. Inv => HighlightsTruthful BY <1>1, <1>2 DEF HighlightsTruthful
<1> QED BY <1>3, InvariantHolds, PTL

=============================================================================
