----------------------------- MODULE Picks_proofs -----------------------------
(***************************************************************************)
(* Every finite set of numbers can be put in order, so that Picked is the  *)
(* subsequence it is meant to be; every list of numbers has a sum, which   *)
(* grows with them; and lists one after another hold the elements of each, *)
(* in order.                                                               *)
(***************************************************************************)
EXTENDS Picks, FiniteSetTheorems, WellFoundedInduction, TLAPS

\* Some number of a set is the least.
LEMMA LeastNumber ==
  ASSUME NEW I, I \subseteq Nat, I # {}
  PROVE  \E u \in I : \A v \in I : u <= v
<1> DEFINE Less == OpToRel(<, Nat)
<1>1. IsWellFoundedOn(Less, Nat)
  BY NatLessThanWellFounded
<1> HIDE DEF Less
<1>2. PICK u \in I : \A v \in I : <<v, u>> \notin Less
  BY <1>1, WFMin, Zenon
<1>3. \A v \in I : ~(v < u)
  <2> SUFFICES ASSUME NEW v \in I, v < u
               PROVE  FALSE
    OBVIOUS
  <2>1. <<v, u>> \in Nat \X Nat /\ <<v, u>>[1] < <<v, u>>[2]
    OBVIOUS
  <2> QED BY <1>2, <2>1 DEF Less, OpToRel
<1> QED BY <1>3

-----------------------------------------------------------------------------
(* Places in order.                                                         *)

\* Before[x] has what stands before x: an order of S with nothing beside
\* anything else.
Lines(S, Before) ==
  /\ Before \in [S -> SUBSET S]
  /\ \A x \in S : x \notin Before[x]
  /\ \A x, y \in S : x # y => x \in Before[y] \/ y \in Before[x]
  /\ \A x, y, z \in S : x \in Before[y] /\ y \in Before[z] => x \in Before[z]

\* The elements of S, each after those before it.
InLine(S, Before) ==
  [k \in 1..Cardinality(S) |-> CHOOSE x \in S : Cardinality(Before[x]) = k - 1]

\* Before the k-th element of a finite order stand k - 1, and every element has
\* its number.
LEMMA InLineIs ==
  ASSUME NEW S, IsFiniteSet(S), NEW Before, Lines(S, Before)
  PROVE  /\ Cardinality(S) \in Nat
         /\ InLine(S, Before) \in [1..Cardinality(S) -> S]
         /\ \A i, j \in 1..Cardinality(S) : i < j => InLine(S, Before)[i] \in Before[InLine(S, Before)[j]]
         /\ \A x \in S : \E k \in 1..Cardinality(S) : InLine(S, Before)[k] = x
<1> DEFINE n == Cardinality(S)
           rank == [x \in S |-> Cardinality(Before[x]) + 1]
           line == InLine(S, Before)
<1>1. n \in Nat
  BY FS_CardinalityType, Zenon
<1>2. ASSUME NEW x \in S
      PROVE  IsFiniteSet(Before[x]) /\ Cardinality(Before[x]) \in Nat /\ Cardinality(Before[x]) + 1 \in 1..n
  <2>1. Before[x] \in SUBSET S /\ Before[x] # S
    BY Zenon DEF Lines
  <2>2. IsFiniteSet(Before[x]) /\ Cardinality(Before[x]) <= n /\ Cardinality(Before[x]) # n
    BY <2>1, FS_Subset, Zenon
  <2>3. Cardinality(Before[x]) \in Nat
    BY <2>2, FS_CardinalityType, Zenon
  <2> QED BY <1>1, <2>2, <2>3
<1>3. ASSUME NEW x \in S, NEW y \in S, x \in Before[y]
      PROVE  Cardinality(Before[x]) < Cardinality(Before[y])
  <2>1. Before[x] \in SUBSET Before[y] /\ Before[x] # Before[y]
    BY <1>3, Zenon DEF Lines
  <2>2. Cardinality(Before[x]) <= Cardinality(Before[y]) /\ Cardinality(Before[x]) # Cardinality(Before[y])
    BY <1>2, <2>1, FS_Subset, Zenon
  <2> QED BY <1>2, <2>2
<1>4. rank \in [S -> 1..n]
  BY <1>2
<1>5. \A x, y \in S : rank[x] = rank[y] => x = y
  <2> SUFFICES ASSUME NEW x \in S, NEW y \in S, x \in Before[y]
               PROVE  rank[x] # rank[y] /\ rank[y] # rank[x]
    BY Zenon DEF Lines
  <2> QED BY <1>2, <1>3
<1>6. rank \in Injection(S, 1..n)
  BY <1>4, <1>5, Zenon DEF Injection, IsInjective
<1>7. Cardinality(1..n) = n /\ IsFiniteSet(1..n)
  BY <1>1, FS_Interval
<1>8. rank \in Surjection(S, 1..n)
  BY <1>6, <1>7, FS_Injection, Zenon
<1>9. ASSUME NEW k \in 1..n PROVE line[k] \in S /\ rank[line[k]] = k
  <2>1. PICK x \in S : rank[x] = k
    BY <1>8, Zenon DEF Surjection
  <2>2. Cardinality(Before[x]) = k - 1
    BY <1>2, <2>1
  <2>3. line[k] \in S /\ Cardinality(Before[line[k]]) = k - 1
    BY <2>2, Zenon DEF InLine
  <2> HIDE DEF line
  <2>4. k - 1 + 1 = k
    OBVIOUS
  <2> QED BY <2>3, <2>4, Zenon
<1> DEFINE At(k) == CHOOSE x \in S : Cardinality(Before[x]) = k - 1
<1>10. line = [k \in 1..n |-> At(k)]
  BY Zenon DEF InLine
<1> HIDE DEF line, At
<1>11. line \in [1..n -> S]
  BY <1>9, <1>10
<1>12. ASSUME NEW i \in 1..n, NEW j \in 1..n, i < j PROVE line[i] \in Before[line[j]]
  <2>1. line[i] \in S /\ line[j] \in S /\ rank[line[i]] = i /\ rank[line[j]] = j
    BY <1>9
  <2>2. i \in Nat /\ j \in Nat
    OBVIOUS
  <2>3. line[i] # line[j] /\ Cardinality(Before[line[i]]) + 1 = i /\ Cardinality(Before[line[j]]) + 1 = j
    BY <1>12, <2>1, <2>2
  <2>4. line[j] \notin Before[line[i]]
    BY <1>2, <1>3, <1>12, <2>1, <2>2, <2>3
  <2> QED BY <2>1, <2>3, <2>4, Zenon DEF Lines
<1>13. ASSUME NEW x \in S PROVE \E k \in 1..n : line[k] = x
  <2>1. rank[x] \in 1..n
    BY <1>4
  <2>2. line[rank[x]] \in S /\ rank[line[rank[x]]] = rank[x]
    BY <1>9, <2>1, Zenon
  <2> HIDE DEF rank
  <2> QED BY <1>5, <2>1, <2>2, Zenon
<1> QED BY <1>1, <1>11, <1>12, <1>13, Zenon DEF n, line

Ascends(f, n) == \A i, j \in 1..n : i < j => f[i] < f[j]

\* The places are met in ascending order, each one once.
LEMMA InOrderIs ==
  ASSUME NEW n \in Nat, NEW I, I \subseteq 1..n
  PROVE  /\ IsFiniteSet(I) /\ Cardinality(I) \in Nat
         /\ InOrder(I) \in [1..Cardinality(I) -> I]
         /\ Ascends(InOrder(I), Cardinality(I))
         /\ \A i \in I : \E k \in 1..Cardinality(I) : InOrder(I)[k] = i
<1>1. IsFiniteSet(I) /\ Cardinality(I) \in Nat
  <2>1. IsFiniteSet(1..n) /\ I \in SUBSET (1..n)
    BY FS_Interval
  <2> QED BY <2>1, FS_Subset, FS_CardinalityType, Zenon
<1> DEFINE Before == [i \in I |-> {j \in I : j < i}]
<1>2. Lines(I, Before)
  <2>1. Before \in [I -> SUBSET I]
    OBVIOUS
  <2>2. \A i, j \in I : j \in Before[i] <=> j < i
    OBVIOUS
  <2>3. \A i, j, k \in I : ~(i < i) /\ (i # j => i < j \/ j < i) /\ (i < j /\ j < k => i < k)
    OBVIOUS
  <2> HIDE DEF Before
  <2> QED BY <2>1, <2>2, <2>3, Zenon DEF Lines
<1>3. InOrder(I) = InLine(I, Before)
  <2>1. \A i \in I : Before[i] = {j \in I : j < i}
    OBVIOUS
  <2> HIDE DEF Before
  <2> DEFINE A(k) == CHOOSE i \in I : Cardinality({j \in I : j < i}) = k - 1
             B(k) == CHOOSE i \in I : Cardinality(Before[i]) = k - 1
  <2>2. ASSUME NEW k PROVE A(k) = B(k)
    <3>1. \A i : i \in I /\ Cardinality({j \in I : j < i}) = k - 1
                <=> i \in I /\ Cardinality(Before[i]) = k - 1
      BY <2>1, Zenon
    <3> QED BY <3>1, Zenon
  <2>3. InOrder(I) = [k \in 1..Cardinality(I) |-> A(k)]
    BY Zenon DEF InOrder
  <2>4. InLine(I, Before) = [k \in 1..Cardinality(I) |-> B(k)]
    BY Zenon DEF InLine
  <2> HIDE DEF A, B
  <2> QED BY <2>2, <2>3, <2>4, Zenon
<1>4. \A i, j \in I : j \in Before[i] => j < i
  OBVIOUS
<1> HIDE DEF Before
<1> DEFINE f == InOrder(I)
           c == Cardinality(I)
<1>5. /\ c \in Nat /\ f \in [1..c -> I]
      /\ \A i, j \in 1..c : i < j => f[i] \in Before[f[j]]
      /\ \A i \in I : \E k \in 1..c : f[k] = i
  BY <1>1, <1>2, <1>3, InLineIs
<1> HIDE DEF f, c
<1>6. Ascends(f, c)
  <2> SUFFICES ASSUME NEW i \in 1..c, NEW j \in 1..c, i < j
               PROVE  f[i] < f[j]
    BY Zenon DEF Ascends
  <2>1. f[i] \in I /\ f[j] \in I
    BY <1>5
  <2> QED BY <1>4, <1>5, <2>1, Zenon
<1> QED BY <1>1, <1>5, <1>6, Zenon DEF f, c

\* Element k of what was picked comes from the place at[k].
LEMMA PickedIs ==
  ASSUME NEW T, NEW s \in Seq(T), NEW I, I \subseteq DOMAIN s
  PROVE  /\ Picked(s, I) \in Seq(T)
         /\ Len(Picked(s, I)) = Cardinality(I)
         /\ \E at \in [1..Cardinality(I) -> I] :
              /\ Ascends(at, Cardinality(I))
              /\ \A k \in 1..Cardinality(I) : Picked(s, I)[k] = s[at[k]]
              /\ \A i \in I : \E k \in 1..Cardinality(I) : at[k] = i
<1>1. Len(s) \in Nat /\ DOMAIN s = 1..Len(s) /\ \A i \in DOMAIN s : s[i] \in T
  OBVIOUS
<1>2. /\ Cardinality(I) \in Nat
      /\ InOrder(I) \in [1..Cardinality(I) -> I]
      /\ Ascends(InOrder(I), Cardinality(I))
      /\ \A i \in I : \E k \in 1..Cardinality(I) : InOrder(I)[k] = i
  BY <1>1, InOrderIs
<1>3. Picked(s, I) = [k \in 1..Cardinality(I) |-> s[InOrder(I)[k]]]
  BY DEF Picked
<1>4. \A k \in 1..Cardinality(I) : InOrder(I)[k] \in I /\ s[InOrder(I)[k]] \in T
  BY <1>1, <1>2
<1>5. Picked(s, I) \in [1..Cardinality(I) -> T]
  BY <1>3, <1>4
<1> QED BY <1>2, <1>3, <1>5
-----------------------------------------------------------------------------
(* Sums.                                                                    *)

\* u has the sums of s so far.
Sums(u, s, n) ==
  /\ u \in [0..n -> Nat]
  /\ u[0] = 0
  /\ \A k \in 1..n : u[k] = u[k - 1] + s[k]

Summable(n) == \A s \in [1..n -> Nat] : \E u : Sums(u, s, n)

LEMMA OneMoreSummable ==
  ASSUME NEW n \in Nat, n # 0, Summable(n - 1)
  PROVE  Summable(n)
<1> SUFFICES ASSUME NEW s \in [1..n -> Nat]
             PROVE  \E u : Sums(u, s, n)
  BY DEF Summable
<1> DEFINE t == [k \in 1..(n - 1) |-> s[k]]
<1>1. t \in [1..(n - 1) -> Nat]
  OBVIOUS
<1>2. PICK u : Sums(u, t, n - 1)
  BY <1>1, Zenon DEF Summable
<1> DEFINE w == [k \in 0..n |-> IF k = n THEN u[n - 1] + s[n] ELSE u[k]]
<1>3. u[n - 1] \in Nat /\ s[n] \in Nat
  BY <1>2 DEF Sums
<1>4. w \in [0..n -> Nat]
  BY <1>2, <1>3 DEF Sums
<1>5. w[0] = 0
  BY <1>2 DEF Sums
<1>6. ASSUME NEW k \in 1..n
      PROVE  w[k] = w[k - 1] + s[k]
  <2>1. w[k - 1] = u[k - 1]
    OBVIOUS
  <2>2. CASE k = n
    BY <2>1, <2>2
  <2>3. CASE k # n
    <3>1. k \in 1..(n - 1) /\ w[k] = u[k] /\ t[k] = s[k]
      BY <2>3
    <3> QED BY <1>2, <2>1, <3>1 DEF Sums
  <2> QED BY <2>2, <2>3
<1> QED BY <1>4, <1>5, <1>6 DEF Sums

LEMMA AllSummable == \A n \in Nat : Summable(n)
<1> DEFINE C == {n \in Nat : ~Summable(n)}
<1> SUFFICES ASSUME C # {}
             PROVE  FALSE
  OBVIOUS
<1>1. PICK n \in C : \A m \in C : n <= m
  BY LeastNumber
<1>2. n # 0
  <2>1. ASSUME NEW s \in [1..0 -> Nat]
        PROVE  Sums([k \in 0..0 |-> 0], s, 0)
    BY DEF Sums
  <2> QED BY <2>1 DEF Summable
<1>3. n - 1 \in Nat /\ ~(n <= n - 1)
  BY <1>2
<1>4. Summable(n - 1)
  BY <1>1, <1>3
<1> QED BY <1>2, <1>4, OneMoreSummable

\* There is one table of sums.
Table(w, s, n) == [k \in 0..n |-> IF k = 0 THEN 0 ELSE w[k - 1] + s[k]]

LEMMA SumsAgree ==
  ASSUME NEW n \in Nat, NEW s, NEW u, NEW w, Sums(u, s, n), w = Table(w, s, n)
  PROVE  u = w
<1> DEFINE C == {k \in 0..n : u[k] # w[k]}
<1>1. /\ u \in [0..n -> Nat]
      /\ w = [k \in 0..n |-> w[k]]
      /\ w[0] = 0
      /\ \A k \in 1..n : w[k] = w[k - 1] + s[k] /\ u[k] = u[k - 1] + s[k]
  BY DEF Sums, Table
<1>2. SUFFICES ASSUME C # {}
               PROVE  FALSE
  BY <1>1
<1>3. C \subseteq Nat
  OBVIOUS
<1>4. PICK k \in C : \A j \in C : k <= j
  BY <1>2, <1>3, LeastNumber
<1>5. k # 0
  BY <1>1 DEF Sums
<1>6. k - 1 \in 0..n /\ ~(k <= k - 1) /\ k \in 1..n
  BY <1>5
<1>7. u[k - 1] = w[k - 1]
  BY <1>4, <1>6
<1> QED BY <1>1, <1>6, <1>7

LEMMA SumsTable ==
  ASSUME NEW n \in Nat, NEW s, NEW u, Sums(u, s, n)
  PROVE  u = Table(u, s, n)
BY DEF Sums, Table

LEMMA TotalIs ==
  ASSUME NEW s \in Seq(Nat)
  PROVE  \E u : Sums(u, s, Len(s)) /\ Total(s) = u[Len(s)]
<1> DEFINE n == Len(s)
           w == CHOOSE w : w = Table(w, s, n)
<1>1. n \in Nat /\ s \in [1..n -> Nat]
  OBVIOUS
<1>2. Total(s) = w[n]
  BY Zenon DEF Total, Table
<1> HIDE DEF n
<1>3. PICK u : Sums(u, s, n)
  BY <1>1, AllSummable, Zenon DEF Summable
<1>4. w = Table(w, s, n)
  BY <1>1, <1>3, SumsTable, Zenon
<1> HIDE DEF w
<1>5. u = w
  BY <1>1, <1>3, <1>4, SumsAgree
<1> QED BY <1>2, <1>3, <1>5 DEF n

LEMMA TotalOnly ==
  ASSUME NEW s \in Seq(Nat), NEW u, Sums(u, s, Len(s))
  PROVE  Total(s) = u[Len(s)]
<1>1. Len(s) \in Nat
  OBVIOUS
<1>2. PICK w : Sums(w, s, Len(s)) /\ Total(s) = w[Len(s)]
  BY TotalIs
<1>3. u = w
  BY <1>1, <1>2, SumsTable, SumsAgree, Zenon
<1> QED BY <1>2, <1>3

LEMMA TotalType ==
  ASSUME NEW s \in Seq(Nat)
  PROVE  Total(s) \in Nat
<1>1. PICK u : Sums(u, s, Len(s)) /\ Total(s) = u[Len(s)]
  BY TotalIs
<1>2. Len(s) \in 0..Len(s)
  OBVIOUS
<1> QED BY <1>1, <1>2 DEF Sums

LEMMA TotalEmpty == Total(<<>>) = 0
<1>1. <<>> \in Seq(Nat) /\ Len(<<>>) = 0
  OBVIOUS
<1>2. PICK u : Sums(u, <<>>, 0) /\ Total(<<>>) = u[0]
  BY <1>1, TotalIs, Zenon
<1> QED BY <1>2 DEF Sums

\* A sum is the sum of all but the last number, and that number.
LEMMA TotalLonger ==
  ASSUME NEW s \in Seq(Nat), NEW t \in Seq(Nat), Len(t) = Len(s) + 1,
         \A k \in 1..Len(s) : t[k] = s[k]
  PROVE  Total(t) = Total(s) + t[Len(t)]
<1> DEFINE n == Len(s)
<1>1. n \in Nat /\ Len(t) = n + 1 /\ t[n + 1] \in Nat
  OBVIOUS
<1>2. PICK u : Sums(u, s, n) /\ Total(s) = u[n]
  BY TotalIs
<1>a. \A k \in 1..n : t[k] = s[k]
  OBVIOUS
<1> HIDE DEF n
<1> DEFINE w == [k \in 0..(n + 1) |-> IF k = n + 1 THEN u[n] + t[n + 1] ELSE u[k]]
<1>3. u[n] \in Nat /\ w \in [0..(n + 1) -> Nat] /\ w[0] = 0
  BY <1>1, <1>2 DEF Sums
<1>4. ASSUME NEW k \in 1..(n + 1)
      PROVE  w[k] = w[k - 1] + t[k]
  <2>1. w[k - 1] = u[k - 1]
    BY <1>1
  <2>2. CASE k = n + 1
    BY <1>1, <2>1, <2>2
  <2>3. CASE k # n + 1
    <3>1. k \in 1..n /\ w[k] = u[k] /\ t[k] = s[k]
      BY <1>1, <1>a, <2>3
    <3> QED BY <1>2, <2>1, <3>1 DEF Sums
  <2> QED BY <2>2, <2>3
<1>5. Sums(w, t, n + 1)
  BY <1>3, <1>4 DEF Sums
<1>6. w[n + 1] = u[n] + t[n + 1]
  BY <1>1
<1> HIDE DEF w
<1>7. Total(t) = w[n + 1]
  BY <1>1, <1>5, TotalOnly
<1> QED BY <1>1, <1>2, <1>6, <1>7

LEMMA TotalBumped ==
  ASSUME NEW s \in Seq(Nat), NEW t \in Seq(Nat), Len(t) = Len(s), Len(s) # 0,
         NEW d \in Nat, t[Len(s)] = s[Len(s)] + d,
         \A k \in 1..(Len(s) - 1) : t[k] = s[k]
  PROVE  Total(t) = Total(s) + d
<1> DEFINE n == Len(s)
           r == SubSeq(s, 1, n - 1)
<1>1. n \in Nat \ {0} /\ s[n] \in Nat
  OBVIOUS
<1>2. r \in Seq(Nat) /\ Len(r) = n - 1 /\ \A k \in 1..(n - 1) : r[k] = s[k] /\ r[k] = t[k]
  BY <1>1
<1> HIDE DEF r
<1>a. Len(s) = Len(r) + 1 /\ Len(t) = Len(r) + 1 /\ Len(s) = n /\ Len(t) = n
  BY <1>1, <1>2
<1>b. (\A k \in 1..Len(r) : s[k] = r[k]) /\ (\A k \in 1..Len(r) : t[k] = r[k])
  BY <1>1, <1>2
<1>3. Total(s) = Total(r) + s[n]
  BY <1>2, <1>a, <1>b, TotalLonger
<1>4. Total(t) = Total(r) + t[n]
  BY <1>2, <1>a, <1>b, TotalLonger
<1>5. Total(r) \in Nat
  BY <1>2, TotalType
<1> QED BY <1>1, <1>3, <1>4, <1>5

\* Zeros at the front do not count.
LEMMA TotalOfRest ==
  ASSUME NEW s \in Seq(Nat), NEW t \in Seq(Nat), NEW z \in Nat, Len(s) = z + Len(t),
         \A k \in 1..z : s[k] = 0, \A k \in 1..Len(t) : t[k] = s[z + k]
  PROVE  Total(t) = Total(s)
<1> DEFINE n == Len(t)
<1>1. n \in Nat /\ Len(s) = z + n
  OBVIOUS
<1>2. PICK u : Sums(u, s, z + n) /\ Total(s) = u[z + n]
  BY <1>1, TotalIs, Zenon
<1>a. \A k \in 1..n : t[k] = s[z + k]
  OBVIOUS
<1> HIDE DEF n
<1>3. u[z] = 0
  <2> DEFINE C == {k \in 0..z : u[k] # 0}
  <2>0. z \in 0..z
    OBVIOUS
  <2>1. SUFFICES ASSUME C # {}
                 PROVE  FALSE
    BY <2>0
  <2>2. C \subseteq Nat
    OBVIOUS
  <2>3. PICK k \in C : \A j \in C : k <= j
    BY <2>1, <2>2, LeastNumber
  <2>4. k # 0
    BY <1>2 DEF Sums
  <2>5. k - 1 \in 0..z /\ ~(k <= k - 1) /\ k \in 1..z /\ k \in 1..(z + n)
    BY <1>1, <2>4
  <2>6. u[k - 1] = 0
    BY <2>3, <2>5
  <2> QED BY <1>2, <2>5, <2>6 DEF Sums
<1> DEFINE w == [k \in 0..n |-> u[z + k]]
<1>4. \A k \in 0..n : z + k \in 0..(z + n) /\ (k # 0 => z + k \in 1..(z + n) /\ (z + k) - 1 = z + (k - 1))
  BY <1>1
<1>5. w \in [0..n -> Nat] /\ w[0] = 0
  BY <1>1, <1>2, <1>3, <1>4 DEF Sums
<1>6. ASSUME NEW k \in 1..n
      PROVE  w[k] = w[k - 1] + t[k]
  <2>0. z + k \in 1..(z + n) /\ (z + k) - 1 = z + (k - 1)
    BY <1>1
  <2>1. u[z + k] = u[z + (k - 1)] + s[z + k]
    <3>1. u[z + k] = u[(z + k) - 1] + s[z + k]
      BY <1>2, <2>0, Zenon DEF Sums
    <3> QED BY <2>0, <3>1
  <2>2. w[k] = u[z + k] /\ w[k - 1] = u[z + (k - 1)]
    BY <1>1
  <2> QED BY <1>a, <2>1, <2>2
<1>7. Sums(w, t, n)
  BY <1>5, <1>6 DEF Sums
<1>8. w[n] = u[z + n]
  BY <1>1
<1> HIDE DEF w
<1> QED BY <1>2, <1>7, <1>8, TotalOnly DEF n

\* A sum grows with each of its numbers.
LEMMA TotalGrows ==
  ASSUME NEW s \in Seq(Nat), NEW t \in Seq(Nat), Len(s) = Len(t),
         \A k \in 1..Len(s) : s[k] <= t[k]
  PROVE  /\ Total(s) <= Total(t)
         /\ (\E k \in 1..Len(s) : s[k] < t[k]) => Total(s) < Total(t)
<1> DEFINE n == Len(s)
<1>1. n \in Nat /\ \A k \in 1..n : s[k] \in Nat /\ t[k] \in Nat
  OBVIOUS
<1>2. PICK u : Sums(u, s, n) /\ Total(s) = u[n]
  BY TotalIs
<1>3. PICK w : Sums(w, t, n) /\ Total(t) = w[n]
  BY TotalIs
<1> HIDE DEF n
<1>4. /\ u \in [0..n -> Nat] /\ w \in [0..n -> Nat] /\ u[0] = 0 /\ w[0] = 0
      /\ \A k \in 1..n : u[k] = u[k - 1] + s[k] /\ w[k] = w[k - 1] + t[k]
  BY <1>2, <1>3 DEF Sums
<1>5. \A k \in 1..n : s[k] <= t[k]
  BY DEF n
<1>6. ASSUME NEW k \in 1..n
      PROVE  /\ k - 1 \in 0..n /\ u[k] \in Nat /\ w[k] \in Nat /\ u[k - 1] \in Nat /\ w[k - 1] \in Nat
             /\ s[k] \in Nat /\ t[k] \in Nat /\ s[k] <= t[k]
             /\ u[k] = u[k - 1] + s[k] /\ w[k] = w[k - 1] + t[k]
  <2>1. k - 1 \in 0..n /\ k \in 0..n
    BY <1>1
  <2> QED BY <1>1, <1>4, <1>5, <2>1
<1>7. \A k \in 0..n : u[k] <= w[k]
  <2> DEFINE C == {k \in 0..n : ~(u[k] <= w[k])}
  <2> SUFFICES ASSUME C # {} PROVE FALSE
    OBVIOUS
  <2>1. C \subseteq Nat
    BY <1>1
  <2>2. PICK k \in C : \A j \in C : k <= j
    BY <2>1, LeastNumber
  <2>3. k \in 0..n /\ ~(u[k] <= w[k]) /\ k # 0
    BY <1>4, <2>2
  <2>4. k \in 1..n
    BY <1>1, <2>3
  <2>5. k - 1 \notin C
    BY <2>2, <2>4
  <2>6. u[k - 1] <= w[k - 1]
    BY <1>6, <2>4, <2>5
  <2>7. /\ u[k] \in Nat /\ w[k] \in Nat /\ u[k - 1] \in Nat /\ w[k - 1] \in Nat
        /\ s[k] \in Nat /\ t[k] \in Nat /\ s[k] <= t[k]
        /\ u[k] = u[k - 1] + s[k] /\ w[k] = w[k - 1] + t[k]
    BY <1>6, <2>4, Zenon
  <2> QED BY <2>3, <2>6, <2>7
<1>8. ASSUME NEW i \in 1..n, s[i] < t[i] PROVE \A k \in i..n : u[k] < w[k]
  <2> DEFINE C == {k \in i..n : ~(u[k] < w[k])}
  <2> SUFFICES ASSUME C # {} PROVE FALSE
    OBVIOUS
  <2>1. C \subseteq Nat
    BY <1>1
  <2>2. PICK k \in C : \A j \in C : k <= j
    BY <2>1, LeastNumber
  <2>3. k \in i..n /\ ~(u[k] < w[k]) /\ k \in 1..n
    BY <1>1, <2>2
  <2>4. CASE k = i
    <3>1. u[k - 1] <= w[k - 1] /\ s[k] < t[k]
      BY <1>6, <1>7, <1>8, <2>3, <2>4
    <3> QED BY <1>6, <2>3, <3>1
  <2>5. CASE k # i
    <3>1. k - 1 \in i..n
      BY <1>1, <2>3, <2>5
    <3>2. k - 1 \notin C
      BY <2>2, <2>3
    <3>3. u[k - 1] < w[k - 1]
      BY <3>1, <3>2
    <3>4. /\ u[k] \in Nat /\ w[k] \in Nat /\ u[k - 1] \in Nat /\ w[k - 1] \in Nat
          /\ s[k] \in Nat /\ t[k] \in Nat /\ s[k] <= t[k]
          /\ u[k] = u[k - 1] + s[k] /\ w[k] = w[k - 1] + t[k]
      BY <1>6, <2>3, Zenon
    <3> QED BY <2>3, <3>3, <3>4
  <2> QED BY <2>4, <2>5
<1>9. n \in 0..n /\ \A i \in 1..n : n \in i..n
  BY <1>1
<1> QED BY <1>2, <1>3, <1>7, <1>8, <1>9 DEF n

\* The sum of a list that has numbers at two places only.
LEMMA TotalOfTwo ==
  ASSUME NEW s \in Seq(Nat), NEW i \in 1..Len(s), NEW j \in 1..Len(s), i < j,
         \A k \in 1..Len(s) : k # i /\ k # j => s[k] = 0
  PROVE  Total(s) = s[i] + s[j]
<1> DEFINE n == Len(s)
           u == [k \in 0..n |-> IF k < i THEN 0 ELSE IF k < j THEN s[i] ELSE s[i] + s[j]]
<1>1. n \in Nat /\ i \in Nat /\ j \in Nat /\ 0 < i /\ n \in 0..n /\ ~(n < i) /\ ~(n < j)
  OBVIOUS
<1>2. s[i] \in Nat /\ s[j] \in Nat /\ s[i] + s[j] \in Nat
  OBVIOUS
<1>3. u \in [0..n -> Nat] /\ u[0] = 0
  BY <1>1, <1>2
<1>4. ASSUME NEW k \in 1..n PROVE u[k] = u[k - 1] + s[k]
  <2>1. k \in 0..n /\ k - 1 \in 0..n
    BY <1>1
  <2>2. CASE k = i
    BY <1>1, <1>2, <2>1, <2>2
  <2>3. CASE k = j
    BY <1>1, <1>2, <2>1, <2>3
  <2>4. CASE k # i /\ k # j
    <3>1. s[k] = 0 /\ (k < i <=> k - 1 < i) /\ (k < j <=> k - 1 < j)
      BY <1>1, <2>4
    <3> QED BY <1>2, <2>1, <3>1
  <2> QED BY <2>2, <2>3, <2>4
<1>5. Sums(u, s, n)
  BY <1>3, <1>4 DEF Sums
<1>6. u[n] = s[i] + s[j]
  BY <1>1
<1> HIDE DEF u
<1> QED BY <1>5, <1>6, TotalOnly

\* And at one place only.
LEMMA TotalOfOne ==
  ASSUME NEW s \in Seq(Nat), NEW i \in 1..Len(s), \A k \in 1..Len(s) : k # i => s[k] = 0
  PROVE  Total(s) = s[i]
<1> DEFINE n == Len(s)
           u == [k \in 0..n |-> IF k < i THEN 0 ELSE s[i]]
<1>1. n \in Nat /\ i \in Nat /\ 0 < i /\ n \in 0..n /\ ~(n < i)
  OBVIOUS
<1>2. s[i] \in Nat
  OBVIOUS
<1>3. u \in [0..n -> Nat] /\ u[0] = 0
  BY <1>1, <1>2
<1>4. ASSUME NEW k \in 1..n PROVE u[k] = u[k - 1] + s[k]
  <2>1. k \in 0..n /\ k - 1 \in 0..n
    BY <1>1
  <2>2. CASE k = i
    BY <1>1, <1>2, <2>1, <2>2
  <2>3. CASE k # i
    <3>1. s[k] = 0 /\ (k < i <=> k - 1 < i)
      BY <1>1, <2>3
    <3> QED BY <1>2, <2>1, <3>1
  <2> QED BY <2>2, <2>3
<1>5. Sums(u, s, n)
  BY <1>3, <1>4 DEF Sums
<1>6. u[n] = s[i]
  BY <1>1
<1> HIDE DEF u
<1> QED BY <1>5, <1>6, TotalOnly

LEMMA TotalOfNone ==
  ASSUME NEW s \in Seq(Nat), \A k \in 1..Len(s) : s[k] = 0
  PROVE  Total(s) = 0
<1> DEFINE n == Len(s)
           u == [k \in 0..n |-> 0]
<1>1. n \in Nat /\ n \in 0..n
  OBVIOUS
<1>2. u \in [0..n -> Nat] /\ u[0] = 0
  BY <1>1
<1>3. ASSUME NEW k \in 1..n PROVE u[k] = u[k - 1] + s[k]
  BY <1>1
<1>4. Sums(u, s, n)
  BY <1>2, <1>3 DEF Sums
<1>5. u[n] = 0
  BY <1>1
<1> HIDE DEF u
<1> QED BY <1>4, <1>5, TotalOnly

\* A sum is no less than any of its numbers, nor than any two of them.
LEMMA TotalHasOne ==
  ASSUME NEW s \in Seq(Nat), NEW i \in 1..Len(s)
  PROVE  s[i] <= Total(s)
<1> DEFINE t == [k \in 1..Len(s) |-> IF k = i THEN s[i] ELSE 0]
<1>1. t \in Seq(Nat) /\ Len(t) = Len(s) /\ t[i] = s[i]
      /\ \A k \in 1..Len(s) : (k # i => t[k] = 0) /\ t[k] <= s[k]
  OBVIOUS
<1> HIDE DEF t
<1>2. Total(t) = t[i]
  BY <1>1, TotalOfOne
<1>3. Total(t) <= Total(s)
  BY <1>1, TotalGrows
<1> QED BY <1>1, <1>2, <1>3

LEMMA TotalHasTwo ==
  ASSUME NEW s \in Seq(Nat), NEW i \in 1..Len(s), NEW j \in 1..Len(s), i < j
  PROVE  s[i] + s[j] <= Total(s)
<1> DEFINE t == [k \in 1..Len(s) |-> IF k = i \/ k = j THEN s[k] ELSE 0]
<1>1. t \in Seq(Nat) /\ Len(t) = Len(s) /\ t[i] = s[i] /\ t[j] = s[j]
      /\ \A k \in 1..Len(s) : (k # i /\ k # j => t[k] = 0) /\ t[k] <= s[k]
  OBVIOUS
<1> HIDE DEF t
<1>2. Total(t) = t[i] + t[j]
  BY <1>1, TotalOfTwo
<1>3. Total(t) <= Total(s)
  BY <1>1, TotalGrows
<1> QED BY <1>1, <1>2, <1>3

-----------------------------------------------------------------------------
(* Lists one after another.                                                 *)

LEMMA EndOfIs ==
  ASSUME NEW S, NEW ss \in Seq(Seq(S))
  PROVE  /\ EndOf(ss, 0) = 0
         /\ \A i \in 0..Len(ss) : EndOf(ss, i) \in Nat
         /\ \A i \in 1..Len(ss) : EndOf(ss, i) = EndOf(ss, i - 1) + Len(ss[i])
<1> DEFINE Lens(i) == [k \in 1..i |-> Len(ss[k])]
<1>1. /\ Len(ss) \in Nat
      /\ \A i \in 1..Len(ss) : Len(ss[i]) \in Nat
  <2>1. \A i \in 1..Len(ss) : ss[i] \in Seq(S)
    OBVIOUS
  <2> QED BY <2>1
<1>2. ASSUME NEW i \in 0..Len(ss)
      PROVE  Lens(i) \in Seq(Nat) /\ Len(Lens(i)) = i
  <2>1. Lens(i) \in [1..i -> Nat] /\ i \in Nat
    BY <1>1
  <2> QED BY <2>1
<1>3. \A i : EndOf(ss, i) = Total(Lens(i))
  BY Zenon DEF EndOf
<1>4. EndOf(ss, 0) = 0
  <2>1. Lens(0) = <<>>
    OBVIOUS
  <2> QED BY <1>3, <2>1, TotalEmpty, Zenon
<1>5. ASSUME NEW i \in 1..Len(ss)
      PROVE  EndOf(ss, i) = EndOf(ss, i - 1) + Len(ss[i])
  <2>1. i - 1 \in 0..Len(ss) /\ i \in 0..Len(ss) /\ i \in Nat
    BY <1>1
  <2>2. /\ Len(Lens(i)) = Len(Lens(i - 1)) + 1
        /\ \A k \in 1..Len(Lens(i - 1)) : Lens(i)[k] = Lens(i - 1)[k]
        /\ Lens(i)[Len(Lens(i))] = Len(ss[i])
    BY <1>2, <2>1
  <2>3. Lens(i) \in Seq(Nat) /\ Lens(i - 1) \in Seq(Nat)
    BY <1>2, <2>1
  <2> HIDE DEF Lens
  <2>4. Total(Lens(i)) = Total(Lens(i - 1)) + Lens(i)[Len(Lens(i))]
    BY <2>2, <2>3, TotalLonger
  <2> QED BY <1>3, <2>2, <2>4
<1>6. \A i \in 0..Len(ss) : EndOf(ss, i) \in Nat
  <2> HIDE DEF Lens
  <2> QED BY <1>2, <1>3, TotalType
<1> QED BY <1>4, <1>5, <1>6

\* Every place of the whole is a place of one of the lists.
LEMMA FlatWhere ==
  ASSUME NEW S, NEW ss \in Seq(Seq(S)), NEW k \in 1..EndOf(ss, Len(ss))
  PROVE  \E i \in DOMAIN ss : EndOf(ss, i - 1) < k /\ k <= EndOf(ss, i)
<1> DEFINE C == {i \in 0..Len(ss) : k <= EndOf(ss, i)}
<1>1. Len(ss) \in Nat /\ DOMAIN ss = 1..Len(ss) /\ k \in Nat /\ k > 0
  <2>1. Len(ss) \in Nat /\ DOMAIN ss = 1..Len(ss) /\ Len(ss) \in 0..Len(ss)
    OBVIOUS
  <2>2. EndOf(ss, Len(ss)) \in Nat
    BY <2>1, EndOfIs
  <2> QED BY <2>1, <2>2
<1>2. Len(ss) \in C /\ C \subseteq Nat
  <2>1. k <= EndOf(ss, Len(ss)) /\ Len(ss) \in 0..Len(ss)
    BY <1>1
  <2> QED BY <2>1
<1>3. PICK i \in C : \A j \in C : i <= j
  BY <1>2, LeastNumber
<1>4. i # 0
  BY <1>1, <1>3, EndOfIs
<1>5. i \in 1..Len(ss) /\ i - 1 \in 0..Len(ss) /\ ~(i <= i - 1)
  BY <1>4
<1>6. ~(k <= EndOf(ss, i - 1)) /\ EndOf(ss, i - 1) \in Nat
  BY <1>3, <1>5, EndOfIs
<1>7. EndOf(ss, i - 1) < k /\ k <= EndOf(ss, i)
  BY <1>1, <1>6
<1> QED BY <1>1, <1>5, <1>7, Zenon

\* What stands at place k of the wholes stands at one place of the lists.
Alongside(ss, ts, k) ==
  \E i \in 1..Len(ss) : \E j \in 1..Len(ss[i]) :
    Flat(ss)[k] = ss[i][j] /\ Flat(ts)[k] = ts[i][j]

\* Of lists that are as long as each other, the places of the wholes agree.
LEMMA FlatAlong ==
  ASSUME NEW S, NEW ss \in Seq(Seq(S)), NEW T, NEW ts \in Seq(Seq(T)),
         Len(ss) = Len(ts), \A i \in 1..Len(ss) : Len(ss[i]) = Len(ts[i])
  PROVE  /\ Flat(ss) \in Seq(S) /\ Flat(ts) \in Seq(T)
         /\ Len(Flat(ss)) = Len(Flat(ts))
         /\ \A k \in 1..Len(Flat(ss)) : Alongside(ss, ts, k)
<1> DEFINE n == Len(ss)
           m == EndOf(ss, n)
           At(k) == CHOOSE i \in DOMAIN ss : EndOf(ss, i - 1) < k /\ k <= EndOf(ss, i)
<1>1. n \in Nat /\ DOMAIN ss = 1..n /\ DOMAIN ts = 1..n /\ n \in 0..n
  OBVIOUS
<1>2. \A i \in 0..n : EndOf(ts, i) = EndOf(ss, i)
  <2>1. ASSUME NEW i \in 0..n
        PROVE  [k \in 1..i |-> Len(ts[k])] = [k \in 1..i |-> Len(ss[k])]
    BY <1>1
  <2> QED BY <2>1, Zenon DEF EndOf
<1>3. \A i \in 1..n : EndOf(ts, i) = EndOf(ss, i) /\ EndOf(ts, i - 1) = EndOf(ss, i - 1)
  <2>1. \A i \in 1..n : i \in 0..n /\ i - 1 \in 0..n
    BY <1>1
  <2> QED BY <1>2, <2>1, Zenon
<1>4. m \in Nat /\ EndOf(ts, Len(ts)) = m
  BY <1>1, <1>2, EndOfIs
<1>5. Flat(ss) = [k \in 1..m |-> ss[At(k)][k - EndOf(ss, At(k) - 1)]]
  BY Zenon DEF Flat
<1>6. Flat(ts) = [k \in 1..m |-> ts[At(k)][k - EndOf(ss, At(k) - 1)]]
  <2> DEFINE Bt(k) == CHOOSE i \in DOMAIN ts : EndOf(ts, i - 1) < k /\ k <= EndOf(ts, i)
  <2>1. ASSUME NEW k \in 1..m
        PROVE  At(k) \in 1..n /\ Bt(k) = At(k)
    <3>1. \E i \in DOMAIN ss : EndOf(ss, i - 1) < k /\ k <= EndOf(ss, i)
      BY FlatWhere
    <3>2. \A i \in 1..n : (EndOf(ss, i - 1) < k /\ k <= EndOf(ss, i))
                           <=> (EndOf(ts, i - 1) < k /\ k <= EndOf(ts, i))
      BY <1>3
    <3>3. At(k) \in DOMAIN ss
      BY <3>1, Zenon
    <3>4. Bt(k) = At(k)
      BY <1>1, <3>2, Zenon
    <3> QED BY <1>1, <3>3, <3>4
  <2>2. Flat(ts) = [k \in 1..m |-> ts[Bt(k)][k - EndOf(ts, Bt(k) - 1)]]
    BY <1>4, Zenon DEF Flat
  <2> HIDE DEF At, Bt, m
  <2>3. ASSUME NEW k \in 1..m
        PROVE  ts[Bt(k)][k - EndOf(ts, Bt(k) - 1)] = ts[At(k)][k - EndOf(ss, At(k) - 1)]
    BY <1>3, <2>1, Zenon
  <2> QED BY <2>2, <2>3, Zenon
<1>7. ASSUME NEW k \in 1..m
      PROVE  /\ At(k) \in 1..n
             /\ k - EndOf(ss, At(k) - 1) \in 1..Len(ss[At(k)])
  <2>1. \E i \in DOMAIN ss : EndOf(ss, i - 1) < k /\ k <= EndOf(ss, i)
    BY FlatWhere
  <2>2. At(k) \in 1..n /\ EndOf(ss, At(k) - 1) < k /\ k <= EndOf(ss, At(k))
    BY <1>1, <2>1, Zenon
  <2> HIDE DEF At
  <2>3. At(k) - 1 \in 0..n /\ ss[At(k)] \in Seq(S)
    BY <1>1, <2>2
  <2>4. /\ EndOf(ss, At(k) - 1) \in Nat
        /\ EndOf(ss, At(k)) = EndOf(ss, At(k) - 1) + Len(ss[At(k)])
        /\ Len(ss[At(k)]) \in Nat
    BY <2>2, <2>3, EndOfIs
  <2> HIDE DEF m, n
  <2>5. k \in Int
    BY <1>4
  <2> QED BY <2>2, <2>4, <2>5
<1>8. ASSUME NEW k \in 1..m
      PROVE  \E i \in 1..n : \E j \in 1..Len(ss[i]) :
               /\ Flat(ss)[k] = ss[i][j] /\ Flat(ts)[k] = ts[i][j]
               /\ ss[i][j] \in S /\ ts[i][j] \in T
  <2> DEFINE i == At(k)
             j == k - EndOf(ss, At(k) - 1)
  <2>1. i \in 1..n /\ j \in 1..Len(ss[i])
    BY <1>7
  <2>2. Flat(ss)[k] = ss[i][j] /\ Flat(ts)[k] = ts[i][j]
    BY <1>5, <1>6, Zenon
  <2> HIDE DEF i, j
  <2>3. ss[i] \in Seq(S) /\ ts[i] \in Seq(T) /\ Len(ts[i]) = Len(ss[i])
    BY <1>1, <2>1
  <2>4. ss[i][j] \in S /\ ts[i][j] \in T
    BY <2>1, <2>3
  <2> QED BY <2>1, <2>2, <2>4
<1> HIDE DEF At, m
<1>9. /\ Flat(ss) \in [1..m -> S] /\ Flat(ts) \in [1..m -> T]
  <2>1. \A k \in 1..m : Flat(ss)[k] \in S /\ Flat(ts)[k] \in T
    BY <1>8, Zenon
  <2> QED BY <1>5, <1>6, <2>1, Zenon
<1>10. Flat(ss) \in Seq(S) /\ Flat(ts) \in Seq(T) /\ Len(Flat(ss)) = m /\ Len(Flat(ts)) = m
  BY <1>4, <1>9
<1>11. \A k \in 1..m : Alongside(ss, ts, k)
  BY <1>1, <1>8, Zenon DEF Alongside
<1> QED BY <1>10, <1>11, Zenon

\* Lists of one element each.
LEMMA FlatOnes ==
  ASSUME NEW S, NEW s \in Seq(S)
  PROVE  Flat([k \in 1..Len(s) |-> <<s[k]>>]) = s
<1> DEFINE n == Len(s)
           ss == [k \in 1..Len(s) |-> <<s[k]>>]
<1>1. n \in Nat /\ \A k \in 1..n : s[k] \in S
  OBVIOUS
<1>2. ss \in Seq(Seq(S)) /\ Len(ss) = n /\ \A k \in 1..n : ss[k] = <<s[k]>> /\ Len(ss[k]) = 1
  <2>1. ss \in [1..n -> Seq(S)]
    BY <1>1
  <2> QED BY <1>1, <2>1
<1>s. DOMAIN ss = 1..n
  OBVIOUS
<1> HIDE DEF ss
<1>3. \A i \in 0..n : EndOf(ss, i) = i
  <2> DEFINE C == {i \in 0..n : EndOf(ss, i) # i}
  <2>1. SUFFICES ASSUME C # {}
                 PROVE  FALSE
    OBVIOUS
  <2>2. C \subseteq Nat
    OBVIOUS
  <2>3. PICK i \in C : \A j \in C : i <= j
    BY <2>1, <2>2, LeastNumber
  <2>4. i # 0
    BY <1>2, EndOfIs
  <2>5. i \in 1..n /\ i - 1 \in 0..n /\ ~(i <= i - 1)
    BY <1>1, <2>4
  <2>6. EndOf(ss, i - 1) = i - 1
    BY <2>3, <2>5
  <2>7. EndOf(ss, i) = EndOf(ss, i - 1) + 1
    BY <1>2, <2>5, EndOfIs
  <2> QED BY <2>5, <2>6, <2>7
<1>4. ASSUME NEW k \in 1..n
      PROVE  (CHOOSE i \in DOMAIN ss : EndOf(ss, i - 1) < k /\ k <= EndOf(ss, i)) = k
  <2>1. ASSUME NEW i \in 1..n
        PROVE  EndOf(ss, i - 1) < k /\ k <= EndOf(ss, i) <=> i = k
    <3>1. EndOf(ss, i - 1) = i - 1 /\ EndOf(ss, i) = i
      BY <1>1, <1>3
    <3> QED BY <1>1, <3>1
  <2> QED BY <1>s, <2>1, Zenon
<1>5. EndOf(ss, Len(ss)) = n
  BY <1>1, <1>2, <1>3
<1> DEFINE At(k) == CHOOSE i \in DOMAIN ss : EndOf(ss, i - 1) < k /\ k <= EndOf(ss, i)
<1>a. Flat(ss) = [k \in 1..n |-> ss[At(k)][k - EndOf(ss, At(k) - 1)]]
  BY <1>5, Zenon DEF Flat
<1>b. \A k \in 1..n : At(k) = k
  BY <1>4, Zenon
<1> HIDE DEF At, n
<1>6. Flat(ss) = [k \in 1..n |-> ss[k][k - EndOf(ss, k - 1)]]
  BY <1>a, <1>b, Zenon
<1> USE DEF n
<1>7. \A k \in 1..n : ss[k][k - EndOf(ss, k - 1)] = s[k]
  <2>1. \A k \in 1..n : k - 1 \in 0..n
    BY <1>1
  <2>2. \A k \in 1..n : k - EndOf(ss, k - 1) = 1
    BY <1>1, <1>3, <2>1
  <2> QED BY <1>2, <2>2
<1>8. s = [k \in 1..n |-> s[k]]
  OBVIOUS
<1> HIDE DEF n
<1>9. Flat(ss) = s
  BY <1>6, <1>7, <1>8, Zenon
<1> QED BY <1>9, Zenon DEF ss
=============================================================================
