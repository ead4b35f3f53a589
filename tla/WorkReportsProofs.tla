-------------------------- MODULE WorkReportsProofs --------------------------
(***************************************************************************)
(* Work reports keep their place through the pipeline, for any packages,   *)
(* dependencies, cores, gas and sequence of blocks: a package is in one    *)
(* place, waits for nothing that is done, and waits one epoch.             *)
(***************************************************************************)
EXTENDS WorkReports, FiniteSetTheorems, SequenceTheorems, NaturalsInduction,
        WellFoundedInduction, TLAPS

\* A nonempty set of naturals has a least element.
LEMMA LeastNatural ==
    ASSUME NEW S \in SUBSET Nat, S # {}
    PROVE  \E m \in S : \A n \in S : m <= n
<1> DEFINE R == OpToRel(<, Nat)
<1>1. IsWellFoundedOn(R, Nat)
  BY NatLessThanWellFounded
<1>2. \E x \in S : \A y \in S : ~(<<y, x>> \in R)
  <2> HIDE DEF R
  <2> QED BY <1>1, WFMin
<1>3. \A x, y \in S : y < x => <<y, x>> \in R
  BY DEF OpToRel
<1> HIDE DEF R
<1>4. \A x, y \in S : ~(y < x) => x <= y
  OBVIOUS
<1> QED BY <1>2, <1>3, <1>4

-----------------------------------------------------------------------------
(* Selections from a sequence.                                             *)

\* The position of k among the numbers of a set.
Rank(I, k) == Cardinality({m \in I : m <= k})

\* Ranks count the numbers from one, in their order.
LEMMA RankFacts ==
    ASSUME NEW I, I \subseteq Nat, IsFiniteSet(I)
    PROVE  /\ Cardinality(I) \in Nat
           /\ \A k \in I : Rank(I, k) \in 1 .. Cardinality(I)
           /\ \A k, l \in I : k < l => Rank(I, k) < Rank(I, l)
           /\ \A i \in 1 .. Cardinality(I) : \E k \in I : Rank(I, k) = i
<1> DEFINE n == Cardinality(I)
           upto(k) == {m \in I : m <= k}
<1>1. n \in Nat
  BY FS_CardinalityType
<1>2. ASSUME NEW k \in I
      PROVE  IsFiniteSet(upto(k)) /\ Cardinality(upto(k)) \in 1 .. n
  <2>1. IsFiniteSet(upto(k)) /\ Cardinality(upto(k)) <= n
    BY FS_Subset
  <2>2. k \in upto(k)
    OBVIOUS
  <2>3. Cardinality(upto(k)) # 0
    BY <2>1, <2>2, FS_EmptySet
  <2>4. Cardinality(upto(k)) \in Nat
    BY <2>1, FS_CardinalityType
  <2> HIDE DEF upto
  <2> QED BY <1>1, <2>1, <2>3, <2>4
<1>3. ASSUME NEW k \in I, NEW l \in I, k < l
      PROVE  Cardinality(upto(k)) < Cardinality(upto(l))
  <2>0. k \in Nat /\ l \in Nat /\ \A m \in I : m \in Nat
    OBVIOUS
  <2>1. upto(k) \in SUBSET upto(l) /\ l \in upto(l) /\ l \notin upto(k)
    <3>1. \A m \in upto(k) : m \in I /\ m <= l
      BY <1>3, <2>0
    <3>2. l <= l /\ ~(l <= k)
      BY <1>3, <2>0
    <3> QED BY <3>1, <3>2
  <2>2. Cardinality(upto(k)) \in Nat /\ Cardinality(upto(l)) \in Nat /\ IsFiniteSet(upto(l))
    BY <1>2
  <2>3. Cardinality(upto(k)) <= Cardinality(upto(l)) /\ Cardinality(upto(k)) # Cardinality(upto(l))
    <3> HIDE DEF upto
    <3> QED BY <2>1, <2>2, FS_Subset
  <2> HIDE DEF upto
  <2> QED BY <2>2, <2>3
<1> DEFINE f == [k \in I |-> Rank(I, k)]
<1>4. \A k \in I : Rank(I, k) \in 1 .. n
  BY <1>2 DEF Rank
<1>5. \A k, l \in I : k < l => Rank(I, k) < Rank(I, l)
  BY <1>3 DEF Rank
<1>6. f \in Injection(I, 1 .. n)
  <2>1. f \in [I -> 1 .. n]
    BY <1>4
  <2>2. ASSUME NEW k \in I, NEW l \in I, f[k] = f[l]
        PROVE  k = l
    <3>1. ~(k < l) /\ ~(l < k)
      BY <1>4, <1>5, <2>2
    <3> QED BY <3>1
  <2>3. IsInjective(f)
    BY <2>2 DEF IsInjective
  <2> HIDE DEF f
  <2> QED BY <2>1, <2>3 DEF Injection
<1>7. IsFiniteSet(1 .. n) /\ Cardinality(1 .. n) = n
  BY <1>1, FS_Interval
<1>8. f \in Surjection(I, 1 .. n)
  <2> HIDE DEF f
  <2> QED BY <1>6, <1>7, FS_Injection
<1>9. \A i \in 1 .. n : \E k \in I : f[k] = i
  BY <1>8 DEF Surjection
<1> QED BY <1>1, <1>4, <1>5, <1>9

LEMMA AscendingFacts ==
    ASSUME NEW I, I \subseteq Nat, IsFiniteSet(I)
    PROVE  /\ Cardinality(I) \in Nat
           /\ DOMAIN Ascending(I) = 1 .. Cardinality(I)
           /\ \A i \in 1 .. Cardinality(I) : Ascending(I)[i] \in I
           /\ \A i, j \in 1 .. Cardinality(I) : i < j => Ascending(I)[i] < Ascending(I)[j]
           /\ \A k \in I : \E i \in 1 .. Cardinality(I) : Ascending(I)[i] = k
<1> DEFINE n == Cardinality(I)
           a == Ascending(I)
<1>1. /\ n \in Nat
      /\ \A k \in I : Rank(I, k) \in 1 .. n
      /\ \A k, l \in I : k < l => Rank(I, k) < Rank(I, l)
      /\ \A i \in 1 .. n : \E k \in I : Rank(I, k) = i
  BY RankFacts
<1>2. a = [i \in 1 .. n |-> CHOOSE k \in I : Rank(I, k) = i]
  BY DEF Ascending, Rank
<1> HIDE DEF a
<1>3. DOMAIN a = 1 .. n /\ \A i \in 1 .. n : a[i] \in I /\ Rank(I, a[i]) = i
  BY <1>1, <1>2
<1>4. \A k, l \in I : Rank(I, k) = Rank(I, l) => k = l
  <2> SUFFICES ASSUME NEW k \in I, NEW l \in I, Rank(I, k) = Rank(I, l) PROVE k = l
    OBVIOUS
  <2>1. ~(k < l) /\ ~(l < k) /\ k \in Nat /\ l \in Nat
    BY <1>1
  <2> QED BY <2>1
<1>5. \A k \in I : a[Rank(I, k)] = k
  BY <1>1, <1>3, <1>4
<1>6. ASSUME NEW i \in 1 .. n, NEW j \in 1 .. n, i < j
      PROVE  a[i] < a[j]
  <2>1. a[i] \in I /\ a[j] \in I /\ Rank(I, a[i]) = i /\ Rank(I, a[j]) = j
    BY <1>3
  <2>2. a[i] \in Nat /\ a[j] \in Nat
    BY <2>1, Zenon
  <2>3. a[j] < a[i] => j < i
    BY <1>1, <2>1
  <2>4. a[i] # a[j]
    BY <1>6, <2>1, <2>2
  <2> QED BY <1>6, <2>2, <2>3, <2>4
<1> QED BY <1>1, <1>3, <1>5, <1>6 DEF a

\* What ElementsAt keeps: the elements at the positions, each position once.
LEMMA ElementsAtFacts ==
    ASSUME NEW S, NEW q \in Seq(S), NEW I \in SUBSET DOMAIN q
    PROVE  /\ ElementsAt(q, I) \in Seq(S)
           /\ IsFiniteSet(I) /\ Cardinality(I) <= Len(q)
           /\ Len(ElementsAt(q, I)) = Cardinality(I)
           /\ DOMAIN ElementsAt(q, I) = DOMAIN Ascending(I)
           /\ \A n \in DOMAIN ElementsAt(q, I) :
                 Ascending(I)[n] \in I /\ ElementsAt(q, I)[n] = q[Ascending(I)[n]]
           /\ \A m, n \in DOMAIN ElementsAt(q, I) : Ascending(I)[m] = Ascending(I)[n] => m = n
           /\ \A i \in I : \E n \in DOMAIN ElementsAt(q, I) : Ascending(I)[n] = i
<1> DEFINE a == Ascending(I)
           c == Cardinality(I)
           e == ElementsAt(q, I)
<1>1. /\ Len(q) \in Nat /\ DOMAIN q = 1 .. Len(q) /\ I \subseteq Nat
      /\ \A i \in I : q[i] \in S
  OBVIOUS
<1>2. IsFiniteSet(1 .. Len(q)) /\ Cardinality(1 .. Len(q)) = Len(q)
  BY <1>1, FS_Interval
<1>3. IsFiniteSet(I) /\ c <= Len(q)
  BY <1>1, <1>2, FS_Subset
<1>4. /\ c \in Nat /\ DOMAIN a = 1 .. c
      /\ \A i \in 1 .. c : a[i] \in I
      /\ \A i, j \in 1 .. c : i < j => a[i] < a[j]
      /\ \A k \in I : \E i \in 1 .. c : a[i] = k
  BY <1>1, <1>3, AscendingFacts
<1> HIDE DEF a, c
<1>5. e = [n \in 1 .. c |-> q[a[n]]]
  BY <1>4 DEF ElementsAt, a
<1> HIDE DEF e
<1>6. \A n \in 1 .. c : q[a[n]] \in S
  BY <1>1, <1>4
<1>7. e \in Seq(S) /\ Len(e) = c /\ DOMAIN e = 1 .. c
  BY <1>4, <1>5, <1>6
<1>8. ASSUME NEW m \in 1 .. c, NEW n \in 1 .. c, a[m] = a[n]
      PROVE  m = n
  <2>1. a[m] \in Nat /\ a[n] \in Nat
    BY <1>1, <1>4
  <2>2. ~(m < n) /\ ~(n < m)
    BY <1>4, <1>8, <2>1
  <2> QED BY <1>4, <2>2
<1> QED BY <1>3, <1>4, <1>5, <1>7, <1>8 DEF a, c, e

-----------------------------------------------------------------------------
(* Queues.                                                                 *)

\* No package is in the queue twice.
Distinct(q) == \A i, j \in DOMAIN q : q[i].pkg = q[j].pkg => i = j

\* y is what is left of x when the packages of S are done.
Edited(y, x, S) == y.pkg = x.pkg /\ x.pkg \notin S /\ y.deps = x.deps \ S

LEMMA DistinctPackages ==
    ASSUME NEW q \in Seq(Item)
    PROVE  /\ Packages(q) \in Seq(Package) /\ Len(Packages(q)) = Len(q)
           /\ DOMAIN Packages(q) = DOMAIN q
           /\ \A i \in DOMAIN q : Packages(q)[i] = q[i].pkg
           /\ IsInjective(Packages(q)) <=> Distinct(q)
<1>1. \A i \in DOMAIN q : q[i].pkg \in Package
  <2>1. \A i \in DOMAIN q : q[i] \in Item
    OBVIOUS
  <2>2. \A x \in Item : x.pkg \in Package
    BY DEF Item
  <2> QED BY <2>1, <2>2, Zenon
<1>2. /\ Packages(q) \in Seq(Package) /\ Len(Packages(q)) = Len(q)
      /\ DOMAIN Packages(q) = DOMAIN q
      /\ \A i \in DOMAIN q : Packages(q)[i] = q[i].pkg
  BY <1>1 DEF Packages
<1> QED BY <1>2, Zenon DEF IsInjective, Distinct

\* edit_queue keeps the reports that are not done, in their order, and strikes what
\* is done from their dependencies.
LEMMA EditQueueFacts ==
    ASSUME NEW q \in Seq(Item), NEW S
    PROVE  /\ EditQueue(q, S) \in Seq(Item)
           /\ Distinct(q) => Distinct(EditQueue(q, S))
           /\ \A n \in DOMAIN EditQueue(q, S) : \E i \in DOMAIN q :
                 Edited(EditQueue(q, S)[n], q[i], S)
           /\ \A i \in DOMAIN q : q[i].pkg \notin S =>
                 \E n \in DOMAIN EditQueue(q, S) : Edited(EditQueue(q, S)[n], q[i], S)
<1> DEFINE I == {i \in DOMAIN q : q[i].pkg \notin S}
           a == Ascending(I)
           kept == ElementsAt(q, I)
           e == EditQueue(q, S)
<1>1. /\ kept \in Seq(Item) /\ DOMAIN kept = DOMAIN a
      /\ \A n \in DOMAIN kept : a[n] \in I /\ kept[n] = q[a[n]]
      /\ \A m, n \in DOMAIN kept : a[m] = a[n] => m = n
      /\ \A i \in I : \E n \in DOMAIN kept : a[n] = i
  <2>1. I \in SUBSET DOMAIN q
    OBVIOUS
  <2> HIDE DEF I
  <2> QED BY <2>1, ElementsAtFacts
<1>2. e = [i \in DOMAIN kept |-> [kept[i] EXCEPT !.deps = kept[i].deps \ S]]
  BY DEF EditQueue
<1> HIDE DEF a, kept, e
<1>3. \A n \in DOMAIN kept : kept[n] \in Item
  BY <1>1
<1>4. /\ DOMAIN e = DOMAIN kept
      /\ \A n \in DOMAIN kept : /\ e[n] \in Item /\ e[n].pkg = kept[n].pkg
                                /\ e[n].deps = kept[n].deps \ S
  BY <1>2, <1>3 DEF Item
<1>5. e \in Seq(Item)
  <2>1. Len(kept) \in Nat /\ DOMAIN kept = 1 .. Len(kept)
    BY <1>1
  <2>2. e = [n \in 1 .. Len(kept) |-> e[n]]
    BY <1>2, <2>1
  <2> QED BY <1>4, <2>1, <2>2
<1>6. \A n \in DOMAIN e : a[n] \in DOMAIN q /\ Edited(e[n], q[a[n]], S)
  BY <1>1, <1>4 DEF Edited
<1>7. \A i \in DOMAIN q : q[i].pkg \notin S => \E n \in DOMAIN e : a[n] = i
  BY <1>1, <1>4
<1>8. Distinct(q) => Distinct(e)
  BY <1>1, <1>4, <1>6 DEF Distinct, Edited
<1>9. \A i \in DOMAIN q : q[i].pkg \notin S => \E n \in DOMAIN e : Edited(e[n], q[i], S)
  BY <1>6, <1>7, Zenon
<1> QED BY <1>5, <1>6, <1>8, <1>9, Zenon DEF e

\* Free takes the packages that wait for nothing.
LEMMA FreeFacts ==
    ASSUME NEW q \in Seq(Item)
    PROVE  /\ Free(q) \in Seq(Package)
           /\ Distinct(q) => IsInjective(Free(q))
           /\ \A n \in DOMAIN Free(q) : \E i \in DOMAIN q :
                 q[i].pkg = Free(q)[n] /\ q[i].deps = {}
<1> DEFINE I == {i \in DOMAIN q : q[i].deps = {}}
           a == Ascending(I)
           kept == ElementsAt(q, I)
<1>1. /\ kept \in Seq(Item) /\ DOMAIN kept = DOMAIN a
      /\ \A n \in DOMAIN kept : a[n] \in I /\ kept[n] = q[a[n]]
      /\ \A m, n \in DOMAIN kept : a[m] = a[n] => m = n
  <2>1. I \in SUBSET DOMAIN q
    OBVIOUS
  <2> HIDE DEF I
  <2> QED BY <2>1, ElementsAtFacts
<1>2. Free(q) = Packages(kept)
  BY DEF Free
<1> HIDE DEF a, kept
<1>3. /\ Packages(kept) \in Seq(Package) /\ DOMAIN Packages(kept) = DOMAIN kept
      /\ \A i \in DOMAIN kept : Packages(kept)[i] = kept[i].pkg
      /\ IsInjective(Packages(kept)) <=> Distinct(kept)
  BY <1>1, DistinctPackages
<1>4. Distinct(q) => Distinct(kept)
  BY <1>1 DEF Distinct
<1> QED BY <1>1, <1>2, <1>3, <1>4

-----------------------------------------------------------------------------
(* priority_queue.                                                         *)

RoundStep(r) ==
    [taken |-> r.taken \o Free(r.rest), rest |-> EditQueue(r.rest, Range(Free(r.rest)))]
Rounds(f, q, N) ==
    f = [n \in 0 .. N |-> IF n = 0 THEN [taken |-> <<>>, rest |-> q] ELSE RoundStep(f[n - 1])]

LEMMA RoundsExist ==
    ASSUME NEW q, NEW N \in Nat
    PROVE  \E f : Rounds(f, q, N)
<1> DEFINE Bad == {n \in Nat : ~ \E f : Rounds(f, q, n)}
<1>1. Bad = {}
  <2> SUFFICES ASSUME Bad # {} PROVE FALSE
    OBVIOUS
  <2>1. PICK n \in Bad : \A m \in Bad : n <= m
    BY LeastNatural
  <2>2. CASE n = 0
    <3> DEFINE f == [m \in 0 .. 0 |-> [taken |-> <<>>, rest |-> q]]
    <3>1. Rounds(f, q, 0)
      BY DEF Rounds
    <3> QED BY <2>1, <2>2, <3>1
  <2>3. CASE n # 0
    <3>1. n - 1 \in Nat /\ n - 1 \notin Bad /\ n \in Nat
      BY <2>1, <2>3
    <3>2. PICK g : Rounds(g, q, n - 1)
      BY <3>1
    <3> DEFINE f == [m \in 0 .. n |-> IF m = n THEN RoundStep(g[n - 1]) ELSE g[m]]
    <3>3. /\ \A m \in 0 .. n - 1 : g[m] = IF m = 0 THEN [taken |-> <<>>, rest |-> q]
                                          ELSE RoundStep(g[m - 1])
      BY <3>2 DEF Rounds
    <3>4. \A m \in 0 .. n - 1 : f[m] = g[m]
      BY <3>1
    <3>5. f[n] = RoundStep(g[n - 1]) /\ f[n - 1] = g[n - 1]
      BY <3>1, <3>4
    <3>6. \A m \in 0 .. n : f[m] = IF m = 0 THEN [taken |-> <<>>, rest |-> q]
                                   ELSE RoundStep(f[m - 1])
      <4> SUFFICES ASSUME NEW m \in 0 .. n
                   PROVE  f[m] = IF m = 0 THEN [taken |-> <<>>, rest |-> q]
                                 ELSE RoundStep(f[m - 1])
        OBVIOUS
      <4>1. CASE m = n
        BY <2>3, <3>5, <4>1
      <4>2. CASE m # n
        <5>1. m \in 0 .. n - 1 /\ (m # 0 => m - 1 \in 0 .. n - 1)
          BY <3>1, <4>2
        <5> HIDE DEF f
        <5> QED BY <3>3, <3>4, <5>1
      <4> QED BY <4>1, <4>2
    <3>7. DOMAIN f = 0 .. n /\ f = [m \in 0 .. n |-> f[m]]
      OBVIOUS
    <3> HIDE DEF f
    <3>8. Rounds(f, q, n)
      BY <3>6, <3>7 DEF Rounds
    <3> QED BY <2>1, <3>8
  <2> QED BY <2>2, <2>3
<1> QED BY <1>1

LEMMA PriorityQueueRounds ==
    ASSUME NEW q, Len(q) \in Nat
    PROVE  \E f : /\ \A n \in 0 .. Len(q) : f[n] = IF n = 0 THEN [taken |-> <<>>, rest |-> q]
                                                   ELSE RoundStep(f[n - 1])
                  /\ PriorityQueue(q) = f[Len(q)].taken
<1> DEFINE g == CHOOSE f : Rounds(f, q, Len(q))
<1>1. Rounds(g, q, Len(q))
  BY RoundsExist
<1>2. PriorityQueue(q) = g[Len(q)].taken
  BY DEF PriorityQueue, Rounds, RoundStep
<1>3. \A n \in 0 .. Len(q) : g[n] = IF n = 0 THEN [taken |-> <<>>, rest |-> q]
                                   ELSE RoundStep(g[n - 1])
  <2> HIDE DEF g
  <2> QED BY <1>1 DEF Rounds
<1> HIDE DEF g
<1> QED BY <1>2, <1>3

\* The places of a concatenation.
LEMMA ConcatFacts ==
    ASSUME NEW S, NEW s \in Seq(S), NEW t \in Seq(S)
    PROVE  /\ s \o t \in Seq(S) /\ DOMAIN (s \o t) = 1 .. Len(s) + Len(t)
           /\ Len(s \o t) = Len(s) + Len(t)
           /\ Range(s \o t) = Range(s) \cup Range(t)
           /\ \A i \in DOMAIN s : (s \o t)[i] = s[i]
           /\ \A i \in DOMAIN (s \o t) : \/ i \in DOMAIN s
                                         \/ /\ i - Len(s) \in DOMAIN t /\ i > Len(s)
                                            /\ (s \o t)[i] = t[i - Len(s)]
<1>1. /\ s \o t \in Seq(S) /\ Len(s \o t) = Len(s) + Len(t)
      /\ \A i \in 1 .. Len(s) + Len(t) : (s \o t)[i] =
            IF i <= Len(s) THEN s[i] ELSE t[i - Len(s)]
  BY ConcatProperties
<1>2. Len(s) \in Nat /\ Len(t) \in Nat /\ DOMAIN s = 1 .. Len(s) /\ DOMAIN t = 1 .. Len(t)
  OBVIOUS
<1>3. DOMAIN (s \o t) = 1 .. Len(s) + Len(t)
  BY <1>1, LenProperties
<1>4. Range(s \o t) = Range(s) \cup Range(t)
  BY RangeConcatenation
<1> DEFINE u == s \o t
<1> HIDE DEF u
<1>5. \A i \in DOMAIN s : u[i] = s[i]
  BY <1>1, <1>2 DEF u
<1>6. \A i \in DOMAIN u : \/ i \in DOMAIN s
                          \/ i - Len(s) \in DOMAIN t /\ i > Len(s) /\ u[i] = t[i - Len(s)]
  BY <1>1, <1>2, <1>3 DEF u
<1> QED BY <1>1, <1>3, <1>4, <1>5, <1>6 DEF u

LEMMA InjectiveConcat ==
    ASSUME NEW S, NEW s \in Seq(S), NEW t \in Seq(S), IsInjective(s), IsInjective(t),
           \A i \in DOMAIN t : t[i] \notin Range(s)
    PROVE  IsInjective(s \o t)
<1> DEFINE u == s \o t
<1>1. /\ \A i \in DOMAIN s : u[i] = s[i]
      /\ \A i \in DOMAIN u : \/ i \in DOMAIN s
                             \/ i - Len(s) \in DOMAIN t /\ i > Len(s) /\ u[i] = t[i - Len(s)]
      /\ DOMAIN u = 1 .. Len(s) + Len(t)
  BY ConcatFacts
<1> HIDE DEF u
<1>2. Len(s) \in Nat /\ Len(t) \in Nat
  OBVIOUS
<1>3. ASSUME NEW i \in DOMAIN u, NEW j \in DOMAIN u, u[i] = u[j]
      PROVE  i = j
  <2>1. i \in Int /\ j \in Int
    BY <1>1, <1>2
  <2>2. \A k \in DOMAIN s : s[k] \in Range(s)
    BY DEF Range
  <2>3. CASE i \in DOMAIN s /\ j \in DOMAIN s
    BY <1>1, <1>3, <2>3 DEF IsInjective
  <2>4. CASE i \notin DOMAIN s /\ j \notin DOMAIN s
    <3>1. t[i - Len(s)] = t[j - Len(s)] /\ i - Len(s) \in DOMAIN t /\ j - Len(s) \in DOMAIN t
      BY <1>1, <1>3, <2>4
    <3>2. i - Len(s) = j - Len(s)
      BY <3>1, Zenon DEF IsInjective
    <3> QED BY <1>2, <2>1, <3>2
  <2> QED BY <1>1, <1>3, <2>2, <2>3, <2>4
<1> QED BY <1>3 DEF u, IsInjective

\* What holds between the rounds of priority_queue: taken and remaining reports are
\* different reports of q, the remaining ones miss only dependencies already taken,
\* and everything taken comes after its dependencies.
SplitInv(taken, rest, q) ==
    /\ taken \in Seq(Package) /\ rest \in Seq(Item)
    /\ IsInjective(taken) /\ Distinct(rest)
    /\ \A i \in DOMAIN rest :
          /\ rest[i].pkg \notin Range(taken)
          /\ \E k \in DOMAIN q : /\ q[k].pkg = rest[i].pkg
                                 /\ q[k].deps \subseteq rest[i].deps \cup Range(taken)
    /\ \A i \in DOMAIN taken :
          \E k \in DOMAIN q : /\ q[k].pkg = taken[i]
                              /\ q[k].deps \subseteq {taken[j] : j \in 1 .. i - 1}
RoundInv(r, q) == SplitInv(r.taken, r.rest, q)

LEMMA RoundKeeps ==
    ASSUME NEW q, NEW r, RoundInv(r, q)
    PROVE  RoundInv(RoundStep(r), q)
<1> DEFINE T == r.taken
           R == r.rest
           F == Free(R)
           D == EditQueue(R, Range(F))
           U == T \o F
           s == RoundStep(r)
<1>1. s.taken = U /\ s.rest = D
  BY DEF RoundStep
<1>2. /\ T \in Seq(Package) /\ R \in Seq(Item) /\ IsInjective(T) /\ Distinct(R)
      /\ \A i \in DOMAIN R :
            /\ R[i].pkg \notin Range(T)
            /\ \E k \in DOMAIN q : /\ q[k].pkg = R[i].pkg
                                   /\ q[k].deps \subseteq R[i].deps \cup Range(T)
      /\ \A i \in DOMAIN T :
            \E k \in DOMAIN q : /\ q[k].pkg = T[i]
                                /\ q[k].deps \subseteq {T[j] : j \in 1 .. i - 1}
  BY DEF RoundInv, SplitInv
<1> HIDE DEF T, R, s
<1>3. /\ F \in Seq(Package) /\ IsInjective(F)
      /\ \A n \in DOMAIN F : \E i \in DOMAIN R : R[i].pkg = F[n] /\ R[i].deps = {}
  BY <1>2, FreeFacts
<1> HIDE DEF F
<1>4. /\ D \in Seq(Item) /\ Distinct(D)
      /\ \A n \in DOMAIN D : \E i \in DOMAIN R : Edited(D[n], R[i], Range(F))
  BY <1>2, EditQueueFacts
<1> HIDE DEF D
<1>5. /\ U \in Seq(Package) /\ DOMAIN U = 1 .. Len(T) + Len(F)
      /\ Range(U) = Range(T) \cup Range(F)
      /\ \A i \in DOMAIN T : U[i] = T[i]
      /\ \A i \in DOMAIN U : \/ i \in DOMAIN T
                             \/ i - Len(T) \in DOMAIN F /\ i > Len(T) /\ U[i] = F[i - Len(T)]
  BY <1>2, <1>3, ConcatFacts
<1>6. IsInjective(U)
  <2>1. \A i \in DOMAIN F : F[i] \notin Range(T)
    BY <1>2, <1>3
  <2> QED BY <1>2, <1>3, <2>1, InjectiveConcat
<1> HIDE DEF U
<1>7. ASSUME NEW n \in DOMAIN D
      PROVE  /\ D[n].pkg \notin Range(U)
             /\ \E k \in DOMAIN q : /\ q[k].pkg = D[n].pkg
                                    /\ q[k].deps \subseteq D[n].deps \cup Range(U)
  <2>1. PICK i \in DOMAIN R : Edited(D[n], R[i], Range(F))
    BY <1>4
  <2>2. PICK k \in DOMAIN q : /\ q[k].pkg = R[i].pkg
                              /\ q[k].deps \subseteq R[i].deps \cup Range(T)
    BY <1>2
  <2>3. D[n].pkg = R[i].pkg /\ R[i].pkg \notin Range(F) /\ D[n].deps = R[i].deps \ Range(F)
    BY <2>1 DEF Edited
  <2>4. R[i].pkg \notin Range(T)
    BY <1>2
  <2>5. q[k].deps \subseteq D[n].deps \cup Range(U)
    BY <1>5, <2>2, <2>3
  <2> QED BY <1>5, <2>2, <2>3, <2>4, <2>5
<1>8. Len(T) \in Nat /\ DOMAIN T = 1 .. Len(T)
  BY <1>2
<1>9. ASSUME NEW i \in DOMAIN U
      PROVE  \E k \in DOMAIN q : /\ q[k].pkg = U[i]
                                 /\ q[k].deps \subseteq {U[j] : j \in 1 .. i - 1}
  <2>1. CASE i \in DOMAIN T
    <3>1. PICK k \in DOMAIN q : q[k].pkg = T[i] /\ q[k].deps \subseteq {T[j] : j \in 1 .. i - 1}
      BY <1>2, <2>1
    <3>2. \A j \in 1 .. i - 1 : j \in DOMAIN T
      BY <1>8, <2>1
    <3>3. {T[j] : j \in 1 .. i - 1} \subseteq {U[j] : j \in 1 .. i - 1}
      BY <1>5, <3>2
    <3>4. q[k].deps \subseteq {U[j] : j \in 1 .. i - 1} /\ U[i] = T[i]
      BY <1>5, <2>1, <3>1, <3>3
    <3> QED BY <3>1, <3>4
  <2>2. CASE i \notin DOMAIN T
    <3>1. i - Len(T) \in DOMAIN F /\ i > Len(T) /\ U[i] = F[i - Len(T)] /\ i \in Int
      BY <1>5, <1>8, <2>2
    <3>2. PICK m \in DOMAIN R : R[m].pkg = U[i] /\ R[m].deps = {}
      BY <1>3, <3>1
    <3>3. PICK k \in DOMAIN q : q[k].pkg = R[m].pkg /\ q[k].deps \subseteq R[m].deps \cup Range(T)
      BY <1>2
    <3>4. \A j \in DOMAIN T : j \in 1 .. i - 1
      BY <1>8, <3>1
    <3>5. Range(T) \subseteq {U[j] : j \in 1 .. i - 1}
      BY <1>5, <3>4 DEF Range
    <3>6. q[k].deps \subseteq {U[j] : j \in 1 .. i - 1}
      BY <3>2, <3>3, <3>5
    <3> QED BY <3>2, <3>3, <3>6
  <2> QED BY <2>1, <2>2
<1>10. SplitInv(U, D, q)
  BY <1>4, <1>5, <1>6, <1>7, <1>9, Zenon DEF SplitInv
<1> QED BY <1>1, <1>10 DEF RoundInv, s

\* priority_queue returns reports of the queue, none twice, each after its dependencies.
LEMMA PriorityQueueFacts ==
    ASSUME NEW q \in Seq(Item), Distinct(q)
    PROVE  /\ PriorityQueue(q) \in Seq(Package)
           /\ IsInjective(PriorityQueue(q))
           /\ \A i \in DOMAIN PriorityQueue(q) : \E k \in DOMAIN q :
                 /\ q[k].pkg = PriorityQueue(q)[i]
                 /\ q[k].deps \subseteq {PriorityQueue(q)[j] : j \in 1 .. i - 1}
<1>1. Len(q) \in Nat
  OBVIOUS
<1>2. PICK f : /\ \A n \in 0 .. Len(q) : f[n] = IF n = 0 THEN [taken |-> <<>>, rest |-> q]
                                                ELSE RoundStep(f[n - 1])
               /\ PriorityQueue(q) = f[Len(q)].taken
  BY <1>1, PriorityQueueRounds
<1> DEFINE Bad == {n \in Nat : n <= Len(q) /\ ~RoundInv(f[n], q)}
<1>3. Bad = {}
  <2> SUFFICES ASSUME Bad # {} PROVE FALSE
    OBVIOUS
  <2>1. PICK n \in Bad : \A m \in Bad : n <= m
    BY LeastNatural
  <2>2. n \in 0 .. Len(q) /\ ~RoundInv(f[n], q)
    BY <1>1, <2>1
  <2>3. CASE n = 0
    <3>1. f[n].taken = <<>> /\ f[n].rest = q
      BY <1>2, <2>2, <2>3
    <3>2. <<>> \in Seq(Package) /\ IsInjective(<<>>) /\ Range(<<>>) = {} /\ DOMAIN <<>> = {}
      BY DEF IsInjective, Range
    <3>3. \A i \in DOMAIN q : q[i].pkg \notin {} /\ q[i].deps \subseteq q[i].deps \cup {}
      OBVIOUS
    <3>4. RoundInv(f[n], q)
      BY <3>1, <3>2, <3>3, Zenon DEF RoundInv, SplitInv
    <3> QED BY <2>2, <3>4
  <2>4. CASE n # 0
    <3>1. n - 1 \in Nat /\ n - 1 <= Len(q) /\ n - 1 \notin Bad
      BY <1>1, <2>1, <2>2, <2>4
    <3>2. RoundInv(f[n - 1], q) /\ f[n] = RoundStep(f[n - 1])
      BY <1>2, <2>2, <2>4, <3>1
    <3> QED BY <2>2, <3>2, RoundKeeps
  <2> QED BY <2>3, <2>4
<1>4. RoundInv(f[Len(q)], q)
  BY <1>1, <1>3
<1>5. SplitInv(PriorityQueue(q), f[Len(q)].rest, q)
  BY <1>2, <1>4 DEF RoundInv
<1> QED BY <1>5, Zenon DEF SplitInv

-----------------------------------------------------------------------------
(* Phases of an epoch.                                                     *)

LEMMA DivMod ==
    ASSUME NEW x \in Int, NEW n \in Nat \ {0}
    PROVE  x \div n \in Int /\ x % n \in 0 .. n - 1 /\ x = n * (x \div n) + (x % n)
  OBVIOUS

\* The quotient and the remainder are unique.
LEMMA DivisionIsUnique ==
    ASSUME NEW n \in Nat \ {0}, NEW p \in Int, NEW q \in Int,
           NEW r \in 0 .. n - 1, NEW s \in 0 .. n - 1, n * p + r = n * q + s
    PROVE  p = q /\ r = s
<1> DEFINE a == p - q
<1>1. a \in Int /\ n * a < n /\ -n < n * a
  <2>1. n * a = s - r
    OBVIOUS
  <2> QED BY <2>1
<1> HIDE DEF a
<1>2. ~(a >= 1)
  <2>1. a >= 1 => n * a >= n
    BY <1>1
  <2> QED BY <1>1, <2>1
<1>3. ~(a <= -1)
  <2>1. a <= -1 => n * a <= -n
    BY <1>1
  <2> QED BY <1>1, <2>1
<1>4. a = 0
  BY <1>1, <1>2, <1>3
<1> QED BY <1>4 DEF a

LEMMA ModIs ==
    ASSUME NEW n \in Nat \ {0}, NEW q \in Int, NEW r \in 0 .. n - 1
    PROVE  (n * q + r) % n = r
<1> DEFINE x == n * q + r
<1>1. x \in Int
  OBVIOUS
<1>2. x \div n \in Int /\ x % n \in 0 .. n - 1 /\ x = n * (x \div n) + (x % n)
  BY <1>1, DivMod
<1> DEFINE p == x \div n
           t == x % n
<1>3. p \in Int /\ t \in 0 .. n - 1 /\ n * p + t = n * q + r
  BY <1>2
<1> HIDE DEF p, t
<1>4. t = r
  BY <1>3, DivisionIsUnique
<1> QED BY <1>4 DEF t

\* A bucket that has existed for at least d slots was d slots younger d slots ago.
LEMMA YoungerBefore ==
    ASSUME NEW n \in Nat \ {0}, NEW x \in Int, NEW d \in Nat, (x + d) % n >= d
    PROVE  x % n = ((x + d) % n) - d
<1> DEFINE y == x + d
           q == y \div n
           r == y % n
<1>1. y \in Int
  OBVIOUS
<1>2. q \in Int /\ r \in 0 .. n - 1 /\ y = n * q + r
  BY <1>1, DivMod
<1>3. r >= d
  OBVIOUS
<1> HIDE DEF q, r
<1>4. r - d \in 0 .. n - 1 /\ x = n * q + (r - d)
  BY <1>2, <1>3
<1> QED BY <1>2, <1>4, ModIs DEF r

\* And one with d slots left in the epoch is d slots older d slots later.
LEMMA OlderAfter ==
    ASSUME NEW n \in Nat \ {0}, NEW x \in Int, NEW d \in Nat, (x % n) + d < n
    PROVE  (x + d) % n = (x % n) + d
<1> DEFINE q == x \div n
           r == x % n
<1>1. q \in Int /\ r \in 0 .. n - 1 /\ x = n * q + r
  BY DivMod
<1>2. r + d < n
  OBVIOUS
<1> HIDE DEF q, r
<1>3. r + d \in 0 .. n - 1 /\ x + d = n * q + (r + d)
  BY <1>1, <1>2
<1> QED BY <1>1, <1>3, ModIs DEF r

\* E consecutive slots have each phase once.
LEMMA PhasesOnce ==
    ASSUME NEW n \in Nat \ {0}, NEW s \in Int
    PROVE  /\ \A i \in 1 .. n : (s + i - 1) % n \in 0 .. n - 1
           /\ \A i, j \in 1 .. n : (s + i - 1) % n = (s + j - 1) % n => i = j
           /\ \A k \in 0 .. n - 1 : \E i \in 1 .. n : (s + i - 1) % n = k
<1>1. ASSUME NEW i \in 1 .. n
      PROVE  (s + i - 1) % n \in 0 .. n - 1
  BY DivMod
<1>2. ASSUME NEW i \in 1 .. n, NEW j \in 1 .. n, (s + i - 1) % n = (s + j - 1) % n
      PROVE  i = j
  <2> DEFINE x == s + i - 1
             y == s + j - 1
  <2>1. x \in Int /\ y \in Int
    OBVIOUS
  <2>2. /\ x \div n \in Int /\ x % n \in 0 .. n - 1 /\ x = n * (x \div n) + (x % n)
        /\ y \div n \in Int /\ y % n \in 0 .. n - 1 /\ y = n * (y \div n) + (y % n)
    BY <2>1, DivMod
  <2>3. PICK p \in Int, q \in Int, r \in 0 .. n - 1 : x = n * p + r /\ y = n * q + r
    BY <1>2, <2>2
  <2>4. x - y = n * (p - q)
    BY <2>3
  <2>5. p - q \in Int /\ x - y < n /\ -n < x - y
    OBVIOUS
  <2>6. p - q = 0
    <3> DEFINE a == p - q
    <3>1. a \in Int /\ n * a < n /\ -n < n * a
      BY <2>4, <2>5
    <3> HIDE DEF a
    <3>2. a >= 1 => n * a >= n
      BY <3>1
    <3>3. a <= -1 => n * a <= -n
      BY <3>1
    <3> QED BY <3>1, <3>2, <3>3 DEF a
  <2>7. p = q
    BY <2>6
  <2>8. x = y
    BY <2>3, <2>7
  <2> QED BY <2>8
<1>3. ASSUME NEW k \in 0 .. n - 1
      PROVE  \E i \in 1 .. n : (s + i - 1) % n = k
  <2> DEFINE x == k - s
             q == x \div n
             r == x % n
             i == r + 1
  <2>1. x \in Int
    OBVIOUS
  <2>2. q \in Int /\ r \in 0 .. n - 1 /\ x = n * q + r
    BY <2>1, DivMod
  <2> HIDE DEF q, r
  <2>3. i \in 1 .. n /\ s + i - 1 = n * (-q) + k /\ -q \in Int
    BY <2>2
  <2>4. (n * (-q) + k) % n = k
    BY <2>3, ModIs
  <2> HIDE DEF i, x
  <2>5. (s + i - 1) % n = k
    BY <2>3, <2>4
  <2> QED BY <2>3, <2>5
<1> QED BY <1>1, <1>2, <1>3

-----------------------------------------------------------------------------
(* All buckets in a row.                                                   *)

Flats(f, seqs, N) ==
    f = [i \in 1 .. N |-> IF i = 1 THEN seqs[i] ELSE f[i - 1] \o seqs[i]]

LEMMA FlatsExist ==
    ASSUME NEW seqs, NEW N \in Nat
    PROVE  \E f : Flats(f, seqs, N)
<1> DEFINE Bad == {n \in Nat : ~ \E f : Flats(f, seqs, n)}
<1>1. Bad = {}
  <2> SUFFICES ASSUME Bad # {} PROVE FALSE
    OBVIOUS
  <2>1. PICK n \in Bad : \A m \in Bad : n <= m
    BY LeastNatural
  <2>2. CASE n = 0
    <3> DEFINE f == [i \in 1 .. 0 |-> seqs[i]]
    <3>1. Flats(f, seqs, 0)
      BY DEF Flats
    <3> QED BY <2>1, <2>2, <3>1
  <2>3. CASE n # 0
    <3>1. n - 1 \in Nat /\ n - 1 \notin Bad /\ n \in Nat
      BY <2>1, <2>3
    <3>2. PICK g : Flats(g, seqs, n - 1)
      BY <3>1
    <3> DEFINE f == [i \in 1 .. n |-> IF i = n THEN (IF i = 1 THEN seqs[i] ELSE g[i - 1] \o seqs[i])
                                      ELSE g[i]]
    <3>3. \A i \in 1 .. n - 1 : g[i] = IF i = 1 THEN seqs[i] ELSE g[i - 1] \o seqs[i]
      BY <3>2 DEF Flats
    <3>4. \A i \in 1 .. n - 1 : f[i] = g[i]
      BY <3>1
    <3>5. f[n] = IF n = 1 THEN seqs[n] ELSE g[n - 1] \o seqs[n]
      BY <2>3, <3>1
    <3>6. DOMAIN f = 1 .. n /\ f = [i \in 1 .. n |-> f[i]]
      OBVIOUS
    <3> HIDE DEF f
    <3>7. ASSUME NEW i \in 1 .. n
          PROVE  f[i] = IF i = 1 THEN seqs[i] ELSE f[i - 1] \o seqs[i]
      <4>1. i # 1 => i - 1 \in 1 .. n - 1
        BY <3>1
      <4>2. CASE i = n
        BY <3>4, <3>5, <4>1, <4>2
      <4>3. CASE i # n
        <5>1. i \in 1 .. n - 1
          BY <3>1, <4>3
        <5> QED BY <3>3, <3>4, <4>1, <5>1
      <4> QED BY <4>2, <4>3
    <3>8. Flats(f, seqs, n)
      BY <3>6, <3>7 DEF Flats
    <3> QED BY <2>1, <3>8
  <2> QED BY <2>2, <2>3
<1> QED BY <1>1

LEMMA FlattenSteps ==
    ASSUME NEW seqs, Len(seqs) \in Nat \ {0}
    PROVE  \E f : /\ \A i \in 1 .. Len(seqs) :
                        f[i] = IF i = 1 THEN seqs[i] ELSE f[i - 1] \o seqs[i]
                  /\ FlattenSeq(seqs) = f[Len(seqs)]
<1> DEFINE g == CHOOSE f : Flats(f, seqs, Len(seqs))
<1>1. Flats(g, seqs, Len(seqs))
  BY FlatsExist
<1>2. FlattenSeq(seqs) = g[Len(seqs)]
  BY DEF FlattenSeq, Flats
<1>3. \A i \in 1 .. Len(seqs) : g[i] = IF i = 1 THEN seqs[i] ELSE g[i - 1] \o seqs[i]
  <2> HIDE DEF g
  <2> QED BY <1>1 DEF Flats
<1> HIDE DEF g
<1> QED BY <1>2, <1>3

LEMMA DistinctConcat ==
    ASSUME NEW s \in Seq(Item), NEW t \in Seq(Item), Distinct(s), Distinct(t),
           \A x \in Range(s), y \in Range(t) : x.pkg # y.pkg
    PROVE  Distinct(s \o t)
<1> DEFINE u == s \o t
<1>1. /\ \A i \in DOMAIN s : u[i] = s[i]
      /\ \A i \in DOMAIN u : \/ i \in DOMAIN s
                             \/ i - Len(s) \in DOMAIN t /\ i > Len(s) /\ u[i] = t[i - Len(s)]
      /\ DOMAIN u = 1 .. Len(s) + Len(t)
  BY ConcatFacts
<1> HIDE DEF u
<1>2. Len(s) \in Nat /\ Len(t) \in Nat
  OBVIOUS
<1>3. ASSUME NEW i \in DOMAIN u, NEW j \in DOMAIN u, u[i].pkg = u[j].pkg
      PROVE  i = j
  <2>1. i \in Int /\ j \in Int
    BY <1>1, <1>2
  <2>2. /\ \A k \in DOMAIN s : s[k] \in Range(s)
        /\ \A k \in DOMAIN t : t[k] \in Range(t)
    BY DEF Range
  <2>3. CASE i \in DOMAIN s /\ j \in DOMAIN s
    BY <1>1, <1>3, <2>3, Zenon DEF Distinct
  <2>4. CASE i \notin DOMAIN s /\ j \notin DOMAIN s
    <3>1. /\ t[i - Len(s)].pkg = t[j - Len(s)].pkg
          /\ i - Len(s) \in DOMAIN t /\ j - Len(s) \in DOMAIN t
      BY <1>1, <1>3, <2>4, Zenon
    <3>2. i - Len(s) = j - Len(s)
      BY <3>1, Zenon DEF Distinct
    <3> QED BY <1>2, <2>1, <3>2
  <2>5. CASE i \in DOMAIN s /\ j \notin DOMAIN s
    <3>1. u[i] \in Range(s) /\ u[j] \in Range(t)
      BY <1>1, <2>2, <2>5
    <3> QED BY <1>3, <3>1
  <2>6. CASE i \notin DOMAIN s /\ j \in DOMAIN s
    <3>1. u[j] \in Range(s) /\ u[i] \in Range(t)
      BY <1>1, <2>2, <2>6
    <3> QED BY <1>3, <3>1
  <2> QED BY <2>3, <2>4, <2>5, <2>6
<1> QED BY <1>3, Zenon DEF u, Distinct

\* Queues that share no package, one after the other.
LEMMA FlattenFacts ==
    ASSUME NEW N \in Nat \ {0}, NEW seqs \in [1 .. N -> Seq(Item)],
           \A i \in 1 .. N : Distinct(seqs[i]),
           \A i, j \in 1 .. N : \A x \in Range(seqs[i]), y \in Range(seqs[j]) :
               x.pkg = y.pkg => i = j
    PROVE  /\ FlattenSeq(seqs) \in Seq(Item)
           /\ Distinct(FlattenSeq(seqs))
           /\ Range(FlattenSeq(seqs)) = UNION {Range(seqs[i]) : i \in 1 .. N}
<1>1. Len(seqs) = N /\ Len(seqs) \in Nat \ {0}
  OBVIOUS
<1>2. PICK f : /\ \A i \in 1 .. N : f[i] = IF i = 1 THEN seqs[i] ELSE f[i - 1] \o seqs[i]
               /\ FlattenSeq(seqs) = f[N]
  BY <1>1, FlattenSteps
<1> DEFINE Good(n) == /\ f[n] \in Seq(Item) /\ Distinct(f[n])
                      /\ Range(f[n]) = UNION {Range(seqs[i]) : i \in 1 .. n}
           Bad == {n \in Nat : n \in 1 .. N /\ ~Good(n)}
<1>3. Bad = {}
  <2> SUFFICES ASSUME Bad # {} PROVE FALSE
    OBVIOUS
  <2>1. PICK n \in Bad : \A m \in Bad : n <= m
    <3> HIDE DEF Good
    <3> QED BY LeastNatural
  <2>2. n \in 1 .. N /\ ~Good(n)
    BY <2>1
  <2>3. seqs[n] \in Seq(Item) /\ Distinct(seqs[n])
    BY <2>2
  <2>4. CASE n = 1
    <3>1. f[n] = seqs[n]
      BY <1>2, <2>2, <2>4
    <3>2. 1 .. n = {n}
      BY <2>4
    <3>3. UNION {Range(seqs[i]) : i \in {n}} = Range(seqs[n])
      OBVIOUS
    <3> QED BY <2>2, <2>3, <3>1, <3>2, <3>3
  <2>5. CASE n # 1
    <3>1. n - 1 \in Nat /\ n - 1 \in 1 .. N /\ n - 1 \notin Bad
      <4> HIDE DEF Good
      <4> QED BY <2>1, <2>2, <2>5
    <3>2. Good(n - 1)
      BY <3>1
    <3>3. f[n] = f[n - 1] \o seqs[n]
      BY <1>2, <2>2, <2>5
    <3>4. \A i \in 1 .. n - 1 : i # n /\ i \in 1 .. N
      BY <2>2
    <3>5. \A x \in Range(f[n - 1]), y \in Range(seqs[n]) : x.pkg # y.pkg
      BY <2>2, <3>2, <3>4
    <3>6. Distinct(f[n])
      BY <2>3, <3>2, <3>3, <3>5, DistinctConcat
    <3>7. f[n] \in Seq(Item) /\ Range(f[n]) = Range(f[n - 1]) \cup Range(seqs[n])
      BY <2>3, <3>2, <3>3, ConcatFacts
    <3>8. 1 .. n = (1 .. n - 1) \cup {n}
      BY <2>2
    <3>9. Range(f[n]) = UNION {Range(seqs[i]) : i \in (1 .. n - 1) \cup {n}}
      BY <3>2, <3>7
    <3> QED BY <2>2, <3>6, <3>7, <3>8, <3>9
  <2> QED BY <2>4, <2>5
<1>4. Good(N)
  <2> HIDE DEF Good
  <2> QED BY <1>3
<1> QED BY <1>2, <1>4

\* What the buckets of a queue hold together.
QueueFine(q) ==
    /\ q \in [Phase -> Seq(Item)]
    /\ \A j \in Phase : Distinct(q[j])
    /\ \A j, k \in Phase : \A x \in Range(q[j]), y \in Range(q[k]) : x.pkg = y.pkg => j = k

LEMMA BucketsFacts ==
    ASSUME NEW q, NEW t \in Nat, QueueFine(q)
    PROVE  /\ Buckets(q, t) \in Seq(Item)
           /\ Distinct(Buckets(q, t))
           /\ Range(Buckets(q, t)) = UNION {Range(q[j]) : j \in Phase}
<1> DEFINE N == EpochTimeslots
           at(i) == (t + i - 1) % N
           seqs == [i \in 1 .. N |-> q[at(i)]]
<1>1. N \in Nat \ {0}
  BY QueueAssumption
<1>2. /\ \A i \in 1 .. N : at(i) \in Phase
      /\ \A i, j \in 1 .. N : at(i) = at(j) => i = j
      /\ \A k \in Phase : \E i \in 1 .. N : at(i) = k
  <2>1. t \in Int
    OBVIOUS
  <2> QED BY <1>1, <2>1, PhasesOnce DEF Phase
<1> HIDE DEF at
<1>3. seqs \in [1 .. N -> Seq(Item)]
  BY <1>2 DEF QueueFine
<1>4. \A i \in 1 .. N : seqs[i] = q[at(i)]
  OBVIOUS
<1>5. FlattenSeq(seqs) = Buckets(q, t)
  BY DEF Buckets, at
<1> HIDE DEF N, seqs
<1>6. \A i \in 1 .. N : Distinct(seqs[i])
  BY <1>2, <1>4, Zenon DEF QueueFine
<1>7. \A i, j \in 1 .. N : \A x \in Range(seqs[i]), y \in Range(seqs[j]) : x.pkg = y.pkg => i = j
  <2> SUFFICES ASSUME NEW i \in 1 .. N, NEW j \in 1 .. N,
                      NEW x \in Range(seqs[i]), NEW y \in Range(seqs[j]), x.pkg = y.pkg
               PROVE  i = j
    BY Zenon
  <2>1. at(i) \in Phase /\ at(j) \in Phase /\ x \in Range(q[at(i)]) /\ y \in Range(q[at(j)])
    BY <1>2, <1>4
  <2>2. at(i) = at(j)
    BY <2>1, Zenon DEF QueueFine
  <2> QED BY <1>2, <2>2
<1>8. UNION {Range(seqs[i]) : i \in 1 .. N} = UNION {Range(q[j]) : j \in Phase}
  BY <1>2, <1>4
<1> QED BY <1>1, <1>3, <1>5, <1>6, <1>7, <1>8, FlattenFacts

-----------------------------------------------------------------------------
(* The reports that a block may accumulate.                                *)

LEMMA ReadyFacts ==
    ASSUME NEW av \in Seq(Package), IsInjective(av)
    PROVE  /\ ReadyWorkReports(av) \in Seq(Package)
           /\ IsInjective(ReadyWorkReports(av))
           /\ Len(ReadyWorkReports(av)) <= Len(av)
           /\ Range(ReadyWorkReports(av)) = {p \in Range(av) : Deps[p] = {}}
<1> DEFINE I == {i \in DOMAIN av : Deps[av[i]] = {}}
           a == Ascending(I)
           kept == ElementsAt(av, I)
<1>1. /\ kept \in Seq(Package) /\ DOMAIN kept = DOMAIN a
      /\ \A n \in DOMAIN kept : a[n] \in I /\ kept[n] = av[a[n]]
      /\ \A m, n \in DOMAIN kept : a[m] = a[n] => m = n
      /\ \A i \in I : \E n \in DOMAIN kept : a[n] = i
  <2>1. I \in SUBSET DOMAIN av
    OBVIOUS
  <2> HIDE DEF I
  <2> QED BY <2>1, ElementsAtFacts
<1>0. Len(kept) = Cardinality(I) /\ Cardinality(I) <= Len(av)
  <2>1. I \in SUBSET DOMAIN av
    OBVIOUS
  <2> HIDE DEF I
  <2> QED BY <2>1, ElementsAtFacts
<1>2. ReadyWorkReports(av) = kept
  BY DEF ReadyWorkReports
<1> HIDE DEF a, kept
<1>3. \A i : i \in I <=> i \in DOMAIN av /\ Deps[av[i]] = {}
  BY Zenon
<1> HIDE DEF I
<1>4. IsInjective(kept)
  <2> SUFFICES ASSUME NEW m \in DOMAIN kept, NEW n \in DOMAIN kept, kept[m] = kept[n]
               PROVE  m = n
    BY Zenon DEF IsInjective
  <2>1. a[m] \in DOMAIN av /\ a[n] \in DOMAIN av /\ av[a[m]] = av[a[n]]
    BY <1>1, <1>3
  <2>2. a[m] = a[n]
    BY <2>1, Zenon DEF IsInjective
  <2> QED BY <1>1, <2>2
<1>5. Range(kept) = {p \in Range(av) : Deps[p] = {}}
  <2>1. \A n \in DOMAIN kept : kept[n] \in Range(av) /\ Deps[kept[n]] = {}
    BY <1>1, <1>3, Zenon DEF Range
  <2>2. \A i \in DOMAIN av : Deps[av[i]] = {} => \E n \in DOMAIN kept : kept[n] = av[i]
    <3> SUFFICES ASSUME NEW i \in DOMAIN av, Deps[av[i]] = {}
                 PROVE  \E n \in DOMAIN kept : kept[n] = av[i]
      OBVIOUS
    <3>1. PICK n \in DOMAIN kept : a[n] = i
      BY <1>1, <1>3
    <3> QED BY <1>1, <3>1
  <2>3. \A p \in Range(kept) : p \in Range(av) /\ Deps[p] = {}
    BY <2>1 DEF Range
  <2>4. \A p \in Range(av) : Deps[p] = {} => p \in Range(kept)
    BY <2>2 DEF Range
  <2> QED BY <2>3, <2>4, Zenon
<1> QED BY <1>0, <1>1, <1>2, <1>4, <1>5

\* The reports that join the queue, without what the history shows as done.
LEMMA QueuedFacts ==
    ASSUME NEW av \in Seq(Package), IsInjective(av), NEW hist, NEW H, H = UNION Range(hist)
    PROVE  /\ QueuedWorkReports(av, hist) \in Seq(Item)
           /\ Distinct(QueuedWorkReports(av, hist))
           /\ \A x \in Range(QueuedWorkReports(av, hist)) :
                 /\ x.pkg \in Range(av) /\ x.pkg \notin H /\ Deps[x.pkg] # {}
                 /\ x.deps = Deps[x.pkg] \ H
           /\ \A p \in Range(av) : Deps[p] # {} /\ p \notin H =>
                 \E x \in Range(QueuedWorkReports(av, hist)) : x.pkg = p
<1> DEFINE I == {i \in DOMAIN av : Deps[av[i]] # {}}
           a == Ascending(I)
           kept == ElementsAt(av, I)
           items == [i \in DOMAIN kept |-> WorkReportDependencies(kept[i])]
           e == QueuedWorkReports(av, hist)
<1>1. /\ kept \in Seq(Package) /\ DOMAIN kept = DOMAIN a
      /\ \A n \in DOMAIN kept : a[n] \in I /\ kept[n] = av[a[n]]
      /\ \A m, n \in DOMAIN kept : a[m] = a[n] => m = n
      /\ \A i \in I : \E n \in DOMAIN kept : a[n] = i
  <2>1. I \in SUBSET DOMAIN av
    OBVIOUS
  <2> HIDE DEF I
  <2> QED BY <2>1, ElementsAtFacts
<1>2. e = EditQueue(items, H)
  BY DEF QueuedWorkReports
<1> HIDE DEF a, kept
<1>3. IsInjective(kept) /\ Range(kept) = {p \in Range(av) : Deps[p] # {}}
  BY <1>1 DEF IsInjective, Range
<1> HIDE DEF I, e
<1>4. /\ DOMAIN items = DOMAIN kept
      /\ \A i \in DOMAIN kept : /\ items[i] \in Item /\ items[i].pkg = kept[i]
                                /\ items[i].deps = Deps[kept[i]]
  <2>1. \A i \in DOMAIN kept : kept[i] \in Package
    BY <1>1
  <2> QED BY <2>1, QueueAssumption DEF WorkReportDependencies, Item
<1>5. items \in Seq(Item)
  <2>1. Len(kept) \in Nat /\ DOMAIN kept = 1 .. Len(kept)
    BY <1>1
  <2>2. items = [n \in 1 .. Len(kept) |-> items[n]]
    BY <2>1
  <2> HIDE DEF items
  <2> QED BY <1>4, <2>1, <2>2
<1> HIDE DEF items
<1>6. Distinct(items)
  <2>1. \A i, j \in DOMAIN items : items[i].pkg = items[j].pkg => kept[i] = kept[j]
    BY <1>4
  <2>2. \A i, j \in DOMAIN items : kept[i] = kept[j] => i = j
    BY <1>3, <1>4 DEF IsInjective
  <2> QED BY <2>1, <2>2, Zenon DEF Distinct
<1>7. /\ e \in Seq(Item) /\ Distinct(e)
      /\ \A n \in DOMAIN e : \E i \in DOMAIN items : Edited(e[n], items[i], H)
      /\ \A i \in DOMAIN items : items[i].pkg \notin H =>
            \E n \in DOMAIN e : Edited(e[n], items[i], H)
  BY <1>2, <1>5, <1>6, EditQueueFacts
<1>8. ASSUME NEW x \in Range(e)
      PROVE  /\ x.pkg \in Range(av) /\ x.pkg \notin H /\ Deps[x.pkg] # {}
             /\ x.deps = Deps[x.pkg] \ H
  <2>1. PICK n \in DOMAIN e : x = e[n]
    BY DEF Range
  <2>2. PICK i \in DOMAIN items : Edited(x, items[i], H)
    BY <1>7, <2>1
  <2>3. x.pkg = kept[i] /\ kept[i] \notin H /\ x.deps = Deps[kept[i]] \ H /\ kept[i] \in Range(kept)
    BY <1>4, <2>2 DEF Edited, Range
  <2> QED BY <1>3, <2>3
<1>9. ASSUME NEW p \in Range(av), Deps[p] # {}, p \notin H
      PROVE  \E x \in Range(e) : x.pkg = p
  <2>1. p \in Range(kept)
    BY <1>3, <1>9
  <2>2. PICK i \in DOMAIN kept : kept[i] = p
    BY <2>1 DEF Range
  <2>3. PICK n \in DOMAIN e : Edited(e[n], items[i], H)
    BY <1>4, <1>7, <1>9, <2>2
  <2>4. e[n] \in Range(e) /\ e[n].pkg = p
    BY <1>4, <2>2, <2>3 DEF Edited, Range
  <2> QED BY <2>4
<1> QED BY <1>7, <1>8, <1>9 DEF e

InBuckets(q) == {x.pkg : x \in UNION {Range(q[j]) : j \in Phase}}

\* Reports R may be accumulated in this order after the packages of D, the available
\* ones without dependencies before all others.
ReportsFine(R, av, q, D) ==
    /\ R \in Seq(Package) /\ IsInjective(R)
    /\ Range(R) \subseteq Range(av) \cup InBuckets(q)
    /\ \A i \in DOMAIN R : Deps[R[i]] \subseteq D \cup {R[j] : j \in 1 .. i - 1}
    /\ \E n \in 0 .. Len(R) :
          /\ n <= Len(av)
          /\ \A p \in Range(av) : Deps[p] = {} => \E i \in 1 .. n : R[i] = p

LEMMA AccumulatableFacts ==
    ASSUME NEW av \in Seq(Package), IsInjective(av), NEW q, QueueFine(q), NEW t \in Nat,
           NEW hist, NEW D, UNION Range(hist) \subseteq D,
           \A p \in InBuckets(q) : p \notin Range(av),
           \A j \in Phase : \A x \in Range(q[j]) : Deps[x.pkg] \subseteq x.deps \cup D
    PROVE  ReportsFine(AccumulatableWorkReports(av, q, hist, t), av, q, D)
<1> DEFINE H == UNION Range(hist)
           r == ReadyWorkReports(av)
           K == Buckets(q, t)
           W == QueuedWorkReports(av, hist)
           B == K \o W
           C == EditQueue(B, Range(r))
           P == PriorityQueue(C)
           R == r \o P
<1>1. AccumulatableWorkReports(av, q, hist, t) = R
  BY DEF AccumulatableWorkReports
<1>2. /\ r \in Seq(Package) /\ IsInjective(r) /\ Len(r) <= Len(av)
      /\ Range(r) = {p \in Range(av) : Deps[p] = {}}
  BY ReadyFacts
<1>3. /\ K \in Seq(Item) /\ Distinct(K)
      /\ Range(K) = UNION {Range(q[j]) : j \in Phase}
  BY BucketsFacts
<1>4. /\ W \in Seq(Item) /\ Distinct(W)
      /\ \A x \in Range(W) : x.pkg \in Range(av) /\ x.deps = Deps[x.pkg] \ H
  <2> HIDE DEF W
  <2>1. H = UNION Range(hist)
    OBVIOUS
  <2> HIDE DEF H
  <2> QED BY <2>1, QueuedFacts DEF W
<1>5. H \subseteq D
  OBVIOUS
<1> HIDE DEF r, K, W, H
<1>6. \A x \in Range(K) : x.pkg \in InBuckets(q) /\ Deps[x.pkg] \subseteq x.deps \cup D
  BY <1>3 DEF InBuckets
<1>7. Distinct(B)
  <2>1. \A x \in Range(K), y \in Range(W) : x.pkg # y.pkg
    BY <1>4, <1>6
  <2> QED BY <1>3, <1>4, <2>1, DistinctConcat
<1>8. B \in Seq(Item) /\ Range(B) = Range(K) \cup Range(W)
  BY <1>3, <1>4, ConcatFacts
<1>9. \A x \in Range(B) : /\ x.pkg \in Range(av) \cup InBuckets(q)
                          /\ Deps[x.pkg] \subseteq x.deps \cup D
  BY <1>4, <1>5, <1>6, <1>8
<1> HIDE DEF B
<1>10. /\ C \in Seq(Item) /\ Distinct(C)
       /\ \A n \in DOMAIN C : \E i \in DOMAIN B : Edited(C[n], B[i], Range(r))
  BY <1>7, <1>8, EditQueueFacts
<1> HIDE DEF C
<1>11. /\ P \in Seq(Package) /\ IsInjective(P)
       /\ \A i \in DOMAIN P : \E k \in DOMAIN C :
             C[k].pkg = P[i] /\ C[k].deps \subseteq {P[j] : j \in 1 .. i - 1}
  BY <1>10, PriorityQueueFacts
<1> HIDE DEF P
<1>12. ASSUME NEW i \in DOMAIN P
       PROVE  /\ P[i] \in Range(av) \cup InBuckets(q) /\ P[i] \notin Range(r)
              /\ Deps[P[i]] \subseteq D \cup Range(r) \cup {P[j] : j \in 1 .. i - 1}
  <2>1. PICK k \in DOMAIN C : C[k].pkg = P[i] /\ C[k].deps \subseteq {P[j] : j \in 1 .. i - 1}
    BY <1>11
  <2>2. PICK m \in DOMAIN B : Edited(C[k], B[m], Range(r))
    BY <1>10
  <2>3. /\ B[m].pkg = P[i] /\ P[i] \notin Range(r) /\ C[k].deps = B[m].deps \ Range(r)
        /\ B[m] \in Range(B)
    BY <2>1, <2>2 DEF Edited, Range
  <2>4. P[i] \in Range(av) \cup InBuckets(q) /\ Deps[P[i]] \subseteq B[m].deps \cup D
    BY <1>9, <2>3
  <2> QED BY <2>1, <2>3, <2>4
<1>13. /\ R \in Seq(Package) /\ DOMAIN R = 1 .. Len(r) + Len(P) /\ Len(R) = Len(r) + Len(P)
       /\ Range(R) = Range(r) \cup Range(P)
       /\ \A i \in DOMAIN r : R[i] = r[i]
       /\ \A i \in DOMAIN R : \/ i \in DOMAIN r
                              \/ i - Len(r) \in DOMAIN P /\ i > Len(r) /\ R[i] = P[i - Len(r)]
  BY <1>2, <1>11, ConcatFacts
<1>14. IsInjective(R)
  BY <1>2, <1>11, <1>12, InjectiveConcat
<1> HIDE DEF R
<1>15. Range(R) \subseteq Range(av) \cup InBuckets(q)
  <2>1. \A p \in Range(P) : p \in Range(av) \cup InBuckets(q)
    BY <1>12 DEF Range
  <2>2. Range(r) \subseteq Range(av)
    BY <1>2
  <2> QED BY <1>13, <2>1, <2>2
<1>16. Len(r) \in Nat /\ DOMAIN r = 1 .. Len(r) /\ Len(P) \in Nat /\ DOMAIN P = 1 .. Len(P)
  BY <1>2, <1>11
<1>17. ASSUME NEW i \in DOMAIN R
       PROVE  Deps[R[i]] \subseteq D \cup {R[j] : j \in 1 .. i - 1}
  <2>1. CASE i \in DOMAIN r
    <3>1. r[i] \in Range(r)
      BY <2>1 DEF Range
    <3>2. Deps[R[i]] = {}
      BY <1>2, <1>13, <2>1, <3>1
    <3> QED BY <3>2
  <2>2. CASE i \notin DOMAIN r
    <3> DEFINE m == i - Len(r)
    <3>1. m \in DOMAIN P /\ R[i] = P[m] /\ i > Len(r) /\ i \in Int /\ i <= Len(r) + Len(P)
      BY <1>13, <1>16, <2>2
    <3>2. Range(r) \subseteq {R[j] : j \in 1 .. i - 1}
      <4>1. \A j \in DOMAIN r : j \in 1 .. i - 1 /\ R[j] = r[j]
        BY <1>13, <1>16, <3>1
      <4> QED BY <4>1 DEF Range
    <3>3. {P[j] : j \in 1 .. m - 1} \subseteq {R[j] : j \in 1 .. i - 1}
      <4> SUFFICES ASSUME NEW j \in 1 .. m - 1 PROVE P[j] \in {R[k] : k \in 1 .. i - 1}
        OBVIOUS
      <4> DEFINE k == j + Len(r)
      <4>1. k \in 1 .. i - 1 /\ k \in DOMAIN R /\ k \notin DOMAIN r /\ k - Len(r) = j
        BY <1>13, <1>16, <3>1
      <4>2. R[k] = P[j]
        <5> HIDE DEF k
        <5> QED BY <1>13, <4>1
      <4> QED BY <4>1, <4>2
    <3> HIDE DEF m
    <3> QED BY <1>12, <3>1, <3>2, <3>3
  <2> QED BY <2>1, <2>2
<1>18. /\ Len(r) \in 0 .. Len(R) /\ Len(r) <= Len(av)
       /\ \A p \in Range(av) : Deps[p] = {} => \E i \in 1 .. Len(r) : R[i] = p
  <2>1. Len(r) \in 0 .. Len(R)
    BY <1>13, <1>16
  <2>2. \A p \in Range(av) : Deps[p] = {} => \E i \in DOMAIN r : r[i] = p
    BY <1>2 DEF Range
  <2> QED BY <1>2, <1>13, <1>16, <2>1, <2>2
<1>19. ReportsFine(R, av, q, D)
  BY <1>13, <1>14, <1>15, <1>17, <1>18 DEF ReportsFine
<1> QED BY <1>1, <1>19

-----------------------------------------------------------------------------
(* Gas: how many reports a block accumulates.                              *)

Sums(f, R, a, b) == f = [i \in a .. b |-> IF i = a THEN 0 ELSE f[i - 1] + Gas[R[i]]]

LEMMA SumsExist ==
    ASSUME NEW R, NEW a \in Nat, NEW N \in Nat
    PROVE  \E f : Sums(f, R, a, a + N)
<1> DEFINE Bad == {n \in Nat : ~ \E f : Sums(f, R, a, a + n)}
<1>1. Bad = {}
  <2> SUFFICES ASSUME Bad # {} PROVE FALSE
    OBVIOUS
  <2>1. PICK n \in Bad : \A m \in Bad : n <= m
    BY LeastNatural
  <2>2. CASE n = 0
    <3> DEFINE f == [i \in a .. a + 0 |-> 0]
    <3>1. Sums(f, R, a, a + 0)
      BY DEF Sums
    <3> QED BY <2>1, <2>2, <3>1
  <2>3. CASE n # 0
    <3> DEFINE b == a + n
    <3>1. n - 1 \in Nat /\ n - 1 \notin Bad /\ n \in Nat
      BY <2>1, <2>3
    <3>2. PICK g : Sums(g, R, a, a + (n - 1))
      BY <3>1
    <3>3. b \in Nat /\ a < b /\ a + (n - 1) = b - 1
      BY <3>1, <2>3
    <3> HIDE DEF b
    <3> DEFINE f == [i \in a .. b |-> IF i = b THEN g[b - 1] + Gas[R[b]] ELSE g[i]]
    <3>4. \A i \in a .. b - 1 : g[i] = IF i = a THEN 0 ELSE g[i - 1] + Gas[R[i]]
      BY <3>2, <3>3 DEF Sums
    <3>5. \A i \in a .. b - 1 : f[i] = g[i]
      BY <3>3
    <3>6. f[b] = g[b - 1] + Gas[R[b]]
      BY <3>3
    <3>7. DOMAIN f = a .. b /\ f = [i \in a .. b |-> f[i]]
      OBVIOUS
    <3> HIDE DEF f
    <3>8. ASSUME NEW i \in a .. b
          PROVE  f[i] = IF i = a THEN 0 ELSE f[i - 1] + Gas[R[i]]
      <4>1. i # a => i - 1 \in a .. b - 1
        BY <3>3
      <4>2. CASE i = b
        BY <3>3, <3>5, <3>6, <4>1, <4>2
      <4>3. CASE i # b
        <5>1. i \in a .. b - 1
          BY <3>3, <4>3
        <5> QED BY <3>4, <3>5, <4>1, <5>1
      <4> QED BY <4>2, <4>3
    <3>9. Sums(f, R, a, b)
      BY <3>7, <3>8 DEF Sums
    <3> QED BY <2>1, <3>9 DEF b
  <2> QED BY <2>2, <2>3
<1> QED BY <1>1

\* No report needs more than GAS_ACCUMULATION (check_gas_requirements).
LEMMA GasFacts ==
    ASSUME NEW R \in Seq(Package), NEW a \in Nat, NEW b \in Nat, a <= b, b <= Len(R)
    PROVE  GasOf(R, a, b) \in Nat /\ GasOf(R, a, b) <= (b - a) * GasAccumulation
<1> DEFINE G == GasAccumulation
           f == CHOOSE h : Sums(h, R, a, b)
<1>1. Sums(f, R, a, b)
  <2>1. b - a \in Nat /\ a + (b - a) = b
    OBVIOUS
  <2>2. \E h : Sums(h, R, a, b)
    BY <2>1, SumsExist
  <2> QED BY <2>2
<1>2. GasOf(R, a, b) = f[b]
  BY DEF GasOf, Sums
<1> HIDE DEF f
<1>3. \A i \in a .. b : f[i] = IF i = a THEN 0 ELSE f[i - 1] + Gas[R[i]]
  BY <1>1 DEF Sums
<1>4. G \in Nat /\ Gas \in [Package -> 0 .. G]
  BY QueueAssumption
<1> HIDE DEF G
<1>5. \A i \in 1 .. Len(R) : Gas[R[i]] \in Nat /\ Gas[R[i]] <= G
  BY <1>4
<1> DEFINE Bad == {n \in Nat : n \in a .. b /\ ~(f[n] \in Nat /\ f[n] <= (n - a) * G)}
<1>6. Bad = {}
  <2> SUFFICES ASSUME Bad # {} PROVE FALSE
    OBVIOUS
  <2>1. PICK n \in Bad : \A m \in Bad : n <= m
    BY LeastNatural
  <2>2. n \in a .. b /\ ~(f[n] \in Nat /\ f[n] <= (n - a) * G)
    BY <2>1
  <2>3. CASE n = a
    <3>1. f[n] = 0 /\ n - a = 0 /\ 0 * G = 0
      BY <1>3, <1>4, <2>2, <2>3
    <3> QED BY <2>2, <3>1
  <2>4. CASE n # a
    <3>1. n - 1 \in Nat /\ n - 1 \in a .. b /\ n - 1 \notin Bad /\ n \in 1 .. Len(R)
      BY <2>1, <2>2, <2>4
    <3>2. f[n - 1] \in Nat /\ f[n - 1] <= (n - 1 - a) * G
      BY <3>1
    <3>3. f[n] = f[n - 1] + Gas[R[n]]
      BY <1>3, <2>2, <2>4
    <3>4. (n - 1 - a) * G + G = (n - a) * G
      BY <1>4, <2>2
    <3>5. Gas[R[n]] \in Nat /\ Gas[R[n]] <= G
      BY <1>5, <3>1
    <3>6. (n - 1 - a) * G \in Int /\ (n - a) * G \in Int
      BY <1>4, <2>2
    <3> QED BY <1>4, <2>2, <3>2, <3>3, <3>4, <3>5, <3>6
  <2> QED BY <2>3, <2>4
<1>7. f[b] \in Nat /\ f[b] <= (b - a) * G
  BY <1>6
<1> QED BY <1>2, <1>7 DEF G

\* Fits is the length of a run that stays within the limit and cannot be extended.
LEMMA FitsFacts ==
    ASSUME NEW R \in Seq(Package), NEW k \in Nat, k <= Len(R), NEW limit \in Int
    PROVE  LET n == Fits(R, k, limit)
           IN  /\ n \in 0 .. Len(R) - k
               /\ n > 0 => GasOf(R, k, k + n) <= limit
               /\ n < Len(R) - k => GasOf(R, k, k + n + 1) > limit
<1> DEFINE L == Len(R) - k
           good(n) == /\ n > 0 => GasOf(R, k, k + n) <= limit
                      /\ n < L => GasOf(R, k, k + n + 1) > limit
           Stop == {n \in Nat : n <= L /\ (n < L => GasOf(R, k, k + n + 1) > limit)}
<1>1. L \in Nat /\ Len(R) \in Nat
  OBVIOUS
<1>2. L \in Stop
  BY <1>1
<1>3. PICK n \in Stop : \A m \in Stop : n <= m
  BY <1>2, LeastNatural
<1>4. n \in 0 .. L /\ n \in Nat /\ (n < L => GasOf(R, k, k + n + 1) > limit)
  BY <1>1, <1>3
<1>5. n > 0 => GasOf(R, k, k + n) <= limit
  <2> SUFFICES ASSUME n > 0 PROVE GasOf(R, k, k + n) <= limit
    OBVIOUS
  <2>1. n - 1 \in Nat /\ n - 1 < L /\ n - 1 \notin Stop /\ k + (n - 1) + 1 = k + n
    BY <1>1, <1>3, <1>4
  <2>2. ~(GasOf(R, k, k + n) > limit)
    BY <1>1, <2>1
  <2>3. k + n \in Nat /\ k <= k + n /\ k + n <= Len(R)
    BY <1>1, <1>4
  <2>4. GasOf(R, k, k + n) \in Nat
    BY <2>3, GasFacts
  <2> QED BY <2>2, <2>4
<1>6. good(n)
  BY <1>4, <1>5
<1>7. Fits(R, k, limit) = CHOOSE m \in 0 .. L : good(m)
  BY DEF Fits
<1> HIDE DEF good, L
<1>8. Fits(R, k, limit) \in 0 .. L /\ good(Fits(R, k, limit))
  BY <1>4, <1>6, <1>7
<1> QED BY <1>8 DEF good, L

\* One more round of full_sequential_accumulation after k reports, by the gas left.
MoreAt(f, R, k) ==
    [gas \in 0 .. GasLimit |->
        IF Fits(R, k, gas) = 0 THEN {k}
        ELSE UNION {f[k + Fits(R, k, gas)][gas - u] :
                        u \in 0 .. GasOf(R, k, k + Fits(R, k, gas))}]
More(f, R, a) == f = [k \in a .. Len(R) |-> MoreAt(f, R, k)]

LEMMA GasLimitFacts ==
    /\ GasLimit \in Nat /\ AlwaysGas \in Nat /\ CoreCount \in Nat /\ GasAccumulation \in Nat
    /\ GasLimit >= CoreCount * GasAccumulation + AlwaysGas
<1>1. /\ AlwaysGas \in Nat /\ CoreCount \in Nat /\ GasAccumulation \in Nat /\ GasTotal \in Nat
  BY QueueAssumption
<1> DEFINE s == GasAccumulation * CoreCount
<1>2. s \in Nat /\ s = CoreCount * GasAccumulation
  BY <1>1
<1>3. GasLimit = IF s + AlwaysGas > GasTotal THEN s + AlwaysGas ELSE GasTotal
  BY DEF GasLimit
<1> HIDE DEF s
<1> QED BY <1>1, <1>2, <1>3

\* A round looks only at what comes after more reports.
LEMMA MoreLooksAhead ==
    ASSUME NEW R \in Seq(Package), NEW k \in Nat, k <= Len(R), NEW f, NEW g,
           \A m \in k + 1 .. Len(R) : f[m] = g[m]
    PROVE  MoreAt(f, R, k) = MoreAt(g, R, k)
<1>1. ASSUME NEW gas \in 0 .. GasLimit, Fits(R, k, gas) # 0
      PROVE  f[k + Fits(R, k, gas)] = g[k + Fits(R, k, gas)]
  <2> DEFINE n == Fits(R, k, gas)
  <2>1. n \in 0 .. Len(R) - k /\ Len(R) \in Nat
    BY FitsFacts
  <2>2. n # 0
    BY <1>1
  <2> HIDE DEF n
  <2>3. k + n \in k + 1 .. Len(R)
    BY <2>1, <2>2
  <2> QED BY <2>3 DEF n
<1> QED BY <1>1 DEF MoreAt

LEMMA MoreExists ==
    ASSUME NEW R \in Seq(Package)
    PROVE  \E f : More(f, R, 0)
<1> DEFINE L == Len(R)
           Bad == {n \in Nat : n <= L + 1 /\ ~ \E f : More(f, R, L + 1 - n)}
<1>1. L \in Nat
  OBVIOUS
<1>2. Bad = {}
  <2> SUFFICES ASSUME Bad # {} PROVE FALSE
    OBVIOUS
  <2>1. PICK n \in Bad : \A m \in Bad : n <= m
    BY LeastNatural
  <2> DEFINE a == L + 1 - n
  <2>2. n \in Nat /\ n <= L + 1 /\ a \in Nat /\ ~ \E f : More(f, R, a)
    BY <1>1, <2>1
  <2>3. CASE n = 0
    <3> DEFINE f == [k \in a .. L |-> {}]
    <3>1. \A k \in a .. L : FALSE
      BY <1>1, <2>3
    <3>2. More(f, R, a)
      BY <3>1 DEF More
    <3> QED BY <2>2, <3>2
  <2>4. CASE n # 0
    <3>1. n - 1 \in Nat /\ n - 1 <= L + 1 /\ n - 1 \notin Bad /\ L + 1 - (n - 1) = a + 1
      BY <1>1, <2>1, <2>2, <2>4
    <3>2. PICK g : More(g, R, a + 1)
      BY <3>1
    <3>3. \A k \in a + 1 .. L : g[k] = MoreAt(g, R, k)
      BY <3>2 DEF More
    <3> DEFINE f == [k \in a .. L |-> IF k = a THEN MoreAt(g, R, a) ELSE g[k]]
    <3>4. a \in Nat /\ a <= L
      BY <1>1, <2>2, <2>4
    <3> HIDE DEF a
    <3>5. f[a] = MoreAt(g, R, a) /\ \A k \in a + 1 .. L : f[k] = g[k]
      BY <1>1, <3>4
    <3>6. f = [k \in a .. L |-> f[k]] /\ DOMAIN f = a .. L
      OBVIOUS
    <3> HIDE DEF f
    <3>7. ASSUME NEW k \in a .. L
          PROVE  f[k] = MoreAt(f, R, k)
      <4>1. k \in Nat /\ k <= Len(R) /\ \A m \in k + 1 .. Len(R) : m \in a + 1 .. L
        BY <1>1, <3>4
      <4>2. MoreAt(f, R, k) = MoreAt(g, R, k)
        BY <3>5, <4>1, MoreLooksAhead
      <4>3. k = a \/ k \in a + 1 .. L
        BY <1>1, <3>4
      <4> QED BY <3>3, <3>5, <4>2, <4>3
    <3>8. More(f, R, a)
      BY <3>6, <3>7 DEF More
    <3> QED BY <2>2, <3>8 DEF a
  <2> QED BY <2>3, <2>4
<1>3. L + 1 \in Nat /\ L + 1 - (L + 1) = 0
  BY <1>1
<1>4. L + 1 \notin Bad
  BY <1>2
<1> QED BY <1>1, <1>3, <1>4

\* full_sequential_accumulation takes a prefix of the reports, which includes any first n
\* of them when there are no more of these than cores.
LEMMA CountsFacts ==
    ASSUME NEW R \in Seq(Package), NEW n \in Nat, n <= Len(R), n <= CoreCount,
           NEW c \in AccumulatedCounts(R)
    PROVE  c \in n .. Len(R)
<1> DEFINE L == Len(R)
           f == CHOOSE h : More(h, R, 0)
           first == Fits(R, 0, GasLimit - AlwaysGas)
<1>1. L \in Nat
  OBVIOUS
<1>2. More(f, R, 0)
  BY MoreExists
<1>3. AccumulatedCounts(R) =
        UNION {f[first][GasLimit - u] : u \in 0 .. AlwaysGas + GasOf(R, 0, first)}
  BY DEF AccumulatedCounts, More, MoreAt
<1> HIDE DEF f
<1>4. \A k \in 0 .. L : f[k] = MoreAt(f, R, k)
  BY <1>2 DEF More
<1>5. /\ GasLimit \in Nat /\ AlwaysGas \in Nat /\ CoreCount \in Nat /\ GasAccumulation \in Nat
      /\ GasLimit >= CoreCount * GasAccumulation + AlwaysGas
  BY GasLimitFacts
<1> DEFINE In(k) == \A gas \in 0 .. GasLimit : f[k][gas] \subseteq k .. L
           Bad == {d \in Nat : d <= L /\ ~In(L - d)}
<1>6. Bad = {}
  <2> SUFFICES ASSUME Bad # {} PROVE FALSE
    OBVIOUS
  <2>1. PICK d \in Bad : \A m \in Bad : d <= m
    <3> HIDE DEF In
    <3> QED BY LeastNatural
  <2> DEFINE k == L - d
  <2>2. d \in Nat /\ d <= L /\ k \in 0 .. L /\ k \in Nat /\ ~In(k)
    <3> HIDE DEF In
    <3> QED BY <1>1, <2>1
  <2>3. ASSUME NEW m \in k + 1 .. L
        PROVE  In(m)
    <3>1. L - m \in Nat /\ L - m < d /\ L - m <= L /\ L - (L - m) = m
      BY <1>1, <2>2
    <3>2. L - m \notin Bad
      <4> HIDE DEF Bad, In
      <4> QED BY <2>1, <2>2, <3>1
    <3> HIDE DEF In
    <3> QED BY <3>1, <3>2
  <2> HIDE DEF k
  <2>4. ASSUME NEW gas \in 0 .. GasLimit
        PROVE  f[k][gas] \subseteq k .. L
    <3> DEFINE i == Fits(R, k, gas)
    <3>1. /\ i \in 0 .. L - k /\ (i > 0 => GasOf(R, k, k + i) <= gas) /\ gas \in Int
      <4>1. gas \in Int /\ k \in Nat /\ k <= Len(R)
        BY <1>1, <1>5, <2>2
      <4> QED BY <4>1, FitsFacts
    <3>2. f[k][gas] = IF i = 0 THEN {k}
                      ELSE UNION {f[k + i][gas - u] : u \in 0 .. GasOf(R, k, k + i)}
      BY <1>4, <2>2 DEF MoreAt
    <3> HIDE DEF i
    <3>3. CASE i = 0
      BY <1>1, <2>2, <3>2, <3>3
    <3>4. CASE i # 0
      <4>1. k + i \in k + 1 .. L /\ k + i \in Nat /\ k <= k + i /\ k + i <= L /\ i > 0
        BY <1>1, <2>2, <3>1, <3>4
      <4>2. GasOf(R, k, k + i) \in Nat /\ GasOf(R, k, k + i) <= gas
        BY <2>2, <3>1, <4>1, GasFacts
      <4>3. \A u \in 0 .. GasOf(R, k, k + i) : gas - u \in 0 .. GasLimit
        BY <1>5, <4>2
      <4>4. In(k + i)
        BY <2>3, <4>1
      <4>5. k + i .. L \subseteq k .. L
        BY <1>1, <2>2, <4>1
      <4>6. \A u \in 0 .. GasOf(R, k, k + i) : f[k + i][gas - u] \subseteq k .. L
        BY <4>3, <4>4, <4>5
      <4> QED BY <3>2, <3>4, <4>6
    <3> QED BY <3>3, <3>4
  <2> QED BY <2>2, <2>4
<1>7. \A k \in 0 .. L : In(k)
  <2> SUFFICES ASSUME NEW k \in 0 .. L PROVE In(k)
    BY Zenon
  <2>1. L - k \in Nat /\ L - k <= L /\ L - (L - k) = k
    BY <1>1
  <2> HIDE DEF In
  <2> QED BY <1>6, <2>1
<1>8. /\ first \in 0 .. L
      /\ first > 0 => GasOf(R, 0, first) <= GasLimit - AlwaysGas
      /\ first < L => GasOf(R, 0, first + 1) > GasLimit - AlwaysGas
  <2>1. 0 \in Nat /\ 0 <= Len(R) /\ GasLimit - AlwaysGas \in Int
    BY <1>1, <1>5
  <2> DEFINE m == Fits(R, 0, GasLimit - AlwaysGas)
  <2>2. /\ m \in 0 .. Len(R) - 0
        /\ m > 0 => GasOf(R, 0, 0 + m) <= GasLimit - AlwaysGas
        /\ m < Len(R) - 0 => GasOf(R, 0, 0 + m + 1) > GasLimit - AlwaysGas
    BY <2>1, FitsFacts
  <2>3. m \in Int /\ 0 + m = m /\ 0 + m + 1 = m + 1 /\ Len(R) - 0 = L
    BY <1>1, <2>2
  <2> HIDE DEF m
  <2> QED BY <2>2, <2>3 DEF m
<1> HIDE DEF first
<1>9. GasOf(R, 0, first) \in Nat /\ GasOf(R, 0, first) <= GasLimit - AlwaysGas
  <2>1. first \in Nat /\ 0 <= first /\ first <= Len(R)
    BY <1>1, <1>8
  <2>2. GasOf(R, 0, first) \in Nat /\ GasOf(R, 0, first) <= (first - 0) * GasAccumulation
    BY <2>1, GasFacts
  <2>3. CoreCount * GasAccumulation >= 0 /\ CoreCount * GasAccumulation \in Int
    BY <1>5
  <2>4. first = 0 => (first - 0) * GasAccumulation = 0
    BY <1>5
  <2>5. CASE first = 0
    BY <1>5, <2>2, <2>3, <2>4, <2>5
  <2>6. CASE first # 0
    BY <1>8, <2>1, <2>2, <2>6
  <2> QED BY <2>5, <2>6
<1>10. first >= n
  <2> SUFFICES ASSUME first < n PROVE FALSE
    BY <1>8
  <2>1. first + 1 \in Nat /\ 0 <= first + 1 /\ first + 1 <= Len(R) /\ first < L
    BY <1>1, <1>8
  <2> DEFINE m == first + 1
             G == GasAccumulation
  <2>2. GasOf(R, 0, m) \in Nat /\ GasOf(R, 0, m) <= (m - 0) * G
    BY <2>1, GasFacts
  <2>3. GasOf(R, 0, m) > GasLimit - AlwaysGas
    BY <1>8, <2>1
  <2>4. m \in Nat /\ m <= CoreCount
    BY <1>5, <1>8, <2>1
  <2> HIDE DEF m, G
  <2>5. G \in Nat /\ CoreCount \in Nat
    BY <1>5 DEF G
  <2>6. (m - 0) * G = m * G /\ m * G <= CoreCount * G
    <3>1. m - 0 = m
      BY <2>4
    <3>2. (CoreCount - m) * G >= 0
      BY <2>4, <2>5
    <3>3. (CoreCount - m) * G = CoreCount * G - m * G
      BY <2>4, <2>5
    <3>4. CoreCount * G \in Int /\ m * G \in Int
      BY <2>4, <2>5
    <3> QED BY <3>1, <3>2, <3>3, <3>4
  <2>7. GasLimit >= CoreCount * G + AlwaysGas /\ CoreCount * G \in Int
    BY <1>5 DEF G
  <2> QED BY <1>5, <2>2, <2>3, <2>4, <2>5, <2>6, <2>7
<1>11. PICK u \in 0 .. AlwaysGas + GasOf(R, 0, first) : c \in f[first][GasLimit - u]
  BY <1>3
<1>12. GasLimit - u \in 0 .. GasLimit
  BY <1>5, <1>9
<1>13. c \in first .. L
  BY <1>7, <1>8, <1>11, <1>12
<1> QED BY <1>1, <1>8, <1>10, <1>13

-----------------------------------------------------------------------------
(* The invariant.                                                          *)

\* The height of the block that reported p, and the packages that were reported.
ReportedAt(p) == anchor[p] + 1
Known == {p \in Package : anchor[p] # Unset}

\* recent holds the last blocks with what they reported.
RecentOK ==
    /\ Len(recent) = History \/ Len(recent) = height + 1
    /\ Len(recent) <= height + 1
    /\ \A i \in DOMAIN recent :
          /\ recent[i].height = height - Len(recent) + i
          /\ \A p \in recent[i].reported : p \in Known /\ ReportedAt(p) = recent[i].height
    /\ \A p \in Known :
          /\ ReportedAt(p) <= height
          /\ ReportedAt(p) > height - Len(recent) =>
                p \in recent[ReportedAt(p) - height + Len(recent)].reported

\* A report is on the core of its package, has been there for at most as many blocks
\* as slots, and names dependencies that were recent when it was guaranteed.
CoresOK ==
    \A c \in Reports(assurances) :
        LET p == assurances[c].pkg
            age == slot - assurances[c].since
        IN  /\ CoreOf[p] = c
            /\ p \in Known /\ p \notin InQueue /\ p \notin Range(done)
            /\ 0 <= height - ReportedAt(p) /\ height - ReportedAt(p) <= age /\ age < ReplacementPeriod
            /\ \A d \in Deps[p] : d \in Known /\ ReportedAt(d) >= ReportedAt(p) - History

\* history holds what the last blocks accumulated, each package after its report; what
\* it has forgotten was reported before its oldest block.
HistoryOK ==
    /\ \A i \in DOMAIN history : \A d \in history[i] :
          d \in Range(done) /\ ReportedAt(d) < height - EpochTimeslots + i
    /\ \A d \in Range(done) :
          /\ d \in Known
          /\ ReportedAt(d) >= height - EpochTimeslots => d \in UNION Range(history)

\* A report waits for just those dependencies that are not done, in the bucket of the
\* slot at which it became available.
QueueOK ==
    /\ \A j \in Phase : IsInjective(Packages(queue[j]))
    /\ \A j \in Phase : \A x \in Range(queue[j]) :
          /\ x.pkg \in Known /\ x.pkg \notin Range(done)
          /\ x.deps = Deps[x.pkg] \ Range(done)
          /\ availableAt[x.pkg] = slot - ((slot - j) % EpochTimeslots)

\* An available report stays for an epoch.
WaitOK ==
    \A p \in Package :
        availableAt[p] # Unset /\ p \notin Range(done) =>
            /\ p \in Known /\ availableAt[p] <= slot
            /\ slot - availableAt[p] < EpochTimeslots => p \in InQueue

\* Packages are accumulated after what they depend on.
DoneOK == \A i \in DOMAIN done : Deps[done[i]] \subseteq {done[j] : j \in 1 .. i - 1}

ReportInv == TypeOK /\ RecentOK /\ CoresOK /\ HistoryOK /\ QueueOK /\ WaitOK /\ DoneOK

LEMMA ConstantFacts ==
    /\ EpochTimeslots \in Nat \ {0} /\ History \in Nat \ {0} /\ ReplacementPeriod \in Nat \ {0}
    /\ CoreCount \in Nat \ {0} /\ ReplacementPeriod <= History
    /\ EpochTimeslots >= History + ReplacementPeriod - 1
    /\ SlotSteps \subseteq Nat \ {0} /\ MaxSlot \in Nat
    /\ Deps \in [Package -> SUBSET Package] /\ CoreOf \in [Package -> Core]
    /\ "none" \notin Package /\ Core = 0 .. CoreCount - 1 /\ 3 * CoreCount \in ValidatorCounts
  BY QueueAssumption, ReportAssumption DEF Core

LEMMA AgeTellsPhase ==
    ASSUME NEW n \in Nat \ {0}, NEW s \in Int, NEW j \in 0 .. n - 1, NEW k \in 0 .. n - 1,
           (s - j) % n = (s - k) % n
    PROVE  j = k
<1> DEFINE b == s - n + 1
           i == n - j
           m == n - k
<1>1. /\ i \in 1 .. n /\ m \in 1 .. n /\ b \in Int
      /\ s - j = b + i - 1 /\ s - k = b + m - 1
  OBVIOUS
<1>2. (b + i - 1) % n = (b + m - 1) % n
  BY <1>1
<1>3. i = m
  <2> HIDE DEF b, i, m
  <2> QED BY <1>1, <1>2, PhasesOnce
<1> QED BY <1>3

LEMMA QueueIsFine ==
    ASSUME TypeOK, QueueOK
    PROVE  QueueFine(queue)
<1>1. queue \in [Phase -> Seq(Item)] /\ slot \in Int /\ EpochTimeslots \in Nat \ {0}
  BY ConstantFacts DEF TypeOK, Slot
<1>2. \A j \in Phase : queue[j] \in Seq(Item)
  BY <1>1
<1>3. \A j \in Phase : Distinct(queue[j])
  BY <1>2, DistinctPackages, Zenon DEF QueueOK
<1>4. ASSUME NEW j \in Phase, NEW k \in Phase, NEW x \in Range(queue[j]),
             NEW y \in Range(queue[k]), x.pkg = y.pkg
      PROVE  j = k
  <2> DEFINE a == (slot - j) % EpochTimeslots
             b == (slot - k) % EpochTimeslots
  <2>1. availableAt[x.pkg] = slot - a /\ availableAt[y.pkg] = slot - b
    BY Zenon DEF QueueOK
  <2>2. j \in 0 .. EpochTimeslots - 1 /\ k \in 0 .. EpochTimeslots - 1
    BY DEF Phase
  <2>3. a \in Int /\ b \in Int
    BY <1>1, <2>2, DivMod
  <2>4. slot - a = slot - b
    BY <1>4, <2>1
  <2> HIDE DEF a, b
  <2>5. a = b
    BY <1>1, <2>3, <2>4
  <2> QED BY <1>1, <2>2, <2>5, AgeTellsPhase DEF a, b
<1> QED BY <1>1, <1>3, <1>4, Zenon DEF QueueFine

LEMMA InQueueIsInBuckets == InQueue = InBuckets(queue)
  BY DEF InQueue, InBuckets

-----------------------------------------------------------------------------
(* One block.                                                              *)

\* A block of slot t, and the cores and available reports on its way.
BlockStep(t, n, rejected, assured, new) ==
    /\ t \in Slot /\ t > slot /\ n \in ValidatorCounts
    /\ rejected \subseteq OnCores(assurances) /\ assured \subseteq Core /\ new \subseteq Package
    /\ ProcessBlock(t, n, rejected, assured, new)
CoresAt(t, n, rejected, assured) ==
    AfterAssurances(AfterDisputes(rejected), assured, t, n # size)
Av(rejected, assured) == AvailableReports(AfterDisputes(rejected), assured)

LEMMA StepIsBlock ==
    ASSUME TypeOK, Next
    PROVE  \E t, n, rejected, assured, new : BlockStep(t, n, rejected, assured, new)
<1>1. PICK d \in SlotSteps, n \in ValidatorCounts :
        /\ slot + d <= MaxSlot
        /\ \E rejected \in SUBSET OnCores(assurances), assured \in SUBSET Core,
              new \in SUBSET Package :
              ProcessBlock(slot + d, n, rejected, assured, new)
  BY DEF Next
<1>2. PICK rejected \in SUBSET OnCores(assurances), assured \in SUBSET Core,
           new \in SUBSET Package : ProcessBlock(slot + d, n, rejected, assured, new)
  BY <1>1
<1>3. slot + d \in Slot /\ slot + d > slot
  BY <1>1, ConstantFacts DEF TypeOK, Slot
<1>4. BlockStep(slot + d, n, rejected, assured, new)
  BY <1>2, <1>3 DEF BlockStep
<1> QED BY <1>4

LEMMA ReportTypes ==
    ASSUME TypeOK, NEW c \in Reports(assurances)
    PROVE  /\ c \in Core /\ assurances[c].pkg \in Package
           /\ assurances[c].since \in Nat /\ assurances[c] # NoReport
<1>1. c \in Core /\ assurances[c] # NoReport
  BY DEF Reports
<1>2. assurances[c] \in [pkg : Package, since : Slot]
  BY <1>1 DEF TypeOK
<1>3. assurances[c].pkg \in Package /\ assurances[c].since \in Slot
  BY <1>2
<1> QED BY <1>1, <1>3, ConstantFacts DEF Slot

\* A report stays on its core only if it is not rejected, assured or stale.
LEMMA CoresFacts ==
    ASSUME TypeOK, NEW t, NEW n, NEW rejected, NEW assured, NEW new,
           BlockStep(t, n, rejected, assured, new),
           NEW c \in Core, CoresAt(t, n, rejected, assured)[c] # NoReport
    PROVE  /\ CoresAt(t, n, rejected, assured)[c] = assurances[c]
           /\ c \in Reports(assurances) /\ c \notin assured
           /\ t < assurances[c].since + ReplacementPeriod
<1> DEFINE b == AfterDisputes(rejected)[c]
           x == CoresAt(t, n, rejected, assured)[c]
<1>1. b = IF assurances[c].pkg \in rejected THEN NoReport ELSE assurances[c]
  BY DEF AfterDisputes
<1>2. x = IF c \in assured \/ n # size \/ t >= b.since + ReplacementPeriod THEN NoReport ELSE b
  BY DEF CoresAt, AfterAssurances
<1> HIDE DEF b, x
<1>3. x = b /\ c \notin assured /\ ~(t >= b.since + ReplacementPeriod) /\ b # NoReport
  BY <1>2 DEF x
<1>4. b = assurances[c]
  BY <1>1, <1>3
<1>5. c \in Reports(assurances)
  BY <1>3, <1>4 DEF Reports
<1>6. assurances[c].since \in Nat
  BY <1>5, ReportTypes
<1>7. t \in Int /\ ReplacementPeriod \in Int
  BY ConstantFacts DEF BlockStep, Slot
<1>8. t < assurances[c].since + ReplacementPeriod
  BY <1>3, <1>4, <1>6, <1>7
<1> QED BY <1>3, <1>4, <1>5, <1>8 DEF x

\* Each core holds a package built for it.
LEMMA CoresDiffer ==
    ASSUME CoresOK, NEW c \in Reports(assurances), NEW d \in Reports(assurances),
           assurances[c].pkg = assurances[d].pkg
    PROVE  c = d
  BY Zenon DEF CoresOK

\* The available reports come from assured cores, one each.
LEMMA AvailableFacts ==
    ASSUME TypeOK, CoresOK, NEW t, NEW n, NEW rejected, NEW assured, NEW new,
           BlockStep(t, n, rejected, assured, new)
    PROVE  /\ assured \subseteq Reports(assurances)
           /\ Av(rejected, assured) \in Seq(Package)
           /\ IsInjective(Av(rejected, assured))
           /\ Len(Av(rejected, assured)) <= CoreCount
           /\ Range(Av(rejected, assured)) = {assurances[c].pkg : c \in assured}
<1> DEFINE b == AfterDisputes(rejected)
           a == Ascending(assured)
           m == Cardinality(assured)
           v == Av(rejected, assured)
<1>1. assured \subseteq Core /\ assured \subseteq Reports(b)
  BY DEF BlockStep, ProcessBlock
<1>2. \A c \in Core : b[c] # NoReport => b[c] = assurances[c]
  BY DEF AfterDisputes
<1>3. \A c \in assured : c \in Core /\ b[c] = assurances[c] /\ c \in Reports(assurances)
  BY <1>1, <1>2 DEF Reports
<1>4. CoreCount \in Nat \ {0} /\ Core = 0 .. CoreCount - 1
  BY ConstantFacts
<1>5. IsFiniteSet(Core) /\ Cardinality(Core) = CoreCount
  <2>1. 0 \in Int /\ CoreCount - 1 \in Int /\ ~(0 > CoreCount - 1) /\ CoreCount - 1 - 0 + 1 = CoreCount
    BY <1>4
  <2> QED BY <1>4, <2>1, FS_Interval
<1>6. IsFiniteSet(assured) /\ m <= CoreCount /\ assured \subseteq Nat
  <2>1. assured \in SUBSET Core
    BY <1>1
  <2>2. IsFiniteSet(assured) /\ m <= CoreCount
    BY <1>5, <2>1, FS_Subset
  <2>3. Core \subseteq Nat
    BY <1>4
  <2> QED BY <1>1, <2>2, <2>3
<1>7. /\ m \in Nat /\ DOMAIN a = 1 .. m
      /\ \A i \in 1 .. m : a[i] \in assured
      /\ \A i, j \in 1 .. m : i < j => a[i] < a[j]
      /\ \A c \in assured : \E i \in 1 .. m : a[i] = c
  BY <1>6, AscendingFacts
<1> HIDE DEF a, b, m
<1>8. v = [i \in 1 .. m |-> b[a[i]].pkg]
  BY <1>7 DEF Av, AvailableReports, a, b
<1> HIDE DEF v
<1>9. \A i \in 1 .. m : v[i] = assurances[a[i]].pkg /\ a[i] \in Reports(assurances) /\ v[i] \in Package
  BY <1>3, <1>7, <1>8, ReportTypes
<1>10. v \in Seq(Package) /\ Len(v) = m /\ DOMAIN v = 1 .. m
  <2>1. v = [i \in 1 .. m |-> v[i]] /\ \A i \in 1 .. m : v[i] \in Package
    BY <1>8, <1>9
  <2> QED BY <1>7, <2>1
<1>11. IsInjective(v)
  <2> SUFFICES ASSUME NEW i \in 1 .. m, NEW j \in 1 .. m, v[i] = v[j]
               PROVE  i = j
    BY <1>10 DEF IsInjective
  <2>1. a[i] = a[j]
    BY <1>9, CoresDiffer
  <2>2. a[i] \in Nat /\ a[j] \in Nat
    BY <1>6, <1>7
  <2>3. ~(i < j) /\ ~(j < i)
    BY <1>7, <2>1, <2>2
  <2> QED BY <1>7, <2>3
<1>12. Range(v) = {assurances[c].pkg : c \in assured}
  <2>1. \A p \in Range(v) : \E c \in assured : p = assurances[c].pkg
    BY <1>7, <1>9, <1>10 DEF Range
  <2>2. \A c \in assured : assurances[c].pkg \in Range(v)
    BY <1>7, <1>9, <1>10 DEF Range
  <2> QED BY <2>1, <2>2
<1> QED BY <1>3, <1>6, <1>10, <1>11, <1>12 DEF v, m

\* What a block reports was never reported before: while its first report is recent it
\* is in the pipeline, and afterwards its anchor has expired.
LEMMA NewIsFresh ==
    ASSUME TypeOK, RecentOK, NEW t, NEW n, NEW rejected, NEW assured, NEW new,
           BlockStep(t, n, rejected, assured, new), NEW p \in new
    PROVE  p \in Package /\ anchor[p] = Unset
<1>1. p \in Package
  BY DEF BlockStep
<1> DEFINE cores == CoresAt(t, n, rejected, assured)
<1>2. ValidGuarantees(new, cores, n)
  BY DEF BlockStep, ProcessBlock, CoresAt
<1> HIDE DEF cores
<1>3. p \notin ReportedBefore /\ AnchorIsRecent(p)
  BY <1>2 DEF ValidGuarantees, Pipeline
<1> SUFFICES ASSUME anchor[p] # Unset PROVE FALSE
  BY <1>1
<1>4. anchor[p] \in Nat /\ height \in Nat /\ recent \in Seq([height : Nat, reported : SUBSET Package])
  BY <1>1 DEF TypeOK
<1>5. PICK i \in DOMAIN recent : recent[i].height = anchor[p]
  BY <1>3 DEF AnchorIsRecent, Range
<1>6. Len(recent) \in Nat /\ DOMAIN recent = 1 .. Len(recent)
  BY <1>4
<1>7. anchor[p] = height - Len(recent) + i
  BY <1>5 DEF RecentOK
<1>8. p \in Known /\ ReportedAt(p) = anchor[p] + 1
  BY <1>1 DEF Known, ReportedAt
<1> DEFINE r == ReportedAt(p)
           k == r - height + Len(recent)
<1>9. r <= height /\ (r > height - Len(recent) => p \in recent[k].reported)
  BY <1>8, Zenon DEF RecentOK
<1> HIDE DEF r
<1>10. r = anchor[p] + 1
  BY <1>8 DEF r
<1>11. r > height - Len(recent) /\ k \in 1 .. Len(recent)
  BY <1>4, <1>6, <1>7, <1>9, <1>10
<1>12. recent[k] \in Range(recent) /\ p \in recent[k].reported
  BY <1>6, <1>9, <1>11 DEF Range
<1> HIDE DEF k
<1> QED BY <1>3, <1>12 DEF ReportedBefore

\* A block of slot t accumulates batch, in an order that respects dependencies; an
\* available report without dependencies always finds the gas.
BatchOK(av, batch) ==
    /\ batch \in Seq(Package) /\ IsInjective(batch)
    /\ Range(batch) \subseteq Range(av) \cup InQueue
    /\ \A i \in DOMAIN batch : Deps[batch[i]] \subseteq Range(done) \cup {batch[j] : j \in 1 .. i - 1}
    /\ \A p \in Range(av) : Deps[p] = {} => p \in Range(batch)
Accumulated(av, t, batch) ==
    /\ BatchOK(av, batch)
    /\ done' = done \o batch
    /\ history' = NextHistory(history, Range(batch))
    /\ queue' = NextQueue(queue, QueuedWorkReports(av, history), slot, t, Range(batch))

LEMMA HistoryIsDone ==
    ASSUME HistoryOK PROVE UNION Range(history) \subseteq Range(done)
  BY Zenon DEF HistoryOK, Range

LEMMA StepAccumulates ==
    ASSUME ReportInv, NEW t, NEW n, NEW rejected, NEW assured, NEW new,
           BlockStep(t, n, rejected, assured, new)
    PROVE  \E batch : Accumulated(Av(rejected, assured), t, batch)
<1> DEFINE av == Av(rejected, assured)
           R == AccumulatableWorkReports(av, queue, history, t)
           D == Range(done)
<1>1. TypeOK /\ CoresOK /\ HistoryOK /\ QueueOK
  BY DEF ReportInv
<1>2. /\ assured \subseteq Reports(assurances)
      /\ av \in Seq(Package) /\ IsInjective(av) /\ Len(av) <= CoreCount
      /\ Range(av) = {assurances[c].pkg : c \in assured}
  BY <1>1, AvailableFacts
<1>3. t \in Nat
  BY ConstantFacts DEF BlockStep, Slot
<1>4. PICK k \in AccumulatedCounts(R) : Accumulate(R, k, av, t)
  BY DEF BlockStep, ProcessBlock, BlockWith, Av
<1> HIDE DEF av
<1>5. QueueFine(queue)
  BY <1>1, QueueIsFine
<1>6. \A p \in InBuckets(queue) : p \notin Range(av)
  BY <1>1, <1>2, InQueueIsInBuckets, Zenon DEF CoresOK
<1>7. UNION Range(history) \subseteq D
  BY <1>1, HistoryIsDone
<1>8. \A j \in Phase : \A x \in Range(queue[j]) : Deps[x.pkg] \subseteq x.deps \cup D
  BY <1>1 DEF QueueOK
<1> HIDE DEF D
<1>9. ReportsFine(R, av, queue, D)
  BY <1>2, <1>3, <1>5, <1>6, <1>7, <1>8, AccumulatableFacts
<1> HIDE DEF R
<1>10. /\ R \in Seq(Package) /\ IsInjective(R)
       /\ Range(R) \subseteq Range(av) \cup InQueue
       /\ \A i \in DOMAIN R : Deps[R[i]] \subseteq D \cup {R[j] : j \in 1 .. i - 1}
  BY <1>9, InQueueIsInBuckets DEF ReportsFine
<1>11. PICK m \in 0 .. Len(R) : /\ m <= Len(av)
                               /\ \A p \in Range(av) : Deps[p] = {} => \E i \in 1 .. m : R[i] = p
  BY <1>9 DEF ReportsFine
<1>12. Len(R) \in Nat /\ Len(av) \in Nat /\ DOMAIN R = 1 .. Len(R) /\ CoreCount \in Nat
  BY <1>2, <1>10, ConstantFacts
<1>13. m \in Nat /\ m <= Len(R) /\ m <= CoreCount
  BY <1>2, <1>11, <1>12
<1>14. k \in m .. Len(R)
  BY <1>4, <1>10, <1>13, CountsFacts
<1> DEFINE b == SubSeq(R, 1, k)
<1>15. k \in Nat /\ k <= Len(R) /\ m <= k
  BY <1>12, <1>13, <1>14
<1>16. /\ b \in Seq(Package) /\ DOMAIN b = 1 .. k /\ \A i \in 1 .. k : b[i] = R[i]
  <2>1. b = [i \in 1 .. k |-> R[i]]
    BY <1>10, <1>12, <1>15
  <2>2. \A i \in 1 .. k : R[i] \in Package
    BY <1>10, <1>12, <1>15
  <2> QED BY <1>15, <2>1, <2>2
<1>17. 1 .. k \subseteq DOMAIN R
  BY <1>12, <1>15
<1> HIDE DEF b
<1>18. IsInjective(b)
  BY <1>10, <1>16, <1>17 DEF IsInjective
<1>19. Range(b) \subseteq Range(av) \cup InQueue
  BY <1>10, <1>16, <1>17 DEF Range
<1>20. ASSUME NEW i \in DOMAIN b
       PROVE  Deps[b[i]] \subseteq D \cup {b[j] : j \in 1 .. i - 1}
  <2>1. i \in DOMAIN R /\ b[i] = R[i] /\ \A j \in 1 .. i - 1 : b[j] = R[j]
    BY <1>15, <1>16, <1>17
  <2>2. Deps[R[i]] \subseteq D \cup {R[j] : j \in 1 .. i - 1}
    BY <1>10, <2>1
  <2>3. {R[j] : j \in 1 .. i - 1} = {b[j] : j \in 1 .. i - 1}
    BY <2>1
  <2> QED BY <2>1, <2>2, <2>3
<1>21. \A p \in Range(av) : Deps[p] = {} => p \in Range(b)
  <2>1. \A i \in 1 .. m : i \in 1 .. k
    BY <1>13, <1>15
  <2> QED BY <1>11, <1>16, <2>1 DEF Range
<1>22. BatchOK(av, b)
  BY <1>16, <1>18, <1>19, <1>20, <1>21 DEF BatchOK, D
<1>23. Accumulated(av, t, b)
  BY <1>4, <1>22 DEF Accumulated, Accumulate, b
<1> QED BY <1>23 DEF av

\* A dependency of a report on a core is in the accumulation history if it is done: it
\* was recent when the report was guaranteed, and reports stay on cores too briefly for
\* the history to forget it.
LEMMA DoneIsRemembered ==
    ASSUME ReportInv, NEW c \in Reports(assurances), NEW d \in Deps[assurances[c].pkg],
           d \in Range(done)
    PROVE  d \in UNION Range(history)
<1> DEFINE p == assurances[c].pkg
           rp == ReportedAt(p)
           rd == ReportedAt(d)
           age == slot - assurances[c].since
<1>1. TypeOK /\ CoresOK /\ HistoryOK
  BY DEF ReportInv
<1>2. /\ p \in Known /\ height - rp <= age /\ age < ReplacementPeriod
      /\ d \in Known /\ rd >= rp - History
  BY <1>1 DEF CoresOK
<1>3. rd >= height - EpochTimeslots => d \in UNION Range(history)
  BY <1>1 DEF HistoryOK
<1>4. rp \in Int /\ rd \in Int
  BY <1>1, <1>2 DEF TypeOK, Known, ReportedAt, Unset
<1>5. age \in Int
  BY <1>1, ReportTypes DEF TypeOK, Slot
<1> HIDE DEF rp, rd, age
<1>6. height \in Int
  BY <1>1 DEF TypeOK
<1> QED BY <1>2, <1>3, <1>4, <1>5, <1>6, ConstantFacts

\* Packages move on from the cores and the queue, nowhere twice.
LEMMA BatchPlaces ==
    ASSUME ReportInv, NEW t, NEW n, NEW rejected, NEW assured, NEW new,
           BlockStep(t, n, rejected, assured, new),
           NEW batch, Accumulated(Av(rejected, assured), t, batch)
    PROVE  /\ Range(Av(rejected, assured)) \subseteq Known
           /\ Range(Av(rejected, assured)) \cap (InQueue \cup Range(done)) = {}
           /\ InQueue \subseteq Known /\ InQueue \cap Range(done) = {}
           /\ Range(batch) \subseteq Known /\ Range(batch) \cap Range(done) = {}
           /\ done' \in Seq(Package) /\ Range(done') = Range(done) \cup Range(batch)
<1> DEFINE av == Av(rejected, assured)
<1>1. TypeOK /\ CoresOK /\ QueueOK
  BY DEF ReportInv
<1>2. assured \subseteq Reports(assurances) /\ Range(av) = {assurances[c].pkg : c \in assured}
  BY <1>1, AvailableFacts
<1> HIDE DEF av
<1>3. Range(av) \subseteq Known /\ Range(av) \cap (InQueue \cup Range(done)) = {}
  <2>1. \A p \in Range(av) : p \in Known /\ p \notin InQueue /\ p \notin Range(done)
    BY <1>1, <1>2, Zenon DEF CoresOK
  <2> QED BY <2>1
<1>4. InQueue \subseteq Known /\ InQueue \cap Range(done) = {}
  <2>1. \A p \in InQueue : p \in Known /\ p \notin Range(done)
    BY <1>1, Zenon DEF QueueOK, InQueue
  <2> QED BY <2>1
<1>5. batch \in Seq(Package) /\ Range(batch) \subseteq Range(av) \cup InQueue
  BY DEF Accumulated, BatchOK, av
<1>6. Range(batch) \subseteq Known /\ Range(batch) \cap Range(done) = {}
  BY <1>3, <1>4, <1>5
<1>7. done \in Seq(Package)
  BY <1>1 DEF TypeOK
<1>8. done' = done \o batch
  BY DEF Accumulated
<1>9. done' \in Seq(Package) /\ Range(done') = Range(done) \cup Range(batch)
  BY <1>5, <1>7, <1>8, ConcatFacts
<1> QED BY <1>3, <1>4, <1>6, <1>9 DEF av

LEMMA CoresAreElsewhere ==
    ASSUME ReportInv, NEW t, NEW n, NEW rejected, NEW assured, NEW new,
           BlockStep(t, n, rejected, assured, new),
           NEW c \in Core, CoresAt(t, n, rejected, assured)[c] # NoReport
    PROVE  assurances[c].pkg \notin Range(Av(rejected, assured)) \cup InQueue \cup Range(done)
<1> DEFINE av == Av(rejected, assured)
<1>1. TypeOK /\ CoresOK
  BY DEF ReportInv
<1>2. assured \subseteq Reports(assurances) /\ Range(av) = {assurances[d].pkg : d \in assured}
  BY <1>1, AvailableFacts
<1>3. c \in Reports(assurances) /\ c \notin assured
  BY <1>1, CoresFacts
<1> HIDE DEF av
<1>4. assurances[c].pkg \notin Range(av)
  BY <1>1, <1>2, <1>3, CoresDiffer
<1>5. assurances[c].pkg \notin InQueue \cup Range(done)
  BY <1>1, <1>3, Zenon DEF CoresOK
<1> QED BY <1>4, <1>5 DEF av

-----------------------------------------------------------------------------
(* The queue after a block.                                                *)

\* What the queued reports of a block are: the available ones with dependencies, which
\* wait for just those that are not done.
LEMMA QueuedAreNew ==
    ASSUME ReportInv, NEW t, NEW n, NEW rejected, NEW assured, NEW new,
           BlockStep(t, n, rejected, assured, new)
    PROVE  LET W == QueuedWorkReports(Av(rejected, assured), history)
           IN  /\ W \in Seq(Item) /\ Distinct(W)
               /\ \A x \in Range(W) : /\ x.pkg \in Range(Av(rejected, assured))
                                      /\ x.deps = Deps[x.pkg] \ Range(done)
               /\ \A p \in Range(Av(rejected, assured)) :
                     Deps[p] # {} => \E x \in Range(W) : x.pkg = p
<1> DEFINE av == Av(rejected, assured)
           H == UNION Range(history)
           W == QueuedWorkReports(av, history)
<1>1. TypeOK /\ CoresOK /\ HistoryOK
  BY DEF ReportInv
<1>2. /\ assured \subseteq Reports(assurances) /\ Range(av) = {assurances[c].pkg : c \in assured}
      /\ av \in Seq(Package) /\ IsInjective(av)
  BY <1>1, AvailableFacts
<1> HIDE DEF av
<1>3. /\ W \in Seq(Item) /\ Distinct(W)
      /\ \A x \in Range(W) : /\ x.pkg \in Range(av) /\ x.deps = Deps[x.pkg] \ H
      /\ \A p \in Range(av) : Deps[p] # {} /\ p \notin H => \E x \in Range(W) : x.pkg = p
  <2> HIDE DEF W
  <2>1. H = UNION Range(history)
    OBVIOUS
  <2> HIDE DEF H
  <2>2. /\ W \in Seq(Item) /\ Distinct(W)
        /\ \A x \in Range(W) :
              /\ x.pkg \in Range(av) /\ x.pkg \notin H /\ Deps[x.pkg] # {}
              /\ x.deps = Deps[x.pkg] \ H
        /\ \A p \in Range(av) : Deps[p] # {} /\ p \notin H => \E x \in Range(W) : x.pkg = p
    <3>1. \A hh : hh = UNION Range(history) =>
            /\ W \in Seq(Item) /\ Distinct(W)
            /\ \A x \in Range(W) :
                  /\ x.pkg \in Range(av) /\ x.pkg \notin hh /\ Deps[x.pkg] # {}
                  /\ x.deps = Deps[x.pkg] \ hh
            /\ \A p \in Range(av) : Deps[p] # {} /\ p \notin hh =>
                  \E x \in Range(W) : x.pkg = p
      BY <1>2, QueuedFacts DEF W
    <3> QED BY <2>1, <3>1, Zenon
  <2> QED BY <2>2, Zenon
<1> HIDE DEF W
<1>4. H \subseteq Range(done)
  BY <1>1, HistoryIsDone
<1>5. \A p \in Range(av) : p \notin Range(done)
  BY <1>1, <1>2, Zenon DEF CoresOK
<1>6. \A p \in Range(av) : Deps[p] \cap Range(done) \subseteq H
  BY <1>2, DoneIsRemembered
<1> HIDE DEF H
<1>7. \A x \in Range(W) : x.deps = Deps[x.pkg] \ Range(done)
  BY <1>3, <1>4, <1>6
<1>8. \A p \in Range(av) : Deps[p] # {} => \E x \in Range(W) : x.pkg = p
  BY <1>3, <1>4, <1>5
<1> QED BY <1>3, <1>7, <1>8 DEF W, av

\* The bucket of the slot is written, those of slots without a block are cleared, and
\* all others grow older.
LEMMA BucketAfter ==
    ASSUME ReportInv, NEW t, NEW n, NEW rejected, NEW assured, NEW new,
           BlockStep(t, n, rejected, assured, new),
           NEW batch, Accumulated(Av(rejected, assured), t, batch), NEW j \in Phase
    PROVE  LET i == (t - j) % EpochTimeslots
               W == QueuedWorkReports(Av(rejected, assured), history)
               S == Range(batch)
           IN  /\ i \in 0 .. EpochTimeslots - 1
               /\ \/ i = 0 /\ queue'[j] = EditQueue(W, S)
                  \/ i # 0 /\ i < t - slot /\ queue'[j] = <<>>
                  \/ /\ i # 0 /\ queue'[j] = EditQueue(queue[j], S)
                     /\ i = ((slot - j) % EpochTimeslots) + (t - slot)
               /\ ((slot - j) % EpochTimeslots) + (t - slot) < EpochTimeslots =>
                     i # 0 /\ queue'[j] = EditQueue(queue[j], S)
<1> DEFINE E == EpochTimeslots
           i == (t - j) % E
           a == (slot - j) % E
           d == t - slot
           W == QueuedWorkReports(Av(rejected, assured), history)
           S == Range(batch)
<1>1. E \in Nat \ {0} /\ slot \in Int /\ t \in Int /\ j \in Int /\ t > slot
  BY ConstantFacts DEF ReportInv, TypeOK, BlockStep, Slot, Phase
<1>2. i \in 0 .. E - 1 /\ a \in 0 .. E - 1
  <2>1. t - j \in Int /\ slot - j \in Int
    BY <1>1
  <2> QED BY <1>1, <2>1, DivMod
<1>3. d \in Nat /\ d > 0 /\ slot - j \in Int /\ (slot - j) + d = t - j
  BY <1>1
<1>4. queue' = NextQueue(queue, W, slot, t, S)
  BY DEF Accumulated
<1> HIDE DEF W, S
<1>5. queue'[j] = IF i = 0 THEN EditQueue(W, S)
                  ELSE IF i < d THEN <<>> ELSE EditQueue(queue[j], S)
  BY <1>4 DEF NextQueue
<1>6. i >= d => a = i - d
  <2>1. ((slot - j) + d) % E = i
    BY <1>3
  <2> HIDE DEF i, E, d
  <2>2. ASSUME i >= d PROVE (slot - j) % E = (((slot - j) + d) % E) - d
    BY <1>1, <1>3, <2>1, <2>2, YoungerBefore
  <2> QED BY <2>1, <2>2
<1>7. a + d < E => i = a + d
  <2>1. ((slot - j) + d) % E = i
    BY <1>3
  <2> HIDE DEF i, E, d
  <2>2. ASSUME a + d < E PROVE ((slot - j) + d) % E = ((slot - j) % E) + d
    BY <1>1, <1>3, <2>2, OlderAfter
  <2> QED BY <2>1, <2>2
<1>8. /\ i \in 0 .. E - 1
      /\ \/ i = 0 /\ queue'[j] = EditQueue(W, S)
         \/ i # 0 /\ i < d /\ queue'[j] = <<>>
         \/ i # 0 /\ queue'[j] = EditQueue(queue[j], S) /\ i = a + d
      /\ a + d < E => i # 0 /\ queue'[j] = EditQueue(queue[j], S)
  <2> HIDE DEF i, a, E, d
  <2> QED BY <1>1, <1>2, <1>3, <1>5, <1>6, <1>7
<1> QED BY <1>8 DEF W, S

\* What is left of a queue q is in Range(EditQueue(q, S)).
LEMMA EditQueueRange ==
    ASSUME NEW q \in Seq(Item), NEW S
    PROVE  /\ EditQueue(q, S) \in Seq(Item)
           /\ Distinct(q) => Distinct(EditQueue(q, S))
           /\ \A y \in Range(EditQueue(q, S)) : \E x \in Range(q) : Edited(y, x, S)
           /\ \A x \in Range(q) : x.pkg \notin S => \E y \in Range(EditQueue(q, S)) : y.pkg = x.pkg
<1> DEFINE e == EditQueue(q, S)
<1>1. /\ e \in Seq(Item)
      /\ Distinct(q) => Distinct(e)
      /\ \A m \in DOMAIN e : \E i \in DOMAIN q : Edited(e[m], q[i], S)
      /\ \A i \in DOMAIN q : q[i].pkg \notin S => \E m \in DOMAIN e : Edited(e[m], q[i], S)
  BY EditQueueFacts
<1> HIDE DEF e
<1>2. \A y \in Range(e) : \E x \in Range(q) : Edited(y, x, S)
  BY <1>1, Zenon DEF Range
<1>3. \A x \in Range(q) : x.pkg \notin S => \E y \in Range(e) : y.pkg = x.pkg
  <2> SUFFICES ASSUME NEW i \in DOMAIN q, q[i].pkg \notin S
               PROVE  \E y \in Range(e) : y.pkg = q[i].pkg
    BY DEF Range
  <2>1. PICK m \in DOMAIN e : Edited(e[m], q[i], S)
    BY <1>1
  <2>2. e[m] \in Range(e) /\ e[m].pkg = q[i].pkg
    BY <2>1, Zenon DEF Range, Edited
  <2> QED BY <2>2
<1> QED BY <1>1, <1>2, <1>3 DEF e

\* Where the items of a bucket come from.
LEMMA ItemsAfter ==
    ASSUME ReportInv, NEW t, NEW n, NEW rejected, NEW assured, NEW new,
           BlockStep(t, n, rejected, assured, new),
           NEW batch, Accumulated(Av(rejected, assured), t, batch), NEW j \in Phase
    PROVE  /\ queue'[j] \in Seq(Item) /\ Distinct(queue'[j])
           /\ \A y \in Range(queue'[j]) :
                 \/ /\ (t - j) % EpochTimeslots = 0
                    /\ \E x \in Range(QueuedWorkReports(Av(rejected, assured), history)) :
                          Edited(y, x, Range(batch))
                 \/ /\ (t - j) % EpochTimeslots = ((slot - j) % EpochTimeslots) + (t - slot)
                    /\ \E x \in Range(queue[j]) : Edited(y, x, Range(batch))
<1> DEFINE i == (t - j) % EpochTimeslots
           a == (slot - j) % EpochTimeslots
           W == QueuedWorkReports(Av(rejected, assured), history)
           S == Range(batch)
           q == queue[j]
<1>1. TypeOK /\ QueueOK
  BY DEF ReportInv
<1>2. q \in Seq(Item) /\ Distinct(q)
  <2>1. q \in Seq(Item)
    BY <1>1 DEF TypeOK
  <2>2. IsInjective(Packages(q))
    BY <1>1 DEF QueueOK
  <2> HIDE DEF q
  <2> QED BY <2>1, <2>2, DistinctPackages
<1>3. W \in Seq(Item) /\ Distinct(W)
  BY QueuedAreNew
<1>4. \/ i = 0 /\ queue'[j] = EditQueue(W, S)
      \/ queue'[j] = <<>>
      \/ queue'[j] = EditQueue(q, S) /\ i = a + (t - slot)
  BY BucketAfter
<1> HIDE DEF W, S, q, i, a
<1>5. CASE i = 0 /\ queue'[j] = EditQueue(W, S)
  BY <1>3, <1>5, EditQueueRange, Zenon DEF W, S, i
<1>6. CASE queue'[j] = <<>>
  <2>1. <<>> \in Seq(Item) /\ DOMAIN <<>> = {}
    OBVIOUS
  <2> QED BY <1>6, <2>1 DEF Distinct, Range
<1>7. CASE queue'[j] = EditQueue(q, S) /\ i = a + (t - slot)
  BY <1>2, <1>7, EditQueueRange, Zenon DEF S, i, a, q
<1> QED BY <1>4, <1>5, <1>6, <1>7

\* An available report that is not accumulated joins the queue, and one that waits
\* stays there until its epoch is over.
LEMMA StaysInQueue ==
    ASSUME ReportInv, NEW t, NEW n, NEW rejected, NEW assured, NEW new,
           BlockStep(t, n, rejected, assured, new),
           NEW batch, Accumulated(Av(rejected, assured), t, batch), NEW p, p \notin Range(batch),
           \/ p \in Range(Av(rejected, assured))
           \/ p \in InQueue /\ t - availableAt[p] < EpochTimeslots
    PROVE  p \in InQueue'
<1> DEFINE E == EpochTimeslots
           W == QueuedWorkReports(Av(rejected, assured), history)
           S == Range(batch)
           av == Av(rejected, assured)
<1>1. TypeOK /\ QueueOK
  BY DEF ReportInv
<1>2. E \in Nat \ {0} /\ t \in Int /\ slot \in Int
  BY <1>1, ConstantFacts DEF TypeOK, BlockStep, Slot
<1>3. \A j \in Phase : \A y \in Range(queue'[j]) : y.pkg \in InQueue'
  BY DEF InQueue
<1>4. CASE p \in Range(av)
  <2>1. Deps[p] # {}
    BY <1>4 DEF Accumulated, BatchOK
  <2>2. W \in Seq(Item) /\ \E x \in Range(W) : x.pkg = p
    BY <1>4, <2>1, QueuedAreNew
  <2> DEFINE j == t % E
  <2>3. j \in Phase /\ (t - j) % E = 0
    <3>1. j \in 0 .. E - 1 /\ t \div E \in Int /\ t = E * (t \div E) + j
      BY <1>2, DivMod
    <3> DEFINE m == t \div E
    <3> HIDE DEF j, m
    <3>2. m \in Int /\ t - j = E * m + 0 /\ 0 \in 0 .. E - 1
      BY <1>2, <3>1 DEF m
    <3>3. (E * m + 0) % E = 0
      BY <1>2, <3>2, ModIs
    <3> QED BY <3>1, <3>2, <3>3 DEF Phase
  <2> HIDE DEF j
  <2>4. queue'[j] = EditQueue(W, S)
    <3>1. LET i == (t - j) % E
          IN  \/ i = 0 /\ queue'[j] = EditQueue(W, S)
              \/ i # 0
      BY <2>3, BucketAfter
    <3> QED BY <2>3, <3>1
  <2> HIDE DEF W, S
  <2>5. \E y \in Range(EditQueue(W, S)) : y.pkg = p
    BY <2>2, EditQueueRange DEF S
  <2> QED BY <1>3, <2>3, <2>4, <2>5
<1>5. CASE p \in InQueue /\ t - availableAt[p] < E
  <2>0. PICK j \in Phase : \E x \in Range(queue[j]) : x.pkg = p
    BY <1>5 DEF InQueue
  <2>1. PICK x \in Range(queue[j]) : x.pkg = p
    BY <2>0
  <2> DEFINE a == (slot - j) % E
  <2>2. availableAt[p] = slot - a
    BY <1>1, <2>1, Zenon DEF QueueOK
  <2>3. a \in Int
    <3>1. slot - j \in Int
      BY <1>2 DEF Phase
    <3> QED BY <1>2, <3>1, DivMod
  <2>4. a + (t - slot) < E => queue'[j] = EditQueue(queue[j], S)
    BY BucketAfter
  <2> HIDE DEF a
  <2>5. a + (t - slot) < E
    BY <1>2, <1>5, <2>2, <2>3
  <2>6. queue[j] \in Seq(Item)
    BY <1>1 DEF TypeOK
  <2> HIDE DEF S
  <2>7. \E y \in Range(EditQueue(queue[j], S)) : y.pkg = p
    BY <2>1, <2>6, EditQueueRange DEF S
  <2> QED BY <1>3, <2>4, <2>5, <2>7
<1> QED BY <1>4, <1>5

-----------------------------------------------------------------------------
(* A block keeps the invariant.                                            *)

\* What a block writes besides queue, history and done.
LEMMA BlockWrites ==
    ASSUME TypeOK, RecentOK, NEW t, NEW n, NEW rejected, NEW assured, NEW new,
           BlockStep(t, n, rejected, assured, new)
    PROVE  /\ slot' = t /\ size' = n /\ height' = height + 1
           /\ assurances' = AfterGuarantees(new, CoresAt(t, n, rejected, assured), t)
           /\ recent' = NextRecent(new)
           /\ availableAt' = [p \in Package |-> IF p \in Range(Av(rejected, assured)) THEN t
                                                ELSE availableAt[p]]
           /\ anchor' = [p \in Package |-> IF p \in new THEN height ELSE anchor[p]]
           /\ ValidGuarantees(new, CoresAt(t, n, rejected, assured), n)
<1>1. \A p \in new : anchor[p] = Unset
  BY NewIsFresh
<1>2. anchor' = [p \in Package |-> IF p \in new /\ anchor[p] = Unset THEN height ELSE anchor[p]]
  BY DEF BlockStep, ProcessBlock
<1>3. anchor' = [p \in Package |-> IF p \in new THEN height ELSE anchor[p]]
  BY <1>1, <1>2
<1>4. ValidGuarantees(new, CoresAt(t, n, rejected, assured), n)
  BY DEF BlockStep, ProcessBlock, CoresAt
<1>5. BlockWith(t, n, new, CoresAt(t, n, rejected, assured), Av(rejected, assured))
  BY DEF BlockStep, ProcessBlock, CoresAt, Av
<1> QED BY <1>3, <1>4, <1>5 DEF BlockWith

\* Reported packages stay reported, and only new ones are added.
LEMMA KnownGrows ==
    ASSUME TypeOK, RecentOK, NEW t, NEW n, NEW rejected, NEW assured, NEW new,
           BlockStep(t, n, rejected, assured, new)
    PROVE  /\ new \subseteq Package /\ new \cap Known = {} /\ Known' = Known \cup new
           /\ \A p \in Known : ReportedAt(p)' = ReportedAt(p) /\ ReportedAt(p) \in Nat
           /\ \A p \in new : ReportedAt(p)' = height + 1
<1>1. new \subseteq Package /\ \A p \in new : anchor[p] = Unset
  BY NewIsFresh
<1>2. anchor' = [p \in Package |-> IF p \in new THEN height ELSE anchor[p]]
  BY BlockWrites
<1>3. anchor \in [Package -> {Unset} \cup Nat] /\ height \in Nat /\ Unset \notin Nat
  BY DEF TypeOK, Unset
<1>4. new \cap Known = {}
  BY <1>1 DEF Known
<1>5. Known' = Known \cup new
  BY <1>1, <1>2, <1>3 DEF Known
<1>6. ASSUME NEW p \in Known
      PROVE  ReportedAt(p)' = ReportedAt(p) /\ ReportedAt(p) \in Nat
  <2>1. p \in Package /\ anchor[p] \in Nat /\ p \notin new
    BY <1>3, <1>4 DEF Known
  <2>2. anchor'[p] = anchor[p]
    BY <1>2, <2>1
  <2> QED BY <2>1, <2>2 DEF ReportedAt
<1>7. ASSUME NEW p \in new PROVE ReportedAt(p)' = height + 1
  <2>1. anchor'[p] = height
    BY <1>1, <1>2
  <2> QED BY <2>1 DEF ReportedAt
<1> QED BY <1>1, <1>4, <1>5, <1>6, <1>7

\* The recent blocks, one more of them.
LEMMA RecentAfter ==
    ASSUME TypeOK, NEW new, new \subseteq Package
    PROVE  \E m \in {0, 1} :
              /\ DOMAIN NextRecent(new) = 1 .. Len(recent) + 1 - m
              /\ NextRecent(new) = [i \in 1 .. Len(recent) + 1 - m |->
                    IF i + m = Len(recent) + 1 THEN [height |-> height + 1, reported |-> new]
                    ELSE recent[i + m]]
              /\ Len(NextRecent(new)) = Len(recent) + 1 - m
              /\ IF Len(recent) = History THEN m = 1 ELSE m = 0
<1> DEFINE B == [height : Nat, reported : SUBSET Package]
           b == [height |-> height + 1, reported |-> new]
           L == Len(recent)
           all == Append(recent, b)
<1>1. recent \in Seq(B) /\ L \in Nat /\ L \in 1 .. History /\ History \in Nat
  BY ConstantFacts DEF TypeOK
<1>2. all = [i \in 1 .. L + 1 |-> IF i = L + 1 THEN b ELSE recent[i]]
  BY <1>1
<1>3. Len(all) = L + 1 /\ DOMAIN all = 1 .. L + 1
  BY <1>1, <1>2
<1>4. NextRecent(new) = IF Len(all) > History THEN Tail(all) ELSE all
  BY DEF NextRecent
<1> HIDE DEF b
<1>5. CASE L = History
  <2>1. NextRecent(new) = Tail(all)
    BY <1>1, <1>3, <1>4, <1>5
  <2>2. Tail(all) = [i \in 1 .. L |-> all[i + 1]]
    <3>1. b \in B
      BY DEF b, TypeOK
    <3> HIDE DEF B
    <3>2. all \in Seq(B) /\ all # <<>>
      BY <1>1, <1>3, <3>1
    <3> HIDE DEF all
    <3>3. Tail(all) \in Seq(B) /\ Len(Tail(all)) = L /\ \A i \in 1 .. L : Tail(all)[i] = all[i + 1]
      BY <1>1, <1>3, <3>2
    <3>4. DOMAIN Tail(all) = 1 .. L /\ Tail(all) = [i \in DOMAIN Tail(all) |-> Tail(all)[i]]
      <4> DEFINE u == Tail(all)
      <4>1. u \in Seq(B) /\ Len(u) = L
        BY <3>3
      <4> HIDE DEF u
      <4>2. DOMAIN u = 1 .. L /\ u = [i \in DOMAIN u |-> u[i]]
        BY <4>1
      <4> QED BY <4>2 DEF u
    <3> QED BY <3>3, <3>4, Zenon
  <2>3. Tail(all) = [i \in 1 .. L + 1 - 1 |-> IF i + 1 = L + 1 THEN b ELSE recent[i + 1]]
    BY <1>1, <1>2, <2>2
  <2> HIDE DEF all
  <2> DEFINE f == [i \in 1 .. L + 1 - 1 |-> IF i + 1 = L + 1 THEN b ELSE recent[i + 1]]
  <2>4. Len(f) = L + 1 - 1 /\ DOMAIN f = 1 .. L + 1 - 1
    BY <1>1
  <2> QED BY <1>5, <2>1, <2>3, <2>4 DEF b
<1>6. CASE L # History
  <2>1. NextRecent(new) = all
    BY <1>1, <1>3, <1>4, <1>6
  <2> DEFINE f == [i \in 1 .. L + 1 - 0 |-> IF i + 0 = L + 1 THEN b ELSE recent[i + 0]]
  <2>2. all = f
    BY <1>1, <1>2
  <2> HIDE DEF all
  <2>3. Len(f) = L + 1 - 0 /\ DOMAIN f = 1 .. L + 1 - 0
    BY <1>1
  <2> QED BY <1>6, <2>1, <2>2, <2>3 DEF b
<1> QED BY <1>5, <1>6

LEMMA RecentStep ==
    ASSUME TypeOK, RecentOK, NEW t, NEW n, NEW rejected, NEW assured, NEW new,
           BlockStep(t, n, rejected, assured, new)
    PROVE  /\ RecentOK' /\ Len(recent') \in 1 .. History
           /\ recent' \in Seq([height : Nat, reported : SUBSET Package])
<1> DEFINE L == Len(recent)
           N == Len(recent')
           B == [height : Nat, reported : SUBSET Package]
           b == [height |-> height + 1, reported |-> new]
<1>1. /\ recent' = NextRecent(new) /\ height' = height + 1
  BY BlockWrites
<1>2. /\ new \subseteq Package /\ new \cap Known = {} /\ Known' = Known \cup new
      /\ \A p \in Known : ReportedAt(p)' = ReportedAt(p) /\ ReportedAt(p) \in Nat
      /\ \A p \in new : ReportedAt(p)' = height + 1
  BY KnownGrows
<1>3. PICK m \in {0, 1} :
        /\ DOMAIN recent' = 1 .. L + 1 - m
        /\ recent' = [i \in 1 .. L + 1 - m |-> IF i + m = L + 1 THEN b ELSE recent[i + m]]
        /\ Len(recent') = L + 1 - m
        /\ IF L = History THEN m = 1 ELSE m = 0
  BY <1>1, <1>2, RecentAfter, Zenon
<1>4. /\ recent \in Seq(B) /\ L \in 1 .. History /\ History \in Nat \ {0} /\ height \in Nat
      /\ DOMAIN recent = 1 .. L
  BY ConstantFacts DEF TypeOK
<1>a. N = L + 1 - m /\ (IF L = History THEN m = 1 ELSE m = 0) /\ m \in {0, 1}
  BY <1>3
<1>b. L \in 1 .. History /\ History \in Nat \ {0} /\ height \in Nat /\ height' = height + 1
  BY <1>1, <1>4
<1>c. (L = History \/ L = height + 1) /\ L <= height + 1
  BY DEF RecentOK
<1>d. L + 1 - m \in Nat /\ Len(recent') = N
  BY <1>a, <1>b
<1> HIDE DEF N, L
<1>5. m \in Nat /\ L \in Nat /\ N \in 1 .. History /\ (m = 0 \/ m = 1)
  BY <1>a, <1>b
<1>6. ASSUME NEW i \in 1 .. L + 1 - m
      PROVE  \/ i + m = L + 1 /\ recent'[i] = b
             \/ i + m \in 1 .. L /\ recent'[i] = recent[i + m]
  <2>1. recent'[i] = IF i + m = L + 1 THEN b ELSE recent[i + m]
    BY <1>3
  <2>2. i + m = L + 1 \/ (i + m \in 1 .. L /\ i + m # L + 1)
    BY <1>a, <1>b
  <2> QED BY <2>1, <2>2
<1>7. b \in B
  BY <1>2, <1>4
<1>8. recent' \in Seq(B)
  <2> HIDE DEF B, b
  <2>1. \A i \in 1 .. L + 1 - m : recent'[i] \in B
    BY <1>4, <1>6, <1>7
  <2> QED BY <1>3, <1>d, <2>1
<1>9. N = History \/ N = height' + 1
  BY <1>a, <1>b, <1>c
<1>10. N <= height' + 1
  BY <1>a, <1>b, <1>c
<1>11. ASSUME NEW i \in DOMAIN recent'
       PROVE  /\ recent'[i].height = height' - N + i
              /\ \A p \in recent'[i].reported : p \in Known' /\ ReportedAt(p)' = recent'[i].height
  <2>1. i \in 1 .. L + 1 - m
    BY <1>3
  <2>2. CASE i + m = L + 1 /\ recent'[i] = b
    <3>1. b.height = height + 1 /\ b.reported = new
      OBVIOUS
    <3>2. height' - N + i = height + 1
      BY <1>a, <1>b, <1>5, <2>1, <2>2
    <3> QED BY <1>2, <2>2, <3>1, <3>2
  <2>3. CASE i + m \in 1 .. L /\ recent'[i] = recent[i + m]
    <3>1. /\ recent[i + m].height = height - L + (i + m)
          /\ \A p \in recent[i + m].reported : p \in Known /\ ReportedAt(p) = recent[i + m].height
      BY <1>4, <2>3 DEF RecentOK
    <3>2. height' - N + i = height - L + (i + m)
      BY <1>a, <1>b, <1>5, <2>1
    <3> QED BY <1>2, <2>3, <3>1, <3>2
  <2> QED BY <1>6, <2>1, <2>2, <2>3
<1>12. ASSUME NEW p \in Known'
       PROVE  /\ ReportedAt(p)' <= height'
              /\ ReportedAt(p)' > height' - N =>
                    p \in recent'[ReportedAt(p)' - height' + N].reported
  <2>1. CASE p \in Known
    <3> DEFINE r == ReportedAt(p)
               k == r - height + L
               i == r - height' + N
    <3>1. r <= height /\ (r > height - L => p \in recent[k].reported)
      BY <2>1, Zenon DEF RecentOK, L
    <3>2. ReportedAt(p)' = r /\ r \in Nat
      BY <1>2, <2>1
    <3> HIDE DEF r
    <3>3. r <= height'
      BY <1>1, <1>4, <3>1, <3>2
    <3>4. ASSUME r > height' - N PROVE p \in recent'[i].reported
      <4>1. i + m = k /\ i \in 1 .. L + 1 - m /\ i + m # L + 1 /\ r > height - L
        BY <1>a, <1>b, <1>5, <3>1, <3>2, <3>4
      <4> HIDE DEF i, k
      <4>2. recent'[i] = recent[k]
        BY <1>6, <4>1
      <4> QED BY <3>1, <4>1, <4>2
    <3> QED BY <3>2, <3>3, <3>4
  <2>2. CASE p \in new
    <3>1. ReportedAt(p)' = height + 1
      BY <1>2, <2>2
    <3> DEFINE i == L + 1 - m
    <3>2. ReportedAt(p)' - height' + N = i /\ i \in 1 .. L + 1 - m /\ i + m = L + 1
      BY <1>a, <1>b, <1>5, <3>1
    <3> HIDE DEF i
    <3>3. recent'[i] = b
      BY <1>4, <1>6, <3>2
    <3>4. p \in recent'[i].reported
      BY <2>2, <3>3
    <3>5. ReportedAt(p)' <= height'
      BY <1>1, <1>4, <3>1
    <3> QED BY <3>2, <3>4, <3>5
  <2> QED BY <1>2, <2>1, <2>2
<1>13. RecentOK'
  BY <1>9, <1>10, <1>11, <1>12 DEF RecentOK, N
<1> QED BY <1>5, <1>8, <1>13 DEF N

\* A core holds a new report, or the one it held, which is not stale.
LEMMA CoreAfter ==
    ASSUME ReportInv, NEW t, NEW n, NEW rejected, NEW assured, NEW new,
           BlockStep(t, n, rejected, assured, new), NEW c \in Reports(assurances')
    PROVE  /\ c \in Core
           /\ \/ /\ assurances'[c].pkg \in new /\ CoreOf[assurances'[c].pkg] = c
                 /\ assurances'[c] = [pkg |-> assurances'[c].pkg, since |-> t]
              \/ /\ assurances'[c] = assurances[c] /\ c \in Reports(assurances)
                 /\ CoresAt(t, n, rejected, assured)[c] # NoReport
                 /\ t < assurances[c].since + ReplacementPeriod
<1> DEFINE cores == CoresAt(t, n, rejected, assured)
<1>1. TypeOK /\ RecentOK
  BY DEF ReportInv
<1>2. assurances' = AfterGuarantees(new, cores, t)
  BY <1>1, BlockWrites
<1>3. c \in Core /\ assurances'[c] # NoReport
  BY DEF Reports
<1> HIDE DEF cores
<1>4. assurances'[c] = IF \E p \in new : CoreOf[p] = c
                       THEN [pkg |-> CHOOSE p \in new : CoreOf[p] = c, since |-> t]
                       ELSE cores[c]
  BY <1>2, <1>3 DEF AfterGuarantees
<1>5. CASE \E p \in new : CoreOf[p] = c
  <2> DEFINE p == CHOOSE p \in new : CoreOf[p] = c
  <2>1. p \in new /\ CoreOf[p] = c
    BY <1>5
  <2> HIDE DEF p
  <2>2. assurances'[c] = [pkg |-> p, since |-> t]
    BY <1>4, <1>5 DEF p
  <2> QED BY <1>3, <2>1, <2>2
<1>6. CASE ~ \E p \in new : CoreOf[p] = c
  <2>1. assurances'[c] = cores[c] /\ cores[c] # NoReport
    BY <1>3, <1>4, <1>6
  <2>2. /\ cores[c] = assurances[c] /\ c \in Reports(assurances)
        /\ t < assurances[c].since + ReplacementPeriod
    BY <1>1, <1>3, <2>1, CoresFacts DEF cores
  <2> QED BY <1>3, <2>1, <2>2 DEF cores
<1> QED BY <1>5, <1>6

\* Only available reports join the queue, and what is accumulated leaves it.
LEMMA QueueShrinks ==
    ASSUME ReportInv, NEW t, NEW n, NEW rejected, NEW assured, NEW new,
           BlockStep(t, n, rejected, assured, new),
           NEW batch, Accumulated(Av(rejected, assured), t, batch)
    PROVE  InQueue' \subseteq (InQueue \cup Range(Av(rejected, assured))) \ Range(done')
<1> DEFINE av == Av(rejected, assured)
           W == QueuedWorkReports(av, history)
           S == Range(batch)
<1>1. \A x \in Range(W) : x.pkg \in Range(av)
  BY QueuedAreNew
<1>2. /\ Range(av) \cap (InQueue \cup Range(done)) = {} /\ InQueue \cap Range(done) = {}
      /\ Range(done') = Range(done) \cup S
  BY BatchPlaces
<1>3. ASSUME NEW j \in Phase, NEW y \in Range(queue'[j])
      PROVE  y.pkg \in (InQueue \cup Range(av)) \ Range(done')
  <2>1. \/ \E x \in Range(W) : Edited(y, x, S)
        \/ \E x \in Range(queue[j]) : Edited(y, x, S)
    BY <1>3, ItemsAfter
  <2> HIDE DEF W, av, S
  <2>2. y.pkg \in InQueue \cup Range(av) /\ y.pkg \notin S
    BY <1>1, <2>1 DEF Edited, InQueue
  <2> QED BY <1>2, <2>2
<1> HIDE DEF av
<1>4. \A p \in InQueue' : \E j \in Phase : \E y \in Range(queue'[j]) : p = y.pkg
  BY DEF InQueue
<1>5. InQueue' \subseteq (InQueue \cup Range(av)) \ Range(done')
  BY <1>3, <1>4
<1> QED BY <1>5 DEF av

LEMMA CoresStep ==
    ASSUME ReportInv, NEW t, NEW n, NEW rejected, NEW assured, NEW new,
           BlockStep(t, n, rejected, assured, new),
           NEW batch, Accumulated(Av(rejected, assured), t, batch)
    PROVE  CoresOK'
<1>1. TypeOK /\ RecentOK /\ CoresOK
  BY DEF ReportInv
<1>2. slot' = t /\ height' = height + 1
  BY <1>1, BlockWrites
<1>3. /\ new \subseteq Package /\ new \cap Known = {} /\ Known' = Known \cup new
      /\ \A p \in Known : ReportedAt(p)' = ReportedAt(p) /\ ReportedAt(p) \in Nat
      /\ \A p \in new : ReportedAt(p)' = height + 1
  BY <1>1, KnownGrows
<1>4. InQueue' \subseteq (InQueue \cup Range(Av(rejected, assured))) \ Range(done')
  BY QueueShrinks
<1>5. /\ Range(Av(rejected, assured)) \subseteq Known /\ InQueue \subseteq Known
      /\ Range(batch) \subseteq Known /\ Range(done') = Range(done) \cup Range(batch)
      /\ Range(batch) \subseteq InQueue \cup Range(Av(rejected, assured))
  BY BatchPlaces DEF Accumulated, BatchOK
<1>6. Range(done) \subseteq Known
  BY Zenon DEF ReportInv, HistoryOK
<1>7. /\ slot \in Nat /\ t \in Nat /\ t > slot /\ height \in Nat
      /\ History \in Nat \ {0} /\ ReplacementPeriod \in Nat \ {0}
  BY <1>1, ConstantFacts DEF TypeOK, BlockStep, Slot
<1> SUFFICES ASSUME NEW c \in Reports(assurances'), NEW p, NEW s,
                    p = assurances'[c].pkg, s = assurances'[c].since
             PROVE  /\ CoreOf[p] = c
                    /\ p \in Known' /\ p \notin InQueue' /\ p \notin Range(done')
                    /\ 0 <= height' - ReportedAt(p)'
                    /\ height' - ReportedAt(p)' <= slot' - s /\ slot' - s < ReplacementPeriod
                    /\ \A d \in Deps[p] : /\ d \in Known'
                                          /\ ReportedAt(d)' >= ReportedAt(p)' - History
  BY Zenon DEF CoresOK, ReportedAt
<1>8. CASE p \in new /\ CoreOf[p] = c /\ assurances'[c] = [pkg |-> p, since |-> t]
  <2>1. s = t
    BY <1>8
  <2>2. p \in Known' /\ p \notin InQueue' /\ p \notin Range(done') /\ ReportedAt(p)' = height + 1
    BY <1>3, <1>4, <1>5, <1>6, <1>8
  <2>3. ASSUME NEW d \in Deps[p]
        PROVE  d \in Known' /\ ReportedAt(d)' >= ReportedAt(p)' - History
    <3>1. ValidGuarantees(new, CoresAt(t, n, rejected, assured), n)
      BY <1>1, BlockWrites
    <3>2. d \in ReportedBefore \cup new
      BY <1>8, <3>1 DEF ValidGuarantees
    <3>3. CASE d \in new
      BY <1>3, <1>7, <2>2, <3>3
    <3>4. CASE d \in ReportedBefore
      <4>1. PICK i \in DOMAIN recent : d \in recent[i].reported
        BY <3>4 DEF ReportedBefore, Range
      <4> DEFINE L == Len(recent)
      <4>2. d \in Known /\ ReportedAt(d) = height - L + i
        BY <1>1, <4>1 DEF RecentOK
      <4>3. L \in 1 .. History /\ i \in 1 .. L
        BY <1>1, <4>1 DEF TypeOK
      <4> HIDE DEF L
      <4>4. ReportedAt(d)' = height - L + i /\ d \in Known'
        BY <1>3, <4>2
      <4> QED BY <1>7, <2>2, <4>3, <4>4
    <3> QED BY <3>2, <3>3, <3>4
  <2>4. /\ 0 <= height' - ReportedAt(p)'
        /\ height' - ReportedAt(p)' <= slot' - s /\ slot' - s < ReplacementPeriod
    BY <1>2, <1>7, <2>1, <2>2
  <2> QED BY <1>8, <2>2, <2>3, <2>4
<1>9. CASE /\ assurances'[c] = assurances[c] /\ c \in Reports(assurances) /\ c \in Core
           /\ CoresAt(t, n, rejected, assured)[c] # NoReport
           /\ t < assurances[c].since + ReplacementPeriod
  <2>1. p = assurances[c].pkg /\ s = assurances[c].since /\ s \in Nat
    BY <1>1, <1>9, ReportTypes
  <2>2. /\ CoreOf[p] = c /\ p \in Known
        /\ 0 <= height - ReportedAt(p) /\ height - ReportedAt(p) <= slot - s
        /\ \A d \in Deps[p] : d \in Known /\ ReportedAt(d) >= ReportedAt(p) - History
    BY <1>1, <1>9 DEF CoresOK
  <2>3. p \notin Range(Av(rejected, assured)) \cup InQueue \cup Range(done)
    BY <1>9, <2>1, CoresAreElsewhere
  <2>4. p \notin InQueue' /\ p \notin Range(done')
    BY <1>4, <1>5, <2>3
  <2>5. p \in Known' /\ \A d \in Deps[p] : d \in Known' /\ ReportedAt(d)' >= ReportedAt(p)' - History
    BY <1>3, <2>2
  <2>6. /\ 0 <= height' - ReportedAt(p)'
        /\ height' - ReportedAt(p)' <= slot' - s /\ slot' - s < ReplacementPeriod
    <3>1. ReportedAt(p)' = ReportedAt(p) /\ ReportedAt(p) \in Nat
      BY <1>3, <2>2
    <3> QED BY <1>2, <1>7, <1>9, <2>1, <2>2, <3>1
  <2> QED BY <2>2, <2>4, <2>5, <2>6
<1> QED BY <1>8, <1>9, CoreAfter

LEMMA HistoryStep ==
    ASSUME ReportInv, NEW t, NEW n, NEW rejected, NEW assured, NEW new,
           BlockStep(t, n, rejected, assured, new),
           NEW batch, Accumulated(Av(rejected, assured), t, batch)
    PROVE  /\ HistoryOK' /\ history' \in Seq(SUBSET Package)
           /\ Len(history') = EpochTimeslots
<1> DEFINE E == EpochTimeslots
           S == Range(batch)
           P == SUBSET Package
           u == Append(Tail(history), S)
<1>1. TypeOK /\ RecentOK /\ HistoryOK
  BY DEF ReportInv
<1>2. E \in Nat \ {0} /\ history \in Seq(P) /\ Len(history) = E /\ height \in Nat
  BY <1>1, ConstantFacts DEF TypeOK
<1>3. S \subseteq Known /\ Range(done') = Range(done) \cup S
  BY BatchPlaces
<1>4. S \in P
  BY <1>3 DEF Known
<1>5. history' = u
  BY DEF Accumulated, NextHistory
<1> HIDE DEF S, P
<1>6. u \in Seq(P) /\ Len(u) = E /\ u[E] = S /\ \A i \in 1 .. E - 1 : u[i] = history[i + 1]
  <2>1. history # <<>>
    BY <1>2
  <2> DEFINE v == Tail(history)
  <2>2. v \in Seq(P) /\ Len(v) = E - 1 /\ \A i \in 1 .. E - 1 : v[i] = history[i + 1]
    BY <1>2, <2>1
  <2> HIDE DEF v, E
  <2>3. Append(v, S) \in Seq(P) /\ Len(Append(v, S)) = E
    BY <1>2, <1>4, <2>2
  <2>4. Append(v, S)[E] = S /\ \A i \in 1 .. E - 1 : Append(v, S)[i] = v[i]
    BY <1>2, <1>4, <2>2
  <2> QED BY <2>2, <2>3, <2>4 DEF v
<1> HIDE DEF u
<1>7. DOMAIN u = 1 .. E /\ DOMAIN history = 1 .. E
  BY <1>2, <1>6
<1>8. height' = height + 1
  BY <1>1, BlockWrites
<1>9. /\ Known' = Known \cup new
      /\ \A p \in Known : ReportedAt(p)' = ReportedAt(p) /\ ReportedAt(p) \in Nat
  BY <1>1, KnownGrows
<1>10. \A d \in Range(done) : d \in Known
  BY <1>1 DEF HistoryOK
<1>11. ASSUME NEW i \in DOMAIN u, NEW d \in u[i]
       PROVE  d \in Range(done') /\ ReportedAt(d)' < height' - E + i
  <2>1. CASE i = E
    <3>1. d \in S /\ d \in Known
      BY <1>3, <1>6, <2>1
    <3>2. ReportedAt(d) <= height
      BY <1>1, <3>1 DEF RecentOK
    <3>3. ReportedAt(d)' = ReportedAt(d) /\ ReportedAt(d) \in Nat
      BY <1>9, <3>1
    <3>4. ReportedAt(d)' < height' - E + i
      BY <1>2, <1>8, <2>1, <3>2, <3>3
    <3> QED BY <1>3, <3>1, <3>4
  <2>2. CASE i # E
    <3>1. i \in 1 .. E - 1 /\ i + 1 \in DOMAIN history
      BY <1>2, <1>7, <2>2
    <3>2. d \in history[i + 1]
      BY <1>6, <3>1
    <3>3. d \in Range(done) /\ ReportedAt(d) < height - E + (i + 1)
      BY <1>1, <3>1, <3>2 DEF HistoryOK
    <3>4. ReportedAt(d)' = ReportedAt(d) /\ ReportedAt(d) \in Nat
      BY <1>9, <1>10, <3>3
    <3>5. ReportedAt(d)' < height' - E + i
      BY <1>2, <1>8, <3>1, <3>3, <3>4
    <3> QED BY <1>3, <3>3, <3>5
  <2> QED BY <2>1, <2>2
<1>12. ASSUME NEW d \in Range(done')
       PROVE  d \in Known' /\ (ReportedAt(d)' >= height' - E => d \in UNION Range(u))
  <2>1. d \in Known'
    BY <1>3, <1>9, <1>10
  <2>2. ASSUME ReportedAt(d)' >= height' - E PROVE d \in UNION Range(u)
    <3>1. CASE d \in S
      <4>1. E \in DOMAIN u
        BY <1>2, <1>7
      <4> QED BY <1>6, <3>1, <4>1 DEF Range
    <3>2. CASE d \in Range(done)
      <4>1. ReportedAt(d)' = ReportedAt(d) /\ ReportedAt(d) \in Nat
        BY <1>9, <1>10, <3>2
      <4>2. ReportedAt(d) >= height - E
        BY <1>2, <1>8, <2>2, <4>1
      <4>3. d \in UNION Range(history)
        BY <1>1, <3>2, <4>2 DEF HistoryOK
      <4>4. PICK k \in DOMAIN history : d \in history[k]
        BY <4>3 DEF Range
      <4>5. ReportedAt(d) < height - E + k
        BY <1>1, <4>4 DEF HistoryOK
      <4>6. k - 1 \in 1 .. E - 1 /\ (k - 1) + 1 = k /\ k - 1 \in DOMAIN u
        BY <1>2, <1>7, <1>8, <2>2, <4>1, <4>4, <4>5
      <4>7. u[k - 1] = history[k]
        BY <1>6, <4>6
      <4> QED BY <4>4, <4>6, <4>7 DEF Range
    <3> QED BY <1>3, <3>1, <3>2
  <2> QED BY <2>1, <2>2
<1>13. HistoryOK'
  BY <1>5, <1>11, <1>12 DEF HistoryOK
<1> QED BY <1>5, <1>6, <1>13 DEF P

LEMMA DoneStep ==
    ASSUME ReportInv, NEW t, NEW n, NEW rejected, NEW assured, NEW new,
           BlockStep(t, n, rejected, assured, new),
           NEW batch, Accumulated(Av(rejected, assured), t, batch)
    PROVE  DoneOK'
<1> DEFINE u == done \o batch
           L == Len(done)
<1>1. done \in Seq(Package) /\ DoneOK
  BY DEF ReportInv, TypeOK
<1>2. /\ batch \in Seq(Package) /\ done' = u
      /\ \A i \in DOMAIN batch : Deps[batch[i]] \subseteq Range(done) \cup {batch[j] : j \in 1 .. i - 1}
  BY DEF Accumulated, BatchOK
<1>3. /\ DOMAIN u = 1 .. L + Len(batch)
      /\ \A i \in DOMAIN done : u[i] = done[i]
      /\ \A i \in DOMAIN u : \/ i \in DOMAIN done
                             \/ i - L \in DOMAIN batch /\ i > L /\ u[i] = batch[i - L]
  BY <1>1, <1>2, ConcatFacts
<1>4. /\ L \in Nat /\ Len(batch) \in Nat /\ DOMAIN done = 1 .. L /\ DOMAIN batch = 1 .. Len(batch)
  BY <1>1, <1>2
<1>5. \A j \in DOMAIN batch : u[L + j] = batch[j]
  BY <1>1, <1>2, <1>4
<1> HIDE DEF u, L
<1>6. ASSUME NEW i \in DOMAIN u PROVE Deps[u[i]] \subseteq {u[j] : j \in 1 .. i - 1}
  <2>1. CASE i \in DOMAIN done
    <3>1. Deps[done[i]] \subseteq {done[j] : j \in 1 .. i - 1}
      BY <1>1, <2>1 DEF DoneOK
    <3>2. u[i] = done[i] /\ \A j \in 1 .. i - 1 : u[j] = done[j]
      BY <1>3, <1>4, <2>1
    <3> QED BY <3>1, <3>2
  <2>2. CASE i - L \in DOMAIN batch /\ i > L /\ u[i] = batch[i - L]
    <3>1. Deps[u[i]] \subseteq Range(done) \cup {batch[j] : j \in 1 .. (i - L) - 1}
      BY <1>2, <2>2
    <3>2. ASSUME NEW d \in Range(done) PROVE d \in {u[j] : j \in 1 .. i - 1}
      <4>1. PICK k \in DOMAIN done : d = done[k]
        BY DEF Range
      <4>2. k \in 1 .. i - 1 /\ u[k] = d
        BY <1>3, <1>4, <2>2, <4>1
      <4> QED BY <4>2
    <3>3. ASSUME NEW k \in 1 .. (i - L) - 1 PROVE batch[k] \in {u[j] : j \in 1 .. i - 1}
      <4>1. L + k \in 1 .. i - 1 /\ k \in DOMAIN batch
        BY <1>3, <1>4, <2>2
      <4>2. u[L + k] = batch[k]
        BY <1>5, <4>1
      <4> QED BY <4>1, <4>2
    <3> QED BY <3>1, <3>2, <3>3
  <2> QED BY <1>3, <2>1, <2>2
<1> QED BY <1>2, <1>6 DEF DoneOK

LEMMA QueueStep ==
    ASSUME ReportInv, NEW t, NEW n, NEW rejected, NEW assured, NEW new,
           BlockStep(t, n, rejected, assured, new),
           NEW batch, Accumulated(Av(rejected, assured), t, batch)
    PROVE  QueueOK' /\ queue' \in [Phase -> Seq(Item)]
<1> DEFINE E == EpochTimeslots
           av == Av(rejected, assured)
           W == QueuedWorkReports(av, history)
           S == Range(batch)
<1>1. TypeOK /\ RecentOK /\ QueueOK
  BY DEF ReportInv
<1>2. E \in Nat \ {0} /\ t \in Int /\ slot \in Int
  BY <1>1, ConstantFacts DEF TypeOK, BlockStep, Slot
<1>3. \A x \in Range(W) : x.pkg \in Range(av) /\ x.deps = Deps[x.pkg] \ Range(done)
  BY QueuedAreNew
<1>4. /\ Range(av) \subseteq Known /\ Range(av) \cap (InQueue \cup Range(done)) = {}
      /\ InQueue \subseteq Known /\ InQueue \cap Range(done) = {}
      /\ Range(done') = Range(done) \cup S
  BY BatchPlaces
<1>5. Known \subseteq Known' /\ Known \subseteq Package
  BY <1>1, KnownGrows DEF Known
<1>6. slot' = t /\ availableAt' = [p \in Package |-> IF p \in Range(av) THEN t ELSE availableAt[p]]
  BY <1>1, BlockWrites
<1>7. /\ \A j \in Phase : queue'[j] \in Seq(Item) /\ Distinct(queue'[j])
      /\ \A j \in Phase : \A y \in Range(queue'[j]) :
            \/ (t - j) % E = 0 /\ \E x \in Range(W) : Edited(y, x, S)
            \/ /\ (t - j) % E = ((slot - j) % E) + (t - slot)
               /\ \E x \in Range(queue[j]) : Edited(y, x, S)
  BY ItemsAfter
<1>8. queue' \in [Phase -> Seq(Item)]
  <2>1. queue' = [j \in Phase |-> queue'[j]]
    BY DEF Accumulated, NextQueue
  <2> QED BY <1>7, <2>1
<1>9. \A j \in Phase : IsInjective(Packages(queue'[j]))
  BY <1>7, DistinctPackages
<1> HIDE DEF W, av, S
<1>10. ASSUME NEW j \in Phase, NEW y \in Range(queue'[j])
       PROVE  /\ y.pkg \in Known' /\ y.pkg \notin Range(done')
              /\ y.deps = Deps[y.pkg] \ Range(done')
              /\ availableAt'[y.pkg] = slot' - ((slot' - j) % E)
  <2> DEFINE i == (t - j) % E
             a == (slot - j) % E
  <2>1. i \in Int /\ a \in Int
    <3>1. t - j \in Int /\ slot - j \in Int
      BY <1>2 DEF Phase
    <3> QED BY <1>2, <3>1, DivMod
  <2>2. \/ i = 0 /\ \E x \in Range(W) : Edited(y, x, S)
        \/ i = a + (t - slot) /\ \E x \in Range(queue[j]) : Edited(y, x, S)
    BY <1>7, <1>10
  <2>3. slot' - ((slot' - j) % E) = t - i
    BY <1>6
  <2> HIDE DEF i
  <2>4. CASE i = 0 /\ \E x \in Range(W) : Edited(y, x, S)
    <3>1. PICK x \in Range(W) : Edited(y, x, S)
      BY <2>4
    <3>2. /\ y.pkg = x.pkg /\ y.pkg \notin S /\ y.deps = x.deps \ S
          /\ y.pkg \in Range(av) /\ x.deps = Deps[y.pkg] \ Range(done)
      BY <1>3, <3>1 DEF Edited
    <3>3. y.pkg \in Known' /\ y.pkg \notin Range(done') /\ y.deps = Deps[y.pkg] \ Range(done')
      BY <1>4, <1>5, <3>2
    <3>4. availableAt'[y.pkg] = t
      BY <1>4, <1>5, <1>6, <3>2
    <3>5. t = t - i
      BY <1>2, <2>4
    <3> QED BY <2>3, <3>3, <3>4, <3>5
  <2>5. CASE i = a + (t - slot) /\ \E x \in Range(queue[j]) : Edited(y, x, S)
    <3>1. PICK x \in Range(queue[j]) : Edited(y, x, S)
      BY <2>5
    <3>2. y.pkg = x.pkg /\ y.pkg \notin S /\ y.deps = x.deps \ S
      BY <3>1 DEF Edited
    <3>3. x.pkg \in InQueue /\ x.deps = Deps[x.pkg] \ Range(done) /\ availableAt[x.pkg] = slot - a
      BY <1>1, Zenon DEF QueueOK, InQueue
    <3> HIDE DEF a
    <3>4. y.pkg \in Known' /\ y.pkg \notin Range(done') /\ y.deps = Deps[y.pkg] \ Range(done')
      BY <1>4, <1>5, <3>2, <3>3
    <3>5. availableAt'[y.pkg] = slot - a
      BY <1>4, <1>5, <1>6, <3>2, <3>3
    <3>6. slot - a = t - i
      BY <1>2, <2>1, <2>5
    <3> QED BY <2>3, <3>4, <3>5, <3>6
  <2> QED BY <2>2, <2>4, <2>5
<1>11. QueueOK'
  BY <1>9, <1>10 DEF QueueOK
<1> QED BY <1>8, <1>11

LEMMA WaitStep ==
    ASSUME ReportInv, NEW t, NEW n, NEW rejected, NEW assured, NEW new,
           BlockStep(t, n, rejected, assured, new),
           NEW batch, Accumulated(Av(rejected, assured), t, batch)
    PROVE  WaitOK'
<1> DEFINE E == EpochTimeslots
           av == Av(rejected, assured)
<1>1. TypeOK /\ RecentOK /\ WaitOK
  BY DEF ReportInv
<1>2. E \in Nat \ {0} /\ t \in Nat /\ slot \in Nat /\ t > slot
  BY <1>1, ConstantFacts DEF TypeOK, BlockStep, Slot
<1>3. Range(av) \subseteq Known /\ Range(done') = Range(done) \cup Range(batch)
  BY BatchPlaces
<1>4. Known \subseteq Known'
  BY <1>1, KnownGrows
<1>5. slot' = t /\ availableAt' = [p \in Package |-> IF p \in Range(av) THEN t ELSE availableAt[p]]
  BY <1>1, BlockWrites
<1>6. \A p : /\ p \notin Range(batch)
             /\ p \in Range(av) \/ (p \in InQueue /\ t - availableAt[p] < E)
             => p \in InQueue'
  BY StaysInQueue
<1> HIDE DEF av
<1>7. ASSUME NEW p \in Package, availableAt'[p] # Unset, p \notin Range(done')
      PROVE  /\ p \in Known' /\ availableAt'[p] <= slot'
             /\ slot' - availableAt'[p] < E => p \in InQueue'
  <2>1. CASE p \in Range(av)
    <3>1. availableAt'[p] = t /\ p \in Known' /\ p \in InQueue'
      BY <1>3, <1>4, <1>5, <1>6, <1>7, <2>1
    <3> QED BY <1>2, <1>5, <3>1
  <2>2. CASE p \notin Range(av)
    <3> DEFINE w == availableAt[p]
    <3>1. availableAt'[p] = w /\ w # Unset /\ p \notin Range(done) /\ p \notin Range(batch)
      BY <1>3, <1>5, <1>7, <2>2
    <3>2. p \in Known /\ w <= slot /\ (slot - w < E => p \in InQueue)
      BY <1>1, <3>1, Zenon DEF WaitOK
    <3>3. w \in Nat
      BY <1>1, <3>1 DEF TypeOK
    <3>4. t - w < E => p \in InQueue'
      <4>1. t - w < E => slot - w < E
        BY <1>2, <3>3
      <4> QED BY <1>6, <3>1, <3>2, <4>1
    <3>5. w <= t
      BY <1>2, <3>2, <3>3
    <3> QED BY <1>4, <1>5, <3>1, <3>2, <3>4, <3>5
  <2> QED BY <2>1, <2>2
<1> QED BY <1>7 DEF WaitOK

LEMMA TypeStep ==
    ASSUME ReportInv, NEW t, NEW n, NEW rejected, NEW assured, NEW new,
           BlockStep(t, n, rejected, assured, new),
           NEW batch, Accumulated(Av(rejected, assured), t, batch)
    PROVE  TypeOK'
<1> DEFINE R == [pkg : Package, since : Slot]
<1>1. TypeOK /\ RecentOK
  BY DEF ReportInv
<1>2. /\ slot' = t /\ size' = n /\ height' = height + 1
      /\ assurances' = AfterGuarantees(new, CoresAt(t, n, rejected, assured), t)
      /\ availableAt' = [p \in Package |-> IF p \in Range(Av(rejected, assured)) THEN t
                                           ELSE availableAt[p]]
      /\ anchor' = [p \in Package |-> IF p \in new THEN height ELSE anchor[p]]
  BY <1>1, BlockWrites
<1>3. t \in Slot /\ t \in Nat /\ n \in ValidatorCounts /\ height \in Nat /\ new \subseteq Package
  BY <1>1, ConstantFacts DEF TypeOK, BlockStep, Slot
<1>4. slot' \in Slot /\ size' \in ValidatorCounts /\ height' \in Nat
  BY <1>2, <1>3
<1>5. assurances' \in [Core -> {NoReport} \cup R]
  <2>1. assurances' = [c \in Core |-> assurances'[c]]
    BY <1>2 DEF AfterGuarantees
  <2>2. ASSUME NEW c \in Core PROVE assurances'[c] \in {NoReport} \cup R
    <3>1. CASE assurances'[c] = NoReport
      BY <3>1
    <3>2. CASE assurances'[c] # NoReport
      <4>1. c \in Reports(assurances')
        BY <3>2 DEF Reports
      <4>2. \/ /\ assurances'[c].pkg \in new
               /\ assurances'[c] = [pkg |-> assurances'[c].pkg, since |-> t]
            \/ assurances'[c] = assurances[c]
        BY <4>1, CoreAfter
      <4>3. assurances[c] \in {NoReport} \cup R
        BY <1>1 DEF TypeOK
      <4> QED BY <1>3, <4>2, <4>3
    <3> QED BY <3>1, <3>2
  <2> QED BY <2>1, <2>2
<1>6. queue' \in [Phase -> Seq(Item)]
  BY QueueStep
<1>7. history' \in Seq(SUBSET Package) /\ Len(history') = EpochTimeslots
  BY HistoryStep
<1>8. recent' \in Seq([height : Nat, reported : SUBSET Package]) /\ Len(recent') \in 1 .. History
  BY <1>1, RecentStep
<1>9. anchor' \in [Package -> {Unset} \cup Nat] /\ availableAt' \in [Package -> {Unset} \cup Nat]
  BY <1>1, <1>2, <1>3 DEF TypeOK
<1>10. done' \in Seq(Package)
  BY BatchPlaces
<1> QED BY <1>4, <1>5, <1>6, <1>7, <1>8, <1>9, <1>10 DEF TypeOK

LEMMA StutterKeepsReports ==
    ASSUME ReportInv, UNCHANGED vars
    PROVE  ReportInv'
  BY DEF ReportInv, TypeOK, RecentOK, CoresOK, HistoryOK, QueueOK, WaitOK, DoneOK, vars, Known,
         ReportedAt, InQueue, Reports

LEMMA BlockKeepsReports ==
    ASSUME ReportInv, Next
    PROVE  ReportInv'
<1>1. PICK t, n, rejected, assured, new : BlockStep(t, n, rejected, assured, new)
  BY StepIsBlock DEF ReportInv
<1>2. PICK batch : Accumulated(Av(rejected, assured), t, batch)
  BY <1>1, StepAccumulates
<1>3. TypeOK' /\ CoresOK' /\ HistoryOK' /\ QueueOK' /\ WaitOK' /\ DoneOK'
  BY <1>1, <1>2, TypeStep, CoresStep, HistoryStep, QueueStep, WaitStep, DoneStep
<1>4. RecentOK'
  BY <1>1, RecentStep DEF ReportInv
<1> QED BY <1>3, <1>4 DEF ReportInv

LEMMA ReportsStart ==
    ASSUME Init
    PROVE  ReportInv
<1>1. /\ slot = 0 /\ height = 0 /\ size = 3 * CoreCount
      /\ assurances = [c \in Core |-> NoReport]
      /\ queue = [j \in Phase |-> <<>>]
      /\ history = [i \in 1 .. EpochTimeslots |-> {}]
      /\ recent = <<[height |-> 0, reported |-> {}]>>
      /\ anchor = [p \in Package |-> Unset]
      /\ availableAt = [p \in Package |-> Unset]
      /\ done = <<>>
  BY DEF Init
<1>2. Reports(assurances) = {} /\ Known = {} /\ Range(done) = {}
  BY <1>1 DEF Reports, Known, Range
<1>3. \A j \in Phase : queue[j] = <<>> /\ Range(queue[j]) = {}
  BY <1>1 DEF Range
<1>4. TypeOK
  <2>1. slot \in Slot /\ size \in ValidatorCounts /\ height \in Nat
    BY <1>1, ConstantFacts DEF Slot
  <2>2. assurances \in [Core -> {NoReport} \cup [pkg : Package, since : Slot]]
    BY <1>1
  <2>3. queue \in [Phase -> Seq(Item)]
    BY <1>1
  <2>4. history \in Seq(SUBSET Package) /\ Len(history) = EpochTimeslots
    BY <1>1, ConstantFacts
  <2>5. recent \in Seq([height : Nat, reported : SUBSET Package]) /\ Len(recent) \in 1 .. History
    BY <1>1, ConstantFacts
  <2>6. anchor \in [Package -> {Unset} \cup Nat] /\ availableAt \in [Package -> {Unset} \cup Nat]
    BY <1>1
  <2>7. done \in Seq(Package)
    BY <1>1
  <2> QED BY <2>1, <2>2, <2>3, <2>4, <2>5, <2>6, <2>7 DEF TypeOK
<1>5. RecentOK
  BY <1>1, <1>2 DEF RecentOK
<1>6. CoresOK
  BY <1>2 DEF CoresOK
<1>7. HistoryOK
  BY <1>1, <1>2 DEF HistoryOK
<1>8. QueueOK
  BY <1>3 DEF QueueOK, Packages, IsInjective
<1>9. WaitOK
  BY <1>1 DEF WaitOK
<1>10. DoneOK
  BY <1>1 DEF DoneOK
<1> QED BY <1>4, <1>5, <1>6, <1>7, <1>8, <1>9, <1>10 DEF ReportInv

-----------------------------------------------------------------------------
(* The theorems.                                                           *)

\* The state of the pipeline stays consistent over every chain of blocks, with any
\* slots skipped, cores cleared, validators changed and gas spent: recent_history, the
\* cores, accumulation_queue and accumulation_history agree on every package.
THEOREM ReportInvariant == Spec => []ReportInv
<1>1. Init => ReportInv
  BY ReportsStart
<1>2. ReportInv /\ [Next]_vars => ReportInv'
  BY BlockKeepsReports, StutterKeepsReports
<1> QED BY <1>1, <1>2, PTL DEF Spec

LEMMA ReportsInOnePlace ==
    ASSUME ReportInv
    PROVE  InOnePlace
<1>1. TypeOK /\ CoresOK /\ QueueOK
  BY DEF ReportInv
<1>2. \A c, d \in Reports(assurances) : c # d => assurances[c].pkg # assurances[d].pkg
  BY <1>1, CoresDiffer
<1>3. IsInjective(Packages(Buckets(queue, slot)))
  <2>1. slot \in Nat
    BY <1>1, ConstantFacts DEF TypeOK, Slot
  <2>2. Buckets(queue, slot) \in Seq(Item) /\ Distinct(Buckets(queue, slot))
    BY <1>1, <2>1, QueueIsFine, BucketsFacts
  <2> QED BY <2>2, DistinctPackages
<1>4. \A p \in OnCores(assurances) : p \notin InQueue /\ p \notin Range(done)
  BY <1>1, Zenon DEF CoresOK, OnCores
<1>5. \A p \in InQueue : p \notin Range(done)
  BY <1>1, Zenon DEF QueueOK, InQueue
<1>6. OnCores(assurances) \cap (InQueue \cup Range(done)) = {} /\ InQueue \cap Range(done) = {}
  BY <1>4, <1>5
<1> QED BY <1>2, <1>3, <1>6 DEF InOnePlace

\* A package is on a core, in the queue or accumulated, never in two places and never
\* twice in one: validate_guarantees admits no package of the pipeline, and edit_queue
\* and the missed slots drop what is done or too old.
THEOREM PackagesInOnePlace == Spec => []InOnePlace
  BY ReportInvariant, ReportsInOnePlace, PTL

LEMMA ReportsWaitForNothingDone ==
    ASSUME ReportInv
    PROVE  NoStaleDependency
<1>1. \A j \in Phase : \A x \in Range(queue[j]) : x.deps = Deps[x.pkg] \ Range(done)
  BY Zenon DEF ReportInv, QueueOK
<1> QED BY <1>1 DEF NoStaleDependency

\* A queued report never waits for a package that is accumulated, although
\* accumulation_history forgets: EPOCH_TIMESLOTS is at least HISTORY and
\* UNAVAILABLE_WORK_REPLACEMENT_PERIOD together, less one.
THEOREM NoWaitForDonePackages == Spec => []NoStaleDependency
  BY ReportInvariant, ReportsWaitForNothingDone, PTL

LEMMA ReportsWaitOneEpoch ==
    ASSUME ReportInv
    PROVE  WaitsOneEpoch
<1>1. TypeOK /\ QueueOK /\ WaitOK
  BY DEF ReportInv
<1>2. EpochTimeslots \in Nat \ {0} /\ slot \in Int
  BY <1>1, ConstantFacts DEF TypeOK, Slot
<1> SUFFICES ASSUME NEW p \in Package, availableAt[p] # Unset, p \notin Range(done)
             PROVE  p \in InQueue <=> slot - availableAt[p] < EpochTimeslots
  BY DEF WaitsOneEpoch
<1>3. slot - availableAt[p] < EpochTimeslots => p \in InQueue
  BY <1>1, Zenon DEF WaitOK
<1>4. ASSUME p \in InQueue PROVE slot - availableAt[p] < EpochTimeslots
  <2>1. PICK j \in Phase : \E x \in Range(queue[j]) : x.pkg = p
    BY <1>4 DEF InQueue
  <2> DEFINE a == (slot - j) % EpochTimeslots
  <2>2. availableAt[p] = slot - a
    BY <1>1, <2>1, Zenon DEF QueueOK
  <2>3. a \in 0 .. EpochTimeslots - 1
    <3>1. slot - j \in Int
      BY <1>2 DEF Phase
    <3> QED BY <1>2, <3>1, DivMod
  <2> HIDE DEF a
  <2> QED BY <1>2, <2>2, <2>3
<1> QED BY <1>3, <1>4

\* An available report is accumulated, or it keeps its place in accumulation_queue for
\* an epoch of slots and not longer, whatever slots have no block and whatever gas
\* other reports take.
THEOREM ReportsWaitAnEpoch == Spec => []WaitsOneEpoch
  BY ReportInvariant, ReportsWaitOneEpoch, PTL

\* What a block does to packages is a step of their life cycle.
LEMMA BlockIsLifecycleStep ==
    ASSUME ReportInv, Next
    PROVE  Lifecycle!Block
<1>1. PICK t, n, rejected, assured, new : BlockStep(t, n, rejected, assured, new)
  BY StepIsBlock DEF ReportInv
<1>2. PICK batch : Accumulated(Av(rejected, assured), t, batch)
  BY <1>1, StepAccumulates
<1> DEFINE av == Av(rejected, assured)
           S == Range(batch)
           C == OnCores(assurances)
<1>3. TypeOK /\ RecentOK /\ CoresOK
  BY DEF ReportInv
<1>4. ReportInv'
  BY BlockKeepsReports
<1>5. assured \subseteq Reports(assurances) /\ Range(av) = {assurances[c].pkg : c \in assured}
  BY <1>1, <1>3, AvailableFacts
<1>6. Range(av) \subseteq C
  BY <1>5 DEF OnCores
<1>7. /\ S \cap Range(done) = {} /\ Range(done') = Range(done) \cup S
      /\ S \subseteq Range(av) \cup InQueue
  BY <1>1, <1>2, BatchPlaces DEF Accumulated, BatchOK
<1>8. InQueue' \subseteq (InQueue \cup Range(av)) \ Range(done')
  BY <1>1, <1>2, QueueShrinks
<1>9. batch \in Seq(Package) /\ IsInjective(batch) /\ done' = done \o batch /\ done \in Seq(Package)
  BY <1>2, <1>3 DEF Accumulated, BatchOK, TypeOK
<1> HIDE DEF av
<1>10. Cardinality(S) = Len(batch)
  <2>1. /\ Len(batch) \in Nat /\ DOMAIN batch = 1 .. Len(batch)
    BY <1>9
  <2>2. batch \in Bijection(1 .. Len(batch), S)
    <3>1. batch \in [1 .. Len(batch) -> S]
      BY <1>9, <2>1 DEF Range
    <3>2. \A i, j \in 1 .. Len(batch) : batch[i] = batch[j] => i = j
      BY <1>9, <2>1 DEF IsInjective
    <3>3. \A x \in S : \E i \in 1 .. Len(batch) : batch[i] = x
      BY <2>1 DEF Range
    <3> QED BY <3>1, <3>2, <3>3 DEF Bijection, Injection, Surjection, IsInjective
  <2>3. ExistsBijection(1 .. Len(batch), S)
    BY <2>2 DEF ExistsBijection
  <2> QED BY <2>1, <2>3, FS_CountingElements
<1>11. Lifecycle!Done = Range(done) /\ Lifecycle!Done' = Range(done')
  BY DEF Lifecycle!Done, Range
<1>12. \E b \in SUBSET (C \cup InQueue) :
          /\ Lifecycle!Done' = Lifecycle!Done \cup b
          /\ Len(done') = Len(done) + Cardinality(b)
          /\ SubSeq(done', 1, Len(done)) = done
  <2>1. S \in SUBSET (C \cup InQueue)
    BY <1>6, <1>7
  <2>2. Len(done') = Len(done) + Len(batch)
    BY <1>9
  <2>3. SubSeq(done', 1, Len(done)) = done
    BY <1>9
  <2> HIDE DEF S, C
  <2> QED BY <1>7, <1>10, <1>11, <2>1, <2>2, <2>3
<1>13. \A i \in DOMAIN done' : Deps[done'[i]] \subseteq {done'[j] : j \in 1 .. i - 1}
  BY <1>4 DEF ReportInv, DoneOK
<1>14. InQueue' \subseteq (C \cup InQueue) \ Lifecycle!Done'
  BY <1>6, <1>8, <1>11
<1>15. C' \cap (Lifecycle!Done' \cup InQueue') = {}
  <2>1. CoresOK'
    BY <1>4 DEF ReportInv
  <2>2. \A p \in C' : p \notin InQueue' /\ p \notin Range(done')
    BY <2>1, Zenon DEF CoresOK, OnCores
  <2> QED BY <1>11, <2>2
<1>16. /\ new \cap Known = {} /\ Known' = Known \cup new
  BY <1>1, <1>3, KnownGrows
<1>17. \A c \in Reports(assurances') :
          assurances'[c].pkg \in new \/ (c \in Reports(assurances) /\ assurances'[c] = assurances[c])
  <2> SUFFICES ASSUME NEW c \in Reports(assurances')
               PROVE  \/ assurances'[c].pkg \in new
                      \/ c \in Reports(assurances) /\ assurances'[c] = assurances[c]
    OBVIOUS
  <2>1. \/ /\ assurances'[c].pkg \in new /\ CoreOf[assurances'[c].pkg] = c
           /\ assurances'[c] = [pkg |-> assurances'[c].pkg, since |-> t]
        \/ /\ assurances'[c] = assurances[c] /\ c \in Reports(assurances)
           /\ CoresAt(t, n, rejected, assured)[c] # NoReport
           /\ t < assurances[c].since + ReplacementPeriod
    BY <1>1, CoreAfter
  <2> QED BY <2>1
<1>18. C' \subseteq new \cup C
  BY <1>17 DEF OnCores
<1>19. C' \cap Known \subseteq C
  BY <1>16, <1>18
<1>20. Known' = Known \cup C'
  <2>1. C' \subseteq Known'
    <3>1. CoresOK'
      BY <1>4 DEF ReportInv
    <3> QED BY <3>1, Zenon DEF CoresOK, OnCores
  <2>2. new \subseteq C'
    <3> SUFFICES ASSUME NEW p \in new PROVE p \in C'
      OBVIOUS
    <3> DEFINE c == CoreOf[p]
               x == CHOOSE q \in new : CoreOf[q] = c
               cores == CoresAt(t, n, rejected, assured)
    <3>1. /\ assurances' = AfterGuarantees(new, cores, t) /\ ValidGuarantees(new, cores, n)
          /\ new \subseteq Package
      BY <1>1, <1>3, BlockWrites DEF BlockStep
    <3> HIDE DEF cores
    <3>2. c \in Core /\ x \in new /\ CoreOf[x] = c
      BY <3>1, ConstantFacts
    <3>3. x = p
      BY <3>1, <3>2 DEF ValidGuarantees
    <3>4. assurances'[c] = [pkg |-> x, since |-> t]
      BY <3>1, <3>2 DEF AfterGuarantees
    <3> HIDE DEF c, x
    <3>5. assurances'[c] # NoReport /\ assurances'[c].pkg = p
      BY <3>1, <3>3, <3>4, ConstantFacts DEF NoReport
    <3> QED BY <3>2, <3>5 DEF OnCores, Reports
  <2> QED BY <1>16, <2>1, <2>2
<1>21. \A b : Lifecycle!Cardinality(b) = Cardinality(b)
  BY DEF Lifecycle!Cardinality, Cardinality
<1> HIDE DEF S
<1> QED BY <1>21, <1>12, <1>13, <1>14, <1>15, <1>19, <1>20 DEF Lifecycle!Block, Known

\* The pipeline implements the life cycle of packages: each is reported at most once,
\* never returns after it lost its core or its place in the queue, and is accumulated
\* at most once, after everything it depends on.
THEOREM ImplementsReportLifecycle == Spec => RefinesReportLifecycle
<1>1. Init => Lifecycle!Init
  <2> SUFFICES ASSUME Init PROVE Lifecycle!Init
    OBVIOUS
  <2>1. Reports(assurances) = {} /\ {p \in Package : anchor[p] # Unset} = {} /\ done = <<>>
    BY DEF Init, Reports
  <2>2. InQueue = {}
    BY DEF Init, InQueue, Range
  <2> QED BY <2>1, <2>2 DEF Lifecycle!Init, OnCores
<1>2. ReportInv /\ [Next]_vars =>
        [Lifecycle!Block]_<<{p \in Package : anchor[p] # Unset}, OnCores(assurances), InQueue, done>>
  <2>1. ASSUME ReportInv, Next PROVE Lifecycle!Block
    BY <2>1, BlockIsLifecycleStep
  <2>2. ASSUME UNCHANGED vars
        PROVE  UNCHANGED <<{p \in Package : anchor[p] # Unset}, OnCores(assurances), InQueue, done>>
    BY <2>2 DEF vars, OnCores, InQueue, Reports
  <2> QED BY <2>1, <2>2
<1> QED BY <1>1, <1>2, ReportInvariant, PTL DEF Spec, RefinesReportLifecycle, Lifecycle!Spec
=============================================================================
