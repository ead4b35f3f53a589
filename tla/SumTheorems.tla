----------------------------- MODULE SumTheorems -----------------------------
(***************************************************************************)
(* Sums over finite sets.  Of SumFunctionOnSet the provers know only that  *)
(* it is a solution of its recursion, if there is one; that there is one,  *)
(* and only one, is shown by a smallest set on which it fails.             *)
(***************************************************************************)
EXTENDS Integers, FiniteSets, Functions, FiniteSetTheorems, NaturalsInduction,
        WellFoundedInduction, TLAPS

\* A nonempty set of naturals has a least element.
LEMMA LeastNatural ==
    ASSUME NEW S \in SUBSET Nat, S # {}
    PROVE  \E m \in S : \A n \in S : m <= n
<1> DEFINE R == OpToRel(<, Nat)
<1>1. IsWellFoundedOn(R, Nat)
  BY NatLessThanWellFounded
<1>2. \E x \in S : \A y \in S : ~(<<y, x>> \in R)
  <2> HIDE DEF R
  <2> QED BY <1>1, WFMin
<1>3. \A x, y \in S : y < x => <<y, x>> \in R
  BY DEF OpToRel
<1> HIDE DEF R
<1>4. \A x, y \in S : ~(y < x) => x <= y
  OBVIOUS
<1> QED BY <1>2, <1>3, <1>4

\* The element that a sum takes first, and the recursion it follows.
First(S) == CHOOSE x \in S : TRUE
Totals(t, f, S) ==
    t = [s \in SUBSET S |-> IF s = {} THEN 0 ELSE f[First(s)] + t[s \ {First(s)}]]

LEMMA FirstIn == ASSUME NEW S, S # {} PROVE First(S) \in S
  BY DEF First

\* The recursion has one solution at most: take the smallest set on which two differ.
LEMMA TotalsUnique ==
    ASSUME NEW f, NEW S, IsFiniteSet(S), NEW t, NEW u, Totals(t, f, S), Totals(u, f, S)
    PROVE  t = u
<1>1. /\ DOMAIN t = SUBSET S /\ DOMAIN u = SUBSET S
      /\ t = [s \in SUBSET S |-> t[s]] /\ u = [s \in SUBSET S |-> u[s]]
      /\ \A s \in SUBSET S : t[s] = IF s = {} THEN 0 ELSE f[First(s)] + t[s \ {First(s)}]
      /\ \A s \in SUBSET S : u[s] = IF s = {} THEN 0 ELSE f[First(s)] + u[s \ {First(s)}]
  BY DEF Totals
<1> DEFINE Bad == {n \in Nat : \E s \in SUBSET S : Cardinality(s) = n /\ t[s] # u[s]}
<1>2. \A s \in SUBSET S : IsFiniteSet(s) /\ Cardinality(s) \in Nat
  BY FS_Subset, FS_CardinalityType
<1>3. Bad = {}
  <2> SUFFICES ASSUME Bad # {} PROVE FALSE
    OBVIOUS
  <2>1. PICK n \in Bad : \A m \in Bad : n <= m
    BY LeastNatural
  <2>2. PICK s \in SUBSET S : Cardinality(s) = n /\ t[s] # u[s]
    BY <2>1
  <2>3. s # {}
    BY <1>1, <2>2
  <2> DEFINE r == s \ {First(s)}
  <2>4. r \in SUBSET S /\ Cardinality(r) = n - 1 /\ n - 1 \in Nat
    <3>1. First(s) \in s /\ IsFiniteSet(s) /\ n \in Nat
      BY <1>2, <2>1, <2>3, FirstIn
    <3>2. IsFiniteSet(r) /\ Cardinality(r) = n - 1
      BY <2>2, <3>1, FS_RemoveElement
    <3>3. Cardinality(r) \in Nat
      BY <3>2, FS_CardinalityType
    <3> QED BY <3>2, <3>3
  <2>5. t[r] # u[r]
    BY <1>1, <2>2, <2>3
  <2>6. n - 1 \in Bad
    BY <2>4, <2>5
  <2> QED BY <2>1, <2>4, <2>6
<1>4. \A s \in SUBSET S : t[s] = u[s]
  BY <1>2, <1>3
<1> QED BY <1>1, <1>4, Zenon

\* The sum is what its recursion says, where that has a solution.
LEMMA SumIsTotal ==
    ASSUME NEW f, NEW S, IsFiniteSet(S), NEW t, Totals(t, f, S)
    PROVE  SumFunctionOnSet(f, S) = t[S]
<1>1. \A u : Totals(u, f, S) => u = t
  BY TotalsUnique
<1> QED BY <1>1 DEF SumFunctionOnSet, FoldFunctionOnSet, MapThenFoldSet, Totals, First

\* One step of a sum: the smallest set for which it fails would make the function of
\* the sums of its subsets a solution.
Stepwise(f, S) ==
    SumFunctionOnSet(f, S) = IF S = {} THEN 0
                             ELSE f[First(S)] + SumFunctionOnSet(f, S \ {First(S)})
LEMMA SumStep ==
    ASSUME NEW f, NEW S, IsFiniteSet(S)
    PROVE  Stepwise(f, S)
<1> DEFINE Bad == {n \in Nat : \E s : IsFiniteSet(s) /\ Cardinality(s) = n /\ ~Stepwise(f, s)}
<1>1. Bad = {}
  <2> SUFFICES ASSUME Bad # {} PROVE FALSE
    OBVIOUS
  <2>1. PICK n \in Bad : \A m \in Bad : n <= m
    BY LeastNatural
  <2>2. PICK s : IsFiniteSet(s) /\ Cardinality(s) = n /\ ~Stepwise(f, s)
    BY <2>1
  <2> DEFINE rest(r) == r \ {First(r)}
             t == [r \in SUBSET s |-> IF r = {} THEN 0
                                      ELSE f[First(r)] + SumFunctionOnSet(f, rest(r))]
  <2>3. ASSUME NEW r \in SUBSET s, r # {}
        PROVE  t[rest(r)] = SumFunctionOnSet(f, rest(r))
    <3>1. First(r) \in r /\ IsFiniteSet(r) /\ Cardinality(r) <= n /\ n \in Nat
      BY <2>1, <2>2, <2>3, FirstIn, FS_Subset
    <3>2. /\ IsFiniteSet(rest(r)) /\ Cardinality(rest(r)) = Cardinality(r) - 1
          /\ Cardinality(rest(r)) \in Nat
      BY <3>1, FS_RemoveElement, FS_CardinalityType
    <3>3. Cardinality(rest(r)) < n
      BY <3>1, <3>2, FS_CardinalityType
    <3>4. Stepwise(f, rest(r))
      BY <2>1, <3>2, <3>3
    <3>5. rest(r) \in SUBSET s
      OBVIOUS
    <3> QED BY <3>4, <3>5 DEF Stepwise
  <2>4. Totals(t, f, s)
    BY <2>3, Zenon DEF Totals
  <2>5. SumFunctionOnSet(f, s) = t[s]
    <3> HIDE DEF t
    <3> QED BY <2>2, <2>4, SumIsTotal
  <2>6. Stepwise(f, s)
    BY <2>5 DEF Stepwise
  <2> QED BY <2>2, <2>6
<1>2. Cardinality(S) \in Nat
  BY FS_CardinalityType
<1> QED BY <1>1, <1>2

\* A sum depends on the values of its elements only.
LEMMA SumSame ==
    ASSUME NEW f, NEW g, NEW S, IsFiniteSet(S), \A x \in S : f[x] = g[x]
    PROVE  SumFunctionOnSet(f, S) = SumFunctionOnSet(g, S)
<1> DEFINE Bad == {n \in Nat : \E s \in SUBSET S :
                      /\ Cardinality(s) = n
                      /\ SumFunctionOnSet(f, s) # SumFunctionOnSet(g, s)}
<1>1. \A s \in SUBSET S : IsFiniteSet(s) /\ Cardinality(s) \in Nat
  BY FS_Subset, FS_CardinalityType
<1>2. Bad = {}
  <2> SUFFICES ASSUME Bad # {} PROVE FALSE
    OBVIOUS
  <2>1. PICK n \in Bad : \A m \in Bad : n <= m
    BY LeastNatural
  <2>2. PICK s \in SUBSET S : Cardinality(s) = n /\ SumFunctionOnSet(f, s) # SumFunctionOnSet(g, s)
    BY <2>1
  <2>3. IsFiniteSet(s) /\ Stepwise(f, s) /\ Stepwise(g, s)
    BY <1>1, SumStep
  <2>4. s # {}
    BY <2>2, <2>3 DEF Stepwise
  <2> DEFINE r == s \ {First(s)}
  <2>5. First(s) \in s
    BY <2>4, FirstIn
  <2>6. r \in SUBSET S /\ Cardinality(r) = n - 1
    BY <2>2, <2>3, <2>5, FS_RemoveElement
  <2>7. SumFunctionOnSet(f, r) # SumFunctionOnSet(g, r)
    BY <2>2, <2>3, <2>4, <2>5 DEF Stepwise
  <2>8. n - 1 \in Nat
    BY <1>1, <2>6
  <2> QED BY <2>1, <2>6, <2>7, <2>8
<1>3. S \in SUBSET S /\ Cardinality(S) \in Nat
  BY <1>1
<1> QED BY <1>2, <1>3

\* Sums of integers are integers, and of one sign if all of these are.
LEMMA SumType ==
    ASSUME NEW f, NEW S, IsFiniteSet(S), \A x \in S : f[x] \in Int
    PROVE  /\ SumFunctionOnSet(f, S) \in Int
           /\ (\A x \in S : f[x] >= 0) => SumFunctionOnSet(f, S) >= 0
           /\ (\A x \in S : f[x] <= 0) => SumFunctionOnSet(f, S) <= 0
<1> DEFINE Fine(s) == /\ SumFunctionOnSet(f, s) \in Int
                      /\ (\A x \in S : f[x] >= 0) => SumFunctionOnSet(f, s) >= 0
                      /\ (\A x \in S : f[x] <= 0) => SumFunctionOnSet(f, s) <= 0
           Bad == {n \in Nat : \E s \in SUBSET S : Cardinality(s) = n /\ ~Fine(s)}
<1>1. \A s \in SUBSET S : IsFiniteSet(s) /\ Cardinality(s) \in Nat
  BY FS_Subset, FS_CardinalityType
<1>2. Bad = {}
  <2> SUFFICES ASSUME Bad # {} PROVE FALSE
    OBVIOUS
  <2>1. PICK n \in Bad : \A m \in Bad : n <= m
    BY LeastNatural
  <2>2. PICK s \in SUBSET S : Cardinality(s) = n /\ ~Fine(s)
    BY <2>1
  <2>3. IsFiniteSet(s) /\ Stepwise(f, s)
    BY <1>1, SumStep
  <2>4. s # {}
    BY <2>2, <2>3 DEF Stepwise
  <2> DEFINE r == s \ {First(s)}
  <2>5. First(s) \in s
    BY <2>4, FirstIn
  <2>6. r \in SUBSET S /\ Cardinality(r) = n - 1
    BY <2>2, <2>3, <2>5, FS_RemoveElement
  <2>7. ~Fine(r)
    <3>1. SumFunctionOnSet(f, s) = f[First(s)] + SumFunctionOnSet(f, r)
      BY <2>3, <2>4 DEF Stepwise
    <3>2. First(s) \in S
      BY <2>5
    <3> QED BY <2>2, <3>1, <3>2
  <2>8. n - 1 \in Nat
    BY <1>1, <2>6
  <2>9. n - 1 \in Bad
    BY <2>6, <2>7, <2>8
  <2> QED BY <2>1, <2>8, <2>9
<1>3. S \in SUBSET S /\ Cardinality(S) \in Nat
  BY <1>1
<1>4. Fine(S)
  BY <1>2, <1>3
<1> QED BY <1>4

\* Any element may be taken first.
LEMMA SumSplit ==
    ASSUME NEW f, NEW S, IsFiniteSet(S), \A x \in S : f[x] \in Int, NEW a \in S
    PROVE  SumFunctionOnSet(f, S) = f[a] + SumFunctionOnSet(f, S \ {a})
<1> DEFINE Sum(s) == SumFunctionOnSet(f, s)
           Bad == {n \in Nat : \E s \in SUBSET S :
                      Cardinality(s) = n /\ \E x \in s : Sum(s) # f[x] + Sum(s \ {x})}
<1>1. \A s \in SUBSET S : IsFiniteSet(s) /\ Cardinality(s) \in Nat /\ Sum(s) \in Int
  <2> TAKE s \in SUBSET S
  <2>1. IsFiniteSet(s) /\ Cardinality(s) \in Nat
    BY FS_Subset, FS_CardinalityType
  <2>2. \A x \in s : f[x] \in Int
    OBVIOUS
  <2>3. Sum(s) \in Int
    BY <2>1, <2>2, SumType
  <2> QED BY <2>1, <2>3
<1>2. Bad = {}
  <2> SUFFICES ASSUME Bad # {} PROVE FALSE
    OBVIOUS
  <2>1. PICK n \in Bad : \A m \in Bad : n <= m
    BY LeastNatural
  <2>2. PICK s \in SUBSET S : Cardinality(s) = n /\ \E x \in s : Sum(s) # f[x] + Sum(s \ {x})
    BY <2>1
  <2>3. PICK x \in s : Sum(s) # f[x] + Sum(s \ {x})
    BY <2>2
  <2> DEFINE c == First(s)
             both == s \ {c, x}
  <2>4. IsFiniteSet(s) /\ Stepwise(f, s) /\ c \in s
    BY <1>1, <2>3, SumStep, FirstIn
  <2>5. Sum(s) = f[c] + Sum(s \ {c}) /\ x # c
    BY <2>3, <2>4 DEF Stepwise
  <2>6. \A y \in s : s \ {y} \in SUBSET S /\ Cardinality(s \ {y}) = n - 1 /\ n - 1 \in Nat
    <3> TAKE y \in s
    <3>1. Cardinality(s \ {y}) = n - 1
      BY <2>2, <2>4, FS_RemoveElement
    <3>2. s \ {y} \in SUBSET S
      OBVIOUS
    <3> QED BY <1>1, <3>1, <3>2
  <2>7. \A r \in SUBSET S : Cardinality(r) = n - 1 =>
           \A y \in r : Sum(r) = f[y] + Sum(r \ {y})
    <3>0. n \in Nat
      BY <2>1
    <3>1. n - 1 \in Nat /\ ~(n <= n - 1)
      BY <2>3, <2>6, <3>0
    <3>2. n - 1 \notin Bad
      BY <2>1, <3>1
    <3> QED BY <3>1, <3>2
  <2> HIDE DEF Sum, Bad
  <2>8. Sum(s \ {c}) = f[x] + Sum(both)
    <3>1. x \in s \ {c} /\ (s \ {c}) \ {x} = both
      BY <2>5
    <3>2. s \ {c} \in SUBSET S /\ Cardinality(s \ {c}) = n - 1
      BY <2>4, <2>6
    <3> QED BY <2>7, <3>1, <3>2
  <2>9. Sum(s \ {x}) = f[c] + Sum(both)
    <3>1. c \in s \ {x} /\ (s \ {x}) \ {c} = both
      BY <2>4, <2>5
    <3>2. s \ {x} \in SUBSET S /\ Cardinality(s \ {x}) = n - 1
      BY <2>3, <2>6
    <3> QED BY <2>7, <3>1, <3>2
  <2>10. f[x] \in Int /\ f[c] \in Int /\ Sum(both) \in Int
    BY <1>1, <2>4
  <2> HIDE DEF c, both
  <2> QED BY <2>3, <2>5, <2>8, <2>9, <2>10
<1>3. S \in SUBSET S /\ Cardinality(S) \in Nat
  BY <1>1
<1>4. Sum(S) = f[a] + Sum(S \ {a})
  BY <1>2, <1>3
<1> QED BY <1>4

\* A sum over all elements, without and with one of them.
LEMMA SumWithout ==
    ASSUME NEW f, IsFiniteSet(DOMAIN f), \A x \in DOMAIN f : f[x] \in Int, NEW a
    PROVE  /\ SumFunction(f) = (IF a \in DOMAIN f THEN f[a] ELSE 0)
                               + SumFunctionOnSet(f, DOMAIN f \ {a})
           /\ SumFunctionOnSet(f, DOMAIN f \ {a}) \in Int /\ SumFunction(f) \in Int
<1> DEFINE S == DOMAIN f
<1>1. IsFiniteSet(S \ {a})
  BY FS_RemoveElement
<1>2. SumFunctionOnSet(f, S \ {a}) \in Int /\ SumFunctionOnSet(f, S) \in Int
  BY <1>1, SumType
<1>3. CASE a \in S
  BY <1>2, <1>3, SumSplit DEF SumFunction
<1>4. CASE a \notin S
  <2>1. S \ {a} = S
    BY <1>4
  <2> QED BY <1>2, <1>4, <2>1 DEF SumFunction
<1> QED BY <1>2, <1>3, <1>4 DEF SumFunction

LEMMA SumOfZeros ==
    ASSUME NEW f, IsFiniteSet(DOMAIN f), \A x \in DOMAIN f : f[x] = 0
    PROVE  SumFunction(f) = 0
<1>1. /\ \A x \in DOMAIN f : f[x] \in Int
      /\ \A x \in DOMAIN f : f[x] >= 0
      /\ \A x \in DOMAIN f : f[x] <= 0
  OBVIOUS
<1>2. /\ SumFunctionOnSet(f, DOMAIN f) \in Int
      /\ SumFunctionOnSet(f, DOMAIN f) >= 0 /\ SumFunctionOnSet(f, DOMAIN f) <= 0
  BY <1>1, SumType
<1> QED BY <1>2 DEF SumFunction

\* One value of a function changes: so does the sum, and by as much.
LEMMA SumChange ==
    ASSUME NEW f, IsFiniteSet(DOMAIN f), \A x \in DOMAIN f : f[x] \in Int,
           NEW g, DOMAIN g = DOMAIN f, NEW a \in DOMAIN f, NEW d \in Int,
           \A x \in DOMAIN f : g[x] = IF x = a THEN f[x] + d ELSE f[x]
    PROVE  SumFunction(g) = SumFunction(f) + d
<1> DEFINE S == DOMAIN f
           rest == SumFunctionOnSet(f, S \ {a})
<1>1. SumFunction(f) = f[a] + rest /\ rest \in Int
  BY SumWithout
<1>2. \A x \in DOMAIN g : g[x] \in Int
  OBVIOUS
<1>3. SumFunction(g) = g[a] + SumFunctionOnSet(g, S \ {a})
  BY <1>2, SumWithout
<1>4. SumFunctionOnSet(g, S \ {a}) = rest
  <2>1. IsFiniteSet(S \ {a})
    BY FS_RemoveElement
  <2>2. \A x \in S \ {a} : g[x] = f[x]
    OBVIOUS
  <2> QED BY <2>1, <2>2, SumSame
<1>5. g[a] = f[a] + d /\ f[a] \in Int
  OBVIOUS
<1> HIDE DEF rest
<1> QED BY <1>1, <1>3, <1>4, <1>5
=============================================================================
