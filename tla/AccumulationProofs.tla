-------------------------- MODULE AccumulationProofs --------------------------
(***************************************************************************)
(* Service accounts stay sound through accumulation, whatever the services *)
(* do, for any number of them: footprints are exact, balances cover them,  *)
(* and nothing is left behind for a service that is gone.                  *)
(***************************************************************************)
EXTENDS Accumulation, SumTheorems

-----------------------------------------------------------------------------
(* Keys, and functions from keys to values with changes applied.           *)

\* Keys of different kinds, services or items differ.
LEMMA KeysDiffer ==
    ASSUME NEW s, NEW t
    PROVE  /\ Acct(s) = Acct(t) <=> s = t
           /\ \A k, j : Stored(s, k) = Stored(t, j) <=> s = t /\ k = j
           /\ \A k, j : Blob(s, k) = Blob(t, j) <=> s = t /\ k = j
           /\ \A k, j : Avail(s, k) = Avail(t, j) <=> s = t /\ k = j
           /\ \A k : Acct(s) # Stored(t, k) /\ Acct(s) # Blob(t, k) /\ Acct(s) # Avail(t, k)
           /\ \A k, j : Stored(s, k) # Blob(t, j) /\ Stored(s, k) # Avail(t, j)
           /\ \A k, j : Blob(s, k) # Avail(t, j)
<1>1. \A k : /\ Acct(s)[1] = "acct" /\ Stored(s, k)[1] = "item"
             /\ Blob(s, k)[1] = "blob" /\ Avail(s, k)[1] = "avail"
             /\ Acct(s)[2] = s /\ Stored(s, k)[2] = s /\ Blob(s, k)[2] = s /\ Avail(s, k)[2] = s
             /\ Stored(s, k)[3] = k /\ Blob(s, k)[3] = k /\ Avail(s, k)[3] = k
  BY DEF Acct, Stored, Blob, Avail
<1>2. \A k : /\ Acct(t)[1] = "acct" /\ Stored(t, k)[1] = "item"
             /\ Blob(t, k)[1] = "blob" /\ Avail(t, k)[1] = "avail"
             /\ Acct(t)[2] = t /\ Stored(t, k)[2] = t /\ Blob(t, k)[2] = t /\ Avail(t, k)[2] = t
             /\ Stored(t, k)[3] = k /\ Blob(t, k)[3] = k /\ Avail(t, k)[3] = k
  BY DEF Acct, Stored, Blob, Avail
<1>3. s = t => /\ Acct(s) = Acct(t)
               /\ \A k, j : k = j => /\ Stored(s, k) = Stored(t, j)
                                     /\ Blob(s, k) = Blob(t, j) /\ Avail(s, k) = Avail(t, j)
  OBVIOUS
<1> QED BY <1>1, <1>2, <1>3

\* What is known of requests.
LEMMA RequestsTyped ==
    /\ IsFiniteSet(Request)
    /\ \A r \in Request : r[1] \in Hash /\ r[2] \in Nat
    /\ \A h \in Hash : Answerable(h) \in Request /\ Answerable(h)[1] = h
<1>1. IsFiniteSet(Request)
  BY ServiceAssumption, FS_Product DEF Request
<1> QED BY <1>1, ServiceAssumption DEF Request, Answerable

\* Keys of s that are the request i or the preimage j of q.
LEMMA PreimageKeys ==
    ASSUME NEW s, NEW q, NEW i, NEW j
    PROVE  /\ Acct(s) # Avail(q, i) /\ Acct(s) # Blob(q, j)
           /\ \A k \in Item : Stored(s, k) # Avail(q, i) /\ Stored(s, k) # Blob(q, j)
           /\ \A r \in Request : /\ Avail(s, r) # Blob(q, j)
                                 /\ Avail(s, r) = Avail(q, i) <=> s = q /\ r = i
           /\ \A h \in Hash : /\ Blob(s, h) # Avail(q, i)
                              /\ Blob(s, h) = Blob(q, j) <=> s = q /\ h = j
<1>1. /\ Acct(s)[1] = "acct"
      /\ \A k : /\ Stored(s, k)[1] = "item" /\ Blob(s, k)[1] = "blob" /\ Avail(s, k)[1] = "avail"
               /\ Blob(s, k)[2] = s /\ Avail(s, k)[2] = s
               /\ Blob(s, k)[3] = k /\ Avail(s, k)[3] = k
  BY DEF Acct, Stored, Blob, Avail
<1>2. /\ Blob(q, j)[1] = "blob" /\ Avail(q, i)[1] = "avail"
      /\ Blob(q, j)[2] = q /\ Avail(q, i)[2] = q
      /\ Blob(q, j)[3] = j /\ Avail(q, i)[3] = i
  BY DEF Blob, Avail
<1> QED BY <1>1, <1>2

LEMMA Owners ==
    ASSUME NEW s
    PROVE  /\ Owner(Acct(s)) = s
           /\ \A k : Owner(Stored(s, k)) = s /\ Owner(Blob(s, k)) = s /\ Owner(Avail(s, k)) = s
  BY DEF Owner, Acct, Stored, Blob, Avail

LEMMA KeysTyped ==
    ASSUME NEW s \in Service
    PROVE  /\ Acct(s) \in Key
           /\ \A k \in Item : Stored(s, k) \in Key
           /\ \A h \in Hash : Blob(s, h) \in Key
           /\ \A r \in Request : Avail(s, r) \in Key
  BY DEF Key

LEMMA KeyKinds ==
    ASSUME NEW key \in Key
    PROVE  \E s \in Service :
              /\ Owner(key) = s
              /\ \/ key = Acct(s) \/ \E k \in Item : key = Stored(s, k)
                 \/ \E h \in Hash : key = Blob(s, h)
                 \/ \E r \in Request : key = Avail(s, r)
<1>1. CASE \E s \in Service : key = Acct(s)
  BY <1>1, Owners
<1>2. CASE \E s \in Service, k \in Item : key = Stored(s, k)
  <2>1. PICK s \in Service, k \in Item : key = Stored(s, k)
    BY <1>2
  <2> QED BY <2>1, Owners
<1>3. CASE \E s \in Service, h \in Hash : key = Blob(s, h)
  <2>1. PICK s \in Service, h \in Hash : key = Blob(s, h)
    BY <1>3
  <2> QED BY <2>1, Owners
<1>4. CASE \E s \in Service, r \in Request : key = Avail(s, r)
  <2>1. PICK s \in Service, r \in Request : key = Avail(s, r)
    BY <1>4
  <2> QED BY <2>1, Owners
<1> QED BY <1>1, <1>2, <1>3, <1>4 DEF Key

LEMMA PatchedAt ==
    ASSUME NEW f, NEW g
    PROVE  /\ DOMAIN Patched(f, g) = DOMAIN f \cup DOMAIN g
           /\ \A x \in DOMAIN f : Patched(f, g)[x] = f[x]
           /\ \A x \in DOMAIN g \ DOMAIN f : Patched(f, g)[x] = g[x]
  BY DEF Patched

LEMMA PatchedTwice ==
    ASSUME NEW f, NEW g, NEW h
    PROVE  Patched(Patched(f, g), h) = Patched(f, Patched(g, h))
<1> DEFINE a == Patched(Patched(f, g), h)
           b == Patched(f, Patched(g, h))
           D == (DOMAIN f \cup DOMAIN g) \cup DOMAIN h
<1>1. /\ DOMAIN Patched(f, g) = DOMAIN f \cup DOMAIN g
      /\ DOMAIN Patched(g, h) = DOMAIN g \cup DOMAIN h
  BY PatchedAt
<1>2. a = [x \in D |-> IF x \in DOMAIN f \cup DOMAIN g THEN Patched(f, g)[x] ELSE h[x]]
  BY <1>1 DEF Patched
<1>3. b = [x \in D |-> IF x \in DOMAIN f THEN f[x] ELSE Patched(g, h)[x]]
  <2>1. DOMAIN f \cup (DOMAIN g \cup DOMAIN h) = D
    OBVIOUS
  <2> QED BY <1>1, <2>1 DEF Patched
<1>4. \A x \in D : (IF x \in DOMAIN f \cup DOMAIN g THEN Patched(f, g)[x] ELSE h[x])
                     = IF x \in DOMAIN f THEN f[x] ELSE Patched(g, h)[x]
  <2>1. \A x \in DOMAIN f \cup DOMAIN g :
           Patched(f, g)[x] = IF x \in DOMAIN f THEN f[x] ELSE g[x]
    BY DEF Patched
  <2>2. \A x \in DOMAIN g \cup DOMAIN h :
           Patched(g, h)[x] = IF x \in DOMAIN g THEN g[x] ELSE h[x]
    BY DEF Patched
  <2> QED BY <2>1, <2>2
<1> HIDE DEF a, b, D
<1>5. a = b
  BY <1>2, <1>3, <1>4
<1> QED BY <1>5 DEF a, b

LEMMA OnlyAt ==
    ASSUME NEW a, NEW b
    PROVE  DOMAIN Only(a, b) = {a} /\ Only(a, b)[a] = b
  BY DEF Only

-----------------------------------------------------------------------------
(* Footprints.                                                             *)

ItemTotal(v, s) == SumFunction([k \in Items(v, s) |-> ItemOctets(v[Stored(s, k)])])
RequestTotal(v, s) == SumFunction([r \in Requests(v, s) |-> PreimageOctets(r[2])])

\* u has the storage items, or the requests and preimages, of v.
SameItems(u, v, s) == \A k \in Item : u[Stored(s, k)] = v[Stored(s, k)]
SameRequests(u, v, s) ==
    /\ \A r \in Request : u[Avail(s, r)] = v[Avail(s, r)]
    /\ \A h \in Hash : u[Blob(s, h)] = v[Blob(s, h)]

ItemsTyped(v, s) == \A k \in Item : v[Stored(s, k)] \in Nat \cup {Missing}

LEMMA ItemFacts ==
    ASSUME NEW v, NEW s, ItemsTyped(v, s)
    PROVE  /\ IsFiniteSet(Items(v, s)) /\ Cardinality(Items(v, s)) \in Nat
           /\ \A k \in Items(v, s) : ItemOctets(v[Stored(s, k)]) \in Nat
           /\ ItemTotal(v, s) \in Nat
<1> DEFINE f == [k \in Items(v, s) |-> ItemOctets(v[Stored(s, k)])]
<1>1. IsFiniteSet(Items(v, s)) /\ Cardinality(Items(v, s)) \in Nat
  BY ServiceAssumption, FS_Subset, FS_CardinalityType DEF Items
<1>2. \A k \in Items(v, s) : ItemOctets(v[Stored(s, k)]) \in Nat
  BY DEF Items, ItemsTyped, ItemOctets
<1>3. SumFunction(f) \in Int /\ SumFunction(f) >= 0
  <2>1. DOMAIN f = Items(v, s) /\ \A k \in DOMAIN f : f[k] \in Int /\ f[k] >= 0
    BY <1>2
  <2> HIDE DEF f
  <2> QED BY <1>1, <2>1, SumType DEF SumFunction
<1> QED BY <1>1, <1>2, <1>3 DEF ItemTotal

LEMMA RequestFacts ==
    ASSUME NEW v, NEW s
    PROVE  /\ IsFiniteSet(Requests(v, s)) /\ Cardinality(Requests(v, s)) \in Nat
           /\ \A r \in Request : PreimageOctets(r[2]) \in Nat
           /\ RequestTotal(v, s) \in Nat
<1> DEFINE f == [r \in Requests(v, s) |-> PreimageOctets(r[2])]
<1>1. IsFiniteSet(Requests(v, s)) /\ Cardinality(Requests(v, s)) \in Nat
  BY RequestsTyped, FS_Subset, FS_CardinalityType DEF Requests
<1>2. \A r \in Request : PreimageOctets(r[2]) \in Nat
  BY RequestsTyped DEF PreimageOctets
<1>3. SumFunction(f) \in Int /\ SumFunction(f) >= 0
  <2>1. DOMAIN f = Requests(v, s) /\ \A r \in DOMAIN f : f[r] \in Int /\ f[r] >= 0
    BY <1>2 DEF Requests
  <2> HIDE DEF f
  <2> QED BY <1>1, <2>1, SumType DEF SumFunction
<1> QED BY <1>1, <1>2, <1>3 DEF RequestTotal

LEMMA SameItemsFootprint ==
    ASSUME NEW u, NEW v, NEW s, SameItems(u, v, s)
    PROVE  Items(u, s) = Items(v, s) /\ ItemTotal(u, s) = ItemTotal(v, s)
<1>1. Items(u, s) = Items(v, s)
  BY DEF SameItems, Items
<1>2. [k \in Items(u, s) |-> ItemOctets(u[Stored(s, k)])]
        = [k \in Items(v, s) |-> ItemOctets(v[Stored(s, k)])]
  BY <1>1 DEF SameItems, Items
<1> QED BY <1>1, <1>2 DEF ItemTotal

LEMMA SameRequestsFootprint ==
    ASSUME NEW u, NEW v, NEW s, Requests(u, s) = Requests(v, s)
    PROVE  RequestTotal(u, s) = RequestTotal(v, s)
  BY DEF RequestTotal

\* What item k adds to a footprint.
ItemShare(v, s, k) == IF v[Stored(s, k)] = Missing THEN 0 ELSE ItemOctets(v[Stored(s, k)])
ItemCount(v, s, k) == IF v[Stored(s, k)] = Missing THEN 0 ELSE 1

\* Writing one item changes the footprint by what that item adds.
LEMMA ItemChange ==
    ASSUME NEW u, NEW v, NEW s, NEW k \in Item, ItemsTyped(u, s), ItemsTyped(v, s),
           \A j \in Item \ {k} : u[Stored(s, j)] = v[Stored(s, j)]
    PROVE  /\ ItemTotal(u, s) = ItemTotal(v, s) + ItemShare(u, s, k) - ItemShare(v, s, k)
           /\ Cardinality(Items(u, s)) =
                 Cardinality(Items(v, s)) + ItemCount(u, s, k) - ItemCount(v, s, k)
<1> DEFINE f(w) == [j \in Items(w, s) |-> ItemOctets(w[Stored(s, j)])]
           rest(w) == Items(w, s) \ {k}
<1>1. ASSUME NEW w, ItemsTyped(w, s)
      PROVE  /\ ItemTotal(w, s) = ItemShare(w, s, k) + SumFunctionOnSet(f(w), rest(w))
             /\ SumFunctionOnSet(f(w), rest(w)) \in Int /\ ItemShare(w, s, k) \in Int
             /\ Cardinality(Items(w, s)) = ItemCount(w, s, k) + Cardinality(rest(w))
             /\ IsFiniteSet(rest(w)) /\ Cardinality(rest(w)) \in Int
  <2> DEFINE g == f(w)
  <2>1. /\ IsFiniteSet(Items(w, s)) /\ Cardinality(Items(w, s)) \in Nat
        /\ \A j \in Items(w, s) : ItemOctets(w[Stored(s, j)]) \in Nat
    BY <1>1, ItemFacts
  <2>2. DOMAIN g = Items(w, s) /\ \A j \in DOMAIN g : g[j] \in Int
    BY <2>1
  <2>3. ItemShare(w, s, k) = IF k \in DOMAIN g THEN g[k] ELSE 0
    BY <2>2 DEF ItemShare, Items
  <2>4. ItemTotal(w, s) = SumFunction(g)
    BY DEF ItemTotal
  <2>5. /\ IsFiniteSet(rest(w)) /\ Cardinality(rest(w)) \in Int
        /\ Cardinality(Items(w, s)) = ItemCount(w, s, k) + Cardinality(rest(w))
    <3>1. /\ IsFiniteSet(rest(w))
          /\ Cardinality(rest(w)) = IF k \in Items(w, s) THEN Cardinality(Items(w, s)) - 1
                                    ELSE Cardinality(Items(w, s))
      BY <2>1, FS_RemoveElement
    <3>2. k \in Items(w, s) <=> w[Stored(s, k)] # Missing
      BY DEF Items
    <3> QED BY <2>1, <3>1, <3>2 DEF ItemCount
  <2> HIDE DEF g
  <2>6. /\ SumFunction(g) = (IF k \in DOMAIN g THEN g[k] ELSE 0)
                              + SumFunctionOnSet(g, DOMAIN g \ {k})
        /\ SumFunctionOnSet(g, DOMAIN g \ {k}) \in Int
    BY <2>1, <2>2, SumWithout
  <2>7. ItemShare(w, s, k) \in Int
    BY <2>2, <2>3
  <2>8. g = f(w)
    BY DEF g
  <2> HIDE DEF f
  <2> QED BY <2>2, <2>3, <2>4, <2>5, <2>6, <2>7, <2>8
<1>2. rest(u) = rest(v)
  BY DEF Items
<1>3. SumFunctionOnSet(f(u), rest(u)) = SumFunctionOnSet(f(v), rest(u))
  <2>1. IsFiniteSet(rest(u))
    BY <1>1
  <2>2. \A j \in rest(u) : f(u)[j] = f(v)[j]
    BY <1>2 DEF Items
  <2> HIDE DEF f, rest
  <2> QED BY <2>1, <2>2, SumSame
<1>4. ItemCount(u, s, k) \in Int /\ ItemCount(v, s, k) \in Int
  BY DEF ItemCount
<1>5. /\ ItemTotal(u, s) = ItemShare(u, s, k) + SumFunctionOnSet(f(u), rest(u))
      /\ SumFunctionOnSet(f(u), rest(u)) \in Int /\ ItemShare(u, s, k) \in Int
      /\ Cardinality(Items(u, s)) = ItemCount(u, s, k) + Cardinality(rest(u))
      /\ Cardinality(rest(u)) \in Int
  BY <1>1
<1>6. /\ ItemTotal(v, s) = ItemShare(v, s, k) + SumFunctionOnSet(f(v), rest(v))
      /\ SumFunctionOnSet(f(v), rest(v)) \in Int /\ ItemShare(v, s, k) \in Int
      /\ Cardinality(Items(v, s)) = ItemCount(v, s, k) + Cardinality(rest(v))
      /\ Cardinality(rest(v)) \in Int
  BY <1>1
<1> HIDE DEF f, rest
<1> QED BY <1>2, <1>3, <1>4, <1>5, <1>6

RequestCount(v, s, r) == IF v[Avail(s, r)] = Missing THEN 0 ELSE 1

\* Adding or dropping one request changes the footprint by what that request adds.
LEMMA RequestChange ==
    ASSUME NEW u, NEW v, NEW s, NEW r \in Request,
           \A j \in Request \ {r} : u[Avail(s, j)] = v[Avail(s, j)]
    PROVE  LET change == RequestCount(u, s, r) - RequestCount(v, s, r)
           IN  /\ RequestTotal(u, s) = RequestTotal(v, s) + change * PreimageOctets(r[2])
               /\ Cardinality(Requests(u, s)) = Cardinality(Requests(v, s)) + change
<1> DEFINE f(w) == [j \in Requests(w, s) |-> PreimageOctets(j[2])]
           rest(w) == Requests(w, s) \ {r}
           size == PreimageOctets(r[2])
<1>1. ASSUME NEW w
      PROVE  /\ RequestTotal(w, s) = RequestCount(w, s, r) * size
                                     + SumFunctionOnSet(f(w), rest(w))
             /\ SumFunctionOnSet(f(w), rest(w)) \in Int
             /\ Cardinality(Requests(w, s)) = RequestCount(w, s, r) + Cardinality(rest(w))
             /\ IsFiniteSet(rest(w)) /\ Cardinality(rest(w)) \in Int
  <2> DEFINE g == f(w)
  <2>1. /\ IsFiniteSet(Requests(w, s)) /\ Cardinality(Requests(w, s)) \in Nat
        /\ \A j \in Request : PreimageOctets(j[2]) \in Nat
    BY RequestFacts
  <2>2. DOMAIN g = Requests(w, s) /\ \A j \in DOMAIN g : g[j] \in Int
    BY <2>1 DEF Requests
  <2>3. RequestCount(w, s, r) * size = IF r \in DOMAIN g THEN g[r] ELSE 0
    <3>1. size \in Nat
      BY <2>1
    <3>2. CASE w[Avail(s, r)] = Missing
      <4>1. RequestCount(w, s, r) = 0 /\ r \notin DOMAIN g
        BY <2>2, <3>2 DEF RequestCount, Requests
      <4> HIDE DEF size
      <4> QED BY <3>1, <4>1
    <3>3. CASE w[Avail(s, r)] # Missing
      <4>1. RequestCount(w, s, r) = 1 /\ r \in DOMAIN g /\ g[r] = size
        BY <2>2, <3>3 DEF RequestCount, Requests
      <4> HIDE DEF size
      <4> QED BY <3>1, <4>1
    <3> QED BY <3>2, <3>3
  <2>4. RequestTotal(w, s) = SumFunction(g)
    BY DEF RequestTotal
  <2>5. /\ IsFiniteSet(rest(w)) /\ Cardinality(rest(w)) \in Int
        /\ Cardinality(Requests(w, s)) = RequestCount(w, s, r) + Cardinality(rest(w))
    <3>1. /\ IsFiniteSet(rest(w))
          /\ Cardinality(rest(w)) = IF r \in Requests(w, s) THEN Cardinality(Requests(w, s)) - 1
                                    ELSE Cardinality(Requests(w, s))
      BY <2>1, FS_RemoveElement
    <3>2. r \in Requests(w, s) <=> w[Avail(s, r)] # Missing
      BY DEF Requests
    <3> QED BY <2>1, <3>1, <3>2 DEF RequestCount
  <2> HIDE DEF g
  <2>6. /\ SumFunction(g) = (IF r \in DOMAIN g THEN g[r] ELSE 0)
                              + SumFunctionOnSet(g, DOMAIN g \ {r})
        /\ SumFunctionOnSet(g, DOMAIN g \ {r}) \in Int
    BY <2>1, <2>2, SumWithout
  <2>8. g = f(w)
    BY DEF g
  <2> HIDE DEF f, size
  <2> QED BY <2>2, <2>3, <2>4, <2>5, <2>6, <2>8
<1>2. rest(u) = rest(v)
  BY DEF Requests
<1>3. SumFunctionOnSet(f(u), rest(u)) = SumFunctionOnSet(f(v), rest(u))
  <2>1. IsFiniteSet(rest(u))
    BY <1>1
  <2>2. \A j \in rest(u) : f(u)[j] = f(v)[j]
    BY <1>2
  <2> HIDE DEF f, rest
  <2> QED BY <2>1, <2>2, SumSame
<1>4. /\ RequestCount(u, s, r) \in {0, 1} /\ RequestCount(v, s, r) \in {0, 1}
      /\ size \in Nat
  BY RequestFacts DEF RequestCount
<1>5. /\ RequestTotal(u, s) = RequestCount(u, s, r) * size + SumFunctionOnSet(f(u), rest(u))
      /\ SumFunctionOnSet(f(u), rest(u)) \in Int
      /\ Cardinality(Requests(u, s)) = RequestCount(u, s, r) + Cardinality(rest(u))
      /\ Cardinality(rest(u)) \in Int
  BY <1>1
<1>6. /\ RequestTotal(v, s) = RequestCount(v, s, r) * size + SumFunctionOnSet(f(v), rest(v))
      /\ SumFunctionOnSet(f(v), rest(v)) \in Int
      /\ Cardinality(Requests(v, s)) = RequestCount(v, s, r) + Cardinality(rest(v))
      /\ Cardinality(rest(v)) \in Int
  BY <1>1
<1> HIDE DEF f, rest, size
<1>7. /\ RequestTotal(u, s) = RequestTotal(v, s)
                              + (RequestCount(u, s, r) - RequestCount(v, s, r)) * size
      /\ Cardinality(Requests(u, s)) = Cardinality(Requests(v, s))
                              + (RequestCount(u, s, r) - RequestCount(v, s, r))
  BY <1>2, <1>3, <1>4, <1>5, <1>6
<1> QED BY <1>7 DEF size

-----------------------------------------------------------------------------
(* What the host calls do to the account they change.  In these lemmas u   *)
(* are the values after the change, v those before.                        *)

LooseAccount == [bal : Int, code : Hash \cup Service, items : Int, octets : Int, offset : Nat]

MapsTyped(v, s) ==
    /\ ItemsTyped(v, s)
    /\ \A r \in Request : v[Avail(s, r)] \in Seq(Nat) \cup {Missing}
    /\ \A h \in Hash : v[Blob(s, h)] # Missing => v[Avail(s, Answerable(h))] \notin {Missing, <<>>}

LEMMA EmptyHistory == <<>> \in Seq(Nat) /\ <<>> # Missing
<1>1. <<>> \in Seq(Nat)
  OBVIOUS
<1> DEFINE empty == <<>>
<1>2. empty \in Seq(Nat)
  BY <1>1
<1> HIDE DEF empty
<1>3. empty # Missing
  BY <1>2, MissingAssumption, Zenon
<1> QED BY <1>1, <1>3 DEF empty

LEMMA ThresholdFacts ==
    ASSUME NEW a \in LooseAccount
    PROVE  Threshold(a) \in Int /\ Threshold(a) >= 0
  BY DEF Threshold, LooseAccount

\* An account whose counters are right and whose balance covers them is sound.
LEMMA SoundAccount ==
    ASSUME NEW u, NEW s, NEW a \in LooseAccount, u[Acct(s)] = a, MapsTyped(u, s),
           a.items = Cardinality(Items(u, s)) + 2 * Cardinality(Requests(u, s)),
           a.octets = ItemTotal(u, s) + RequestTotal(u, s),
           a.bal >= Threshold(a)
    PROVE  Sound(u, s) /\ Exists(u, s)
<1>1. /\ Cardinality(Items(u, s)) \in Nat /\ ItemTotal(u, s) \in Nat
      /\ Cardinality(Requests(u, s)) \in Nat /\ RequestTotal(u, s) \in Nat
  BY ItemFacts, RequestFacts DEF MapsTyped
<1>2. Threshold(a) \in Int /\ Threshold(a) >= 0
  BY ThresholdFacts
<1>3. a.items \in Nat /\ a.octets \in Nat /\ a.bal \in Nat
  <2>1. a.bal \in Int
    BY DEF LooseAccount
  <2> QED BY <1>1, <1>2, <2>1
<1>4. a \in Account
  BY <1>3 DEF LooseAccount, Account
<1>5. Exists(u, s)
  BY <1>4, MissingAssumption DEF Exists
<1>6. Tidy(u, s)
  BY <1>5 DEF Tidy, MapsTyped
<1>7. ExactFootprint(u, s)
  BY DEF ExactFootprint, ItemTotal, RequestTotal
<1> QED BY <1>4, <1>5, <1>6, <1>7 DEF Sound, MapsTyped, ItemsTyped, CoversThreshold

\* What soundness says of an account that exists.
LEMMA SoundFacts ==
    ASSUME NEW v, NEW s, Sound(v, s)
    PROVE  /\ MapsTyped(v, s)
           /\ Exists(v, s) =>
                 /\ v[Acct(s)] \in Account /\ v[Acct(s)] \in LooseAccount
                 /\ v[Acct(s)].items = Cardinality(Items(v, s)) + 2 * Cardinality(Requests(v, s))
                 /\ v[Acct(s)].octets = ItemTotal(v, s) + RequestTotal(v, s)
                 /\ v[Acct(s)].bal >= Threshold(v[Acct(s)])
<1>1. MapsTyped(v, s)
  BY DEF Sound, Tidy, MapsTyped, ItemsTyped
<1>2. Account \subseteq LooseAccount
  BY DEF Account, LooseAccount
<1> QED BY <1>1, <1>2 DEF Sound, Exists, ExactFootprint, CoversThreshold, ItemTotal, RequestTotal

\* Accounts that a step does not touch stay sound.
LEMMA SoundLocal ==
    ASSUME NEW u, NEW v, NEW s, Sound(v, s),
           u[Acct(s)] = v[Acct(s)], SameItems(u, v, s), SameRequests(u, v, s)
    PROVE  Sound(u, s)
<1>1. /\ Items(u, s) = Items(v, s) /\ ItemTotal(u, s) = ItemTotal(v, s)
      /\ Requests(u, s) = Requests(v, s) /\ RequestTotal(u, s) = RequestTotal(v, s)
  BY SameItemsFootprint, SameRequestsFootprint DEF SameRequests, Requests
<1>2. MapsTyped(u, s)
  BY RequestsTyped DEF Sound, Tidy, MapsTyped, ItemsTyped, SameItems, SameRequests
<1>3. Tidy(u, s)
  BY <1>1, <1>2 DEF Sound, Tidy, MapsTyped, Exists
<1>4. Exists(v, s) => ExactFootprint(u, s) /\ CoversThreshold(u, s)
  BY <1>1 DEF Sound, ExactFootprint, CoversThreshold, ItemTotal, RequestTotal
<1> QED BY <1>2, <1>3, <1>4 DEF Sound, MapsTyped, ItemsTyped, Exists

\* transfer, new (the creator), upgrade, eject (the ejecting service): another
\* balance or code, which covers the same footprint.
LEMMA SoundBalance ==
    ASSUME NEW u, NEW v, NEW s, Sound(v, s), Exists(v, s),
           SameItems(u, v, s), SameRequests(u, v, s),
           NEW bal \in Int, NEW code \in Hash \cup Service,
           u[Acct(s)] = [v[Acct(s)] EXCEPT !.bal = bal, !.code = code],
           bal >= Threshold(v[Acct(s)])
    PROVE  Sound(u, s) /\ Exists(u, s)
<1> DEFINE a == u[Acct(s)]
           o == v[Acct(s)]
<1>1. /\ Items(u, s) = Items(v, s) /\ ItemTotal(u, s) = ItemTotal(v, s)
      /\ Requests(u, s) = Requests(v, s) /\ RequestTotal(u, s) = RequestTotal(v, s)
  BY SameItemsFootprint, SameRequestsFootprint DEF SameRequests, Requests
<1>2. MapsTyped(u, s)
  BY RequestsTyped DEF Sound, Tidy, MapsTyped, ItemsTyped, SameItems, SameRequests
<1>3. /\ o \in LooseAccount
      /\ o.items = Cardinality(Items(v, s)) + 2 * Cardinality(Requests(v, s))
      /\ o.octets = ItemTotal(v, s) + RequestTotal(v, s)
  BY SoundFacts
<1>4. a \in LooseAccount /\ a.items = o.items /\ a.octets = o.octets
      /\ a.offset = o.offset /\ a.bal = bal
  <2> HIDE DEF o
  <2>1. a = [o EXCEPT !.bal = bal, !.code = code]
    BY DEF o
  <2> HIDE DEF a
  <2> QED BY <1>3, <2>1 DEF LooseAccount
<1>5. Threshold(a) = Threshold(o)
  BY <1>4 DEF Threshold
<1>6. u[Acct(s)] = a
  OBVIOUS
<1> HIDE DEF a
<1> QED BY <1>1, <1>2, <1>3, <1>4, <1>5, <1>6, SoundAccount

LEMMA GrownFacts ==
    ASSUME NEW a \in LooseAccount, NEW items \in Int, NEW octets \in Int
    PROVE  /\ Grown(a, items, octets) \in LooseAccount
           /\ Grown(a, items, octets).items = a.items + items
           /\ Grown(a, items, octets).octets = a.octets + octets
           /\ Grown(a, items, octets).bal = a.bal
           /\ Grown(a, items, octets).offset = a.offset
           /\ Grown(a, items, octets).code = a.code
<1> DEFINE g == Grown(a, items, octets)
           n == a.items + items
           o == a.octets + octets
<1>1. a.items \in Int /\ a.octets \in Int /\ n \in Int /\ o \in Int
  BY DEF LooseAccount
<1>2. g = [a EXCEPT !.items = n, !.octets = o]
  BY <1>1, Zenon DEF Grown, LooseAccount
<1> HIDE DEF g, n, o
<1>3. /\ g \in LooseAccount /\ g.items = n /\ g.octets = o
      /\ g.bal = a.bal /\ g.offset = a.offset /\ g.code = a.code
  BY <1>1, <1>2 DEF LooseAccount
<1> QED BY <1>3 DEF g, n, o

\* write: the footprint of every case is that of the values after it.
LEMMA SoundWrite ==
    ASSUME NEW u, NEW v, NEW s, Sound(v, s), Exists(v, s), NEW k \in Item, NEW size \in Nat,
           u[Stored(s, k)] = (IF size = 0 THEN Missing ELSE size),
           \A j \in Item \ {k} : u[Stored(s, j)] = v[Stored(s, j)],
           SameRequests(u, v, s),
           u[Acct(s)] = Written(v, s, k, size), CanWrite(v, s, k, size)
    PROVE  Sound(u, s) /\ Exists(u, s)
<1> DEFINE o == v[Acct(s)]
           old == v[Stored(s, k)]
           a == Written(v, s, k, size)
<1>1. /\ MapsTyped(v, s) /\ o \in LooseAccount
      /\ o.items = Cardinality(Items(v, s)) + 2 * Cardinality(Requests(v, s))
      /\ o.octets = ItemTotal(v, s) + RequestTotal(v, s)
  BY SoundFacts
<1>2. ItemsTyped(v, s) /\ ItemsTyped(u, s) /\ old \in Nat \cup {Missing}
  BY <1>1 DEF MapsTyped, ItemsTyped
<1>3. MapsTyped(u, s)
  BY <1>1, <1>2, RequestsTyped DEF MapsTyped, SameRequests
<1>4. Requests(u, s) = Requests(v, s) /\ RequestTotal(u, s) = RequestTotal(v, s)
  BY SameRequestsFootprint DEF SameRequests, Requests
<1>5. /\ ItemTotal(u, s) = ItemTotal(v, s) + ItemShare(u, s, k) - ItemShare(v, s, k)
      /\ Cardinality(Items(u, s)) =
            Cardinality(Items(v, s)) + ItemCount(u, s, k) - ItemCount(v, s, k)
  BY <1>2, ItemChange
<1>6. /\ Cardinality(Items(v, s)) \in Nat /\ ItemTotal(v, s) \in Nat
      /\ Cardinality(Requests(v, s)) \in Nat /\ RequestTotal(v, s) \in Nat
  BY <1>2, ItemFacts, RequestFacts
<1>7. Missing \notin Nat
  BY MissingAssumption
<1>8. /\ ItemShare(u, s, k) = IF size = 0 THEN 0 ELSE ItemOctets(size)
      /\ ItemCount(u, s, k) = IF size = 0 THEN 0 ELSE 1
      /\ ItemShare(v, s, k) = IF old = Missing THEN 0 ELSE ItemOctets(old)
      /\ ItemCount(v, s, k) = IF old = Missing THEN 0 ELSE 1
  BY <1>7 DEF ItemShare, ItemCount
<1>9. \A n \in Nat : ItemOctets(n) \in Nat
  BY DEF ItemOctets
<1> DEFINE items == ItemCount(u, s, k) - ItemCount(v, s, k)
           octets == ItemShare(u, s, k) - ItemShare(v, s, k)
<1>10. items \in Int /\ octets \in Int
  BY <1>2, <1>8, <1>9
<1>11. a \in LooseAccount /\ a.items = o.items + items /\ a.octets = o.octets + octets
  <2>1. CASE size = 0 /\ old = Missing
    <3>1. a = o
      BY <2>1 DEF Written
    <3>2. items = 0 /\ octets = 0
      BY <1>8, <2>1
    <3>3. o.items \in Int /\ o.octets \in Int
      BY <1>1 DEF LooseAccount
    <3> QED BY <1>1, <3>1, <3>2, <3>3
  <2>2. CASE size = 0 /\ old # Missing
    <3>1. a = Grown(o, -1, -ItemOctets(old))
      BY <2>2 DEF Written
    <3>2. items = -1 /\ octets = -ItemOctets(old) /\ ItemOctets(old) \in Nat
      BY <1>2, <1>8, <1>9, <2>2
    <3> HIDE DEF a, o, items, octets
    <3>3. a = Grown(o, items, octets)
      BY <3>1, <3>2
    <3> QED BY <1>1, <1>10, <3>3, GrownFacts
  <2>3. CASE size > 0 /\ old = Missing
    <3>1. a = Grown(o, 1, ItemOctets(size))
      BY <2>3 DEF Written
    <3>2. items = 1 /\ octets = ItemOctets(size)
      BY <1>8, <1>9, <2>3
    <3> HIDE DEF a, o, items, octets
    <3>3. a = Grown(o, items, octets)
      BY <3>1, <3>2
    <3> QED BY <1>1, <1>10, <3>3, GrownFacts
  <2>4. CASE size > 0 /\ old # Missing
    <3>1. a = Grown(o, 0, size - old)
      BY <2>4 DEF Written
    <3>2. items = 0 /\ octets = size - old
      BY <1>2, <1>8, <2>4 DEF ItemOctets
    <3> HIDE DEF a, o, items, octets
    <3>3. a = Grown(o, items, octets)
      BY <3>1, <3>2
    <3> QED BY <1>1, <1>10, <3>3, GrownFacts
  <2> QED BY <2>1, <2>2, <2>3, <2>4
<1>12. a.bal >= Threshold(a)
  <2>1. Threshold(a) \in Int /\ a.bal \in Int /\ Threshold(a) <= a.bal
    BY <1>11, ThresholdFacts DEF CanWrite, LooseAccount
  <2> QED BY <2>1
<1>13. /\ a.items = Cardinality(Items(u, s)) + 2 * Cardinality(Requests(u, s))
       /\ a.octets = ItemTotal(u, s) + RequestTotal(u, s)
  <2>1. /\ o.items \in Int /\ o.octets \in Int
        /\ ItemCount(u, s, k) \in Int /\ ItemCount(v, s, k) \in Int
        /\ ItemShare(u, s, k) \in Int /\ ItemShare(v, s, k) \in Int
    BY <1>1, <1>2, <1>8, <1>9 DEF LooseAccount
  <2> HIDE DEF a, o
  <2> QED BY <1>1, <1>4, <1>5, <1>6, <1>11, <2>1
<1>14. u[Acct(s)] = a
  OBVIOUS
<1> HIDE DEF a
<1> QED BY <1>3, <1>11, <1>12, <1>13, <1>14, SoundAccount

\* solicit and forget: one request r is added, changed or dropped.
LEMMA SoundRequest ==
    ASSUME NEW u, NEW v, NEW s, Sound(v, s), Exists(v, s), NEW r \in Request,
           SameItems(u, v, s), MapsTyped(u, s),
           \A j \in Request \ {r} : u[Avail(s, j)] = v[Avail(s, j)],
           NEW change \in Int, change = RequestCount(u, s, r) - RequestCount(v, s, r),
           NEW a, u[Acct(s)] = a,
           \/ change = 0 /\ a = v[Acct(s)]
           \/ a = Grown(v[Acct(s)], 2 * change, change * PreimageOctets(r[2])),
           a.bal >= Threshold(a)
    PROVE  Sound(u, s) /\ Exists(u, s)
<1> DEFINE o == v[Acct(s)]
           size == PreimageOctets(r[2])
           octets == change * size
           items == 2 * change
<1>1. /\ MapsTyped(v, s) /\ o \in LooseAccount
      /\ o.items = Cardinality(Items(v, s)) + 2 * Cardinality(Requests(v, s))
      /\ o.octets = ItemTotal(v, s) + RequestTotal(v, s)
  BY SoundFacts
<1>2. Items(u, s) = Items(v, s) /\ ItemTotal(u, s) = ItemTotal(v, s)
  BY SameItemsFootprint
<1>3. /\ RequestTotal(u, s) = RequestTotal(v, s) + change * size
      /\ Cardinality(Requests(u, s)) = Cardinality(Requests(v, s)) + change
  BY RequestChange
<1>4. /\ Cardinality(Items(v, s)) \in Nat /\ ItemTotal(v, s) \in Nat
      /\ Cardinality(Requests(v, s)) \in Nat /\ RequestTotal(v, s) \in Nat
      /\ size \in Nat
  BY <1>1, ItemFacts, RequestFacts DEF MapsTyped
<1>5. items \in Int /\ octets \in Int
  <2> HIDE DEF size
  <2> QED BY <1>4
<1>6. a \in LooseAccount /\ a.items = o.items + items /\ a.octets = o.octets + octets
  <2>1. CASE change = 0 /\ a = o
    <3>1. o.items \in Int /\ o.octets \in Int
      BY <1>1 DEF LooseAccount
    <3> HIDE DEF o, size
    <3>2. items = 0 /\ octets = 0
      BY <1>4, <2>1
    <3> QED BY <1>1, <2>1, <3>1, <3>2
  <2>2. CASE a = Grown(o, items, octets)
    <3> HIDE DEF o, items, octets
    <3> QED BY <1>1, <1>5, <2>2, GrownFacts
  <2> QED BY <2>1, <2>2
<1>7. /\ a.items = Cardinality(Items(u, s)) + 2 * Cardinality(Requests(u, s))
      /\ a.octets = ItemTotal(u, s) + RequestTotal(u, s)
  <2>1. o.items \in Int /\ o.octets \in Int
    BY <1>1 DEF LooseAccount
  <2>2. octets = change * size
    OBVIOUS
  <2> HIDE DEF o, octets, size
  <2> QED BY <1>1, <1>2, <1>3, <1>4, <1>5, <1>6, <2>1, <2>2
<1> QED BY <1>6, <1>7, SoundAccount

\* A smaller footprint needs no larger balance.
LEMMA ThresholdShrinks ==
    ASSUME NEW a \in LooseAccount, NEW items \in Nat, NEW octets \in Nat
    PROVE  Threshold(Grown(a, -items, -octets)) <= Threshold(a)
<1> DEFINE g == Grown(a, -items, -octets)
<1>1. g.items = a.items - items /\ g.octets = a.octets - octets /\ g.offset = a.offset
  <2>1. -items \in Int /\ -octets \in Int
    OBVIOUS
  <2>2. g.items = a.items + (-items) /\ g.octets = a.octets + (-octets) /\ g.offset = a.offset
    BY <2>1, GrownFacts
  <2>3. a.items \in Int /\ a.octets \in Int
    BY DEF LooseAccount
  <2> HIDE DEF g
  <2> QED BY <2>2, <2>3
<1>2. a.items \in Int /\ a.octets \in Int /\ a.offset \in Nat
  BY DEF LooseAccount
<1> HIDE DEF g
<1>3. Threshold(g) <= Threshold(a)
  BY <1>1, <1>2 DEF Threshold
<1> QED BY <1>3 DEF g

\* new: the account it makes, where there was none.
LEMMA SoundNew ==
    ASSUME NEW u, NEW v, NEW s, Sound(v, s), ~Exists(v, s),
           NEW r \in Request, NEW offset \in Nat,
           u[Acct(s)] = NewAccount(r, offset), SameItems(u, v, s),
           u[Avail(s, r)] = <<>>, \A h \in Hash : u[Blob(s, h)] = v[Blob(s, h)],
           \A j \in Request \ {r} : u[Avail(s, j)] = v[Avail(s, j)]
    PROVE  Sound(u, s) /\ Exists(u, s)
<1> DEFINE size == PreimageOctets(r[2])
           e == [bal |-> 0, code |-> r[1], items |-> 0, octets |-> 0, offset |-> offset]
           g == Grown(e, 2, size)
           a == [g EXCEPT !.bal = Threshold(g)]
<1>1. MapsTyped(v, s) /\ Items(v, s) = {} /\ Requests(v, s) = {}
  BY SoundFacts DEF Sound, Tidy
<1>2. v[Avail(s, r)] = Missing /\ \A h \in Hash : v[Blob(s, h)] = Missing
  BY <1>1, RequestsTyped DEF Requests, MapsTyped
<1>3. <<>> \in Seq(Nat) /\ <<>> # Missing
  BY EmptyHistory
<1>4. MapsTyped(u, s)
  <2>1. ItemsTyped(u, s)
    BY <1>1 DEF MapsTyped, ItemsTyped, SameItems
  <2> QED BY <1>1, <1>2, <1>3, <2>1 DEF MapsTyped
<1>5. /\ Items(u, s) = {} /\ ItemTotal(u, s) = ItemTotal(v, s)
  BY <1>1, SameItemsFootprint
<1>6. ItemTotal(v, s) = 0 /\ RequestTotal(v, s) = 0
  <2>1. SumFunctionOnSet([k \in {} |-> ItemOctets(v[Stored(s, k)])], {}) = 0
    BY SumStep, FS_EmptySet DEF Stepwise
  <2>2. SumFunctionOnSet([j \in {} |-> PreimageOctets(j[2])], {}) = 0
    BY SumStep, FS_EmptySet DEF Stepwise
  <2> QED BY <1>1, <2>1, <2>2 DEF ItemTotal, RequestTotal, SumFunction
<1>7. RequestCount(u, s, r) = 1 /\ RequestCount(v, s, r) = 0
  BY <1>2, <1>3 DEF RequestCount
<1>8. RequestTotal(u, s) = size /\ Cardinality(Requests(u, s)) = 1 /\ size \in Nat
  <2>1. size \in Nat /\ Cardinality(Requests(v, s)) = 0
    BY <1>1, RequestFacts, FS_EmptySet
  <2>2. /\ RequestTotal(u, s) = RequestTotal(v, s)
                          + (RequestCount(u, s, r) - RequestCount(v, s, r)) * size
        /\ Cardinality(Requests(u, s)) = Cardinality(Requests(v, s))
                          + (RequestCount(u, s, r) - RequestCount(v, s, r))
    BY RequestChange
  <2> HIDE DEF size
  <2> QED BY <1>6, <1>7, <2>1, <2>2
<1>9. e \in LooseAccount /\ e.items = 0 /\ e.octets = 0
  BY RequestsTyped DEF LooseAccount
<1> HIDE DEF size, e
<1>10. g \in LooseAccount /\ g.items = 2 /\ g.octets = size
  <2>1. g \in LooseAccount /\ g.items = e.items + 2 /\ g.octets = e.octets + size
    <3>1. size \in Int /\ e \in LooseAccount
      BY <1>8, <1>9
    <3> QED BY ONLY <3>1, GrownFacts
  <2> HIDE DEF g
  <2> QED BY <1>8, <1>9, <2>1
<1>11. Threshold(g) \in Int
  BY <1>10, ThresholdFacts
<1> HIDE DEF g
<1>12. /\ a \in LooseAccount /\ a.items = 2 /\ a.octets = size
       /\ a.bal = Threshold(g) /\ a.offset = g.offset
  BY <1>10, <1>11 DEF LooseAccount
<1>13. Threshold(a) = Threshold(g)
  BY <1>10, <1>12 DEF Threshold
<1>14. u[Acct(s)] = a
  BY DEF NewAccount, e, g, size
<1>15. Cardinality(Items(u, s)) = 0
  BY <1>5, FS_EmptySet
<1> HIDE DEF a
<1>16. /\ a.items = Cardinality(Items(u, s)) + 2 * Cardinality(Requests(u, s))
       /\ a.octets = ItemTotal(u, s) + RequestTotal(u, s)
       /\ a.bal >= Threshold(a)
  BY <1>5, <1>6, <1>8, <1>11, <1>12, <1>13, <1>15
<1> QED BY <1>4, <1>12, <1>14, <1>16, SoundAccount

\* eject: the counters of an account that may be ejected say that it has nothing but
\* the request that goes with it.
LEMMA SoundEjected ==
    ASSUME NEW u, NEW v, NEW s, NEW d, NEW r \in Request, NEW t, Sound(v, d), CanEject(v, s, d, r, t),
           u[Acct(d)] = Missing, u[Blob(d, r[1])] = Missing, u[Avail(d, r)] = Missing,
           SameItems(u, v, d),
           \A j \in Request \ {r} : u[Avail(d, j)] = v[Avail(d, j)],
           \A h \in Hash \ {r[1]} : u[Blob(d, h)] = v[Blob(d, h)]
    PROVE  Sound(u, d) /\ ~Exists(u, d)
<1>1. /\ MapsTyped(v, d) /\ v[Acct(d)].items = 2
      /\ v[Acct(d)].items = Cardinality(Items(v, d)) + 2 * Cardinality(Requests(v, d))
      /\ r \in Requests(v, d)
  BY SoundFacts DEF CanEject, Exists, Requests
<1>2. /\ IsFiniteSet(Items(v, d)) /\ Cardinality(Items(v, d)) \in Nat
      /\ IsFiniteSet(Requests(v, d)) /\ Cardinality(Requests(v, d)) \in Nat
  BY <1>1, ItemFacts, RequestFacts DEF MapsTyped
<1>3. Cardinality(Requests(v, d)) # 0
  BY <1>1, <1>2, FS_EmptySet
<1>4. Cardinality(Requests(v, d)) = 1 /\ Cardinality(Items(v, d)) = 0
  <2> DEFINE m == Cardinality(Items(v, d))
             n == Cardinality(Requests(v, d))
  <2>1. m \in Nat /\ n \in Nat /\ n # 0 /\ 2 = m + 2 * n
    BY <1>1, <1>2, <1>3
  <2> HIDE DEF m, n
  <2>2. n = 1 /\ m = 0
    BY ONLY <2>1
  <2> QED BY <2>2 DEF m, n
<1>5. Items(v, d) = {}
  BY <1>2, <1>4, FS_EmptySet
<1>6. Requests(v, d) = {r}
  <2>1. PICK x : Requests(v, d) = {x}
    BY <1>2, <1>4, FS_Singleton
  <2> QED BY <1>1, <2>1
<1>7. Items(u, d) = {}
  BY <1>5, SameItemsFootprint
<1>8. Requests(u, d) = {}
  BY <1>6 DEF Requests
<1>9. MapsTyped(u, d)
  <2>1. \A h \in Hash : u[Blob(d, h)] = Missing
    <3> TAKE h \in Hash
    <3>1. CASE h = r[1]
      BY <3>1
    <3>2. CASE h # r[1]
      <4>1. Answerable(h) \in Request /\ Answerable(h) # r
        BY <3>2, RequestsTyped
      <4>2. v[Avail(d, Answerable(h))] = Missing
        BY <1>6, <4>1 DEF Requests
      <4> QED BY <1>1, <3>2, <4>2 DEF MapsTyped
    <3> QED BY <3>1, <3>2
  <2>2. \A j \in Request : u[Avail(d, j)] \in Seq(Nat) \cup {Missing}
    BY <1>1 DEF MapsTyped
  <2> QED BY <1>1, <2>1, <2>2 DEF MapsTyped, ItemsTyped, SameItems
<1> QED BY <1>7, <1>8, <1>9 DEF Sound, Tidy, MapsTyped, ItemsTyped, Exists

\* Preimages that answer the open requests H.
LEMMA SoundAnswered ==
    ASSUME NEW u, NEW v, NEW s, Sound(v, s), NEW t \in Nat, NEW H \in SUBSET Hash,
           u[Acct(s)] = v[Acct(s)], SameItems(u, v, s),
           \A h \in H : /\ v[Avail(s, Answerable(h))] = <<>>
                        /\ u[Avail(s, Answerable(h))] = <<t>> /\ u[Blob(s, h)] = TRUE,
           \A r \in Request \ {Answerable(h) : h \in H} : u[Avail(s, r)] = v[Avail(s, r)],
           \A h \in Hash \ H : u[Blob(s, h)] = v[Blob(s, h)]
    PROVE  Sound(u, s)
<1>1. MapsTyped(v, s)
  BY SoundFacts
<1>2. <<t>> \in Seq(Nat) /\ <<t>> # <<>>
  OBVIOUS
<1>3. <<t>> # Missing /\ TRUE # Missing
  <2> DEFINE one == <<t>>
  <2>1. one \in Seq(Nat)
    BY <1>2
  <2> HIDE DEF one
  <2>2. one # Missing
    BY <2>1, MissingAssumption, Zenon
  <2>3. TRUE # Missing
    BY MissingAssumption, Zenon
  <2> QED BY <2>2, <2>3 DEF one
<1>4. \A h \in H : v[Avail(s, Answerable(h))] # Missing /\ u[Avail(s, Answerable(h))] # Missing
  BY <1>3, EmptyHistory
<1>5. MapsTyped(u, s)
  <2>1. ItemsTyped(u, s)
    BY <1>1 DEF MapsTyped, ItemsTyped, SameItems
  <2>2. \A r \in Request : u[Avail(s, r)] \in Seq(Nat) \cup {Missing}
    BY <1>1, <1>2 DEF MapsTyped
  <2>3. ASSUME NEW h \in Hash
        PROVE  u[Blob(s, h)] # Missing => u[Avail(s, Answerable(h))] \notin {Missing, <<>>}
    <3>1. CASE h \in H
      BY <1>2, <1>3, <3>1
    <3>2. CASE h \notin H
      <4>1. Answerable(h) \in Request \ {Answerable(j) : j \in H}
        BY <3>2, RequestsTyped
      <4> QED BY <1>1, <3>2, <4>1 DEF MapsTyped
    <3> QED BY <3>1, <3>2
  <2> QED BY <2>1, <2>2, <2>3 DEF MapsTyped
<1>6. Requests(u, s) = Requests(v, s)
  BY <1>4 DEF Requests
<1>7. /\ Items(u, s) = Items(v, s) /\ ItemTotal(u, s) = ItemTotal(v, s)
      /\ RequestTotal(u, s) = RequestTotal(v, s)
  BY <1>6, SameItemsFootprint, SameRequestsFootprint
<1>8. Tidy(u, s)
  BY <1>5, <1>6, <1>7 DEF Sound, Tidy, MapsTyped, Exists
<1>9. Exists(v, s) => ExactFootprint(u, s) /\ CoversThreshold(u, s)
  BY <1>6, <1>7 DEF Sound, ExactFootprint, CoversThreshold, ItemTotal, RequestTotal
<1> QED BY <1>5, <1>8, <1>9 DEF Sound, MapsTyped, ItemsTyped, Exists

-----------------------------------------------------------------------------
(* Contexts of invocations.                                                *)

Xfer == [to : Service, amount : Nat]

IsContext(c) ==
    c = [pend |-> c.pend, xfers |-> c.xfers, provided |-> c.provided, newId |-> c.newId]

\* A context on committed values: its fields have their types, every account that
\* its service sees is sound, and the next new id is free.
ContextSound(c, values) ==
    /\ IsContext(c)
    /\ DOMAIN c.pend \subseteq Key
    /\ c.xfers \in Seq(Xfer) /\ c.provided \subseteq Service \X Hash /\ c.newId \in Public
    /\ \A s \in Service : Sound(Patched(c.pend, values), s)
    /\ ~Exists(Patched(c.pend, values), c.newId)

\* u are the values v with those of the keys K changed.
Differ(u, v, K) == DOMAIN u = Key /\ \A x \in Key \ K : u[x] = v[x]
Untouched(u, v, s) == u[Acct(s)] = v[Acct(s)] /\ SameItems(u, v, s) /\ SameRequests(u, v, s)

LEMMA PatchedDiffer ==
    ASSUME NEW ch, NEW v, DOMAIN v = Key, DOMAIN ch \subseteq Key
    PROVE  /\ Differ(Patched(ch, v), v, DOMAIN ch)
           /\ \A x \in DOMAIN ch : Patched(ch, v)[x] = ch[x]
  BY PatchedAt DEF Differ

\* The values after one change, and after a change of other keys and one account.
LEMMA OneChange ==
    ASSUME NEW v, DOMAIN v = Key, NEW key \in Key, NEW a
    PROVE  /\ Differ(Patched(Only(key, a), v), v, {key})
           /\ Patched(Only(key, a), v)[key] = a
<1>1. DOMAIN Only(key, a) = {key} /\ Only(key, a)[key] = a
  BY OnlyAt
<1> QED BY <1>1, PatchedDiffer

LEMMA AndAccount ==
    ASSUME NEW v, DOMAIN v = Key, NEW ch, DOMAIN ch \subseteq Key, NEW s \in Service, NEW a,
           Acct(s) \notin DOMAIN ch
    PROVE  LET u == Patched(Only(Acct(s), a), Patched(ch, v))
           IN  /\ Differ(u, v, DOMAIN ch \cup {Acct(s)})
               /\ u[Acct(s)] = a /\ \A x \in DOMAIN ch : u[x] = ch[x]
<1> DEFINE w == Patched(ch, v)
           u == Patched(Only(Acct(s), a), w)
<1>1. Differ(w, v, DOMAIN ch) /\ \A x \in DOMAIN ch : w[x] = ch[x]
  BY PatchedDiffer
<1>2. DOMAIN w = Key /\ Acct(s) \in Key
  BY <1>1, KeysTyped DEF Differ
<1> HIDE DEF w
<1>3. Differ(u, w, {Acct(s)}) /\ u[Acct(s)] = a
  BY <1>2, OneChange
<1> HIDE DEF u
<1>4. /\ Differ(u, v, DOMAIN ch \cup {Acct(s)})
      /\ u[Acct(s)] = a /\ \A x \in DOMAIN ch : u[x] = ch[x]
  BY <1>1, <1>3 DEF Differ
<1> QED BY <1>4 DEF u, w

\* A service none of whose keys changes is untouched.
LEMMA OthersUntouched ==
    ASSUME NEW u, NEW v, NEW K, Differ(u, v, K), NEW t \in Service, \A x \in K : Owner(x) # t
    PROVE  Untouched(u, v, t)
<1>1. /\ Acct(t) \in Key \ K
      /\ \A k \in Item : Stored(t, k) \in Key \ K
      /\ \A h \in Hash : Blob(t, h) \in Key \ K
      /\ \A r \in Request : Avail(t, r) \in Key \ K
  BY KeysTyped, Owners
<1> QED BY <1>1 DEF Differ, Untouched, SameItems, SameRequests

\* Contexts that differ in the accounts of T only.
LEMMA ContextStep ==
    ASSUME NEW values, DOMAIN values = Key, NEW c, ContextSound(c, values),
           NEW d, IsContext(d), DOMAIN d.pend \subseteq Key,
           d.xfers \in Seq(Xfer), d.provided \subseteq Service \X Hash, d.newId \in Public,
           ~Exists(Patched(d.pend, values), d.newId),
           NEW T,
           \A s \in T : Sound(Patched(d.pend, values), s),
           \A s \in Service \ T : Untouched(Patched(d.pend, values), Patched(c.pend, values), s)
    PROVE  ContextSound(d, values)
<1> DEFINE u == Patched(d.pend, values)
           v == Patched(c.pend, values)
<1>1. ASSUME NEW s \in Service PROVE Sound(u, s)
  <2>1. CASE s \in T
    BY <2>1
  <2>2. CASE s \notin T
    <3>1. Sound(v, s) /\ Untouched(u, v, s)
      BY <2>2 DEF ContextSound
    <3> HIDE DEF u, v
    <3> QED BY <3>1, SoundLocal DEF Untouched
  <2> QED BY <2>1, <2>2
<1> QED BY <1>1 DEF ContextSound

LEMMA ViewDomain ==
    ASSUME NEW values, DOMAIN values = Key, NEW c, ContextSound(c, values)
    PROVE  DOMAIN Patched(c.pend, values) = Key
<1>1. DOMAIN Patched(c.pend, values) = DOMAIN c.pend \cup DOMAIN values
  BY PatchedAt
<1>2. DOMAIN c.pend \subseteq Key
  BY DEF ContextSound
<1> QED BY <1>1, <1>2

\* With and WithAccount on a context.
LEMMA WithFacts ==
    ASSUME NEW c, IsContext(c), NEW ch
    PROVE  /\ IsContext(With(c, ch)) /\ With(c, ch).pend = Patched(ch, c.pend)
           /\ With(c, ch).xfers = c.xfers /\ With(c, ch).provided = c.provided
           /\ With(c, ch).newId = c.newId
  BY DEF With, IsContext

\* A call by s on context c leaves context d: sound, s still there, and no account
\* that was not there before.
Continues(d, c, values, s) ==
    /\ ContextSound(d, values)
    /\ Exists(Patched(d.pend, values), s)
    /\ \A p \in Service : Exists(Patched(d.pend, values), p) => Exists(Patched(c.pend, values), p)

\* What is needed for that when only the account and the maps of s change.
LEMMA OwnChange ==
    ASSUME NEW values, DOMAIN values = Key, NEW c, ContextSound(c, values),
           NEW s \in Service, Exists(Patched(c.pend, values), s),
           NEW d, IsContext(d), d.newId = c.newId, DOMAIN d.pend \subseteq Key,
           d.xfers \in Seq(Xfer), d.provided \subseteq Service \X Hash,
           NEW K, Differ(Patched(d.pend, values), Patched(c.pend, values), K),
           \A x \in K : Owner(x) = s,
           Sound(Patched(d.pend, values), s), Exists(Patched(d.pend, values), s)
    PROVE  Continues(d, c, values, s)
<1> DEFINE u == Patched(d.pend, values)
           v == Patched(c.pend, values)
<1>1. \A t \in Service \ {s} : Untouched(u, v, t)
  <2> TAKE t \in Service \ {s}
  <2>1. \A x \in K : Owner(x) # t
    OBVIOUS
  <2> HIDE DEF u, v
  <2>2. Differ(u, v, K) /\ t \in Service
    BY DEF u, v
  <2> QED BY <2>1, <2>2, OthersUntouched
<1>2. \A p \in Service : Exists(u, p) => Exists(v, p)
  BY <1>1 DEF Untouched, Exists
<1>3. c.newId \in Public /\ c.newId \in Service /\ ~Exists(v, c.newId)
  BY ServiceAssumption DEF ContextSound
<1>4. d.newId \in Public /\ ~Exists(u, d.newId)
  BY <1>2, <1>3
<1>5. ContextSound(d, values)
  <2> DEFINE T == {s}
  <2>1. \A t \in T : Sound(u, t)
    OBVIOUS
  <2>2. \A t \in Service \ T : Untouched(u, v, t)
    BY <1>1
  <2> HIDE DEF T
  <2> QED BY <1>4, <2>1, <2>2, ContextStep
<1> QED BY <1>2, <1>5 DEF Continues

LEMMA ContextFields ==
    ASSUME NEW values, DOMAIN values = Key, NEW c, ContextSound(c, values), NEW s \in Service
    PROVE  /\ IsContext(c) /\ DOMAIN c.pend \subseteq Key
           /\ c.xfers \in Seq(Xfer) /\ c.provided \subseteq Service \X Hash /\ c.newId \in Public
           /\ DOMAIN Patched(c.pend, values) = Key
           /\ Sound(Patched(c.pend, values), s)
           /\ Acct(s) \in Key
  BY ViewDomain, KeysTyped DEF ContextSound

\* A context with another account of s.
LEMMA WithAccountFacts ==
    ASSUME NEW values, DOMAIN values = Key, NEW c, ContextSound(c, values),
           NEW s \in Service, NEW a
    PROVE  LET d == WithAccount(c, s, a)
               u == Patched(d.pend, values)
               v == Patched(c.pend, values)
           IN  /\ IsContext(d) /\ d.newId = c.newId /\ DOMAIN d.pend \subseteq Key
               /\ d.xfers = c.xfers /\ d.provided = c.provided
               /\ Differ(u, v, {Acct(s)}) /\ u[Acct(s)] = a
               /\ SameItems(u, v, s) /\ SameRequests(u, v, s)
<1> DEFINE d == WithAccount(c, s, a)
           ch == Only(Acct(s), a)
           u == Patched(d.pend, values)
           v == Patched(c.pend, values)
<1>1. /\ IsContext(c) /\ DOMAIN c.pend \subseteq Key /\ DOMAIN v = Key /\ Acct(s) \in Key
  BY ContextFields
<1>2. /\ IsContext(d) /\ d.pend = Patched(ch, c.pend)
      /\ d.xfers = c.xfers /\ d.provided = c.provided /\ d.newId = c.newId
  BY <1>1, WithFacts DEF WithAccount
<1>3. DOMAIN d.pend \subseteq Key
  <2>1. DOMAIN ch = {Acct(s)}
    BY OnlyAt
  <2>2. DOMAIN Patched(ch, c.pend) = DOMAIN ch \cup DOMAIN c.pend
    BY PatchedAt
  <2> QED BY <1>1, <1>2, <2>1, <2>2
<1>4. u = Patched(ch, v)
  BY <1>2, PatchedTwice
<1>5. Differ(u, v, {Acct(s)}) /\ u[Acct(s)] = a
  BY <1>1, <1>4, OneChange
<1> HIDE DEF u, v, d, ch
<1>6. SameItems(u, v, s) /\ SameRequests(u, v, s)
  BY <1>5, KeysTyped, KeysDiffer DEF Differ, SameItems, SameRequests
<1> QED BY <1>2, <1>3, <1>5, <1>6 DEF d, u, v

LEMMA CallTransfer ==
    ASSUME NEW values, DOMAIN values = Key, NEW c, ContextSound(c, values),
           NEW s \in Service, Exists(Patched(c.pend, values), s),
           NEW d \in Service, NEW amount \in Nat,
           CanTransfer(Patched(c.pend, values), s, d, amount)
    PROVE  Continues(Transfer(Patched(c.pend, values), c, s, d, amount), c, values, s)
<1> DEFINE v == Patched(c.pend, values)
           o == v[Acct(s)]
           bal == o.bal - amount
           a == [o EXCEPT !.bal = @ - amount]
           w == WithAccount(c, s, a)
           n == Transfer(v, c, s, d, amount)
           u == Patched(n.pend, values)
<1>1. Sound(v, s) /\ o \in LooseAccount
  BY ContextFields, SoundFacts
<1>2. /\ IsContext(w) /\ w.newId = c.newId /\ DOMAIN w.pend \subseteq Key
      /\ w.xfers = c.xfers /\ w.provided = c.provided
      /\ Differ(Patched(w.pend, values), v, {Acct(s)}) /\ Patched(w.pend, values)[Acct(s)] = a
      /\ SameItems(Patched(w.pend, values), v, s) /\ SameRequests(Patched(w.pend, values), v, s)
  BY WithAccountFacts
<1>3. c.xfers \in Seq(Xfer) /\ c.provided \subseteq Service \X Hash
  BY ContextFields
<1>4. n = [w EXCEPT !.xfers = Append(@, [to |-> d, amount |-> amount])]
  BY DEF Transfer
<1>5. bal \in Int /\ bal >= Threshold(o)
  <2>1. o.bal \in Int
    BY <1>1 DEF LooseAccount
  <2> QED BY <2>1 DEF CanTransfer
<1>6. a = [o EXCEPT !.bal = bal, !.code = o.code] /\ o.code \in Hash \cup Service
  <2> HIDE DEF o
  <2> QED BY <1>1 DEF LooseAccount
<1> HIDE DEF w, a
<1>7. /\ IsContext(n) /\ n.newId = w.newId /\ n.pend = w.pend /\ n.provided = w.provided
      /\ n.xfers = Append(w.xfers, [to |-> d, amount |-> amount])
  <2> HIDE DEF n
  <2> QED BY <1>2, <1>4 DEF IsContext
<1>8. n.xfers \in Seq(Xfer)
  <2>1. [to |-> d, amount |-> amount] \in Xfer
    BY DEF Xfer
  <2> QED BY <1>2, <1>3, <1>7, <2>1
<1>9. /\ Differ(u, v, {Acct(s)}) /\ u[Acct(s)] = a /\ SameItems(u, v, s) /\ SameRequests(u, v, s)
  BY <1>2, <1>7
<1>10. Sound(u, s) /\ Exists(u, s)
  <2>1. u[Acct(s)] = [v[Acct(s)] EXCEPT !.bal = bal, !.code = o.code]
    BY <1>6, <1>9
  <2> DEFINE code == o.code
  <2>2. code \in Hash \cup Service /\ u[Acct(s)] = [v[Acct(s)] EXCEPT !.bal = bal, !.code = code]
        /\ bal \in Int /\ bal >= Threshold(v[Acct(s)])
    BY <1>5, <1>6, <2>1
  <2>3. Exists(v, s)
    OBVIOUS
  <2> HIDE DEF u, v, bal, code
  <2> QED BY ONLY <1>1, <1>9, <2>2, <2>3, SoundBalance
<1>11. \A x \in {Acct(s)} : Owner(x) = s
  BY Owners
<1> HIDE DEF n
<1>12. n.newId = c.newId /\ DOMAIN n.pend \subseteq Key /\ n.provided \subseteq Service \X Hash
  BY <1>2, <1>3, <1>7
<1> DEFINE K == {Acct(s)}
<1>13. Differ(u, v, K) /\ \A x \in K : Owner(x) = s
  BY <1>9, <1>11
<1> HIDE DEF K
<1>14. Continues(n, c, values, s)
  BY <1>7, <1>8, <1>10, <1>12, <1>13, OwnChange
<1> QED BY <1>14 DEF n

LEMMA CallUpgrade ==
    ASSUME NEW values, DOMAIN values = Key, NEW c, ContextSound(c, values),
           NEW s \in Service, Exists(Patched(c.pend, values), s), NEW code \in Hash \cup Service
    PROVE  Continues(Upgrade(Patched(c.pend, values), c, s, code), c, values, s)
<1> DEFINE v == Patched(c.pend, values)
           o == v[Acct(s)]
           a == [o EXCEPT !.code = code]
           n == WithAccount(c, s, a)
           u == Patched(n.pend, values)
           bal == o.bal
           K == {Acct(s)}
<1>1. Sound(v, s) /\ o \in LooseAccount /\ o.bal >= Threshold(o)
  BY ContextFields, SoundFacts
<1>2. /\ IsContext(n) /\ n.newId = c.newId /\ DOMAIN n.pend \subseteq Key
      /\ n.xfers = c.xfers /\ n.provided = c.provided
      /\ Differ(u, v, {Acct(s)}) /\ u[Acct(s)] = a
      /\ SameItems(u, v, s) /\ SameRequests(u, v, s)
  BY WithAccountFacts
<1>3. c.xfers \in Seq(Xfer) /\ c.provided \subseteq Service \X Hash
  BY ContextFields
<1>4. a = [o EXCEPT !.bal = bal, !.code = code] /\ bal \in Int
  <2> HIDE DEF o
  <2> QED BY <1>1 DEF LooseAccount
<1>5. Differ(u, v, K) /\ \A x \in K : Owner(x) = s
  BY <1>2, Owners
<1>6. n = Upgrade(v, c, s, code)
  BY DEF Upgrade
<1>7. u[Acct(s)] = [v[Acct(s)] EXCEPT !.bal = bal, !.code = code] /\ bal >= Threshold(v[Acct(s)])
  BY <1>1, <1>2, <1>4
<1> HIDE DEF n, a, K, bal
<1>8. Sound(u, s) /\ Exists(u, s)
  <2>1. Exists(v, s) /\ code \in Hash \cup Service
    OBVIOUS
  <2> HIDE DEF u, v
  <2> QED BY ONLY <1>1, <1>2, <1>4, <1>7, <2>1, SoundBalance
<1>9. Continues(n, c, values, s)
  BY <1>2, <1>3, <1>5, <1>8, OwnChange
<1> QED BY <1>6, <1>9

\* A context d that has the values of ch and account a of s on top of those of c.
OnTop(d, c, values, ch, s, a) ==
    LET u == Patched(d.pend, values)
        v == Patched(c.pend, values)
    IN  /\ IsContext(d) /\ d.newId = c.newId /\ DOMAIN d.pend \subseteq Key
        /\ d.xfers = c.xfers /\ d.provided = c.provided
        /\ Differ(u, v, DOMAIN ch \cup {Acct(s)}) /\ u[Acct(s)] = a
        /\ \A x \in DOMAIN ch : u[x] = ch[x]
LEMMA WithMapsFacts ==
    ASSUME NEW values, DOMAIN values = Key, NEW c, ContextSound(c, values),
           NEW s \in Service, NEW a, NEW ch, DOMAIN ch \subseteq Key, Acct(s) \notin DOMAIN ch
    PROVE  OnTop(WithAccount(With(c, ch), s, a), c, values, ch, s, a)
<1> DEFINE e == With(c, ch)
           one == Only(Acct(s), a)
           d == WithAccount(e, s, a)
           u == Patched(d.pend, values)
           v == Patched(c.pend, values)
<1>1. /\ IsContext(c) /\ DOMAIN c.pend \subseteq Key /\ DOMAIN v = Key /\ Acct(s) \in Key
  BY ContextFields
<1>2. /\ IsContext(e) /\ e.pend = Patched(ch, c.pend)
      /\ e.xfers = c.xfers /\ e.provided = c.provided /\ e.newId = c.newId
  BY <1>1, WithFacts
<1> HIDE DEF e
<1>3. /\ IsContext(d) /\ d.pend = Patched(one, e.pend)
      /\ d.xfers = e.xfers /\ d.provided = e.provided /\ d.newId = e.newId
  BY <1>2, WithFacts DEF WithAccount
<1>4. DOMAIN d.pend \subseteq Key
  <2>1. DOMAIN one = {Acct(s)}
    BY OnlyAt
  <2>2. DOMAIN Patched(one, e.pend) = DOMAIN one \cup DOMAIN e.pend
    BY PatchedAt
  <2>3. DOMAIN Patched(ch, c.pend) = DOMAIN ch \cup DOMAIN c.pend
    BY PatchedAt
  <2> QED BY <1>1, <1>2, <1>3, <2>1, <2>2, <2>3
<1>5. u = Patched(one, Patched(ch, v))
  <2>1. u = Patched(one, Patched(e.pend, values))
    BY <1>3, PatchedTwice
  <2>2. Patched(e.pend, values) = Patched(ch, v)
    BY <1>2, PatchedTwice
  <2> QED BY <2>1, <2>2
<1>6. /\ Differ(u, v, DOMAIN ch \cup {Acct(s)})
      /\ u[Acct(s)] = a /\ \A x \in DOMAIN ch : u[x] = ch[x]
  <2> HIDE DEF v
  <2> QED BY <1>1, <1>5, AndAccount
<1> HIDE DEF d
<1>7. /\ d.newId = c.newId /\ d.xfers = c.xfers /\ d.provided = c.provided
  BY <1>2, <1>3
<1>8. OnTop(d, c, values, ch, s, a)
  BY <1>3, <1>4, <1>6, <1>7 DEF OnTop
<1> QED BY <1>8 DEF d, e

LEMMA CallWrite ==
    ASSUME NEW values, DOMAIN values = Key, NEW c, ContextSound(c, values),
           NEW s \in Service, Exists(Patched(c.pend, values), s),
           NEW k \in Item, NEW size \in Nat, CanWrite(Patched(c.pend, values), s, k, size)
    PROVE  Continues(Write(Patched(c.pend, values), c, s, k, size), c, values, s)
<1> DEFINE v == Patched(c.pend, values)
           item == IF size = 0 THEN Missing ELSE size
           ch == Only(Stored(s, k), item)
           a == Written(v, s, k, size)
           n == WithAccount(With(c, ch), s, a)
           u == Patched(n.pend, values)
           K == DOMAIN ch \cup {Acct(s)}
<1>1. Sound(v, s) /\ c.xfers \in Seq(Xfer) /\ c.provided \subseteq Service \X Hash
  BY ContextFields
<1>2. DOMAIN ch = {Stored(s, k)} /\ ch[Stored(s, k)] = item
  BY OnlyAt
<1>3. DOMAIN ch \subseteq Key /\ Acct(s) \notin DOMAIN ch
  BY <1>2, KeysTyped, KeysDiffer
<1> HIDE DEF ch, a
<1>4. /\ IsContext(n) /\ n.newId = c.newId /\ DOMAIN n.pend \subseteq Key
      /\ n.xfers = c.xfers /\ n.provided = c.provided
      /\ Differ(u, v, DOMAIN ch \cup {Acct(s)}) /\ u[Acct(s)] = a
      /\ \A x \in DOMAIN ch : u[x] = ch[x]
  <2>1. OnTop(n, c, values, ch, s, a)
    BY <1>3, WithMapsFacts
  <2> HIDE DEF n
  <2> QED BY <2>1 DEF OnTop
<1>5. n = Write(v, c, s, k, size)
  BY DEF Write, ch, a
<1>6. K = {Stored(s, k), Acct(s)}
  BY <1>2
<1>7. Differ(u, v, K) /\ \A x \in K : Owner(x) = s
  BY <1>4, <1>6, Owners
<1> HIDE DEF n, K, item
<1>8. Sound(u, s) /\ Exists(u, s)
  <2>1. u[Stored(s, k)] = (IF size = 0 THEN Missing ELSE size)
    BY <1>2, <1>4 DEF item
  <2>2. u[Acct(s)] = Written(v, s, k, size)
    BY <1>4 DEF a
  <2>3. \A j \in Item \ {k} : u[Stored(s, j)] = v[Stored(s, j)]
    BY <1>6, <1>7, KeysTyped, KeysDiffer DEF Differ
  <2>4. SameRequests(u, v, s)
    BY <1>6, <1>7, KeysTyped, KeysDiffer DEF Differ, SameRequests
  <2>5. Exists(v, s) /\ CanWrite(v, s, k, size)
    OBVIOUS
  <2> HIDE DEF u, v
  <2> QED BY <1>1, <2>1, <2>2, <2>3, <2>4, <2>5, SoundWrite
<1>9. Continues(n, c, values, s)
  BY <1>1, <1>4, <1>7, <1>8, OwnChange
<1> QED BY <1>5, <1>9

\* solicit and forget: context n has another history of the request h of s.
LEMMA CallHistory ==
    ASSUME NEW values, DOMAIN values = Key, NEW c, ContextSound(c, values),
           NEW s \in Service, Exists(Patched(c.pend, values), s), NEW r \in Request,
           NEW n, IsContext(n), n.newId = c.newId, DOMAIN n.pend \subseteq Key,
           n.xfers = c.xfers, n.provided = c.provided,
           NEW u, u = Patched(n.pend, values), NEW v, v = Patched(c.pend, values),
           Differ(u, v, {Acct(s), Avail(s, r), Blob(s, r[1])}),
           u[Avail(s, r)] \in Seq(Nat) \cup {Missing},
           u[Blob(s, r[1])] # Missing => v[Blob(s, r[1])] # Missing,
           r = Answerable(r[1]) /\ u[Blob(s, r[1])] # Missing => u[Avail(s, r)] \notin {Missing, <<>>},
           NEW change \in Int, change = RequestCount(u, s, r) - RequestCount(v, s, r),
           NEW a, u[Acct(s)] = a,
           \/ change = 0 /\ a = v[Acct(s)]
           \/ a = Grown(v[Acct(s)], 2 * change, change * PreimageOctets(r[2])),
           a.bal >= Threshold(a)
    PROVE  Continues(n, c, values, s)
<1> DEFINE K == {Acct(s), Avail(s, r), Blob(s, r[1])}
<1>1. Sound(v, s) /\ c.xfers \in Seq(Xfer) /\ c.provided \subseteq Service \X Hash
  BY ContextFields
<1>2. Differ(u, v, K) /\ \A x \in K : Owner(x) = s
  BY Owners
<1>3. SameItems(u, v, s)
  BY KeysTyped, KeysDiffer DEF Differ, SameItems
<1>4. /\ \A j \in Request \ {r} : u[Avail(s, j)] = v[Avail(s, j)]
      /\ \A h \in Hash \ {r[1]} : u[Blob(s, h)] = v[Blob(s, h)]
  BY KeysTyped, KeysDiffer DEF Differ
<1>5. MapsTyped(v, s)
  BY <1>1, SoundFacts
<1>6. MapsTyped(u, s)
  <2>1. ItemsTyped(u, s)
    BY <1>3, <1>5 DEF MapsTyped, ItemsTyped, SameItems
  <2>2. \A j \in Request : u[Avail(s, j)] \in Seq(Nat) \cup {Missing}
    BY <1>4, <1>5 DEF MapsTyped
  <2>3. ASSUME NEW h \in Hash, u[Blob(s, h)] # Missing
        PROVE  u[Avail(s, Answerable(h))] \notin {Missing, <<>>}
    <3>1. v[Blob(s, h)] # Missing /\ Answerable(h) \in Request /\ Answerable(h)[1] = h
      BY <1>4, <2>3, RequestsTyped
    <3>2. v[Avail(s, Answerable(h))] \notin {Missing, <<>>}
      BY <1>5, <3>1 DEF MapsTyped
    <3> QED BY <1>4, <2>3, <3>1, <3>2
  <2> QED BY <2>1, <2>2, <2>3 DEF MapsTyped
<1>7. Sound(u, s) /\ Exists(u, s)
  <2>1. Exists(v, s)
    OBVIOUS
  <2> QED BY <1>1, <1>3, <1>4, <1>6, <2>1, SoundRequest
<1> HIDE DEF K
<1> QED BY <1>1, <1>2, <1>7, OwnChange

LEMMA CallSolicit ==
    ASSUME NEW values, DOMAIN values = Key, NEW c, ContextSound(c, values),
           NEW s \in Service, Exists(Patched(c.pend, values), s),
           NEW r \in Request, NEW t \in Nat, CanSolicit(Patched(c.pend, values), s, r)
    PROVE  Continues(Solicit(Patched(c.pend, values), c, s, r, t), c, values, s)
<1> DEFINE v == Patched(c.pend, values)
           old == v[Avail(s, r)]
           hist == IF old = Missing THEN <<>> ELSE Append(old, t)
           ch == Only(Avail(s, r), hist)
           a == Soliciting(v, s, r)
           n == WithAccount(With(c, ch), s, a)
           u == Patched(n.pend, values)
           change == IF old = Missing THEN 1 ELSE 0
           size == PreimageOctets(r[2])
<1>1. Sound(v, s) /\ MapsTyped(v, s)
  BY ContextFields, SoundFacts
<1>2. DOMAIN ch = {Avail(s, r)} /\ ch[Avail(s, r)] = hist
  BY OnlyAt
<1>3. DOMAIN ch \subseteq Key /\ Acct(s) \notin DOMAIN ch
  BY <1>2, KeysTyped, KeysDiffer
<1>4. n = Solicit(v, c, s, r, t)
  BY DEF Solicit
<1>5. hist \in Seq(Nat) /\ (old # Missing => hist # <<>>)
  <2>1. old \in Seq(Nat) \cup {Missing}
    BY <1>1 DEF MapsTyped
  <2> HIDE DEF old
  <2>2. old \in Seq(Nat) => Append(old, t) \in Seq(Nat) /\ Append(old, t) # <<>>
    OBVIOUS
  <2>3. <<>> \in Seq(Nat)
    OBVIOUS
  <2> QED BY <2>1, <2>2, <2>3
<1>6. hist # Missing
  <2> HIDE DEF hist
  <2> QED BY <1>5, MissingAssumption, Zenon
<1>8. old = Missing => a = Grown(v[Acct(s)], 2, size)
  BY DEF Soliciting
<1>9. old # Missing => a = v[Acct(s)]
  BY DEF Soliciting
<1>10. a.bal >= Threshold(a)
  BY DEF CanSolicit
<1> HIDE DEF ch, a, hist
<1>11. OnTop(n, c, values, ch, s, a)
  BY <1>3, WithMapsFacts
<1> HIDE DEF n
<1>12. /\ IsContext(n) /\ n.newId = c.newId /\ DOMAIN n.pend \subseteq Key
       /\ n.xfers = c.xfers /\ n.provided = c.provided
       /\ Differ(u, v, {Avail(s, r), Acct(s)}) /\ u[Acct(s)] = a /\ u[Avail(s, r)] = hist
  BY <1>2, <1>11 DEF OnTop
<1>13. u[Blob(s, r[1])] = v[Blob(s, r[1])]
  BY <1>12, KeysTyped, KeysDiffer, RequestsTyped DEF Differ
<1>14. Differ(u, v, {Acct(s), Avail(s, r), Blob(s, r[1])})
  BY <1>12 DEF Differ
<1> HIDE DEF u
<1>15. /\ u[Blob(s, r[1])] # Missing => v[Blob(s, r[1])] # Missing
       /\ r = Answerable(r[1]) /\ u[Blob(s, r[1])] # Missing => u[Avail(s, r)] \notin {Missing, <<>>}
  <2>1. r = Answerable(r[1]) /\ v[Blob(s, r[1])] # Missing => old \notin {Missing, <<>>}
    BY <1>1, RequestsTyped DEF MapsTyped
  <2> QED BY <1>5, <1>6, <1>12, <1>13, <2>1
<1>16. change \in Int /\ change = RequestCount(u, s, r) - RequestCount(v, s, r)
  BY <1>6, <1>12 DEF RequestCount
<1>17. \/ change = 0 /\ a = v[Acct(s)]
       \/ a = Grown(v[Acct(s)], 2 * change, change * size)
  <2>1. size \in Nat
    BY RequestFacts
  <2> HIDE DEF size
  <2>2. 1 * size = size
    BY <2>1
  <2> QED BY <1>8, <1>9, <2>2
<1>18. u = Patched(n.pend, values) /\ u[Avail(s, r)] \in Seq(Nat) \cup {Missing}
  BY <1>5, <1>12 DEF u
<1>19. Continues(n, c, values, s)
  <2>1. Exists(v, s) /\ v = Patched(c.pend, values)
    OBVIOUS
  <2> HIDE DEF v, change
  <2>2. Exists(Patched(c.pend, values), s)
    OBVIOUS
  <2> QED BY <1>10, <1>12, <1>14, <1>15, <1>16, <1>17, <1>18, <2>1, <2>2, CallHistory DEF size
<1> QED BY <1>4, <1>19

\* A context d that has value x of a key on top of the values of c.
HasOne(d, c, values, key, x) ==
    LET u == Patched(d.pend, values)
        v == Patched(c.pend, values)
    IN  /\ IsContext(d) /\ d.newId = c.newId /\ DOMAIN d.pend \subseteq Key
        /\ d.xfers = c.xfers /\ d.provided = c.provided
        /\ Differ(u, v, {key}) /\ u[key] = x
LEMMA WithOneFacts ==
    ASSUME NEW values, DOMAIN values = Key, NEW c, ContextSound(c, values),
           NEW key \in Key, NEW x
    PROVE  HasOne(With(c, Only(key, x)), c, values, key, x)
<1> DEFINE ch == Only(key, x)
           d == With(c, ch)
           u == Patched(d.pend, values)
           v == Patched(c.pend, values)
<1>1. IsContext(c) /\ DOMAIN c.pend \subseteq Key
  BY DEF ContextSound
<1>2. /\ IsContext(d) /\ d.pend = Patched(ch, c.pend)
      /\ d.xfers = c.xfers /\ d.provided = c.provided /\ d.newId = c.newId
  BY <1>1, WithFacts
<1>3. DOMAIN d.pend \subseteq Key
  <2>1. DOMAIN ch = {key}
    BY OnlyAt
  <2>2. DOMAIN Patched(ch, c.pend) = DOMAIN ch \cup DOMAIN c.pend
    BY PatchedAt
  <2> QED BY <1>1, <1>2, <2>1, <2>2
<1>4. u = Patched(ch, v)
  BY <1>2, PatchedTwice
<1>5. DOMAIN v = Key
  BY ViewDomain
<1>6. Differ(u, v, {key}) /\ u[key] = x
  BY <1>4, <1>5, OneChange
<1> HIDE DEF d
<1>7. HasOne(d, c, values, key, x)
  BY <1>2, <1>3, <1>6 DEF HasOne
<1> QED BY <1>7 DEF d

\* forget of a request that goes at once.
LEMMA CallForgetDropped ==
    ASSUME NEW values, DOMAIN values = Key, NEW c, ContextSound(c, values),
           NEW s \in Service, Exists(Patched(c.pend, values), s),
           NEW r \in Request, NEW t \in Nat, CanForget(Patched(c.pend, values), s, r, t),
           Droppable(Patched(c.pend, values)[Avail(s, r)], t)
    PROVE  Continues(Forget(Patched(c.pend, values), c, s, r, t), c, values, s)
<1> DEFINE v == Patched(c.pend, values)
           o == v[Acct(s)]
           size == PreimageOctets(r[2])
           ch == [key \in {Avail(s, r), Blob(s, r[1])} |-> Missing]
           a == Grown(o, -2, -size)
           n == WithAccount(With(c, ch), s, a)
           u == Patched(n.pend, values)
           change == -1
<1>1. /\ Sound(v, s) /\ MapsTyped(v, s) /\ o \in LooseAccount
      /\ o.bal >= Threshold(o)
  BY ContextFields, SoundFacts
<1>2. /\ DOMAIN ch = {Avail(s, r), Blob(s, r[1])}
      /\ ch[Avail(s, r)] = Missing /\ ch[Blob(s, r[1])] = Missing
  OBVIOUS
<1>3. DOMAIN ch \subseteq Key /\ Acct(s) \notin DOMAIN ch
  BY <1>2, KeysTyped, KeysDiffer, RequestsTyped
<1>4. n = Forget(v, c, s, r, t)
  BY DEF Forget
<1>5. size \in Nat
  BY RequestFacts
<1> HIDE DEF size
<1>6. a.bal >= Threshold(a)
  <2>1. Threshold(a) <= Threshold(o)
    BY <1>1, <1>5, ThresholdShrinks
  <2>2. -2 \in Int /\ -size \in Int
    BY <1>5
  <2>3. a \in LooseAccount /\ a.bal = o.bal
    BY <1>1, <2>2, GrownFacts
  <2>4. Threshold(a) \in Int /\ Threshold(o) \in Int /\ o.bal \in Int
    BY <1>1, <2>3, ThresholdFacts DEF LooseAccount
  <2> HIDE DEF a, o
  <2> QED BY <1>1, <2>1, <2>3, <2>4
<1>7. a = Grown(v[Acct(s)], 2 * change, change * size)
  <2>1. 2 * change = -2 /\ change * size = -size
    BY <1>5
  <2> QED BY <2>1, Zenon
<1> HIDE DEF ch, a
<1>8. OnTop(n, c, values, ch, s, a)
  BY <1>3, WithMapsFacts
<1> HIDE DEF n
<1>9. /\ IsContext(n) /\ n.newId = c.newId /\ DOMAIN n.pend \subseteq Key
      /\ n.xfers = c.xfers /\ n.provided = c.provided
      /\ Differ(u, v, {Avail(s, r), Blob(s, r[1]), Acct(s)}) /\ u[Acct(s)] = a
      /\ u[Avail(s, r)] = Missing /\ u[Blob(s, r[1])] = Missing
  BY <1>2, <1>8 DEF OnTop
<1>10. Differ(u, v, {Acct(s), Avail(s, r), Blob(s, r[1])})
  BY <1>9 DEF Differ
<1> HIDE DEF u
<1>11. change \in Int /\ change = RequestCount(u, s, r) - RequestCount(v, s, r)
  BY <1>9 DEF RequestCount, CanForget
<1>12. u = Patched(n.pend, values) /\ u[Avail(s, r)] \in Seq(Nat) \cup {Missing}
       /\ u[Blob(s, r[1])] = Missing
  BY <1>9 DEF u
<1>13. Continues(n, c, values, s)
  <2>1. v = Patched(c.pend, values) /\ Exists(Patched(c.pend, values), s)
    OBVIOUS
  <2> HIDE DEF v, change
  <2> QED BY <1>6, <1>7, <1>9, <1>10, <1>11, <1>12, <2>1, CallHistory DEF size
<1> QED BY <1>4, <1>13

LEMMA CallForget ==
    ASSUME NEW values, DOMAIN values = Key, NEW c, ContextSound(c, values),
           NEW s \in Service, Exists(Patched(c.pend, values), s),
           NEW r \in Request, NEW t \in Nat, CanForget(Patched(c.pend, values), s, r, t)
    PROVE  Continues(Forget(Patched(c.pend, values), c, s, r, t), c, values, s)
<1> DEFINE v == Patched(c.pend, values)
           old == v[Avail(s, r)]
           hist == IF Len(old) = 1 THEN Append(old, t) ELSE <<old[3], t>>
           n == With(c, Only(Avail(s, r), hist))
           u == Patched(n.pend, values)
           a == v[Acct(s)]
           change == 0
<1>1. CASE Droppable(old, t)
  BY <1>1, CallForgetDropped
<1>2. CASE ~Droppable(old, t)
  <2>1. Sound(v, s) /\ MapsTyped(v, s) /\ a.bal >= Threshold(a)
    BY ContextFields, SoundFacts
  <2>2. old \in Seq(Nat) /\ old # Missing /\ old # <<>> /\ Len(old) \in {1, 3}
    BY <1>2, <2>1 DEF MapsTyped, CanForget, Droppable
  <2>3. hist \in Seq(Nat) /\ hist # <<>>
    <3> HIDE DEF old
    <3>1. CASE Len(old) = 1
      BY <2>2, <3>1
    <3>2. CASE Len(old) = 3
      <4>1. 3 \in 1 .. Len(old) /\ old \in Seq(Nat)
        BY <2>2, <3>2
      <4>2. old[3] \in Nat
        BY <4>1
      <4> QED BY <3>2, <4>2
    <3> QED BY <2>2, <3>1, <3>2
  <2>4. n = Forget(v, c, s, r, t)
    BY <1>2 DEF Forget
  <2>5. hist # Missing
    <3> HIDE DEF hist
    <3> QED BY <2>3, MissingAssumption, Zenon
  <2> HIDE DEF hist
  <2>6. /\ IsContext(n) /\ n.newId = c.newId /\ DOMAIN n.pend \subseteq Key
        /\ n.xfers = c.xfers /\ n.provided = c.provided
        /\ Differ(u, v, {Avail(s, r)}) /\ u[Avail(s, r)] = hist
    <3>1. Avail(s, r) \in Key
      BY KeysTyped
    <3>2. HasOne(n, c, values, Avail(s, r), hist)
      BY <3>1, WithOneFacts
    <3> HIDE DEF n
    <3> QED BY <3>2 DEF HasOne
  <2> HIDE DEF n
  <2>7. u[Blob(s, r[1])] = v[Blob(s, r[1])] /\ u[Acct(s)] = a
    BY <2>6, KeysTyped, KeysDiffer, RequestsTyped DEF Differ
  <2>8. Differ(u, v, {Acct(s), Avail(s, r), Blob(s, r[1])})
    BY <2>6 DEF Differ
  <2>9. /\ u[Blob(s, r[1])] # Missing => v[Blob(s, r[1])] # Missing
        /\ u[Avail(s, r)] \notin {Missing, <<>>}
    <3> HIDE DEF u
    <3> QED BY <2>3, <2>5, <2>6, <2>7
  <2>10. change \in Int /\ change = RequestCount(u, s, r) - RequestCount(v, s, r)
    <3> HIDE DEF u
    <3> QED BY <2>2, <2>5, <2>6 DEF RequestCount
  <2>11. u = Patched(n.pend, values) /\ u[Avail(s, r)] \in Seq(Nat) \cup {Missing}
    BY <2>3, <2>6
  <2>12. change = 0 /\ a = v[Acct(s)] /\ v = Patched(c.pend, values)
         /\ Exists(Patched(c.pend, values), s)
    OBVIOUS
  <2>13. Continues(n, c, values, s)
    <3> HIDE DEF u, v, change, a
    <3> QED BY <2>1, <2>6, <2>7, <2>8, <2>9, <2>10, <2>11, <2>12, CallHistory
  <2> QED BY <2>4, <2>13
<1> QED BY <1>1, <1>2

LEMMA CallProvide ==
    ASSUME NEW values, DOMAIN values = Key, NEW c, ContextSound(c, values),
           NEW s \in Service, Exists(Patched(c.pend, values), s),
           NEW d \in Service, NEW h \in Hash
    PROVE  Continues(Provide(c, d, h), c, values, s)
<1> DEFINE n == Provide(c, d, h)
           one == {<<d, h>>}
<1>1. IsContext(c) /\ c.provided \subseteq Service \X Hash
  BY DEF ContextSound
<1>2. n = [c EXCEPT !.provided = @ \cup one]
  BY DEF Provide
<1>3. one \subseteq Service \X Hash
  OBVIOUS
<1> HIDE DEF n, one
<1>4. /\ IsContext(n) /\ n.pend = c.pend /\ n.xfers = c.xfers /\ n.newId = c.newId
      /\ n.provided = c.provided \cup one
  BY <1>1, <1>2 DEF IsContext
<1>5. ContextSound(n, values)
  BY <1>1, <1>3, <1>4 DEF ContextSound
<1>6. Continues(n, c, values, s)
  BY <1>4, <1>5 DEF Continues
<1> QED BY <1>6 DEF n

LEMMA CallEject ==
    ASSUME NEW values, DOMAIN values = Key, NEW c, ContextSound(c, values),
           NEW s \in Service, Exists(Patched(c.pend, values), s),
           NEW d \in Service, NEW r \in Request, NEW t,
           CanEject(Patched(c.pend, values), s, d, r, t)
    PROVE  Continues(Eject(Patched(c.pend, values), c, s, d, r), c, values, s)
<1> DEFINE v == Patched(c.pend, values)
           o == v[Acct(s)]
           bal == o.bal + v[Acct(d)].bal
           a == [o EXCEPT !.bal = @ + v[Acct(d)].bal]
           ch == [key \in {Blob(d, r[1]), Avail(d, r), Acct(d)} |-> Missing]
           n == WithAccount(With(c, ch), s, a)
           u == Patched(n.pend, values)
           K == {Blob(d, r[1]), Avail(d, r), Acct(d), Acct(s)}
<1>1. /\ Sound(v, s) /\ o \in LooseAccount /\ o.bal >= Threshold(o)
      /\ c.xfers \in Seq(Xfer) /\ c.provided \subseteq Service \X Hash /\ c.newId \in Public
      /\ ~Exists(v, c.newId)
  BY ContextFields, SoundFacts DEF ContextSound
<1>2. Sound(v, d) /\ Exists(v, d) /\ d # s /\ v[Acct(d)] \in Account
  BY ContextFields, SoundFacts DEF CanEject, Exists
<1>3. bal \in Int /\ bal >= Threshold(o) /\ a = [o EXCEPT !.bal = bal, !.code = o.code]
      /\ o.code \in Hash \cup Service
  <2>1. v[Acct(d)].bal \in Nat
    BY <1>2 DEF Account
  <2>2. o.bal \in Int /\ Threshold(o) \in Int
    BY <1>1, ThresholdFacts DEF LooseAccount
  <2> DEFINE b == v[Acct(d)].bal
  <2>3. bal = o.bal + b /\ a = [o EXCEPT !.bal = @ + b] /\ b \in Nat
    BY <2>1
  <2> HIDE DEF o, b, a, bal
  <2>4. bal \in Int /\ bal >= Threshold(o)
    BY <1>1, <2>2, <2>3
  <2> QED BY <1>1, <2>3, <2>4 DEF LooseAccount
<1>4. /\ DOMAIN ch = {Blob(d, r[1]), Avail(d, r), Acct(d)}
      /\ ch[Blob(d, r[1])] = Missing /\ ch[Avail(d, r)] = Missing /\ ch[Acct(d)] = Missing
  OBVIOUS
<1>5. DOMAIN ch \subseteq Key /\ Acct(s) \notin DOMAIN ch
  BY <1>2, <1>4, KeysTyped, KeysDiffer, RequestsTyped
<1>6. n = Eject(v, c, s, d, r)
  BY DEF Eject
<1> HIDE DEF ch, a, bal
<1>7. OnTop(n, c, values, ch, s, a)
  BY <1>5, WithMapsFacts
<1> HIDE DEF n
<1>8. /\ IsContext(n) /\ n.newId = c.newId /\ DOMAIN n.pend \subseteq Key
      /\ n.xfers = c.xfers /\ n.provided = c.provided
      /\ Differ(u, v, DOMAIN ch \cup {Acct(s)}) /\ u[Acct(s)] = a
      /\ u[Blob(d, r[1])] = Missing /\ u[Avail(d, r)] = Missing /\ u[Acct(d)] = Missing
  BY <1>4, <1>7 DEF OnTop
<1>9. Differ(u, v, K)
  BY <1>4, <1>8 DEF Differ
<1>10. Sound(u, d) /\ ~Exists(u, d)
  <2>1. SameItems(u, v, d)
    BY <1>9, KeysTyped, KeysDiffer DEF Differ, SameItems
  <2>2. /\ \A j \in Request \ {r} : u[Avail(d, j)] = v[Avail(d, j)]
        /\ \A h \in Hash \ {r[1]} : u[Blob(d, h)] = v[Blob(d, h)]
    BY <1>9, KeysTyped, KeysDiffer DEF Differ
  <2>3. CanEject(v, s, d, r, t)
    OBVIOUS
  <2> HIDE DEF u, v
  <2> QED BY <1>2, <1>8, <2>1, <2>2, <2>3, SoundEjected
<1>11. Sound(u, s) /\ Exists(u, s)
  <2>1. SameItems(u, v, s)
    BY <1>9, KeysTyped, KeysDiffer DEF Differ, SameItems
  <2>2. SameRequests(u, v, s)
    BY <1>2, <1>9, KeysTyped, KeysDiffer DEF Differ, SameRequests
  <2> DEFINE code == o.code
  <2>3. code \in Hash \cup Service /\ bal >= Threshold(v[Acct(s)])
        /\ u[Acct(s)] = [v[Acct(s)] EXCEPT !.bal = bal, !.code = code] /\ Exists(v, s)
    BY <1>3, <1>8
  <2> HIDE DEF u, v, code
  <2> QED BY ONLY <1>1, <1>3, <2>1, <2>2, <2>3, SoundBalance
<1>12. \A p \in Service \ {s, d} : Untouched(u, v, p)
  <2> TAKE p \in Service \ {s, d}
  <2>1. \A x \in K : Owner(x) # p
    BY Owners
  <2> HIDE DEF u, v, K
  <2> QED BY <1>9, <2>1, OthersUntouched
<1>13. \A p \in Service : Exists(u, p) => Exists(v, p)
  <2>1. Exists(v, s)
    OBVIOUS
  <2> QED BY <1>10, <1>12, <2>1 DEF Untouched, Exists
<1>14. n.newId \in Public /\ ~Exists(u, n.newId)
  BY <1>1, <1>8, <1>13, ServiceAssumption
<1>15. ContextSound(n, values)
  <2> DEFINE T == {s, d}
  <2>1. \A p \in T : Sound(u, p)
    BY <1>10, <1>11
  <2>2. \A p \in Service \ T : Untouched(u, v, p)
    BY <1>12
  <2> HIDE DEF T
  <2> QED BY <1>1, <1>8, <1>14, <2>1, <2>2, ContextStep
<1>16. Continues(n, c, values, s)
  BY <1>11, <1>13, <1>15 DEF Continues
<1> QED BY <1>6, <1>16

-----------------------------------------------------------------------------
(* New service ids.                                                        *)

LEMMA Remainder ==
    ASSUME NEW n \in Nat \ {0}, NEW a \in Int
    PROVE  a % n \in 0 .. n - 1 /\ \E m \in Int : a = n * m + (a % n)
<1>1. a % n \in 0 .. n - 1 /\ a \div n \in Int /\ a = n * (a \div n) + (a % n)
  OBVIOUS
<1> QED BY <1>1

\* Only 0 is a multiple of n that is smaller than n.
LEMMA SmallMultiple ==
    ASSUME NEW n \in Nat \ {0}, NEW m \in Int, NEW d \in Int, d = n * m, -n < d, d < n
    PROVE  d = 0
<1>1. CASE m >= 1
  <2>1. n * m >= n
    BY <1>1
  <2> QED BY <2>1
<1>2. CASE m <= -1
  <2>1. n * m <= -n
    BY <1>2
  <2> QED BY <2>1
<1>3. CASE m = 0
  BY <1>3
<1> QED BY <1>1, <1>2, <1>3

\* The ids that a search from id on tries differ.
LEMMA RingPositions ==
    ASSUME NEW n \in Nat \ {0}, NEW j \in Int, NEW a \in 0 .. n - 1, NEW b \in 0 .. n - 1,
           (j + a) % n = (j + b) % n
    PROVE  a = b
<1> DEFINE x == j + a
           y == j + b
<1>0. x \in Int /\ y \in Int /\ x = j + a /\ y = j + b
  OBVIOUS
<1> HIDE DEF x, y
<1>1. PICK k \in Int : x = n * k + (x % n)
  BY <1>0, Remainder
<1>2. PICK m \in Int : y = n * m + (y % n)
  BY <1>0, Remainder
<1>3. x % n \in Int
  BY <1>0, Remainder
<1> DEFINE r == x % n
           d == a - b
<1>4. r \in Int /\ j + a = n * k + r /\ j + b = n * m + r
  BY <1>0, <1>1, <1>2, <1>3
<1> HIDE DEF r
<1>5. d = n * (k - m) /\ d \in Int /\ -n < d /\ d < n /\ k - m \in Int
  BY <1>4
<1> HIDE DEF d
<1>6. d = 0
  BY <1>5, SmallMultiple
<1> QED BY <1>6 DEF d

\* A search that starts 42 positions on does not come back before its last 42 % n.
LEMMA RingStep ==
    ASSUME NEW n \in Nat \ {0}, NEW r \in 0 .. n - 1, NEW q \in Int, q = 42 % n, q # 0,
           NEW a \in 0 .. n - q - 1,
           NEW i \in Int, i = (r + 42) % n
    PROVE  (i + a) % n # r
<1> SUFFICES ASSUME (i + a) % n = r PROVE FALSE
  OBVIOUS
<1> DEFINE x == r + 42
           y == i + a
           z == 42
<1>0. x \in Int /\ y \in Int /\ z \in Int
  OBVIOUS
<1>1. PICK k \in Int : x = n * k + (x % n)
  <2> HIDE DEF x
  <2> QED BY <1>0, Remainder
<1>2. z % n \in 0 .. n - 1 /\ \E m \in Int : z = n * m + (z % n)
  <2> HIDE DEF z
  <2> QED BY <1>0, Remainder
<1>3. PICK m \in Int : 42 = n * m + q
  BY <1>2
<1>4. PICK l \in Int : y = n * l + (y % n)
  <2> HIDE DEF y
  <2> QED BY <1>0, Remainder
<1> DEFINE d == q + a
<1>5. r + 42 = n * k + i /\ i + a = n * l + r
  BY <1>1, <1>4
<1>6. d = n * (k + l - m) /\ d \in Int /\ 0 < d /\ d < n /\ k + l - m \in Int
  <2>1. d \in Int /\ 0 < d /\ d < n
    BY <1>2
  <2>2. q + a = n * k + n * l - n * m
    BY <1>3, <1>5
  <2> QED BY <2>1, <2>2
<1> HIDE DEF d
<1>7. -n < d
  BY <1>6
<1>8. d = 0
  BY <1>6, <1>7, SmallMultiple
<1> QED BY <1>6, <1>8

At(id, n) == FirstPublic + ((id - FirstPublic + n) % PublicIds)
UsedIds(v) == {p \in Public : Exists(v, p)}

LEMMA IdFacts ==
    /\ PublicIds \in Nat \ {0} /\ FirstPublic \in Nat /\ Public \subseteq Service
    /\ IsFiniteSet(Public) /\ Public \subseteq Nat
    /\ \A id \in Public : id - FirstPublic \in 0 .. PublicIds - 1
    /\ \A id \in Public, n \in Nat : At(id, n) \in Public
<1>1. PublicIds \in Nat \ {0} /\ FirstPublic \in Nat /\ Public \subseteq Service
  BY ServiceAssumption
<1> DEFINE last == FirstPublic + PublicIds - 1
<1>2. last \in Int /\ Public = FirstPublic .. last
  BY <1>1 DEF Public
<1>3. IsFiniteSet(Public)
  <2> HIDE DEF last
  <2> QED BY <1>1, <1>2, FS_Interval
<1>4. Public \subseteq Nat /\ \A id \in Public : id - FirstPublic \in 0 .. PublicIds - 1
  BY <1>1 DEF Public
<1>5. ASSUME NEW id \in Public, NEW n \in Nat PROVE At(id, n) \in Public
  <2> DEFINE x == id - FirstPublic + n
  <2>1. x \in Int
    BY <1>1, <1>4
  <2>2. x % PublicIds \in 0 .. PublicIds - 1
    <3> HIDE DEF x
    <3> QED BY <1>1, <2>1, Remainder
  <2> QED BY <1>1, <2>2 DEF At, Public
<1> QED BY <1>1, <1>3, <1>4, <1>5

\* check_service_id finds a free id within N steps when fewer than N are used.
LEMMA FreeId ==
    ASSUME NEW v, NEW id \in Public, NEW N \in 1 .. PublicIds, Cardinality(UsedIds(v)) < N
    PROVE  \E n \in 0 .. N - 1 :
              /\ CheckServiceId(v, id) = At(id, n)
              /\ At(id, n) \in Public /\ ~Exists(v, At(id, n))
<1> DEFINE S == {n \in 0 .. PublicIds - 1 : v[Acct(At(id, n))] = Missing}
           I == 0 .. N - 1
<1>1. PublicIds \in Nat \ {0} /\ N \in Nat \ {0}
  BY IdFacts
<1>2. \E n \in I : n \in S
  <2> SUFFICES ASSUME \A n \in I : n \notin S PROVE FALSE
    OBVIOUS
  <2> DEFINE f == [n \in I |-> At(id, n)]
             U == UsedIds(v)
  <2>1. I \subseteq 0 .. PublicIds - 1
    BY <1>1
  <2>2. f \in [I -> U]
    <3>1. \A n \in I : At(id, n) \in Public /\ v[Acct(At(id, n))] # Missing
      BY <2>1, IdFacts
    <3> QED BY <3>1 DEF UsedIds, Exists
  <2>3. IsFiniteSet(I) /\ Cardinality(I) = N
    <3> DEFINE m == N - 1
    <3>1. m \in Int /\ 0 \in Int /\ ~(0 > m) /\ m - 0 + 1 = N /\ I = 0 .. m
      BY <1>1
    <3> HIDE DEF m, I
    <3>2. IsFiniteSet(I) /\ Cardinality(I) = IF 0 > m THEN 0 ELSE m - 0 + 1
      BY <3>1, FS_Interval
    <3> QED BY <3>1, <3>2
  <2>4. IsFiniteSet(U)
    BY IdFacts, FS_Subset DEF UsedIds
  <2>5. \E x, y \in I : x # y /\ f[x] = f[y]
    <3>1. Cardinality(U) < Cardinality(I)
      BY <2>3
    <3> HIDE DEF f, U, I
    <3> QED BY <2>2, <2>3, <2>4, <3>1, FS_PigeonHole
  <2>6. PICK x \in I, y \in I : x # y /\ f[x] = f[y]
    BY <2>5
  <2>7. At(id, x) = At(id, y)
    BY <2>6
  <2> DEFINE j == id - FirstPublic
  <2>8. j \in Int /\ x \in 0 .. PublicIds - 1 /\ y \in 0 .. PublicIds - 1
    BY <2>1, IdFacts
  <2>9. (j + x) % PublicIds = (j + y) % PublicIds
    <3> DEFINE a == j + x
               b == j + y
    <3>1. a \in Int /\ b \in Int
      BY <2>8
    <3>2. FirstPublic + (a % PublicIds) = FirstPublic + (b % PublicIds)
      BY <2>7 DEF At
    <3> HIDE DEF a, b
    <3>3. a % PublicIds \in Int /\ b % PublicIds \in Int
      BY <1>1, <3>1, Remainder
    <3>4. a % PublicIds = b % PublicIds
      BY <3>2, <3>3, IdFacts
    <3> QED BY <3>4 DEF a, b
  <2> HIDE DEF j
  <2> QED BY <1>1, <2>6, <2>8, <2>9, RingPositions
<1>3. PICK n \in I : n \in S
  BY <1>2
<1>4. S \subseteq Nat /\ S # {}
  BY <1>3
<1> DEFINE m == CHOOSE x \in S : \A y \in S : x <= y
<1> HIDE DEF S
<1>5. m \in S /\ \A y \in S : m <= y
  <2>1. \E x \in S : \A y \in S : x <= y
    BY <1>4, LeastNatural
  <2> QED BY <2>1
<1>6. CheckServiceId(v, id) = At(id, m)
  BY DEF CheckServiceId, Min, At, S
<1> HIDE DEF m
<1>7. m \in 0 .. N - 1 /\ m \in Nat
  <2>1. m \in Nat /\ m <= n /\ n \in 0 .. N - 1
    BY <1>3, <1>4, <1>5
  <2> QED BY <1>1, <2>1
<1>8. ~Exists(v, At(id, m))
  BY <1>5 DEF S, Exists
<1>9. At(id, m) \in Public
  BY <1>7, IdFacts
<1> QED BY <1>6, <1>7, <1>8, <1>9

\* The id that new goes on to is another one when enough ids are left.
LEMMA NextId ==
    ASSUME NEW v, NEW id \in Public,
           Cardinality(UsedIds(v)) < PublicIds - (42 % PublicIds)
    PROVE  LET next == CheckServiceId(v, FirstPublic + ((id - FirstPublic + 42) % PublicIds))
           IN  next \in Public /\ ~Exists(v, next) /\ next # id
<1> DEFINE from == FirstPublic + ((id - FirstPublic + 42) % PublicIds)
           q == 42 % PublicIds
           N == PublicIds - q
           r == id - FirstPublic
           i == (r + 42) % PublicIds
<1>1. PublicIds \in Nat \ {0} /\ FirstPublic \in Nat /\ r \in 0 .. PublicIds - 1
  BY IdFacts
<1>2. q \in 0 .. PublicIds - 1 /\ q # 0
  <2> DEFINE z == 42
  <2>1. z \in Int
    OBVIOUS
  <2>2. z % PublicIds \in 0 .. PublicIds - 1
    <3> HIDE DEF z
    <3> QED BY <1>1, <2>1, Remainder
  <2> QED BY <2>2, ServiceAssumption
<1>3. from \in Public /\ from = At(id, 42)
  BY IdFacts DEF At
<1>4. N \in 1 .. PublicIds
  BY <1>1, <1>2
<1>5. PICK n \in 0 .. N - 1 : /\ CheckServiceId(v, from) = At(from, n)
                              /\ At(from, n) \in Public /\ ~Exists(v, At(from, n))
  <2>1. Cardinality(UsedIds(v)) < N
    OBVIOUS
  <2> HIDE DEF N, from
  <2> QED BY <1>3, <1>4, <2>1, FreeId
<1>6. At(from, n) # id
  <2>1. i \in Int
    <3> DEFINE x == r + 42
    <3>1. x \in Int
      BY <1>1
    <3>2. x % PublicIds \in Int
      <4> HIDE DEF x
      <4> QED BY <1>1, <3>1, Remainder
    <3> QED BY <3>2
  <2>2. (i + n) % PublicIds # r
    <3>1. n \in 0 .. PublicIds - q - 1 /\ q \in Int /\ q = 42 % PublicIds /\ i = (r + 42) % PublicIds
      BY <1>2
    <3> HIDE DEF q, r, i
    <3> QED BY <1>1, <1>2, <2>1, <3>1, RingStep
  <2>3. from - FirstPublic + n = i + n
    <3>1. from = FirstPublic + i
      OBVIOUS
    <3> HIDE DEF from, i
    <3> QED BY <1>1, <2>1, <3>1
  <2>4. At(from, n) = FirstPublic + ((i + n) % PublicIds)
    <3> HIDE DEF from, i
    <3> QED BY <2>3 DEF At
  <2>5. (i + n) % PublicIds \in Int
    <3> DEFINE x == i + n
    <3>1. x \in Int
      BY <2>1
    <3>2. x % PublicIds \in Int
      <4> HIDE DEF x
      <4> QED BY <1>1, <3>1, Remainder
    <3> QED BY <3>2
  <2> DEFINE z == (i + n) % PublicIds
  <2>6. z \in Int /\ z # r /\ At(from, n) = FirstPublic + z /\ id = FirstPublic + r /\ r \in Int
    BY <1>1, <2>2, <2>4, <2>5, IdFacts
  <2> HIDE DEF z, r, from
  <2> QED BY <1>1, <2>6
<1> QED BY <1>5, <1>6

LEMMA NewAccountFacts ==
    ASSUME NEW r \in Request, NEW offset \in Nat
    PROVE  LET a == NewAccount(r, offset)
           IN  a \in LooseAccount /\ a.bal = Threshold(a) /\ a.bal \in Int /\ a.bal >= 0
<1> DEFINE size == PreimageOctets(r[2])
           e == [bal |-> 0, code |-> r[1], items |-> 0, octets |-> 0, offset |-> offset]
           g == Grown(e, 2, size)
           a == NewAccount(r, offset)
<1>1. e \in LooseAccount /\ size \in Int
  BY RequestFacts, RequestsTyped DEF LooseAccount
<1>2. a = [g EXCEPT !.bal = Threshold(g)]
  BY DEF NewAccount
<1> HIDE DEF a, e, size
<1>3. g \in LooseAccount
  BY <1>1, GrownFacts
<1>4. Threshold(g) \in Int /\ Threshold(g) >= 0
  BY <1>3, ThresholdFacts
<1> HIDE DEF g
<1>5. /\ a \in LooseAccount /\ a.bal = Threshold(g)
      /\ a.items = g.items /\ a.octets = g.octets /\ a.offset = g.offset
  BY <1>2, <1>3, <1>4 DEF LooseAccount
<1>6. Threshold(a) = Threshold(g)
  BY <1>5 DEF Threshold
<1>7. a \in LooseAccount /\ a.bal = Threshold(a) /\ a.bal \in Int /\ a.bal >= 0
  BY <1>4, <1>5, <1>6
<1> QED BY <1>7 DEF a

\* As Continues, but with one account that was not there before.
Grows(d, c, values, s) ==
    /\ ContextSound(d, values)
    /\ Exists(Patched(d.pend, values), s)
    /\ \E id \in Service : \A p \in Service \ {id} :
          Exists(Patched(d.pend, values), p) => Exists(Patched(c.pend, values), p)

LEMMA ContinuesGrows ==
    ASSUME NEW d, NEW c, NEW values, NEW s \in Service, Continues(d, c, values, s)
    PROVE  Grows(d, c, values, s)
  BY DEF Continues, Grows

\* The values after new: the creator pays for the account of id.
HasNew(n, c, values, s, b, id, r, a) ==
    LET u == Patched(n.pend, values)
        v == Patched(c.pend, values)
    IN  /\ IsContext(n) /\ n.newId = c.newId /\ DOMAIN n.pend \subseteq Key
        /\ n.xfers = c.xfers /\ n.provided = c.provided
        /\ Differ(u, v, {Acct(s), Acct(id), Avail(id, r)})
        /\ u[Acct(s)] = b /\ u[Acct(id)] = a /\ u[Avail(id, r)] = <<>>
LEMMA NewValues ==
    ASSUME NEW values, DOMAIN values = Key, NEW c, ContextSound(c, values),
           NEW s \in Service, NEW id \in Service, id # s, NEW r \in Request, NEW a, NEW b
    PROVE  HasNew(With(WithAccount(WithAccount(c, s, b), id, a), Only(Avail(id, r), <<>>)),
                  c, values, s, b, id, r, a)
<1> DEFINE c1 == WithAccount(c, s, b)
           c2 == WithAccount(c1, id, a)
           n == With(c2, Only(Avail(id, r), <<>>))
           u == Patched(n.pend, values)
           v == Patched(c.pend, values)
           o1 == Only(Acct(s), b)
           o2 == Only(Acct(id), a)
           o3 == Only(Avail(id, r), <<>>)
           v1 == Patched(o1, v)
           v2 == Patched(o2, v1)
<1>1. IsContext(c) /\ DOMAIN c.pend \subseteq Key /\ DOMAIN v = Key
  BY ContextFields
<1>2. /\ IsContext(c1) /\ c1.pend = Patched(o1, c.pend)
      /\ c1.xfers = c.xfers /\ c1.provided = c.provided /\ c1.newId = c.newId
  BY <1>1, WithFacts DEF WithAccount
<1> HIDE DEF c1
<1>3. /\ IsContext(c2) /\ c2.pend = Patched(o2, c1.pend)
      /\ c2.xfers = c1.xfers /\ c2.provided = c1.provided /\ c2.newId = c1.newId
  BY <1>2, WithFacts DEF WithAccount
<1> HIDE DEF c2
<1>4. /\ IsContext(n) /\ n.pend = Patched(o3, c2.pend)
      /\ n.xfers = c2.xfers /\ n.provided = c2.provided /\ n.newId = c2.newId
  BY <1>3, WithFacts
<1> HIDE DEF n
<1>5. Acct(s) \in Key /\ Acct(id) \in Key /\ Avail(id, r) \in Key
  BY KeysTyped
<1>6. DOMAIN n.pend \subseteq Key
  <2>1. DOMAIN o1 = {Acct(s)} /\ DOMAIN o2 = {Acct(id)} /\ DOMAIN o3 = {Avail(id, r)}
    BY OnlyAt
  <2> HIDE DEF o1, o2, o3
  <2>2. DOMAIN Patched(o1, c.pend) = DOMAIN o1 \cup DOMAIN c.pend
    BY PatchedAt
  <2>3. DOMAIN Patched(o2, c1.pend) = DOMAIN o2 \cup DOMAIN c1.pend
    BY PatchedAt
  <2>4. DOMAIN Patched(o3, c2.pend) = DOMAIN o3 \cup DOMAIN c2.pend
    BY PatchedAt
  <2> QED BY <1>1, <1>2, <1>3, <1>4, <1>5, <2>1, <2>2, <2>3, <2>4
<1>7. u = Patched(o3, v2)
  <2> HIDE DEF o1, o2, o3
  <2>1. Patched(c1.pend, values) = v1
    BY <1>2, PatchedTwice
  <2>2. Patched(c2.pend, values) = Patched(o2, Patched(c1.pend, values))
    BY <1>3, PatchedTwice
  <2>3. u = Patched(o3, Patched(c2.pend, values))
    BY <1>4, PatchedTwice
  <2> QED BY <2>1, <2>2, <2>3
<1> HIDE DEF u, v
<1>8. Differ(v1, v, {Acct(s)}) /\ v1[Acct(s)] = b
  BY <1>1, <1>5, OneChange
<1> HIDE DEF v1
<1>9. Differ(v2, v1, {Acct(id)}) /\ v2[Acct(id)] = a
  BY <1>5, <1>8, OneChange DEF Differ
<1> HIDE DEF v2
<1>10. Differ(u, v2, {Avail(id, r)}) /\ u[Avail(id, r)] = <<>>
  BY <1>5, <1>7, <1>9, OneChange DEF Differ
<1>11. Acct(s) # Acct(id) /\ Acct(s) # Avail(id, r) /\ Acct(id) # Avail(id, r)
  BY KeysDiffer
<1>12. /\ Differ(u, v, {Acct(s), Acct(id), Avail(id, r)})
       /\ u[Acct(s)] = b /\ u[Acct(id)] = a
  BY <1>5, <1>8, <1>9, <1>10, <1>11 DEF Differ
<1>13. n.newId = c.newId /\ n.xfers = c.xfers /\ n.provided = c.provided
  BY <1>2, <1>3, <1>4
<1>14. HasNew(n, c, values, s, b, id, r, a)
  BY <1>4, <1>6, <1>10, <1>12, <1>13 DEF HasNew, u, v
<1> QED BY <1>14 DEF n, c2, c1

LEMMA CallNew ==
    ASSUME NEW values, DOMAIN values = Key, NEW c, ContextSound(c, values),
           NEW s \in Service, Exists(Patched(c.pend, values), s),
           NEW r \in Request, NEW offset \in Nat, NEW i \in Service,
           CanNew(Patched(c.pend, values), s, r, offset, i),
           Cardinality(UsedIds(Patched(c.pend, values))) < PublicIds - (42 % PublicIds)
    PROVE  Grows(New(Patched(c.pend, values), c, s, r, offset, i), c, values, s)
<1> DEFINE v == Patched(c.pend, values)
           o == v[Acct(s)]
           a == NewAccount(r, offset)
           bal == o.bal - a.bal
           b == [o EXCEPT !.bal = @ - a.bal]
           id == IF OwnChoice(s, i) THEN i ELSE c.newId
           m == With(WithAccount(WithAccount(c, s, b), id, a), Only(Avail(id, r), <<>>))
           next == CheckServiceId(v, FirstPublic + ((id - FirstPublic + 42) % PublicIds))
           n == New(v, c, s, r, offset, i)
           u == Patched(m.pend, values)
<1>1. /\ Sound(v, s) /\ o \in LooseAccount /\ Exists(v, s)
      /\ c.xfers \in Seq(Xfer) /\ c.provided \subseteq Service \X Hash /\ c.newId \in Public
      /\ ~Exists(v, c.newId) /\ DOMAIN v = Key
  BY ContextFields, SoundFacts DEF ContextSound
<1>2. id \in Service /\ ~Exists(v, id) /\ id # s
  <2>1. c.newId \in Service
    BY <1>1, IdFacts
  <2>2. OwnChoice(s, i) => ~Exists(v, i)
    BY DEF CanNew, Exists
  <2> QED BY <1>1, <2>1, <2>2
<1>3. a \in LooseAccount /\ a.bal = Threshold(a) /\ a.bal \in Int /\ a.bal >= 0
  BY NewAccountFacts
<1>4. /\ bal \in Int /\ bal >= Threshold(o) /\ b = [o EXCEPT !.bal = bal, !.code = o.code]
      /\ o.code \in Hash \cup Service
  <2>1. o.bal \in Int /\ o.bal - Threshold(a) >= Threshold(o)
    BY <1>1 DEF LooseAccount, CanNew
  <2>2. bal = o.bal - a.bal /\ b = [o EXCEPT !.bal = @ - a.bal]
    OBVIOUS
  <2> HIDE DEF o, a, b, bal
  <2>3. bal \in Int /\ bal >= Threshold(o)
    BY <1>3, <2>1, <2>2
  <2> QED BY <1>1, <2>2, <2>3 DEF LooseAccount
<1>5. n = IF OwnChoice(s, i) THEN m ELSE [m EXCEPT !.newId = next]
  BY DEF New
<1> HIDE DEF a, b, n, bal
<1>6. HasNew(m, c, values, s, b, id, r, a)
  <2> HIDE DEF id
  <2> QED BY <1>2, NewValues
<1> HIDE DEF m
<1>7. /\ IsContext(m) /\ m.newId = c.newId /\ DOMAIN m.pend \subseteq Key
      /\ m.xfers = c.xfers /\ m.provided = c.provided
      /\ Differ(u, v, {Acct(s), Acct(id), Avail(id, r)})
      /\ u[Acct(s)] = b /\ u[Acct(id)] = a /\ u[Avail(id, r)] = <<>>
  <2> HIDE DEF id
  <2> QED BY <1>6 DEF HasNew
<1>8. Sound(u, s) /\ Exists(u, s)
  <2> HIDE DEF id
  <2>1. SameItems(u, v, s)
    BY <1>7, KeysTyped, KeysDiffer DEF Differ, SameItems
  <2>2. SameRequests(u, v, s)
    BY <1>2, <1>7, KeysTyped, KeysDiffer DEF Differ, SameRequests
  <2> DEFINE code == o.code
  <2>3. code \in Hash \cup Service /\ bal >= Threshold(v[Acct(s)])
        /\ u[Acct(s)] = [v[Acct(s)] EXCEPT !.bal = bal, !.code = code]
    BY <1>4, <1>7
  <2> HIDE DEF u, v, code
  <2> QED BY ONLY <1>1, <1>4, <2>1, <2>2, <2>3, SoundBalance
<1>9. Sound(u, id) /\ Exists(u, id)
  <2> HIDE DEF id
  <2>1. SameItems(u, v, id)
    BY <1>2, <1>7, KeysTyped, KeysDiffer DEF Differ, SameItems
  <2>2. \A h \in Hash : u[Blob(id, h)] = v[Blob(id, h)]
    BY <1>2, <1>7, KeysTyped, KeysDiffer DEF Differ
  <2>3. \A j \in Request \ {r} : u[Avail(id, j)] = v[Avail(id, j)]
    BY <1>2, <1>7, KeysTyped, KeysDiffer DEF Differ
  <2>4. u[Acct(id)] = NewAccount(r, offset) /\ Sound(v, id)
    BY <1>2, <1>7, ContextFields DEF a
  <2> HIDE DEF u, v
  <2> QED BY <1>2, <1>7, <2>1, <2>2, <2>3, <2>4, SoundNew
<1>10. \A p \in Service \ {s, id} : Untouched(u, v, p)
  <2> TAKE p \in Service \ {s, id}
  <2> DEFINE K == {Acct(s), Acct(id), Avail(id, r)}
  <2>1. Differ(u, v, K) /\ \A x \in K : Owner(x) # p
    <3> HIDE DEF id
    <3> QED BY <1>7, Owners
  <2> HIDE DEF u, v, K, id
  <2> QED BY <2>1, OthersUntouched
<1>11. \A p \in Service \ {id} : Exists(u, p) => Exists(v, p)
  BY <1>1, <1>10 DEF Untouched, Exists
<1>12. /\ IsContext(n) /\ n.pend = m.pend /\ n.xfers = m.xfers /\ n.provided = m.provided
       /\ n.newId = IF OwnChoice(s, i) THEN c.newId ELSE next
  <2> HIDE DEF next
  <2>1. CASE OwnChoice(s, i)
    BY <1>5, <1>7, <2>1
  <2>2. CASE ~OwnChoice(s, i)
    <3>1. n = [m EXCEPT !.newId = next]
      BY <1>5, <2>2
    <3> QED BY <1>7, <2>2, <3>1 DEF IsContext
  <2> QED BY <2>1, <2>2
<1>13. n.newId \in Public /\ n.newId # id /\ ~Exists(v, n.newId)
  <2>1. CASE OwnChoice(s, i)
    <3>1. n.newId = c.newId /\ id = i /\ i < FirstPublic
      BY <1>12, <2>1 DEF OwnChoice
    <3>2. i \in Nat /\ FirstPublic \in Nat /\ c.newId \in Nat /\ c.newId >= FirstPublic
      BY <1>1, ServiceAssumption DEF Public
    <3>3. n.newId # id
      <4> HIDE DEF id
      <4> QED BY <3>1, <3>2
    <3> QED BY <1>1, <3>1, <3>3
  <2>2. CASE ~OwnChoice(s, i)
    <3>1. n.newId = next /\ id = c.newId /\ id \in Public
      BY <1>1, <1>12, <2>2
    <3>2. next \in Public /\ ~Exists(v, next) /\ next # id
      <4>1. Cardinality(UsedIds(v)) < PublicIds - (42 % PublicIds)
        OBVIOUS
      <4> HIDE DEF v, id
      <4> QED BY <3>1, <4>1, NextId
    <3> QED BY <3>1, <3>2
  <2> QED BY <2>1, <2>2
<1>14. ~Exists(u, n.newId)
  BY <1>11, <1>13, IdFacts
<1>15. ContextSound(n, values)
  <2> DEFINE T == {s, id}
  <2>1. \A p \in T : Sound(u, p)
    BY <1>8, <1>9
  <2>2. \A p \in Service \ T : Untouched(u, v, p)
    BY <1>10
  <2>3. u = Patched(n.pend, values) /\ DOMAIN n.pend \subseteq Key
    BY <1>7, <1>12
  <2>4. n.xfers \in Seq(Xfer) /\ n.provided \subseteq Service \X Hash
    BY <1>1, <1>7, <1>12
  <2> HIDE DEF T, id, next, u
  <2> QED BY <1>12, <1>13, <1>14, <2>1, <2>2, <2>3, <2>4, ContextStep
<1>16. Grows(n, c, values, s)
  <2>1. Patched(n.pend, values) = u
    BY <1>12
  <2> HIDE DEF id, u
  <2> QED BY <1>2, <1>8, <1>11, <1>15, <2>1 DEF Grows
<1> QED BY <1>16 DEF n

-----------------------------------------------------------------------------
(* The inductive invariant.                                                *)

\* The contexts that a merge may still take, and the public ids in use in any of them.
Contexts == (IF run = Missing THEN {} ELSE {run.x, run.y}) \cup {outputs[w] : w \in Ran}
UsedNow ==
    {p \in Public : Exists(db, p) \/ \E c \in Contexts : Exists(Patched(c.pend, db), p)}

ValuesOK == DOMAIN db = Key /\ \A s \in Service : Sound(db, s)
StateOK ==
    /\ slot \in Nat /\ calls \in 0 .. MaxCalls
    /\ inbox \in Seq(Xfer) /\ sent \in Seq(Xfer)
    /\ todo \subseteq Service /\ Ran \subseteq Service /\ extrinsic \subseteq Service \X Hash
RunOK ==
    run # Missing =>
        /\ run = [s |-> run.s, x |-> run.x, y |-> run.y] /\ run.s \in Service
        /\ Exists(Patched(run.x.pend, db), run.s) /\ Exists(Patched(run.y.pend, db), run.s)
ContextsOK == \A c \in Contexts : ContextSound(c, db)
IdsOK == Cardinality(UsedNow) <= Cardinality(UsedIds(Accounts0)) + calls

\* Committed values are sound, and so are the values that any context of the round
\* would leave; every call uses up one public id at most.
AccumulationInv == ValuesOK /\ StateOK /\ RunOK /\ ContextsOK /\ IdsOK

LEMMA InitialInv == Init => AccumulationInv
<1> SUFFICES ASSUME Init PROVE AccumulationInv
  OBVIOUS
<1>1. ValuesOK
  BY AccumulationAssumption DEF Init, ValuesOK
<1>2. StateOK
  <2>1. <<>> \in Seq(Xfer)
    OBVIOUS
  <2>2. Ran = {}
    BY DEF Init, Ran
  <2>3. 0 \in 0 .. MaxCalls /\ Slot0 \in Nat
    BY AccumulationAssumption
  <2> QED BY <2>1, <2>2, <2>3 DEF Init, StateOK
<1>3. RunOK
  BY DEF Init, RunOK
<1>4. Contexts = {}
  BY DEF Init, Contexts, Ran
<1>5. ContextsOK
  BY <1>4 DEF ContextsOK
<1>6. IdsOK
  <2>1. UsedNow = UsedIds(Accounts0) /\ calls = 0
    BY <1>4 DEF Init, UsedNow, UsedIds
  <2>2. IsFiniteSet(UsedIds(Accounts0))
    BY IdFacts, FS_Subset DEF UsedIds
  <2>3. Cardinality(UsedIds(Accounts0)) \in Nat
    BY <2>2, FS_CardinalityType
  <2> QED BY <2>1, <2>3 DEF IdsOK
<1> QED BY <1>1, <1>2, <1>3, <1>5, <1>6 DEF AccumulationInv

LEMMA UsedFinite ==
    /\ IsFiniteSet(UsedNow) /\ Cardinality(UsedNow) \in Nat
    /\ Cardinality(UsedIds(Accounts0)) \in Nat
<1>1. UsedNow \subseteq Public /\ UsedIds(Accounts0) \subseteq Public
  BY DEF UsedNow, UsedIds
<1>2. IsFiniteSet(UsedNow) /\ IsFiniteSet(UsedIds(Accounts0))
  BY <1>1, IdFacts, FS_Subset
<1> QED BY <1>2, FS_CardinalityType

\* A set with one more element at most.
LEMMA OneMore ==
    ASSUME NEW S, IsFiniteSet(S), NEW id, NEW T, T \subseteq S \cup {id}
    PROVE  Cardinality(T) \in Nat /\ Cardinality(T) <= Cardinality(S) + 1
<1>1. /\ IsFiniteSet(S \cup {id})
      /\ Cardinality(S \cup {id}) = IF id \in S THEN Cardinality(S) ELSE Cardinality(S) + 1
  BY FS_AddElement
<1>2. Cardinality(S) \in Nat
  BY FS_CardinalityType
<1>3. IsFiniteSet(T) /\ Cardinality(T) <= Cardinality(S \cup {id})
  BY <1>1, FS_Subset
<1>4. Cardinality(T) \in Nat
  BY <1>3, FS_CardinalityType
<1> QED BY <1>1, <1>2, <1>3, <1>4

\* Steps that commit nothing and add no context.
LEMMA SameContexts ==
    ASSUME AccumulationInv, UNCHANGED <<db, calls>>, Contexts' \subseteq Contexts
    PROVE  ValuesOK' /\ ContextsOK' /\ IdsOK'
<1>1. ValuesOK'
  BY DEF AccumulationInv, ValuesOK
<1>2. ContextsOK'
  BY DEF AccumulationInv, ContextsOK
<1>3. UsedNow' \subseteq UsedNow
  BY DEF UsedNow
<1>4. IsFiniteSet(UsedNow')
  BY <1>3, UsedFinite, FS_Subset
<1>5. Cardinality(UsedNow') \in Nat /\ Cardinality(UsedNow') <= Cardinality(UsedNow)
  BY <1>3, <1>4, UsedFinite, FS_Subset, FS_CardinalityType
<1>6. Cardinality(UsedNow') <= Cardinality(UsedIds(Accounts0)) + calls
  <2>1. calls \in Nat /\ Cardinality(UsedNow) <= Cardinality(UsedIds(Accounts0)) + calls
    BY AccumulationAssumption DEF AccumulationInv, StateOK, IdsOK
  <2> QED BY <1>5, <2>1, UsedFinite
<1> QED BY <1>1, <1>2, <1>6 DEF IdsOK

\* The running invocation.
LEMMA RunFacts ==
    ASSUME AccumulationInv, run # Missing
    PROVE  /\ run = [s |-> run.s, x |-> run.x, y |-> run.y] /\ run.s \in Service
           /\ DOMAIN db = Key
           /\ run.x \in Contexts /\ ContextSound(run.x, db) /\ Exists(Patched(run.x.pend, db), run.s)
           /\ run.y \in Contexts /\ ContextSound(run.y, db) /\ Exists(Patched(run.y.pend, db), run.s)
<1>1. run.x \in Contexts /\ run.y \in Contexts
  BY DEF Contexts
<1> QED BY <1>1 DEF AccumulationInv, ValuesOK, RunOK, ContextsOK

\* A successful host call.
LEMMA CallStep ==
    ASSUME AccumulationInv, NEW name, NEW c, Call(name, c), Grows(c, run.x, db, run.s)
    PROVE  AccumulationInv'
<1> DEFINE s == run.s
           y == run.y
<1>1. /\ run # Missing /\ calls < MaxCalls /\ run' = [run EXCEPT !.x = c] /\ calls' = calls + 1
      /\ UNCHANGED <<db, slot, phase, inbox, todo, outputs, sent, detached, extrinsic>>
  BY DEF Call
<1>2. /\ run = [s |-> s, x |-> run.x, y |-> y] /\ s \in Service /\ run.x \in Contexts
      /\ y \in Contexts /\ Exists(Patched(y.pend, db), s)
  BY <1>1, RunFacts
<1>3. run' = [s |-> s, x |-> c, y |-> y]
  <2> HIDE DEF s, y
  <2> QED BY <1>1, <1>2
<1>4. run'.s = s /\ run'.x = c /\ run'.y = y
  BY <1>3
<1> HIDE DEF s, y
<1>5. ValuesOK'
  BY <1>1 DEF AccumulationInv, ValuesOK
<1>6. StateOK'
  <2>1. calls \in 0 .. MaxCalls /\ MaxCalls \in Nat
    BY AccumulationAssumption DEF AccumulationInv, StateOK
  <2>2. calls' \in 0 .. MaxCalls
    BY <1>1, <2>1
  <2>3. Ran' = Ran
    BY <1>1 DEF Ran
  <2> QED BY <1>1, <2>2, <2>3 DEF AccumulationInv, StateOK
<1>7. RunOK'
  <2>1. Exists(Patched(c.pend, db), s)
    BY DEF Grows, s
  <2>2. Exists(Patched(c.pend, db'), s) /\ Exists(Patched(y.pend, db'), s)
    BY <1>1, <1>2, <2>1
  <2> QED BY <1>2, <1>3, <1>4, <2>2 DEF RunOK
<1>8. Contexts' \subseteq Contexts \cup {c}
  <2>1. Contexts' = (IF run' = Missing THEN {} ELSE {c, y}) \cup {outputs[w] : w \in Ran}
    BY <1>1, <1>4 DEF Contexts, Ran
  <2>2. {outputs[w] : w \in Ran} \subseteq Contexts
    BY DEF Contexts
  <2> QED BY <1>2, <2>1, <2>2
<1>9. ContextsOK'
  <2>1. ContextSound(c, db)
    BY DEF Grows
  <2> QED BY <1>1, <1>8, <2>1 DEF AccumulationInv, ContextsOK
<1>10. IdsOK'
  <2>1. PICK id \in Service : \A p \in Service \ {id} :
            Exists(Patched(c.pend, db), p) => Exists(Patched(run.x.pend, db), p)
    BY DEF Grows
  <2>2. UsedNow' \subseteq UsedNow \cup {id}
    <3> SUFFICES ASSUME NEW p \in UsedNow', p # id PROVE p \in UsedNow
      OBVIOUS
    <3>1. p \in Public /\ p \in Service
      BY IdFacts DEF UsedNow
    <3>2. CASE Exists(db, p)
      BY <3>1, <3>2 DEF UsedNow
    <3>3. CASE \E e \in Contexts' : Exists(Patched(e.pend, db), p)
      <4>1. PICK e \in Contexts' : Exists(Patched(e.pend, db), p)
        BY <3>3
      <4>2. CASE e \in Contexts
        BY <3>1, <4>1, <4>2 DEF UsedNow
      <4>3. CASE e = c
        <5>1. Exists(Patched(run.x.pend, db), p)
          BY <2>1, <3>1, <4>1, <4>3
        <5> QED BY <1>2, <3>1, <5>1 DEF UsedNow
      <4> QED BY <1>8, <4>2, <4>3
    <3> QED BY <1>1, <3>2, <3>3 DEF UsedNow
  <2>3. Cardinality(UsedNow') \in Nat /\ Cardinality(UsedNow') <= Cardinality(UsedNow) + 1
    BY <2>2, UsedFinite, OneMore
  <2>4. calls \in Nat /\ Cardinality(UsedNow) <= Cardinality(UsedIds(Accounts0)) + calls
    BY AccumulationAssumption DEF AccumulationInv, StateOK, IdsOK
  <2>5. Cardinality(UsedNow') <= Cardinality(UsedIds(Accounts0)) + calls'
    BY <1>1, <2>3, <2>4, UsedFinite
  <2> QED BY <2>5 DEF IdsOK
<1> QED BY <1>5, <1>6, <1>7, <1>9, <1>10 DEF AccumulationInv

\* Each host call, from what it does to its context.
LEMMA HostCallStep ==
    ASSUME AccumulationInv,
           HcTransfer \/ HcNew \/ HcUpgrade \/ HcEject \/ HcWrite
               \/ HcSolicit \/ HcForget \/ HcProvide
    PROVE  AccumulationInv'
<1>1. run # Missing
  BY DEF HcTransfer, HcNew, HcUpgrade, HcEject, HcWrite, HcSolicit, HcForget, HcProvide
<1> DEFINE c == run.x
           s == run.s
<1>2. s \in Service /\ DOMAIN db = Key /\ ContextSound(c, db) /\ Exists(Patched(c.pend, db), s)
  BY <1>1, RunFacts
<1>3. slot \in Nat
  BY DEF AccumulationInv, StateOK
<1>4. View = Patched(c.pend, db)
  BY DEF View
<1> HIDE DEF c, s
<1>5. ASSUME NEW name, NEW d, Call(name, d), Continues(d, c, db, s) PROVE AccumulationInv'
  <2>1. Grows(d, run.x, db, run.s)
    BY <1>2, <1>5, ContinuesGrows DEF c, s
  <2> QED BY <1>5, <2>1, CallStep
<1>6. CASE HcTransfer
  <2>1. PICK d \in Service, amount \in Amount :
           /\ CanTransfer(View, s, d, amount)
           /\ Call("transfer", Transfer(View, c, s, d, amount))
    BY <1>6 DEF HcTransfer, c, s
  <2>2. amount \in Nat
    BY AccumulationAssumption
  <2>3. Continues(Transfer(View, c, s, d, amount), c, db, s)
    BY <1>2, <1>4, <2>1, <2>2, CallTransfer
  <2> QED BY <1>5, <2>1, <2>3
<1>7. CASE HcNew
  <2>1. PICK r \in Request, offset \in Offset, i \in Service :
           /\ CanNew(View, s, r, offset, i)
           /\ Call("new", New(View, c, s, r, offset, i))
    BY <1>7 DEF HcNew, c, s
  <2>2. offset \in Nat
    BY AccumulationAssumption
  <2>3. Cardinality(UsedIds(View)) < PublicIds - (42 % PublicIds)
    <3>1. UsedIds(View) \subseteq UsedNow
      BY <1>1, <1>4, RunFacts DEF UsedIds, UsedNow, c
    <3>2. IsFiniteSet(UsedIds(View)) /\ Cardinality(UsedIds(View)) <= Cardinality(UsedNow)
      BY <3>1, UsedFinite, FS_Subset
    <3>3. Cardinality(UsedIds(View)) \in Nat
      BY <3>2, FS_CardinalityType
    <3>4. /\ calls \in Nat /\ MaxCalls \in Nat /\ calls < MaxCalls
          /\ Cardinality(UsedNow) <= Cardinality(UsedIds(Accounts0)) + calls
      BY <2>1, AccumulationAssumption DEF AccumulationInv, StateOK, IdsOK, Call
    <3> DEFINE room == PublicIds - (42 % PublicIds)
    <3>5. room \in Int
      <4> DEFINE z == 42
                 q == z % PublicIds
      <4>1. z \in Int /\ PublicIds \in Nat \ {0}
        BY IdFacts
      <4>2. q \in Int
        <5> HIDE DEF z
        <5> QED BY <4>1, Remainder
      <4>3. room = PublicIds - q
        OBVIOUS
      <4> HIDE DEF q, room
      <4> QED BY <4>1, <4>2, <4>3
    <3>6. Cardinality(UsedIds(Accounts0)) + MaxCalls <= room
      BY AccumulationAssumption DEF UsedIds
    <3> HIDE DEF room
    <3>7. Cardinality(UsedIds(View)) < room
      BY <3>2, <3>3, <3>4, <3>5, <3>6, UsedFinite
    <3> QED BY <3>7 DEF room
  <2>4. Grows(New(View, c, s, r, offset, i), c, db, s)
    BY <1>2, <1>4, <2>1, <2>2, <2>3, CallNew
  <2> QED BY <2>1, <2>4, CallStep DEF c, s
<1>8. CASE HcUpgrade
  <2>1. PICK code \in Hash \cup Service : Call("upgrade", Upgrade(View, c, s, code))
    BY <1>8, AccumulationAssumption DEF HcUpgrade, c, s
  <2>2. Continues(Upgrade(View, c, s, code), c, db, s)
    BY <1>2, <1>4, CallUpgrade
  <2> QED BY <1>5, <2>1, <2>2
<1>9. CASE HcEject
  <2>1. PICK d \in Service, r \in Request :
           CanEject(View, s, d, r, slot) /\ Call("eject", Eject(View, c, s, d, r))
    BY <1>9 DEF HcEject, c, s
  <2>2. Continues(Eject(View, c, s, d, r), c, db, s)
    BY <1>2, <1>4, <2>1, CallEject
  <2> QED BY <1>5, <2>1, <2>2
<1>10. CASE HcWrite
  <2>1. PICK k \in Item, size \in ValueSize :
           CanWrite(View, s, k, size) /\ Call("write", Write(View, c, s, k, size))
    BY <1>10 DEF HcWrite, c, s
  <2>2. size \in Nat
    BY AccumulationAssumption
  <2>3. Continues(Write(View, c, s, k, size), c, db, s)
    BY <1>2, <1>4, <2>1, <2>2, CallWrite
  <2> QED BY <1>5, <2>1, <2>3
<1>11. CASE HcSolicit
  <2>1. PICK r \in Request :
           CanSolicit(View, s, r) /\ Call("solicit", Solicit(View, c, s, r, slot))
    BY <1>11 DEF HcSolicit, c, s
  <2>2. Continues(Solicit(View, c, s, r, slot), c, db, s)
    BY <1>2, <1>3, <1>4, <2>1, CallSolicit
  <2> QED BY <1>5, <2>1, <2>2
<1>12. CASE HcForget
  <2>1. PICK r \in Request :
           CanForget(View, s, r, slot) /\ Call("forget", Forget(View, c, s, r, slot))
    BY <1>12 DEF HcForget, c, s
  <2>2. Continues(Forget(View, c, s, r, slot), c, db, s)
    BY <1>2, <1>3, <1>4, <2>1, CallForget
  <2> QED BY <1>5, <2>1, <2>2
<1>13. CASE HcProvide
  <2>1. PICK d \in Service, h \in Hash : Call("provide", Provide(c, d, h))
    BY <1>13 DEF HcProvide, c, s
  <2>2. Continues(Provide(c, d, h), c, db, s)
    BY <1>2, CallProvide
  <2> QED BY <1>5, <2>1, <2>2
<1> QED BY <1>6, <1>7, <1>8, <1>9, <1>10, <1>11, <1>12, <1>13

LEMMA CheckpointStep ==
    ASSUME AccumulationInv, HcCheckpoint
    PROVE  AccumulationInv'
<1> DEFINE s == run.s
           x == run.x
<1>1. /\ run # Missing /\ run' = [run EXCEPT !.y = x]
      /\ UNCHANGED <<db, slot, phase, inbox, todo, outputs, sent, detached, extrinsic, calls>>
  BY DEF HcCheckpoint
<1>2. /\ run = [s |-> s, x |-> x, y |-> run.y] /\ s \in Service /\ x \in Contexts
      /\ Exists(Patched(x.pend, db), s)
  BY <1>1, RunFacts
<1> HIDE DEF s, x
<1>3. run' = [s |-> s, x |-> x, y |-> x] /\ run'.s = s /\ run'.x = x /\ run'.y = x
  BY <1>1, <1>2
<1>4. Ran' = Ran /\ Contexts' \subseteq Contexts
  <2>1. Ran' = Ran
    BY <1>1 DEF Ran
  <2>2. Contexts' = (IF run' = Missing THEN {} ELSE {x}) \cup {outputs[w] : w \in Ran}
    BY <1>1, <1>3, <2>1 DEF Contexts
  <2>3. {outputs[w] : w \in Ran} \subseteq Contexts
    BY DEF Contexts
  <2> QED BY <1>2, <2>1, <2>2, <2>3
<1>5. ValuesOK' /\ ContextsOK' /\ IdsOK'
  BY <1>1, <1>4, SameContexts
<1>6. StateOK'
  BY <1>1, <1>4 DEF AccumulationInv, StateOK
<1>7. RunOK'
  BY <1>1, <1>2, <1>3 DEF RunOK
<1> QED BY <1>5, <1>6, <1>7 DEF AccumulationInv

\* outputs with one more, and the contexts with it.
LEMMA MoreOutputs ==
    ASSUME NEW s, NEW c, outputs' = Patched(Only(s, c), outputs)
    PROVE  /\ Ran' = Ran \cup {s}
           /\ {outputs'[w] : w \in Ran'} \subseteq {outputs[w] : w \in Ran} \cup {c}
<1> DEFINE o == Only(s, c)
           g == Patched(o, outputs)
<1>1. DOMAIN o = {s} /\ o[s] = c
  BY OnlyAt
<1> HIDE DEF o
<1>2. /\ DOMAIN g = DOMAIN o \cup DOMAIN outputs
      /\ \A w \in DOMAIN o : g[w] = o[w]
      /\ \A w \in DOMAIN outputs \ DOMAIN o : g[w] = outputs[w]
  BY PatchedAt
<1>3. outputs' = g
  BY DEF o
<1> HIDE DEF g
<1> QED BY <1>1, <1>2, <1>3 DEF Ran

\* The code halts, or panics or runs out of gas.
LEMMA FinishStep ==
    ASSUME AccumulationInv, run # Missing, NEW c \in {run.x, run.y}, Finish(c)
    PROVE  AccumulationInv'
<1> DEFINE s == run.s
<1>1. /\ outputs' = Patched(Only(s, c), outputs) /\ run' = Missing /\ sent' = sent \o c.xfers
      /\ UNCHANGED <<db, slot, phase, inbox, todo, detached, extrinsic, calls>>
  BY DEF Finish
<1>2. s \in Service /\ c \in Contexts /\ ContextSound(c, db)
  BY RunFacts
<1> HIDE DEF s
<1>3. /\ Ran' = Ran \cup {s}
      /\ {outputs'[w] : w \in Ran'} \subseteq {outputs[w] : w \in Ran} \cup {c}
  BY <1>1, MoreOutputs
<1>4. Contexts' \subseteq Contexts
  <2>1. Contexts' = {outputs'[w] : w \in Ran'}
    BY <1>1 DEF Contexts
  <2>2. {outputs[w] : w \in Ran} \subseteq Contexts
    BY DEF Contexts
  <2> QED BY <1>2, <1>3, <2>1, <2>2
<1>5. ValuesOK' /\ ContextsOK' /\ IdsOK'
  BY <1>1, <1>4, SameContexts
<1>6. StateOK'
  <2>1. c.xfers \in Seq(Xfer) /\ sent \in Seq(Xfer)
    BY <1>2 DEF ContextSound, AccumulationInv, StateOK
  <2>2. sent' \in Seq(Xfer)
    BY <1>1, <2>1
  <2> QED BY <1>1, <1>2, <1>3, <2>2 DEF AccumulationInv, StateOK
<1>7. RunOK'
  BY <1>1 DEF RunOK
<1> QED BY <1>5, <1>6, <1>7 DEF AccumulationInv

LEMMA BlockStep ==
    ASSUME AccumulationInv, Block
    PROVE  AccumulationInv'
<1>1. PICK t \in slot + 1 .. MaxSlot, S \in SUBSET Worker, preimages \in SUBSET Needed :
         StartBlock(t, S, preimages)
  BY DEF Block
<1>2. /\ slot' = t /\ todo' = S /\ extrinsic' = preimages /\ inbox' = <<>>
      /\ UNCHANGED <<db, run, outputs, sent, calls>>
  BY <1>1 DEF StartBlock
<1>3. Contexts' = Contexts /\ Ran' = Ran
  BY <1>2 DEF Contexts, Ran
<1>4. ValuesOK' /\ ContextsOK' /\ IdsOK'
  BY <1>2, <1>3, SameContexts
<1>5. StateOK'
  <2>1. t \in Nat
    BY AccumulationAssumption DEF AccumulationInv, StateOK
  <2>2. S \subseteq Service /\ preimages \subseteq Service \X Hash
    BY AccumulationAssumption DEF Needed
  <2>3. <<>> \in Seq(Xfer)
    OBVIOUS
  <2> QED BY <1>2, <1>3, <2>1, <2>2, <2>3 DEF AccumulationInv, StateOK
<1>6. RunOK'
  BY <1>2 DEF AccumulationInv, RunOK
<1> QED BY <1>4, <1>5, <1>6 DEF AccumulationInv

\* A context without changes.
LEMMA EmptyContext ==
    ASSUME NEW values, DOMAIN values = Key, \A s \in Service : Sound(values, s),
           NEW id \in Public, ~Exists(values, id)
    PROVE  /\ ContextSound(Context(id), values)
           /\ \A s \in Service : Untouched(Patched(Context(id).pend, values), values, s)
<1> DEFINE c == Context(id)
           u == Patched(c.pend, values)
<1>1. /\ IsContext(c) /\ c.pend = <<>> /\ c.xfers = <<>> /\ c.provided = {} /\ c.newId = id
  BY DEF Context, IsContext
<1>2. DOMAIN c.pend = {} /\ c.xfers \in Seq(Xfer)
  BY <1>1
<1> HIDE DEF c
<1>3. Differ(u, values, {})
  <2> DEFINE ch == c.pend
  <2>1. DOMAIN ch \subseteq Key /\ DOMAIN ch = {}
    BY <1>2
  <2>2. u = Patched(ch, values)
    OBVIOUS
  <2> HIDE DEF ch, u
  <2>3. Differ(u, values, DOMAIN ch)
    BY <2>1, <2>2, PatchedDiffer
  <2> QED BY <2>1, <2>3
<1>4. \A s \in Service : Untouched(u, values, s)
  <2> TAKE s \in Service
  <2> DEFINE K == {}
  <2>1. Differ(u, values, K) /\ \A x \in K : Owner(x) # s
    BY <1>3
  <2> HIDE DEF u, K
  <2> QED BY <2>1, OthersUntouched
<1> HIDE DEF u
<1>5. \A s \in Service : Sound(u, s)
  BY <1>4, SoundLocal DEF Untouched
<1>6. ~Exists(u, id)
  BY <1>4, IdFacts DEF Untouched, Exists
<1>7. ContextSound(c, values)
  BY <1>1, <1>2, <1>5, <1>6 DEF ContextSound, u
<1> QED BY <1>4, <1>7 DEF c, u

LEMMA ReceivedNat ==
    ASSUME AccumulationInv, NEW s \in Service
    PROVE  Received(s) \in Nat
<1> DEFINE f == Amounts(inbox)
           S == {i \in DOMAIN inbox : inbox[i].to = s}
<1>1. inbox \in Seq(Xfer)
  BY DEF AccumulationInv, StateOK
<1>2. IsFiniteSet(S)
  <2>1. Len(inbox) \in Nat /\ DOMAIN inbox = 1 .. Len(inbox)
    BY <1>1
  <2>2. IsFiniteSet(DOMAIN inbox)
    <3> DEFINE n == Len(inbox)
    <3>1. n \in Int /\ 1 \in Int
      BY <2>1
    <3> HIDE DEF n
    <3>2. IsFiniteSet(1 .. n)
      BY <3>1, FS_Interval
    <3> QED BY <2>1, <3>2 DEF n
  <2> QED BY <2>2, FS_Subset
<1>3. \A i \in S : f[i] \in Int /\ f[i] >= 0
  <2>1. \A i \in DOMAIN inbox : inbox[i] \in Xfer
    BY <1>1
  <2> QED BY <2>1 DEF Amounts, Xfer
<1>4. Received(s) = SumFunctionOnSet(f, S)
  BY DEF Received
<1> HIDE DEF f, S
<1> QED BY <1>2, <1>3, <1>4, SumType

\* The context in which a service starts, with what it has received.
LEMMA FirstContext ==
    ASSUME AccumulationInv, NEW s \in Service, NEW id \in Public, ~Exists(db, id)
    PROVE  LET c == Credited(s, id)
           IN  /\ ContextSound(c, db)
               /\ \A p \in Service : Exists(Patched(c.pend, db), p) <=> Exists(db, p)
<1> DEFINE e == Context(id)
           v == Patched(e.pend, db)
           o == db[Acct(s)]
           got == Received(s)
           bal == o.bal + got
           a == [o EXCEPT !.bal = @ + got]
           n == WithAccount(e, s, a)
           u == Patched(n.pend, db)
           c == Credited(s, id)
<1>1. DOMAIN db = Key /\ \A p \in Service : Sound(db, p)
  BY DEF AccumulationInv, ValuesOK
<1>2. ContextSound(e, db) /\ \A p \in Service : Untouched(v, db, p)
  BY <1>1, EmptyContext
<1> HIDE DEF e
<1>3. \A p \in Service : Exists(v, p) <=> Exists(db, p)
  BY <1>2 DEF Untouched, Exists
<1>4. CASE c = e
  BY <1>2, <1>3, <1>4
<1>5. CASE Exists(db, s) /\ c = n
  <2>1. got \in Nat
    BY ReceivedNat
  <2>2. v[Acct(s)] = o /\ Exists(v, s) /\ Sound(v, s)
    BY <1>2, <1>3, <1>5, ContextFields DEF Untouched, ContextSound
  <2>3. o \in LooseAccount /\ o.bal >= Threshold(o)
    BY <2>2, SoundFacts
  <2>4. bal \in Int /\ bal >= Threshold(o) /\ a = [o EXCEPT !.bal = bal, !.code = o.code]
        /\ o.code \in Hash \cup Service
    <3>1. o.bal \in Int /\ Threshold(o) \in Int
      BY <2>3, ThresholdFacts DEF LooseAccount
    <3>2. bal = o.bal + got /\ a = [o EXCEPT !.bal = @ + got]
      OBVIOUS
    <3> HIDE DEF o, got, bal, a
    <3>3. bal \in Int /\ bal >= Threshold(o)
      BY <2>1, <2>3, <3>1, <3>2
    <3> QED BY <2>3, <3>2, <3>3 DEF LooseAccount
  <2> HIDE DEF a, bal
  <2>5. /\ IsContext(n) /\ n.newId = e.newId /\ DOMAIN n.pend \subseteq Key
        /\ n.xfers = e.xfers /\ n.provided = e.provided
        /\ Differ(u, v, {Acct(s)}) /\ u[Acct(s)] = a
        /\ SameItems(u, v, s) /\ SameRequests(u, v, s)
    BY <1>1, <1>2, WithAccountFacts
  <2> HIDE DEF n
  <2>6. Sound(u, s) /\ Exists(u, s)
    <3> DEFINE code == o.code
    <3>1. code \in Hash \cup Service /\ bal >= Threshold(v[Acct(s)])
          /\ u[Acct(s)] = [v[Acct(s)] EXCEPT !.bal = bal, !.code = code]
      BY <2>2, <2>4, <2>5
    <3> HIDE DEF u, v, code
    <3> QED BY ONLY <2>2, <2>4, <2>5, <3>1, SoundBalance
  <2> DEFINE K == {Acct(s)}
  <2>7. Differ(u, v, K) /\ \A x \in K : Owner(x) = s
    BY <2>5, Owners
  <2> HIDE DEF K
  <2>8. e.xfers \in Seq(Xfer) /\ e.provided \subseteq Service \X Hash
    BY <1>2 DEF ContextSound
  <2>9. Continues(n, e, db, s)
    BY <1>1, <1>2, <2>2, <2>5, <2>6, <2>7, <2>8, OwnChange
  <2>10. ContextSound(n, db) /\ \A p \in Service : Exists(u, p) => Exists(db, p)
    BY <1>3, <2>9 DEF Continues
  <2>11. \A p \in Service : Exists(db, p) => Exists(u, p)
    <3> TAKE p \in Service
    <3>1. p # s => u[Acct(p)] = v[Acct(p)]
      BY <2>5, KeysTyped, KeysDiffer DEF Differ
    <3> QED BY <1>3, <2>6, <3>1 DEF Exists
  <2> QED BY <1>5, <2>10, <2>11
<1> QED BY <1>4, <1>5 DEF Credited, e

LEMMA InvokeStep ==
    ASSUME AccumulationInv, NEW hash \in FirstId, Invoke(hash)
    PROVE  AccumulationInv'
<1> DEFINE s == Min(todo)
           id == CheckServiceId(db, hash)
           c == Credited(s, id)
<1>1. /\ run = Missing /\ todo # {} /\ todo' = todo \ {s}
      /\ \/ Runnable(s) /\ run' = [s |-> s, x |-> c, y |-> c] /\ UNCHANGED outputs
         \/ outputs' = Patched(Only(s, c), outputs) /\ UNCHANGED run
      /\ UNCHANGED <<db, slot, phase, inbox, sent, detached, extrinsic, calls>>
  BY DEF Invoke
<1>2. s \in todo /\ s \in Service
  <2>1. todo \subseteq Service /\ todo \subseteq Nat
    BY ServiceAssumption DEF AccumulationInv, StateOK
  <2>2. \E m \in todo : \A n \in todo : m <= n
    BY <1>1, <2>1, LeastNatural
  <2>3. s \in todo
    BY <2>2 DEF Min
  <2> QED BY <2>1, <2>3
<1>3. id \in Public /\ ~Exists(db, id)
  <2>1. hash \in Public /\ PublicIds \in Nat \ {0}
    BY AccumulationAssumption, IdFacts
  <2>2. Cardinality(UsedIds(db)) < PublicIds
    <3>1. UsedIds(db) \subseteq UsedNow
      BY DEF UsedIds, UsedNow
    <3>2. IsFiniteSet(UsedIds(db)) /\ Cardinality(UsedIds(db)) <= Cardinality(UsedNow)
      BY <3>1, UsedFinite, FS_Subset
    <3>3. Cardinality(UsedIds(db)) \in Nat
      BY <3>2, FS_CardinalityType
    <3>4. /\ calls \in Nat /\ MaxCalls \in Nat /\ calls <= MaxCalls
          /\ Cardinality(UsedNow) <= Cardinality(UsedIds(Accounts0)) + calls
      BY AccumulationAssumption DEF AccumulationInv, StateOK, IdsOK
    <3> DEFINE z == 42
               q == z % PublicIds
    <3>5. q \in Int /\ q > 0
      <4>1. z \in Int
        OBVIOUS
      <4>2. q \in 0 .. PublicIds - 1
        <5> HIDE DEF z
        <5> QED BY <2>1, <4>1, Remainder
      <4>3. q # 0
        BY ServiceAssumption
      <4> HIDE DEF q
      <4> QED BY <2>1, <4>2, <4>3
    <3>6. Cardinality(UsedIds(Accounts0)) + MaxCalls <= PublicIds - q
      BY AccumulationAssumption DEF UsedIds
    <3> HIDE DEF q
    <3> QED BY <2>1, <3>2, <3>3, <3>4, <3>5, <3>6, UsedFinite
  <2> DEFINE N == PublicIds
  <2>3. N \in 1 .. PublicIds /\ Cardinality(UsedIds(db)) < N
    BY <2>1, <2>2
  <2> HIDE DEF N
  <2>4. PICK n \in 0 .. N - 1 : /\ CheckServiceId(db, hash) = At(hash, n)
                                /\ At(hash, n) \in Public /\ ~Exists(db, At(hash, n))
    BY <2>1, <2>3, FreeId
  <2> QED BY <2>4
<1> HIDE DEF id, s
<1>4. /\ ContextSound(c, db)
      /\ \A p \in Service : Exists(Patched(c.pend, db), p) <=> Exists(db, p)
  BY <1>2, <1>3, FirstContext
<1> HIDE DEF c
<1>5. /\ Ran' \subseteq Ran \cup {s} /\ Contexts' \subseteq Contexts \cup {c}
  <2>0. Contexts = {outputs[w] : w \in Ran}
    BY <1>1 DEF Contexts
  <2>1. CASE run' = [s |-> s, x |-> c, y |-> c] /\ UNCHANGED outputs
    <3>1. run'.x = c /\ run'.y = c
      BY <2>1
    <3>2. Ran' = Ran /\ Contexts' = (IF run' = Missing THEN {} ELSE {c}) \cup {outputs[w] : w \in Ran}
      BY <2>1, <3>1 DEF Contexts, Ran
    <3> QED BY <2>0, <3>2
  <2>2. CASE outputs' = Patched(Only(s, c), outputs) /\ UNCHANGED run
    <3>1. /\ Ran' = Ran \cup {s}
          /\ {outputs'[w] : w \in Ran'} \subseteq {outputs[w] : w \in Ran} \cup {c}
      BY <2>2, MoreOutputs
    <3>2. Contexts' = {outputs'[w] : w \in Ran'}
      BY <1>1, <2>2 DEF Contexts
    <3> QED BY <2>0, <3>1, <3>2
  <2> QED BY <1>1, <2>1, <2>2
<1>6. ValuesOK'
  BY <1>1 DEF AccumulationInv, ValuesOK
<1>7. StateOK'
  BY <1>1, <1>2, <1>5 DEF AccumulationInv, StateOK
<1>8. ContextsOK'
  BY <1>1, <1>4, <1>5 DEF AccumulationInv, ContextsOK
<1>9. RunOK'
  <2>1. CASE Runnable(s) /\ run' = [s |-> s, x |-> c, y |-> c]
    <3>1. run'.s = s /\ run'.x = c /\ run'.y = c
      BY <2>1
    <3>2. Exists(Patched(c.pend, db'), s)
      BY <1>1, <1>2, <1>4, <2>1 DEF Runnable
    <3> QED BY <1>2, <2>1, <3>1, <3>2 DEF RunOK
  <2>2. CASE UNCHANGED run
    BY <1>1, <2>2 DEF RunOK
  <2> QED BY <1>1, <2>1, <2>2
<1>10. IdsOK'
  <2>1. UsedNow' \subseteq UsedNow
    <3> SUFFICES ASSUME NEW p \in UsedNow' PROVE p \in UsedNow
      OBVIOUS
    <3>1. p \in Public /\ p \in Service
      BY IdFacts DEF UsedNow
    <3>2. Exists(db, p) \/ \E e \in Contexts : Exists(Patched(e.pend, db), p)
      <4>1. Exists(db, p) \/ \E e \in Contexts' : Exists(Patched(e.pend, db), p)
        BY <1>1 DEF UsedNow
      <4> QED BY <1>4, <1>5, <3>1, <4>1
    <3> QED BY <3>1, <3>2 DEF UsedNow
  <2>2. Cardinality(UsedNow') \in Nat /\ Cardinality(UsedNow') <= Cardinality(UsedNow)
    <3>1. IsFiniteSet(UsedNow') /\ Cardinality(UsedNow') <= Cardinality(UsedNow)
      BY <2>1, UsedFinite, FS_Subset
    <3> QED BY <3>1, FS_CardinalityType
  <2>3. calls' = calls /\ calls \in Nat
        /\ Cardinality(UsedNow) <= Cardinality(UsedIds(Accounts0)) + calls
    BY <1>1, AccumulationAssumption DEF AccumulationInv, StateOK, IdsOK
  <2>4. Cardinality(UsedNow') <= Cardinality(UsedIds(Accounts0)) + calls'
    BY <2>2, <2>3, UsedFinite
  <2> QED BY <2>4 DEF IdsOK
<1> QED BY <1>6, <1>7, <1>8, <1>9, <1>10 DEF AccumulationInv

-----------------------------------------------------------------------------
(* The merge, and the preimages after it.                                  *)

\* Preimages for requests that are open leave the accounts sound.
LEMMA PreimagesSound ==
    ASSUME NEW values, \A s \in Service : Sound(values, s), slot \in Nat,
           NEW P, P \subseteq Service \X Hash, \A p \in P : values[Avail(p[1], Answerable(p[2]))] = <<>>
    PROVE  LET u == WithPreimages(values, P)
           IN  /\ DOMAIN u = Key
               /\ \A s \in Service : Sound(u, s) /\ (Exists(u, s) <=> Exists(values, s))
<1> DEFINE u == WithPreimages(values, P)
<1>1. DOMAIN u = Key
  BY DEF WithPreimages
<1>2. ASSUME NEW s \in Service
      PROVE  Sound(u, s) /\ (Exists(u, s) <=> Exists(values, s))
  <2> DEFINE H == {h \in Hash : <<s, h>> \in P}
             A == {Answerable(h) : h \in H}
  <2>0. ASSUME NEW p \in P
        PROVE  LET q == Answerable(p[2]) IN
               /\ Acct(s) # Avail(p[1], q) /\ Acct(s) # Blob(p[1], p[2])
               /\ \A k \in Item : Stored(s, k) # Avail(p[1], q) /\ Stored(s, k) # Blob(p[1], p[2])
               /\ \A r \in Request : /\ Avail(s, r) # Blob(p[1], p[2])
                                     /\ Avail(s, r) = Avail(p[1], q) <=> s = p[1] /\ r = q
               /\ \A h \in Hash : /\ Blob(s, h) # Avail(p[1], q)
                                  /\ Blob(s, h) = Blob(p[1], p[2]) <=> s = p[1] /\ h = p[2]
    BY DEF Acct, Stored, Blob, Avail
  <2>a. ASSUME NEW p \in P, s = p[1] PROVE p[2] \in H
    <3>1. p \in Service \X Hash
      OBVIOUS
    <3>2. p = <<p[1], p[2]>> /\ p[2] \in Hash
      BY <3>1
    <3> QED BY <2>a, <3>2
  <2>b. \A h \in H : <<s, h>> \in P /\ <<s, h>>[1] = s /\ <<s, h>>[2] = h
    OBVIOUS
  <2>1. \A r \in Request : (\E p \in P : Avail(s, r) = Avail(p[1], Answerable(p[2]))) <=> r \in A
    <3> TAKE r \in Request
    <3>1. ASSUME NEW p \in P, Avail(s, r) = Avail(p[1], Answerable(p[2])) PROVE r \in A
      <4>1. s = p[1] /\ r = Answerable(p[2])
        BY <2>0, <3>1
      <4> QED BY <2>a, <4>1
    <3>2. ASSUME NEW h \in H, r = Answerable(h)
          PROVE  \E p \in P : Avail(s, r) = Avail(p[1], Answerable(p[2]))
      <4> WITNESS <<s, h>> \in P
      <4> QED BY <2>b, <3>2
    <3> QED BY <3>1, <3>2
  <2>2. \A h \in Hash : (\E p \in P : Blob(s, h) = Blob(p[1], p[2])) <=> h \in H
    <3> TAKE h \in Hash
    <3>1. ASSUME NEW p \in P, Blob(s, h) = Blob(p[1], p[2]) PROVE h \in H
      <4>1. s = p[1] /\ h = p[2]
        BY <2>0, <3>1
      <4> QED BY <2>a, <4>1
    <3> QED BY <2>b, <3>1
  <2>3. /\ \A p \in P : /\ Acct(s) # Avail(p[1], Answerable(p[2]))
                        /\ Acct(s) # Blob(p[1], p[2])
        /\ \A k \in Item : \A p \in P : /\ Stored(s, k) # Avail(p[1], Answerable(p[2]))
                                        /\ Stored(s, k) # Blob(p[1], p[2])
        /\ \A h \in Hash : \A p \in P : Blob(s, h) # Avail(p[1], Answerable(p[2]))
        /\ \A r \in Request : \A p \in P : Avail(s, r) # Blob(p[1], p[2])
    BY <2>0
  <2>4. /\ Acct(s) \in Key /\ \A k \in Item : Stored(s, k) \in Key
        /\ \A h \in Hash : Blob(s, h) \in Key
        /\ \A r \in Request : Avail(s, r) \in Key
    BY KeysTyped
  <2>5. u[Acct(s)] = values[Acct(s)] /\ SameItems(u, values, s)
    BY <2>3, <2>4 DEF WithPreimages, SameItems
  <2>6. \A h \in H : u[Avail(s, Answerable(h))] = <<slot>> /\ u[Blob(s, h)] = TRUE
    <3> TAKE h \in H
    <3>1. u[Avail(s, Answerable(h))] = <<slot>>
      <4>1. Answerable(h) \in Request /\ Answerable(h) \in A
        BY RequestsTyped
      <4> HIDE DEF A
      <4> QED BY <2>1, <2>4, <4>1 DEF WithPreimages
    <3>2. u[Blob(s, h)] = TRUE
      <4>1. Blob(s, h) \in Key /\ (\E p \in P : Blob(s, h) = Blob(p[1], p[2]))
            /\ ~(\E p \in P : Blob(s, h) = Avail(p[1], Answerable(p[2])))
        BY <2>2, <2>3, <2>4
      <4> QED BY <4>1, Zenon DEF WithPreimages
    <3> QED BY <3>1, <3>2
  <2>7. /\ \A r \in Request \ A : u[Avail(s, r)] = values[Avail(s, r)]
        /\ \A h \in Hash \ H : u[Blob(s, h)] = values[Blob(s, h)]
    <3> HIDE DEF A, H
    <3>1. ASSUME NEW r \in Request \ A PROVE u[Avail(s, r)] = values[Avail(s, r)]
      BY <2>1, <2>3, <2>4 DEF WithPreimages
    <3>2. ASSUME NEW h \in Hash \ H PROVE u[Blob(s, h)] = values[Blob(s, h)]
      BY <2>2, <2>3, <2>4 DEF WithPreimages
    <3> QED BY <3>1, <3>2
  <2>8. \A h \in H : values[Avail(s, Answerable(h))] = <<>>
    BY <2>b
  <2>9. H \in SUBSET Hash
    OBVIOUS
  <2> DEFINE t == slot
  <2>10. t \in Nat /\ \A h \in H : u[Avail(s, Answerable(h))] = <<t>>
    BY <2>6
  <2> HIDE DEF u, H, t
  <2>11. Sound(u, s)
    BY <2>5, <2>6, <2>7, <2>8, <2>9, <2>10, SoundAnswered
  <2> QED BY <2>5, <2>11 DEF Exists
<1> QED BY <1>1, <1>2

\* The output from which the merge takes the values of service s.
Source(w, s) == Creates(w, s) \/ (s = w /\ Exists(db, w))

LEMMA SourceUnique ==
    ASSUME ~ConflictingIds, NEW s \in Service, NEW w \in Ran, NEW z \in Ran,
           Source(w, s), Source(z, s)
    PROVE  w = z
  BY DEF Source, Creates, ConflictingIds

\* What the merge leaves for each key.
LEMMA MergedAt ==
    ASSUME AccumulationInv, ~ConflictingIds
    PROVE  LET m == Patched(Merged, db)
           IN  /\ DOMAIN m = Key
               /\ \A key \in Key :
                     LET s == Owner(key)
                     IN  /\ s \in Deleted /\ key \in Touched => m[key] = Missing
                         /\ key \notin Touched => m[key] = db[key]
                         /\ \A w \in Ran : s \notin Deleted /\ Source(w, s) =>
                               m[key] = Patched(outputs[w].pend, db)[key]
                         /\ s \notin Deleted /\ (\A w \in Ran : ~Source(w, s)) => m[key] = db[key]
<1> DEFINE m == Patched(Merged, db)
           D == DOMAIN Merged
<1>1. DOMAIN db = Key /\ \A w \in Ran : Pending(w) \subseteq Key
  <2>1. \A w \in Ran : outputs[w] \in Contexts
    BY DEF Contexts
  <2> QED BY <2>1 DEF AccumulationInv, ValuesOK, ContextsOK, ContextSound, Pending
<1>2. Touched \subseteq Key
  BY <1>1 DEF Touched
<1>3. /\ D = {k \in Touched : Owner(k) \in Deleted \/ \E w \in Ran : Takes(w, k)}
      /\ \A key \in D : Merged[key] = IF Owner(key) \in Deleted THEN Missing
                                      ELSE outputs[CHOOSE w \in Ran : Takes(w, key)].pend[key]
  BY DEF Merged
<1> HIDE DEF D
<1>4. D \subseteq Key
  BY <1>2, <1>3
<1>5. /\ DOMAIN m = Key
      /\ \A key \in D : m[key] = Merged[key]
      /\ \A key \in Key \ D : m[key] = db[key]
  <2>1. /\ DOMAIN m = DOMAIN Merged \cup DOMAIN db
        /\ \A key \in DOMAIN Merged : m[key] = Merged[key]
        /\ \A key \in DOMAIN db \ DOMAIN Merged : m[key] = db[key]
    BY PatchedAt
  <2> QED BY <1>1, <1>4, <2>1 DEF D
<1> HIDE DEF m
<1>6. ASSUME NEW key \in Key, NEW w \in Ran, Owner(key) \notin Deleted, Source(w, Owner(key))
      PROVE  m[key] = Patched(outputs[w].pend, db)[key]
  <2>1. Owner(key) \in Service
    BY KeyKinds
  <2>2. \A z \in Ran : Takes(z, key) => z = w
    <3> TAKE z \in Ran
    <3>1. Takes(z, key) => Source(z, Owner(key))
      BY DEF Takes, Source
    <3> QED BY <1>6, <2>1, <3>1, SourceUnique
  <2> DEFINE ch == outputs[w].pend
  <2>3. /\ key \in DOMAIN ch => Patched(ch, db)[key] = ch[key]
        /\ key \notin DOMAIN ch => Patched(ch, db)[key] = db[key]
    <3> HIDE DEF ch
    <3>1. /\ \A x \in DOMAIN ch : Patched(ch, db)[x] = ch[x]
          /\ \A x \in DOMAIN db \ DOMAIN ch : Patched(ch, db)[x] = db[x]
      BY PatchedAt
    <3> QED BY <1>1, <3>1
  <2>4. CASE key \in Pending(w)
    <3>1. Takes(w, key) /\ key \in Touched
      BY <1>6, <2>4 DEF Takes, Source, Touched
    <3>2. key \in D
      BY <1>3, <3>1
    <3>3. (CHOOSE z \in Ran : Takes(z, key)) = w
      BY <2>2, <3>1
    <3>4. m[key] = outputs[w].pend[key]
      BY <1>3, <1>5, <1>6, <3>2, <3>3
    <3> QED BY <2>3, <2>4, <3>4 DEF Pending
  <2>5. CASE key \notin Pending(w)
    <3>1. \A z \in Ran : ~Takes(z, key)
      BY <2>2, <2>5 DEF Takes
    <3>2. key \notin D
      BY <1>3, <1>6, <3>1
    <3> QED BY <1>5, <2>3, <2>5, <3>2 DEF Pending
  <2> QED BY <2>4, <2>5
<1>7. ASSUME NEW key \in Key
      PROVE  /\ Owner(key) \in Deleted /\ key \in Touched => m[key] = Missing
             /\ key \notin Touched => m[key] = db[key]
             /\ Owner(key) \notin Deleted /\ (\A w \in Ran : ~Source(w, Owner(key)))
                   => m[key] = db[key]
  <2>1. \A w \in Ran : Takes(w, key) => Source(w, Owner(key))
    BY DEF Takes, Source
  <2> QED BY <1>3, <1>5, <2>1
<1> QED BY <1>5, <1>6, <1>7 DEF m

\* A service of which m has the values of v.
LEMMA TakenOver ==
    ASSUME NEW m, NEW v, NEW s \in Service, \A key \in Key : Owner(key) = s => m[key] = v[key]
    PROVE  Untouched(m, v, s)
<1>1. /\ Acct(s) \in Key /\ \A k \in Item : Stored(s, k) \in Key
      /\ \A h \in Hash : Blob(s, h) \in Key
      /\ \A r \in Request : Avail(s, r) \in Key
  BY KeysTyped
<1>2. /\ Owner(Acct(s)) = s
      /\ \A k : Owner(Stored(s, k)) = s /\ Owner(Blob(s, k)) = s /\ Owner(Avail(s, k)) = s
  BY Owners
<1> QED BY <1>1, <1>2 DEF Untouched, SameItems, SameRequests

\* A service without any value is sound.
LEMMA NothingLeft ==
    ASSUME NEW m, NEW s \in Service, \A key \in Key : Owner(key) = s => m[key] = Missing
    PROVE  Sound(m, s) /\ ~Exists(m, s)
<1>1. /\ Acct(s) \in Key /\ \A k \in Item : Stored(s, k) \in Key
      /\ \A h \in Hash : Blob(s, h) \in Key
      /\ \A r \in Request : Avail(s, r) \in Key
  BY KeysTyped
<1>2. /\ Owner(Acct(s)) = s
      /\ \A k : Owner(Stored(s, k)) = s /\ Owner(Blob(s, k)) = s /\ Owner(Avail(s, k)) = s
  BY Owners
<1>3. /\ m[Acct(s)] = Missing /\ \A k \in Item : m[Stored(s, k)] = Missing
      /\ \A h \in Hash : m[Blob(s, h)] = Missing
      /\ \A r \in Request : m[Avail(s, r)] = Missing
  BY <1>1, <1>2
<1> QED BY <1>3 DEF Sound, Tidy, Exists, Items, Requests

\* A sound service that does not exist has no values.
LEMMA GoneHasNothing ==
    ASSUME NEW v, NEW s \in Service, Sound(v, s), ~Exists(v, s)
    PROVE  \A key \in Key : Owner(key) = s => v[key] = Missing
<1>1. v[Acct(s)] = Missing /\ Items(v, s) = {} /\ Requests(v, s) = {}
  BY DEF Sound, Tidy, Exists
<1>2. \A k \in Item : v[Stored(s, k)] = Missing
  BY <1>1 DEF Items
<1>3. \A r \in Request : v[Avail(s, r)] = Missing
  BY <1>1 DEF Requests
<1>4. \A h \in Hash : v[Blob(s, h)] = Missing
  BY <1>3, RequestsTyped DEF Sound, Tidy
<1> SUFFICES ASSUME NEW key \in Key, Owner(key) = s PROVE v[key] = Missing
  OBVIOUS
<1>5. \/ key = Acct(s) \/ \E k \in Item : key = Stored(s, k)
      \/ \E h \in Hash : key = Blob(s, h)
      \/ \E r \in Request : key = Avail(s, r)
  <2>1. PICK t \in Service :
           /\ Owner(key) = t
           /\ \/ key = Acct(t) \/ \E k \in Item : key = Stored(t, k)
              \/ \E h \in Hash : key = Blob(t, h)
              \/ \E r \in Request : key = Avail(t, r)
    BY KeyKinds
  <2> QED BY <2>1
<1> QED BY <1>1, <1>2, <1>3, <1>4, <1>5

\* The merged values are sound, and every account among them was committed before or
\* is one that some service of the round sees.
LEMMA MergedSound ==
    ASSUME AccumulationInv, ~ConflictingIds, NEW s \in Service
    PROVE  LET m == Patched(Merged, db)
           IN  /\ Sound(m, s)
               /\ Exists(m, s) => \/ Exists(db, s)
                                  \/ \E c \in Contexts : Exists(Patched(c.pend, db), s)
<1> DEFINE m == Patched(Merged, db)
           V(w) == Patched(outputs[w].pend, db)
<1>1. DOMAIN db = Key /\ Sound(db, s)
  BY DEF AccumulationInv, ValuesOK
<1>2. \A w \in Ran : outputs[w] \in Contexts /\ Sound(V(w), s) /\ Pending(w) \subseteq Key
  <2>1. \A w \in Ran : outputs[w] \in Contexts
    BY DEF Contexts
  <2> QED BY <2>1 DEF AccumulationInv, ContextsOK, ContextSound, Pending
<1>3. \A key \in Key : Owner(key) = s =>
         /\ s \in Deleted /\ key \in Touched => m[key] = Missing
         /\ key \notin Touched => m[key] = db[key]
         /\ \A w \in Ran : s \notin Deleted /\ Source(w, s) => m[key] = V(w)[key]
         /\ s \notin Deleted /\ (\A w \in Ran : ~Source(w, s)) => m[key] = db[key]
  BY MergedAt
<1> HIDE DEF m
<1>4. CASE s \in Deleted
  <2>1. PICK w \in Ran : Acct(s) \in Pending(w) /\ outputs[w].pend[Acct(s)] = Missing
    BY <1>4 DEF Deleted
  <2> DEFINE ch == outputs[w].pend
             v == Patched(ch, db)
  <2>2. /\ \A x \in DOMAIN ch : v[x] = ch[x]
        /\ \A x \in DOMAIN db \ DOMAIN ch : v[x] = db[x]
    <3> HIDE DEF ch
    <3> QED BY PatchedAt
  <2>3. Sound(v, s) /\ ~Exists(v, s)
    <3>1. v[Acct(s)] = Missing
      BY <2>1, <2>2 DEF Pending
    <3> QED BY <1>2, <3>1 DEF Exists
  <2>4. \A key \in Key : Owner(key) = s => v[key] = Missing
    <3> HIDE DEF v
    <3> QED BY <2>3, GoneHasNothing
  <2>5. \A key \in Key : Owner(key) = s => m[key] = Missing
    <3> TAKE key \in Key
    <3> HAVE Owner(key) = s
    <3>1. CASE key \in Touched
      BY <1>3, <1>4, <3>1
    <3>2. CASE key \notin Touched
      <4>1. key \notin DOMAIN ch
        BY <3>2 DEF Touched, Pending
      <4>2. v[key] = db[key]
        BY <1>1, <2>2, <4>1
      <4> HIDE DEF v
      <4> QED BY <1>3, <2>4, <3>2, <4>2
    <3> QED BY <3>1, <3>2
  <2>6. Sound(m, s) /\ ~Exists(m, s)
    BY <2>5, NothingLeft
  <2> QED BY <2>6 DEF m
<1>5. CASE s \notin Deleted /\ \E w \in Ran : Source(w, s)
  <2>1. PICK w \in Ran : Source(w, s)
    BY <1>5
  <2> DEFINE v == V(w)
  <2>2. \A key \in Key : Owner(key) = s => m[key] = v[key]
    BY <1>3, <1>5, <2>1
  <2>3. Sound(v, s) /\ outputs[w] \in Contexts /\ v = Patched(outputs[w].pend, db)
    BY <1>2
  <2> HIDE DEF v
  <2>4. Untouched(m, v, s)
    BY <2>2, TakenOver
  <2>5. Sound(m, s) /\ (Exists(m, s) => Exists(v, s))
    BY <2>3, <2>4, SoundLocal DEF Untouched, Exists
  <2> QED BY <2>3, <2>5 DEF m
<1>6. CASE s \notin Deleted /\ \A w \in Ran : ~Source(w, s)
  <2>1. \A key \in Key : Owner(key) = s => m[key] = db[key]
    BY <1>3, <1>6
  <2>2. Untouched(m, db, s)
    BY <2>1, TakenOver
  <2>3. Sound(m, s) /\ (Exists(m, s) => Exists(db, s))
    BY <1>1, <2>2, SoundLocal DEF Untouched, Exists
  <2> QED BY <2>3 DEF m
<1> QED BY <1>4, <1>5, <1>6

\* A step after which no context is left, and which commits no account but those in use.
LEMMA CommitStep ==
    ASSUME AccumulationInv, calls' = calls, Contexts' = {}, DOMAIN db' = Key,
           \A s \in Service : /\ Sound(db', s)
                              /\ Exists(db', s) => \/ Exists(db, s)
                                                   \/ \E c \in Contexts : Exists(Patched(c.pend, db), s)
    PROVE  ValuesOK' /\ ContextsOK' /\ IdsOK'
<1>1. ValuesOK' /\ ContextsOK'
  BY DEF ValuesOK, ContextsOK
<1>2. UsedNow' \subseteq UsedNow
  BY IdFacts DEF UsedNow
<1>3. IsFiniteSet(UsedNow') /\ Cardinality(UsedNow') <= Cardinality(UsedNow)
  BY <1>2, UsedFinite, FS_Subset
<1>4. Cardinality(UsedNow') \in Nat
  BY <1>3, FS_CardinalityType
<1>5. calls \in Nat /\ Cardinality(UsedNow) <= Cardinality(UsedIds(Accounts0)) + calls
  BY AccumulationAssumption DEF AccumulationInv, StateOK, IdsOK
<1>6. Cardinality(UsedNow') <= Cardinality(UsedIds(Accounts0)) + calls
  BY <1>3, <1>4, <1>5, UsedFinite
<1> QED BY <1>1, <1>6 DEF IdsOK

LEMMA MergeStep ==
    ASSUME AccumulationInv, NEW S \in SUBSET Late, MergeRound(S)
    PROVE  AccumulationInv'
<1>1. /\ run = Missing /\ outputs' = <<>> /\ sent' = <<>> /\ UNCHANGED <<slot, run, extrinsic, calls>>
      /\ \/ UNCHANGED <<db, inbox, todo>>
         \/ ~ConflictingIds /\ MergeWith(Merged, Provisions(Patched(Merged, db)), S)
  BY DEF MergeRound
<1>2. Ran' = {} /\ Contexts' = {}
  BY <1>1 DEF Ran, Contexts
<1>3. RunOK'
  BY <1>1 DEF RunOK
<1>4. <<>> \in Seq(Xfer)
  OBVIOUS
<1>5. CASE UNCHANGED <<db, inbox, todo>>
  <2>1. ValuesOK' /\ ContextsOK' /\ IdsOK'
    BY <1>1, <1>2, <1>5, SameContexts
  <2>2. StateOK'
    BY <1>1, <1>2, <1>4, <1>5 DEF AccumulationInv, StateOK
  <2> QED BY <1>3, <2>1, <2>2 DEF AccumulationInv
<1>6. CASE ~ConflictingIds /\ MergeWith(Merged, Provisions(Patched(Merged, db)), S)
  <2> DEFINE m == Patched(Merged, db)
             P == Provisions(m)
             u == WithPreimages(m, P)
  <2>1. db' = u /\ inbox' = sent /\ todo' = S \cup {sent[i].to : i \in DOMAIN sent}
    BY <1>6 DEF MergeWith
  <2>2. \A s \in Service : /\ Sound(m, s)
                           /\ Exists(m, s) => \/ Exists(db, s)
                                              \/ \E c \in Contexts : Exists(Patched(c.pend, db), s)
    BY <1>6, MergedSound
  <2>3. P \subseteq Service \X Hash /\ \A p \in P : m[Avail(p[1], Answerable(p[2]))] = <<>>
    <3>1. \A w \in Ran : outputs[w].provided \subseteq Service \X Hash
      BY DEF AccumulationInv, ContextsOK, Contexts, ContextSound
    <3> QED BY <3>1 DEF Provisions
  <2>4. slot \in Nat
    BY DEF AccumulationInv, StateOK
  <2> HIDE DEF m, P
  <2>5. /\ DOMAIN u = Key
        /\ \A s \in Service : Sound(u, s) /\ (Exists(u, s) <=> Exists(m, s))
    BY <2>2, <2>3, <2>4, PreimagesSound
  <2> HIDE DEF u
  <2>6. ValuesOK' /\ ContextsOK' /\ IdsOK'
    BY <1>1, <1>2, <2>1, <2>2, <2>5, CommitStep
  <2>7. StateOK'
    <3>1. sent \in Seq(Xfer)
      BY DEF AccumulationInv, StateOK
    <3>2. \A i \in DOMAIN sent : sent[i].to \in Service
      <4>1. \A i \in DOMAIN sent : sent[i] \in Xfer
        BY <3>1
      <4> QED BY <4>1 DEF Xfer
    <3>3. todo' \subseteq Service
      BY <2>1, <3>2, AccumulationAssumption
    <3> QED BY <1>1, <1>2, <1>4, <2>1, <3>1, <3>3 DEF AccumulationInv, StateOK
  <2> QED BY <1>3, <2>6, <2>7 DEF AccumulationInv
<1> QED BY <1>1, <1>5, <1>6

LEMMA EndBlockStep ==
    ASSUME AccumulationInv, EndBlock
    PROVE  AccumulationInv'
<1> DEFINE P == extrinsic \cap Needed
           u == WithPreimages(db, P)
<1>1. /\ run = Missing /\ Ran = {} /\ db' = u /\ extrinsic' = {} /\ inbox' = <<>>
      /\ UNCHANGED <<slot, todo, run, outputs, sent, calls>>
  BY DEF EndBlock
<1>2. Ran' = {} /\ Contexts' = {}
  BY <1>1 DEF Ran, Contexts
<1>3. P \subseteq Service \X Hash /\ \A p \in P : db[Avail(p[1], Answerable(p[2]))] = <<>>
  BY DEF Needed
<1>4. slot \in Nat /\ \A s \in Service : Sound(db, s)
  BY DEF AccumulationInv, StateOK, ValuesOK
<1> HIDE DEF P
<1>5. /\ DOMAIN u = Key
      /\ \A s \in Service : Sound(u, s) /\ (Exists(u, s) <=> Exists(db, s))
  BY <1>3, <1>4, PreimagesSound
<1> HIDE DEF u
<1>6. ValuesOK' /\ ContextsOK' /\ IdsOK'
  BY <1>1, <1>2, <1>5, CommitStep
<1>7. StateOK'
  <2>1. <<>> \in Seq(Xfer)
    OBVIOUS
  <2> QED BY <1>1, <1>2, <2>1 DEF AccumulationInv, StateOK
<1>8. RunOK'
  BY <1>1 DEF RunOK
<1> QED BY <1>6, <1>7, <1>8 DEF AccumulationInv

LEMMA InductiveStep == AccumulationInv /\ [Next]_vars => AccumulationInv'
<1> SUFFICES ASSUME AccumulationInv, [Next]_vars PROVE AccumulationInv'
  OBVIOUS
<1>1. CASE Block
  BY <1>1, BlockStep
<1>2. CASE \E hash \in FirstId : Invoke(hash)
  BY <1>2, InvokeStep
<1>3. CASE HcTransfer \/ HcNew \/ HcUpgrade \/ HcEject \/ HcWrite
               \/ HcSolicit \/ HcForget \/ HcProvide
  BY <1>3, HostCallStep
<1>4. CASE HcCheckpoint
  BY <1>4, CheckpointStep
<1>5. CASE Halt
  <2>1. run # Missing /\ Finish(run.x) /\ run.x \in {run.x, run.y}
    BY <1>5 DEF Halt
  <2> QED BY <2>1, FinishStep
<1>6. CASE Panic
  <2>1. run # Missing /\ Finish(run.y) /\ run.y \in {run.x, run.y}
    BY <1>6 DEF Panic
  <2> QED BY <2>1, FinishStep
<1>7. CASE \E S \in SUBSET Late : MergeRound(S)
  BY <1>7, MergeStep
<1>8. CASE EndBlock
  BY <1>8, EndBlockStep
<1>9. CASE UNCHANGED vars
  <2>1. UNCHANGED <<db, slot, phase, inbox, todo, run, outputs, sent, detached, extrinsic, calls>>
    BY <1>9 DEF vars
  <2>2. Ran' = Ran /\ Contexts' = Contexts
    BY <2>1 DEF Ran, Contexts
  <2>3. ValuesOK' /\ ContextsOK' /\ IdsOK'
    BY <2>1, <2>2, SameContexts
  <2>4. StateOK' /\ RunOK'
    BY <2>1, <2>2 DEF AccumulationInv, StateOK, RunOK
  <2> QED BY <2>3, <2>4 DEF AccumulationInv
<1> QED BY <1>1, <1>2, <1>3, <1>4, <1>5, <1>6, <1>7, <1>8, <1>9 DEF Next

\* Whatever the services of a block do, in any number of rounds: the committed values
\* are sound, and so is every context that the next merge may take.
THEOREM AccumulationInvariantHolds == Spec => []AccumulationInv
  BY InitialInv, InductiveStep, PTL DEF Spec

\* The footprint in an account is that of its storage items and preimage requests.
THEOREM FootprintHolds == Spec => []FootprintIsExact
<1>1. AccumulationInv => FootprintIsExact
  BY DEF AccumulationInv, ValuesOK, Sound, FootprintIsExact
<1> QED BY <1>1, AccumulationInvariantHolds, PTL

\* Every account has the balance that its footprint requires.
THEOREM SolventHolds == Spec => []Solvent
<1>1. AccumulationInv => Solvent
  BY DEF AccumulationInv, ValuesOK, Sound, Solvent
<1> QED BY <1>1, AccumulationInvariantHolds, PTL

\* Nothing is left of a service that is gone, and a preimage is stored exactly when its
\* request has been answered.
THEOREM NoOrphansHold == Spec => []NoOrphans
<1>1. AccumulationInv => NoOrphans
  <2> SUFFICES ASSUME AccumulationInv PROVE NoOrphans
    OBVIOUS
  <2>1. \A s \in Service : Sound(db, s) /\ Tidy(db, s)
    BY DEF AccumulationInv, ValuesOK, Sound
  <2>2. ASSUME NEW key \in Key, db[key] # Missing PROVE Exists(db, Owner(key))
    <3>1. Owner(key) \in Service
      BY KeyKinds
    <3> DEFINE s == Owner(key)
    <3>2. s \in Service /\ Sound(db, s)
      BY <2>1, <3>1
    <3>3. ~Exists(db, s) => \A x \in Key : Owner(x) = s => db[x] = Missing
      <4> HIDE DEF s
      <4> QED BY <3>2, GoneHasNothing
    <3> QED BY <2>2, <3>3
  <2> QED BY <2>1, <2>2 DEF NoOrphans
<1> QED BY <1>1, AccumulationInvariantHolds, PTL
-----------------------------------------------------------------------------
(* Lookups of recent slots.                                                *)

\* The hashes of which changes touch a request of s that names another length.
Others(changes, s) ==
    {h \in Hash : \E r \in Request : /\ r[1] = h /\ r # Answerable(h)
                                   /\ Avail(s, r) \in DOMAIN changes}

\* u answers lookups of s as v does, for the slots before t that may still be asked,
\* except that preimages of the hashes in E may be gone.
Recent(t) == t - Expunge .. t - 1
SameLookups(u, v, s, t, E) ==
    \A h \in Hash, q \in Recent(t) :
        /\ Lookup(u, s, h, q) => Lookup(v, s, h, q)
        /\ Lookup(v, s, h, q) => Lookup(u, s, h, q) \/ h \in E

LEMMA LookupShows ==
    ASSUME NEW v, NEW s, NEW h, NEW q
    PROVE  /\ Lookup(v, s, h, q) \in BOOLEAN
           /\ Lookup(v, s, h, q) <=>
                 /\ v[Blob(s, h)] # Missing /\ v[Avail(s, Answerable(h))] # Missing
                 /\ Shows(v[Avail(s, Answerable(h))], q)
  BY DEF Lookup, Shows

LEMMA ElementsAreNat ==
    ASSUME NEW a \in Seq(Nat), NEW n \in Nat, Len(a) = n
    PROVE  \A i \in 1 .. n : a[i] \in Nat
  OBVIOUS

\* One more slot at the end of a history says nothing of the slots before it.
LEMMA ShowsAppended ==
    ASSUME NEW a \in Seq(Nat), Len(a) \in {1, 2}, NEW t \in Nat, NEW r \in Int, r < t
    PROVE  Shows(Append(a, t), r) <=> Shows(a, r)
<1> DEFINE b == Append(a, t)
<1>0. /\ Len(b) = Len(a) + 1 /\ b[Len(a) + 1] = t
      /\ \A i \in 1 .. Len(a) : b[i] = a[i] /\ a[i] \in Nat
  OBVIOUS
<1>1. CASE Len(a) = 1
  <2>1. Len(b) = 2 /\ b[1] = a[1] /\ b[2] = t /\ a[1] \in Nat
    <3>1. 1 \in 1 .. Len(a) /\ Len(a) + 1 = 2
      BY <1>1
    <3> HIDE DEF b
    <3> QED BY <1>0, <3>1
  <2> HIDE DEF b
  <2> QED BY <1>1, <2>1 DEF Shows, b
<1>2. CASE Len(a) = 2
  <2>1. Len(b) = 3 /\ b[1] = a[1] /\ b[2] = a[2] /\ b[3] = t /\ a[1] \in Nat /\ a[2] \in Nat
    <3>1. 1 \in 1 .. Len(a) /\ 2 \in 1 .. Len(a) /\ Len(a) + 1 = 3
      BY <1>2
    <3> HIDE DEF b
    <3> QED BY <1>0, <3>1
  <2> HIDE DEF b
  <2> QED BY <1>2, <2>1 DEF Shows, b
<1> QED BY <1>1, <1>2

\* Nor does dropping the first two, when the second is too long ago.
LEMMA ShowsShifted ==
    ASSUME NEW a \in Seq(Nat), Len(a) = 3, NEW t \in Nat, NEW e \in Nat, a[2] < t - e,
           NEW r \in t - e .. t - 1
    PROVE  Shows(<<a[3], t>>, r) <=> Shows(a, r)
<1> DEFINE b == <<a[3], t>>
<1>1. a[1] \in Nat /\ a[2] \in Nat /\ a[3] \in Nat /\ r \in Int
  <2>1. \A i \in 1 .. 3 : a[i] \in Nat
    BY ElementsAreNat
  <2>2. 1 \in 1 .. 3 /\ 2 \in 1 .. 3 /\ 3 \in 1 .. 3
    OBVIOUS
  <2> QED BY <2>1, <2>2
<1>2. Len(b) = 2 /\ b[1] = a[3] /\ b[2] = t
  OBVIOUS
<1>3. ~(r < a[2]) /\ r < t
  BY <1>1
<1> HIDE DEF b
<1>4. Shows(b, r) <=> Shows(a, r)
  BY <1>1, <1>2, <1>3 DEF Shows
<1> QED BY <1>4 DEF b

\* A request that can go at once answers no lookup of a recent slot.
LEMMA DroppableShowsNothing ==
    ASSUME NEW a \in Seq(Nat), NEW t \in Nat, Droppable(a, t), NEW r \in t - Expunge .. t - 1
    PROVE  ~Shows(a, r)
<1>1. Expunge \in Nat /\ r \in Int
  BY ServiceAssumption
<1>2. CASE a = <<>>
  <2>1. Len(a) = 0
    BY <1>2
  <2> QED BY <2>1 DEF Shows
<1>3. CASE Expired(a, t)
  <2>1. Len(a) = 2 /\ a[2] \in Nat /\ a[2] < t - Expunge
    <3>1. Len(a) = 2 /\ a[2] < t - Expunge
      BY <1>3 DEF Expired
    <3>2. \A i \in 1 .. 2 : a[i] \in Nat
      BY <3>1, ElementsAreNat
    <3>3. 2 \in 1 .. 2
      OBVIOUS
    <3> QED BY <3>1, <3>2, <3>3
  <2>2. ~(r < a[2])
    BY <1>1, <2>1
  <2> QED BY <2>1, <2>2 DEF Shows
<1> QED BY <1>2, <1>3 DEF Droppable

LEMMA NewestShowsNothing ==
    ASSUME NEW t \in Nat, NEW r \in Int, r < t
    PROVE  ~Shows(<<t>>, r) /\ ~Shows(<<>>, r)
<1>1. Len(<<t>>) = 1 /\ <<t>>[1] = t /\ Len(<<>>) = 0
  OBVIOUS
<1> QED BY <1>1 DEF Shows

LEMMA SameRequestsLookup ==
    ASSUME NEW u, NEW v, NEW s, NEW t, NEW E, SameRequests(u, v, s)
    PROVE  SameLookups(u, v, s, t, E)
<1> SUFFICES ASSUME NEW h \in Hash, NEW q \in Recent(t)
             PROVE  Lookup(u, s, h, q) <=> Lookup(v, s, h, q)
  BY DEF SameLookups
<1>1. u[Avail(s, Answerable(h))] = v[Avail(s, Answerable(h))] /\ u[Blob(s, h)] = v[Blob(s, h)]
  BY RequestsTyped DEF SameRequests
<1> QED BY <1>1, LookupShows

LEMMA SameLookupsTwice ==
    ASSUME NEW u, NEW v, NEW w, NEW s, NEW t, NEW D, NEW E, D \subseteq E,
           SameLookups(u, v, s, t, E), SameLookups(v, w, s, t, D)
    PROVE  SameLookups(u, w, s, t, E)
  BY DEF SameLookups

\* It is enough to look at the one request that changes.
LEMMA OneRequestLookup ==
    ASSUME NEW u, NEW v, NEW s \in Service, NEW r \in Request, NEW t, NEW E,
           Differ(u, v, {Acct(s), Avail(s, r), Blob(s, r[1])}),
           r # Answerable(r[1]) => r[1] \in E /\ u[Blob(s, r[1])] \in {Missing, v[Blob(s, r[1])]},
           r = Answerable(r[1]) =>
              \A q \in Recent(t) : Lookup(u, s, r[1], q) <=> Lookup(v, s, r[1], q)
    PROVE  SameLookups(u, v, s, t, E)
<1> SUFFICES ASSUME NEW h \in Hash, NEW q \in Recent(t)
             PROVE  /\ Lookup(u, s, h, q) => Lookup(v, s, h, q)
                    /\ Lookup(v, s, h, q) => Lookup(u, s, h, q) \/ h \in E
  BY DEF SameLookups
<1>1. Answerable(h) \in Request /\ Answerable(h)[1] = h
  BY RequestsTyped
<1>2. CASE h # r[1]
  <2>1. Answerable(h) # r
    BY <1>1, <1>2
  <2>2. u[Avail(s, Answerable(h))] = v[Avail(s, Answerable(h))] /\ u[Blob(s, h)] = v[Blob(s, h)]
    BY <1>1, <1>2, <2>1, KeysTyped, KeysDiffer DEF Differ
  <2> QED BY <2>2, LookupShows
<1>3. CASE h = r[1] /\ r = Answerable(r[1])
  BY <1>3
<1>4. CASE h = r[1] /\ r # Answerable(r[1])
  <2>1. u[Avail(s, Answerable(h))] = v[Avail(s, Answerable(h))]
    BY <1>1, <1>4, KeysTyped, KeysDiffer DEF Differ
  <2>2. h \in E /\ u[Blob(s, h)] \in {Missing, v[Blob(s, h)]}
    BY <1>4
  <2> QED BY <2>1, <2>2, LookupShows
<1> QED BY <1>2, <1>3, <1>4

LEMMA RecentFacts ==
    ASSUME NEW t \in Nat, NEW r \in Recent(t)
    PROVE  r \in Int /\ r < t /\ r \in t - Expunge .. t - 1
  BY ServiceAssumption DEF Recent

\* Context d, which comes after c, answers lookups of s as c does, for the slots before t.
KeepsLookups(d, c, values, s, t) ==
    /\ DOMAIN c.pend \subseteq DOMAIN d.pend
    /\ SameLookups(Patched(d.pend, values), Patched(c.pend, values), s, t, Others(d.pend, s))

LEMMA WithDomain ==
    ASSUME NEW c, IsContext(c), NEW ch, NEW s, NEW a
    PROVE  /\ DOMAIN With(c, ch).pend = DOMAIN ch \cup DOMAIN c.pend
           /\ DOMAIN WithAccount(c, s, a).pend = {Acct(s)} \cup DOMAIN c.pend
           /\ IsContext(WithAccount(c, s, a)) /\ IsContext(With(c, ch))
<1>1. ASSUME NEW g PROVE IsContext(With(c, g)) /\ DOMAIN With(c, g).pend = DOMAIN g \cup DOMAIN c.pend
  <2>1. IsContext(With(c, g)) /\ With(c, g).pend = Patched(g, c.pend)
    BY WithFacts
  <2>2. DOMAIN Patched(g, c.pend) = DOMAIN g \cup DOMAIN c.pend
    BY PatchedAt
  <2> QED BY <2>1, <2>2
<1> DEFINE o == Only(Acct(s), a)
<1>2. DOMAIN o = {Acct(s)} /\ WithAccount(c, s, a) = With(c, o)
  BY OnlyAt DEF WithAccount
<1> HIDE DEF o
<1> QED BY <1>1, <1>2

LEMMA LookupSolicit ==
    ASSUME NEW values, DOMAIN values = Key, NEW c, ContextSound(c, values), NEW t \in Nat,
           NEW s \in Service, NEW r \in Request, CanSolicit(Patched(c.pend, values), s, r)
    PROVE  KeepsLookups(Solicit(Patched(c.pend, values), c, s, r, t), c, values, s, t)
<1> DEFINE v == Patched(c.pend, values)
           old == v[Avail(s, r)]
           hist == IF old = Missing THEN <<>> ELSE Append(old, t)
           ch == Only(Avail(s, r), hist)
           a == Soliciting(v, s, r)
           n == WithAccount(With(c, ch), s, a)
           u == Patched(n.pend, values)
<1>1. MapsTyped(v, s)
  BY ContextFields, SoundFacts
<1>2. DOMAIN ch = {Avail(s, r)} /\ ch[Avail(s, r)] = hist
  BY OnlyAt
<1>3. DOMAIN ch \subseteq Key /\ Acct(s) \notin DOMAIN ch
  BY <1>2, KeysTyped, KeysDiffer
<1>4. n = Solicit(v, c, s, r, t)
  BY DEF Solicit
<1>5. /\ old # Missing => old \in Seq(Nat) /\ Len(old) \in {1, 2} /\ hist = Append(old, t)
      /\ old = Missing => hist = <<>>
  BY <1>1 DEF MapsTyped, CanSolicit
<1>6. hist # Missing
  <2>1. hist \in Seq(Nat)
    <3>1. old # Missing => Append(old, t) \in Seq(Nat)
      <4> HIDE DEF old, hist
      <4> QED BY <1>5
    <3>2. <<>> \in Seq(Nat)
      OBVIOUS
    <3> QED BY <3>1, <3>2
  <2> HIDE DEF hist
  <2> QED BY <2>1, MissingAssumption, Zenon
<1> HIDE DEF ch, a, hist
<1>7. OnTop(n, c, values, ch, s, a)
  BY <1>3, WithMapsFacts
<1> HIDE DEF n
<1>8. Differ(u, v, {Avail(s, r), Acct(s)}) /\ u[Avail(s, r)] = hist
  BY <1>2, <1>7 DEF OnTop
<1>9. u[Blob(s, r[1])] = v[Blob(s, r[1])] /\ Differ(u, v, {Acct(s), Avail(s, r), Blob(s, r[1])})
  BY <1>8, KeysTyped, KeysDiffer, RequestsTyped DEF Differ
<1>a. DOMAIN c.pend \subseteq DOMAIN n.pend /\ Avail(s, r) \in DOMAIN n.pend
  <2> DEFINE e == With(c, ch)
  <2>1. IsContext(e) /\ DOMAIN e.pend = DOMAIN ch \cup DOMAIN c.pend
    BY WithDomain DEF ContextSound
  <2> HIDE DEF e
  <2>2. DOMAIN WithAccount(e, s, a).pend = {Acct(s)} \cup DOMAIN e.pend
    BY <2>1, WithDomain
  <2>3. n = WithAccount(e, s, a)
    BY DEF n, e
  <2> QED BY <1>2, <2>1, <2>2, <2>3
<1> DEFINE E == Others(n.pend, s)
<1>b. r # Answerable(r[1]) => r[1] \in E
  BY <1>a, RequestsTyped DEF Others
<1> HIDE DEF u, E
<1>10. ASSUME NEW q \in Recent(t), r = Answerable(r[1])
       PROVE  Lookup(u, s, r[1], q) <=> Lookup(v, s, r[1], q)
  <2>1. q \in Int /\ q < t
    BY RecentFacts
  <2>2. CASE old = Missing
    <3>1. ~Shows(hist, q)
      BY <1>5, <2>1, <2>2, NewestShowsNothing
    <3> QED BY <1>8, <1>10, <2>2, <3>1, LookupShows
  <2>3. CASE old # Missing
    <3>1. Shows(hist, q) <=> Shows(old, q)
      <4> HIDE DEF old
      <4> QED BY <1>5, <2>1, <2>3, ShowsAppended
    <3> QED BY <1>6, <1>8, <1>9, <1>10, <2>3, <3>1, LookupShows
  <2> QED BY <2>2, <2>3
<1>11. SameLookups(u, v, s, t, E)
  BY <1>9, <1>10, <1>b, OneRequestLookup
<1> QED BY <1>4, <1>11, <1>a DEF KeepsLookups, u, E

LEMMA LookupForget ==
    ASSUME NEW values, DOMAIN values = Key, NEW c, ContextSound(c, values), NEW t \in Nat,
           NEW s \in Service, NEW r \in Request, CanForget(Patched(c.pend, values), s, r, t)
    PROVE  KeepsLookups(Forget(Patched(c.pend, values), c, s, r, t), c, values, s, t)
<1> DEFINE v == Patched(c.pend, values)
           old == v[Avail(s, r)]
           n == Forget(v, c, s, r, t)
           u == Patched(n.pend, values)
<1>1. old \in Seq(Nat) /\ old # Missing
  <2>1. MapsTyped(v, s)
    BY ContextFields, SoundFacts
  <2> QED BY <2>1 DEF MapsTyped, CanForget
<1>2. CASE Droppable(old, t)
  <2> DEFINE ch == [key \in {Avail(s, r), Blob(s, r[1])} |-> Missing]
             a == Grown(v[Acct(s)], -2, -PreimageOctets(r[2]))
  <2>1. n = WithAccount(With(c, ch), s, a)
    BY <1>2 DEF Forget
  <2>2. /\ DOMAIN ch = {Avail(s, r), Blob(s, r[1])}
        /\ ch[Avail(s, r)] = Missing /\ ch[Blob(s, r[1])] = Missing
    OBVIOUS
  <2>3. DOMAIN ch \subseteq Key /\ Acct(s) \notin DOMAIN ch
    BY <2>2, KeysTyped, KeysDiffer, RequestsTyped
  <2> HIDE DEF ch, a, n
  <2>4. OnTop(n, c, values, ch, s, a)
    BY <2>1, <2>3, WithMapsFacts
  <2>5. /\ Differ(u, v, {Avail(s, r), Blob(s, r[1]), Acct(s)})
        /\ u[Avail(s, r)] = Missing /\ u[Blob(s, r[1])] = Missing
    BY <2>2, <2>4 DEF OnTop
  <2>6. Differ(u, v, {Acct(s), Avail(s, r), Blob(s, r[1])})
    BY <2>5 DEF Differ
  <2>a. DOMAIN c.pend \subseteq DOMAIN n.pend /\ Avail(s, r) \in DOMAIN n.pend
    BY <2>1, <2>2, WithDomain DEF ContextSound
  <2> DEFINE E == Others(n.pend, s)
  <2>b. r # Answerable(r[1]) => r[1] \in E
    BY <2>a, RequestsTyped DEF Others
  <2> HIDE DEF E
  <2>7. ASSUME NEW q \in Recent(t), r = Answerable(r[1])
        PROVE  Lookup(u, s, r[1], q) <=> Lookup(v, s, r[1], q)
    <3>1. ~Shows(old, q)
      <4> HIDE DEF old
      <4> QED BY <1>1, <1>2, RecentFacts, DroppableShowsNothing
    <3> HIDE DEF u
    <3> QED BY <2>5, <2>7, <3>1, LookupShows
  <2> HIDE DEF u
  <2>8. SameLookups(u, v, s, t, E)
    BY <2>5, <2>6, <2>7, <2>b, OneRequestLookup
  <2> QED BY <2>8, <2>a DEF KeepsLookups, u, n, E
<1>3. CASE ~Droppable(old, t)
  <2> DEFINE hist == IF Len(old) = 1 THEN Append(old, t) ELSE <<old[3], t>>
  <2>1. n = With(c, Only(Avail(s, r), hist))
    BY <1>3 DEF Forget
  <2>2. Len(old) = 1 \/ (Len(old) = 3 /\ old[2] < t - Expunge)
    BY <1>3 DEF CanForget
  <2>3. hist # Missing
    <3>1. hist \in Seq(Nat)
      <4> HIDE DEF old
      <4>1. CASE Len(old) = 1
        BY <1>1, <4>1
      <4>2. CASE Len(old) = 3
        <5>1. 3 \in 1 .. Len(old) /\ old \in Seq(Nat)
          BY <1>1, <4>2
        <5>2. old[3] \in Nat
          BY <5>1
        <5> QED BY <4>2, <5>2
      <4> QED BY <2>2, <4>1, <4>2
    <3> HIDE DEF hist
    <3> QED BY <3>1, MissingAssumption, Zenon
  <2>4. ASSUME NEW q \in Recent(t) PROVE Shows(hist, q) <=> Shows(old, q)
    <3> HIDE DEF old
    <3>1. q \in Int /\ q < t /\ q \in t - Expunge .. t - 1 /\ Expunge \in Nat
      BY RecentFacts, ServiceAssumption
    <3>2. CASE Len(old) = 1
      BY <1>1, <3>1, <3>2, ShowsAppended
    <3>3. CASE Len(old) = 3 /\ old[2] < t - Expunge
      <4>1. hist = <<old[3], t>>
        BY <3>3
      <4>2. Shows(<<old[3], t>>, q) <=> Shows(old, q)
        BY <1>1, <3>1, <3>3, ShowsShifted
      <4> QED BY <4>1, <4>2
    <3> QED BY <2>2, <3>2, <3>3
  <2> HIDE DEF hist, n
  <2>5. Differ(u, v, {Avail(s, r)}) /\ u[Avail(s, r)] = hist
    <3>1. HasOne(n, c, values, Avail(s, r), hist)
      BY <2>1, KeysTyped, WithOneFacts
    <3> QED BY <3>1 DEF HasOne
  <2>6. u[Blob(s, r[1])] = v[Blob(s, r[1])] /\ Differ(u, v, {Acct(s), Avail(s, r), Blob(s, r[1])})
    BY <2>5, KeysTyped, KeysDiffer, RequestsTyped DEF Differ
  <2>a. DOMAIN c.pend \subseteq DOMAIN n.pend /\ Avail(s, r) \in DOMAIN n.pend
    <3> DEFINE ch == Only(Avail(s, r), hist)
    <3>1. DOMAIN ch = {Avail(s, r)} /\ n = With(c, ch)
      BY <2>1, OnlyAt
    <3> HIDE DEF ch
    <3>2. DOMAIN With(c, ch).pend = DOMAIN ch \cup DOMAIN c.pend
      BY WithDomain DEF ContextSound
    <3> QED BY <3>1, <3>2
  <2> DEFINE E == Others(n.pend, s)
  <2>b. r # Answerable(r[1]) => r[1] \in E
    BY <2>a, RequestsTyped DEF Others
  <2> HIDE DEF u, E
  <2>7. ASSUME NEW q \in Recent(t), r = Answerable(r[1])
        PROVE  Lookup(u, s, r[1], q) <=> Lookup(v, s, r[1], q)
    BY <1>1, <2>3, <2>4, <2>5, <2>6, <2>7, LookupShows
  <2>8. SameLookups(u, v, s, t, E)
    BY <2>6, <2>7, <2>b, OneRequestLookup
  <2> QED BY <2>8, <2>a DEF KeepsLookups, u, n, E
<1> QED BY <1>2, <1>3

\* The calls that leave the caller's requests alone.
LEMMA LookupOthers ==
    ASSUME NEW values, DOMAIN values = Key, NEW c, ContextSound(c, values),
           NEW s \in Service, Exists(Patched(c.pend, values), s), NEW t
    PROVE  /\ \A d \in Service, amount \in Nat :
                 KeepsLookups(Transfer(Patched(c.pend, values), c, s, d, amount), c, values, s, t)
           /\ \A code \in Hash \cup Service :
                 KeepsLookups(Upgrade(Patched(c.pend, values), c, s, code), c, values, s, t)
           /\ \A d \in Service, h \in Hash : KeepsLookups(Provide(c, d, h), c, values, s, t)
           /\ \A d \in Service, r \in Request :
                 d # s => KeepsLookups(Eject(Patched(c.pend, values), c, s, d, r), c, values, s, t)
           /\ \A k \in Item, size \in Nat :
                 KeepsLookups(Write(Patched(c.pend, values), c, s, k, size), c, values, s, t)
<1> DEFINE v == Patched(c.pend, values)
<1>1. IsContext(c)
  BY DEF ContextSound
<1>2. ASSUME NEW a PROVE KeepsLookups(WithAccount(c, s, a), c, values, s, t)
  <2> DEFINE u == Patched(WithAccount(c, s, a).pend, values)
  <2>1. SameRequests(u, v, s)
    BY WithAccountFacts
  <2>2. DOMAIN c.pend \subseteq DOMAIN WithAccount(c, s, a).pend
    BY <1>1, WithDomain
  <2> DEFINE E == Others(WithAccount(c, s, a).pend, s)
  <2> HIDE DEF u, v, E
  <2>3. SameLookups(u, v, s, t, E)
    BY <2>1, SameRequestsLookup
  <2> QED BY <2>2, <2>3 DEF KeepsLookups, u, v, E
<1>3. ASSUME NEW ch, DOMAIN ch \subseteq Key, Acct(s) \notin DOMAIN ch, NEW a,
             \A r \in Request : Avail(s, r) \notin DOMAIN ch,
             \A h \in Hash : Blob(s, h) \notin DOMAIN ch
      PROVE  KeepsLookups(WithAccount(With(c, ch), s, a), c, values, s, t)
  <2> DEFINE n == WithAccount(With(c, ch), s, a)
             u == Patched(n.pend, values)
  <2>1. OnTop(n, c, values, ch, s, a)
    BY <1>3, WithMapsFacts
  <2>a. DOMAIN c.pend \subseteq DOMAIN n.pend
    <3> DEFINE e == With(c, ch)
    <3>1. IsContext(e) /\ DOMAIN c.pend \subseteq DOMAIN e.pend
      BY <1>1, WithDomain
    <3> HIDE DEF e
    <3>2. DOMAIN e.pend \subseteq DOMAIN WithAccount(e, s, a).pend
      BY <3>1, WithDomain
    <3> QED BY <3>1, <3>2 DEF e
  <2> HIDE DEF n
  <2>2. Differ(u, v, DOMAIN ch \cup {Acct(s)})
    BY <2>1 DEF OnTop
  <2>3. SameRequests(u, v, s)
    BY <1>3, <2>2, KeysTyped, KeysDiffer DEF Differ, SameRequests
  <2> DEFINE E == Others(n.pend, s)
  <2> HIDE DEF u, v, E
  <2>4. SameLookups(u, v, s, t, E)
    BY <2>3, SameRequestsLookup
  <2> QED BY <2>4, <2>a DEF KeepsLookups, u, v, n, E
<1>4. ASSUME NEW d \in Service, NEW amount \in Nat
      PROVE  KeepsLookups(Transfer(v, c, s, d, amount), c, values, s, t)
  <2> DEFINE a == [v[Acct(s)] EXCEPT !.bal = @ - amount]
             e == WithAccount(c, s, a)
             n == Transfer(v, c, s, d, amount)
  <2>1. IsContext(e)
    BY WithAccountFacts
  <2>2. n = [e EXCEPT !.xfers = Append(@, [to |-> d, amount |-> amount])]
    BY DEF Transfer
  <2>3. KeepsLookups(e, c, values, s, t)
    BY <1>2
  <2> HIDE DEF e, n
  <2>4. n.pend = e.pend
    BY <2>1, <2>2 DEF IsContext
  <2> QED BY <2>3, <2>4 DEF KeepsLookups, n
<1>5. ASSUME NEW code \in Hash \cup Service PROVE KeepsLookups(Upgrade(v, c, s, code), c, values, s, t)
  BY <1>2 DEF Upgrade
<1>6. ASSUME NEW d \in Service, NEW h \in Hash PROVE KeepsLookups(Provide(c, d, h), c, values, s, t)
  <2>1. Provide(c, d, h).pend = c.pend
    BY <1>1 DEF Provide, IsContext
  <2> QED BY <2>1 DEF KeepsLookups, SameLookups
<1>7. ASSUME NEW d \in Service, NEW r \in Request, d # s
      PROVE  KeepsLookups(Eject(v, c, s, d, r), c, values, s, t)
  <2> DEFINE ch == [key \in {Blob(d, r[1]), Avail(d, r), Acct(d)} |-> Missing]
             a == [v[Acct(s)] EXCEPT !.bal = @ + v[Acct(d)].bal]
  <2>1. DOMAIN ch = {Blob(d, r[1]), Avail(d, r), Acct(d)}
    OBVIOUS
  <2>2. /\ DOMAIN ch \subseteq Key /\ Acct(s) \notin DOMAIN ch
        /\ \A j \in Request : Avail(s, j) \notin DOMAIN ch
        /\ \A j \in Hash : Blob(s, j) \notin DOMAIN ch
    BY <1>7, <2>1, KeysTyped, KeysDiffer, RequestsTyped
  <2> HIDE DEF ch, a
  <2>3. KeepsLookups(WithAccount(With(c, ch), s, a), c, values, s, t)
    BY <1>3, <2>2
  <2> QED BY <2>3 DEF Eject, ch, a
<1>8. ASSUME NEW k \in Item, NEW size \in Nat
      PROVE  KeepsLookups(Write(v, c, s, k, size), c, values, s, t)
  <2> DEFINE ch == Only(Stored(s, k), IF size = 0 THEN Missing ELSE size)
             a == Written(v, s, k, size)
  <2>1. DOMAIN ch = {Stored(s, k)}
    BY OnlyAt
  <2>2. /\ DOMAIN ch \subseteq Key /\ Acct(s) \notin DOMAIN ch
        /\ \A j \in Request : Avail(s, j) \notin DOMAIN ch
        /\ \A j \in Hash : Blob(s, j) \notin DOMAIN ch
    BY <2>1, KeysTyped, KeysDiffer
  <2> HIDE DEF ch, a
  <2>3. KeepsLookups(WithAccount(With(c, ch), s, a), c, values, s, t)
    BY <1>3, <2>2
  <2> QED BY <2>3 DEF Write, ch, a
<1> QED BY <1>4, <1>5, <1>6, <1>7, <1>8

LEMMA LookupNew ==
    ASSUME NEW values, DOMAIN values = Key, NEW c, ContextSound(c, values),
           NEW s \in Service, Exists(Patched(c.pend, values), s),
           NEW r \in Request, NEW offset \in Nat, NEW i \in Service,
           CanNew(Patched(c.pend, values), s, r, offset, i), NEW t
    PROVE  KeepsLookups(New(Patched(c.pend, values), c, s, r, offset, i), c, values, s, t)
<1> DEFINE v == Patched(c.pend, values)
           a == NewAccount(r, offset)
           b == [v[Acct(s)] EXCEPT !.bal = @ - a.bal]
           id == IF OwnChoice(s, i) THEN i ELSE c.newId
           m == With(WithAccount(WithAccount(c, s, b), id, a), Only(Avail(id, r), <<>>))
           next == CheckServiceId(v, FirstPublic + ((id - FirstPublic + 42) % PublicIds))
           n == New(v, c, s, r, offset, i)
           u == Patched(m.pend, values)
<1>1. id \in Service /\ id # s
  <2>1. c.newId \in Service /\ ~Exists(v, c.newId)
    BY ServiceAssumption DEF ContextSound
  <2>2. OwnChoice(s, i) => ~Exists(v, i)
    BY DEF CanNew, Exists
  <2> QED BY <2>1, <2>2
<1>2. n = m \/ n = [m EXCEPT !.newId = next]
  BY DEF New
<1> HIDE DEF a, b, id
<1>a. DOMAIN c.pend \subseteq DOMAIN m.pend
  <2> DEFINE c1 == WithAccount(c, s, b)
             c2 == WithAccount(c1, id, a)
  <2>1. IsContext(c1) /\ DOMAIN c.pend \subseteq DOMAIN c1.pend
    BY WithDomain DEF ContextSound
  <2> HIDE DEF c1
  <2>2. IsContext(c2) /\ DOMAIN c1.pend \subseteq DOMAIN c2.pend
    BY <2>1, WithDomain
  <2> HIDE DEF c2
  <2>3. DOMAIN c2.pend \subseteq DOMAIN With(c2, Only(Avail(id, r), <<>>)).pend
    BY <2>2, WithDomain
  <2> QED BY <2>1, <2>2, <2>3 DEF c1, c2
<1>3. HasNew(m, c, values, s, b, id, r, a)
  BY <1>1, NewValues
<1> HIDE DEF m
<1>4. IsContext(m) /\ Differ(u, v, {Acct(s), Acct(id), Avail(id, r)})
  BY <1>3 DEF HasNew
<1> HIDE DEF n, next
<1>5. n.pend = m.pend
  BY <1>2, <1>4 DEF IsContext
<1>6. SameRequests(u, v, s)
  BY <1>1, <1>4, KeysTyped, KeysDiffer DEF Differ, SameRequests
<1> DEFINE E == Others(n.pend, s)
<1> HIDE DEF u, v, E
<1>7. SameLookups(u, v, s, t, E)
  BY <1>6, SameRequestsLookup
<1> QED BY <1>5, <1>7, <1>a DEF KeepsLookups, u, v, n, E

\* Context c answers lookups of s as the committed values do.
Answers(c, s) == SameLookups(Patched(c.pend, db), db, s, slot, Others(c.pend, s))

\* Between blocks nothing runs, and during a block every context answers lookups of its
\* service as the committed values do.
LookupsOK ==
    /\ phase = "idle" => run = Missing /\ Ran = {}
    /\ run # Missing => Answers(run.x, run.s) /\ Answers(run.y, run.s)
    /\ \A w \in Ran : Answers(outputs[w], w)

\* A step after which no context is left.
LEMMA NoContextLookups == run' = Missing /\ Ran' = {} => LookupsOK'
  BY DEF LookupsOK

\* outputs with one more.
LEMMA OutputsAt ==
    ASSUME NEW s, NEW c, outputs' = Patched(Only(s, c), outputs)
    PROVE  Ran' = Ran \cup {s} /\ outputs'[s] = c /\ \A w \in Ran \ {s} : outputs'[w] = outputs[w]
<1> DEFINE o == Only(s, c)
           g == Patched(o, outputs)
<1>1. DOMAIN o = {s} /\ o[s] = c
  BY OnlyAt
<1> HIDE DEF o
<1>2. /\ DOMAIN g = DOMAIN o \cup DOMAIN outputs
      /\ \A w \in DOMAIN o : g[w] = o[w]
      /\ \A w \in DOMAIN outputs \ DOMAIN o : g[w] = outputs[w]
  BY PatchedAt
<1>3. outputs' = g
  BY DEF o
<1> HIDE DEF g
<1> QED BY <1>1, <1>2, <1>3 DEF Ran

LEMMA LookupCall ==
    ASSUME AccumulationInv, LookupsOK, NEW name, NEW c, Call(name, c),
           KeepsLookups(c, run.x, db, run.s, slot)
    PROVE  LookupsOK'
<1> DEFINE s == run.s
           y == run.y
<1>1. /\ run # Missing /\ run' = [run EXCEPT !.x = c]
      /\ UNCHANGED <<db, slot, phase, outputs>>
  BY DEF Call
<1>2. run = [s |-> s, x |-> run.x, y |-> y]
  BY <1>1, RunFacts
<1>3. /\ Answers(run.x, s) /\ Answers(y, s)
      /\ SameLookups(Patched(c.pend, db), Patched(run.x.pend, db), s, slot, Others(c.pend, s))
      /\ Others(run.x.pend, s) \subseteq Others(c.pend, s)
  BY <1>1 DEF LookupsOK, KeepsLookups, Others
<1>4. run' = [s |-> s, x |-> c, y |-> y]
  <2> HIDE DEF s, y
  <2> QED BY <1>1, <1>2
<1>5. run'.s = s /\ run'.x = c /\ run'.y = y
  BY <1>4
<1> HIDE DEF s, y
<1>6. Answers(c, s)
  BY <1>3, SameLookupsTwice DEF Answers
<1>7. Ran' = Ran
  BY <1>1 DEF Ran
<1>8. phase # "idle"
  BY <1>1 DEF LookupsOK
<1> QED BY <1>1, <1>3, <1>5, <1>6, <1>7, <1>8 DEF LookupsOK, Answers

LEMMA LookupHostCall ==
    ASSUME AccumulationInv, LookupsOK,
           HcTransfer \/ HcNew \/ HcUpgrade \/ HcEject \/ HcWrite
               \/ HcSolicit \/ HcForget \/ HcProvide
    PROVE  LookupsOK'
<1>1. run # Missing
  BY DEF HcTransfer, HcNew, HcUpgrade, HcEject, HcWrite, HcSolicit, HcForget, HcProvide
<1> DEFINE c == run.x
           s == run.s
<1>2. s \in Service /\ DOMAIN db = Key /\ ContextSound(c, db) /\ Exists(Patched(c.pend, db), s)
  BY <1>1, RunFacts
<1>3. slot \in Nat
  BY DEF AccumulationInv, StateOK
<1>4. View = Patched(c.pend, db)
  BY DEF View
<1> HIDE DEF c, s
<1>5. ASSUME NEW name, NEW d, Call(name, d), KeepsLookups(d, c, db, s, slot) PROVE LookupsOK'
  BY <1>5, LookupCall DEF c, s
<1>6. CASE HcTransfer
  <2>1. PICK d \in Service, amount \in Amount : Call("transfer", Transfer(View, c, s, d, amount))
    BY <1>6 DEF HcTransfer, c, s
  <2>2. amount \in Nat
    BY AccumulationAssumption
  <2>3. KeepsLookups(Transfer(View, c, s, d, amount), c, db, s, slot)
    BY <1>2, <1>4, <2>2, LookupOthers
  <2> QED BY <1>5, <2>1, <2>3
<1>7. CASE HcNew
  <2>1. PICK r \in Request, offset \in Offset, i \in Service :
           /\ CanNew(View, s, r, offset, i)
           /\ Call("new", New(View, c, s, r, offset, i))
    BY <1>7 DEF HcNew, c, s
  <2>2. offset \in Nat
    BY AccumulationAssumption
  <2>3. KeepsLookups(New(View, c, s, r, offset, i), c, db, s, slot)
    BY <1>2, <1>4, <2>1, <2>2, LookupNew
  <2> QED BY <1>5, <2>1, <2>3
<1>8. CASE HcUpgrade
  <2>1. PICK code \in Hash \cup Service : Call("upgrade", Upgrade(View, c, s, code))
    BY <1>8, AccumulationAssumption DEF HcUpgrade, c, s
  <2>2. KeepsLookups(Upgrade(View, c, s, code), c, db, s, slot)
    BY <1>2, <1>4, LookupOthers
  <2> QED BY <1>5, <2>1, <2>2
<1>9. CASE HcEject
  <2>1. PICK d \in Service, r \in Request :
           CanEject(View, s, d, r, slot) /\ Call("eject", Eject(View, c, s, d, r))
    BY <1>9 DEF HcEject, c, s
  <2>2. d # s
    BY <2>1 DEF CanEject
  <2>3. KeepsLookups(Eject(View, c, s, d, r), c, db, s, slot)
    BY <1>2, <1>4, <2>2, LookupOthers
  <2> QED BY <1>5, <2>1, <2>3
<1>10. CASE HcWrite
  <2>1. PICK k \in Item, size \in ValueSize : Call("write", Write(View, c, s, k, size))
    BY <1>10 DEF HcWrite, c, s
  <2>2. size \in Nat
    BY AccumulationAssumption
  <2>3. KeepsLookups(Write(View, c, s, k, size), c, db, s, slot)
    BY <1>2, <1>4, <2>2, LookupOthers
  <2> QED BY <1>5, <2>1, <2>3
<1>11. CASE HcSolicit
  <2>1. PICK r \in Request :
           CanSolicit(View, s, r) /\ Call("solicit", Solicit(View, c, s, r, slot))
    BY <1>11 DEF HcSolicit, c, s
  <2>2. KeepsLookups(Solicit(View, c, s, r, slot), c, db, s, slot)
    BY <1>2, <1>3, <1>4, <2>1, LookupSolicit
  <2> QED BY <1>5, <2>1, <2>2
<1>12. CASE HcForget
  <2>1. PICK r \in Request :
           CanForget(View, s, r, slot) /\ Call("forget", Forget(View, c, s, r, slot))
    BY <1>12 DEF HcForget, c, s
  <2>2. KeepsLookups(Forget(View, c, s, r, slot), c, db, s, slot)
    BY <1>2, <1>3, <1>4, <2>1, LookupForget
  <2> QED BY <1>5, <2>1, <2>2
<1>13. CASE HcProvide
  <2>1. PICK d \in Service, h \in Hash : Call("provide", Provide(c, d, h))
    BY <1>13 DEF HcProvide, c, s
  <2>2. KeepsLookups(Provide(c, d, h), c, db, s, slot)
    BY <1>2, LookupOthers
  <2> QED BY <1>5, <2>1, <2>2
<1> QED BY <1>6, <1>7, <1>8, <1>9, <1>10, <1>11, <1>12, <1>13

LEMMA LookupCheckpoint ==
    ASSUME AccumulationInv, LookupsOK, HcCheckpoint
    PROVE  LookupsOK'
<1> DEFINE s == run.s
           x == run.x
<1>1. /\ run # Missing /\ run' = [run EXCEPT !.y = x] /\ UNCHANGED <<db, slot, phase, outputs>>
  BY DEF HcCheckpoint
<1>2. run = [s |-> s, x |-> x, y |-> run.y]
  BY <1>1, RunFacts
<1>3. Answers(x, s) /\ phase # "idle"
  BY <1>1 DEF LookupsOK
<1> HIDE DEF s, x
<1>4. run' = [s |-> s, x |-> x, y |-> x] /\ run'.s = s /\ run'.x = x /\ run'.y = x
  BY <1>1, <1>2
<1>5. Ran' = Ran
  BY <1>1 DEF Ran
<1> QED BY <1>1, <1>3, <1>4, <1>5 DEF LookupsOK, Answers

LEMMA LookupFinish ==
    ASSUME AccumulationInv, LookupsOK, run # Missing, NEW c \in {run.x, run.y}, Finish(c)
    PROVE  LookupsOK'
<1> DEFINE s == run.s
<1>1. /\ outputs' = Patched(Only(s, c), outputs) /\ run' = Missing /\ UNCHANGED <<db, slot, phase>>
  BY DEF Finish
<1>2. Answers(c, s) /\ phase # "idle"
  BY DEF LookupsOK
<1> HIDE DEF s
<1>3. Ran' = Ran \cup {s} /\ outputs'[s] = c /\ \A w \in Ran \ {s} : outputs'[w] = outputs[w]
  BY <1>1, OutputsAt
<1> QED BY <1>1, <1>2, <1>3 DEF LookupsOK, Answers

\* An invocation begins with the histories that are committed.
LEMMA LookupFirst ==
    ASSUME AccumulationInv, NEW s \in Service, NEW id
    PROVE  Answers(Credited(s, id), s)
<1> DEFINE c == Credited(s, id)
           ch == c.pend
           u == Patched(ch, db)
<1>1. DOMAIN db = Key
  BY DEF AccumulationInv, ValuesOK
<1>2. DOMAIN ch \subseteq {Acct(s)}
  <2>1. IsContext(Context(id)) /\ Context(id).pend = <<>> /\ DOMAIN Context(id).pend = {}
    BY DEF Context, IsContext
  <2>2. CASE c = Context(id)
    BY <2>1, <2>2
  <2>3. ASSUME NEW a, c = WithAccount(Context(id), s, a) PROVE DOMAIN ch \subseteq {Acct(s)}
    <3> DEFINE e == Context(id)
               o == Only(Acct(s), a)
    <3>1. IsContext(e) /\ DOMAIN e.pend = {} /\ DOMAIN o = {Acct(s)} /\ c = With(e, o)
      BY <2>1, <2>3, OnlyAt DEF WithAccount
    <3> HIDE DEF e, o, c
    <3>2. ch = Patched(o, e.pend)
      BY <3>1, WithFacts
    <3>3. DOMAIN Patched(o, e.pend) = DOMAIN o \cup DOMAIN e.pend
      BY PatchedAt
    <3> QED BY <3>1, <3>2, <3>3
  <2> QED BY <2>2, <2>3 DEF Credited
<1> HIDE DEF ch
<1>3. Differ(u, db, DOMAIN ch)
  BY <1>1, <1>2, KeysTyped, PatchedDiffer
<1>4. SameRequests(u, db, s)
  BY <1>2, <1>3, KeysTyped, KeysDiffer DEF Differ, SameRequests
<1>5. \A E : SameLookups(u, db, s, slot, E)
  <2> HIDE DEF u
  <2> TAKE E
  <2> DEFINE t == slot
  <2>1. SameLookups(u, db, s, t, E)
    <3> HIDE DEF t
    <3> QED BY <1>4, SameRequestsLookup
  <2> QED BY <2>1
<1> QED BY <1>5 DEF Answers, u, ch

LEMMA LookupInvoke ==
    ASSUME AccumulationInv, LookupsOK, NEW hash \in FirstId, Invoke(hash)
    PROVE  LookupsOK'
<1> DEFINE s == Min(todo)
           c == Credited(s, CheckServiceId(db, hash))
<1>1. /\ run = Missing /\ todo # {} /\ phase = "round"
      /\ \/ run' = [s |-> s, x |-> c, y |-> c] /\ UNCHANGED outputs
         \/ outputs' = Patched(Only(s, c), outputs) /\ UNCHANGED run
      /\ UNCHANGED <<db, slot, phase>>
  BY DEF Invoke
<1>2. s \in Service
  <2>1. todo \subseteq Service /\ todo \subseteq Nat
    BY ServiceAssumption DEF AccumulationInv, StateOK
  <2>2. \E m \in todo : \A n \in todo : m <= n
    BY <1>1, <2>1, LeastNatural
  <2> QED BY <2>1, <2>2 DEF Min
<1> HIDE DEF s
<1>3. Answers(c, s)
  BY <1>2, LookupFirst
<1> HIDE DEF c
<1>4. CASE run' = [s |-> s, x |-> c, y |-> c] /\ UNCHANGED outputs
  <2>1. run'.s = s /\ run'.x = c /\ run'.y = c /\ Ran' = Ran
    BY <1>4 DEF Ran
  <2> QED BY <1>1, <1>3, <1>4, <2>1 DEF LookupsOK, Answers
<1>5. CASE outputs' = Patched(Only(s, c), outputs) /\ UNCHANGED run
  <2>1. Ran' = Ran \cup {s} /\ outputs'[s] = c /\ \A w \in Ran \ {s} : outputs'[w] = outputs[w]
    BY <1>5, OutputsAt
  <2> QED BY <1>1, <1>3, <1>5, <2>1 DEF LookupsOK, Answers
<1> QED BY <1>1, <1>4, <1>5

LEMMA LookupStep == AccumulationInv /\ LookupsOK /\ [Next]_vars => LookupsOK'
<1> SUFFICES ASSUME AccumulationInv, LookupsOK, [Next]_vars PROVE LookupsOK'
  OBVIOUS
<1>1. CASE Block
  <2>1. phase = "idle" /\ phase' = "round" /\ UNCHANGED <<run, outputs>>
    BY <1>1 DEF Block, StartBlock
  <2>2. run' = Missing /\ Ran' = {}
    BY <2>1 DEF LookupsOK, Ran
  <2> QED BY <2>2, NoContextLookups
<1>2. CASE \E hash \in FirstId : Invoke(hash)
  BY <1>2, LookupInvoke
<1>3. CASE HcTransfer \/ HcNew \/ HcUpgrade \/ HcEject \/ HcWrite
               \/ HcSolicit \/ HcForget \/ HcProvide
  BY <1>3, LookupHostCall
<1>4. CASE HcCheckpoint
  BY <1>4, LookupCheckpoint
<1>5. CASE Halt
  <2>1. run # Missing /\ Finish(run.x) /\ run.x \in {run.x, run.y}
    BY <1>5 DEF Halt
  <2> QED BY <2>1, LookupFinish
<1>6. CASE Panic
  <2>1. run # Missing /\ Finish(run.y) /\ run.y \in {run.x, run.y}
    BY <1>6 DEF Panic
  <2> QED BY <2>1, LookupFinish
<1>7. CASE \E S \in SUBSET Late : MergeRound(S)
  <2>1. run = Missing /\ outputs' = <<>> /\ run' = run
    BY <1>7 DEF MergeRound
  <2>2. run' = Missing /\ Ran' = {}
    BY <2>1 DEF Ran
  <2> QED BY <2>2, NoContextLookups
<1>8. CASE EndBlock
  <2>1. run' = Missing /\ Ran' = {}
    BY <1>8 DEF EndBlock, Ran
  <2> QED BY <2>1, NoContextLookups
<1>9. CASE UNCHANGED vars
  BY <1>9 DEF vars, LookupsOK, Answers, Ran
<1> QED BY <1>1, <1>2, <1>3, <1>4, <1>5, <1>6, <1>7, <1>8, <1>9 DEF Next

\* Preimages that arrive now were not there before.
LEMMA LookupPreimages ==
    ASSUME NEW values, slot \in Nat, NEW P, P \subseteq Service \X Hash,
           \A p \in P : values[Avail(p[1], Answerable(p[2]))] = <<>>, NEW s \in Service, NEW E
    PROVE  SameLookups(WithPreimages(values, P), values, s, slot, E)
<1> DEFINE u == WithPreimages(values, P)
<1> SUFFICES ASSUME NEW h \in Hash, NEW q \in Recent(slot)
             PROVE  Lookup(u, s, h, q) <=> Lookup(values, s, h, q)
  BY DEF SameLookups
<1> DEFINE r == Answerable(h)
<1>0. ASSUME NEW p \in P
      PROVE  /\ Blob(s, h) # Avail(p[1], Answerable(p[2])) /\ Avail(s, r) # Blob(p[1], p[2])
             /\ Blob(s, h) = Blob(p[1], p[2]) => Avail(s, r) = Avail(p[1], Answerable(p[2]))
  BY DEF Blob, Avail
<1>1. Blob(s, h) \in Key /\ Avail(s, r) \in Key
  BY KeysTyped, RequestsTyped
<1>2. CASE \E p \in P : Avail(s, r) = Avail(p[1], Answerable(p[2]))
  <2>1. PICK p \in P : Avail(s, r) = Avail(p[1], Answerable(p[2]))
    BY <1>2
  <2> HIDE DEF r
  <2>2. u[Avail(s, r)] = <<slot>> /\ values[Avail(s, r)] = <<>>
    BY <1>1, <2>1 DEF WithPreimages
  <2> DEFINE t == slot
  <2>3. t \in Nat /\ q \in Int /\ q < t
    BY RecentFacts
  <2>4. ~Shows(<<t>>, q) /\ ~Shows(<<>>, q)
    <3> HIDE DEF t
    <3> QED BY <2>3, NewestShowsNothing
  <2> HIDE DEF u
  <2> QED BY <2>2, <2>4, LookupShows DEF r
<1>3. CASE ~(\E p \in P : Avail(s, r) = Avail(p[1], Answerable(p[2])))
  <2>1. \A p \in P : /\ Avail(s, r) # Avail(p[1], Answerable(p[2])) /\ Avail(s, r) # Blob(p[1], p[2])
                     /\ Blob(s, h) # Avail(p[1], Answerable(p[2])) /\ Blob(s, h) # Blob(p[1], p[2])
    BY <1>0, <1>3
  <2> HIDE DEF r
  <2>2. u[Avail(s, r)] = values[Avail(s, r)] /\ u[Blob(s, h)] = values[Blob(s, h)]
    BY <1>1, <2>1 DEF WithPreimages
  <2> HIDE DEF u
  <2> QED BY <2>2, LookupShows DEF r
<1> QED BY <1>2, <1>3

\* The merge takes the histories of a service that was there from its own context.
Exempt(s) == {h \in Hash : OtherLengthChanged(s, h)}
LEMMA LookupMerged ==
    ASSUME AccumulationInv, LookupsOK, ~ConflictingIds, NEW s \in Service,
           Exists(db, s), Exists(Patched(Merged, db), s)
    PROVE  SameLookups(Patched(Merged, db), db, s, slot, Exempt(s))
<1> DEFINE m == Patched(Merged, db)
<1>1. \A key \in Key : Owner(key) = s =>
         /\ s \in Deleted /\ key \in Touched => m[key] = Missing
         /\ \A w \in Ran : s \notin Deleted /\ Source(w, s) =>
               m[key] = Patched(outputs[w].pend, db)[key]
         /\ s \notin Deleted /\ (\A w \in Ran : ~Source(w, s)) => m[key] = db[key]
  BY MergedAt
<1>2. Acct(s) \in Key /\ Owner(Acct(s)) = s
  BY KeysTyped, Owners
<1>3. s \notin Deleted
  <2> SUFFICES ASSUME s \in Deleted PROVE FALSE
    OBVIOUS
  <2>1. Acct(s) \in Touched
    BY DEF Deleted, Touched, Pending
  <2>2. m[Acct(s)] = Missing
    BY <1>1, <1>2, <2>1
  <2> QED BY <2>2 DEF Exists
<1>4. CASE \E w \in Ran : Source(w, s)
  <2>1. PICK w \in Ran : Source(w, s)
    BY <1>4
  <2>2. w = s
    BY <2>1 DEF Source, Creates
  <2> DEFINE v == Patched(outputs[w].pend, db)
  <2>3. \A key \in Key : Owner(key) = s => m[key] = v[key]
    BY <1>1, <1>3, <2>1
  <2> DEFINE t == slot
             E == Exempt(s)
  <2>4. SameLookups(v, db, s, t, E)
    <3>1. Others(outputs[w].pend, s) = E
      BY <2>1, <2>2 DEF Others, Exempt, OtherLengthChanged, Pending
    <3> QED BY <2>1, <2>2, <3>1 DEF LookupsOK, Answers
  <2> HIDE DEF v, m, t, E
  <2>5. SameRequests(m, v, s)
    BY <2>3, TakenOver DEF Untouched
  <2>6. SameLookups(m, v, s, t, E)
    BY <2>5, SameRequestsLookup
  <2>7. SameLookups(m, db, s, t, E)
    BY <2>4, <2>6, SameLookupsTwice
  <2> QED BY <2>7 DEF m, t, E
<1>5. CASE \A w \in Ran : ~Source(w, s)
  <2>1. \A key \in Key : Owner(key) = s => m[key] = db[key]
    BY <1>1, <1>3, <1>5
  <2> DEFINE t == slot
             E == Exempt(s)
  <2> HIDE DEF m, t, E
  <2>2. SameRequests(m, db, s)
    BY <2>1, TakenOver DEF Untouched
  <2>3. SameLookups(m, db, s, t, E)
    BY <2>2, SameRequestsLookup
  <2> QED BY <2>3 DEF m, t, E
<1> QED BY <1>4, <1>5

\* What a step may change of the answers.
LEMMA LookupsChange ==
    ASSUME AccumulationInv, LookupsOK, [Next]_vars, NEW s \in Service, Exists(db, s), Exists(db', s)
    PROVE  db' = db \/ (slot' = slot /\ SameLookups(db', db, s, slot, Exempt(s)))
<1>1. slot \in Nat
  BY DEF AccumulationInv, StateOK
<1>2. CASE \E S \in SUBSET Late : MergeRound(S)
  <2>1. PICK S \in SUBSET Late : MergeRound(S)
    BY <1>2
  <2>2. slot' = slot
    BY <2>1 DEF MergeRound
  <2>3. CASE ConflictingIds
    BY <2>1, <2>3 DEF MergeRound
  <2>4. CASE ~ConflictingIds
    <3> DEFINE m == Patched(Merged, db)
               P == Provisions(m)
    <3>1. db' = WithPreimages(m, P)
      BY <2>1, <2>4 DEF MergeRound, MergeWith
    <3>2. P \subseteq Service \X Hash /\ \A p \in P : m[Avail(p[1], Answerable(p[2]))] = <<>>
      <4>1. \A w \in Ran : outputs[w].provided \subseteq Service \X Hash
        BY DEF AccumulationInv, ContextsOK, Contexts, ContextSound
      <4> QED BY <4>1 DEF Provisions
    <3>3. \A p \in Service : Sound(m, p)
      BY <2>4, MergedSound
    <3> HIDE DEF P
    <3>4. Exists(m, s)
      <4> HIDE DEF m
      <4>1. Exists(WithPreimages(m, P), s) <=> Exists(m, s)
        BY <1>1, <3>2, <3>3, PreimagesSound
      <4> QED BY <3>1, <4>1 DEF Exists
    <3> DEFINE t == slot
               E == Exempt(s)
               u == db'
    <3>5. SameLookups(m, db, s, t, E)
      BY <2>4, <3>4, LookupMerged
    <3> HIDE DEF m
    <3>6. SameLookups(u, m, s, t, E)
      <4> HIDE DEF E
      <4> QED BY <1>1, <3>1, <3>2, LookupPreimages
    <3> HIDE DEF t, E, u
    <3>7. SameLookups(u, db, s, t, E)
      BY <3>5, <3>6, SameLookupsTwice
    <3> QED BY <2>2, <3>7 DEF t, E, u
  <2> QED BY <2>3, <2>4
<1>3. CASE EndBlock
  <2> DEFINE P == extrinsic \cap Needed
  <2>1. db' = WithPreimages(db, P) /\ slot' = slot
    BY <1>3 DEF EndBlock
  <2>2. P \subseteq Service \X Hash /\ \A p \in P : db[Avail(p[1], Answerable(p[2]))] = <<>>
    BY DEF Needed
  <2> HIDE DEF P
  <2>3. SameLookups(db', db, s, slot, Exempt(s))
    <3> DEFINE E == Exempt(s)
    <3> HIDE DEF E
    <3>1. SameLookups(db', db, s, slot, E)
      BY <1>1, <2>1, <2>2, LookupPreimages
    <3> QED BY <3>1 DEF E
  <2> QED BY <2>1, <2>3
<1>4. CASE Block \/ \E hash \in FirstId : Invoke(hash)
  BY <1>4 DEF Block, StartBlock, Invoke
<1>5. CASE HcTransfer \/ HcNew \/ HcUpgrade \/ HcEject \/ HcWrite
               \/ HcSolicit \/ HcForget \/ HcProvide
  <2>1. \E name, c : Call(name, c)
    BY <1>5, Zenon DEF HcTransfer, HcNew, HcUpgrade, HcEject, HcWrite, HcSolicit, HcForget, HcProvide
  <2> QED BY <2>1 DEF Call
<1>6. CASE HcCheckpoint \/ Halt \/ Panic
  BY <1>6 DEF HcCheckpoint, Halt, Panic, Finish
<1>7. CASE UNCHANGED vars
  BY <1>7 DEF vars
<1> QED BY <1>2, <1>3, <1>4, <1>5, <1>6, <1>7 DEF Next

\* For Expunge slots no becomes yes never, and yes becomes no only when the service itself
\* changes a request for the hash that names another length, whatever is solicited,
\* forgotten, provided, merged or undone.
THEOREM LookupsHold == Spec => LookupIsStable
<1> DEFINE Stable ==
      \A s \in Service, h \in Hash : \A t \in slot' - Expunge .. slot - 1 :
         Exists(db, s) /\ Exists(db', s) =>
            /\ Lookup(db', s, h, t) => Lookup(db, s, h, t)
            /\ Lookup(db, s, h, t) => Lookup(db', s, h, t) \/ OtherLengthChanged(s, h)
<1>1. Init => LookupsOK
  BY DEF Init, LookupsOK, Ran
<1>2. AccumulationInv /\ LookupsOK /\ [Next]_vars => [Stable]_vars
  <2> SUFFICES ASSUME AccumulationInv, LookupsOK, [Next]_vars,
                      NEW s \in Service, NEW h \in Hash, NEW t \in slot' - Expunge .. slot - 1,
                      Exists(db, s), Exists(db', s)
               PROVE  /\ Lookup(db', s, h, t) => Lookup(db, s, h, t)
                      /\ Lookup(db, s, h, t) => Lookup(db', s, h, t) \/ OtherLengthChanged(s, h)
    OBVIOUS
  <2>1. CASE db' = db
    BY <2>1
  <2>2. CASE slot' = slot /\ SameLookups(db', db, s, slot, Exempt(s))
    BY <2>2 DEF SameLookups, Recent, Exempt
  <2> QED BY <2>1, <2>2, LookupsChange
<1>3. Spec => [][Stable]_vars
  BY <1>1, <1>2, AccumulationInvariantHolds, LookupStep, PTL DEF Spec
<1> QED BY <1>3 DEF LookupIsStable
=============================================================================
