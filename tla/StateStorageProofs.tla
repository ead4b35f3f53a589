------------------------- MODULE StateStorageProofs -------------------------
(***************************************************************************)
(* Facts about the overlay stack of StateStorage that hold for every block *)
(* tree: folding the change sets of a branch over the finalized state      *)
(* yields the posterior state of its tip.                                  *)
(***************************************************************************)
EXTENDS PyjamazApp, WellFoundedInduction, TLAPS

\* Every nonempty set of naturals has a least element.
LEMMA LeastNatural ==
    ASSUME NEW S \in SUBSET Nat, S # {}
    PROVE  \E m \in S : \A n \in S : m <= n
<1> DEFINE R == OpToRel(<, Nat)
<1>1. IsWellFoundedOn(R, Nat)
  BY NatLessThanWellFounded
<1>2. \E x \in S : \A y \in S : ~(<<y, x>> \in R)
  <2> HIDE DEF R
  <2> QED BY <1>1, WFMin
<1>3. \A x, y \in S : y < x => <<y, x>> \in R
  BY DEF OpToRel
<1> HIDE DEF R
<1>4. \A x, y \in S : ~(y < x) => x <= y
  OBVIOUS
<1> QED BY <1>2, <1>3, <1>4

\* A block is its own ancestor.
LEMMA SelfAncestor == \A b \in Block : b \in Ancestry[b]
  BY AncestryAssumption, TreeAssumption

\* Two blocks that are ancestors of each other are the same block.
LEMMA AncestryAntisymmetric ==
    ASSUME NEW a \in Block, NEW b \in Block, a \in Ancestry[b], b \in Ancestry[a]
    PROVE  a = b
<1>1. Height[a] \in Nat /\ Height[b] \in Nat
  BY TreeAssumption
<1>2. Height[a] <= Height[b] /\ Height[b] <= Height[a]
  BY AncestryAssumption
<1> QED BY <1>1, <1>2, AncestryAssumption

\* No block is an ancestor of its parent, which is an ancestor of it.
LEMMA ParentIsOlder ==
    ASSUME NEW b \in Block, b # Genesis
    PROVE  /\ Parent[b] \in Block
           /\ Parent[b] \in Ancestry[b]
           /\ b \notin Ancestry[Parent[b]]
           /\ Ancestry[b] = {b} \cup Ancestry[Parent[b]]
<1>1. Parent[b] \in Block /\ Height[Parent[b]] < Height[b]
  BY TreeAssumption
<1>2. Ancestry[b] = {b} \cup Ancestry[Parent[b]]
  BY AncestryAssumption
<1>3. Height[b] \in Nat /\ Height[Parent[b]] \in Nat
  BY <1>1, TreeAssumption
<1>4. b \in Ancestry[Parent[b]] => Height[b] <= Height[Parent[b]]
  BY <1>1, AncestryAssumption
<1> QED BY <1>1, <1>2, <1>3, <1>4, SelfAncestor

\* The nearest of the writers that are ancestors of one of them is that one.
LEMMA NearestIsTip ==
    ASSUME NEW b \in Block, NEW W \in SUBSET Ancestry[b], b \in W
    PROVE  Nearest(W) = b
<1>1. W \subseteq Block
  BY AncestryAssumption
<1>2. \E w \in W : W \subseteq Ancestry[w]
  OBVIOUS
<1>3. Nearest(W) \in W /\ W \subseteq Ancestry[Nearest(W)]
  BY <1>2 DEF Nearest
<1> QED BY <1>1, <1>3, AncestryAntisymmetric

\* Only the writers of a chain matter to what it lays over the engine.
LEMMA SameWritersSameView ==
    ASSUME NEW s, NEW C, NEW D, \A k \in Key : Writers(s, C, k) = Writers(s, D, k)
    PROVE  Overlaid(s, C) = Overlaid(s, D)
  BY DEF Overlaid

\* Posterior states and overlays of one block, key by key.
LEMMA DeltaFacts ==
    ASSUME NEW b \in Block, b # Genesis, NEW k \in Key
    PROVE  /\ Delta(b)[k] = Untouched => Post[b][k] = Post[Parent[b]][k]
           /\ Delta(b)[k] # Untouched => Post[b][k] = Delta(b)[k]
<1>1. Post[b] = Apply(Writes[b], Post[Parent[b]])
  BY StateAssumption
<1>2. Post[b][k] = IF Writes[b][k] = Untouched THEN Post[Parent[b]][k]
                   ELSE Writes[b][k]
  BY <1>1 DEF Apply
<1>3. Delta(b)[k] = IF k \in CompKey /\ Post[b][k] = Post[Parent[b]][k]
                    THEN Untouched ELSE Writes[b][k]
  BY DEF Delta
<1> QED BY <1>2, <1>3

\* One more whole overlay on an exact stack gives an exact stack.
LEMMA OverlayStep ==
    ASSUME NEW s, NEW b \in Block, b # Genesis, NEW C \in SUBSET Ancestry[Parent[b]],
           Overlaid(s, C) = Post[Parent[b]],
           s.cs[b] = Delta(b)
    PROVE  Overlaid(s, {b} \cup C) = Post[b]
<1>1. Post[b] \in State /\ Post[Parent[b]] \in State
  BY ParentIsOlder, StateAssumption
<1>2. Missing # Delta(b)
  <2>1. Delta(b) \in Changes
    BY StateAssumption DEF Delta, Changes
  <2> QED BY <2>1, SentinelAssumption
<1>3. ASSUME NEW k \in Key PROVE Overlaid(s, {b} \cup C)[k] = Post[b][k]
  <2>1. CASE Delta(b)[k] = Untouched
    <3>1. Writers(s, {b} \cup C, k) = Writers(s, C, k)
      BY <2>1 DEF Writers
    <3>2. Overlaid(s, {b} \cup C)[k] = Overlaid(s, C)[k]
      BY <3>1 DEF Overlaid
    <3> QED BY <2>1, <3>2, DeltaFacts
  <2>2. CASE Delta(b)[k] # Untouched
    <3> DEFINE W == Writers(s, {b} \cup C, k)
    <3>1. b \in W /\ W \subseteq Ancestry[b]
      BY <2>2, <1>2, ParentIsOlder DEF Writers
    <3>2. Nearest(W) = b
      BY <3>1, NearestIsTip
    <3>3. Overlaid(s, {b} \cup C)[k] = s.cs[b][k]
      BY <3>1, <3>2 DEF Overlaid
    <3> QED BY <2>2, <3>3, DeltaFacts
  <2> QED BY <2>1, <2>2
<1>4. /\ Overlaid(s, {b} \cup C) = [k \in Key |-> Overlaid(s, {b} \cup C)[k]]
      /\ Post[b] = [k \in Key |-> Post[b][k]]
  <2>1. Overlaid(s, {b} \cup C) = [k \in Key |-> Overlaid(s, {b} \cup C)[k]]
    BY DEF Overlaid
  <2> QED BY <2>1, <1>1 DEF State
<1> QED BY <1>3, <1>4

\* With nothing to fold, the engine itself is read.
LEMMA EmptyBranch ==
    ASSUME NEW s, NEW C, s.db \in State, \A k \in Key : Writers(s, C, k) = {}
    PROVE  Overlaid(s, C) = s.db
  BY DEF Overlaid, State

\* The unfinalized part of a branch grows by its tip.
LEMMA UnfinalizedStep ==
    ASSUME NEW s, NEW b \in Block, s.fin \in Block, s.fin \in Ancestry[b], b # s.fin
    PROVE  /\ b # Genesis
           /\ s.fin \in Ancestry[Parent[b]]
           /\ b \notin Ancestry[s.fin]
           /\ Unfinalized(s, b) = {b} \cup Unfinalized(s, Parent[b])
<1>1. b # Genesis
  BY AncestryAssumption
<1>2. s.fin \in Ancestry[Parent[b]]
  BY <1>1, ParentIsOlder
<1>3. b \notin Ancestry[s.fin]
  BY AncestryAntisymmetric
<1> QED BY <1>1, <1>2, <1>3, ParentIsOlder DEF Unfinalized

\* Folding the whole overlays of a branch over the finalized state yields the
\* posterior state of the tip, whatever the length of the branch.
LEMMA BranchExact ==
    ASSUME NEW s, NEW b \in Block, s.fin \in Block, s.fin \in Ancestry[b],
           s.db = Post[s.fin],
           \A a \in Unfinalized(s, b) : s.cs[a] = Delta(a)
    PROVE  Overlaid(s, Unfinalized(s, b)) = Post[b]
<1> DEFINE Exact(c) == Overlaid(s, Unfinalized(s, c)) = Post[c]
           Branch == {c \in Ancestry[b] : s.fin \in Ancestry[c]}
           T == {Height[c] : c \in {d \in Branch : ~Exact(d)}}
<1> SUFFICES ASSUME ~Exact(b) PROVE FALSE
  OBVIOUS
<1>1. Branch \subseteq Block /\ b \in Branch
  BY AncestryAssumption, SelfAncestor
<1>2. T \in SUBSET Nat /\ T # {}
  BY <1>1, TreeAssumption
<1>3. PICK m \in T : \A n \in T : m <= n
  BY <1>2, LeastNatural
<1>4. PICK c \in Branch : ~Exact(c) /\ Height[c] = m
  BY <1>3
<1>5. s.db \in State
  BY StateAssumption
<1>6. CASE c = s.fin
  <2>1. Unfinalized(s, c) = {}
    BY <1>6 DEF Unfinalized
  <2>2. \A k \in Key : Writers(s, {}, k) = {}
    BY DEF Writers
  <2> QED BY <2>1, <2>2, <1>4, <1>5, <1>6, EmptyBranch
<1>7. CASE c # s.fin
  <2> DEFINE p == Parent[c]
  <2>1. /\ c # Genesis
        /\ s.fin \in Ancestry[p]
        /\ Unfinalized(s, c) = {c} \cup Unfinalized(s, p)
        /\ c \notin Ancestry[s.fin]
    BY <1>1, <1>7, UnfinalizedStep
  <2>2. p \in Block /\ p \in Ancestry[c] /\ Height[p] < Height[c]
    BY <1>1, <2>1, ParentIsOlder, TreeAssumption
  <2>3. p \in Branch
    BY <1>1, <2>1, <2>2, AncestryAssumption
  <2>4. Exact(p)
    <3>1. Height[p] \in Nat /\ Height[c] \in Nat
      BY <1>1, <2>2, TreeAssumption
    <3>2. Height[p] \in T => FALSE
      BY <1>3, <1>4, <2>2, <3>1
    <3> QED BY <2>3, <3>2
  <2>5. c \in Unfinalized(s, b)
    BY <2>1 DEF Unfinalized
  <2>6. s.cs[c] = Delta(c)
    BY <2>5
  <2>7. Unfinalized(s, p) \in SUBSET Ancestry[p]
    BY DEF Unfinalized
  <2> QED BY <1>1, <1>4, <2>1, <2>4, <2>6, <2>7, OverlayStep
<1> QED BY <1>6, <1>7

-----------------------------------------------------------------------------
(* Linked branches.                                                        *)

\* The walk from a block visits its parent next if the parent is recorded.
LEMMA LinkedStep ==
    ASSUME NEW s, NEW b \in Block, b # Genesis, s.parents[b] = Parent[b]
    PROVE  Linked(s, b) = {b} \cup Linked(s, Parent[b])
<1> DEFINE p == Parent[b]
<1>1. /\ p \in Block /\ b \notin Ancestry[p]
      /\ Ancestry[b] = {b} \cup Ancestry[p]
  BY ParentIsOlder
<1>2. ASSUME NEW a \in Ancestry[p]
      PROVE  Ancestry[b] \ Ancestry[a] = {b} \cup (Ancestry[p] \ Ancestry[a])
  BY <1>1, AncestryAssumption
<1>3. \A a \in Ancestry[p] : a \in Linked(s, b) <=> a \in Linked(s, p)
  BY <1>1, <1>2 DEF Linked
<1>4. b \in Linked(s, b)
  BY <1>1 DEF Linked
<1>5. Linked(s, b) \subseteq Ancestry[b] /\ Linked(s, p) \subseteq Ancestry[p]
  BY DEF Linked
<1> QED BY <1>1, <1>3, <1>4, <1>5

\* The walk from a block starts at that block.
LEMMA LinkedSelf == \A s : \A b \in Block : b \in Linked(s, b)
  BY SelfAncestor DEF Linked

\* The walk from a block linked to the finalized one visits every unfinalized
\* block between them.
LEMMA LinkedCoversUnfinalized ==
    ASSUME NEW s, NEW b \in Block, s.fin \in Block, s.fin \in Linked(s, b)
    PROVE  Unfinalized(s, b) \subseteq Linked(s, b)
<1>1. s.fin \in Ancestry[b]
  BY DEF Linked
<1> SUFFICES ASSUME NEW a \in Unfinalized(s, b) PROVE a \in Linked(s, b)
  OBVIOUS
<1>2. a \in Ancestry[b] /\ a \notin Ancestry[s.fin] /\ a \in Block
  BY AncestryAssumption DEF Unfinalized
<1>3. s.fin \in Ancestry[a]
  BY <1>1, <1>2, AncestryAssumption
<1>4. Ancestry[s.fin] \subseteq Ancestry[a]
  BY <1>2, <1>3, AncestryAssumption
<1> QED BY <1>2, <1>4 DEF Linked

\* If finalized blocks have no writes left in memory, the walk down the parents
\* reads exactly the unfinalized overlays.
LEMMA ViewOfBranch ==
    ASSUME NEW s, NEW b \in Block, s.fin \in Block, s.fin \in Linked(s, b),
           \A a \in Ancestry[s.fin] : s.cs[a] \in {Missing, NoChanges}
    PROVE  Overlaid(s, Linked(s, b)) = Overlaid(s, Unfinalized(s, b))
<1>1. Linked(s, b) \subseteq Ancestry[b]
  BY DEF Linked
<1>2. Unfinalized(s, b) \subseteq Linked(s, b)
  BY LinkedCoversUnfinalized
<1>3. ASSUME NEW k \in Key
      PROVE  Writers(s, Linked(s, b), k) = Writers(s, Unfinalized(s, b), k)
  <2>1. \A a \in Ancestry[s.fin] : s.cs[a] = Missing \/ s.cs[a][k] = Untouched
    BY DEF NoChanges
  <2> QED BY <1>1, <1>2, <2>1 DEF Writers, Unfinalized
<1> QED BY <1>3, SameWritersSameView

-----------------------------------------------------------------------------
(* Stores in which every overlay is whole and hangs on the finalized block. *)

\* A change set other than the finalized block's hangs on a parent that has
\* state too.
Connected(s) ==
    \A b \in Block \ {s.fin} : s.cs[b] # Missing =>
        /\ b # Genesis
        /\ s.parents[b] = Parent[b]
        /\ Parent[b] = s.fin \/ s.cs[Parent[b]] # Missing

Whole(s) ==
    /\ s.cs[s.fin] \in {Missing, NoChanges}
    /\ \A b \in Block \ {s.fin} : s.cs[b] \in {Missing, Delta(b)}

StoreInv(s) ==
    /\ s \in Store
    /\ s.db = Post[s.fin]
    /\ Connected(s)
    /\ Whole(s)

\* In a connected store every block with state is on the finalized branch.
LEMMA ConnectedBranch ==
    ASSUME NEW s, s.fin \in Block, Connected(s), NEW b \in Block,
           b = s.fin \/ s.cs[b] # Missing
    PROVE  /\ s.fin \in Linked(s, b)
           /\ s.fin \in Ancestry[b]
           /\ \A a \in Unfinalized(s, b) : a # s.fin /\ s.cs[a] # Missing
<1> DEFINE Good(c) == /\ s.fin \in Linked(s, c)
                      /\ \A a \in Unfinalized(s, c) : a # s.fin /\ s.cs[a] # Missing
           HasState == {c \in Block : c = s.fin \/ s.cs[c] # Missing}
           T == {Height[c] : c \in {d \in HasState : ~Good(d)}}
<1>0. \A c : s.fin \in Linked(s, c) => s.fin \in Ancestry[c]
  BY DEF Linked
<1> SUFFICES ASSUME ~Good(b) PROVE FALSE
  BY <1>0
<1>1. T \in SUBSET Nat /\ T # {}
  BY TreeAssumption
<1>2. PICK m \in T : \A n \in T : m <= n
  BY <1>1, LeastNatural
<1>3. PICK c \in HasState : ~Good(c) /\ Height[c] = m
  BY <1>2
<1>4. CASE c = s.fin
  <2>1. Unfinalized(s, c) = {}
    BY <1>4 DEF Unfinalized
  <2> QED BY <2>1, <1>3, <1>4, LinkedSelf
<1>5. CASE c # s.fin
  <2> DEFINE p == Parent[c]
  <2>1. /\ c # Genesis
        /\ s.parents[c] = p
        /\ p = s.fin \/ s.cs[p] # Missing
    BY <1>5 DEF Connected
  <2>2. p \in Block /\ Height[p] < Height[c]
    BY <2>1, TreeAssumption
  <2>3. Good(p)
    <3>1. Height[p] \in Nat /\ Height[c] \in Nat
      BY <2>2, TreeAssumption
    <3>2. Height[p] \in T => FALSE
      BY <1>2, <1>3, <2>2, <3>1
    <3> QED BY <2>1, <2>2, <3>2
  <2>4. s.fin \in Linked(s, c) /\ s.fin \in Ancestry[c]
    BY <2>1, <2>3, <1>0, LinkedStep
  <2>5. Unfinalized(s, c) = {c} \cup Unfinalized(s, p)
    BY <1>5, <2>4, UnfinalizedStep
  <2>6. \A a \in Unfinalized(s, c) : a # s.fin /\ s.cs[a] # Missing
    BY <1>5, <2>3, <2>5
  <2> QED BY <1>3, <2>4, <2>6
<1> QED BY <1>4, <1>5

\* Blocks of one branch have a youngest one, of which all are ancestors.
LEMMA ChainHasTip ==
    ASSUME NEW p \in Block, NEW W \in SUBSET Ancestry[p], W # {}
    PROVE  \E w \in W : W \subseteq Ancestry[w]
<1> DEFINE T == {Height[p] - Height[w] : w \in W}
<1>1. W \subseteq Block
  BY AncestryAssumption
<1>2. \A w \in W : Height[w] \in Nat /\ Height[p] \in Nat /\ Height[w] <= Height[p]
  BY <1>1, TreeAssumption, AncestryAssumption
<1>3. T \in SUBSET Nat /\ T # {}
  BY <1>2
<1>4. PICK m \in T : \A n \in T : m <= n
  BY <1>3, LeastNatural
<1>5. PICK w \in W : m = Height[p] - Height[w]
  BY <1>4
<1>6. \A a \in W : Height[a] <= Height[w]
  BY <1>2, <1>4, <1>5
<1>7. ASSUME NEW a \in W PROVE a \in Ancestry[w]
  <2>1. a \in Ancestry[w] \/ w \in Ancestry[a]
    BY AncestryAssumption
  <2>2. CASE w \in Ancestry[a]
    <3>1. Height[w] <= Height[a] /\ (Height[w] = Height[a] => w = a)
      BY <1>1, <2>2, AncestryAssumption
    <3>2. w = a
      BY <1>2, <1>6, <3>1
    <3> QED BY <1>1, <3>2, SelfAncestor
  <2> QED BY <2>1, <2>2
<1> QED BY <1>5, <1>7

\* A read at a block walks down from that block.
LEMMA ViewOfBlock ==
    ASSUME NEW s, NEW b \in Block
    PROVE  View(s, b) = Overlaid(s, Linked(s, b))
<1>1. b # Zero
  BY SentinelAssumption
<1>2. Chain(s, b) = Linked(s, b)
  BY <1>1 DEF Chain
<1> QED BY <1>2 DEF View

-----------------------------------------------------------------------------
(* Selecting a candidate.                                                  *)

\* state_transition selects b on a fresh transaction.
Selected(s, b) == SetBlockHash(StartTx(s), b, Parent[b])

\* What the selection of a candidate changes.
LEMMA SelectedFields ==
    ASSUME NEW s \in Store, NEW b \in Block
    PROVE  LET t == Selected(s, b) IN
           /\ t \in Store
           /\ t.db = s.db /\ t.fin = s.fin /\ t.anc = s.anc
           /\ t.head = b /\ t.tx = NoChanges
           /\ t.cs = [s.cs EXCEPT ![b] = NoChanges]
           /\ t.parents = [s.parents EXCEPT ![b] = Parent[b]]
<1>1. NoChanges \in Changes
  BY DEF NoChanges, Changes
<1>2. b \in Hash /\ Parent[b] \in Hash
  BY TreeAssumption DEF Hash
<1> DEFINE u == StartTx(s)
<1>3. /\ u \in Store
      /\ u.db = s.db /\ u.fin = s.fin /\ u.anc = s.anc /\ u.cs = s.cs
      /\ u.parents = s.parents /\ u.tx = NoChanges
  BY <1>1 DEF StartTx, Store
<1> HIDE DEF u
<1>4. LET t == SetBlockHash(u, b, Parent[b]) IN
      /\ t \in Store
      /\ t.db = u.db /\ t.fin = u.fin /\ t.anc = u.anc
      /\ t.head = b /\ t.tx = u.tx
      /\ t.cs = [u.cs EXCEPT ![b] = NoChanges]
      /\ t.parents = [u.parents EXCEPT ![b] = Parent[b]]
  BY <1>1, <1>2, <1>3 DEF Store, SetBlockHash
<1> QED BY <1>3, <1>4 DEF Selected, u

\* A freshly selected candidate reads the state of its parent.
LEMMA SelectedView ==
    ASSUME NEW s \in Store, NEW b \in Block, b # Genesis
    PROVE  View(Selected(s, b), b) = View(s, Parent[b])
<1> DEFINE t == Selected(s, b)
           p == Parent[b]
<1>1. /\ t.db = s.db
      /\ t.cs = [s.cs EXCEPT ![b] = NoChanges]
      /\ t.parents = [s.parents EXCEPT ![b] = p]
  BY SelectedFields
<1>2. /\ p \in Block /\ b \notin Ancestry[p] /\ b \in Hash
      /\ Ancestry[p] \subseteq Block /\ Block \subseteq Hash
  BY ParentIsOlder, AncestryAssumption DEF Hash
<1>3. /\ s.cs \in [Hash -> Changes \cup {Missing}]
      /\ s.parents \in [Hash -> Hash \cup {None, Missing}]
  BY DEF Store
<1>4. /\ t.parents[b] = p /\ t.cs[b] = NoChanges
      /\ \A c \in Ancestry[p] : t.parents[c] = s.parents[c] /\ t.cs[c] = s.cs[c]
  BY <1>1, <1>2, <1>3
<1> HIDE DEF t
<1>5. Linked(t, b) = {b} \cup Linked(t, p)
  BY <1>4, LinkedStep
<1>6. Linked(t, p) = Linked(s, p)
  BY <1>4 DEF Linked
<1>7. ASSUME NEW k \in Key
      PROVE  Writers(t, Linked(t, b), k) = Writers(s, Linked(s, p), k)
  BY <1>4, <1>5, <1>6 DEF Writers, NoChanges, Linked
<1>8. ASSUME NEW k \in Key, NEW W, W = Writers(s, Linked(s, p), k), W # {}
      PROVE  Nearest(W) \in Ancestry[p]
  <2>1. W \subseteq Ancestry[p]
    BY <1>8 DEF Writers, Linked
  <2>2. \E w \in W : W \subseteq Ancestry[w]
    BY <1>2, <1>8, <2>1, ChainHasTip
  <2> QED BY <2>1, <2>2 DEF Nearest
<1>9. Overlaid(t, Linked(t, b)) = Overlaid(s, Linked(s, p))
  BY <1>1, <1>4, <1>7, <1>8 DEF Overlaid
<1> QED BY <1>2, <1>9, ViewOfBlock DEF t

-----------------------------------------------------------------------------
(* Executing a candidate.                                                  *)

\* The working state of a node whose current block is b.
JamStateOf(b) == [root |-> Post[b], content |-> Components(Post[b])]

\* Executed on its parent's state, a block stores exactly its overlay and
\* leaves its own components in the cache.
LEMMA StoredIsDelta ==
    ASSUME NEW b \in Block, b # Genesis
    PROVE  LET previous == Components(Post[Parent[b]])
               content  == PostContent(b, previous)
           IN  /\ content = Components(Post[b])
               /\ StoreJamState(b, previous, content) = Delta(b)
<1> DEFINE previous == Components(Post[Parent[b]])
           content  == PostContent(b, previous)
<1>1. Post[b] = Apply(Writes[b], Post[Parent[b]])
  BY StateAssumption
<1>2. CompKey \subseteq Key /\ SvcKey \subseteq Key /\ CompKey \cap SvcKey = {}
      /\ Key = CompKey \cup SvcKey
  BY StateAssumption DEF Key
<1>3. ASSUME NEW k \in CompKey
      PROVE  Post[b][k] = IF Writes[b][k] = Untouched THEN Post[Parent[b]][k]
                          ELSE Writes[b][k]
  BY <1>1, <1>2 DEF Apply
<1>4. content = Components(Post[b])
  BY <1>3 DEF PostContent, Components
<1>5. ASSUME NEW k \in Key
      PROVE  StoreJamState(b, previous, Components(Post[b]))[k] = Delta(b)[k]
  <2> DEFINE new == Components(Post[b])
  <2>1. Delta(b)[k] = IF k \in CompKey /\ Post[b][k] = Post[Parent[b]][k]
                      THEN Untouched ELSE Writes[b][k]
    BY DEF Delta
  <2>2. CASE k \in SvcKey
    <3>1. StoreJamState(b, previous, new)[k] = Writes[b][k]
      BY <1>2, <2>2 DEF StoreJamState
    <3> QED BY <1>2, <2>1, <2>2, <3>1
  <2>3. CASE k \in CompKey
    <3>1. new[k] = Post[b][k] /\ previous[k] = Post[Parent[b]][k]
      BY <2>3 DEF Components
    <3>2. StoreJamState(b, previous, new)[k] =
            IF new[k] # previous[k] THEN new[k] ELSE Untouched
      BY <1>2, <2>3 DEF StoreJamState
    <3> QED BY <1>3, <2>1, <2>3, <3>1, <3>2
  <2> QED BY <1>2, <2>2, <2>3
<1>6. /\ StoreJamState(b, previous, Components(Post[b])) =
           [k \in Key |-> StoreJamState(b, previous, Components(Post[b]))[k]]
      /\ Delta(b) = [k \in Key |-> Delta(b)[k]]
  BY DEF StoreJamState, Delta
<1> QED BY <1>4, <1>5, <1>6
=============================================================================
