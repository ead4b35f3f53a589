-------------------------- MODULE BlockImportProofs --------------------------
(***************************************************************************)
(* Block import is correct for every block tree: the inductive invariant   *)
(* of BlockImport, its preservation by _import_block, and the theorems     *)
(* that follow from it.                                                    *)
(***************************************************************************)
EXTENDS BlockImport, StateStorageProofs

\* Blocks whose state the storage holds.
WithState(s) == {b \in Block : b = s.fin \/ s.cs[b] # Missing}

\* The block whose state is current: the selected one, or the finalized one
\* while nothing is selected.
TipOf(s) == IF s.head = None THEN s.fin ELSE s.head

\* No block is being executed or authored.
Idle(s) ==
    /\ s.tx = NoChanges
    /\ s.cs[Zero] = Missing
    /\ s.parents[Zero] = Missing

\* Known headers are the retained blocks and finalized ones, and every block
\* with state is known.
Headers(s) ==
    /\ WithState(s) \subseteq s.anc
    /\ \A a \in s.anc : /\ a \in WithState(s) \cup Ancestry[s.fin]
                        /\ s.parents[a] # Missing

SelectionInv(s) == s.head = None \/ s.head \in WithState(s)

\* The inductive invariant of import.
ImportInv(s, w) ==
    /\ StoreInv(s)
    /\ Idle(s)
    /\ Headers(s)
    /\ \A b \in WithState(s) \ {s.fin} : Valid(b)
    /\ SelectionInv(s)
    /\ w = JamStateOf(TipOf(s))

-----------------------------------------------------------------------------
(* Reading a store.                                                        *)

\* Finalized blocks have no writes left in memory.
LEMMA QuietBelowFinal ==
    ASSUME NEW s, StoreInv(s), NEW a \in Ancestry[s.fin]
    PROVE  s.cs[a] \in {Missing, NoChanges}
<1>1. s.fin \in Block
  BY DEF StoreInv, Store
<1>2. a \in Block
  BY <1>1, AncestryAssumption
<1>3. CASE a = s.fin
  BY <1>3 DEF StoreInv, Whole
<1>4. CASE a # s.fin /\ s.cs[a] # Missing
  <2>1. s.fin \in Ancestry[a]
    BY <1>1, <1>2, <1>4, ConnectedBranch DEF StoreInv
  <2> QED BY <1>1, <1>2, <1>4, <2>1, AncestryAntisymmetric
<1> QED BY <1>3, <1>4

\* The state of a block that has one is its posterior state.
LEMMA ViewExact ==
    ASSUME NEW s, StoreInv(s), NEW b \in WithState(s)
    PROVE  View(s, b) = Post[b]
<1>1. s.fin \in Block /\ b \in Block /\ s.db = Post[s.fin]
  BY DEF StoreInv, Store, WithState
<1>2. /\ s.fin \in Linked(s, b)
      /\ s.fin \in Ancestry[b]
      /\ \A a \in Unfinalized(s, b) : a # s.fin /\ s.cs[a] # Missing
  BY <1>1, ConnectedBranch DEF StoreInv, WithState
<1>3. \A a \in Unfinalized(s, b) : s.cs[a] = Delta(a)
  <2>1. Unfinalized(s, b) \subseteq Block
    BY <1>1, AncestryAssumption DEF Unfinalized
  <2> QED BY <1>2, <2>1 DEF StoreInv, Whole
<1>4. View(s, b) = Overlaid(s, Linked(s, b))
  BY <1>1, ViewOfBlock
<1>5. Overlaid(s, Linked(s, b)) = Overlaid(s, Unfinalized(s, b))
  BY <1>1, <1>2, QuietBelowFinal, ViewOfBranch
<1> QED BY <1>1, <1>2, <1>3, <1>4, <1>5, BranchExact

\* Below the finalized block only the engine is read.
LEMMA ViewBelowFinal ==
    ASSUME NEW s, StoreInv(s), NEW a \in Ancestry[s.fin]
    PROVE  View(s, a) = Post[s.fin]
<1>1. s.fin \in Block /\ s.db = Post[s.fin]
  BY DEF StoreInv, Store
<1>2. a \in Block /\ Ancestry[a] \subseteq Ancestry[s.fin]
  BY <1>1, AncestryAssumption
<1>3. View(s, a) = Overlaid(s, Linked(s, a))
  BY <1>2, ViewOfBlock
<1>4. \A c \in Linked(s, a) : s.cs[c] = Missing \/ s.cs[c] = NoChanges
  BY <1>2, QuietBelowFinal DEF Linked
<1>5. \A k \in Key : Writers(s, Linked(s, a), k) = {}
  BY <1>4 DEF Writers, NoChanges
<1> QED BY <1>1, <1>3, <1>5, StateAssumption, EmptyBranch

\* Blocks with state are those as_dict_at answers for.
LEMMA AvailableAreWithState ==
    ASSUME NEW s, StoreInv(s)
    PROVE  {b \in Block : CanAsDictAt(s, b)} = WithState(s)
<1>1. s.fin \in Block /\ s \in Store
  BY DEF StoreInv, Store
<1>2. ASSUME NEW b \in WithState(s) PROVE CanAsDictAt(s, b)
  <2>1. /\ s.fin \in Linked(s, b)
        /\ \A a \in Unfinalized(s, b) : s.cs[a] # Missing
    BY <1>1, ConnectedBranch DEF StoreInv, WithState
  <2>2. Unfinalized(s, b) \subseteq Hash
    BY AncestryAssumption DEF Unfinalized, Hash, WithState
  <2> QED BY <2>1, <2>2 DEF CanAsDictAt, OnFinalizedBranch, Retained
<1>3. ASSUME NEW b \in Block, CanAsDictAt(s, b), b # s.fin PROVE s.cs[b] # Missing
  <2>1. s.fin \in Ancestry[b] /\ Unfinalized(s, b) \subseteq Retained(s)
    BY <1>3 DEF CanAsDictAt, OnFinalizedBranch, Linked
  <2>2. b \in Unfinalized(s, b)
    BY <1>1, <1>3, <2>1, SelfAncestor, AncestryAntisymmetric DEF Unfinalized
  <2> QED BY <2>1, <2>2 DEF Retained
<1> QED BY <1>2, <1>3 DEF WithState

\* as_dict_at answers with the posterior state of the block.
LEMMA AsDictAtExact ==
    ASSUME NEW s, StoreInv(s), NEW b \in WithState(s)
    PROVE  AsDictAt(s, b) = Post[b]
<1>1. s.fin \in Block /\ b \in Block /\ s.db = Post[s.fin]
  BY DEF StoreInv, Store, WithState
<1>2. CASE b = s.fin
  BY <1>1, <1>2 DEF AsDictAt
<1>3. CASE b # s.fin
  <2>1. /\ s.fin \in Ancestry[b]
        /\ \A a \in Unfinalized(s, b) : a # s.fin /\ s.cs[a] # Missing
    BY <1>1, ConnectedBranch DEF StoreInv, WithState
  <2>2. Unfinalized(s, b) \subseteq Block
    BY <1>1, AncestryAssumption DEF Unfinalized
  <2>3. \A a \in Unfinalized(s, b) : s.cs[a] = Delta(a)
    BY <2>1, <2>2 DEF StoreInv, Whole
  <2> QED BY <1>1, <1>3, <2>1, <2>3, BranchExact DEF AsDictAt
<1> QED BY <1>2, <1>3

\* Nothing read in an idle store raises.
LEMMA IdleReadable ==
    ASSUME NEW s, Idle(s)
    PROVE  Readable(s)
<1>1. Missing \notin Block
  BY SentinelAssumption DEF Hash
<1> QED BY <1>1 DEF Idle, Readable, Pending, Cyclic

\* Retrieving the working state of an idle store gives the current block's.
LEMMA RetrieveExact ==
    ASSUME NEW s, StoreInv(s), Idle(s), SelectionInv(s)
    PROVE  /\ Readable(s)
           /\ RetrieveJamState(s) = JamStateOf(TipOf(s))
<1>1. Readable(s)
  BY IdleReadable
<1>2. s.fin \in Block /\ s.db = Post[s.fin] /\ s.db \in State
  BY StateAssumption DEF StoreInv, Store
<1>3. View(s, s.head) = Post[TipOf(s)]
  <2>1. CASE s.head = None
    <3>1. Chain(s, s.head) = {}
      BY <2>1, SentinelAssumption DEF Chain
    <3>2. \A k \in Key : Writers(s, {}, k) = {}
      BY DEF Writers
    <3> QED BY <1>2, <2>1, <3>1, <3>2, EmptyBranch DEF View, TipOf
  <2>2. CASE s.head # None
    BY <2>2, ViewExact DEF SelectionInv, TipOf
  <2> QED BY <2>1, <2>2
<1> QED BY <1>1, <1>3 DEF RetrieveJamState, JamStateOf

-----------------------------------------------------------------------------
(* The state transition of a candidate.                                    *)

\* What initialize leaves in the cache decides like the parent's posterior
\* state: the root check passes exactly if the parent has state and the header
\* names it, and then the cache is the parent's state.
LEMMA CachedExact ==
    ASSUME NEW s, NEW w, ImportInv(s, w), RootsNameBlocks,
           NEW b \in Block, KnownParent(s, b)
    PROVE  LET c == Initialized(Selected(s, b), w, b)
               p == Parent[b]
           IN  /\ b # Genesis
               /\ c.root = PriorRoot[b] => /\ p \in WithState(s)
                                           /\ PriorRoot[b] = Post[p]
                                           /\ c = JamStateOf(p)
               /\ p \in WithState(s) /\ PriorRoot[b] = Post[p] => c.root = PriorRoot[b]
               /\ b = s.fin => c = JamStateOf(b)
<1> DEFINE t == Selected(s, b)
           c == Initialized(t, w, b)
           p == Parent[b]
<1>1. s \in Store /\ s.fin \in Block /\ s.anc \subseteq Block
  BY DEF ImportInv, StoreInv, Store
<1>2. b # Genesis /\ p \in Block
  BY <1>1, TreeAssumption, SentinelAssumption DEF KnownParent
<1>3. w = JamStateOf(TipOf(s)) /\ w.root = Post[TipOf(s)] /\ TipOf(s) \in WithState(s)
  BY <1>1 DEF ImportInv, JamStateOf, SelectionInv, TipOf, WithState
<1>4. TipOf(s) \in Block
  BY <1>3 DEF WithState
<1>5. PriorRoot[b] = w.root => TipOf(s) = p
  BY <1>2, <1>3, <1>4 DEF RootsNameBlocks
<1>6. View(t, b) = View(s, p)
  BY <1>1, <1>2, SelectedView
<1>7. Readable(t) /\ t.head = b
  <2>1. /\ t.tx = NoChanges /\ t.head = b
        /\ t.parents = [s.parents EXCEPT ![b] = p]
    BY <1>1, SelectedFields
  <2>2. s.parents[Zero] = Missing /\ s.parents \in [Hash -> Hash \cup {None, Missing}]
    BY <1>1 DEF ImportInv, Idle, Store
  <2>3. t.parents[Zero] = Missing
    BY <2>1, <2>2, SentinelAssumption DEF Hash
  <2>4. Missing \notin Block
    BY SentinelAssumption DEF Hash
  <2> HIDE DEF t
  <2> QED BY <2>1, <2>3, <2>4 DEF Readable, Pending, Cyclic
<1>8. RetrieveJamState(t).root = View(s, p)
  BY <1>6, <1>7 DEF RetrieveJamState
<1>9. p \in WithState(s) \/ p \in Ancestry[s.fin]
  BY DEF ImportInv, Headers, KnownParent
<1>10. CASE p \in WithState(s)
  <2>1. View(s, p) = Post[p]
    BY <1>10, ViewExact DEF ImportInv
  <2>2. RetrieveJamState(t) = JamStateOf(p)
    BY <1>6, <1>7, <2>1 DEF RetrieveJamState, JamStateOf
  <2>3. c = JamStateOf(p)
    <3>1. CASE PriorRoot[b] = w.root
      BY <3>1, <1>3, <1>5 DEF Initialized
    <3>2. CASE PriorRoot[b] # w.root
      BY <3>2, <1>7, <2>2 DEF Initialized, Refreshed
    <3> QED BY <3>1, <3>2
  <2>4. b # s.fin
    <3>1. s.fin \in Ancestry[p]
      BY <1>1, <1>2, <1>10, ConnectedBranch DEF ImportInv, StoreInv, WithState
    <3> QED BY <1>2, <3>1, ParentIsOlder
  <2> QED BY <1>2, <1>10, <2>3, <2>4 DEF JamStateOf
<1>11. CASE p \notin WithState(s)
  <2>1. View(s, p) = Post[s.fin]
    BY <1>9, <1>11, ViewBelowFinal DEF ImportInv
  <2>2. PriorRoot[b] # w.root /\ PriorRoot[b] # Post[s.fin]
    BY <1>1, <1>3, <1>5, <1>11 DEF RootsNameBlocks, WithState
  <2>3. c = RetrieveJamState(t)
    BY <2>2, <1>7 DEF Initialized, Refreshed
  <2>4. c = JamStateOf(s.fin)
    BY <1>6, <1>7, <2>1, <2>3 DEF RetrieveJamState, JamStateOf
  <2> QED BY <1>2, <1>11, <2>2, <2>4 DEF JamStateOf
<1> QED BY <1>10, <1>11

\* A whole overlay on a parent with state extends the store by one block.
LEMMA ExtendedStore ==
    ASSUME NEW s, StoreInv(s), Idle(s),
           NEW b \in Block, b # Genesis, Parent[b] \in WithState(s),
           NEW u \in Store, u.db = s.db, u.fin = s.fin, u.tx = NoChanges,
           u.cs = [s.cs EXCEPT ![b] = Delta(b)],
           u.parents = [s.parents EXCEPT ![b] = Parent[b]]
    PROVE  /\ b # s.fin
           /\ StoreInv(u) /\ Idle(u)
           /\ WithState(u) = WithState(s) \cup {b}
<1>1. /\ s \in Store /\ s.fin \in Block
      /\ s.cs \in [Hash -> Changes \cup {Missing}]
      /\ s.parents \in [Hash -> Hash \cup {None, Missing}]
      /\ b \in Hash /\ Block \subseteq Hash /\ Zero \in Hash /\ b # Zero
  BY SentinelAssumption DEF StoreInv, Store, Hash
<1>2. /\ u.cs[b] = Delta(b) /\ u.parents[b] = Parent[b]
      /\ \A h \in Hash \ {b} : u.cs[h] = s.cs[h] /\ u.parents[h] = s.parents[h]
  BY <1>1
<1>3. Delta(b) # Missing
  <2>1. Delta(b) \in Changes
    BY StateAssumption DEF Delta, Changes
  <2> QED BY <2>1, SentinelAssumption
<1>4. b # s.fin
  <2>1. s.fin \in Ancestry[Parent[b]]
    BY <1>1, ConnectedBranch DEF StoreInv, WithState
  <2> QED BY <2>1, ParentIsOlder
<1>5. WithState(u) = WithState(s) \cup {b}
  BY <1>1, <1>2, <1>3 DEF WithState
<1>6. Connected(u)
  <2> SUFFICES ASSUME NEW c \in Block \ {u.fin}, u.cs[c] # Missing
               PROVE  /\ c # Genesis /\ u.parents[c] = Parent[c]
                      /\ Parent[c] = u.fin \/ u.cs[Parent[c]] # Missing
    BY DEF Connected
  <2>1. CASE c = b
    <3>1. Parent[b] \in Block /\ Parent[b] # b
      BY ParentIsOlder, SelfAncestor
    <3> QED BY <1>1, <1>2, <2>1, <3>1 DEF WithState
  <2>2. CASE c # b
    <3>1. /\ c # Genesis /\ s.parents[c] = Parent[c]
          /\ Parent[c] = s.fin \/ s.cs[Parent[c]] # Missing
      BY <1>1, <1>2, <2>2 DEF StoreInv, Connected
    <3>2. Parent[c] \in Block
      BY <3>1, TreeAssumption
    <3> QED BY <1>1, <1>2, <1>3, <2>2, <3>1, <3>2
  <2> QED BY <2>1, <2>2
<1>7. Whole(u)
  BY <1>1, <1>2, <1>4 DEF StoreInv, Whole
<1>8. Idle(u)
  BY <1>1, <1>2 DEF Idle
<1> QED BY <1>4, <1>5, <1>6, <1>7, <1>8 DEF StoreInv

\* Discarding a candidate that had no state restores what was selected.
LEMMA RejectedStep ==
    ASSUME NEW s, NEW w, ImportInv(s, w),
           NEW b \in Block, b \notin WithState(s),
           NEW t \in Store, t.db = s.db, t.fin = s.fin, t.anc = s.anc, t.head = b,
           t.cs = [s.cs EXCEPT ![b] = NoChanges],
           t.parents = [s.parents EXCEPT ![b] = Parent[b]]
    PROVE  /\ RestoreHash(s, b) = s.head
           /\ CanDiscardCandidate(t, b, s.head)
           /\ LET back == DiscardCandidate(t, b, s.head) IN
              /\ ImportInv(back, w)
              /\ WithState(back) = WithState(s) /\ back.fin = s.fin
              /\ \A x : Refreshed(back, x) = w
<1> DEFINE back == DiscardCandidate(t, b, s.head)
<1>1. /\ s \in Store /\ s.fin \in Block /\ StoreInv(s)
      /\ s.cs \in [Hash -> Changes \cup {Missing}]
      /\ s.parents \in [Hash -> Hash \cup {None, Missing}]
      /\ b \in Hash /\ Block \subseteq Hash /\ Zero \in Hash /\ b # Zero
      /\ s.head \in Hash \cup {None} /\ NoChanges \in Changes
  BY SentinelAssumption DEF ImportInv, StoreInv, Store, Hash, NoChanges, Changes
<1>2. b # s.fin /\ s.cs[b] = Missing
  BY DEF WithState
<1>3. s.head # b /\ RestoreHash(s, b) = s.head
  <2>1. s.head # b
    BY SentinelAssumption DEF ImportInv, SelectionInv
  <2> QED BY <2>1 DEF RestoreHash
<1>4. CanDiscardCandidate(t, b, s.head)
  <2>1. s.head = None \/ s.head \in WithState(s)
    BY DEF ImportInv, SelectionInv
  <2>2. s.head \in WithState(s) => HasStateAt(t, s.head)
    BY <1>1, <1>3 DEF WithState, HasStateAt, Retained
  <2> QED BY <1>2, <2>1, <2>2 DEF CanDiscardCandidate
<1>5. /\ back \in Store
      /\ back.db = s.db /\ back.fin = s.fin /\ back.anc = s.anc \ {b}
      /\ back.head = s.head /\ back.tx = NoChanges
      /\ back.cs = [t.cs EXCEPT ![b] = Missing]
      /\ back.parents = [t.parents EXCEPT ![b] = Missing]
  BY <1>1 DEF DiscardCandidate, Store
<1> HIDE DEF back
<1>6. /\ \A h \in Hash : back.cs[h] = s.cs[h]
      /\ \A h \in Hash \ {b} : back.parents[h] = s.parents[h]
  BY <1>1, <1>2, <1>5
<1>7. WithState(back) = WithState(s)
  BY <1>1, <1>5, <1>6 DEF WithState
<1>8. Connected(back) /\ Whole(back)
  <2>1. Whole(back)
    BY <1>1, <1>5, <1>6 DEF StoreInv, Whole
  <2> SUFFICES ASSUME NEW c \in Block \ {s.fin}, s.cs[c] # Missing
               PROVE  /\ c # Genesis /\ back.parents[c] = Parent[c]
                      /\ Parent[c] = s.fin \/ back.cs[Parent[c]] # Missing
    BY <1>1, <1>5, <1>6, <2>1 DEF Connected
  <2>2. /\ c # Genesis /\ s.parents[c] = Parent[c]
        /\ Parent[c] = s.fin \/ s.cs[Parent[c]] # Missing
    BY <1>1 DEF StoreInv, Connected
  <2>3. Parent[c] \in Hash /\ c # b
    BY <1>1, <1>2, TreeAssumption
  <2> QED BY <1>1, <1>6, <2>2, <2>3
<1>9. StoreInv(back) /\ Idle(back) /\ SelectionInv(back) /\ TipOf(back) = TipOf(s)
  BY <1>1, <1>5, <1>6, <1>7, <1>8
     DEF StoreInv, Idle, SelectionInv, TipOf, ImportInv
<1>10. Headers(back)
  BY <1>1, <1>5, <1>6, <1>7 DEF ImportInv, Headers, Store
<1>11. ImportInv(back, w)
  BY <1>5, <1>7, <1>9, <1>10 DEF ImportInv
<1>12. \A x : Refreshed(back, x) = w
  BY <1>9, RetrieveExact DEF Refreshed, ImportInv
<1> QED BY <1>3, <1>4, <1>5, <1>7, <1>11, <1>12 DEF back

\* A valid block on a parent with state is executed and kept.
LEMMA AcceptedStep ==
    ASSUME NEW s, NEW w, ImportInv(s, w), RootsNameBlocks,
           NEW b \in Block, KnownParent(s, b), Parent[b] \in WithState(s), Valid(b)
    PROVE  LET r == Execute(Selected(s, b), JamStateOf(Parent[b]), b)
               a == AddAncestor(r.store, b)
           IN  /\ r.ok
               /\ ImportInv(a, r.working)
               /\ WithState(a) = WithState(s) \cup {b} /\ a.fin = s.fin
<1> DEFINE t == Selected(s, b)
           u == Commit(Put(t, Delta(b)))
           a == AddAncestor(u, b)
           r == Execute(t, JamStateOf(Parent[b]), b)
<1>1. /\ s \in Store /\ s.fin \in Block /\ StoreInv(s) /\ Idle(s)
      /\ b \in Hash /\ Block \subseteq Hash /\ Zero \in Hash /\ b # Zero
      /\ s.cs \in [Hash -> Changes \cup {Missing}]
      /\ s.parents \in [Hash -> Hash \cup {None, Missing}]
      /\ s.anc \subseteq Block
  BY SentinelAssumption DEF ImportInv, StoreInv, Store, Hash
<1>2. b # Genesis /\ Defect[b] = "none"
  BY DEF Valid
<1>3. Delta(b) \in Changes /\ NoChanges \in Changes
  BY StateAssumption DEF Delta, Changes, NoChanges
<1>4. /\ t \in Store
      /\ t.db = s.db /\ t.fin = s.fin /\ t.anc = s.anc /\ t.head = b
      /\ t.cs = [s.cs EXCEPT ![b] = NoChanges]
      /\ t.parents = [s.parents EXCEPT ![b] = Parent[b]]
  BY <1>1, SelectedFields
<1> HIDE DEF t
<1>5. /\ u \in Store
      /\ u.db = s.db /\ u.fin = s.fin /\ u.anc = s.anc /\ u.head = b
      /\ u.tx = NoChanges
      /\ u.cs = [t.cs EXCEPT ![b] = Delta(b)]
      /\ u.parents = t.parents
  <2> DEFINE v == Put(t, Delta(b))
  <2>1. /\ v \in Store
        /\ v.db = t.db /\ v.fin = t.fin /\ v.anc = t.anc /\ v.head = b
        /\ v.tx = Delta(b) /\ v.cs = t.cs /\ v.parents = t.parents
    BY <1>3, <1>4 DEF Put, Store
  <2> HIDE DEF v
  <2>2. LET x == Commit(v) IN
        /\ x \in Store
        /\ x.db = v.db /\ x.fin = v.fin /\ x.anc = v.anc /\ x.head = b
        /\ x.tx = NoChanges
        /\ x.cs = [v.cs EXCEPT ![b] = v.tx]
        /\ x.parents = v.parents
    BY <1>1, <1>3, <2>1 DEF Commit, Store
  <2> QED BY <1>4, <2>1, <2>2 DEF v
<1> HIDE DEF u
<1>6. u.cs = [s.cs EXCEPT ![b] = Delta(b)]
  BY <1>1, <1>4, <1>5
<1>7. StoreInv(u) /\ Idle(u) /\ WithState(u) = WithState(s) \cup {b} /\ b # s.fin
  BY <1>1, <1>2, <1>4, <1>5, <1>6, ExtendedStore
<1>8. Readable(u) /\ View(u, b) = Post[b]
  BY <1>7, IdleReadable, ViewExact
<1>9. r.ok /\ r.store = u /\ r.working = JamStateOf(b)
  <2>1. JamStateOf(Parent[b]).content = Components(Post[Parent[b]])
    BY DEF JamStateOf
  <2>2. r = Result(TRUE, u, [root |-> View(u, u.head), content |-> Components(Post[b])])
    BY <1>2, <1>8, <2>1, StoredIsDelta DEF Execute, Rooted, u
  <2> QED BY <1>5, <1>8, <2>2 DEF Result, JamStateOf
<1>10. /\ a \in Store
       /\ a.db = u.db /\ a.fin = u.fin /\ a.anc = u.anc \cup {b}
       /\ a.head = b /\ a.tx = NoChanges /\ a.cs = u.cs
       /\ a.parents = [u.parents EXCEPT ![b] = Parent[b]]
  <2>1. Parent[b] \in Hash
    BY TreeAssumption
  <2> QED BY <1>1, <1>5, <2>1 DEF AddAncestor, Store
<1> HIDE DEF a, r
<1>11. /\ a.parents = [s.parents EXCEPT ![b] = Parent[b]]
       /\ a.cs = [s.cs EXCEPT ![b] = Delta(b)]
  BY <1>1, <1>4, <1>5, <1>6, <1>10
<1>12. StoreInv(a) /\ Idle(a) /\ WithState(a) = WithState(s) \cup {b}
  BY <1>1, <1>2, <1>5, <1>10, <1>11, ExtendedStore
<1>13. Headers(a)
  <2>1. Parent[b] # Missing
    BY SentinelAssumption, TreeAssumption
  <2>2. \A c \in s.anc \cup {b} : a.parents[c] # Missing
    BY <1>1, <1>11, <2>1 DEF ImportInv, Headers
  <2> QED BY <1>5, <1>10, <1>12, <2>2 DEF ImportInv, Headers
<1>14. \A c \in WithState(a) \ {a.fin} : Valid(c)
  BY <1>5, <1>10, <1>12 DEF ImportInv
<1>15. SelectionInv(a) /\ TipOf(a) = b
  <2>1. b # None
    BY SentinelAssumption
  <2> QED BY <1>10, <1>12, <2>1 DEF SelectionInv, TipOf
<1> QED BY <1>5, <1>9, <1>10, <1>12, <1>13, <1>14, <1>15 DEF ImportInv, r, a, t

\* Importing the finalized block again only selects it.
LEMMA ReselectFinal ==
    ASSUME NEW s, NEW w, ImportInv(s, w), s.fin # Genesis
    PROVE  LET t == Selected(s, s.fin) IN
           /\ ImportInv(t, JamStateOf(s.fin))
           /\ WithState(t) = WithState(s) /\ t.fin = s.fin
           /\ ~CanDiscardCandidate(t, s.fin, RestoreHash(s, s.fin))
<1> DEFINE t == Selected(s, s.fin)
           b == s.fin
<1>1. /\ s \in Store /\ b \in Block /\ StoreInv(s) /\ Idle(s)
      /\ b \in Hash /\ Block \subseteq Hash /\ Zero \in Hash /\ b # Zero /\ b # None
      /\ s.cs \in [Hash -> Changes \cup {Missing}]
      /\ s.parents \in [Hash -> Hash \cup {None, Missing}]
      /\ s.anc \subseteq Block
  BY SentinelAssumption DEF ImportInv, StoreInv, Store, Hash
<1>2. /\ t \in Store
      /\ t.db = s.db /\ t.fin = s.fin /\ t.anc = s.anc /\ t.head = b
      /\ t.tx = NoChanges
      /\ t.cs = [s.cs EXCEPT ![b] = NoChanges]
      /\ t.parents = [s.parents EXCEPT ![b] = Parent[b]]
  BY <1>1, SelectedFields
<1> HIDE DEF t
<1>3. /\ t.cs[b] = NoChanges /\ t.parents[b] = Parent[b] /\ Parent[b] # Missing
      /\ \A h \in Hash \ {b} : t.cs[h] = s.cs[h] /\ t.parents[h] = s.parents[h]
  BY <1>1, <1>2, TreeAssumption, SentinelAssumption
<1>4. WithState(t) = WithState(s)
  BY <1>1, <1>2, <1>3 DEF WithState
<1>5. Connected(t)
  <2> SUFFICES ASSUME NEW c \in Block \ {b}, s.cs[c] # Missing
               PROVE  /\ c # Genesis /\ t.parents[c] = Parent[c]
                      /\ Parent[c] = b \/ t.cs[Parent[c]] # Missing
    BY <1>1, <1>2, <1>3 DEF Connected
  <2>1. /\ c # Genesis /\ s.parents[c] = Parent[c]
        /\ Parent[c] = b \/ s.cs[Parent[c]] # Missing
    BY <1>1 DEF StoreInv, Connected
  <2>2. Parent[c] \in Hash
    BY TreeAssumption
  <2> QED BY <1>1, <1>3, <2>1, <2>2
<1>6. StoreInv(t) /\ Idle(t)
  BY <1>1, <1>2, <1>3, <1>5 DEF StoreInv, Whole, Idle
<1>7. Headers(t)
  BY <1>1, <1>2, <1>3, <1>4 DEF ImportInv, Headers
<1>8. SelectionInv(t) /\ TipOf(t) = b
  BY <1>1, <1>2 DEF SelectionInv, TipOf, WithState
<1>9. ~CanDiscardCandidate(t, b, RestoreHash(s, b))
  BY <1>2 DEF CanDiscardCandidate
<1> QED BY <1>2, <1>4, <1>6, <1>7, <1>8, <1>9 DEF ImportInv, t

-----------------------------------------------------------------------------
(* _import_block                                                           *)

\* _import_block keeps the invariant; it accepts valid blocks on a parent with
\* state, and whatever it rejects leaves every state where it was.
LEMMA ImportStep ==
    ASSUME NEW s, NEW w, ImportInv(s, w), RootsNameBlocks,
           NEW b \in Block, NEW sound \in BOOLEAN, sound \/ b # s.head
    PROVE  LET r == ImportBlock(s, w, b, sound) IN
           /\ ImportInv(r.store, r.working)
           /\ r.store.fin = s.fin
           /\ \/ ~r.ok /\ WithState(r.store) = WithState(s)
              \/ /\ r.ok /\ Valid(b) /\ Parent[b] \in WithState(s)
                 /\ WithState(r.store) = WithState(s) \cup {b}
<1> DEFINE t == Selected(s, b)
           c == Initialized(t, w, b)
           q == StateTransition(s, w, b, sound)
           r == ImportBlock(s, w, b, sound)
           p == Parent[b]
           restore == RestoreHash(s, b)
           Goal(x) == /\ ImportInv(x.store, x.working)
                      /\ x.store.fin = s.fin
                      /\ \/ ~x.ok /\ WithState(x.store) = WithState(s)
                         \/ /\ x.ok /\ Valid(b) /\ p \in WithState(s)
                            /\ WithState(x.store) = WithState(s) \cup {b}
<1> SUFFICES Goal(r)
  OBVIOUS
<1>1. /\ s \in Store /\ s.fin \in Block /\ StoreInv(s) /\ Idle(s) /\ SelectionInv(s)
      /\ s.anc \subseteq Block /\ w = JamStateOf(TipOf(s)) /\ Headers(s)
      /\ \A a \in WithState(s) \ {s.fin} : Valid(a)
  BY DEF ImportInv, StoreInv, Store
<1>2. b \in WithState(s) /\ b # s.fin => /\ Valid(b) /\ b # Genesis
                                         /\ p \in WithState(s) /\ p \in s.anc
  BY <1>1, TreeAssumption DEF StoreInv, Connected, WithState, Headers
<1>3. ~q.ok => r = Recover(q, b, restore)
  BY DEF ImportBlock, Concluded
<1>4. CASE Refused(s, b, sound)
  <2>1. q = Result(FALSE, s, w)
    BY <1>4 DEF StateTransition
  <2>2. q.ok = FALSE /\ q.store = s /\ q.working = w
    BY <2>1 DEF Result
  <2>3. CASE s.head # b
    <3>1. Refreshed(s, w) = w
      BY <1>1, RetrieveExact DEF Refreshed
    <3>2. r = Result(FALSE, s, w)
      BY <1>3, <2>2, <2>3, <3>1 DEF Recover, Reloaded
    <3> QED BY <3>2 DEF Result
  <2>4. CASE s.head = b
    <3>1. b = s.fin
      <4>1. b \in WithState(s) /\ sound
        BY <2>4, <1>1, SentinelAssumption DEF SelectionInv
      <4>2. Slot[b] \in Nat /\ (p \in Block => Slot[p] \in Nat)
        BY TreeAssumption
      <4> QED BY <1>1, <1>2, <1>4, <4>1, <4>2 DEF Refused, KnownParent, Valid
    <3>2. ~CanDiscardCandidate(s, b, restore)
      BY <3>1 DEF CanDiscardCandidate
    <3>3. r = q
      BY <1>3, <2>2, <2>4, <3>2 DEF Recover, Reloaded
    <3> QED BY <2>2, <3>3
  <2> QED BY <2>3, <2>4
<1>5. CASE ~Refused(s, b, sound)
  <2>1. KnownParent(s, b) /\ p \in Block /\ Slot[b] > Slot[p]
    <3>1. KnownParent(s, b) /\ p \in Block
      BY <1>1, <1>5 DEF Refused, KnownParent
    <3>2. Slot[b] \in Nat /\ Slot[p] \in Nat
      BY <3>1, TreeAssumption
    <3> QED BY <1>5, <3>1, <3>2 DEF Refused
  <2>2. CanSetBlockHash(StartTx(s), p)
    <3>1. /\ StartTx(s).tx = NoChanges
          /\ StartTx(s).parents = s.parents
      BY <1>1 DEF StartTx, Store
    <3> QED BY <1>1, <2>1, <3>1 DEF CanSetBlockHash, Pending, Headers, KnownParent
  <2>3. q = IF c.root # PriorRoot[b] THEN Result(FALSE, t, c) ELSE Execute(t, c, b)
    BY <1>5, <2>2 DEF StateTransition, Checked, Selected
  <2>4. /\ b # Genesis
        /\ c.root = PriorRoot[b] => /\ p \in WithState(s)
                                    /\ PriorRoot[b] = Post[p]
                                    /\ c = JamStateOf(p)
        /\ p \in WithState(s) /\ PriorRoot[b] = Post[p] => c.root = PriorRoot[b]
        /\ b = s.fin => c = JamStateOf(b)
    BY <2>1, CachedExact
  <2>5. /\ t \in Store
        /\ t.db = s.db /\ t.fin = s.fin /\ t.anc = s.anc /\ t.head = b
        /\ t.cs = [s.cs EXCEPT ![b] = NoChanges]
        /\ t.parents = [s.parents EXCEPT ![b] = p]
    BY <1>1, SelectedFields
  <2> HIDE DEF t, c, q
  <2>6. ASSUME NEW x \in Store, NEW y, x.db = s.db, x.fin = s.fin, x.anc = s.anc,
               x.head = b, x.cs = t.cs, x.parents = t.parents,
               q = Result(FALSE, x, y), b \notin WithState(s)
        PROVE  Goal(r)
    <3>0. /\ x.cs = [s.cs EXCEPT ![b] = NoChanges]
          /\ x.parents = [s.parents EXCEPT ![b] = Parent[b]]
      BY <2>5, <2>6
    <3>1. /\ restore = s.head
          /\ CanDiscardCandidate(x, b, s.head)
          /\ LET back == DiscardCandidate(x, b, s.head) IN
             /\ ImportInv(back, w)
             /\ WithState(back) = WithState(s) /\ back.fin = s.fin
             /\ \A z : Refreshed(back, z) = w
      <4> HIDE DEF r
      <4> QED BY <2>6, <3>0, RejectedStep, SMTT(60)
    <3>2. ~q.ok /\ q.store = x
      BY <2>6 DEF Result
    <3>3. r = Result(FALSE, DiscardCandidate(x, b, s.head), w)
      BY <1>3, <2>6, <3>1, <3>2 DEF Recover, Reloaded
    <3> QED BY <3>1, <3>3 DEF Result
  <2>7. CASE c.root # PriorRoot[b]
    <3>1. q = Result(FALSE, t, c)
      BY <2>3, <2>7
    <3>2. CASE b = s.fin
      <4>1. /\ ImportInv(t, JamStateOf(b))
            /\ WithState(t) = WithState(s) /\ t.fin = s.fin
            /\ ~CanDiscardCandidate(t, b, restore)
        BY <2>4, <3>2, ReselectFinal DEF t
      <4>2. q.ok = FALSE /\ q.store = t /\ q.working = c
        BY <3>1 DEF Result
      <4>3. r = q
        BY <1>3, <2>5, <4>1, <4>2 DEF Recover, Reloaded
      <4> QED BY <2>4, <3>2, <4>1, <4>2, <4>3
    <3>3. CASE b # s.fin
      <4>1. b \notin WithState(s)
        BY <1>2, <2>4, <2>7, <3>3 DEF Valid
      <4> QED BY <2>5, <2>6, <3>1, <4>1
    <3> QED BY <3>2, <3>3
  <2>8. CASE c.root = PriorRoot[b]
    <3>1. /\ q = Execute(t, c, b) /\ c = JamStateOf(p)
          /\ p \in WithState(s) /\ PriorRoot[b] = Post[p]
      BY <2>3, <2>4, <2>8
    <3>2. CASE Defect[b] = "none"
      <4>1. Valid(b)
        BY <2>1, <2>4, <3>1, <3>2 DEF Valid
      <4>2. /\ q.ok
            /\ ImportInv(AddAncestor(q.store, b), q.working)
            /\ WithState(AddAncestor(q.store, b)) = WithState(s) \cup {b}
            /\ AddAncestor(q.store, b).fin = s.fin
        BY <2>1, <3>1, <4>1, AcceptedStep DEF t
      <4>3. r = Result(TRUE, AddAncestor(q.store, b), q.working)
        BY <4>2 DEF ImportBlock, Concluded, q
      <4> QED BY <3>1, <4>1, <4>2, <4>3 DEF Result
    <3>3. CASE Defect[b] # "none"
      <4>1. b # s.fin
        <5>1. s.fin \in Ancestry[p]
          BY <1>1, <2>1, <3>1, ConnectedBranch DEF StoreInv, WithState
        <5> QED BY <2>4, <5>1, ParentIsOlder
      <4>2. b \notin WithState(s)
        BY <1>2, <3>3, <4>1 DEF Valid
      <4>3. CASE Defect[b] = "stf"
        <5>1. q = Result(FALSE, t, c)
          BY <3>1, <4>3 DEF Execute
        <5> QED BY <2>5, <2>6, <4>2, <5>1
      <4>4. CASE Defect[b] = "late"
        <5> DEFINE x == Put(t, ServiceWrites(b))
        <5>1. q = Result(FALSE, x, c)
          BY <3>1, <4>4 DEF Execute
        <5>2. ServiceWrites(b) \in Changes
          BY StateAssumption DEF ServiceWrites, Changes
        <5>3. /\ x \in Store /\ x.db = s.db /\ x.fin = s.fin /\ x.anc = s.anc
              /\ x.head = b /\ x.cs = t.cs /\ x.parents = t.parents
          BY <2>5, <5>2 DEF Put, Store
        <5> HIDE DEF x
        <5> QED BY <2>6, <4>2, <5>1, <5>3
      <4> QED BY <3>3, <4>3, <4>4, StateAssumption
    <3> QED BY <3>2, <3>3
  <2> QED BY <2>7, <2>8
<1> QED BY <1>4, <1>5

-----------------------------------------------------------------------------
(* The theorems about a session.                                           *)

\* What every reachable state of the session satisfies.
SessionInv ==
    /\ ImportInv(store, working)
    /\ refineHead \in WithState(store)

\* The state msg_initialize leaves satisfies the invariant.
LEMMA SessionInit ==
    ASSUME Init
    PROVE  SessionInv /\ WithState(store) = {Anchor} /\ store.fin = Anchor
<1>1. /\ store.db = Post[Anchor] /\ store.fin = Anchor /\ store.head = None
      /\ store.cs = [h \in Hash |-> Missing]
      /\ store.parents = [h \in Hash |-> IF h \in Ancestry[Anchor] THEN Parent[h]
                                         ELSE Missing]
      /\ store.anc = Ancestry[Anchor] /\ store.tx = NoChanges
  BY DEF Init, Opened
<1>2. /\ Anchor \in Block /\ Ancestry[Anchor] \subseteq Block /\ Block \subseteq Hash
      /\ Zero \in Hash /\ Zero \notin Block /\ Anchor \in Ancestry[Anchor]
      /\ \A h \in Block : Parent[h] \in Hash /\ Parent[h] # Missing
  BY AnchorAssumption, AncestryAssumption, TreeAssumption, SentinelAssumption,
     SelfAncestor DEF Hash
<1>3. store \in Store
  <2>1. NoChanges \in Changes /\ Post[Anchor] \in State
    BY <1>2, StateAssumption DEF NoChanges, Changes
  <2>2. store = [db |-> store.db, fin |-> store.fin, head |-> store.head,
                 cs |-> store.cs, parents |-> store.parents,
                 anc |-> store.anc, tx |-> store.tx]
    BY DEF Init, Opened
  <2>3. /\ store.cs \in [Hash -> Changes \cup {Missing}]
        /\ store.parents \in [Hash -> Hash \cup {None, Missing}]
    BY <1>1, <1>2
  <2> QED BY <1>1, <1>2, <2>1, <2>2, <2>3 DEF Store
<1>4. /\ \A h \in Hash : store.cs[h] = Missing
      /\ \A a \in Ancestry[Anchor] : store.parents[a] # Missing
      /\ store.parents[Zero] = Missing
  BY <1>1, <1>2
<1>5. WithState(store) = {Anchor}
  BY <1>1, <1>2, <1>4 DEF WithState
<1>6. StoreInv(store) /\ Idle(store)
  BY <1>1, <1>2, <1>3, <1>4 DEF StoreInv, Connected, Whole, Idle
<1>7. Headers(store) /\ SelectionInv(store) /\ TipOf(store) = Anchor
  BY <1>1, <1>2, <1>4, <1>5 DEF Headers, SelectionInv, TipOf
<1>8. working = JamStateOf(Anchor)
  BY <1>6, <1>7, RetrieveExact DEF Init
<1> QED BY <1>1, <1>5, <1>6, <1>7, <1>8 DEF SessionInv, ImportInv, Init

\* One delivery keeps the invariant and either changes no state or adds the
\* state of a valid block.
LEMMA SessionStep ==
    ASSUME RootsNameBlocks, ~CorruptHeadCopy, SessionInv, [Next]_vars
    PROVE  /\ SessionInv'
           /\ store.fin' = store.fin
           /\ \/ WithState(store)' = WithState(store)
              \/ \E b \in Block : /\ Valid(b) /\ Parent[b] \in WithState(store)
                                  /\ WithState(store)' = WithState(store) \cup {b}
<1>1. CASE UNCHANGED vars
  BY <1>1 DEF vars, SessionInv, ImportInv, StoreInv, Idle, Headers, SelectionInv,
              TipOf, WithState, Connected, Whole
<1>2. CASE Next
  <2>1. PICK b \in Block, sound \in BOOLEAN : MsgImportBlock(b, sound)
    BY <1>2 DEF Next
  <2> DEFINE r == ImportBlock(store, working, b, sound)
  <2>2. sound \/ b # store.head
    BY <2>1 DEF MsgImportBlock, Deliverable
  <2>3. /\ ImportInv(r.store, r.working)
        /\ r.store.fin = store.fin
        /\ \/ ~r.ok /\ WithState(r.store) = WithState(store)
           \/ /\ r.ok /\ Valid(b) /\ Parent[b] \in WithState(store)
              /\ WithState(r.store) = WithState(store) \cup {b}
    BY <2>2, ImportStep DEF SessionInv
  <2>4. /\ store' = r.store /\ working' = r.working
        /\ refineHead' = IF r.ok THEN b ELSE refineHead
    BY <2>1 DEF MsgImportBlock
  <2> HIDE DEF r
  <2>5. ImportInv(store, working)' /\ WithState(store)' = WithState(r.store)
    BY <2>3, <2>4 DEF ImportInv, StoreInv, Idle, Headers, SelectionInv,
              TipOf, WithState, Connected, Whole
  <2> QED BY <2>3, <2>4, <2>5 DEF SessionInv
<1> QED BY <1>1, <1>2

\* In every reachable state of a session the invariant of import holds.
THEOREM SessionInvariant ==
    ASSUME RootsNameBlocks, ~CorruptHeadCopy
    PROVE  Spec => []SessionInv
<1>1. Init => SessionInv
  BY SessionInit
<1>2. SessionInv /\ [Next]_vars => SessionInv'
  BY SessionStep
<1> QED BY <1>1, <1>2, PTL DEF Spec

\* The blocks msg_get_state answers for are those with state.
LEMMA AvailableIsWithState == SessionInv => Available = WithState(store)
  BY AvailableAreWithState DEF Available, SessionInv, ImportInv

\* The same after a step.
LEMMA AvailableIsWithStateNext ==
    SessionInv' => (Available = WithState(store))'
  BY AvailableIsWithState, PTL

\* Type correctness: the storage record, the cached JamState and the refine
\* head of the target stay well formed (class StateStorage, JamState).
THEOREM TypeCorrect ==
    ASSUME RootsNameBlocks, ~CorruptHeadCopy
    PROVE  Spec => []TypeOK
<1>1. SessionInv => TypeOK
  <2> SUFFICES ASSUME SessionInv PROVE TypeOK
    OBVIOUS
  <2>1. store \in Store /\ refineHead \in Block
    BY DEF SessionInv, ImportInv, StoreInv, WithState
  <2>2. TipOf(store) \in Block
    BY <2>1 DEF SessionInv, ImportInv, SelectionInv, TipOf, WithState, Store
  <2>3. Post[TipOf(store)] \in State
    BY <2>2, StateAssumption
  <2>4. Components(Post[TipOf(store)]) \in [CompKey -> Val \cup {Absent}]
    BY <2>3 DEF Components, State, Key
  <2>5. JamStateOf(TipOf(store)) \in JamState
    BY <2>3, <2>4 DEF JamStateOf, JamState, Root
  <2> QED BY <2>1, <2>5 DEF TypeOK, SessionInv, ImportInv
<1> QED BY <1>1, SessionInvariant, PTL

\* For every block tree and every sequence of deliveries, as_dict_at of a
\* retained block yields what executing the branch from the anchor yields.
THEOREM StatesAreExact ==
    ASSUME RootsNameBlocks, ~CorruptHeadCopy
    PROVE  Spec => []AvailableStatesAreExact
<1>1. SessionInv => AvailableStatesAreExact
  BY AvailableIsWithState, AsDictAtExact DEF AvailableStatesAreExact, SessionInv, ImportInv
<1> QED BY <1>1, SessionInvariant, PTL

\* For every block tree the cached working state is that of the selected block,
\* so the parent_state_root shortcut of initialize and the sparse store of
\* store_jam_state are sound.
THEOREM CacheIsCoherent ==
    ASSUME RootsNameBlocks, ~CorruptHeadCopy
    PROVE  Spec => []CacheDescribesHead
<1>1. SessionInv => CacheDescribesHead
  <2> SUFFICES ASSUME SessionInv PROVE CacheDescribesHead
    OBVIOUS
  <2>1. Readable(store) /\ RetrieveJamState(store) = JamStateOf(TipOf(store))
    BY RetrieveExact DEF SessionInv, ImportInv
  <2>2. working = JamStateOf(TipOf(store))
    BY DEF SessionInv, ImportInv
  <2>3. store.head # None => working.root = Post[store.head]
    BY <2>2 DEF TipOf, JamStateOf
  <2> QED BY <2>1, <2>2, <2>3 DEF CacheDescribesHead
<1> QED BY <1>1, SessionInvariant, PTL

\* RefineBundle can read the state of the last imported block in every
\* reachable state.
THEOREM RefineHeadReadable ==
    ASSUME RootsNameBlocks, ~CorruptHeadCopy
    PROVE  Spec => []RefineHeadIsAvailable
<1>1. SessionInv => RefineHeadIsAvailable
  BY AvailableIsWithState DEF RefineHeadIsAvailable, SessionInv
<1> QED BY <1>1, SessionInvariant, PTL

\* Import implements the abstract tree of accepted blocks: a delivery either
\* stutters or accepts a valid block whose parent was accepted.
THEOREM ImportRefinesForkTree ==
    ASSUME RootsNameBlocks, ~CorruptHeadCopy
    PROVE  Spec => RefinesForkTree
<1>1. Init => Tree!Init
  <2> SUFFICES ASSUME Init PROVE Tree!Init
    OBVIOUS
  <2>1. SessionInv /\ WithState(store) = {Anchor} /\ store.fin = Anchor
    BY SessionInit
  <2> QED BY <2>1, AvailableIsWithState DEF Tree!Init
<1>2. SessionInv /\ SessionInv' /\ [Next]_vars => [Tree!Next]_(Tree!treeVars)
  <2> SUFFICES ASSUME SessionInv, SessionInv', [Next]_vars
               PROVE  [Tree!Next]_(Tree!treeVars)
    OBVIOUS
  <2>1. Available = WithState(store)
    BY AvailableIsWithState
  <2>2. Available' = WithState(store)'
    BY AvailableIsWithStateNext
  <2>3. store.fin' = store.fin
    BY SessionStep
  <2>4. CASE WithState(store)' = WithState(store)
    BY <2>1, <2>2, <2>3, <2>4 DEF Tree!treeVars
  <2>5. CASE \E b \in Block : /\ Valid(b) /\ Parent[b] \in WithState(store)
                              /\ WithState(store)' = WithState(store) \cup {b}
    <3>1. \E b \in Block : Tree!Accept(b)
      BY <2>1, <2>2, <2>3, <2>5 DEF Tree!Accept, Tree!Valid, Valid
    <3> QED BY <3>1 DEF Tree!Next
  <2> QED BY <2>4, <2>5, SessionStep
<1> QED BY <1>1, <1>2, SessionInvariant, PTL DEF Spec, RefinesForkTree, Tree!Spec
=============================================================================
