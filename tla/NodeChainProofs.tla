--------------------------- MODULE NodeChainProofs ---------------------------
(***************************************************************************)
(* What a validator node persists and caches is right for every block      *)
(* tree, every set of own blocks and every crash: the inductive invariant  *)
(* of NodeChain, its preservation by both workers, and the theorems that   *)
(* follow from it.                                                         *)
(***************************************************************************)
EXTENDS NodeChain, StateStorageProofs

\* All own blocks up to and including b were finished and sent, given the set
\* of those that were.  Only such blocks get children.
Published(sent, b) == Ancestry[b] \cap OwnBlock \subseteq sent

\* bytes(32), selected while a block is authored, hangs on the finalized block
\* and writes nothing; then the ancestry ends at the finalized block, so that
\* no read from bytes(32) returns to it.
TemporaryHash(s) ==
    /\ s.cs[Zero] \in {Missing, NoChanges}
    /\ s.parents[Zero] \in {Missing, s.fin}
    /\ s.cs[Zero] # Missing \/ s.head = Zero => s.parents[Zero] = s.fin
    /\ s.parents[Zero] = s.fin => s.parents[s.fin] = None

\* A retained change set is the whole effect of a valid known block above the
\* finalized one, or the empty one of an own block whose authoring failed.
\* Its ancestors up to the finalized block may have been rolled back.
Overlay(s, sent, b) ==
    /\ s.fin \in Ancestry[b] /\ b # s.fin
    /\ s.parents[b] = Parent[b]
    /\ Published(sent, Parent[b])
    /\ Published(sent, b) => s.cs[b] = Delta(b) /\ Valid(b) /\ b \in s.anc
    /\ ~Published(sent, b) => s.cs[b] = NoChanges
Overlays(s, sent) == \A b \in Block : s.cs[b] # Missing => Overlay(s, sent, b)

\* The branch of a selected block is linked down to the finalized block, and
\* of its change sets only the block's own may be gone.
HeadBranch(s, sent) ==
    s.head \in Block =>
      /\ s.fin \in Linked(s, s.head)
      /\ \A a \in Unfinalized(s, s.head) \ {s.head} : s.cs[a] # Missing
      /\ s.head # s.fin => Published(sent, Parent[s.head])

Intact(s, sent) ==
    /\ s \in Store
    /\ s.db = Post[s.fin]
    /\ s.fin \in s.anc
    /\ TemporaryHash(s)
    /\ Overlays(s, sent)
    /\ HeadBranch(s, sent)

\* After a crash between the two writes of finalize() the storage stays as it
\* was opened, with the state of a descendant under the recorded head.
Torn(s) ==
    /\ s \in Store
    /\ s = Opened(s.db, s.fin)
    /\ \E d \in Block \ {s.fin} : s.fin \in Ancestry[d] /\ s.db = Post[d]

\* The cache is the posterior state of a block, and of the selected one
\* whenever that can be read.
Described(s, w) ==
    /\ \E c \in Block : w = JamStateOf(c)
    /\ Readable(s) => w = RetrieveJamState(s)

\* The slot index names published blocks under their slots.
SlotIndex ==
    \A t \in Val : slotHash[t] # Missing =>
        slotHash[t] \in Block /\ Slot[slotHash[t]] = t /\ Published(authored, slotHash[t])

\* The inductive invariant of the node.
NodeInv ==
    /\ TypeOK
    /\ finHead = store.fin
    /\ Published(authored, finHead)
    /\ \A b \in authored : Slot[b] <= clock
    /\ SlotIndex
    /\ Described(store, working)
    /\ Intact(store, authored) \/ Torn(store)

-----------------------------------------------------------------------------
(* Reading.                                                                *)

\* The functions of a store.
LEMMA StoreFacts ==
    ASSUME NEW s \in Store
    PROVE  /\ s.fin \in Block /\ s.db \in State /\ s.anc \subseteq Block
           /\ s.head \in Hash \cup {None} /\ s.tx \in Changes
           /\ s.cs \in [Hash -> Changes \cup {Missing}]
           /\ s.parents \in [Hash -> Hash \cup {None, Missing}]
           /\ Block \subseteq Hash /\ Zero \in Hash
           /\ Zero \notin Block /\ None \notin Hash
           /\ Missing \notin Hash /\ Missing # None
           /\ NoChanges \in Changes /\ NoChanges # Missing
<1>1. NoChanges \in Changes
  BY DEF NoChanges, Changes
<1> QED BY <1>1, SentinelAssumption DEF Store, Hash

\* Overlays are change sets.
LEMMA DeltaType ==
    ASSUME NEW b \in Block, b # Genesis
    PROVE  Delta(b) \in Changes /\ Delta(b) # Missing
<1>1. Delta(b) \in Changes
  BY StateAssumption DEF Delta, Changes
<1> QED BY <1>1, SentinelAssumption

\* Ancestors of published blocks are published.
LEMMA PublishedAncestors ==
    ASSUME NEW sent, NEW b \in Block, Published(sent, b), NEW a \in Ancestry[b]
    PROVE  a \in Block /\ Published(sent, a)
<1>1. a \in Block /\ Ancestry[a] \subseteq Ancestry[b]
  BY AncestryAssumption
<1> QED BY <1>1 DEF Published

\* Nothing at or below the finalized block is retained.
LEMMA NothingBelowFinal ==
    ASSUME NEW s, NEW sent, Intact(s, sent), NEW a \in Ancestry[s.fin]
    PROVE  s.cs[a] = Missing
<1>1. s.fin \in Block /\ a \in Block
  BY AncestryAssumption, StoreFacts DEF Intact
<1>2. ASSUME s.cs[a] # Missing PROVE FALSE
  <2>1. s.fin \in Ancestry[a] /\ a # s.fin
    BY <1>1, <1>2 DEF Intact, Overlays, Overlay
  <2> QED BY <1>1, <2>1, AncestryAntisymmetric
<1> QED BY <1>2

\* A branch whose tip writes nothing reads like its parent.
LEMMA EmptyTip ==
    ASSUME NEW s, NEW h \in Block, s.fin \in Block, s.fin \in Ancestry[h], h # s.fin,
           s.db = Post[s.fin], s.cs[h] \in {Missing, NoChanges},
           \A a \in Unfinalized(s, h) \ {h} : s.cs[a] = Delta(a)
    PROVE  /\ Parent[h] \in Block /\ s.fin \in Ancestry[Parent[h]]
           /\ Overlaid(s, Unfinalized(s, h)) = Post[Parent[h]]
<1> DEFINE p == Parent[h]
<1>1. /\ h # Genesis /\ s.fin \in Ancestry[p]
      /\ Unfinalized(s, h) = {h} \cup Unfinalized(s, p)
  BY UnfinalizedStep
<1>2. p \in Block /\ h \notin Ancestry[p]
  BY <1>1, ParentIsOlder
<1>3. \A a \in Unfinalized(s, p) : s.cs[a] = Delta(a)
  BY <1>1, <1>2 DEF Unfinalized
<1>4. Overlaid(s, Unfinalized(s, p)) = Post[p]
  BY <1>1, <1>2, <1>3, BranchExact
<1>5. \A k \in Key : Writers(s, Unfinalized(s, h), k) = Writers(s, Unfinalized(s, p), k)
  BY <1>1 DEF Writers, NoChanges
<1> QED BY <1>1, <1>2, <1>4, <1>5, SameWritersSameView

\* Reading below or at the finalized block, or at bytes(32), reads the engine.
LEMMA ReadsEngine ==
    ASSUME NEW s, NEW sent, Intact(s, sent),
           NEW C \in SUBSET Ancestry[s.fin]
    PROVE  Overlaid(s, C) = Post[s.fin]
<1>1. \A a \in C : s.cs[a] = Missing
  BY NothingBelowFinal
<1>2. \A k \in Key : Writers(s, C, k) = {}
  BY <1>1 DEF Writers
<1>3. s.db \in State
  BY StoreFacts DEF Intact
<1> QED BY <1>2, <1>3, EmptyBranch DEF Intact

\* The state under the selected block is the posterior state of a block.
LEMMA HeadView ==
    ASSUME NEW s, NEW sent, Intact(s, sent)
    PROVE  \E c \in Block : View(s, s.head) = Post[c]
<1>1. /\ s.fin \in Block /\ s.db = Post[s.fin] /\ s.head \in Hash \cup {None}
      /\ Zero \notin Block /\ None \notin Hash /\ Missing \notin Hash
      /\ Zero \in Hash /\ Block \subseteq Hash
  BY StoreFacts DEF Intact
<1>2. CASE s.head = None
  <2>1. Chain(s, s.head) = {}
    BY <1>1, <1>2 DEF Chain
  <2> QED BY <1>1, <2>1, ReadsEngine DEF View
<1>3. CASE s.head = Zero
  <2>1. s.parents[Zero] = s.fin
    BY <1>3 DEF Intact, TemporaryHash
  <2>2. Chain(s, s.head) = Linked(s, s.fin)
    BY <1>1, <1>3, <2>1 DEF Chain
  <2>3. Linked(s, s.fin) \in SUBSET Ancestry[s.fin]
    BY DEF Linked
  <2> QED BY <1>1, <2>2, <2>3, ReadsEngine DEF View
<1>4. CASE s.head \in Block
  <2> DEFINE h == s.head
  <2>1. /\ s.fin \in Linked(s, h)
        /\ \A a \in Unfinalized(s, h) \ {h} : s.cs[a] # Missing
        /\ h # s.fin => Published(sent, Parent[h])
    BY <1>4 DEF Intact, HeadBranch
  <2>2. View(s, h) = Overlaid(s, Linked(s, h))
    BY <1>4, ViewOfBlock
  <2>3. \A a \in Ancestry[s.fin] : s.cs[a] \in {Missing, NoChanges}
    BY NothingBelowFinal
  <2>4. View(s, h) = Overlaid(s, Unfinalized(s, h))
    BY <1>1, <1>4, <2>1, <2>2, <2>3, ViewOfBranch
  <2>5. CASE h = s.fin
    <3>1. Unfinalized(s, h) = {}
      BY <2>5 DEF Unfinalized
    <3> QED BY <1>1, <2>4, <3>1, ReadsEngine
  <2>6. CASE h # s.fin
    <3>1. s.fin \in Ancestry[h]
      BY <2>1 DEF Linked
    <3>2. /\ h # Genesis /\ Unfinalized(s, h) = {h} \cup Unfinalized(s, Parent[h])
      BY <1>1, <1>4, <2>6, <3>1, UnfinalizedStep
    <3>3. Parent[h] \in Block
      BY <1>4, <3>2, ParentIsOlder
    <3>4. ASSUME NEW a \in Unfinalized(s, h) \ {h} PROVE s.cs[a] = Delta(a)
      <4>1. a \in Ancestry[Parent[h]]
        BY <3>2 DEF Unfinalized
      <4>2. a \in Block /\ Published(sent, a)
        BY <2>1, <2>6, <3>3, <4>1, PublishedAncestors
      <4> QED BY <2>1, <4>2 DEF Intact, Overlays, Overlay
    <3>5. CASE s.cs[h] \in {Missing, NoChanges}
      <4>1. Overlaid(s, Unfinalized(s, h)) = Post[Parent[h]]
        BY <1>1, <1>4, <2>6, <3>1, <3>4, <3>5, EmptyTip
      <4> QED BY <2>4, <3>3, <4>1
    <3>6. CASE s.cs[h] \notin {Missing, NoChanges}
      <4>1. s.cs[h] = Delta(h)
        BY <1>4, <3>6 DEF Intact, Overlays, Overlay
      <4>2. \A a \in Unfinalized(s, h) : s.cs[a] = Delta(a)
        BY <3>4, <4>1
      <4>3. Overlaid(s, Unfinalized(s, h)) = Post[h]
        BY <1>1, <1>4, <3>1, <4>2, BranchExact
      <4> QED BY <1>4, <2>4, <4>3
    <3> QED BY <3>5, <3>6
  <2> QED BY <2>5, <2>6
<1> QED BY <1>1, <1>2, <1>3, <1>4 DEF Hash

\* No read of the selected block runs in a circle.
LEMMA NoCycle ==
    ASSUME NEW s, NEW sent, Intact(s, sent)
    PROVE  ~Cyclic(s, s.head)
<1>1. /\ s.fin \in Block /\ Zero \notin Block /\ None \notin Hash /\ Missing \notin Block
  BY StoreFacts DEF Intact
<1> SUFFICES ASSUME s.parents[Zero] \in Block PROVE ~Cyclic(s, s.head)
  BY DEF Cyclic
<1>2. s.parents[Zero] = s.fin /\ s.parents[s.fin] = None
  BY <1>1 DEF Intact, TemporaryHash
<1>3. Parent[s.fin] # None
  BY <1>1, TreeAssumption
<1>4. ASSUME NEW h \in Block, s.fin \in Ancestry[h] PROVE ~ReachesZero(s, h)
  BY <1>2, <1>3, <1>4 DEF ReachesZero
<1>5. s.head \in Block => s.fin \in Ancestry[s.head]
  BY DEF Intact, HeadBranch, Linked
<1>6. s.fin \in Ancestry[s.fin]
  BY <1>1, SelfAncestor
<1> QED BY <1>1, <1>2, <1>4, <1>5, <1>6 DEF Cyclic

\* Retrieving the working state gives the posterior state of a block.
LEMMA RetrieveIntact ==
    ASSUME NEW s, NEW sent, Intact(s, sent)
    PROVE  \E c \in Block : RetrieveJamState(s) = JamStateOf(c)
<1>1. PICK c \in Block : View(s, s.head) = Post[c]
  BY HeadView
<1> QED BY <1>1 DEF RetrieveJamState, JamStateOf

\* An opened store reads its engine.
LEMMA OpenedFacts ==
    ASSUME NEW g \in Block, NEW db \in State
    PROVE  LET o == Opened(db, g) IN
           /\ o \in Store
           /\ o.db = db /\ o.fin = g /\ o.head = None /\ o.tx = NoChanges
           /\ o.anc = Ancestry[g]
           /\ \A h \in Hash : o.cs[h] = Missing
           /\ \A h \in Hash : o.parents[h] =
                 IF h \in Ancestry[g] THEN Parent[h] ELSE Missing
           /\ Readable(o)
           /\ View(o, o.head) = db
<1> DEFINE o == Opened(db, g)
<1>1. /\ NoChanges \in Changes /\ Missing \notin Block /\ Zero \notin Block
      /\ None \notin Block /\ None # Zero /\ Block \subseteq Hash /\ Zero \in Hash
  BY SentinelAssumption DEF NoChanges, Changes, Hash
<1>2. Ancestry[g] \subseteq Block /\ \A h \in Ancestry[g] : Parent[h] \in Hash
  BY AncestryAssumption, TreeAssumption
<1>3. /\ o.db = db /\ o.fin = g /\ o.head = None /\ o.tx = NoChanges
      /\ o.anc = Ancestry[g]
      /\ o.cs = [h \in Hash |-> Missing]
      /\ o.parents = [h \in Hash |-> IF h \in Ancestry[g] THEN Parent[h] ELSE Missing]
  BY DEF Opened
<1>4. o \in Store
  BY <1>1, <1>2 DEF Opened, Store
<1> HIDE DEF o
<1>5. o.parents[Zero] = Missing
  BY <1>1, <1>2, <1>3
<1>6. Readable(o)
  BY <1>1, <1>3, <1>5 DEF Readable, Pending, Cyclic
<1>7. View(o, o.head) = db
  <2>1. Chain(o, o.head) = {}
    BY <1>1, <1>3 DEF Chain
  <2>2. \A k \in Key : Writers(o, {}, k) = {}
    BY DEF Writers
  <2> QED BY <1>3, <2>1, <2>2, EmptyBranch DEF View
<1> QED BY <1>3, <1>4, <1>6, <1>7 DEF o

\* A store opened on the finalized state is intact.
LEMMA OpenedIntact ==
    ASSUME NEW g \in Block, NEW sent
    PROVE  Intact(Opened(Post[g], g), sent)
<1> DEFINE o == Opened(Post[g], g)
<1>1. Post[g] \in State
  BY StateAssumption
<1>2. /\ o \in Store
      /\ o.db = Post[g] /\ o.fin = g /\ o.head = None /\ o.anc = Ancestry[g]
      /\ \A h \in Hash : o.cs[h] = Missing
      /\ \A h \in Hash : o.parents[h] = IF h \in Ancestry[g] THEN Parent[h] ELSE Missing
  BY <1>1, OpenedFacts
<1> HIDE DEF o
<1>3. Zero \notin Ancestry[g] /\ Zero \in Hash /\ Block \subseteq Hash
      /\ Missing \notin Block /\ None \notin Block /\ None # Zero
  BY SentinelAssumption, AncestryAssumption DEF Hash
<1>4. TemporaryHash(o)
  BY <1>2, <1>3 DEF TemporaryHash
<1>5. Overlays(o, sent)
  BY <1>2, <1>3 DEF Overlays
<1>6. HeadBranch(o, sent)
  BY <1>2, <1>3 DEF HeadBranch
<1>7. o.fin \in o.anc
  BY <1>2, SelfAncestor
<1> QED BY <1>2, <1>4, <1>5, <1>6, <1>7 DEF Intact, o

\* Reloading an intact or torn store describes it.
LEMMA Reloading ==
    ASSUME NEW s, NEW sent, Intact(s, sent) \/ Torn(s),
           NEW w, \E c \in Block : w = JamStateOf(c)
    PROVE  Described(s, Refreshed(s, w))
<1>1. \E c \in Block : RetrieveJamState(s) = JamStateOf(c)
  <2>1. CASE Intact(s, sent)
    BY <2>1, RetrieveIntact
  <2>2. CASE Torn(s)
    <3>1. PICK d \in Block : s.db = Post[d]
      BY <2>2 DEF Torn
    <3>2. s.fin \in Block /\ s.db \in State /\ s = Opened(s.db, s.fin)
      BY <2>2, StoreFacts DEF Torn
    <3>3. View(s, s.head) = s.db
      BY <3>2, OpenedFacts
    <3> QED BY <3>1, <3>3 DEF RetrieveJamState, JamStateOf
  <2> QED BY <2>1, <2>2
<1> QED BY <1>1 DEF Described, Refreshed

-----------------------------------------------------------------------------
(* Finality.                                                               *)

\* Which blocks a branch that can be finalized consists of.
LEMMA FinalizableBranch ==
    ASSUME NEW s, NEW sent, Intact(s, sent), NEW p \in Block, p # s.fin, CanFinalize(s, p)
    PROVE  /\ s.fin \in Ancestry[p] /\ p \notin Ancestry[s.fin]
           /\ p \in Unfinalized(s, p) /\ s.cs[p] # Missing
           /\ Published(sent, Parent[p]) /\ Parent[p] \in Block
           /\ s.fin \in Ancestry[Parent[p]]
           /\ \A a \in Unfinalized(s, p) \ {p} : s.cs[a] = Delta(a)
<1>1. /\ s.fin \in Linked(s, p) /\ Unfinalized(s, p) \subseteq Retained(s)
      /\ s.fin \in Block
  BY StoreFacts DEF CanFinalize, OnFinalizedBranch, Intact
<1>2. s.fin \in Ancestry[p]
  BY <1>1 DEF Linked
<1>3. /\ p # Genesis /\ s.fin \in Ancestry[Parent[p]] /\ p \notin Ancestry[s.fin]
      /\ Unfinalized(s, p) = {p} \cup Unfinalized(s, Parent[p])
  BY <1>1, <1>2, UnfinalizedStep
<1>4. Parent[p] \in Block
  BY <1>3, ParentIsOlder
<1>5. p \in Unfinalized(s, p) /\ s.cs[p] # Missing
  BY <1>1, <1>3 DEF Retained
<1>6. Published(sent, Parent[p])
  BY <1>5 DEF Intact, Overlays, Overlay
<1>7. ASSUME NEW a \in Unfinalized(s, p) \ {p} PROVE s.cs[a] = Delta(a)
  <2>1. a \in Ancestry[Parent[p]] /\ s.cs[a] # Missing
    BY <1>1, <1>3 DEF Unfinalized, Retained
  <2>2. a \in Block /\ Published(sent, a)
    BY <1>4, <1>6, <2>1, PublishedAncestors
  <2> QED BY <2>1, <2>2 DEF Intact, Overlays, Overlay
<1> QED BY <1>2, <1>3, <1>4, <1>5, <1>6, <1>7

\* The state batch of finalize() writes the posterior state of the block, or,
\* if authoring the block failed, of its parent.
LEMMA FlattenedState ==
    ASSUME NEW s, NEW sent, Intact(s, sent), NEW p \in Block, p # s.fin, CanFinalize(s, p)
    PROVE  /\ Published(sent, p) => Flattened(s, p) = Post[p]
           /\ ~Published(sent, p) => Flattened(s, p) = Post[Parent[p]]
<1>1. /\ s.fin \in Ancestry[p] /\ s.cs[p] # Missing
      /\ \A a \in Unfinalized(s, p) \ {p} : s.cs[a] = Delta(a)
  BY FinalizableBranch
<1>2. s.fin \in Block /\ s.db = Post[s.fin]
  BY StoreFacts DEF Intact
<1>3. CASE Published(sent, p)
  <2>1. s.cs[p] = Delta(p)
    BY <1>1, <1>3 DEF Intact, Overlays, Overlay
  <2>2. \A a \in Unfinalized(s, p) : s.cs[a] = Delta(a)
    BY <1>1, <2>1
  <2> QED BY <1>1, <1>2, <1>3, <2>2, BranchExact DEF Flattened
<1>4. CASE ~Published(sent, p)
  <2>1. s.cs[p] = NoChanges
    BY <1>1, <1>4 DEF Intact, Overlays, Overlay
  <2> QED BY <1>1, <1>2, <1>4, <2>1, EmptyTip DEF Flattened
<1> QED BY <1>3, <1>4

\* What finalize() leaves.
LEMMA FinalizedFields ==
    ASSUME NEW s \in Store, NEW p \in Block, p # s.fin,
           p \notin Kept(s, p), Flattened(s, p) \in State
    PROVE  LET f == Finalize(s, p)
               kept == Kept(s, p)
           IN  /\ f \in Store
               /\ f.db = Flattened(s, p) /\ f.fin = p /\ f.tx = s.tx
               /\ f.anc = s.anc \cap (kept \cup {p})
               /\ f.head = IF s.head \in kept \cup {p} THEN s.head ELSE p
               /\ \A h \in Hash : f.cs[h] = IF h \in kept THEN s.cs[h] ELSE Missing
               /\ f.parents[p] = None
               /\ \A h \in kept \ {p} : f.parents[h] = s.parents[h]
               /\ \A h \in Hash \ (kept \cup {p}) : f.parents[h] = Missing
<1> DEFINE kept == Kept(s, p)
           f == Finalize(s, p)
           C == [h \in Hash |-> IF h \in kept THEN s.cs[h] ELSE Missing]
           P == [h \in Hash |-> CASE h = p -> None
                                  [] h \in kept -> s.parents[h]
                                  [] OTHER -> Missing]
<1>1. kept \subseteq Hash /\ p \notin kept
  BY DEF Kept, Retained
<1>2. /\ s.fin \in Block /\ s.anc \subseteq Block /\ s.head \in Hash \cup {None}
      /\ s.cs \in [Hash -> Changes \cup {Missing}]
      /\ s.parents \in [Hash -> Hash \cup {None, Missing}]
      /\ Block \subseteq Hash
  BY StoreFacts
<1> HIDE DEF kept
<1>3. C \in [Hash -> Changes \cup {Missing}]
  BY <1>1, <1>2
<1>4. /\ \A h \in Hash : P[h] \in Hash \cup {None, Missing}
      /\ P[p] = None
      /\ \A h \in kept \ {p} : P[h] = s.parents[h]
      /\ \A h \in Hash \ (kept \cup {p}) : P[h] = Missing
  <2>1. P[p] = None
    BY <1>1, <1>2
  <2>2. \A h \in kept \ {p} : P[h] = s.parents[h]
    BY <1>1
  <2>3. \A h \in Hash \ (kept \cup {p}) : P[h] = Missing
    OBVIOUS
  <2>4. \A h \in kept : s.parents[h] \in Hash \cup {None, Missing}
    BY <1>1, <1>2
  <2> HIDE DEF P
  <2> QED BY <2>1, <2>2, <2>3, <2>4
<1>5. P \in [Hash -> Hash \cup {None, Missing}]
  BY <1>4
<1>6. \A h \in Hash : C[h] = IF h \in kept THEN s.cs[h] ELSE Missing
  OBVIOUS
<1>7. f = [s EXCEPT !.db = Flattened(s, p), !.fin = p, !.cs = C, !.parents = P,
                    !.anc = @ \cap (kept \cup {p}),
                    !.head = IF @ \in kept \cup {p} THEN @ ELSE p]
  BY DEF Finalize, kept
<1> HIDE DEF C, P, f
<1>8. /\ f \in Store
      /\ f.db = Flattened(s, p) /\ f.fin = p /\ f.tx = s.tx
      /\ f.anc = s.anc \cap (kept \cup {p})
      /\ f.head = IF s.head \in kept \cup {p} THEN s.head ELSE p
      /\ f.cs = C /\ f.parents = P
  BY <1>2, <1>3, <1>5, <1>7 DEF Store
<1> QED BY <1>4, <1>6, <1>8 DEF f, kept

\* finalize() of a published block leaves an intact store.
LEMMA FinalizeStep ==
    ASSUME NEW s, NEW sent, Intact(s, sent), NEW p \in Block,
           Published(sent, p), p = s.fin \/ CanFinalize(s, p)
    PROVE  LET f == Finalize(s, p) IN Intact(f, sent) /\ f.fin = p
<1> DEFINE f == Finalize(s, p)
           kept == Kept(s, p)
           h == s.head
<1>1. CASE p = s.fin
  BY <1>1 DEF Finalize
<1>2. CASE p # s.fin
  <2>1. /\ s.fin \in Ancestry[p] /\ p \notin Ancestry[s.fin]
        /\ p \in Unfinalized(s, p) /\ s.cs[p] # Missing
    BY <1>2, FinalizableBranch
  <2>2. Flattened(s, p) = Post[p] /\ Post[p] \in State
    BY <1>2, FlattenedState, StateAssumption
  <2>3. p \notin kept
    BY <2>1 DEF Kept
  <2>4. s \in Store
    BY DEF Intact
  <2>5. /\ f \in Store
        /\ f.db = Post[p] /\ f.fin = p /\ f.anc = s.anc \cap (kept \cup {p})
        /\ f.head = IF h \in kept \cup {p} THEN h ELSE p
        /\ \A x \in Hash : f.cs[x] = IF x \in kept THEN s.cs[x] ELSE Missing
        /\ f.parents[p] = None
        /\ \A x \in kept \ {p} : f.parents[x] = s.parents[x]
        /\ \A x \in Hash \ (kept \cup {p}) : f.parents[x] = Missing
    BY <1>2, <2>2, <2>3, <2>4, FinalizedFields
  <2>6. /\ s.fin \in Block /\ Block \subseteq Hash /\ Zero \in Hash /\ Zero \notin Block
        /\ Missing \notin Block /\ None \notin Block /\ NoChanges # Missing
    BY <2>4, StoreFacts
  <2> HIDE DEF f
  <2>7. \A x \in kept : x \in Hash /\ s.cs[x] # Missing /\ x \notin Unfinalized(s, p)
                         /\ p \in Chain(s, x)
    BY DEF Kept, Retained
  <2>8. Zero \notin kept
    <3>1. ASSUME Zero \in kept PROVE FALSE
      <4>1. s.parents[Zero] = s.fin
        BY <2>7, <3>1 DEF Intact, TemporaryHash
      <4>2. Chain(s, Zero) = Linked(s, s.fin)
        BY <2>6, <4>1 DEF Chain
      <4> QED BY <2>1, <2>7, <3>1, <4>2 DEF Linked
    <3> QED BY <3>1
  <2>9. kept \subseteq Block
    BY <2>7, <2>8 DEF Hash
  <2>10. ASSUME NEW c \in kept PROVE p \in Ancestry[c] /\ c # p
    <3>1. Chain(s, c) = Linked(s, c)
      BY <2>6, <2>9 DEF Chain
    <3> QED BY <2>3, <2>7, <3>1 DEF Linked
  <2> HIDE DEF kept
  <2>11. f.fin \in f.anc
    <3>1. p \in s.anc
      BY <2>1 DEF Intact, Overlays, Overlay
    <3> QED BY <2>5, <3>1
  <2>12. TemporaryHash(f)
    <3>1. f.cs[Zero] = Missing /\ f.parents[Zero] = Missing /\ f.head # Zero
      BY <2>5, <2>6, <2>8
    <3> QED BY <2>5, <2>6, <3>1 DEF TemporaryHash
  <2>13. Overlays(f, sent)
    <3> SUFFICES ASSUME NEW c \in Block, f.cs[c] # Missing PROVE Overlay(f, sent, c)
      BY DEF Overlays
    <3>1. c \in kept /\ f.cs[c] = s.cs[c] /\ c # p /\ f.parents[c] = s.parents[c]
      BY <2>5, <2>6, <2>10
    <3>2. Overlay(s, sent, c)
      BY <3>1 DEF Intact, Overlays
    <3> QED BY <2>5, <2>10, <3>1, <3>2 DEF Overlay
  <2>14. HeadBranch(f, sent)
    <3>1. CASE f.head = p
      <4>1. Unfinalized(f, p) = {}
        BY <2>5 DEF Unfinalized
      <4> QED BY <2>5, <3>1, <4>1, LinkedSelf DEF HeadBranch
    <3>2. CASE f.head # p
      <4>1. f.head = h /\ h \in kept /\ h \in Block
        BY <2>5, <2>9, <3>2
      <4>2. p \in Ancestry[h] /\ h # p
        BY <2>10, <4>1
      <4>3. h # s.fin
        BY <2>7, <4>1, SelfAncestor, NothingBelowFinal, <2>6
      <4>4. /\ s.fin \in Linked(s, h) /\ Published(sent, Parent[h])
            /\ \A a \in Unfinalized(s, h) \ {h} : s.cs[a] # Missing
        BY <4>1, <4>3 DEF Intact, HeadBranch
      <4>5. Ancestry[s.fin] \subseteq Ancestry[p]
        BY <2>1, AncestryAssumption
      <4>6. ASSUME NEW c \in Ancestry[h] \ Ancestry[p]
            PROVE  c \in kept /\ f.parents[c] = Parent[c] /\ f.cs[c] # Missing
        <5>1. c \in Block /\ c \notin Ancestry[s.fin] /\ p \in Ancestry[c]
              /\ Ancestry[c] \subseteq Ancestry[h]
          BY <4>1, <4>2, <4>5, AncestryAssumption
        <5>2. s.cs[c] # Missing
          BY <2>7, <4>1, <4>4, <5>1 DEF Unfinalized
        <5>3. \A e \in Ancestry[h] \ Ancestry[s.fin] : s.parents[e] = Parent[e]
          BY <4>4 DEF Linked
        <5>4. p \in Linked(s, c)
          BY <4>5, <5>1, <5>3 DEF Linked
        <5>5. p \in Chain(s, c)
          BY <2>6, <5>1, <5>4 DEF Chain
        <5>6. c \in kept
          BY <2>6, <5>1, <5>2, <5>5 DEF kept, Kept, Retained, Unfinalized
        <5>7. f.parents[c] = s.parents[c] /\ f.cs[c] = s.cs[c]
          BY <2>3, <2>5, <2>6, <5>1, <5>6
        <5> QED BY <5>1, <5>2, <5>3, <5>6, <5>7
      <4>7. p \in Linked(f, h)
        BY <4>2, <4>6 DEF Linked
      <4>8. \A a \in Unfinalized(f, h) : f.cs[a] # Missing
        BY <2>5, <4>6 DEF Unfinalized
      <4> QED BY <2>5, <4>1, <4>4, <4>7, <4>8 DEF HeadBranch
    <3> QED BY <3>1, <3>2
  <2> QED BY <2>5, <2>11, <2>12, <2>13, <2>14 DEF Intact, f
<1> QED BY <1>1, <1>2

-----------------------------------------------------------------------------
(* Rolling back.                                                           *)

\* Losing change sets, and nothing else above the finalized block, leaves the
\* others as they were.
LEMMA FewerOverlays ==
    ASSUME NEW s, NEW sent, Intact(s, sent), NEW u \in Store,
           u.db = s.db, u.fin = s.fin, s.fin \in u.anc,
           \A c \in Block : u.cs[c] # Missing =>
               /\ u.cs[c] = s.cs[c] /\ u.parents[c] = s.parents[c]
               /\ c \in s.anc => c \in u.anc,
           TemporaryHash(u), HeadBranch(u, sent)
    PROVE  Intact(u, sent)
<1>1. Overlays(u, sent)
  BY DEF Intact, Overlays, Overlay
<1> QED BY <1>1 DEF Intact

\* The head branch of a store that lost at most the change set of its head.
LEMMA SameHeadBranch ==
    ASSUME NEW s, NEW sent, HeadBranch(s, sent), NEW u, u.fin = s.fin, u.head = s.head,
           s.head \in Block => \A c \in Unfinalized(s, s.head) :
               /\ u.parents[c] = s.parents[c]
               /\ c # s.head => u.cs[c] = s.cs[c]
    PROVE  HeadBranch(u, sent)
<1> SUFFICES ASSUME s.head \in Block
             PROVE  /\ s.fin \in Linked(u, s.head)
                    /\ \A a \in Unfinalized(u, s.head) \ {s.head} : u.cs[a] # Missing
                    /\ s.head # s.fin => Published(sent, Parent[s.head])
  BY DEF HeadBranch
<1>1. Unfinalized(u, s.head) = Unfinalized(s, s.head)
  BY DEF Unfinalized
<1>2. s.fin \in Linked(u, s.head)
  BY DEF HeadBranch, Linked, Unfinalized
<1> QED BY <1>1, <1>2 DEF HeadBranch

\* A head at the finalized block or just above it needs no other change set.
LEMMA ShortHeadBranch ==
    ASSUME NEW u, NEW sent, u.fin \in Block, Published(sent, u.fin),
           \/ u.head = u.fin
           \/ /\ u.head \in Block /\ u.head # Genesis /\ Parent[u.head] = u.fin
              /\ u.parents[u.head] = u.fin
    PROVE  HeadBranch(u, sent)
<1>1. CASE u.head = u.fin
  BY <1>1, LinkedSelf DEF HeadBranch, Unfinalized
<1>2. CASE u.head # u.fin
  <2> DEFINE b == u.head
  <2>1. Linked(u, b) = {b} \cup Linked(u, u.fin)
    BY <1>2, LinkedStep
  <2>2. u.fin \in Linked(u, b)
    BY <2>1, LinkedSelf
  <2>3. Unfinalized(u, b) \subseteq {b}
    BY <1>2, ParentIsOlder DEF Unfinalized
  <2> QED BY <1>2, <2>2, <2>3 DEF HeadBranch
<1> QED BY <1>1, <1>2

\* What rollback() leaves.
LEMMA RollbackFields ==
    ASSUME NEW s \in Store
    PROVE  LET u == Rollback(s) IN
           /\ u \in Store
           /\ u.db = s.db /\ u.fin = s.fin /\ u.head = s.head /\ u.anc = s.anc
           /\ u.parents = s.parents /\ u.tx = NoChanges
           /\ \A h \in Hash : u.cs[h] = IF h = s.head THEN Missing ELSE s.cs[h]
<1>1. /\ s.cs \in [Hash -> Changes \cup {Missing}] /\ NoChanges \in Changes
      /\ None \notin Hash /\ s.head \in Hash \cup {None}
  BY StoreFacts
<1> DEFINE C == IF s.head = None THEN s.cs ELSE [s.cs EXCEPT ![s.head] = Missing]
<1>2. /\ C \in [Hash -> Changes \cup {Missing}]
      /\ \A h \in Hash : C[h] = IF h = s.head THEN Missing ELSE s.cs[h]
  BY <1>1
<1>3. Rollback(s) = [s EXCEPT !.cs = C, !.tx = NoChanges]
  BY DEF Rollback
<1> HIDE DEF C
<1> QED BY <1>1, <1>2, <1>3 DEF Store

\* rollback() keeps the store intact.
LEMMA RollbackStep ==
    ASSUME NEW s, NEW sent, Intact(s, sent)
    PROVE  Intact(Rollback(s), sent)
<1> DEFINE u == Rollback(s)
<1>1. /\ u \in Store /\ s \in Store
      /\ u.db = s.db /\ u.fin = s.fin /\ u.head = s.head /\ u.anc = s.anc
      /\ u.parents = s.parents
      /\ \A h \in Hash : u.cs[h] = IF h = s.head THEN Missing ELSE s.cs[h]
  BY RollbackFields DEF Intact
<1> HIDE DEF u
<1>2. Block \subseteq Hash /\ Zero \in Hash /\ s.fin \in Block
  BY <1>1, StoreFacts
<1>3. TemporaryHash(u)
  BY <1>1, <1>2 DEF Intact, TemporaryHash
<1>4. HeadBranch(s, sent)
  BY DEF Intact
<1>5. s.head \in Block => Unfinalized(s, s.head) \subseteq Hash
  BY <1>2, AncestryAssumption DEF Unfinalized
<1>6. HeadBranch(u, sent)
  BY <1>1, <1>4, <1>5, SameHeadBranch
<1> QED BY <1>1, <1>2, <1>3, <1>6, FewerOverlays DEF Intact, u

-----------------------------------------------------------------------------
(* The candidate: a block selected on the finalized one.                   *)

\* Store t is f with b selected on its parent, the change set of b being
\* changes; bytes(32) may have been given up for b.
OnCandidate(f, t, b, changes) ==
    /\ t \in Store
    /\ t.db = f.db /\ t.fin = f.fin /\ t.anc = f.anc
    /\ t.head = b
    /\ t.cs[b] = changes /\ t.parents[b] = Parent[b]
    /\ \A c \in Block \ {b} : t.cs[c] = f.cs[c] /\ t.parents[c] = f.parents[c]
    /\ \/ t.cs[Zero] = f.cs[Zero] /\ t.parents[Zero] = f.parents[Zero]
       \/ t.cs[Zero] = Missing /\ t.parents[Zero] = Missing

\* state_transition of an import selects a candidate.
LEMMA ImportSelects ==
    ASSUME NEW f \in Store, NEW b \in Block
    PROVE  /\ OnCandidate(f, Selected(f, b), b, NoChanges)
           /\ Selected(f, b).tx = NoChanges
<1> DEFINE t == Selected(f, b)
<1>1. /\ t \in Store
      /\ t.db = f.db /\ t.fin = f.fin /\ t.anc = f.anc
      /\ t.head = b /\ t.tx = NoChanges
      /\ t.cs = [f.cs EXCEPT ![b] = NoChanges]
      /\ t.parents = [f.parents EXCEPT ![b] = Parent[b]]
  BY SelectedFields
<1> HIDE DEF t
<1>2. /\ f.cs \in [Hash -> Changes \cup {Missing}]
      /\ f.parents \in [Hash -> Hash \cup {None, Missing}]
      /\ Block \subseteq Hash /\ Zero \in Hash /\ Zero \notin Block
  BY StoreFacts
<1>3. /\ t.cs[b] = NoChanges /\ t.parents[b] = Parent[b]
      /\ \A c \in Hash \ {b} : t.cs[c] = f.cs[c] /\ t.parents[c] = f.parents[c]
  BY <1>1, <1>2
<1>4. t.cs[Zero] = f.cs[Zero] /\ t.parents[Zero] = f.parents[Zero]
  BY <1>2, <1>3
<1>5. \A c \in Block \ {b} : t.cs[c] = f.cs[c] /\ t.parents[c] = f.parents[c]
  BY <1>2, <1>3
<1> QED BY <1>1, <1>3, <1>4, <1>5 DEF OnCandidate, t

\* Authoring selects bytes(32) first.
Temporary(f, b) == SetTemporaryBlockHash(StartTx(f), Parent[b])
LEMMA TemporaryFields ==
    ASSUME NEW f \in Store, NEW b \in Block
    PROVE  LET t == Temporary(f, b) IN
           /\ t \in Store
           /\ t.db = f.db /\ t.fin = f.fin /\ t.anc = f.anc
           /\ t.head = Zero /\ t.tx = NoChanges
           /\ t.cs = [f.cs EXCEPT ![Zero] = NoChanges]
           /\ t.parents = [f.parents EXCEPT ![Zero] = Parent[b]]
<1>1. NoChanges \in Changes /\ Zero \in Hash /\ Parent[b] \in Hash
  BY TreeAssumption DEF Hash, NoChanges, Changes
<1> DEFINE u == StartTx(f)
<1>2. /\ u \in Store
      /\ u.db = f.db /\ u.fin = f.fin /\ u.anc = f.anc /\ u.cs = f.cs
      /\ u.parents = f.parents /\ u.tx = NoChanges
  BY <1>1 DEF StartTx, Store
<1> HIDE DEF u
<1>3. LET t == SetBlockHash(u, Zero, Parent[b]) IN
      /\ t \in Store
      /\ t.db = u.db /\ t.fin = u.fin /\ t.anc = u.anc
      /\ t.head = Zero /\ t.tx = u.tx
      /\ t.cs = [u.cs EXCEPT ![Zero] = NoChanges]
      /\ t.parents = [u.parents EXCEPT ![Zero] = Parent[b]]
  BY <1>1, <1>2 DEF Store, SetBlockHash
<1> QED BY <1>2, <1>3 DEF Temporary, SetTemporaryBlockHash, u

\* With the ancestry cut at the finalized block, bytes(32) can stay selected.
LEMMA TemporaryStep ==
    ASSUME NEW f, NEW sent, Intact(f, sent), NEW b \in Block,
           Parent[b] = f.fin, f.parents[f.fin] = None
    PROVE  Intact(Temporary(f, b), sent)
<1> DEFINE t == Temporary(f, b)
<1>1. /\ t \in Store /\ f \in Store
      /\ t.db = f.db /\ t.fin = f.fin /\ t.anc = f.anc /\ t.head = Zero
      /\ t.cs = [f.cs EXCEPT ![Zero] = NoChanges]
      /\ t.parents = [f.parents EXCEPT ![Zero] = Parent[b]]
  BY TemporaryFields DEF Intact
<1> HIDE DEF t
<1>2. /\ f.cs \in [Hash -> Changes \cup {Missing}]
      /\ f.parents \in [Hash -> Hash \cup {None, Missing}]
      /\ Block \subseteq Hash /\ Zero \in Hash /\ Zero \notin Block /\ f.fin \in Block
  BY <1>1, StoreFacts
<1>3. /\ t.cs[Zero] = NoChanges /\ t.parents[Zero] = f.fin
      /\ \A c \in Block : t.cs[c] = f.cs[c] /\ t.parents[c] = f.parents[c]
  BY <1>1, <1>2
<1>4. TemporaryHash(t)
  BY <1>1, <1>2, <1>3 DEF TemporaryHash
<1>5. HeadBranch(t, sent)
  BY <1>1, <1>2 DEF HeadBranch
<1> QED BY <1>1, <1>3, <1>4, <1>5, FewerOverlays DEF Intact, t

\* Sealing turns bytes(32) into the candidate.
Sealed(f, b) == UpdateTemporaryBlockHash(Temporary(f, b), b)
LEMMA SealSelects ==
    ASSUME NEW f \in Store, NEW b \in Block
    PROVE  /\ OnCandidate(f, Sealed(f, b), b, NoChanges)
           /\ Sealed(f, b).tx = NoChanges
<1> DEFINE t == Temporary(f, b)
           u == Sealed(f, b)
           C == [t.cs EXCEPT ![b] = t.cs[Zero], ![Zero] = Missing]
           P == [t.parents EXCEPT ![b] = t.parents[Zero], ![Zero] = Missing]
<1>1. /\ t \in Store
      /\ t.db = f.db /\ t.fin = f.fin /\ t.anc = f.anc
      /\ t.head = Zero /\ t.tx = NoChanges
      /\ t.cs = [f.cs EXCEPT ![Zero] = NoChanges]
      /\ t.parents = [f.parents EXCEPT ![Zero] = Parent[b]]
  BY TemporaryFields
<1> HIDE DEF t
<1>2. /\ f.cs \in [Hash -> Changes \cup {Missing}]
      /\ f.parents \in [Hash -> Hash \cup {None, Missing}]
      /\ t.cs \in [Hash -> Changes \cup {Missing}]
      /\ t.parents \in [Hash -> Hash \cup {None, Missing}]
      /\ Block \subseteq Hash /\ Zero \in Hash /\ Zero \notin Block
  BY <1>1, StoreFacts
<1>3. /\ t.cs[Zero] = NoChanges /\ t.parents[Zero] = Parent[b]
      /\ \A c \in Block : t.cs[c] = f.cs[c] /\ t.parents[c] = f.parents[c]
  BY <1>1, <1>2
<1>4. /\ C \in [Hash -> Changes \cup {Missing}]
      /\ C[b] = NoChanges /\ C[Zero] = Missing
      /\ \A c \in Block \ {b} : C[c] = f.cs[c]
  BY <1>2, <1>3
<1>5. /\ P \in [Hash -> Hash \cup {None, Missing}]
      /\ P[b] = Parent[b] /\ P[Zero] = Missing
      /\ \A c \in Block \ {b} : P[c] = f.parents[c]
  BY <1>2, <1>3
<1>6. u = [t EXCEPT !.parents = P, !.cs = C, !.head = b]
  BY DEF Sealed, UpdateTemporaryBlockHash, t
<1> HIDE DEF C, P, u
<1>7. /\ u \in Store
      /\ u.db = t.db /\ u.fin = t.fin /\ u.anc = t.anc /\ u.tx = t.tx
      /\ u.head = b /\ u.cs = C /\ u.parents = P
  BY <1>1, <1>2, <1>4, <1>5, <1>6 DEF Store
<1> QED BY <1>1, <1>4, <1>5, <1>7 DEF OnCandidate, u

\* A candidate on the finalized block reads the finalized state under its own
\* change set, and never in a circle.
LEMMA CandidateReads ==
    ASSUME NEW f, NEW sent, Intact(f, sent), NEW b \in Block, b # Genesis,
           Parent[b] = f.fin, NEW t, NEW changes, OnCandidate(f, t, b, changes)
    PROVE  /\ ~Cyclic(t, b)
           /\ changes = NoChanges => View(t, b) = Post[Parent[b]]
           /\ changes = Delta(b) => View(t, b) = Post[b]
<1> DEFINE p == Parent[b]
           L == Linked(t, p)
<1>1. /\ p \in Block /\ p \in Ancestry[b] /\ b \notin Ancestry[p] /\ p # b
      /\ Ancestry[p] \subseteq Block
  BY ParentIsOlder, SelfAncestor, AncestryAssumption
<1>2. /\ f \in Store /\ t \in Store /\ t.db = Post[p] /\ t.db \in State /\ t.fin = p
      /\ Zero \notin Block /\ Missing \notin Block /\ None \notin Hash
  BY StoreFacts DEF OnCandidate, Intact
<1>3. \A a \in Ancestry[p] : t.cs[a] = Missing
  BY <1>1, NothingBelowFinal DEF OnCandidate
<1>4. Linked(t, b) = {b} \cup L
  BY LinkedStep DEF OnCandidate
<1>5. L \in SUBSET Ancestry[p]
  BY DEF Linked
<1>6. View(t, b) = Overlaid(t, {b} \cup L)
  BY <1>4, ViewOfBlock
<1>7. \A k \in Key : Writers(t, L, k) = {}
  BY <1>3, <1>5 DEF Writers
<1>8. Overlaid(t, L) = Post[p]
  BY <1>2, <1>7, EmptyBranch
<1>9. changes = NoChanges => View(t, b) = Post[p]
  <2>1. changes = NoChanges => \A k \in Key : Writers(t, {b} \cup L, k) = {}
    BY <1>7 DEF Writers, OnCandidate, NoChanges
  <2> QED BY <1>2, <1>6, <2>1, EmptyBranch
<1>10. changes = Delta(b) => View(t, b) = Post[b]
  BY <1>5, <1>6, <1>8, OverlayStep DEF OnCandidate
<1>11. ~Cyclic(t, b)
  <2> SUFFICES ASSUME t.parents[Zero] \in Block PROVE ~ReachesZero(t, b)
    BY <1>2 DEF Cyclic
  <2>1. t.parents[Zero] = f.parents[Zero]
    BY <1>2 DEF OnCandidate
  <2>2. f.parents[p] = None
    BY <1>2, <2>1 DEF Intact, TemporaryHash
  <2>3. t.parents[p] = None /\ Parent[p] # None
    BY <1>1, <1>2, <2>2, TreeAssumption DEF OnCandidate
  <2> QED BY <1>1, <2>3 DEF ReachesZero
<1> QED BY <1>9, <1>10, <1>11

\* Executing a candidate on its parent's state stores its whole overlay, or
\* nothing if a transition function refuses it.
LEMMA ExecuteStep ==
    ASSUME NEW f, NEW sent, Intact(f, sent), NEW b \in Block, b # Genesis,
           Parent[b] = f.fin, NEW t, OnCandidate(f, t, b, NoChanges)
    PROVE  LET r == Execute(t, JamStateOf(Parent[b]), b) IN
           \/ /\ r.ok /\ Defect[b] = "none"
              /\ OnCandidate(f, r.store, b, Delta(b))
              /\ r.store.tx = NoChanges
              /\ r.working = JamStateOf(b)
           \/ /\ ~r.ok /\ Defect[b] # "none"
              /\ OnCandidate(f, r.store, b, NoChanges)
              /\ r.working = JamStateOf(Parent[b])
<1> DEFINE w == JamStateOf(Parent[b])
           r == Execute(t, w, b)
<1>1. t \in Store
  BY DEF OnCandidate
<1>2. /\ t.cs \in [Hash -> Changes \cup {Missing}] /\ Block \subseteq Hash
      /\ NoChanges \in Changes /\ Zero \in Hash /\ Zero \notin Block
  BY <1>1, StoreFacts
<1>3. CASE Defect[b] = "stf"
  <2>1. r = Result(FALSE, t, w)
    BY <1>3 DEF Execute
  <2> QED BY <1>3, <2>1 DEF Result
<1>4. CASE Defect[b] = "late"
  <2>1. r = Result(FALSE, Put(t, ServiceWrites(b)), w)
    BY <1>4 DEF Execute
  <2>2. ServiceWrites(b) \in Changes
    BY StateAssumption DEF ServiceWrites, Changes
  <2> DEFINE v == Put(t, ServiceWrites(b))
  <2>3. /\ v \in Store
        /\ v.db = t.db /\ v.fin = t.fin /\ v.anc = t.anc /\ v.head = t.head
        /\ v.cs = t.cs /\ v.parents = t.parents
    BY <1>1, <2>2 DEF Put, Store
  <2> HIDE DEF v
  <2>4. OnCandidate(f, v, b, NoChanges)
    BY <2>3 DEF OnCandidate
  <2> QED BY <1>4, <2>1, <2>4 DEF Result, v
<1>5. CASE Defect[b] = "none"
  <2> DEFINE v == Put(t, Delta(b))
             u == Commit(v)
  <2>1. Delta(b) \in Changes
    BY DeltaType
  <2>2. /\ v \in Store
        /\ v.db = t.db /\ v.fin = t.fin /\ v.anc = t.anc /\ v.head = b
        /\ v.tx = Delta(b) /\ v.cs = t.cs /\ v.parents = t.parents
    BY <1>1, <2>1 DEF Put, Store, OnCandidate
  <2> HIDE DEF v
  <2>3. /\ u \in Store
        /\ u.db = v.db /\ u.fin = v.fin /\ u.anc = v.anc /\ u.head = b
        /\ u.tx = NoChanges
        /\ u.cs = [v.cs EXCEPT ![b] = v.tx]
        /\ u.parents = v.parents
    BY <1>2, <2>1, <2>2 DEF Commit, Store
  <2>4. u = Commit(Put(t, Delta(b)))
    BY DEF v
  <2> HIDE DEF u
  <2>5. u.cs[b] = Delta(b) /\ \A c \in Hash \ {b} : u.cs[c] = t.cs[c]
    BY <1>2, <2>2, <2>3
  <2>6. OnCandidate(f, u, b, Delta(b))
    BY <1>2, <2>2, <2>3, <2>5 DEF OnCandidate
  <2>7. Readable(u) /\ View(u, b) = Post[b]
    BY <2>3, <2>6, CandidateReads DEF Readable, Pending
  <2>8. w.content = Components(Post[Parent[b]])
    BY DEF JamStateOf
  <2>9. r = Rooted(u, w, Components(Post[b]))
    BY <1>5, <2>4, <2>8, StoredIsDelta DEF Execute
  <2>10. r = Result(TRUE, u, [root |-> View(u, u.head), content |-> Components(Post[b])])
    BY <2>7, <2>9 DEF Rooted
  <2> QED BY <1>5, <2>3, <2>6, <2>7, <2>10 DEF Result, JamStateOf
<1> QED BY <1>3, <1>4, <1>5, StateAssumption

-----------------------------------------------------------------------------
(* Accepting and giving up a candidate.                                    *)

\* A published parent makes a block that was sent, or is not an own one,
\* published.
LEMMA PublishedChild ==
    ASSUME NEW sent, NEW b \in Block, b # Genesis
    PROVE  Published(sent, b) <=>
              Published(sent, Parent[b]) /\ (b \in OwnBlock => b \in sent)
  BY ParentIsOlder DEF Published

\* A whole overlay of a valid block extends the store.
LEMMA AcceptedStep ==
    ASSUME NEW f, NEW sent, Intact(f, sent), NEW b \in Block, Valid(b),
           Parent[b] = f.fin, Published(sent, Parent[b]),
           NEW u, OnCandidate(f, u, b, Delta(b)), NEW after,
           \/ after = sent /\ Published(sent, b)
           \/ after = sent \cup {b} /\ b \in OwnBlock \ sent
    PROVE  LET a == AddAncestor(u, b) IN
           /\ Intact(a, after) /\ a.fin = f.fin
           /\ Described(a, JamStateOf(b))
<1> DEFINE a == AddAncestor(u, b)
<1>1. b # Genesis /\ u \in Store /\ f \in Store
  BY DEF Valid, OnCandidate, Intact
<1>2. /\ Block \subseteq Hash /\ Zero \in Hash /\ Zero \notin Block /\ f.fin \in Block
      /\ Missing \notin Block /\ u.anc \subseteq Block /\ Parent[b] \in Hash
      /\ u.parents \in [Hash -> Hash \cup {None, Missing}]
  BY <1>1, StoreFacts, TreeAssumption
<1>3. /\ a \in Store
      /\ a.db = u.db /\ a.fin = u.fin /\ a.anc = u.anc \cup {b} /\ a.head = u.head
      /\ a.tx = u.tx /\ a.cs = u.cs /\ a.parents = [u.parents EXCEPT ![b] = Parent[b]]
  BY <1>1, <1>2 DEF AddAncestor, Store
<1> HIDE DEF a
<1>4. a.parents = u.parents
  BY <1>2, <1>3 DEF OnCandidate
<1>5. b \notin Ancestry[f.fin] /\ f.fin \in Ancestry[b] /\ f.fin # b
  BY <1>1, ParentIsOlder, SelfAncestor
<1>6. TemporaryHash(a)
  <2>1. a.parents[a.fin] = f.parents[f.fin] /\ a.fin = f.fin
    BY <1>2, <1>3, <1>4, <1>5 DEF OnCandidate
  <2>2. a.head # Zero
    BY <1>2, <1>3 DEF OnCandidate
  <2> QED BY <1>2, <1>3, <1>4, <2>1, <2>2 DEF OnCandidate, Intact, TemporaryHash
<1>7. Published(after, b) /\ \A c \in Block : Published(sent, c) => Published(after, c)
  BY <1>1, PublishedChild DEF Published
<1>8. Overlays(a, after)
  <2> SUFFICES ASSUME NEW c \in Block, a.cs[c] # Missing PROVE Overlay(a, after, c)
    BY DEF Overlays
  <2>1. CASE c = b
    BY <1>2, <1>3, <1>4, <1>5, <1>7, <2>1 DEF OnCandidate, Overlay
  <2>2. CASE c # b
    <3>1. a.cs[c] = f.cs[c] /\ a.parents[c] = f.parents[c] /\ a.fin = f.fin
          /\ (c \in f.anc => c \in a.anc)
      BY <1>3, <1>4, <2>2 DEF OnCandidate
    <3>2. Overlay(f, sent, c)
      BY <3>1 DEF Intact, Overlays
    <3>3. c # Genesis
      BY <1>2, <3>2, AncestryAssumption DEF Overlay
    <3>4. Parent[c] \in Block
      BY <3>3, TreeAssumption
    <3>5. Published(after, c) => Published(sent, c)
      BY <2>2, <3>2, <3>3, PublishedChild DEF Overlay
    <3> QED BY <1>7, <3>1, <3>2, <3>4, <3>5 DEF Overlay
  <2> QED BY <2>1, <2>2
<1>9. HeadBranch(a, after)
  <2>1. Published(after, a.fin) /\ a.fin \in Block /\ a.head = b /\ a.parents[b] = a.fin
        /\ a.fin = f.fin
    BY <1>2, <1>3, <1>4, <1>7 DEF OnCandidate
  <2> QED BY <1>1, <2>1, ShortHeadBranch
<1>10. a.db = Post[a.fin] /\ a.fin = f.fin /\ a.fin \in a.anc
  BY <1>3 DEF OnCandidate, Intact
<1>11. Intact(a, after)
  BY <1>3, <1>6, <1>8, <1>9, <1>10 DEF Intact
<1>12. View(a, b) = View(u, b)
  <2> DEFINE L == Linked(u, b)
  <2>1. Linked(a, b) = L
    BY <1>4 DEF Linked
  <2>2. \A k \in Key : Writers(a, L, k) = Writers(u, L, k)
    BY <1>3 DEF Writers
  <2> HIDE DEF L
  <2>3. Overlaid(a, L) = Overlaid(u, L)
    BY <1>3, <2>2 DEF Overlaid
  <2> QED BY <2>1, <2>3, ViewOfBlock DEF L
<1>13. View(u, b) = Post[b]
  BY <1>1, CandidateReads
<1>14. a.head = b
  BY <1>3 DEF OnCandidate
<1>15. Described(a, JamStateOf(b))
  BY <1>12, <1>13, <1>14 DEF Described, RetrieveJamState, JamStateOf
<1> QED BY <1>10, <1>11, <1>15 DEF a

\* An own block that fails after it was sealed leaves an empty change set, on
\* which nothing can be built.
LEMMA FailedAuthoringStep ==
    ASSUME NEW f, NEW sent, Intact(f, sent), NEW b \in OwnBlock \ sent, b # Genesis,
           Parent[b] = f.fin, Published(sent, Parent[b]),
           NEW t, OnCandidate(f, t, b, NoChanges)
    PROVE  Intact(t, sent) /\ t.fin = f.fin
<1>1. b \in Block /\ t \in Store /\ f \in Store
  BY NodeAssumption DEF OnCandidate, Intact
<1>2. /\ Zero \notin Block /\ f.fin \in Block /\ Missing \notin Block
  BY <1>1, StoreFacts
<1>3. f.fin \in Ancestry[b] /\ f.fin # b
  BY <1>1, ParentIsOlder, SelfAncestor
<1>4. TemporaryHash(t)
  BY <1>1, <1>2, <1>3 DEF OnCandidate, Intact, TemporaryHash
<1>5. ~Published(sent, b)
  BY <1>1, PublishedChild
<1>6. Overlays(t, sent)
  <2> SUFFICES ASSUME NEW c \in Block, t.cs[c] # Missing PROVE Overlay(t, sent, c)
    BY DEF Overlays
  <2>1. CASE c = b
    BY <1>3, <1>5, <2>1 DEF OnCandidate, Overlay
  <2>2. CASE c # b
    BY <2>2 DEF OnCandidate, Intact, Overlays, Overlay
  <2> QED BY <2>1, <2>2
<1>7. HeadBranch(t, sent)
  BY <1>1, <1>2, ShortHeadBranch DEF OnCandidate
<1> QED BY <1>1, <1>4, <1>6, <1>7 DEF Intact, OnCandidate

\* Rolling back on a candidate leaves it selected, without change set.
LEMMA DroppedStep ==
    ASSUME NEW f, NEW sent, Intact(f, sent), NEW b \in Block, b # Genesis,
           Parent[b] = f.fin, Published(sent, Parent[b]),
           NEW x, NEW changes, OnCandidate(f, x, b, changes)
    PROVE  Intact(Rollback(x), sent) /\ Rollback(x).fin = f.fin
<1> DEFINE u == Rollback(x)
<1>1. x \in Store /\ f \in Store
  BY DEF OnCandidate, Intact
<1>2. /\ u \in Store
      /\ u.db = x.db /\ u.fin = x.fin /\ u.head = x.head /\ u.anc = x.anc
      /\ u.parents = x.parents
      /\ \A h \in Hash : u.cs[h] = IF h = x.head THEN Missing ELSE x.cs[h]
  BY <1>1, RollbackFields
<1> HIDE DEF u
<1>3. /\ Zero \notin Block /\ f.fin \in Block /\ Missing \notin Block
      /\ Block \subseteq Hash /\ Zero \in Hash
  BY <1>1, StoreFacts
<1>4. f.fin # b
  BY ParentIsOlder, SelfAncestor
<1>5. TemporaryHash(u)
  BY <1>2, <1>3, <1>4 DEF OnCandidate, Intact, TemporaryHash
<1>6. HeadBranch(u, sent)
  BY <1>2, <1>3, ShortHeadBranch DEF OnCandidate
<1>7. \A c \in Block : u.cs[c] # Missing =>
         /\ u.cs[c] = f.cs[c] /\ u.parents[c] = f.parents[c]
         /\ c \in f.anc => c \in u.anc
  BY <1>2, <1>3 DEF OnCandidate
<1>8. u.db = f.db /\ u.fin = f.fin /\ f.fin \in u.anc
  BY <1>2 DEF OnCandidate, Intact
<1> QED BY <1>2, <1>5, <1>6, <1>7, <1>8, FewerOverlays DEF u

\* Discarding a candidate selects what was selected before, unless the
\* candidate was part of that branch.
LEMMA DiscardStep ==
    ASSUME NEW f, NEW sent, Intact(f, sent), NEW b \in Block, b # Genesis,
           Parent[b] = f.fin, Published(sent, Parent[b]),
           f.head \in Block /\ f.head # b => b \notin Unfinalized(f, f.head),
           NEW x, NEW changes, OnCandidate(f, x, b, changes),
           NEW h, h = RestoreHash(f, b), CanDiscardCandidate(x, b, h)
    PROVE  Intact(DiscardCandidate(x, b, h), sent) /\ DiscardCandidate(x, b, h).fin = f.fin
<1> DEFINE u == DiscardCandidate(x, b, h)
<1>1. x \in Store /\ f \in Store
  BY DEF OnCandidate, Intact
<1>2. /\ Zero \notin Block /\ f.fin \in Block /\ Missing \notin Hash /\ None \notin Hash
      /\ Block \subseteq Hash /\ Zero \in Hash /\ NoChanges \in Changes
      /\ x.cs \in [Hash -> Changes \cup {Missing}] /\ x.anc \subseteq Block
      /\ x.parents \in [Hash -> Hash \cup {None, Missing}]
      /\ f.head \in Hash \cup {None}
  BY <1>1, StoreFacts
<1>3. /\ h \in {f.head, f.fin, None}
      /\ h = f.head => f.head # b
  <2>1. h = CASE f.head # b -> f.head
             [] f.head = b /\ HasStateAt(f, Parent[b]) -> Parent[b]
             [] OTHER -> None
    BY DEF RestoreHash
  <2>2. HasStateAt(f, Parent[b])
    BY DEF HasStateAt
  <2>3. f.fin # b
    BY ParentIsOlder, SelfAncestor
  <2>4. CASE f.head # b
    BY <2>1, <2>4
  <2>5. CASE f.head = b
    <3>1. h = Parent[b]
      BY <2>1, <2>2, <2>5
    <3> QED BY <2>3, <2>5, <3>1
  <2> QED BY <2>4, <2>5
<1>4. h \in Hash \cup {None}
  BY <1>2, <1>3
<1>5. /\ u \in Store
      /\ u.db = x.db /\ u.fin = x.fin /\ u.head = h /\ u.anc = x.anc \ {b}
      /\ u.parents = [x.parents EXCEPT ![b] = Missing]
      /\ u.cs = [x.cs EXCEPT ![b] = Missing]
  BY <1>1, <1>2, <1>4 DEF DiscardCandidate, Store
<1> HIDE DEF u
<1>6. /\ u.cs[b] = Missing
      /\ \A c \in Hash \ {b} : u.cs[c] = x.cs[c] /\ u.parents[c] = x.parents[c]
  BY <1>2, <1>5
<1>7. f.fin # b
  BY ParentIsOlder, SelfAncestor
<1>8. h = None \/ h = f.fin \/ x.cs[h] # Missing
  BY DEF CanDiscardCandidate, HasStateAt, Retained, OnCandidate
<1>9. /\ u.cs[Zero] = x.cs[Zero] /\ u.parents[Zero] = x.parents[Zero]
      /\ u.parents[f.fin] = f.parents[f.fin] /\ u.fin = f.fin /\ u.db = f.db
  BY <1>2, <1>5, <1>6, <1>7 DEF OnCandidate
<1>10. u.head = Zero => f.head = Zero /\ u.parents[Zero] = f.parents[Zero]
  BY <1>2, <1>3, <1>5, <1>8, <1>9 DEF OnCandidate
<1>11. TemporaryHash(u)
  BY <1>2, <1>9, <1>10 DEF OnCandidate, Intact, TemporaryHash
<1>12. \A c \in Block : u.cs[c] # Missing =>
         /\ u.cs[c] = f.cs[c] /\ u.parents[c] = f.parents[c]
         /\ c \in f.anc => c \in u.anc
  BY <1>2, <1>5, <1>6 DEF OnCandidate
<1>13. HeadBranch(u, sent)
  <2>1. CASE h = None
    BY <1>2, <1>5, <2>1 DEF HeadBranch
  <2>2. CASE h = f.fin
    BY <1>2, <1>5, <1>9, <2>2, ShortHeadBranch
  <2>3. CASE h = f.head /\ f.head # b
    <3>1. HeadBranch(f, sent)
      BY DEF Intact
    <3>2. f.head \in Block => \A c \in Unfinalized(f, f.head) : c \in Block /\ c # b
      BY <2>3, AncestryAssumption DEF Unfinalized
    <3>3. f.head \in Block => \A c \in Unfinalized(f, f.head) :
             u.parents[c] = f.parents[c] /\ u.cs[c] = f.cs[c]
      BY <1>2, <1>6, <3>2 DEF OnCandidate
    <3> QED BY <1>5, <1>9, <2>3, <3>1, <3>3, SameHeadBranch
  <2> QED BY <1>3, <2>1, <2>2, <2>3
<1>14. f.fin \in u.anc
  BY <1>5, <1>7 DEF OnCandidate, Intact
<1> QED BY <1>5, <1>9, <1>11, <1>12, <1>13, <1>14, FewerOverlays DEF u

-----------------------------------------------------------------------------
(* The import worker.                                                      *)

\* What a handler may leave: an accepted block in an intact store, or a store
\* that is intact once it is rolled back.
Settled(r, f, sent) ==
    /\ r.ok \in BOOLEAN
    /\ \E c \in Block : r.working = JamStateOf(c)
    /\ r.ok => /\ Intact(r.store, sent) /\ r.store.fin = f.fin
               /\ Described(r.store, r.working)
    /\ ~r.ok => Intact(Rollback(r.store), sent) /\ Rollback(r.store).fin = f.fin

\* The except clause of _import_block on a candidate that is not part of the
\* branch selected before.
LEMMA RecoverStep ==
    ASSUME NEW f, NEW sent, Intact(f, sent), NEW b \in Block, b # Genesis,
           Parent[b] = f.fin, Published(sent, Parent[b]),
           f.head \in Block /\ f.head # b => b \notin Unfinalized(f, f.head),
           NEW q, q.ok = FALSE, \E c \in Block : q.working = JamStateOf(c),
           NEW changes, OnCandidate(f, q.store, b, changes)
    PROVE  Settled(Recover(q, b, RestoreHash(f, b)), f, sent)
<1> DEFINE h == RestoreHash(f, b)
           back == DiscardCandidate(q.store, b, h)
           r == Recover(q, b, h)
<1>1. q.store.head = b
  BY DEF OnCandidate
<1>2. CASE CanDiscardCandidate(q.store, b, h)
  <2>1. Intact(back, sent) /\ back.fin = f.fin
    <3> HIDE DEF h
    <3> QED BY <1>2, DiscardStep DEF h
  <2>2. r = Result(FALSE, back, Refreshed(back, q.working))
    BY <1>1, <1>2 DEF Recover, Reloaded
  <2> HIDE DEF back, r
  <2>3. Described(back, Refreshed(back, q.working))
    BY <2>1, Reloading
  <2>4. Intact(Rollback(back), sent) /\ Rollback(back).fin = f.fin
    BY <2>1, RollbackStep, RollbackFields DEF Intact
  <2>5. r.ok = FALSE /\ r.store = back /\ r.working = Refreshed(back, q.working)
    BY <2>2 DEF Result
  <2> QED BY <2>3, <2>4, <2>5 DEF Settled, Described, r
<1>3. CASE ~CanDiscardCandidate(q.store, b, h)
  <2>1. r = q
    BY <1>1, <1>3 DEF Recover
  <2>2. Intact(Rollback(q.store), sent) /\ Rollback(q.store).fin = f.fin
    BY DroppedStep
  <2> QED BY <2>1, <2>2 DEF Settled
<1> QED BY <1>2, <1>3

\* The working state that a candidate on the finalized block is checked and
\* executed with is its parent's.
LEMMA ParentStateIsUsed ==
    ASSUME NEW f, NEW sent, Intact(f, sent), RootsNameBlocks,
           NEW b \in Block, b # Genesis, Parent[b] = f.fin,
           NEW t, OnCandidate(f, t, b, NoChanges), t.tx = NoChanges,
           NEW w, \E c \in Block : w = JamStateOf(c)
    PROVE  Initialized(t, w, b) = JamStateOf(Parent[b])
<1>1. t.head = b /\ ~Cyclic(t, b) /\ View(t, b) = Post[Parent[b]]
  BY CandidateReads DEF OnCandidate
<1>2. CASE PriorRoot[b] # w.root
  <2>1. Readable(t)
    BY <1>1 DEF Readable, Pending
  <2> QED BY <1>1, <1>2, <2>1 DEF Initialized, Refreshed, RetrieveJamState, JamStateOf
<1>3. CASE PriorRoot[b] = w.root
  <2>1. PICK c \in Block : w = JamStateOf(c)
    OBVIOUS
  <2>2. w.root = Post[c]
    BY <2>1 DEF JamStateOf
  <2>3. c = Parent[b]
    BY <1>3, <2>2 DEF RootsNameBlocks
  <2> QED BY <1>3, <2>1, <2>3 DEF Initialized
<1> QED BY <1>2, <1>3

\* state_transition of an import whose parent is the finalized block: the whole
\* overlay of a valid block, or an error before or after it was selected.
LEMMA TransitionStep ==
    ASSUME NEW f, NEW sent, Intact(f, sent), RootsNameBlocks,
           NEW b \in Block, b # Genesis, Parent[b] = f.fin,
           NEW sound \in BOOLEAN, NEW w, \E c \in Block : w = JamStateOf(c)
    PROVE  LET q == StateTransition(f, w, b, sound) IN
           \/ /\ q.ok = TRUE /\ Valid(b)
              /\ OnCandidate(f, q.store, b, Delta(b))
              /\ q.store.tx = NoChanges
              /\ q.working = JamStateOf(b)
           \/ q.ok = FALSE /\ q.store = f /\ q.working = w
           \/ /\ q.ok = FALSE /\ ~Valid(b)
              /\ OnCandidate(f, q.store, b, NoChanges)
              /\ q.working = JamStateOf(Parent[b])
<1> DEFINE p == Parent[b]
           t == Selected(f, b)
           q == StateTransition(f, w, b, sound)
<1>1. f \in Store /\ p \in Block
  BY ParentIsOlder DEF Intact
<1>2. CASE Refused(f, b, sound)
  BY <1>2 DEF StateTransition, Result
<1>3. CASE ~Refused(f, b, sound)
  <2>1. Slot[b] > Slot[p]
    <3>1. Slot[b] \in Nat /\ Slot[p] \in Nat
      BY <1>1, TreeAssumption
    <3> QED BY <1>3, <3>1 DEF Refused
  <2>2. CanSetBlockHash(StartTx(f), p)
    <3>1. StartTx(f).tx = NoChanges /\ StartTx(f).fin = f.fin
      BY <1>1 DEF StartTx, Store
    <3> QED BY <3>1 DEF CanSetBlockHash, Pending
  <2>3. OnCandidate(f, t, b, NoChanges) /\ t.tx = NoChanges
    BY <1>1, ImportSelects
  <2>4. Initialized(t, w, b) = JamStateOf(p)
    <3> HIDE DEF t
    <3> QED BY <2>3, ParentStateIsUsed
  <2>5. q = Checked(t, JamStateOf(p), b)
    BY <1>3, <2>2, <2>4 DEF StateTransition, Selected
  <2>6. JamStateOf(p).root = Post[p]
    BY DEF JamStateOf
  <2> HIDE DEF t, q
  <2>7. CASE PriorRoot[b] # Post[p]
    <3>1. q = Result(FALSE, t, JamStateOf(p))
      BY <2>5, <2>6, <2>7 DEF Checked
    <3>2. q.ok = FALSE /\ q.store = t /\ q.working = JamStateOf(p)
      BY <3>1 DEF Result
    <3>3. ~Valid(b)
      BY <2>7 DEF Valid
    <3> QED BY <2>3, <3>2, <3>3 DEF q
  <2>8. CASE PriorRoot[b] = Post[p]
    <3>1. q = Execute(t, JamStateOf(p), b)
      BY <2>5, <2>6, <2>8 DEF Checked
    <3>2. \/ /\ q.ok /\ Defect[b] = "none"
             /\ OnCandidate(f, q.store, b, Delta(b))
             /\ q.store.tx = NoChanges
             /\ q.working = JamStateOf(b)
          \/ /\ ~q.ok /\ Defect[b] # "none"
             /\ OnCandidate(f, q.store, b, NoChanges)
             /\ q.working = JamStateOf(p)
      BY <2>3, <3>1, ExecuteStep
    <3>3. q.ok \in BOOLEAN
      BY <3>1 DEF Execute, Rooted, Result
    <3>4. Valid(b) <=> Defect[b] = "none"
      BY <2>1, <2>8 DEF Valid
    <3> QED BY <3>2, <3>3, <3>4 DEF q
  <2> QED BY <2>7, <2>8
<1> QED BY <1>2, <1>3

\* _import_block on an intact store whose finalized block is the parent.
LEMMA ImportStep ==
    ASSUME NEW f, NEW sent, Intact(f, sent), RootsNameBlocks,
           NEW b \in Block, b # Genesis, Parent[b] = f.fin, Published(sent, b),
           NEW sound \in BOOLEAN, NEW w, \E c \in Block : w = JamStateOf(c)
    PROVE  Settled(ImportBlock(f, w, b, sound), f, sent)
<1> DEFINE p == Parent[b]
           q == StateTransition(f, w, b, sound)
           r == ImportBlock(f, w, b, sound)
<1> SUFFICES Settled(r, f, sent)
  OBVIOUS
<1>1. f \in Store /\ p \in Block /\ Published(sent, p)
  BY PublishedChild, ParentIsOlder DEF Intact
<1>2. ~q.ok => r = Recover(q, b, RestoreHash(f, b))
  BY DEF ImportBlock, Concluded
<1>3. q.ok => r = Result(TRUE, AddAncestor(q.store, b), q.working)
  BY DEF ImportBlock, Concluded
<1>4. ASSUME f.head \in Block, f.head # b, b \in Unfinalized(f, f.head)
      PROVE  Valid(b)
  BY <1>4 DEF Intact, HeadBranch, Overlays, Overlay
<1>5. \/ /\ q.ok = TRUE /\ Valid(b)
         /\ OnCandidate(f, q.store, b, Delta(b))
         /\ q.store.tx = NoChanges
         /\ q.working = JamStateOf(b)
      \/ q.ok = FALSE /\ q.store = f /\ q.working = w
      \/ /\ q.ok = FALSE /\ ~Valid(b)
         /\ OnCandidate(f, q.store, b, NoChanges)
         /\ q.working = JamStateOf(p)
  BY TransitionStep
<1> HIDE DEF q, r
<1>6. CASE q.ok = FALSE /\ q.store = f /\ q.working = w
  <2>1. CASE f.head # b
    <3>1. r = Result(FALSE, f, Refreshed(f, w))
      BY <1>2, <1>6, <2>1 DEF Recover, Reloaded
    <3>2. Described(f, Refreshed(f, w))
      BY Reloading
    <3>3. Intact(Rollback(f), sent) /\ Rollback(f).fin = f.fin
      BY <1>1, RollbackStep, RollbackFields
    <3> QED BY <3>1, <3>2, <3>3 DEF Settled, Described, Result
  <2>2. CASE f.head = b
    <3>1. f.parents[b] = Parent[b]
      <4>1. b \notin Ancestry[f.fin] /\ b \in Ancestry[b]
        BY ParentIsOlder, SelfAncestor
      <4> QED BY <2>2, <4>1 DEF Intact, HeadBranch, Linked
    <3>2. OnCandidate(f, f, b, f.cs[b])
      BY <1>1, <2>2, <3>1 DEF OnCandidate
    <3> QED BY <1>1, <1>2, <1>6, <2>2, <3>2, RecoverStep
  <2> QED BY <2>1, <2>2
<1>7. CASE q.ok = FALSE /\ ~Valid(b) /\ OnCandidate(f, q.store, b, NoChanges)
           /\ q.working = JamStateOf(p)
  BY <1>1, <1>2, <1>4, <1>7, RecoverStep
<1>8. CASE q.ok = TRUE /\ Valid(b) /\ OnCandidate(f, q.store, b, Delta(b))
           /\ q.working = JamStateOf(b)
  <2>1. /\ Intact(AddAncestor(q.store, b), sent)
        /\ AddAncestor(q.store, b).fin = f.fin
        /\ Described(AddAncestor(q.store, b), JamStateOf(b))
    BY <1>1, <1>8, AcceptedStep
  <2>2. /\ r.ok = TRUE /\ r.store = AddAncestor(q.store, b)
        /\ r.working = JamStateOf(b)
    BY <1>3, <1>8 DEF Result
  <2> QED BY <2>1, <2>2 DEF Settled
<1> QED BY <1>5, <1>6, <1>7, <1>8

\* The result of a handler is well-formed: the store is as the invariant says,
\* the finalized block is published and the cache describes the head.
Sound(r, sent) ==
    /\ r.ok \in BOOLEAN
    /\ Intact(r.store, sent) \/ Torn(r.store)
    /\ Published(sent, r.store.fin)
    /\ Described(r.store, r.working)

\* The except clause of import_block_cli.
LEMMA RollBackStep ==
    ASSUME NEW f, NEW sent, Published(sent, f.fin), NEW r, Settled(r, f, sent)
    PROVE  Sound(RollBack(r), sent) /\ (RollBack(r).ok <=> r.ok)
<1>1. CASE r.ok
  BY <1>1 DEF Settled, Sound, RollBack
<1>2. CASE ~r.ok
  <2> DEFINE u == Rollback(r.store)
  <2>1. Intact(u, sent) /\ u.fin = f.fin
    BY <1>2 DEF Settled
  <2>2. RollBack(r) = Result(FALSE, u, Refreshed(u, r.working))
    BY <1>2 DEF RollBack, Reloaded
  <2> HIDE DEF u
  <2>3. Described(u, Refreshed(u, r.working))
    BY <2>1, Reloading DEF Settled
  <2> QED BY <1>2, <2>1, <2>2, <2>3 DEF Sound, Result
<1> QED BY <1>1, <1>2

\* import_block_cli on an intact store.
LEMMA CliStep ==
    ASSUME NEW s, NEW sent, Intact(s, sent), RootsNameBlocks, Published(sent, s.fin),
           NEW b \in Block, b # Genesis, Published(sent, b),
           NEW sound \in BOOLEAN, NEW w, Described(s, w)
    PROVE  Sound(CliImportBlock(s, w, b, sound), sent)
<1> DEFINE p == Parent[b]
           f == Finalize(s, p)
<1>1. p \in Block /\ Published(sent, p) /\ s \in Store
  BY PublishedChild, ParentIsOlder DEF Intact
<1>2. \E c \in Block : w = JamStateOf(c)
  BY DEF Described
<1>3. CASE ~CanFinalize(s, p) /\ p # s.fin
  <2> DEFINE q == Result(FALSE, s, w)
  <2>1. CliImportBlock(s, w, b, sound) = RollBack(q)
    BY <1>3 DEF CliImportBlock
  <2>2. q.ok = FALSE /\ q.store = s /\ q.working = w
    BY DEF Result
  <2> HIDE DEF q
  <2>3. Intact(Rollback(s), sent) /\ Rollback(s).fin = s.fin
    BY <1>1, RollbackStep, RollbackFields
  <2>4. Settled(q, s, sent)
    BY <1>2, <2>2, <2>3 DEF Settled
  <2> QED BY <2>1, <2>4, RollBackStep
<1>4. CASE CanFinalize(s, p) \/ p = s.fin
  <2> DEFINE q == ImportBlock(f, w, b, sound)
  <2>1. CliImportBlock(s, w, b, sound) = RollBack(q)
    BY <1>4 DEF CliImportBlock
  <2>2. Intact(f, sent) /\ f.fin = p
    BY <1>1, <1>4, FinalizeStep
  <2> HIDE DEF f
  <2>3. Settled(q, f, sent)
    BY <1>2, <2>2, ImportStep
  <2> HIDE DEF q
  <2> QED BY <1>1, <2>1, <2>2, <2>3, RollBackStep
<1> QED BY <1>3, <1>4

-----------------------------------------------------------------------------
(* A torn store.                                                           *)

\* Two stores with the same fields are the same.
LEMMA SameStore ==
    ASSUME NEW s \in Store, NEW u \in Store,
           u.db = s.db, u.fin = s.fin, u.head = s.head, u.anc = s.anc, u.tx = s.tx,
           \A h \in Hash : u.cs[h] = s.cs[h],
           \A h \in Hash : u.parents[h] = s.parents[h]
    PROVE  u = s
<1>1. u.cs = s.cs
  BY StoreFacts
<1>2. u.parents = s.parents
  BY StoreFacts
<1> QED BY <1>1, <1>2 DEF Store

\* Nothing can be finalized in a torn store, and its state is not that of the
\* recorded block.
LEMMA TornFacts ==
    ASSUME NEW s, Torn(s)
    PROVE  /\ s \in Store /\ s.head = None /\ s.tx = NoChanges /\ s.fin \in Block
           /\ \A h \in Hash : s.cs[h] = Missing
           /\ s.anc = Ancestry[s.fin]
           /\ \A h \in Hash : s.parents[h] =
                 IF h \in Ancestry[s.fin] THEN Parent[h] ELSE Missing
           /\ Readable(s) /\ View(s, s.head) = s.db
           /\ \A p \in Block : CanFinalize(s, p) => p = s.fin
<1>1. s \in Store /\ s = Opened(s.db, s.fin) /\ s.fin \in Block /\ s.db \in State
  BY StoreFacts DEF Torn
<1>2. /\ s.head = None /\ s.tx = NoChanges
      /\ s.anc = Ancestry[s.fin]
      /\ \A h \in Hash : s.cs[h] = Missing
      /\ \A h \in Hash : s.parents[h] =
            IF h \in Ancestry[s.fin] THEN Parent[h] ELSE Missing
      /\ Readable(s) /\ View(s, s.head) = s.db
  BY <1>1, OpenedFacts
<1>3. ASSUME NEW p \in Block, CanFinalize(s, p) PROVE p = s.fin
  <2>1. CASE OnFinalizedBranch(s, p)
    <3>1. Unfinalized(s, p) = {} /\ s.fin \in Ancestry[p]
      BY <1>2, <2>1 DEF OnFinalizedBranch, Retained, Linked
    <3>2. p \in Ancestry[s.fin]
      BY <3>1, SelfAncestor DEF Unfinalized
    <3> QED BY <1>1, <3>1, <3>2, AncestryAntisymmetric
  <2> QED BY <1>3, <2>1 DEF CanFinalize
<1> QED BY <1>1, <1>2, <1>3

\* Rolling back a torn store changes nothing.
LEMMA TornRollback ==
    ASSUME NEW s, Torn(s)
    PROVE  Rollback(s) = s
<1>1. /\ s \in Store /\ s.head = None /\ s.tx = NoChanges
  BY TornFacts
<1>2. None \notin Hash
  BY <1>1, StoreFacts
<1>3. LET u == Rollback(s) IN
      /\ u \in Store
      /\ u.db = s.db /\ u.fin = s.fin /\ u.head = s.head /\ u.anc = s.anc
      /\ u.parents = s.parents /\ u.tx = NoChanges
      /\ \A h \in Hash : u.cs[h] = IF h = s.head THEN Missing ELSE s.cs[h]
  BY <1>1, RollbackFields
<1> DEFINE u == Rollback(s)
<1> HIDE DEF u
<1>4. /\ u \in Store /\ u.db = s.db /\ u.fin = s.fin /\ u.head = s.head
      /\ u.anc = s.anc /\ u.tx = s.tx
      /\ \A h \in Hash : u.cs[h] = s.cs[h]
      /\ \A h \in Hash : u.parents[h] = s.parents[h]
  BY <1>1, <1>2, <1>3 DEF u
<1> QED BY <1>1, <1>4, SameStore DEF u

\* A handler failed and left the store alone.
Unmoved(r, s) == r.ok = FALSE /\ r.store = s

\* A candidate on a torn store fails the root check, and discarding it leaves
\* the store as it was opened.
LEMMA TornImport ==
    ASSUME NEW s, Torn(s), RootsNameBlocks, NEW b \in Block, b # Genesis,
           Parent[b] = s.fin, NEW sound \in BOOLEAN, NEW w, Described(s, w)
    PROVE  Unmoved(ImportBlock(s, w, b, sound), s)
<1> DEFINE p == Parent[b]
           t == Selected(s, b)
           q == StateTransition(s, w, b, sound)
           r == ImportBlock(s, w, b, sound)
           back == DiscardCandidate(t, b, None)
<1>1. /\ s \in Store /\ s.head = None /\ s.tx = NoChanges /\ s.fin \in Block
      /\ \A h \in Hash : s.cs[h] = Missing
      /\ s.anc = Ancestry[p]
      /\ \A h \in Hash : s.parents[h] = IF h \in Ancestry[p] THEN Parent[h] ELSE Missing
      /\ Readable(s) /\ View(s, s.head) = s.db
  BY TornFacts
<1>2. /\ None \notin Hash /\ Block \subseteq Hash /\ Missing \notin Hash /\ Zero \in Hash
      /\ Zero \notin Block /\ s.db \in State
      /\ s.cs \in [Hash -> Changes \cup {Missing}]
      /\ s.parents \in [Hash -> Hash \cup {None, Missing}]
  BY <1>1, StoreFacts
<1>3. b \notin Ancestry[p] /\ b # s.fin /\ p \in Block
  BY ParentIsOlder, SelfAncestor
<1>4. /\ w = RetrieveJamState(s)
      /\ Refreshed(s, w) = w /\ \A x : Refreshed(s, x) = w
  BY <1>1 DEF Refreshed, Described
<1>5. RestoreHash(s, b) = None
  BY <1>1, <1>2 DEF RestoreHash
<1>6. CASE Refused(s, b, sound)
  <2>1. q = Result(FALSE, s, w)
    BY <1>6 DEF StateTransition
  <2>2. r = Result(FALSE, s, w)
    BY <1>1, <1>2, <1>4, <2>1 DEF ImportBlock, Concluded, Recover, Reloaded, Result
  <2> QED BY <2>2 DEF Result, Unmoved
<1>7. CASE ~Refused(s, b, sound)
  <2>1. CanSetBlockHash(StartTx(s), p)
    <3>1. StartTx(s).tx = NoChanges /\ StartTx(s).fin = s.fin
      BY <1>1 DEF StartTx, Store
    <3> QED BY <3>1 DEF CanSetBlockHash, Pending
  <2>2. /\ t \in Store
        /\ t.db = s.db /\ t.fin = s.fin /\ t.anc = s.anc
        /\ t.head = b /\ t.tx = NoChanges
        /\ t.cs = [s.cs EXCEPT ![b] = NoChanges]
        /\ t.parents = [s.parents EXCEPT ![b] = p]
    BY <1>1, SelectedFields
  <2>3. View(t, b) = s.db
    <3>1. View(t, b) = View(s, p)
      BY <1>1, SelectedView
    <3>2. View(s, p) = Overlaid(s, Linked(s, p))
      BY <1>3, ViewOfBlock
    <3>3. Linked(s, p) \subseteq Hash
      BY <1>2, <1>3, AncestryAssumption DEF Linked
    <3>4. \A k \in Key : Writers(s, Linked(s, p), k) = {}
      BY <1>1, <3>3 DEF Writers
    <3> QED BY <1>2, <3>1, <3>2, <3>4, EmptyBranch
  <2>4. Readable(t)
    <3>1. t.parents[Zero] = Missing
      BY <1>1, <1>2, <1>3, <2>2, AncestryAssumption
    <3> HIDE DEF t
    <3> QED BY <1>2, <2>2, <3>1 DEF Readable, Pending, Cyclic
  <2> DEFINE c == Initialized(t, w, b)
  <2>5. c.root = s.db
    <3>1. w.root = s.db
      BY <1>1, <1>4 DEF RetrieveJamState
    <3>2. RetrieveJamState(t).root = s.db
      BY <2>2, <2>3 DEF RetrieveJamState
    <3> QED BY <2>4, <3>1, <3>2 DEF Initialized, Refreshed
  <2>6. PriorRoot[b] # s.db
    BY <1>3 DEF RootsNameBlocks, Torn
  <2>7. q = Result(FALSE, t, c)
    BY <1>7, <2>1, <2>5, <2>6 DEF StateTransition, Selected, Checked
  <2>8. CanDiscardCandidate(t, b, None)
    BY <1>3, <2>2 DEF CanDiscardCandidate
  <2>9. q.ok = FALSE /\ q.store = t /\ q.working = c
    BY <2>7 DEF Result
  <2>10. back = s
    <3> HIDE DEF t
    <3>1. /\ back \in Store
          /\ back.db = t.db /\ back.fin = t.fin /\ back.head = None
          /\ back.anc = t.anc \ {b} /\ back.tx = NoChanges
          /\ back.parents = [t.parents EXCEPT ![b] = Missing]
          /\ back.cs = [t.cs EXCEPT ![b] = Missing]
      <4>1. NoChanges \in Changes /\ t.anc \subseteq Block
            /\ t.cs \in [Hash -> Changes \cup {Missing}]
            /\ t.parents \in [Hash -> Hash \cup {None, Missing}]
        BY <2>2, StoreFacts
      <4> QED BY <1>2, <2>2, <4>1 DEF DiscardCandidate, Store
    <3> HIDE DEF back
    <3>2. /\ \A h \in Hash : back.cs[h] = s.cs[h]
          /\ \A h \in Hash : back.parents[h] = s.parents[h]
          /\ back.anc = s.anc
      BY <1>1, <1>2, <1>3, <2>2, <3>1
    <3> QED BY <1>1, <2>2, <3>1, <3>2, SameStore
  <2>11. r = Recover(q, b, None)
    BY <1>5, <2>9 DEF ImportBlock, Concluded
  <2> HIDE DEF q, r, t, c
  <2>12. r = Result(FALSE, back, Refreshed(back, c))
    BY <2>2, <2>8, <2>9, <2>11 DEF Recover, Reloaded
  <2> HIDE DEF back
  <2>13. r = Result(FALSE, s, w)
    BY <1>4, <2>10, <2>12
  <2>14. r.ok = FALSE /\ r.store = s /\ r.working = w
    BY <2>13 DEF Result
  <2> QED BY <2>14 DEF r, Unmoved
<1> QED BY <1>6, <1>7

\* import_block_cli rejects every block on a torn store.
LEMMA TornCliStep ==
    ASSUME NEW s, Torn(s), RootsNameBlocks, NEW sent, Published(sent, s.fin),
           NEW b \in Block, b # Genesis, NEW sound \in BOOLEAN,
           NEW w, Described(s, w)
    PROVE  LET r == CliImportBlock(s, w, b, sound) IN Sound(r, sent) /\ Unmoved(r, s)
<1> DEFINE p == Parent[b]
           r == CliImportBlock(s, w, b, sound)
<1>1. w = RetrieveJamState(s) /\ \A x : Refreshed(s, x) = w
  BY TornFacts DEF Described, Refreshed
<1>2. p \in Block
  BY TreeAssumption
<1>3. ASSUME NEW q, Unmoved(q, s), r = RollBack(q)
      PROVE  Sound(r, sent) /\ Unmoved(r, s)
  <2>1. r = Result(FALSE, s, w)
    BY <1>1, <1>3, TornRollback DEF RollBack, Reloaded, Unmoved
  <2>2. r.ok = FALSE /\ r.store = s /\ r.working = w
    BY <2>1 DEF Result
  <2> QED BY <2>2 DEF Sound, Unmoved
<1>4. CASE p # s.fin
  <2>1. ~CanFinalize(s, p)
    BY <1>2, <1>4, TornFacts
  <2> DEFINE q == Result(FALSE, s, w)
  <2>2. r = RollBack(q)
    BY <1>4, <2>1 DEF CliImportBlock
  <2>3. Unmoved(q, s)
    BY DEF Result, Unmoved
  <2> HIDE DEF q
  <2> QED BY <1>3, <2>2, <2>3
<1>5. CASE p = s.fin
  <2> DEFINE q == ImportBlock(s, w, b, sound)
  <2>1. r = RollBack(q)
    BY <1>5 DEF CliImportBlock, Finalize
  <2>2. Unmoved(q, s)
    BY <1>5, TornImport
  <2> HIDE DEF q
  <2> QED BY <1>3, <2>1, <2>2
<1> QED BY <1>4, <1>5

-----------------------------------------------------------------------------
(* The timeslot worker.                                                    *)

\* What authoring b may leave: the block on the store, and published once it
\* is sent, or a store on which nothing hangs on b.
Produced(r, p, sent, b) ==
    /\ r.ok \in BOOLEAN
    /\ \E c \in Block : r.working = JamStateOf(c)
    /\ r.store.fin = p
    /\ r.ok => Intact(r.store, sent \cup {b}) /\ Described(r.store, r.working)
    /\ ~r.ok => Intact(r.store, sent)

\* state_transition(produce=True) on a store whose finalized block is the
\* parent, with the parent's state in the cache.
LEMMA AuthorStep ==
    ASSUME NEW f, NEW sent, Intact(f, sent), NEW b \in OwnBlock \ sent, b # Genesis,
           Parent[b] = f.fin, Published(sent, Parent[b]),
           Slot[b] > Slot[Parent[b]], PriorRoot[b] = Post[Parent[b]],
           NEW stage \in {"unsealed", "sealed", "done"},
           stage = "unsealed" => f.parents[f.fin] = None
    PROVE  Produced(Author(f, JamStateOf(Parent[b]), b, stage), Parent[b], sent, b)
<1> DEFINE p == Parent[b]
           w == JamStateOf(p)
           t == Temporary(f, b)
           u == Sealed(f, b)
           r == Author(f, w, b, stage)
<1>1. b \in Block /\ p \in Block /\ f \in Store
  BY NodeAssumption, ParentIsOlder DEF Intact
<1>2. r = CASE stage = "unsealed" -> Result(FALSE, t, w)
            [] stage = "sealed"   -> Result(FALSE, Put(u, ServiceWrites(b)), w)
            [] stage = "done"     -> Added(Execute(u, w, b), b)
  BY DEF Author, Temporary, Sealed
<1>3. OnCandidate(f, u, b, NoChanges)
  BY <1>1, SealSelects
<1> HIDE DEF r
<1>4. CASE stage = "unsealed"
  <2>1. r = Result(FALSE, t, w)
    BY <1>2, <1>4
  <2>2. Intact(t, sent) /\ t.fin = p
    BY <1>1, <1>4, TemporaryStep, TemporaryFields
  <2>3. r.ok = FALSE /\ r.store = t /\ r.working = w
    BY <2>1 DEF Result
  <2> QED BY <1>1, <2>2, <2>3 DEF Produced, r
<1>5. CASE stage = "sealed"
  <2> DEFINE v == Put(u, ServiceWrites(b))
  <2>1. r = Result(FALSE, v, w)
    BY <1>2, <1>5
  <2>2. ServiceWrites(b) \in Changes
    BY <1>1, StateAssumption DEF ServiceWrites, Changes
  <2> HIDE DEF u
  <2>3. /\ v \in Store
        /\ v.db = u.db /\ v.fin = u.fin /\ v.anc = u.anc /\ v.head = u.head
        /\ v.cs = u.cs /\ v.parents = u.parents
    BY <1>3, <2>2 DEF Put, Store, OnCandidate
  <2> HIDE DEF v
  <2>4. OnCandidate(f, v, b, NoChanges)
    BY <1>3, <2>3 DEF OnCandidate
  <2>5. Intact(v, sent) /\ v.fin = p
    BY <2>4, FailedAuthoringStep
  <2>6. r.ok = FALSE /\ r.store = v /\ r.working = w
    BY <2>1 DEF Result
  <2> QED BY <1>1, <2>5, <2>6 DEF Produced, r
<1>6. CASE stage = "done"
  <2> DEFINE q == Execute(u, w, b)
  <2>1. r = Added(q, b)
    BY <1>2, <1>6
  <2>2. \/ /\ q.ok /\ Defect[b] = "none"
           /\ OnCandidate(f, q.store, b, Delta(b))
           /\ q.store.tx = NoChanges
           /\ q.working = JamStateOf(b)
        \/ /\ ~q.ok /\ Defect[b] # "none"
           /\ OnCandidate(f, q.store, b, NoChanges)
           /\ q.working = JamStateOf(p)
    <3> HIDE DEF u
    <3> QED BY <1>1, <1>3, ExecuteStep
  <2>3. q.ok \in BOOLEAN
    BY DEF Execute, Rooted, Result
  <2> HIDE DEF q
  <2>4. CASE q.ok
    <3> DEFINE a == AddAncestor(q.store, b)
    <3>1. Valid(b)
      BY <2>2, <2>4 DEF Valid
    <3>2. /\ Intact(a, sent \cup {b}) /\ a.fin = p
          /\ Described(a, JamStateOf(b))
      <4> DEFINE after == sent \cup {b}
      <4> HIDE DEF after
      <4>1. after = sent \cup {b}
        BY DEF after
      <4>2. /\ Intact(a, after) /\ a.fin = p
            /\ Described(a, JamStateOf(b))
        BY <1>1, <2>2, <2>4, <3>1, <4>1, AcceptedStep
      <4> QED BY <4>1, <4>2
    <3>3. r = Result(TRUE, a, q.working)
      BY <2>1, <2>4 DEF Added
    <3> HIDE DEF a
    <3>4. r.ok = TRUE /\ r.store = a /\ r.working = JamStateOf(b)
      BY <2>2, <2>4, <3>3 DEF Result
    <3> QED BY <1>1, <3>2, <3>4 DEF Produced, r
  <2>5. CASE ~q.ok
    <3>1. r = q
      BY <2>1, <2>5 DEF Added
    <3>2. Intact(q.store, sent) /\ q.store.fin = p
      BY <2>2, <2>5, FailedAuthoringStep
    <3> QED BY <1>1, <2>2, <2>3, <2>5, <3>1, <3>2 DEF Produced, r
  <2> QED BY <2>4, <2>5
<1> QED BY <1>4, <1>5, <1>6

\* produce_block ends with a sound result; the block counts as sent if it was
\* finished.
LEMMA ProduceStep ==
    ASSUME NEW s, NEW sent, Intact(s, sent), Published(sent, s.fin),
           NEW b \in OwnBlock \ sent, b # Genesis, Published(sent, Parent[b]),
           Slot[b] > Slot[Parent[b]], PriorRoot[b] = Post[Parent[b]],
           NEW stage \in {"unsealed", "sealed", "done"},
           \/ stage # "unsealed"
           \/ Parent[b] # s.fin
           \/ s.parents[s.fin] = None
    PROVE  LET r == ProduceBlock(s, JamStateOf(Parent[b]), b, stage) IN
           /\ r.ok \in BOOLEAN
           /\ r.ok => Sound(r, sent \cup {b})
           /\ ~r.ok => Sound(r, sent)
<1> DEFINE p == Parent[b]
           w == JamStateOf(p)
           f == Finalize(s, p)
           r == ProduceBlock(s, w, b, stage)
<1>1. p \in Block /\ s \in Store /\ b \in Block
  BY NodeAssumption, ParentIsOlder DEF Intact
<1>2. CASE ~CanFinalize(s, p) /\ p # s.fin
  <2>1. r = Result(FALSE, s, Refreshed(s, w))
    BY <1>2 DEF ProduceBlock, Reloaded
  <2>2. Described(s, Refreshed(s, w))
    BY <1>1, Reloading
  <2>3. r.ok = FALSE /\ r.store = s /\ r.working = Refreshed(s, w)
    BY <2>1 DEF Result
  <2> QED BY <2>2, <2>3 DEF Sound, r
<1>3. CASE CanFinalize(s, p) \/ p = s.fin
  <2> DEFINE q == Author(f, w, b, stage)
  <2>1. r = Reload(q)
    BY <1>3 DEF ProduceBlock
  <2>2. Intact(f, sent) /\ f.fin = p
    BY <1>1, <1>3, FinalizeStep
  <2>3. stage = "unsealed" => f.parents[f.fin] = None
    <3>1. CASE p = s.fin
      BY <3>1 DEF Finalize
    <3>2. CASE p # s.fin
      <4>1. Flattened(s, p) \in State
        BY <1>1, <1>3, <3>2, FlattenedState, StateAssumption
      <4>2. p \notin Kept(s, p)
        BY <1>1, <1>3, <3>2, FinalizableBranch DEF Kept
      <4> QED BY <1>1, <3>2, <4>1, <4>2, FinalizedFields
    <3> QED BY <3>1, <3>2
  <2> HIDE DEF f
  <2>4. Produced(q, p, sent, b)
    BY <2>2, <2>3, AuthorStep
  <2> HIDE DEF q, r
  <2>5. Published(sent \cup {b}, p)
    BY DEF Published
  <2>6. CASE q.ok
    <3>1. r = q
      BY <2>1, <2>6 DEF Reload
    <3> QED BY <2>4, <2>5, <2>6, <3>1 DEF Produced, Sound, r
  <2>7. CASE ~q.ok
    <3>1. r = Result(FALSE, q.store, Refreshed(q.store, q.working))
      BY <2>1, <2>7 DEF Reload, Reloaded
    <3>2. Described(q.store, Refreshed(q.store, q.working))
      BY <2>4, <2>7, Reloading DEF Produced
    <3>3. r.ok = FALSE /\ r.store = q.store
          /\ r.working = Refreshed(q.store, q.working)
      BY <3>1 DEF Result
    <3> QED BY <2>4, <2>7, <3>2, <3>3 DEF Produced, Sound, r
  <2> QED BY <2>6, <2>7
<1> QED BY <1>2, <1>3

-----------------------------------------------------------------------------
(* The steps of the node.                                                  *)

\* The cache is a JamState.
LEMMA CacheType ==
    ASSUME NEW c \in Block
    PROVE  JamStateOf(c) \in JamState
<1>1. Post[c] \in State
  BY StateAssumption
<1>2. Components(Post[c]) \in [CompKey -> Val \cup {Absent}]
  BY <1>1 DEF Components, State, Key
<1> QED BY <1>1, <1>2 DEF JamStateOf, JamState, Root

\* Published blocks stay published.
LEMMA PublishedGrows ==
    ASSUME NEW sent, NEW b, NEW c, Published(sent, c)
    PROVE  Published(sent \cup {b}, c)
  BY DEF Published

\* The import worker keeps the invariant.
LEMMA ImportWorkerStep ==
    ASSUME RootsNameBlocks, NodeInv, NEW b \in Block, NEW sound \in BOOLEAN,
           ImportWorker(b, sound)
    PROVE  NodeInv'
<1> DEFINE r == CliImportBlock(store, working, b, sound)
<1>1. /\ b # Genesis /\ Published(authored, b)
      /\ store' = r.store /\ working' = r.working /\ finHead' = r.store.fin
      /\ slotHash' = IF r.ok THEN StoreBlock(b) ELSE slotHash
      /\ clock' = clock /\ authored' = authored
  BY DEF ImportWorker, Announced, Leaves, Published
<1>2. Sound(r, authored)
  <2>1. CASE Intact(store, authored)
    BY <1>1, <2>1, CliStep DEF NodeInv
  <2>2. CASE Torn(store)
    BY <1>1, <2>2, TornCliStep DEF NodeInv
  <2> QED BY <2>1, <2>2 DEF NodeInv
<1> HIDE DEF r
<1>3. r.store \in Store /\ r.store.fin \in Block
  BY <1>2, StoreFacts DEF Sound, Intact, Torn
<1>4. r.working \in JamState
  BY <1>2, CacheType DEF Sound, Described
<1>5. Slot[b] \in Val /\ slotHash \in [Val -> Block \cup {Missing}]
  BY TreeAssumption DEF NodeInv, TypeOK
<1>6. slotHash' \in [Val -> Block \cup {Missing}]
  BY <1>1, <1>5 DEF StoreBlock
<1>7. TypeOK'
  BY <1>1, <1>3, <1>4, <1>6 DEF NodeInv, TypeOK
<1>8. SlotIndex'
  <2> SUFFICES ASSUME NEW t \in Val, slotHash'[t] # Missing
               PROVE  /\ slotHash'[t] \in Block /\ Slot[slotHash'[t]] = t
                      /\ Published(authored, slotHash'[t])
    BY <1>1 DEF SlotIndex
  <2>1. CASE r.ok /\ t = Slot[b]
    BY <1>1, <1>5, <2>1 DEF StoreBlock
  <2>2. CASE ~(r.ok /\ t = Slot[b])
    <3>1. slotHash'[t] = slotHash[t]
      BY <1>1, <1>5, <2>2 DEF StoreBlock
    <3> QED BY <3>1 DEF NodeInv, SlotIndex
  <2> QED BY <2>1, <2>2
<1>9. /\ Published(authored, r.store.fin) /\ Described(r.store, r.working)
      /\ Intact(r.store, authored) \/ Torn(r.store)
  BY <1>2 DEF Sound
<1> QED BY <1>1, <1>7, <1>8, <1>9 DEF NodeInv

\* What the guards of the timeslot worker say about the block it writes.
LEMMA OwnBlockFacts ==
    ASSUME RootsNameBlocks, NodeInv, NEW b \in OwnBlock,
           Slot[b] > clock, Slot[b] > SlotOf(working),
           Parent[b] = AuthoringParent, PriorRoot[b] = working.root
    PROVE  /\ b \in Block /\ b \notin authored /\ b # Genesis
           /\ Parent[b] \in Block /\ working = JamStateOf(Parent[b])
           /\ Published(authored, Parent[b])
           /\ Slot[b] > Slot[Parent[b]] /\ PriorRoot[b] = Post[Parent[b]]
           /\ slotHash[Slot[b]] # b
<1>1. b \in Block
  BY NodeAssumption
<1>2. Slot[b] \in Val /\ Slot[b] \in Nat /\ clock \in Nat
  BY <1>1, TreeAssumption DEF NodeInv, TypeOK
<1>3. b \notin authored
  <2>1. b \in authored => Slot[b] <= clock
    BY DEF NodeInv
  <2> QED BY <1>2, <2>1
<1>4. PICK c \in Block : working = JamStateOf(c)
  BY DEF NodeInv, Described
<1>5. working.root = Post[c] /\ working.content = Components(Post[c])
  BY <1>4 DEF JamStateOf
<1>6. Parent[b] = c
  BY <1>1, <1>5 DEF RootsNameBlocks
<1>7. b # Genesis
  BY <1>6, TreeAssumption, SentinelAssumption
<1>8. SlotOf(working) = Post[c][TimeKey] /\ Post[c][TimeKey] \in Val
  <2>1. SlotOf(working) = Post[c][TimeKey]
    BY <1>5, StateAssumption DEF SlotOf, Components
  <2>2. CASE c = Genesis
    BY <2>1, <2>2, StateAssumption
  <2>3. CASE c # Genesis
    <3>1. Post[c] = Apply(Writes[c], Post[Parent[c]]) /\ TimeKey \in Key
          /\ Writes[c][TimeKey] = Slot[c]
      BY <2>3, StateAssumption DEF Key
    <3>2. Slot[c] \in Val /\ Slot[c] # Untouched
      BY TreeAssumption, SentinelAssumption
    <3>3. Post[c][TimeKey] = Slot[c]
      BY <3>1, <3>2 DEF Apply
    <3> QED BY <2>1, <3>2, <3>3
  <2> QED BY <2>2, <2>3
<1>9. slotHash[SlotOf(working)] = c /\ c # Missing
  BY <1>6, SentinelAssumption DEF AuthoringParent, Hash
<1>10. Slot[c] = SlotOf(working) /\ Published(authored, c)
  BY <1>8, <1>9 DEF NodeInv, SlotIndex
<1>11. slotHash[Slot[b]] # b
  <2>1. b # Missing /\ b \in Ancestry[b]
    BY <1>1, SentinelAssumption, SelfAncestor DEF Hash
  <2>2. slotHash[Slot[b]] = b => Published(authored, b)
    BY <1>2, <2>1 DEF NodeInv, SlotIndex
  <2> QED BY <1>3, <2>1, <2>2 DEF Published
<1> QED BY <1>1, <1>3, <1>4, <1>5, <1>6, <1>7, <1>10, <1>11

\* produce_block cannot finalize the block whose state a torn store holds.
LEMMA TornProduceStep ==
    ASSUME RootsNameBlocks, NodeInv, Torn(store), NEW b \in Block, Parent[b] \in Block,
           PriorRoot[b] = working.root, NEW stage
    PROVE  ProduceBlock(store, working, b, stage) = Result(FALSE, store, working)
<1>1. /\ Readable(store) /\ View(store, store.head) = store.db
      /\ \A p \in Block : CanFinalize(store, p) => p = store.fin
  BY TornFacts
<1>2. working = RetrieveJamState(store)
  BY <1>1 DEF NodeInv, Described
<1>3. PICK d \in Block : d # store.fin /\ store.db = Post[d]
  BY DEF Torn
<1>4. Parent[b] = d
  BY <1>1, <1>2, <1>3 DEF RootsNameBlocks, RetrieveJamState
<1> QED BY <1>1, <1>2, <1>3, <1>4 DEF ProduceBlock, Reloaded, Refreshed

\* The timeslot worker keeps the invariant, provided it fails to author only
\* where the ancestry walk ends.
LEMMA TimeslotWorkerStep ==
    ASSUME RootsNameBlocks, ~FailsAtStart, NodeInv, NEW b \in OwnBlock,
           NEW stage \in FailedAuthoring \cup {"done"}, TimeslotWorker(b, stage)
    PROVE  NodeInv'
<1> DEFINE r == ProduceBlock(store, working, b, stage)
           sent == IF r.ok THEN authored \cup {b} ELSE authored
<1>1. /\ Slot[b] > clock /\ Slot[b] > SlotOf(working)
      /\ Parent[b] = AuthoringParent /\ PriorRoot[b] = working.root
      /\ StageCanFail(b, stage)
      /\ store' = r.store /\ working' = r.working /\ finHead' = r.store.fin
      /\ slotHash' = IF r.ok THEN StoreBlock(b) ELSE slotHash
      /\ authored' = IF slotHash'[Slot[b]] = b THEN authored \cup {b} ELSE authored
      /\ clock' = Slot[b]
  BY DEF TimeslotWorker, Leaves
<1>2. /\ b \in Block /\ b \notin authored /\ b # Genesis
      /\ Parent[b] \in Block /\ working = JamStateOf(Parent[b])
      /\ Published(authored, Parent[b])
      /\ Slot[b] > Slot[Parent[b]] /\ PriorRoot[b] = Post[Parent[b]]
      /\ slotHash[Slot[b]] # b
  BY <1>1, OwnBlockFacts
<1>3. stage \in {"unsealed", "sealed", "done"}
  BY NodeAssumption
<1>4. /\ r.ok \in BOOLEAN
      /\ r.ok => Sound(r, authored \cup {b})
      /\ ~r.ok => Sound(r, authored)
  <2>1. CASE Intact(store, authored)
    <3>1. stage # "unsealed" \/ Parent[b] # store.fin \/ store.parents[store.fin] = None
      BY <1>1 DEF StageCanFail
    <3>2. Published(authored, store.fin)
      BY DEF NodeInv
    <3> HIDE DEF r
    <3>3. LET q == ProduceBlock(store, JamStateOf(Parent[b]), b, stage) IN
          /\ q.ok \in BOOLEAN
          /\ q.ok => Sound(q, authored \cup {b})
          /\ ~q.ok => Sound(q, authored)
      BY <1>2, <1>3, <2>1, <3>1, <3>2, ProduceStep
    <3> QED BY <1>2, <3>3 DEF r
  <2>2. CASE Torn(store)
    <3>1. r = Result(FALSE, store, working)
      BY <1>1, <1>2, <2>2, TornProduceStep
    <3>2. r.ok = FALSE /\ r.store = store /\ r.working = working
      BY <3>1 DEF Result
    <3> QED BY <2>2, <3>2 DEF NodeInv, Sound
  <2> QED BY <2>1, <2>2 DEF NodeInv
<1> HIDE DEF r
<1>5. Slot[b] \in Val /\ slotHash \in [Val -> Block \cup {Missing}]
  BY <1>2, TreeAssumption DEF NodeInv, TypeOK
<1>6. authored' = sent
  BY <1>1, <1>2, <1>5 DEF StoreBlock
<1>7. Sound(r, sent)
  BY <1>4
<1>8. Published(sent, b) <=> r.ok
  <2>1. b \in Ancestry[b] /\ Ancestry[b] = {b} \cup Ancestry[Parent[b]]
    BY <1>2, SelfAncestor, ParentIsOlder
  <2> QED BY <1>2, <1>4, <2>1 DEF Published
<1>9. \A c : Published(authored, c) => Published(sent, c)
  BY DEF Published
<1> HIDE DEF sent
<1>10. r.store \in Store /\ r.store.fin \in Block
  BY <1>7, StoreFacts DEF Sound, Intact, Torn
<1>11. r.working \in JamState
  BY <1>7, CacheType DEF Sound, Described
<1>12. slotHash' \in [Val -> Block \cup {Missing}]
  BY <1>1, <1>2, <1>5 DEF StoreBlock
<1>13. sent \subseteq OwnBlock /\ \A a \in sent : a \in authored \/ a = b
  BY DEF sent, NodeInv, TypeOK
<1>14. TypeOK'
  BY <1>1, <1>5, <1>6, <1>10, <1>11, <1>12, <1>13 DEF TypeOK
<1>15. SlotIndex'
  <2> SUFFICES ASSUME NEW t \in Val, slotHash'[t] # Missing
               PROVE  /\ slotHash'[t] \in Block /\ Slot[slotHash'[t]] = t
                      /\ Published(sent, slotHash'[t])
    BY <1>6 DEF SlotIndex
  <2>1. CASE r.ok /\ t = Slot[b]
    BY <1>1, <1>2, <1>5, <1>8, <2>1 DEF StoreBlock
  <2>2. CASE ~(r.ok /\ t = Slot[b])
    <3>1. slotHash'[t] = slotHash[t]
      BY <1>1, <1>5, <2>2 DEF StoreBlock
    <3> QED BY <1>9, <3>1 DEF NodeInv, SlotIndex
  <2> QED BY <2>1, <2>2
<1>16. \A a \in sent : Slot[a] <= Slot[b]
  <2> SUFFICES ASSUME NEW a \in sent PROVE Slot[a] <= Slot[b]
    OBVIOUS
  <2>1. a \in Block
    BY <1>13, NodeAssumption
  <2>2. Slot[a] \in Nat /\ Slot[b] \in Nat /\ clock \in Nat
    BY <1>2, <2>1, TreeAssumption DEF NodeInv, TypeOK
  <2>3. a \in authored => Slot[a] <= clock
    BY DEF NodeInv
  <2> QED BY <1>1, <1>13, <2>2, <2>3
<1>17. /\ Published(sent, r.store.fin) /\ Described(r.store, r.working)
       /\ Intact(r.store, sent) \/ Torn(r.store)
  BY <1>7 DEF Sound
<1> QED BY <1>1, <1>6, <1>14, <1>15, <1>16, <1>17 DEF NodeInv

\* A restart on the recorded head with the state of one of its descendants.
LEMMA RestartStep ==
    ASSUME NodeInv, NEW d \in Block, finHead \in Ancestry[d],
           Restarted(Post[d], finHead)
    PROVE  NodeInv'
<1> DEFINE o == Opened(Post[d], finHead)
<1>1. /\ store' = o /\ working' = RetrieveJamState(o) /\ finHead' = finHead
      /\ slotHash' = slotHash /\ clock' = clock /\ authored' = authored
  BY DEF Restarted
<1>2. finHead \in Block /\ Post[d] \in State
  BY StateAssumption DEF NodeInv, TypeOK
<1>3. o \in Store /\ o.db = Post[d] /\ o.fin = finHead /\ View(o, o.head) = Post[d]
  BY <1>2, OpenedFacts
<1>4. Intact(o, authored) \/ Torn(o)
  <2>1. CASE d = finHead
    BY <1>2, <2>1, OpenedIntact
  <2>2. CASE d # finHead
    BY <1>3, <2>2 DEF Torn
  <2> QED BY <2>1, <2>2
<1>5. RetrieveJamState(o) = JamStateOf(d)
  BY <1>3 DEF RetrieveJamState, JamStateOf
<1>6. Described(o, RetrieveJamState(o))
  BY <1>5 DEF Described
<1>7. RetrieveJamState(o) \in JamState
  BY <1>5, CacheType
<1> HIDE DEF o
<1>8. TypeOK'
  BY <1>1, <1>3, <1>7 DEF NodeInv, TypeOK
<1>9. SlotIndex'
  BY <1>1 DEF NodeInv, SlotIndex
<1> QED BY <1>1, <1>3, <1>4, <1>6, <1>8, <1>9 DEF NodeInv

\* Stopping, also between the two writes of finalize(), keeps the invariant.
LEMMA CrashStep ==
    ASSUME NodeInv, CrashIdle \/ \E b \in Block : CrashInFinalize(b)
    PROVE  NodeInv'
<1>1. finHead \in Block /\ finHead = store.fin
  BY DEF NodeInv, TypeOK
<1>2. \E d \in Block : finHead \in Ancestry[d] /\ store.db = Post[d]
  BY <1>1, SelfAncestor DEF NodeInv, Intact, Torn
<1>3. CASE CrashIdle
  <2>1. PICK d \in Block : finHead \in Ancestry[d] /\ store.db = Post[d]
    BY <1>2
  <2>2. Restarted(Post[d], finHead)
    BY <1>3, <2>1 DEF CrashIdle
  <2> QED BY <2>1, <2>2, RestartStep
<1>4. ASSUME NEW b \in Block, CrashInFinalize(b) PROVE NodeInv'
  <2>1. b # store.fin /\ CanFinalize(store, b) /\ Restarted(Finalize(store, b).db, finHead)
    BY <1>4 DEF CrashInFinalize
  <2>2. Intact(store, authored)
    BY <2>1, TornFacts DEF NodeInv
  <2>3. store \in Store
    BY <2>2 DEF Intact
  <2>4. /\ finHead \in Ancestry[b] /\ Parent[b] \in Block /\ finHead \in Ancestry[Parent[b]]
        /\ b \in Unfinalized(store, b)
    BY <1>1, <2>1, <2>2, FinalizableBranch
  <2>5. PICK d \in Block : finHead \in Ancestry[d] /\ Flattened(store, b) = Post[d]
    BY <2>1, <2>2, <2>4, FlattenedState
  <2>6. Finalize(store, b).db = Post[d]
    <3>1. Flattened(store, b) \in State
      BY <2>5, StateAssumption
    <3>2. b \notin Kept(store, b)
      BY <2>4 DEF Kept
    <3> QED BY <2>1, <2>3, <2>5, <3>1, <3>2, FinalizedFields
  <2>7. Restarted(Post[d], finHead)
    BY <2>1, <2>6
  <2> QED BY <2>5, <2>7, RestartStep
<1> QED BY <1>3, <1>4

\* Every step of the node keeps the invariant.
LEMMA NodeStep ==
    ASSUME RootsNameBlocks, ~FailsAtStart, NodeInv, [Next]_vars
    PROVE  NodeInv'
<1>1. CASE \E b \in Block, sound \in BOOLEAN : ImportWorker(b, sound)
  BY <1>1, ImportWorkerStep
<1>2. CASE \E b \in OwnBlock, stage \in FailedAuthoring \cup {"done"} :
              TimeslotWorker(b, stage)
  BY <1>2, TimeslotWorkerStep
<1>3. CASE CrashIdle \/ \E b \in Block : CrashInFinalize(b)
  BY <1>3, CrashStep
<1>4. CASE UNCHANGED vars
  BY <1>4 DEF vars, NodeInv, TypeOK, SlotIndex
<1> QED BY <1>1, <1>2, <1>3, <1>4 DEF Next

\* The node starts in the invariant.
LEMMA NodeInit == Init => NodeInv
<1> SUFFICES ASSUME Init PROVE NodeInv
  OBVIOUS
<1> DEFINE o == Opened(Post[Genesis], Genesis)
<1>1. Genesis \in Block /\ Post[Genesis] \in State /\ Slot[Genesis] \in Val
      /\ Ancestry[Genesis] = {Genesis}
  BY TreeAssumption, StateAssumption, AncestryAssumption
<1>2. store = o /\ working = RetrieveJamState(o) /\ finHead = Genesis
      /\ slotHash = [t \in Val |-> IF t = Slot[Genesis] THEN Genesis ELSE Missing]
      /\ clock = Slot[Genesis] /\ authored = {}
  BY DEF Init
<1>3. o \in Store /\ o.fin = Genesis /\ View(o, o.head) = Post[Genesis]
  BY <1>1, OpenedFacts
<1>4. Intact(o, authored)
  BY <1>1, OpenedIntact
<1>5. RetrieveJamState(o) = JamStateOf(Genesis)
  BY <1>3 DEF RetrieveJamState, JamStateOf
<1>6. Described(o, RetrieveJamState(o)) /\ RetrieveJamState(o) \in JamState
  BY <1>1, <1>5, CacheType DEF Described
<1> HIDE DEF o
<1>7. TypeOK
  BY <1>1, <1>2, <1>3, <1>6 DEF TypeOK
<1>8. Published(authored, Genesis)
  BY <1>1, NodeAssumption DEF Published
<1> QED BY <1>1, <1>2, <1>3, <1>4, <1>6, <1>7, <1>8 DEF NodeInv, SlotIndex

-----------------------------------------------------------------------------
(* The theorems.                                                           *)

\* Whatever two workers import and author, wherever authoring fails after the
\* first finalization and wherever the process stops, the storage stays intact
\* or as a torn finalize() left it, and the cache describes its head.
THEOREM NodeInvariant ==
    ASSUME RootsNameBlocks, ~FailsAtStart
    PROVE  Spec => []NodeInv
<1>1. NodeInv /\ [Next]_vars => NodeInv'
  BY NodeStep
<1> QED BY NodeInit, <1>1, PTL DEF Spec

\* The state that finalize() has persisted is the posterior state of one block,
\* the one recorded as finalized or a descendant: no rejected, unfinished or
\* rolled-back block leaves a trace in it.
THEOREM PersistedStateHolds ==
    ASSUME RootsNameBlocks, ~FailsAtStart
    PROVE  Spec => []PersistedStateIsExact
<1>1. NodeInv => PersistedStateIsExact
  <2> SUFFICES ASSUME NodeInv PROVE PersistedStateIsExact
    OBVIOUS
  <2>1. finHead \in Block /\ finHead = store.fin
    BY DEF NodeInv, TypeOK
  <2>2. \E b \in Block : finHead \in Ancestry[b] /\ store.db = Post[b]
    BY <2>1, SelfAncestor DEF NodeInv, Intact, Torn
  <2> QED BY <2>1, <2>2 DEF PersistedStateIsExact
<1> QED BY NodeInvariant, <1>1, PTL

\* A change set that set_block_hash, commit, rollback, discard_candidate and
\* finalize leave behind is the whole effect of its block, or empty.
THEOREM OverlaysHold ==
    ASSUME RootsNameBlocks, ~FailsAtStart
    PROVE  Spec => []OverlaysAreWhole
<1>1. NodeInv => OverlaysAreWhole
  <2> SUFFICES ASSUME NodeInv, NEW b \in Block
               PROVE  \/ store.cs[b] \in {Missing, NoChanges}
                      \/ b # Genesis /\ store.cs[b] = Delta(b)
    BY DEF OverlaysAreWhole
  <2>1. CASE Torn(store)
    BY <2>1, TornFacts DEF Hash
  <2>2. CASE Intact(store, authored) /\ store.cs[b] # Missing
    <3>1. Overlay(store, authored, b)
      BY <2>2 DEF Intact, Overlays
    <3>2. b # Genesis
      BY <3>1, AncestryAssumption DEF Overlay
    <3> QED BY <3>1, <3>2 DEF Overlay
  <2> QED BY <2>1, <2>2 DEF NodeInv
<1> QED BY NodeInvariant, <1>1, PTL

\* working_state, which both workers check roots against and compute on, is
\* what retrieve_jam_state would return whenever it would return.
THEOREM CacheHolds ==
    ASSUME RootsNameBlocks, ~FailsAtStart
    PROVE  Spec => []CacheDescribesHead
<1>1. NodeInv => CacheDescribesHead
  <2> SUFFICES ASSUME NodeInv PROVE CacheDescribesHead
    OBVIOUS
  <2>1. working.content = Components(working.root)
    BY DEF NodeInv, Described, JamStateOf
  <2>2. Readable(store) => working = RetrieveJamState(store)
    BY DEF NodeInv, Described
  <2> QED BY <2>1, <2>2 DEF CacheDescribesHead
<1> QED BY NodeInvariant, <1>1, PTL

\* After a crash between the state batch and store_finalized_head, the check
\* of parent_state_root lets no block be imported or authored.
THEOREM TornStateStaysBare ==
    ASSUME RootsNameBlocks, ~FailsAtStart
    PROVE  Spec => []NothingBuiltOnTornState
<1>1. NodeInv => NothingBuiltOnTornState
  <2> SUFFICES ASSUME NodeInv, store.db # Post[finHead]
               PROVE  store = Opened(store.db, finHead)
    BY DEF NothingBuiltOnTornState
  <2>1. store.fin = finHead
    BY DEF NodeInv
  <2>2. Torn(store)
    BY <2>1 DEF NodeInv, Intact
  <2> QED BY <2>1, <2>2 DEF Torn
<1> QED BY NodeInvariant, <1>1, PTL

-----------------------------------------------------------------------------
(* Blocks in order: the node implements the abstract tree.                 *)

\* No block has a change set, and the selection reads the finalized state.
Bare(s) ==
    /\ s.tx = NoChanges
    /\ \A b \in Block : s.cs[b] = Missing
    /\ s.head \in {None, Zero, s.fin}

\* One block has, the selected one, which extends the finalized one.
Extended(s, sent) ==
    /\ s.tx = NoChanges
    /\ s.head \in Block \ {Genesis} /\ Parent[s.head] = s.fin
    /\ \A b \in Block : s.cs[b] = Missing <=> b # s.head
    /\ Published(sent, s.head)

\* A store in line holds at most one block above the finalized one, its tip.
InLine(s, sent) == Bare(s) \/ Extended(s, sent)
Tip(s) == IF s.head \in Block THEN s.head ELSE s.fin

\* What the selected block of a store in line says about its tip.
LEMMA TipFacts ==
    ASSUME NEW s, NEW sent, Intact(s, sent), InLine(s, sent), Published(sent, s.fin)
    PROVE  /\ s.fin \in Block /\ Tip(s) \in Block /\ Published(sent, Tip(s))
           /\ Bare(s) => Tip(s) = s.fin
           /\ Extended(s, sent) =>
                 /\ Tip(s) = s.head /\ Tip(s) # Genesis /\ Tip(s) # s.fin
                 /\ Parent[Tip(s)] = s.fin /\ s.parents[Tip(s)] = s.fin
                 /\ s.cs[Tip(s)] = Delta(Tip(s)) /\ Delta(Tip(s)) # Missing
                 /\ Valid(Tip(s))
                 /\ Tip(s) \notin Ancestry[s.fin] /\ s.fin \in Ancestry[Tip(s)]
                 /\ Ancestry[Tip(s)] = {Tip(s)} \cup Ancestry[s.fin]
<1>1. s.fin \in Block /\ Zero \notin Block /\ None \notin Block
  BY SentinelAssumption, StoreFacts DEF Intact
<1>2. CASE Bare(s)
  <2>1. Tip(s) = s.fin
    BY <1>1, <1>2 DEF Bare, Tip
  <2>2. ~Extended(s, sent)
    BY <1>2 DEF Bare, Extended
  <2> QED BY <1>1, <2>1, <2>2
<1>3. CASE Extended(s, sent)
  <2> DEFINE c == Tip(s)
  <2>1. /\ c = s.head /\ c \in Block /\ c # Genesis /\ Parent[c] = s.fin
        /\ s.cs[c] # Missing /\ Published(sent, c)
    BY <1>3 DEF Extended, Tip
  <2> HIDE DEF c
  <2>2. /\ c \notin Ancestry[s.fin] /\ s.fin \in Ancestry[c]
        /\ Ancestry[c] = {c} \cup Ancestry[s.fin]
    BY <2>1, ParentIsOlder
  <2>3. Overlay(s, sent, c)
    BY <2>1 DEF Intact, Overlays
  <2>4. s.cs[c] = Delta(c) /\ Valid(c) /\ s.parents[c] = s.fin /\ c # s.fin
    BY <2>1, <2>3 DEF Overlay
  <2>5. ~Bare(s)
    BY <2>1 DEF Bare
  <2> QED BY <1>1, <2>1, <2>2, <2>4, <2>5 DEF c
<1> QED BY <1>2, <1>3 DEF InLine

\* The states that can be read are those of the finalized block and the tip,
\* and the tip can be finalized.
LEMMA TipIsRead ==
    ASSUME NEW s, NEW sent, Intact(s, sent), InLine(s, sent), Published(sent, s.fin)
    PROVE  /\ {b \in Block : CanAsDictAt(s, b)} = {s.fin, Tip(s)}
           /\ CanFinalize(s, Tip(s))
<1> DEFINE c == Tip(s)
<1>1. s.fin \in Block /\ c \in Block /\ Block \subseteq Hash
  BY TipFacts DEF Hash
<1>2. ASSUME NEW b \in Block, OnFinalizedBranch(s, b), b # s.fin
      PROVE  s.cs[b] # Missing
  <2>1. s.fin \in Ancestry[b] /\ b \in Ancestry[b]
    BY <1>2, SelfAncestor DEF OnFinalizedBranch, Linked
  <2>2. b \notin Ancestry[s.fin]
    BY <1>1, <1>2, <2>1, AncestryAntisymmetric
  <2> QED BY <1>2, <2>1, <2>2 DEF OnFinalizedBranch, Unfinalized, Retained
<1>3. CASE Bare(s)
  <2>1. c = s.fin
    BY <1>3, TipFacts
  <2>2. \A b \in Block : OnFinalizedBranch(s, b) => b = s.fin
    BY <1>2, <1>3 DEF Bare
  <2> HIDE DEF c
  <2> QED BY <1>1, <1>3, <2>1, <2>2 DEF CanAsDictAt, CanFinalize, Pending, Bare, c
<1>4. CASE Extended(s, sent)
  <2>1. /\ c = s.head /\ c # Genesis /\ Parent[c] = s.fin /\ s.parents[c] = s.fin
        /\ s.cs[c] = Delta(c) /\ Delta(c) # Missing
        /\ c \notin Ancestry[s.fin] /\ s.fin \in Ancestry[c]
        /\ Ancestry[c] = {c} \cup Ancestry[s.fin]
    BY <1>4, TipFacts
  <2> HIDE DEF c
  <2>2. s.fin \in Linked(s, c)
    BY <2>1 DEF Linked
  <2>3. Unfinalized(s, c) = {c} /\ c \in Retained(s)
    BY <1>1, <2>1 DEF Unfinalized, Retained
  <2>4. OnFinalizedBranch(s, c)
    BY <2>2, <2>3 DEF OnFinalizedBranch
  <2>5. \A b \in Block : OnFinalizedBranch(s, b) => b \in {s.fin, c}
    BY <1>2, <1>4, <2>1 DEF Extended
  <2> QED BY <1>1, <1>4, <2>4, <2>5 DEF CanAsDictAt, CanFinalize, Pending, Extended, c
<1> QED BY <1>3, <1>4 DEF InLine

\* The working state read from a store in line is the tip's.
LEMMA TipIsWorkedOn ==
    ASSUME NEW s, NEW sent, Intact(s, sent), InLine(s, sent), Published(sent, s.fin)
    PROVE  Readable(s) /\ View(s, s.head) = Post[Tip(s)]
<1> DEFINE c == Tip(s)
<1>1. /\ s.fin \in Block /\ c \in Block /\ Zero \notin Block /\ None \notin Hash
      /\ Zero \in Hash /\ Block \subseteq Hash
      /\ s.db = Post[s.fin]
  BY TipFacts, StoreFacts DEF Intact
<1>2. Readable(s)
  BY NoCycle DEF Readable, Pending, InLine, Bare, Extended
<1>3. CASE Bare(s)
  <2>1. c = s.fin
    BY <1>3, TipFacts
  <2>2. Chain(s, s.head) \in SUBSET Ancestry[s.fin]
    <3>1. CASE s.head = None
      BY <1>1, <3>1 DEF Chain
    <3>2. CASE s.head = Zero
      <4>1. s.parents[Zero] = s.fin
        BY <3>2 DEF Intact, TemporaryHash
      <4>2. Chain(s, s.head) = Linked(s, s.fin)
        BY <1>1, <3>2, <4>1 DEF Chain
      <4> QED BY <4>2 DEF Linked
    <3>3. CASE s.head = s.fin
      <4>1. Chain(s, s.head) = Linked(s, s.fin)
        BY <1>1, <3>3 DEF Chain
      <4> QED BY <4>1 DEF Linked
    <3> QED BY <1>3, <3>1, <3>2, <3>3 DEF Bare
  <2> QED BY <1>2, <2>1, <2>2, ReadsEngine DEF View
<1>4. CASE Extended(s, sent)
  <2>1. /\ c = s.head /\ s.cs[c] = Delta(c) /\ s.parents[c] = s.fin /\ Parent[c] = s.fin
        /\ c \notin Ancestry[s.fin] /\ s.fin \in Ancestry[c]
        /\ Ancestry[c] = {c} \cup Ancestry[s.fin]
    BY <1>4, TipFacts
  <2> HIDE DEF c
  <2>2. s.fin \in Linked(s, c)
    BY <2>1 DEF Linked
  <2>3. View(s, c) = Overlaid(s, Linked(s, c))
    BY <1>1, ViewOfBlock
  <2>4. \A a \in Ancestry[s.fin] : s.cs[a] \in {Missing, NoChanges}
    BY NothingBelowFinal
  <2>5. View(s, c) = Overlaid(s, Unfinalized(s, c))
    BY <1>1, <2>2, <2>3, <2>4, ViewOfBranch
  <2>6. \A a \in Unfinalized(s, c) : s.cs[a] = Delta(a)
    BY <2>1 DEF Unfinalized
  <2>7. Overlaid(s, Unfinalized(s, c)) = Post[c]
    BY <1>1, <2>1, <2>6, BranchExact
  <2> QED BY <1>2, <2>1, <2>5, <2>7 DEF c
<1> QED BY <1>3, <1>4 DEF InLine

\* Finalizing the tip folds it into the engine and leaves nothing above it.
LEMMA TipFinalizes ==
    ASSUME NEW s, NEW sent, Intact(s, sent), InLine(s, sent), Published(sent, s.fin)
    PROVE  LET f == Finalize(s, Tip(s)) IN
           /\ Intact(f, sent) /\ Bare(f) /\ f.fin = Tip(s)
           /\ s.head # Zero => f.head # Zero
           /\ Tip(s) # s.fin => f.parents[f.fin] = None
<1> DEFINE c == Tip(s)
           f == Finalize(s, c)
<1>1. s.fin \in Block /\ c \in Block /\ Published(sent, c) /\ s \in Store
  BY TipFacts DEF Intact
<1>2. CanFinalize(s, c)
  BY TipIsRead
<1>3. Intact(f, sent) /\ f.fin = c
  <2> HIDE DEF c
  <2> QED BY <1>1, <1>2, FinalizeStep
<1>4. CASE Bare(s)
  <2>1. c = s.fin
    BY <1>4, TipFacts
  <2> HIDE DEF c
  <2> QED BY <1>3, <1>4, <2>1 DEF Finalize, c
<1>5. CASE Extended(s, sent)
  <2>1. /\ c = s.head /\ c # s.fin /\ Parent[c] = s.fin
        /\ c \notin Ancestry[s.fin] /\ Ancestry[c] = {c} \cup Ancestry[s.fin]
    BY <1>5, TipFacts
  <2> HIDE DEF c
  <2>2. c \in Unfinalized(s, c)
    BY <2>1 DEF Unfinalized
  <2>3. c \notin Kept(s, c)
    BY <2>2 DEF Kept
  <2>4. Flattened(s, c) \in State
    BY <1>1, <1>2, <2>1, FlattenedState, StateAssumption
  <2>5. /\ f.fin = c /\ f.tx = s.tx
        /\ f.head = IF s.head \in Kept(s, c) \cup {c} THEN s.head ELSE c
        /\ \A h \in Hash : f.cs[h] = IF h \in Kept(s, c) THEN s.cs[h] ELSE Missing
        /\ f.parents[c] = None
    BY <1>1, <2>1, <2>3, <2>4, FinalizedFields
  <2>6. \A h \in Block : h \notin Kept(s, c)
    BY <1>5, <2>1, <2>2 DEF Kept, Retained, Extended
  <2> HIDE DEF f
  <2>7. Bare(f)
    BY <1>5, <2>1, <2>5, <2>6 DEF Bare, Extended, Hash
  <2>8. f.head # Zero
    BY <1>1, <2>1, <2>5, SentinelAssumption
  <2> QED BY <1>3, <2>5, <2>7, <2>8 DEF f, c
<1> QED BY <1>4, <1>5 DEF InLine

\* What a handler of block b leaves on a store in line: b as the new tip, if
\* it is valid, or the tip that was there, which is final now.
Appended(r, b, sent) ==
    /\ Intact(r.store, sent) /\ InLine(r.store, sent)
    /\ r.store.fin = Parent[b]
    /\ Tip(r.store) = IF r.ok THEN b ELSE Parent[b]
    /\ r.ok => Valid(b)

\* A whole overlay on a bare store is its tip.
LEMMA CandidateIsTip ==
    ASSUME NEW f, Bare(f), f \in Store, NEW b \in Block, b # Genesis, Parent[b] = f.fin,
           NEW sent, Published(sent, b),
           NEW u, OnCandidate(f, u, b, Delta(b)), u.tx = NoChanges
    PROVE  LET a == AddAncestor(u, b) IN Extended(a, sent) /\ Tip(a) = b
<1> DEFINE a == AddAncestor(u, b)
<1>1. /\ a.head = u.head /\ a.tx = u.tx /\ a.cs = u.cs /\ a.fin = u.fin
  BY DEF AddAncestor, OnCandidate, Store
<1> HIDE DEF a
<1>2. Delta(b) # Missing
  BY DeltaType
<1>3. a.head = b /\ a.fin = f.fin /\ \A c \in Block : a.cs[c] = Missing <=> c # b
  BY <1>1, <1>2 DEF OnCandidate, Bare
<1> QED BY <1>1, <1>3 DEF Extended, Tip, a

\* The handlers of a failed import leave a bare store as bare as it was.
LEMMA RejectedIsBare ==
    ASSUME NEW f, Bare(f), f \in Store, f.head # Zero,
           NEW b \in Block, b # Genesis, Parent[b] = f.fin,
           NEW q, q.ok = FALSE,
           \/ q.store = f
           \/ \E changes : OnCandidate(f, q.store, b, changes)
    PROVE  LET r == Recover(q, b, RestoreHash(f, b)) IN
           r.ok = FALSE /\ Bare(Rollback(r.store)) /\ Rollback(r.store).fin = f.fin
<1> DEFINE h == RestoreHash(f, b)
           r == Recover(q, b, h)
<1>1. /\ f.fin \in Block /\ f.fin # b /\ b \in Hash /\ Block \subseteq Hash
      /\ None \notin Hash /\ Missing \notin Hash
  BY StoreFacts, ParentIsOlder, SelfAncestor
<1>2. f.head \in {None, f.fin} /\ f.head # b /\ f.tx = NoChanges
      /\ \A c \in Block : f.cs[c] = Missing
  BY <1>1 DEF Bare
<1>3. h = f.head
  BY <1>2 DEF RestoreHash
<1> HIDE DEF h
<1>4. CASE q.store = f
  <2>1. r = Result(FALSE, f, Refreshed(f, q.working))
    BY <1>2, <1>4 DEF Recover, Reloaded
  <2>2. r.ok = FALSE /\ r.store = f
    BY <2>1 DEF Result
  <2> HIDE DEF r
  <2>3. Bare(Rollback(f)) /\ Rollback(f).fin = f.fin
    BY <1>1, <1>2, RollbackFields DEF Bare
  <2> QED BY <2>2, <2>3 DEF r, h
<1>5. ASSUME NEW changes, OnCandidate(f, q.store, b, changes)
      PROVE  r.ok = FALSE /\ Bare(Rollback(r.store)) /\ Rollback(r.store).fin = f.fin
  <2> DEFINE x == q.store
             u == DiscardCandidate(x, b, h)
  <2>1. /\ x \in Store /\ x.fin = f.fin /\ x.head = b
        /\ \A c \in Block \ {b} : x.cs[c] = Missing
    BY <1>2, <1>5 DEF OnCandidate
  <2> HIDE DEF x
  <2>2. CanDiscardCandidate(x, b, h)
    BY <1>1, <1>2, <1>3, <2>1 DEF CanDiscardCandidate, HasStateAt
  <2>3. r = Result(FALSE, u, Refreshed(u, q.working))
    BY <2>1, <2>2 DEF Recover, Reloaded, x
  <2>4. r.ok = FALSE /\ r.store = u
    BY <2>3 DEF Result
  <2> HIDE DEF r
  <2>5. /\ x.cs \in [Hash -> Changes \cup {Missing}] /\ x.anc \subseteq Block
        /\ x.parents \in [Hash -> Hash \cup {None, Missing}] /\ NoChanges \in Changes
    BY <2>1, StoreFacts
  <2>6. h \in Hash \cup {None}
    BY <1>1, <1>2, <1>3
  <2>7. /\ u \in Store /\ u.fin = x.fin /\ u.head = h /\ u.tx = NoChanges
        /\ u.cs = [x.cs EXCEPT ![b] = Missing]
    BY <2>1, <2>5, <2>6 DEF DiscardCandidate, Store
  <2> HIDE DEF u
  <2>8. \A c \in Block : u.cs[c] = Missing
    BY <1>1, <2>1, <2>5, <2>7
  <2>9. Bare(Rollback(u)) /\ Rollback(u).fin = f.fin
    <3> DEFINE v == Rollback(u)
    <3>1. /\ v.fin = u.fin /\ v.head = u.head /\ v.tx = NoChanges
          /\ \A e \in Hash : v.cs[e] = IF e = u.head THEN Missing ELSE u.cs[e]
      BY <2>7, RollbackFields
    <3> HIDE DEF v
    <3>2. v.fin = f.fin /\ v.head \in {None, v.fin}
      BY <1>2, <1>3, <2>1, <2>7, <3>1
    <3>3. \A c \in Block : v.cs[c] = Missing
      BY <1>1, <2>8, <3>1
    <3> QED BY <3>1, <3>2, <3>3 DEF Bare, v
  <2> QED BY <2>4, <2>9
<1> QED BY <1>4, <1>5 DEF r, h

\* import_block_cli on a child of the tip.
LEMMA CliAppends ==
    ASSUME NEW s, NEW sent, Intact(s, sent), InLine(s, sent), Published(sent, s.fin),
           RootsNameBlocks, s.head # Zero,
           NEW b \in Block, b # Genesis, Parent[b] = Tip(s), Published(sent, b),
           NEW sound \in BOOLEAN, NEW w, Described(s, w)
    PROVE  Appended(CliImportBlock(s, w, b, sound), b, sent)
<1> DEFINE p == Parent[b]
           f == Finalize(s, p)
           q == StateTransition(f, w, b, sound)
           i == ImportBlock(f, w, b, sound)
           r == CliImportBlock(s, w, b, sound)
<1>1. p \in Block /\ CanFinalize(s, p) /\ Published(sent, p)
  BY TipFacts, TipIsRead
<1>2. Intact(f, sent) /\ Bare(f) /\ f.fin = p /\ f.head # Zero
  BY TipFinalizes
<1>3. r = RollBack(i)
  BY <1>1 DEF CliImportBlock
<1>4. \E c \in Block : w = JamStateOf(c)
  BY DEF Described
<1>5. f \in Store
  BY <1>2 DEF Intact
<1> HIDE DEF f, r
<1>6. Settled(i, f, sent)
  BY <1>2, <1>4, ImportStep
<1>7. ~q.ok => i = Recover(q, b, RestoreHash(f, b))
  BY DEF ImportBlock, Concluded
<1>8. q.ok => i = Result(TRUE, AddAncestor(q.store, b), q.working)
  BY DEF ImportBlock, Concluded
<1>9. \/ /\ q.ok = TRUE /\ Valid(b)
         /\ OnCandidate(f, q.store, b, Delta(b)) /\ q.store.tx = NoChanges
      \/ q.ok = FALSE /\ q.store = f
      \/ q.ok = FALSE /\ OnCandidate(f, q.store, b, NoChanges)
  <2>1. \/ /\ q.ok = TRUE /\ Valid(b)
           /\ OnCandidate(f, q.store, b, Delta(b))
           /\ q.store.tx = NoChanges
           /\ q.working = JamStateOf(b)
        \/ q.ok = FALSE /\ q.store = f /\ q.working = w
        \/ /\ q.ok = FALSE /\ ~Valid(b)
           /\ OnCandidate(f, q.store, b, NoChanges)
           /\ q.working = JamStateOf(p)
    BY <1>2, <1>4, TransitionStep
  <2> QED BY <2>1
<1> HIDE DEF q, i
<1>10. CASE q.ok = TRUE /\ Valid(b)
            /\ OnCandidate(f, q.store, b, Delta(b)) /\ q.store.tx = NoChanges
  <2> DEFINE a == AddAncestor(q.store, b)
  <2>1. Extended(a, sent) /\ Tip(a) = b
    BY <1>2, <1>5, <1>10, CandidateIsTip
  <2>2. i.ok = TRUE /\ i.store = a
    BY <1>8, <1>10 DEF Result
  <2> HIDE DEF a
  <2>3. r = i
    BY <1>3, <2>2 DEF RollBack
  <2>4. Intact(a, sent) /\ a.fin = p
    BY <1>2, <1>6, <2>2 DEF Settled
  <2> QED BY <1>10, <2>1, <2>2, <2>3, <2>4 DEF Appended, InLine, r
<1>11. CASE q.ok = FALSE /\ (q.store = f \/ OnCandidate(f, q.store, b, NoChanges))
  <2>1. i.ok = FALSE /\ Bare(Rollback(i.store)) /\ Rollback(i.store).fin = p
    <3>1. q.store = f \/ \E changes : OnCandidate(f, q.store, b, changes)
      BY <1>11
    <3>2. LET x == Recover(q, b, RestoreHash(f, b)) IN
          x.ok = FALSE /\ Bare(Rollback(x.store)) /\ Rollback(x.store).fin = f.fin
      BY <1>2, <1>5, <1>11, <3>1, RejectedIsBare
    <3> QED BY <1>2, <1>7, <1>11, <3>2
  <2> DEFINE v == Rollback(i.store)
  <2>2. r = Result(FALSE, v, Refreshed(v, i.working))
    BY <1>3, <2>1 DEF RollBack, Reloaded
  <2>3. Intact(v, sent)
    BY <1>6, <2>1 DEF Settled
  <2> HIDE DEF v
  <2>4. r.ok = FALSE /\ r.store = v
    BY <2>2 DEF Result
  <2>5. Tip(v) = p
    BY <1>1, <2>1, SentinelAssumption DEF Tip, Bare, v
  <2> QED BY <2>1, <2>3, <2>4, <2>5 DEF Appended, InLine, v, r
<1> QED BY <1>9, <1>10, <1>11

\* produce_block on the tip, for a block the node can author: the block is the
\* new tip, unless authoring stopped before it was sealed.
LEMMA ProduceAppends ==
    ASSUME NEW s, NEW sent, Intact(s, sent), InLine(s, sent), Published(sent, s.fin),
           NEW b \in OwnBlock \ sent, b # Genesis, Parent[b] = Tip(s),
           Slot[b] > Slot[Parent[b]], PriorRoot[b] = Post[Parent[b]],
           Defect[b] = "none",
           NEW stage \in {"unsealed", "done"},
           \/ stage # "unsealed"
           \/ Parent[b] # s.fin
           \/ s.parents[s.fin] = None
    PROVE  LET r == ProduceBlock(s, JamStateOf(Parent[b]), b, stage) IN
           Appended(r, b, IF r.ok THEN sent \cup {b} ELSE sent)
<1> DEFINE p == Parent[b]
           w == JamStateOf(p)
           f == Finalize(s, p)
           t == Temporary(f, b)
           u == Sealed(f, b)
           q == Author(f, w, b, stage)
           r == ProduceBlock(s, w, b, stage)
<1>1. b \in Block /\ p \in Block /\ CanFinalize(s, p) /\ Published(sent, p)
  BY NodeAssumption, TipFacts, TipIsRead
<1>2. /\ Intact(f, sent) /\ Bare(f) /\ f.fin = p
      /\ stage = "unsealed" => f.parents[f.fin] = None
  <2>1. Intact(f, sent) /\ Bare(f) /\ f.fin = p /\ (p # s.fin => f.parents[f.fin] = None)
    BY TipFinalizes
  <2>2. p = s.fin => f = s
    BY DEF Finalize
  <2> QED BY <2>1, <2>2
<1>3. r = Reload(q)
  BY <1>1 DEF ProduceBlock
<1>4. f \in Store /\ Zero \notin Block /\ Block \subseteq Hash /\ Zero \in Hash
  BY <1>2, StoreFacts DEF Intact
<1> HIDE DEF f, r
<1>5. Produced(q, p, sent, b)
  <2>1. stage \in {"unsealed", "sealed", "done"}
    OBVIOUS
  <2> HIDE DEF q
  <2> QED BY <1>1, <1>2, <2>1, AuthorStep DEF q
<1>6. CASE stage = "unsealed"
  <2>1. q = Result(FALSE, t, w)
    BY <1>6 DEF Author, Temporary
  <2>2. q.ok = FALSE /\ q.store = t
    BY <2>1 DEF Result
  <2>3. /\ t.fin = f.fin /\ t.head = Zero /\ t.tx = NoChanges
        /\ t.cs = [f.cs EXCEPT ![Zero] = NoChanges]
    BY <1>1, <1>4, TemporaryFields
  <2> HIDE DEF q, t
  <2>4. \A c \in Block : t.cs[c] = Missing
    <3>1. f.cs \in [Hash -> Changes \cup {Missing}]
      BY <1>4, StoreFacts
    <3> QED BY <1>2, <1>4, <2>3, <3>1 DEF Bare
  <2>5. Bare(t) /\ Tip(t) = p /\ t.fin = p
    BY <1>2, <1>4, <2>3, <2>4 DEF Bare, Tip
  <2>6. r.ok = FALSE /\ r.store = t
    BY <1>3, <2>2 DEF Reload, Reloaded, Result
  <2>7. Intact(t, sent)
    BY <1>5, <2>2 DEF Produced
  <2> QED BY <2>5, <2>6, <2>7 DEF Appended, InLine, r
<1>7. CASE stage = "done"
  <2> DEFINE e == Execute(u, w, b)
  <2>1. q = Added(e, b)
    BY <1>7 DEF Author, Temporary, Sealed
  <2>2. OnCandidate(f, u, b, NoChanges)
    BY <1>1, <1>4, SealSelects
  <2> HIDE DEF u
  <2>3. e.ok /\ OnCandidate(f, e.store, b, Delta(b)) /\ e.store.tx = NoChanges
    BY <1>1, <1>2, <2>2, ExecuteStep
  <2> HIDE DEF e
  <2> DEFINE a == AddAncestor(e.store, b)
             after == sent \cup {b}
  <2>4. q.ok = TRUE /\ q.store = a
    BY <2>1, <2>3 DEF Added, Result
  <2>5. r = q
    BY <1>3, <2>4 DEF Reload
  <2>6. Published(after, b)
    BY <1>1, PublishedChild DEF Published
  <2>7. Valid(b)
    BY DEF Valid
  <2>8. Intact(a, after) /\ a.fin = p
    BY <1>5, <2>4 DEF Produced
  <2> HIDE DEF after, q
  <2>9. Extended(a, after) /\ Tip(a) = b
    BY <1>1, <1>2, <1>4, <2>3, <2>6, CandidateIsTip
  <2> HIDE DEF a
  <2> QED BY <2>4, <2>5, <2>7, <2>8, <2>9 DEF Appended, InLine, r, after
<1> QED BY <1>6, <1>7

\* A node whose peers and own workers extend the selected block only: authoring
\* may stop before the seal, and own blocks execute.
Orderly ==
    /\ InOrder /\ ~FailsAtStart
    /\ FailedAuthoring \subseteq {"unsealed"}
    /\ \A b \in OwnBlock : Defect[b] = "none"

\* Its storage never holds a fork.
LineInv == NodeInv /\ InLine(store, authored)

\* The handler of b finalizes the tip, and b is the new one if it is valid.
TipMoves(b) ==
    /\ Parent[b] = Tip(store)
    /\ store'.fin = Tip(store)
    /\ \/ Tip(store') = Tip(store)
       \/ Tip(store') = b /\ Valid(b)

\* The import worker extends the line.
LEMMA ImportExtendsLine ==
    ASSUME RootsNameBlocks, Orderly, LineInv, Intact(store, authored),
           NEW b \in Block, NEW sound \in BOOLEAN, ImportWorker(b, sound)
    PROVE  InLine(store', authored') /\ TipMoves(b)
<1> DEFINE r == CliImportBlock(store, working, b, sound)
<1>1. /\ b # Genesis /\ Published(authored, b)
      /\ Parent[b] = IF store.head = None THEN store.fin ELSE store.head
      /\ store' = r.store /\ authored' = authored
  BY DEF ImportWorker, Announced, Leaves, Published, Orderly
<1>2. Intact(store, authored) /\ InLine(store, authored)
      /\ Published(authored, store.fin) /\ Described(store, working)
  BY DEF LineInv, NodeInv
<1>3. Parent[b] \in Block
  BY <1>1, ParentIsOlder
<1>4. Parent[b] = Tip(store) /\ store.head # Zero
  BY <1>1, <1>3, SentinelAssumption DEF Tip
<1>5. Appended(r, b, authored)
  BY <1>1, <1>2, <1>4, CliAppends
<1> HIDE DEF r
<1> QED BY <1>1, <1>4, <1>5 DEF Appended, TipMoves

\* The timeslot worker extends the line.
LEMMA AuthoringExtendsLine ==
    ASSUME RootsNameBlocks, Orderly, LineInv, Intact(store, authored), NEW b \in OwnBlock,
           NEW stage \in FailedAuthoring \cup {"done"}, TimeslotWorker(b, stage)
    PROVE  InLine(store', authored') /\ TipMoves(b)
<1> DEFINE r == ProduceBlock(store, JamStateOf(Parent[b]), b, stage)
<1>1. /\ Slot[b] > clock /\ Slot[b] > SlotOf(working)
      /\ Parent[b] = AuthoringParent /\ PriorRoot[b] = working.root
      /\ stage # "unsealed" \/ Parent[b] # store.fin \/ store.parents[store.fin] = None
      /\ Leaves(ProduceBlock(store, working, b, stage), b)
      /\ authored' = IF slotHash'[Slot[b]] = b THEN authored \cup {b} ELSE authored
  BY DEF TimeslotWorker, StageCanFail, Orderly
<1>2. /\ b \in Block /\ b \notin authored /\ b # Genesis
      /\ Parent[b] \in Block /\ working = JamStateOf(Parent[b])
      /\ Slot[b] > Slot[Parent[b]] /\ PriorRoot[b] = Post[Parent[b]]
      /\ slotHash[Slot[b]] # b
  BY <1>1, OwnBlockFacts DEF LineInv
<1>3. Intact(store, authored) /\ InLine(store, authored)
      /\ Published(authored, store.fin) /\ Described(store, working)
  BY DEF LineInv, NodeInv
<1>4. Parent[b] = Tip(store)
  <2>1. Readable(store) /\ View(store, store.head) = Post[Tip(store)] /\ Tip(store) \in Block
    BY <1>3, TipFacts, TipIsWorkedOn
  <2>2. working.root = Post[Tip(store)]
    BY <1>3, <2>1 DEF Described, RetrieveJamState
  <2> QED BY <1>1, <1>2, <2>1, <2>2 DEF RootsNameBlocks
<1>5. stage \in {"unsealed", "done"} /\ Defect[b] = "none"
  BY DEF Orderly
<1>6. Appended(r, b, IF r.ok THEN authored \cup {b} ELSE authored)
  <2>1. b \in OwnBlock \ authored
    BY <1>2
  <2> QED BY <1>1, <1>2, <1>3, <1>4, <1>5, <2>1, ProduceAppends
<1>7. /\ store' = r.store
      /\ slotHash' = IF r.ok THEN StoreBlock(b) ELSE slotHash
  BY <1>1, <1>2 DEF Leaves
<1> HIDE DEF r
<1>8. Slot[b] \in Val /\ slotHash \in [Val -> Block \cup {Missing}]
  BY <1>2, TreeAssumption DEF LineInv, NodeInv, TypeOK
<1>9. authored' = IF r.ok THEN authored \cup {b} ELSE authored
  BY <1>1, <1>2, <1>7, <1>8 DEF StoreBlock
<1> QED BY <1>4, <1>6, <1>7, <1>9 DEF Appended, TipMoves

\* A torn store is bare.
LEMMA TornIsBare ==
    ASSUME NEW s, Torn(s)
    PROVE  Bare(s) /\ s.fin \in Block /\ Tip(s) = s.fin
  BY TornFacts, SentinelAssumption DEF Bare, Tip, Hash

\* Neither worker does anything on a torn store.
LEMMA TornStays ==
    ASSUME RootsNameBlocks, NodeInv, Torn(store),
           \/ \E b \in Block, sound \in BOOLEAN : ImportWorker(b, sound)
           \/ \E b \in OwnBlock, stage \in FailedAuthoring \cup {"done"} :
                 TimeslotWorker(b, stage)
    PROVE  store' = store
<1>1. ASSUME NEW b \in Block, NEW sound \in BOOLEAN, ImportWorker(b, sound)
      PROVE  store' = store
  <2>1. b # Genesis /\ store' = CliImportBlock(store, working, b, sound).store
    BY <1>1 DEF ImportWorker, Announced, Leaves
  <2>2. Unmoved(CliImportBlock(store, working, b, sound), store)
    BY <2>1, TornCliStep DEF NodeInv
  <2> QED BY <2>1, <2>2 DEF Unmoved
<1>2. ASSUME NEW b \in OwnBlock, NEW stage \in FailedAuthoring \cup {"done"},
             TimeslotWorker(b, stage)
      PROVE  store' = store
  <2>1. /\ Slot[b] > clock /\ Slot[b] > SlotOf(working)
        /\ Parent[b] = AuthoringParent /\ PriorRoot[b] = working.root
        /\ store' = ProduceBlock(store, working, b, stage).store
    BY <1>2 DEF TimeslotWorker, Leaves
  <2>2. b \in Block /\ Parent[b] \in Block
    BY <2>1, OwnBlockFacts
  <2>3. ProduceBlock(store, working, b, stage) = Result(FALSE, store, working)
    BY <2>1, <2>2, TornProduceStep
  <2> QED BY <2>1, <2>3 DEF Result
<1> QED BY <1>1, <1>2

\* A restart leaves the finalized block, also one after a crash in finalize().
LEMMA RestartShortensLine ==
    ASSUME LineInv, CrashIdle \/ \E b \in Block : CrashInFinalize(b)
    PROVE  /\ Bare(store')
           /\ CrashPoints # {} /\ store'.fin = store.fin /\ Tip(store') = store.fin
<1>1. finHead = store.fin
  BY DEF LineInv, NodeInv
<1>2. PICK db : store' = Opened(db, store.fin)
  BY <1>1 DEF CrashIdle, CrashInFinalize, Restarted
<1>3. CrashPoints # {}
  BY DEF CrashIdle, CrashInFinalize
<1> DEFINE o == Opened(db, store.fin)
<1>4. /\ o.fin = store.fin /\ o.head = None /\ o.tx = NoChanges
      /\ \A h \in Hash : o.cs[h] = Missing
  BY DEF Opened
<1> HIDE DEF o
<1>5. Bare(o) /\ Tip(o) = store.fin
  BY <1>4, SentinelAssumption DEF Bare, Tip, Hash
<1> QED BY <1>2, <1>3, <1>4, <1>5 DEF o

\* Every step of an orderly node moves the tip, restarts or changes no block.
LEMMA LineStep ==
    ASSUME RootsNameBlocks, Orderly, LineInv, [Next]_vars
    PROVE  /\ LineInv'
           /\ \/ store' = store
              \/ \E b \in Block : TipMoves(b)
              \/ CrashPoints # {} /\ store'.fin = store.fin /\ Tip(store') = store.fin
<1>1. NodeInv'
  BY NodeStep DEF LineInv, Orderly
<1>2. CASE CrashIdle \/ \E b \in Block : CrashInFinalize(b)
  BY <1>1, <1>2, RestartShortensLine DEF LineInv, InLine
<1>3. CASE UNCHANGED vars
  <2>1. store' = store /\ authored' = authored
    BY <1>3 DEF vars
  <2> QED BY <1>1, <2>1 DEF LineInv
<1>4. CASE \/ \E b \in Block, sound \in BOOLEAN : ImportWorker(b, sound)
           \/ \E b \in OwnBlock, stage \in FailedAuthoring \cup {"done"} :
                 TimeslotWorker(b, stage)
  <2>1. CASE Torn(store)
    <3>1. store' = store
      BY <1>4, <2>1, TornStays DEF LineInv
    <3>2. Bare(store)
      BY <2>1, TornIsBare
    <3> QED BY <1>1, <3>1, <3>2 DEF LineInv, InLine
  <2>2. CASE Intact(store, authored)
    <3>1. ASSUME NEW b \in Block, NEW sound \in BOOLEAN, ImportWorker(b, sound)
          PROVE  InLine(store', authored') /\ TipMoves(b)
      BY <2>2, <3>1, ImportExtendsLine
    <3>2. ASSUME NEW b \in OwnBlock, NEW stage \in FailedAuthoring \cup {"done"},
                 TimeslotWorker(b, stage)
          PROVE  InLine(store', authored') /\ TipMoves(b) /\ b \in Block
      BY <2>2, <3>2, AuthoringExtendsLine, NodeAssumption
    <3> QED BY <1>1, <1>4, <3>1, <3>2 DEF LineInv
  <2> QED BY <2>1, <2>2 DEF LineInv, NodeInv
<1> QED BY <1>2, <1>3, <1>4 DEF Next

\* The blocks that can be read are the finalized one and the tip.
LEMMA LineIsRead ==
    ASSUME NEW s, NEW sent, Intact(s, sent) \/ Torn(s), InLine(s, sent),
           Published(sent, s.fin)
    PROVE  /\ {b \in Block : CanAsDictAt(s, b)} = {s.fin, Tip(s)}
           /\ s.fin \in Block /\ Tip(s) \in Block
           /\ Tip(s) # s.fin => Tip(s) \notin Ancestry[s.fin]
<1>1. CASE Intact(s, sent)
  BY <1>1, TipIsRead, TipFacts DEF InLine
<1>2. CASE Torn(s)
  <2>1. s.fin \in Block /\ Tip(s) = s.fin
    BY <1>2, TornIsBare
  <2>2. \A b \in Block : CanAsDictAt(s, b) => b = s.fin
    BY <1>2, TornFacts DEF CanAsDictAt, CanFinalize, Pending
  <2>3. CanAsDictAt(s, s.fin)
    BY DEF CanAsDictAt
  <2> QED BY <2>1, <2>2, <2>3
<1> QED BY <1>1, <1>2

\* They are the accepted blocks of the tree, before and after a step.
LEMMA AvailableLine == LineInv => Available = {store.fin, Tip(store)}
  BY LineIsRead DEF LineInv, NodeInv, Available
LEMMA AvailableLineNext == LineInv' => Available' = {store'.fin, Tip(store')}
<1> SUFFICES ASSUME LineInv' PROVE Available' = {store'.fin, Tip(store')}
  OBVIOUS
<1>1. /\ Intact(store', authored') \/ Torn(store')
      /\ InLine(store', authored') /\ Published(authored', store'.fin)
  BY DEF LineInv, NodeInv
<1>2. {b \in Block : CanAsDictAt(store', b)} = {store'.fin, Tip(store')}
  BY <1>1, LineIsRead
<1> QED BY <1>2 DEF Available

\* A node that receives its blocks in order implements the abstract tree: the
\* handlers of import_block_cli and produce_block accept a valid child of an
\* accepted block and make only accepted blocks final, and neither a rejected
\* block, a failed authoring nor a restart, also one after a crash in
\* finalize(), does anything else to the tree.
THEOREM NodeRefinesForkTree ==
    ASSUME RootsNameBlocks, Orderly
    PROVE  Spec => RefinesForkTree
<1>1. Init => LineInv /\ Tree!Init
  <2> SUFFICES ASSUME Init PROVE LineInv /\ Tree!Init
    OBVIOUS
  <2> DEFINE o == Opened(Post[Genesis], Genesis)
  <2>1. Genesis \in Block /\ Post[Genesis] \in State
    BY TreeAssumption, StateAssumption
  <2>2. NodeInv /\ store = o
    BY NodeInit DEF Init
  <2>3. o.fin = Genesis /\ o.head = None /\ o.tx = NoChanges
        /\ \A h \in Hash : o.cs[h] = Missing
    BY <2>1, OpenedFacts
  <2> HIDE DEF o
  <2>4. Bare(o) /\ Tip(o) = Genesis
    BY <2>3, SentinelAssumption DEF Bare, Tip, Hash
  <2>5. LineInv
    BY <2>2, <2>4 DEF LineInv, InLine
  <2> QED BY <2>2, <2>3, <2>4, <2>5, AvailableLine DEF Tree!Init
<1>2. LineInv /\ [Next]_vars => LineInv' /\ [Tree!Next]_(Tree!treeVars)
  <2> SUFFICES ASSUME LineInv, [Next]_vars PROVE LineInv' /\ [Tree!Next]_(Tree!treeVars)
    OBVIOUS
  <2> DEFINE c == Tip(store)
             g == store.fin
  <2>1. LineInv'
    BY LineStep
  <2>2. Available = {g, c} /\ Available' = {store'.fin, Tip(store')}
    BY <2>1, AvailableLine, AvailableLineNext
  <2>3. CASE store' = store
    <3>1. Available' = Available
      BY <2>2, <2>3
    <3> QED BY <2>1, <2>3, <3>1 DEF Tree!treeVars
  <2>4. CASE CrashPoints # {} /\ store'.fin = g /\ Tip(store') = g
    BY <2>1, <2>2, <2>4 DEF Tree!Next, Tree!Restart
  <2>5. ASSUME NEW b \in Block, TipMoves(b) PROVE [Tree!Next]_(Tree!treeVars)
    <3>1. /\ Parent[b] = c /\ store'.fin = c
          /\ Available' = {c} \/ (Available' = {c, b} /\ Valid(b))
      BY <2>2, <2>5 DEF TipMoves
    <3>2. g \in Block /\ c \in Block /\ (c # g => c \notin Ancestry[g]) /\ c \in Ancestry[c]
      BY LineIsRead, SelfAncestor DEF LineInv, NodeInv
    <3> HIDE DEF c, g
    <3>3. CASE c = g /\ Available' = {c}
      BY <2>2, <3>1, <3>3 DEF Tree!treeVars, g
    <3>4. CASE c = g /\ Available' = {c, b} /\ Valid(b)
      <4>1. Tree!Accept(b)
        BY <2>2, <3>1, <3>4 DEF Tree!Accept, Tree!Valid, Valid, g
      <4> QED BY <4>1 DEF Tree!Next
    <3>5. CASE c # g
      <4>1. {a \in Available : c \in Ancestry[a]} = {c}
        BY <2>2, <3>2, <3>5
      <4>2. CASE Available' = {c}
        <5>1. Tree!Finalize(c, {})
          BY <2>2, <3>1, <3>5, <4>1, <4>2 DEF Tree!Finalize, g
        <5> QED BY <2>2, <5>1 DEF Tree!Next
      <4>3. CASE Available' = {c, b} /\ Valid(b)
        <5>1. Tree!Finalize(c, {b})
          BY <2>2, <3>1, <3>5, <4>1, <4>3 DEF Tree!Finalize, Tree!Valid, Valid, g
        <5> QED BY <2>2, <5>1 DEF Tree!Next
      <4> QED BY <3>1, <4>2, <4>3
    <3> QED BY <3>1, <3>3, <3>4, <3>5
  <2> QED BY <2>1, <2>3, <2>4, <2>5, LineStep
<1> QED BY <1>1, <1>2, PTL DEF Spec, RefinesForkTree, Tree!Spec
=============================================================================
