----------------------------- MODULE PyjamazApp -----------------------------
(***************************************************************************)
(* The block handlers of class PyjamazApp (app.py) that work on the state  *)
(* storage s and on the cached JamState w = [root, content].               *)
(*                                                                         *)
(* No handler suspends between its first and its last statement (publish   *)
(* hands over without waiting), so each is one function of (s, w).  The    *)
(* result is a record [ok, store, working]; ok is FALSE when it raised.    *)
(*                                                                         *)
(* A delivered copy of a block is sound when its extrinsic hashes to       *)
(* header.extrinsic_hash and its slot is not ahead of the wall clock; both *)
(* can differ between two copies of one header hash.                       *)
(***************************************************************************)
EXTENDS StateStorage

CONSTANT CorruptHeadCopy  \* TRUE: an unsound copy of the selected block may arrive

ASSUME CorruptHeadCopyAssumption == CorruptHeadCopy \in BOOLEAN

\* parent_state_root of a header may be a root that no block has.
Root == State \cup {PriorRoot[b] : b \in Block}
JamState == [root : Root, content : [CompKey -> Val \cup {Absent}]]

Result(ok, s, w) == [ok |-> ok, store |-> s, working |-> w]

\* The JamState of the selected block; raises unless Readable(s).
RetrieveJamState(s) ==
    [root |-> View(s, s.head), content |-> Components(View(s, s.head))]

\* self.working_state = self.retrieve_jam_state(): kept when the call raises.
Refreshed(s, w) == IF Readable(s) THEN RetrieveJamState(s) ELSE w

\* A handler that failed and reloaded.
Reloaded(s, w) == Result(FALSE, s, Refreshed(s, w))

\* initialize(header) after the block is selected: reload only on a new root.
Initialized(s, w, b) ==
    IF PriorRoot[b] # w.root THEN Refreshed(s, w) ELSE w

\* The transition functions run on the cached components and on the service
\* keys of the selected block.
PostContent(b, content) ==
    [k \in CompKey |-> IF Writes[b][k] = Untouched THEN content[k] ELSE Writes[b][k]]
ServiceWrites(b) ==
    [k \in Key |-> IF k \in SvcKey THEN Writes[b][k] ELSE Untouched]

\* store_jam_state(previous_state): only components that differ are written.
StoreJamState(b, previous, content) ==
    [k \in Key |-> IF k \in SvcKey THEN Writes[b][k]
                   ELSE IF content[k] # previous[k] THEN content[k] ELSE Untouched]

\* The copies a peer may deliver.
Deliverable(s, b, sound) == sound \/ CorruptHeadCopy \/ b # s.head

\* The header checks that come before anything is touched.
KnownParent(s, b) == Parent[b] \in s.anc
\* (RefusedWithoutSlot: a mutant without the timeslot check.)
RefusedWithoutSlot(s, b, sound) == ~sound \/ ~KnownParent(s, b)
Refused(s, b, sound) ==
    \/ ~sound
    \/ ~KnownParent(s, b)
    \/ Slot[b] <= Slot[Parent[b]]

\* The new root is computed once the transaction is committed.
Rooted(s, w, content) ==
    IF Readable(s)
    THEN Result(TRUE, s, [root |-> View(s, s.head), content |-> content])
    ELSE Result(FALSE, s, [w EXCEPT !.content = content])

\* The rest of state_transition once b is selected with its parent state in w:
\* the transition functions, the stores, the commit and the new root.
Execute(s, w, b) ==
    LET content == PostContent(b, w.content) IN
    IF Defect[b] = "stf" THEN Result(FALSE, s, w)
    ELSE IF Defect[b] = "late" THEN Result(FALSE, Put(s, ServiceWrites(b)), w)
    ELSE Rooted(Commit(Put(s, StoreJamState(b, w.content, content))), w, content)

\* The check of parent_state_root against the cache w, then the execution.
Checked(s, w, b) ==
    IF w.root # PriorRoot[b] THEN Result(FALSE, s, w) ELSE Execute(s, w, b)

\* (TransitionWithoutRoot: a mutant without the parent_state_root check.)
TransitionWithoutRoot(s, w, b, sound) ==
    LET selected == SetBlockHash(StartTx(s), b, Parent[b])
    IN  IF Refused(s, b, sound) \/ ~CanSetBlockHash(StartTx(s), Parent[b])
        THEN Result(FALSE, s, w)
        ELSE Execute(selected, Initialized(selected, w, b), b)

\* state_transition(block, produce=False)
StateTransition(s, w, b, sound) ==
    LET selected == SetBlockHash(StartTx(s), b, Parent[b]) IN
    IF Refused(s, b, sound) THEN Result(FALSE, s, w)
    ELSE IF ~CanSetBlockHash(StartTx(s), Parent[b]) THEN Result(FALSE, StartTx(s), w)
    ELSE Checked(selected, Initialized(selected, w, b), b)

\* Where a rejected import returns to.
RestoreHash(s, b) ==
    CASE s.head # b -> s.head
      [] s.head = b /\ HasStateAt(s, Parent[b]) -> Parent[b]
      [] OTHER -> None

\* The except clause of _import_block, run on what state_transition left.
\* discard_candidate may raise itself, and then the refresh is skipped.
\* (RecoverStaleCache: a mutant without the refresh.)
RecoverStaleCache(r, b, restore) ==
    IF CanDiscardCandidate(r.store, b, restore)
    THEN Result(FALSE, DiscardCandidate(r.store, b, restore), r.working) ELSE r
Recover(r, b, restore) ==
    IF r.store.head # b THEN Reloaded(r.store, r.working)
    ELSE IF CanDiscardCandidate(r.store, b, restore)
    THEN Reloaded(DiscardCandidate(r.store, b, restore), r.working)
    ELSE r

\* _import_block: transition, then the header joins the ancestors.
Concluded(r, b, restore) ==
    IF r.ok THEN Result(TRUE, AddAncestor(r.store, b), r.working)
    ELSE Recover(r, b, restore)
ImportBlock(s, w, b, sound) ==
    Concluded(StateTransition(s, w, b, sound), b, RestoreHash(s, b))
=============================================================================
