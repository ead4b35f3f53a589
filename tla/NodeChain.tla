------------------------------ MODULE NodeChain ------------------------------
(***************************************************************************)
(* A validator node (cli.py, run): the import worker and the timeslot      *)
(* worker of runtime/pipelines/accumulate.py take turns on one event loop. *)
(* Both finalize the parent of the block they handle.  Finality is         *)
(* persisted in two writes, the state batch in the state namespace and the *)
(* finalized_head key in the block namespace; a crash can fall in between. *)
(***************************************************************************)
EXTENDS PyjamazApp

CONSTANTS
    OwnBlock,        \* blocks this node is the author of
    InOrder,         \* TRUE: only children of the selected block arrive
    FailedAuthoring, \* the stages at which authoring a block may raise
    FailsAtStart,    \* TRUE: also before the process has finalized a block
    CrashPoints      \* where the process may stop

ASSUME NodeAssumption ==
    /\ OwnBlock \subseteq Block \ {Genesis}
    /\ InOrder \in BOOLEAN
    /\ FailedAuthoring \subseteq {"unsealed", "sealed"}
    /\ FailsAtStart \in BOOLEAN
    /\ CrashPoints \subseteq {"idle", "finalize"}

VARIABLES
    store,    \* app.state_storage, whose db survives a crash
    working,  \* app.working_state
    finHead,  \* block_db: finalized_head
    slotHash, \* block_db: block_hash:<slot>, the last block stored for a slot
    clock,    \* the last timeslot the timeslot worker was notified of
    authored  \* own blocks that were finished and sent to the peers

vars == <<store, working, finHead, slotHash, clock, authored>>

SlotOf(w) == w.content[TimeKey]

TypeOK ==
    /\ store \in Store
    /\ working \in JamState
    /\ finHead \in Block
    /\ slotHash \in [Val -> Block \cup {Missing}]
    /\ clock \in Val
    /\ authored \subseteq OwnBlock

Init ==
    /\ store = Opened(Post[Genesis], Genesis)
    /\ working = RetrieveJamState(store)
    /\ finHead = Genesis
    /\ slotHash = [t \in Val |-> IF t = Slot[Genesis] THEN Genesis ELSE Missing]
    /\ clock = Slot[Genesis]
    /\ authored = {}

-----------------------------------------------------------------------------
(* import_block_cli                                                        *)

\* The except clause: roll back, then reload the working state.
\* (RollBackStaleCache: a mutant that does not reload.)
RollBackStaleCache(r) ==
    IF r.ok THEN r ELSE Result(FALSE, Rollback(r.store), r.working)
RollBack(r) ==
    IF r.ok THEN r ELSE Reloaded(Rollback(r.store), r.working)

\* Finalize the parent, then import; any exception rolls back.
CliImportBlock(s, w, b, sound) ==
    IF ~CanFinalize(s, Parent[b]) /\ Parent[b] # s.fin
    THEN RollBack(Result(FALSE, s, w))
    ELSE RollBack(ImportBlock(Finalize(s, Parent[b]), w, b, sound))

\* What store_block adds to the slot index.
StoreBlock(b) == [slotHash EXCEPT ![Slot[b]] = b]

\* Blocks a peer can send: Genesis is on disk and never announced, and a
\* branch holds own blocks only if this node published them.
Announced(b) ==
    /\ b # Genesis
    /\ Ancestry[b] \cap OwnBlock \subseteq authored
    /\ InOrder => Parent[b] = IF store.head = None THEN store.fin ELSE store.head

\* The handler of block b ends with result r.
Leaves(r, b) ==
    /\ store' = r.store
    /\ working' = r.working
    /\ finHead' = r.store.fin
    /\ slotHash' = IF r.ok THEN StoreBlock(b) ELSE slotHash

\* _import_worker handles one block.
ImportWorker(b, sound) ==
    /\ Announced(b)
    /\ Deliverable(store, b, sound)
    /\ Leaves(CliImportBlock(store, working, b, sound), b)
    /\ UNCHANGED <<clock, authored>>

-----------------------------------------------------------------------------
(* _timeslot_worker and produce_block                                      *)

\* The parent that authoring builds on: the block stored for the slot of the
\* working state.
AuthoringParent == slotHash[SlotOf(working)]

\* A finished block joins the ancestors.
Added(r, b) ==
    IF r.ok THEN Result(TRUE, AddAncestor(r.store, b), r.working) ELSE r

\* state_transition(block, produce=True): a temporary hash is selected until
\* the seal fixes the header hash.
\* (AuthorCommitsEarly: a mutant that commits before the last stores.)
AuthorCommitsEarly(s, w, b, stage) ==
    LET sealed == UpdateTemporaryBlockHash(
                      SetTemporaryBlockHash(StartTx(s), Parent[b]), b)
    IN  IF stage = "done" THEN Added(Execute(sealed, w, b), b)
        ELSE Result(FALSE, Commit(Put(sealed, ServiceWrites(b))), w)
Author(s, w, b, stage) ==
    LET temporary == SetTemporaryBlockHash(StartTx(s), Parent[b])
        sealed    == UpdateTemporaryBlockHash(temporary, b)
    IN  CASE stage = "unsealed" -> Result(FALSE, temporary, w)
          [] stage = "sealed"   -> Result(FALSE, Put(sealed, ServiceWrites(b)), w)
          [] stage = "done"     -> Added(Execute(sealed, w, b), b)

Reload(r) == IF r.ok THEN r ELSE Reloaded(r.store, r.working)

\* Finalize the parent, author b, and on any exception reload the state.
ProduceBlock(s, w, b, stage) ==
    IF ~CanFinalize(s, Parent[b]) /\ Parent[b] # s.fin
    THEN Reloaded(s, w)
    ELSE Reload(Author(Finalize(s, Parent[b]), w, b, stage))

\* finalize() cuts the ancestry walk at the finalized block; until then the
\* walk runs on to bytes(32).
StageCanFail(b, stage) ==
    \/ FailsAtStart
    \/ stage # "unsealed"
    \/ Parent[b] # store.fin
    \/ store.parents[store.fin] = None

\* b is the block this node writes on this parent with this prior root.
TimeslotWorker(b, stage) ==
    /\ StageCanFail(b, stage)
    /\ b \in OwnBlock
    /\ Slot[b] > clock
    /\ Slot[b] > SlotOf(working)
    /\ Parent[b] = AuthoringParent
    /\ PriorRoot[b] = working.root
    /\ Leaves(ProduceBlock(store, working, b, stage), b)
    /\ authored' = IF slotHash'[Slot[b]] = b THEN authored \cup {b} ELSE authored
    /\ clock' = Slot[b]

-----------------------------------------------------------------------------
(* Stopping and starting again                                             *)

Restarted(db, head) ==
    /\ store' = Opened(db, head)
    /\ working' = RetrieveJamState(Opened(db, head))
    /\ finHead' = head
    /\ UNCHANGED <<slotHash, clock, authored>>

CrashIdle ==
    /\ "idle" \in CrashPoints
    /\ Restarted(store.db, finHead)

\* The process stops after state_storage.finalize and before
\* store_finalized_head.
CrashInFinalize(b) ==
    /\ "finalize" \in CrashPoints
    /\ b # store.fin
    /\ CanFinalize(store, b)
    /\ \E c \in Block : Parent[c] = b
    /\ Restarted(Finalize(store, b).db, finHead)

Next ==
    \/ \E b \in Block, sound \in BOOLEAN : ImportWorker(b, sound)
    \/ \E b \in OwnBlock, stage \in FailedAuthoring \cup {"done"} :
          TimeslotWorker(b, stage)
    \/ CrashIdle
    \/ \E b \in Block : CrashInFinalize(b)

Spec == Init /\ [][Next]_vars

-----------------------------------------------------------------------------
Available == {b \in Block : CanAsDictAt(store, b)}

\* The persisted state is the posterior state of the block that is recorded
\* as finalized: "Set to finalized state" (app.py, initialize).
FinalizedStateOnDisk ==
    store.fin = finHead /\ store.db = Post[finHead]

\* The persisted state is always the posterior state of one block, and of none
\* older than the block recorded as finalized: finalizing folds overlays in
\* order, whatever was rejected, left unfinished or lost in a crash before.
PersistedStateIsExact ==
    /\ store.fin = finHead
    /\ \E b \in Block : finHead \in Ancestry[b] /\ store.db = Post[b]

\* An overlay is either the whole effect of its block or nothing: no partial
\* transaction and no write of another block ever ends up in it, except the
\* empty overlay of a block whose authoring failed after it was sealed.
OverlaysAreWhole ==
    \A b \in Block : \/ store.cs[b] \in {Missing, NoChanges}
                     \/ b # Genesis /\ store.cs[b] = Delta(b)

\* The cached working state describes the selected state whenever the latter
\* can be read, so neither worker ever computes on the state of another branch.
CacheDescribesHead ==
    /\ working.content = Components(working.root)
    /\ Readable(store) => working = RetrieveJamState(store)

\* When a crash in finalize() leaves a newer state under an older finalized
\* head, the state root check stops every import and authoring: the storage
\* stays as it was opened, with no block accepted on, and no own block written
\* on, the wrong state.
NothingBuiltOnTornState ==
    store.db # Post[finHead] => store = Opened(store.db, finHead)

\* A delivery that does not move finality removes no accepted block.
AcceptedStayAvailable ==
    [][(store.fin)' = store.fin => Available \subseteq Available']_vars

\* A node that receives its blocks in order implements the abstract tree.
Tree == INSTANCE ForkTree
            WITH accepted <- Available, final <- store.fin, Anchor <- Genesis,
                 MayRestart <- CrashPoints # {}
RefinesForkTree == Tree!Spec
=============================================================================
