----------------------------- MODULE BlockImport -----------------------------
(***************************************************************************)
(* Block import over competing branches without finalization: the session  *)
(* of fuzzer/v1/target.py, which imports through _import_block alone and   *)
(* answers state and refine requests for retained blocks.                  *)
(***************************************************************************)
EXTENDS PyjamazApp

CONSTANT Anchor   \* the header of the Initialize message

ASSUME AnchorAssumption == Anchor \in Block

VARIABLES
    store,       \* app.state_storage
    working,     \* app.working_state
    refineHead   \* _refine_head_hash

vars == <<store, working, refineHead>>

TypeOK ==
    /\ store \in Store
    /\ working \in JamState
    /\ refineHead \in Block

\* msg_initialize: the state and the ancestry of Anchor, nothing selected.
Init ==
    /\ store = Opened(Post[Anchor], Anchor)
    /\ working = RetrieveJamState(store)
    /\ refineHead = Anchor

\* msg_import_block
\* (MoveRefineHead: a mutant that follows rejected blocks too.)
MoveRefineHead(b, sound) ==
    /\ Deliverable(store, b, sound)
    /\ LET r == ImportBlock(store, working, b, sound) IN
          store' = r.store /\ working' = r.working /\ refineHead' = b
MsgImportBlock(b, sound) ==
    /\ Deliverable(store, b, sound)
    /\ LET r == ImportBlock(store, working, b, sound) IN
          /\ store' = r.store
          /\ working' = r.working
          /\ refineHead' = IF r.ok THEN b ELSE refineHead

Next == \E b \in Block, sound \in BOOLEAN : MsgImportBlock(b, sound)

Spec == Init /\ [][Next]_vars

-----------------------------------------------------------------------------
\* Blocks whose posterior state msg_get_state can answer with.
Available == {b \in Block : CanAsDictAt(store, b)}

\* Every available state is the posterior state of that block: whatever was
\* imported, rejected or re-imported in between, the overlay stack that
\* as_dict_at folds yields what executing the branch from the anchor yields.
AvailableStatesAreExact ==
    \A b \in Available : AsDictAt(store, b) = Post[b]

\* The cached working state is the state of the selected block, so that the
\* parent_state_root shortcut of initialize() and the sparse stores of
\* store_jam_state compare against what is really stored.
CacheDescribesHead ==
    /\ Readable(store)
    /\ working = RetrieveJamState(store)
    /\ store.head # None => working.root = Post[store.head]

\* RefineBundle can always read the state of the last imported block.
RefineHeadIsAvailable == refineHead \in Available

\* A rejected import removes no accepted block: another delivery, of whatever
\* quality, never makes an available state unavailable.
AcceptedStayAvailable == [][Available \subseteq Available']_vars

\* The import machinery implements the abstract tree of accepted blocks.
Tree == INSTANCE ForkTree
            WITH accepted <- Available, final <- store.fin, MayRestart <- FALSE
RefinesForkTree == Tree!Spec
=============================================================================
