---------------------------- MODULE StateStorage ----------------------------
(***************************************************************************)
(* class StateStorage (state/storage.py): a key-value engine holding the   *)
(* finalized state, one in-memory change set per unfinalized block, and    *)
(* the pending transaction of the block being executed.                    *)
(*                                                                         *)
(* An instance is a record s:                                              *)
(*   db       storage_engine, the persisted finalized state                *)
(*   fin      finalized_block_hash                                         *)
(*   head     block_hash, the selected block                               *)
(*   cs       change_sets, Missing where the dictionary has no key         *)
(*   parents  parents, Missing where the dictionary has no key             *)
(*   anc      the keys of ancestors (the headers are functions of them)    *)
(*   tx       transaction                                                  *)
(* A method is an operator from records to records; where it can raise, a  *)
(* predicate Can<Method> says when it does not.                            *)
(***************************************************************************)
EXTENDS BlockTree

Store ==
    [db : State, fin : Block, head : Hash \cup {None},
     cs : [Hash -> Changes \cup {Missing}],
     parents : [Hash -> Hash \cup {None, Missing}],
     anc : SUBSET Block, tx : Changes]

\* The keys of change_sets.
Retained(s) == {h \in Hash : s.cs[h] # Missing}

Pending(s) == s.tx # NoChanges

-----------------------------------------------------------------------------
(* Walking the parents dictionary.                                         *)

\* Blocks visited from block b, up to the first whose parent is unrecorded.
Linked(s, b) ==
    {a \in Ancestry[b] :
        \A c \in Ancestry[b] \ Ancestry[a] : s.parents[c] = Parent[c]}

\* The walk from b runs past Genesis to bytes(32).
ReachesZero(s, b) == \A c \in Ancestry[b] : s.parents[c] = Parent[c]

\* Blocks visited from any hash before the walk ends or meets bytes(32).
Chain(s, h) ==
    CASE h \in Block -> Linked(s, h)
      [] h = Zero /\ s.parents[Zero] \in Block -> Linked(s, s.parents[Zero])
      [] OTHER -> {}

\* "Cycle detected in retained state ancestry": bytes(32) is both the parent
\* of Genesis and the temporary hash of a block under production.
Cyclic(s, h) ==
    /\ s.parents[Zero] \in Block
    /\ \/ h = Zero /\ ReachesZero(s, s.parents[Zero])
       \/ /\ h \in Block
          /\ ReachesZero(s, h)
          /\ Linked(s, s.parents[Zero]) \cap Linked(s, h) # {}

\* Members of a chain that write key k, and the one nearest to its tip.
\* (OldestWins: a mutant that folds in the wrong order.)
Writers(s, chain, k) ==
    {a \in chain : s.cs[a] # Missing /\ s.cs[a][k] # Untouched}
OldestWins(writers) == CHOOSE w \in writers : \A a \in writers : w \in Ancestry[a]
Nearest(writers) == CHOOSE w \in writers : writers \subseteq Ancestry[w]

\* The change sets of a chain laid over the engine, the nearest one winning.
Overlaid(s, chain) ==
    [k \in Key |-> LET writers == Writers(s, chain, k) IN
        IF writers = {} THEN s.db[k] ELSE s.cs[Nearest(writers)][k]]

\* as_dict: what get returns for every key while no transaction is pending.
View(s, h) == Overlaid(s, Chain(s, h))

\* state_root and as_dict raise on a pending transaction, get on a cycle.
Readable(s) == ~Pending(s) /\ ~Cyclic(s, s.head)

-----------------------------------------------------------------------------
(* Reading a block's state without selecting it.                           *)

\* Blocks after the finalized one, up to and including b.
Unfinalized(s, b) == Ancestry[b] \ Ancestry[s.fin]

HasStateAt(s, h) == h = s.fin \/ h \in Retained(s)

\* Every block from b back to the finalized one is linked and has a change set.
OnFinalizedBranch(s, b) ==
    /\ s.fin \in Linked(s, b)
    /\ Unfinalized(s, b) \subseteq Retained(s)

CanAsDictAt(s, b) == b = s.fin \/ OnFinalizedBranch(s, b)
AsDictAt(s, b) == IF b = s.fin THEN s.db ELSE Overlaid(s, Unfinalized(s, b))

-----------------------------------------------------------------------------
(* Selecting a block and writing its change set.                           *)

AddAncestor(s, b) ==
    [s EXCEPT !.anc = @ \cup {b}, !.parents[b] = Parent[b]]

CanSetBlockHash(s, parent) ==
    /\ s.parents[parent] # Missing \/ parent \in {s.fin, Zero}
    /\ ~Pending(s)
SetBlockHash(s, h, parent) ==
    [s EXCEPT !.head = h, !.parents[h] = parent, !.cs[h] = NoChanges]

SetTemporaryBlockHash(s, parent) == SetBlockHash(s, Zero, parent)
UpdateTemporaryBlockHash(s, b) ==
    [s EXCEPT !.parents = [@ EXCEPT ![b] = s.parents[Zero], ![Zero] = Missing],
              !.cs = [@ EXCEPT ![b] = s.cs[Zero], ![Zero] = Missing],
              !.head = b]

StartTx(s) == [s EXCEPT !.tx = NoChanges]
Put(s, writes) == [s EXCEPT !.tx = writes]
Commit(s) == [s EXCEPT !.cs[s.head] = s.tx, !.tx = NoChanges]

Rollback(s) ==
    [s EXCEPT !.cs = IF s.head = None THEN @ ELSE [@ EXCEPT ![s.head] = Missing],
              !.tx = NoChanges]

CanDiscardCandidate(s, b, restore) ==
    /\ b # s.fin
    /\ s.head = b
    /\ restore = None \/ HasStateAt(s, restore)
DiscardCandidate(s, b, restore) ==
    [s EXCEPT !.cs[b] = Missing, !.parents[b] = Missing, !.anc = @ \ {b},
              !.tx = NoChanges, !.head = restore]

-----------------------------------------------------------------------------
(* Finalization.                                                           *)

CanFinalize(s, b) ==
    /\ ~Pending(s)
    /\ b = s.fin \/ OnFinalizedBranch(s, b)

\* Change sets kept when b becomes final: its strict descendants.
Kept(s, b) == {h \in Retained(s) \ Unfinalized(s, b) : b \in Chain(s, h)}

\* The engine after the batch that applies the branch of b to it.
\* (FlattenKeepsDeleted: a mutant that skips deleted items.)
FlattenKeepsDeleted(s, b) ==
    LET new == Overlaid(s, Unfinalized(s, b))
    IN  [k \in Key |-> IF new[k] = Absent THEN s.db[k] ELSE new[k]]
Flattened(s, b) == Overlaid(s, Unfinalized(s, b))

Finalize(s, b) ==
    LET kept == Kept(s, b) IN
    IF b = s.fin THEN s ELSE
    [s EXCEPT
        !.db = Flattened(s, b),
        !.fin = b,
        !.cs = [h \in Hash |-> IF h \in kept THEN s.cs[h] ELSE Missing],
        !.parents = [h \in Hash |-> CASE h = b -> None
                                      [] h \in kept -> s.parents[h]
                                      [] OTHER -> Missing],
        !.anc = @ \cap (kept \cup {b}),
        !.head = IF @ \in kept \cup {b} THEN @ ELSE b]

\* A new process: the engine persists, headers of the finalized chain are
\* loaded, nothing is selected (cli.py, initialize_app and run).
Opened(db, fin) ==
    [db |-> db, fin |-> fin, head |-> None,
     cs |-> [h \in Hash |-> Missing],
     parents |-> [h \in Hash |-> IF h \in Ancestry[fin] THEN Parent[h] ELSE Missing],
     anc |-> Ancestry[fin], tx |-> NoChanges]
=============================================================================
