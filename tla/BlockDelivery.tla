---------------------------- MODULE BlockDelivery ----------------------------
(***************************************************************************)
(* How blocks reach the import of a node, composed with that import        *)
(* (NodeChain):                                                            *)
(*  - files of the block directory go through add_block and two workers,   *)
(*    _block_collect_worker and _import_worker, joined by queues           *)
(*    (runtime/pipelines/accumulate.py);                                   *)
(*  - blocks of the network go through import_block_from_bytes and         *)
(*    process_import_queue (app.py).                                       *)
(* Every block is delivered once and intact, in any order and at any pace.  *)
(* Two history variables note where the code takes a decision that it may  *)
(* have to regret; no action reads them.                                   *)
(***************************************************************************)
EXTENDS NodeChain, SequencesExt

CONSTANT Paths   \* how blocks may be delivered: "dir", "net"

ASSUME DeliveryAssumption == Paths \subseteq {"dir", "net"}

VARIABLES
    path,          \* how this node gets its blocks
    arrived,       \* blocks delivered so far
    stored,        \* block_db: block-by-hash
    collectQueue,  \* _block_collect_queue
    importQueue,   \* _import_queue
    collected,     \* collected_blocks: one waiting block per missing parent
    netQueue,      \* app.import_queue
    overtaken,     \* blocks judged while their parent was on the import queue
    dropped        \* blocks replaced while they waited, or taken too early or late

queues == <<collectQueue, importQueue, collected, netQueue>>
nodeVars == <<store, working, finHead, slotHash, clock, authored>>
history == <<overtaken, dropped>>
deliveryVars == <<nodeVars, path, arrived, stored, queues, history>>

DeliveryTypeOK ==
    /\ TypeOK
    /\ path \in Paths
    /\ arrived \subseteq Block /\ stored \subseteq Block
    /\ collectQueue \in Seq(Block) /\ importQueue \in Seq(Block)
    /\ collected \in [Block -> Block \cup {Missing}]
    /\ netQueue \in Seq(Block)
    /\ overtaken \subseteq Block /\ dropped \subseteq Block

DeliveryInit ==
    /\ Init
    /\ path \in Paths
    /\ arrived = {Genesis}
    /\ stored = {Genesis}
    /\ collectQueue = <<>> /\ importQueue = <<>> /\ netQueue = <<>>
    /\ collected = [b \in Block |-> Missing]
    /\ overtaken = {} /\ dropped = {}

-----------------------------------------------------------------------------
\* self.import_block on the node's variables, as a function of what it reads.
Imported(n, b) ==
    LET r == CliImportBlock(n.store, n.working, b, TRUE) IN
    [store |-> r.store, working |-> r.working,
     slotHash |-> IF r.ok THEN [n.slotHash EXCEPT ![Slot[b]] = b] ELSE n.slotHash,
     stored |-> IF r.ok THEN n.stored \cup {b} ELSE n.stored]

Node == [store |-> store, working |-> working,
         slotHash |-> slotHash, stored |-> stored]

\* The handler leaves the node in state n.
Becomes(n) ==
    /\ store' = n.store
    /\ working' = n.working
    /\ finHead' = n.store.fin
    /\ slotHash' = n.slotHash
    /\ stored' = n.stored
    /\ UNCHANGED <<clock, authored>>

-----------------------------------------------------------------------------
(* The block directory                                                     *)

\* _block_dir_listener finds a new file.
BlockDirListener(b) ==
    /\ path = "dir"
    /\ b \notin arrived
    /\ arrived' = arrived \cup {b}
    /\ collectQueue' = Append(collectQueue, b)
    /\ UNCHANGED <<nodeVars, path, stored, importQueue, collected, netQueue, history>>

\* Blocks waiting for b, for the block that waits for b, and so on: what the
\* while loop of the collect worker takes out, in that order.
\* (WaitingOnce: a mutant that takes one block.)
WaitingOnce(b) == IF collected[b] = Missing THEN <<b>> ELSE <<b, collected[b]>>
Waiting(b) ==
    LET next(seq) == IF collected[Last(seq)] = Missing THEN seq
                     ELSE Append(seq, collected[Last(seq)])
        grow[n \in 0..Cardinality(Block)] ==
            IF n = 0 THEN <<b>> ELSE next(grow[n - 1])
    IN  grow[Cardinality(Block)]

\* The blocks that wait once b, whose parent is unknown, joins them.
\* (NotParked: a mutant that drops it.)
NotParked(b) == collected
Parked(b) == [collected EXCEPT ![Parent[b]] = b]

\* _block_collect_worker: hand over a block whose parent is known together
\* with the blocks that waited for it, or keep it under its parent's hash.
BlockCollectWorker ==
    /\ collectQueue # <<>>
    /\ collectQueue' = Tail(collectQueue)
    /\ LET b == Head(collectQueue)
           ready == Waiting(b)
       IN  IF Parent[b] \in store.anc
           THEN /\ importQueue' = importQueue \o ready
                /\ collected' = [p \in Block |->
                       IF p \in ToSet(ready) THEN Missing ELSE collected[p]]
                /\ UNCHANGED history
           ELSE /\ collected' = Parked(b)
                /\ overtaken' = IF Parent[b] \in ToSet(importQueue) THEN overtaken \cup {b}
                               ELSE overtaken
                /\ dropped' = dropped \cup ({collected[Parent[b]]} \ {Missing})
                /\ UNCHANGED importQueue
    /\ UNCHANGED <<nodeVars, path, arrived, stored, netQueue>>

\* _import_worker
ImportQueueWorker ==
    /\ importQueue # <<>>
    /\ importQueue' = Tail(importQueue)
    /\ Becomes(Imported(Node, Head(importQueue)))
    /\ UNCHANGED <<path, arrived, collectQueue, collected, netQueue, history>>

-----------------------------------------------------------------------------
(* The network                                                             *)

\* process_import_queue: in slot order (sorted() is stable), skipping slots
\* already passed.
ProcessImportQueue(n, seq) ==
    LET before(i, j) ==
            Slot[seq[i]] < Slot[seq[j]] \/ (Slot[seq[i]] = Slot[seq[j]] /\ i < j)
        step(m, i) ==
            IF SlotOf(m.working) >= Slot[seq[i]] THEN m ELSE Imported(m, seq[i])
    IN  FoldLeft(step, n, SortSeq([i \in DOMAIN seq |-> i], before))

\* Blocks of seq that come before an ancestor is delivered, or that, or an ancestor
\* with them, come after their slot.
Mistimed(seq) ==
    {c \in ToSet(seq) : \E a \in Ancestry[c] \ stored :
        \/ a \notin (arrived \cup ToSet(seq)) \ dropped
        \/ SlotOf(working) >= Slot[a]
        \/ \E d \in ToSet(seq) \ {a} : Slot[d] = Slot[a]}

\* import_block_from_bytes, after the bootstrap request was sent.
ImportBlockFromBytes(b) ==
    /\ path = "net"
    /\ b \notin arrived
    /\ arrived' = arrived \cup {b}
    /\ IF Parent[b] \in stored
       THEN /\ netQueue' = <<>>
            /\ Becomes(ProcessImportQueue(Node, Append(netQueue, b)))
            /\ dropped' = dropped \cup Mistimed(Append(netQueue, b))
       ELSE /\ netQueue' = Append(netQueue, b)
            /\ UNCHANGED <<nodeVars, stored, dropped>>
    /\ UNCHANGED <<path, collectQueue, importQueue, collected, overtaken>>

DeliveryNext ==
    \/ \E b \in Block : BlockDirListener(b) \/ ImportBlockFromBytes(b)
    \/ BlockCollectWorker
    \/ ImportQueueWorker

\* The workers run whenever their queue holds a block: each is a task of its
\* own that only waits for its queue.  Taking a block off a queue is a step of
\* that queue's worker and of no other action.
Takes(queue) == queue # <<>> /\ queue' = Tail(queue)

Fairness ==
    /\ WF_collectQueue(Takes(collectQueue))
    /\ WF_importQueue(Takes(importQueue))

DeliverySpec == DeliveryInit /\ [][DeliveryNext]_deliveryVars /\ Fairness

-----------------------------------------------------------------------------
\* No import of b can succeed any more: finality has left its branch, or the
\* rollback of a failed import has taken the state of a stored ancestor with it.
Abandoned(b) == store.fin \notin Ancestry[b]
Undermined(b) ==
    \E a \in (Ancestry[b] \cap stored) \ Ancestry[store.fin] : ~CanAsDictAt(store, a)
OffChain(b) == Abandoned(b) \/ Undermined(b)

\* A block whose ancestors have all been delivered is imported and stored, for
\* every order and pace of arrival and every interleaving of the workers, unless
\* no import of it can succeed any more, or it or an ancestor met one of the gaps
\* of the code: judged while its parent was on the import queue (then nobody wakes
\* it), replaced by a sibling while it waited, taken off app.import_queue before
\* an ancestor was delivered or after its slot.
DeliveredBlocksAreStored ==
    \A b \in Block :
        Ancestry[b] \subseteq arrived
            ~> b \in stored \/ OffChain(b) \/ Ancestry[b] \cap (overtaken \cup dropped) # {}

\* At every moment a delivered block is stored, queued or waiting for its parent,
\* also one that was overtaken; only those that the code drops are nowhere, and
\* those that no import can add any more.
NoBlockIsLost ==
    \A b \in arrived :
        \/ b \in stored \cup ToSet(collectQueue) \cup ToSet(importQueue)
                   \cup ToSet(netQueue) \cup {collected[p] : p \in Block}
        \/ b \in dropped \/ OffChain(b)
=============================================================================
