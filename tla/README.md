# A formal model of pyjamaz

pyjamaz is a JAM node in Python. This directory holds a TLA+ model of its core,
the TLC runs that check it on small instances and TLAPS proofs that carry the
main results to every instance. `PROJECT.json` lists components, runs, mutants,
the map from definitions to source lines, findings, hazards and theorems.

## 1. The system

| Part | Source | State it keeps | Operations |
|---|---|---|---|
| State storage | `state/storage.py` | finalized key-value engine, one change set per unfinalized block, parent links, ancestor headers, a pending transaction, the selected block | select, get/put, commit, rollback, discard a candidate, finalize, read at a block |
| Application | `app.py` | the cached `working_state` (a JamState with its state root), the network import queue | state transition, import, produce, finalize, import queue |
| Fuzzer target | `fuzzer/v1/` | refine head hash | initialize, import, get state, refine |
| Node | `cli.py`, `runtime/node_runtime.py` | block database (headers, slot index, finalized head) | start, restart, import with finalization |
| Accumulate pipeline | `runtime/pipelines/accumulate.py` | three queues and the blocks that wait for a parent | directory listener, collect, import and timeslot workers |
| Extrinsic collector | `runtime/extrinsics.py` | own tickets of three epochs, and tickets, guarantees, assurances and preimages not yet in a block | add, collect, epoch change |
| Refine and assurance pipelines | `runtime/pipelines/` | work packages in progress | refine, guarantee, assure |
| Transition functions | `state/components.py`, `state/base.py` | 17 state components | one `state_transition` each |
| Accumulation | `accumulation.py`, `models/context.py`, `models/state.py` | service accounts with pending changes, offices of services | rounds, merge, transfers, preimages |
| Host calls | `hostcalls/` | accumulation context with its checkpoint; inner machines of a refinement | one function per call |
| PVM | `pvm/` | registers, memory with access rights, gas, a cache of block costs; three interpreters (`graypaper`, `cpython`, `numba`) chosen by a setting | instructions, jumps, loads and stores, exits, price of a block |
| RPC, transport | `rpc/`, `transport/` | subscriptions, streams | requests, announcements |
| Codec, hashing, signing, merkle | `models/`, `hashing.py`, `signing.py`, `merkle.py` | none | pure functions |

How they interact: files and network messages become blocks; the pipeline's
workers, tasks of one event loop, hand them to `PyjamazApp.import_block`, which
finalizes the parent and runs the transition functions on the state storage.
The timeslot worker of the same loop authors blocks on the same storage. The
working state is shared by both. Queues join the workers; pub/sub carries
announcements outwards and never waits.

What is hard: rejection in the middle of an import (undo selection, links,
writes and cache together); several branches over one finalized state; a cache
that is reused when a state root matches; blocks out of order, twice or damaged;
authoring that fails at any stage; crashes between two writes; workers that read
what another worker changes later; epochs that change while slots are skipped and
validators are replaced; services that change the same offices in parallel; three
implementations of one machine that must not differ in a single bit or unit of gas;
inner machines that are stopped in the middle of a block and invoked again. The hazards are listed with their lines in
`PROJECT.json`.

What makes each part correct: a retained state is what executing its branch
yields; rejected blocks leave no trace; the cache describes the selected block;
the persisted state belongs to the finalized block; finality only moves to
descendants; a delivered block whose ancestors were delivered is imported; a work
package is accumulated once and after its dependencies; after a merge footprints,
balances and maps of the accounts agree; an office passes on only by the choice of
those who may decide; whoever wins a slot can seal it, offenders lose their keys
and verdicts stay; the interpreters agree; every block of code is priced, paid once,
and an instruction that faults can be repeated.

## 2. Modules

| Module | Models |
|---|---|
| `BlockTree` | the blocks that can exist: parent, slot, claimed prior root, writes and posterior state, as constants with their assumptions |
| `StateStorage` | class `StateStorage`, a method per operator on a record |
| `PyjamazApp` | `initialize`, `retrieve_jam_state`, `store_jam_state`, `state_transition`, `_import_block`, as functions of storage and cache |
| `ForkTree` | the abstract specification: a tree of accepted blocks over the finalized one |
| `BlockImport` | the session of the fuzzer target (no finalization) |
| `NodeChain` | the validator node: import with finalization and rollback, authoring, restart, crash |
| `BlockDelivery` | the pipeline's queues and workers and the network queue, composed with `NodeChain`'s import |
| `ReportQueue` | pure functions: `edit_queue`, `priority_queue`, the report lists of a block, the gas loop of accumulation, the next accumulation queue and history |
| `ReportLifecycle` | the abstract specification of a work package's life |
| `WorkReports` | guarantees, assurances, verdicts, recent history, accumulation queue and history over a chain of blocks |
| `ServiceAccounts` | service accounts, their footprint and threshold, and the host calls that change them, as guards and functions of an invocation context |
| `Accumulation` | a block's rounds of invocations, the merge of their pending changes, deferred transfers and preimages |
| `Privileges` | manager, assigners, delegator and registrar: `bless`, `assign`, `designate`, `checkpoint`, panic, and the merge of offices and queues in `parallel_accumulation` |
| `Safrole` | pure functions: entropy, rotation of the validator sets, tickets, the sealing series, the markers, assignments of guarantors |
| `Disputes` | pure functions: validation of verdicts, culprits and faults, and the next dispute state |
| `Consensus` | a validator that imports and authors blocks through several epochs: `Safrole` and `Disputes` composed with the node's own tickets and the timeslot worker |
| `PVMWords` | words, their signed and unsigned readings and the arithmetic helpers of each interpreter |
| `PVMGraypaper`, `PVMCPython`, `PVMNumba` | the instructions that compute, one module per interpreter |
| `PVMInstructions` | the three interpreters side by side on the same sequence of instructions |
| `GasModel` | `calculate_block_gas`, the pipeline simulation that prices a block |
| `PVMCode` | instruction boundaries, basic blocks, validity of code, jump targets, prices |
| `PVMMemory` | pages with access rights, loads and stores; the record of a machine and its exits |
| `PVMRunGraypaper`, `PVMRunCPython`, `PVMRunNumba` | control flow, memory instructions and exits, one module per interpreter |
| `PVMMachines` | `machine`, `peek`, `poke`, `pages`, `invoke`, `expunge` of a refinement, run on three nodes that differ in the interpreter |
| `MCBlockTree` and `MC...` | instances for TLC |
| `StateStorageProofs`, `BlockImportProofs`, `NodeChainProofs`, `AccumulationProofs`, `ConsensusProofs`, `GasModelProofs`, `WorkReportsProofs` | the proofs |
| `SumTheorems` | facts about sums over finite sets that two of the proofs need |

Abstractions. A state root is the state it commits to; a header hash is the
block. State is split into component keys, which a JamState object holds and
`store_jam_state` writes sparsely, and service keys, which are written straight
to the storage. What the transition functions compute is a constant per block
(`Writes`, `Post`); where they reject is the constant `Defect` ("stf": before
anything is written, "late": after service writes). Handlers do not suspend
between the first and the last change of storage and cache, since `publish`
hands over without waiting, so each is one step. Walks along the parent links
are given by the constant `Ancestry`, cut where a link is unrecorded; `bytes(32)`
is both the parent of Genesis and the temporary hash of a block under
production, and the cycle this can close is modelled (`Cyclic`).
`WorkReports` takes one step per valid block, in the order of
`PyjamazApp.state_transition`: what makes a block invalid otherwise is the
subject of `BlockImport`. A report is its package; a package is built for one
core and binds the newest block as its anchor when it is first reported, because
the anchor is under its hash and an older one only expires sooner. Sizes, roots,
signatures and assignments are right in a valid block. Whether enough assurers
vouch for a core is the input `assured`, which reports verdicts cancel the input
`rejected`. A round of accumulation may use any part of the gas it reserved.
`height`, `anchor`, `availableAt` and `done` are history variables.
`Accumulation` takes one step per host call: a service's code is any sequence of
the calls its `Program` allows, ended by a halt or a panic, and running out of
gas is a panic. Accounts and maps are one function from keys to values. Two
contexts per invocation, the current one and the one of the last checkpoint,
hold pending changes, transfers and provided preimages. `sent` collects the transfers
of the services that have run, in their order. Services of a round run
one after the other on the same committed values; the thread pool adds nothing,
as no service sees another before the merge. Reads, `yield`, `last_accumulation_slot`,
memos and minimum gas are left out, and a call that returns an error code changes
nothing. A request names a hash and a length, any of `Length`; only the one with the
length of the preimage (`Answerable`) can be provided for, and forgetting a request of
another length deletes the preimage of the hash too, as `hc_forget` does. Codes of new
services are preimage hashes, and `upgrade` takes codes from `UpgradeCode`, which may
name a service as the one that may eject. Manager and registrar are constants here and
change in `Privileges`. A block that is refused or abandoned
ends the behaviour, since discarding it is the subject of `BlockImport`.
`Privileges` leaves accounts out; contents of the two kinds of queue are names. A
service of the round makes any calls in any order, on its own copy, and the merge
is one step.
`Consensus` keeps the components that decide who may author and judge, one step
per block. A ticket is its owner, its entropy and its attempt; its rank (the output
of the ring proof) is a fixed function of these, the draw of the fallback keys one
of the entropy. Signatures are a flag of the evidence, right in tickets and seals.
Of services, only `designate` is present, as a validator queue that a block may
bring. The clock announces slots to a queue that `_timeslot_worker` empties, and
blocks of others, with any of the tickets, disputes and designations of the instance
together, arrive at any moment between.
The PVM is modelled with bytes of `B` bits instead of eight: a word has 8`B` bits,
a half word 4`B`. Everything the code writes with 8, 16, 32 or 64 is written with the
same number of bytes, so sign bits, carries, masks and wrap-around are where they
are in the code, and the differences between interpreters that depend on them stay.
What an operator of each interpreter computes follows that interpreter's own way:
unbounded integers with masks in `cpython`, machine words with casts and half-word
products in `numba`. An encoded program is a sequence of cells, one per byte, with
the decoded instruction in the first cell of each; argument bytes are opaque. The
program of the outer machine is any sequence of host calls with the arguments of the
constants. `diverged` and `undefined` are set when an instruction runs on which the
interpreters are known to differ (section 6), and exempt what follows.
`GasModel` has one representative of each row of the cost table and takes one step
per decoded, started or finished instruction or elapsed cycle; `writer` and `depth`
record the data flow for the properties. It prices blocks that end in a terminator:
`calculate_block_gas` raises a ValueError otherwise, but the interpreters ask it only
for basic blocks of code that `decode_instructions` found valid, up to its final
terminator (`code_valid` of `PVMCode`).
Definitions whose comment says "mutant", "a bug" or "as if" are altered
copies of the definition below them, used to see that the properties notice.

## 3. Runs

| Run | What it checks | Result |
|---|---|---|
| `BlockImport` | exact states, coherent cache, refine head, refinement of `ForkTree` | holds, proved |
| `NodeChain` | persisted state, whole overlays, coherent cache, a torn store stays as it was opened | holds, proved |
| `NodeChain_inorder` | refinement of `ForkTree` when blocks extend the selected one | holds, proved |
| `BlockDelivery` | no block is lost and every block whose ancestors arrived is stored, but for the gaps of section 6 | holds |
| `WorkReports` | a package is in one place, accumulated at most once and after its dependencies, waits an epoch; refinement of `ReportLifecycle` | holds, proved |
| `Accumulation` | footprints are exact, accounts solvent, nothing outlives its account, wealth is kept to the unit, lookups of recent slots are stable | holds; all but wealth proved |
| `Accumulation_forget` | a round in which a service only forgets an available preimage | violated, see findings |
| `Privileges` | offices go where the manager or else the holder decides, services without office change nothing | holds |
| `Consensus` | tickets of the contest are usable and beaten only by better ones, announced series are used, offenders retire, verdicts are final, statistics add up, previous guarantors are the real ones, own blocks verify | holds, proved |
| `PVMInstructions` | the interpreters compute the same, division is exact | holds |
| `GasModel` | renaming follows the data, units are conserved, the price covers the critical path, every block is priced | holds; all but the last, which is liveness, proved |
| `PVMMachines` | the nodes stay equal, gas is accounted, faults leave no trace, invocations end | holds |

The type invariants of the modules (`TypeOK`, `DeliveryTypeOK`) document the
variables; the one of `BlockImport` is proved. They hold in the runs' instances,
but the runs check what is listed above.

Instances. The tree of `MCBlockTree` has 14 blocks: two branches at the root,
same-slot siblings, branches four deep, a block that deletes a key, one that
restores a value, one that rewrites the same value, and faulty blocks of each
kind (wrong prior root, slot not after the parent, failure before and after
service writes) both on and off the selected branch. With a shorter branch no
key is written twice in an unfinalized branch; with fewer siblings no rejected
block competes with an accepted one. `MCBlockDelivery` is a chain of four blocks
after Genesis, long enough for a parked block to wait for a parked block and
for a gap between two queued ones, and a fifth that competes with the third, in a
slot between those of the third and the fourth. Files and messages arrive in any order
and at any pace, so bursts, siblings that wait for the same parent and slots that have
passed occur; slots are distinct. The code has gaps there (section 6), and two history
variables tell which blocks met one: `overtaken` holds those that the collect worker
judged while their parent was on the import queue, `dropped` those replaced by a
sibling while they waited and those taken off the network queue before an ancestor was
delivered or after their slot. `OffChain` blocks are those that no import can add,
because finality went another way or a rollback took the state of a stored ancestor
(`cli.py:104`). The properties speak of all other blocks, and `NoBlockIsLost` of
overtaken ones too: they wait for ever, but they are there. State spaces are finite
without further bounds, as blocks are.

`MCWorkReports` has five packages on three cores, a chain of dependencies of
length three among them, and gas for the packages of one block only if every
report fits at exactly the limit. An epoch has three slots, blocks skip up to
one, two blocks are remembered, reports time out after two slots and the
validator set may shrink, which closes a core. Slots end at `MaxSlot` = 5, hence
no deadlock check: every window has then been filled, emptied and wrapped
around. `ReportAssumption` asks for EpochTimeslots >= History +
ReplacementPeriod - 1. It is needed: with one slot less the run violates
`NoStaleDependency`, since a dependency can leave the accumulation history while
a report that names it still waits on a core. The tiny configuration of the code
(12, 8, 5) meets the bound exactly.

`MCAccumulation` has a service that is manager and registrar and may eject a dead
service, make it again under the same id, pay, provide, make services and checkpoint;
one that writes, solicits, forgets, upgrades and makes services; and a ring of five
public ids (with four, the step of 42 ids that `new` takes and the ids in use would not
leave a free one for every search, see section 4). Requests have lengths one and two,
and preimages length one, so a hash may have a second request that cannot be answered.
Balances are just above the sum of two thresholds, so that the second of two calls can be
the one that is refused. One request was forgotten exactly `Expunge` slots before
the first of two blocks, so both sides of the limit occur. `MaxCalls` = 3
successful calls suffice for an ejection and the reuse of the id, in the same invocation
or a later round, for a request of another length that is solicited and forgotten, or
for a new service whose code is provided in the same round. Two properties name an
exception that the instance meets. A service that ejects and recreates an id in one
invocation leaves the old account with its balance and keeps what it gained: so says the
docstring of `_merge_accumulation_service_changes`, and
`test_foreign_eject_and_recreate_preserves_prior_account` demands it. `WealthIsKept`
says that wealth grows then by exactly that (`Gained`) and never otherwise. A service
that solicits and forgets a hash under another length loses the preimage at once
(section 6); `LookupIsStable` says that a lookup turns from yes to no in such a round only, and
never from no to yes. Behaviours end with the last slot, hence no deadlock check.
291,885 states.

`NodeChain` has switches for behaviours that lead to known deviations, so that
the others can be checked apart. `CorruptHeadCopy` admits damaged copies of the
selected block, `CrashPoints` the crash in `finalize`, `FailsAtStart` authoring
that fails before the first finalization of a process (the temporary hash then
hangs on a chain that ends in `bytes(32)`, reads raise, and a following import
leaves a cache whose root and content disagree). `BlockImport` assumes that a header with a wrong prior root does
not name the root of some other block (`RootsNameBlocks`). What happens when these
are changed is listed in section 6.

`MCConsensus` has epochs of four slots with a contest of three, two guarantor
rotations per epoch, six validators of whom three take part in the contest (this
node among them), and a designated set of nine in which this node has another index.
Eight slots are two whole epochs and the begin of a third, so a ticket passes from
contest to announcement to seal, a designated set from queue to pool and the old one
to the archive; epochs may be skipped, and the clock may run one slot ahead of
the worker (`MaxQueued` = 1). The disputes offered are a bad report with its
guarantor, an undecided one, a good one of the epoch before with a false auditor
(both about the same report, so the second must be refused), and evidence without a
verdict. One proof per ticket (`Proofs`): see section 6. 81,251 states.

`MCPrivileges` has four services and two cores. The manager is registrar too, the
assigner of one core is before and the delegator after it in the order of ids, and
one service has no office. Two rounds and three successful calls suffice for an
appointment and its use, for a blessing and a resignation in one round and for a
call after a checkpoint that a panic undoes. 516,728 states.

The run `PVMInstructions` takes every pair of words of eight one-bit bytes, every
instruction, and every value an accumulator can reach. With one-bit bytes a half
word has a sign bit of its own and a product of halves carries, which is where
the interpreters use different methods. 531 states, each with all operands.

`MCGasModel` prices every block of up to three instructions and a terminator out of
13 instructions over three registers: each execution unit, decode costs of one to
four slots and moves whose registers overlap in all ways. The reorder buffer has
three entries, so it fills; `MaxCycles` is above the longest simulation.
189,980 states.

`MCPVMMachines` has ten small programs: loops with a store, dynamic jumps back, to
themselves, into a block and to the halt address, accesses across pages, jumps that
load their own register, a full-width immediate, code that is not valid, a jump
out of the code. Memory has eight pages of two bytes, the first two of them
guarded; gas for up to eight units and budgets of one and three, so that
a machine runs out in and between blocks. One machine at a time, expunged and
made again. 98,949 states.

Fairness. `BlockDelivery`: the collect and the import worker are tasks of the event
loop that wait for nothing but their queue, hence weak fairness of taking a block
off each queue. Arrival is not fair. `GasModel`: the simulation is a sequential loop,
hence weak fairness of its steps. That invocations end is stated without fairness,
as a measure that every step lowers. Deadlock is not checked where the system may
stop: when the blocks, slots, calls or instructions of a finite instance are used
up.

## 4. Proofs

`StateStorageProofs` shows, for every tree, that folding the change sets of a
branch over the finalized state yields the posterior state of its tip
(`BranchExact`, by a least counterexample on the height) and that in a connected
store every block with state is linked to the finalized one (`ConnectedBranch`).

`BlockImportProofs` proves the properties of `BlockImport` for every block tree
and every session, from the assumptions of `BlockTree`, from `RootsNameBlocks`
and without `CorruptHeadCopy` (both needed, see section 6). The
properties are not inductive: that a rejected block leaves exact states needs
that it had no state before, which needs that every block with state is valid
and hangs on one with state. `SessionInv` is the conjunction

- every change set is the whole overlay of its block and its parent has state,
- no transaction is pending and no temporary hash is in use,
- known headers are those of blocks with state or of finalized ancestors,
- blocks with state are valid,
- the selected block has state and the cache is its state.

`ImportStep` takes `_import_block` through its cases: refused before it starts,
the finalized block again, a root mismatch, a failure before or after service
writes, and success. From it follow `TypeCorrect`, `StatesAreExact`,
`CacheIsCoherent`, `RefineHeadReadable` and `ImportRefinesForkTree`. Four of them state properties that the
run `BlockImport` checks on its instance.

`NodeChainProofs` proves the four invariants of the run `NodeChain` for every block
tree, every set of own blocks and every crash, from the assumptions of `BlockTree`,
from `RootsNameBlocks` and without `FailsAtStart` (both explained in section 3);
damaged copies of the selected block and crashes in `finalize` are included. `NodeInv`
says that the store is `Intact` or `Torn`:

- intact: the database is the posterior state of the finalized block; every retained
  change set is the whole effect of a valid block, or the empty one of an own block
  whose authoring failed, and only published blocks get children; the branch of the
  selected block is linked to the finalized one; `bytes(32)` hangs on the finalized
  block, whose ancestry is then cut, so that no read runs in a circle;
- torn: a crash between the two writes of `finalize` has left the state of a
  descendant, and the store is exactly as it was opened.

Rollbacks remove change sets in the middle of branches, so the invariant cannot ask
that every block with a change set be readable, as that of `BlockImport` does; it asks
so of the selected branch only. `PersistedStateHolds`, `OverlaysHold`, `CacheHolds`
and `TornStateStaysBare` follow. The last means that on a torn store the node never
imports, authors or finalizes anything.

`NodeRefinesForkTree` proves the property of the run `NodeChain_inorder`, crashes in
`finalize` included. Its hypothesis `Orderly` is what the configuration of that run
says: peers send children of the selected block, authoring may stop before the seal
but not after it, and own blocks execute. Out of order the node drops accepted blocks
(section 6); an own block that fails after the seal leaves an empty change set, which
counts as accepted though the block never was finished. `LineInv` adds to `NodeInv`
that the store never forks: either no block above the finalized one has a change set,
or only the selected one has, and it is a published valid child of the finalized
block. So the accepted blocks of the tree are the finalized block and the tip; a
handler finalizes the tip and makes its block the new one or rolls back to the tip
(`CliAppends`, `ProduceAppends`), a restart falls back to the finalized block, and a
torn store is not moved by either worker (`TornStays`).

`AccumulationProofs` proves the three invariants of the run `Accumulation`, and that
lookups are stable, for any services, programs, amounts and number of blocks. Its
assumptions are those that TLC evaluates on the instance: accounts are sound at the
start, and public ids do not run out (`AccumulationAssumption`; the code has 2^32
less 2^16 of them, and `check_service_id` would recurse for ever without one). The
properties are about committed values, but a merge takes values from contexts, so
`AccumulationInv` says that committed values are `Sound` and that every context a
merge may still take (current, checkpoint, finished) leaves sound values on top of
them. Soundness joins the three properties because they need each other: `eject`
looks at two counters and one request only, and leaves no orphans because the
counters are exact. A new account does not overwrite one in use because the free id
found earlier is still free in this context, and the search finds one by a count:
each call uses up one id at most (`IdsOK`), and 42 modulo the number of ids is not
zero, so the search does not begin at the id just used. Two services may still find the
same id; the merge refuses that, and then every key has one source (`SourceUnique`).
Sums of octets are handled by the lemmas of `SumTheorems` on `SumFunction`, of which only
the recursion is known to the prover: that it has one solution, and that a sum splits,
are proved by a least set on which they fail. `LookupsHold` adds that a context answers recent
lookups of its service as the committed values do (`LookupsOK`), unless it changed a
request of another length for the hash: then a yes may have become a no, and only that.

`ConsensusProofs` proves all eight properties of the run `Consensus` for any number of
validators and cores, any length of epoch that the rotation period divides and any
sequence of blocks, skipped slots and epochs. The assumptions are
`DisputesAssumption` (signed evidence does not name the null key, which
`check_offenders` puts in place of an offender) and `HashesAssumption` (hashes are
ordered as integers). `OffendersRetire`, `VerdictsStay` and `GuarantorsAreKnown` rest on
`ConsensusInvariant`, which dates every report against a validator and says that no
report has two verdicts. That the guarantors of the previous rotation are recomputed
right needs that an epoch is a whole number of rotations; otherwise a rotation would
straddle two validator sets.

The contest for tickets has an invariant of its own, `ContestInvariant`:

- `ContestIsUsable`: the accumulator is in the order of ranks, its tickets have the
  entropy and the pending set they will be used with;
- `SeriesIsUsable`: the same of the series, with the pool; a fallback series has keys
  of the pool only;
- `MarkIsExact`: the marker seen in this epoch is the contest outside in, if the contest
  is closed and full, and no marker otherwise;
- `CollectorIsOwn`: the node's own lists hold tickets of this node.

The marker and the series are decided in different blocks, so `SeriesIsAnnounced` needs
that a closed contest does not change; every later block sorts it again, and sorting
leaves it because it is in order (`LowestOfOrdered`). `sorted` is stated by the place it
gives each entry (`Place`), a count, and not by the library's `SortSeq`, which the prover
cannot unfold; `StablePlaces` shows that the places are a permutation. `FairContest` is what
`LowestFacts` says of the entries cut off. `TicketsStayUsable` has the hypothesis
`OneProof`: with two ring proofs for a ticket it is false (section 6). `OwnBlocksAreSealed`
combines the series with the collector: the ticket that is due is in
`own_tickets_current`, so it is of this node, and it is usable, so this node has a place in
the pool. `StatisticsHold` needs that too, since a record is credited by index:
otherwise the author might be no validator of the new pool. Its sums are again those of
`SumTheorems`.

`GasModelProofs` proves `RenamingHolds`, `UnitsHold` and `PriceHolds` for blocks of any
length, every size of the reorder buffer and every decode and start window.
`GasInvariant` adds that work not yet started has cycles left and finished work has
none (else a unit would be returned twice), and the accounting behind the price
(`ChainsArePaid`): an entry that waits has, above the cycles passed, either all its
chain paid or an entry it waits for whose chain is not shorter.

`WorkReportsProofs` proves the three invariants of the run `WorkReports` and its
refinement of `ReportLifecycle`, for any packages and dependencies, cores, gas, sizes
of the validator set and gaps between blocks, from `QueueAssumption` and
`ReportAssumption`. None of the properties is inductive. `ReportInv` dates every package
by the block that reported it, and says

- `RecentOK`: recent history is the last blocks with what they reported;
- `CoresOK`: a report is on its package's core, for no more blocks than slots, and
  what it depends on was recent when it was guaranteed;
- `HistoryOK`: accumulation history is what the last blocks accumulated, and what it has
  forgotten was reported before its oldest block;
- `QueueOK`: a report waits for exactly those dependencies that are not done, in the bucket
  whose phase is the slot at which it became available;
- `WaitOK`: an available report that is not done is queued while its epoch lasts;
- `DoneOK`: packages are accumulated after what they depend on.

A package is reported once because a package is bound to its anchor: while the block
after the anchor is recent the package is in the pipeline, and then the anchor is not
(`NewIsFresh`). No report waits for what is done because the windows overlap
(`DoneIsRemembered`): a dependency is at most `HISTORY` blocks older than the report, the
report leaves its core after `UNAVAILABLE_WORK_REPLACEMENT_PERIOD` - 1 blocks at the latest,
and an epoch is at least as long as both. An available report without dependencies is never
short of gas since the limit covers a largest report on every core (`CountsFacts`). The
algorithms are proved below that: `edit_queue` and the report lists are stated through the
positions they keep (`Ascending`, `ElementsAt`), since the prover knows nothing of
`SelectSeq`; the rounds of `priority_queue`, the flattening of the buckets, sums of gas and
the rounds of accumulation are recursive functions, for which `RoundsExist`, `FlatsExist`,
`SumsExist` and `MoreExists` show that a solution exists, by a least counterexample.

Only model-checked:

- liveness (`DeliveredBlocksAreStored`, `EveryBlockIsPriced`) and what needs `ENABLED`:
  beyond the prover;
- `Privileges`: the merge folds over the services in their order;
- `PVMInstructions` and `PVMMachines`: finite words, which TLC enumerates in full, and
  recursive operators for bits and blocks;
- `NoBlockIsLost` of `BlockDelivery`: the network path folds the import over a sorted
  queue, which needs induction over the queue;
- `WealthIsKept`: a sum over all contexts of a round at once.

## 5. Plan

1. `WealthIsKept`: per context, balances plus transfers sent are balances plus
   transfers received, and the merge keeps this but for recreated accounts.
2. `NoBlockIsLost` for the block directory, where `CliAppends` already says that the
   next block of a chain is accepted.
3. The refine and assurance pipelines with the rest of the extrinsic collector.
4. Authorizer pools and queues; statistics of cores and services.

## 6. Disagreements found

The run `Accumulation_forget` shows the first; the others are found by TLC on the
module and property named, with the change of the instance given. They
are left out of the runs, whose instances or properties make the exception explicit.

| Where | What | How to see it |
|---|---|---|
| `models/state.py:1048` | a service that only forgets an available preimage makes a valid block fail with a KeyError | run `Accumulation_forget` |
| `app.py:1026` | a crash between the two writes of `finalize` leaves a state that is newer than the finalized head; the node then refuses every block | `NodeChain.FinalizedStateOnDisk` with `NodeChain.cfg` |
| `cli.py:104` | the rollback after a rejected sibling removes the overlay of the accepted head | `NodeChain.AcceptedStayAvailable` with `CorruptHeadCopy = FALSE` and `CrashPoints = {}` |
| `app.py:710` | a damaged copy of the selected block discards the block it copies | `BlockImport.AcceptedStayAvailable` with `CorruptHeadCopy = TRUE` |
| `app.py:197` | a header that names the root of a block on another branch is executed on the cached state of that block | `BlockImport.AvailableStatesAreExact` with `PriorRoot <- MCBorrowedRoot` |
| `accumulate.py:57` | the collect worker judges a block of a burst while its parent is still on the import queue, parks it, and nothing wakes it: it is never stored | `BlockDelivery.DeliveredBlocksAreStored` without the exception of `overtaken` |
| `accumulate.py:68` | of two siblings that wait for the same parent the second replaces the first | `BlockDelivery.NoBlockIsLost` without the exception of `dropped`, path "dir" |
| `app.py:174` | the network queue is emptied when any block with a known parent comes: blocks behind a gap, or in an earlier slot than the selected block, are gone | the same, path "net" |
| `hostcalls/accumulate.py:945` | forgetting a request that was never answered deletes the preimage of the hash although another request, with its true length, is answered; lookups for earlier slots change at once (the Gray Paper, which the code follows here, has the same effect), where `hc_forget` says "drop preimage data once time limit has passed" | `Accumulation.LookupIsStable` without the exception of `OtherLengthChanged` |
| `components.py:2469` | the merge compares a service with the offices as already changed in the same loop, so a successor with a higher id that runs in the round of its appointment decides too | `Privileges.EveryHandoverIsHonoured` |
| `accumulate.py:127` | own tickets are moved at an epoch change that the timeslot worker sees; when a block of another node brings the change first, the node forgets that it has tickets in the series | `Consensus.OwnTicketsAreKnown` |
| `interpreter_numba_jit.py:275` | a dynamic jump by -1 or -2 is taken for the codes of halt and panic | `PVMMachines.BackendsAlwaysAgree` |
| `hostcalls/refine.py:373` | a machine that halted or panicked keeps the mark that its block is paid, and enters its first block free of charge when it is invoked again | `PVMMachines.EveryBlockIsPaid` |

Further observations from reading, which no run depends on:

- `cpython`: `trailing_zero_bits_32` does not mask its operand. `cpython` and
  `numba`: `div_u_32` tests the whole register for zero. `numba`: the amounts of
  `rot_r_*_imm` are not reduced, the number of a host call is signed. These are
  the listed exceptions of `PVMInstructions`. `load_imm_jump_ind` does not clamp its
  second register in `graypaper` and `numba`.
- `hc_invoke` with an unknown handle keeps the reserved gas.
- A ticket with two different ring proofs passes as two: `list_has_duplicates`
  compares envelopes, `tickets_in_order` allows equal ids. The run has one proof
  per ticket.
- `process_assurances` makes one assurance per core for the same validator, so an
  own block with two engaged cores is refused.
- `validate_author` and `is_epoch_change` of the block validation and `add_ticket`
  of the extrinsic collector are not called.

## 7. Not modelled

- Codec, hashing, signatures and erasure coding: pure functions, external to the
  questions asked; a hash or a signature is what it identifies.
- The storage engines beyond atomic batches; the merkle trie beyond its root.
- Transport, RPC and subscriptions: readers and framing; what they deliver is
  nondeterministic in `BlockDelivery` and `Consensus`.
- The refine and assurance pipelines, guarantees, assurances and preimages that
  wait in the extrinsic collector: planned.
- `SOLO_MODE` and replay of recorded blocks; the older fuzzer protocol.
- PVM: `sbrk` (its opcode cannot be reached), the decoding of program blobs,
  `export`, `historical_lookup`, `fetch`, `lookup`, `info`, `log` and `yield`, and
  the shortcut of `numba` for the gas call of the outer machine.
- Command line, logging, debugging.
