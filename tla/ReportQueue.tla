----------------------------- MODULE ReportQueue -----------------------------
(***************************************************************************)
(* From available work reports to accumulated ones (accumulation.py, the   *)
(* report lists of models/context.py, the gas loop of                      *)
(* Services.full_sequential_accumulation and the components                *)
(* AccumulationQueue and AccumulationHistory).                             *)
(*                                                                         *)
(* A report is named by its package.  A queue is a sequence of             *)
(* [pkg, deps], deps the packages that are still to be accumulated before. *)
(***************************************************************************)
EXTENDS Integers, FiniteSets, SequencesExt

CONSTANTS
    Package,          \* work packages
    Deps,             \* prerequisites and segment roots of its report
    Gas,              \* accumulate_gas of its report, over all its results
    CoreCount,        \* CORE_COUNT
    EpochTimeslots,   \* EPOCH_TIMESLOTS
    GasTotal,         \* GAS_TOTAL
    GasAccumulation,  \* GAS_ACCUMULATION
    AlwaysGas         \* gas of the services that accumulate in every block

ASSUME QueueAssumption ==
    /\ Deps \in [Package -> SUBSET Package]
    /\ \A p \in Package : p \notin Deps[p]
    /\ GasAccumulation \in Nat
    \* check_gas_requirements refuses a report above GAS_ACCUMULATION.
    /\ Gas \in [Package -> 0 .. GasAccumulation]
    /\ {CoreCount, EpochTimeslots} \subseteq Nat \ {0}
    /\ {GasTotal, AlwaysGas} \subseteq Nat

Phase == 0 .. EpochTimeslots - 1
Item == [pkg : Package, deps : SUBSET Package]

WorkReportDependencies(p) == [pkg |-> p, deps |-> Deps[p]]

\* The numbers of a finite set in ascending order, and the elements of a sequence
\* at the given positions: a loop over q that keeps some of its elements.
Ascending(numbers) ==
    [i \in 1 .. Cardinality(numbers) |->
        CHOOSE k \in numbers : Cardinality({m \in numbers : m <= k}) = i]
ElementsAt(q, positions) ==
    LET order == Ascending(positions) IN [i \in DOMAIN order |-> q[order[i]]]

\* (EditQueueKeeps: a mutant that leaves accumulated dependencies in place.)
EditQueueKeeps(q, accumulated) ==
    ElementsAt(q, {i \in DOMAIN q : q[i].pkg \notin accumulated})
EditQueue(q, accumulated) ==
    LET kept == ElementsAt(q, {i \in DOMAIN q : q[i].pkg \notin accumulated})
    IN  [i \in DOMAIN kept |-> [kept[i] EXCEPT !.deps = @ \ accumulated]]

Packages(q) == [i \in DOMAIN q |-> q[i].pkg]

\* priority_queue: the reports without dependencies first, then those that
\* they release, and so on; each call takes at least one report.
Free(q) == Packages(ElementsAt(q, {i \in DOMAIN q : q[i].deps = {}}))
PriorityQueue(q) ==
    LET round[n \in 0 .. Len(q)] ==
            IF n = 0 THEN [taken |-> <<>>, rest |-> q]
            ELSE LET r == round[n - 1]
                 IN  [taken |-> r.taken \o Free(r.rest),
                      rest  |-> EditQueue(r.rest, Range(Free(r.rest)))]
    IN  round[Len(q)].taken

ReadyWorkReports(available) ==
    ElementsAt(available, {i \in DOMAIN available : Deps[available[i]] = {}})
QueuedWorkReports(available, history) ==
    LET waiting == ElementsAt(available, {i \in DOMAIN available : Deps[available[i]] # {}})
    IN  EditQueue([i \in DOMAIN waiting |-> WorkReportDependencies(waiting[i])],
                  UNION Range(history))

\* All buckets, the oldest first.
Buckets(queue, slot) ==
    FlattenSeq([i \in 1 .. EpochTimeslots |-> queue[(slot + i - 1) % EpochTimeslots]])

AccumulatableWorkReports(available, queue, history, slot) ==
    LET ready == ReadyWorkReports(available)
    IN  ready \o PriorityQueue(EditQueue(
            Buckets(queue, slot) \o QueuedWorkReports(available, history), Range(ready)))

-----------------------------------------------------------------------------
(* How many reports fit into the gas of a block.                           *)

GasLimit ==
    LET sum == GasAccumulation * CoreCount + AlwaysGas
    IN  IF sum > GasTotal THEN sum ELSE GasTotal

GasOf(reports, from, to) ==
    LET sum[i \in from .. to] == IF i = from THEN 0 ELSE sum[i - 1] + Gas[reports[i]]
    IN  sum[to]

\* The longest run of reports after the first k that stays within the limit.
Fits(reports, k, limit) ==
    CHOOSE n \in 0 .. Len(reports) - k :
        /\ n > 0 => GasOf(reports, k, k + n) <= limit
        /\ n < Len(reports) - k => GasOf(reports, k, k + n + 1) > limit

\* full_sequential_accumulation: rounds until a round has nothing to do.  A
\* round may use any part of the gas it reserved; what it leaves, transfers
\* included, is available to the next round.
AccumulatedCounts(reports) ==
    LET more[k \in 0 .. Len(reports)] ==
            [gas \in 0 .. GasLimit |->
                LET n == Fits(reports, k, gas)
                IN  IF n = 0 THEN {k}
                    ELSE UNION {more[k + n][gas - u] : u \in 0 .. GasOf(reports, k, k + n)}]
        first == Fits(reports, 0, GasLimit - AlwaysGas)
    IN  UNION {more[first][GasLimit - u] : u \in 0 .. AlwaysGas + GasOf(reports, 0, first)}

-----------------------------------------------------------------------------
(* The two state components, written when all else has succeeded.          *)

NextHistory(history, accumulated) == Append(Tail(history), accumulated)

\* (NextQueueAhead: a mutant that counts the missed slots forward.)
NextQueueAhead(queue, queued, before, slot, accumulated) ==
    [j \in Phase |->
        LET i == (j - slot) % EpochTimeslots
        IN  IF i = 0 THEN EditQueue(queued, accumulated)
            ELSE IF i < slot - before THEN <<>>
            ELSE EditQueue(queue[j], accumulated)]
NextQueue(queue, queued, before, slot, accumulated) ==
    [j \in Phase |->
        LET i == (slot - j) % EpochTimeslots
        IN  IF i = 0 THEN EditQueue(queued, accumulated)
            ELSE IF i < slot - before THEN <<>>
            ELSE EditQueue(queue[j], accumulated)]
=============================================================================
