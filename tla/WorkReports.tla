----------------------------- MODULE WorkReports -----------------------------
(***************************************************************************)
(* The life of work reports over a chain of blocks (state/components.py,   *)
(* Assurances, RecentHistory, AccumulationQueue, AccumulationHistory, in   *)
(* the order of PyjamazApp.state_transition): guaranteed on a core, made   *)
(* available by assurances, queued behind dependencies, accumulated.       *)
(*                                                                         *)
(* One step is one valid block; a block that fails a check changes nothing *)
(* (module PyjamazApp).  A package is bound to its anchor block, which is  *)
(* part of what its hash covers: the newest it can have, since a package   *)
(* with an older anchor only expires earlier.                              *)
(***************************************************************************)
EXTENDS ReportQueue

CONSTANTS
    CoreOf,             \* the core a package is built for
    History,            \* HISTORY, the number of recent blocks
    ReplacementPeriod,  \* UNAVAILABLE_WORK_REPLACEMENT_PERIOD
    ValidatorCounts,    \* sizes the validator set may have
    SlotSteps,          \* distances between the slots of consecutive blocks
    MaxSlot             \* bound: the last slot of a behaviour

Unset == -1
NoReport == [pkg |-> "none", since |-> Unset]
Core == 0 .. CoreCount - 1
Slot == 0 .. MaxSlot

ASSUME ReportAssumption ==
    /\ CoreOf \in [Package -> Core]
    /\ {History, ReplacementPeriod} \subseteq Nat \ {0}
    /\ "none" \notin Package
    \* HISTORY = 8, UNAVAILABLE_WORK_REPLACEMENT_PERIOD = 5, EPOCH_TIMESLOTS
    \* = 12 at least.
    /\ ReplacementPeriod <= History
    /\ EpochTimeslots >= History + ReplacementPeriod - 1
    /\ 3 * CoreCount \in ValidatorCounts
    /\ ValidatorCounts \subseteq {n \in 6 .. 3 * CoreCount : n % 3 = 0}
    /\ SlotSteps \subseteq Nat \ {0} /\ MaxSlot \in Nat

VARIABLES
    slot,       \* timeslot of the last block
    size,       \* number of active validators
    assurances, \* per core, the report that waits for availability
    queue,      \* accumulation_queue: a bucket per phase of the epoch
    history,    \* accumulation_history: packages of the last blocks
    recent,     \* recent_history: [height, reported] of the last blocks
    height,     \* blocks so far
    anchor,     \* height of a package's anchor block, once it is built
    availableAt,\* slot at which a report became available
    done        \* all packages ever accumulated, in order

vars == <<slot, size, assurances, queue, history, recent, height, anchor,
          availableAt, done>>

Reports(cores) == {c \in Core : cores[c] # NoReport}
OnCores(cores) == {cores[c].pkg : c \in Reports(cores)}
InQueue == {x.pkg : x \in UNION {Range(queue[j]) : j \in Phase}}

TypeOK ==
    /\ slot \in Slot /\ size \in ValidatorCounts /\ height \in Nat
    /\ assurances \in [Core -> {NoReport} \cup [pkg : Package, since : Slot]]
    /\ queue \in [Phase -> Seq(Item)]
    /\ history \in Seq(SUBSET Package) /\ Len(history) = EpochTimeslots
    /\ recent \in Seq([height : Nat, reported : SUBSET Package])
    /\ Len(recent) \in 1 .. History
    /\ anchor \in [Package -> {Unset} \cup Nat]
    /\ availableAt \in [Package -> {Unset} \cup Nat]
    /\ done \in Seq(Package)

Init ==
    /\ slot = 0 /\ height = 0 /\ size = 3 * CoreCount
    /\ assurances = [c \in Core |-> NoReport]
    /\ queue = [j \in Phase |-> <<>>]
    /\ history = [i \in 1 .. EpochTimeslots |-> {}]
    /\ recent = <<[height |-> 0, reported |-> {}]>>
    /\ anchor = [p \in Package |-> Unset]
    /\ availableAt = [p \in Package |-> Unset]
    /\ done = <<>>

-----------------------------------------------------------------------------
\* Verdicts that are not good take a pending report off its core.
AfterDisputes(rejected) ==
    [c \in Core |-> IF assurances[c].pkg \in rejected THEN NoReport ELSE assurances[c]]

\* The reports that the assurers of a block vouch for leave their cores, and
\* so do stale ones, and all when the validator set changes its size.
AfterAssurances(cores, assured, t, resized) ==
    [c \in Core |-> IF \/ c \in assured
                       \/ resized
                       \/ t >= cores[c].since + ReplacementPeriod
                    THEN NoReport ELSE cores[c]]

ReportedBefore == UNION {r.reported : r \in Range(recent)}

\* work_packages_exists_in_pipeline
\* (PipelineWithoutRecent: a mutant that forgets the recent blocks.)
PipelineWithoutRecent(cores) == UNION Range(history) \cup InQueue \cup OnCores(cores)
Pipeline(cores) ==
    ReportedBefore \cup UNION Range(history) \cup InQueue \cup OnCores(cores)

\* The context of a report names a recent block.
AnchorIsRecent(p) ==
    anchor[p] = Unset \/ \E r \in Range(recent) : r.height = anchor[p]

\* The core of a report is open under the new validator set and free.
CoreIsFree(p, cores, n) == CoreOf[p] < n \div 3 /\ cores[CoreOf[p]] = NoReport

\* validate_guarantees for the packages new, with the cores after assurances.
\* Sizes, roots and signatures are right or the block is refused.
ValidGuarantees(new, cores, n) ==
    /\ \A p, q \in new : p # q => CoreOf[p] # CoreOf[q]
    /\ new \cap Pipeline(cores) = {}
    /\ \A p \in new : AnchorIsRecent(p) /\ CoreIsFree(p, cores, n)
    /\ UNION {Deps[p] : p \in new} \subseteq ReportedBefore \cup new

AfterGuarantees(new, cores, t) ==
    [c \in Core |-> IF \E p \in new : CoreOf[p] = c
                    THEN [pkg |-> CHOOSE p \in new : CoreOf[p] = c, since |-> t]
                    ELSE cores[c]]

NextRecent(new) ==
    LET all == Append(recent, [height |-> height + 1, reported |-> new])
    IN  IF Len(all) > History THEN Tail(all) ELSE all

\* Accumulate n of the reports, then write queue and history.
Accumulate(reports, n, available, t) ==
    LET batch  == SubSeq(reports, 1, n)
        queued == QueuedWorkReports(available, history)
    IN  /\ done' = done \o batch
        /\ history' = NextHistory(history, Range(batch))
        /\ queue' = NextQueue(queue, queued, slot, t, Range(batch))

\* The reports that become available, in the order of their cores.
AvailableReports(cores, assured) ==
    LET order == Ascending(assured) IN [i \in DOMAIN order |-> cores[order[i]].pkg]

BlockWith(t, n, new, cores, available) ==
    LET reports == AccumulatableWorkReports(available, queue, history, t) IN
    /\ assurances' = AfterGuarantees(new, cores, t)
    /\ recent' = NextRecent(new)
    /\ \E k \in AccumulatedCounts(reports) : Accumulate(reports, k, available, t)
    /\ availableAt' = [p \in Package |-> IF p \in Range(available) THEN t ELSE availableAt[p]]
    /\ slot' = t /\ size' = n /\ height' = height + 1

ProcessBlock(t, n, rejected, assured, new) ==
    LET before == AfterDisputes(rejected)
        cores  == AfterAssurances(before, assured, t, n # size)
    IN
    /\ assured \subseteq Reports(before)
    /\ ValidGuarantees(new, cores, n)
    /\ BlockWith(t, n, new, cores, AvailableReports(before, assured))
    /\ anchor' = [p \in Package |-> IF p \in new /\ anchor[p] = Unset THEN height
                                    ELSE anchor[p]]

EpochOf(t) == t \div EpochTimeslots

Next ==
    \E d \in SlotSteps, n \in ValidatorCounts :
        /\ slot + d <= MaxSlot
        /\ n # size => EpochOf(slot + d) # EpochOf(slot)
        /\ \E rejected \in SUBSET OnCores(assurances), assured \in SUBSET Core,
              new \in SUBSET Package :
              ProcessBlock(slot + d, n, rejected, assured, new)

Spec == Init /\ [][Next]_vars

-----------------------------------------------------------------------------
\* A package is on a core, in the queue, or accumulated, never in two places
\* and never in one place twice: what validate_guarantees and edit_queue
\* together are for.
InOnePlace ==
    /\ \A c, d \in Reports(assurances) :
          c # d => assurances[c].pkg # assurances[d].pkg
    /\ IsInjective(Packages(Buckets(queue, slot)))
    /\ OnCores(assurances) \cap (InQueue \cup Range(done)) = {}
    /\ InQueue \cap Range(done) = {}

\* A report never waits for a package that has been accumulated already, even
\* when the accumulation history has long forgotten it: the windows of
\* recent_history, of the cores and of accumulation_history overlap.
NoStaleDependency ==
    \A j \in Phase : \A x \in Range(queue[j]) : x.deps \cap Range(done) = {}

\* An available report is accumulated or keeps its place for exactly one epoch
\* of slots, whatever slots have no block; in particular one without
\* dependencies always finds the gas.
WaitsOneEpoch ==
    \A p \in Package :
        availableAt[p] # Unset /\ p \notin Range(done) =>
            (p \in InQueue <=> slot - availableAt[p] < EpochTimeslots)

\* The pipeline implements the life cycle of packages.
Lifecycle == INSTANCE ReportLifecycle
    WITH reported <- {p \in Package : anchor[p] # Unset},
         pending <- OnCores(assurances), waiting <- InQueue
RefinesReportLifecycle == Lifecycle!Spec
=============================================================================
