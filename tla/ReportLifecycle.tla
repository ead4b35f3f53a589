--------------------------- MODULE ReportLifecycle ---------------------------
(***************************************************************************)
(* What the report pipeline promises about each work package: it is        *)
(* reported at most once, a report that loses its core or its place in the *)
(* queue never comes back, and packages are accumulated at most once, each *)
(* after everything it depends on.                                         *)
(***************************************************************************)
EXTENDS Sequences, Integers, FiniteSets

CONSTANTS Package, Deps

VARIABLES
    reported,  \* packages that ever had a report on a core
    pending,   \* reports that wait for availability
    waiting,   \* available reports that wait for dependencies or gas
    done       \* accumulated packages, in the order of accumulation

Done == {done[i] : i \in DOMAIN done}

Init == reported = {} /\ pending = {} /\ waiting = {} /\ done = <<>>

\* One block: old reports only move on, new ones only join the cores.
Block ==
    /\ \E batch \in SUBSET (pending \cup waiting) :
          /\ Done' = Done \cup batch
          /\ Len(done') = Len(done) + Cardinality(batch)
          /\ SubSeq(done', 1, Len(done)) = done
    /\ \A i \in DOMAIN done' : Deps[done'[i]] \subseteq {done'[j] : j \in 1 .. i - 1}
    /\ waiting' \subseteq (pending \cup waiting) \ Done'
    /\ pending' \cap (Done' \cup waiting') = {}
    /\ pending' \cap reported \subseteq pending
    /\ reported' = reported \cup pending'

Spec == Init /\ [][Block]_<<reported, pending, waiting, done>>
=============================================================================
