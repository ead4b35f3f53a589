------------------------------ MODULE ForkTree ------------------------------
(***************************************************************************)
(* What block import promises, without overlays, caches or selection: a    *)
(* tree of accepted blocks rooted at the finalized one.  A block enters    *)
(* only if it is valid and its parent is in the tree, finalizing keeps     *)
(* exactly the descendants of the new root, and nothing else changes it.   *)
(* Rejected deliveries are stuttering steps.                               *)
(***************************************************************************)
EXTENDS BlockTree

CONSTANTS
    Anchor,       \* the block that is final at the start
    MayRestart    \* TRUE: the process may stop and start again

VARIABLES
    accepted,     \* blocks whose posterior state can be read
    final         \* the finalized block

treeVars == <<accepted, final>>

Init == accepted = {Anchor} /\ final = Anchor

Accept(b) ==
    /\ Valid(b)
    /\ Parent[b] \in accepted
    /\ accepted' = accepted \cup {b}
    /\ UNCHANGED final

\* Finalize b, and accept a child of it in the same handler if there is one.
Finalize(b, child) ==
    /\ b \in accepted
    /\ b # final
    /\ final' = b
    /\ \A c \in child : Valid(c) /\ Parent[c] = b
    /\ accepted' = {a \in accepted : b \in Ancestry[a]} \cup child

\* A restart keeps what is final and forgets the rest.
Restart == MayRestart /\ accepted' = {final} /\ UNCHANGED final

Next ==
    \/ Restart
    \/ \E b \in Block : Accept(b)
    \/ \E b \in accepted : \E child \in {{}} \cup {{c} : c \in Block} :
          Finalize(b, child)

Spec == Init /\ [][Next]_treeVars
=============================================================================
