---------------------------- MODULE MCBlockTree ----------------------------
(***************************************************************************)
(* A small block tree for TLC.  Blocks are numbered, 0 is Genesis:         *)
(*                                                                         *)
(*      0 --- 1 --- 3 --- 5            1, 2 and 3, 4, 11 share a slot      *)
(*      |     |     |---- 7  wrong prior root                              *)
(*      |     |     \---- 13 fails in a transition function                *)
(*      |     |---- 4 --- 6 --- 12                                         *)
(*      |     |     \---- 9  slot not after its parent's                   *)
(*      |     |---- 8  fails after its service writes                      *)
(*      |     \---- 11                                                     *)
(*      \---- 2 --- 10                                                     *)
(*                                                                         *)
(* Siblings write some keys alike and some apart, 5 rewrites the value it  *)
(* finds, and 6 restores a value that 4 changed.                           *)
(***************************************************************************)
EXTENDS BlockTree, TLC

CONSTANT BadRoot   \* a root that commits to no known state

MCBlock == 0..13
MCVal == 0..5
MCCompKey == {"tau", "comp"}
MCSvcKey == {"svc"}

MCParent == [b \in MCBlock |->
    CASE b = 0 -> Zero [] b \in {1, 2} -> 0 [] b \in {3, 4, 8, 11} -> 1
      [] b \in {5, 7, 13} -> 3 [] b \in {6, 9} -> 4 [] b = 10 -> 2 [] b = 12 -> 6]

MCSlot == [b \in MCBlock |->
    CASE b = 0 -> 0 [] b \in {1, 2} -> 1 [] b \in {3, 4, 9, 10, 11} -> 2
      [] b \in {5, 7, 8} -> 3 [] b \in {6, 13} -> 4 [] b = 12 -> 5]

MCHeight[b \in MCBlock] == IF b = 0 THEN 0 ELSE MCHeight[MCParent[b]] + 1

MCAncestry[b \in MCBlock] ==
    {b} \cup (IF b = 0 THEN {} ELSE MCAncestry[MCParent[b]])

MCWrites == [b \in MCBlock |->
    LET values(comp, svc) ==
            ("tau" :> MCSlot[b]) @@ ("comp" :> comp) @@ ("svc" :> svc)
    IN  CASE b = 0 -> values(0, 0)
          [] b = 1 -> values(1, Untouched)
          [] b = 2 -> values(2, 1)
          [] b = 3 -> values(2, Absent)
          [] b = 4 -> values(3, 1)
          [] b = 5 -> values(2, 2)
          [] b = 6 -> values(1, Untouched)
          [] b = 7 -> values(3, 4)
          [] b = 8 -> values(5, 5)
          [] b = 9 -> values(4, Untouched)
          [] b = 10 -> values(1, Absent)
          [] b = 11 -> values(1, 3)
          [] b = 12 -> values(Untouched, 0)
          [] b = 13 -> values(4, 3)]

MCPost[b \in MCBlock] ==
    LET pre == IF b = 0 THEN [k \in Key |-> Absent] ELSE MCPost[MCParent[b]]
    IN  [k \in Key |-> IF MCWrites[b][k] = Untouched THEN pre[k] ELSE MCWrites[b][k]]

\* Block 7 names a root no block has.
MCPriorRoot == [b \in MCBlock |->
    IF b \in {0, 7} THEN BadRoot ELSE MCPost[MCParent[b]]]

\* Block 7 names the root of 4 while its parent is 3.
MCBorrowedRoot == [MCPriorRoot EXCEPT ![7] = MCPost[4]]

MCDefect == [b \in MCBlock |-> IF b = 8 THEN "late"
                               ELSE IF b = 13 THEN "stf" ELSE "none"]
=============================================================================
