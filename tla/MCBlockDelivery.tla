-------------------------- MODULE MCBlockDelivery --------------------------
(* Delivery of a chain 0 -- 1 -- 2 -- 3 -- 4 of valid blocks and of block 5, *)
(* another child of 2, in a slot between those of 3 and 4: every order of    *)
(* arrival, bursts, siblings and slots that have passed.                     *)
EXTENDS BlockDelivery

CONSTANT BadRoot

MCBlock == 0..5
MCVal == 0..5
MCCompKey == {"tau"}
MCSvcKey == {"svc"}
MCParent == [b \in MCBlock |-> CASE b = 0 -> Zero [] b = 5 -> 2 [] OTHER -> b - 1]
MCSlot == [b \in MCBlock |-> CASE b = 4 -> 5 [] b = 5 -> 4 [] OTHER -> b]
MCHeight == [b \in MCBlock |-> IF b = 5 THEN 3 ELSE b]
MCAncestry == [b \in MCBlock |-> IF b = 5 THEN {0, 1, 2, 5} ELSE 0..b]
MCWrites == [b \in MCBlock |-> [k \in Key |->
                IF k = "tau" THEN MCSlot[b] ELSE IF b = 2 THEN Untouched ELSE 5 - b]]
MCPost[b \in MCBlock] == [k \in Key |->
    IF MCWrites[b][k] = Untouched THEN MCPost[MCParent[b]][k] ELSE MCWrites[b][k]]
MCPriorRoot == [b \in MCBlock |-> IF b = 0 THEN BadRoot ELSE MCPost[MCParent[b]]]
MCDefect == [b \in MCBlock |-> "none"]
=============================================================================
