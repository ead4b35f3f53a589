--------------------------- MODULE MCBlockImport ---------------------------
(* Block import on the tree of MCBlockTree, anchored at block 1.           *)
EXTENDS BlockImport, MCBlockTree

\* The tree satisfies the assumption under which a root names one block.
ASSUME PriorRoot[7] = BadRoot => RootsNameBlocks

=============================================================================
