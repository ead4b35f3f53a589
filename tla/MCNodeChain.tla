---------------------------- MODULE MCNodeChain ----------------------------
(* A validator node on the tree of MCBlockTree.                            *)
EXTENDS NodeChain, MCBlockTree
=============================================================================
