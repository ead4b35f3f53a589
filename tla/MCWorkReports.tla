---------------------------- MODULE MCWorkReports ----------------------------
(* Five packages on three cores.  p, r and u need nothing and can fill all  *)
(* cores at once; q needs p, and s needs q.                                 *)
EXTENDS WorkReports

MCPackage == {"p", "q", "r", "s", "u"}
MCDeps == [x \in MCPackage |->
              CASE x = "q" -> {"p"} [] x = "s" -> {"q"} [] OTHER -> {}]
MCCoreOf == [x \in MCPackage |->
              CASE x = "p" -> 0 [] x \in {"q", "r", "s"} -> 1 [] x = "u" -> 2]
MCGas == [x \in MCPackage |-> 1]
=============================================================================
