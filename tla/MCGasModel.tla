----------------------------- MODULE MCGasModel -----------------------------
(* Blocks of up to three instructions and a terminator, over three registers. *)
EXTENDS GasModel

MCReg == {"r1", "r2", "r3"}
I(o, a, b, d) == [o |-> o, a |-> a, b |-> b, d |-> d, off |-> 1]

\* Moves that rename, chains through them, instructions of every execution unit, and
\* decode costs of one to four slots.
Body == {I("move_reg", "r2", "r1", "r1"), I("move_reg", "r1", "r2", "r1"),
         I("move_reg", "r3", "r2", "r1"),
         I("load_ind", "r1", "r2", "r1"), I("store_ind", "r1", "r3", "r1"),
         I("mul_64", "r1", "r2", "r2"), I("div_u_64", "r1", "r1", "r3"),
         I("cmov_iz", "r1", "r2", "r3"), I("trailing_zero_bits", "r2", "r3", "r1"),
         I("add_64", "r2", "r3", "r1"), I("ecalli", "r1", "r1", "r1")}
Ends == {I("jump_ind", "r1", "r1", "r1"), I("branch_eq", "r2", "r3", "r1")}

MCCodes == {Append(body, end) : body \in UNION {[1 .. n -> Body] : n \in 0 .. 3}, end \in Ends}
MCWindow == [decode |-> 4, start |-> 2]
=============================================================================
