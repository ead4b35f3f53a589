--------------------------- MODULE PVMInstructions ---------------------------
(***************************************************************************)
(* The three interpreters side by side: a program is a sequence of         *)
(* instructions that each interpreter applies to its own accumulator.      *)
(* Which interpreter a node runs is a setting (PVM_INTERPRETER), so that   *)
(* nodes with different settings agree on the state only if the            *)
(* accumulators stay equal.                                                *)
(***************************************************************************)
EXTENDS PVMGraypaper, PVMCPython, PVMNumba

CONSTANT Operands       \* the words a second register may hold

ASSUME OperandsAssumption == Operands \subseteq Word

VARIABLES acc,          \* the accumulator of each interpreter
          undefined     \* an instruction ran on which the interpreters are known to differ

vars == <<acc, undefined>>

Interpreter == {"graypaper", "cpython", "numba"}

-----------------------------------------------------------------------------
(* The opcode table. *)

reg_reg_ops ==
    {"move_reg", "count_set_bits_64", "count_set_bits_32", "leading_zero_bits_64",
     "leading_zero_bits_32", "trailing_zero_bits_64", "trailing_zero_bits_32",
     "sign_extend_8", "sign_extend_16", "zero_extend_16", "reverse_bytes"}
reg_reg_imm_ops ==
    {"add_imm_32", "and_imm", "xor_imm", "or_imm", "mul_imm_32", "set_lt_u_imm",
     "set_lt_s_imm", "shlo_l_imm_32", "shlo_r_imm_32", "shar_r_imm_32", "neg_add_imm_32",
     "set_gt_u_imm", "set_gt_s_imm", "shlo_l_imm_alt_32", "shlo_r_imm_alt_32",
     "shar_r_imm_alt_32", "cmov_iz_imm", "cmov_nz_imm", "add_imm_64", "mul_imm_64",
     "shlo_l_imm_64", "shlo_r_imm_64", "shar_r_imm_64", "neg_add_imm_64",
     "shlo_l_imm_alt_64", "shlo_r_imm_alt_64", "shar_r_imm_alt_64", "rot_r_64_imm",
     "rot_r_64_imm_alt", "rot_r_32_imm", "rot_r_32_imm_alt"}
reg_reg_reg_32_ops ==
    {"add_32", "sub_32", "mul_32", "div_u_32", "div_s_32", "rem_u_32", "rem_s_32",
     "shlo_l_32", "shlo_r_32", "shar_r_32"}
reg_reg_reg_64_ops ==
    {"add_64", "sub_64", "mul_64", "div_u_64", "div_s_64", "rem_u_64", "rem_s_64",
     "shlo_l_64", "shlo_r_64", "shar_r_64", "mul_upper_s_s", "mul_upper_u_u",
     "mul_upper_s_u"}
reg_reg_reg_bits_ops ==
    {"and", "xor", "or", "set_lt_u", "set_lt_s", "cmov_iz", "cmov_nz", "rot_l_64",
     "rot_l_32", "rot_r_64", "rot_r_32", "and_inv", "or_inv", "xnor", "max", "max_u",
     "min", "min_u"}
branch_ops == {"eq", "ne", "lt_u", "le_u", "ge_u", "gt_u", "lt_s", "le_s", "ge_s", "gt_s"}

-----------------------------------------------------------------------------
\* The instructions on which the interpreters differ: cpython counts the trailing zeroes
\* of the whole register; cpython and numba divide by the low half of a register they
\* tested as a whole; numba rotates by an immediate amount it does not reduce.
KnownDifference(op, a, b) ==
    \/ op = "trailing_zero_bits_32" /\ a # 0 /\ U32(a) = 0 /\ Bit(a, H) = 0
    \/ op = "div_u_32" /\ b # 0 /\ U32(b) = 0
    \/ op = "rot_r_32_imm" /\ U32(b) > H
    \/ op = "rot_r_32_imm_alt" /\ U32(a) > H
    \/ op = "rot_r_64_imm" /\ b > W
    \/ op = "rot_r_64_imm_alt" /\ a > W

Execute(gp, cp, jit) ==
    acc' = [i \in Interpreter |-> CASE i = "graypaper" -> gp
                                    [] i = "cpython"   -> cp
                                    [] i = "numba"     -> jit]

a_gp == acc["graypaper"]
a_cp == acc["cpython"]
a_jit == acc["numba"]

\* The state a step starts from: all three still run.
Running == ~undefined

RegReg(op) ==
    /\ Running
    /\ Execute(reg_reg(op, a_gp), reg_reg_cp(op, a_cp), reg_reg_jit(op, a_jit))
    /\ undefined' = KnownDifference(op, a_gp, 0)

\* The immediate v of l bytes is sign-extended; source and target are the accumulator.
RegRegImm(op, l, v) ==
    /\ Running
    /\ Execute(reg_reg_imm(op, a_gp, pvm_X(v, l), a_gp),
               reg_reg_imm_cp(op, a_cp, pvm_X_cp(v, l), a_cp),
               reg_reg_imm_jit(op, a_jit, pvm_X_jit(v, l), a_jit))
    /\ undefined' = KnownDifference(op, a_gp, pvm_X(v, l))

\* The second operand is also the target.
RegRegReg32(op, b) ==
    /\ Running
    /\ Execute(reg_reg_reg_32(op, a_gp, b), reg_reg_reg_32_cp(op, a_cp, b),
               reg_reg_reg_32_jit(op, a_jit, b))
    /\ undefined' = KnownDifference(op, a_gp, b)

RegRegReg64(op, b) ==
    /\ Running
    /\ Execute(reg_reg_reg_64(op, a_gp, b), reg_reg_reg_64_cp(op, a_cp, b),
               reg_reg_reg_64_jit(op, a_jit, b))
    /\ UNCHANGED undefined

RegRegRegBits(op, b) ==
    /\ Running
    /\ Execute(reg_reg_reg_bits(op, a_gp, b, b), reg_reg_reg_bits_cp(op, a_cp, b, b),
               reg_reg_reg_bits_jit(op, a_jit, b, b))
    /\ UNCHANGED undefined

\* A branch, with the decision in the accumulator: an if of the program.
Branch(op, b) ==
    /\ Running
    /\ Execute(Flag(branch_on(op, a_gp, b)), Flag(branch_on_cp(op, a_cp, b)),
               Flag(branch_on_jit(op, a_jit, b)))
    /\ UNCHANGED undefined

\* A load of the low n bytes of the accumulator, stored before.
Load(n, signed, indirect) ==
    /\ Running
    /\ Execute(load_value(signed, indirect, a_gp % 2^(n*B), n),
               load_value_cp(signed, indirect, a_cp % 2^(n*B), n),
               load_value_jit(signed, indirect, a_jit % 2^(n*B), n))
    /\ UNCHANGED undefined

Init == /\ \E w \in Word : acc = [i \in Interpreter |-> w]
        /\ undefined = FALSE

Next == \/ \E op \in reg_reg_ops : RegReg(op)
        \/ \E op \in reg_reg_imm_ops, l \in 0 .. 4 : \E v \in 0 .. 2^(l*B) - 1 : RegRegImm(op, l, v)
        \/ \E op \in reg_reg_reg_32_ops, b \in Operands : RegRegReg32(op, b)
        \/ \E op \in reg_reg_reg_64_ops, b \in Operands : RegRegReg64(op, b)
        \/ \E op \in reg_reg_reg_bits_ops, b \in Operands : RegRegRegBits(op, b)
        \/ \E op \in branch_ops, b \in Operands : Branch(op, b)
        \/ \E n \in {1, 2, 4}, signed, indirect \in BOOLEAN : Load(n, signed, indirect)

Spec == Init /\ [][Next]_vars

-----------------------------------------------------------------------------
\* Every register holds a word of its width: no interpreter leaves a negative number or
\* one that is too large behind, although cpython computes on unbounded integers.
TypeOK == /\ undefined \in BOOLEAN
          /\ ~undefined => acc \in [Interpreter -> Word]

\* The interpreters agree on the result of every instruction, on every operand, but for
\* the listed differences: the choice of the backend is not visible to the chain.
InterpretersAgree == ~undefined => a_cp = a_gp /\ a_jit = a_gp

\* Division: quotient and remainder reconstruct the dividend, the remainder is smaller
\* than the divisor and has the dividend's sign, for every operand pair (division by
\* zero and the one overflow included), in 32 and in 64 bits.
DivisionIsExact ==
    ~undefined => \A b \in Operands :
        LET q64 == I64(div_s_64(a_gp, b))   r64 == I64(rem_s_64(a_gp, b))
            q32 == I64(div_s_32(a_gp, b))   r32 == I64(rem_s_32(a_gp, b))
            qu  == reg_reg_reg_64("div_u_64", a_gp, b)
            ru  == reg_reg_reg_64("rem_u_64", a_gp, b)
            Sign(r, n) == r = 0 \/ (r < 0) = (n < 0)
        IN  /\ U64(q64 * I64(b) + r64) = a_gp /\ Sign(r64, I64(a_gp))
            /\ I64(b) # 0 => Abs(r64) < Abs(I64(b))
            /\ U32(q32 * I32(b) + r32) = U32(a_gp) /\ Sign(r32, I32(a_gp))
            /\ I32(b) # 0 => Abs(r32) < Abs(I32(b))
            /\ U64(qu * b + ru) = a_gp /\ (b # 0 => ru < b)
=============================================================================
