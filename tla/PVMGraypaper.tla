---------------------------- MODULE PVMGraypaper ----------------------------
(***************************************************************************)
(* What each instruction of the graypaper interpreter computes             *)
(* (graypaper/interpreter_gp.py): the reference the other two interpreters *)
(* are compared with.  Operands are register words, immediates already     *)
(* sign-extended words; d is the previous value of the target register.    *)
(***************************************************************************)
EXTENDS PVMWords

MaxWord == 2^W - 1
Flag(c) == IF c THEN 1 ELSE 0

\* Two registers: the target, and the operand a.
reg_reg(op, a) ==
    CASE op = "move_reg"              -> a
      [] op = "count_set_bits_64"     -> BitCount(a)
      [] op = "count_set_bits_32"     -> BitCount(U32(a))
      [] op = "leading_zero_bits_64"  -> count_leading_zeroes(a, W)
      [] op = "leading_zero_bits_32"  -> count_leading_zeroes(U32(a), H)
      [] op = "trailing_zero_bits_64" -> count_trailing_zeroes(a, W)
      [] op = "trailing_zero_bits_32" -> count_trailing_zeroes(U32(a), H)
      [] op = "sign_extend_8"         -> pvm_Z_inv(pvm_Z(a % 2^B, 1), 8)
      [] op = "sign_extend_16"        -> pvm_Z_inv(pvm_Z(a % 2^(2*B), 2), 8)
      [] op = "zero_extend_16"        -> a % 2^(2*B)
      [] op = "reverse_bytes"         -> reverse_bytes(a)

\* Two registers and an immediate: b is the source register, x the immediate.
reg_reg_imm(op, b, x, d) ==
    CASE op = "add_imm_32"        -> pvm_X(U32(b + x), 4)
      [] op = "and_imm"           -> And(b, x)
      [] op = "xor_imm"           -> Xor(b, x)
      [] op = "or_imm"            -> Or(b, x)
      [] op = "mul_imm_32"        -> pvm_X(U32(b * x), 4)
      [] op = "set_lt_u_imm"      -> Flag(b < x)
      [] op = "set_lt_s_imm"      -> Flag(pvm_Z(b, 8) < pvm_Z(x, 8))
      [] op = "shlo_l_imm_32"     -> pvm_X(U32(b * 2^(x % H)), 4)
      [] op = "shlo_r_imm_32"     -> pvm_X(U32(b) \div 2^(x % H), 4)
      [] op = "shar_r_imm_32"     -> pvm_Z_inv(pvm_Z(U32(b), 4) \div 2^(x % H), 8)
      [] op = "neg_add_imm_32"    -> pvm_X(U32(x + 2^H - b), 4)
      [] op = "set_gt_u_imm"      -> Flag(b > x)
      [] op = "set_gt_s_imm"      -> Flag(pvm_Z(b, 8) > pvm_Z(x, 8))
      [] op = "shlo_l_imm_alt_32" -> pvm_X(U32(x * 2^(b % H)), 4)
      [] op = "shlo_r_imm_alt_32" -> pvm_X(U32(x) \div 2^(b % H), 4)
      [] op = "shar_r_imm_alt_32" -> pvm_Z_inv(pvm_Z(U32(x), 4) \div 2^(b % H), 8)
      [] op = "cmov_iz_imm"       -> IF b = 0 THEN x ELSE d
      [] op = "cmov_nz_imm"       -> IF b # 0 THEN x ELSE d
      [] op = "add_imm_64"        -> U64(b + x)
      [] op = "mul_imm_64"        -> U64(b * x)
      [] op = "shlo_l_imm_64"     -> pvm_X(U64(b * 2^(x % W)), 8)
      [] op = "shlo_r_imm_64"     -> pvm_X(b \div 2^(x % W), 8)
      [] op = "shar_r_imm_64"     -> pvm_Z_inv(pvm_Z(b, 8) \div 2^(x % W), 8)
      [] op = "neg_add_imm_64"    -> (x + 2^W - b) % 2^W
      [] op = "shlo_l_imm_alt_64" -> U64(x * 2^(b % W))
      [] op = "shlo_r_imm_alt_64" -> x \div 2^(b % W)
      [] op = "shar_r_imm_alt_64" -> pvm_Z_inv(pvm_Z(x, 8) \div 2^(b % W), 8)
      [] op = "rot_r_64_imm"      -> rori64(b, x)
      [] op = "rot_r_64_imm_alt"  -> rori64(x, b)
      [] op = "rot_r_32_imm"      -> pvm_X(rori32(U32(b), x), 4)
      [] op = "rot_r_32_imm_alt"  -> pvm_X(rori32(U32(x), b), 4)

div_s_32(a, b) ==
    LET sa == pvm_Z(U32(a), 4)  sb == pvm_Z(U32(b), 4)
    IN  CASE sb = 0                       -> MaxWord
          [] sa = -(2^(H-1)) /\ sb = -1   -> pvm_Z_inv(sa, 8)
          [] OTHER                        -> pvm_Z_inv(pvm_rtz_div(sa, sb), 8)

rem_s_32(a, b) ==
    LET sa == pvm_Z(U32(a), 4)  sb == pvm_Z(U32(b), 4)
    IN  CASE sb = 0                       -> pvm_Z_inv(sa, 8)
          [] sa = -(2^(H-1)) /\ sb = -1   -> 0
          [] OTHER                        -> pvm_Z_inv(pvm_smod(sa, sb), 8)

div_s_64(a, b) ==
    LET sa == pvm_Z(a, 8)  sb == pvm_Z(b, 8)
    IN  CASE b = 0                        -> MaxWord
          [] sa = -(2^(W-1)) /\ sb = -1   -> a
          [] OTHER                        -> pvm_Z_inv(pvm_rtz_div(sa, sb), 8)

rem_s_64(a, b) ==
    LET sa == pvm_Z(a, 8)  sb == pvm_Z(b, 8)
    IN  CASE b = 0                        -> a
          [] sa = -(2^(W-1)) /\ sb = -1   -> 0
          [] OTHER                        -> pvm_Z_inv(pvm_smod(sa, sb), 8)

\* Three registers, 32-bit arithmetic.
reg_reg_reg_32(op, a, b) ==
    CASE op = "add_32"    -> pvm_X(U32(a + b), 4)
      [] op = "sub_32"    -> pvm_X(U32(U32(a) - U32(b)), 4)
      [] op = "mul_32"    -> pvm_X(U32(a * b), 4)
      [] op = "div_u_32"  -> IF U32(b) = 0 THEN MaxWord
                             ELSE pvm_X(U32(a) \div U32(b), 4)
      [] op = "div_s_32"  -> div_s_32(a, b)
      [] op = "rem_u_32"  -> IF U32(b) = 0 THEN pvm_X(U32(a), 4)
                             ELSE pvm_X(U32(a) % U32(b), 4)
      [] op = "rem_s_32"  -> rem_s_32(a, b)
      [] op = "shlo_l_32" -> pvm_X(U32(a * 2^(b % H)), 4)
      [] op = "shlo_r_32" -> pvm_X(U32(a) \div 2^(b % H), 4)
      [] op = "shar_r_32" -> pvm_Z_inv(pvm_Z(U32(a), 4) \div 2^(b % H), 8)

\* Three registers, 64-bit arithmetic.
reg_reg_reg_64(op, a, b) ==
    CASE op = "add_64"        -> U64(a + b)
      [] op = "sub_64"        -> (a + 2^W - b) % 2^W
      [] op = "mul_64"        -> U64(a * b)
      [] op = "div_u_64"      -> IF b = 0 THEN MaxWord ELSE a \div b
      [] op = "div_s_64"      -> div_s_64(a, b)
      [] op = "rem_u_64"      -> IF b = 0 THEN a ELSE a % b
      [] op = "rem_s_64"      -> rem_s_64(a, b)
      [] op = "shlo_l_64"     -> U64(a * 2^(b % W))
      [] op = "shlo_r_64"     -> a \div 2^(b % W)
      [] op = "shar_r_64"     -> pvm_Z_inv(pvm_Z(a, 8) \div 2^(b % W), 8)
      [] op = "mul_upper_s_s" -> pvm_Z_inv((pvm_Z(a, 8) * pvm_Z(b, 8)) \div 2^W, 8)
      [] op = "mul_upper_u_u" -> (a * b) \div 2^W
      [] op = "mul_upper_s_u" -> pvm_Z_inv((pvm_Z(a, 8) * b) \div 2^W, 8)

\* Three registers, bits and comparisons.
reg_reg_reg_bits(op, a, b, d) ==
    CASE op = "and"       -> And(a, b)
      [] op = "xor"       -> Xor(a, b)
      [] op = "or"        -> Or(a, b)
      [] op = "set_lt_u"  -> Flag(a < b)
      [] op = "set_lt_s"  -> Flag(pvm_Z(a, 8) < pvm_Z(b, 8))
      [] op = "cmov_iz"   -> IF b = 0 THEN a ELSE d
      [] op = "cmov_nz"   -> IF b # 0 THEN a ELSE d
      [] op = "rot_l_64"  -> roli64(a, b % W)
      [] op = "rot_l_32"  -> pvm_X(roli32(U32(a), b), 4)
      [] op = "rot_r_64"  -> rori64(a, b % W)
      [] op = "rot_r_32"  -> pvm_X(rori32(U32(a), b), 4)
      [] op = "and_inv"   -> And(a, Invert(b))
      [] op = "or_inv"    -> Or(a, Invert(b))
      [] op = "xnor"      -> Invert(Xor(a, b))
      [] op = "max"       -> pvm_Z_inv(Max({pvm_Z(a, 8), pvm_Z(b, 8)}), 8)
      [] op = "max_u"     -> Max({a, b})
      [] op = "min"       -> pvm_Z_inv(Min({pvm_Z(a, 8), pvm_Z(b, 8)}), 8)
      [] op = "min_u"     -> Min({a, b})

\* The condition of a branch on two registers, or on a register and an immediate.
branch_on(op, a, b) ==
    CASE op = "eq"   -> a = b
      [] op = "ne"   -> a # b
      [] op = "lt_u" -> a < b
      [] op = "le_u" -> a <= b
      [] op = "ge_u" -> a >= b
      [] op = "gt_u" -> a > b
      [] op = "lt_s" -> pvm_Z(a, 8) < pvm_Z(b, 8)
      [] op = "le_s" -> pvm_Z(a, 8) <= pvm_Z(b, 8)
      [] op = "ge_s" -> pvm_Z(a, 8) >= pvm_Z(b, 8)
      [] op = "gt_s" -> pvm_Z(a, 8) > pvm_Z(b, 8)

\* The value a load leaves in its register: v was read from n bytes.
load_value(signed, indirect, v, n) ==
    IF ~signed THEN v
    ELSE IF indirect THEN pvm_Z_inv(pvm_Z(v, n), 8) ELSE pvm_X(v, n)
=============================================================================
