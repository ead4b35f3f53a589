------------------------------ MODULE PVMNumba ------------------------------
(***************************************************************************)
(* What each instruction of the numba interpreter computes                 *)
(* (numba/interpreter_numba_jit.py, invoke_native), on unsigned registers  *)
(* of the compiled code.                                                   *)
(***************************************************************************)
EXTENDS PVMWords

\* An operation that raised: invoke_native ends with the exception.
Raised_jit == -1

LOCAL AllOnes == 2^W - 1
LOCAL One(c) == IF c THEN 1 ELSE 0

reg_reg_jit(op, a) ==
    CASE op = "move_reg"              -> a
      [] op = "count_set_bits_64"     -> BitCount(a)
      [] op = "count_set_bits_32"     -> BitCount(U32(a))
      [] op = "leading_zero_bits_64"  -> count_leading_zeroes_jit(a, W)
      [] op = "leading_zero_bits_32"  -> count_leading_zeroes_jit(U32(a), H)
      [] op = "trailing_zero_bits_64" -> count_trailing_zeroes_jit(a, W)
      [] op = "trailing_zero_bits_32" -> count_trailing_zeroes_jit(U32(a), H)
      [] op = "sign_extend_8"         -> pvm_Z_inv_jit(pvm_Z_jit(And(a, 2^B - 1), 1), 8)
      [] op = "sign_extend_16"        -> pvm_Z_inv_jit(pvm_Z_jit(And(a, 2^(2*B) - 1), 2), 8)
      [] op = "zero_extend_16"        -> And(a, 2^(2*B) - 1)
      [] op = "reverse_bytes"         -> reverse_bytes_jit(a)

\* Rotations by an immediate pass the amount as it is.
reg_reg_imm_jit(op, b, x, d) ==
    CASE op = "add_imm_32"        -> pvm_X_jit(U32(U64(b + x)), 4)
      [] op = "and_imm"           -> And(b, x)
      [] op = "xor_imm"           -> Xor(b, x)
      [] op = "or_imm"            -> Or(b, x)
      [] op = "mul_imm_32"        -> pvm_X_jit(U32(U64(b * x)), 4)
      [] op = "set_lt_u_imm"      -> One(b < x)
      [] op = "set_lt_s_imm"      -> One(pvm_Z_jit(b, 8) < pvm_Z_jit(x, 8))
      [] op = "shlo_l_imm_32"     -> pvm_X_jit(U32(ShiftL(b, x % H)), 4)
      [] op = "shlo_r_imm_32"     -> pvm_X_jit(ShiftR(U32(b), U32(x) % H), 4)
      [] op = "shar_r_imm_32"     -> pvm_Z_inv_jit(I32(pvm_Z_jit(U32(b), 4)) \div 2^(U32(x) % H), 8)
      [] op = "neg_add_imm_32"    -> pvm_X_jit(U32(U64(x - b)), 4)
      [] op = "set_gt_u_imm"      -> One(b > x)
      [] op = "set_gt_s_imm"      -> One(pvm_Z_jit(b, 8) > pvm_Z_jit(x, 8))
      [] op = "shlo_l_imm_alt_32" -> pvm_X_jit(U32(ShiftL(x, b % H)), 4)
      [] op = "shlo_r_imm_alt_32" -> pvm_X_jit(ShiftR(U32(x), U32(b) % H), 4)
      [] op = "shar_r_imm_alt_32" -> pvm_Z_inv_jit(I32(pvm_Z_jit(U32(x), 4)) \div 2^(U32(b) % H), 8)
      [] op = "cmov_iz_imm"       -> IF b = 0 THEN x ELSE d
      [] op = "cmov_nz_imm"       -> IF b # 0 THEN x ELSE d
      [] op = "add_imm_64"        -> U64(b + x)
      [] op = "mul_imm_64"        -> U64(b * x)
      [] op = "shlo_l_imm_64"     -> ShiftL(b, x % W)
      [] op = "shlo_r_imm_64"     -> ShiftR(b, x % W)
      [] op = "shar_r_imm_64"     -> pvm_Z_inv_jit(pvm_Z_jit(b, 8) \div 2^(x % W), 8)
      [] op = "neg_add_imm_64"    -> U64(x - b)
      [] op = "shlo_l_imm_alt_64" -> ShiftL(x, b % W)
      [] op = "shlo_r_imm_alt_64" -> ShiftR(x, b % W)
      [] op = "shar_r_imm_alt_64" -> pvm_Z_inv_jit(pvm_Z_jit(x, 8) \div 2^(b % W), 8)
      [] op = "rot_r_64_imm"      -> rori64_jit(b, x)
      [] op = "rot_r_64_imm_alt"  -> rori64_jit(x, b)
      [] op = "rot_r_32_imm"      -> pvm_X_jit(rori32_jit(U32(b), U32(x)), 4)
      [] op = "rot_r_32_imm_alt"  -> pvm_X_jit(rori32_jit(U32(x), U32(b)), 4)

div_s_32_jit(a, b) ==
    LET sa == I32(pvm_Z_jit(U32(a), 4))  sb == I32(pvm_Z_jit(U32(b), 4))
    IN  CASE sb = 0                       -> AllOnes
          [] sa = -(2^(H-1)) /\ sb = -1   -> pvm_Z_inv_jit(sa, 8)
          [] OTHER                        -> pvm_Z_inv_jit(pvm_rtz_div_jit(sa, sb), 8)

rem_s_32_jit(a, b) ==
    LET sa == pvm_Z_jit(U32(a), 4)  sb == pvm_Z_jit(U32(b), 4)
    IN  CASE sb = 0                       -> pvm_Z_inv_jit(sa, 8)
          [] sa = -(2^(H-1)) /\ sb = -1   -> 0
          [] OTHER                        -> pvm_Z_inv_jit(pvm_smod_jit(sa, sb), 8)

div_s_64_jit(a, b) ==
    LET sa == pvm_Z_jit(a, 8)  sb == pvm_Z_jit(b, 8)
    IN  CASE b = 0                        -> AllOnes
          [] sa = -(2^(W-1)) /\ sb = -1   -> a
          [] OTHER                        -> pvm_Z_inv_jit(pvm_rtz_div_jit(sa, sb), 8)

rem_s_64_jit(a, b) ==
    LET sa == pvm_Z_jit(a, 8)  sb == pvm_Z_jit(b, 8)
    IN  CASE sb = 0                       -> pvm_Z_inv_jit(sa, 8)
          [] sa = -(2^(W-1)) /\ sb = -1   -> 0
          [] OTHER                        -> pvm_Z_inv_jit(pvm_smod_jit(sa, sb), 8)

\* div_u_32 tests the whole register for zero and divides by its low half.
reg_reg_reg_32_jit(op, a, b) ==
    CASE op = "add_32"    -> pvm_X_jit(U32(U64(a + b)), 4)
      [] op = "sub_32"    -> pvm_X_jit(U32(U64(a - b)), 4)
      [] op = "mul_32"    -> pvm_X_jit(U32(U64(a * b)), 4)
      [] op = "div_u_32"  -> IF b = 0 THEN AllOnes
                             ELSE IF U32(b) = 0 THEN Raised_jit
                             ELSE pvm_X_jit(U32(a) \div U32(b), 4)
      [] op = "div_s_32"  -> div_s_32_jit(a, b)
      [] op = "rem_u_32"  -> IF U32(b) = 0 THEN pvm_X_jit(U32(a), 4)
                             ELSE pvm_X_jit(U32(a) % U32(b), 4)
      [] op = "rem_s_32"  -> rem_s_32_jit(a, b)
      [] op = "shlo_l_32" -> pvm_X_jit(U32(ShiftL(a, b % H)), 4)
      [] op = "shlo_r_32" -> pvm_X_jit(ShiftR(U32(a), U32(b) % H), 4)
      [] op = "shar_r_32" -> pvm_Z_inv_jit(I32(pvm_Z_jit(U32(a), 4)) \div 2^(U32(b) % H), 8)

reg_reg_reg_64_jit(op, a, b) ==
    CASE op = "add_64"        -> U64(a + b)
      [] op = "sub_64"        -> U64(a - b)
      [] op = "mul_64"        -> U64(a * b)
      [] op = "div_u_64"      -> IF b = 0 THEN AllOnes ELSE a \div b
      [] op = "div_s_64"      -> div_s_64_jit(a, b)
      [] op = "rem_u_64"      -> IF b = 0 THEN a ELSE a % b
      [] op = "rem_s_64"      -> rem_s_64_jit(a, b)
      [] op = "shlo_l_64"     -> ShiftL(a, b % W)
      [] op = "shlo_r_64"     -> ShiftR(a, b % W)
      [] op = "shar_r_64"     -> pvm_Z_inv_jit(pvm_Z_jit(a, 8) \div 2^(b % W), 8)
      [] op = "mul_upper_s_s" -> pvm_Z_inv_jit(imul64wide_jit(I64(a), I64(b)), 8)
      [] op = "mul_upper_u_u" -> umul64wide_jit(a, b)
      [] op = "mul_upper_s_u" -> pvm_Z_inv_jit(smul_u64wide_jit(I64(a), b), 8)

reg_reg_reg_bits_jit(op, a, b, d) ==
    CASE op = "and"       -> And(a, b)
      [] op = "xor"       -> Xor(a, b)
      [] op = "or"        -> Or(a, b)
      [] op = "set_lt_u"  -> One(a < b)
      [] op = "set_lt_s"  -> One(pvm_Z_jit(a, 8) < pvm_Z_jit(b, 8))
      [] op = "cmov_iz"   -> IF b = 0 THEN a ELSE d
      [] op = "cmov_nz"   -> IF b # 0 THEN a ELSE d
      [] op = "rot_l_64"  -> roli64_jit(a, b % W)
      [] op = "rot_l_32"  -> pvm_X_jit(roli32_jit(U32(a), U32(b) % H), 4)
      [] op = "rot_r_64"  -> rori64_jit(a, b % W)
      [] op = "rot_r_32"  -> pvm_X_jit(rori32_jit(U32(a), U32(b) % H), 4)
      [] op = "and_inv"   -> And(a, Invert(b))
      [] op = "or_inv"    -> Or(a, Invert(b))
      [] op = "xnor"      -> Invert(Xor(a, b))
      [] op = "max"       -> IF pvm_Z_jit(a, 8) >= pvm_Z_jit(b, 8) THEN a ELSE b
      [] op = "max_u"     -> IF a >= b THEN a ELSE b
      [] op = "min"       -> IF pvm_Z_jit(a, 8) <= pvm_Z_jit(b, 8) THEN a ELSE b
      [] op = "min_u"     -> IF a <= b THEN a ELSE b

branch_on_jit(op, a, b) ==
    CASE op = "eq"   -> a = b
      [] op = "ne"   -> a # b
      [] op = "lt_u" -> a < b
      [] op = "le_u" -> a <= b
      [] op = "ge_u" -> a >= b
      [] op = "gt_u" -> a > b
      [] op = "lt_s" -> pvm_Z_jit(a, 8) < pvm_Z_jit(b, 8)
      [] op = "le_s" -> pvm_Z_jit(a, 8) <= pvm_Z_jit(b, 8)
      [] op = "ge_s" -> pvm_Z_jit(a, 8) >= pvm_Z_jit(b, 8)
      [] op = "gt_s" -> pvm_Z_jit(a, 8) > pvm_Z_jit(b, 8)

load_value_jit(signed, indirect, v, n) ==
    IF ~signed THEN v
    ELSE IF indirect THEN pvm_Z_inv_jit(pvm_Z_jit(v, n), 8) ELSE pvm_X_jit(v, n)
=============================================================================
