------------------------------ MODULE PVMWords ------------------------------
(***************************************************************************)
(* The machine words of the PVM and the conversions its three interpreters *)
(* (graypaper, cpython, numba) define for themselves in their defs.py.     *)
(*                                                                         *)
(* The width of a byte is the parameter B.  The code has B = 8: registers  *)
(* of 8 bytes, "32-bit" operands of 4 bytes.  Every definition is written  *)
(* in terms of B, so that with a small B all operands can be enumerated.   *)
(* A name without suffix is the graypaper interpreter's, _cp is cpython's  *)
(* and _jit is numba's.                                                    *)
(***************************************************************************)
EXTENDS Integers, Sequences, FiniteSets, FiniteSetsExt

CONSTANT B

ASSUME BAssumption == B \in Nat \ {0}

W == 8 * B                       \* bits of a register
H == 4 * B                       \* bits of a 32-bit operand, and of an address
Word == 0 .. 2^W - 1

U64(x) == x % 2^W
U32(x) == x % 2^H
I64(x) == IF U64(x) >= 2^(W-1) THEN U64(x) - 2^W ELSE U64(x)
I32(x) == IF U32(x) >= 2^(H-1) THEN U32(x) - 2^H ELSE U32(x)

Bit(x, i) == (x \div 2^i) % 2

\* The bit operations of Python and of numpy on words; conjunction is tabulated.
AndTable[a \in Word, b \in Word] ==
    IF a = 0 \/ b = 0 THEN 0 ELSE (a % 2) * (b % 2) + 2 * AndTable[a \div 2, b \div 2]
And(a, b) == AndTable[a, b]
Or(a, b) == a + b - And(a, b)
Xor(a, b) == a + b - 2 * And(a, b)
Invert(a) == 2^W - 1 - a

Byte(x, i) == (x \div 2^(i * B)) % 2^B
BitCount(x) == Cardinality({i \in 0 .. W-1 : Bit(x, i) = 1})
BitLength(x) == IF x = 0 THEN 0 ELSE 1 + Max({i \in 0 .. W-1 : Bit(x, i) = 1})
Abs(x) == IF x < 0 THEN -x ELSE x

\* Python's // and % for a divisor of either sign: both round to minus infinity.
FloorDiv(a, b) == IF b > 0 THEN a \div b ELSE (-a) \div (-b)
FloorMod(a, b) == a - b * FloorDiv(a, b)

-----------------------------------------------------------------------------
(* graypaper/defs.py *)

pvm_X(x, n) == IF n = 0 THEN 0
               ELSE x + (x \div 2^(n*B - 1)) * (2^W - 2^(n*B))

pvm_Z(a, n) == IF n = 0 THEN 0
               ELSE IF a < 2^(n*B - 1) THEN a ELSE a - 2^(n*B)

pvm_Z_inv(a, n) == (2^(n*B) + a) % 2^(n*B)

pvm_smod(a, b) == IF b = 0 THEN a
                  ELSE (IF a >= 0 THEN 1 ELSE -1) * (Abs(a) % Abs(b))

\* (Mutant) The quotient is rounded down.
pvm_rtz_div_floor(a, b) == FloorDiv(a, b)

pvm_rtz_div(a, b) == LET q == Abs(a) \div Abs(b)
                     IN  IF (a >= 0) = (b >= 0) THEN q ELSE -q

\* rori64, rori32, roli64, roli32: the amount is reduced, then both halves are shifted.
Rotate(x, right, bits) ==
    LET s == right % bits
    IN  ((x \div 2^s) + x * 2^(bits - s)) % 2^bits
rori64(x, s) == Rotate(x, s, W)
roli64(x, s) == Rotate(x, W - (s % W), W)
rori32(x, s) == Rotate(x, s, H)
roli32(x, s) == Rotate(x, H - (s % H), H)

reverse_bytes(x) == MapThenSumSet(LAMBDA i : Byte(x, i) * 2^((7 - i) * B), 0 .. 7)

\* value & -value isolates the lowest bit that is set.
count_trailing_zeroes(v, bits) ==
    IF v = 0 THEN bits ELSE BitLength(And(v, U64(-v))) - 1

count_leading_zeroes(v, bits) == bits - BitLength(v % 2^bits)

-----------------------------------------------------------------------------
(* cpython/defs.py *)

\* The sign bit is tested by a mask; a length of 8 or an unknown one copies.
pvm_X_cp(x, n) ==
    LET masked == x % 2^(n*B)
    IN  CASE n = 0 -> x
          [] n = 8 -> U64(x)
          [] OTHER -> IF Bit(masked, n*B - 1) = 1 THEN masked + (2^W - 2^(n*B))
                                                  ELSE masked

pvm_Z_cp(a, n) ==
    IF n <= 0 THEN 0
    ELSE LET u    == a % 2^(n*B)
             sign == 2^(n*B - 1)
         IN  (IF u >= sign THEN u - sign ELSE u + sign) - sign

pvm_Z_inv_cp(a, n) == IF n <= 0 THEN 0 ELSE U64(a) % 2^(n*B)

pvm_smod_cp(a, b) ==
    CASE b = 0             -> a
      [] a >= 0 /\ b > 0   -> a % b
      [] a >= 0 /\ b < 0   -> a % (-b)
      [] a < 0 /\ b > 0    -> -((-a) % b)
      [] a < 0 /\ b < 0    -> -((-a) % (-b))

pvm_rtz_div_cp(a, b) ==
    CASE a >= 0 /\ b > 0   -> a \div b
      [] a >= 0 /\ b <= 0  -> -(a \div (-b))
      [] a < 0 /\ b > 0    -> -((-a) \div b)
      [] a < 0 /\ b <= 0   -> (-a) \div (-b)

-----------------------------------------------------------------------------
(* numba/defs.py *)

\* The same case distinction as cpython's, on unsigned words.
pvm_X_jit(x, n) == pvm_X_cp(x, n)

pvm_Z_inv_jit(a, n) == U64(a) % 2^(n*B)

reverse_bytes_jit(x) ==
    FoldSet(LAMBDA i, result : Or(result, Byte(x, i) * 2^((7 - i) * B)), 0, 0 .. 7)

pvm_Z_jit(a, n) == IF n >= 8 THEN I64(a)
                   ELSE IF n = 0 THEN 0
                   ELSE LET mask == 2^(n*B) - 1
                            val  == And(a, mask)
                        IN  IF Bit(val, n*B - 1) = 1 THEN I64(Or(val, 2^W - 1 - mask))
                                                     ELSE val

\* (Mutant) The remainder keeps the sign of the divisor.
pvm_smod_jit_floor(a, b) == IF b = 0 THEN a ELSE FloorMod(a, b)

pvm_smod_jit(a, b) ==
    LET r == FloorMod(a, b)
    IN  CASE b = 0                                -> a
          [] b # 0 /\ a < 0 /\ r > 0              -> r - b
          [] b # 0 /\ a > 0 /\ r < 0              -> r - b
          [] OTHER                                -> r

pvm_rtz_div_jit(a, b) ==
    LET q == FloorDiv(a, b)
    IN  IF (a >= 0) = (b > 0) THEN q
        ELSE IF FloorMod(a, b) # 0 THEN q + 1 ELSE q

\* Shifts of the compiled code take the amount modulo the register width; the
\* amount is not reduced to the width of the operand first.
ShiftR(x, s) == x \div 2^(s % W)
ShiftL(x, s) == U64(x * 2^(s % W))
rori64_jit(x, s) == Or(ShiftR(x, s), ShiftL(x, W - s))
roli64_jit(x, s) == Or(ShiftL(x, s), ShiftR(x, W - s))
rori32_jit(x, s) == U32(Or(ShiftR(x, s), ShiftL(x, H - s)))
roli32_jit(x, s) == U32(Or(ShiftL(x, s), ShiftR(x, H - s)))

\* The high word of the product, from the four products of half words.
umul64wide_jit(a, b) ==
    LET al == U32(a)  ah == a \div 2^H
        bl == U32(b)  bh == b \div 2^H
        carry == (al * bl) \div 2^H + U32(al * bh) + U32(ah * bl)
    IN  U64(ah * bh + (al * bh) \div 2^H + (ah * bl) \div 2^H + carry \div 2^H)
imul64wide_jit(a, b) ==
    U64(umul64wide_jit(U64(a), U64(b)) - (IF a < 0 THEN U64(b) ELSE 0)
                                       - (IF b < 0 THEN U64(a) ELSE 0))
smul_u64wide_jit(a, b) ==
    U64(umul64wide_jit(U64(a), b) - (IF a < 0 THEN b ELSE 0))

\* The loop moves a test bit down from the top until it meets a bit that is set.
count_leading_zeroes_jit(v, bits) ==
    IF v % 2^bits = 0 THEN bits
    ELSE Min({k \in 0 .. bits-1 : Bit(v, bits - 1 - k) = 1})

count_trailing_zeroes_jit(v, bits) ==
    IF v = 0 THEN bits ELSE Min({k \in 0 .. W-1 : Bit(v, k) = 1})
=============================================================================
