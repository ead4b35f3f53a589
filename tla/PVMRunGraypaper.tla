--------------------------- MODULE PVMRunGraypaper ---------------------------
(***************************************************************************)
(* The execution loop of the graypaper interpreter                         *)
(* (graypaper/interpreter_gp.py, invoke) and its jumps.                    *)
(***************************************************************************)
EXTENDS PVMCode, PVMMemory, PVMGraypaper

sjump(c, vm, b) ==
    IF vm.pc + b \in detect_basic_blocks[c] THEN [vm EXCEPT !.skip = b]
    ELSE PanicError(vm)

\* The fallthrough must start a block too, taken or not.
branch(c, vm, b, cond) ==
    CASE {vm.pc + b, vm.pc + vm.skip} \subseteq detect_basic_blocks[c] ->
            (IF cond THEN [vm EXCEPT !.skip = b] ELSE vm)
      [] OTHER -> PanicError(vm)

djump(c, vm, a) ==
    LET index == a \div Align
    IN  CASE a = HaltAddress -> Exit([vm EXCEPT !.skip = 0], "halt", 0)
          [] a # HaltAddress /\ (a = 0 \/ a % Align # 0 \/ index > Len(Codes[c].table)) -> PanicError(vm)
          [] OTHER -> IF Codes[c].table[index] \in detect_basic_blocks[c]
                      THEN [vm EXCEPT !.skip = Codes[c].table[index] - vm.pc]
                      ELSE PanicError(vm)

-----------------------------------------------------------------------------
none(c, vm, i) ==
    CASE i.op = "trap"        -> PanicError(vm)
      [] i.op = "fallthrough" -> sjump(c, vm, vm.skip)
      [] i.op = "unlikely"    -> vm

imm(c, vm, i) == Exit(vm, "host_halt", pvm_X(i.x, l_only(c, vm.pc, 0)))

reg_ext_imm(c, vm, i) == [vm EXCEPT !.reg[i.a] = i.x]

imm_imm(c, vm, i) ==
    LET v_x == pvm_X(i.x, l_first(i))
        v_y == pvm_X(i.y, l_second(c, vm.pc, i, 1))
    IN  Stored(vm, mem_write(vm.mem, v_x, i.n, v_y % 2^(i.n * B)))

offset(c, vm, i) ==
    LET l_x == l_only(c, vm.pc, 0) IN sjump(c, vm, pvm_Z(i.x, l_x))

reg_imm(c, vm, i) ==
    LET v_x == pvm_X(i.x, l_only(c, vm.pc, 1))
        f   == mem_read(vm.mem, v_x, i.n)
    IN  CASE i.op = "jump_ind" -> djump(c, vm, U32(vm.reg[i.a] + v_x))
          [] i.op = "load_imm" -> [vm EXCEPT !.reg[i.a] = v_x]
          [] i.op = "load"     -> Loaded(vm, i.a, f, load_value(i.signed, FALSE, f.value, i.n))
          [] i.op = "store"    ->
                Stored(vm, mem_write(vm.mem, v_x, i.n, vm.reg[i.a] % 2^(i.n * B)))

reg_imm_imm(c, vm, i) ==
    LET v_x == pvm_X(i.x, l_first(i))
        v_y == pvm_X(i.y, l_second(c, vm.pc, i, 1))
    IN  Stored(vm, mem_write(vm.mem, U64(vm.reg[i.a] + v_x), i.n, v_y % 2^(i.n * B)))

\* load_imm_jump has set its register when the jump panics.
reg_imm_offset(c, vm, i) ==
    LET v_x == pvm_X(i.x, l_first(i))
        l_y == l_second(c, vm.pc, i, 1)
        v_y == pvm_Z(i.y, l_y)
    IN  IF i.op = "load_imm_jump" THEN sjump(c, [vm EXCEPT !.reg[i.a] = v_x], v_y)
        ELSE branch(c, vm, v_y, branch_on(i.cond, vm.reg[i.a], v_x))

reg_reg_imm_mem(c, vm, i) ==
    LET v_x  == pvm_X(i.x, l_only(c, vm.pc, 1))
        addr == U64(vm.reg[i.b] + v_x)
        f    == mem_read(vm.mem, addr, i.n)
    IN  IF i.op = "store_ind"
        THEN Stored(vm, mem_write(vm.mem, addr, i.n, vm.reg[i.a] % 2^(i.n * B)))
        ELSE Loaded(vm, i.a, f, load_value(i.signed, TRUE, f.value, i.n))

reg_reg_offset(c, vm, i) ==
    LET l_x == l_only(c, vm.pc, 1)
    IN  branch(c, vm, pvm_Z(i.x, l_x), branch_on(i.cond, vm.reg[i.a], vm.reg[i.b]))

\* The register that is jumped to is read before the immediate is loaded.
reg_reg_imm_imm(c, vm, i) ==
    LET v_x == pvm_X(i.x, l_first(i))
        v_y == pvm_X(i.y, l_second(c, vm.pc, i, 2))
    IN  djump(c, [vm EXCEPT !.reg[i.a] = v_x], U32(vm.reg[i.b] + v_y))

Execute_gp(c, vm) ==
    LET i == at(c, vm.pc)
    IN  CASE i.type = "none"            -> none(c, vm, i)
          [] i.type = "imm"             -> imm(c, vm, i)
          [] i.type = "reg_ext_imm"     -> reg_ext_imm(c, vm, i)
          [] i.type = "imm_imm"         -> imm_imm(c, vm, i)
          [] i.type = "offset"          -> offset(c, vm, i)
          [] i.type = "reg_imm"         -> reg_imm(c, vm, i)
          [] i.type = "reg_imm_imm"     -> reg_imm_imm(c, vm, i)
          [] i.type = "reg_imm_offset"  -> reg_imm_offset(c, vm, i)
          [] i.type = "reg_reg_imm"     -> reg_reg_imm_mem(c, vm, i)
          [] i.type = "reg_reg_offset"  -> reg_reg_offset(c, vm, i)
          [] i.type = "reg_reg_imm_imm" -> reg_reg_imm_imm(c, vm, i)

-----------------------------------------------------------------------------
\* A new interpreter for an inner machine: gas_paid restores the block charge.
invoke_gp(c, pc, gas, regs, m, gas_paid) ==
    [pc |-> pc, gas |-> gas, reg |-> regs, mem |-> m, skip |-> 0,
     status |-> IF is_valid(c, pc) THEN "resume" ELSE "panic", value |-> 0, paid |-> gas_paid]

\* After an instruction: only a running machine moves on; a terminator ends the block.
Advance(c, vm) ==
    IF vm.status # "resume" THEN vm
    ELSE [vm EXCEPT !.paid = ~is_terminator(c, vm.pc), !.pc = U32(vm.pc + vm.skip)]

\* One round of the loop: charge the block, fetch, execute, advance.
Step_gp(c, vm) ==
    LET cost  == block_cost(c, vm.pc)
        paid  == [vm EXCEPT !.gas = IF vm.paid THEN @ ELSE @ - cost, !.paid = TRUE]
    IN  CASE ~vm.paid /\ vm.gas < cost -> Exit(vm, "out_of_gas", 0)
          [] (vm.paid \/ vm.gas >= cost) /\ vm.pc \notin inst_pos[c] -> PanicError(paid)
          [] OTHER -> Advance(c, Execute_gp(c, [paid EXCEPT !.skip = inst_arg_len[c][vm.pc] + 1]))
=============================================================================
