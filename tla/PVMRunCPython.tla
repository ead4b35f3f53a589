--------------------------- MODULE PVMRunCPython ----------------------------
(***************************************************************************)
(* The execution loop of the cpython interpreter                           *)
(* (cpython/interpreter_cpython.py, invoke), its jumps and the functions   *)
(* of cpython/opcodes.                                                     *)
(***************************************************************************)
EXTENDS PVMCode, PVMMemory, PVMCPython

sjump_cp(c, vm, b) ==
    IF vm.pc + b \in detect_basic_blocks[c] THEN [vm EXCEPT !.skip = b]
    ELSE PanicError(vm)

\* The fallthrough must start a block too, taken or not.
branch_cp(c, vm, b, cond) ==
    CASE {vm.pc + b, vm.pc + vm.skip} \subseteq detect_basic_blocks[c] ->
            (IF cond THEN [vm EXCEPT !.skip = b] ELSE vm)
      [] OTHER -> PanicError(vm)

djump_cp(c, vm, a) ==
    LET index == a \div Align
    IN  CASE a = HaltAddress -> Exit([vm EXCEPT !.skip = 0], "halt", 0)
          [] a # HaltAddress /\ (a = 0 \/ a % Align # 0 \/ index > Len(Codes[c].table)) -> PanicError(vm)
          [] OTHER -> IF Codes[c].table[index] \in detect_basic_blocks[c]
                      THEN [vm EXCEPT !.skip = Codes[c].table[index] - vm.pc]
                      ELSE PanicError(vm)

-----------------------------------------------------------------------------
none_cp(c, vm, i) ==
    CASE i.op = "trap"        -> PanicError(vm)
      [] i.op = "fallthrough" -> sjump_cp(c, vm, vm.skip)
      [] i.op = "unlikely"    -> vm

imm_cp(c, vm, i) == Exit(vm, "host_halt", pvm_X_cp(i.x, l_only(c, vm.pc, 0)))

reg_ext_imm_cp(c, vm, i) == [vm EXCEPT !.reg[i.a] = i.x]

imm_imm_cp(c, vm, i) ==
    LET v_x == pvm_X_cp(i.x, l_first(i))
        v_y == pvm_X_cp(i.y, l_second(c, vm.pc, i, 1))
    IN  Stored(vm, mem_write_cp(vm.mem, v_x, i.n, v_y % 2^(i.n * B)))

offset_cp(c, vm, i) ==
    LET l_x == l_only(c, vm.pc, 0) IN sjump_cp(c, vm, pvm_Z_cp(i.x, l_x))

reg_imm_cp(c, vm, i) ==
    LET v_x == pvm_X_cp(i.x, l_only(c, vm.pc, 1))
        f   == mem_read_cp(vm.mem, v_x, i.n)
    IN  CASE i.op = "jump_ind" -> djump_cp(c, vm, U32(vm.reg[i.a] + v_x))
          [] i.op = "load_imm" -> [vm EXCEPT !.reg[i.a] = v_x]
          [] i.op = "load"     -> Loaded(vm, i.a, f, load_value_cp(i.signed, FALSE, f.value, i.n))
          [] i.op = "store"    ->
                Stored(vm, mem_write_cp(vm.mem, v_x, i.n, vm.reg[i.a] % 2^(i.n * B)))

reg_imm_imm_cp(c, vm, i) ==
    LET v_x == pvm_X_cp(i.x, l_first(i))
        v_y == pvm_X_cp(i.y, l_second(c, vm.pc, i, 1))
    IN  Stored(vm, mem_write_cp(vm.mem, U32(vm.reg[i.a] + v_x), i.n, v_y % 2^(i.n * B)))

\* load_imm_jump has set its register when the jump panics.
reg_imm_offset_cp(c, vm, i) ==
    LET v_x == pvm_X_cp(i.x, l_first(i))
        l_y == l_second(c, vm.pc, i, 1)
        v_y == pvm_Z_cp(i.y, l_y)
    IN  IF i.op = "load_imm_jump" THEN sjump_cp(c, [vm EXCEPT !.reg[i.a] = v_x], v_y)
        ELSE branch_cp(c, vm, v_y, branch_on_cp(i.cond, vm.reg[i.a], v_x))

reg_reg_imm_mem_cp(c, vm, i) ==
    LET v_x  == pvm_X_cp(i.x, l_only(c, vm.pc, 1))
        addr == U32(vm.reg[i.b] + v_x)
        f    == mem_read_cp(vm.mem, addr, i.n)
    IN  IF i.op = "store_ind"
        THEN Stored(vm, mem_write_cp(vm.mem, addr, i.n, vm.reg[i.a] % 2^(i.n * B)))
        ELSE Loaded(vm, i.a, f, load_value_cp(i.signed, TRUE, f.value, i.n))

reg_reg_offset_cp(c, vm, i) ==
    LET l_x == l_only(c, vm.pc, 1)
    IN  branch_cp(c, vm, pvm_Z_cp(i.x, l_x), branch_on_cp(i.cond, vm.reg[i.a], vm.reg[i.b]))

\* The register that is jumped to is read before the immediate is loaded.
reg_reg_imm_imm_cp(c, vm, i) ==
    LET v_x == pvm_X_cp(i.x, l_first(i))
        v_y == pvm_X_cp(i.y, l_second(c, vm.pc, i, 2))
    IN  djump_cp(c, [vm EXCEPT !.reg[i.a] = v_x], U32(vm.reg[i.b] + v_y))

Execute_cp(c, vm) ==
    LET i == at(c, vm.pc)
    IN  CASE i.type = "none"            -> none_cp(c, vm, i)
          [] i.type = "imm"             -> imm_cp(c, vm, i)
          [] i.type = "reg_ext_imm"     -> reg_ext_imm_cp(c, vm, i)
          [] i.type = "imm_imm"         -> imm_imm_cp(c, vm, i)
          [] i.type = "offset"          -> offset_cp(c, vm, i)
          [] i.type = "reg_imm"         -> reg_imm_cp(c, vm, i)
          [] i.type = "reg_imm_imm"     -> reg_imm_imm_cp(c, vm, i)
          [] i.type = "reg_imm_offset"  -> reg_imm_offset_cp(c, vm, i)
          [] i.type = "reg_reg_imm"     -> reg_reg_imm_mem_cp(c, vm, i)
          [] i.type = "reg_reg_offset"  -> reg_reg_offset_cp(c, vm, i)
          [] i.type = "reg_reg_imm_imm" -> reg_reg_imm_imm_cp(c, vm, i)

-----------------------------------------------------------------------------
\* A new interpreter for an inner machine: gas_paid restores the block charge.
invoke_cp(c, pc, gas, regs, m, gas_paid) ==
    [pc |-> pc, gas |-> gas, reg |-> regs, mem |-> m, skip |-> 0,
     status |-> IF is_valid(c, pc) THEN "resume" ELSE "panic", value |-> 0, paid |-> gas_paid]

\* After an instruction: only a running machine moves on; a terminator ends the block.
Advance_cp(c, vm) ==
    IF vm.status # "resume" THEN vm
    ELSE [vm EXCEPT !.paid = ~is_terminator(c, vm.pc), !.pc = U32(vm.pc + vm.skip)]

\* One round of the loop: fetch, charge the block, execute, advance.
Step_cp(c, vm) ==
    LET cost  == block_cost(c, vm.pc)
        paid  == [vm EXCEPT !.gas = IF vm.paid THEN @ ELSE @ - cost, !.paid = TRUE]
    IN  CASE vm.pc \notin inst_pos[c] -> PanicError(vm)
          [] vm.pc \in inst_pos[c] /\ ~vm.paid /\ vm.gas < cost -> Exit(vm, "out_of_gas", 0)
          [] OTHER -> Advance_cp(c, Execute_cp(c, [paid EXCEPT !.skip = inst_arg_len[c][vm.pc] + 1]))
=============================================================================
