------------------------------ MODULE GasModel ------------------------------
(***************************************************************************)
(* The gas of a basic block: calculate_block_gas of pvm/gas_model.py, a    *)
(* simulation of a pipelined out-of-order processor.  Instructions are     *)
(* decoded in order into the reorder buffer, start when their execution    *)
(* units are free and the instructions they read from are finished, and    *)
(* retire in order; the block costs the cycles this takes.                 *)
(*                                                                         *)
(* A code position holds one instruction: its operation o and its register *)
(* operands a, b and d as the instruction table names them.  off is the    *)
(* offset of a branch.  Positions outside the code read as zero bytes,     *)
(* which is the opcode of trap.                                            *)
(***************************************************************************)
EXTENDS Integers, FiniteSets, FiniteSetsExt, Sequences, SequencesExt

CONSTANTS Reg,          \* the registers (13 in the code)
          Codes,        \* the blocks whose gas is calculated
          RobSize,      \* entries of the reorder buffer (32 in the code)
          Window,       \* decode slots and starts per cycle (4 and 5 in the code)
          MaxCycles     \* bound: no block of Codes takes more cycles

ASSUME GasModelAssumption == /\ RobSize \in Nat \ {0}
                             /\ Window \in [decode : Nat \ {0}, start : Nat \ {0}]
                             /\ MaxCycles \in Nat

\* The opcodes of the model, one or more for every row of the cost table.
Opcode == {"move_reg", "add_64", "add_32", "add_imm_64", "add_imm_32",
           "count_set_bits_64", "trailing_zero_bits", "shlo_l_64", "shlo_l_32",
           "shlo_l_imm_alt_64", "shlo_l_imm_alt_32", "set_lt_u", "cmov_iz",
           "cmov_iz_imm", "max", "load_ind", "store_ind", "branch_eq", "div_u_64",
           "and_inv", "xnor", "neg_add_imm_32", "load_imm", "load_imm_64", "mul_64",
           "mul_32", "mul_upper_u_u", "mul_upper_s_u", "trap", "fallthrough",
           "unlikely", "jump", "load_imm_jump", "jump_ind", "load_imm_jump_ind",
           "ecalli"}
TERMINATION_OPCODES == {"trap", "fallthrough", "jump", "jump_ind", "load_imm_jump",
                        "load_imm_jump_ind", "branch_eq"}
Instruction == [o : Opcode, a : Reg, b : Reg, d : Reg, off : Int]

\* Register operands name registers (they are clamped when they are decoded), and a
\* block is decoded up to its terminator.  The interpreters price basic blocks of
\* valid code only (code_valid of PVMCode), whose last instruction is a terminator and
\* whose operands are short enough, so that no ValueError is raised on the way.
ASSUME CodesAssumption ==
    \A c \in Codes : /\ c \in Seq(Instruction)
                     /\ c # <<>>
                     /\ c[Len(c)].o \in TERMINATION_OPCODES

VARIABLES code, pc, cycles, decode_slots, starts_left, units, rob, gas,
          \* history: the next entry's number, the entry whose result each register
          \* holds, and the length of the chain of instructions each entry ends
          next, writer, depth

vars == <<code, pc, cycles, decode_slots, starts_left, units, rob, gas,
          next, writer, depth>>
history == <<next, writer, depth>>

-----------------------------------------------------------------------------
(* The instruction table. *)

Unit == {"A", "L", "S", "M", "D"}
Capacity == [u \in Unit |-> IF u \in {"M", "D"} THEN 1 ELSE 4]
Uses(S) == [u \in Unit |-> IF u \in S THEN 1 ELSE 0]

\* cost_rules: cycles, decode slots, execution units; overlap is the number of
\* decode slots when source and destination overlap.
Rule(c, s, u, o) == [cycles |-> c, slots |-> s, units |-> u, overlap |-> o]
cost_rules(o) ==
    CASE o = "move_reg"            -> Rule(0, 1, Uses({}), 1)
      [] o = "add_64"              -> Rule(1, 2, Uses({"A"}), 1)
      [] o = "add_32"              -> Rule(2, 3, Uses({"A"}), 2)
      [] o = "add_imm_64"          -> Rule(1, 2, Uses({"A"}), 1)
      [] o = "add_imm_32"          -> Rule(2, 3, Uses({"A"}), 2)
      [] o = "count_set_bits_64"   -> Rule(1, 1, Uses({"A"}), 1)
      [] o = "trailing_zero_bits"  -> Rule(2, 1, [Uses({"A"}) EXCEPT !["A"] = 2], 1)
      [] o = "shlo_l_64"           -> Rule(1, 3, Uses({"A"}), 2)
      [] o = "shlo_l_32"           -> Rule(2, 4, Uses({"A"}), 3)
      [] o = "shlo_l_imm_alt_64"   -> Rule(1, 3, Uses({"A"}), 3)
      [] o = "shlo_l_imm_alt_32"   -> Rule(2, 4, Uses({"A"}), 4)
      [] o = "set_lt_u"            -> Rule(3, 3, Uses({"A"}), 3)
      [] o = "cmov_iz"             -> Rule(2, 2, Uses({"A"}), 2)
      [] o = "cmov_iz_imm"         -> Rule(2, 3, Uses({"A"}), 3)
      [] o = "max"                 -> Rule(3, 3, Uses({"A"}), 2)
      [] o = "load_ind"            -> Rule(25, 1, Uses({"A", "L"}), 1)
      [] o = "store_ind"           -> Rule(25, 1, Uses({"A", "S"}), 1)
      [] o = "branch_eq"           -> Rule(20, 1, Uses({"A"}), 1)
      [] o = "div_u_64"            -> Rule(60, 4, Uses({"A", "D"}), 4)
      [] o = "and_inv"             -> Rule(2, 3, Uses({"A"}), 3)
      [] o = "xnor"                -> Rule(2, 3, Uses({"A"}), 2)
      [] o = "neg_add_imm_32"      -> Rule(3, 4, Uses({"A"}), 4)
      [] o = "load_imm"            -> Rule(1, 1, Uses({}), 1)
      [] o = "load_imm_64"         -> Rule(1, 2, Uses({}), 2)
      [] o = "mul_64"              -> Rule(3, 2, Uses({"A", "M"}), 1)
      [] o = "mul_32"              -> Rule(4, 3, Uses({"A", "M"}), 2)
      [] o = "mul_upper_u_u"       -> Rule(4, 4, Uses({"A", "M"}), 4)
      [] o = "mul_upper_s_u"       -> Rule(6, 4, Uses({"A", "M"}), 4)
      [] o \in {"trap", "fallthrough"}          -> Rule(2, 1, Uses({}), 1)
      [] o = "unlikely"            -> Rule(40, 1, Uses({}), 1)
      [] o \in {"jump", "load_imm_jump"}         -> Rule(15, 1, Uses({}), 1)
      [] o \in {"jump_ind", "load_imm_jump_ind"} -> Rule(22, 1, Uses({}), 1)
      [] o = "ecalli"              -> Rule(100, 4, Uses({"A"}), 4)

\* instruction_registers: the sources and the destinations.  A conditional move also
\* reads its destination; host calls read and write no register in this model.
instruction_registers(i) ==
    CASE i.o \in {"trap", "fallthrough", "unlikely", "ecalli", "jump"} ->
             [src |-> {}, dst |-> {}]
      [] i.o \in {"load_imm", "load_imm_64", "load_imm_jump"} -> [src |-> {}, dst |-> {i.a}]
      [] i.o = "jump_ind"                    -> [src |-> {i.a}, dst |-> {}]
      [] i.o \in {"store_ind", "branch_eq"}  -> [src |-> {i.a, i.b}, dst |-> {}]
      [] i.o = "cmov_iz_imm"                 -> [src |-> {i.a, i.b}, dst |-> {i.a}]
      [] i.o = "cmov_iz"                     -> [src |-> {i.a, i.b, i.d}, dst |-> {i.d}]
      [] i.o \in {"move_reg", "count_set_bits_64", "trailing_zero_bits", "add_imm_64",
                  "add_imm_32", "shlo_l_imm_alt_64", "shlo_l_imm_alt_32",
                  "neg_add_imm_32", "load_ind", "load_imm_jump_ind"} ->
             [src |-> {i.b}, dst |-> {i.a}]
      [] OTHER                               -> [src |-> {i.a, i.b}, dst |-> {i.d}]

\* _byte of the code: the opcode at a position, zero (trap) outside the code.
code_byte(c, p) == IF p \in DOMAIN c THEN c[p].o ELSE "trap"

\* instruction_cost: a shift by a register looks at its first source only; a branch
\* with a trap or an unlikely at its target or behind it costs one cycle.
instruction_cost(c, p) ==
    LET i    == c[p]
        rule == cost_rules(i.o)
        r    == instruction_registers(i)
        src  == IF i.o \in {"shlo_l_64", "shlo_l_32"} THEN {i.a} ELSE r.src
        rare == i.o = "branch_eq" /\ \E q \in {p + i.off, p + 1} :
                                        code_byte(c, q) \in {"trap", "unlikely"}
    IN  [cycles |-> IF rare THEN 1 ELSE rule.cycles,
         slots  |-> IF src \cap r.dst # {} THEN rule.overlap ELSE rule.slots,
         units  |-> rule.units]

-----------------------------------------------------------------------------
NoPc == 0
Live == DOMAIN rob

Init == /\ code \in Codes
        /\ pc = 1
        /\ cycles = 0
        /\ decode_slots = Window.decode
        /\ starts_left = Window.start
        /\ units = Capacity
        /\ rob = <<>>
        /\ gas = 0
        /\ next = 1
        /\ writer = [r \in Reg |-> 0]
        /\ depth = <<>>

\* (Mutant) An instruction that needs every decode slot of a cycle does not fit.
CanDecode_strict == /\ pc # NoPc
                    /\ Cardinality(Live) < RobSize
                    /\ instruction_cost(code, pc).slots < decode_slots

CanDecode == /\ pc # NoPc
             /\ Cardinality(Live) < RobSize
             /\ instruction_cost(code, pc).slots <= decode_slots

Advance == pc' = IF code[pc].o \in TERMINATION_OPCODES THEN NoPc ELSE pc + 1

\* (Mutant) A renamed destination is not taken from the entry that wrote it before.
Rename_keeps(r) ==
    /\ rob' = [e \in Live |-> [rob[e] EXCEPT !.registers =
                 IF @ \cap r.src # {} THEN @ \cup r.dst ELSE @]]
    /\ writer' = [x \in Reg |-> IF x \in r.dst THEN writer[CHOOSE s \in r.src : TRUE]
                                               ELSE writer[x]]
    /\ UNCHANGED <<next, depth>>

\* Register renaming: the entry that produced the source now also produced the
\* destination; the instruction takes no entry.
Rename(r) ==
    /\ rob' = [e \in Live |-> [rob[e] EXCEPT !.registers =
                 IF @ \cap r.src # {} THEN @ \cup r.dst ELSE @ \ r.dst]]
    /\ writer' = [x \in Reg |-> IF x \in r.dst THEN writer[CHOOSE s \in r.src : TRUE]
                                               ELSE writer[x]]
    /\ UNCHANGED <<next, depth>>

MaxDepth(S) == IF S = {} THEN 0 ELSE Max({depth[e] : e \in S})

\* A new entry depends on the entries its sources come from and takes over the
\* registers it writes.
Enter(r, cost) ==
    LET deps  == {e \in Live : rob[e].registers \cap r.src # {}}
        entry == [state |-> "DEC", cycles_left |-> cost.cycles, dependencies |-> deps,
                  registers |-> r.dst, units |-> cost.units]
    IN  /\ rob' = [e \in Live \cup {next} |->
                     IF e = next THEN entry
                     ELSE [rob[e] EXCEPT !.registers = @ \ r.dst]]
        /\ writer' = [x \in Reg |-> IF x \in r.dst THEN next ELSE writer[x]]
        /\ depth' = Append(depth, cost.cycles + MaxDepth({writer[x] : x \in r.src} \ {0}))
        /\ next' = next + 1

Decode == /\ gas = 0
          /\ CanDecode
          /\ LET r    == instruction_registers(code[pc])
                 cost == instruction_cost(code, pc)
             IN  /\ decode_slots' = decode_slots - cost.slots
                 /\ IF code[pc].o = "move_reg" THEN Rename(r) ELSE Enter(r, cost)
          /\ Advance
          /\ UNCHANGED <<code, cycles, starts_left, units, gas>>

\* An entry that has retired has no cycles left.
Ready(e) == /\ rob[e].state = "WAIT"
            /\ \A u \in Unit : rob[e].units[u] <= units[u]
            /\ \A d \in rob[e].dependencies : d \in Live => rob[d].cycles_left = 0

CanStart == starts_left > 0 /\ \E e \in Live : Ready(e)

\* The oldest ready entry starts.
Start == /\ gas = 0
         /\ ~CanDecode
         /\ CanStart
         /\ LET e == Min({x \in Live : Ready(x)})
            IN  /\ rob' = [rob EXCEPT ![e].state = "EXE", ![e].dependencies = {}]
                /\ units' = [u \in Unit |-> units[u] - rob[e].units[u]]
         /\ starts_left' = starts_left - 1
         /\ UNCHANGED <<code, pc, cycles, decode_slots, gas, history>>

\* (Mutant) The block ends when its last instruction has started.
Done_early == pc = NoPc /\ \A e \in Live : rob[e].state \in {"EXE", "FIN"}

Done == pc = NoPc /\ Live = {}

Finish == /\ gas = 0
          /\ ~CanDecode
          /\ ~CanStart
          /\ Done
          /\ gas' = IF cycles - 3 > 1 THEN cycles - 3 ELSE 1
          /\ UNCHANGED <<code, pc, cycles, decode_slots, starts_left, units, rob, history>>

\* The finished prefix of the buffer.
Retired == {e \in Live : \A f \in Live : f <= e => rob[f].state = "FIN"}

Tick(entry) ==
    CASE entry.state = "DEC" -> [entry EXCEPT !.state = "WAIT"]
      [] entry.state = "EXE" /\ entry.cycles_left = 0 -> [entry EXCEPT !.state = "FIN"]
      [] entry.state = "EXE" /\ entry.cycles_left > 0 ->
             [entry EXCEPT !.cycles_left = @ - 1]
      [] OTHER -> entry

\* (Mutant) Units are freed when the entry finishes, at no cycles left.
Releasing_late(kept) == {e \in kept : rob[e].state = "EXE" /\ rob[e].cycles_left = 0}

\* An entry frees its units with its last cycle.
Releasing(kept) == {e \in kept : rob[e].state = "EXE" /\ rob[e].cycles_left = 1}

\* The units of kind u the entries S of a buffer hold, counted one by one (no rule
\* takes more than MaxUnits of a kind).
MaxUnits == 2
Held(buffer, S, u) ==
    Cardinality({x \in S \X (1 .. MaxUnits) : x[2] <= buffer[x[1]].units[u]})

\* The end of a cycle: retirement and progress both look at the state before it.
Cycle ==
    LET kept == Live \ Retired
        last == Releasing(kept)
    IN  /\ gas = 0
        /\ ~CanDecode
        /\ ~CanStart
        /\ ~Done
        /\ cycles < MaxCycles
        /\ rob' = [e \in kept |-> Tick(rob[e])]
        /\ units' = [u \in Unit |-> units[u] + Held(rob, last, u)]
        /\ cycles' = cycles + 1
        /\ decode_slots' = Window.decode
        /\ starts_left' = Window.start
        /\ UNCHANGED <<code, pc, gas, history>>

Next == Decode \/ Start \/ Finish \/ Cycle

Spec == Init /\ [][Next]_vars /\ WF_vars(Next)

-----------------------------------------------------------------------------
Entry == [state : {"DEC", "WAIT", "EXE", "FIN"}, cycles_left : Nat,
          dependencies : SUBSET Nat, registers : SUBSET Reg,
          units : [Unit -> 0 .. MaxUnits]]

TypeOK == /\ code \in Codes
          /\ pc \in 0 .. Len(code)
          /\ cycles \in Nat
          /\ decode_slots \in 0 .. Window.decode
          /\ starts_left \in 0 .. Window.start
          /\ units \in [Unit -> Nat]
          /\ DOMAIN rob \subseteq 1 .. next - 1
          /\ \A e \in Live : rob[e] \in Entry
          /\ gas \in Nat
          /\ next \in Nat \ {0}
          /\ writer \in [Reg -> 0 .. next - 1]
          /\ Len(depth) = next - 1

\* Register renaming is exact: the registers an entry of the reorder buffer claims are
\* the ones that hold its result, whatever moves came in between.  calculate_block_gas
\* edits the claims of all entries in place at every decode (A.57, A.58).
RenamingIsExact == \A e \in Live : rob[e].registers = {r \in Reg : writer[r] = e}

\* The entries that hold their units.
Running == {e \in Live : rob[e].state = "EXE" /\ rob[e].cycles_left > 0}

\* Execution units are neither lost nor duplicated: what is free and what running
\* entries hold add up to the capacity at every moment.
UnitsAreConserved == \A u \in Unit : units[u] + Held(rob, Running, u) = Capacity[u]

\* The gas of a block covers its longest chain of dependent instructions: no schedule
\* the simulation finds is shorter than the data flow allows.
CostCoversCriticalPath ==
    gas > 0 => /\ gas + 3 >= MaxDepth(1 .. next - 1)
               /\ units = Capacity

\* The simulation ends: every block gets a gas cost (the while True of
\* calculate_block_gas has no other exit).
EveryBlockIsPriced == <>(gas > 0)
=============================================================================
