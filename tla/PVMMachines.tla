----------------------------- MODULE PVMMachines -----------------------------
(***************************************************************************)
(* The inner machines of a refinement (hostcalls/refine.py): the work      *)
(* item's program creates machines, sets up their memory, invokes them     *)
(* with part of its gas, looks at what they left and removes them.  Three  *)
(* nodes run the same work item, each with another interpreter, and every  *)
(* instruction of an inner machine is a step.                              *)
(*                                                                         *)
(* The program of the work item is not modelled: it may make any host call *)
(* with the arguments listed by the constants, in any order.               *)
(***************************************************************************)
EXTENDS PVMRunGraypaper, PVMRunCPython, PVMRunNumba, Functions, TLC

CONSTANTS
    Entries,            \* the program counters it may start them at
    Frames,             \* the registers it may put in the frame of an invocation
    Budgets,            \* and the gas
    PageArgs,           \* arguments of pages: <<page, count, mode>>
    CopyArgs,           \* arguments of peek and poke: <<outer, inner, length>>
    OuterMemory,        \* the memory of the outer program when it starts
    MaxGas,             \* and its gas
    MaxMachines,        \* machines at a time (63)
    Fee, PageFee,       \* what a host call costs, and each page of a pages call
    None                \* no machine

ASSUME MachinesAssumption ==
    /\ MaxGas \in Nat /\ MaxMachines \in Nat /\ {Fee, PageFee} \subseteq Nat \ {0}
    /\ \A c \in Name : code_valid[c] => \A s \in detect_basic_blocks[c] : Codes[c].gas[s] > 0

VARIABLES
    node,               \* per interpreter: the outer machine and m_e.inner_pvm_lookup
    vm,                 \* per interpreter: the inner machine that runs, or None
    running,            \* its handle, or None
    entering,           \* the machines whose next instruction enters a block
    accounted,          \* the gas of the calls made and of the blocks entered
    reused,             \* a machine was invoked after it had halted or panicked
    diverged            \* an instruction ran on which the interpreters are known to differ

vars == <<node, vm, running, entering, accounted, reused, diverged>>

Interpreter == {"graypaper", "cpython", "numba"}
Handle == 0 .. MaxMachines - 1

OK == 0
OOB == 2^W - 3
WHO == 2^W - 4
FULL == 2^W - 5
HUH == 2^W - 9

\* InnerPVMResult
outcomes == [halt |-> 0, panic |-> 1, page_fault |-> 2, host_halt |-> 3, out_of_gas |-> 4]

-----------------------------------------------------------------------------
(* The host calls, as operators on a node s; no call reads the gas.        *)

\* The charge comes first; the call, which makes of s the node result, only if it is paid.
hostcall(s, cost, result) ==
    IF s.gas < cost THEN [s EXCEPT !.gas = @ - cost, !.status = "out_of_gas"]
    ELSE [result EXCEPT !.gas = @ - cost]

Return(s, r7) == [s EXCEPT !.r7 = r7]
OuterPanic(s) == [s EXCEPT !.status = "panic"]

free_handle(s) == Min((0 .. MaxMachines) \ DOMAIN s.inner)

hc_machine(s, readable, c, i) ==
    CASE Cardinality(DOMAIN s.inner) >= MaxMachines -> Return(s, FULL)
      [] Cardinality(DOMAIN s.inner) < MaxMachines /\ ~readable -> OuterPanic(s)
      [] Cardinality(DOMAIN s.inner) < MaxMachines /\ readable ->
            IF ~is_valid(c, i) THEN Return(s, HUH)
            ELSE [Return(s, free_handle(s)) EXCEPT
                    !.inner = (free_handle(s) :> [code |-> c, mem |-> EmptyMemory, pc |-> i,
                                                  gas_paid |-> FALSE]) @@ @]

hc_peek(s, n, o, a, z) ==
    CASE ~is_accessible(s.mem, o, z, "W") -> OuterPanic(s)
      [] is_accessible(s.mem, o, z, "W") /\ n \notin DOMAIN s.inner -> Return(s, WHO)
      [] OTHER -> IF ~is_accessible(s.inner[n].mem, a, z, "R") THEN Return(s, OOB)
                  ELSE [Return(s, OK) EXCEPT
                          !.mem = write_bytes(@, o, z, value_at(s.inner[n].mem, a, z)).mem]

hc_poke(s, n, o, a, z) ==
    CASE ~is_accessible(s.mem, o, z, "R") -> OuterPanic(s)
      [] is_accessible(s.mem, o, z, "R") /\ n \notin DOMAIN s.inner -> Return(s, WHO)
      [] OTHER -> IF ~is_accessible(s.inner[n].mem, a, z, "W") THEN Return(s, OOB)
                  ELSE [Return(s, OK) EXCEPT
                          !.inner[n].mem = write_bytes(@, a, z, value_at(s.mem, o, z)).mem]

pages_cost(c, r) == IF r \in 0 .. 4 THEN Fee + PageFee * c ELSE Fee

PagesRefused(m, p, c, r) ==
    \/ r > 4 \/ p < Guard \div PageSize \/ p + c >= SIZE \div PageSize
    \/ r > 2 /\ ~is_accessible(m, p * PageSize, c * PageSize, "R")

\* Modes 0, 1 and 2 clear the pages; 3 and 4 keep what they hold.
hc_pages(s, n, p, c, r) ==
    LET acl == CASE r = 0 -> "I" [] r \in {1, 3} -> "R" [] r \in {2, 4} -> "W"
    IN  CASE n \notin DOMAIN s.inner -> Return(s, WHO)
          [] n \in DOMAIN s.inner /\ PagesRefused(s.inner[n].mem, p, c, r) -> Return(s, HUH)
          [] OTHER -> [Return(s, OK) EXCEPT
                         !.inner[n].mem = change_acl(IF r < 3 THEN zero(@, p, c, acl) ELSE @,
                                                     p, c, acl)]

hc_expunge(s, n) ==
    IF n \notin DOMAIN s.inner THEN Return(s, WHO)
    ELSE [Return(s, s.inner[n].pc) EXCEPT !.inner = Restrict(@, DOMAIN @ \ {n})]

\* The second half of hc_invoke, when the machine v has stopped.
\* (Mutant) The machine forgets that the block it stopped in is paid.
hc_invoke_return_forgets(s, n, v) ==
    LET stopped == v.status \in {"halt", "panic"}
    IN  [s EXCEPT !.gas = @ + v.gas, !.frame = v.reg, !.r7 = outcomes[v.status],
                  !.r8 = IF v.status \in {"host_halt", "page_fault"} THEN v.value ELSE @,
                  !.inner[n] = [@ EXCEPT !.mem = v.mem, !.gas_paid = FALSE,
                                         !.pc = CASE stopped -> 0
                                                  [] v.status = "host_halt" -> v.pc + v.skip
                                                  [] OTHER -> v.pc]]

hc_invoke_return(s, n, v) ==
    LET stopped == v.status \in {"halt", "panic"}
    IN  [s EXCEPT !.gas = @ + v.gas, !.frame = v.reg, !.r7 = outcomes[v.status],
                  !.r8 = IF v.status \in {"host_halt", "page_fault"} THEN v.value ELSE @,
                  !.inner[n] = [@ EXCEPT !.mem = v.mem, !.gas_paid = v.paid,
                                         !.pc = CASE stopped -> 0
                                                  [] v.status = "host_halt" -> v.pc + v.skip
                                                  [] OTHER -> v.pc]]

-----------------------------------------------------------------------------
(* The steps of the three nodes.                                           *)

Idle == running = None /\ ~diverged /\ \A i \in Interpreter : node[i].status = "resume"

\* A host call that does not run a machine, with its result on each node.
Call(cost, results) ==
    /\ Idle
    /\ node' = [i \in Interpreter |-> hostcall(node[i], cost, results[i])]
    /\ accounted' = accounted + cost
    /\ UNCHANGED <<vm, running, reused, diverged>>

Machine(readable, c, pc) ==
    /\ Call(Fee, [i \in Interpreter |-> hc_machine(node[i], readable, c, pc)])
    /\ entering' = entering \cup (DOMAIN node'["graypaper"].inner \ DOMAIN node["graypaper"].inner)

Peek(n, o, a, z) ==
    /\ Call(Fee, [i \in Interpreter |-> hc_peek(node[i], n, o, a, z)])
    /\ UNCHANGED entering

Poke(n, o, a, z) ==
    /\ Call(Fee, [i \in Interpreter |-> hc_poke(node[i], n, o, a, z)])
    /\ UNCHANGED entering

SetPages(n, p, c, r) ==
    /\ Call(pages_cost(c, r), [i \in Interpreter |-> hc_pages(node[i], n, p, c, r)])
    /\ UNCHANGED entering

Expunge(n) ==
    /\ Call(Fee, [i \in Interpreter |-> hc_expunge(node[i], n)])
    /\ entering' = entering \cap DOMAIN node'["graypaper"].inner

\* hc_invoke, the cases that do not start the machine: no writable frame (no budget is
\* reserved), not enough gas, and an unknown machine (the reserved budget is lost).
InvokeRefused(n, frameOk, gas) ==
    LET cost == Fee + (IF frameOk THEN gas ELSE 0)
    IN  /\ ~frameOk \/ n \notin DOMAIN node["graypaper"].inner \/ node["graypaper"].gas < cost
        /\ Call(cost, [i \in Interpreter |-> IF frameOk THEN Return(node[i], WHO) ELSE OuterPanic(node[i])])
        /\ UNCHANGED entering

StartVm(i, n, regs, gas) ==
    LET m == node[i].inner[n]
    IN  CASE i = "graypaper" -> invoke_gp(m.code, m.pc, gas, regs, m.mem, m.gas_paid)
          [] i = "cpython"   -> invoke_cp(m.code, m.pc, gas, regs, m.mem, m.gas_paid)
          [] i = "numba"     -> invoke_jit(m.code, m.pc, gas, regs, m.mem, m.gas_paid)

\* The budget is reserved and a new interpreter starts on the registers of the frame,
\* which are new ones or the ones the last invocation left.
Invoke(n, regs, gas) ==
    /\ Idle
    /\ n \in DOMAIN node["graypaper"].inner
    /\ node["graypaper"].gas >= Fee + gas
    /\ node' = [i \in Interpreter |-> [node[i] EXCEPT !.gas = @ - (Fee + gas)]]
    /\ vm' = [i \in Interpreter |-> StartVm(i, n, IF regs = None THEN node[i].frame ELSE regs, gas)]
    /\ running' = n
    /\ accounted' = accounted + Fee
    /\ reused' = (reused \/ (n \in entering /\ node["graypaper"].inner[n].gas_paid))
    /\ UNCHANGED <<entering, diverged>>

\* A dynamic jump by -1 or -2, which numba takes for its codes for halt and panic, and a
\* host call whose number has the sign bit, which numba returns as a negative number.
KnownDifference(c, v, e) ==
    LET i == at(c, v.pc)
    IN  /\ v.pc \in inst_pos[c]
        /\ \/ i.op \in {"jump_ind", "load_imm_jump_ind"} /\ e.status = "resume"
                 /\ e.skip \in {-1, -2}
           \/ i.op = "ecalli" /\ e.status = "host_halt" /\ e.value >= 2^(W-1)

\* One instruction of the machine that runs, in every interpreter.
Step ==
    LET v == vm["graypaper"]
        c == node["graypaper"].inner[running].code
        next == Step_gp(c, v)
    IN  /\ running # None /\ ~diverged
        /\ \A i \in Interpreter : vm[i].status = "resume"
        /\ vm' = [i \in Interpreter |->
                    LET d == node[i].inner[running].code
                    IN  CASE i = "graypaper" -> Step_gp(d, vm[i])
                          [] i = "cpython"   -> Step_cp(d, vm[i])
                          [] i = "numba"     -> Step_jit(d, vm[i])]
        /\ accounted' = IF running \in entering /\ next.status # "out_of_gas"
                        THEN accounted + block_cost(c, v.pc) ELSE accounted
        /\ entering' = CASE next.status = "out_of_gas" -> entering
                         [] next.status \in {"halt", "panic"} -> entering \cup {running}
                         [] next.status = "resume" /\ is_terminator(c, v.pc) -> entering \cup {running}
                         [] OTHER -> entering \ {running}
        /\ diverged' = KnownDifference(c, v, next)
        /\ UNCHANGED <<node, running, reused>>

\* The machine has stopped: hc_invoke returns.
Finish ==
    /\ running # None /\ ~diverged
    /\ \A i \in Interpreter : vm[i].status # "resume"
    /\ node' = [i \in Interpreter |-> hc_invoke_return(node[i], running, vm[i])]
    /\ vm' = [i \in Interpreter |-> None]
    /\ running' = None
    /\ UNCHANGED <<entering, accounted, reused, diverged>>

Init ==
    /\ node = [i \in Interpreter |->
                 [gas |-> MaxGas, mem |-> OuterMemory, frame |-> [r \in Registers |-> 0],
                  r7 |-> 0, r8 |-> 0, status |-> "resume", inner |-> <<>>]]
    /\ vm = [i \in Interpreter |-> None]
    /\ running = None
    /\ entering = {}
    /\ accounted = 0
    /\ reused = FALSE
    /\ diverged = FALSE

Next ==
    \/ \E readable \in BOOLEAN, c \in Name, pc \in Entries : Machine(readable, c, pc)
    \/ \E n \in 0 .. MaxMachines, x \in CopyArgs : Peek(n, x[1], x[2], x[3])
    \/ \E n \in 0 .. MaxMachines, x \in CopyArgs : Poke(n, x[1], x[2], x[3])
    \/ \E n \in 0 .. MaxMachines, x \in PageArgs : SetPages(n, x[1], x[2], x[3])
    \/ \E n \in 0 .. MaxMachines : Expunge(n)
    \/ \E n \in 0 .. MaxMachines, frameOk \in BOOLEAN, gas \in Budgets : InvokeRefused(n, frameOk, gas)
    \/ \E n \in Handle, regs \in Frames \cup {None}, gas \in Budgets : Invoke(n, regs, gas)
    \/ Step
    \/ Finish

Spec == Init /\ [][Next]_vars

-----------------------------------------------------------------------------
\* The values of the outer and the inner machines; a page that can be written can be read,
\* and the guard zone of no machine is ever accessible.
TypeOK ==
    /\ running \in Handle \cup {None}
    /\ entering \subseteq Handle
    /\ {reused, diverged} \subseteq BOOLEAN
    /\ ~diverged => \A i \in Interpreter :
         LET s == node[i]
         IN  /\ s.gas \in Int /\ {s.r7, s.r8} \subseteq Word
             /\ s.frame \in [Registers -> Word]
             /\ DOMAIN s.inner \subseteq Handle
             /\ running # None => running \in DOMAIN s.inner /\ vm[i] \in VM
             /\ \A n \in DOMAIN s.inner :
                   LET m == s.inner[n].mem
                   IN  /\ m \in Memory /\ m.w \subseteq m.r
                       /\ m.r \cap 0 .. (Guard \div PageSize) - 1 = {}
                       /\ s.inner[n].pc \in 0 .. 2^H - 1

\* Whichever interpreter a node runs, all it holds after every instruction and every host
\* call is the same: registers, memory, gas, the reason and place of every stop, and what
\* the outer program is told.  The known differences are excepted.
BackendsAgree ==
    ~diverged => \A i \in {"cpython", "numba"} : /\ node[i] = node["graypaper"]
                                                 /\ vm[i] = vm["graypaper"]

\* The same without the exception: what a setting that only "selects a backend" promises.
BackendsAlwaysAgree == vm["numba"] = vm["graypaper"]

GasLeft == node["graypaper"].gas + (IF running = None THEN 0 ELSE vm["graypaper"].gas)

\* Gas is neither lost nor made: what is missing from the outer machine and its running
\* inner machine is the price of the calls and of the blocks entered, each once, however
\* often a machine is stopped inside a block (by a fault, a host call, a lack of gas) and
\* invoked again.  Machines that are used again after they halted or panicked are excepted.
GasIsAccounted == ~reused /\ ~diverged => GasLeft = MaxGas - accounted

\* A machine is never charged for more than the blocks it enters, and without the
\* exception above it is charged for all of them.
EveryBlockIsPaid == ~diverged => GasLeft = MaxGas - accounted

\* An instruction that faults leaves no trace but the charge for its block: it can be
\* executed again when the page has been made accessible.
FaultsAreClean ==
    [][\A i \in Interpreter :
         running # None /\ running' # None /\ vm[i].status = "resume" /\ vm'[i].status = "page_fault" =>
            /\ vm'[i].pc = vm[i].pc /\ vm'[i].reg = vm[i].reg /\ vm'[i].mem = vm[i].mem
            /\ vm'[i].paid
            /\ page_of(vm'[i].value) \notin vm[i].mem.w]_vars

\* Every invocation comes to an end, whatever the machine does: an instruction that does
\* not stop the machine takes gas from the budget that was reserved if it enters a block,
\* and inside a block it moves on or leaves the block.  There is no way round in the code
\* that is free, however the machine was stopped and invoked again before.
InvocationsAreBounded ==
    [][\A i \in Interpreter :
         running # None /\ running' # None /\ vm'[i].status = "resume" =>
            IF vm[i].paid THEN vm'[i].gas = vm[i].gas /\ (~vm'[i].paid \/ vm'[i].pc > vm[i].pc)
            ELSE vm'[i].gas < vm[i].gas]_vars
=============================================================================
