------------------------------ MODULE PVMMemory ------------------------------
(***************************************************************************)
(* The paged memory of a PVM (PVMMemory of the graypaper and the cpython   *)
(* interpreters, which numba extends) and the instructions' access to it.  *)
(* A memory is a record: the sets r and w of readable and writable pages,  *)
(* and the bytes.  A read or write gives a record: its status ("ok",       *)
(* "fault" or "panic"), its value (the number read, or the address of the  *)
(* page that faulted) and the memory after it.                             *)
(***************************************************************************)
EXTENDS PVMWords

CONSTANTS PageSize,     \* bytes of a page (4096)
          Guard         \* bytes at the bottom that no instruction may touch (65536)

ASSUME MemoryAssumption == /\ PageSize \in Nat \ {0}
                           /\ Guard \in Nat
                           /\ Guard % PageSize = 0
                           /\ 2^H % PageSize = 0

SIZE == 2^H
Addr == 0 .. SIZE - 1
Page == 0 .. (SIZE \div PageSize) - 1
page_of(a) == a \div PageSize

Memory == [r : SUBSET Page, w : SUBSET Page, data : [Addr -> 0 .. 2^B - 1]]
EmptyMemory == [r |-> {}, w |-> {}, data |-> [a \in Addr |-> 0]]

Pages(a, n) == IF n = 0 THEN {} ELSE page_of(a) .. page_of(a + n - 1)

is_accessible(m, a, n, mode) ==
    \/ n = 0
    \/ /\ a + n <= SIZE
       /\ Pages(a, n) \subseteq (IF mode = "W" THEN m.w ELSE m.r)

set_acl(m, pages, acl) ==
    [m EXCEPT !.r = IF acl = "I" THEN @ \ pages ELSE @ \cup pages,
              !.w = IF acl = "W" THEN @ \cup pages ELSE @ \ pages]

change_acl(m, p, c, acl) == set_acl(m, p .. p + c - 1, acl)

zero(m, p, c, acl) ==
    set_acl([m EXCEPT !.data = [a \in Addr |-> IF page_of(a) \in p .. p + c - 1 THEN 0 ELSE @[a]]],
            p .. p + c - 1, acl)

value_at(m, a, n) ==
    LET upto[k \in 0 .. n] == IF k = 0 THEN 0
                              ELSE upto[k - 1] + m.data[a + k - 1] * 2^((k - 1) * B)
    IN  upto[n]

put(m, a, n, v) ==
    [m EXCEPT !.data = [q \in Addr |-> IF q \in a .. a + n - 1 THEN Byte(v, q - a) ELSE @[q]]]

Ok(m, v)    == [status |-> "ok", value |-> v, mem |-> m]
Fault(m, p) == [status |-> "fault", value |-> p * PageSize, mem |-> m]
Panic(m)    == [status |-> "panic", value |-> 0, mem |-> m]

\* The lowest page that is not accessible faults, before anything is written.
read_bytes(m, a, n) ==
    LET bad == Pages(a, n) \ m.r
    IN  IF bad = {} THEN Ok(m, value_at(m, a, n)) ELSE Fault(m, Min(bad))

write_bytes(m, a, n, v) ==
    LET bad == Pages(a, n) \ m.w
    IN  IF bad = {} THEN Ok(put(m, a, n, v), 0) ELSE Fault(m, Min(bad))

-----------------------------------------------------------------------------
(* The access of an instruction: the address wraps, the guard zone and the *)
(* end of the address space panic.                                         *)

OutOfRange(a, n) == a < Guard \/ a + n > SIZE

mem_read(m, addr, n) ==
    LET a == addr % SIZE IN IF OutOfRange(a, n) THEN Panic(m) ELSE read_bytes(m, a, n)
mem_write(m, addr, n, v) ==
    LET a == addr % SIZE IN IF OutOfRange(a, n) THEN Panic(m) ELSE write_bytes(m, a, n, v)

mem_read_cp(m, addr, n) ==
    LET a == U32(addr) IN IF OutOfRange(a, n) THEN Panic(m) ELSE read_bytes(m, a, n)
mem_write_cp(m, addr, n, v) ==
    LET a == U32(addr) IN IF OutOfRange(a, n) THEN Panic(m) ELSE write_bytes(m, a, n, v)

\* numba: the memory is linked as sections, the longest runs of readable pages of one
\* access class.
link_memory(m) ==
    LET joined(p) == p \in m.r /\ p + 1 \in m.r /\ (p \in m.w) = (p + 1 \in m.w)
    IN  {[lo |-> p, hi |-> Min({q \in p .. Max(Page) : ~joined(q)})] : p \in {q \in m.r : ~joined(q - 1)}}

section_start(s) == s.lo * PageSize
section_end(s) == (s.hi + 1) * PageSize
writable(m, s) == s.lo \in m.w

\* An access inside one section is decided by its class; else byte by byte, and the
\* first byte outside the sections allowed faults.
access_jit(m, a, n, sections, allowed) ==
    LET whole == {s \in sections : section_start(s) <= a /\ a + n <= section_end(s)}
        bad   == {k \in 0 .. n - 1 :
                    ~\E s \in sections \cap allowed :
                         section_start(s) <= a + k /\ a + k < section_end(s)}
    IN  CASE whole # {} /\ whole \cap allowed # {} -> Ok(m, 0)
          [] whole # {} /\ whole \cap allowed = {} -> Fault(m, page_of(a))
          [] whole = {} /\ bad # {}                -> Fault(m, page_of(a + Min(bad)))
          [] whole = {} /\ bad = {}                -> Ok(m, 0)

mem_read_jit(m, addr, n) ==
    LET a == U32(addr)
        s == link_memory(m)
        f == access_jit(m, a, n, s, s)
    IN  CASE OutOfRange(a, n)                   -> Panic(m)
          [] ~OutOfRange(a, n) /\ f.status = "ok" -> Ok(m, value_at(m, a, n))
          [] OTHER                              -> f

mem_write_jit(m, addr, n, v) ==
    LET a == U32(addr)
        s == link_memory(m)
        f == access_jit(m, a, n, s, {t \in s : writable(m, t)})
    IN  CASE OutOfRange(a, n)                   -> Panic(m)
          [] ~OutOfRange(a, n) /\ f.status = "ok" -> Ok(put(m, a, n, v), 0)
          [] OTHER                              -> f

-----------------------------------------------------------------------------
(* The state of one interpreter object, as a record: pc, gas, reg, mem, skip *)
(* (skip_len), status (an ExitReason), value (exit_value, where the reason   *)
(* has one) and paid, which is current_block_start is not None.  An          *)
(* instruction is an operator from such a record to the next.                *)

CONSTANTS Registers,    \* the registers (0 .. 12)
          Align         \* PVM_DYNAMIC_ALIGNMENT_FACTOR (2)

HaltAddress == 2^H - Guard

ExitReason == {"resume", "halt", "panic", "page_fault", "host_halt", "out_of_gas"}

VM == [pc : 0 .. 2^H - 1, gas : Nat, reg : [Registers -> Word], mem : Memory,
       skip : Int, status : ExitReason, value : Word, paid : BOOLEAN]

Exit(vm, reason, v) == [vm EXCEPT !.status = reason, !.value = v]
PanicError(vm) == Exit(vm, "panic", 0)

\* (Mutant) A load that faults has written its register.
Loaded_dirty(vm, r, f, v) ==
    CASE f.status = "ok"    -> [vm EXCEPT !.reg[r] = v]
      [] f.status = "fault" -> Exit([vm EXCEPT !.reg[r] = U64(@ + 1)], "page_fault", f.value)
      [] f.status = "panic" -> PanicError(vm)

\* What a load and a store do with the outcome f of the memory access.
Loaded(vm, r, f, v) ==
    CASE f.status = "ok"    -> [vm EXCEPT !.reg[r] = v]
      [] f.status = "fault" -> Exit(vm, "page_fault", f.value)
      [] f.status = "panic" -> PanicError(vm)

Stored(vm, f) ==
    CASE f.status = "ok"    -> [vm EXCEPT !.mem = f.mem]
      [] f.status = "fault" -> Exit([vm EXCEPT !.mem = f.mem], "page_fault", f.value)
      [] f.status = "panic" -> PanicError(vm)
=============================================================================
