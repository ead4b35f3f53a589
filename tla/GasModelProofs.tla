--------------------------- MODULE GasModelProofs ---------------------------
(***************************************************************************)
(* What calculate_block_gas guarantees for every block, every size of the  *)
(* reorder buffer and every decode and start window: register renaming is  *)
(* exact, execution units are conserved, and the price of a block covers   *)
(* its longest chain of dependent instructions.                            *)
(***************************************************************************)
EXTENDS GasModel, FiniteSetTheorems, WellFoundedInduction, TLAPS

-----------------------------------------------------------------------------
(* The inductive invariant. *)

\* The part of every entry's life that the scheduler relies on: work that has not
\* started has cycles left, finished work has none.
StatesAreOrderly ==
    \A e \in Live : /\ rob[e].state \in {"DEC", "WAIT"} => rob[e].cycles_left >= 1
                    /\ rob[e].state = "FIN" => rob[e].cycles_left = 0

\* When the chain an entry ends will be complete, at the earliest: entries that have
\* left the buffer have paid for theirs; an entry that runs pays with the cycles it has
\* left; an entry that waits pays on top of what is already paid, or of the chain of
\* an entry it still waits for.
ChainsArePaid ==
    \A e \in 1 .. next - 1 :
        /\ e \notin Live => depth[e] <= cycles
        /\ e \in Live /\ rob[e].state \in {"EXE", "FIN"} =>
               depth[e] <= cycles + rob[e].cycles_left
        /\ e \in Live /\ rob[e].state \in {"DEC", "WAIT"} =>
               \/ depth[e] <= cycles + rob[e].cycles_left
               \/ \E d \in rob[e].dependencies \cap Live :
                      depth[e] <= depth[d] + rob[e].cycles_left

\* A priced block has left the pipeline and costs its cycles, less the three the
\* pipeline takes to fill.
PriceIsTheTime == gas > 0 => Live = {} /\ gas + 3 >= cycles

Types == TypeOK /\ depth \in Seq(Nat)

GasInvariant == /\ Types
                /\ StatesAreOrderly
                /\ RenamingIsExact
                /\ UnitsAreConserved
                /\ ChainsArePaid
                /\ PriceIsTheTime

-----------------------------------------------------------------------------
(* The instruction table. *)

LEMMA UsesType == \A S : Uses(S) \in [Unit -> 0 .. MaxUnits]
  BY DEF Uses, MaxUnits

LEMMA TwoAdders == [Uses({"A"}) EXCEPT !["A"] = 2] \in [Unit -> 0 .. MaxUnits]
  BY DEF Uses, MaxUnits, Unit

\* Every opcode has a row in the table, and only move_reg takes no time.
LEMMA RuleFacts ==
    ASSUME NEW o \in Opcode
    PROVE  /\ cost_rules(o).cycles \in Nat
           /\ o # "move_reg" => cost_rules(o).cycles >= 1
           /\ cost_rules(o).slots \in Nat
           /\ cost_rules(o).overlap \in Nat
           /\ cost_rules(o).units \in [Unit -> 0 .. MaxUnits]
<1> DEFINE Row == [cycles : Nat, slots : Nat, units : [Unit -> 0 .. MaxUnits], overlap : Nat]
<1>1. \A c, s, v \in Nat, u \in [Unit -> 0 .. MaxUnits] : Rule(c, s, u, v) \in Row
  BY DEF Rule
<1>2. cost_rules(o) \in Row
  BY <1>1, UsesType, TwoAdders DEF Opcode, cost_rules
<1>3. o # "move_reg" => cost_rules(o).cycles >= 1
  BY DEF Opcode, cost_rules, Rule
<1> QED BY <1>2, <1>3

\* Sources and destinations of an instruction are registers; a move has one source.
LEMMA RegisterFacts ==
    ASSUME NEW i \in Instruction
    PROVE  /\ instruction_registers(i).src \in SUBSET Reg
           /\ instruction_registers(i).dst \in SUBSET Reg
           /\ i.o = "move_reg" => instruction_registers(i) = [src |-> {i.b}, dst |-> {i.a}]
<1>1. i.o \in Opcode /\ i.a \in Reg /\ i.b \in Reg /\ i.d \in Reg
  BY DEF Instruction
<1>2. /\ instruction_registers(i).src \in SUBSET Reg
      /\ instruction_registers(i).dst \in SUBSET Reg
  BY <1>1 DEF Opcode, instruction_registers
<1>3. i.o = "move_reg" => instruction_registers(i) = [src |-> {i.b}, dst |-> {i.a}]
  BY DEF instruction_registers
<1> QED BY <1>2, <1>3

\* What an instruction of a block costs.
LEMMA CostFacts ==
    ASSUME NEW c, NEW p, c[p] \in Instruction
    PROVE  /\ instruction_cost(c, p).cycles \in Nat
           /\ c[p].o # "move_reg" => instruction_cost(c, p).cycles >= 1
           /\ instruction_cost(c, p).slots \in Nat
           /\ instruction_cost(c, p).units \in [Unit -> 0 .. MaxUnits]
<1>1. c[p].o \in Opcode
  BY DEF Instruction
<1> QED BY <1>1, RuleFacts DEF instruction_cost

-----------------------------------------------------------------------------
(* Counting held units. *)

\* The units one entry holds are as many as it says.
LEMMA HeldByOne ==
    ASSUME NEW buffer, NEW e, NEW u, NEW n \in 0 .. MaxUnits, buffer[e].units[u] = n,
           NEW S, S = {e}
    PROVE  Held(buffer, S, u) = n
<1> DEFINE P == {x \in {e} \X (1 .. MaxUnits) : x[2] <= buffer[x[1]].units[u]}
<1>1. P = {<<e, k>> : k \in 1 .. n}
  BY DEF MaxUnits
<1>2. n \in 0 .. 2
  BY DEF MaxUnits
<1>3. /\ n = 0 => P = {}
      /\ n = 1 => P = {<<e, 1>>}
      /\ n = 2 => P = {<<e, 1>>, <<e, 2>>}
  BY <1>1, <1>2
<1>4. IsFiniteSet(P) /\ Cardinality(P) = n
  <2>1. CASE n = 0
    BY <1>3, <2>1, FS_EmptySet
  <2>2. CASE n = 1
    BY <1>3, <2>2, FS_Singleton
  <2>3. CASE n = 2
    <3> DEFINE first == {<<e, 1>>}
               second == <<e, 2>>
    <3>1. IsFiniteSet(first) /\ Cardinality(first) = 1
      BY FS_Singleton
    <3>2. second \notin first /\ P = first \cup {second}
      BY <1>3, <2>3
    <3> HIDE DEF first, second, P
    <3>3. IsFiniteSet(P) /\ Cardinality(P) = Cardinality(first) + 1
      BY <3>1, <3>2, FS_AddElement
    <3> QED BY <3>1, <3>3, <2>3
  <2> QED BY <1>2, <2>1, <2>2, <2>3
<1> QED BY <1>4 DEF Held

\* Disjoint sets of entries hold the sum of what they hold.
LEMMA HeldAdds ==
    ASSUME NEW buffer, NEW S, NEW T, NEW u,
           IsFiniteSet(S), IsFiniteSet(T), S \cap T = {}
    PROVE  /\ Held(buffer, S, u) \in Nat
           /\ Held(buffer, T, u) \in Nat
           /\ Held(buffer, S \cup T, u) = Held(buffer, S, u) + Held(buffer, T, u)
<1> DEFINE P(X) == {x \in X \X (1 .. MaxUnits) : x[2] <= buffer[x[1]].units[u]}
<1>1. IsFiniteSet(1 .. MaxUnits)
  <2>1. 1 \in Int /\ MaxUnits \in Int
    BY DEF MaxUnits
  <2> QED BY <2>1, FS_Interval
<1>2. IsFiniteSet(P(S)) /\ IsFiniteSet(P(T))
  <2>1. IsFiniteSet(S \X (1 .. MaxUnits)) /\ IsFiniteSet(T \X (1 .. MaxUnits))
    BY <1>1, FS_Product
  <2>2. P(S) \subseteq S \X (1 .. MaxUnits) /\ P(T) \subseteq T \X (1 .. MaxUnits)
    OBVIOUS
  <2> QED BY <2>1, <2>2, FS_Subset
<1>3. P(S) \cap P(T) = {}
  OBVIOUS
<1>4. P(S \cup T) = P(S) \cup P(T)
  OBVIOUS
<1>5. /\ Cardinality(P(S)) \in Nat
      /\ Cardinality(P(T)) \in Nat
      /\ Cardinality(P(S) \cap P(T)) = 0
  BY <1>2, <1>3, FS_CardinalityType, FS_EmptySet
<1>6. Cardinality(P(S) \cup P(T)) = Cardinality(P(S)) + Cardinality(P(T))
  <2> HIDE DEF P
  <2>1. Cardinality(P(S) \cup P(T))
          = Cardinality(P(S)) + Cardinality(P(T)) - Cardinality(P(S) \cap P(T))
    BY <1>2, FS_Union
  <2> QED BY <1>5, <2>1
<1> QED BY <1>4, <1>5, <1>6 DEF Held

\* What entries hold depends on their units alone.
LEMMA HeldSame ==
    ASSUME NEW b1, NEW b2, NEW S, NEW u, \A e \in S : b1[e].units = b2[e].units
    PROVE  Held(b1, S, u) = Held(b2, S, u)
<1>1. {x \in S \X (1 .. MaxUnits) : x[2] <= b1[x[1]].units[u]}
        = {x \in S \X (1 .. MaxUnits) : x[2] <= b2[x[1]].units[u]}
  OBVIOUS
<1> QED BY <1>1 DEF Held

-----------------------------------------------------------------------------
(* The deepest of a set of chains. *)

\* Every nonempty set of naturals has a least element.
LEMMA LeastNatural ==
    ASSUME NEW S \in SUBSET Nat, S # {}
    PROVE  \E m \in S : \A n \in S : m <= n
<1> DEFINE R == OpToRel(<, Nat)
<1>1. IsWellFoundedOn(R, Nat)
  BY NatLessThanWellFounded
<1>2. \E x \in S : \A y \in S : ~(<<y, x>> \in R)
  <2> HIDE DEF R
  <2> QED BY <1>1, WFMin
<1>3. \A x, y \in S : y < x => <<y, x>> \in R
  BY DEF OpToRel
<1> HIDE DEF R
<1>4. \A x, y \in S : ~(y < x) => x <= y
  OBVIOUS
<1> QED BY <1>2, <1>3, <1>4

\* A nonempty set of positions of a sequence of naturals has one with the largest
\* value: take the shortest prefix in which that fails.
LEMMA DeepestExists ==
    ASSUME NEW s \in Seq(Nat), NEW S \in SUBSET (1 .. Len(s)), S # {}
    PROVE  \E e \in S : \A f \in S : s[f] <= s[e]
<1> DEFINE N == Len(s)
           Upto(n) == {e \in S : e <= n}
           HasDeepest(n) == \E e \in Upto(n) : \A f \in Upto(n) : s[f] <= s[e]
           Bad == {n \in 0 .. N : Upto(n) # {} /\ ~HasDeepest(n)}
<1>1. N \in Nat /\ \A e \in S : e \in Nat /\ 1 <= e /\ e <= N /\ s[e] \in Nat
  OBVIOUS
<1> HIDE DEF N
<1>2. Upto(N) = S
  BY <1>1
<1>3. SUFFICES Bad = {}
  <2>1. N \in 0 .. N
    BY <1>1
  <2>2. HasDeepest(N)
    BY <1>2, <1>3, <2>1
  <2> QED BY <1>2, <2>2
<1>4. SUFFICES ASSUME Bad # {} PROVE FALSE
  OBVIOUS
<1>5. Bad \in SUBSET Nat
  BY <1>1
<1>6. PICK m \in Bad : \A n \in Bad : m <= n
  <2> HIDE DEF Bad
  <2> QED BY <1>4, <1>5, LeastNatural
<1>7. m \in 0 .. N /\ Upto(m) # {} /\ ~HasDeepest(m)
  BY <1>6
<1>8. m # 0
  <2>1. \A e \in S : ~(e <= 0)
    BY <1>1
  <2>2. Upto(0) = {}
    BY Zenon, <2>1
  <2> HIDE DEF Upto, HasDeepest
  <2> QED BY <1>7, <2>2
<1>9. m - 1 \in 0 .. N /\ ~(m <= m - 1)
  <2>1. m \in 0 .. N
    BY <1>7
  <2> QED BY <1>1, <1>8, <2>1
<1>10. Upto(m - 1) = {} \/ HasDeepest(m - 1)
  <2>1. m - 1 \notin Bad
    BY <1>6, <1>9
  <2> QED BY <1>9, <2>1
<1>11. Upto(m) = IF m \in S THEN Upto(m - 1) \cup {m} ELSE Upto(m - 1)
  <2>1. \A e \in S : e <= m <=> e <= m - 1 \/ e = m
    BY <1>1, <1>7
  <2> QED BY <2>1
<1>12. \A n : Upto(n) \subseteq S
  OBVIOUS
<1> HIDE DEF Upto, Bad
<1>13. CASE m \notin S
  BY <1>7, <1>10, <1>11, <1>13
<1>14. CASE m \in S /\ Upto(m - 1) = {}
  <2>1. Upto(m) = {m} /\ s[m] <= s[m]
    BY <1>1, <1>11, <1>14
  <2> QED BY <1>7, <2>1
<1>15. CASE m \in S /\ Upto(m - 1) # {}
  <2>1. PICK e \in Upto(m - 1) : \A f \in Upto(m - 1) : s[f] <= s[e]
    BY <1>10, <1>15
  <2>2. Upto(m) = Upto(m - 1) \cup {m}
    BY <1>11, <1>15
  <2>3. s[e] \in Nat /\ s[m] \in Nat /\ \A f \in Upto(m - 1) : s[f] \in Nat
    BY <1>1, <1>12, <1>15
  <2>4. CASE s[m] <= s[e]
    BY <1>7, <2>1, <2>2, <2>4
  <2>5. CASE ~(s[m] <= s[e])
    <3>1. \A f \in Upto(m - 1) : s[f] <= s[m]
      BY <2>1, <2>3, <2>5
    <3>2. s[m] <= s[m]
      BY <2>3
    <3> QED BY <1>7, <2>2, <3>1, <3>2
  <2> QED BY <2>4, <2>5
<1> QED BY <1>13, <1>14, <1>15

\* MaxDepth is the depth of the deepest of the entries, zero without one.
LEMMA MaxDepthFacts ==
    ASSUME depth \in Seq(Nat), NEW S \in SUBSET (1 .. Len(depth))
    PROVE  /\ MaxDepth(S) \in Nat
           /\ MaxDepth(S) = 0 \/ \E e \in S : MaxDepth(S) = depth[e]
<1>1. CASE S = {}
  BY <1>1 DEF MaxDepth
<1>2. CASE S # {}
  <2> DEFINE D == {depth[e] : e \in S}
  <2>1. PICK e \in S : \A f \in S : depth[f] <= depth[e]
    BY <1>2, DeepestExists
  <2>2. D \subseteq Nat
    OBVIOUS
  <2>3. depth[e] \in D /\ \A y \in D : depth[e] >= y
    BY <2>1, <2>2
  <2>4. Max(D) \in D
    <3> HIDE DEF D
    <3> QED BY <2>3 DEF Max
  <2> QED BY <1>2, <2>2, <2>4 DEF MaxDepth
<1> QED BY <1>1, <1>2

-----------------------------------------------------------------------------
(* The invariant, action by action. *)

LEMMA GasInit == Init => GasInvariant
<1> SUFFICES ASSUME Init PROVE GasInvariant
  OBVIOUS
<1>1. Live = {} /\ Running = {}
  BY DEF Init, Live, Running
<1>2. Types
  <2>1. Len(code) \in Nat
    BY CodesAssumption DEF Init
  <2>2. code # <<>> /\ code \in Seq(Instruction)
    BY CodesAssumption DEF Init
  <2>3. 1 \in 0 .. Len(code)
    BY <2>1, <2>2
  <2>4. Capacity \in [Unit -> Nat]
    BY DEF Capacity
  <2>5. <<>> \in Seq(Nat) /\ Len(<<>>) = 0
    OBVIOUS
  <2> QED BY <1>1, <2>3, <2>4, <2>5, GasModelAssumption DEF Init, Types, TypeOK, Live
<1>3. UnitsAreConserved
  <2>1. \A u \in Unit : {x \in {} \X (1 .. MaxUnits) : x[2] <= rob[x[1]].units[u]} = {}
    OBVIOUS
  <2>2. \A u \in Unit : Held(rob, {}, u) = 0
    BY <2>1, FS_EmptySet DEF Held
  <2>3. \A u \in Unit : Capacity[u] \in Nat
    BY DEF Capacity
  <2> QED BY <1>1, <2>2, <2>3 DEF UnitsAreConserved, Init
<1>4. ChainsArePaid
  BY DEF ChainsArePaid, Init
<1> QED BY <1>1, <1>2, <1>3, <1>4
        DEF GasInvariant, StatesAreOrderly, RenamingIsExact, PriceIsTheTime, Init

\* What a decode leaves behind, whichever instruction it is.
LEMMA DecodeFacts ==
    ASSUME GasInvariant, Decode
    PROVE  /\ code' \in Codes
           /\ code[pc] \in Instruction
           /\ pc' \in 0 .. Len(code')
           /\ decode_slots' \in 0 .. Window.decode
           /\ UNCHANGED <<code, cycles, starts_left, units, gas>>
           /\ gas = 0
<1>1. /\ code \in Codes
      /\ pc \in 0 .. Len(code)
      /\ decode_slots \in 0 .. Window.decode
      /\ Window.decode \in Nat
  BY GasModelAssumption DEF GasInvariant, Types, TypeOK
<1>2. /\ UNCHANGED <<code, cycles, starts_left, units, gas>>
      /\ gas = 0
      /\ pc # 0
      /\ instruction_cost(code, pc).slots <= decode_slots
      /\ decode_slots' = decode_slots - instruction_cost(code, pc).slots
      /\ Advance
  BY DEF Decode, CanDecode, NoPc
<1>3. /\ code \in Seq(Instruction)
      /\ Len(code) \in Nat
      /\ code[Len(code)].o \in TERMINATION_OPCODES
  BY <1>1, CodesAssumption
<1>4. pc \in 1 .. Len(code)
  BY <1>1, <1>2, <1>3
<1>5. code[pc] \in Instruction
  BY <1>3, <1>4
<1>6. pc' \in 0 .. Len(code)
  BY <1>2, <1>3, <1>4 DEF Advance, NoPc
<1>7. decode_slots' \in 0 .. Window.decode
  <2>1. instruction_cost(code, pc).slots \in Nat
    BY <1>5, CostFacts
  <2> QED BY <1>1, <1>2, <2>1
<1> QED BY <1>1, <1>2, <1>5, <1>6, <1>7

\* A move renames and takes no entry.
LEMMA RenameStep ==
    ASSUME GasInvariant, Decode, code[pc].o = "move_reg"
    PROVE  GasInvariant'
<1> DEFINE a == code[pc].a
           b == code[pc].b
<1>1. a \in Reg /\ b \in Reg
  BY DecodeFacts DEF Instruction
<1>2. Rename([src |-> {b}, dst |-> {a}])
  BY DecodeFacts, RegisterFacts DEF Decode
<1>3. /\ Live' = Live
      /\ \A e \in Live :
            rob'[e] = [rob[e] EXCEPT !.registers = IF b \in @ THEN @ \cup {a} ELSE @ \ {a}]
  <2>1. rob' = [e \in Live |-> [rob[e] EXCEPT !.registers =
                 IF @ \cap {b} # {} THEN @ \cup {a} ELSE @ \ {a}]]
    BY <1>2 DEF Rename
  <2>2. \A R : R \cap {b} # {} <=> b \in R
    OBVIOUS
  <2> QED BY <2>1, <2>2 DEF Live
<1>4. /\ next' = next
      /\ depth' = depth
      /\ writer' = [x \in Reg |-> IF x = a THEN writer[b] ELSE writer[x]]
  <2>1. (CHOOSE s \in {b} : TRUE) = b
    OBVIOUS
  <2> QED BY <1>2, <2>1 DEF Rename
<1>5. \A e \in Live : rob[e] \in Entry
  BY DEF GasInvariant, Types, TypeOK
<1>6. \A e \in Live : /\ rob'[e] \in Entry
                      /\ rob'[e].state = rob[e].state
                      /\ rob'[e].cycles_left = rob[e].cycles_left
                      /\ rob'[e].dependencies = rob[e].dependencies
                      /\ rob'[e].units = rob[e].units
                      /\ rob'[e].registers = IF b \in rob[e].registers
                                             THEN rob[e].registers \cup {a}
                                             ELSE rob[e].registers \ {a}
  <2> SUFFICES ASSUME NEW e \in Live
               PROVE  /\ rob'[e] \in Entry
                      /\ rob'[e].state = rob[e].state
                      /\ rob'[e].cycles_left = rob[e].cycles_left
                      /\ rob'[e].dependencies = rob[e].dependencies
                      /\ rob'[e].units = rob[e].units
                      /\ rob'[e].registers = IF b \in rob[e].registers
                                             THEN rob[e].registers \cup {a}
                                             ELSE rob[e].registers \ {a}
    OBVIOUS
  <2> DEFINE R == IF b \in rob[e].registers
                    THEN rob[e].registers \cup {a} ELSE rob[e].registers \ {a}
  <2>1. rob[e] \in Entry /\ R \in SUBSET Reg
    BY <1>1, <1>5 DEF Entry
  <2>2. rob'[e] = [rob[e] EXCEPT !.registers = R]
    BY <1>3
  <2> HIDE DEF R
  <2>3. /\ rob'[e] \in Entry
        /\ rob'[e].state = rob[e].state
        /\ rob'[e].cycles_left = rob[e].cycles_left
        /\ rob'[e].dependencies = rob[e].dependencies
        /\ rob'[e].units = rob[e].units
        /\ rob'[e].registers = R
    BY <2>1, <2>2 DEF Entry
  <2> QED BY <2>3 DEF R
<1>7. Types'
  BY <1>1, <1>3, <1>4, <1>6, DecodeFacts DEF GasInvariant, Types, TypeOK, Live
<1>8. StatesAreOrderly'
  BY <1>3, <1>6 DEF GasInvariant, StatesAreOrderly
<1>9. RenamingIsExact'
  <2> SUFFICES ASSUME NEW e \in Live
               PROVE  rob'[e].registers = {r \in Reg : writer'[r] = e}
    BY <1>3 DEF RenamingIsExact
  <2>1. rob[e].registers = {r \in Reg : writer[r] = e}
    BY DEF GasInvariant, RenamingIsExact
  <2>2. rob'[e].registers = IF b \in rob[e].registers
                              THEN rob[e].registers \cup {a} ELSE rob[e].registers \ {a}
    BY <1>6
  <2>3. \A r \in Reg : writer'[r] = IF r = a THEN writer[b] ELSE writer[r]
    BY <1>4
  <2> QED BY <1>1, <2>1, <2>2, <2>3
<1>10. UnitsAreConserved'
  <2>1. Running' = Running
    <3>1. \A e \in Live : /\ rob'[e].state = rob[e].state
                          /\ rob'[e].cycles_left = rob[e].cycles_left
      BY <1>6
    <3> QED BY <1>3, <3>1 DEF Running
  <2>2. \A u \in Unit : Held(rob', Running, u) = Held(rob, Running, u)
    <3>1. \A e \in Running : rob'[e].units = rob[e].units
      BY <1>6 DEF Running
    <3> QED BY <3>1, HeldSame
  <2> QED BY <2>1, <2>2, DecodeFacts DEF GasInvariant, UnitsAreConserved
<1>11. ChainsArePaid'
  BY <1>3, <1>4, <1>6, DecodeFacts DEF GasInvariant, ChainsArePaid
<1>12. PriceIsTheTime'
  BY DecodeFacts DEF PriceIsTheTime
<1> QED BY <1>7, <1>8, <1>9, <1>10, <1>11, <1>12 DEF GasInvariant

\* Any other instruction takes the next entry.
LEMMA EnterStep ==
    ASSUME GasInvariant, Decode, code[pc].o # "move_reg"
    PROVE  GasInvariant'
<1> DEFINE r == instruction_registers(code[pc])
           cost == instruction_cost(code, pc)
           deps == {e \in Live : rob[e].registers \cap r.src # {}}
           from == {writer[x] : x \in r.src} \ {0}
           entry == [state |-> "DEC", cycles_left |-> cost.cycles, dependencies |-> deps,
                     registers |-> r.dst, units |-> cost.units]
<1>1. Enter(r, cost)
  BY DEF Decode
<1>2. /\ r.src \in SUBSET Reg
      /\ r.dst \in SUBSET Reg
      /\ cost.cycles \in Nat
      /\ cost.cycles >= 1
      /\ cost.units \in [Unit -> 0 .. MaxUnits]
  BY DecodeFacts, RegisterFacts, CostFacts
<1> HIDE DEF r, cost
<1>3. /\ next \in Nat \ {0}
      /\ Live \subseteq 1 .. next - 1
      /\ next \notin Live
      /\ depth \in Seq(Nat)
      /\ Len(depth) = next - 1
      /\ writer \in [Reg -> 0 .. next - 1]
      /\ cycles \in Nat
      /\ \A e \in Live : rob[e] \in Entry
  BY DEF GasInvariant, Types, TypeOK, Live
<1>4. entry \in Entry
  <2>1. deps \in SUBSET Nat
    <3>1. deps \subseteq Live
      OBVIOUS
    <3>2. Live \subseteq Nat
      BY <1>3
    <3> QED BY <3>1, <3>2
  <2> HIDE DEF deps
  <2> QED BY <1>2, <2>1 DEF Entry
<1>5. /\ rob' = [e \in Live \cup {next} |->
                   IF e = next THEN entry ELSE [rob[e] EXCEPT !.registers = @ \ r.dst]]
      /\ writer' = [x \in Reg |-> IF x \in r.dst THEN next ELSE writer[x]]
      /\ depth' = Append(depth, cost.cycles + MaxDepth(from))
      /\ next' = next + 1
  BY <1>1 DEF Enter
<1>6. Live' = Live \cup {next} /\ rob'[next] = entry
  BY <1>3, <1>5 DEF Live
<1>7. \A e \in Live : /\ rob'[e] \in Entry
                      /\ rob'[e].state = rob[e].state
                      /\ rob'[e].cycles_left = rob[e].cycles_left
                      /\ rob'[e].dependencies = rob[e].dependencies
                      /\ rob'[e].units = rob[e].units
                      /\ rob'[e].registers = rob[e].registers \ r.dst
  <2> SUFFICES ASSUME NEW e \in Live
               PROVE  /\ rob'[e] \in Entry
                      /\ rob'[e].state = rob[e].state
                      /\ rob'[e].cycles_left = rob[e].cycles_left
                      /\ rob'[e].dependencies = rob[e].dependencies
                      /\ rob'[e].units = rob[e].units
                      /\ rob'[e].registers = rob[e].registers \ r.dst
    OBVIOUS
  <2> DEFINE R == rob[e].registers \ r.dst
  <2>1. rob[e] \in Entry /\ R \in SUBSET Reg
    BY <1>3 DEF Entry
  <2>2. rob'[e] = [rob[e] EXCEPT !.registers = R]
    BY <1>3, <1>5
  <2>3. rob'[e].registers = R
    BY <2>1, <2>2 DEF Entry
  <2> HIDE DEF R
  <2> QED BY <2>1, <2>2, <2>3 DEF Entry, R
<1>8. from \in SUBSET (1 .. Len(depth))
  BY <1>2, <1>3
<1>9. /\ MaxDepth(from) \in Nat
      /\ MaxDepth(from) = 0 \/ \E e \in from : MaxDepth(from) = depth[e]
  BY <1>3, <1>8, MaxDepthFacts
<1>10. /\ depth' \in Seq(Nat)
       /\ Len(depth') = next' - 1
       /\ depth'[next] = cost.cycles + MaxDepth(from)
       /\ \A e \in 1 .. next - 1 : depth'[e] = depth[e]
  <2> HIDE DEF from
  <2>1. cost.cycles + MaxDepth(from) \in Nat
    BY <1>2, <1>9
  <2> QED BY <1>3, <1>5, <2>1
<1>11. Types'
  <2>1. DOMAIN rob' \subseteq 1 .. next' - 1
    BY <1>3, <1>5, <1>6 DEF Live
  <2>2. writer' \in [Reg -> 0 .. next' - 1]
    BY <1>3, <1>5
  <2>3. next' \in Nat \ {0}
    BY <1>3, <1>5
  <2>4. \A e \in Live' : rob'[e] \in Entry
    BY <1>4, <1>6, <1>7
  <2> QED BY <1>10, <2>1, <2>2, <2>3, <2>4, DecodeFacts DEF GasInvariant, Types, TypeOK
<1>12. StatesAreOrderly'
  <2>1. rob'[next].state = "DEC" /\ rob'[next].cycles_left >= 1
    BY <1>2, <1>6
  <2> QED BY <1>6, <1>7, <2>1 DEF GasInvariant, StatesAreOrderly
<1>13. RenamingIsExact'
  <2> SUFFICES ASSUME NEW e \in Live'
               PROVE  rob'[e].registers = {x \in Reg : writer'[x] = e}
    BY DEF RenamingIsExact
  <2>1. \A x \in Reg : writer'[x] = IF x \in r.dst THEN next ELSE writer[x]
    BY <1>5
  <2>2. CASE e = next
    <3>1. \A x \in Reg : writer[x] # next
      BY <1>3
    <3>2. rob'[e].registers = r.dst
      BY <1>6, <2>2
    <3> QED BY <1>2, <2>1, <2>2, <3>1, <3>2
  <2>3. CASE e \in Live
    <3>1. rob[e].registers = {x \in Reg : writer[x] = e}
      BY <2>3 DEF GasInvariant, RenamingIsExact
    <3>2. e # next /\ rob'[e].registers = rob[e].registers \ r.dst
      BY <1>3, <1>7, <2>3
    <3> QED BY <2>1, <3>1, <3>2
  <2> QED BY <1>6, <2>2, <2>3
<1>14. UnitsAreConserved'
  <2>1. Running' = Running
    <3>1. rob'[next].state = "DEC"
      BY <1>6
    <3>2. \A e \in Live : /\ rob'[e].state = rob[e].state
                          /\ rob'[e].cycles_left = rob[e].cycles_left
      BY <1>7
    <3> QED BY <1>6, <3>1, <3>2 DEF Running
  <2>2. \A u \in Unit : Held(rob', Running, u) = Held(rob, Running, u)
    <3>1. \A e \in Running : rob'[e].units = rob[e].units
      BY <1>7 DEF Running
    <3> QED BY <3>1, HeldSame
  <2> QED BY <2>1, <2>2, DecodeFacts DEF GasInvariant, UnitsAreConserved
<1>15. ChainsArePaid'
  <2> DEFINE Paid(e) ==
               /\ e \notin Live' => depth'[e] <= cycles'
               /\ e \in Live' /\ rob'[e].state \in {"EXE", "FIN"} =>
                      depth'[e] <= cycles' + rob'[e].cycles_left
               /\ e \in Live' /\ rob'[e].state \in {"DEC", "WAIT"} =>
                      \/ depth'[e] <= cycles' + rob'[e].cycles_left
                      \/ \E d \in rob'[e].dependencies \cap Live' :
                             depth'[e] <= depth'[d] + rob'[e].cycles_left
  <2>0. cycles' = cycles
    BY DecodeFacts
  <2>1. ASSUME NEW e \in 1 .. next - 1 PROVE Paid(e)
    <3>1. e # next /\ depth'[e] = depth[e] /\ (e \in Live' <=> e \in Live)
      BY <1>3, <1>6, <1>10
    <3>2. \A d \in Live : d \in Live' /\ depth'[d] = depth[d]
      BY <1>3, <1>6, <1>10
    <3> QED BY <1>7, <2>0, <3>1, <3>2 DEF GasInvariant, ChainsArePaid
  <2>2. Paid(next)
    <3>1. /\ rob'[next].state = "DEC"
          /\ rob'[next].cycles_left = cost.cycles
          /\ rob'[next].dependencies = deps
      BY <1>6
    <3>2. CASE MaxDepth(from) = 0
      BY <1>2, <1>3, <1>6, <1>10, <2>0, <3>1, <3>2
    <3>3. CASE MaxDepth(from) # 0
      <4>1. PICK d \in from : MaxDepth(from) = depth[d]
        BY <1>9, <3>3
      <4>2. d \in 1 .. next - 1 /\ depth[d] \in Nat
        <5> HIDE DEF from
        <5> QED BY <1>3, <1>8
      <4>3. CASE d \in Live
        <5>1. PICK x \in r.src : writer[x] = d
          OBVIOUS
        <5>2. x \in rob[d].registers
          BY <1>2, <4>3, <5>1 DEF GasInvariant, RenamingIsExact
        <5>3. d \in deps
          BY <4>3, <5>1, <5>2
        <5>4. depth'[next] <= depth'[d] + cost.cycles
          BY <1>2, <1>10, <4>1, <4>2
        <5>5. d \in rob'[next].dependencies \cap Live'
          BY <1>6, <3>1, <4>3, <5>3
        <5> HIDE DEF deps, from
        <5> QED BY <1>6, <3>1, <5>4, <5>5
      <4>4. CASE d \notin Live
        <5>1. depth[d] <= cycles
          BY <4>2, <4>4 DEF GasInvariant, ChainsArePaid
        <5>2. depth'[next] <= cycles' + rob'[next].cycles_left
          BY <1>2, <1>3, <1>10, <2>0, <3>1, <4>1, <4>2, <5>1
        <5> QED BY <1>6, <3>1, <5>2
      <4> QED BY <4>3, <4>4
    <3> QED BY <3>2, <3>3
  <2>3. \A e \in 1 .. next' - 1 : e \in 1 .. next - 1 \/ e = next
    BY <1>3, <1>5
  <2>4. \A e \in 1 .. next' - 1 : Paid(e)
    <3> HIDE DEF Paid
    <3> QED BY <2>1, <2>2, <2>3
  <2> QED BY <2>4 DEF ChainsArePaid
<1>16. PriceIsTheTime'
  BY DecodeFacts DEF PriceIsTheTime
<1> QED BY <1>11, <1>12, <1>13, <1>14, <1>15, <1>16 DEF GasInvariant

\* Entries of a buffer are finitely many.
LEMMA LiveIsFinite ==
    ASSUME GasInvariant, NEW S \in SUBSET Live
    PROVE  IsFiniteSet(S)
<1>1. Live \subseteq 1 .. next - 1 /\ 1 \in Int /\ next - 1 \in Int
  BY DEF GasInvariant, Types, TypeOK, Live
<1>2. IsFiniteSet(1 .. next - 1)
  BY <1>1, FS_Interval
<1> QED BY <1>1, <1>2, FS_Subset

\* The oldest ready entry is one of the ready entries.
LEMMA OldestIsReady ==
    ASSUME GasInvariant, CanStart
    PROVE  LET e == Min({x \in Live : Ready(x)}) IN e \in Live /\ Ready(e)
<1> DEFINE S == {x \in Live : Ready(x)}
<1>1. S \in SUBSET Nat
  <2>1. Live \subseteq Nat
    BY DEF GasInvariant, Types, TypeOK, Live
  <2> QED BY <2>1
<1>2. S # {}
  BY DEF CanStart
<1>3. \E m \in S : \A n \in S : m <= n
  <2> HIDE DEF S
  <2> QED BY <1>1, <1>2, LeastNatural
<1>4. Min(S) \in S
  <2> HIDE DEF S
  <2> QED BY <1>3 DEF Min
<1> QED BY <1>4

\* An entry starts: it takes its units, and the chains it waited for are complete.
LEMMA StartStep ==
    ASSUME GasInvariant, Start
    PROVE  GasInvariant'
<1> DEFINE e == Min({x \in Live : Ready(x)})
<1>1. e \in Live /\ Ready(e)
  BY OldestIsReady DEF Start
<1>2. /\ gas = 0
      /\ starts_left > 0
      /\ rob' = [rob EXCEPT ![e].state = "EXE", ![e].dependencies = {}]
      /\ units' = [u \in Unit |-> units[u] - rob[e].units[u]]
      /\ starts_left' = starts_left - 1
      /\ UNCHANGED <<code, pc, cycles, decode_slots, gas, history>>
  BY DEF Start, CanStart
<1> HIDE DEF e
<1>3. /\ \A x \in Live : rob[x] \in Entry
      /\ Live \subseteq 1 .. next - 1
      /\ next \in Nat
      /\ cycles \in Nat
      /\ units \in [Unit -> Nat]
      /\ starts_left \in 0 .. Window.start
      /\ depth \in Seq(Nat)
      /\ Len(depth) = next - 1
  BY DEF GasInvariant, Types, TypeOK, Live
<1>4. /\ Live' = Live
      /\ rob'[e] = [rob[e] EXCEPT !.state = "EXE", !.dependencies = {}]
      /\ \A x \in Live : x # e => rob'[x] = rob[x]
  BY <1>1, <1>2 DEF Live
<1>5. /\ rob'[e] \in Entry
      /\ rob'[e].state = "EXE"
      /\ rob'[e].cycles_left = rob[e].cycles_left
      /\ rob'[e].registers = rob[e].registers
      /\ rob'[e].units = rob[e].units
  <2>1. rob[e] \in Entry
    BY <1>1, <1>3
  <2> QED BY <1>4, <2>1 DEF Entry
<1>6. /\ rob[e].state = "WAIT"
      /\ rob[e].cycles_left >= 1
      /\ rob[e].cycles_left \in Nat
      /\ rob[e].units \in [Unit -> 0 .. MaxUnits]
      /\ \A u \in Unit : rob[e].units[u] <= units[u]
      /\ \A d \in rob[e].dependencies \cap Live : rob[d].cycles_left = 0
  BY <1>1, <1>3 DEF Ready, GasInvariant, StatesAreOrderly, Entry
<1>7. units' \in [Unit -> Nat]
  <2>1. \A u \in Unit : units[u] - rob[e].units[u] \in Nat
    <3> SUFFICES ASSUME NEW u \in Unit PROVE units[u] - rob[e].units[u] \in Nat
      OBVIOUS
    <3>1. units[u] \in Nat /\ rob[e].units[u] \in 0 .. MaxUnits /\ rob[e].units[u] <= units[u]
      BY <1>3, <1>6
    <3> QED BY <3>1 DEF MaxUnits
  <2> QED BY <1>2, <2>1
<1>8. Types'
  <2>1. \A x \in Live' : rob'[x] \in Entry
    BY <1>3, <1>4, <1>5
  <2>2. starts_left' \in 0 .. Window.start
    <3>1. Window.start \in Nat
      BY GasModelAssumption
    <3> QED BY <1>2, <1>3, <3>1
  <2> QED BY <1>2, <1>4, <1>7, <2>1, <2>2
          DEF GasInvariant, Types, TypeOK, history, Live
<1>9. StatesAreOrderly'
  BY <1>4, <1>5 DEF GasInvariant, StatesAreOrderly
<1>10. RenamingIsExact'
  <2>1. \A x \in Live : rob'[x].registers = rob[x].registers
    BY <1>4, <1>5
  <2> QED BY <1>2, <1>4, <2>1 DEF GasInvariant, RenamingIsExact, history
<1>11. UnitsAreConserved'
  <2>1. Running' = Running \cup {e} /\ e \notin Running
    <3>1. rob'[e].cycles_left > 0 /\ rob[e].state # "EXE"
      BY <1>5, <1>6
    <3> QED BY <1>1, <1>4, <1>5, <3>1 DEF Running
  <2> SUFFICES ASSUME NEW u \in Unit
               PROVE  units'[u] + Held(rob', Running', u) = Capacity[u]
    BY DEF UnitsAreConserved
  <2>2. Held(rob', Running', u) = Held(rob, Running', u)
    <3>1. \A x \in Running' : rob'[x].units = rob[x].units
      BY <1>4, <1>5 DEF Running
    <3> QED BY <3>1, HeldSame
  <2>3. rob[e].units[u] \in 0 .. MaxUnits
    BY <1>6
  <2> DEFINE one == {e}
  <2>4. Held(rob, one, u) = rob[e].units[u]
    BY <2>3, HeldByOne
  <2>5. /\ Held(rob, Running, u) \in Nat
        /\ Held(rob, Running', u) = Held(rob, Running, u) + Held(rob, one, u)
    <3>1. Running \in SUBSET Live
      BY DEF Running
    <3>2. IsFiniteSet(Running) /\ IsFiniteSet(one)
      BY <3>1, LiveIsFinite, FS_Singleton
    <3>3. Running \cap one = {} /\ Running' = Running \cup one
      BY <2>1
    <3> HIDE DEF one
    <3> QED BY <3>2, <3>3, HeldAdds
  <2>6. units[u] + Held(rob, Running, u) = Capacity[u]
    BY DEF GasInvariant, UnitsAreConserved
  <2>7. units'[u] = units[u] - rob[e].units[u] /\ units[u] \in Nat
    BY <1>2, <1>3
  <2>8. rob[e].units[u] \in Nat
    BY <2>3 DEF MaxUnits
  <2> QED BY <2>2, <2>4, <2>5, <2>6, <2>7, <2>8
<1>12. ChainsArePaid'
  <2>0. cycles' = cycles /\ depth' = depth /\ next' = next
    BY <1>2 DEF history
  <2>1. depth[e] <= cycles + rob[e].cycles_left
    <3>1. e \in 1 .. next - 1 /\ depth[e] \in Nat
      BY <1>1, <1>3
    <3>2. SUFFICES ASSUME NEW d \in rob[e].dependencies \cap Live,
                          depth[e] <= depth[d] + rob[e].cycles_left
                   PROVE  depth[e] <= cycles + rob[e].cycles_left
      BY <1>1, <1>6, <3>1 DEF GasInvariant, ChainsArePaid
    <3>3. d \in 1 .. next - 1 /\ depth[d] \in Nat /\ rob[d] \in Entry
      <4>1. d \in Live /\ d \in 1 .. next - 1
        BY <1>3
      <4> QED BY <1>3, <4>1
    <3>4. rob[d].cycles_left = 0
      BY <1>6
    <3>5. rob[d].state \in {"EXE", "FIN"}
      <4>1. rob[d].state \in {"DEC", "WAIT", "EXE", "FIN"}
        BY <3>3 DEF Entry
      <4>2. ~(rob[d].cycles_left >= 1)
        BY <3>4
      <4> QED BY <4>1, <4>2 DEF GasInvariant, StatesAreOrderly
    <3>6. depth[d] <= cycles
      <4>1. depth[d] <= cycles + rob[d].cycles_left
        BY <3>3, <3>5 DEF GasInvariant, ChainsArePaid
      <4> QED BY <1>3, <3>3, <3>4, <4>1
    <3> QED BY <1>3, <1>6, <3>1, <3>2, <3>3, <3>6
  <2> SUFFICES ASSUME NEW x \in 1 .. next - 1
               PROVE  /\ x \notin Live' => depth'[x] <= cycles'
                      /\ x \in Live' /\ rob'[x].state \in {"EXE", "FIN"} =>
                             depth'[x] <= cycles' + rob'[x].cycles_left
                      /\ x \in Live' /\ rob'[x].state \in {"DEC", "WAIT"} =>
                             \/ depth'[x] <= cycles' + rob'[x].cycles_left
                             \/ \E d \in rob'[x].dependencies \cap Live' :
                                    depth'[x] <= depth'[d] + rob'[x].cycles_left
    BY <2>0 DEF ChainsArePaid
  <2>2. CASE x = e
    BY <1>1, <1>4, <1>5, <2>0, <2>1, <2>2
  <2>3. CASE x # e
    BY <1>4, <2>0, <2>3 DEF GasInvariant, ChainsArePaid
  <2> QED BY <2>2, <2>3
<1>13. PriceIsTheTime'
  BY <1>2 DEF PriceIsTheTime
<1> QED BY <1>8, <1>9, <1>10, <1>11, <1>12, <1>13 DEF GasInvariant

\* The block is priced when the pipeline is empty.
LEMMA FinishStep ==
    ASSUME GasInvariant, Finish
    PROVE  GasInvariant'
<1>1. /\ Live = {}
      /\ gas' = IF cycles - 3 > 1 THEN cycles - 3 ELSE 1
      /\ UNCHANGED <<code, pc, cycles, decode_slots, starts_left, units, rob, history>>
  BY DEF Finish, Done
<1>2. cycles \in Nat
  BY DEF GasInvariant, Types, TypeOK
<1>3. gas' \in Nat /\ gas' + 3 >= cycles
  BY <1>1, <1>2
<1>4. Types'
  BY <1>1, <1>3 DEF GasInvariant, Types, TypeOK, Live, history
<1>5. Live' = Live /\ Running' = Running
  BY <1>1 DEF Live, Running
<1>6. StatesAreOrderly' /\ RenamingIsExact' /\ UnitsAreConserved' /\ ChainsArePaid'
  BY <1>1, <1>5 DEF GasInvariant, StatesAreOrderly, RenamingIsExact, UnitsAreConserved,
                    ChainsArePaid, history
<1>7. PriceIsTheTime'
  BY <1>1, <1>3, <1>5 DEF PriceIsTheTime
<1> QED BY <1>4, <1>6, <1>7 DEF GasInvariant

\* What the end of a cycle does to an entry it keeps.
LEMMA TickFacts ==
    ASSUME NEW x \in Entry
    PROVE  /\ Tick(x) \in Entry
           /\ Tick(x).dependencies = x.dependencies
           /\ Tick(x).registers = x.registers
           /\ Tick(x).units = x.units
           /\ x.state = "DEC" => Tick(x).state = "WAIT" /\ Tick(x).cycles_left = x.cycles_left
           /\ x.state \in {"WAIT", "FIN"} => Tick(x) = x
           /\ x.state = "EXE" /\ x.cycles_left = 0 =>
                  Tick(x).state = "FIN" /\ Tick(x).cycles_left = 0
           /\ x.state = "EXE" /\ x.cycles_left > 0 =>
                  Tick(x).state = "EXE" /\ Tick(x).cycles_left = x.cycles_left - 1
<1>1. x.state \in {"DEC", "WAIT", "EXE", "FIN"} /\ x.cycles_left \in Nat
  BY DEF Entry
<1>2. CASE x.state = "DEC"
  <2>1. Tick(x) = [x EXCEPT !.state = "WAIT"]
    BY <1>2 DEF Tick
  <2> QED BY <1>2, <2>1 DEF Entry
<1>3. CASE x.state = "EXE" /\ x.cycles_left = 0
  <2>1. Tick(x) = [x EXCEPT !.state = "FIN"]
    BY <1>3 DEF Tick
  <2> QED BY <1>3, <2>1 DEF Entry
<1>4. CASE x.state = "EXE" /\ x.cycles_left > 0
  <2>1. Tick(x) = [x EXCEPT !.cycles_left = @ - 1]
    <3>1. x.cycles_left # 0
      BY <1>1, <1>4
    <3> QED BY <1>4, <3>1 DEF Tick
  <2>2. x.cycles_left - 1 \in Nat
    BY <1>1, <1>4
  <2> QED BY <1>4, <2>1, <2>2 DEF Entry
<1>5. CASE x.state \in {"WAIT", "FIN"}
  <2>1. Tick(x) = x
    BY <1>5 DEF Tick
  <2> QED BY <1>5, <2>1 DEF Entry
<1>6. x.cycles_left = 0 \/ x.cycles_left > 0
  BY <1>1
<1> QED BY <1>1, <1>2, <1>3, <1>4, <1>5, <1>6

\* The end of a cycle: the finished prefix leaves, running entries lose a cycle, and
\* the ones in their last cycle return their units.
LEMMA CycleStep ==
    ASSUME GasInvariant, Cycle
    PROVE  GasInvariant'
<1> DEFINE kept == Live \ Retired
           last == Releasing(kept)
<1>1. /\ gas = 0
      /\ rob' = [e \in kept |-> Tick(rob[e])]
      /\ units' = [u \in Unit |-> units[u] + Held(rob, last, u)]
      /\ cycles' = cycles + 1
      /\ decode_slots' = Window.decode
      /\ starts_left' = Window.start
      /\ UNCHANGED <<code, pc, gas, history>>
  BY DEF Cycle
<1>2. /\ \A e \in Live : rob[e] \in Entry
      /\ Live \subseteq 1 .. next - 1
      /\ next \in Nat
      /\ cycles \in Nat
      /\ units \in [Unit -> Nat]
      /\ depth \in Seq(Nat)
      /\ Len(depth) = next - 1
  BY DEF GasInvariant, Types, TypeOK, Live
<1>3. kept \subseteq Live /\ \A e \in Live \ kept : rob[e].state = "FIN"
  <2>1. \A e \in Retired : rob[e].state = "FIN"
    <3>1. \A e \in Live : e <= e
      BY <1>2
    <3> QED BY <3>1 DEF Retired
  <2> QED BY <2>1
<1>4. Live' = kept /\ \A e \in kept : rob'[e] = Tick(rob[e])
  BY <1>1 DEF Live
<1>5. last = {e \in kept : rob[e].state = "EXE" /\ rob[e].cycles_left = 1}
  BY DEF Releasing
<1> HIDE DEF kept, last
<1>6. \A e \in kept :
         /\ rob[e] \in Entry
         /\ rob'[e] \in Entry
         /\ rob'[e].dependencies = rob[e].dependencies
         /\ rob'[e].registers = rob[e].registers
         /\ rob'[e].units = rob[e].units
         /\ rob[e].state = "DEC" =>
                rob'[e].state = "WAIT" /\ rob'[e].cycles_left = rob[e].cycles_left
         /\ rob[e].state \in {"WAIT", "FIN"} =>
                rob'[e].state = rob[e].state /\ rob'[e].cycles_left = rob[e].cycles_left
         /\ rob[e].state = "EXE" /\ rob[e].cycles_left = 0 =>
                rob'[e].state = "FIN" /\ rob'[e].cycles_left = 0
         /\ rob[e].state = "EXE" /\ rob[e].cycles_left > 0 =>
                rob'[e].state = "EXE" /\ rob'[e].cycles_left = rob[e].cycles_left - 1
  BY <1>2, <1>3, <1>4, TickFacts
<1>7. \A e \in Live : /\ rob[e].state \in {"DEC", "WAIT", "EXE", "FIN"}
                      /\ rob[e].cycles_left \in Nat
                      /\ rob[e].units \in [Unit -> 0 .. MaxUnits]
  BY <1>2 DEF Entry
<1>8. Running = Running' \cup last /\ Running' \cap last = {}
  <2>1. \A e \in Running : e \in kept
    BY <1>3 DEF Running
  <2>2. \A e \in kept : e \in Running' <=> rob[e].state = "EXE" /\ rob[e].cycles_left > 1
    <3> SUFFICES ASSUME NEW e \in kept
                 PROVE  rob'[e].state = "EXE" /\ rob'[e].cycles_left > 0
                          <=> rob[e].state = "EXE" /\ rob[e].cycles_left > 1
      BY <1>4 DEF Running
    <3>1. e \in Live /\ rob[e].cycles_left \in Nat
      BY <1>3, <1>7
    <3>2. CASE rob[e].state # "EXE"
      BY <1>6, <1>7, <3>1, <3>2
    <3>3. CASE rob[e].state = "EXE" /\ rob[e].cycles_left = 0
      BY <1>6, <3>3
    <3>4. CASE rob[e].state = "EXE" /\ rob[e].cycles_left > 0
      <4>1. rob'[e].state = "EXE" /\ rob'[e].cycles_left = rob[e].cycles_left - 1
        BY <1>6, <3>4
      <4> QED BY <3>1, <3>4, <4>1
    <3> QED BY <3>1, <3>2, <3>3, <3>4
  <2>3. Running' \subseteq kept /\ last \subseteq kept
    BY <1>4, <1>5 DEF Running
  <2>4. \A e \in kept : e \in Running <=> rob[e].state = "EXE" /\ rob[e].cycles_left > 0
    BY <1>3 DEF Running
  <2>5. \A e \in kept : e \in last <=> rob[e].state = "EXE" /\ rob[e].cycles_left = 1
    BY <1>5
  <2>6. \A e \in kept : /\ rob[e].cycles_left > 0 <=>
                               rob[e].cycles_left > 1 \/ rob[e].cycles_left = 1
                        /\ ~(rob[e].cycles_left > 1 /\ rob[e].cycles_left = 1)
    BY <1>3, <1>7
  <2>7. \A e \in kept : /\ e \in Running <=> e \in Running' \/ e \in last
                        /\ ~(e \in Running' /\ e \in last)
    BY <2>2, <2>4, <2>5, <2>6
  <2> QED BY <2>1, <2>3, <2>7
<1>9. UnitsAreConserved' /\ units' \in [Unit -> Nat]
  <2>1. ASSUME NEW u \in Unit
        PROVE  units'[u] \in Nat /\ units'[u] + Held(rob', Running', u) = Capacity[u]
    <3>1. Held(rob', Running', u) = Held(rob, Running', u)
      <4>1. \A x \in Running' : rob'[x].units = rob[x].units
        BY <1>4, <1>6 DEF Running
      <4> QED BY <4>1, HeldSame
    <3>2. /\ Held(rob, Running', u) \in Nat
          /\ Held(rob, last, u) \in Nat
          /\ Held(rob, Running, u) = Held(rob, Running', u) + Held(rob, last, u)
      <4>1. Running' \in SUBSET Live /\ last \in SUBSET Live
        BY <1>3, <1>4, <1>5 DEF Running
      <4>2. IsFiniteSet(Running') /\ IsFiniteSet(last)
        BY <4>1, LiveIsFinite
      <4> QED BY <1>8, <4>2, HeldAdds
    <3>3. units[u] + Held(rob, Running, u) = Capacity[u]
      BY DEF GasInvariant, UnitsAreConserved
    <3>4. units'[u] = units[u] + Held(rob, last, u) /\ units[u] \in Nat
      BY <1>1, <1>2
    <3> QED BY <3>1, <3>2, <3>3, <3>4
  <2>2. units' = [u \in Unit |-> units'[u]]
    BY <1>1
  <2> QED BY <2>1, <2>2 DEF UnitsAreConserved
<1>10. Types'
  <2>1. \A e \in Live' : rob'[e] \in Entry
    BY <1>4, <1>6
  <2>2. DOMAIN rob' \subseteq 1 .. next' - 1
    BY <1>1, <1>2, <1>3, <1>4 DEF Live, history
  <2>3. Window.decode \in 0 .. Window.decode /\ Window.start \in 0 .. Window.start
    BY GasModelAssumption
  <2> QED BY <1>1, <1>2, <1>9, <2>1, <2>2, <2>3 DEF GasInvariant, Types, TypeOK, history
<1>11. StatesAreOrderly'
  <2> SUFFICES ASSUME NEW e \in kept
               PROVE  /\ rob'[e].state \in {"DEC", "WAIT"} => rob'[e].cycles_left >= 1
                      /\ rob'[e].state = "FIN" => rob'[e].cycles_left = 0
    BY <1>4 DEF StatesAreOrderly
  <2>1. /\ rob[e].state \in {"DEC", "WAIT"} => rob[e].cycles_left >= 1
        /\ rob[e].state = "FIN" => rob[e].cycles_left = 0
        /\ rob[e].state \in {"DEC", "WAIT", "EXE", "FIN"}
        /\ rob[e].cycles_left = 0 \/ rob[e].cycles_left > 0
    BY <1>3, <1>7 DEF GasInvariant, StatesAreOrderly
  <2> QED BY <1>6, <2>1
<1>12. RenamingIsExact'
  BY <1>1, <1>3, <1>4, <1>6 DEF GasInvariant, RenamingIsExact, history
<1>13. ChainsArePaid'
  <2>0. cycles' = cycles + 1 /\ depth' = depth /\ next' = next
    BY <1>1 DEF history
  <2> SUFFICES ASSUME NEW x \in 1 .. next - 1
               PROVE  /\ x \notin Live' => depth[x] <= cycles + 1
                      /\ x \in Live' /\ rob'[x].state \in {"EXE", "FIN"} =>
                             depth[x] <= cycles + 1 + rob'[x].cycles_left
                      /\ x \in Live' /\ rob'[x].state \in {"DEC", "WAIT"} =>
                             \/ depth[x] <= cycles + 1 + rob'[x].cycles_left
                             \/ \E d \in rob'[x].dependencies \cap Live' :
                                    depth[x] <= depth[d] + rob'[x].cycles_left
    BY <2>0 DEF ChainsArePaid
  <2>1. depth[x] \in Nat
    BY <1>2
  <2>2. \A d \in Live \ kept : depth[d] \in Nat /\ depth[d] <= cycles
    <3> SUFFICES ASSUME NEW d \in Live \ kept PROVE depth[d] \in Nat /\ depth[d] <= cycles
      OBVIOUS
    <3>1. d \in 1 .. next - 1 /\ rob[d].state = "FIN" /\ rob[d].cycles_left = 0
      BY <1>2, <1>3 DEF GasInvariant, StatesAreOrderly
    <3>2. depth[d] <= cycles + rob[d].cycles_left
      BY <3>1 DEF GasInvariant, ChainsArePaid
    <3>3. depth[d] \in Nat
      BY <1>2, <3>1
    <3> QED BY <1>2, <3>1, <3>2, <3>3
  <2>3. CASE x \notin Live
    <3>1. depth[x] <= cycles
      BY <2>3 DEF GasInvariant, ChainsArePaid
    <3> QED BY <1>2, <1>3, <1>4, <2>1, <2>3, <3>1
  <2>4. CASE x \in Live \ kept
    BY <1>2, <1>4, <2>1, <2>2, <2>4
  <2>5. CASE x \in kept /\ rob[x].state \in {"EXE", "FIN"}
    <3>1. depth[x] <= cycles + rob[x].cycles_left /\ rob[x].cycles_left \in Nat
      BY <1>3, <1>7, <2>5 DEF GasInvariant, ChainsArePaid
    <3>2. rob[x].state = "FIN" => rob[x].cycles_left = 0
      BY <1>3, <2>5 DEF GasInvariant, StatesAreOrderly
    <3>3. /\ rob'[x].state \in {"EXE", "FIN"}
          /\ rob'[x].cycles_left = rob[x].cycles_left
               \/ rob'[x].cycles_left = rob[x].cycles_left - 1
      <4>1. rob[x].cycles_left = 0 \/ rob[x].cycles_left > 0
        BY <3>1
      <4> QED BY <1>6, <2>5, <4>1
    <3>4. depth[x] <= cycles + 1 + rob'[x].cycles_left
      BY <1>2, <2>1, <3>1, <3>3
    <3> QED BY <1>4, <2>5, <3>3, <3>4
  <2>6. CASE x \in kept /\ rob[x].state \in {"DEC", "WAIT"}
    <3>1. /\ rob[x].cycles_left \in Nat
          /\ \/ depth[x] <= cycles + rob[x].cycles_left
             \/ \E d \in rob[x].dependencies \cap Live :
                    depth[x] <= depth[d] + rob[x].cycles_left
      BY <1>3, <1>7, <2>6 DEF GasInvariant, ChainsArePaid
    <3>2. /\ rob'[x].state = "WAIT"
          /\ rob'[x].cycles_left = rob[x].cycles_left
          /\ rob'[x].dependencies = rob[x].dependencies
      BY <1>6, <2>6
    <3>3. CASE depth[x] <= cycles + rob[x].cycles_left
      BY <1>2, <1>4, <2>1, <2>6, <3>1, <3>2, <3>3
    <3>4. ASSUME NEW d \in rob[x].dependencies \cap Live,
                 depth[x] <= depth[d] + rob[x].cycles_left
          PROVE  \/ depth[x] <= cycles + 1 + rob[x].cycles_left
                 \/ \E f \in rob[x].dependencies \cap kept :
                        depth[x] <= depth[f] + rob[x].cycles_left
      <4>1. CASE d \in kept
        BY <3>4, <4>1
      <4>2. CASE d \notin kept
        <5>1. depth[d] \in Nat /\ depth[d] <= cycles
          BY <2>2, <4>2
        <5> QED BY <1>2, <2>1, <3>1, <3>4, <5>1
      <4> QED BY <4>1, <4>2
    <3> QED BY <1>4, <2>6, <3>1, <3>2, <3>3, <3>4
  <2>7. x \in kept => rob[x].state \in {"DEC", "WAIT", "EXE", "FIN"}
    BY <1>3, <1>7
  <2> QED BY <2>3, <2>4, <2>5, <2>6, <2>7
<1>14. PriceIsTheTime'
  BY <1>1 DEF PriceIsTheTime
<1> QED BY <1>9, <1>10, <1>11, <1>12, <1>13, <1>14 DEF GasInvariant

LEMMA GasStep == GasInvariant /\ [Next]_vars => GasInvariant'
<1> SUFFICES ASSUME GasInvariant, [Next]_vars PROVE GasInvariant'
  OBVIOUS
<1>1. CASE Decode
  BY <1>1, RenameStep, EnterStep
<1>2. CASE Start
  BY <1>2, StartStep
<1>3. CASE Finish
  BY <1>3, FinishStep
<1>4. CASE Cycle
  BY <1>4, CycleStep
<1>5. CASE UNCHANGED vars
  <2>1. Live' = Live /\ Running' = Running
    BY <1>5 DEF vars, Live, Running
  <2> QED BY <1>5, <2>1 DEF vars, GasInvariant, Types, TypeOK, StatesAreOrderly, Live,
             RenamingIsExact, UnitsAreConserved, ChainsArePaid, PriceIsTheTime
<1> QED BY <1>1, <1>2, <1>3, <1>4, <1>5 DEF Next

-----------------------------------------------------------------------------
(* The theorems. *)

\* Every state of the simulation satisfies the inductive invariant: its types, and that
\* every chain of dependent instructions is paid for by the cycles that have passed and
\* the ones its entries still have to wait.
THEOREM GasInvariantHolds == Spec => []GasInvariant
  BY GasInit, GasStep, PTL DEF Spec

\* The in-place edits of the register claims at every decode are exact, whatever the
\* block: an entry claims the registers that hold its result, and no others.
THEOREM RenamingHolds == Spec => []RenamingIsExact
<1>1. GasInvariant => RenamingIsExact
  BY DEF GasInvariant
<1> QED BY <1>1, GasInvariantHolds, PTL

\* Execution units are neither lost nor duplicated, whatever the block.
THEOREM UnitsHold == Spec => []UnitsAreConserved
<1>1. GasInvariant => UnitsAreConserved
  BY DEF GasInvariant
<1> QED BY <1>1, GasInvariantHolds, PTL

\* The price of a block covers its longest chain of dependent instructions, for every
\* block, buffer size and window, and the pipeline ends with all its units free.
THEOREM PriceHolds == Spec => []CostCoversCriticalPath
<1>1. GasInvariant => CostCoversCriticalPath
  <2> SUFFICES ASSUME GasInvariant, gas > 0
               PROVE  gas + 3 >= MaxDepth(1 .. next - 1) /\ units = Capacity
    BY DEF CostCoversCriticalPath
  <2> DEFINE all == 1 .. next - 1
  <2>1. /\ Live = {} /\ gas + 3 >= cycles
        /\ gas \in Nat /\ cycles \in Nat
        /\ depth \in Seq(Nat) /\ Len(depth) = next - 1
        /\ units \in [Unit -> Nat]
    BY DEF GasInvariant, PriceIsTheTime, Types, TypeOK
  <2>2. all \in SUBSET (1 .. Len(depth)) /\ \A e \in all : depth[e] \in Nat
    BY <2>1
  <2>3. \A e \in all : depth[e] <= cycles
    BY <2>1 DEF GasInvariant, ChainsArePaid
  <2>4. gas + 3 >= MaxDepth(all)
    <3> HIDE DEF all
    <3>1. MaxDepth(all) = 0 \/ \E e \in all : MaxDepth(all) = depth[e]
      BY <2>1, <2>2, MaxDepthFacts
    <3>2. CASE MaxDepth(all) = 0
      BY <2>1, <3>2
    <3>3. ASSUME NEW e \in all, MaxDepth(all) = depth[e] PROVE gas + 3 >= MaxDepth(all)
      BY <2>1, <2>2, <2>3, <3>3
    <3> QED BY <3>1, <3>2, <3>3
  <2>5. \A u \in Unit : units[u] = Capacity[u]
    <3>1. Running = {}
      BY <2>1 DEF Running
    <3>2. \A u \in Unit : Held(rob, {}, u) = 0
      <4>1. \A u \in Unit : {x \in {} \X (1 .. MaxUnits) : x[2] <= rob[x[1]].units[u]} = {}
        OBVIOUS
      <4> QED BY <4>1, FS_EmptySet DEF Held
    <3>3. \A u \in Unit : units[u] \in Nat /\ units[u] + 0 = Capacity[u]
      BY <2>1, <3>1, <3>2 DEF GasInvariant, UnitsAreConserved
    <3> QED BY <3>3
  <2>6. units = Capacity
    BY <2>1, <2>5 DEF Capacity
  <2> QED BY <2>4, <2>6
<1> QED BY <1>1, GasInvariantHolds, PTL
=============================================================================
