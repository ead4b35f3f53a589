--------------------------- MODULE ConsensusProofs ---------------------------
(***************************************************************************)
(* What the consensus components guarantee for every size of the validator *)
(* sets, every length of epoch and every sequence of blocks: offenders are *)
(* retired in time, verdicts are final, the guarantors of the previous     *)
(* rotation are the ones the block before had; tickets of the contest can  *)
(* be sealed with and are beaten only by better ones, the series is the    *)
(* announced one, own blocks verify, and the statistics add up.            *)
(***************************************************************************)
EXTENDS Consensus, SumTheorems, SequenceTheorems

-----------------------------------------------------------------------------
(* The inductive invariant. *)

\* The clock, the slots that wait for the worker, and the entropies.
SlotsAndEntropies ==
    /\ working_state.timeslot \in Nat
    /\ current_timeslot \in Nat
    /\ timeslot_queue \in Seq(Nat)
    /\ working_state.entropy \in Seq(Int)
    /\ Len(working_state.entropy) = 4

\* No report has two verdicts.
OneVerdictEach ==
    LET psi == working_state.disputes
    IN  /\ psi.good \cap psi.bad = {}
        /\ (psi.good \cup psi.bad) \cap psi.wonky = {}

\* The ages of the reports against validators cover the offenders, of whom none is
\* the key of zeros that check_offenders puts in their place.
OffendersAreDated ==
    /\ DOMAIN judged_at = working_state.disputes.offenders
    /\ \A k \in DOMAIN judged_at : judged_at[k] \in Nat
    /\ NullKey \notin working_state.disputes.offenders

ConsensusInvariant ==
    SlotsAndEntropies /\ OneVerdictEach /\ OffendersAreDated /\ OffendersAreRetired

LEMMA ConsensusInit == Init => ConsensusInvariant
<1> SUFFICES ASSUME Init PROVE ConsensusInvariant
  OBVIOUS
<1>1. /\ working_state.timeslot = 0
      /\ working_state.entropy = <<0, -1, -2, -3>>
      /\ working_state.disputes = [good |-> {}, bad |-> {}, wonky |-> {}, offenders |-> {}]
      /\ timeslot_queue = <<>>
      /\ current_timeslot = 0
      /\ judged_at = [k \in {} |-> 0]
  BY DEF Init
<1>2. SlotsAndEntropies
  BY <1>1 DEF SlotsAndEntropies
<1> QED BY <1>1, <1>2 DEF ConsensusInvariant, OneVerdictEach, OffendersAreDated, OffendersAreRetired

-----------------------------------------------------------------------------
(* A block is the only thing that changes the state. *)

\* A block as the network offers it or the node writes it.
Offered(b) ==
    /\ b.timeslot \in Nat
    /\ b.disputes \in DisputesOffered \cup {NoDisputes}
    /\ TransitionAccepts(working_state, b)

LEMMA BlockOrNothing ==
    ASSUME ConsensusInvariant, [Next]_vars
    PROVE  \/ UNCHANGED <<working_state, announced, judged_at>>
           \/ \E b : Offered(b) /\ Apply(b)
<1>1. CASE NotifyTimeslot
  BY <1>1 DEF NotifyTimeslot
<1>2. CASE ImportBlock
  <2>1. PICK slot \in (working_state.timeslot + 1) .. current_timeslot :
               \E author_index \in DOMAIN NextPool(working_state, slot),
                  disputes \in DisputesOffered \cup {NoDisputes},
                  designated \in Designations \cup {working_state.validator_queue},
                  marked \in BOOLEAN : Import(slot, author_index, disputes, designated, marked)
    BY <1>2, Zenon DEF ImportBlock
  <2>2. PICK author_index \in DOMAIN NextPool(working_state, slot),
             disputes \in DisputesOffered \cup {NoDisputes},
             designated \in Designations \cup {working_state.validator_queue},
             marked \in BOOLEAN :
               Import(slot, author_index, disputes, designated, marked)
    BY <2>1, Zenon
  <2>3. PICK tickets :
          LET b == Offer(slot, author_index, disputes, designated, marked, tickets)
          IN  TransitionAccepts(working_state, b) /\ Apply(b)
    BY <2>2, Zenon DEF Import
  <2>4. slot \in Nat
    BY DEF ConsensusInvariant, SlotsAndEntropies
  <2> QED BY <2>3, <2>4 DEF Offered, Offer
<1>3. CASE Wait
  BY <1>3 DEF Wait
<1>4. CASE ProduceBlock
  <2> DEFINE slot == Head(timeslot_queue)
  <2>1. timeslot_queue # <<>> /\ timeslot_queue \in Seq(Nat)
    BY <1>4 DEF ProduceBlock, ConsensusInvariant, SlotsAndEntropies
  <2>2. slot \in Nat
    BY <2>1
  <2>3. PICK designated :
               /\ TransitionAccepts(working_state, OwnBlock(slot, designated))
               /\ Apply(OwnBlock(slot, designated))
    BY <1>4 DEF ProduceBlock
  <2>4. /\ OwnBlock(slot, designated).timeslot = slot
        /\ OwnBlock(slot, designated).disputes = NoDisputes
    BY DEF OwnBlock
  <2> QED BY <2>2, <2>3, <2>4 DEF Offered
<1>5. CASE DiscardBlock
  BY <1>5 DEF DiscardBlock
<1>6. CASE UNCHANGED vars
  BY <1>6 DEF vars
<1> QED BY <1>1, <1>2, <1>3, <1>4, <1>5, <1>6 DEF Next

-----------------------------------------------------------------------------
(* Disputes. *)

\* What grows from each place to the next grows from every place to a later one.
LEMMA Ascending ==
    ASSUME NEW n \in Nat, NEW f, \A i \in 1 .. n : f[i] \in Int,
           \A i \in 1 .. n - 1 : f[i] < f[i + 1]
    PROVE  \A i, j \in 1 .. n : i < j => f[i] < f[j]
<1> SUFFICES ASSUME NEW i \in 1 .. n
             PROVE  \A j \in 1 .. n : i < j => f[i] < f[j]
  OBVIOUS
<1> DEFINE Bad == {j \in 1 .. n : i < j /\ ~(f[i] < f[j])}
<1>1. SUFFICES ASSUME Bad # {} PROVE FALSE
  OBVIOUS
<1>2. Bad \in SUBSET Nat
  OBVIOUS
<1>3. PICK j \in Bad : \A k \in Bad : j <= k
  <2> HIDE DEF Bad
  <2> QED BY <1>1, <1>2, LeastNatural
<1>4. j \in 1 .. n /\ i < j /\ ~(f[i] < f[j])
  OBVIOUS
<1>5. j - 1 \in 1 .. n /\ j - 1 \in 1 .. n - 1 /\ ~(j <= j - 1) /\ (i < j - 1 \/ i = j - 1)
  BY <1>4
<1>6. j - 1 \notin Bad
  BY <1>3, <1>5
<1>7. f[j - 1] < f[(j - 1) + 1] /\ (j - 1) + 1 = j
  BY <1>4, <1>5
<1>8. f[i] \in Int /\ f[j - 1] \in Int /\ f[j] \in Int
  BY <1>4, <1>5
<1>9. CASE i = j - 1
  BY <1>4, <1>7, <1>9
<1>10. CASE i < j - 1
  <2>1. f[i] < f[j - 1]
    BY <1>5, <1>6, <1>10
  <2> QED BY <1>4, <1>7, <1>8, <2>1
<1> QED BY <1>5, <1>9, <1>10

\* Extrinsics of disputes are sequences, and signed evidence names a key.
LEMMA DisputesFacts ==
    ASSUME NEW d \in DisputesOffered \cup {NoDisputes}
    PROVE  /\ d.verdicts \in Seq([target : Int, age : Int, votes : Nat, positive : Nat,
                                  sorted : BOOLEAN, signed : BOOLEAN])
           /\ d.culprits \in Seq(Range(d.culprits))
           /\ d.faults \in Seq(Range(d.faults))
           /\ \A c \in Range(d.culprits) : c.signed => c.key # NullKey
           /\ \A f \in Range(d.faults) : f.signed => f.key # NullKey
<1>1. CASE d \in DisputesOffered
  BY <1>1, DisputesAssumption
<1>2. CASE d = NoDisputes
  <2>1. Range(<<>>) = {} /\ \A S : <<>> \in Seq(S)
    BY DEF Range
  <2> QED BY <1>2, <2>1 DEF NoDisputes
<1> QED BY <1>1, <1>2

\* The keys that a block adds to the offenders are those of its evidence.
LEMMA MarkFacts ==
    ASSUME NEW d \in DisputesOffered \cup {NoDisputes}
    PROVE  Range(offenders_mark(d)) = {c.key : c \in Range(d.culprits)}
                                        \cup {f.key : f \in Range(d.faults)}
<1> DEFINE s == [i \in DOMAIN d.culprits |-> d.culprits[i].key]
           t == [i \in DOMAIN d.faults |-> d.faults[i].key]
           S == Range(s) \cup Range(t)
<1>1. d.culprits \in Seq(Range(d.culprits)) /\ d.faults \in Seq(Range(d.faults))
  BY DisputesFacts
<1>2. /\ DOMAIN d.culprits = 1 .. Len(d.culprits) /\ Len(d.culprits) \in Nat
      /\ DOMAIN d.faults = 1 .. Len(d.faults) /\ Len(d.faults) \in Nat
  BY <1>1, LenProperties
<1>3. s \in [1 .. Len(d.culprits) -> S] /\ t \in [1 .. Len(d.faults) -> S]
  BY <1>2 DEF Range
<1>4. s \in Seq(S) /\ t \in Seq(S)
  <2> HIDE DEF s, t, S
  <2> QED BY <1>2, <1>3, SeqDef
<1>5. Range(s \o t) = Range(s) \cup Range(t)
  <2> HIDE DEF s, t, S
  <2> QED BY <1>4, RangeConcatenation
<1>6. Range(s) = {c.key : c \in Range(d.culprits)} /\ Range(t) = {f.key : f \in Range(d.faults)}
  BY DEF Range
<1> QED BY <1>5, <1>6 DEF offenders_mark

\* A report has at most one verdict in a block.
LEMMA OneVerdictInBlock ==
    ASSUME NEW d \in DisputesOffered \cup {NoDisputes}, Increasing(d.verdicts, "target"),
           NEW v \in Range(d.verdicts), NEW w \in Range(d.verdicts), v.target = w.target
    PROVE  v = w
<1> DEFINE s == d.verdicts
           n == Len(s)
           f == [i \in 1 .. n |-> s[i].target]
<1>1. /\ n \in Nat /\ DOMAIN s = 1 .. n
      /\ \A i \in 1 .. n : s[i].target \in Int
  <2> DEFINE T == [target : Int, age : Int, votes : Nat, positive : Nat,
                   sorted : BOOLEAN, signed : BOOLEAN]
  <2>1. s \in Seq(T)
    BY DisputesFacts
  <2>2. n \in Nat /\ DOMAIN s = 1 .. n /\ \A i \in 1 .. n : s[i] \in T
    <3> HIDE DEF s, T
    <3> QED BY <2>1
  <2> HIDE DEF s
  <2> QED BY <2>2
<1>2. \A i \in 1 .. n - 1 : s[i].target < s[i + 1].target
  BY DEF Increasing
<1>3. \A i \in 1 .. n : f[i] \in Int
  BY <1>1
<1>4. \A i \in 1 .. n - 1 : f[i] < f[i + 1]
  BY <1>1, <1>2
<1>5. \A i, j \in 1 .. n : i < j => f[i] < f[j]
  <2> HIDE DEF f, n
  <2> QED BY <1>1, <1>3, <1>4, Ascending
<1>6. PICK i \in 1 .. n : v = s[i]
  BY <1>1 DEF Range
<1>7. PICK j \in 1 .. n : w = s[j]
  BY <1>1 DEF Range
<1>8. f[i] = f[j] /\ f[i] \in Int
  BY <1>3, <1>6, <1>7
<1>9. ~(i < j) /\ ~(j < i)
  <2> HIDE DEF f
  <2> QED BY <1>3, <1>5, <1>8
<1> QED BY <1>1, <1>6, <1>7, <1>9

\* A block leaves old verdicts alone, adds at most one for a report without, and adds
\* offenders that are members of the two validator sets it may hold to account.
LEMMA DisputesStep ==
    ASSUME ConsensusInvariant, NEW b, Offered(b)
    PROVE  LET psi  == working_state.disputes
               next == next_disputes(b.disputes, psi)
           IN  /\ psi.good \subseteq next.good
               /\ psi.bad \subseteq next.bad
               /\ psi.wonky \subseteq next.wonky
               /\ next.good \cap next.bad = {}
               /\ (next.good \cup next.bad) \cap next.wonky = {}
               /\ psi.offenders \subseteq next.offenders
               /\ next.offenders \ psi.offenders \subseteq
                     Range(working_state.validator_pool) \cup Range(working_state.validator_archive)
               /\ NullKey \notin next.offenders
<1> DEFINE d == b.disputes
           psi == working_state.disputes
           next == next_disputes(d, psi)
           V == Range(d.verdicts)
           good == {v.target : v \in {w \in V : is_good(w)}}
           bad == {v.target : v \in {w \in V : ~is_good(w) /\ is_bad(w)}}
           wonky == {v.target : v \in {w \in V : ~is_good(w) /\ ~is_bad(w)}}
<1>1. /\ d \in DisputesOffered \cup {NoDisputes}
      /\ validate_extrinsic_disputes(d, epoch_number(working_state.timeslot),
                                     working_state.validator_pool, working_state.validator_archive)
      /\ disputes_accepted(d, psi)
  BY DEF Offered, TransitionAccepts
<1>2. /\ next.good = psi.good \cup good
      /\ next.bad = psi.bad \cup bad
      /\ next.wonky = psi.wonky \cup wonky
      /\ next.offenders = psi.offenders \cup Range(offenders_mark(d))
  BY DEF next_disputes, Judged
<1>3. /\ Increasing(d.verdicts, "target")
      /\ \A v \in V : v.target \notin psi.good \cup psi.bad \cup psi.wonky
      /\ \A c \in Range(d.culprits) : c.signed
      /\ \A f \in Range(d.faults) : f.signed
  BY <1>1 DEF disputes_accepted, VerdictAccepted, is_already_judged
<1>4. \A v, w \in V : v.target = w.target => v = w
  BY <1>1, <1>3, OneVerdictInBlock
<1>5. /\ good \cap bad = {} /\ (good \cup bad) \cap wonky = {}
      /\ (good \cup bad \cup wonky) \cap (psi.good \cup psi.bad \cup psi.wonky) = {}
  BY <1>3, <1>4
<1>6. psi.good \cap psi.bad = {} /\ (psi.good \cup psi.bad) \cap psi.wonky = {}
  BY DEF ConsensusInvariant, OneVerdictEach
<1>7. Range(offenders_mark(d)) \subseteq
        (Range(working_state.validator_pool) \cup Range(working_state.validator_archive)) \ {NullKey}
  <2>1. \A c \in Range(d.culprits) : /\ c.key # NullKey
                                     /\ c.key \in Range(working_state.validator_pool)
                                                   \cup Range(working_state.validator_archive)
    BY <1>1, <1>3, DisputesFacts DEF validate_extrinsic_disputes
  <2>2. \A f \in Range(d.faults) : /\ f.key # NullKey
                                   /\ f.key \in Range(working_state.validator_pool)
                                                 \cup Range(working_state.validator_archive)
    BY <1>1, <1>3, DisputesFacts DEF validate_extrinsic_disputes
  <2>3. Range(offenders_mark(d)) = {c.key : c \in Range(d.culprits)}
                                     \cup {f.key : f \in Range(d.faults)}
    BY <1>1, MarkFacts
  <2> QED BY <2>1, <2>2, <2>3
<1>8. NullKey \notin psi.offenders
  BY DEF ConsensusInvariant, OffendersAreDated
<1> HIDE DEF d, psi, next, good, bad, wonky
<1>9. /\ next.good \cap next.bad = {}
      /\ (next.good \cup next.bad) \cap next.wonky = {}
  BY <1>2, <1>5, <1>6
<1>10. /\ psi.good \subseteq next.good /\ psi.bad \subseteq next.bad /\ psi.wonky \subseteq next.wonky
       /\ psi.offenders \subseteq next.offenders
       /\ NullKey \notin next.offenders
       /\ next.offenders \ psi.offenders \subseteq
             Range(working_state.validator_pool) \cup Range(working_state.validator_archive)
  BY <1>2, <1>7, <1>8
<1> QED BY <1>9, <1>10 DEF d, psi, next

-----------------------------------------------------------------------------
(* Offenders leave the validator sets. *)

\* check_offenders leaves no offender in the set.
LEMMA NoOffenderLeft ==
    ASSUME NEW vs, NEW S, NullKey \notin S
    PROVE  Range(check_offenders(vs, S)) \cap S = {}
  BY DEF check_offenders, Range

LEMMA RetirementStep ==
    ASSUME ConsensusInvariant, NEW b, Offered(b), Apply(b)
    PROVE  OffendersAreDated' /\ OffendersAreRetired'
<1> DEFINE s == working_state
           next == next_disputes(b.disputes, s.disputes).offenders
           change == is_epoch_change(s.timeslot, b.timeslot)
<1>1. /\ NullKey \notin next
      /\ s.disputes.offenders \subseteq next
      /\ DOMAIN judged_at = s.disputes.offenders
      /\ \A k \in DOMAIN judged_at : judged_at[k] \in Nat
  BY DisputesStep DEF ConsensusInvariant, OffendersAreDated
<1>2. /\ working_state'.disputes.offenders = next
      /\ working_state'.pending = IF change THEN check_offenders(s.validator_queue, next) ELSE s.pending
      /\ working_state'.validator_pool = IF change THEN s.pending ELSE s.validator_pool
  BY DEF Apply, Transitioned, NextPending, NextPool, next_validators
<1>3. judged_at' = [k \in next |-> IF k \in DOMAIN judged_at
                                    THEN IF change THEN judged_at[k] + 1 ELSE judged_at[k]
                                    ELSE IF change THEN 1 ELSE 0]
  <2>1. CASE change
    BY <2>1, Zenon DEF Apply
  <2>2. CASE ~change
    BY <2>2, Zenon DEF Apply
  <2> QED BY <2>1, <2>2
<1>4. \A k \in DOMAIN judged_at : /\ judged_at[k] >= 1 => k \notin Range(s.pending)
                                  /\ judged_at[k] >= 2 => k \notin Range(s.validator_pool)
  BY DEF ConsensusInvariant, OffendersAreRetired
<1> HIDE DEF next, change
<1>5. OffendersAreDated'
  <2>1. DOMAIN judged_at' = next
    BY <1>3
  <2>2. \A k \in next : judged_at'[k] \in Nat
    BY <1>1, <1>3
  <2> QED BY <1>1, <1>2, <2>1, <2>2 DEF OffendersAreDated
<1>6. ASSUME NEW k \in next
      PROVE  /\ judged_at'[k] >= 1 => k \notin Range(working_state'.pending)
             /\ judged_at'[k] >= 2 => k \notin Range(working_state'.validator_pool)
  <2>1. CASE change
    <3>1. k \notin Range(working_state'.pending)
      BY <1>1, <1>2, <2>1, NoOffenderLeft
    <3>2. judged_at'[k] >= 2 => k \in DOMAIN judged_at /\ judged_at[k] >= 1
      BY <1>1, <1>3, <2>1
    <3> QED BY <1>2, <1>4, <2>1, <3>1, <3>2
  <2>2. CASE ~change
    <3>1. judged_at'[k] >= 1 => k \in DOMAIN judged_at /\ judged_at'[k] = judged_at[k]
      BY <1>3, <2>2
    <3>2. judged_at'[k] >= 2 => judged_at'[k] >= 1
      BY <1>1, <1>3, <2>2
    <3> QED BY <1>2, <1>4, <2>2, <3>1, <3>2
  <2> QED BY <2>1, <2>2
<1>7. OffendersAreRetired'
  <2>1. DOMAIN judged_at' = next
    BY <1>3
  <2> QED BY <1>6, <2>1 DEF OffendersAreRetired
<1> QED BY <1>5, <1>7

-----------------------------------------------------------------------------
(* Rotations of guarantors. *)

LEMMA DivMod ==
    ASSUME NEW x \in Int, NEW n \in Nat \ {0}
    PROVE  x \div n \in Int /\ x % n \in 0 .. n - 1 /\ x = n * (x \div n) + (x % n)
  OBVIOUS

\* The quotient and the remainder are unique.
LEMMA DivisionIsUnique ==
    ASSUME NEW n \in Nat \ {0}, NEW p \in Int, NEW q \in Int,
           NEW r \in 0 .. n - 1, NEW s \in 0 .. n - 1, n * p + r = n * q + s
    PROVE  p = q /\ r = s
<1> DEFINE a == p - q
<1>1. a \in Int /\ n * a < n /\ -n < n * a
  <2>1. n * a = s - r
    OBVIOUS
  <2> QED BY <2>1
<1> HIDE DEF a
<1>2. ~(a >= 1)
  <2>1. a >= 1 => n * a >= n
    BY <1>1
  <2> QED BY <1>1, <2>1
<1>3. ~(a <= -1)
  <2>1. a <= -1 => n * a <= -n
    BY <1>1
  <2> QED BY <1>1, <2>1
<1>4. a = 0
  BY <1>1, <1>2, <1>3
<1> QED BY <1>4 DEF a

\* When an epoch has a whole number of rotations, the rotation that a slot is in tells
\* the epoch and the place of the rotation in it.
LEMMA RotationsNest ==
    ASSUME NEW x \in Int
    PROVE  LET count == EPOCH_TIMESLOTS \div ROTATION_PERIOD_CORE
               rotation == x \div ROTATION_PERIOD_CORE
           IN  /\ epoch_number(x) = rotation \div count
               /\ slot_phase_index(x) \div ROTATION_PERIOD_CORE = rotation % count
<1> DEFINE E == EPOCH_TIMESLOTS
           R == ROTATION_PERIOD_CORE
           k == E \div R
<1>1. E \in Nat \ {0} /\ R \in Nat \ {0} /\ E % R = 0
  BY SafroleAssumption
<1>2. k \in Nat \ {0} /\ E = k * R
  <2>1. k \in Int /\ E = R * k + (E % R)
    BY <1>1, DivMod
  <2> HIDE DEF k
  <2>2. E = k * R /\ k \in Int
    BY <1>1, <2>1
  <2>3. k > 0
    <3>1. k <= 0 => k * R <= 0
      BY <1>1, <2>2
    <3> QED BY <1>1, <2>2, <3>1
  <2> QED BY <2>2, <2>3
<1> HIDE DEF E, R, k
<1> DEFINE q == x \div R
           r == x % R
           p == q \div k
           s == q % k
<1>3. q \in Int /\ r \in 0 .. R - 1 /\ x = R * q + r
  BY <1>1, DivMod
<1>4. p \in Int /\ s \in 0 .. k - 1 /\ q = k * p + s
  BY <1>2, <1>3, DivMod
<1> HIDE DEF q, r, p, s
<1> DEFINE t == R * s + r
<1>5. x = E * p + t
  BY <1>1, <1>2, <1>3, <1>4
<1>6. t \in 0 .. E - 1
  <2>1. R * s >= 0 /\ R * s <= R * (k - 1)
    BY <1>1, <1>2, <1>4
  <2> QED BY <1>1, <1>2, <1>3, <1>4, <2>1
<1>7. x \div E \in Int /\ x % E \in 0 .. E - 1 /\ x = E * (x \div E) + (x % E)
  BY <1>1, DivMod
<1>8. x \div E = p /\ x % E = t
  <2> HIDE DEF t
  <2> QED BY <1>1, <1>4, <1>5, <1>6, <1>7, DivisionIsUnique
<1>9. t \div R = s
  <2>1. t \in Int
    BY <1>6
  <2>2. t \div R \in Int /\ t % R \in 0 .. R - 1 /\ t = R * (t \div R) + (t % R)
    BY <1>1, <2>1, DivMod
  <2>3. s \in Int /\ t = R * s + r
    BY <1>4
  <2> HIDE DEF t
  <2> QED BY <1>1, <1>3, <2>2, <2>3, DivisionIsUnique
<1> QED BY <1>8, <1>9 DEF E, R, k, q, p, s, epoch_number, slot_phase_index

\* Slots of one rotation are in one epoch, at the same rotation of it.
LEMMA SameRotation ==
    ASSUME NEW x \in Int, NEW y \in Int,
           x \div ROTATION_PERIOD_CORE = y \div ROTATION_PERIOD_CORE
    PROVE  /\ epoch_number(x) = epoch_number(y)
           /\ slot_phase_index(x) \div ROTATION_PERIOD_CORE
                = slot_phase_index(y) \div ROTATION_PERIOD_CORE
  BY RotationsNest

\* A slot one period earlier is in the rotation before.
LEMMA PreviousRotation ==
    ASSUME NEW x \in Int
    PROVE  /\ x - ROTATION_PERIOD_CORE \in Int
           /\ (x - ROTATION_PERIOD_CORE) \div ROTATION_PERIOD_CORE
                = (x \div ROTATION_PERIOD_CORE) - 1
<1> DEFINE R == ROTATION_PERIOD_CORE
           q == x \div R
           y == x - R
<1>1. R \in Nat \ {0}
  BY SafroleAssumption
<1> HIDE DEF R
<1>2. q \in Int /\ x % R \in 0 .. R - 1 /\ x = R * q + (x % R)
  BY <1>1, DivMod
<1> HIDE DEF q
<1>3. y \in Int /\ y = R * (q - 1) + (x % R)
  BY <1>1, <1>2
<1> HIDE DEF y
<1>4. y \div R \in Int /\ y % R \in 0 .. R - 1 /\ y = R * (y \div R) + (y % R)
  BY <1>1, <1>3, DivMod
<1>5. q - 1 \in Int
  BY <1>2
<1>6. y \div R = q - 1
  BY <1>1, <1>2, <1>3, <1>4, <1>5, DivisionIsUnique
<1> QED BY <1>3, <1>6 DEF R, q, y

\* Entropies are shifted by the first block of an epoch, and otherwise only the newest
\* changes.
LEMMA EntropyFacts ==
    ASSUME NEW S, NEW e \in Seq(S), Len(e) = 4, NEW pre, NEW slot \in S
    PROVE  LET next == next_entropy(pre, slot, e)
           IN  /\ next \in Seq(S) /\ Len(next) = 4
               /\ is_epoch_change(pre, slot) => next[4] = e[3]
               /\ ~is_epoch_change(pre, slot) => next[3] = e[3] /\ next[4] = e[4]
<1> DEFINE rest == IF is_epoch_change(pre, slot) THEN SubSeq(e, 1, 3) ELSE Tail(e)
<1>1. /\ rest \in Seq(S) /\ Len(rest) = 3
      /\ is_epoch_change(pre, slot) => rest[3] = e[3]
      /\ ~is_epoch_change(pre, slot) => rest[2] = e[3] /\ rest[3] = e[4]
  <2>1. CASE is_epoch_change(pre, slot)
    <3>1. \A i \in 1 .. 3 : e[i] \in S
      OBVIOUS
    <3>2. /\ SubSeq(e, 1, 3) \in Seq(S) /\ Len(SubSeq(e, 1, 3)) = 3
          /\ SubSeq(e, 1, 3)[3] = e[3]
      BY <3>1, SubSeqProperties
    <3> QED BY <2>1, <3>2
  <2>2. CASE ~is_epoch_change(pre, slot)
    <3>1. e # <<>>
      <4>1. Len(<<>>) = 0 /\ 4 # 0
        BY EmptySeq
      <4> QED BY <4>1
    <3>2. /\ Tail(e) \in Seq(S) /\ Len(Tail(e)) = Len(e) - 1
          /\ \A i \in 1 .. Len(Tail(e)) : Tail(e)[i] = e[i + 1]
      BY <3>1, HeadTailProperties
    <3>3. Len(Tail(e)) = 3
      BY <3>2
    <3>4. Tail(e)[2] = e[2 + 1] /\ Tail(e)[3] = e[3 + 1]
      <4>0. 2 \in 1 .. 3 /\ 3 \in 1 .. 3
        OBVIOUS
      <4>1. 2 \in 1 .. Len(Tail(e)) /\ 3 \in 1 .. Len(Tail(e))
        BY <3>3, <4>0, Zenon
      <4> QED BY <3>2, <4>1
    <3>5. rest = Tail(e) /\ 2 + 1 = 3 /\ 3 + 1 = 4
      BY <2>2
    <3> HIDE DEF rest
    <3> QED BY <2>2, <3>2, <3>3, <3>4, <3>5, Zenon
  <2> QED BY <2>1, <2>2
<1> HIDE DEF rest
<1>2. <<slot>> \in Seq(S) /\ Len(<<slot>>) = 1
  OBVIOUS
<1>3. /\ <<slot>> \o rest \in Seq(S) /\ Len(<<slot>> \o rest) = 4
      /\ (<<slot>> \o rest)[4] = rest[3]
      /\ (<<slot>> \o rest)[3] = rest[2]
  <2> DEFINE one == <<slot>>
  <2> HIDE DEF one
  <2>1. /\ one \o rest \in Seq(S) /\ Len(one \o rest) = Len(one) + Len(rest)
        /\ \A i \in 1 .. Len(one) + Len(rest) :
              (one \o rest)[i] = IF i <= Len(one) THEN one[i] ELSE rest[i - Len(one)]
    BY <1>1, <1>2, ConcatProperties DEF one
  <2>2. Len(one) = 1 /\ Len(rest) = 3
    BY <1>1, <1>2 DEF one
  <2>3. 3 \in 1 .. Len(one) + Len(rest) /\ 4 \in 1 .. Len(one) + Len(rest)
    BY <2>2
  <2> QED BY <2>1, <2>2, <2>3 DEF one
<1>4. next_entropy(pre, slot, e) = <<slot>> \o rest
  BY DEF next_entropy, rest
<1> QED BY <1>1, <1>3, <1>4

\* The block's guarantors of the previous rotation are the guarantors that the block
\* before it had in that rotation.
LEMMA GuarantorsStep ==
    ASSUME ConsensusInvariant, NEW b, Offered(b), Apply(b),
           (working_state.timeslot \div ROTATION_PERIOD_CORE) + 1
              = b.timeslot \div ROTATION_PERIOD_CORE
    PROVE  LET s == working_state
               t == working_state'
           IN  prev_guarantor_assignments(t.timeslot, t.entropy, t.validator_pool, t.validator_archive)
                 = guarantor_assignments(s.timeslot, s.entropy, s.validator_pool)
<1> DEFINE s == working_state
           t == working_state'
           before == b.timeslot - ROTATION_PERIOD_CORE
           change == is_epoch_change(s.timeslot, b.timeslot)
<1>1. /\ s.timeslot \in Nat /\ b.timeslot \in Nat
      /\ s.entropy \in Seq(Int) /\ Len(s.entropy) = 4
  BY DEF Offered, ConsensusInvariant, SlotsAndEntropies
<1>2. /\ t.timeslot = b.timeslot
      /\ t.entropy = next_entropy(s.timeslot, b.timeslot, s.entropy)
      /\ t.validator_pool = IF change THEN s.pending ELSE s.validator_pool
      /\ t.validator_archive = IF change THEN s.validator_pool ELSE s.validator_archive
  BY DEF Apply, Transitioned, NextPool, next_validators
<1>3. /\ change => t.entropy[4] = s.entropy[3]
      /\ ~change => t.entropy[3] = s.entropy[3]
  <2> DEFINE e == s.entropy
             pre == s.timeslot
             slot == b.timeslot
             next == next_entropy(pre, slot, e)
  <2>1. e \in Seq(Int) /\ Len(e) = 4 /\ slot \in Int
    BY <1>1
  <2>2. t.entropy = next /\ change = is_epoch_change(pre, slot)
    BY <1>2
  <2> HIDE DEF e, pre, slot
  <2>3. /\ is_epoch_change(pre, slot) => next[4] = e[3]
        /\ ~is_epoch_change(pre, slot) => next[3] = e[3]
    BY ONLY <2>1, EntropyFacts
  <2> HIDE DEF next, change, t, s
  <2>4. /\ change => t.entropy[4] = e[3]
        /\ ~change => t.entropy[3] = e[3]
    BY ONLY <2>2, <2>3
  <2> QED BY <2>4 DEF e, s, t
<1>4. before \in Int /\ before \div ROTATION_PERIOD_CORE = s.timeslot \div ROTATION_PERIOD_CORE
  <2>1. /\ before \in Int
        /\ before \div ROTATION_PERIOD_CORE = (b.timeslot \div ROTATION_PERIOD_CORE) - 1
    BY <1>1, PreviousRotation
  <2>2. s.timeslot \div ROTATION_PERIOD_CORE \in Int
    <3>1. s.timeslot \in Int /\ ROTATION_PERIOD_CORE \in Nat \ {0}
      BY <1>1, SafroleAssumption
    <3> QED BY <3>1, DivMod
  <2> QED BY <2>1, <2>2
<1>5. /\ epoch_number(before) = epoch_number(s.timeslot)
      /\ slot_phase_index(before) \div ROTATION_PERIOD_CORE
           = slot_phase_index(s.timeslot) \div ROTATION_PERIOD_CORE
  BY <1>1, <1>4, SameRotation
<1>6. change <=> epoch_number(before) # epoch_number(b.timeslot)
  BY <1>5 DEF is_epoch_change
<1> HIDE DEF change
<1> QED BY <1>2, <1>3, <1>5, <1>6
        DEF prev_guarantor_assignments, guarantor_assignments, Rotation

-----------------------------------------------------------------------------
(* The invariant and the theorems. *)

LEMMA SlotsStep ==
    ASSUME ConsensusInvariant, [Next]_vars
    PROVE  SlotsAndEntropies'
<1>1. /\ working_state'.timeslot \in Nat
      /\ working_state'.entropy \in Seq(Int)
      /\ Len(working_state'.entropy) = 4
  <2>1. CASE UNCHANGED <<working_state, announced, judged_at>>
    BY <2>1 DEF ConsensusInvariant, SlotsAndEntropies
  <2>2. ASSUME NEW b, Offered(b), Apply(b)
        PROVE  /\ working_state'.timeslot \in Nat
               /\ working_state'.entropy \in Seq(Int)
               /\ Len(working_state'.entropy) = 4
    <3>1. /\ working_state'.timeslot = b.timeslot
          /\ working_state'.entropy
               = next_entropy(working_state.timeslot, b.timeslot, working_state.entropy)
      BY <2>2 DEF Apply, Transitioned
    <3>2. b.timeslot \in Nat /\ b.timeslot \in Int
      BY <2>2 DEF Offered
    <3>3. working_state.entropy \in Seq(Int) /\ Len(working_state.entropy) = 4
      BY DEF ConsensusInvariant, SlotsAndEntropies
    <3> QED BY <3>1, <3>2, <3>3, EntropyFacts
  <2> QED BY <2>1, <2>2, BlockOrNothing
<1>2. current_timeslot' \in Nat /\ timeslot_queue' \in Seq(Nat)
  <2>0. current_timeslot \in Nat /\ timeslot_queue \in Seq(Nat)
    BY DEF ConsensusInvariant, SlotsAndEntropies
  <2>1. CASE NotifyTimeslot
    BY <2>0, <2>1 DEF NotifyTimeslot
  <2>2. CASE ImportBlock
    BY <2>0, <2>2 DEF ImportBlock
  <2>3. CASE Wait
    <3>1. /\ timeslot_queue # <<>> /\ timeslot_queue' = Tail(timeslot_queue)
          /\ current_timeslot' = current_timeslot
      BY <2>3 DEF Wait
    <3> QED BY <2>0, <3>1
  <2>4. CASE ProduceBlock
    <3>1. /\ timeslot_queue # <<>> /\ timeslot_queue' = Tail(timeslot_queue)
          /\ current_timeslot' = current_timeslot
      BY <2>4 DEF ProduceBlock
    <3> QED BY <2>0, <3>1
  <2>5. CASE DiscardBlock
    <3>1. /\ timeslot_queue # <<>> /\ timeslot_queue' = Tail(timeslot_queue)
          /\ current_timeslot' = current_timeslot
      BY <2>5 DEF DiscardBlock
    <3> QED BY <2>0, <3>1
  <2>6. CASE UNCHANGED vars
    BY <2>0, <2>6 DEF vars
  <2> QED BY <2>1, <2>2, <2>3, <2>4, <2>5, <2>6 DEF Next
<1> QED BY <1>1, <1>2 DEF SlotsAndEntropies

LEMMA ConsensusStep == ConsensusInvariant /\ [Next]_vars => ConsensusInvariant'
<1> SUFFICES ASSUME ConsensusInvariant, [Next]_vars PROVE ConsensusInvariant'
  OBVIOUS
<1>1. SlotsAndEntropies'
  BY SlotsStep
<1>2. CASE UNCHANGED <<working_state, announced, judged_at>>
  BY <1>1, <1>2 DEF ConsensusInvariant, OneVerdictEach, OffendersAreDated, OffendersAreRetired
<1>3. ASSUME NEW b, Offered(b), Apply(b) PROVE ConsensusInvariant'
  <2>1. OneVerdictEach'
    <3>1. working_state'.disputes = next_disputes(b.disputes, working_state.disputes)
      BY <1>3 DEF Apply, Transitioned
    <3> QED BY <1>3, <3>1, DisputesStep DEF OneVerdictEach
  <2>2. OffendersAreDated' /\ OffendersAreRetired'
    BY <1>3, RetirementStep
  <2> QED BY <1>1, <2>1, <2>2 DEF ConsensusInvariant
<1> QED BY <1>2, <1>3, BlockOrNothing

\* The inductive invariant of the consensus state.
THEOREM ConsensusInvariantHolds == Spec => []ConsensusInvariant
  BY ConsensusInit, ConsensusStep, PTL DEF Spec

\* However many blocks, skipped epochs and designations lie between: a validator that
\* was reported is out of the pending set after one change of epoch and out of the
\* active set after two (check_offenders).
THEOREM OffendersRetire == Spec => []OffendersAreRetired
<1>1. ConsensusInvariant => OffendersAreRetired
  BY DEF ConsensusInvariant
<1> QED BY <1>1, ConsensusInvariantHolds, PTL

\* No sequence of blocks changes a verdict, gives a report a second one, or punishes a
\* key outside the two validator sets a block may hold to account.
THEOREM VerdictsStay == Spec => VerdictsAreFinal
<1> DEFINE Final ==
      LET psi == working_state.disputes
          next == working_state'.disputes
      IN  /\ psi.good \subseteq next.good /\ psi.bad \subseteq next.bad /\ psi.wonky \subseteq next.wonky
          /\ next.good \cap next.bad = {} /\ (next.good \cup next.bad) \cap next.wonky = {}
          /\ psi.offenders \subseteq next.offenders
          /\ next.offenders \ psi.offenders \subseteq
                Range(working_state.validator_pool) \cup Range(working_state.validator_archive)
<1>1. ConsensusInvariant /\ [Next]_vars => [Final]_vars
  <2> SUFFICES ASSUME ConsensusInvariant, [Next]_vars PROVE Final
    OBVIOUS
  <2>1. CASE UNCHANGED <<working_state, announced, judged_at>>
    BY <2>1 DEF ConsensusInvariant, OneVerdictEach
  <2>2. ASSUME NEW b, Offered(b), Apply(b) PROVE Final
    <3>1. working_state'.disputes = next_disputes(b.disputes, working_state.disputes)
      BY <2>2 DEF Apply, Transitioned
    <3> QED BY <2>2, <3>1, DisputesStep
  <2> QED BY <2>1, <2>2, BlockOrNothing
<1> QED BY <1>1, ConsensusInvariantHolds, PTL DEF Spec, VerdictsAreFinal

\* The guarantors a block takes for those of the previous rotation are the ones the
\* block before it had, whatever happened to the validator sets and entropies between.
THEOREM GuarantorsAreKnown == Spec => PreviousGuarantorsAreKnown
<1> DEFINE Known ==
      LET s == working_state
          t == working_state'
      IN  (s.timeslot \div ROTATION_PERIOD_CORE) + 1 = t.timeslot \div ROTATION_PERIOD_CORE =>
             prev_guarantor_assignments(t.timeslot, t.entropy, t.validator_pool, t.validator_archive)
                = guarantor_assignments(s.timeslot, s.entropy, s.validator_pool)
<1>1. ConsensusInvariant /\ [Next]_vars => [Known]_vars
  <2> SUFFICES ASSUME ConsensusInvariant, [Next]_vars PROVE Known
    OBVIOUS
  <2>1. CASE UNCHANGED <<working_state, announced, judged_at>>
    <3>1. working_state.timeslot \div ROTATION_PERIOD_CORE \in Int
      <4>1. working_state.timeslot \in Int /\ ROTATION_PERIOD_CORE \in Nat \ {0}
        BY SafroleAssumption DEF ConsensusInvariant, SlotsAndEntropies
      <4> QED BY <4>1, DivMod
    <3>2. working_state' = working_state
      BY <2>1
    <3>3. \A q \in Int : q + 1 # q
      OBVIOUS
    <3> QED BY <3>1, <3>2, <3>3
  <2>2. ASSUME NEW b, Offered(b), Apply(b) PROVE Known
    <3>1. working_state'.timeslot = b.timeslot
      BY <2>2 DEF Apply, Transitioned
    <3> QED BY <2>2, <3>1, GuarantorsStep
  <2> QED BY <2>1, <2>2, BlockOrNothing
<1> QED BY <1>1, ConsensusInvariantHolds, PTL DEF Spec, PreviousGuarantorsAreKnown

-----------------------------------------------------------------------------
(* The order of the contest. *)

\* Entries of r that a stable sort puts no later than entry i.
NoLater(n, r, i) == {j \in 1 .. n : r[j] < r[i] \/ (r[j] = r[i] /\ j <= i)}

LEMMA Comparable ==
    ASSUME NEW a \in Int, NEW b \in Int, NEW i \in Int, NEW j \in Int,
           ~(a < b \/ (a = b /\ i < j)), ~(b < a \/ (b = a /\ j < i))
    PROVE  i = j
  OBVIOUS

\* The places of a stable sort are the numbers from one to n, each once, and
\* follow the values.
LEMMA StablePlaces ==
    ASSUME NEW n \in Nat, NEW r \in [1 .. n -> Int]
    PROVE  /\ \A i \in 1 .. n : Cardinality(NoLater(n, r, i)) \in 1 .. n
           /\ \A i, j \in 1 .. n :
                 r[i] < r[j] \/ (r[i] = r[j] /\ i < j) =>
                    Cardinality(NoLater(n, r, i)) < Cardinality(NoLater(n, r, j))
           /\ \A k \in 1 .. n : \E i \in 1 .. n : Cardinality(NoLater(n, r, i)) = k
<1> DEFINE place(i) == Cardinality(NoLater(n, r, i))
<1>0. IsFiniteSet(1 .. n) /\ Cardinality(1 .. n) = n
  BY FS_Interval
<1>1. ASSUME NEW i \in 1 .. n
      PROVE  IsFiniteSet(NoLater(n, r, i)) /\ place(i) \in 1 .. n
  <2>1. NoLater(n, r, i) \in SUBSET (1 .. n) /\ i \in NoLater(n, r, i)
    BY DEF NoLater
  <2>2. IsFiniteSet(NoLater(n, r, i)) /\ Cardinality(NoLater(n, r, i)) <= n
    BY <1>0, <2>1, FS_Subset
  <2>3. Cardinality(NoLater(n, r, i)) \in Nat /\ Cardinality(NoLater(n, r, i)) # 0
    BY <2>1, <2>2, FS_CardinalityType, FS_EmptySet
  <2> QED BY <2>2, <2>3
<1>2. ASSUME NEW i \in 1 .. n, NEW j \in 1 .. n, r[i] < r[j] \/ (r[i] = r[j] /\ i < j)
      PROVE  place(i) < place(j)
  <2>1. NoLater(n, r, i) \in SUBSET NoLater(n, r, j)
    BY <1>2 DEF NoLater
  <2>2. j \in NoLater(n, r, j) /\ j \notin NoLater(n, r, i)
    BY <1>2 DEF NoLater
  <2>3. place(i) <= place(j) /\ place(i) # place(j)
    BY <1>1, <2>1, <2>2, FS_Subset
  <2>4. place(i) \in Nat /\ place(j) \in Nat
    BY <1>1
  <2> HIDE DEF place
  <2> QED BY <2>3, <2>4
<1> DEFINE f == [i \in 1 .. n |-> place(i)]
<1>3. f \in Injection(1 .. n, 1 .. n)
  <2>1. f \in [1 .. n -> 1 .. n]
    BY <1>1
  <2>2. ASSUME NEW i \in 1 .. n, NEW j \in 1 .. n, f[i] = f[j]
        PROVE  i = j
    <3>1. place(i) = place(j) /\ place(i) \in Nat /\ place(j) \in Nat
      BY <1>1, <2>2
    <3>2. ~(place(i) < place(j)) /\ ~(place(j) < place(i))
      BY <3>1
    <3>3. \A k, l \in 1 .. n : r[k] < r[l] \/ (r[k] = r[l] /\ k < l) => place(k) < place(l)
      BY <1>2
    <3>4. r[i] \in Int /\ r[j] \in Int /\ i \in Nat /\ j \in Nat
      OBVIOUS
    <3> HIDE DEF place
    <3>5. ~(r[i] < r[j] \/ (r[i] = r[j] /\ i < j)) /\ ~(r[j] < r[i] \/ (r[j] = r[i] /\ j < i))
      BY <3>2, <3>3, Zenon
    <3>6. i \in Int /\ j \in Int
      OBVIOUS
    <3> QED BY <3>4, <3>5, <3>6, Comparable
  <2>3. IsInjective(f)
    BY <2>2 DEF IsInjective
  <2> HIDE DEF f
  <2> QED BY <2>1, <2>3 DEF Injection
<1>4. f \in Surjection(1 .. n, 1 .. n)
  <2> HIDE DEF f
  <2> QED BY <1>0, <1>3, FS_Injection
<1>5. \A k \in 1 .. n : \E i \in 1 .. n : f[i] = k
  BY <1>4 DEF Surjection
<1> QED BY <1>1, <1>2, <1>5

\* sorted() rearranges the tickets by rank.
LEMMA SortedFacts ==
    ASSUME NEW bodies \in Seq(Ticket)
    PROVE  \E f \in [1 .. Len(bodies) -> 1 .. Len(bodies)] :
              /\ Sorted(bodies) = [k \in 1 .. Len(bodies) |-> bodies[f[k]]]
              /\ \A k \in 1 .. Len(bodies) : Place(bodies, f[k]) = k
              /\ \A i \in 1 .. Len(bodies) :
                    Place(bodies, i) \in 1 .. Len(bodies) /\ f[Place(bodies, i)] = i
              /\ \A i, j \in 1 .. Len(bodies) :
                    Rank(bodies[i]) < Rank(bodies[j]) \/ (Rank(bodies[i]) = Rank(bodies[j]) /\ i < j) =>
                       Place(bodies, i) < Place(bodies, j)
<1> DEFINE n == Len(bodies)
           r == [i \in 1 .. n |-> Rank(bodies[i])]
           f == [k \in 1 .. n |-> CHOOSE i \in 1 .. n : Place(bodies, i) = k]
<1>1. n \in Nat /\ DOMAIN bodies = 1 .. n /\ \A i \in 1 .. n : bodies[i] \in Ticket
  OBVIOUS
<1>2. r \in [1 .. n -> Int]
  BY <1>1, HashesAssumption
<1>3. ASSUME NEW i \in 1 .. n PROVE Place(bodies, i) = Cardinality(NoLater(n, r, i))
  <2>0. \A j \in 1 .. n : r[j] = Rank(bodies[j])
    OBVIOUS
  <2>1. NoLater(n, r, i) = {j \in DOMAIN bodies :
                              \/ Rank(bodies[j]) < Rank(bodies[i])
                              \/ (Rank(bodies[j]) = Rank(bodies[i]) /\ j <= i)}
    <3> HIDE DEF r, n
    <3>1. NoLater(n, r, i) = {j \in 1 .. n : r[j] < r[i] \/ (r[j] = r[i] /\ j <= i)}
      BY DEF NoLater
    <3>2. \A j \in 1 .. n : (r[j] < r[i] \/ (r[j] = r[i] /\ j <= i))
             <=> (Rank(bodies[j]) < Rank(bodies[i]) \/ (Rank(bodies[j]) = Rank(bodies[i]) /\ j <= i))
      BY <2>0, Zenon
    <3> QED BY <1>1, <3>1, <3>2, Zenon
  <2> QED BY <2>1 DEF Place
<1>4. /\ \A i \in 1 .. n : Place(bodies, i) \in 1 .. n
      /\ \A i, j \in 1 .. n :
            Rank(bodies[i]) < Rank(bodies[j]) \/ (Rank(bodies[i]) = Rank(bodies[j]) /\ i < j) =>
               Place(bodies, i) < Place(bodies, j)
      /\ \A k \in 1 .. n : \E i \in 1 .. n : Place(bodies, i) = k
  <2> HIDE DEF n
  <2>1. /\ \A i \in 1 .. n : Cardinality(NoLater(n, r, i)) \in 1 .. n
        /\ \A i, j \in 1 .. n :
              r[i] < r[j] \/ (r[i] = r[j] /\ i < j) =>
                 Cardinality(NoLater(n, r, i)) < Cardinality(NoLater(n, r, j))
        /\ \A k \in 1 .. n : \E i \in 1 .. n : Cardinality(NoLater(n, r, i)) = k
    <3> HIDE DEF r
    <3> QED BY <1>1, <1>2, StablePlaces
  <2>2. \A i \in 1 .. n : r[i] = Rank(bodies[i])
    OBVIOUS
  <2> HIDE DEF r
  <2> QED BY <1>3, <2>1, <2>2
<1>5. f \in [1 .. n -> 1 .. n] /\ \A k \in 1 .. n : Place(bodies, f[k]) = k
  BY <1>4
<1>6. \A i, j \in 1 .. n : Place(bodies, i) = Place(bodies, j) => i = j
  <2> HIDE DEF n, f, r
  <2> SUFFICES ASSUME NEW i \in 1 .. n, NEW j \in 1 .. n, Place(bodies, i) = Place(bodies, j)
               PROVE  i = j
    OBVIOUS
  <2>0. \A p \in 1 .. n : ~(p < p)
    BY <1>1
  <2>1. ~(Place(bodies, i) < Place(bodies, j)) /\ ~(Place(bodies, j) < Place(bodies, i))
    BY <1>4, <2>0, Zenon
  <2>2. Rank(bodies[i]) \in Int /\ Rank(bodies[j]) \in Int /\ i \in Int /\ j \in Int
    BY <1>1, HashesAssumption
  <2>3. /\ ~(Rank(bodies[i]) < Rank(bodies[j]) \/ (Rank(bodies[i]) = Rank(bodies[j]) /\ i < j))
        /\ ~(Rank(bodies[j]) < Rank(bodies[i]) \/ (Rank(bodies[j]) = Rank(bodies[i]) /\ j < i))
    BY <1>4, <2>1, Zenon
  <2> QED BY <2>2, <2>3, Comparable
<1>7. \A i \in 1 .. n : f[Place(bodies, i)] = i
  <2> HIDE DEF f
  <2> QED BY <1>4, <1>5, <1>6
<1>8. Sorted(bodies) = [k \in 1 .. n |-> bodies[f[k]]]
  BY <1>1 DEF Sorted
<1> HIDE DEF f
<1> QED BY <1>4, <1>5, <1>7, <1>8, Zenon

\* The contest keeps the lowest tickets in their order: as many as there are, or an
\* epoch full, and what is left out is beaten by all that stay.
LEMMA LowestFacts ==
    ASSUME NEW bodies \in Seq(Ticket)
    PROVE  LET m == IF Len(bodies) < EPOCH_TIMESLOTS THEN Len(bodies) ELSE EPOCH_TIMESLOTS
               kept == Lowest(bodies)
           IN  /\ kept \in Seq(Ticket) /\ Len(kept) = m
               /\ \A k \in 1 .. m : \E i \in 1 .. Len(bodies) : kept[k] = bodies[i]
               /\ \A k, l \in 1 .. m : k < l => Rank(kept[k]) <= Rank(kept[l])
               /\ IsInjective(bodies) => IsInjective(kept)
               /\ \A i \in 1 .. Len(bodies) :
                     \/ \E k \in 1 .. m : kept[k] = bodies[i]
                     \/ m = EPOCH_TIMESLOTS /\ \A k \in 1 .. m : Rank(kept[k]) <= Rank(bodies[i])
<1> DEFINE n == Len(bodies)
           m == IF n < EPOCH_TIMESLOTS THEN n ELSE EPOCH_TIMESLOTS
           kept == Lowest(bodies)
<1>1. /\ n \in Nat /\ m \in Nat /\ m <= n
      /\ DOMAIN bodies = 1 .. n /\ \A i \in 1 .. n : bodies[i] \in Ticket /\ Rank(bodies[i]) \in Int
  BY SafroleAssumption, HashesAssumption
<1>2. PICK f \in [1 .. n -> 1 .. n] :
         /\ Sorted(bodies) = [k \in 1 .. n |-> bodies[f[k]]]
         /\ \A k \in 1 .. n : Place(bodies, f[k]) = k
         /\ \A i \in 1 .. n : Place(bodies, i) \in 1 .. n /\ f[Place(bodies, i)] = i
         /\ \A i, j \in 1 .. n :
               Rank(bodies[i]) < Rank(bodies[j]) \/ (Rank(bodies[i]) = Rank(bodies[j]) /\ i < j) =>
                  Place(bodies, i) < Place(bodies, j)
  BY SortedFacts
<1>0. n < EPOCH_TIMESLOTS => m = n
  OBVIOUS
<1>10. ~(n < EPOCH_TIMESLOTS) => m = EPOCH_TIMESLOTS
  OBVIOUS
<1>3. Sorted(bodies) \in Seq(Ticket) /\ Len(Sorted(bodies)) = n
  BY <1>1, <1>2
<1>4. /\ kept \in Seq(Ticket) /\ Len(kept) = m /\ DOMAIN kept = 1 .. m
      /\ \A k \in 1 .. m : kept[k] = bodies[f[k]] /\ f[k] \in 1 .. n
  <2>0. kept = SubSeq(Sorted(bodies), 1, m)
    BY DEF Lowest
  <2> HIDE DEF n, m, kept
  <2>1. kept = [k \in 1 .. m |-> Sorted(bodies)[k]]
    BY <1>1, <1>3, <2>0
  <2>2. \A k \in 1 .. m : k \in 1 .. n /\ kept[k] = bodies[f[k]] /\ f[k] \in 1 .. n
    BY <1>1, <1>2, <2>1
  <2>3. kept \in Seq(Ticket) /\ Len(kept) = m
    BY <1>1, <2>1, <2>2
  <2> QED BY <2>1, <2>2, <2>3
<1> HIDE DEF kept, n, m
<1>5. ASSUME NEW k \in 1 .. n, NEW l \in 1 .. n, k < l
      PROVE  Rank(bodies[f[k]]) <= Rank(bodies[f[l]])
  <2>1. f[k] \in 1 .. n /\ f[l] \in 1 .. n /\ Place(bodies, f[k]) = k /\ Place(bodies, f[l]) = l
    BY <1>2
  <2>2. ~(Rank(bodies[f[l]]) < Rank(bodies[f[k]]))
    <3>1. ~(l < k)
      BY <1>5
    <3>2. Rank(bodies[f[l]]) < Rank(bodies[f[k]])
             => Place(bodies, f[l]) < Place(bodies, f[k])
      BY <1>2, <2>1, Zenon
    <3> QED BY <2>1, <3>1, <3>2
  <2>3. Rank(bodies[f[k]]) \in Int /\ Rank(bodies[f[l]]) \in Int
    BY <1>1, <2>1
  <2> QED BY <2>2, <2>3
<1>6. \A k, l \in 1 .. m : k < l => Rank(kept[k]) <= Rank(kept[l])
  <2> SUFFICES ASSUME NEW k \in 1 .. m, NEW l \in 1 .. m, k < l
               PROVE  Rank(kept[k]) <= Rank(kept[l])
    OBVIOUS
  <2>1. k \in 1 .. n /\ l \in 1 .. n
    BY <1>1
  <2>2. kept[k] = bodies[f[k]] /\ kept[l] = bodies[f[l]]
    BY <1>4, Zenon
  <2>3. Rank(bodies[f[k]]) <= Rank(bodies[f[l]])
    BY <1>5, <2>1, Zenon
  <2> QED BY <2>2, <2>3, Zenon
<1>7. IsInjective(bodies) => IsInjective(kept)
  <2> SUFFICES ASSUME IsInjective(bodies), NEW k \in 1 .. m, NEW l \in 1 .. m, kept[k] = kept[l]
               PROVE  k = l
    BY <1>4 DEF IsInjective
  <2>1. f[k] = f[l]
    <3>1. f[k] \in DOMAIN bodies /\ f[l] \in DOMAIN bodies /\ bodies[f[k]] = bodies[f[l]]
      BY <1>1, <1>4, Zenon
    <3> QED BY <3>1, Zenon DEF IsInjective
  <2>2. k \in 1 .. n /\ l \in 1 .. n
    BY <1>1
  <2> QED BY <1>2, <2>1, <2>2
<1>8. ASSUME NEW i \in 1 .. n, \A k \in 1 .. m : kept[k] # bodies[i]
      PROVE  m = EPOCH_TIMESLOTS /\ \A k \in 1 .. m : Rank(kept[k]) <= Rank(bodies[i])
  <2> DEFINE p == Place(bodies, i)
  <2>1. p \in 1 .. n /\ f[p] = i
    BY <1>2
  <2>2. p \notin 1 .. m
    BY <1>4, <1>8, <2>1
  <2>3. m < p /\ p \in Nat
    BY <1>1, <2>1, <2>2
  <2>4. m = EPOCH_TIMESLOTS
    BY <1>0, <1>10, <1>1, <2>1, <2>3
  <2>5. ASSUME NEW k \in 1 .. m PROVE Rank(kept[k]) <= Rank(bodies[i])
    <3>0. m \in Nat /\ n \in Nat /\ m <= n
      BY <1>1
    <3>1. k \in 1 .. n /\ k < p
      BY <2>3, <3>0
    <3> HIDE DEF p
    <3> QED BY <1>4, <1>5, <2>1, <3>1
  <2> QED BY <2>4, <2>5
<1>9. \A k \in 1 .. m : \E i \in 1 .. n : kept[k] = bodies[i]
  BY <1>4
<1> QED BY <1>4, <1>6, <1>7, <1>8, <1>9 DEF kept, n, m

\* A contest in order that is not too long stays as it is.
LEMMA LowestOfOrdered ==
    ASSUME NEW bodies \in Seq(Ticket), Len(bodies) <= EPOCH_TIMESLOTS,
           \A i, j \in 1 .. Len(bodies) : i < j => Rank(bodies[i]) <= Rank(bodies[j])
    PROVE  Lowest(bodies) = bodies
<1> DEFINE n == Len(bodies)
<1>1. /\ n \in Nat /\ DOMAIN bodies = 1 .. n
      /\ \A i \in 1 .. n : Rank(bodies[i]) \in Int
  BY HashesAssumption
<1>0. /\ n <= EPOCH_TIMESLOTS
      /\ \A i, j \in 1 .. n : i < j => Rank(bodies[i]) <= Rank(bodies[j])
  OBVIOUS
<1>7. bodies = [k \in 1 .. n |-> bodies[k]] /\ SubSeq(bodies, 1, n) = bodies
  OBVIOUS
<1>8. Lowest(bodies)
        = SubSeq(Sorted(bodies), 1, IF n < EPOCH_TIMESLOTS THEN n ELSE EPOCH_TIMESLOTS)
  BY DEF Lowest
<1> HIDE DEF n
<1>2. ASSUME NEW i \in 1 .. n PROVE Place(bodies, i) = i
  <2> DEFINE before == {j \in 1 .. n : Rank(bodies[j]) < Rank(bodies[i])
                                         \/ (Rank(bodies[j]) = Rank(bodies[i]) /\ j <= i)}
  <2>1. before = 1 .. i
    <3>1. ASSUME NEW j \in 1 .. n
          PROVE  (Rank(bodies[j]) < Rank(bodies[i]) \/ (Rank(bodies[j]) = Rank(bodies[i]) /\ j <= i))
                   <=> j <= i
      <4>1. Rank(bodies[j]) \in Int /\ Rank(bodies[i]) \in Int /\ i \in Nat /\ j \in Nat
        BY <1>1
      <4>2. /\ i < j => Rank(bodies[i]) <= Rank(bodies[j])
            /\ j < i => Rank(bodies[j]) <= Rank(bodies[i])
        BY <1>0
      <4> QED BY <4>1, <4>2
    <3>2. before = {j \in 1 .. n : j <= i}
      BY <3>1
    <3> HIDE DEF before
    <3> QED BY <1>1, <3>2
  <2>2. Place(bodies, i) = Cardinality(before)
    <3>1. before = {j \in DOMAIN bodies :
                       \/ Rank(bodies[j]) < Rank(bodies[i])
                       \/ (Rank(bodies[j]) = Rank(bodies[i]) /\ j <= i)}
      BY <1>1
    <3> HIDE DEF before
    <3> QED BY <3>1 DEF Place
  <2>3. Cardinality(1 .. i) = i
    BY <1>1, FS_Interval
  <2> HIDE DEF before
  <2> QED BY <2>1, <2>2, <2>3
<1>3. Sorted(bodies) = bodies
  <2>1. \A k \in 1 .. n : (CHOOSE i \in 1 .. n : Place(bodies, i) = k) = k
    BY <1>2
  <2>2. Sorted(bodies) = [k \in 1 .. n |-> bodies[k]]
    <3>1. Sorted(bodies) = [k \in 1 .. n |-> bodies[CHOOSE i \in 1 .. n : Place(bodies, i) = k]]
      BY <1>1 DEF Sorted
    <3> QED BY <2>1, <3>1
  <2> QED BY <1>7, <2>2
<1>4. EPOCH_TIMESLOTS \in Nat
  BY SafroleAssumption
<1>5. (IF n < EPOCH_TIMESLOTS THEN n ELSE EPOCH_TIMESLOTS) = n
  BY <1>0, <1>1, <1>4
<1> QED BY <1>3, <1>5, <1>7, <1>8

-----------------------------------------------------------------------------
(* The series of an epoch. *)

\* reorder_list_outside_in takes every ticket of a full contest once.
LEMMA OutsideIn ==
    ASSUME NEW S, NEW items \in Seq(S), Saturated(items)
    PROVE  LET series == reorder_list_outside_in(items)
           IN  /\ series \in [1 .. EPOCH_TIMESLOTS -> S]
               /\ Range(series) \subseteq Range(items)
               /\ IsInjective(items) => IsInjective(series)
               /\ series # NoMark
<1> DEFINE n == EPOCH_TIMESLOTS
           half == n \div 2
           at(i) == IF i % 2 = 1 THEN (i + 1) \div 2 ELSE n + 1 - i \div 2
           series == reorder_list_outside_in(items)
<1>1. n \in Nat \ {0} /\ n % 2 = 0
  BY SafroleAssumption
<1>2. half \in Nat /\ n = 2 * half
  BY <1>1
<1>3. Len(items) = n /\ DOMAIN items = 1 .. n /\ \A i \in 1 .. n : items[i] \in S
  BY <1>1 DEF Saturated
<1>4. series = [i \in 1 .. n |-> items[at(i)]]
  <2>1. series = [i \in 1 .. 2 * (Len(items) \div 2) |->
                    IF i % 2 = 1 THEN items[(i + 1) \div 2] ELSE items[Len(items) + 1 - i \div 2]]
    BY DEF reorder_list_outside_in
  <2>2. 2 * (Len(items) \div 2) = n
    BY <1>2, <1>3
  <2>3. series = [i \in 1 .. n |-> IF i % 2 = 1 THEN items[(i + 1) \div 2] ELSE items[n + 1 - i \div 2]]
    <3> HIDE DEF series
    <3> QED BY <1>3, <2>1, <2>2
  <2> HIDE DEF series
  <2> QED BY <2>3
<1>5. \A i \in 1 .. n : at(i) \in 1 .. n
  <2> HIDE DEF n, half
  <2> QED BY <1>2
<1>6. \A i, j \in 1 .. n : at(i) = at(j) => i = j
  <2> SUFFICES ASSUME NEW i \in 1 .. n, NEW j \in 1 .. n, at(i) = at(j) PROVE i = j
    OBVIOUS
  <2> HIDE DEF n, half
  <2>1. CASE i % 2 = 1 /\ j % 2 = 1
    BY <1>2, <2>1
  <2>2. CASE i % 2 = 1 /\ j % 2 # 1
    BY <1>2, <2>2
  <2>3. CASE i % 2 # 1 /\ j % 2 = 1
    BY <1>2, <2>3
  <2>4. CASE i % 2 # 1 /\ j % 2 # 1
    BY <1>2, <2>4
  <2> QED BY <2>1, <2>2, <2>3, <2>4
<1> HIDE DEF at, half, series
<1>7. series \in [1 .. n -> S] /\ DOMAIN series = 1 .. n
  BY <1>3, <1>4, <1>5
<1>8. Range(series) \subseteq Range(items)
  <2>1. \A i \in 1 .. n : series[i] = items[at(i)] /\ at(i) \in DOMAIN items
    BY <1>3, <1>4, <1>5
  <2> QED BY <1>7, <2>1, Zenon DEF Range
<1>9. IsInjective(items) => IsInjective(series)
  <2>1. \A i \in 1 .. n : series[i] = items[at(i)] /\ at(i) \in DOMAIN items
    BY <1>3, <1>4, <1>5
  <2> QED BY <1>6, <1>7, <2>1, Zenon DEF IsInjective
<1>10. series # NoMark
  <2>1. DOMAIN NoMark = {} /\ 1 \in 1 .. n
    BY <1>1 DEF NoMark
  <2> QED BY <1>7, <2>1
<1> QED BY <1>7, <1>8, <1>9, <1>10 DEF series

\* The keys drawn for an epoch without a contest are keys of its validators.
LEMMA FallbackFacts ==
    ASSUME NEW entropy \in -3 .. MaxSlot, NEW S, NEW validators \in Seq(S), Len(validators) # 0
    PROVE  /\ fallback_keys(entropy, validators) \in [1 .. EPOCH_TIMESLOTS -> S]
           /\ Range(fallback_keys(entropy, validators)) \subseteq Range(validators)
<1> DEFINE draw(n) == (FallbackDraw(entropy, n - 1) % Len(validators)) + 1
           keys == fallback_keys(entropy, validators)
<1>1. ASSUME NEW n \in 1 .. EPOCH_TIMESLOTS
      PROVE  draw(n) \in 1 .. Len(validators)
  <2>1. n - 1 \in 0 .. EPOCH_TIMESLOTS - 1
    BY SafroleAssumption
  <2>2. FallbackDraw(entropy, n - 1) \in Int /\ Len(validators) \in Nat \ {0}
    BY <2>1, HashesAssumption
  <2>3. FallbackDraw(entropy, n - 1) % Len(validators) \in 0 .. Len(validators) - 1
    BY <2>2, DivMod
  <2> QED BY <2>2, <2>3
<1>2. keys = [n \in 1 .. EPOCH_TIMESLOTS |-> validators[draw(n)]]
  BY DEF fallback_keys
<1>3. DOMAIN validators = 1 .. Len(validators) /\ \A i \in DOMAIN validators : validators[i] \in S
  OBVIOUS
<1> HIDE DEF draw, keys
<1>4. \A n \in 1 .. EPOCH_TIMESLOTS : keys[n] = validators[draw(n)] /\ draw(n) \in DOMAIN validators
  BY <1>1, <1>2, <1>3
<1>5. DOMAIN keys = 1 .. EPOCH_TIMESLOTS
  BY <1>2
<1>6. keys \in [1 .. EPOCH_TIMESLOTS -> S]
  BY <1>2, <1>3, <1>4
<1>7. Range(keys) \subseteq Range(validators)
  BY <1>4, <1>5, Zenon DEF Range
<1> QED BY <1>6, <1>7 DEF keys

-----------------------------------------------------------------------------
(* The inductive invariant of the contest for tickets. *)

ValidatorSets == Designations \cup {GenesisValidators}

\* The slots a node knows are not after its clock, and entropies come from blocks.
SlotsInRange ==
    /\ current_timeslot <= MaxSlot
    /\ working_state.timeslot <= current_timeslot
    /\ \A i \in DOMAIN timeslot_queue : timeslot_queue[i] <= current_timeslot
    /\ working_state.entropy \in Seq(-3 .. MaxSlot)

\* Nullified or not, the validators of a set are as many as were designated.
IsValidatorSet(vs) == vs \in Seq(AllKeys) /\ \E w \in ValidatorSets : Len(vs) = Len(w)

ValidatorsAreDesignated ==
    LET s == working_state
    IN  /\ IsValidatorSet(s.validator_pool) /\ IsValidatorSet(s.validator_archive)
        /\ IsValidatorSet(s.validator_queue) /\ IsValidatorSet(s.pending)

\* Tickets that whoever is in validators can seal with when entropy is due.
Usable(tickets, entropy, validators) ==
    \A t \in Range(tickets) : t.entropy = entropy /\ t.key \in Range(validators)

\* A contest in the order of ranks: what sorted() makes of it again.
InOrder(tickets) ==
    \A i, j \in 1 .. Len(tickets) : i < j => Rank(tickets[i]) <= Rank(tickets[j])

ContestIsUsable ==
    LET s == working_state
    IN  /\ s.accumulator \in Seq(Ticket)
        /\ Len(s.accumulator) <= EPOCH_TIMESLOTS
        /\ InOrder(s.accumulator)
        /\ Usable(s.accumulator, s.entropy[3], s.pending)

IsSeries(series, entropy, validators) ==
    \/ /\ series.kind = "tickets"
       /\ series.of \in [1 .. EPOCH_TIMESLOTS -> Ticket]
       /\ Usable(series.of, entropy, validators)
    \/ /\ series.kind = "keys"
       /\ series.of \in [1 .. EPOCH_TIMESLOTS -> AllKeys]
       /\ Range(series.of) \subseteq Range(validators)

SeriesIsUsable ==
    IsSeries(working_state.series, working_state.entropy[4], working_state.validator_pool)

\* A contest is announced when it is full and closed, as it will be used.
Closed(s) == TICKET_SUBMISSION_END_SLOT <= slot_phase_index(s.timeslot) /\ Saturated(s.accumulator)

MarkIsExact ==
    announced = IF Closed(working_state)
                THEN reorder_list_outside_in(working_state.accumulator) ELSE NoMark

\* The collector holds tickets of this node.
Own == {t \in Ticket : t.key = Me}

Collector == [tickets_queue : {q \in SUBSET Own : IsFiniteSet(q)},
              own_tickets_next : Seq(Own), own_tickets_current : Seq(Own)]

CollectorIsOwn == extrinsics \in Collector

ContestInvariant ==
    /\ ConsensusInvariant /\ SlotsInRange /\ ValidatorsAreDesignated /\ ContestIsUsable
    /\ SeriesIsUsable /\ MarkIsExact /\ CollectorIsOwn

LEMMA PhaseFacts ==
    ASSUME NEW slot \in Nat
    PROVE  /\ TICKET_SUBMISSION_END_SLOT \in Nat \ {0}
           /\ slot_phase_index(slot) \in Nat /\ epoch_number(slot) \in Int
<1>1. TICKET_SUBMISSION_END_SLOT \in Nat \ {0} /\ EPOCH_TIMESLOTS \in Nat \ {0}
  BY SafroleAssumption
<1>2. slot \in Int
  OBVIOUS
<1> QED BY <1>1, <1>2, DivMod DEF slot_phase_index, epoch_number

LEMMA AttemptFacts == Attempts \subseteq Nat
<1> SUFFICES ASSUME NEW a \in Attempts PROVE a \in Nat
  OBVIOUS
<1>1. PICK vs \in Designations \cup {GenesisValidators} : a \in 0 .. ticket_entries(Len(vs)) - 1
  BY DEF Attempts
<1> QED BY <1>1

LEMMA ValidatorSetFacts ==
    /\ \A w \in ValidatorSets : IsValidatorSet(w)
    /\ \A vs : IsValidatorSet(vs) => vs \in Seq(AllKeys) /\ Len(vs) \in Nat \ {0}
<1>1. ASSUME NEW w \in ValidatorSets PROVE IsValidatorSet(w)
  <2>1. w \in Seq(Range(w)) /\ w \in Designations \cup {GenesisValidators}
    BY ConsensusAssumption DEF ValidatorSets
  <2>2. Range(w) \subseteq AllKeys
    BY <2>1, Zenon DEF AllKeys
  <2>3. w \in Seq(AllKeys)
    BY <2>1, <2>2
  <2> QED BY <2>3 DEF IsValidatorSet
<1>2. ASSUME NEW vs, IsValidatorSet(vs) PROVE vs \in Seq(AllKeys) /\ Len(vs) \in Nat \ {0}
  <2>1. PICK w \in ValidatorSets : Len(vs) = Len(w)
    BY <1>2 DEF IsValidatorSet
  <2>2. w \in Seq(Range(w)) /\ Len(w) >= 6
    BY ConsensusAssumption DEF ValidatorSets
  <2>3. Len(w) \in Nat
    BY <2>2
  <2> QED BY <1>2, <2>1, <2>2, <2>3 DEF IsValidatorSet
<1> QED BY <1>1, <1>2

LEMMA EntropyAt ==
    ASSUME NEW S, NEW e \in Seq(S), Len(e) = 4
    PROVE  e[3] \in S /\ e[4] \in S
<1>1. \A i \in 1 .. 4 : e[i] \in S
  BY ElementOfSeq
<1>2. 3 \in 1 .. 4 /\ 4 \in 1 .. 4
  OBVIOUS
<1> QED BY <1>1, <1>2, Zenon

LEMMA ContestInit == Init => ContestInvariant
<1> SUFFICES ASSUME Init PROVE ContestInvariant
  OBVIOUS
<1> DEFINE s == working_state
<1>1. /\ s.timeslot = 0 /\ s.entropy = <<0, -1, -2, -3>>
      /\ s.validator_pool = GenesisValidators /\ s.validator_archive = GenesisValidators
      /\ s.validator_queue = GenesisValidators /\ s.pending = GenesisValidators
      /\ s.series = Keys(fallback_keys(-2, GenesisValidators)) /\ s.accumulator = <<>>
      /\ extrinsics = [tickets_queue |-> {}, own_tickets_next |-> <<>>, own_tickets_current |-> <<>>]
      /\ timeslot_queue = <<>> /\ current_timeslot = 0 /\ announced = NoMark
  BY DEF Init
<1>2. MaxSlot \in Nat /\ EPOCH_TIMESLOTS \in Nat \ {0} /\ TICKET_SUBMISSION_END_SLOT \in Nat \ {0}
  BY ConsensusAssumption, SafroleAssumption
<1> HIDE DEF s
<1>3. SlotsInRange
  <2>1. 0 \in -3 .. MaxSlot /\ -1 \in -3 .. MaxSlot /\ -2 \in -3 .. MaxSlot /\ -3 \in -3 .. MaxSlot
    BY <1>2
  <2>2. <<0, -1, -2, -3>> \in Seq(-3 .. MaxSlot)
    BY <2>1
  <2>3. DOMAIN timeslot_queue = {}
    BY <1>1
  <2>4. current_timeslot <= MaxSlot /\ s.timeslot <= current_timeslot
    BY <1>1, <1>2
  <2> QED BY <1>1, <2>2, <2>3, <2>4 DEF SlotsInRange, s
<1>4. IsValidatorSet(GenesisValidators)
  BY ValidatorSetFacts DEF ValidatorSets
<1>5. ValidatorsAreDesignated
  BY <1>1, <1>4 DEF ValidatorsAreDesignated, s
<1>6. ContestIsUsable
  <2>1. /\ <<>> \in Seq(Ticket) /\ Len(<<>>) = 0 /\ 1 .. 0 = {} /\ DOMAIN <<>> = {}
    OBVIOUS
  <2>2. InOrder(<<>>)
    BY <2>1 DEF InOrder
  <2>3. Usable(<<>>, s.entropy[3], s.pending)
    BY <2>1 DEF Usable, Range
  <2> QED BY <1>1, <1>2, <2>1, <2>2, <2>3 DEF ContestIsUsable, s
<1>7. SeriesIsUsable
  <2>1. -2 \in -3 .. MaxSlot
    BY <1>2
  <2>2. GenesisValidators \in Seq(AllKeys) /\ Len(GenesisValidators) # 0
    BY <1>4, ValidatorSetFacts
  <2>3. /\ fallback_keys(-2, GenesisValidators) \in [1 .. EPOCH_TIMESLOTS -> AllKeys]
        /\ Range(fallback_keys(-2, GenesisValidators)) \subseteq Range(GenesisValidators)
    BY <2>1, <2>2, FallbackFacts
  <2>4. /\ s.series.kind = "keys" /\ s.series.of = fallback_keys(-2, GenesisValidators)
    BY <1>1 DEF Keys
  <2> QED BY <1>1, <2>3, <2>4 DEF SeriesIsUsable, IsSeries, s
<1>8. MarkIsExact
  <2>1. ~Saturated(s.accumulator)
    BY <1>1, <1>2 DEF Saturated
  <2> QED BY <1>1, <2>1 DEF MarkIsExact, Closed, s
<1>9. CollectorIsOwn
  BY <1>1, FS_EmptySet DEF CollectorIsOwn, Collector
<1> QED BY <1>3, <1>5, <1>6, <1>7, <1>8, <1>9, ConsensusInit DEF ContestInvariant

-----------------------------------------------------------------------------
(* The tickets of this node. *)

LEMMA ClearFacts ==
    ASSUME NEW x \in Collector
    PROVE  clear_tickets(x) \in Collector
<1>1. {} \in {q \in SUBSET Own : IsFiniteSet(q)} /\ <<>> \in Seq(Own)
  BY FS_EmptySet
<1> QED BY <1>1 DEF clear_tickets, Collector

LEMMA SetToSeqFacts ==
    ASSUME NEW S, IsFiniteSet(S)
    PROVE  SetToSeq(S) \in Seq(S)
<1> DEFINE n == Cardinality(S)
<1>1. n \in Nat /\ ExistsBijection(1 .. n, S)
  BY FS_CardinalityType
<1>2. \E f \in [1 .. n -> S] : IsInjective(f)
  BY <1>1 DEF ExistsBijection, Bijection, Injection
<1>3. SetToSeq(S) \in [1 .. n -> S]
  BY <1>2 DEF SetToSeq
<1> HIDE DEF n
<1> QED BY <1>1, <1>3

\* What the collector hands to a block is its own, and so is what it keeps.
LEMMA CollectFacts ==
    ASSUME NEW x \in Collector, NEW slot, NEW accumulator
    PROVE  /\ CollectedTickets(x, slot, accumulator) \in Seq(Own)
           /\ AfterCollect(x, slot, accumulator) \in Collector
<1> DEFINE S == Submittable(x, accumulator)
           sorted == Lowest(SetToSeq(S))
           count == IF Len(sorted) < MAXIMUM_EXTRINSIC_TICKETS
                    THEN Len(sorted) ELSE MAXIMUM_EXTRINSIC_TICKETS
           taken == CollectedTickets(x, slot, accumulator)
           after == AfterCollect(x, slot, accumulator)
<1>1. x.tickets_queue \in SUBSET Own /\ IsFiniteSet(x.tickets_queue)
  BY DEF Collector
<1>2. S \in SUBSET x.tickets_queue
  BY DEF Submittable
<1>3. S \in SUBSET Own /\ IsFiniteSet(S)
  BY <1>1, <1>2, FS_Subset
<1> HIDE DEF S
<1>4. SetToSeq(S) \in Seq(Own) /\ SetToSeq(S) \in Seq(Ticket)
  <2>1. SetToSeq(S) \in Seq(S) /\ S \subseteq Own /\ Own \subseteq Ticket
    BY <1>3, SetToSeqFacts DEF Own
  <2> QED BY <2>1
<1>5. sorted \in Seq(Own)
  <2> DEFINE bodies == SetToSeq(S)
             m == IF Len(bodies) < EPOCH_TIMESLOTS THEN Len(bodies) ELSE EPOCH_TIMESLOTS
  <2>1. /\ sorted \in Seq(Ticket) /\ Len(sorted) = m
        /\ \A k \in 1 .. m : \E i \in 1 .. Len(bodies) : sorted[k] = bodies[i]
    <3> HIDE DEF bodies
    <3>1. bodies \in Seq(Ticket)
      BY <1>4 DEF bodies
    <3> QED BY <3>1, LowestFacts DEF bodies
  <2>2. \A i \in 1 .. Len(bodies) : bodies[i] \in Own
    BY <1>4
  <2> HIDE DEF m, bodies, sorted
  <2>3. \A k \in 1 .. Len(sorted) : sorted[k] \in Own
    BY <2>1, <2>2, Zenon
  <2> QED BY <2>1, <2>3
<1> HIDE DEF sorted
<1>6. taken \in Seq(Own)
  <2>1. count \in Nat /\ count <= Len(sorted)
    BY <1>5, SafroleAssumption
  <2>2. taken = IF slot_phase_index(slot) < TICKET_SUBMISSION_END_SLOT
                THEN SubSeq(sorted, 1, count) ELSE <<>>
    BY DEF CollectedTickets, sorted, S
  <2> HIDE DEF count, taken
  <2>3. SubSeq(sorted, 1, count) \in Seq(Own) /\ <<>> \in Seq(Own)
    BY <1>5, <2>1
  <2> QED BY <2>2, <2>3
<1>7. after \in Collector
  <2>1. after = x \/ after = [x EXCEPT !.tickets_queue = S \ Range(taken)]
    BY DEF AfterCollect, S
  <2> HIDE DEF after, taken
  <2>2. S \ Range(taken) \in SUBSET Own /\ IsFiniteSet(S \ Range(taken))
    <3>1. S \ Range(taken) \in SUBSET S
      OBVIOUS
    <3> QED BY <1>3, <3>1, FS_Subset
  <2>3. [x EXCEPT !.tickets_queue = S \ Range(taken)] \in Collector
    BY <2>2 DEF Collector
  <2> QED BY <2>1, <2>3
<1> QED BY <1>6, <1>7

\* The tickets that the node makes are its own.
LEMMA OwnTicketsFacts ==
    ASSUME NEW x \in Collector, NEW slot, NEW pending, IsValidatorSet(pending),
           NEW entropy \in Seq(-3 .. MaxSlot), Len(entropy) = 4
    PROVE  OwnTickets(x, slot, pending, entropy) \in Collector
<1> DEFINE first == Len(x.own_tickets_next)
           entries == ticket_entries(Len(pending))
           made == [i \in 1 .. entries - first |->
                       [key |-> Me, entropy |-> entropy[3], attempt |-> first + i - 1]]
           next == [x EXCEPT !.tickets_queue = @ \cup Range(made), !.own_tickets_next = @ \o made]
<1>1. /\ x.own_tickets_next \in Seq(Own) /\ first \in Nat
      /\ x.tickets_queue \in SUBSET Own /\ IsFiniteSet(x.tickets_queue)
  BY DEF Collector
<1>2. entropy[3] \in -3 .. MaxSlot
  BY EntropyAt
<1>3. pending \in Seq(AllKeys) /\ Len(pending) \in Nat \ {0}
  BY ValidatorSetFacts
<1>4. entries \in Int
  <2>1. 2 * EPOCH_TIMESLOTS + Len(pending) - 1 \in Int
    BY <1>3, SafroleAssumption
  <2> QED BY <1>3, <2>1, DivMod DEF ticket_entries
<1>5. 0 .. entries - 1 \subseteq Attempts
  <2>1. PICK w \in Designations \cup {GenesisValidators} : Len(pending) = Len(w)
    BY DEF IsValidatorSet, ValidatorSets
  <2> QED BY <2>1, Zenon DEF Attempts
<1>6. Me \in Range(pending) => Me \in AllKeys \ {NullKey}
  <2>1. Range(pending) \subseteq AllKeys
    BY <1>3 DEF Range
  <2> QED BY <2>1, ConsensusAssumption
<1> HIDE DEF first, entries
<1>7. ASSUME Me \in Range(pending), NEW i \in 1 .. entries - first
      PROVE  [key |-> Me, entropy |-> entropy[3], attempt |-> first + i - 1] \in Own
  <2>1. first + i - 1 \in 0 .. entries - 1
    BY <1>1, <1>4
  <2>2. first + i - 1 \in Attempts
    BY <1>5, <2>1
  <2> QED BY <1>2, <1>6, <1>7, <2>2 DEF Own, Ticket
<1>8. ASSUME Me \in Range(pending) PROVE next \in Collector
  <2>1. made \in Seq(Own) /\ IsFiniteSet(DOMAIN made)
    <3>1. made \in [1 .. entries - first -> Own]
      BY <1>7, <1>8
    <3>2. IsFiniteSet(1 .. entries - first) /\ DOMAIN made = 1 .. entries - first
      BY <1>1, <1>4, FS_Interval
    <3>3. CASE entries - first \in Nat
      <4> HIDE DEF made
      <4> QED BY <3>1, <3>2, <3>3
    <3>4. CASE entries - first \notin Nat
      <4>1. 1 .. entries - first = 1 .. 0
        BY <1>1, <1>4, <3>4
      <4>2. made \in [1 .. 0 -> Own]
        BY <3>1, <4>1
      <4> HIDE DEF made
      <4> QED BY <3>2, <4>2
    <3> QED BY <3>3, <3>4
  <2> HIDE DEF made
  <2>2. Range(made) \in SUBSET Own
    BY <2>1 DEF Range
  <2>3. IsFiniteSet(Range(made))
    <3>1. made \in Surjection(DOMAIN made, Range(made))
      <4>1. made \in [DOMAIN made -> Range(made)]
        <5>1. made = [i \in DOMAIN made |-> made[i]]
          BY <2>1
        <5>2. \A i \in DOMAIN made : made[i] \in Range(made)
          BY DEF Range
        <5> QED BY <5>1, <5>2
      <4>2. \A r \in Range(made) : \E i \in DOMAIN made : made[i] = r
        BY DEF Range
      <4> QED BY <4>1, <4>2 DEF Surjection
    <3> QED BY <2>1, <3>1, FS_Surjection
  <2>4. x.tickets_queue \cup Range(made) \in SUBSET Own /\ IsFiniteSet(x.tickets_queue \cup Range(made))
    BY <1>1, <2>2, <2>3, FS_Union
  <2>5. x.own_tickets_next \o made \in Seq(Own)
    BY <1>1, <2>1
  <2> QED BY <2>4, <2>5 DEF Collector
<1>9. OwnTickets(x, slot, pending, entropy)
        = IF slot_phase_index(slot) \in 1 .. (TICKET_SUBMISSION_END_SLOT - 1) /\ Me \in Range(pending)
          THEN next ELSE x
  BY DEF OwnTickets, first, entries
<1> HIDE DEF next
<1> QED BY <1>8, <1>9

-----------------------------------------------------------------------------
(* The blocks, with their tickets. *)

\* The proof that this node gives for its tickets, and what is offered to a contest.
OwnProof == CHOOSE p \in Proofs : TRUE

Envelope == [key : Submitters \cup {Me}, entropy : -3 .. MaxSlot, attempt : Nat,
             proof : Proofs \cup {OwnProof}]

\* Who may sign a block: another validator of the pool that has a key, or this node
\* under the index it looked up.
Authored(b) ==
    \/ /\ b.author_index \in DOMAIN NextPool(working_state, b.timeslot)
       /\ NextPool(working_state, b.timeslot)[b.author_index] # NullKey
    \/ /\ Producing(b.timeslot)
       /\ b.author_index = get_author_index(working_state, b.timeslot)

WithTickets(b) ==
    /\ Offered(b)
    /\ Authored(b)
    /\ b.timeslot <= current_timeslot
    /\ b.designated \in Designations \cup {working_state.validator_queue}
    /\ b.tickets \in Seq(Envelope)

\* check_offenders keeps the size of the set.
LEMMA NullifiedSet ==
    ASSUME NEW vs, IsValidatorSet(vs), NEW offenders
    PROVE  IsValidatorSet(check_offenders(vs, offenders))
<1> DEFINE next == check_offenders(vs, offenders)
<1>1. vs \in Seq(AllKeys) /\ \E w \in ValidatorSets : Len(vs) = Len(w)
  BY DEF IsValidatorSet
<1>2. NullKey \in AllKeys
  BY DEF AllKeys
<1>3. next = [i \in 1 .. Len(vs) |-> IF vs[i] \in offenders THEN NullKey ELSE vs[i]]
  BY <1>1 DEF check_offenders
<1>4. next \in Seq(AllKeys) /\ Len(next) = Len(vs)
  <2> HIDE DEF next
  <2>1. Len(vs) \in Nat /\ \A i \in 1 .. Len(vs) : vs[i] \in AllKeys
    BY <1>1
  <2> QED BY <1>2, <1>3, <2>1
<1> HIDE DEF next
<1> QED BY <1>1, <1>4 DEF IsValidatorSet, next

\* The pending set and the entropies that a block, or a look at a new epoch, finds.
LEMMA NextSets ==
    ASSUME ContestInvariant, NEW b, b.timeslot \in Nat, b.timeslot <= current_timeslot
    PROVE  LET s == working_state
               entropy == next_entropy(s.timeslot, b.timeslot, s.entropy)
           IN  /\ b.timeslot \in -3 .. MaxSlot
               /\ IsValidatorSet(NextPending(s, b))
               /\ IsValidatorSet(NextPool(s, b.timeslot))
               /\ entropy \in Seq(-3 .. MaxSlot) /\ Len(entropy) = 4
               /\ is_epoch_change(s.timeslot, b.timeslot) => entropy[4] = s.entropy[3]
               /\ ~is_epoch_change(s.timeslot, b.timeslot) =>
                     entropy[3] = s.entropy[3] /\ entropy[4] = s.entropy[4]
<1> DEFINE s == working_state
           slot == b.timeslot
           pre == s.timeslot
           e == s.entropy
<1>1. /\ IsValidatorSet(s.validator_pool) /\ IsValidatorSet(s.validator_queue) /\ IsValidatorSet(s.pending)
      /\ e \in Seq(-3 .. MaxSlot) /\ Len(e) = 4
  BY DEF ContestInvariant, ValidatorsAreDesignated, SlotsInRange, ConsensusInvariant, SlotsAndEntropies
<1>2. slot \in -3 .. MaxSlot
  BY ConsensusAssumption DEF ContestInvariant, SlotsInRange, ConsensusInvariant, SlotsAndEntropies
<1>3. IsValidatorSet(NextPending(s, b))
  BY <1>1, NullifiedSet DEF NextPending
<1>4. IsValidatorSet(NextPool(s, slot))
  BY <1>1 DEF NextPool, next_validators
<1> HIDE DEF slot, pre, e
<1>5. LET entropy == next_entropy(pre, slot, e)
      IN  /\ entropy \in Seq(-3 .. MaxSlot) /\ Len(entropy) = 4
          /\ is_epoch_change(pre, slot) => entropy[4] = e[3]
          /\ ~is_epoch_change(pre, slot) => entropy[3] = e[3] /\ entropy[4] = e[4]
  <2> DEFINE S == -3 .. MaxSlot
  <2>1. e \in Seq(S) /\ Len(e) = 4 /\ slot \in S
    BY <1>1, <1>2
  <2> HIDE DEF S
  <2>2. LET entropy == next_entropy(pre, slot, e)
        IN  /\ entropy \in Seq(S) /\ Len(entropy) = 4
            /\ is_epoch_change(pre, slot) => entropy[4] = e[3]
            /\ ~is_epoch_change(pre, slot) => entropy[3] = e[3] /\ entropy[4] = e[4]
    BY ONLY <2>1, EntropyFacts
  <2> QED BY <2>2 DEF S
<1> QED BY <1>2, <1>3, <1>4, <1>5 DEF slot, pre, e

\* What _timeslot_worker looks at before it writes a block.
LEMMA LookedFacts ==
    ASSUME ContestInvariant, NEW slot \in Nat, slot <= current_timeslot
    PROVE  LET looked == Looked(working_state, slot)
           IN  /\ IsValidatorSet(looked.pending)
               /\ looked.entropy \in Seq(-3 .. MaxSlot) /\ Len(looked.entropy) = 4
               /\ Prepared(slot) \in Collector
<1> DEFINE s == working_state
           b == [timeslot |-> slot, author_index |-> 1, tickets |-> <<>>, disputes |-> NoDisputes,
                 designated |-> s.validator_queue, marked |-> TRUE]
           looked == Looked(s, slot)
<1>1. b.timeslot = slot
  OBVIOUS
<1>2. /\ IsValidatorSet(NextPending(s, b))
      /\ next_entropy(s.timeslot, slot, s.entropy) \in Seq(-3 .. MaxSlot)
      /\ Len(next_entropy(s.timeslot, slot, s.entropy)) = 4
  <2> HIDE DEF b
  <2> QED BY <1>1, NextSets
<1>3. /\ IsValidatorSet(s.pending)
      /\ s.entropy \in Seq(-3 .. MaxSlot) /\ Len(s.entropy) = 4
      /\ extrinsics \in Collector
  BY DEF ContestInvariant, ValidatorsAreDesignated, SlotsInRange, ConsensusInvariant,
         SlotsAndEntropies, CollectorIsOwn
<1>4. \/ looked = s
      \/ looked.pending = NextPending(s, b) /\ looked.entropy = next_entropy(s.timeslot, slot, s.entropy)
  BY DEF Looked, Transitioned
<1>5. Prepared(slot) \in Collector
  <2>1. process_epoch_change(extrinsics) \in Collector
    BY <1>3, FS_EmptySet DEF process_epoch_change, Collector
  <2> QED BY <1>3, <2>1 DEF Prepared
<1> HIDE DEF looked, b
<1> QED BY <1>2, <1>3, <1>4, <1>5 DEF looked

LEMMA OwnBlockTickets ==
    ASSUME ContestInvariant, NEW slot \in Nat, slot <= current_timeslot, NEW designated
    PROVE  /\ OwnBlock(slot, designated).tickets \in Seq(Envelope)
           /\ AfterCollect(WithOwn(slot), slot, Looked(working_state, slot).accumulator) \in Collector
<1> DEFINE looked == Looked(working_state, slot)
           bodies == CollectedTickets(WithOwn(slot), slot, looked.accumulator)
           tickets == OwnBlock(slot, designated).tickets
<1>1. /\ IsValidatorSet(looked.pending)
      /\ looked.entropy \in Seq(-3 .. MaxSlot) /\ Len(looked.entropy) = 4
      /\ Prepared(slot) \in Collector
  BY LookedFacts
<1>2. WithOwn(slot) = OwnTickets(Prepared(slot), slot, looked.pending, looked.entropy)
  BY DEF WithOwn
<1> HIDE DEF looked
<1>3. WithOwn(slot) \in Collector
  BY <1>1, <1>2, OwnTicketsFacts
<1>4. bodies \in Seq(Own) /\ AfterCollect(WithOwn(slot), slot, looked.accumulator) \in Collector
  BY <1>3, CollectFacts
<1>5. tickets = [i \in DOMAIN bodies |->
                   [key |-> bodies[i].key, entropy |-> bodies[i].entropy,
                    attempt |-> bodies[i].attempt, proof |-> OwnProof]]
  BY DEF OwnBlock, OwnProof, looked
<1> HIDE DEF bodies, tickets
<1>6. ASSUME NEW i \in DOMAIN bodies
      PROVE  [key |-> bodies[i].key, entropy |-> bodies[i].entropy,
              attempt |-> bodies[i].attempt, proof |-> OwnProof] \in Envelope
  <2>1. bodies[i] \in Own
    BY <1>4
  <2>2. bodies[i] \in Ticket /\ bodies[i].key = Me
    BY <2>1 DEF Own
  <2>3. bodies[i].entropy \in -3 .. MaxSlot /\ bodies[i].attempt \in Attempts
    BY <2>2 DEF Ticket
  <2>4. bodies[i].attempt \in Nat
    BY <2>3, AttemptFacts
  <2> QED BY <2>2, <2>3, <2>4 DEF Envelope
<1>7. tickets \in Seq(Envelope)
  <2>1. DOMAIN bodies = 1 .. Len(bodies) /\ Len(bodies) \in Nat
    BY <1>4
  <2>2. tickets \in [1 .. Len(bodies) -> Envelope]
    BY <1>5, <1>6, <2>1
  <2> QED BY <2>1, <2>2
<1> QED BY <1>4, <1>7 DEF tickets, looked

\* Blocks of the network and own blocks bring tickets for a contest; nothing else
\* changes the state, and the collector only ever holds tickets of this node.
LEMMA BlockWithTickets ==
    ASSUME ContestInvariant, [Next]_vars
    PROVE  /\ \/ UNCHANGED <<working_state, announced, judged_at>>
              \/ \E b : WithTickets(b) /\ Apply(b) /\ UNCHANGED current_timeslot
           /\ CollectorIsOwn'
<1>0. /\ working_state.timeslot \in Nat /\ current_timeslot \in Nat /\ timeslot_queue \in Seq(Nat)
      /\ working_state.entropy \in Seq(-3 .. MaxSlot) /\ Len(working_state.entropy) = 4
      /\ \A i \in DOMAIN timeslot_queue : timeslot_queue[i] <= current_timeslot
      /\ extrinsics \in Collector
  BY DEF ContestInvariant, ConsensusInvariant, SlotsAndEntropies, SlotsInRange, CollectorIsOwn
<1>h. timeslot_queue # <<>> => Head(timeslot_queue) \in Nat /\ Head(timeslot_queue) <= current_timeslot
  <2> SUFFICES ASSUME timeslot_queue # <<>>
               PROVE  Head(timeslot_queue) \in Nat /\ Head(timeslot_queue) <= current_timeslot
    OBVIOUS
  <2>1. Head(timeslot_queue) = timeslot_queue[1] /\ 1 \in DOMAIN timeslot_queue
    BY <1>0
  <2> QED BY <1>0, <2>1
<1>1. CASE NotifyTimeslot
  BY <1>0, <1>1 DEF NotifyTimeslot, CollectorIsOwn
<1>2. CASE ImportBlock
  <2>1. PICK slot \in (working_state.timeslot + 1) .. current_timeslot :
               \E author_index \in DOMAIN NextPool(working_state, slot),
                  disputes \in DisputesOffered \cup {NoDisputes},
                  designated \in Designations \cup {working_state.validator_queue},
                  marked \in BOOLEAN : Import(slot, author_index, disputes, designated, marked)
    BY <1>2, Zenon DEF ImportBlock
  <2>2. PICK author_index \in DOMAIN NextPool(working_state, slot),
             disputes \in DisputesOffered \cup {NoDisputes},
             designated \in Designations \cup {working_state.validator_queue},
             marked \in BOOLEAN :
               Import(slot, author_index, disputes, designated, marked)
    BY <2>1, Zenon
  <2> DEFINE entropy == next_entropy(working_state.timeslot, slot, working_state.entropy)
  <2>3. PICK tickets \in SeqOf(TicketsOffered(entropy), MAXIMUM_EXTRINSIC_TICKETS) :
          LET b == Offer(slot, author_index, disputes, designated, marked, tickets)
          IN  TransitionAccepts(working_state, b) /\ Apply(b)
    BY <2>2, Zenon DEF Import
  <2>4. slot \in Nat /\ slot <= current_timeslot
    BY <1>0
  <2> DEFINE b == Offer(slot, author_index, disputes, designated, marked, tickets)
  <2>5. /\ b.timeslot = slot /\ b.disputes = disputes /\ b.designated = designated
        /\ b.tickets = tickets /\ b.author_index = author_index
    BY DEF Offer
  <2> HIDE DEF b
  <2>a. NextPool(working_state, slot)[author_index] # NullKey
    BY <2>2 DEF Import
  <2>c. Authored(b)
    BY <2>5, <2>a DEF Authored
  <2>6. entropy \in Seq(-3 .. MaxSlot) /\ Len(entropy) = 4
    BY <2>4, <2>5, NextSets
  <2> HIDE DEF entropy
  <2>7. TicketsOffered(entropy) \subseteq Envelope
    <3>1. entropy[3] \in -3 .. MaxSlot /\ entropy[4] \in -3 .. MaxSlot
      BY <2>6, EntropyAt
    <3>2. 0 .. 2 \subseteq Nat /\ {0} \subseteq Nat
      OBVIOUS
    <3> QED BY <3>1, <3>2 DEF TicketsOffered, Envelope
  <2>8. tickets \in Seq(Envelope)
    <3>1. MAXIMUM_EXTRINSIC_TICKETS \in Nat
      BY SafroleAssumption
    <3>2. PICK m \in 0 .. MAXIMUM_EXTRINSIC_TICKETS : tickets \in [1 .. m -> TicketsOffered(entropy)]
      BY DEF SeqOf
    <3>3. tickets \in [1 .. m -> Envelope] /\ m \in Nat
      BY <2>7, <3>1, <3>2
    <3> QED BY <3>3
  <2>9. WithTickets(b) /\ Apply(b)
    BY <2>3, <2>4, <2>5, <2>8, <2>c DEF WithTickets, Offered, b
  <2>10. UNCHANGED current_timeslot /\ CollectorIsOwn'
    BY <1>0, <1>2 DEF ImportBlock, CollectorIsOwn
  <2> QED BY <2>9, <2>10
<1>3. CASE Wait
  <2>1. extrinsics' = extrinsics \/ extrinsics' = Prepared(Head(timeslot_queue))
    BY <1>3 DEF Wait
  <2>2. timeslot_queue # <<>>
    BY <1>3 DEF Wait
  <2>3. extrinsics' \in Collector
    BY <1>0, <1>h, <2>1, <2>2, LookedFacts
  <2> QED BY <1>3, <2>3 DEF Wait, CollectorIsOwn
<1>4. CASE ProduceBlock
  <2> DEFINE slot == Head(timeslot_queue)
  <2>1. slot \in Nat /\ slot <= current_timeslot
    BY <1>4, <1>h DEF ProduceBlock
  <2>2. PICK designated \in Designations \cup {working_state.validator_queue} :
               /\ Producing(slot)
               /\ TransitionAccepts(working_state, OwnBlock(slot, designated))
               /\ Apply(OwnBlock(slot, designated))
               /\ extrinsics' = AfterCollect(WithOwn(slot), slot, Looked(working_state, slot).accumulator)
    BY <1>4, Zenon DEF ProduceBlock
  <2> HIDE DEF slot
  <2>3. /\ OwnBlock(slot, designated).tickets \in Seq(Envelope)
        /\ extrinsics' \in Collector
    BY <2>1, <2>2, OwnBlockTickets
  <2>4. /\ OwnBlock(slot, designated).timeslot = slot
        /\ OwnBlock(slot, designated).disputes = NoDisputes
        /\ OwnBlock(slot, designated).designated = designated
        /\ OwnBlock(slot, designated).author_index = get_author_index(working_state, slot)
    BY DEF OwnBlock
  <2>a. Authored(OwnBlock(slot, designated))
    BY <2>2, <2>4, Zenon DEF Authored
  <2>5. WithTickets(OwnBlock(slot, designated))
    BY <2>1, <2>2, <2>3, <2>4, <2>a DEF WithTickets, Offered
  <2>6. UNCHANGED current_timeslot
    BY <1>4 DEF ProduceBlock
  <2> QED BY <2>2, <2>3, <2>5, <2>6 DEF CollectorIsOwn
<1>5. CASE DiscardBlock
  <2>1. extrinsics' = clear_tickets(Prepared(Head(timeslot_queue))) /\ timeslot_queue # <<>>
    BY <1>5 DEF DiscardBlock
  <2>2. Prepared(Head(timeslot_queue)) \in Collector
    BY <1>h, <2>1, LookedFacts
  <2>3. extrinsics' \in Collector
    BY <2>1, <2>2, ClearFacts
  <2> QED BY <1>5, <2>3 DEF DiscardBlock, CollectorIsOwn
<1>6. CASE UNCHANGED vars
  BY <1>0, <1>6 DEF vars, CollectorIsOwn
<1> QED BY <1>1, <1>2, <1>3, <1>4, <1>5, <1>6 DEF Next

\* The tickets of a block that is accepted: of the contest it belongs to, made by
\* validators that will be active when it is used.
LEMMA AcceptedTickets ==
    ASSUME ContestInvariant, NEW b, WithTickets(b)
    PROVE  LET s == working_state
               bodies == [i \in DOMAIN b.tickets |-> Body(b.tickets[i])]
               entropy == next_entropy(s.timeslot, b.timeslot, s.entropy)
           IN  /\ bodies \in Seq(Ticket) /\ Len(bodies) = Len(b.tickets)
               /\ Usable(bodies, entropy[3], NextPending(s, b))
               /\ \A i \in DOMAIN bodies : bodies[i] \notin Range(s.accumulator)
               /\ TICKET_SUBMISSION_END_SLOT <= slot_phase_index(b.timeslot) => bodies = <<>>
               /\ (\A p, q \in Proofs : p = q) => IsInjective(bodies)
<1> DEFINE s == working_state
           tickets == b.tickets
           bodies == [i \in DOMAIN tickets |-> Body(tickets[i])]
           ring == NextPending(s, b)
           entropy == next_entropy(s.timeslot, b.timeslot, s.entropy)
<1>1. /\ tickets \in Seq(Envelope) /\ Len(tickets) \in Nat /\ DOMAIN tickets = 1 .. Len(tickets)
      /\ \A i \in DOMAIN tickets : tickets[i] \in Envelope
  BY DEF WithTickets
<1>2. tickets_accepted(s.timeslot, b.timeslot, s.accumulator, tickets, ring, entropy)
  BY DEF WithTickets, Offered, TransitionAccepts
<1>3. /\ b.timeslot \in Nat /\ IsValidatorSet(ring) /\ entropy \in Seq(-3 .. MaxSlot) /\ Len(entropy) = 4
  BY NextSets DEF WithTickets, Offered
<1>4. entropy[3] \in -3 .. MaxSlot
  BY <1>3, EntropyAt
<1> HIDE DEF ring, entropy, tickets
<1>5. ASSUME NEW i \in DOMAIN tickets
      PROVE  /\ Body(tickets[i]) \in Ticket
             /\ Body(tickets[i]).entropy = entropy[3]
             /\ Body(tickets[i]).key \in Range(ring)
             /\ Body(tickets[i]) \notin Range(s.accumulator)
  <2>1. /\ TicketProven(tickets[i], ring, entropy[3])
        /\ Body(tickets[i]) \notin Range(s.accumulator)
    BY <1>2 DEF tickets_accepted
  <2>2. /\ tickets[i].attempt < ticket_entries(Len(ring)) /\ tickets[i].attempt \in Nat
        /\ tickets[i].key \in Range(ring) \ {NullKey}
        /\ tickets[i].entropy = entropy[3]
    BY <1>1, <2>1 DEF TicketProven, Envelope
  <2>3. tickets[i].attempt \in Attempts
    <3>1. PICK w \in Designations \cup {GenesisValidators} : Len(ring) = Len(w)
      BY <1>3 DEF IsValidatorSet, ValidatorSets
    <3>2. Len(ring) \in Nat \ {0}
      BY <1>3, ValidatorSetFacts
    <3>3. ticket_entries(Len(ring)) \in Int
      <4>1. 2 * EPOCH_TIMESLOTS + Len(ring) - 1 \in Int
        BY <3>2, SafroleAssumption
      <4> QED BY <3>2, <4>1, DivMod DEF ticket_entries
    <3>4. tickets[i].attempt \in 0 .. ticket_entries(Len(ring)) - 1
      BY <2>2, <3>3
    <3> QED BY <3>1, <3>4, Zenon DEF Attempts
  <2>4. tickets[i].key \in AllKeys \ {NullKey}
    <3>1. ring \in Seq(AllKeys)
      BY <1>3, ValidatorSetFacts
    <3> QED BY <2>2, <3>1 DEF Range
  <2> QED BY <1>4, <2>1, <2>2, <2>3, <2>4 DEF Body, Ticket
<1>6. bodies \in Seq(Ticket) /\ Len(bodies) = Len(tickets) /\ DOMAIN bodies = DOMAIN tickets
  <2>1. bodies \in [1 .. Len(tickets) -> Ticket]
    BY <1>1, <1>5
  <2> HIDE DEF bodies
  <2> QED BY <1>1, <2>1
<1>7. Usable(bodies, entropy[3], ring)
  BY <1>5 DEF Usable, Range
<1>8. \A i \in DOMAIN bodies : bodies[i] \notin Range(s.accumulator)
  BY <1>5
<1>9. ASSUME TICKET_SUBMISSION_END_SLOT <= slot_phase_index(b.timeslot) PROVE bodies = <<>>
  <2>1. slot_phase_index(b.timeslot) \in Int /\ TICKET_SUBMISSION_END_SLOT \in Int
    <3>1. b.timeslot \in Nat
      BY <1>3
    <3>2. slot_phase_index(b.timeslot) \in Nat /\ TICKET_SUBMISSION_END_SLOT \in Nat \ {0}
      BY ONLY <3>1, PhaseFacts
    <3> QED BY <3>2
  <2>2. ~(slot_phase_index(b.timeslot) < TICKET_SUBMISSION_END_SLOT)
    BY <1>9, <2>1
  <2>3. Len(tickets) <= 0
    BY <1>2, <2>2 DEF tickets_accepted
  <2>4. Len(bodies) = 0
    BY <1>1, <1>6, <2>3
  <2> HIDE DEF bodies
  <2> QED BY <1>6, <2>4, EmptySeq
<1>10. ASSUME \A p, q \in Proofs : p = q PROVE IsInjective(bodies)
  <2> SUFFICES ASSUME NEW i \in DOMAIN tickets, NEW j \in DOMAIN tickets,
                      Body(tickets[i]) = Body(tickets[j])
               PROVE  i = j
    BY DEF IsInjective
  <2>1. tickets[i] \in Envelope /\ tickets[j] \in Envelope
    BY <1>1
  <2>2. /\ tickets[i].key = tickets[j].key /\ tickets[i].entropy = tickets[j].entropy
        /\ tickets[i].attempt = tickets[j].attempt
    BY DEF Body
  <2>3. tickets[i].proof \in Proofs \cup {OwnProof} /\ tickets[j].proof \in Proofs \cup {OwnProof}
    BY <2>1 DEF Envelope
  <2>4. Proofs # {} => OwnProof \in Proofs
    BY DEF OwnProof
  <2>5. tickets[i].proof = tickets[j].proof
    BY <1>10, <2>3, <2>4
  <2>6. tickets[i] = tickets[j]
    BY <2>1, <2>2, <2>5 DEF Envelope
  <2>7. IsInjective(tickets)
    BY <1>2 DEF tickets_accepted
  <2> QED BY <2>6, <2>7 DEF IsInjective
<1> QED BY <1>6, <1>7, <1>8, <1>9, <1>10 DEF ring, entropy, tickets

\* The contest after a block.
LEMMA AccumulatorStep ==
    ASSUME ContestInvariant, NEW b, WithTickets(b)
    PROVE  LET s == working_state
               next == next_accumulator(s.timeslot, b.timeslot, s.accumulator, b.tickets)
               entropy == next_entropy(s.timeslot, b.timeslot, s.entropy)
               change == is_epoch_change(s.timeslot, b.timeslot)
           IN  /\ next \in Seq(Ticket) /\ Len(next) <= EPOCH_TIMESLOTS /\ InOrder(next)
               /\ Usable(next, entropy[3], NextPending(s, b))
               /\ TICKET_SUBMISSION_END_SLOT <= slot_phase_index(b.timeslot) =>
                     next = IF change THEN <<>> ELSE s.accumulator
               /\ (\A p, q \in Proofs : p = q) /\ IsInjective(s.accumulator) => IsInjective(next)
               /\ ~change =>
                     \A t \in Range(s.accumulator) \ Range(next) :
                        Saturated(next) /\ \A u \in Range(next) : Rank(u) <= Rank(t)
<1> DEFINE s == working_state
           accumulator == s.accumulator
           next == next_accumulator(s.timeslot, b.timeslot, accumulator, b.tickets)
           entropy == next_entropy(s.timeslot, b.timeslot, s.entropy)
           change == is_epoch_change(s.timeslot, b.timeslot)
           bodies == [i \in DOMAIN b.tickets |-> Body(b.tickets[i])]
           kept == kept_tickets(s.timeslot, b.timeslot, accumulator)
           all == bodies \o kept
           ring == NextPending(s, b)
           m == IF Len(all) < EPOCH_TIMESLOTS THEN Len(all) ELSE EPOCH_TIMESLOTS
<1>1. /\ bodies \in Seq(Ticket) /\ Usable(bodies, entropy[3], ring)
      /\ \A i \in DOMAIN bodies : bodies[i] \notin Range(accumulator)
      /\ TICKET_SUBMISSION_END_SLOT <= slot_phase_index(b.timeslot) => bodies = <<>>
      /\ (\A p, q \in Proofs : p = q) => IsInjective(bodies)
  BY AcceptedTickets
<1>2. /\ accumulator \in Seq(Ticket) /\ Len(accumulator) <= EPOCH_TIMESLOTS /\ InOrder(accumulator)
      /\ Usable(accumulator, s.entropy[3], s.pending)
  BY DEF ContestInvariant, ContestIsUsable
<1>3. kept = IF change THEN <<>> ELSE accumulator
  BY DEF kept_tickets
<1>4. ~change => entropy[3] = s.entropy[3] /\ ring = s.pending
  <2>1. ~change => entropy[3] = s.entropy[3]
    BY NextSets DEF WithTickets, Offered
  <2>2. ~change => ring = s.pending
    BY DEF NextPending
  <2> QED BY <2>1, <2>2
<1>5. next = Lowest(all)
  BY DEF next_accumulator
<1> HIDE DEF accumulator, next, entropy, change, bodies, kept, ring
<1>6. kept \in Seq(Ticket) /\ Usable(kept, entropy[3], ring) /\ Range(kept) \subseteq Range(accumulator)
  <2>1. CASE change
    <3>1. kept = <<>> /\ Range(<<>>) = {}
      BY <1>3, <2>1 DEF Range
    <3> QED BY <3>1 DEF Usable
  <2>2. CASE ~change
    BY <1>2, <1>3, <1>4, <2>2
  <2> QED BY <2>1, <2>2
<1>7. /\ all \in Seq(Ticket) /\ Len(all) = Len(bodies) + Len(kept)
      /\ \A i \in 1 .. Len(bodies) : all[i] = bodies[i]
      /\ \A i \in 1 .. Len(kept) : all[Len(bodies) + i] = kept[i]
      /\ \A i \in 1 .. Len(all) : i \in 1 .. Len(bodies) \/ i - Len(bodies) \in 1 .. Len(kept)
      /\ Len(bodies) \in Nat /\ Len(kept) \in Nat
      /\ DOMAIN bodies = 1 .. Len(bodies) /\ DOMAIN kept = 1 .. Len(kept) /\ DOMAIN all = 1 .. Len(all)
  BY <1>1, <1>6
<1> HIDE DEF all
<1>8. \A i \in DOMAIN all :
         \/ i \in DOMAIN bodies /\ all[i] = bodies[i]
         \/ i - Len(bodies) \in DOMAIN kept /\ all[i] = kept[i - Len(bodies)]
  <2> SUFFICES ASSUME NEW i \in 1 .. Len(all), i \notin 1 .. Len(bodies)
               PROVE  i - Len(bodies) \in 1 .. Len(kept) /\ all[i] = kept[i - Len(bodies)]
    BY <1>7
  <2>1. i - Len(bodies) \in 1 .. Len(kept) /\ Len(bodies) + (i - Len(bodies)) = i
    BY <1>7
  <2> QED BY <1>7, <2>1
<1>9. /\ next \in Seq(Ticket) /\ Len(next) = m
      /\ \A k \in 1 .. m : \E i \in 1 .. Len(all) : next[k] = all[i]
      /\ \A k, l \in 1 .. m : k < l => Rank(next[k]) <= Rank(next[l])
      /\ IsInjective(all) => IsInjective(next)
      /\ \A i \in 1 .. Len(all) :
            \/ \E k \in 1 .. m : next[k] = all[i]
            \/ m = EPOCH_TIMESLOTS /\ \A k \in 1 .. m : Rank(next[k]) <= Rank(all[i])
  <2> HIDE DEF m
  <2>1. m = IF Len(all) < EPOCH_TIMESLOTS THEN Len(all) ELSE EPOCH_TIMESLOTS
    BY DEF m
  <2> QED BY <1>5, <1>7, <2>1, LowestFacts
<1>10. m \in Nat /\ m <= EPOCH_TIMESLOTS
  <2>1. EPOCH_TIMESLOTS \in Nat
    BY SafroleAssumption
  <2>2. Len(all) \in Nat
    BY <1>7
  <2> QED BY <2>1, <2>2
<1> HIDE DEF m
<1>11. Len(next) <= EPOCH_TIMESLOTS /\ InOrder(next) /\ DOMAIN next = 1 .. m
  BY <1>9, <1>10 DEF InOrder
<1>12. Usable(next, entropy[3], ring)
  <2> SUFFICES ASSUME NEW k \in 1 .. m
               PROVE  next[k].entropy = entropy[3] /\ next[k].key \in Range(ring)
    BY <1>11, Zenon DEF Usable, Range
  <2>1. PICK i \in 1 .. Len(all) : next[k] = all[i]
    BY <1>9
  <2>2. next[k] \in Range(bodies) \/ next[k] \in Range(kept)
    <3>1. i \in DOMAIN all
      BY <1>7
    <3>2. CASE i \in DOMAIN bodies /\ all[i] = bodies[i]
      BY <2>1, <3>2, Zenon DEF Range
    <3>3. CASE i - Len(bodies) \in DOMAIN kept /\ all[i] = kept[i - Len(bodies)]
      BY <2>1, <3>3, Zenon DEF Range
    <3> QED BY <1>8, <3>1, <3>2, <3>3, Zenon
  <2> QED BY <1>1, <1>6, <2>2, Zenon DEF Usable
<1>13. ASSUME TICKET_SUBMISSION_END_SLOT <= slot_phase_index(b.timeslot)
       PROVE  next = IF change THEN <<>> ELSE accumulator
  <2>1. all = kept
    <3>1. bodies = <<>>
      BY <1>1, <1>13
    <3> QED BY <1>6, <3>1 DEF all
  <2>2. Len(kept) <= EPOCH_TIMESLOTS /\ InOrder(kept)
    <3>1. CASE change
      <4>1. kept = <<>> /\ Len(<<>>) = 0 /\ 1 .. 0 = {} /\ EPOCH_TIMESLOTS \in Nat
        BY <1>3, <3>1, SafroleAssumption
      <4>2. InOrder(<<>>)
        BY <4>1 DEF InOrder
      <4> QED BY <4>1, <4>2
    <3>2. CASE ~change
      BY <1>2, <1>3, <3>2
    <3> QED BY <3>1, <3>2
  <2>3. Lowest(kept) = kept
    BY <1>6, <2>2, LowestOfOrdered DEF InOrder
  <2> QED BY <1>3, <1>5, <2>1, <2>3
<1>14. ASSUME \A p, q \in Proofs : p = q, IsInjective(accumulator) PROVE IsInjective(next)
  <2>1. IsInjective(bodies)
    BY <1>1, <1>14
  <2>2. IsInjective(kept)
    <3>1. CASE change
      <4>1. kept = <<>> /\ DOMAIN <<>> = {}
        BY <1>3, <3>1
      <4> QED BY <4>1 DEF IsInjective
    <3>2. CASE ~change
      BY <1>3, <1>14, <3>2
    <3> QED BY <3>1, <3>2
  <2>3. ASSUME NEW i \in DOMAIN all, NEW j \in DOMAIN all, all[i] = all[j] PROVE i = j
    <3>1. i \in Int /\ j \in Int /\ Len(bodies) \in Int
      BY <1>7
    <3>2. CASE i \in DOMAIN bodies /\ all[i] = bodies[i] /\ j \in DOMAIN bodies /\ all[j] = bodies[j]
      BY <2>1, <2>3, <3>2 DEF IsInjective
    <3>3. CASE /\ i - Len(bodies) \in DOMAIN kept /\ all[i] = kept[i - Len(bodies)]
               /\ j - Len(bodies) \in DOMAIN kept /\ all[j] = kept[j - Len(bodies)]
      <4>1. i - Len(bodies) = j - Len(bodies)
        BY <2>2, <2>3, <3>3, Zenon DEF IsInjective
      <4> QED BY <3>1, <4>1
    <3>4. ASSUME NEW k \in DOMAIN bodies, NEW l \in DOMAIN kept, bodies[k] = kept[l] PROVE FALSE
      <4>1. kept[l] \in Range(accumulator)
        BY <1>6 DEF Range
      <4> QED BY <1>1, <3>4, <4>1
    <3> QED BY <1>8, <2>3, <3>2, <3>3, <3>4
  <2>4. IsInjective(all)
    BY <2>3 DEF IsInjective
  <2> QED BY <1>9, <2>4
<1>15. ASSUME ~change, NEW t \in Range(accumulator) \ Range(next)
       PROVE  Saturated(next) /\ \A u \in Range(next) : Rank(u) <= Rank(t)
  <2>1. PICK i \in DOMAIN kept : t = kept[i]
    BY <1>3, <1>15 DEF Range
  <2>2. Len(bodies) + i \in 1 .. Len(all) /\ all[Len(bodies) + i] = t
    BY <1>7, <2>1
  <2>3. ~\E k \in 1 .. m : next[k] = all[Len(bodies) + i]
    BY <1>11, <1>15, <2>2 DEF Range
  <2>4. m = EPOCH_TIMESLOTS /\ \A k \in 1 .. m : Rank(next[k]) <= Rank(t)
    BY <1>9, <2>2, <2>3
  <2> QED BY <1>9, <1>11, <2>4 DEF Range, Saturated
<1> QED BY <1>9, <1>11, <1>12, <1>13, <1>14, <1>15 DEF accumulator, next, entropy, change, ring

-----------------------------------------------------------------------------
(* A block keeps the invariant. *)

\* Slots of one epoch are ordered by their phase, and epochs by their slots.
LEMMA SlotOrder ==
    ASSUME NEW pre \in Nat, NEW slot \in Nat, pre < slot
    PROVE  /\ epoch_number(pre) <= epoch_number(slot)
           /\ ~is_epoch_change(pre, slot) => slot_phase_index(pre) < slot_phase_index(slot)
<1> DEFINE n == EPOCH_TIMESLOTS
           q == epoch_number(pre)
           r == epoch_number(slot)
<1>1. n \in Nat \ {0} /\ pre \in Int /\ slot \in Int
  BY SafroleAssumption
<1>2. /\ q \in Int /\ slot_phase_index(pre) \in 0 .. n - 1 /\ pre = n * q + slot_phase_index(pre)
      /\ r \in Int /\ slot_phase_index(slot) \in 0 .. n - 1 /\ slot = n * r + slot_phase_index(slot)
  BY <1>1, DivMod DEF epoch_number, slot_phase_index
<1> DEFINE x == slot_phase_index(pre)
           y == slot_phase_index(slot)
<1>3. is_epoch_change(pre, slot) <=> q # r
  BY DEF is_epoch_change
<1> HIDE DEF n, q, r, x, y
<1>4. x \in 0 .. n - 1 /\ y \in 0 .. n - 1 /\ pre = n * q + x /\ slot = n * r + y
  BY <1>2 DEF x, y
<1>5. ~(r < q)
  <2> SUFFICES ASSUME r < q PROVE FALSE
    OBVIOUS
  <2> DEFINE d == q - r
  <2>1. d \in Nat /\ d >= 1 /\ q = r + d
    BY <1>2
  <2> HIDE DEF d
  <2>2. n * q = n * r + n * d /\ n * d >= n
    BY <1>1, <1>2, <2>1
  <2>3. n * q \in Int /\ n * r \in Int /\ n * d \in Int
    BY <1>1, <1>2, <2>1
  <2> QED BY <1>1, <1>4, <2>2, <2>3
<1>6. q = r => x < y
  <2> SUFFICES ASSUME q = r PROVE x < y
    OBVIOUS
  <2> DEFINE z == n * q
  <2>1. z \in Int /\ pre = z + x /\ slot = z + y
    BY <1>1, <1>2, <1>4
  <2> HIDE DEF z
  <2> QED BY <1>1, <1>4, <2>1
<1>7. q <= r
  BY <1>2, <1>5
<1> QED BY <1>3, <1>6, <1>7 DEF q, r, x, y

\* The sealing series after a block.
LEMMA SeriesStep ==
    ASSUME ContestInvariant, NEW b, WithTickets(b)
    PROVE  LET s == working_state
               entropy == next_entropy(s.timeslot, b.timeslot, s.entropy)
               pool == NextPool(s, b.timeslot)
               series == slot_sealer_series(s.timeslot, b.timeslot, s.series, s.accumulator, entropy, pool)
           IN  /\ IsSeries(series, entropy[4], pool)
               /\ IsInjective(s.accumulator) /\ (s.series.kind = "tickets" => IsInjective(s.series.of))
                     => (series.kind = "tickets" => IsInjective(series.of))
<1> DEFINE s == working_state
           accumulator == s.accumulator
           entropy == next_entropy(s.timeslot, b.timeslot, s.entropy)
           pool == NextPool(s, b.timeslot)
           change == is_epoch_change(s.timeslot, b.timeslot)
           fallback == enact_fallback_method(s.timeslot, b.timeslot, accumulator)
           series == slot_sealer_series(s.timeslot, b.timeslot, s.series, accumulator, entropy, pool)
<1>1. /\ IsValidatorSet(pool) /\ entropy \in Seq(-3 .. MaxSlot) /\ Len(entropy) = 4
      /\ change => entropy[4] = s.entropy[3]
      /\ ~change => entropy[4] = s.entropy[4]
  BY NextSets DEF WithTickets, Offered
<1>2. /\ change => pool = s.pending
      /\ ~change => pool = s.validator_pool
  BY DEF NextPool, next_validators
<1>3. /\ ~change => series = s.series
      /\ change /\ fallback => series = Keys(fallback_keys(entropy[3], pool))
      /\ change /\ ~fallback => series = Tickets(reorder_list_outside_in(accumulator))
  BY DEF slot_sealer_series
<1>4. /\ accumulator \in Seq(Ticket) /\ Usable(accumulator, s.entropy[3], s.pending)
      /\ IsSeries(s.series, s.entropy[4], s.validator_pool)
  BY DEF ContestInvariant, ContestIsUsable, SeriesIsUsable
<1>5. ~fallback => Saturated(accumulator)
  BY DEF enact_fallback_method
<1> HIDE DEF accumulator, entropy, pool, change, fallback, series
<1>6. CASE ~change
  BY <1>1, <1>2, <1>3, <1>4, <1>6 DEF accumulator, entropy, pool, series
<1>7. CASE change /\ fallback
  <2> DEFINE keys == fallback_keys(entropy[3], pool)
  <2>1. entropy[3] \in -3 .. MaxSlot
    BY <1>1, EntropyAt
  <2>2. pool \in Seq(AllKeys) /\ Len(pool) # 0
    BY <1>1, ValidatorSetFacts
  <2>3. keys \in [1 .. EPOCH_TIMESLOTS -> AllKeys] /\ Range(keys) \subseteq Range(pool)
    BY <2>1, <2>2, FallbackFacts
  <2> HIDE DEF keys
  <2>4. series.kind = "keys" /\ series.of = keys
    BY <1>3, <1>7 DEF Keys, keys
  <2>5. IsSeries(series, entropy[4], pool) /\ series.kind # "tickets"
    BY <2>3, <2>4 DEF IsSeries
  <2> QED BY <2>5 DEF accumulator, entropy, pool, series
<1>8. CASE change /\ ~fallback
  <2> DEFINE of == reorder_list_outside_in(accumulator)
  <2>1. /\ of \in [1 .. EPOCH_TIMESLOTS -> Ticket] /\ Range(of) \subseteq Range(accumulator)
        /\ IsInjective(accumulator) => IsInjective(of)
    BY <1>4, <1>5, <1>8, OutsideIn
  <2> HIDE DEF of
  <2>2. series.kind = "tickets" /\ series.of = of
    BY <1>3, <1>8 DEF Tickets, of
  <2>3. Usable(of, entropy[4], pool)
    BY <1>1, <1>2, <1>4, <1>8, <2>1 DEF Usable
  <2>4. IsSeries(series, entropy[4], pool)
    BY <2>1, <2>2, <2>3 DEF IsSeries
  <2> QED BY <2>1, <2>2, <2>4 DEF accumulator, entropy, pool, series
<1> QED BY <1>6, <1>7, <1>8

\* The marker and the contest close together.
LEMMA MarkStep ==
    ASSUME ContestInvariant, NEW b, WithTickets(b), Apply(b)
    PROVE  MarkIsExact'
<1> DEFINE s == working_state
           pre == s.timeslot
           slot == b.timeslot
           accumulator == s.accumulator
           next == next_accumulator(pre, slot, accumulator, b.tickets)
           change == is_epoch_change(pre, slot)
           late(x) == TICKET_SUBMISSION_END_SLOT <= slot_phase_index(x)
           mark == tickets_mark(pre, slot, accumulator)
<1>1. pre \in Nat /\ slot \in Nat /\ pre < slot
  BY DEF ContestInvariant, ConsensusInvariant, SlotsAndEntropies, WithTickets, Offered, TransitionAccepts
<1>2. working_state'.timeslot = slot /\ working_state'.accumulator = next
  BY DEF Apply, Transitioned
<1>3. announced' = IF change THEN NoMark ELSE IF announced # NoMark THEN announced ELSE mark
  BY DEF Apply
<1>4. late(slot) => next = IF change THEN <<>> ELSE accumulator
  BY AccumulatorStep
<1>5. announced = IF late(pre) /\ Saturated(accumulator)
                  THEN reorder_list_outside_in(accumulator) ELSE NoMark
  BY DEF ContestInvariant, MarkIsExact, Closed
<1>6. accumulator \in Seq(Ticket)
  BY DEF ContestInvariant, ContestIsUsable
<1>7. Saturated(accumulator) => reorder_list_outside_in(accumulator) # NoMark
  BY <1>6, OutsideIn
<1>8. ~change /\ late(pre) => late(slot)
  <2>1. ~change => slot_phase_index(pre) < slot_phase_index(slot)
    BY <1>1, SlotOrder
  <2>2. /\ slot_phase_index(pre) \in Nat /\ slot_phase_index(slot) \in Nat
        /\ TICKET_SUBMISSION_END_SLOT \in Nat
    BY <1>1, PhaseFacts
  <2> QED BY <2>1, <2>2
<1>9. ~late(pre) <=> slot_phase_index(pre) < TICKET_SUBMISSION_END_SLOT
  BY <1>1, PhaseFacts
<1>10. mark = IF ~change /\ ~late(pre) /\ late(slot) /\ Saturated(accumulator)
              THEN reorder_list_outside_in(accumulator) ELSE NoMark
  <2>1. mark = IF /\ ~change
                  /\ slot_phase_index(pre) < TICKET_SUBMISSION_END_SLOT
                  /\ late(slot) /\ Saturated(accumulator)
               THEN reorder_list_outside_in(accumulator) ELSE NoMark
    BY DEF tickets_mark
  <2> HIDE DEF mark, change
  <2> QED BY <1>9, <2>1
<1>11. ~Saturated(<<>>)
  BY SafroleAssumption DEF Saturated
<1>12. MarkIsExact' <=> announced' = IF late(slot) /\ Saturated(next)
                                     THEN reorder_list_outside_in(next) ELSE NoMark
  BY <1>2 DEF MarkIsExact, Closed
<1> HIDE DEF pre, slot, accumulator, next, change, late, mark
<1>13. CASE change
  BY <1>3, <1>4, <1>11, <1>12, <1>13
<1>14. CASE ~change /\ late(pre)
  <2>1. late(slot) /\ next = accumulator
    BY <1>4, <1>8, <1>14
  <2>2. CASE Saturated(accumulator)
    BY <1>3, <1>5, <1>7, <1>12, <1>14, <2>1, <2>2
  <2>3. CASE ~Saturated(accumulator)
    BY <1>3, <1>5, <1>10, <1>12, <1>14, <2>1, <2>3
  <2> QED BY <2>2, <2>3
<1>15. CASE ~change /\ ~late(pre)
  <2>1. announced' = mark
    BY <1>3, <1>5, <1>15
  <2>2. CASE late(slot)
    BY <1>4, <1>10, <1>12, <1>15, <2>1, <2>2
  <2>3. CASE ~late(slot)
    BY <1>10, <1>12, <1>15, <2>1, <2>3
  <2> QED BY <2>2, <2>3
<1> QED BY <1>13, <1>14, <1>15

LEMMA SlotsInRangeStep ==
    ASSUME ContestInvariant, [Next]_vars
    PROVE  SlotsInRange'
<1>0. /\ working_state.timeslot \in Nat /\ current_timeslot \in Nat /\ timeslot_queue \in Seq(Nat)
      /\ MaxSlot \in Nat /\ SlotsInRange
  BY ConsensusAssumption DEF ContestInvariant, ConsensusInvariant, SlotsAndEntropies
<1>1. /\ current_timeslot' <= MaxSlot
      /\ current_timeslot <= current_timeslot' /\ current_timeslot' \in Nat
      /\ \A i \in DOMAIN timeslot_queue' : timeslot_queue'[i] <= current_timeslot'
  <2>0. current_timeslot' = current_timeslot /\ timeslot_queue' = timeslot_queue =>
          /\ current_timeslot' <= MaxSlot
          /\ current_timeslot <= current_timeslot' /\ current_timeslot' \in Nat
          /\ \A i \in DOMAIN timeslot_queue' : timeslot_queue'[i] <= current_timeslot'
    BY <1>0 DEF SlotsInRange
  <2>1. CASE NotifyTimeslot
    <3>1. /\ current_timeslot < MaxSlot /\ current_timeslot' = current_timeslot + 1
          /\ timeslot_queue' = Append(timeslot_queue, current_timeslot + 1)
      BY <2>1 DEF NotifyTimeslot
    <3>2. /\ DOMAIN timeslot_queue' = 1 .. Len(timeslot_queue) + 1
          /\ \A i \in 1 .. Len(timeslot_queue) : timeslot_queue'[i] = timeslot_queue[i]
          /\ timeslot_queue'[Len(timeslot_queue) + 1] = current_timeslot + 1
          /\ Len(timeslot_queue) \in Nat /\ DOMAIN timeslot_queue = 1 .. Len(timeslot_queue)
      BY <1>0, <3>1
    <3>3. \A i \in 1 .. Len(timeslot_queue) :
             timeslot_queue[i] \in Nat /\ timeslot_queue[i] <= current_timeslot
      <4>1. \A i \in 1 .. Len(timeslot_queue) : timeslot_queue[i] \in Nat
        BY <1>0, ElementOfSeq
      <4>2. \A i \in 1 .. Len(timeslot_queue) : timeslot_queue[i] <= current_timeslot
        BY <1>0, <3>2, Zenon DEF SlotsInRange
      <4> QED BY <4>1, <4>2
    <3>4. ASSUME NEW i \in 1 .. Len(timeslot_queue) + 1
          PROVE  timeslot_queue'[i] <= current_timeslot + 1
      <4>1. CASE i \in 1 .. Len(timeslot_queue)
        BY <1>0, <3>2, <3>3, <4>1
      <4>2. CASE i = Len(timeslot_queue) + 1
        BY <1>0, <3>2, <4>2
      <4> QED BY <3>2, <4>1, <4>2
    <3> QED BY <1>0, <3>1, <3>2, <3>4
  <2>2. CASE ImportBlock
    BY <2>0, <2>2 DEF ImportBlock
  <2>3. CASE Wait \/ ProduceBlock \/ DiscardBlock
    <3>1. /\ timeslot_queue # <<>> /\ timeslot_queue' = Tail(timeslot_queue)
          /\ current_timeslot' = current_timeslot
      BY <2>3 DEF Wait, ProduceBlock, DiscardBlock
    <3>2. \A i \in DOMAIN timeslot_queue' :
             i + 1 \in DOMAIN timeslot_queue /\ timeslot_queue'[i] = timeslot_queue[i + 1]
      BY <1>0, <3>1
    <3> QED BY <1>0, <3>1, <3>2 DEF SlotsInRange
  <2>4. CASE UNCHANGED vars
    BY <2>0, <2>4 DEF vars
  <2> QED BY <2>1, <2>2, <2>3, <2>4 DEF Next
<1>2. working_state'.timeslot <= current_timeslot' /\ working_state'.entropy \in Seq(-3 .. MaxSlot)
  <2>1. CASE UNCHANGED <<working_state, announced, judged_at>>
    BY <1>0, <1>1, <2>1 DEF SlotsInRange
  <2>2. ASSUME NEW b, WithTickets(b), Apply(b), UNCHANGED current_timeslot
        PROVE  working_state'.timeslot <= current_timeslot' /\ working_state'.entropy \in Seq(-3 .. MaxSlot)
    <3>1. /\ working_state'.timeslot = b.timeslot
          /\ working_state'.entropy = next_entropy(working_state.timeslot, b.timeslot, working_state.entropy)
      BY <2>2 DEF Apply, Transitioned
    <3>2. b.timeslot \in Nat /\ b.timeslot <= current_timeslot
      BY <2>2 DEF WithTickets, Offered
    <3>3. next_entropy(working_state.timeslot, b.timeslot, working_state.entropy) \in Seq(-3 .. MaxSlot)
      BY <3>2, NextSets
    <3> QED BY <2>2, <3>1, <3>2, <3>3
  <2> QED BY <2>1, <2>2, BlockWithTickets
<1> QED BY <1>1, <1>2 DEF SlotsInRange

LEMMA ContestStep == ContestInvariant /\ [Next]_vars => ContestInvariant'
<1> SUFFICES ASSUME ContestInvariant, [Next]_vars PROVE ContestInvariant'
  OBVIOUS
<1>1. ConsensusInvariant' /\ SlotsInRange' /\ CollectorIsOwn'
  BY ConsensusStep, SlotsInRangeStep, BlockWithTickets DEF ContestInvariant
<1>2. CASE UNCHANGED <<working_state, announced, judged_at>>
  BY <1>1, <1>2 DEF ContestInvariant, ValidatorsAreDesignated, ContestIsUsable, SeriesIsUsable,
                    MarkIsExact, Closed
<1>3. ASSUME NEW b, WithTickets(b), Apply(b) PROVE ContestInvariant'
  <2> DEFINE s == working_state
             entropy == next_entropy(s.timeslot, b.timeslot, s.entropy)
  <2>1. working_state' = Transitioned(s, b)
    BY <1>3 DEF Apply
  <2>2. b.timeslot \in Nat /\ b.timeslot <= current_timeslot
    BY <1>3 DEF WithTickets, Offered
  <2>3. ValidatorsAreDesignated'
    <3>1. IsValidatorSet(NextPending(s, b)) /\ IsValidatorSet(NextPool(s, b.timeslot))
      BY <2>2, NextSets
    <3>2. IsValidatorSet(s.validator_pool) /\ IsValidatorSet(s.validator_archive)
            /\ IsValidatorSet(s.validator_queue)
      BY DEF ContestInvariant, ValidatorsAreDesignated
    <3>3. IsValidatorSet(next_validators(s.timeslot, b.timeslot, s.validator_archive, s.validator_pool))
      BY <3>2 DEF next_validators
    <3>4. IsValidatorSet(b.designated)
      BY <1>3, <3>2, ValidatorSetFacts DEF WithTickets, ValidatorSets
    <3>5. /\ working_state'.validator_pool = NextPool(s, b.timeslot)
          /\ working_state'.validator_archive
               = next_validators(s.timeslot, b.timeslot, s.validator_archive, s.validator_pool)
          /\ working_state'.validator_queue = b.designated
          /\ working_state'.pending = NextPending(s, b)
      BY <2>1 DEF Transitioned
    <3> QED BY <3>1, <3>3, <3>4, <3>5 DEF ValidatorsAreDesignated
  <2>4. ContestIsUsable'
    <3> DEFINE next == next_accumulator(s.timeslot, b.timeslot, s.accumulator, b.tickets)
    <3>1. /\ next \in Seq(Ticket) /\ Len(next) <= EPOCH_TIMESLOTS /\ InOrder(next)
          /\ Usable(next, entropy[3], NextPending(s, b))
      BY <1>3, AccumulatorStep
    <3>2. /\ working_state'.accumulator = next /\ working_state'.entropy = entropy
          /\ working_state'.pending = NextPending(s, b)
      BY <2>1 DEF Transitioned
    <3> HIDE DEF next, entropy
    <3> QED BY <3>1, <3>2 DEF ContestIsUsable
  <2>5. SeriesIsUsable'
    <3> DEFINE pool == NextPool(s, b.timeslot)
               series == slot_sealer_series(s.timeslot, b.timeslot, s.series, s.accumulator, entropy, pool)
    <3>1. IsSeries(series, entropy[4], pool)
      BY <1>3, SeriesStep
    <3>2. /\ working_state'.series = series /\ working_state'.entropy = entropy
          /\ working_state'.validator_pool = pool
      BY <2>1 DEF Transitioned
    <3> HIDE DEF series, pool, entropy
    <3> QED BY <3>1, <3>2 DEF SeriesIsUsable
  <2>6. MarkIsExact'
    BY <1>3, MarkStep
  <2> QED BY <1>1, <2>3, <2>4, <2>5, <2>6 DEF ContestInvariant
<1> QED BY <1>2, <1>3, BlockWithTickets

\* The inductive invariant of the contest: what is in it, in what order, and what was
\* announced of it.
THEOREM ContestInvariantHolds == Spec => []ContestInvariant
  BY ContestInit, ContestStep, PTL DEF Spec

\* A validator makes one proof for a ticket.
OneProof == \A p, q \in Proofs : p = q

\* No ticket is in the contest or in the series twice.
TicketsAreDistinct ==
    /\ IsInjective(working_state.accumulator)
    /\ working_state.series.kind = "tickets" => IsInjective(working_state.series.of)

\* Whoever won a slot can seal it, through changes of the validators, offenders and
\* skipped epochs, as long as a ticket cannot be submitted under two proofs
\* (Safrole.state_transition, Entropy.state_transition).
THEOREM TicketsStayUsable ==
    ASSUME OneProof
    PROVE  Spec => []TicketsAreUsable
<1>1. Init => TicketsAreDistinct
  <2> SUFFICES ASSUME Init PROVE TicketsAreDistinct
    OBVIOUS
  <2>1. working_state.accumulator = <<>> /\ working_state.series.kind = "keys"
    BY DEF Init, Keys
  <2>2. DOMAIN <<>> = {}
    OBVIOUS
  <2>3. "keys" # "tickets"
    OBVIOUS
  <2> QED BY <2>1, <2>2, <2>3 DEF TicketsAreDistinct, IsInjective
<1>2. ContestInvariant /\ TicketsAreDistinct /\ [Next]_vars => TicketsAreDistinct'
  <2> SUFFICES ASSUME ContestInvariant, TicketsAreDistinct, [Next]_vars PROVE TicketsAreDistinct'
    OBVIOUS
  <2>1. CASE UNCHANGED <<working_state, announced, judged_at>>
    BY <2>1 DEF TicketsAreDistinct
  <2>2. ASSUME NEW b, WithTickets(b), Apply(b) PROVE TicketsAreDistinct'
    <3> DEFINE s == working_state
               entropy == next_entropy(s.timeslot, b.timeslot, s.entropy)
               pool == NextPool(s, b.timeslot)
               next == next_accumulator(s.timeslot, b.timeslot, s.accumulator, b.tickets)
               series == slot_sealer_series(s.timeslot, b.timeslot, s.series, s.accumulator, entropy, pool)
    <3>1. IsInjective(next)
      BY <2>2, AccumulatorStep DEF OneProof, TicketsAreDistinct
    <3>2. series.kind = "tickets" => IsInjective(series.of)
      BY <2>2, SeriesStep DEF TicketsAreDistinct
    <3>3. working_state'.accumulator = next /\ working_state'.series = series
      BY <2>2 DEF Apply, Transitioned
    <3> HIDE DEF next, series
    <3> QED BY <3>1, <3>2, <3>3 DEF TicketsAreDistinct
  <2> QED BY <2>1, <2>2, BlockWithTickets
<1>3. ContestInvariant /\ TicketsAreDistinct => TicketsAreUsable
  <2> SUFFICES ASSUME ContestInvariant, TicketsAreDistinct PROVE TicketsAreUsable
    OBVIOUS
  <2>1. "keys" # "tickets"
    OBVIOUS
  <2> QED BY <2>1 DEF ContestInvariant, ContestIsUsable, SeriesIsUsable, IsSeries, Usable,
                      TicketsAreDistinct, TicketsAreUsable
<1> QED BY <1>1, <1>2, <1>3, ContestInvariantHolds, PTL DEF Spec

\* The tickets of an epoch are used exactly when the epoch before announced them, and
\* in that order: what a light client learns from the markers is what validators do.
THEOREM SeriesIsAnnounced == Spec => SeriesWasAnnounced
<1> DEFINE Announced ==
      is_epoch_change(working_state.timeslot, working_state'.timeslot) =>
          LET due == IF /\ announced # NoMark
                        /\ epoch_number(working_state'.timeslot) = epoch_number(working_state.timeslot) + 1
                     THEN Tickets(announced)
                     ELSE Keys(fallback_keys(working_state'.entropy[3], working_state'.validator_pool))
          IN  working_state'.series.kind = due.kind /\ working_state'.series.of = due.of
<1>1. ContestInvariant /\ [Next]_vars => [Announced]_vars
  <2> SUFFICES ASSUME ContestInvariant, [Next]_vars PROVE Announced
    OBVIOUS
  <2>1. CASE UNCHANGED <<working_state, announced, judged_at>>
    BY <2>1 DEF is_epoch_change
  <2>2. ASSUME NEW b, WithTickets(b), Apply(b) PROVE Announced
    <3> DEFINE s == working_state
               pre == s.timeslot
               slot == b.timeslot
               accumulator == s.accumulator
               entropy == next_entropy(pre, slot, s.entropy)
               pool == NextPool(s, slot)
               keys == Keys(fallback_keys(entropy[3], pool))
    <3>1. /\ working_state'.timeslot = slot /\ working_state'.entropy = entropy
          /\ working_state'.validator_pool = pool
          /\ working_state'.series
               = slot_sealer_series(pre, slot, s.series, accumulator, entropy, pool)
      BY <2>2 DEF Apply, Transitioned
    <3>2. pre \in Nat /\ slot \in Nat /\ pre < slot
      BY <2>2 DEF ContestInvariant, ConsensusInvariant, SlotsAndEntropies, WithTickets, Offered,
                  TransitionAccepts
    <3>3. /\ epoch_number(pre) <= epoch_number(slot)
          /\ epoch_number(pre) \in Int /\ epoch_number(slot) \in Int
      BY <3>2, SlotOrder, PhaseFacts
    <3>4. announced = IF Closed(s) THEN reorder_list_outside_in(accumulator) ELSE NoMark
      BY DEF ContestInvariant, MarkIsExact
    <3>5. Saturated(accumulator) => reorder_list_outside_in(accumulator) # NoMark
      BY OutsideIn DEF ContestInvariant, ContestIsUsable
    <3>6. announced # NoMark <=> Closed(s)
      BY <3>4, <3>5 DEF Closed
    <3>7. ~(slot_phase_index(pre) < TICKET_SUBMISSION_END_SLOT)
             <=> TICKET_SUBMISSION_END_SLOT <= slot_phase_index(pre)
      BY <3>2, PhaseFacts
    <3> SUFFICES ASSUME is_epoch_change(pre, slot)
                 PROVE  LET due == IF announced # NoMark /\ epoch_number(slot) = epoch_number(pre) + 1
                                   THEN Tickets(announced) ELSE keys
                        IN  working_state'.series = due
      BY <3>1, Zenon
    <3>8. epoch_number(slot) = epoch_number(pre) + 1 <=> ~(epoch_number(slot) - epoch_number(pre) > 1)
      BY <3>3 DEF is_epoch_change
    <3>9. enact_fallback_method(pre, slot, accumulator)
             <=> ~(announced # NoMark /\ epoch_number(slot) = epoch_number(pre) + 1)
      <4>1. enact_fallback_method(pre, slot, accumulator)
              <=> \/ ~Saturated(accumulator)
                  \/ slot_phase_index(pre) < TICKET_SUBMISSION_END_SLOT
                  \/ epoch_number(slot) - epoch_number(pre) > 1
        BY DEF enact_fallback_method
      <4>2. Closed(s) <=> /\ TICKET_SUBMISSION_END_SLOT <= slot_phase_index(pre)
                          /\ Saturated(accumulator)
        BY DEF Closed
      <4> HIDE DEF pre, slot, accumulator, s
      <4> QED BY <3>6, <3>7, <3>8, <4>1, <4>2, Zenon
    <3>10. working_state'.series
             = IF enact_fallback_method(pre, slot, accumulator)
               THEN keys ELSE Tickets(reorder_list_outside_in(accumulator))
      BY <3>1 DEF slot_sealer_series
    <3> HIDE DEF pre, slot, accumulator, s, keys
    <3> QED BY <3>4, <3>6, <3>9, <3>10
  <2> QED BY <2>1, <2>2, BlockWithTickets
<1> QED BY <1>1, ContestInvariantHolds, PTL DEF Spec, SeriesWasAnnounced

\* A ticket leaves the contest of its epoch only when an epoch full of tickets beats it,
\* whoever submits them and in whatever blocks.
THEOREM FairContest == Spec => ContestIsFair
<1> DEFINE Fair ==
      \A t \in Range(working_state.accumulator) \ Range(working_state'.accumulator) :
          \/ is_epoch_change(working_state.timeslot, working_state'.timeslot)
          \/ /\ Saturated(working_state'.accumulator)
             /\ \A u \in Range(working_state'.accumulator) : Rank(u) <= Rank(t)
<1>1. ContestInvariant /\ [Next]_vars => [Fair]_vars
  <2> SUFFICES ASSUME ContestInvariant, [Next]_vars PROVE Fair
    OBVIOUS
  <2>1. CASE UNCHANGED <<working_state, announced, judged_at>>
    BY <2>1
  <2>2. ASSUME NEW b, WithTickets(b), Apply(b) PROVE Fair
    <3> DEFINE s == working_state
               next == next_accumulator(s.timeslot, b.timeslot, s.accumulator, b.tickets)
    <3>1. working_state'.timeslot = b.timeslot /\ working_state'.accumulator = next
      BY <2>2 DEF Apply, Transitioned
    <3>2. ~is_epoch_change(s.timeslot, b.timeslot) =>
             \A t \in Range(s.accumulator) \ Range(next) :
                Saturated(next) /\ \A u \in Range(next) : Rank(u) <= Rank(t)
      BY <2>2, AccumulatorStep
    <3> HIDE DEF next
    <3> QED BY <3>1, <3>2, Zenon
  <2> QED BY <2>1, <2>2, BlockWithTickets
<1> QED BY <1>1, ContestInvariantHolds, PTL DEF Spec, ContestIsFair

\* When the node decides to produce a block, it is a validator of the pool after the
\* block and the slot is one it won.
LEMMA OwnSlot ==
    ASSUME ContestInvariant, NEW slot \in Nat, slot <= current_timeslot, Producing(slot)
    PROVE  LET s == working_state
               entropy == next_entropy(s.timeslot, slot, s.entropy)
               pool == NextPool(s, slot)
               series == slot_sealer_series(s.timeslot, slot, s.series, s.accumulator, entropy, pool)
           IN  IsSeries(series, entropy[4], pool) =>
                  /\ get_author_index(s, slot) \in DOMAIN pool
                  /\ pool[get_author_index(s, slot)] = Me
                  /\ seal_verifies(Me, series, slot, entropy)
<1> DEFINE s == working_state
           entropy == next_entropy(s.timeslot, slot, s.entropy)
           pool == NextPool(s, slot)
           series == slot_sealer_series(s.timeslot, slot, s.series, s.accumulator, entropy, pool)
           phase == slot_phase_index(slot) + 1
           due == series.of[phase]
<1> SUFFICES ASSUME IsSeries(series, entropy[4], pool)
             PROVE  /\ get_author_index(s, slot) \in DOMAIN pool
                    /\ pool[get_author_index(s, slot)] = Me
                    /\ seal_verifies(Me, series, slot, entropy)
  BY Zenon
<1>1. Looked(s, slot).series = series
  BY DEF Looked, Transitioned, slot_sealer_series
<1>2. Prepared(slot) \in Collector
  BY LookedFacts
<1>3. phase \in 1 .. EPOCH_TIMESLOTS
  <2>1. EPOCH_TIMESLOTS \in Nat \ {0} /\ slot \in Int
    BY SafroleAssumption
  <2>2. slot_phase_index(slot) \in 0 .. EPOCH_TIMESLOTS - 1
    BY <2>1, DivMod DEF slot_phase_index
  <2> QED BY <2>1, <2>2
<1>4. IF series.kind = "tickets" THEN due \in Range(Prepared(slot).own_tickets_current) ELSE due = Me
  BY <1>1 DEF Producing, should_produce_block
<1>5. seal_verifies(Me, series, slot, entropy)
         <=> IF series.kind = "tickets"
             THEN due = [key |-> Me, entropy |-> entropy[4], attempt |-> due.attempt]
             ELSE due = Me
  BY DEF seal_verifies
<1> HIDE DEF s, entropy, pool, series, phase
<1>6. Me \in Range(pool) /\ seal_verifies(Me, series, slot, entropy)
  <2>1. CASE series.kind = "tickets"
    <3>1. /\ series.of \in [1 .. EPOCH_TIMESLOTS -> Ticket]
          /\ Usable(series.of, entropy[4], pool)
      BY <2>1 DEF IsSeries
    <3>2. due \in Ticket /\ due \in Range(series.of)
      BY <1>3, <3>1 DEF Range
    <3>3. due.entropy = entropy[4] /\ due.key \in Range(pool)
      BY <3>1, <3>2 DEF Usable
    <3>4. due.key = Me
      <4>1. Prepared(slot).own_tickets_current \in Seq(Own)
        BY <1>2 DEF Collector
      <4>2. Range(Prepared(slot).own_tickets_current) \subseteq Own
        BY <4>1 DEF Range
      <4>3. due \in Own
        BY <1>4, <2>1, <4>2
      <4> QED BY <4>3 DEF Own
    <3>5. due = [key |-> Me, entropy |-> entropy[4], attempt |-> due.attempt]
      <4> HIDE DEF due
      <4> QED BY <3>2, <3>3, <3>4 DEF Ticket
    <3> QED BY <1>5, <2>1, <3>3, <3>4, <3>5
  <2>2. CASE series.kind # "tickets"
    <3>1. /\ series.of \in [1 .. EPOCH_TIMESLOTS -> AllKeys]
          /\ Range(series.of) \subseteq Range(pool)
      BY <2>2 DEF IsSeries
    <3>2. due \in Range(pool) /\ due = Me
      BY <1>3, <1>4, <2>2, <3>1 DEF Range
    <3> QED BY <1>5, <2>2, <3>2
  <2> QED BY <2>1, <2>2
<1>7. get_author_index(s, slot) \in DOMAIN pool /\ pool[get_author_index(s, slot)] = Me
  <2>1. get_author_index(s, slot) = CHOOSE i \in DOMAIN pool : pool[i] = Me
    BY DEF get_author_index, pool
  <2>2. \E i \in DOMAIN pool : pool[i] = Me
    BY <1>6 DEF Range
  <2> QED BY <2>1, <2>2
<1> QED BY <1>6, <1>7

\* Every block this node produces carries a seal that other nodes accept: the slot it
\* takes is one it won, under the validators and the entropy after the block
\* (should_produce_block, get_author_index, generate_block_seal).
THEOREM OwnBlocksAreSealed == Spec => OwnBlocksVerify
<1> DEFINE Verifies ==
      produced' # produced =>
          /\ working_state'.validator_pool[produced'.author_index] = Me
          /\ seal_verifies(Me, working_state'.series, produced'.timeslot, working_state'.entropy)
<1>1. ContestInvariant /\ [Next]_vars => [Verifies]_vars
  <2> SUFFICES ASSUME ContestInvariant, [Next]_vars, produced' # produced
               PROVE  /\ working_state'.validator_pool[produced'.author_index] = Me
                      /\ seal_verifies(Me, working_state'.series, produced'.timeslot, working_state'.entropy)
    OBVIOUS
  <2>1. ProduceBlock
    BY DEF Next, NotifyTimeslot, ImportBlock, Wait, DiscardBlock, vars
  <2> DEFINE s == working_state
             slot == Head(timeslot_queue)
             entropy == next_entropy(s.timeslot, slot, s.entropy)
             pool == NextPool(s, slot)
             series == slot_sealer_series(s.timeslot, slot, s.series, s.accumulator, entropy, pool)
  <2>2. PICK designated \in Designations \cup {s.validator_queue} :
          /\ Producing(slot)
          /\ Apply(OwnBlock(slot, designated))
          /\ produced' = [timeslot |-> slot, author_index |-> OwnBlock(slot, designated).author_index]
    BY <2>1, Zenon DEF ProduceBlock
  <2>3. /\ produced'.timeslot = slot
        /\ produced'.author_index = get_author_index(s, slot)
    BY <2>2 DEF OwnBlock
  <2>4. /\ working_state'.series = series /\ working_state'.entropy = entropy
        /\ working_state'.validator_pool = pool
    <3>1. OwnBlock(slot, designated).timeslot = slot
      BY DEF OwnBlock
    <3> QED BY <2>2, <3>1 DEF Apply, Transitioned
  <2>5. ContestInvariant'
    BY ContestStep
  <2>6. IsSeries(series, entropy[4], pool)
    BY <2>4, <2>5 DEF ContestInvariant, SeriesIsUsable
  <2>7. slot \in Nat /\ slot <= current_timeslot
    <3>1. timeslot_queue # <<>> /\ timeslot_queue \in Seq(Nat)
      BY <2>1 DEF ProduceBlock, ContestInvariant, ConsensusInvariant, SlotsAndEntropies
    <3>2. slot = timeslot_queue[1] /\ 1 \in DOMAIN timeslot_queue /\ slot \in Nat
      BY <3>1
    <3> QED BY <3>2 DEF ContestInvariant, SlotsInRange
  <2> HIDE DEF slot
  <2>8. /\ pool[get_author_index(s, slot)] = Me
        /\ seal_verifies(Me, series, slot, entropy)
    BY <2>2, <2>6, <2>7, OwnSlot
  <2> HIDE DEF s, entropy, pool, series
  <2> QED BY <2>3, <2>4, <2>8
<1> QED BY <1>1, ContestInvariantHolds, PTL DEF Spec, OwnBlocksVerify

\* The components keep their shape.
THEOREM TypeCorrect == Spec => []TypeOK
<1>1. ContestInvariant => TypeOK
  <2> SUFFICES ASSUME ContestInvariant PROVE TypeOK
    OBVIOUS
  <2> DEFINE s == working_state
  <2>1. s.timeslot \in 0 .. current_timeslot
    BY DEF ContestInvariant, ConsensusInvariant, SlotsAndEntropies, SlotsInRange
  <2>2. s.entropy \in [1 .. 4 -> -3 .. MaxSlot]
    <3>1. s.entropy \in Seq(-3 .. MaxSlot) /\ Len(s.entropy) = 4
      BY DEF ContestInvariant, ConsensusInvariant, SlotsAndEntropies, SlotsInRange
    <3> DEFINE e == s.entropy
    <3> HIDE DEF e
    <3>2. e \in [1 .. Len(e) -> -3 .. MaxSlot] /\ Len(e) = 4
      BY <3>1, LenProperties DEF e
    <3> QED BY <3>2 DEF e
  <2>3. ASSUME NEW vs, IsValidatorSet(vs) PROVE Len(vs) >= 6 /\ Range(vs) \subseteq AllKeys
    <3>1. vs \in Seq(AllKeys)
      BY <2>3, ValidatorSetFacts
    <3>2. PICK w \in ValidatorSets : Len(vs) = Len(w)
      BY <2>3 DEF IsValidatorSet
    <3>3. Len(w) >= 6
      BY ConsensusAssumption DEF ValidatorSets
    <3> QED BY <3>1, <3>2, <3>3 DEF Range
  <2>4. \A vs \in {s.validator_pool, s.validator_archive, s.validator_queue, s.pending} :
           Len(vs) >= 6 /\ Range(vs) \subseteq AllKeys
    BY <2>3 DEF ContestInvariant, ValidatorsAreDesignated
  <2>5. /\ Len(s.series.of) = EPOCH_TIMESLOTS
        /\ Range(s.series.of) \subseteq IF s.series.kind = "tickets" THEN Ticket ELSE AllKeys
    <3>0. EPOCH_TIMESLOTS \in Nat /\ "keys" # "tickets"
      BY SafroleAssumption
    <3>1. CASE s.series.kind = "tickets" /\ s.series.of \in [1 .. EPOCH_TIMESLOTS -> Ticket]
      BY <3>0, <3>1 DEF Range
    <3>2. CASE s.series.kind = "keys" /\ s.series.of \in [1 .. EPOCH_TIMESLOTS -> AllKeys]
      BY <3>0, <3>2 DEF Range
    <3> QED BY <3>1, <3>2 DEF ContestInvariant, SeriesIsUsable, IsSeries
  <2>6. Len(s.accumulator) <= EPOCH_TIMESLOTS /\ Range(s.accumulator) \subseteq Ticket
    BY DEF ContestInvariant, ContestIsUsable, Range
  <2>7. extrinsics.tickets_queue \subseteq Ticket
    BY DEF ContestInvariant, CollectorIsOwn, Collector, Own
  <2>8. \A own \in {extrinsics.own_tickets_next, extrinsics.own_tickets_current} :
           \A t \in Range(own) : t \in Ticket /\ t.key = Me
    <3>1. extrinsics.own_tickets_next \in Seq(Own) /\ extrinsics.own_tickets_current \in Seq(Own)
      BY DEF ContestInvariant, CollectorIsOwn, Collector
    <3>2. ASSUME NEW own \in Seq(Own), NEW t \in Range(own) PROVE t \in Ticket /\ t.key = Me
      <4>1. t \in Own
        BY DEF Range
      <4> QED BY <4>1 DEF Own
    <3> QED BY <3>1, <3>2
  <2>9. DOMAIN judged_at = s.disputes.offenders
    BY DEF ContestInvariant, ConsensusInvariant, OffendersAreDated
  <2> QED BY <2>1, <2>2, <2>4, <2>5, <2>6, <2>7, <2>8, <2>9, Zenon DEF TypeOK
<1> QED BY <1>1, ContestInvariantHolds, PTL

-----------------------------------------------------------------------------
(* The statistics of an epoch account for its contest. *)

\* Records of activity, and what they add up to.
Records(v) ==
    /\ IsFiniteSet(DOMAIN v)
    /\ \A i \in DOMAIN v : v[i].blocks \in Nat /\ v[i].tickets \in Nat

BlocksOf(v) == SumFunction([i \in DOMAIN v |-> v[i].blocks])
TicketsOf(v) == SumFunction([i \in DOMAIN v |-> v[i].tickets])

\* The records of an epoch that has just begun.
LEMMA IdleFacts ==
    ASSUME NEW validators, IsValidatorSet(validators)
    PROVE  LET v == Idle(validators)
           IN  /\ Records(v) /\ DOMAIN v = DOMAIN validators
               /\ BlocksOf(v) = 0 /\ TicketsOf(v) = 0
               /\ \A i \in DOMAIN v : v[i].blocks = 0
<1> DEFINE v == Idle(validators)
           f == [i \in DOMAIN v |-> v[i].blocks]
           g == [i \in DOMAIN v |-> v[i].tickets]
<1>1. validators \in Seq(AllKeys)
  BY DEF IsValidatorSet
<1>2. DOMAIN validators = 1 .. Len(validators) /\ Len(validators) \in Nat
  BY <1>1
<1>3. IsFiniteSet(DOMAIN validators)
  BY <1>2, FS_Interval
<1>4. DOMAIN v = DOMAIN validators /\ \A i \in DOMAIN v : v[i].blocks = 0 /\ v[i].tickets = 0
  BY DEF Idle
<1> HIDE DEF v
<1>5. SumFunction(f) = 0
  <2>1. DOMAIN f = DOMAIN v /\ \A i \in DOMAIN f : f[i] = 0
    BY <1>4
  <2> HIDE DEF f
  <2> QED BY <1>3, <1>4, <2>1, SumOfZeros
<1>6. SumFunction(g) = 0
  <2>1. DOMAIN g = DOMAIN v /\ \A i \in DOMAIN g : g[i] = 0
    BY <1>4
  <2> HIDE DEF g
  <2> QED BY <1>3, <1>4, <2>1, SumOfZeros
<1> QED BY <1>3, <1>4, <1>5, <1>6 DEF v, Records, BlocksOf, TicketsOf

\* A block is credited to its author, with its tickets.
LEMMA CreditFacts ==
    ASSUME NEW v, Records(v), NEW author \in DOMAIN v, NEW n \in Nat
    PROVE  LET w == [v EXCEPT ![author] = [blocks |-> @.blocks + 1, tickets |-> @.tickets + n]]
           IN  /\ Records(w) /\ DOMAIN w = DOMAIN v
               /\ BlocksOf(w) = BlocksOf(v) + 1 /\ TicketsOf(w) = TicketsOf(v) + n
               /\ BlocksOf(v) \in Int /\ TicketsOf(v) \in Nat
               /\ \A i \in DOMAIN v : w[i].blocks > 0 => i = author \/ v[i].blocks > 0
<1> DEFINE w == [v EXCEPT ![author] = [blocks |-> @.blocks + 1, tickets |-> @.tickets + n]]
           f == [i \in DOMAIN v |-> v[i].blocks]
           g == [i \in DOMAIN v |-> v[i].tickets]
           h == [i \in DOMAIN w |-> w[i].blocks]
           k == [i \in DOMAIN w |-> w[i].tickets]
<1>1. IsFiniteSet(DOMAIN v) /\ \A i \in DOMAIN v : v[i].blocks \in Nat /\ v[i].tickets \in Nat
  BY DEF Records
<1>2. /\ DOMAIN w = DOMAIN v
      /\ w[author].blocks = v[author].blocks + 1 /\ w[author].tickets = v[author].tickets + n
      /\ \A i \in DOMAIN v : i # author => w[i] = v[i]
  OBVIOUS
<1> HIDE DEF w
<1>3. Records(w)
  <2>1. ASSUME NEW i \in DOMAIN v PROVE w[i].blocks \in Nat /\ w[i].tickets \in Nat
    <3>1. CASE i = author
      BY <1>1, <1>2, <3>1
    <3>2. CASE i # author
      BY <1>1, <1>2, <3>2
    <3> QED BY <3>1, <3>2
  <2> QED BY <1>1, <1>2, <2>1 DEF Records
<1>4. SumFunction(h) = SumFunction(f) + 1
  <2> DEFINE one == 1
  <2>1. /\ DOMAIN f = DOMAIN v /\ DOMAIN h = DOMAIN v
        /\ \A i \in DOMAIN v : f[i] = v[i].blocks /\ h[i] = w[i].blocks
    BY <1>2
  <2>2. \A i \in DOMAIN f : f[i] \in Int
    BY <1>1, <2>1
  <2>3. \A i \in DOMAIN f : h[i] = IF i = author THEN f[i] + one ELSE f[i]
    BY <1>2, <2>1
  <2>4. IsFiniteSet(DOMAIN f) /\ DOMAIN h = DOMAIN f /\ author \in DOMAIN f /\ one \in Int
    BY <1>1, <2>1
  <2> HIDE DEF f, h, one
  <2>5. SumFunction(h) = SumFunction(f) + one
    BY ONLY <2>2, <2>3, <2>4, SumChange
  <2> QED BY <2>5 DEF one
<1>5. SumFunction(k) = SumFunction(g) + n
  <2>1. /\ DOMAIN g = DOMAIN v /\ DOMAIN k = DOMAIN v
        /\ \A i \in DOMAIN v : g[i] = v[i].tickets /\ k[i] = w[i].tickets
    BY <1>2
  <2>2. \A i \in DOMAIN g : g[i] \in Int
    BY <1>1, <2>1
  <2>3. \A i \in DOMAIN g : k[i] = IF i = author THEN g[i] + n ELSE g[i]
    BY <1>2, <2>1
  <2>4. IsFiniteSet(DOMAIN g) /\ DOMAIN k = DOMAIN g /\ author \in DOMAIN g /\ n \in Int
    BY <1>1, <2>1
  <2> HIDE DEF g, k
  <2> QED BY ONLY <2>2, <2>3, <2>4, SumChange
<1>6. SumFunction(f) \in Int
  <2>1. DOMAIN f = DOMAIN v /\ \A i \in DOMAIN v : f[i] \in Int
    BY <1>1
  <2> HIDE DEF f
  <2> QED BY <1>1, <2>1, SumType DEF SumFunction
<1>7. SumFunction(g) \in Nat
  <2>1. DOMAIN g = DOMAIN v /\ \A i \in DOMAIN v : g[i] \in Int /\ g[i] >= 0
    BY <1>1
  <2> HIDE DEF g
  <2>2. SumFunctionOnSet(g, DOMAIN v) \in Int /\ SumFunctionOnSet(g, DOMAIN v) >= 0
    BY <1>1, <2>1, SumType
  <2> QED BY <2>1, <2>2 DEF SumFunction
<1>8. \A i \in DOMAIN v : w[i].blocks > 0 => i = author \/ v[i].blocks > 0
  BY <1>2
<1> QED BY <1>2, <1>3, <1>4, <1>5, <1>6, <1>7, <1>8 DEF w, BlocksOf, TicketsOf

\* The contest holds what it held and the tickets of the block, up to an epoch full.
LEMMA ContestLength ==
    ASSUME ContestInvariant, NEW b, WithTickets(b)
    PROVE  LET s == working_state
               next == next_accumulator(s.timeslot, b.timeslot, s.accumulator, b.tickets)
               before == IF is_epoch_change(s.timeslot, b.timeslot) THEN 0 ELSE Len(s.accumulator)
               n == Len(b.tickets) + before
           IN  /\ Len(b.tickets) \in Nat
               /\ Len(next) = IF n < EPOCH_TIMESLOTS THEN n ELSE EPOCH_TIMESLOTS
<1> DEFINE s == working_state
           bodies == [i \in DOMAIN b.tickets |-> Body(b.tickets[i])]
           kept == kept_tickets(s.timeslot, b.timeslot, s.accumulator)
           before == IF is_epoch_change(s.timeslot, b.timeslot) THEN 0 ELSE Len(s.accumulator)
           all == bodies \o kept
           tickets == b.tickets
<1>1. bodies \in Seq(Ticket)
  BY AcceptedTickets
<1>2. tickets \in Seq(Envelope)
  BY DEF WithTickets
<1>3. Len(bodies) = Len(tickets) /\ Len(tickets) \in Nat
  <2>1. bodies = [i \in DOMAIN tickets |-> Body(tickets[i])]
    OBVIOUS
  <2> HIDE DEF tickets, bodies
  <2>2. DOMAIN tickets = 1 .. Len(tickets) /\ Len(tickets) \in Nat
    BY <1>2
  <2>3. DOMAIN bodies = 1 .. Len(tickets)
    BY <2>1, <2>2
  <2>4. DOMAIN bodies = 1 .. Len(bodies) /\ Len(bodies) \in Nat
    BY <1>1
  <2> QED BY <2>2, <2>3, <2>4
<1>4. kept \in Seq(Ticket) /\ Len(kept) = before
  <2>1. s.accumulator \in Seq(Ticket)
    BY DEF ContestInvariant, ContestIsUsable
  <2>2. kept = IF is_epoch_change(s.timeslot, b.timeslot) THEN <<>> ELSE s.accumulator
    BY DEF kept_tickets
  <2> HIDE DEF s, kept
  <2> QED BY <2>1, <2>2
<1>5. next_accumulator(s.timeslot, b.timeslot, s.accumulator, tickets) = Lowest(all)
  BY DEF next_accumulator
<1> HIDE DEF bodies, kept, before, tickets
<1>6. all \in Seq(Ticket) /\ Len(all) = Len(tickets) + before
  BY <1>1, <1>3, <1>4
<1> HIDE DEF all
<1>7. Len(Lowest(all)) = IF Len(all) < EPOCH_TIMESLOTS THEN Len(all) ELSE EPOCH_TIMESLOTS
  BY <1>6, LowestFacts
<1> QED BY <1>3, <1>5, <1>6, <1>7 DEF tickets, before

\* The author of a block has a place and a key in the pool after it.
LEMMA AuthorHasKey ==
    ASSUME ContestInvariant, NEW b, WithTickets(b)
    PROVE  LET pool == NextPool(working_state, b.timeslot)
           IN  b.author_index \in DOMAIN pool /\ pool[b.author_index] # NullKey
<1> DEFINE s == working_state
           slot == b.timeslot
           pool == NextPool(s, slot)
<1>1. slot \in Nat /\ slot <= current_timeslot
  BY DEF WithTickets, Offered
<1>2. CASE b.author_index \in DOMAIN pool /\ pool[b.author_index] # NullKey
  BY <1>2
<1>3. CASE Producing(slot) /\ b.author_index = get_author_index(s, slot)
  <2> DEFINE entropy == next_entropy(s.timeslot, slot, s.entropy)
             series == slot_sealer_series(s.timeslot, slot, s.series, s.accumulator, entropy, pool)
  <2>1. IsSeries(series, entropy[4], pool)
    BY SeriesStep
  <2> HIDE DEF slot
  <2>2. get_author_index(s, slot) \in DOMAIN pool /\ pool[get_author_index(s, slot)] = Me
    BY <1>1, <1>3, <2>1, OwnSlot
  <2>3. Me # NullKey
    BY ConsensusAssumption
  <2> QED BY <1>3, <2>2, <2>3 DEF slot
<1> QED BY <1>2, <1>3 DEF WithTickets, Authored

\* The records keep their type, and add up.
RecordsAddUp == Records(working_state.vals_current) /\ StatisticsMatchTheContest

\* What a block leaves, in terms of the records before it or of those of a new epoch.
LEMMA StatisticsStep ==
    ASSUME ContestInvariant, RecordsAddUp, NEW b, WithTickets(b), Apply(b)
    PROVE  RecordsAddUp'
<1> DEFINE s == working_state
           t == working_state'
           pre == s.timeslot
           slot == b.timeslot
           change == is_epoch_change(pre, slot)
           pool == NextPool(s, slot)
           n == Len(b.tickets)
           base == IF change THEN Idle(pool) ELSE s.vals_current
           next == next_accumulator(pre, slot, s.accumulator, b.tickets)
           before == IF change THEN 0 ELSE Len(s.accumulator)
           w == [base EXCEPT ![b.author_index] =
                   [blocks |-> @.blocks + 1, tickets |-> @.tickets + n]]
           limit(x) == IF x < EPOCH_TIMESLOTS THEN x ELSE EPOCH_TIMESLOTS
<1>1. /\ t.timeslot = slot /\ t.accumulator = next /\ t.validator_pool = pool
      /\ t.validator_archive = IF change THEN s.validator_pool ELSE s.validator_archive
      /\ t.vals_current = w
      /\ t.vals_last = IF change THEN s.vals_current ELSE s.vals_last
  BY DEF Apply, Transitioned, next_statistics, next_validators
<1>2. pre \in Nat /\ slot \in Nat /\ pre < slot
  BY DEF ContestInvariant, ConsensusInvariant, SlotsAndEntropies, WithTickets, Offered, TransitionAccepts
<1>3. /\ Records(s.vals_current)
      /\ DOMAIN s.vals_current = DOMAIN s.validator_pool
      /\ DOMAIN s.vals_last = DOMAIN s.validator_archive
      /\ Len(s.accumulator) = limit(TicketsOf(s.vals_current))
      /\ BlocksOf(s.vals_current) <= slot_phase_index(pre) + 1
      /\ \A i \in DOMAIN s.vals_current :
            s.vals_current[i].blocks > 0 => s.validator_pool[i] # NullKey
  BY DEF RecordsAddUp, StatisticsMatchTheContest, TicketsOf, BlocksOf
<1>4. IsValidatorSet(pool)
  BY NextSets DEF WithTickets, Offered
<1>5. b.author_index \in DOMAIN pool /\ pool[b.author_index] # NullKey
  BY AuthorHasKey
<1>6. n \in Nat /\ Len(next) = limit(n + before)
  BY ContestLength
<1>7. ~change => pool = s.validator_pool
  BY DEF NextPool, next_validators
<1>8. /\ slot_phase_index(pre) \in Nat /\ slot_phase_index(slot) \in Nat
      /\ ~change => slot_phase_index(pre) < slot_phase_index(slot)
  BY <1>2, PhaseFacts, SlotOrder
<1>9. EPOCH_TIMESLOTS \in Nat
  BY SafroleAssumption
<1>10. RecordsAddUp' <=> /\ Records(t.vals_current)
                         /\ DOMAIN t.vals_current = DOMAIN t.validator_pool
                         /\ DOMAIN t.vals_last = DOMAIN t.validator_archive
                         /\ Len(t.accumulator) = limit(TicketsOf(t.vals_current))
                         /\ BlocksOf(t.vals_current) <= slot_phase_index(t.timeslot) + 1
                         /\ \A i \in DOMAIN t.vals_current :
                               t.vals_current[i].blocks > 0 => t.validator_pool[i] # NullKey
  BY DEF RecordsAddUp, StatisticsMatchTheContest, TicketsOf, BlocksOf
<1> HIDE DEF s, t, pre, slot, change, pool, n, next
<1>11. /\ Records(base) /\ DOMAIN base = DOMAIN pool
       /\ before = limit(TicketsOf(base))
       /\ BlocksOf(base) <= slot_phase_index(slot)
       /\ \A i \in DOMAIN base : base[i].blocks > 0 => pool[i] # NullKey
  <2>1. CASE change
    <3>1. base = Idle(pool) /\ before = 0
      BY <2>1
    <3> HIDE DEF base, before
    <3>2. /\ Records(base) /\ DOMAIN base = DOMAIN pool
          /\ BlocksOf(base) = 0 /\ TicketsOf(base) = 0
          /\ \A i \in DOMAIN base : base[i].blocks = 0
      BY <1>4, <3>1, IdleFacts
    <3>3. EPOCH_TIMESLOTS # 0
      BY SafroleAssumption
    <3>4. before = limit(TicketsOf(base)) /\ BlocksOf(base) <= slot_phase_index(slot)
      BY <1>8, <1>9, <3>1, <3>2
    <3>5. \A i \in DOMAIN base : ~(base[i].blocks > 0)
      BY <3>2
    <3> QED BY <3>2, <3>4, <3>5
  <2>2. CASE ~change
    <3>1. base = s.vals_current /\ before = Len(s.accumulator) /\ pool = s.validator_pool
      BY <1>7, <2>2
    <3> HIDE DEF base, before
    <3>2. BlocksOf(base) \in Int
      <4>1. b.author_index \in DOMAIN base /\ Records(base)
        BY <1>3, <1>5, <3>1
      <4> QED BY <1>6, <4>1, CreditFacts
    <3>3. BlocksOf(base) <= slot_phase_index(slot)
      BY <1>3, <1>8, <2>2, <3>1, <3>2
    <3> QED BY <1>3, <3>1, <3>3
  <2> QED BY <2>1, <2>2
<1> HIDE DEF base, before
<1>12. /\ Records(w) /\ DOMAIN w = DOMAIN base
       /\ BlocksOf(w) = BlocksOf(base) + 1 /\ TicketsOf(w) = TicketsOf(base) + n
       /\ BlocksOf(base) \in Int /\ TicketsOf(base) \in Nat
       /\ \A i \in DOMAIN base : w[i].blocks > 0 => i = b.author_index \/ base[i].blocks > 0
  <2>1. b.author_index \in DOMAIN base
    BY <1>5, <1>11
  <2> QED BY <1>6, <1>11, <2>1, CreditFacts
<1> HIDE DEF w
<1>13. Len(next) = limit(TicketsOf(w))
  BY <1>6, <1>9, <1>11, <1>12
<1>14. BlocksOf(w) <= slot_phase_index(slot) + 1
  BY <1>8, <1>11, <1>12
<1>15. \A i \in DOMAIN w : w[i].blocks > 0 => pool[i] # NullKey
  BY <1>5, <1>11, <1>12
<1>16. DOMAIN t.vals_last = DOMAIN t.validator_archive
  BY <1>1, <1>3
<1> QED BY <1>1, <1>10, <1>11, <1>12, <1>13, <1>14, <1>15, <1>16

\* The statistics of an epoch account for its blocks and its contest: every ticket of
\* the contest was credited to an author, and blocks only to validators with a key,
\* through changes of the size of the pool (Statistics.state_transition).
THEOREM StatisticsHold == Spec => []StatisticsMatchTheContest
<1>1. Init => RecordsAddUp
  <2> SUFFICES ASSUME Init PROVE RecordsAddUp
    OBVIOUS
  <2> DEFINE v == working_state.vals_current
  <2>1. /\ v = Idle(GenesisValidators) /\ working_state.vals_last = v
        /\ working_state.validator_pool = GenesisValidators
        /\ working_state.validator_archive = GenesisValidators
        /\ working_state.accumulator = <<>> /\ working_state.timeslot = 0
    BY DEF Init
  <2>2. IsValidatorSet(GenesisValidators)
    BY ContestInit DEF ContestInvariant, ValidatorsAreDesignated, Init
  <2>3. /\ Records(v) /\ DOMAIN v = DOMAIN GenesisValidators
        /\ BlocksOf(v) = 0 /\ TicketsOf(v) = 0
        /\ \A i \in DOMAIN v : v[i].blocks = 0
    BY <2>1, <2>2, IdleFacts
  <2>4. slot_phase_index(0) \in Nat /\ EPOCH_TIMESLOTS \in Nat \ {0} /\ Len(<<>>) = 0
    BY PhaseFacts, SafroleAssumption
  <2>5. \A i \in DOMAIN v : ~(v[i].blocks > 0)
    BY <2>3
  <2> QED BY <2>1, <2>3, <2>4, <2>5
          DEF RecordsAddUp, StatisticsMatchTheContest, BlocksOf, TicketsOf
<1>2. ContestInvariant /\ RecordsAddUp /\ [Next]_vars => RecordsAddUp'
  <2> SUFFICES ASSUME ContestInvariant, RecordsAddUp, [Next]_vars PROVE RecordsAddUp'
    OBVIOUS
  <2>1. CASE UNCHANGED <<working_state, announced, judged_at>>
    BY <2>1 DEF RecordsAddUp, StatisticsMatchTheContest
  <2> QED BY <2>1, BlockWithTickets, StatisticsStep
<1>3. RecordsAddUp => StatisticsMatchTheContest
  BY DEF RecordsAddUp
<1> QED BY <1>1, <1>2, <1>3, ContestInvariantHolds, PTL DEF Spec
==============================================================================
