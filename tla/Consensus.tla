------------------------------ MODULE Consensus ------------------------------
(***************************************************************************)
(* A validator that follows and extends a chain through several epochs.    *)
(*                                                                         *)
(* working_state is the part of the state that decides who may author and  *)
(* judge; every block goes through PyjamazApp.state_transition, imported   *)
(* or produced.  The node keeps its own tickets beside the state, in       *)
(* BlockExtrinsicCollector: those it still has to submit, those of the     *)
(* contest that runs and those of the epoch's sealing series.  A clock     *)
(* puts time slots in a queue, from which _timeslot_worker takes them; the *)
(* network offers blocks of other validators, at any moment between.       *)
(*                                                                         *)
(* Blocks extend the block selected last; forks are the subject of the     *)
(* modules BlockImport and NodeChain.  Services, reports and preimages are *)
(* left to their own modules: of accumulation only the call designate is   *)
(* here, which replaces the validator queue.                               *)
(***************************************************************************)
EXTENDS Safrole, Disputes

CONSTANTS
    Me,                 \* the key of this node
    Submitters,         \* keys of other validators that submit tickets
    Proofs,             \* proofs a validator can make for one ticket
    GenesisValidators,  \* validator sets of the genesis state
    Designations,       \* validator sets that may be designated
    DisputesOffered,    \* extrinsics of disputes that the network may offer
    MaxSlot,            \* bound on the clock
    MaxQueued           \* bound on the slots that wait for _timeslot_worker

VARIABLES
    working_state,      \* components after the last block
    extrinsics,         \* BlockExtrinsicCollector
    timeslot_queue,     \* slots the clock has announced
    current_timeslot,   \* the wall clock
    announced,          \* ghost: the tickets marker seen in this epoch
    judged_at,          \* ghost: for every offender, the epoch changes since it was reported
    produced            \* ghost: the header of the last own block

vars == <<working_state, extrinsics, timeslot_queue, current_timeslot, announced, judged_at, produced>>

ASSUME ConsensusAssumption ==
    /\ Me # NullKey /\ Me \notin Submitters /\ NullKey \notin Submitters
    /\ MaxSlot \in Nat /\ MaxQueued \in Nat \ {0}
    /\ \A vs \in Designations \cup {GenesisValidators} :
          vs \in Seq(Range(vs)) /\ Len(vs) >= 6 /\ Len(vs) % 3 = 0

AllKeys == (UNION {Range(vs) : vs \in Designations \cup {GenesisValidators}}) \cup {NullKey}

Attempts == UNION {0 .. ticket_entries(Len(vs)) - 1 : vs \in Designations \cup {GenesisValidators}}

Ticket == [key : AllKeys \ {NullKey}, entropy : -3 .. MaxSlot, attempt : Attempts]

\* Hashes are byte strings, which are ordered and read as numbers.
ASSUME HashesAssumption ==
    /\ \A t \in Ticket : Rank(t) \in Int
    /\ \A entropy \in -3 .. MaxSlot, phase \in 0 .. EPOCH_TIMESLOTS - 1 :
          FallbackDraw(entropy, phase) \in Int

\* Targets are hashes, of which the extrinsic only uses the order, and nobody can
\* sign with the key of zeros.
ASSUME DisputesAssumption ==
    \A d \in DisputesOffered :
        /\ d.verdicts \in Seq([target : Int, age : Int, votes : Nat, positive : Nat,
                              sorted : BOOLEAN, signed : BOOLEAN])
        /\ \A evidence \in {d.culprits, d.faults} :
              /\ evidence \in Seq(Range(evidence))
              /\ \A c \in Range(evidence) : c.signed => c.key # NullKey

NoBlock == [timeslot |-> 0, author_index |-> 0]

Idle(validators) == [i \in DOMAIN validators |-> [blocks |-> 0, tickets |-> 0]]

\* The genesis state: a chain of one block in slot 0.
Init ==
    /\ working_state =
         [timeslot |-> 0, entropy |-> <<0, -1, -2, -3>>,
          validator_pool |-> GenesisValidators, validator_archive |-> GenesisValidators,
          validator_queue |-> GenesisValidators, pending |-> GenesisValidators,
          series |-> Keys(fallback_keys(-2, GenesisValidators)), accumulator |-> <<>>,
          disputes |-> [good |-> {}, bad |-> {}, wonky |-> {}, offenders |-> {}],
          vals_current |-> Idle(GenesisValidators), vals_last |-> Idle(GenesisValidators)]
    /\ extrinsics = [tickets_queue |-> {}, own_tickets_next |-> <<>>, own_tickets_current |-> <<>>]
    /\ timeslot_queue = <<>>
    /\ current_timeslot = 0
    /\ announced = NoMark
    /\ judged_at = [k \in {} |-> 0]
    /\ produced = NoBlock

-----------------------------------------------------------------------------
\* The posterior validator pool, pending set and disputes of a block.
NextPool(s, slot) == next_validators(s.timeslot, slot, s.validator_pool, s.pending)

\* A bug: offenders named by the block that changes the epoch are missed.
NextPending_prior(s, b) ==
    IF is_epoch_change(s.timeslot, b.timeslot)
    THEN check_offenders(s.validator_queue, s.disputes.offenders)
    ELSE s.pending

NextPending(s, b) ==
    IF is_epoch_change(s.timeslot, b.timeslot)
    THEN check_offenders(s.validator_queue, next_disputes(b.disputes, s.disputes).offenders)
    ELSE s.pending

\* A bug: the records are renewed for a pool of another size only.
next_statistics_kept(s, b) ==
    LET change == is_epoch_change(s.timeslot, b.timeslot)
        pool == NextPool(s, b.timeslot)
        current == IF change /\ DOMAIN pool # DOMAIN s.vals_current THEN Idle(pool) ELSE s.vals_current
    IN  [last |-> IF change THEN s.vals_current ELSE s.vals_last,
         current |-> [current EXCEPT ![b.author_index] =
                        [blocks |-> @.blocks + 1, tickets |-> @.tickets + Len(b.tickets)]]]

\* Statistics.state_transition, for blocks and tickets.
next_statistics(s, b) ==
    LET change == is_epoch_change(s.timeslot, b.timeslot)
        current == IF change THEN Idle(NextPool(s, b.timeslot)) ELSE s.vals_current
    IN  [last |-> IF change THEN s.vals_current ELSE s.vals_last,
         current |-> [current EXCEPT ![b.author_index] =
                        [blocks |-> @.blocks + 1, tickets |-> @.tickets + Len(b.tickets)]]]

\* PyjamazApp.state_transition on block b, when none of its parts refuses.
Transitioned(s, b) ==
    LET entropy == next_entropy(s.timeslot, b.timeslot, s.entropy)
        statistics == next_statistics(s, b)
    IN  [timeslot |-> b.timeslot,
         entropy |-> entropy,
         validator_pool |-> NextPool(s, b.timeslot),
         validator_archive |-> next_validators(s.timeslot, b.timeslot, s.validator_archive, s.validator_pool),
         validator_queue |-> b.designated,
         pending |-> NextPending(s, b),
         series |-> slot_sealer_series(s.timeslot, b.timeslot, s.series, s.accumulator,
                                       entropy, NextPool(s, b.timeslot)),
         accumulator |-> next_accumulator(s.timeslot, b.timeslot, s.accumulator, b.tickets),
         disputes |-> next_disputes(b.disputes, s.disputes),
         vals_current |-> statistics.current, vals_last |-> statistics.last]

\* Its checks, for a block of either origin ...
TransitionAccepts(s, b) ==
    /\ b.timeslot > s.timeslot
    /\ validate_extrinsic_disputes(b.disputes, epoch_number(s.timeslot),
                                   s.validator_pool, s.validator_archive)
    /\ disputes_accepted(b.disputes, s.disputes)
    /\ b.author_index <= Len(NextPool(s, b.timeslot))
    /\ tickets_accepted(s.timeslot, b.timeslot, s.accumulator, b.tickets,
                        NextPending(s, b), next_entropy(s.timeslot, b.timeslot, s.entropy))

\* ... and those of the header of an imported one.  The header has either all
\* the markers that are due, or those of an ordinary block: none.
MarkersDue(s, b) ==
    \/ is_epoch_change(s.timeslot, b.timeslot)
    \/ tickets_mark(s.timeslot, b.timeslot, s.accumulator) # NoMark
    \/ offenders_mark(b.disputes) # <<>>

validate_header_after_safrole(s, b) ==
    LET t == Transitioned(s, b)
    IN  /\ b.marked = MarkersDue(s, b)
        /\ seal_verifies(t.validator_pool[b.author_index], t.series, b.timeslot, t.entropy)

Apply(b) ==
    /\ working_state' = Transitioned(working_state, b)
    /\ announced' = IF is_epoch_change(working_state.timeslot, b.timeslot) THEN NoMark
                    ELSE IF announced # NoMark THEN announced
                    ELSE tickets_mark(working_state.timeslot, b.timeslot, working_state.accumulator)
    /\ judged_at' =
         LET aged == IF is_epoch_change(working_state.timeslot, b.timeslot)
                     THEN [k \in DOMAIN judged_at |-> judged_at[k] + 1] ELSE judged_at
             since == IF is_epoch_change(working_state.timeslot, b.timeslot) THEN 1 ELSE 0
         IN  [k \in next_disputes(b.disputes, working_state.disputes).offenders |->
                IF k \in DOMAIN aged THEN aged[k] ELSE since]

-----------------------------------------------------------------------------
\* Tickets that other validators may submit: for the contest of the block, with
\* one attempt too many, and an old one for the contest before.
TicketsOffered(entropy) ==
    [key : Submitters, entropy : {entropy[3]}, attempt : 0 .. 2, proof : Proofs]
        \cup [key : Submitters, entropy : {entropy[4]}, attempt : {0}, proof : Proofs]

Offer(slot, author_index, disputes, designated, marked, tickets) ==
    [timeslot |-> slot, author_index |-> author_index, tickets |-> tickets,
     disputes |-> disputes, designated |-> designated, marked |-> marked]

\* A block of another validator.
Import(slot, author_index, disputes, designated, marked) ==
    LET bare == Offer(slot, author_index, disputes, designated, marked, <<>>)
    IN  /\ NextPool(working_state, slot)[author_index] \notin {Me, NullKey}
        /\ validate_header_after_safrole(working_state, bare)
        /\ TransitionAccepts(working_state, bare)
        /\ \E tickets \in SeqOf(TicketsOffered(next_entropy(working_state.timeslot, slot,
                                                             working_state.entropy)),
                                 MAXIMUM_EXTRINSIC_TICKETS) :
              LET b == Offer(slot, author_index, disputes, designated, marked, tickets)
              IN  TransitionAccepts(working_state, b) /\ Apply(b)

ImportBlock ==
    /\ \E slot \in (working_state.timeslot + 1) .. current_timeslot :
       \E author_index \in DOMAIN NextPool(working_state, slot),
          disputes \in DisputesOffered \cup {NoDisputes},
          designated \in Designations \cup {working_state.validator_queue},
          marked \in BOOLEAN : Import(slot, author_index, disputes, designated, marked)
    /\ UNCHANGED <<extrinsics, timeslot_queue, current_timeslot, produced>>

-----------------------------------------------------------------------------
\* BlockExtrinsicCollector.
process_epoch_change(x) ==
    [tickets_queue |-> {}, own_tickets_next |-> <<>>, own_tickets_current |-> x.own_tickets_next]

clear_tickets(x) == [x EXCEPT !.tickets_queue = {}, !.own_tickets_next = <<>>]

\* The loop of produce_block around can_add_own_ticket and add_own_ticket.
OwnTickets(x, slot, pending, entropy) ==
    LET first == Len(x.own_tickets_next)
        made == [i \in 1 .. ticket_entries(Len(pending)) - first |->
                    [key |-> Me, entropy |-> entropy[3], attempt |-> first + i - 1]]
    IN  IF /\ slot_phase_index(slot) \in 1 .. (TICKET_SUBMISSION_END_SLOT - 1)
           /\ Me \in Range(pending)
        THEN [x EXCEPT !.tickets_queue = @ \cup Range(made), !.own_tickets_next = @ \o made]
        ELSE x

\* The queued tickets that are new and among the lowest of the contest.
Submittable(x, accumulator) ==
    {t \in x.tickets_queue \ Range(accumulator) :
        t \in Range(Lowest(SetToSeq(x.tickets_queue \cup Range(accumulator))))}

CollectedTickets(x, slot, accumulator) ==
    LET sorted == Lowest(SetToSeq(Submittable(x, accumulator)))
    IN  IF slot_phase_index(slot) < TICKET_SUBMISSION_END_SLOT
        THEN SubSeq(sorted, 1, IF Len(sorted) < MAXIMUM_EXTRINSIC_TICKETS
                               THEN Len(sorted) ELSE MAXIMUM_EXTRINSIC_TICKETS)
        ELSE <<>>

AfterCollect(x, slot, accumulator) ==
    IF slot_phase_index(slot) < TICKET_SUBMISSION_END_SLOT
    THEN [x EXCEPT !.tickets_queue =
             Submittable(x, accumulator) \ Range(CollectedTickets(x, slot, accumulator))]
    ELSE x

should_produce_block(x, slot, series) ==
    LET due == series.of[slot_phase_index(slot) + 1]
    IN  IF series.kind = "tickets" THEN due \in Range(x.own_tickets_current) ELSE due = Me

\* A bug: the index in the set that goes out is used.
get_author_index_stale(s, slot) ==
    CHOOSE i \in DOMAIN s.validator_pool : s.validator_pool[i] = Me

get_author_index(s, slot) ==
    CHOOSE i \in DOMAIN NextPool(s, slot) : NextPool(s, slot)[i] = Me

\* The state that _timeslot_worker decides on: that of an empty block when the
\* slot is in a new epoch.
Looked(s, slot) ==
    IF ~is_epoch_change(s.timeslot, slot) THEN s
    ELSE LET b == [timeslot |-> slot, author_index |-> 1, tickets |-> <<>>, disputes |-> NoDisputes,
                   designated |-> s.validator_queue, marked |-> TRUE]
         IN  Transitioned(s, b)

Prepared(slot) ==
    IF is_epoch_change(working_state.timeslot, slot) THEN process_epoch_change(extrinsics) ELSE extrinsics

\* The clock; NodeRuntime passes each slot to the pipeline.
NotifyTimeslot ==
    /\ current_timeslot < MaxSlot
    /\ Len(timeslot_queue) < MaxQueued
    /\ current_timeslot' = current_timeslot + 1
    /\ timeslot_queue' = Append(timeslot_queue, current_timeslot + 1)
    /\ UNCHANGED <<working_state, extrinsics, announced, judged_at, produced>>

\* _timeslot_worker: nothing to produce.
Wait ==
    /\ timeslot_queue # <<>>
    /\ LET slot == Head(timeslot_queue)
       IN  \/ /\ working_state.timeslot >= slot
              /\ extrinsics' = extrinsics
           \/ /\ working_state.timeslot < slot
              /\ ~should_produce_block(Prepared(slot), slot, Looked(working_state, slot).series)
              /\ extrinsics' = Prepared(slot)
    /\ timeslot_queue' = Tail(timeslot_queue)
    /\ UNCHANGED <<working_state, current_timeslot, announced, judged_at, produced>>

Producing(slot) ==
    /\ working_state.timeslot < slot
    /\ should_produce_block(Prepared(slot), slot, Looked(working_state, slot).series)

\* The block that produce_block makes, and the collector after it.
WithOwn(slot) ==
    LET looked == Looked(working_state, slot)
    IN  OwnTickets(Prepared(slot), slot, looked.pending, looked.entropy)

OwnBlock(slot, designated) ==
    [timeslot |-> slot, author_index |-> get_author_index(working_state, slot),
     tickets |-> LET bodies == CollectedTickets(WithOwn(slot), slot, Looked(working_state, slot).accumulator)
                 IN  [i \in DOMAIN bodies |->
                        [key |-> bodies[i].key, entropy |-> bodies[i].entropy,
                         attempt |-> bodies[i].attempt, proof |-> CHOOSE p \in Proofs : TRUE]],
     disputes |-> NoDisputes, designated |-> designated, marked |-> TRUE]

ProduceBlock ==
    /\ timeslot_queue # <<>>
    /\ \E designated \in Designations \cup {working_state.validator_queue} :
         LET slot == Head(timeslot_queue)
             b == OwnBlock(slot, designated)
         IN  /\ Producing(slot)
             /\ TransitionAccepts(working_state, b)
             /\ Apply(b)
             /\ extrinsics' = AfterCollect(WithOwn(slot), slot, Looked(working_state, slot).accumulator)
             /\ produced' = [timeslot |-> slot, author_index |-> b.author_index]
    /\ timeslot_queue' = Tail(timeslot_queue)
    /\ UNCHANGED current_timeslot

\* Production fails: the tickets are refused, or something else in the block is.
DiscardBlock ==
    /\ timeslot_queue # <<>>
    /\ Producing(Head(timeslot_queue))
    /\ extrinsics' = clear_tickets(Prepared(Head(timeslot_queue)))
    /\ timeslot_queue' = Tail(timeslot_queue)
    /\ UNCHANGED <<working_state, current_timeslot, announced, judged_at, produced>>

Next == NotifyTimeslot \/ ImportBlock \/ Wait \/ ProduceBlock \/ DiscardBlock

Spec == Init /\ [][Next]_vars

-----------------------------------------------------------------------------
\* The components keep their shape: four entropies, sets of validators, a series
\* with an entry for each slot of the epoch, a record of activity for every
\* validator of the current and of the archived set.
TypeOK ==
    LET s == working_state
    IN  /\ s.timeslot \in 0 .. current_timeslot
        /\ s.entropy \in [1 .. 4 -> -3 .. MaxSlot]
        /\ \A vs \in {s.validator_pool, s.validator_archive, s.validator_queue, s.pending} :
              Len(vs) >= 6 /\ Range(vs) \subseteq AllKeys
        /\ Len(s.series.of) = EPOCH_TIMESLOTS
        /\ Range(s.series.of) \subseteq IF s.series.kind = "tickets" THEN Ticket ELSE AllKeys
        /\ Len(s.accumulator) <= EPOCH_TIMESLOTS /\ Range(s.accumulator) \subseteq Ticket
        /\ extrinsics.tickets_queue \subseteq Ticket
        /\ \A own \in {extrinsics.own_tickets_next, extrinsics.own_tickets_current} :
              \A t \in Range(own) : t \in Ticket /\ t.key = Me
        /\ DOMAIN judged_at = s.disputes.offenders

\* Whoever won a slot can seal it: the tickets of the series, and those that
\* compete for the next one, are all different, were made with the entropy
\* that the seal will be verified with and by members of the set that will
\* then be active, through changes of the set, offenders and skipped epochs
\* (Safrole.state_transition, Entropy.state_transition).
TicketsAreUsable ==
    LET s == working_state
        usable(tickets, entropy, validators) ==
            /\ IsInjective(tickets)
            /\ \A t \in Range(tickets) : t.entropy = entropy /\ t.key \in Range(validators)
    IN  /\ s.series.kind = "tickets" => usable(s.series.of, s.entropy[4], s.validator_pool)
        /\ s.series.kind = "keys" => Range(s.series.of) \subseteq Range(s.validator_pool)
        /\ usable(s.accumulator, s.entropy[3], s.pending)

\* A validator that was reported leaves the pending set with the next change of
\* epoch and the active set with the one after (check_offenders).
OffendersAreRetired ==
    \A k \in DOMAIN judged_at :
        /\ judged_at[k] >= 1 => k \notin Range(working_state.pending)
        /\ judged_at[k] >= 2 => k \notin Range(working_state.validator_pool)

\* The statistics of the epoch account for its blocks and for its contest:
\* every ticket of the accumulator was credited to an author, none more unless
\* some were beaten, no block to a validator without keys and at most one to a slot.
\* There is one record for each validator of the set it is about, also when the
\* pool of the next epoch has another size.
StatisticsMatchTheContest ==
    LET s == working_state
        tickets == SumFunction([i \in DOMAIN s.vals_current |-> s.vals_current[i].tickets])
        blocks == SumFunction([i \in DOMAIN s.vals_current |-> s.vals_current[i].blocks])
    IN  /\ DOMAIN s.vals_current = DOMAIN s.validator_pool
        /\ DOMAIN s.vals_last = DOMAIN s.validator_archive
        /\ Len(s.accumulator) = IF tickets < EPOCH_TIMESLOTS THEN tickets ELSE EPOCH_TIMESLOTS
        /\ blocks <= slot_phase_index(s.timeslot) + 1
        /\ \A i \in DOMAIN s.vals_current :
              s.vals_current[i].blocks > 0 => s.validator_pool[i] # NullKey

\* Light clients follow the chain by markers: the tickets of an epoch are used
\* exactly when the epoch before announced them, and in that order (tickets_mark
\* and enact_fallback_method are decided in different blocks).
SeriesWasAnnounced ==
    [][is_epoch_change(working_state.timeslot, working_state'.timeslot) =>
          LET due == IF /\ announced # NoMark
                        /\ epoch_number(working_state'.timeslot) = epoch_number(working_state.timeslot) + 1
                     THEN Tickets(announced)
                     ELSE Keys(fallback_keys(working_state'.entropy[3], working_state'.validator_pool))
          IN  working_state'.series.kind = due.kind /\ working_state'.series.of = due.of]_vars

\* Within an epoch a ticket leaves the contest only for tickets that beat it,
\* when the accumulator is full.
ContestIsFair ==
    [][\A t \in Range(working_state.accumulator) \ Range(working_state'.accumulator) :
          \/ is_epoch_change(working_state.timeslot, working_state'.timeslot)
          \/ /\ Saturated(working_state'.accumulator)
             /\ \A u \in Range(working_state'.accumulator) : Rank(u) <= Rank(t)]_vars

\* A report is judged once and for all, and validators are punished only on
\* evidence of the current or the last epoch (Disputes.state_transition).
VerdictsAreFinal ==
    [][LET psi == working_state.disputes
           next == working_state'.disputes
       IN  /\ psi.good \subseteq next.good /\ psi.bad \subseteq next.bad /\ psi.wonky \subseteq next.wonky
           /\ next.good \cap next.bad = {} /\ (next.good \cup next.bad) \cap next.wonky = {}
           /\ psi.offenders \subseteq next.offenders
           /\ next.offenders \ psi.offenders \subseteq
                 Range(working_state.validator_pool) \cup Range(working_state.validator_archive)]_vars

\* The guarantors that a block takes for those of the previous rotation are
\* those that the block before it had, when it was in that rotation
\* (set_prev_guarantor_assignments).
PreviousGuarantorsAreKnown ==
    [][LET s == working_state
           t == working_state'
       IN  (s.timeslot \div ROTATION_PERIOD_CORE) + 1 = t.timeslot \div ROTATION_PERIOD_CORE =>
              prev_guarantor_assignments(t.timeslot, t.entropy, t.validator_pool, t.validator_archive)
                 = guarantor_assignments(s.timeslot, s.entropy, s.validator_pool)]_vars

\* Other nodes accept the seal of every block that this node produces
\* (get_author_index and generate_block_seal against the posterior state).
OwnBlocksVerify ==
    [][produced' # produced =>
          /\ working_state'.validator_pool[produced'.author_index] = Me
          /\ seal_verifies(Me, working_state'.series, produced'.timeslot, working_state'.entropy)]_vars

\* A node knows its own tickets: when _timeslot_worker has nothing left to do,
\* every ticket of this node in the series is in own_tickets_current, where
\* should_produce_block looks for it.
OwnTicketsAreKnown ==
    timeslot_queue = <<>> /\ working_state.series.kind = "tickets" =>
        \A t \in Range(working_state.series.of) :
            t.key = Me => t \in Range(extrinsics.own_tickets_current)
=============================================================================
