------------------------------- MODULE Safrole -------------------------------
(***************************************************************************)
(* The consensus state and its pure transition functions, of               *)
(* state/components.py: entropy, the four validator sets, the contest for  *)
(* tickets and the series of keys or tickets that seal the blocks of an    *)
(* epoch.  A validator is known by one key; NullKey is the key of zeros    *)
(* that replaces an offender's and that nobody can sign with.              *)
(* The output of a VRF on a key, an entropy and an attempt is that triple; *)
(* TicketRank orders these outputs as the byte strings are ordered.        *)
(* The entropy after a block is a hash that no other block has: the slot   *)
(* of the block stands for it.                                             *)
(***************************************************************************)
EXTENDS Integers, FiniteSets, SequencesExt

CONSTANTS
    EPOCH_TIMESLOTS,                \* slots of an epoch, an even number
    TICKET_SUBMISSION_END_SLOT,     \* first phase without tickets
    MAXIMUM_EXTRINSIC_TICKETS,      \* tickets a block may carry
    ROTATION_PERIOD_CORE,           \* slots between rotations of guarantors
    NullKey,                        \* the key of a nullified validator
    TicketRank(_, _, _),            \* rank of the ticket of key, entropy, attempt
    FallbackDraw(_, _)              \* number hashed out of an entropy and a phase

ASSUME SafroleAssumption ==
    /\ EPOCH_TIMESLOTS \in Nat \ {0} /\ EPOCH_TIMESLOTS % 2 = 0
    /\ TICKET_SUBMISSION_END_SLOT \in 1 .. (EPOCH_TIMESLOTS - 1)
    /\ MAXIMUM_EXTRINSIC_TICKETS \in Nat
    /\ ROTATION_PERIOD_CORE \in 1 .. EPOCH_TIMESLOTS
    /\ EPOCH_TIMESLOTS % ROTATION_PERIOD_CORE = 0

slot_phase_index(slot) == slot % EPOCH_TIMESLOTS

epoch_number(slot) == slot \div EPOCH_TIMESLOTS

is_epoch_change(pre, post) == epoch_number(pre) # epoch_number(post)

\* The ceiling of two epochs over the size of the pending set.
ticket_entries(count) == (2 * EPOCH_TIMESLOTS + count - 1) \div count

-----------------------------------------------------------------------------
\* Entropy.state_transition.
next_entropy(pre, slot, entropy) ==
    <<slot>> \o IF is_epoch_change(pre, slot) THEN SubSeq(entropy, 1, 3) ELSE Tail(entropy)

\* ValidatorPool.state_transition and ValidatorArchive.state_transition.
next_validators(pre, slot, kept, successor) ==
    IF is_epoch_change(pre, slot) THEN successor ELSE kept

check_offenders(validators, offenders) ==
    [i \in DOMAIN validators |->
        IF validators[i] \in offenders THEN NullKey ELSE validators[i]]

\* First, last, second, second to last, ...
reorder_list_outside_in(items) ==
    [i \in 1 .. 2 * (Len(items) \div 2) |->
        IF i % 2 = 1 THEN items[(i + 1) \div 2] ELSE items[Len(items) + 1 - i \div 2]]

-----------------------------------------------------------------------------
\* The sealing keys of an epoch: tickets of the contest, or drawn keys.
Tickets(series) == [kind |-> "tickets", of |-> series]
Keys(series) == [kind |-> "keys", of |-> series]

fallback_keys(entropy, validators) ==
    [n \in 1 .. EPOCH_TIMESLOTS |->
        validators[(FallbackDraw(entropy, n - 1) % Len(validators)) + 1]]

Saturated(accumulator) == Len(accumulator) = EPOCH_TIMESLOTS

\* A bug to test the properties with: a contest that was never closed by a marker is used.
enact_fallback_method_early(pre, slot, accumulator) ==
    \/ ~Saturated(accumulator)
    \/ epoch_number(slot) - epoch_number(pre) > 1

enact_fallback_method(pre, slot, accumulator) ==
    \/ ~Saturated(accumulator)
    \/ slot_phase_index(pre) < TICKET_SUBMISSION_END_SLOT
    \/ epoch_number(slot) - epoch_number(pre) > 1

NoMark == <<>>

tickets_mark(pre, slot, accumulator) ==
    IF /\ ~is_epoch_change(pre, slot)
       /\ slot_phase_index(pre) < TICKET_SUBMISSION_END_SLOT
       /\ TICKET_SUBMISSION_END_SLOT <= slot_phase_index(slot)
       /\ Saturated(accumulator)
    THEN reorder_list_outside_in(accumulator)
    ELSE NoMark

slot_sealer_series(pre, slot, series, accumulator, entropy, validator_pool) ==
    IF ~is_epoch_change(pre, slot) THEN series
    ELSE IF enact_fallback_method(pre, slot, accumulator)
         THEN Keys(fallback_keys(entropy[3], validator_pool))
         ELSE Tickets(reorder_list_outside_in(accumulator))

-----------------------------------------------------------------------------
\* A ticket as it is submitted carries one of the proofs that its maker can
\* give for it; its body, in the accumulator, does not.
Body(ticket) == [key |-> ticket.key, entropy |-> ticket.entropy, attempt |-> ticket.attempt]

Rank(body) == TicketRank(body.key, body.entropy, body.attempt)

\* create_ticket_body: attempt and ring proof against the posterior pending set.
TicketProven(ticket, ring, entropy) ==
    /\ ticket.attempt < ticket_entries(Len(ring))
    /\ ticket.key \in Range(ring) \ {NullKey}
    /\ ticket.entropy = entropy

tickets_in_order(bodies) ==
    \A i \in 1 .. Len(bodies) - 1 : Rank(bodies[i]) <= Rank(bodies[i + 1])

\* A bug: the newest tickets are kept and not the lowest.
Lowest_newest(bodies) ==
    SubSeq(bodies, 1, IF Len(bodies) < EPOCH_TIMESLOTS THEN Len(bodies) ELSE EPOCH_TIMESLOTS)

\* The place that sorted() gives entry i: after the lower ranks and after the
\* entries of its own rank that come before it.
Place(bodies, i) ==
    Cardinality({j \in DOMAIN bodies :
                    \/ Rank(bodies[j]) < Rank(bodies[i])
                    \/ Rank(bodies[j]) = Rank(bodies[i]) /\ j <= i})

Sorted(bodies) ==
    [k \in DOMAIN bodies |-> bodies[CHOOSE i \in DOMAIN bodies : Place(bodies, i) = k]]

\* Sorted, and limited to the slots of an epoch.
Lowest(bodies) ==
    SubSeq(Sorted(bodies), 1, IF Len(bodies) < EPOCH_TIMESLOTS THEN Len(bodies) ELSE EPOCH_TIMESLOTS)

\* A bug: the tickets of the last epoch stay in the contest.
kept_tickets_always(pre, slot, accumulator) == accumulator

\* What the new tickets compete with.
kept_tickets(pre, slot, accumulator) ==
    IF is_epoch_change(pre, slot) THEN <<>> ELSE accumulator

next_accumulator(pre, slot, accumulator, tickets) ==
    Lowest([i \in DOMAIN tickets |-> Body(tickets[i])] \o kept_tickets(pre, slot, accumulator))

\* The checks of Safrole.state_transition on the tickets of a block.  The
\* comparison is with the accumulator before it is emptied for a new epoch.
tickets_accepted(pre, slot, accumulator, tickets, ring, entropy) ==
    /\ Len(tickets) <= IF slot_phase_index(slot) < TICKET_SUBMISSION_END_SLOT
                       THEN MAXIMUM_EXTRINSIC_TICKETS ELSE 0
    /\ IsInjective(tickets)
    /\ \A i \in DOMAIN tickets : TicketProven(tickets[i], ring, entropy[3])
    /\ \A i \in DOMAIN tickets : Body(tickets[i]) \notin Range(accumulator)
    /\ tickets_in_order([i \in DOMAIN tickets |-> Body(tickets[i])])
    /\ \A i \in DOMAIN tickets :
          Body(tickets[i]) \in Range(next_accumulator(pre, slot, accumulator, tickets))

-----------------------------------------------------------------------------
\* BlockValidation.validate_header_after_safrole: the VRF output of the seal
\* is the ticket that is due, or the author has the key that is due.
seal_verifies(author_key, series, slot, entropy) ==
    LET due == series.of[slot_phase_index(slot) + 1]
    IN  IF series.kind = "tickets"
        THEN due = [key |-> author_key, entropy |-> entropy[4], attempt |-> due.attempt]
        ELSE due = author_key

-----------------------------------------------------------------------------
\* What guarantor_permute makes the assignment out of: entropy, validators and
\* the number of the rotation in its epoch.
Rotation(entropy, validators, slot) ==
    <<entropy, validators, slot_phase_index(slot) \div ROTATION_PERIOD_CORE>>

guarantor_assignments(slot, entropy, validator_pool) ==
    Rotation(entropy[3], validator_pool, slot)

\* A bug: the previous rotation is always of the current validators.
prev_guarantor_assignments_current(slot, entropy, validator_pool, validator_archive) ==
    Rotation(entropy[3], validator_pool, slot - ROTATION_PERIOD_CORE)

prev_guarantor_assignments(slot, entropy, validator_pool, validator_archive) ==
    IF epoch_number(slot - ROTATION_PERIOD_CORE) = epoch_number(slot)
    THEN Rotation(entropy[3], validator_pool, slot - ROTATION_PERIOD_CORE)
    ELSE Rotation(entropy[4], validator_archive, slot - ROTATION_PERIOD_CORE)
=============================================================================
