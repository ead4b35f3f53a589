------------------------------ MODULE Privileges ------------------------------
(***************************************************************************)
(* The offices of services (manager, an assigner for each core, delegator, *)
(* registrar) and what their holders decide: the queues of validators and  *)
(* of authorizers.  The services of a round of accumulation run on copies  *)
(* of the same state; parallel_accumulation merges what they made of it,   *)
(* one service after the other in the order of their ids.                  *)
(*                                                                         *)
(* Accounts, which the same rounds change, are the subject of Accumulation.*)
(***************************************************************************)
EXTENDS Naturals, FiniteSets, SequencesExt, Functions

CONSTANTS
    Service,         \* ids of services
    Core,            \* cores
    Authorizers,     \* contents of an authorizer queue
    ValidatorSets,   \* contents of the validator queue
    State0,          \* offices and queues at the start
    Blessings,       \* the appointments that bless may ask for
    NonManagerBless, \* the setting GP080_NON_MANAGER_BLESS_COMPAT
    MaxRounds,       \* bound: rounds in a behaviour
    MaxCalls         \* bound: successful host calls in a behaviour

VARIABLES
    accumulation_state, \* offices and queues after the last round
    todo,               \* services that still have to run in this round
    run,                \* the running invocation: id and contexts x and y
    outputs,            \* contexts of the services that have run in this round
    rounds, calls       \* counters for the bounds

vars == <<accumulation_state, todo, run, outputs, rounds, calls>>

Office ==
    [manager : Service, assigners : [Core -> Service], delegator : Service,
     registrar : Service, always_accumulators : SUBSET Service]

State ==
    [manager : Service, assigners : [Core -> Service], delegator : Service,
     registrar : Service, always_accumulators : SUBSET Service,
     validator_queue : ValidatorSets, authorizer_queues : [Core -> Authorizers]]

ASSUME PrivilegesAssumption ==
    /\ Service \subseteq Nat /\ IsFiniteSet(Service)
    /\ Blessings \subseteq Office /\ NonManagerBless \in BOOLEAN
    /\ State0 \in State

Idle == [service |-> 0]

Init ==
    /\ accumulation_state = State0
    /\ todo = {} /\ run = Idle /\ outputs = <<>>
    /\ rounds = 0 /\ calls = 0

Ran == DOMAIN outputs

-----------------------------------------------------------------------------
\* The first round of a block runs the services of its reports and those that
\* always accumulate; a later one those that are left over or got a transfer.
StartRound ==
    /\ todo = {} /\ run = Idle /\ Ran = {} /\ rounds < MaxRounds
    /\ \E S \in SUBSET Service, first \in BOOLEAN :
          todo' = S \cup IF first THEN accumulation_state.always_accumulators ELSE {}
    /\ todo' # {}
    /\ rounds' = rounds + 1
    /\ UNCHANGED <<accumulation_state, run, outputs, calls>>

\* single_step_accumulation: a copy of the state, and one to fall back to.
Invoke ==
    /\ run = Idle
    /\ \E s \in todo :
          /\ \A t \in todo : s <= t
          /\ todo' = todo \ {s}
          /\ run' = [service |-> s, x |-> accumulation_state, y |-> accumulation_state]
    /\ UNCHANGED <<accumulation_state, outputs, rounds, calls>>

\* A host call that returns OK; the others change nothing.
Call(x) ==
    /\ calls < MaxCalls /\ calls' = calls + 1
    /\ run' = [run EXCEPT !.x = x]
    /\ UNCHANGED <<accumulation_state, todo, outputs, rounds>>

hc_bless ==
    /\ run # Idle
    /\ NonManagerBless \/ run.service = run.x.manager
    /\ \E b \in Blessings : Call(b @@ run.x)

hc_assign ==
    /\ run # Idle
    /\ \E c \in Core, queue \in Authorizers, assigner \in Service :
          /\ run.service = run.x.assigners[c]
          /\ Call([run.x EXCEPT !.authorizer_queues[c] = queue, !.assigners[c] = assigner])

hc_designate ==
    /\ run # Idle
    /\ run.service = run.x.delegator
    /\ \E queue \in ValidatorSets : Call([run.x EXCEPT !.validator_queue = queue])

hc_checkpoint ==
    /\ run # Idle /\ run.y # run.x
    /\ run' = [run EXCEPT !.y = run.x]
    /\ UNCHANGED <<accumulation_state, todo, outputs, rounds, calls>>

\* The code halts with x, or panics or runs out of gas and leaves y.
Finish ==
    /\ run # Idle
    /\ \E context \in {run.x, run.y} : outputs' = outputs @@ [s \in {run.service} |-> context]
    /\ run' = Idle
    /\ UNCHANGED <<accumulation_state, todo, rounds, calls>>

-----------------------------------------------------------------------------
\* A bug: everyone's choice of the manager counts.
MergeOne_anyone(pre, state, s, o) ==
    [state EXCEPT
        !.manager = o.manager, !.always_accumulators = o.always_accumulators,
        !.assigners = [c \in Core |-> IF s = @[c] THEN o.assigners[c] ELSE @[c]],
        !.delegator = IF s = @ THEN o.delegator ELSE @,
        !.registrar = IF s = @ THEN o.registrar ELSE @,
        !.validator_queue = IF s = pre.delegator THEN o.validator_queue ELSE @,
        !.authorizer_queues = [c \in Core |-> IF s = pre.assigners[c] THEN o.authorizer_queues[c] ELSE @[c]]]

\* The output o of service s, on top of the services before it.  Queues and the
\* manager are for those in office before the round to decide; assigners,
\* delegator and registrar for those in office after the services before s.
MergeOne(pre, state, s, o) ==
    [state EXCEPT
        !.manager = IF s = pre.manager THEN o.manager ELSE @,
        !.always_accumulators = IF s = pre.manager THEN o.always_accumulators ELSE @,
        !.assigners = [c \in Core |-> IF s = @[c] THEN o.assigners[c] ELSE @[c]],
        !.delegator = IF s = @ THEN o.delegator ELSE @,
        !.registrar = IF s = @ THEN o.registrar ELSE @,
        !.validator_queue = IF s = pre.delegator THEN o.validator_queue ELSE @,
        !.authorizer_queues = [c \in Core |-> IF s = pre.assigners[c] THEN o.authorizer_queues[c] ELSE @[c]]]

\* What service s made of the state pre.
View(pre, outs, s) == IF s \in DOMAIN outs THEN outs[s] ELSE pre

\* A bug: the holder of an office has the last word about it.
Override_never(pre, outs, state) == state

\* Changes of the offices by the manager of before go over those of the holders.
Override(pre, outs, state) ==
    LET m == View(pre, outs, pre.manager)
    IN  [state EXCEPT
            !.assigners = [c \in Core |-> IF m.assigners[c] # pre.assigners[c] THEN m.assigners[c] ELSE @[c]],
            !.delegator = IF m.delegator # pre.delegator THEN m.delegator ELSE @,
            !.registrar = IF m.registrar # pre.registrar THEN m.registrar ELSE @]

Merged(pre, outs) ==
    Override(pre, outs, FoldLeft(LAMBDA state, s : MergeOne(pre, state, s, outs[s]),
                                 pre, SetToSortSeq(DOMAIN outs, LAMBDA s, t : s < t)))

parallel_accumulation ==
    /\ todo = {} /\ run = Idle /\ Ran # {}
    /\ accumulation_state' = Merged(accumulation_state, outputs)
    /\ outputs' = <<>>
    /\ UNCHANGED <<todo, run, rounds, calls>>

Next ==
    \/ StartRound \/ Invoke
    \/ hc_bless \/ hc_assign \/ hc_designate \/ hc_checkpoint \/ Finish
    \/ parallel_accumulation

Spec == Init /\ [][Next]_vars

-----------------------------------------------------------------------------
\* The offices and queues, and every copy of them, have their types.
TypeOK ==
    /\ accumulation_state \in State
    /\ todo \subseteq Service /\ Ran \subseteq Service
    /\ run = Idle \/ (run.service \in Service /\ run.x \in State /\ run.y \in State)

\* The offices that have a successor by the choice of their holder.
Offices == {<<"delegator">>, <<"registrar">>} \cup ({"assigners"} \X Core)
Holder(state, office) ==
    CASE office[1] = "delegator" -> state.delegator
      [] office[1] = "registrar" -> state.registrar
      [] OTHER -> state.assigners[office[2]]

\* The successor that the holder chose for itself, when it ran.
OwnChoice(pre, outs, office) == Holder(View(pre, outs, Holder(pre, office)), office)

\* A successor that still runs after the holder in the same round.
RunsAfter(pre, outs, office) ==
    LET next == OwnChoice(pre, outs, office)
    IN  next \in DOMAIN outs /\ next > Holder(pre, office)

\* Handovers take effect: after a round every office is with whom the manager
\* of before chose, else with whom its holder chose, whoever else ran and
\* called bless or assign; both queues are those of the holders of before.
\* Left out is a successor that runs later in the same round: its copy, in which
\* the handover did not happen, takes the office back (see RunsAfter).
HandoverIsHonoured ==
    [][parallel_accumulation =>
         LET pre == accumulation_state
             post == accumulation_state'
             m == View(pre, outputs, pre.manager)
         IN  /\ post.manager = m.manager /\ post.always_accumulators = m.always_accumulators
             /\ \A office \in Offices :
                  LET old == Holder(pre, office)
                  IN  IF Holder(m, office) # old THEN Holder(post, office) = Holder(m, office)
                      ELSE \/ Holder(post, office) = OwnChoice(pre, outputs, office)
                           \/ RunsAfter(pre, outputs, office)
             /\ post.validator_queue = View(pre, outputs, pre.delegator).validator_queue
             /\ \A c \in Core : post.authorizer_queues[c] =
                                   View(pre, outputs, pre.assigners[c]).authorizer_queues[c]]_vars

\* A service without office may bless in its own copy, as the setting allows,
\* and then assign and designate there: the round ends as if it had not run.
\* Left out, as above, are rounds in which a successor runs after its appointment.
OutsidersAreHarmless ==
    [][parallel_accumulation =>
         LET pre == accumulation_state
             outsiders == Ran \ ({pre.manager} \cup {Holder(pre, office) : office \in Offices})
         IN  \/ \E office \in Offices : RunsAfter(pre, outputs, office)
             \/ \A s \in outsiders :
                   accumulation_state' = Merged(pre, [t \in Ran \ {s} |-> outputs[t]])]_vars

\* Handovers without the exception: what the documentation of the offices says.
\* The code does not have this property.
EveryHandoverIsHonoured ==
    [][parallel_accumulation =>
         LET pre == accumulation_state
             m == View(pre, outputs, pre.manager)
         IN  \A office \in Offices :
               Holder(m, office) = Holder(pre, office) =>
                  Holder(accumulation_state', office) = OwnChoice(pre, outputs, office)]_vars
=============================================================================
