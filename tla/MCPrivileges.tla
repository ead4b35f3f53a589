---------------------------- MODULE MCPrivileges ----------------------------
(***************************************************************************)
(* An instance of Privileges: a manager that is also registrar, two other  *)
(* services in office and one without, with ids on both sides.             *)
(***************************************************************************)
EXTENDS Privileges

MCState0 ==
    [manager |-> 2, assigners |-> [c \in Core |-> IF c = 1 THEN 1 ELSE 3], delegator |-> 3,
     registrar |-> 2, always_accumulators |-> {1},
     validator_queue |-> "v0", authorizer_queues |-> [c \in Core |-> "q0"]]

\* Appointments of a service on either side of the holders, with a manager that
\* stays or goes.
MCBlessings ==
    {[manager |-> m, assigners |-> [c \in Core |-> a], delegator |-> a, registrar |-> m,
      always_accumulators |-> {a}] : m \in {2, 4}, a \in {1, 4}}
=============================================================================
