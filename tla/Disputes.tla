------------------------------ MODULE Disputes ------------------------------
(***************************************************************************)
(* The disputes component: verdicts of validators on work reports, and the *)
(* evidence (culprits, faults) against validators that a verdict           *)
(* contradicts.                                                            *)
(* A verdict is its target, the epoch it is of, and of its votes: how many *)
(* there are, how many are positive, whether their validators are sorted   *)
(* without repetition and whether indices and signatures are valid.        *)
(***************************************************************************)
EXTENDS Integers, SequencesExt

NoDisputes == [verdicts |-> <<>>, culprits |-> <<>>, faults |-> <<>>]

is_good(v) == v.positive = v.votes
is_bad(v) == v.positive = 0
is_wonky(v) == v.positive = (v.votes - 1) \div 2

\* Disputes.validate_extrinsic_disputes, against the prior validator sets.
validators_of_age(v, epoch, validator_pool, validator_archive) ==
    IF epoch = v.age THEN validator_pool ELSE validator_archive

validate_extrinsic_disputes(d, epoch, validator_pool, validator_archive) ==
    LET known == Range(validator_pool) \cup Range(validator_archive)
    IN  /\ \A v \in Range(d.verdicts) :
              /\ epoch - v.age \in {0, 1}
              /\ v.votes = (2 * Len(validators_of_age(v, epoch, validator_pool, validator_archive))) \div 3 + 1
              /\ v.signed
        /\ \A c \in Range(d.culprits) : c.key \in known
        /\ \A f \in Range(d.faults) : f.key \in known

Increasing(s, field) == \A i \in 1 .. Len(s) - 1 : s[i][field] < s[i + 1][field]

\* The three sets of judged reports after the verdicts.
Judged(d, psi) ==
    [good |-> psi.good \cup {v.target : v \in {w \in Range(d.verdicts) : is_good(w)}},
     bad |-> psi.bad \cup {v.target : v \in {w \in Range(d.verdicts) : ~is_good(w) /\ is_bad(w)}},
     wonky |-> psi.wonky \cup {v.target : v \in {w \in Range(d.verdicts) : ~is_good(w) /\ ~is_bad(w)}}]

\* A bug: only the reports judged good or bad are taken as judged.
is_already_judged_narrow(target, psi) == target \in psi.good \cup psi.bad

is_already_judged(target, psi) == target \in psi.good \cup psi.bad \cup psi.wonky

VerdictAccepted(v, d, psi) ==
    /\ ~is_already_judged(v.target, psi)
    /\ v.sorted
    /\ is_good(v) => \E f \in Range(d.faults) : f.target = v.target
    /\ is_good(v) \/ is_bad(v) \/ is_wonky(v)

add_culprit(c, judged, psi) == c.target \in judged.bad /\ c.key \notin psi.offenders

add_fault(f, judged, psi) ==
    /\ \/ f.target \in judged.good /\ ~f.vote
       \/ f.target \in judged.bad /\ f.vote
    /\ f.key \notin psi.offenders

disputes_accepted(d, psi) ==
    LET judged == Judged(d, psi)
    IN  /\ \A c \in Range(d.culprits) : c.signed
        /\ \A f \in Range(d.faults) : f.signed
        /\ Increasing(d.verdicts, "target")
        /\ \A v \in Range(d.verdicts) : VerdictAccepted(v, d, psi)
        /\ Increasing(d.culprits, "key")
        /\ \A c \in Range(d.culprits) : add_culprit(c, judged, psi)
        /\ Increasing(d.faults, "key")
        /\ \A f \in Range(d.faults) : add_fault(f, judged, psi)

offenders_mark(d) ==
    [i \in DOMAIN d.culprits |-> d.culprits[i].key] \o [i \in DOMAIN d.faults |-> d.faults[i].key]

next_disputes(d, psi) ==
    LET judged == Judged(d, psi)
    IN  [good |-> judged.good, bad |-> judged.bad, wonky |-> judged.wonky,
         offenders |-> psi.offenders \cup Range(offenders_mark(d))]
=============================================================================
