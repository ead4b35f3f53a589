----------------------------- MODULE MCConsensus -----------------------------
(***************************************************************************)
(* An instance of Consensus with epochs of four slots and six validators,  *)
(* two of which take part in the contest for tickets beside this node.     *)
(***************************************************************************)
EXTENDS Consensus

MCGenesis == <<1, 2, 3, 4, 5, 6>>

\* This node has another index, and the set another size.
MCDesignations == {<<2, 3, 1, 4, 5, 6, 7, 8, 9>>}

MCTicketRank(key, entropy, attempt) == (key * 5 + attempt * 3 + entropy) % 17

\* This node is drawn often enough to submit its tickets, and sometimes for the
\* first block of an epoch.
MCFallbackDraw(entropy, phase) == IF phase % 2 = 1 THEN 0 ELSE entropy + 1

Verdict(target, age, positive) ==
    [target |-> target, age |-> age, votes |-> 5, positive |-> positive, sorted |-> TRUE, signed |-> TRUE]

\* A bad report with its guarantor, a good one with a false auditor, a report
\* that stays undecided, and evidence without verdict.
MCDisputes ==
    {[verdicts |-> <<Verdict(1, 0, 0)>>, culprits |-> <<[target |-> 1, key |-> 2, signed |-> TRUE]>>, faults |-> <<>>],
     [verdicts |-> <<Verdict(1, 0, 2)>>, culprits |-> <<>>, faults |-> <<>>],
     [verdicts |-> <<Verdict(1, 1, 5)>>, culprits |-> <<>>,
      faults |-> <<[target |-> 1, vote |-> FALSE, key |-> 2, signed |-> TRUE]>>],
     [verdicts |-> <<>>, culprits |-> <<[target |-> 1, key |-> 3, signed |-> TRUE]>>, faults |-> <<>>]}
=============================================================================
