------------------------- MODULE MCProposalLifecycle -------------------------
(* Small instances of ProposalLifecycle for TLC: two habits that share a     *)
(* pattern (grouping can put it in either group, never in both).             *)
EXTENDS ProposalLifecycle, TLC

CONSTANTS k1, k2, x1, x2

\* One habit per key, one pattern each.
Separate == {[key |-> k1, pats |-> {x1}], [key |-> k2, pats |-> {x2}]}

\* x2 is grouped with x1 under k1 on some nights, alone under k2 on others.
Overlapping == {[key |-> k1, pats |-> {x1, x2}], [key |-> k1, pats |-> {x1}],
                [key |-> k2, pats |-> {x2}]}

SingleHabit == {[key |-> k1, pats |-> {x1}]}

==============================================================================
