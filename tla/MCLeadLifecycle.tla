-------------------------- MODULE MCLeadLifecycle --------------------------
\* LeadLifecycle on small instances; handlers are interchangeable.
EXTENDS LeadLifecycle, TLC

CONSTANTS c1, l1, l2
MCOwn == [c \in {c1} |-> l1]
Symmetry == Permutations(Handler)
=============================================================================
