----------------------------- MODULE MCOutreach -----------------------------
\* OutreachApproval on small instances; identifiers are interchangeable.
EXTENDS OutreachApproval, TLC

Symmetry == Permutations(Handler) \cup Permutations(Request) \cup Permutations(Lead)
=============================================================================
