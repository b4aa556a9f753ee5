---------------------------- MODULE MCPublishing ----------------------------
\* Publishing on small instances; identifiers are interchangeable.
EXTENDS Publishing, TLC

Symmetry == Permutations(Handler) \cup Permutations(Request) \cup Permutations(Asset)
=============================================================================
