--------------------------- MODULE MCLeadScoring ---------------------------
(***************************************************************************)
(* LeadScoring on small instances.  Reports grade everything alike, on     *)
(* both sides of each threshold, or nothing; the last one is a tie, 84.50, *)
(* when contacts are known.                                                *)
(***************************************************************************)
EXTENDS LeadScoring, TLC

CONSTANTS c1, l1
MCOwn == [c \in {c1} |-> l1]

Alike(g, decision) == [fit |-> g, pain |-> g, urgency |-> g, reach |-> g,
                       decision |-> decision, integrity |-> "passed"]
MCReport ==
  {Alike(g, "qualified") : g \in {0, 64, 65, 84, 85}}
    \cup {Alike(g, "discovered") : g \in {39, 40, 69, 70, 85}}
    \cup {Alike(g, "none") : g \in {70, NoGrade}}
    \cup {Alike(85, "rejected"),
          [Alike(85, "qualified") EXCEPT !.integrity = "failed"],
          [fit |-> 80, pain |-> 85, urgency |-> 85, reach |-> 0,
           decision |-> "qualified", integrity |-> "passed"]}

Symmetry == Permutations(Handler)
=============================================================================
