---------------------------- MODULE ApprovalGate ----------------------------
(***************************************************************************)
(* What the approvals table promises its readers: a request is filed once, *)
(* an administrator decides it once, and then it stays as it is.           *)
(***************************************************************************)
CONSTANTS Request, AdminUser, NoUser
VARIABLES decision, decider

Init == /\ decision = [r \in Request |-> "none"]
        /\ decider = [r \in Request |-> NoUser]

File(r) == /\ decision[r] = "none"
           /\ decision' = [decision EXCEPT ![r] = "pending"]
           /\ UNCHANGED decider

Decide(r, verdict, u) == /\ decision[r] = "pending"
                         /\ decision' = [decision EXCEPT ![r] = verdict]
                         /\ decider' = [decider EXCEPT ![r] = u]

Next == \E r \in Request :
          \/ File(r)
          \/ \E verdict \in {"approved", "rejected", "rewrite_requested"},
                u \in AdminUser : Decide(r, verdict, u)

Spec == Init /\ [][Next]_<<decision, decider>>
=============================================================================
