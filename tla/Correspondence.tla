--------------------------- MODULE Correspondence ---------------------------
(***************************************************************************)
(* What the intake service promises to whoever reads its records: a        *)
(* message is logged once, on a lead that is there; a message that is no   *)
(* violation is answered at most once, for that lead; approval is asked    *)
(* for an answer that is there; and none of this is ever changed.          *)
(***************************************************************************)
CONSTANTS Exchange, NotLogged, NoLead
VARIABLES leads, inbound, reply, asked

Init == /\ leads = {} /\ asked = {}
        /\ inbound = [x \in Exchange |-> NotLogged]
        /\ reply = [x \in Exchange |-> NoLead]

AddLeads == leads \subseteq leads' /\ UNCHANGED <<inbound, reply, asked>>

\* Whatever the message is.
Log(x) == /\ inbound[x] = NotLogged
          /\ inbound'[x].lead \in leads
          /\ inbound' = [inbound EXCEPT ![x] = inbound'[x]]
          /\ UNCHANGED <<leads, reply, asked>>

Answer(x) == /\ inbound[x] # NotLogged /\ ~inbound[x].violation
             /\ reply[x] = NoLead
             /\ reply' = [reply EXCEPT ![x] = inbound[x].lead]
             /\ UNCHANGED <<leads, inbound, asked>>

Ask(x) == /\ reply[x] # NoLead
          /\ asked' = asked \cup {x}
          /\ UNCHANGED <<leads, inbound, reply>>

Next == \/ AddLeads
        \/ \E x \in Exchange : Log(x) \/ Answer(x) \/ Ask(x)

Spec == Init /\ [][Next]_<<leads, inbound, reply, asked>>
=============================================================================
