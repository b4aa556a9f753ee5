------------------------- MODULE ConversationIntake -------------------------
(***************************************************************************)
(* ConversationIntakeService.ingest_message, called by /intake and by the  *)
(* tool ingest_interaction: the sender's company is resolved, the message  *)
(* attached to a lead and logged, a reply drafted and its approval asked   *)
(* for, each in a commit of its own, with nothing caught in between.       *)
(* What happens to the lead's status is LeadLifecycle's matter.            *)
(***************************************************************************)
EXTENDS MarketScan

CONSTANTS Sender,  \* what is known of those who write
          NoExchange, NoLead

ASSUME SendersAreObserved == Sender \subseteq Observation
ASSUME NoneIsNoExchange == NoExchange \notin Exchange /\ NoExchange # "own"
ASSUME NoneIsNoLead == NoLead \notin Lead

VARIABLES
  inbound,  \* the logged message of an exchange
  reply,    \* the lead its draft is for
  asked,    \* exchanges whose reply awaits the founder's approval
  letter,   \* what each handler is ingesting
  about     \* and the lead it is attached to

interactions == <<inbound, reply, asked>>
intake == <<interactions, letter, about>>

Inbound == [lead : Lead \cup {NoLead}, who : Profile, violation : BOOLEAN]
NotLogged == [lead |-> NoLead, who |-> NoProfile, violation |-> FALSE]
Letter == [exchange : Exchange \cup {NoExchange}, who : Profile]
NoLetter == [exchange |-> NoExchange, who |-> NoProfile]

InitIntake == /\ inbound = [x \in Exchange |-> NotLogged]
              /\ reply = [x \in Exchange |-> NoLead]
              /\ asked = {}
              /\ letter = [h \in Handler |-> NoLetter]
              /\ about = [h \in Handler |-> NoLead]

-----------------------------------------------------------------------------
\* A sender is known by a mail address, and so by its domain, by a number, or,
\* with a handle, by the name alone.
Senders ==
  LET none == [s \in Slot |-> NoContact]
      Only(S, e) == [s \in Slot |-> IF s \in S THEN e ELSE NoContact]
  IN  {Shown(n, NoDomain, none, {}) : n \in Name \cup {NoName}}
        \cup {Shown(n, d, Only(S, e), {}) : n \in Name \cup {NoName}, d \in Domain \cup {NoDomain},
                                          e \in Contact, S \in SUBSET Slot \ {{}}}

\* Mutant of Unused: an identifier made of the message, not a new one.
NotAtHand(x) == \A h \in Handler : letter[h].exchange # x

Unused(x) == /\ inbound[x] = NotLogged
             /\ \A l \in leads : l.name # x
             /\ \A h \in Handler : letter[h].exchange # x

\* What the text is, and the caller's auto_request_approval, are settled here,
\* but matter only in LogInbound and SaveReply, which choose them.
IngestMessage(h, x, who) ==
  /\ stage[h] = "idle"
  /\ Unused(x)
  /\ letter' = [letter EXCEPT ![h] = [exchange |-> x, who |-> who]]
  /\ Resolve(h, who)
  /\ Reach(h, "sender")
  /\ UNCHANGED <<tables, fetch, owner, progress, interactions, about>>

\* Nothing here inserts the country, and a company refers to it.
KeepSender(h) == /\ stage[h] = "sender"
                 /\ match[h] \in stored \/ "country" \in profiles
                 /\ owner' = [owner EXCEPT ![h] = match[h]]
                 /\ SaveCompany(h)
                 /\ Reach(h, "attach")
                 /\ UNCHANGED <<tables, fetch, progress, intake>>

\* Mutant of RelevantLeads: the latest lead there is, whosever.
AnyLead(c) == leads

\* Mutant of RelevantLeads: only the lead the scanner would have made.
OwnLeadOnly(c) == LeadsOf(c) \cap {OwnLead(c)}

\* get_lead_by_company takes the first by bucket, which rows do not say here.
RelevantLeads(c) == LeadsOf(c)

\* The lead found, or one that is yet to be saved.
AttachLead(h) ==
  LET c == owner[h]
  IN  /\ stage[h] = "attach"
      /\ \/ /\ RelevantLeads(c) = {}
            /\ about' = [about EXCEPT ![h] = [company |-> c, name |-> letter[h].exchange]]
            /\ Reach(h, "create")
         \/ /\ \E l \in RelevantLeads(c) : about' = [about EXCEPT ![h] = l]
            /\ Reach(h, "inbound")
      /\ UNCHANGED <<vars, tables, fetch, owner, progress, interactions, letter>>

CreateLead(h) ==
  /\ stage[h] = "create"
  /\ leads' = leads \cup {about[h]}
  /\ Reach(h, "inbound")
  /\ UNCHANGED <<vars, profiles, evidence, fetch, owner, progress, intake>>

\* A violation is logged on the rejected lead, and that is all.
LogInbound(h, violation) ==
  /\ stage[h] = "inbound"
  /\ inbound' = [inbound EXCEPT ![letter[h].exchange] =
       [lead |-> about[h], who |-> letter[h].who, violation |-> violation]]
  /\ Reach(h, IF violation THEN "answered" ELSE "draft")
  /\ UNCHANGED <<vars, tables, fetch, owner, progress, reply, asked, letter, about>>

\* Mutant of SaveReply: the approval is asked for before the draft is saved.
SaveReplyLate(h, auto) ==
  /\ stage[h] = "draft"
  /\ asked' = asked \cup {letter[h].exchange}
  /\ Reach(h, "ask")
  /\ UNCHANGED <<vars, tables, fetch, owner, progress, inbound, reply, letter, about>>

SaveReply(h, auto) ==
  /\ stage[h] = "draft"
  /\ reply' = [reply EXCEPT ![letter[h].exchange] = about[h]]
  /\ Reach(h, IF auto THEN "ask" ELSE "answered")
  /\ UNCHANGED <<vars, tables, fetch, owner, progress, inbound, asked, letter, about>>

AskApproval(h) ==
  /\ stage[h] = "ask"
  /\ asked' = asked \cup {letter[h].exchange}
  /\ Reach(h, "answered")
  /\ UNCHANGED <<vars, tables, fetch, owner, progress, inbound, reply, letter, about>>

EndIntake(h) == /\ stage[h] = "answered"
                /\ Reach(h, "idle")
                /\ owner' = [owner EXCEPT ![h] = NoCompany]
                /\ letter' = [letter EXCEPT ![h] = NoLetter]
                /\ about' = [about EXCEPT ![h] = NoLead]
                /\ UNCHANGED <<vars, tables, fetch, progress, interactions>>

IntakeStep(h) ==
  \/ \E x \in Exchange, who \in Sender : IngestMessage(h, x, who)
  \/ KeepSender(h) \/ AttachLead(h) \/ CreateLead(h)
  \/ \E violation \in BOOLEAN : LogInbound(h, violation)
  \/ \E auto \in BOOLEAN : SaveReply(h, auto)
  \/ AskApproval(h) \/ EndIntake(h)
=============================================================================
