---------------------------- MODULE InboundIntake ----------------------------
(***************************************************************************)
(* What the company is promised about inquiries: what was accepted under   *)
(* an event's name is kept as it came, it waits for the worker or for a    *)
(* person until it becomes one lead, and what people write into that lead  *)
(* is theirs, whatever is delivered, retried or mapped anew afterwards.    *)
(* Module InboundReceipts implements this.                                 *)
(***************************************************************************)
CONSTANTS Events,    \* names a sender gives its inquiries
          Bodies,    \* contents that arrive under them
          Mappings,  \* saved mapping versions
          None       \* no content, no lead

VARIABLE inquiry

Blank == [stage |-> "absent", body |-> None, lead |-> None, edited |-> FALSE]

Init == inquiry = [e \in Events |-> Blank]

Receive(e, b) ==
  /\ inquiry[e].stage = "absent"
  /\ inquiry' = [inquiry EXCEPT ![e] = [Blank EXCEPT !.stage = "waiting", !.body = b]]

SetAside(e) ==
  /\ inquiry[e].stage = "waiting"
  /\ inquiry' = [inquiry EXCEPT ![e].stage = "attention"]

TakeUpAgain(e) ==
  /\ inquiry[e].stage = "attention"
  /\ inquiry' = [inquiry EXCEPT ![e].stage = "waiting"]

BecomeLead(e, m) ==
  /\ inquiry[e].stage = "waiting"
  /\ inquiry' = [inquiry EXCEPT ![e].stage = "lead", ![e].lead = m]

EditLead(e) ==
  /\ inquiry[e].stage = "lead"
  /\ inquiry' = [inquiry EXCEPT ![e].edited = TRUE]

Next == \E e \in Events :
  \/ \E b \in Bodies : Receive(e, b)
  \/ SetAside(e)
  \/ TakeUpAgain(e)
  \/ \E m \in Mappings : BecomeLead(e, m)
  \/ EditLead(e)

Spec == Init /\ [][Next]_inquiry
=============================================================================
