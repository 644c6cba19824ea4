-------------------------- MODULE MCInboundReceipts --------------------------
(***************************************************************************)
(* An instance of InboundReceipts for TLC.                                 *)
(***************************************************************************)
EXTENDS InboundReceipts, TLC

\* What one run explores, from the first state on:
\* "senders"  two events and two nonces under up to four form versions, and the form's
\*            administrators, before any invocation runs: what becomes of a receipt after
\*            it was queued changes no answer;
\* "workers"  one inquiry, under up to two form versions, and everything that becomes of it.
VARIABLE aspect

aspectVars == <<vars, aspect>>

TheEvent == CHOOSE e \in Events : TRUE
TheNonce == CHOOSE n \in Nonces : TRUE

AspectInit == Init /\ aspect \in {"senders", "workers"}

AspectNext ==
  /\ \/ aspect = "senders" /\ (Submissions \/ Administration)
     \/ /\ aspect = "workers"
        /\ \/ \E f, k \in 1..2, n \in {TheNonce, Browser} : Submit([event |-> TheEvent, form |-> f], k, n)
           \/ Administration
           \/ Processing
        /\ source'.gen <= 2
  /\ UNCHANGED aspect

AspectSpec == AspectInit /\ [][AspectNext]_aspectVars /\ Fairness
=============================================================================
