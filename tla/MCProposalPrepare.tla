--------------------------- MODULE MCProposalPrepare ---------------------------
(***************************************************************************)
(* Instances of ProposalPrepare for TLC.                                   *)
(***************************************************************************)
EXTENDS ProposalPrepare, TLC

\* Invocations are alike.
Alike == Permutations(Workers)
=============================================================================
