--------------------------- MODULE MCPhotoUploads ---------------------------
(* Instances of PhotoUploads for TLC. *)
EXTENDS PhotoUploads, TLC

\* Whether a file, once stored, stays, or originals may be lost as well.
VARIABLE kept

keptVars == <<photoVars, kept>>

\* Where files are kept, the project is held and the visit cancelled as well; the
\* latter before anything else has gone wrong.
KeptNext == Working /\ (fieldVisit' = "cancelled" /\ fieldVisit = "open" => faults = 0)
LostNext == PhotoNext /\ underway' /\ fieldVisit' # "cancelled"

EitherInit == PhotoInit /\ kept \in BOOLEAN
EitherNext == (IF kept THEN KeptNext ELSE LostNext) /\ UNCHANGED kept
EitherSpec == EitherInit /\ [][EitherNext]_keptVars /\ Fairness

\* PendingSettles, while nothing is lost.
KeptSettles == kept => PendingSettles

LossyInit == PhotoInit /\ kept = FALSE
LossyNext == PhotoNext /\ UNCHANGED kept
LossySpec == LossyInit /\ [][LossyNext]_keptVars /\ Fairness
=============================================================================
