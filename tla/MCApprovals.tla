----------------------------- MODULE MCApprovals ----------------------------
(***************************************************************************)
(* The two documents that customers receive, proposals (Commercial) and    *)
(* reports (ReportApproval), for TLC.  They share no state: an award       *)
(* launches the project that reports are about, and both implement         *)
(* ApprovedArtifact.  One document is explored at a time.                  *)
(***************************************************************************)
EXTENDS Commercial, TLC

CONSTANTS
  Sources, Ready, Unusable, People, ApprovalKeys, Calls, None,
  MaxReportVersion, MaxReportRevision

VARIABLES
  sources, reviewers, report, reportVersion, attempt, reportFile, stored,
  reportPage, approval, call,
  aspect     \* the document that the run is about

Reports == INSTANCE ReportApproval WITH
  Keys <- ApprovalKeys, MaxVersion <- MaxReportVersion, MaxRevision <- MaxReportRevision,
  version <- reportVersion, artifact <- reportFile, page <- reportPage, request <- approval

ASSUME Reports!ReportAssumption

Symmetry == Permutations(Sessions) \cup Permutations(Requests)

\* "proposal": one proposal, created by a plain request, and what becomes of it.
\* "creation": the proposals of one lead, as requests of every kind create them.
\* "report":   one report.
Documents == {"proposal", "creation", "report"}

TheFirst == CHOOSE k \in Keys : TRUE
AsNow == CHOOSE s \in Ready : TRUE

ProposalNext ==
  \/ created[TheFirst] = 0 /\ OpenCreation(TheFirst, [additional |-> FALSE, legacy |-> FALSE])
  \/ CommitCreation(TheFirst)
  \/ Deciding

reportVars == <<sources, reviewers, report, reportVersion, attempt, reportFile, stored,
                reportPage, approval, call>>

AspectInit ==
  /\ Init /\ Reports!Init
  /\ aspect \in Documents
  /\ aspect # "report" => sources = AsNow

AspectNext ==
  /\ UNCHANGED aspect
  /\ \/ aspect = "proposal" /\ ProposalNext /\ UNCHANGED reportVars
     \/ aspect = "creation" /\ Creating /\ UNCHANGED reportVars
     \/ aspect = "report" /\ Reports!Next /\ UNCHANGED vars

AspectSpec == AspectInit /\ [][AspectNext]_<<vars, reportVars, aspect>>

-----------------------------------------------------------------------------
\* The property of ReportApproval, of its instance here.
CommitIsFresh == Reports!CommitIsFresh

\* Both are approved artifacts: what a customer is given is the text that was agreed to,
\* and no file is replaced (ImplementsDocument of either module).
DocumentsAreArtifacts == ImplementsDocument /\ Reports!ImplementsDocument
=============================================================================
