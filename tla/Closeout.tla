------------------------------ MODULE Closeout ------------------------------
(***************************************************************************)
(* Whether the project of Delivery can be closed out.  The answer is never *)
(* stored: it is evaluated from the policy in force, the project's facts,  *)
(* the field records, the report's approvals and the deliveries, and from  *)
(* overrides, each of which is bound to the evidence it was given for.     *)
(*                                                                         *)
(* Hashes stand for what they are taken of.  A request succeeds only if    *)
(* nothing it relies on has changed since its page was loaded, so a person *)
(* here acts on what stands.  The checks on the award and the purchase     *)
(* order are left out: the first never changes, the second is a fact like  *)
(* the required report.  One issue of one field record stands for all, and *)
(* issues that are kept by hand in the facts are left out.                 *)
(***************************************************************************)
EXTENDS Delivery

CONSTANTS
  MaxPolicy,   \* bound on the policy's version
  MaxFacts,    \* bound on the facts' revision
  MaxField,    \* bound on the revisions of the visits and of the field record
  MaxOverride  \* bound on the overrides that are active

ASSUME CloseoutAssumption ==
  MaxPolicy \in Nat /\ MaxFacts \in Nat /\ MaxField \in Nat /\ MaxOverride \in Nat

VARIABLES
  policy,    \* cpl_closeout_policies: the version in force and what it requires
  facts,     \* cpl_closeout_facts: required report, revision of the issue disposed of
  visits,    \* the project's visits: a revision, and whether some are open or all over
  issue,     \* the field record: its revision, and whether an issue of it counts
  override   \* cpl_closeout_overrides that are active, by what they are bound to

closing == <<policy, facts, visits, issue, override>>
closeoutVars == <<vars, closing>>

-----------------------------------------------------------------------------
Checks == {"work", "report", "delivery", "issues"}
\* Of the visits that are not cancelled: there is none, one is open, all are over.
VisitStates == {"none", "open", "over"}
NoPolicy == [version |-> 0, requires |-> {}]

CloseoutTypeOK ==
  /\ TypeOK
  /\ policy \in [version : 0..MaxPolicy, requires : SUBSET Checks]
  /\ facts \in [revision : 0..MaxFacts, report : {0} \cup approved,
               disposed : 0..issue.revision]
  /\ visits \in [revision : 0..MaxField, state : VisitStates]
  /\ issue \in [revision : 0..MaxField, reported : BOOLEAN]
  /\ issue.reported => issue.revision > 0
  /\ \A o \in override : o.check \in Checks /\ o.policy \in 1..MaxPolicy

CloseoutInit ==
  /\ Init
  /\ policy = NoPolicy
  /\ facts = [revision |-> 0, report |-> 0, disposed |-> 0]
  /\ visits = [revision |-> 0, state |-> "none"]
  /\ issue = [revision |-> 0, reported |-> FALSE]
  /\ override = {}

-----------------------------------------------------------------------------
(***************************************************************************)
(* Evaluation.                                                             *)
(***************************************************************************)

\* A disposition is of an issue as the field record reported it.
Disposed == facts.disposed = issue.revision

Sent == {s \in Packages \X Versions : "manually_sent" \in recorded[s[1]][s[2]]}

StillApproved == facts.report \in approved \ withdrawn

\* Seeded fault: any delivery of the project counts.
MetByAnySending(check) ==
  CASE check = "work" -> visits.state = "over"
    [] check = "report" -> StillApproved
    [] check = "delivery" -> Sent # {}
    [] check = "issues" -> ~issue.reported \/ Disposed

Met(check) ==
  CASE check = "work" -> visits.state = "over"
    [] check = "report" -> StillApproved
    [] check = "delivery" ->
         StillApproved /\ \E s \in Sent : facts.report \in content[s[1]][s[2]].reports
    [] check = "issues" -> ~issue.reported \/ Disposed

\* What the check was decided from.
Evidence(check) ==
  CASE check = "work" -> <<visits, project>>
    [] check = "report" -> <<facts.report, facts.report \in withdrawn, latest>>
    [] check = "delivery" -> <<facts.report, facts.report \in withdrawn, Sent>>
    [] check = "issues" -> IF issue.reported THEN {<<issue.revision, Disposed>>} ELSE {}

\* Seeded fault: an override is of a check, whatever its evidence.
BoundToCheck(check) == {o \in override : o.check = check}

Bound(check) ==
  {o \in override : o = [check |-> check, policy |-> policy.version, evidence |-> Evidence(check)]}

Passes(check) == Met(check) \/ Bound(check) # {}

Status ==
  IF policy.version = 0 THEN "not_configured"
  ELSE IF Active /\ \A check \in policy.requires : Passes(check) THEN "ready" ELSE "blocked"

-----------------------------------------------------------------------------
(***************************************************************************)
(* Operations.                                                             *)
(***************************************************************************)

SavePolicy(requires) ==
  /\ policy.version < MaxPolicy
  /\ policy' = [version |-> policy.version + 1, requires |-> requires]
  /\ UNCHANGED <<vars, facts, visits, issue, override>>

Requirable(r) == r \in approved \ withdrawn

Disposable(d) == issue.reported /\ d = issue.revision

\* The whole of the facts is saved: no report or an approved one, no disposition
\* or one of the issue as it stands.
SaveFacts(r, d) ==
  /\ facts.revision < MaxFacts
  /\ r = 0 \/ Requirable(r)
  /\ d = 0 \/ Disposable(d)
  /\ facts' = [revision |-> facts.revision + 1, report |-> r, disposed |-> d]
  /\ UNCHANGED <<vars, policy, visits, issue, override>>

\* Visits are planned, completed and reopened while the project is active, and
\* cancelled at any time, each time in a new revision.  The issue of a cancelled
\* visit no longer counts; reopening a visit is a revision of its record too.
ChangeVisits(next) ==
  /\ visits.revision < MaxField
  /\ visits' = [revision |-> visits.revision + 1, state |-> next]
  /\ \/ /\ visits.state = "open"
        /\ issue' \in {issue, [issue EXCEPT !.reported = FALSE]}
     \/ /\ visits.state # "open" /\ next = "open" /\ project.status = "active"
        /\ \/ issue' = issue
           \/ /\ visits.state = "over" /\ issue.revision < MaxField
              /\ issue' = [issue EXCEPT !.revision = @ + 1]
  /\ UNCHANGED <<vars, policy, facts, override>>

\* The record of an open visit is saved: with an issue, or with the answer that
\* had reported it changed.
SaveRecord(reported) ==
  /\ visits.state = "open" /\ project.status = "active"
  /\ issue.revision < MaxField
  /\ issue' = [revision |-> issue.revision + 1, reported |-> reported]
  /\ UNCHANGED <<vars, policy, facts, visits, override>>

Overridable(check) == check \in policy.requires /\ ~Met(check)

OverrideReadiness(check) ==
  /\ Overridable(check)
  /\ LET o == [check |-> check, policy |-> policy.version, evidence |-> Evidence(check)]
     IN \/ o \in override /\ override' = override \ {o}
        \/ Cardinality(override) < MaxOverride /\ override' = override \cup {o}
  /\ UNCHANGED <<vars, policy, facts, visits, issue>>

\* A project is not completed or cancelled over an open visit (saveProject).
ProjectCloses ==
  project' # project /\ project'.status \in {"completed", "cancelled"} => visits.state # "open"

CloseoutNext ==
  \/ Next /\ ProjectCloses /\ UNCHANGED closing
  \/ \E requires \in SUBSET Checks : SavePolicy(requires)
  \/ \E r \in 0..MaxReport, d \in 0..MaxField : SaveFacts(r, d)
  \/ \E next \in VisitStates : ChangeVisits(next)
  \/ \E reported \in BOOLEAN : SaveRecord(reported)
  \/ \E check \in Checks : OverrideReadiness(check)

CloseoutSpec == CloseoutInit /\ [][CloseoutNext]_closeoutVars

-----------------------------------------------------------------------------
(***************************************************************************)
(* Properties.                                                             *)
(***************************************************************************)

\* Readiness is never latched.  When the required report loses its approval,
\* when the record of an issue is revised and still reports it, or when the
\* visits or the project change and the visits are not over, a project that
\* needs them is not ready in that very step, whatever was disposed of or
\* overridden before (workspaceInTransaction, "Never stores a permanently
\* latched ready flag").  An issue that is answered away, or whose visit is
\* cancelled, is the one change that may leave the project ready.
NeverLatched ==
  [][/\ facts.report \in withdrawn' \ withdrawn /\ policy.requires \cap {"report", "delivery"} # {}
          => Status' # "ready"
     /\ issue' # issue /\ issue'.reported /\ "issues" \in policy.requires => Status' # "ready"
     /\ <<visits, project>>' # <<visits, project>> /\ visits'.state # "over"
          /\ "work" \in policy.requires => Status' # "ready"
     /\ policy'.version # policy.version /\ Status' = "ready" =>
          \A check \in policy'.requires : Met(check)]_closeoutVars

\* A project that is ready by a delivery, and not by an override, has sent the
\* required report in a version that was confirmed, and its approval stands
\* (deliveryRecorded; the composition of packages, approvals and facts).
ReadyIsDelivered ==
  Status = "ready" /\ "delivery" \in policy.requires /\ Bound("delivery") = {} =>
    /\ facts.report \in approved \ withdrawn
    /\ \E p \in Packages, v \in Versions :
         /\ {"ready", "manually_sent"} \subseteq recorded[p][v]
         /\ facts.report \in content[p][v].reports
=============================================================================
