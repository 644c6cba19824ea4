----------------------------- MODULE MCCloseout -----------------------------
(* Instances of Closeout, and of the Delivery that it extends, for TLC. *)
EXTENDS Closeout, TLC

\* "packages": every operation on a package of several versions from two pages.
\* "delivered": what a report, its approval and its sending decide, of a package
\* of one version, seen on one page.
\* "work": what the visits, their record and the project decide.
VARIABLE aspect

Symmetry == Permutations(Sessions)

Contents == [reports : {{1}}, addressed : {TRUE}]
OnlyPage(s) == \A other \in Sessions \ {s} : page[other] = None
Reading ==
  \/ WriteReport \/ ApproveReport
  \/ \E r \in Reports : WithdrawApproval(r)
  \/ \E c \in Contents, p \in Packages : CreatePackage(p, c)
  \/ \E s \in Sessions :
       /\ OnlyPage(s)
       /\ \/ \E p \in Packages : View(s, p)
          \/ \E action \in {"ready", "manually_sent"} : Record(s, action)

DeliveredNext ==
  \/ Reading /\ UNCHANGED closing
  \/ \E requires \in SUBSET {"report", "delivery"} : SavePolicy(requires)
  \/ \E r \in 0..MaxReport : SaveFacts(r, 0)
  \/ \E check \in {"report", "delivery"} : OverrideReadiness(check)

WorkNext ==
  \/ \E status \in Statuses : ChangeProject(status) /\ ProjectCloses /\ UNCHANGED closing
  \/ \E requires \in SUBSET {"work", "issues"} : SavePolicy(requires)
  \/ \E d \in 0..MaxField : SaveFacts(0, d)
  \/ \E next \in VisitStates : ChangeVisits(next)
  \/ \E reported \in BOOLEAN : SaveRecord(reported)
  \/ \E check \in {"work", "issues"} : OverrideReadiness(check)

\* At the bounds of the instance nothing more need happen.
AtBounds ==
  /\ latest = MaxReport \/ project.revision = MaxProject
  /\ UNCHANGED <<closeoutVars, aspect>>

AspectInit == CloseoutInit /\ aspect \in {"packages", "delivered", "work"}
AspectNext ==
  \/ aspect = "packages" /\ Next /\ UNCHANGED <<closing, aspect>>
  \/ aspect = "delivered" /\ DeliveredNext /\ UNCHANGED aspect
  \/ aspect = "work" /\ WorkNext /\ UNCHANGED aspect
  \/ AtBounds
AspectSpec == AspectInit /\ [][AspectNext]_<<closeoutVars, aspect>>
=============================================================================
