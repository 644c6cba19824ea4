------------------------------ MODULE Delivery ------------------------------
(***************************************************************************)
(* The delivery packages of one project: which approved versions of its    *)
(* report each version of a package binds, and what people record about a  *)
(* version: confirmed ready, exported, sent by hand, acknowledged.         *)
(*                                                                         *)
(* Every operation takes advisory lock 31 and is one step.  What it has to *)
(* stand up to is what happened since its page was loaded: the package was *)
(* edited, an approval was withdrawn, the project was put on hold.  The    *)
(* report itself is ReportApproval's; here its versions are written, then  *)
(* approved.  Messages, names and times are left out, and so are the       *)
(* idempotency keys, which change only the answer of a repeated request.   *)
(***************************************************************************)
EXTENDS Naturals, FiniteSets

CONSTANTS
  Packages,
  Sessions,     \* browser pages
  None,
  MaxReport,    \* versions of the project's report
  MaxVersion,   \* versions of a package
  MaxRevision,  \* bound on a package's revision
  MaxProject    \* bound on the revision of the project's operations

ASSUME DeliveryAssumption ==
  /\ MaxReport \in Nat \ {0} /\ MaxVersion \in Nat \ {0} /\ MaxRevision \in Nat \ {0}
  /\ MaxProject \in Nat

VARIABLES
  latest,      \* the report's current version, 0 before it exists
  approved,    \* its versions with an artifact
  withdrawn,   \* cpl_report_approval_withdrawals
  project,     \* cpl_project_operations: its status and its revision
  package,     \* cpl_delivery_packages
  content,     \* cpl_delivery_versions and attachments
  recorded,    \* cpl_delivery_events that are transitions, by version
  page         \* what each session looks at

reporting == <<latest, approved, withdrawn>>
packing == <<package, content, recorded>>
vars == <<reporting, project, packing, page>>

-----------------------------------------------------------------------------
Reports == 1..MaxReport
Versions == 1..MaxVersion
Steps == <<"draft", "ready", "exported", "manually_sent", "acknowledged">>
States == {Steps[i] : i \in 1..5}
PackageRecord == [state : States \cup {"absent"}, version : 0..MaxVersion,
                  revision : 0..MaxRevision]
Content == [reports : SUBSET Reports \ {{}}, addressed : BOOLEAN]
Statuses == {"active", "on_hold", "completed", "cancelled"}
Operations == [status : Statuses, revision : 0..MaxProject]
Shown == [of : Packages, version : Versions, revision : 1..MaxRevision]

TypeOK ==
  /\ latest \in 0..MaxReport
  /\ withdrawn \subseteq approved /\ approved \subseteq 1..latest
  /\ project \in Operations
  /\ package \in [Packages -> PackageRecord]
  /\ content \in [Packages -> [Versions -> Content \cup {None}]]
  /\ recorded \in [Packages -> [Versions -> SUBSET (States \ {"draft"})]]
  /\ page \in [Sessions -> Shown \cup {None}]

Init ==
  /\ latest = 0 /\ approved = {} /\ withdrawn = {}
  /\ project = [status |-> "active", revision |-> 0]
  /\ package = [p \in Packages |-> [state |-> "absent", version |-> 0, revision |-> 0]]
  /\ content = [p \in Packages |-> [v \in Versions |-> None]]
  /\ recorded = [p \in Packages |-> [v \in Versions |-> {}]]
  /\ page = [s \in Sessions |-> None]

-----------------------------------------------------------------------------
(***************************************************************************)
(* The report and the project.                                             *)
(***************************************************************************)

WriteReport ==
  /\ latest < MaxReport
  /\ latest' = latest + 1
  /\ UNCHANGED <<approved, withdrawn, project, packing, page>>

ApproveReport ==
  /\ latest \in Reports \ approved
  /\ approved' = approved \cup {latest}
  /\ UNCHANGED <<latest, withdrawn, project, packing, page>>

WithdrawApproval(r) ==
  /\ r \in approved \ withdrawn
  /\ withdrawn' = withdrawn \cup {r}
  /\ UNCHANGED <<latest, approved, project, packing, page>>

\* Every save is a revision, also one that leaves the status.
ChangeProject(status) ==
  /\ project.revision < MaxProject
  /\ project' = [status |-> status, revision |-> project.revision + 1]
  /\ UNCHANGED <<reporting, packing, page>>

\* The packages of a completed project can still be confirmed and sent.
Active == project.status \notin {"on_hold", "cancelled"}

-----------------------------------------------------------------------------
(***************************************************************************)
(* The text of a package.                                                  *)
(***************************************************************************)

\* Seeded fault: what was once approved can be sent.
SelectableOnceApproved(reports) == reports \subseteq approved

\* The artifact of every selected version exists and is not withdrawn.
Selectable(reports) == reports \subseteq approved \ withdrawn

\* By a person, or by the automation for one approved version.
CreatePackage(p, c) ==
  /\ package[p].state = "absent"
  /\ Active /\ Selectable(c.reports)
  /\ package' = [package EXCEPT ![p] = [state |-> "draft", version |-> 1, revision |-> 1]]
  /\ content' = [content EXCEPT ![p][1] = c]
  /\ UNCHANGED <<reporting, project, recorded, page>>

View(s, p) ==
  /\ package[p].state # "absent"
  /\ page' = [page EXCEPT ![s] =
       [of |-> p, version |-> package[p].version, revision |-> package[p].revision]]
  /\ UNCHANGED <<reporting, project, packing>>

Expects(s) == page[s] # None /\ package[page[s].of].revision = page[s].revision

Bounded(p) == package[p].revision < MaxRevision

\* Seeded fault: an edit keeps the confirmation of the version before.
EditedStateKept(p) == package[p].state

EditedState(p) == "draft"

Savable(p) == package[p].state \notin {"manually_sent", "acknowledged"}

Following(p) == package[p].version + 1

EditPackage(s, c) ==
  /\ Expects(s) /\ Active
  /\ LET p == page[s].of IN
       /\ Bounded(p) /\ Following(p) \in Versions
       /\ Selectable(c.reports)
       /\ content' = [content EXCEPT ![p][Following(p)] = c]
       /\ package' = [package EXCEPT ![p] =
            [state |-> EditedState(p), version |-> Following(p), revision |-> @.revision + 1]]
  /\ UNCHANGED <<reporting, project, recorded, page>>

\* savePackage leaves what was sent alone; revisePackage starts over explicitly.
SavePackage(s, c) == page[s] # None /\ Savable(page[s].of) /\ EditPackage(s, c)
RevisePackage(s, c) == EditPackage(s, c)

-----------------------------------------------------------------------------
(***************************************************************************)
(* What people record about a version.                                     *)
(***************************************************************************)

From(p, action) == package[p].state \in
  CASE action = "ready" -> {"draft"}
    [] action \in {"exported", "manually_sent"} -> {"ready", "exported"}
    [] action = "acknowledged" -> {"manually_sent"}

\* Checked again at every step up to the sending: the approvals, the project, the recipient.
Deliverable(p) ==
  LET c == content[p][package[p].version] IN Active /\ Selectable(c.reports) /\ c.addressed

\* The event, the state and, for a sending, the event delivery.recorded are one transaction.
Record(s, action) ==
  /\ Expects(s)
  /\ LET p == page[s].of IN
       /\ Bounded(p) /\ From(p, action)
       /\ action = "acknowledged" \/ Deliverable(p)
       /\ recorded' = [recorded EXCEPT ![p][package[p].version] = @ \cup {action}]
       /\ package' = [package EXCEPT ![p].state = action, ![p].revision = @ + 1]
  /\ UNCHANGED <<reporting, project, content, page>>

Next ==
  \/ WriteReport \/ ApproveReport
  \/ \E r \in Reports : WithdrawApproval(r)
  \/ \E status \in Statuses : ChangeProject(status)
  \/ \E c \in Content :
       \/ \E p \in Packages : CreatePackage(p, c)
       \/ \E s \in Sessions : SavePackage(s, c) \/ RevisePackage(s, c)
  \/ \E s \in Sessions :
       \/ \E p \in Packages : View(s, p)
       \/ \E action \in States \ {"draft"} : Record(s, action)

Spec == Init /\ [][Next]_vars

-----------------------------------------------------------------------------
(***************************************************************************)
(* Properties.                                                             *)
(***************************************************************************)

\* What the events say of a version: the last state that one of them names.
Derived(p, v) ==
  LET reached == {1} \cup {i \in 2..5 : Steps[i] \in recorded[p][v]}
  IN Steps[CHOOSE i \in reached : \A j \in reached : j <= i]

\* The state of a package and the state that load derives from the events of
\* its current version are kept apart and always agree: an edit takes nothing
\* of the earlier version's confirmation with it.
RowAgreesWithEvents ==
  \A p \in Packages : package[p].state # "absent" =>
    package[p].state = Derived(p, package[p].version)

\* A version is confirmed, exported or sent only while every report that it
\* binds is approved and not withdrawn and the project is neither on hold nor
\* cancelled, although both were checked when the version was written (transition).
SentWasApproved ==
  [][\A p \in Packages, v \in Versions :
       recorded'[p][v] \cap {"ready", "exported", "manually_sent"} # recorded[p][v]
                          \cap {"ready", "exported", "manually_sent"} =>
         /\ content[p][v].reports \cap withdrawn = {}
         /\ project.status \notin {"on_hold", "cancelled"}]_vars

=============================================================================
