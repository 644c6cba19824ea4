--------------------------- MODULE ReportApproval ---------------------------
(***************************************************************************)
(* One report of a project, from its assembly through versions, review and *)
(* approval to the immutable PDF of every approved version.                *)
(*                                                                         *)
(* Every operation takes advisory lock 31 and is one step, except approval,*)
(* which is three: an attempt is prepared, a PDF is rendered from it and   *)
(* written outside any transaction, and the attempt is completed.  Between *)
(* them the field records, the branding, the report and the reviewer's     *)
(* role change freely, the call may die, and its request may be sent       *)
(* again, also while the first call is still rendering.                    *)
(*                                                                         *)
(* What a version would be assembled from, field records and branding, is  *)
(* one value of Sources; a version freezes the value it was saved with     *)
(* (its source hash).  The idempotency keys of edits are left out: an edit *)
(* that is sent again is refused by its revision, and the key changes only *)
(* the answer.                                                             *)
(***************************************************************************)
EXTENDS Naturals, FiniteSets

CONSTANTS
  Sources,      \* states of the records and the branding that a report shows
  Ready,        \* those with completed visits and evidence
  Unusable,     \* those that a report cannot be assembled from
  People,       \* whose pages show the report
  Keys,         \* idempotency keys of approval requests
  Calls,        \* calls of approveCplReport under way
  None,
  MaxVersion,   \* versions of a report (200 in the code)
  MaxRevision   \* bound on the report's revision

VARIABLES
  sources,    \* the records and the branding as they are now
  reviewers,  \* people who may review now
  report,     \* cpl_reports: its state, its current version and its revision
  version,    \* cpl_report_versions: the sources each version has frozen
  attempt,    \* cpl_report_attempts, by the key that prepared each
  artifact,   \* cpl_report_artifacts: the attempt that published each version
  stored,     \* attempts whose PDF is in the evidence store
  page,       \* what each person looks at
  request,    \* what each approval request was composed from
  call        \* calls under way

reviewing == <<page, request, call>>
vars == <<sources, reviewers, report, version, attempt, artifact, stored, reviewing>>

-----------------------------------------------------------------------------
Versions == 1..MaxVersion
States == {"draft", "in_review", "changes_requested", "approved"}
ReportRecord == [state : States \cup {"absent"}, version : 0..MaxVersion,
                 revision : 0..MaxRevision]
Attempt == [version : Versions, revision : 1..MaxRevision, sources : Sources,
            at : 1..Cardinality(Keys)]
Shown == [version : Versions, revision : 1..MaxRevision]
Asked == [by : People, version : Versions, revision : 1..MaxRevision]
Idle == [pc |-> "idle"]
Working == [pc : {"rendering", "stored"}, key : Keys]

ReportAssumption ==
  /\ Ready \subseteq Sources /\ Unusable \subseteq Sources \ Ready
  /\ None \notin Sources \cup Keys \cup Attempt \cup Shown \cup Asked
  /\ IsFiniteSet(Keys)
  /\ MaxVersion \in Nat \ {0} /\ MaxRevision \in Nat \ {0}

TypeOK ==
  /\ sources \in Sources
  /\ reviewers \subseteq People
  /\ report \in ReportRecord
  /\ version \in [Versions -> Sources \cup {None}]
  /\ attempt \in [Keys -> Attempt \cup {None}]
  /\ artifact \in [Versions -> Keys \cup {None}]
  /\ stored \subseteq Keys
  /\ page \in [People -> Shown \cup {None}]
  /\ request \in [Keys -> Asked \cup {None}]
  /\ call \in [Calls -> {Idle} \cup Working]

Init ==
  /\ sources \in Sources
  /\ reviewers = People
  /\ report = [state |-> "absent", version |-> 0, revision |-> 0]
  /\ version = [v \in Versions |-> None]
  /\ attempt = [k \in Keys |-> None]
  /\ artifact = [v \in Versions |-> None]
  /\ stored = {}
  /\ page = [p \in People |-> None]
  /\ request = [k \in Keys |-> None]
  /\ call = [c \in Calls |-> Idle]

-----------------------------------------------------------------------------
(***************************************************************************)
(* What the report is about, and who reviews it.                           *)
(***************************************************************************)

\* A field record, a visit, a photo, a name or the branding changes.
ChangeSources(s) ==
  /\ sources' = s
  /\ UNCHANGED <<reviewers, report, version, attempt, artifact, stored, reviewing>>

ChangeReviewer(p) ==
  /\ reviewers' = IF p \in reviewers THEN reviewers \ {p} ELSE reviewers \cup {p}
  /\ UNCHANGED <<sources, report, version, attempt, artifact, stored, reviewing>>

View(p) ==
  /\ report.state # "absent"
  /\ page' = [page EXCEPT ![p] = [version |-> report.version, revision |-> report.revision]]
  /\ UNCHANGED <<sources, reviewers, report, version, attempt, artifact, stored, request, call>>

-----------------------------------------------------------------------------
(***************************************************************************)
(* Assembly and review.                                                    *)
(***************************************************************************)

Capturable == sources \notin Unusable

\* Assembled again, the version would freeze what it has frozen.
Fresh(v) == Capturable /\ sources = version[v]

\* Readiness is read from what the version has frozen.
IsReady(v) == version[v] \in Ready

Current(expected) == report.revision = expected

CreateReport ==
  /\ report.state = "absent" /\ Capturable
  /\ report' = [state |-> "draft", version |-> 1, revision |-> 1]
  /\ version' = [version EXCEPT ![1] = sources]
  /\ UNCHANGED <<sources, reviewers, attempt, artifact, stored, reviewing>>

Editable == report.state \in {"draft", "changes_requested"}

Expects(p) == page[p] # None /\ Current(page[p].revision)
Bounded == report.revision < MaxRevision
Moves(state, number) ==
  report' = [state |-> state, version |-> number, revision |-> report.revision + 1]

Appended == report.version + 1

\* saveReport wants the sources of the version that stands, refreshSources takes new ones.
EditReport(p, refresh) ==
  /\ Expects(p) /\ Editable /\ Bounded
  /\ Appended \in Versions
  /\ Capturable /\ (refresh \/ Fresh(report.version))
  /\ version' = [version EXCEPT ![Appended] = sources]
  /\ Moves(report.state, Appended)
  /\ UNCHANGED <<sources, reviewers, attempt, artifact, stored, reviewing>>

SubmitReport(p) ==
  /\ Expects(p) /\ Editable /\ Bounded
  /\ Fresh(report.version) /\ IsReady(report.version)
  /\ Moves("in_review", report.version)
  /\ UNCHANGED <<sources, reviewers, version, attempt, artifact, stored, reviewing>>

RequestChanges(p) ==
  /\ Expects(p) /\ p \in reviewers /\ report.state = "in_review" /\ Bounded
  /\ Moves("changes_requested", report.version)
  /\ UNCHANGED <<sources, reviewers, version, attempt, artifact, stored, reviewing>>

\* The new version starts with what the approved one has frozen, however old.
ReviseReport(p) ==
  /\ Expects(p) /\ report.state = "approved" /\ Bounded
  /\ Appended \in Versions
  /\ version' = [version EXCEPT ![Appended] = version[report.version]]
  /\ Moves("draft", Appended)
  /\ UNCHANGED <<sources, reviewers, attempt, artifact, stored, reviewing>>

-----------------------------------------------------------------------------
(***************************************************************************)
(* Approval: prepare, render, store, complete.                             *)
(***************************************************************************)

\* A person presses Approve on the page that they see.
ComposeApproval(p, k) ==
  /\ page[p] # None /\ request[k] = None
  /\ request' = [request EXCEPT ![k] =
       [by |-> p, version |-> page[p].version, revision |-> page[p].revision]]
  /\ UNCHANGED <<sources, reviewers, report, version, attempt, artifact, stored, page, call>>

Prepared == {k \in Keys : attempt[k] # None}

\* What both the first call of a request and a later one must find.
Reviewable(k) ==
  /\ report.state = "in_review" /\ Current(request[k].revision)
  /\ Fresh(report.version)

\* A later call of a request goes on with the attempt that the first one prepared.
PrepareApproval(c, k) ==
  /\ call[c] = Idle /\ request[k] # None
  /\ request[k].by \in reviewers
  /\ Reviewable(k)
  /\ \/ k \in Prepared /\ UNCHANGED attempt
     \/ /\ k \notin Prepared /\ IsReady(report.version)
        /\ attempt' = [attempt EXCEPT ![k] =
             [version |-> report.version, revision |-> report.revision,
              sources |-> version[report.version], at |-> Cardinality(Prepared) + 1]]
  /\ call' = [call EXCEPT ![c] = [pc |-> "rendering", key |-> k]]
  /\ UNCHANGED <<sources, reviewers, report, version, artifact, stored, page, request>>

Filed(k) == stored' = stored \cup {k}

\* The PDF is a function of the attempt, so writing it again changes nothing.
StoreArtifact(c) ==
  /\ call[c].pc = "rendering"
  /\ Filed(call[c].key)
  /\ call' = [call EXCEPT ![c].pc = "stored"]
  /\ UNCHANGED <<sources, reviewers, report, version, attempt, artifact, page, request>>

\* Seeded fault: the sources are not read again.
CommitsUnread(k) ==
  /\ request[k].by \in reviewers
  /\ Current(attempt[k].revision)
  /\ report.state = "in_review" /\ report.version = attempt[k].version

Commits(k) ==
  /\ request[k].by \in reviewers
  /\ Current(attempt[k].revision)
  /\ report.state = "in_review" /\ report.version = attempt[k].version
  /\ Fresh(report.version) /\ IsReady(report.version)
  /\ version[report.version] = attempt[k].sources

\* The artifact, the state and the event report.approved are one transaction.
CompleteApproval(c) ==
  /\ call[c].pc = "stored" /\ Bounded
  /\ LET k == call[c].key IN
       /\ artifact[attempt[k].version] = None
       /\ Commits(k)
       /\ artifact' = [artifact EXCEPT ![attempt[k].version] = k]
       /\ Moves("approved", report.version)
  /\ call' = [call EXCEPT ![c] = Idle]
  /\ UNCHANGED <<sources, reviewers, version, attempt, stored, page, request>>

\* The version has its artifact already and the call is answered, or the call
\* dies, cannot read a photo, or is refused.
EndCall(c) ==
  /\ call[c] # Idle
  /\ call' = [call EXCEPT ![c] = Idle]
  /\ UNCHANGED <<sources, reviewers, report, version, attempt, artifact, stored, page, request>>

Next ==
  \/ CreateReport
  \/ \E s \in Sources : ChangeSources(s)
  \/ \E p \in People :
       \/ ChangeReviewer(p) \/ View(p)
       \/ SubmitReport(p) \/ RequestChanges(p) \/ ReviseReport(p)
       \/ \E refresh \in BOOLEAN : EditReport(p, refresh)
       \/ \E k \in Keys : ComposeApproval(p, k)
  \/ \E c \in Calls :
       \/ StoreArtifact(c) \/ CompleteApproval(c) \/ EndCall(c)
       \/ \E k \in Keys : PrepareApproval(c, k)

Spec == Init /\ [][Next]_vars

-----------------------------------------------------------------------------
(***************************************************************************)
(* Properties.                                                             *)
(***************************************************************************)

\* Whatever is under review or approved has been assembled from completed
\* visits with their evidence (the readiness check of submit and of approval).
ReviewedIsReady == report.state \in {"in_review", "approved"} => IsReady(report.version)

\* An approved report has the artifact of its current version, and every
\* artifact that can be downloaded is in the store (the order of
\* approveCplReport: prepare, write, commit).
ApprovedIsFiled ==
  /\ report.state = "approved" => artifact[report.version] # None
  /\ \A v \in Versions : artifact[v] # None => artifact[v] \in stored

\* An artifact is of the version that its reviewer was looking at when they
\* pressed Approve, however old their page was and however often the request
\* was sent (expectedRevision through prepareApproval and completeApproval).
ApprovedAsReviewed ==
  \A v \in Versions : artifact[v] # None =>
    /\ request[artifact[v]].version = v
    /\ attempt[artifact[v]].version = v
    /\ attempt[artifact[v]].sources = version[v]

\* "Only a fresh authenticated commit": an artifact becomes downloadable when
\* its sources are what they were, and while its reviewer may review, although
\* both were checked before the PDF was rendered (completeApproval).
CommitIsFresh ==
  [][\A v \in Versions : artifact'[v] # artifact[v] =>
       /\ sources = version[v]
       /\ request[artifact'[v]].by \in reviewers]_vars

\* A saved version and a published artifact never change; a later revision
\* starts a version of its own (append, transition, the tables' triggers).
HistoryStays ==
  [][\A v \in Versions :
       /\ version[v] # None => version'[v] = version[v]
       /\ artifact[v] # None => artifact'[v] = artifact[v]]_vars

\* The report is the document of ApprovedArtifact: agreed and published in one
\* step, with the time of the attempt that was prepared for that very version.
Published(v) == IF artifact[v] = None THEN 0 ELSE attempt[artifact[v]].at
Document == INSTANCE ApprovedArtifact WITH
  Documents <- {"report"}, Stamps <- 1..Cardinality(Keys),
  text <- [d \in {"report"} |-> report.version],
  agreed <- [d \in {"report"} |-> IF report.state = "approved" THEN report.version ELSE 0],
  stamp <- [d \in {"report"} |-> [v \in Versions |-> Published(v)]],
  file <- [d \in {"report"} |-> [v \in Versions |-> Published(v)]]
ImplementsDocument == Document!Spec
=============================================================================
