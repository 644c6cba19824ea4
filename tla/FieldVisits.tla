---------------------------- MODULE FieldVisits -----------------------------
(***************************************************************************)
(* The visits of awarded projects: planning, the responsible member's      *)
(* calendar, the field record with its readiness, completion, reopening,   *)
(* and the closing of a project.                                           *)
(*                                                                         *)
(* Every operation takes advisory lock 31 exclusively and is one step; the *)
(* difficulty is that each of several operations of two repositories has   *)
(* to keep what the others promise.  A page shows a visit as it was; it is *)
(* saved under the revision that was shown.  A request repeated under its  *)
(* key answers with what stands and changes nothing.  The field record is  *)
(* reduced to whether its readiness list is empty; photos are the subject  *)
(* of PhotoUploads.  A member may report progress of a visit of his own    *)
(* where a planner may: his saves are SaveVisit with an unchanged plan.    *)
(***************************************************************************)
EXTENDS Naturals

CONSTANTS
  Projects,
  Visits,
  Members,      \* who may be responsible for a visit
  Hours,        \* time, in units of which a plan is a set
  Nobody,       \* no responsible member
  Pages,        \* browser pages
  MaxRevision   \* bound on the revisions of a visit and of its field record

ASSUME FieldVisitsAssumption ==
  Nobody \notin Members /\ MaxRevision \in Nat \ {0} /\ Hours \subseteq Nat

VARIABLES
  project,     \* cpl_project_operations.status
  visit,       \* cpl_project_visits
  field,       \* cpl_field_records: revision, 0 if no template is attached, and readiness
  active,      \* members whose membership is active
  page,        \* the visit, as it was, that each page shows
  submitted    \* fieldwork.submitted events: visit and version

vars == <<project, visit, field, active, page, submitted>>

-----------------------------------------------------------------------------
Statuses == {"active", "on_hold", "completed", "cancelled"}
VisitStates == {"draft", "scheduled", "in_progress", "completed", "cancelled"}
Over == {"completed", "cancelled"}
Booked == {"scheduled", "in_progress"}

\* Hours from one to another; {} is no plan.
Plans == {{}} \cup {{h \in Hours : a <= h /\ h <= b} : a \in Hours, b \in Hours}

Absent == [state |-> "absent"]
Row == [state : VisitStates, project : Projects, who : Members \cup {Nobody},
        plan : Plans, revision : 1..MaxRevision]
Exists(v) == visit[v] # Absent
NoPage == [of |-> Nobody]

\* Includes the CHECK that a visit under way has somebody responsible and a time.
TypeOK ==
  /\ project \in [Projects -> Statuses]
  /\ visit \in [Visits -> {Absent} \cup Row]
  /\ \A v \in Visits : visit[v].state \in {"scheduled", "in_progress", "completed"} =>
       visit[v].who # Nobody /\ visit[v].plan # {}
  /\ field \in [Visits -> [revision : 0..MaxRevision, ready : BOOLEAN]]
  /\ active \subseteq Members
  /\ page \in [Pages -> {NoPage} \cup [of : Visits, row : Row, field : 0..MaxRevision]]
  /\ submitted \subseteq Visits \X (1..MaxRevision)

Init ==
  /\ project = [p \in Projects |-> "active"]
  /\ visit = [v \in Visits |-> Absent]
  /\ field = [v \in Visits |-> [revision |-> 0, ready |-> TRUE]]
  /\ active = Members
  /\ page = [s \in Pages |-> NoPage]
  /\ submitted = {}

-----------------------------------------------------------------------------
(***************************************************************************)
(* Projects, members and pages.                                            *)
(***************************************************************************)
VisitsOf(p) == {v \in Visits : Exists(v) /\ visit[v].project = p}

SaveProject(p, status) ==
  /\ status \in Over => \A v \in VisitsOf(p) : visit[v].state \in Over
  /\ project' = [project EXCEPT ![p] = status]
  /\ UNCHANGED <<visit, field, active, page, submitted>>

ChangeMembership(i) ==
  /\ active' = IF i \in active THEN active \ {i} ELSE active \cup {i}
  /\ UNCHANGED <<project, visit, field, page, submitted>>

View(v) == [of |-> v, row |-> visit[v], field |-> field[v].revision]

Load(s, v) ==
  /\ Exists(v)
  /\ page' = [page EXCEPT ![s] = View(v)]
  /\ UNCHANGED <<project, visit, field, active, submitted>>

-----------------------------------------------------------------------------
(***************************************************************************)
(* Planning and progress.                                                  *)
(***************************************************************************)
Available(i) == i = Nobody \/ i \in active

\* Seeded fault: only scheduled visits occupy a calendar.
FreeOfScheduled(v, who, plan) == \A w \in Visits \ {v} :
  visit[w].state = "scheduled" /\ visit[w].who = who => visit[w].plan \cap plan = {}

\* No other visit, of any project, occupies the member at the planned hours.
Free(v, who, plan) == \A w \in Visits \ {v} :
  visit[w].state \in Booked /\ visit[w].who = who => visit[w].plan \cap plan = {}

NoConflict(v, state, who, plan) ==
  state \in Booked /\ who # Nobody => Free(v, who, plan)

\* From scheduled on a visit has somebody responsible and a time.
Planned(state, who, plan) ==
  state \in {"scheduled", "in_progress", "completed"} => who # Nobody /\ plan # {}

CreateVisit(v, p, state, who, plan) ==
  /\ visit[v] = Absent
  /\ project[p] = "active"
  /\ state \in {"draft", "scheduled"} /\ Planned(state, who, plan)
  /\ Available(who) /\ NoConflict(v, state, who, plan)
  /\ visit' = [visit EXCEPT ![v] =
       [state |-> state, project |-> p, who |-> who, plan |-> plan, revision |-> 1]]
  /\ UNCHANGED <<project, field, active, page, submitted>>

Transitions(from) ==
  CASE from = "draft" -> {"draft", "scheduled", "cancelled"}
    [] from = "scheduled" -> VisitStates
    [] from = "in_progress" -> {"in_progress", "completed", "cancelled"}
    [] OTHER -> {}

Expected(s) ==
  /\ page[s] # NoPage
  /\ visit[page[s].of].revision = page[s].row.revision

\* The version that fieldwork.submitted names.
CompletedVersion(row) == row.revision

SaveVisit(s, state, who, plan) ==
  /\ Expected(s)
  /\ LET v == page[s].of  row == [visit[v] EXCEPT !.state = state, !.who = who,
                                   !.plan = plan, !.revision = @ + 1]
     IN /\ row.revision <= MaxRevision
        /\ project[row.project] = "active" \/ state = "cancelled"
        /\ state \in Transitions(visit[v].state) /\ Planned(state, who, plan)
        /\ state = "completed" /\ field[v].revision # 0 => field[v].ready
        /\ state # "cancelled" => Available(who)
        /\ NoConflict(v, state, who, plan)
        /\ visit' = [visit EXCEPT ![v] = row]
        /\ submitted' = IF state = "completed"
                          THEN submitted \cup {<<v, CompletedVersion(row)>>} ELSE submitted
  /\ UNCHANGED <<project, field, active, page>>

-----------------------------------------------------------------------------
(***************************************************************************)
(* The field record.                                                       *)
(***************************************************************************)

\* Seeded fault: a record may be changed after its visit was completed.
EditableLate(v) == Exists(v) /\ visit[v].state # "cancelled" /\ project[visit[v].project] = "active"

Editable(v) ==
  /\ Exists(v) /\ visit[v].state \notin Over
  /\ project[visit[v].project] = "active"

AttachTemplate(s, ready) ==
  /\ page[s] # NoPage
  /\ LET v == page[s].of
     IN /\ Editable(v) /\ field[v].revision = 0 /\ page[s].field = 0
        /\ field' = [field EXCEPT ![v] = [revision |-> 1, ready |-> ready]]
  /\ UNCHANGED <<project, visit, active, page, submitted>>

\* saveChecklist, saveObservation and savePhotoMetadata
SaveRecord(s, ready) ==
  /\ page[s] # NoPage
  /\ LET v == page[s].of
     IN /\ Editable(v) /\ field[v].revision # 0
        /\ page[s].field = field[v].revision /\ field[v].revision < MaxRevision
        /\ field' = [field EXCEPT ![v] = [revision |-> @.revision + 1, ready |-> ready]]
  /\ UNCHANGED <<project, visit, active, page, submitted>>

\* A photo is reserved, without regard to the record's revision, or moves on, leaving it.
ChangePhoto(v, reserved, ready) ==
  /\ Editable(v) /\ field[v].revision # 0
  /\ LET revision == field[v].revision + (IF reserved THEN 1 ELSE 0)
     IN /\ revision <= MaxRevision
        /\ field' = [field EXCEPT ![v] = [revision |-> revision, ready |-> ready]]
  /\ UNCHANGED <<project, visit, active, page, submitted>>

\* Seeded fault: the calendar and the project are not looked at again.
ReopenableAlways(v) == visit[v].who \in active

Reopenable(v) ==
  /\ project[visit[v].project] = "active"
  /\ visit[v].who \in active
  /\ Free(v, visit[v].who, visit[v].plan)

Reopened(row) == [row EXCEPT !.state = "in_progress", !.revision = @ + 1]

ReopenVisit(s) ==
  /\ Expected(s)
  /\ LET v == page[s].of
     IN /\ visit[v].state = "completed"
        /\ field[v].revision # 0 /\ page[s].field = field[v].revision
        /\ Reopenable(v)
        /\ field[v].revision < MaxRevision /\ visit[v].revision < MaxRevision
        /\ visit' = [visit EXCEPT ![v] = Reopened(@)]
        /\ field' = [field EXCEPT ![v].revision = @ + 1]
  /\ UNCHANGED <<project, active, page, submitted>>

-----------------------------------------------------------------------------
Next ==
  \/ \E p \in Projects, status \in Statuses : SaveProject(p, status)
  \/ \E i \in Members : ChangeMembership(i)
  \/ \E v \in Visits, p \in Projects, state \in VisitStates, who \in Members \cup {Nobody},
        plan \in Plans : CreateVisit(v, p, state, who, plan)
  \/ \E s \in Pages :
       \/ \E v \in Visits : Load(s, v)
       \/ \E state \in VisitStates, who \in Members \cup {Nobody}, plan \in Plans :
            SaveVisit(s, state, who, plan)
       \/ \E ready \in BOOLEAN : AttachTemplate(s, ready) \/ SaveRecord(s, ready)
       \/ ReopenVisit(s)
  \/ \E v \in Visits, reserved \in BOOLEAN, ready \in BOOLEAN : ChangePhoto(v, reserved, ready)

Spec == Init /\ [][Next]_vars

-----------------------------------------------------------------------------
(***************************************************************************)
(* Properties.                                                             *)
(***************************************************************************)

\* Nobody is expected in two places: planning, progress, reassignment and
\* reopening, in any order and across projects, leave calendars free of overlap.
NoDoubleBooking == \A v, w \in Visits :
  /\ v # w /\ visit[v].state \in Booked /\ visit[w].state \in Booked
  /\ visit[v].who = visit[w].who
  => visit[v].plan \cap visit[w].plan = {}

\* A project that is completed or cancelled has no visit left to be done, and gets none.
ClosedProjectIsOver == \A v \in Visits :
  Exists(v) /\ project[visit[v].project] \in Over => visit[v].state \in Over

\* The field record of a completed visit is complete and stays so until it is reopened.
CompletedIsReady == \A v \in Visits :
  visit[v].state = "completed" /\ field[v].revision # 0 => field[v].ready

\* The submission that automation acts on names the present version of a visit
\* exactly while that version is the completed one.
SubmittedIsCompletion == \A v \in Visits :
  Exists(v) => (<<v, visit[v].revision>> \in submitted <=> visit[v].state = "completed")

\* What a page's save replaces is what the page showed.
ReplacedAsSeen == [][\A v \in Visits :
  Exists(v) /\ visit'[v] # visit[v] => \E s \in Pages : page[s].of = v /\ page[s].row = visit[v]]_vars
=============================================================================
