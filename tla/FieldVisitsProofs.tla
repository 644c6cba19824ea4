-------------------------- MODULE FieldVisitsProofs ---------------------------
(***************************************************************************)
(* The calendar, the projects, the field records and the submissions of    *)
(* FieldVisits, for any number of projects, visits, members and pages; and *)
(* in two further parts the leads of LeadReview and the photos of          *)
(* PhotoUploads.  The three share no state.                                *)
(*                                                                         *)
(* What an operation writes rests on what the operations before it left:   *)
(* a saved plan is compared with the calendar as it is, but the other      *)
(* visits in it were put there under comparisons of their own.  The        *)
(* invariant therefore is the conjunction of the properties, and adds that *)
(* a page never shows more than a visit was (PageIsPast) and that nothing  *)
(* is submitted before it is written (SubmittedIsPast).                    *)
(***************************************************************************)
EXTENDS FieldVisits, LeadReview, PhotoUploads, FiniteSetTheorems, WellFoundedInduction, TLAPS

PageIsPast == \A s \in Pages : page[s] # NoPage =>
  LET v == page[s].of IN
  /\ Exists(v)
  /\ page[s].row.revision <= visit[v].revision
  /\ page[s].row.revision = visit[v].revision => page[s].row = visit[v]

SubmittedIsPast == \A v \in Visits, n \in 1..MaxRevision :
  <<v, n>> \in submitted => Exists(v) /\ n <= visit[v].revision

Calendar == NoDoubleBooking /\ ClosedProjectIsOver /\ CompletedIsReady
Written == PageIsPast /\ SubmittedIsPast /\ SubmittedIsCompletion

IInv == TypeOK /\ Calendar /\ Written

LEMMA InitIInv == Init => IInv
<1> SUFFICES ASSUME Init PROVE IInv
  OBVIOUS
<1> USE FieldVisitsAssumption DEF Init
<1>1. \A v \in Visits : visit[v] = Absent /\ ~Exists(v) /\ visit[v].state = "absent"
  BY DEF Exists, Absent
<1>2. TypeOK
  BY <1>1 DEF TypeOK, Statuses
<1>3. Calendar
  BY <1>1 DEF Calendar, NoDoubleBooking, ClosedProjectIsOver, CompletedIsReady, Booked
<1>4. Written
  BY <1>1 DEF Written, PageIsPast, SubmittedIsPast, SubmittedIsCompletion
<1>5. QED
  BY <1>2, <1>3, <1>4 DEF IInv

-----------------------------------------------------------------------------
(***************************************************************************)
(* Facts of type.                                                          *)
(***************************************************************************)
LEMMA RowFacts ==
  ASSUME TypeOK, NEW v \in Visits, Exists(v)
  PROVE  /\ visit[v] \in Row /\ visit[v].state \in VisitStates
         /\ visit[v].project \in Projects /\ visit[v].who \in Members \cup {Nobody}
         /\ visit[v].revision \in 1..MaxRevision
         /\ visit[v].revision \in Nat
  BY FieldVisitsAssumption DEF TypeOK, Exists, Row

LEMMA PageFacts ==
  ASSUME TypeOK, NEW s \in Pages, page[s] # NoPage
  PROVE  /\ page[s].of \in Visits /\ page[s].row \in Row
         /\ page[s].row.revision \in Nat /\ page[s].field \in 0..MaxRevision
  BY FieldVisitsAssumption DEF TypeOK, Row

LEMMA NotAbsent ==
  ASSUME NEW row \in Row PROVE row # Absent
  BY DEF Row, Absent, VisitStates

-----------------------------------------------------------------------------
(***************************************************************************)
(* Steps that leave the visits alone.                                      *)
(***************************************************************************)
LEMMA SaveProjectInv ==
  ASSUME IInv, NEW p \in Projects, NEW status \in Statuses, SaveProject(p, status)
  PROVE  IInv'
<1> USE DEF SaveProject
<1>1. TypeOK'
  BY DEF IInv, TypeOK, Exists
<1>2. ClosedProjectIsOver'
  <2> SUFFICES ASSUME NEW v \in Visits, Exists(v), project'[visit[v].project] \in Over
               PROVE  visit[v].state \in Over
    BY DEF ClosedProjectIsOver, Exists
  <2>1. CASE visit[v].project = p
    <3>1. visit[v].project \in Projects
      BY RowFacts DEF IInv
    <3>2. project'[p] = status
      BY DEF IInv, TypeOK
    <3>3. QED
      BY <2>1, <3>2 DEF VisitsOf
  <2>2. CASE visit[v].project # p
    <3>1. visit[v].project \in Projects
      BY RowFacts DEF IInv
    <3>2. project'[visit[v].project] = project[visit[v].project]
      BY <2>2, <3>1 DEF IInv, TypeOK
    <3>3. QED
      BY <3>2 DEF IInv, Calendar, ClosedProjectIsOver
  <2>3. QED
    BY <2>1, <2>2
<1>3. NoDoubleBooking' /\ CompletedIsReady'
  BY DEF IInv, Calendar, NoDoubleBooking, CompletedIsReady
<1>4. Written'
  BY DEF IInv, Written, PageIsPast, SubmittedIsPast, SubmittedIsCompletion, Exists
<1>5. QED
  BY <1>1, <1>2, <1>3, <1>4 DEF IInv, Calendar

LEMMA ChangeMembershipInv ==
  ASSUME IInv, NEW i \in Members, ChangeMembership(i)
  PROVE  IInv'
<1> USE DEF ChangeMembership
<1>1. TypeOK'
  BY DEF IInv, TypeOK
<1>2. Calendar'
  BY DEF IInv, Calendar, NoDoubleBooking, ClosedProjectIsOver, CompletedIsReady, Exists
<1>3. Written'
  BY DEF IInv, Written, PageIsPast, SubmittedIsPast, SubmittedIsCompletion, Exists
<1>4. QED
  BY <1>1, <1>2, <1>3 DEF IInv

LEMMA LoadInv ==
  ASSUME IInv, NEW s \in Pages, NEW v \in Visits, Load(s, v)
  PROVE  IInv'
<1> USE DEF Load
<1>1. visit[v] \in Row /\ visit[v].revision \in Nat /\ field[v].revision \in 0..MaxRevision
  BY RowFacts DEF IInv, TypeOK
<1>2. TypeOK'
  BY <1>1 DEF IInv, TypeOK, View
<1>3. Calendar'
  BY DEF IInv, Calendar, NoDoubleBooking, ClosedProjectIsOver, CompletedIsReady, Exists
<1>4. PageIsPast'
  <2> SUFFICES ASSUME NEW r \in Pages, page'[r] # NoPage
               PROVE  /\ Exists(page'[r].of)
                      /\ page'[r].row.revision <= visit[page'[r].of].revision
                      /\ page'[r].row.revision = visit[page'[r].of].revision
                           => page'[r].row = visit[page'[r].of]
    BY DEF PageIsPast, Exists
  <2>1. CASE r = s
    BY <1>1, <2>1 DEF IInv, TypeOK, View
  <2>2. CASE r # s
    BY <2>2 DEF IInv, TypeOK, Written, PageIsPast
  <2>3. QED
    BY <2>1, <2>2
<1>5. SubmittedIsPast' /\ SubmittedIsCompletion'
  BY DEF IInv, Written, SubmittedIsPast, SubmittedIsCompletion, Exists
<1>6. QED
  BY <1>2, <1>3, <1>4, <1>5 DEF IInv, Written

\* The field record of a visit that is neither completed nor cancelled changes.
LEMMA FieldInv ==
  ASSUME IInv, NEW v \in Visits, NEW record \in [revision : 0..MaxRevision, ready : BOOLEAN],
         Editable(v), field' = [field EXCEPT ![v] = record],
         UNCHANGED <<project, visit, active, page, submitted>>
  PROVE  IInv'
<1>1. TypeOK'
  BY DEF IInv, TypeOK
<1>2. CompletedIsReady'
  BY DEF IInv, TypeOK, Calendar, CompletedIsReady, Editable, Over
<1>3. NoDoubleBooking' /\ ClosedProjectIsOver'
  BY DEF IInv, Calendar, NoDoubleBooking, ClosedProjectIsOver, Exists
<1>4. Written'
  BY DEF IInv, Written, PageIsPast, SubmittedIsPast, SubmittedIsCompletion, Exists
<1>5. QED
  BY <1>1, <1>2, <1>3, <1>4 DEF IInv, Calendar

LEMMA AttachTemplateInv ==
  ASSUME IInv, NEW s \in Pages, NEW ready \in BOOLEAN, AttachTemplate(s, ready)
  PROVE  IInv'
<1>1. PICK v \in Visits : v = page[s].of
  BY PageFacts DEF AttachTemplate, IInv
<1>2. PICK record : record = [revision |-> 1, ready |-> ready]
  OBVIOUS
<1>3. /\ Editable(v) /\ field' = [field EXCEPT ![v] = record]
      /\ UNCHANGED <<project, visit, active, page, submitted>>
  BY <1>1, <1>2 DEF AttachTemplate
<1>4. record \in [revision : 0..MaxRevision, ready : BOOLEAN]
  BY <1>2, FieldVisitsAssumption
<1>5. QED
  BY <1>3, <1>4, FieldInv

LEMMA SaveRecordInv ==
  ASSUME IInv, NEW s \in Pages, NEW ready \in BOOLEAN, SaveRecord(s, ready)
  PROVE  IInv'
<1>1. PICK v \in Visits : v = page[s].of
  BY PageFacts DEF SaveRecord, IInv
<1>2. PICK record : record = [revision |-> field[v].revision + 1, ready |-> ready]
  OBVIOUS
<1>3. /\ Editable(v) /\ field' = [field EXCEPT ![v] = record]
      /\ field[v].revision < MaxRevision
      /\ UNCHANGED <<project, visit, active, page, submitted>>
  BY <1>1, <1>2 DEF SaveRecord
<1>4. record \in [revision : 0..MaxRevision, ready : BOOLEAN]
  BY <1>2, <1>3, FieldVisitsAssumption DEF IInv, TypeOK
<1>5. QED
  BY <1>3, <1>4, FieldInv

LEMMA ChangePhotoInv ==
  ASSUME IInv, NEW v \in Visits, NEW reserved \in BOOLEAN, NEW ready \in BOOLEAN,
         ChangePhoto(v, reserved, ready)
  PROVE  IInv'
<1>1. PICK n : n = field[v].revision + (IF reserved THEN 1 ELSE 0)
  OBVIOUS
<1>2. PICK record : record = [revision |-> n, ready |-> ready]
  OBVIOUS
<1>3. /\ Editable(v) /\ field' = [field EXCEPT ![v] = record] /\ n <= MaxRevision
      /\ UNCHANGED <<project, visit, active, page, submitted>>
  BY <1>1, <1>2 DEF ChangePhoto
<1>4. n \in 0..MaxRevision
  BY <1>1, <1>3, FieldVisitsAssumption DEF IInv, TypeOK
<1>5. record \in [revision : 0..MaxRevision, ready : BOOLEAN]
  BY <1>2, <1>4
<1>6. QED
  BY <1>3, <1>5, FieldInv

-----------------------------------------------------------------------------
(***************************************************************************)
(* Steps that write a visit.                                               *)
(***************************************************************************)
\* What creating, saving and reopening a visit have in common: an open visit is
\* written only in an active project, a booked one only where the calendar is
\* free, a completed one only with a record that is ready, and each under the
\* next revision, which is submitted if the visit is completed.
Writes(v, row) ==
  /\ row \in Row
  /\ row.state \in {"scheduled", "in_progress", "completed"} => row.who # Nobody /\ row.plan # {}
  /\ row.state \in Booked => Free(v, row.who, row.plan)
  /\ row.state \in Over \/ project[row.project] = "active"
  /\ visit' = [visit EXCEPT ![v] = row]
  /\ IF Exists(v) THEN row.revision = visit[v].revision + 1 ELSE row.revision = 1
  /\ submitted' = IF row.state = "completed"
                    THEN submitted \cup {<<v, row.revision>>} ELSE submitted
  /\ UNCHANGED <<project, active, page>>

LEMMA WritesInv ==
  ASSUME IInv, NEW v \in Visits, NEW row, Writes(v, row),
         field' \in [Visits -> [revision : 0..MaxRevision, ready : BOOLEAN]],
         \A w \in Visits \ {v} : field'[w] = field[w],
         row.state = "completed" /\ field'[v].revision # 0 => field'[v].ready
  PROVE  IInv'
<1>1. /\ row \in Row /\ row # Absent /\ row.revision \in 1..MaxRevision /\ row.revision \in Nat
      /\ row.project \in Projects
  BY NotAbsent, FieldVisitsAssumption DEF Writes, Row
<1>2. /\ visit'[v] = row
      /\ \A w \in Visits \ {v} : visit'[w] = visit[w]
  BY DEF Writes, IInv, TypeOK
<1>3. Exists(v)' /\ \A w \in Visits \ {v} : Exists(w)' <=> Exists(w)
  BY <1>1, <1>2 DEF Exists
<1>4. <<v, row.revision>> \notin submitted
  <2>1. CASE Exists(v)
    <3>1. visit[v].revision \in Nat /\ row.revision = visit[v].revision + 1
      BY <2>1, RowFacts DEF IInv, Writes
    <3>2. QED
      BY <1>1, <3>1 DEF IInv, Written, SubmittedIsPast
  <2>2. CASE ~Exists(v)
    BY <1>1, <2>2 DEF IInv, Written, SubmittedIsPast
  <2>3. QED
    BY <2>1, <2>2
<1>5. \A w \in Visits, n \in 1..MaxRevision :
        <<w, n>> \in submitted' <=>
          <<w, n>> \in submitted \/ (w = v /\ n = row.revision /\ row.state = "completed")
  BY DEF Writes
<1>6. TypeOK'
  <2>1. visit' \in [Visits -> {Absent} \cup Row]
    BY <1>1 DEF Writes, IInv, TypeOK
  <2>2. \A w \in Visits : visit'[w].state \in {"scheduled", "in_progress", "completed"} =>
          visit'[w].who # Nobody /\ visit'[w].plan # {}
    BY <1>2 DEF Writes, IInv, TypeOK
  <2>3. submitted' \subseteq Visits \X (1..MaxRevision)
    BY <1>1 DEF Writes, IInv, TypeOK
  <2>4. QED
    BY <2>1, <2>2, <2>3 DEF Writes, IInv, TypeOK
<1>7. NoDoubleBooking'
  <2> SUFFICES ASSUME NEW w \in Visits, NEW u \in Visits, w # u,
                      visit'[w].state \in Booked, visit'[u].state \in Booked,
                      visit'[w].who = visit'[u].who
               PROVE  visit'[w].plan \cap visit'[u].plan = {}
    BY DEF NoDoubleBooking
  <2>1. CASE w = v
    BY <1>2, <2>1 DEF Writes, Free
  <2>2. CASE u = v
    BY <1>2, <2>2 DEF Writes, Free
  <2>3. CASE w # v /\ u # v
    BY <1>2, <2>3 DEF IInv, Calendar, NoDoubleBooking
  <2>4. QED
    BY <2>1, <2>2, <2>3
<1>8. ClosedProjectIsOver'
  <2>1. row.state \in Over \/ project'[row.project] \notin Over
    BY DEF Writes, Over
  <2>2. QED
    BY <1>2, <1>3, <2>1 DEF Writes, IInv, Calendar, ClosedProjectIsOver
<1>9. CompletedIsReady'
  BY <1>2 DEF IInv, Calendar, CompletedIsReady
<1>10. PageIsPast'
  <2> SUFFICES ASSUME NEW s \in Pages, page[s] # NoPage
               PROVE  /\ visit'[page[s].of] # Absent
                      /\ page[s].row.revision <= visit'[page[s].of].revision
                      /\ page[s].row.revision = visit'[page[s].of].revision
                           => page[s].row = visit'[page[s].of]
    BY DEF PageIsPast, Writes, Exists
  <2>1. /\ page[s].of \in Visits /\ page[s].row.revision \in Nat /\ Exists(page[s].of)
        /\ page[s].row.revision <= visit[page[s].of].revision
        /\ page[s].row.revision = visit[page[s].of].revision => page[s].row = visit[page[s].of]
    BY PageFacts DEF IInv, Written, PageIsPast
  <2>2. CASE page[s].of = v
    <3>1. visit[v].revision \in Nat /\ row.revision = visit[v].revision + 1
      BY <2>1, <2>2, RowFacts DEF IInv, Writes
    <3>2. QED
      BY <1>1, <1>2, <2>1, <2>2, <3>1
  <2>3. CASE page[s].of # v
    BY <1>2, <2>1, <2>3 DEF Exists
  <2>4. QED
    BY <2>2, <2>3
<1>11. SubmittedIsPast'
  <2> SUFFICES ASSUME NEW w \in Visits, NEW n \in 1..MaxRevision, <<w, n>> \in submitted'
               PROVE  Exists(w)' /\ n <= visit'[w].revision
    BY DEF SubmittedIsPast
  <2>1. CASE w = v
    <3>1. CASE n = row.revision
      BY <1>1, <1>2, <1>3, <2>1, <3>1
    <3>2. CASE n # row.revision
      <4>1. Exists(v) /\ n <= visit[v].revision
        BY <1>5, <2>1, <3>2 DEF IInv, Written, SubmittedIsPast
      <4>2. visit[v].revision \in Nat /\ row.revision = visit[v].revision + 1
        BY <4>1, RowFacts DEF IInv, Writes
      <4>3. QED
        BY <1>2, <1>3, <2>1, <4>1, <4>2
    <3>3. QED
      BY <3>1, <3>2
  <2>2. CASE w # v
    BY <1>2, <1>3, <1>5, <2>2 DEF IInv, Written, SubmittedIsPast
  <2>3. QED
    BY <2>1, <2>2
<1>12. SubmittedIsCompletion'
  <2> SUFFICES ASSUME NEW w \in Visits, Exists(w)'
               PROVE  <<w, visit'[w].revision>> \in submitted' <=> visit'[w].state = "completed"
    BY DEF SubmittedIsCompletion
  <2>1. CASE w = v
    BY <1>1, <1>2, <1>4, <1>5, <2>1
  <2>2. CASE w # v
    <3>1. Exists(w) /\ visit'[w] = visit[w] /\ visit[w].revision \in 1..MaxRevision
      BY <1>2, <1>3, <2>2, RowFacts DEF IInv
    <3>2. QED
      BY <1>5, <2>2, <3>1 DEF IInv, Written, SubmittedIsCompletion
  <2>3. QED
    BY <2>1, <2>2
<1>13. QED
  BY <1>6, <1>7, <1>8, <1>9, <1>10, <1>11, <1>12 DEF IInv, Calendar, Written

LEMMA CreateVisitInv ==
  ASSUME IInv, NEW v \in Visits, NEW p \in Projects, NEW state \in VisitStates,
         NEW who \in Members \cup {Nobody}, NEW plan \in Plans,
         CreateVisit(v, p, state, who, plan)
  PROVE  IInv'
<1>1. PICK row : row = [state |-> state, project |-> p, who |-> who, plan |-> plan, revision |-> 1]
  OBVIOUS
<1>2. row \in Row
  BY <1>1, FieldVisitsAssumption DEF Row
<1>3. Writes(v, row)
  <2>1. row.state \in {"draft", "scheduled"} /\ ~Exists(v)
    BY <1>1 DEF CreateVisit, Exists
  <2>2. row.state \in Booked => Free(v, row.who, row.plan)
    BY <1>1, <2>1 DEF CreateVisit, NoConflict, Planned, Booked
  <2>3. QED
    BY <1>1, <1>2, <2>1, <2>2 DEF CreateVisit, Writes, Planned
<1>4. row.state # "completed"
  BY <1>1 DEF CreateVisit
<1>5. QED
  BY <1>3, <1>4, WritesInv DEF CreateVisit, IInv, TypeOK

LEMMA SaveVisitInv ==
  ASSUME IInv, NEW s \in Pages, NEW state \in VisitStates,
         NEW who \in Members \cup {Nobody}, NEW plan \in Plans,
         SaveVisit(s, state, who, plan)
  PROVE  IInv'
<1>1. PICK v \in Visits : v = page[s].of
  BY PageFacts DEF SaveVisit, Expected, IInv
<1>2. PICK row : row = [visit[v] EXCEPT !.state = state, !.who = who, !.plan = plan,
                                        !.revision = visit[v].revision + 1]
  OBVIOUS
<1>3. Exists(v)
  BY <1>1 DEF SaveVisit, Expected, IInv, Written, PageIsPast
<1>4. /\ row.revision <= MaxRevision
      /\ project[row.project] = "active" \/ state = "cancelled"
      /\ Planned(state, who, plan)
      /\ state = "completed" /\ field[v].revision # 0 => field[v].ready
      /\ NoConflict(v, state, who, plan)
      /\ visit' = [visit EXCEPT ![v] = row]
      /\ submitted' = IF state = "completed"
                        THEN submitted \cup {<<v, row.revision>>} ELSE submitted
      /\ UNCHANGED <<project, field, active, page>>
  BY <1>1, <1>2 DEF SaveVisit, CompletedVersion
<1>5. /\ row.state = state /\ row.who = who /\ row.plan = plan
      /\ row.revision = visit[v].revision + 1 /\ row \in Row
  <2>1. visit[v] \in Row /\ visit[v].revision \in Nat
    BY <1>3, RowFacts DEF IInv
  <2>2. visit[v].revision + 1 \in 1..MaxRevision
    BY <1>2, <1>4, <2>1, FieldVisitsAssumption DEF Row
  <2>3. QED
    BY <1>2, <2>1, <2>2 DEF Row
<1>6. Writes(v, row)
  <2>1. row.state \in Booked => Free(v, row.who, row.plan)
    BY <1>4, <1>5 DEF NoConflict, Planned, Booked
  <2>2. QED
    BY <1>3, <1>4, <1>5, <2>1 DEF Writes, Planned, Over
<1>7. QED
  BY <1>4, <1>5, <1>6, WritesInv DEF IInv, TypeOK

LEMMA ReopenVisitInv ==
  ASSUME IInv, NEW s \in Pages, ReopenVisit(s)
  PROVE  IInv'
<1>1. PICK v \in Visits : v = page[s].of
  BY PageFacts DEF ReopenVisit, Expected, IInv
<1>2. PICK row : row = Reopened(visit[v])
  OBVIOUS
<1>3. Exists(v)
  BY <1>1 DEF ReopenVisit, Expected, IInv, Written, PageIsPast
<1>4. /\ visit[v].state = "completed" /\ Reopenable(v)
      /\ field[v].revision < MaxRevision /\ visit[v].revision < MaxRevision
      /\ visit' = [visit EXCEPT ![v] = row]
      /\ field' = [field EXCEPT ![v].revision = field[v].revision + 1]
      /\ UNCHANGED <<project, active, page, submitted>>
  BY <1>1, <1>2 DEF ReopenVisit
<1>5. visit[v] \in Row /\ visit[v].revision \in Nat /\ visit[v].who # Nobody /\ visit[v].plan # {}
  BY <1>3, <1>4, RowFacts DEF IInv, TypeOK
<1>6. /\ row.state = "in_progress" /\ row.who = visit[v].who /\ row.plan = visit[v].plan
      /\ row.project = visit[v].project
      /\ row.revision = visit[v].revision + 1 /\ row \in Row
  <2>1. visit[v].revision + 1 \in 1..MaxRevision
    BY <1>4, <1>5, FieldVisitsAssumption
  <2>2. QED
    BY <1>2, <1>5, <2>1 DEF Reopened, Row, VisitStates
<1>7. Writes(v, row)
  BY <1>3, <1>4, <1>5, <1>6 DEF Writes, Reopenable
<1>8. field' \in [Visits -> [revision : 0..MaxRevision, ready : BOOLEAN]]
  <2>1. field[v].revision + 1 \in 0..MaxRevision
    BY <1>4, FieldVisitsAssumption DEF IInv, TypeOK
  <2>2. QED
    BY <1>4, <2>1 DEF IInv, TypeOK
<1>9. \A w \in Visits \ {v} : field'[w] = field[w]
  BY <1>4 DEF IInv, TypeOK
<1>10. QED
  BY <1>6, <1>7, <1>8, <1>9, WritesInv

-----------------------------------------------------------------------------
LEMMA NextIInv == IInv /\ [Next]_vars => IInv'
<1> SUFFICES ASSUME IInv, [Next]_vars PROVE IInv'
  OBVIOUS
<1>1. CASE Next
  BY <1>1, SaveProjectInv, ChangeMembershipInv, LoadInv, CreateVisitInv, SaveVisitInv,
     AttachTemplateInv, SaveRecordInv, ReopenVisitInv, ChangePhotoInv DEF Next
<1>2. CASE UNCHANGED vars
  BY <1>2 DEF vars, IInv, TypeOK, Calendar, Written, PageIsPast, SubmittedIsPast,
     NoDoubleBooking, ClosedProjectIsOver, CompletedIsReady, SubmittedIsCompletion, Exists
<1>3. QED
  BY <1>1, <1>2

\* The state is well-typed, and a visit under way has somebody responsible and a time.
THEOREM VisitTypes == Spec => []TypeOK
BY InitIInv, NextIInv, PTL DEF Spec, IInv

\* Nobody is expected in two places, however many visits, projects and pages there are.
THEOREM FreeCalendar == Spec => []NoDoubleBooking
BY InitIInv, NextIInv, PTL DEF Spec, IInv, Calendar

\* A project that is over has no visit left to be done.
THEOREM ProjectOver == Spec => []ClosedProjectIsOver
BY InitIInv, NextIInv, PTL DEF Spec, IInv, Calendar

\* The field record of a completed visit is ready.
THEOREM CompletedReady == Spec => []CompletedIsReady
BY InitIInv, NextIInv, PTL DEF Spec, IInv, Calendar

\* The version that automation hears of is the completed one, and only while it is.
THEOREM Submission == Spec => []SubmittedIsCompletion
BY InitIInv, NextIInv, PTL DEF Spec, IInv, Written

\* Who saves or reopens a visit was shown what he replaces.
THEOREM SavedAsSeen == Spec => ReplacedAsSeen
<1> DEFINE Seen == \A v \in Visits : Exists(v) /\ visit'[v] # visit[v] =>
                     \E s \in Pages : page[s].of = v /\ page[s].row = visit[v]
<1>1. IInv /\ [Next]_vars => [Seen]_vars
  <2> SUFFICES ASSUME IInv, Next, NEW v \in Visits, Exists(v), visit'[v] # visit[v]
               PROVE  \E s \in Pages : page[s].of = v /\ page[s].row = visit[v]
    OBVIOUS
  <2>1. PICK s \in Pages : Expected(s) /\ page[s].of = v
    <3>1. CASE \E u \in Visits, p \in Projects, state \in VisitStates,
                  who \in Members \cup {Nobody}, plan \in Plans : CreateVisit(u, p, state, who, plan)
      BY <3>1 DEF CreateVisit, IInv, TypeOK, Exists
    <3>2. CASE \E s \in Pages, state \in VisitStates, who \in Members \cup {Nobody},
                  plan \in Plans : SaveVisit(s, state, who, plan)
      BY <3>2 DEF SaveVisit, Expected, IInv, TypeOK
    <3>3. CASE \E s \in Pages : ReopenVisit(s)
      BY <3>3 DEF ReopenVisit, Expected, IInv, TypeOK
    <3>4. CASE UNCHANGED visit
      BY <3>4
    <3>5. QED
      BY <3>1, <3>2, <3>3, <3>4 DEF Next, SaveProject, ChangeMembership, Load, AttachTemplate,
         SaveRecord, ChangePhoto
  <2>2. QED
    BY <2>1 DEF Expected, IInv, Written, PageIsPast
<1>2. QED
  BY <1>1, InitIInv, NextIInv, PTL DEF Spec, ReplacedAsSeen

-----------------------------------------------------------------------------
(***************************************************************************)
(* The leads (LeadReview), for any number of leads that look alike.        *)
(*                                                                         *)
(* Readiness and the notices of the attention list are evaluated again at  *)
(* each step, from rows that other steps changed.  The invariant says what *)
(* the stored rows still tell of the lead: a review never saw more than    *)
(* there is, and less of whatever is news since (Compared); an item of the *)
(* list is older than its lead or says what the lead of its version needs  *)
(* (Told).  A review that counts is then one of every lead that looks      *)
(* alike, because the candidates are all of them if they are fewer than    *)
(* the limit (AllCandidates).                                              *)
(***************************************************************************)

\* LeadTypes without the list.
LeadRows ==
  /\ leads \in [Leads -> LeadRecord]
  /\ reviews \in [Leads -> ReviewRecord]
  /\ policy \in [version : 0..MaxPolicy, asks : 0..Answers]
  /\ staffed \in BOOLEAN
  /\ handed \in SUBSET Leads
  /\ news \in [Leads -> SUBSET Leads]

Aged == \A l \in Leads :
  /\ LeadExists(l) => leads[l].version >= 1
  /\ ~LeadExists(l) => leads[l].version = 0

Compared == \A l, c \in Leads :
  /\ reviews[l].seen[c] <= leads[c].version
  /\ c \in news[l] => reviews[l].seen[c] < leads[c].version

\* What an item says, of a lead of its version or a later one.
Tells(row, lead) ==
  /\ row.status = "none" => row = NoTask
  /\ row.status # "none" =>
       /\ row.hash.version \in 1..lead.version
       /\ row.status = "completed" <=> ("disqualified" \in row.hash.issues \/ row.hash.proposed)
       /\ row.hash.issues # {} => row.group = "missing_information"
       /\ row.hash.issues = {} /\ row.hash.version = lead.version =>
            row.group = IF lead.status = "ready_for_proposal" THEN "next_actions" ELSE "reviews"
  /\ lead.status = "disqualified" => row.status \in {"none", "completed"}

Told == \A l \in Leads : Tells(tasks[l], leads[l])

LeadInv == LeadTypes /\ Aged /\ Compared /\ Told

LEMMA LeastNumber ==
  ASSUME NEW T \in SUBSET Nat, T # {}
  PROVE  \E n \in T : \A m \in T : n <= m
<1> DEFINE R == OpToRel(<, Nat)
<1>1. IsWellFoundedOn(R, Nat)
  BY NatLessThanWellFounded
<1>2. PICK n \in T : \A m \in T : ~(<<m, n>> \in R)
  <2> HIDE DEF R
  <2> QED BY <1>1, WFMin
<1>3. ASSUME NEW m \in T PROVE n <= m
  <2>1. m \in Nat /\ n \in Nat
    OBVIOUS
  <2>2. m < n => <<m, n>> \in R
    BY <2>1 DEF OpToRel
  <2> HIDE DEF R
  <2>3. ~(m < n)
    BY <1>2, <2>2
  <2> QED BY <2>1, <2>3
<1> QED BY <1>3

\* If fewer candidates are read than the limit, they are all that look alike: the first
\* that was not read would have had fewer than that before it.
LEMMA AllCandidates ==
  ASSUME NEW l \in Leads, NEW face, Cardinality(Candidates(l, face)) < CandidateLimit
  PROVE  Candidates(l, face) = Lookalikes(l, face)
<1> DEFINE found == Lookalikes(l, face)
           read == Candidates(l, face)
           left == found \ read
           Before(n) == {b \in found : b < n}
<1>1. found \in SUBSET Leads /\ Leads \in SUBSET Nat
  BY LeadAssumption DEF Lookalikes, Leads
<1>2. read = {c \in found : Cardinality(Before(c)) < CandidateLimit}
  BY DEF Candidates
<1>3. IsFiniteSet(found)
  <2>1. IsFiniteSet(Leads)
    BY LeadAssumption, FS_Interval DEF Leads
  <2> QED BY <2>1, <1>1, FS_Subset
<1> HIDE DEF found, read
<1>4. IsFiniteSet(read)
  BY <1>2, <1>3, FS_Subset
<1>5. left = {}
  <2> SUFFICES ASSUME left # {} PROVE FALSE
    OBVIOUS
  <2>1. left \in SUBSET Nat
    BY <1>1
  <2>2. PICK first \in left : \A n \in left : first <= n
    BY <2>1, LeastNumber
  <2>3. Before(first) \in SUBSET read
    <3> SUFFICES ASSUME NEW b \in found, b < first PROVE b \in read
      OBVIOUS
    <3>1. b \in Nat /\ first \in Nat
      BY <1>1, <2>1
    <3>2. ~(first <= b)
      BY <3>1
    <3> QED BY <2>2, <3>2
  <2>4. IsFiniteSet(Before(first)) /\ Cardinality(Before(first)) <= Cardinality(read)
    <3> HIDE DEF Before
    <3> QED BY <2>3, <1>4, FS_Subset
  <2>5. Cardinality(Before(first)) \in Nat /\ Cardinality(read) \in Nat
    BY <2>4, <1>4, FS_CardinalityType
  <2>6. Cardinality(read) < CandidateLimit
    BY DEF read
  <2>7. Cardinality(Before(first)) < CandidateLimit
    <3> HIDE DEF Before
    <3> QED BY <2>4, <2>5, <2>6, LeadAssumption
  <2> QED BY <1>2, <2>2, <2>7
<1> QED BY <1>2, <1>5 DEF found, read

LEMMA Face == AnyFace \in Faces
BY LeadAssumption DEF AnyFace

LEMMA FirstRows ==
  /\ NoLead \in LeadRecord /\ NoReview \in ReviewRecord /\ NoTask \in TaskRecord
<1>1. NoLead \in LeadRecord
  BY Face, LeadAssumption DEF NoLead, LeadRecord
<1>2. NoReview \in ReviewRecord
  BY Face, LeadAssumption DEF NoReview, ReviewRecord, Dispositions
<1>3. NoTask \in TaskRecord
  BY LeadAssumption DEF NoTask, TaskRecord, Groups, StandingRecord
<1> QED BY <1>1, <1>2, <1>3

LEMMA LeadInitInv == LeadInit => LeadInv
<1> SUFFICES ASSUME LeadInit PROVE LeadInv
  OBVIOUS
<1> USE DEF LeadInit
<1>1. LeadTypes
  BY FirstRows, LeadAssumption DEF LeadTypes
<1>2. Aged
  BY DEF Aged, LeadExists, NoLead
<1>3. Compared
  BY DEF Compared, NoReview, NoLead
<1>4. Told
  BY DEF Told, Tells, NoTask, NoLead
<1> QED BY <1>1, <1>2, <1>3, <1>4 DEF LeadInv

\* What is noticed about a lead after a step is what a lead of its version needs.
LEMMA NoticeNext ==
  ASSUME LeadRows', NEW l \in Leads, leads'[l].version >= 1
  PROVE  /\ Notice(l)' \in TaskRecord
         /\ Tells(Notice(l)', leads'[l])
         /\ Notice(l)'.hash.version = leads'[l].version
         /\ Notice(l)'.status # "none"
<1>1. /\ leads'[l] \in LeadRecord
      /\ policy' \in [version : 0..MaxPolicy, asks : 0..Answers]
  BY DEF LeadRows
<1>2. Lacks(l)' \in SUBSET (1..Answers)
  BY <1>1, LeadAssumption DEF Lacks, LeadRecord
<1>3. Issues(l)' \in SUBSET Issue
  BY DEF Issues, Holds, Issue
<1>4. "disqualified" \in Issues(l)' <=> leads'[l].status = "disqualified"
  BY DEF Issues, Holds
<1>5. Standing(l)' \in StandingRecord
  BY <1>1, <1>2, <1>3 DEF Standing, StandingRecord, LeadRecord
<1>6. /\ Standing(l)'.version = leads'[l].version
      /\ Standing(l)'.issues = Issues(l)'
      /\ Standing(l)'.proposed = (l \in handed')
  BY DEF Standing
<1>7. Group(l)' \in Groups
  BY DEF Group, Groups
<1>8. /\ Notice(l)'.hash = Standing(l)' /\ Notice(l)'.group = Group(l)'
      /\ Notice(l)'.status = IF Done(l)' THEN "completed" ELSE "open"
  BY DEF Notice
<1>9. Notice(l)' \in TaskRecord
  BY <1>5, <1>7 DEF Notice, TaskRecord
<1>10. Done(l)' <=> leads'[l].status = "disqualified" \/ l \in handed'
  BY DEF Done
<1>11. /\ Issues(l)' # {} => Group(l)' = "missing_information"
       /\ Issues(l)' = {} => Group(l)' = IF leads'[l].status = "ready_for_proposal"
                                         THEN "next_actions" ELSE "reviews"
  BY DEF Group
<1>12. Notice(l)'.hash.version \in 1..leads'[l].version
  BY <1>1, <1>6, <1>8 DEF LeadRecord
<1>13. Notice(l)'.status = "completed" <=>
         ("disqualified" \in Notice(l)'.hash.issues \/ Notice(l)'.hash.proposed)
  BY <1>4, <1>6, <1>8, <1>10
<1>14. Tells(Notice(l)', leads'[l])
  <2> HIDE DEF Notice
  <2> QED BY <1>6, <1>8, <1>10, <1>11, <1>12, <1>13 DEF Tells
<1> QED BY <1>6, <1>8, <1>9, <1>14

\* A sync leaves an item that tells of the lead as it is, whether it writes or not.
LEMMA SyncTells ==
  ASSUME NEW row \in TaskRecord, NEW notice \in TaskRecord, NEW lead \in LeadRecord,
         Tells(notice, lead), notice.status # "none", notice.hash.version = lead.version,
         row.status = "none" => row = NoTask,
         Tells(row, lead) \/ row.hash.version < lead.version
  PROVE  Synced(row, notice) \in TaskRecord /\ Tells(Synced(row, notice), lead)
<1>1. Tells(NoTask, lead)
  BY DEF Tells, NoTask
<1>2. row.hash.version \in Nat /\ lead.version \in Nat
  BY DEF TaskRecord, StandingRecord, LeadRecord
<1>3. CASE row.hash = notice.hash
  <2>1. Tells(row, lead)
    BY <1>2, <1>3
  <2> QED BY <1>3, <2>1 DEF Synced
<1>4. CASE row = NoTask
  BY <1>1, <1>4 DEF Synced
<1>5. CASE row.hash # notice.hash /\ row # NoTask
  BY <1>5 DEF Synced
<1> QED BY <1>3, <1>4, <1>5

\* A step that syncs one lead: it is as it was, or of a later version.
LEMMA SyncedStep ==
  ASSUME LeadInv, LeadRows', NEW l \in Leads, SyncsOnly(l), leads'[l].version >= 1,
         \A k \in Leads \ {l} : leads'[k] = leads[k],
         leads'[l] = leads[l] \/ leads[l].version < leads'[l].version
  PROVE  tasks' \in [Leads -> TaskRecord] /\ Told'
<1> DEFINE notice == Notice(l)'
           row == Synced(tasks[l], notice)
<1>1. tasks \in [Leads -> TaskRecord] /\ Told /\ leads \in [Leads -> LeadRecord]
      /\ leads' \in [Leads -> LeadRecord]
  BY DEF LeadInv, LeadTypes, LeadRows
<1>2. tasks' = [tasks EXCEPT ![l] = row]
  BY DEF SyncsOnly
<1>3. /\ notice \in TaskRecord /\ Tells(notice, leads'[l])
      /\ notice.hash.version = leads'[l].version /\ notice.status # "none"
  BY NoticeNext
<1> HIDE DEF notice
<1>4. tasks[l] \in TaskRecord /\ Tells(tasks[l], leads[l])
  BY <1>1 DEF Told
<1>5. tasks[l].status = "none" => tasks[l] = NoTask
  BY <1>4 DEF Tells
<1>6. Tells(tasks[l], leads'[l]) \/ tasks[l].hash.version < leads'[l].version
  <2>1. CASE leads'[l] = leads[l]
    BY <1>4, <2>1
  <2>2. CASE leads[l].version < leads'[l].version
    <3>1. leads[l].version \in Nat /\ leads'[l].version \in Nat
      BY <1>1 DEF LeadRecord
    <3>2. tasks[l].status # "none" => tasks[l].hash.version \in 1..leads[l].version
      BY <1>4 DEF Tells
    <3>3. tasks[l].status = "none" => tasks[l].hash.version = 0
      BY <1>5 DEF NoTask
    <3> QED BY <2>2, <3>1, <3>2, <3>3
  <2> QED BY <2>1, <2>2
<1>7. row \in TaskRecord /\ Tells(row, leads'[l])
  BY <1>1, <1>3, <1>4, <1>5, <1>6, SyncTells
<1> HIDE DEF row
<1>8. tasks' \in [Leads -> TaskRecord]
  BY <1>1, <1>2, <1>7
<1>9. ASSUME NEW k \in Leads PROVE Tells(tasks'[k], leads'[k])
  <2>1. CASE k = l
    BY <1>1, <1>2, <1>7, <2>1
  <2>2. CASE k # l
    <3>1. tasks'[k] = tasks[k] /\ leads'[k] = leads[k]
      BY <1>1, <1>2, <2>2
    <3> QED BY <1>1, <3>1 DEF Told
  <2> QED BY <2>1, <2>2
<1> QED BY <1>8, <1>9 DEF Told

\* A lead is written under a higher version: no review saw more than there is, also one that
\* is saved with it, and the step is news to all reviews that stay.
LEMMA LeadWritten ==
  ASSUME LeadInv, LeadRows', NEW l \in Leads, NEW lead \in LeadRecord,
         leads' = [leads EXCEPT ![l] = lead],
         lead.status # "absent", leads[l].version < lead.version,
         \A k \in Leads :
           \/ reviews'[k] = reviews[k] /\ news'[k] \in SUBSET (news[k] \cup {l})
           \/ /\ news'[k] = {}
              /\ \A c \in Leads : reviews'[k].seen[c] <= leads[c].version
  PROVE  Aged' /\ Compared'
<1>1. /\ leads \in [Leads -> LeadRecord] /\ reviews \in [Leads -> ReviewRecord]
      /\ reviews' \in [Leads -> ReviewRecord] /\ Aged /\ Compared
  BY DEF LeadInv, LeadTypes, LeadRows
<1>2. ASSUME NEW k \in Leads PROVE leads'[k] = IF k = l THEN lead ELSE leads[k]
  BY <1>1
<1>3. ASSUME NEW k \in Leads PROVE leads[k].version \in Nat /\ lead.version \in Nat
  BY <1>1 DEF LeadRecord
<1>4. Aged'
  BY <1>1, <1>2, <1>3 DEF Aged, LeadExists
<1>5. ASSUME NEW k \in Leads, NEW c \in Leads
      PROVE  /\ reviews'[k].seen[c] <= leads'[c].version
             /\ c \in news'[k] => reviews'[k].seen[c] < leads'[c].version
  <2>1. reviews[k].seen[c] \in Nat /\ reviews'[k].seen[c] \in Nat
    BY <1>1 DEF ReviewRecord
  <2>2. reviews[k].seen[c] <= leads[c].version
    BY <1>1 DEF Compared
  <2>3. c \in news[k] => reviews[k].seen[c] < leads[c].version
    BY <1>1 DEF Compared
  <2>4. leads[c].version <= leads'[c].version /\ (c = l => leads[c].version < leads'[c].version)
    BY <1>2, <1>3
  <2>5. leads'[c].version \in Nat
    BY <1>2, <1>3
  <2>6. CASE reviews'[k] = reviews[k] /\ news'[k] \in SUBSET (news[k] \cup {l})
    <3>1. c \in news'[k] => c \in news[k] \/ c = l
      BY <2>6
    <3> QED BY <1>3, <2>1, <2>2, <2>3, <2>4, <2>5, <2>6, <3>1
  <2>7. CASE news'[k] = {} /\ \A b \in Leads : reviews'[k].seen[b] <= leads[b].version
    BY <1>3, <2>1, <2>4, <2>5, <2>7
  <2> QED BY <2>6, <2>7
<1>6. Compared'
  BY <1>5 DEF Compared
<1> QED BY <1>4, <1>6

LEMMA Composed ==
  ASSUME LeadRows', tasks' \in [Leads -> TaskRecord], Aged', Compared', Told'
  PROVE  LeadInv'
BY DEF LeadInv, LeadTypes, LeadRows

LEMMA CreateLeadInv ==
  ASSUME LeadInv, NEW l \in Leads, NEW face \in Faces, NEW answers \in 0..Answers,
         NEW assigned \in BOOLEAN, CreateLead(l, face, answers, assigned)
  PROVE  LeadInv'
<1> DEFINE made == [status |-> "new", version |-> 1, face |-> face, answers |-> answers,
                    assigned |-> assigned, policy |-> 0]
<1>1. LeadRows /\ Aged
  BY DEF LeadInv, LeadTypes, LeadRows
<1>2. made \in LeadRecord
  BY LeadAssumption DEF LeadRecord, LeadStatuses
<1>3. leads' = [leads EXCEPT ![l] = made]
  BY DEF CreateLead
<1>4. made.status # "absent" /\ made.version = 1
  OBVIOUS
<1>5. leads[l].version = 0
  BY <1>1 DEF CreateLead, Aged
<1> HIDE DEF made
<1>6. news' = Changed(l)
  BY DEF CreateLead
<1>7. UNCHANGED <<reviews, policy, staffed, handed>> /\ SyncsOnly(l)
  BY DEF CreateLead
<1>8. LeadRows'
  BY <1>1, <1>2, <1>3, <1>6, <1>7 DEF LeadRows, Changed
<1>9. \A k \in Leads :
       \/ reviews'[k] = reviews[k] /\ news'[k] \in SUBSET (news[k] \cup {l})
       \/ news'[k] = {} /\ \A c \in Leads : reviews'[k].seen[c] <= leads[c].version
  BY <1>1, <1>6, <1>7 DEF Changed
<1>10. made.status # "absent" /\ leads[l].version < made.version
  BY <1>4, <1>5
<1>11. Aged' /\ Compared'
  BY <1>2, <1>3, <1>8, <1>9, <1>10, LeadWritten
<1>12. leads'[l] = made /\ \A k \in Leads \ {l} : leads'[k] = leads[k]
  BY <1>1, <1>3 DEF LeadRows
<1>13. leads'[l].version >= 1 /\ leads[l].version < leads'[l].version
  BY <1>4, <1>5, <1>12
<1>14. tasks' \in [Leads -> TaskRecord] /\ Told'
  BY <1>7, <1>8, <1>12, <1>13, SyncedStep
<1> QED BY <1>8, <1>11, <1>14, Composed

LEMMA RowsStay ==
  ASSUME LeadInv, UNCHANGED <<leads, reviews, policy, staffed, handed, news>>
  PROVE  LeadRows' /\ Aged' /\ Compared'
BY DEF LeadInv, LeadTypes, LeadRows, Aged, Compared, LeadExists

LEMMA RepeatCreateInv ==
  ASSUME LeadInv, NEW l \in Leads, RepeatCreate(l)
  PROVE  LeadInv'
<1>1. UNCHANGED <<leads, reviews, policy, staffed, handed, news>> /\ SyncsOnly(l)
  BY DEF RepeatCreate
<1>2. LeadRows' /\ Aged' /\ Compared'
  BY <1>1, RowsStay
<1>3. leads'[l].version >= 1
  BY <1>1 DEF LeadInv, Aged, RepeatCreate
<1>4. \A k \in Leads : leads'[k] = leads[k]
  BY <1>1
<1>5. tasks' \in [Leads -> TaskRecord] /\ Told'
  BY <1>1, <1>2, <1>3, <1>4, SyncedStep
<1> QED BY <1>2, <1>5, Composed

LEMMA ReviewMade ==
  ASSUME LeadInv, NEW l \in Leads, NEW face \in Faces, NEW disposition \in Dispositions
  PROVE  /\ Review(l, disposition, face) \in ReviewRecord
         /\ \A c \in Leads : Review(l, disposition, face).seen[c] <= leads[c].version
<1>1. \A c \in Leads : leads[c].version \in 0..MaxLeadVersion
  BY DEF LeadInv, LeadTypes, LeadRecord
<1>2. [c \in Leads |-> IF c \in Candidates(l, face) THEN leads[c].version ELSE 0]
        \in [Leads -> 0..MaxLeadVersion]
  BY <1>1, LeadAssumption
<1>3. Review(l, disposition, face) \in ReviewRecord
  BY <1>2 DEF Review, ReviewRecord
<1> QED BY <1>1, <1>3, LeadAssumption DEF Review

LEMMA UpdateLeadInv ==
  ASSUME LeadInv, NEW l \in Leads, NEW edit \in Edits, UpdateLead(l, edit)
  PROVE  LeadInv'
<1>1. LeadRows /\ Aged
  BY DEF LeadInv, LeadTypes, LeadRows
<1>2. /\ edit.status \in LeadStatuses \cup {"kept"} /\ edit.face \in Faces
      /\ edit.answers \in 0..Answers /\ edit.assigned \in BOOLEAN
      /\ edit.disposition \in Dispositions \cup {"kept"}
  BY DEF Edits
<1>3. /\ leads[l] \in LeadRecord /\ leads[l].status \in LeadStatuses
      /\ leads[l].version \in Nat /\ leads[l].version < MaxLeadVersion
      /\ leads[l].policy \in 0..MaxPolicy /\ policy.version \in 0..MaxPolicy
  BY <1>1 DEF LeadRows, LeadRecord, UpdateLead, LeadExists
<1> DEFINE status == IF edit.status = "kept" THEN leads[l].status ELSE edit.status
           under == IF edit.status = "ready_for_proposal" THEN policy.version ELSE leads[l].policy
<1>4. status \in LeadStatuses /\ under \in 0..MaxPolicy
  BY <1>2, <1>3
<1>5. PICK saved : saved = [status |-> status, version |-> leads[l].version + 1,
                            face |-> edit.face, answers |-> edit.answers,
                            assigned |-> edit.assigned, policy |-> under]
  OBVIOUS
<1>6. leads' = [leads EXCEPT ![l] = saved]
  BY <1>5 DEF UpdateLead
<1> HIDE DEF status, under
<1>7. saved \in LeadRecord
  BY <1>2, <1>3, <1>4, <1>5, LeadAssumption DEF LeadRecord
<1>8. saved.status # "absent" /\ saved.version = leads[l].version + 1
  BY <1>4, <1>5 DEF LeadStatuses
<1>9. leads[l].version < saved.version /\ saved.version >= 1
  BY <1>3, <1>8
<1>10. UNCHANGED <<policy, staffed, handed>> /\ SyncsOnly(l)
  BY DEF UpdateLead
<1>11. \/ reviews' = reviews /\ news' = Changed(l)
       \/ /\ edit.disposition \in Dispositions
          /\ reviews' = [reviews EXCEPT ![l] = Review(l, edit.disposition, edit.face)]
          /\ news' = [Changed(l) EXCEPT ![l] = {}]
  BY <1>2 DEF UpdateLead
<1>12. /\ reviews' \in [Leads -> ReviewRecord] /\ news' \in [Leads -> SUBSET Leads]
       /\ \A k \in Leads :
            \/ reviews'[k] = reviews[k] /\ news'[k] \in SUBSET (news[k] \cup {l})
            \/ /\ news'[k] = {}
               /\ \A c \in Leads : reviews'[k].seen[c] <= leads[c].version
  <2>1. Changed(l) \in [Leads -> SUBSET Leads]
        /\ \A k \in Leads : Changed(l)[k] \in SUBSET (news[k] \cup {l})
    BY <1>1 DEF Changed, LeadRows
  <2>2. CASE reviews' = reviews /\ news' = Changed(l)
    BY <1>1, <2>1, <2>2 DEF LeadRows
  <2>3. CASE /\ edit.disposition \in Dispositions
             /\ reviews' = [reviews EXCEPT ![l] = Review(l, edit.disposition, edit.face)]
             /\ news' = [Changed(l) EXCEPT ![l] = {}]
    <3>1. PICK review : review = Review(l, edit.disposition, edit.face)
      OBVIOUS
    <3>2. review \in ReviewRecord /\ \A c \in Leads : review.seen[c] <= leads[c].version
      BY <1>2, <2>3, <3>1, ReviewMade
    <3>3. reviews' = [reviews EXCEPT ![l] = review]
      BY <2>3, <3>1
    <3>4. reviews' \in [Leads -> ReviewRecord] /\ news' \in [Leads -> SUBSET Leads]
      BY <1>1, <2>1, <2>3, <3>2, <3>3 DEF LeadRows
    <3>5. reviews'[l] = review /\ news'[l] = {}
      BY <1>1, <2>1, <2>3, <3>3 DEF LeadRows
    <3>6. ASSUME NEW k \in Leads, k # l
          PROVE  reviews'[k] = reviews[k] /\ news'[k] \in SUBSET (news[k] \cup {l})
      <4>1. reviews'[k] = reviews[k]
        BY <1>1, <3>3, <3>6 DEF LeadRows
      <4>2. news'[k] = Changed(l)[k]
        BY <2>1, <2>3, <3>6
      <4> QED BY <2>1, <4>1, <4>2
    <3> QED BY <3>2, <3>4, <3>5, <3>6
  <2> QED BY <1>11, <2>2, <2>3
<1>13. leads' \in [Leads -> LeadRecord]
  BY <1>1, <1>6, <1>7 DEF LeadRows
<1>14. LeadRows'
  BY <1>1, <1>10, <1>12, <1>13 DEF LeadRows
<1>15. Aged' /\ Compared'
  BY <1>6, <1>7, <1>8, <1>9, <1>12, <1>14, LeadWritten
<1>16. leads'[l] = saved /\ \A k \in Leads \ {l} : leads'[k] = leads[k]
  BY <1>1, <1>6 DEF LeadRows
<1>17. tasks' \in [Leads -> TaskRecord] /\ Told'
  BY <1>9, <1>10, <1>14, <1>16, SyncedStep
<1> QED BY <1>14, <1>15, <1>17, Composed

\* The list hears nothing of new evidence: its item is of an older version now.
LEMMA AppendLeadEvidenceInv ==
  ASSUME LeadInv, NEW l \in Leads, AppendLeadEvidence(l)
  PROVE  LeadInv'
<1>1. LeadRows /\ Aged /\ tasks \in [Leads -> TaskRecord] /\ Told
  BY DEF LeadInv, LeadTypes, LeadRows
<1>2. PICK later : later = [leads[l] EXCEPT !.version = @ + 1]
  OBVIOUS
<1>3. leads[l] \in LeadRecord /\ leads[l].version < MaxLeadVersion /\ leads[l].status # "absent"
  BY <1>1 DEF LeadRows, AppendLeadEvidence, LeadExists
<1>4. leads[l].version \in Nat /\ later.version = leads[l].version + 1
      /\ later.status = leads[l].status
  BY <1>2, <1>3 DEF LeadRecord
<1>5. later \in LeadRecord
  BY <1>2, <1>3, <1>4, LeadAssumption DEF LeadRecord
<1>6. leads' = [leads EXCEPT ![l] = later]
  BY <1>1, <1>2 DEF AppendLeadEvidence
<1>7. news' = Changed(l) /\ UNCHANGED <<reviews, policy, staffed, handed, tasks>>
  BY DEF AppendLeadEvidence
<1>8. leads' \in [Leads -> LeadRecord]
  BY <1>1, <1>5, <1>6 DEF LeadRows
<1>9. LeadRows'
  BY <1>1, <1>7, <1>8 DEF LeadRows, Changed
<1>10. \A k \in Leads :
       \/ reviews'[k] = reviews[k] /\ news'[k] \in SUBSET (news[k] \cup {l})
       \/ news'[k] = {} /\ \A c \in Leads : reviews'[k].seen[c] <= leads[c].version
  BY <1>1, <1>7 DEF Changed
<1>11. Aged' /\ Compared'
  <2>1. later.status # "absent" /\ leads[l].version < later.version
    BY <1>3, <1>4
  <2> QED BY <1>5, <1>6, <1>9, <1>10, <2>1, LeadWritten
<1>12. ASSUME NEW k \in Leads PROVE Tells(tasks[k], leads'[k])
  <2>1. Tells(tasks[k], leads[k])
    BY <1>1 DEF Told
  <2>2. CASE k # l
    <3>1. leads'[k] = leads[k]
      BY <1>1, <1>6, <2>2 DEF LeadRows
    <3> QED BY <2>1, <3>1
  <2>3. CASE k = l
    <3>1. leads'[k] = later
      BY <1>1, <1>6, <2>3 DEF LeadRows
    <3> QED BY <1>3, <1>4, <2>1, <2>3, <3>1 DEF Tells
  <2> QED BY <2>2, <2>3
<1>13. Told'
  BY <1>7, <1>12 DEF Told
<1> QED BY <1>1, <1>7, <1>9, <1>11, <1>13, Composed

\* The policy, the member and the hand-over are no part of what an item is compared with.
LEMMA OthersInv ==
  ASSUME LeadInv, UNCHANGED <<leads, reviews, tasks, news>>,
         policy' \in [version : 0..MaxPolicy, asks : 0..Answers], staffed' \in BOOLEAN,
         handed' \in SUBSET Leads
  PROVE  LeadInv'
BY DEF LeadInv, LeadTypes, Aged, Compared, Told, LeadExists

LEMMA SameNotice ==
  ASSUME UNCHANGED <<leads, reviews, policy, staffed, handed>>, NEW l \in Leads
  PROVE  Notice(l)' = Notice(l)
<1>1. \A face : Candidates(l, face)' = Candidates(l, face)
  BY DEF Candidates, Lookalikes, LeadExists
<1>2. Candidates(l, leads[l].face)' = Candidates(l, leads[l].face)
  BY DEF Candidates, Lookalikes, LeadExists
<1>3. Disposition(l)' = Disposition(l) /\ Lacks(l)' = Lacks(l)
  BY <1>2 DEF Disposition, Reviewed, Lacks
<1>4. Issues(l)' = Issues(l)
  BY <1>2, <1>3 DEF Issues
<1> QED BY <1>3, <1>4 DEF Notice, Standing, Done, Group

LEMMA GetWorkspaceInv ==
  ASSUME LeadInv, GetWorkspace
  PROVE  LeadInv'
<1>1. UNCHANGED <<leads, reviews, policy, staffed, handed, news>>
  BY DEF GetWorkspace
<1>2. LeadRows' /\ Aged' /\ Compared'
  BY <1>1, RowsStay
<1>3. tasks \in [Leads -> TaskRecord] /\ Told /\ leads \in [Leads -> LeadRecord] /\ Aged
  BY DEF LeadInv, LeadTypes
<1>4. ASSUME NEW l \in Listed
      PROVE  Synced(tasks[l], Notice(l)) \in TaskRecord
             /\ Tells(Synced(tasks[l], Notice(l)), leads[l])
  <2> DEFINE notice == Notice(l)
  <2>1. l \in Leads /\ leads[l].status # "absent"
    BY <1>4 DEF Listed, LeadStatuses
  <2>2. leads'[l].version >= 1 /\ leads'[l] = leads[l]
    BY <1>1, <1>3, <2>1 DEF Aged, LeadExists
  <2>3. /\ notice \in TaskRecord /\ Tells(notice, leads[l])
        /\ notice.hash.version = leads[l].version /\ notice.status # "none"
    BY <1>1, <1>2, <2>1, <2>2, NoticeNext, SameNotice
  <2> HIDE DEF notice
  <2>4. tasks[l] \in TaskRecord /\ Tells(tasks[l], leads[l]) /\ leads[l] \in LeadRecord
    BY <1>3, <2>1 DEF Told
  <2>5. tasks[l].status = "none" => tasks[l] = NoTask
    BY <2>4 DEF Tells
  <2>6. Synced(tasks[l], notice) \in TaskRecord /\ Tells(Synced(tasks[l], notice), leads[l])
    BY <2>3, <2>4, <2>5, SyncTells
  <2> QED BY <2>6 DEF notice
<1>5. ASSUME NEW l \in Leads
      PROVE  tasks'[l] \in TaskRecord /\ Tells(tasks'[l], leads[l])
  <2>1. tasks'[l] = IF l \in Listed THEN Synced(tasks[l], Notice(l)) ELSE tasks[l]
    BY DEF GetWorkspace
  <2>2. tasks[l] \in TaskRecord /\ Tells(tasks[l], leads[l])
    BY <1>3 DEF Told
  <2> QED BY <1>4, <2>1, <2>2
<1>6. tasks' \in [Leads -> TaskRecord]
  <2>1. tasks' = [l \in Leads |-> tasks'[l]]
    BY DEF GetWorkspace
  <2> QED BY <1>5, <2>1
<1>7. Told'
  BY <1>1, <1>5 DEF Told
<1> QED BY <1>2, <1>6, <1>7, Composed

LEMMA UpdateTaskInv ==
  ASSUME LeadInv, NEW l \in Leads, NEW status \in {"in_progress", "dismissed"},
         UpdateTask(l, status)
  PROVE  LeadInv'
<1>1. UNCHANGED <<leads, reviews, policy, staffed, handed, news>>
  BY DEF UpdateTask
<1>2. LeadRows' /\ Aged' /\ Compared'
  BY <1>1, RowsStay
<1>3. tasks \in [Leads -> TaskRecord] /\ Told /\ tasks[l] \in TaskRecord
      /\ Tells(tasks[l], leads[l])
  BY DEF LeadInv, LeadTypes, Told
<1>4. PICK row : row = [tasks[l] EXCEPT !.status = status]
  OBVIOUS
<1>5. /\ row.status = status /\ row.group = tasks[l].group /\ row.hash = tasks[l].hash
      /\ tasks[l].status \in {"open", "in_progress"}
  BY <1>3, <1>4 DEF TaskRecord, UpdateTask
<1>6. row \in TaskRecord
  BY <1>3, <1>4 DEF TaskRecord
<1>7. Tells(row, leads[l])
  BY <1>3, <1>5 DEF Tells
<1>8. tasks' = [tasks EXCEPT ![l] = row]
  BY <1>3, <1>4 DEF UpdateTask
<1>9. tasks' \in [Leads -> TaskRecord]
  BY <1>3, <1>6, <1>8
<1>10. Told'
  BY <1>1, <1>3, <1>7, <1>8 DEF Told
<1> QED BY <1>2, <1>9, <1>10, Composed

LEMMA LeadNextInv == LeadInv /\ [LeadNext]_leadVars => LeadInv'
<1> SUFFICES ASSUME LeadInv, [LeadNext]_leadVars PROVE LeadInv'
  OBVIOUS
<1>1. ASSUME NEW l \in Leads, NEW face \in Faces, NEW answers \in 0..Answers,
             NEW assigned \in BOOLEAN, CreateLead(l, face, answers, assigned)
      PROVE  LeadInv'
  BY <1>1, CreateLeadInv
<1>2. ASSUME NEW l \in Leads, NEW edit \in Edits, UpdateLead(l, edit) PROVE LeadInv'
  BY <1>2, UpdateLeadInv
<1>3. ASSUME NEW l \in Leads, RepeatCreate(l) PROVE LeadInv'
  BY <1>3, RepeatCreateInv
<1>4. ASSUME NEW l \in Leads, AppendLeadEvidence(l) PROVE LeadInv'
  BY <1>4, AppendLeadEvidenceInv
<1>5. LeadTypes
  BY DEF LeadInv
<1>6. ASSUME NEW l \in Leads, CreateProposal(l) PROVE LeadInv'
  <2>1. UNCHANGED <<leads, reviews, policy, staffed, tasks, news>> /\ handed' \in SUBSET Leads
    BY <1>5, <1>6 DEF CreateProposal, LeadTypes
  <2> QED BY <1>5, <2>1, OthersInv DEF LeadTypes
<1>7. ASSUME NEW l \in Leads, NEW status \in {"in_progress", "dismissed"}, UpdateTask(l, status)
      PROVE  LeadInv'
  BY <1>7, UpdateTaskInv
<1>8. ASSUME NEW asks \in 0..Answers, SaveIntakePolicy(asks) PROVE LeadInv'
  <2>1. policy.version \in Nat /\ policy.version < MaxPolicy
    BY <1>5, <1>8 DEF LeadTypes, SaveIntakePolicy
  <2>2. policy' \in [version : 0..MaxPolicy, asks : 0..Answers]
    BY <1>8, <2>1, LeadAssumption DEF SaveIntakePolicy
  <2>3. UNCHANGED <<leads, reviews, staffed, handed, tasks, news>>
    BY <1>8 DEF SaveIntakePolicy
  <2> QED BY <1>5, <2>2, <2>3, OthersInv DEF LeadTypes
<1>9. CASE ChangeMember
  <2>1. UNCHANGED <<leads, reviews, policy, handed, tasks, news>> /\ staffed' \in BOOLEAN
    BY <1>5, <1>9 DEF ChangeMember, LeadTypes
  <2> QED BY <1>5, <2>1, OthersInv DEF LeadTypes
<1>10. CASE GetWorkspace
  BY <1>10, GetWorkspaceInv
<1>11. CASE UNCHANGED leadVars
  <2>1. UNCHANGED <<leads, reviews, policy, staffed, handed, tasks, news>>
    BY <1>11 DEF leadVars
  <2> QED BY <1>5, <2>1, OthersInv DEF LeadTypes
<1> QED
  BY <1>1, <1>2, <1>3, <1>4, <1>6, <1>7, <1>8, <1>9, <1>10, <1>11 DEF LeadNext

LEMMA LeadInvariant == LeadSpec => []LeadInv
<1>1. LeadInit => LeadInv
  BY LeadInitInv
<1>2. LeadInv /\ [LeadNext]_leadVars => LeadInv'
  BY LeadNextInv
<1> QED BY <1>1, <1>2, PTL DEF LeadSpec

\* Every row of the leads has the values of its columns, and no version passes its bound.
THEOREM LeadRecords == LeadSpec => []LeadTypes
<1>1. LeadInv => LeadTypes
  BY DEF LeadInv
<1> QED BY <1>1, LeadInvariant, PTL

\* What syncCplLeadAttention passes over says what the lead needs, and nobody is asked to
\* look after a disqualified lead.
THEOREM Noticing == LeadSpec => []NoticeAgrees
<1>1. LeadInv => NoticeAgrees
  <2> SUFFICES ASSUME LeadInv, NEW l \in Leads
               PROVE  /\ tasks[l].status # "none" /\ tasks[l].hash = Standing(l) =>
                           /\ tasks[l].group = Group(l)
                           /\ tasks[l].status = "completed" <=> Done(l)
                      /\ leads[l].status = "disqualified" =>
                           tasks[l].status \in {"none", "completed"}
    BY DEF NoticeAgrees
  <2>1. Tells(tasks[l], leads[l])
    BY DEF LeadInv, Told
  <2>2. /\ Standing(l).version = leads[l].version /\ Standing(l).issues = Issues(l)
        /\ Standing(l).proposed = (l \in handed)
    BY DEF Standing
  <2>3. "disqualified" \in Issues(l) <=> leads[l].status = "disqualified"
    BY DEF Issues, Holds
  <2>4. ASSUME tasks[l].status # "none", tasks[l].hash = Standing(l)
        PROVE  tasks[l].group = Group(l) /\ (tasks[l].status = "completed" <=> Done(l))
    <3>1. tasks[l].group = Group(l)
      BY <2>1, <2>2, <2>4 DEF Tells, Group
    <3>2. tasks[l].status = "completed" <=> Done(l)
      BY <2>1, <2>2, <2>3, <2>4 DEF Tells, Done
    <3> QED BY <3>1, <3>2
  <2> QED BY <2>1, <2>4 DEF Tells
<1> QED BY <1>1, LeadInvariant, PTL

\* A proposal is made only of a lead that was compared, as it is, with every lead that looks
\* like it, as each of them is, and that meets the policy in force (assertReady).
THEOREM HandingOver == LeadSpec => HandoffIsReviewed
<1> DEFINE Step == \A l \in handed' \ handed :
       /\ Lookalikes(l, leads[l].face) # {} =>
            /\ reviews[l].disposition = "distinct"
            /\ Lookalikes(l, leads[l].face) \cap news[l] = {}
       /\ leads[l].policy = policy.version /\ leads[l].answers >= policy.asks
<1>1. LeadInv /\ [LeadNext]_leadVars => [Step]_leadVars
  <2> SUFFICES ASSUME LeadInv, LeadNext, NEW l \in handed' \ handed
               PROVE  /\ Lookalikes(l, leads[l].face) # {} =>
                           /\ reviews[l].disposition = "distinct"
                           /\ Lookalikes(l, leads[l].face) \cap news[l] = {}
                      /\ leads[l].policy = policy.version /\ leads[l].answers >= policy.asks
    OBVIOUS
  <2>1. PICK m \in Leads : CreateProposal(m)
    BY DEF LeadNext, CreateLead, UpdateLead, RepeatCreate, AppendLeadEvidence, UpdateTask,
           SaveIntakePolicy, ChangeMember, GetWorkspace
  <2>2. l \in Leads /\ leads[l].status = "ready_for_proposal" /\ Issues(l) = {}
    BY <2>1 DEF CreateProposal
  <2>3. LeadTypes /\ Compared
    BY DEF LeadInv
  <2>4. leads[l].policy = policy.version
    BY <2>2 DEF Issues, Holds
  <2>5. leads[l].answers >= policy.asks
    <3>1. Lacks(l) = {}
      BY <2>2 DEF Issues, Holds
    <3>2. leads[l].answers \in Nat /\ policy.asks \in Nat
      BY <2>2, <2>3 DEF LeadTypes, LeadRecord
    <3> QED BY <3>1, <3>2 DEF Lacks
  <2>6. ASSUME Lookalikes(l, leads[l].face) # {}
        PROVE  /\ reviews[l].disposition = "distinct"
               /\ Lookalikes(l, leads[l].face) \cap news[l] = {}
    <3> DEFINE read == Candidates(l, leads[l].face)
    <3>1. read # {}
      <4> SUFFICES ASSUME read = {} PROVE FALSE
        OBVIOUS
      <4>1. Cardinality(read) < CandidateLimit
        BY FS_EmptySet, LeadAssumption
      <4> QED BY <2>2, <2>6, <4>1, AllCandidates
    <3>2. Disposition(l) # "unreviewed" /\ Disposition(l) # "duplicate"
      BY <2>2, <3>1 DEF Issues, Holds
    <3>3. Reviewed(l) /\ Disposition(l) = reviews[l].disposition
      BY <3>2 DEF Disposition
    <3>4. reviews[l].disposition = "distinct"
      BY <2>2, <2>3, <3>2, <3>3 DEF LeadTypes, ReviewRecord, Dispositions
    <3>5. read = Lookalikes(l, leads[l].face)
      BY <2>2, <3>3, AllCandidates DEF Reviewed
    <3>6. ASSUME NEW c \in Lookalikes(l, leads[l].face) PROVE c \notin news[l]
      <4>1. reviews[l].seen[c] = leads[c].version
        BY <3>3, <3>5, <3>6 DEF Reviewed
      <4>2. c \in Leads
        BY DEF Lookalikes
      <4>3. leads[c].version \in Nat
        BY <2>3, <4>2 DEF LeadTypes, LeadRecord
      <4>4. ~(reviews[l].seen[c] < leads[c].version)
        BY <4>1, <4>3
      <4> QED BY <2>2, <2>3, <4>2, <4>4 DEF Compared
    <3> QED BY <3>4, <3>6
  <2> QED BY <2>4, <2>5, <2>6
<1> QED BY <1>1, LeadInvariant, PTL DEF LeadSpec, HandoffIsReviewed

-----------------------------------------------------------------------------
(***************************************************************************)
(* The photos (PhotoUploads), for any number of photos, requests, retries  *)
(* and faults.                                                             *)
(*                                                                         *)
(* A request works outside of the database with the row that it saw, while *)
(* others write the row.  Every write raises the row's revision, so what   *)
(* the request holds is of the past or is the row as it stands (Follows),  *)
(* and the objects that it counts on are never taken away.                 *)
(***************************************************************************)
PhotoRow ==
  [state : PhotoStates, revision : Nat, recorded : BOOLEAN, token : Nat, attempts : Nat]

RowSound(row) ==
  /\ row.state = "processing" <=> row.token # 0
  /\ row.state \in {"original_ready", "processing", "ready"} => row.recorded
  /\ row.state = "absent" => row.revision = 0 /\ ~row.recorded

Recorded == {"claim", "thumbnail", "report", "complete"}

Follows(q, row, stored) ==
  /\ row.state # "absent"
  /\ q.revision <= row.revision
  /\ q.revision = row.revision => q.recorded = row.recorded
  /\ q.pc = "record" => ~q.recorded
  /\ q.pc \in Recorded => q.recorded
  /\ q.pc \in {"report", "complete"} => "thumbnail" \in stored
  /\ q.pc = "complete" => "report" \in stored

PhotoFacts ==
  /\ \A p \in Photos : RowSound(photo[p]) /\ (live[p] => photo[p].state = "processing")
  /\ \A m \in mutation : m.kind = "original" => m.of \in Photos /\ photo[m.of].recorded
  /\ \A d \in Preparers : request[d] # Idle =>
       Follows(request[d], photo[request[d].of], object[request[d].of])

PhotoInv == PhotoTypes /\ PhotoFacts /\ ReadyIsStored /\ CompletedLeavesNothingPending

\* A request that goes to record the original finds the row as it saw it, or another revision.
RecordsWhatItSaw == \A d \in Preparers :
  request[d].pc = "record" /\ photo[request[d].of].revision = request[d].revision =>
    /\ ~photo[request[d].of].recorded
    /\ photo[request[d].of].state \in {"reserved", "failed"}

\* A ready photo is never touched again: not failed, not rendered, not recorded anew.
ReadyForGood == [][\A p \in Photos : photo[p].state = "ready" => photo'[p] = photo[p]]_photoVars

LEMMA PhotoInitInv == PhotoInit => PhotoInv
<1> SUFFICES ASSUME PhotoInit PROVE PhotoInv
  OBVIOUS
<1> USE DEF PhotoInit
<1>1. PhotoTypes
  BY PhotoUploadsAssumption DEF PhotoTypes, NoPhoto, PhotoStates
<1>2. PhotoFacts
  BY DEF PhotoFacts, RowSound, NoPhoto
<1>3. ReadyIsStored /\ CompletedLeavesNothingPending
  BY DEF ReadyIsStored, CompletedLeavesNothingPending, NoPhoto
<1> QED BY <1>1, <1>2, <1>3 DEF PhotoInv

LEMMA RequestFacts ==
  ASSUME PhotoInv, NEW d \in Preparers, request[d].pc # "idle"
  PROVE  /\ request[d] # Idle /\ request[d] \in Request
         /\ request[d].of \in Photos /\ request[d].key \in Keys /\ request[d].pc \in Steps
         /\ request[d].revision \in Nat /\ request[d].recorded \in BOOLEAN
         /\ request[d].token \in Nat
         /\ Follows(request[d], photo[request[d].of], object[request[d].of])
BY DEF PhotoInv, PhotoTypes, PhotoFacts, Idle, Request

LEMMA PhotoRowFacts ==
  ASSUME PhotoInv, NEW p \in Photos
  PROVE  /\ photo \in [Photos -> PhotoRow] /\ photo[p] \in PhotoRow /\ RowSound(photo[p])
         /\ photo[p].state \in PhotoStates /\ photo[p].revision \in Nat
         /\ photo[p].recorded \in BOOLEAN /\ photo[p].token \in Nat /\ photo[p].attempts \in Nat
         /\ live[p] => photo[p].state = "processing"
BY DEF PhotoInv, PhotoTypes, PhotoFacts, PhotoRow

\* A step of one request that writes one row, or none.
LEMMA PhotoStep ==
  ASSUME PhotoInv, NEW p \in Photos, NEW row \in PhotoRow,
         NEW d \in Preparers, NEW q \in {Idle} \cup Request,
         photo' = [photo EXCEPT ![p] = row], request' = [request EXCEPT ![d] = q],
         \/ row = photo[p]
         \/ /\ FieldOpen /\ row.state # "absent" /\ photo[p].revision < row.revision
            /\ photo[p].recorded => row.recorded,
         RowSound(row), row.state = "ready" => {"thumbnail", "report"} \subseteq object[p],
         live' \in [Photos -> BOOLEAN],
         \A k \in Photos : live'[k] => photo'[k].state = "processing",
         object' \in [Photos -> SUBSET Objects],
         \A k \in Photos : object[k] \ {"original"} \subseteq object'[k],
         \A m \in mutation' \ mutation : m.kind = "original" => m.of = p /\ row.recorded,
         q # Idle => Follows(q, photo'[q.of], object'[q.of]),
         faults' \in 0..MaxFaults, UNCHANGED <<fieldVisit, underway>>
  PROVE  PhotoInv'
<1>1. PhotoTypes /\ PhotoFacts /\ ReadyIsStored /\ CompletedLeavesNothingPending
  BY DEF PhotoInv
<1>2. /\ photo \in [Photos -> PhotoRow] /\ photo' \in [Photos -> PhotoRow]
      /\ photo'[p] = row /\ \A k \in Photos \ {p} : photo'[k] = photo[k]
      /\ request \in [Preparers -> {Idle} \cup Request]
      /\ request' \in [Preparers -> {Idle} \cup Request]
      /\ request'[d] = q /\ \A e \in Preparers \ {d} : request'[e] = request[e]
  BY <1>1 DEF PhotoTypes, PhotoRow
<1>3. \A k \in Photos : RowSound(photo'[k])
  BY <1>1, <1>2 DEF PhotoFacts
<1>4. \A k \in Photos : photo[k].recorded => photo'[k].recorded
  BY <1>2
<1>5. ASSUME NEW k \in Photos
      PROVE  /\ photo'[k].state = "processing" <=> photo'[k].token # 0
             /\ photo'[k].state = "ready" => photo'[k].recorded
  BY <1>3 DEF RowSound
<1>6. PhotoTypes'
  BY <1>1, <1>2, <1>5 DEF PhotoTypes, PhotoRow
<1>7. ASSUME NEW m \in mutation', m.kind = "original"
      PROVE  m.of \in Photos /\ photo'[m.of].recorded
  <2>1. CASE m \in mutation
    BY <1>1, <1>4, <1>7, <2>1 DEF PhotoFacts
  <2>2. CASE m \notin mutation
    BY <1>2, <1>7, <2>2
  <2> QED BY <2>1, <2>2
<1>8. ASSUME NEW e \in Preparers, request'[e] # Idle
      PROVE  Follows(request'[e], photo'[request'[e].of], object'[request'[e].of])
  <2>1. CASE e = d
    BY <1>2, <1>8, <2>1
  <2>2. CASE e # d
    <3>1. PICK r \in Request : r = request[e] /\ r = request'[e]
      BY <1>2, <1>8, <2>2
    <3>2. r.of \in Photos /\ r.revision \in Nat /\ r # Idle
      BY <1>8, <3>1 DEF Request
    <3>3. Follows(r, photo[r.of], object[r.of])
      BY <1>1, <3>1, <3>2 DEF PhotoFacts
    <3>4. /\ "thumbnail" \in object[r.of] => "thumbnail" \in object'[r.of]
          /\ "report" \in object[r.of] => "report" \in object'[r.of]
      BY <3>2
    <3>5. photo[r.of].revision \in Nat /\ photo'[r.of].revision \in Nat
      BY <1>2, <3>2 DEF PhotoRow
    <3>6. \/ photo'[r.of] = photo[r.of]
          \/ photo'[r.of].state # "absent" /\ photo[r.of].revision < photo'[r.of].revision
      BY <1>2, <3>2
    <3>7. Follows(r, photo'[r.of], object'[r.of])
      BY <3>2, <3>3, <3>4, <3>5, <3>6 DEF Follows
    <3> QED BY <3>1, <3>7
  <2> QED BY <2>1, <2>2
<1>9. PhotoFacts'
  BY <1>3, <1>7, <1>8 DEF PhotoFacts
<1>10. ReadyIsStored'
  <2> SUFFICES ASSUME NEW k \in Photos, photo'[k].state = "ready"
               PROVE  {"thumbnail", "report"} \subseteq object'[k]
    BY DEF ReadyIsStored
  <2>1. {"thumbnail", "report"} \subseteq object[k]
    BY <1>1, <1>2 DEF ReadyIsStored
  <2> QED BY <2>1
<1>11. CompletedLeavesNothingPending'
  BY <1>1, <1>2 DEF CompletedLeavesNothingPending, FieldOpen
<1> QED BY <1>6, <1>9, <1>10, <1>11 DEF PhotoInv

\* A step of one request that only goes on, and may store a derivative.
LEMMA GoesOn ==
  ASSUME PhotoInv, NEW d \in Preparers, NEW q \in {Idle} \cup Request,
         request' = [request EXCEPT ![d] = q],
         q # Idle => Follows(q, photo[q.of], object'[q.of]),
         UNCHANGED <<fieldVisit, underway, photo, live, mutation>>, faults' \in 0..MaxFaults,
         object' \in [Photos -> SUBSET Objects],
         \A k \in Photos : object[k] \ {"original"} \subseteq object'[k],
         NEW p \in Photos
  PROVE  PhotoInv'
<1>1. /\ photo[p] \in PhotoRow /\ RowSound(photo[p]) /\ photo \in [Photos -> PhotoRow]
  BY PhotoRowFacts
<1>2. photo' = [photo EXCEPT ![p] = photo[p]]
  BY <1>1
<1>3. photo[p].state = "ready" => {"thumbnail", "report"} \subseteq object[p]
  BY DEF PhotoInv, ReadyIsStored
<1>4. live' \in [Photos -> BOOLEAN] /\ \A k \in Photos : live'[k] => photo'[k].state = "processing"
  BY DEF PhotoInv, PhotoTypes, PhotoFacts
<1>5. \A m \in mutation' \ mutation : m.kind = "original" => m.of = p /\ photo[p].recorded
  OBVIOUS
<1>6. q # Idle => Follows(q, photo'[q.of], object'[q.of])
  OBVIOUS
<1> QED BY <1>1, <1>2, <1>3, <1>4, <1>5, <1>6, PhotoStep

LEMMA FaultTypes == PhotoInv /\ (Fault \/ UNCHANGED faults) => faults' \in 0..MaxFaults
BY PhotoUploadsAssumption DEF PhotoInv, PhotoTypes, Fault

LEMMA Stored ==
  ASSUME PhotoInv, NEW p \in Photos, NEW o \in Objects,
         object' = [object EXCEPT ![p] = @ \cup {o}]
  PROVE  /\ object' \in [Photos -> SUBSET Objects] /\ object'[p] = object[p] \cup {o}
         /\ \A k \in Photos : object[k] \ {"original"} \subseteq object'[k]
BY DEF PhotoInv, PhotoTypes

LEMMA Unstored ==
  ASSUME PhotoInv, UNCHANGED object
  PROVE  /\ object' \in [Photos -> SUBSET Objects]
         /\ \A k \in Photos : object[k] \ {"original"} \subseteq object'[k]
BY DEF PhotoInv, PhotoTypes

\* The request as it is after a step that moves its pc alone.
LEMMA MovedTo ==
  ASSUME PhotoInv, NEW d \in Preparers, request[d].pc # "idle", NEW pc \in Steps,
         request' = [request EXCEPT ![d].pc = pc]
  PROVE  \E q \in Request :
           /\ request' = [request EXCEPT ![d] = q] /\ q.pc = pc /\ q.of = request[d].of
           /\ q.revision = request[d].revision /\ q.recorded = request[d].recorded /\ q # Idle
<1>1. request[d] \in Request /\ request \in [Preparers -> {Idle} \cup Request]
  BY RequestFacts DEF PhotoInv, PhotoTypes
<1>2. PICK q : q = [request[d] EXCEPT !.pc = pc]
  OBVIOUS
<1>3. q.pc = pc /\ q.of = request[d].of /\ q.revision = request[d].revision
      /\ q.recorded = request[d].recorded /\ q \in Request
  BY <1>1, <1>2 DEF Request
<1>4. request' = [request EXCEPT ![d] = q]
  BY <1>1, <1>2
<1>5. q # Idle
  BY <1>3 DEF Idle, Steps
<1> QED BY <1>3, <1>4, <1>5

LEMMA StoreOriginalInv ==
  ASSUME PhotoInv, NEW d \in Preparers, StoreOriginal(d)
  PROVE  PhotoInv'
<1>1. request[d].pc \in {"store", "restore"} /\ request[d].pc # "idle"
  BY DEF StoreOriginal
<1>2. /\ request[d].of \in Photos
      /\ Follows(request[d], photo[request[d].of], object[request[d].of])
  BY <1>1, RequestFacts
<1>3. /\ object' = [object EXCEPT ![request[d].of] = @ \cup {"original"}]
      /\ UNCHANGED <<fieldVisit, underway, photo, live, mutation>>
  BY DEF StoreOriginal
<1>4. /\ object' \in [Photos -> SUBSET Objects]
      /\ \A k \in Photos : object[k] \ {"original"} \subseteq object'[k]
  BY <1>2, <1>3, Stored DEF Objects
<1>5. CASE request[d].pc = "restore"
  <2>1. End(d)
    BY <1>5 DEF StoreOriginal
  <2>2. request' = [request EXCEPT ![d] = Idle] /\ faults' \in 0..MaxFaults
    BY <2>1, FaultTypes DEF End
  <2> QED BY <1>2, <1>3, <1>4, <2>2, GoesOn
<1>6. CASE request[d].pc = "store"
  <2>1. request' = [request EXCEPT ![d].pc = "read"] /\ UNCHANGED faults
    BY <1>6 DEF StoreOriginal
  <2>2. PICK q \in Request :
          /\ request' = [request EXCEPT ![d] = q] /\ q.pc = "read" /\ q.of = request[d].of
          /\ q.revision = request[d].revision /\ q.recorded = request[d].recorded /\ q # Idle
    <3>1. "read" \in Steps
      BY DEF Steps
    <3> QED BY <1>1, <2>1, <3>1, MovedTo
  <2>3. Follows(q, photo[q.of], object'[q.of])
    BY <1>2, <2>2 DEF Follows, Recorded
  <2>4. faults' \in 0..MaxFaults
    BY <2>1, FaultTypes
  <2> QED BY <1>2, <1>3, <1>4, <2>2, <2>3, <2>4, GoesOn
<1> QED BY <1>1, <1>5, <1>6

\* Going on to a step for which nothing more is asked.
LEMMA MovesInv ==
  ASSUME PhotoInv, NEW d \in Preparers, request[d].pc # "idle", NEW pc \in Steps,
         request' = [request EXCEPT ![d].pc = pc],
         UNCHANGED <<fieldVisit, underway, photo, live, mutation, object>>, Fault \/ UNCHANGED faults,
         pc \notin {"report", "complete"},
         pc = "record" => ~request[d].recorded, pc \in Recorded => request[d].recorded
  PROVE  PhotoInv'
<1>1. /\ request[d].of \in Photos
      /\ Follows(request[d], photo[request[d].of], object[request[d].of])
  BY RequestFacts
<1>2. PICK q \in Request :
        /\ request' = [request EXCEPT ![d] = q] /\ q.pc = pc /\ q.of = request[d].of
        /\ q.revision = request[d].revision /\ q.recorded = request[d].recorded /\ q # Idle
  BY MovedTo
<1>3. Follows(q, photo[q.of], object'[q.of])
  BY <1>1, <1>2 DEF Follows
<1>4. faults' \in 0..MaxFaults
  BY FaultTypes
<1>5. /\ object' \in [Photos -> SUBSET Objects]
      /\ \A k \in Photos : object[k] \ {"original"} \subseteq object'[k]
  BY Unstored
<1> QED BY <1>1, <1>2, <1>3, <1>4, <1>5, GoesOn

LEMMA ReadOriginalInv ==
  ASSUME PhotoInv, NEW d \in Preparers, ReadOriginal(d)
  PROVE  PhotoInv'
<1> DEFINE pc == IF "original" \notin object[request[d].of] THEN "fail"
                 ELSE IF request[d].recorded THEN "claim" ELSE "record"
<1>1. request[d].pc # "idle" /\ request' = [request EXCEPT ![d].pc = pc]
      /\ UNCHANGED <<fieldVisit, underway, photo, live, mutation, object, faults>>
  BY DEF ReadOriginal
<1>2. pc \in Steps /\ pc \notin {"report", "complete"}
  BY DEF Steps
<1>3. (pc = "record" => ~request[d].recorded) /\ (pc \in Recorded => request[d].recorded)
  BY DEF Recorded
<1> HIDE DEF pc
<1> QED BY <1>1, <1>2, <1>3, MovesInv

LEMMA StepFailsInv ==
  ASSUME PhotoInv, NEW d \in Preparers, StepFails(d)
  PROVE  PhotoInv'
<1>1. request[d].pc # "idle" /\ request' = [request EXCEPT ![d].pc = "fail"] /\ Fault
      /\ UNCHANGED <<fieldVisit, underway, photo, live, mutation, object>>
  BY DEF StepFails, Steps
<1>2. "fail" \in Steps /\ "fail" \notin Recorded \cup {"record"}
  BY DEF Steps, Recorded
<1> QED BY <1>1, <1>2, MovesInv DEF Recorded

LEMMA CrashInv ==
  ASSUME PhotoInv, NEW d \in Preparers, Crash(d)
  PROVE  PhotoInv'
<1>1. request' = [request EXCEPT ![d] = Idle] /\ Fault /\ request[d] # Idle
      /\ UNCHANGED <<fieldVisit, underway, photo, live, mutation, object>>
  BY DEF Crash
<1>2. request[d].of \in Photos
  BY <1>1 DEF PhotoInv, PhotoTypes, Request
<1>3. faults' \in 0..MaxFaults
  BY <1>1, FaultTypes
<1>4. /\ object' \in [Photos -> SUBSET Objects]
      /\ \A k \in Photos : object[k] \ {"original"} \subseteq object'[k]
  BY <1>1, Unstored
<1> QED BY <1>1, <1>2, <1>3, <1>4, GoesOn

LEMMA StoreDerivativeInv ==
  ASSUME PhotoInv, NEW d \in Preparers, StoreDerivative(d)
  PROVE  PhotoInv'
<1> DEFINE pc == AfterDerivative(request[d].pc)
           p == request[d].of
<1>1. request[d].pc \in {"thumbnail", "report"} /\ request[d].pc # "idle"
      /\ request' = [request EXCEPT ![d].pc = pc]
      /\ object' = [object EXCEPT ![p] = @ \cup {request[d].pc}]
      /\ UNCHANGED <<fieldVisit, underway, photo, live, mutation, faults>>
  BY DEF StoreDerivative
<1>2. /\ p \in Photos /\ Follows(request[d], photo[p], object[p])
  BY <1>1, RequestFacts
<1>3. /\ object' \in [Photos -> SUBSET Objects] /\ object'[p] = object[p] \cup {request[d].pc}
      /\ \A k \in Photos : object[k] \ {"original"} \subseteq object'[k]
  <2>1. request[d].pc \in Objects
    BY <1>1 DEF Objects
  <2> QED BY <1>1, <1>2, <2>1, Stored
<1>4. /\ request[d].pc = "thumbnail" => pc = "report"
      /\ request[d].pc = "report" => pc = "complete"
  BY DEF AfterDerivative
<1>5. pc \in Steps
  BY <1>1, <1>4 DEF Steps
<1> HIDE DEF pc, p
<1>6. PICK q \in Request :
        /\ request' = [request EXCEPT ![d] = q] /\ q.pc = pc /\ q.of = request[d].of
        /\ q.revision = request[d].revision /\ q.recorded = request[d].recorded /\ q # Idle
  BY <1>1, <1>5, MovedTo
<1>7. q.of = p
  BY <1>6 DEF p
<1>8. Follows(q, photo[p], object'[p])
  BY <1>1, <1>2, <1>3, <1>4, <1>6 DEF Follows, Recorded
<1>9. faults' \in 0..MaxFaults
  BY <1>1, FaultTypes
<1> QED BY <1>1, <1>2, <1>3, <1>6, <1>7, <1>8, <1>9, GoesOn

LEMMA Begun ==
  ASSUME NEW d \in Preparers, NEW p \in Photos, NEW k \in Keys, NEW row \in PhotoRow,
         NEW pc \in {"store", "restore", "read"}, Begin(d, p, k, row, pc), row.state # "absent",
         NEW stored
  PROVE  \E q \in Request : /\ request' = [request EXCEPT ![d] = q] /\ q # Idle /\ q.of = p
                            /\ Follows(q, row, stored)
<1>1. PICK q : q = [pc |-> pc, of |-> p, key |-> k, revision |-> row.revision,
                    recorded |-> row.recorded, token |-> 0]
  OBVIOUS
<1>2. row.revision \in Nat /\ row.recorded \in BOOLEAN
  BY DEF PhotoRow
<1>3. q \in Request
  BY <1>1, <1>2 DEF Request, Steps
<1>4. /\ q.pc \in {"store", "restore", "read"} /\ q.revision = row.revision
      /\ q.recorded = row.recorded /\ q.of = p
  BY <1>1
<1>5. Follows(q, row, stored)
  BY <1>2, <1>4 DEF Follows, Recorded
<1>6. request' = [request EXCEPT ![d] = q]
  BY <1>1 DEF Begin
<1>7. q # Idle
  BY <1>4 DEF Idle
<1> QED BY <1>3, <1>4, <1>5, <1>6, <1>7

LEMMA RetryPhotoInv ==
  ASSUME PhotoInv, NEW d \in Preparers, NEW p \in Photos, NEW k \in RetryKeys, RetryPhoto(d, p, k)
  PROVE  PhotoInv'
<1>1. /\ Begin(d, p, k, photo[p], "read") /\ photo[p].state # "absent" /\ k \in Keys
      /\ UNCHANGED <<fieldVisit, underway, photo, live, mutation, object, faults>>
  BY DEF RetryPhoto, Pending, Keys
<1>2. photo[p] \in PhotoRow
  BY PhotoRowFacts
<1>3. PICK q \in Request : /\ request' = [request EXCEPT ![d] = q] /\ q # Idle /\ q.of = p
                           /\ Follows(q, photo[p], object[p])
  BY <1>1, <1>2, Begun
<1>4. faults' \in 0..MaxFaults
  BY <1>1, FaultTypes
<1>5. /\ object' \in [Photos -> SUBSET Objects]
      /\ \A j \in Photos : object[j] \ {"original"} \subseteq object'[j]
  BY <1>1, Unstored
<1>6. Follows(q, photo[q.of], object'[q.of])
  BY <1>1, <1>3
<1> QED BY <1>1, <1>3, <1>4, <1>5, <1>6, GoesOn

LEMMA UploadInv ==
  ASSUME PhotoInv, NEW d \in Preparers, NEW p \in Photos, Upload(d, p)
  PROVE  PhotoInv'
<1>1. /\ FieldOpen /\ UNCHANGED <<fieldVisit, underway, live, mutation, object, faults>>
      /\ Begin(d, p, p, photo'[p], IF photo'[p].state = "ready" THEN "restore" ELSE "store")
  BY DEF Upload
<1>2. /\ photo \in [Photos -> PhotoRow] /\ photo[p] \in PhotoRow /\ RowSound(photo[p])
      /\ photo[p].revision \in Nat /\ photo[p].recorded \in BOOLEAN
      /\ live[p] => photo[p].state = "processing"
  BY PhotoRowFacts
<1>3. PICK row \in PhotoRow :
        /\ photo' = [photo EXCEPT ![p] = row] /\ row.state # "absent" /\ RowSound(row)
        /\ \/ row = photo[p]
           \/ /\ row.state = "reserved" /\ photo[p].state = "absent" /\ row.revision = 1
              /\ row.recorded = FALSE
  <2>1. CASE photo[p].state # "absent"
    <3>1. photo' = [photo EXCEPT ![p] = photo[p]]
      BY <1>2, <2>1 DEF Upload
    <3> QED BY <1>2, <2>1, <3>1
  <2>2. CASE photo[p].state = "absent"
    <3>1. PICK row : row = [NoPhoto EXCEPT !.state = "reserved", !.revision = 1]
      OBVIOUS
    <3>2. /\ row.state = "reserved" /\ row.revision = 1 /\ row.recorded = FALSE /\ row.token = 0
          /\ row \in PhotoRow
      BY <3>1 DEF NoPhoto, PhotoRow, PhotoStates, Pending
    <3>3. RowSound(row)
      BY <3>2 DEF RowSound
    <3>4. photo' = [photo EXCEPT ![p] = row]
      BY <2>2, <3>1 DEF Upload
    <3> QED BY <2>2, <3>2, <3>3, <3>4
  <2> QED BY <2>1, <2>2
<1>4. photo'[p] = row
  BY <1>2, <1>3
<1>5. PICK q \in Request : /\ request' = [request EXCEPT ![d] = q] /\ q # Idle /\ q.of = p
                           /\ Follows(q, row, object[p])
  BY <1>1, <1>3, <1>4, Begun DEF Keys
<1>6. Follows(q, photo'[q.of], object'[q.of])
  BY <1>1, <1>4, <1>5
<1>7. \/ row = photo[p]
      \/ /\ FieldOpen /\ row.state # "absent" /\ photo[p].revision < row.revision
         /\ photo[p].recorded => row.recorded
  <2>1. photo[p].state = "absent" => photo[p].revision = 0 /\ ~photo[p].recorded
    BY <1>2 DEF RowSound
  <2> QED BY <1>1, <1>3, <2>1
<1>8. row.state = "ready" => {"thumbnail", "report"} \subseteq object[p]
  BY <1>3 DEF PhotoInv, ReadyIsStored
<1>9. live' \in [Photos -> BOOLEAN]
  BY <1>1 DEF PhotoInv, PhotoTypes
<1>10. ASSUME NEW k \in Photos, live'[k] PROVE photo'[k].state = "processing"
  <2>1. photo[k].state = "processing"
    BY <1>1, <1>10, PhotoRowFacts
  <2>2. CASE k = p
    BY <1>3, <1>4, <2>1, <2>2
  <2>3. CASE k # p
    BY <1>2, <1>3, <2>1, <2>3
  <2> QED BY <2>2, <2>3
<1>11. /\ object' \in [Photos -> SUBSET Objects] /\ faults' \in 0..MaxFaults
       /\ \A k \in Photos : object[k] \ {"original"} \subseteq object'[k]
  BY <1>1, FaultTypes, Unstored
<1>12. \A m \in mutation' \ mutation : m.kind = "original" => m.of = p /\ row.recorded
  BY <1>1
<1> QED BY <1>1, <1>3, <1>5, <1>6, <1>7, <1>8, <1>9, <1>10, <1>11, <1>12, PhotoStep

\* A request whose answer was lost holds what it held, of a row that went on.
LEMMA LostAnswer ==
  ASSUME PhotoInv, NEW d \in Preparers, request[d].pc # "idle",
         request' = [request EXCEPT ![d].pc = "fail"],
         NEW row \in PhotoRow, row.state # "absent", NEW stored,
         \/ row = photo[request[d].of]
         \/ photo[request[d].of].revision < row.revision
  PROVE  \E q \in Request : /\ request' = [request EXCEPT ![d] = q] /\ q # Idle
                            /\ q.of = request[d].of /\ Follows(q, row, stored)
<1>1. /\ request[d].of \in Photos /\ request[d].revision \in Nat
      /\ Follows(request[d], photo[request[d].of], object[request[d].of])
  BY RequestFacts
<1>2. photo[request[d].of].revision \in Nat /\ row.revision \in Nat
  BY <1>1, PhotoRowFacts DEF PhotoRow
<1>3. "fail" \in Steps
  BY DEF Steps
<1>4. "fail" \notin Recorded \cup {"record", "report", "complete"}
  BY DEF Recorded
<1>5. \E q \in Request :
        /\ request' = [request EXCEPT ![d] = q] /\ q.pc = "fail" /\ q.of = request[d].of
        /\ q.revision = request[d].revision /\ q.recorded = request[d].recorded /\ q # Idle
  <2>1. PICK pc \in Steps : pc = "fail"
    BY <1>3
  <2>2. request' = [request EXCEPT ![d].pc = pc]
    BY <2>1
  <2>3. \E q \in Request :
          /\ request' = [request EXCEPT ![d] = q] /\ q.pc = pc /\ q.of = request[d].of
          /\ q.revision = request[d].revision /\ q.recorded = request[d].recorded /\ q # Idle
    BY <2>2, MovedTo
  <2> QED BY <2>1, <2>3
<1>6. PICK q \in Request :
        /\ request' = [request EXCEPT ![d] = q] /\ q.pc = "fail" /\ q.of = request[d].of
        /\ q.revision = request[d].revision /\ q.recorded = request[d].recorded /\ q # Idle
  BY <1>5
<1>7. Follows(q, row, stored)
  BY <1>1, <1>2, <1>4, <1>6 DEF Follows
<1> QED BY <1>6, <1>7

LEMMA Continued ==
  ASSUME PhotoInv, NEW d \in Preparers, request[d].pc # "idle",
         NEW row \in PhotoRow, row.state # "absent", row.recorded, NEW stored,
         Continue(d, row, "claim"),
         \/ row = photo[request[d].of]
         \/ photo[request[d].of].revision < row.revision
  PROVE  /\ \E q \in Request : /\ request' = [request EXCEPT ![d] = q] /\ q # Idle
                               /\ q.of = request[d].of /\ Follows(q, row, stored)
         /\ faults' \in 0..MaxFaults
<1>1. /\ request[d] \in Request /\ request \in [Preparers -> {Idle} \cup Request]
  BY RequestFacts DEF PhotoInv, PhotoTypes
<1>2. Fault \/ UNCHANGED faults
  BY DEF Continue
<1>3. faults' \in 0..MaxFaults
  BY <1>2, FaultTypes
<1>4. CASE request' = [request EXCEPT ![d].pc = "fail"]
  BY <1>3, <1>4, LostAnswer
<1>5. CASE request' = [request EXCEPT ![d] =
             [@ EXCEPT !.pc = "claim", !.revision = row.revision, !.recorded = row.recorded]]
  <2>1. PICK q : q = [request[d] EXCEPT !.pc = "claim", !.revision = row.revision,
                                        !.recorded = row.recorded]
    OBVIOUS
  <2>2. row.revision \in Nat /\ row.recorded \in BOOLEAN
    BY DEF PhotoRow
  <2>3. /\ q.pc = "claim" /\ q.revision = row.revision /\ q.recorded = row.recorded
        /\ q.of = request[d].of /\ q \in Request
    BY <1>1, <2>1, <2>2 DEF Request, Steps
  <2>4. request' = [request EXCEPT ![d] = q]
    BY <1>1, <1>5, <2>1
  <2>5. q # Idle
    BY <2>3 DEF Idle
  <2>6. Follows(q, row, stored)
    BY <2>2, <2>3 DEF Follows, Recorded
  <2> QED BY <1>3, <2>3, <2>4, <2>5, <2>6
<1> QED BY <1>4, <1>5 DEF Continue

LEMMA LiveStays ==
  ASSUME PhotoInv, NEW p \in Photos, NEW row \in PhotoRow, photo' = [photo EXCEPT ![p] = row],
         \/ live' = live /\ (row.state = "processing" \/ photo[p].state # "processing")
         \/ live' = [live EXCEPT ![p] = FALSE]
         \/ live' = [live EXCEPT ![p] = TRUE] /\ row.state = "processing"
  PROVE  live' \in [Photos -> BOOLEAN] /\ \A k \in Photos : live'[k] => photo'[k].state = "processing"
<1>1. /\ live \in [Photos -> BOOLEAN] /\ photo \in [Photos -> PhotoRow]
      /\ \A k \in Photos : live[k] => photo[k].state = "processing"
  BY DEF PhotoInv, PhotoTypes, PhotoFacts, PhotoRow
<1>2. photo'[p] = row /\ \A k \in Photos \ {p} : photo'[k] = photo[k]
  BY <1>1
<1>3. live' \in [Photos -> BOOLEAN] /\ \A k \in Photos \ {p} : live'[k] = live[k]
  BY <1>1
<1>4. live'[p] => row.state = "processing"
  BY <1>1
<1> QED BY <1>1, <1>2, <1>3, <1>4

LEMMA RowWritten ==
  ASSUME PhotoInv, NEW p \in Photos, NEW d \in Preparers, NEW row \in PhotoRow,
         NEW q \in {Idle} \cup Request,
         photo' = [photo EXCEPT ![p] = row], request' = [request EXCEPT ![d] = q],
         \/ row = photo[p]
         \/ /\ FieldOpen /\ row.state # "absent" /\ photo[p].revision < row.revision
            /\ photo[p].recorded => row.recorded,
         RowSound(row), row.state = "ready" => {"thumbnail", "report"} \subseteq object[p],
         \/ live' = live /\ (row.state = "processing" \/ photo[p].state # "processing")
         \/ live' = [live EXCEPT ![p] = FALSE]
         \/ live' = [live EXCEPT ![p] = TRUE] /\ row.state = "processing",
         UNCHANGED <<object, fieldVisit, underway>>, faults' \in 0..MaxFaults,
         \A m \in mutation' \ mutation : m.kind = "original" => m.of = p /\ row.recorded,
         q # Idle => q.of = p /\ Follows(q, row, object[p])
  PROVE  PhotoInv'
<1>1. live' \in [Photos -> BOOLEAN] /\ \A k \in Photos : live'[k] => photo'[k].state = "processing"
  BY LiveStays
<1>2. /\ object' \in [Photos -> SUBSET Objects]
      /\ \A k \in Photos : object[k] \ {"original"} \subseteq object'[k]
  BY Unstored
<1>3. photo'[p] = row
  BY PhotoRowFacts
<1>4. q # Idle => Follows(q, photo'[q.of], object'[q.of])
  BY <1>3
<1> QED BY <1>1, <1>2, <1>4, PhotoStep

LEMMA RecordPhotoOriginalInv ==
  ASSUME PhotoInv, NEW d \in Preparers, RecordPhotoOriginal(d)
  PROVE  PhotoInv'
<1> DEFINE p == request[d].of
           was == photo[p]
           m == Mutation("original", d)
<1>1. /\ request[d].pc = "record" /\ request[d].pc # "idle"
      /\ UNCHANGED <<fieldVisit, underway, live, object>>
  BY DEF RecordPhotoOriginal
<1>2. p \in Photos /\ Follows(request[d], was, object[p])
  BY <1>1, RequestFacts
<1>3. /\ photo \in [Photos -> PhotoRow] /\ was \in PhotoRow /\ RowSound(was)
      /\ was.state \in PhotoStates /\ was.revision \in Nat /\ was.recorded \in BOOLEAN
      /\ was.token \in Nat /\ was.attempts \in Nat
  BY <1>2, PhotoRowFacts
<1>4. m.kind = "original" /\ m.of = p
  BY DEF Mutation
<1>5. was.state # "absent"
  BY <1>2 DEF Follows
<1>6. was.state = "ready" => {"thumbnail", "report"} \subseteq object[p]
  BY <1>2 DEF PhotoInv, ReadyIsStored
<1>7. \/ /\ FieldOpen /\ m \notin mutation /\ was.revision = request[d].revision
         /\ ~was.recorded /\ was.state \in {"reserved", "failed"}
         /\ photo' = [photo EXCEPT ![p] = [was EXCEPT !.state = "original_ready",
                                                      !.recorded = TRUE, !.revision = @ + 1]]
         /\ mutation' = mutation \cup {m}
         /\ Continue(d, [was EXCEPT !.state = "original_ready", !.recorded = TRUE,
                                    !.revision = @ + 1], "claim")
      \/ m \in mutation /\ Continue(d, was, "claim") /\ UNCHANGED <<photo, mutation>>
      \/ End(d) /\ UNCHANGED <<photo, mutation>>
  BY DEF RecordPhotoOriginal
<1> HIDE DEF p, was, m
<1>8. CASE /\ FieldOpen /\ m \notin mutation /\ was.revision = request[d].revision
           /\ ~was.recorded /\ was.state \in {"reserved", "failed"}
           /\ photo' = [photo EXCEPT ![p] = [was EXCEPT !.state = "original_ready",
                                                        !.recorded = TRUE, !.revision = @ + 1]]
           /\ mutation' = mutation \cup {m}
           /\ Continue(d, [was EXCEPT !.state = "original_ready", !.recorded = TRUE,
                                      !.revision = @ + 1], "claim")
  <2>1. PICK row : row = [was EXCEPT !.state = "original_ready", !.recorded = TRUE,
                                     !.revision = @ + 1]
    OBVIOUS
  <2>2. /\ row.state = "original_ready" /\ row.recorded = TRUE /\ row.revision = was.revision + 1
        /\ row.token = was.token /\ row \in PhotoRow
    <3>1. "original_ready" \in PhotoStates /\ was.revision + 1 \in Nat
      BY <1>3 DEF PhotoStates, Pending
    <3> QED BY <1>3, <2>1, <3>1 DEF PhotoRow
  <2>3. RowSound(row)
    BY <1>3, <1>8, <2>2 DEF RowSound
  <2>4. photo' = [photo EXCEPT ![p] = row] /\ Continue(d, row, "claim")
    BY <1>8, <2>1
  <2>5. row.state # "absent" /\ row.recorded /\ was.revision < row.revision /\ row.state # "ready"
    BY <1>3, <2>2
  <2>6. photo[request[d].of].revision < row.revision
    BY <2>5 DEF was, p
  <2>7. /\ \E q \in Request : /\ request' = [request EXCEPT ![d] = q] /\ q # Idle
                              /\ q.of = request[d].of /\ Follows(q, row, object[p])
        /\ faults' \in 0..MaxFaults
    BY <1>1, <2>2, <2>4, <2>5, <2>6, Continued
  <2>8. PICK q \in Request : /\ request' = [request EXCEPT ![d] = q]
                             /\ q.of = p /\ Follows(q, row, object[p])
    BY <2>7 DEF p
  <2>9. /\ FieldOpen /\ row.state # "absent" /\ photo[p].revision < row.revision
        /\ photo[p].recorded => row.recorded
    BY <1>8, <2>5 DEF was
  <2>11. live' = live /\ photo[p].state # "processing"
    BY <1>1, <1>8 DEF was
  <2>10. \A n \in mutation' \ mutation : n.kind = "original" => n.of = p /\ row.recorded
    BY <1>4, <1>8, <2>5
  <2> QED BY <1>1, <1>2, <1>8, <2>2, <2>3, <2>4, <2>5, <2>7, <2>8, <2>9, <2>10, <2>11, RowWritten
<1>9. ASSUME NEW q \in {Idle} \cup Request, request' = [request EXCEPT ![d] = q],
             q # Idle => q.of = p /\ Follows(q, was, object[p]),
             UNCHANGED <<photo, mutation>>, faults' \in 0..MaxFaults
      PROVE  PhotoInv'
  <2>1. q # Idle => Follows(q, photo[q.of], object'[q.of])
    BY <1>1, <1>9 DEF was
  <2>2. /\ object' \in [Photos -> SUBSET Objects]
        /\ \A k \in Photos : object[k] \ {"original"} \subseteq object'[k]
    BY <1>1, Unstored
  <2> QED BY <1>1, <1>2, <1>9, <2>1, <2>2, GoesOn
<1>10. CASE End(d) /\ UNCHANGED <<photo, mutation>>
  <2>1. request' = [request EXCEPT ![d] = Idle] /\ faults' \in 0..MaxFaults
    BY <1>10, FaultTypes DEF End
  <2> QED BY <1>9, <1>10, <2>1
<1>11. CASE m \in mutation /\ Continue(d, was, "claim") /\ UNCHANGED <<photo, mutation>>
  <2>1. was.recorded
    BY <1>4, <1>11 DEF PhotoInv, PhotoFacts, was
  <2>2. was = photo[request[d].of]
    BY DEF was, p
  <2>3. /\ \E q \in Request : /\ request' = [request EXCEPT ![d] = q] /\ q # Idle
                              /\ q.of = request[d].of /\ Follows(q, was, object[p])
        /\ faults' \in 0..MaxFaults
    BY <1>1, <1>3, <1>5, <1>11, <2>1, <2>2, Continued
  <2>4. PICK q \in Request : /\ request' = [request EXCEPT ![d] = q]
                             /\ q.of = p /\ Follows(q, was, object[p])
    BY <2>3 DEF p
  <2> QED BY <1>9, <1>11, <2>3, <2>4
<1> QED BY <1>7, <1>8, <1>10, <1>11

LEMMA BeginPhotoProcessingInv ==
  ASSUME PhotoInv, NEW d \in Preparers, BeginPhotoProcessing(d)
  PROVE  PhotoInv'
<1> DEFINE p == request[d].of
           was == photo[p]
           claimed == [was EXCEPT !.state = "processing", !.revision = @ + 1,
                                  !.token = was.attempts + 1, !.attempts = @ + 1]
           n == [Mutation("processing", d) EXCEPT !.token = claimed.token]
           Hold(held) == \/ /\ request' = [request EXCEPT ![d] =
                                 [@ EXCEPT !.pc = "thumbnail", !.revision = held.revision,
                                           !.token = held.token]]
                            /\ UNCHANGED faults
                         \/ request' = [request EXCEPT ![d].pc = "fail"] /\ Fault
<1>1. /\ request[d].pc = "claim" /\ request[d].pc # "idle"
      /\ UNCHANGED <<fieldVisit, underway, object>>
  BY DEF BeginPhotoProcessing
<1>2. p \in Photos /\ Follows(request[d], was, object[p])
  BY <1>1, RequestFacts
<1>3. /\ photo \in [Photos -> PhotoRow] /\ was \in PhotoRow /\ RowSound(was)
      /\ was.state \in PhotoStates /\ was.revision \in Nat /\ was.recorded \in BOOLEAN
      /\ was.token \in Nat /\ was.attempts \in Nat
      /\ live[p] => was.state = "processing"
  BY <1>2, PhotoRowFacts
<1>4. was.state # "absent" /\ request[d].recorded
  BY <1>1, <1>2 DEF Follows, Recorded
<1>5. n.kind = "processing"
  BY DEF Mutation
<1>6. \/ /\ FieldOpen /\ was.recorded /\ was.state # "ready"
         /\ photo' = [photo EXCEPT ![p] = claimed]
         /\ live' = [live EXCEPT ![p] = TRUE]
         /\ mutation' = mutation \cup {n}
         /\ Hold(claimed)
      \/ live[p] /\ Hold(was) /\ UNCHANGED <<photo, live, mutation>>
      \/ End(d) /\ UNCHANGED <<photo, live, mutation>>
  BY DEF BeginPhotoProcessing, Claimable
<1>7. ASSUME NEW row \in PhotoRow, row.state # "absent", row.recorded, Hold(row),
             row = was \/ was.revision < row.revision
      PROVE  /\ \E q \in Request : /\ request' = [request EXCEPT ![d] = q] /\ q # Idle
                                   /\ q.of = p /\ Follows(q, row, object[p])
             /\ faults' \in 0..MaxFaults
  <2>1. request[d] \in Request /\ request \in [Preparers -> {Idle} \cup Request]
    BY <1>1, RequestFacts DEF PhotoInv, PhotoTypes
  <2>2. Fault \/ UNCHANGED faults
    BY <1>7
  <2>3. faults' \in 0..MaxFaults
    BY <2>2, FaultTypes
  <2>4. CASE request' = [request EXCEPT ![d].pc = "fail"]
    BY <1>1, <1>7, <2>3, <2>4, LostAnswer
  <2>5. CASE request' = [request EXCEPT ![d] =
               [@ EXCEPT !.pc = "thumbnail", !.revision = row.revision, !.token = row.token]]
    <3>1. PICK q : q = [request[d] EXCEPT !.pc = "thumbnail", !.revision = row.revision,
                                          !.token = row.token]
      OBVIOUS
    <3>2. row.revision \in Nat /\ row.token \in Nat
      BY DEF PhotoRow
    <3>3. /\ q.pc = "thumbnail" /\ q.revision = row.revision
          /\ q.recorded = request[d].recorded /\ q.of = request[d].of /\ q \in Request
      BY <2>1, <3>1, <3>2 DEF Request, Steps
    <3>4. request' = [request EXCEPT ![d] = q]
      BY <2>1, <2>5, <3>1
    <3>5. q # Idle
      BY <3>3 DEF Idle
    <3>6. request[d].recorded \in BOOLEAN /\ row.recorded \in BOOLEAN
      BY <1>1, RequestFacts DEF PhotoRow
    <3>7. Follows(q, row, object[p])
      BY <1>4, <1>7, <3>2, <3>3, <3>6 DEF Follows, Recorded
    <3> QED BY <2>3, <3>3, <3>4, <3>5, <3>7
  <2> QED BY <1>7, <2>4, <2>5
<1> HIDE DEF Hold, p, was, claimed, n
<1>8. CASE /\ FieldOpen /\ was.recorded /\ was.state # "ready"
           /\ photo' = [photo EXCEPT ![p] = claimed]
           /\ live' = [live EXCEPT ![p] = TRUE]
           /\ mutation' = mutation \cup {n}
           /\ Hold(claimed)
  <2>1. PICK row : row = claimed
    OBVIOUS
  <2>2. /\ row.state = "processing" /\ row.recorded = was.recorded
        /\ row.revision = was.revision + 1 /\ row.token = was.attempts + 1 /\ row \in PhotoRow
    <3>1. "processing" \in PhotoStates /\ was.revision + 1 \in Nat /\ was.attempts + 1 \in Nat
      BY <1>3 DEF PhotoStates, Pending
    <3> QED BY <1>3, <2>1, <3>1 DEF PhotoRow, claimed
  <2>3. RowSound(row)
    BY <1>3, <1>8, <2>2 DEF RowSound
  <2>4. photo' = [photo EXCEPT ![p] = row] /\ Hold(row)
    BY <1>8, <2>1
  <2>5. row.state # "absent" /\ row.recorded /\ was.revision < row.revision /\ row.state # "ready"
    BY <1>3, <1>8, <2>2
  <2>6. /\ \E q \in Request : /\ request' = [request EXCEPT ![d] = q] /\ q # Idle
                              /\ q.of = p /\ Follows(q, row, object[p])
        /\ faults' \in 0..MaxFaults
    BY <1>7, <2>2, <2>4, <2>5
  <2>7. PICK q \in Request : /\ request' = [request EXCEPT ![d] = q]
                             /\ q.of = p /\ Follows(q, row, object[p])
    BY <2>6
  <2>8. /\ FieldOpen /\ row.state # "absent" /\ photo[p].revision < row.revision
        /\ photo[p].recorded => row.recorded
    BY <1>8, <2>5 DEF was
  <2>9. \A m \in mutation' \ mutation : m.kind = "original" => m.of = p /\ row.recorded
    BY <1>5, <1>8
  <2> QED BY <1>1, <1>2, <1>8, <2>2, <2>3, <2>4, <2>5, <2>6, <2>7, <2>8, <2>9, RowWritten
<1>9. ASSUME NEW q \in {Idle} \cup Request, request' = [request EXCEPT ![d] = q],
             q # Idle => q.of = p /\ Follows(q, was, object[p]),
             UNCHANGED <<photo, live, mutation>>, faults' \in 0..MaxFaults
      PROVE  PhotoInv'
  <2>1. q # Idle => Follows(q, photo[q.of], object'[q.of])
    BY <1>1, <1>9 DEF was
  <2>2. /\ object' \in [Photos -> SUBSET Objects]
        /\ \A k \in Photos : object[k] \ {"original"} \subseteq object'[k]
    BY <1>1, Unstored
  <2> QED BY <1>1, <1>2, <1>9, <2>1, <2>2, GoesOn
<1>10. CASE live[p] /\ Hold(was) /\ UNCHANGED <<photo, live, mutation>>
  <2>1. was.recorded
    BY <1>3, <1>10 DEF RowSound
  <2>2. /\ \E q \in Request : /\ request' = [request EXCEPT ![d] = q] /\ q # Idle
                              /\ q.of = p /\ Follows(q, was, object[p])
        /\ faults' \in 0..MaxFaults
    BY <1>3, <1>4, <1>7, <1>10, <2>1
  <2>3. PICK q \in Request : /\ request' = [request EXCEPT ![d] = q]
                             /\ q.of = p /\ Follows(q, was, object[p])
    BY <2>2
  <2> QED BY <1>9, <1>10, <2>2, <2>3
<1>11. CASE End(d) /\ UNCHANGED <<photo, live, mutation>>
  <2>1. request' = [request EXCEPT ![d] = Idle] /\ faults' \in 0..MaxFaults
    BY <1>11, FaultTypes DEF End
  <2> QED BY <1>9, <1>11, <2>1
<1> QED BY <1>6, <1>8, <1>10, <1>11

LEMMA CompletePhotoInv ==
  ASSUME PhotoInv, NEW d \in Preparers, CompletePhoto(d)
  PROVE  PhotoInv'
<1> DEFINE p == request[d].of
           was == photo[p]
           m == [Mutation("complete", d) EXCEPT !.key = p, !.revision = 0]
<1>1. request[d].pc = "complete" /\ request[d].pc # "idle" /\ UNCHANGED <<fieldVisit, underway, object>>
  BY DEF CompletePhoto
<1>2. p \in Photos /\ Follows(request[d], was, object[p])
  BY <1>1, RequestFacts
<1>3. /\ was \in PhotoRow /\ RowSound(was) /\ was.state \in PhotoStates /\ was.revision \in Nat
      /\ was.recorded \in BOOLEAN /\ was.token \in Nat /\ was.attempts \in Nat
      /\ photo \in [Photos -> PhotoRow]
  BY <1>2, PhotoRowFacts
<1>4. m.kind = "complete"
  BY DEF Mutation
<1>5. {"thumbnail", "report"} \subseteq object[p]
  BY <1>1, <1>2 DEF Follows
<1>6. \/ /\ FieldOpen /\ was.state = "processing"
         /\ photo' = [photo EXCEPT ![p] =
              [was EXCEPT !.state = "ready", !.revision = @ + 1, !.token = 0]]
         /\ live' = [live EXCEPT ![p] = FALSE]
         /\ mutation' = mutation \cup {m}
         /\ End(d) \/ (request' = [request EXCEPT ![d].pc = "fail"] /\ Fault)
      \/ End(d) /\ UNCHANGED <<photo, live, mutation>>
  BY DEF CompletePhoto
<1> HIDE DEF p, was, m
<1>7. CASE End(d) /\ UNCHANGED <<photo, live, mutation>>
  <2>1. request' = [request EXCEPT ![d] = Idle] /\ faults' \in 0..MaxFaults
    BY <1>7, FaultTypes DEF End
  <2>2. /\ object' \in [Photos -> SUBSET Objects]
        /\ \A k \in Photos : object[k] \ {"original"} \subseteq object'[k]
    BY <1>1, Unstored
  <2> QED BY <1>1, <1>2, <1>7, <2>1, <2>2, GoesOn
<1>8. CASE /\ FieldOpen /\ was.state = "processing"
           /\ photo' = [photo EXCEPT ![p] =
                [was EXCEPT !.state = "ready", !.revision = @ + 1, !.token = 0]]
           /\ live' = [live EXCEPT ![p] = FALSE]
           /\ mutation' = mutation \cup {m}
           /\ End(d) \/ (request' = [request EXCEPT ![d].pc = "fail"] /\ Fault)
  <2>1. PICK row : row = [was EXCEPT !.state = "ready", !.revision = @ + 1, !.token = 0]
    OBVIOUS
  <2>2. /\ row.state = "ready" /\ row.recorded = was.recorded /\ row.token = 0
        /\ row.revision = was.revision + 1 /\ row \in PhotoRow
    <3>1. "ready" \in PhotoStates /\ was.revision + 1 \in Nat
      BY <1>3 DEF PhotoStates
    <3> QED BY <1>3, <2>1, <3>1 DEF PhotoRow
  <2>3. was.recorded
    BY <1>3, <1>8 DEF RowSound
  <2>4. RowSound(row)
    BY <2>2, <2>3 DEF RowSound
  <2>5. photo' = [photo EXCEPT ![p] = row]
    BY <1>8, <2>1
  <2>6. /\ FieldOpen /\ row.state # "absent" /\ photo[p].revision < row.revision
        /\ photo[p].recorded => row.recorded
    BY <1>3, <1>8, <2>2 DEF was
  <2>7. \A n \in mutation' \ mutation : n.kind = "original" => n.of = p /\ row.recorded
    BY <1>4, <1>8
  <2>8. faults' \in 0..MaxFaults
    BY <1>8, FaultTypes DEF End
  <2>9. CASE End(d)
    <3>1. request' = [request EXCEPT ![d] = Idle]
      BY <2>9 DEF End
    <3> QED BY <1>1, <1>2, <1>5, <1>8, <2>2, <2>4, <2>5, <2>6, <2>7, <2>8, <3>1, RowWritten
  <2>10. CASE request' = [request EXCEPT ![d].pc = "fail"]
    <3>1. photo[request[d].of].revision < row.revision
      BY <2>6 DEF p
    <3>2. PICK q \in Request : /\ request' = [request EXCEPT ![d] = q]
                               /\ q.of = request[d].of /\ Follows(q, row, object[p])
      BY <1>1, <2>2, <2>6, <2>10, <3>1, LostAnswer
    <3>3. q.of = p
      BY <3>2 DEF p
    <3> QED BY <1>1, <1>2, <1>5, <1>8, <2>2, <2>4, <2>5, <2>6, <2>7, <2>8, <3>2, <3>3, RowWritten
  <2> QED BY <1>8, <2>9, <2>10
<1> QED BY <1>6, <1>7, <1>8

LEMMA FailPhotoInv ==
  ASSUME PhotoInv, NEW d \in Preparers, FailPhoto(d)
  PROVE  PhotoInv'
<1> DEFINE p == request[d].of
           was == photo[p]
           m == Mutation("failed", d)
<1>1. /\ request[d].pc = "fail" /\ request[d].pc # "idle" /\ UNCHANGED <<fieldVisit, underway, object>>
      /\ End(d)
  BY DEF FailPhoto
<1>2. p \in Photos /\ Follows(request[d], was, object[p])
  BY <1>1, RequestFacts
<1>3. /\ was \in PhotoRow /\ RowSound(was) /\ was.state \in PhotoStates /\ was.revision \in Nat
      /\ was.recorded \in BOOLEAN /\ was.token \in Nat /\ was.attempts \in Nat
      /\ photo \in [Photos -> PhotoRow]
  BY <1>2, PhotoRowFacts
<1>4. m.kind = "failed"
  BY DEF Mutation
<1>5. request' = [request EXCEPT ![d] = Idle] /\ faults' \in 0..MaxFaults
  BY <1>1, FaultTypes DEF End
<1>6. \/ /\ FieldOpen
         /\ photo' = [photo EXCEPT ![p] = Failed(was)]
         /\ live' = [live EXCEPT ![p] = FALSE]
         /\ mutation' = mutation \cup {m}
      \/ UNCHANGED <<photo, live, mutation>>
  BY <1>2, <1>3 DEF FailPhoto
<1> HIDE DEF p, was, m
<1>7. CASE UNCHANGED <<photo, live, mutation>>
  <2>1. /\ object' \in [Photos -> SUBSET Objects]
        /\ \A k \in Photos : object[k] \ {"original"} \subseteq object'[k]
    BY <1>1, Unstored
  <2> QED BY <1>1, <1>2, <1>5, <1>7, <2>1, GoesOn
<1>8. CASE /\ FieldOpen
           /\ photo' = [photo EXCEPT ![p] = Failed(was)]
           /\ live' = [live EXCEPT ![p] = FALSE]
           /\ mutation' = mutation \cup {m}
  <2>1. PICK row : row = [was EXCEPT !.state = "failed", !.revision = @ + 1, !.token = 0]
    OBVIOUS
  <2>2. /\ row.state = "failed" /\ row.recorded = was.recorded /\ row.token = 0
        /\ row.revision = was.revision + 1 /\ row \in PhotoRow
    <3>1. "failed" \in PhotoStates /\ was.revision + 1 \in Nat
      BY <1>3 DEF PhotoStates
    <3> QED BY <1>3, <2>1, <3>1 DEF PhotoRow
  <2>3. RowSound(row)
    BY <2>2 DEF RowSound
  <2>4. photo' = [photo EXCEPT ![p] = row]
    BY <1>8, <2>1 DEF Failed
  <2>5. /\ FieldOpen /\ row.state # "absent" /\ photo[p].revision < row.revision
        /\ photo[p].recorded => row.recorded
    BY <1>3, <1>8, <2>2 DEF was
  <2>6. \A n \in mutation' \ mutation : n.kind = "original" => n.of = p /\ row.recorded
    BY <1>4, <1>8
  <2>7. row.state = "ready" => {"thumbnail", "report"} \subseteq object[p]
    BY <2>2
  <2> QED BY <1>1, <1>2, <1>5, <1>8, <2>2, <2>3, <2>4, <2>5, <2>6, <2>7, RowWritten
<1> QED BY <1>6, <1>7, <1>8

LEMMA LeaseExpiresInv ==
  ASSUME PhotoInv, NEW p \in Photos, LeaseExpires(p)
  PROVE  PhotoInv'
<1>1. /\ live' = [live EXCEPT ![p] = FALSE]
      /\ Fault \/ UNCHANGED faults
      /\ UNCHANGED <<fieldVisit, underway, photo, mutation, object, request>>
  BY DEF LeaseExpires
<1>2. faults' \in 0..MaxFaults
  BY <1>1, FaultTypes
<1>3. live' \in [Photos -> BOOLEAN] /\ \A k \in Photos : live'[k] => live[k]
  <2>1. live \in [Photos -> BOOLEAN]
    BY DEF PhotoInv, PhotoTypes
  <2>2. live' \in [Photos -> BOOLEAN]
    BY <1>1, <2>1
  <2>3. ASSUME NEW k \in Photos, live'[k] PROVE live[k]
    <3>1. live'[k] = IF k = p THEN FALSE ELSE live[k]
      BY <1>1, <2>1
    <3>2. k # p
      BY <2>3, <3>1
    <3> QED BY <2>3, <3>1, <3>2
  <2> QED BY <2>2, <2>3
<1>4. PhotoTypes'
  BY <1>1, <1>2, <1>3 DEF PhotoInv, PhotoTypes
<1>5. PhotoFacts'
  BY <1>1, <1>3 DEF PhotoInv, PhotoFacts
<1> QED
  BY <1>1, <1>4, <1>5 DEF PhotoInv, ReadyIsStored, CompletedLeavesNothingPending

LEMMA LoseOriginalInv ==
  ASSUME PhotoInv, NEW p \in Photos, LoseOriginal(p)
  PROVE  PhotoInv'
<1>1. /\ object' = [object EXCEPT ![p] = @ \ {"original"}] /\ Fault
      /\ UNCHANGED <<fieldVisit, underway, photo, live, mutation, request>>
  BY DEF LoseOriginal
<1>2. faults' \in 0..MaxFaults
  BY <1>1, FaultTypes
<1>3. object' \in [Photos -> SUBSET Objects]
      /\ \A k \in Photos, o \in {"thumbnail", "report"} : o \in object[k] => o \in object'[k]
  BY <1>1 DEF PhotoInv, PhotoTypes
<1>4. PhotoTypes'
  BY <1>1, <1>2, <1>3 DEF PhotoInv, PhotoTypes
<1>5. ASSUME NEW d \in Preparers, request[d] # Idle
      PROVE  Follows(request[d], photo[request[d].of], object'[request[d].of])
  <2>1. request[d].of \in Photos
    BY <1>5 DEF PhotoInv, PhotoTypes, Request
  <2>2. Follows(request[d], photo[request[d].of], object[request[d].of])
    BY <1>5 DEF PhotoInv, PhotoFacts
  <2> QED BY <1>3, <2>1, <2>2 DEF Follows
<1>6. PhotoFacts'
  BY <1>1, <1>5 DEF PhotoInv, PhotoFacts
<1>7. ReadyIsStored'
  BY <1>1, <1>3 DEF PhotoInv, ReadyIsStored
<1> QED BY <1>1, <1>4, <1>6, <1>7 DEF PhotoInv, CompletedLeavesNothingPending

LEMMA PhotoNextInv == PhotoInv /\ [PhotoNext]_photoVars => PhotoInv'
<1> SUFFICES ASSUME PhotoInv, [PhotoNext]_photoVars PROVE PhotoInv'
  OBVIOUS
<1>1. ASSUME NEW d \in Preparers, NEW p \in Photos, Upload(d, p) PROVE PhotoInv'
  BY <1>1, UploadInv
<1>2. ASSUME NEW d \in Preparers, NEW p \in Photos, NEW k \in RetryKeys, RetryPhoto(d, p, k)
      PROVE  PhotoInv'
  BY <1>2, RetryPhotoInv
<1>3. ASSUME NEW d \in Preparers, Proceed(d) PROVE PhotoInv'
  BY <1>3, StoreOriginalInv, ReadOriginalInv, RecordPhotoOriginalInv, BeginPhotoProcessingInv,
     StoreDerivativeInv, CompletePhotoInv, FailPhotoInv DEF Proceed
<1>4. ASSUME NEW d \in Preparers, StepFails(d) \/ Crash(d) PROVE PhotoInv'
  BY <1>4, StepFailsInv, CrashInv
<1>5. ASSUME NEW p \in Photos, LeaseExpires(p) \/ LoseOriginal(p) PROVE PhotoInv'
  BY <1>5, LeaseExpiresInv, LoseOriginalInv
<1>6. CASE CompleteVisit
  <2>1. /\ UNCHANGED <<underway, photo, live, mutation, object, request, faults>>
        /\ fieldVisit' = "completed" /\ \A p \in Photos : photo[p].state \notin Pending
    BY <1>6 DEF CompleteVisit, Blocking
  <2>2. PhotoTypes' /\ PhotoFacts' /\ ReadyIsStored' /\ CompletedLeavesNothingPending'
    BY <2>1 DEF PhotoInv, PhotoTypes, PhotoFacts, ReadyIsStored, CompletedLeavesNothingPending
  <2> QED BY <2>2 DEF PhotoInv
<1>7. CASE Reopen \/ CancelVisit
  <2>1. /\ UNCHANGED <<underway, photo, live, mutation, object, request, faults>>
        /\ fieldVisit' \in {"open", "cancelled"}
    BY <1>7 DEF Reopen, CancelVisit
  <2>2. PhotoTypes' /\ PhotoFacts' /\ ReadyIsStored' /\ CompletedLeavesNothingPending'
    BY <2>1 DEF PhotoInv, PhotoTypes, PhotoFacts, ReadyIsStored, CompletedLeavesNothingPending
  <2> QED BY <2>2 DEF PhotoInv
<1>8. CASE ChangeProject
  <2>1. /\ UNCHANGED <<fieldVisit, photo, live, mutation, object, request>>
        /\ underway' \in BOOLEAN /\ (Fault \/ UNCHANGED faults)
    BY <1>8 DEF ChangeProject
  <2>2. faults' \in 0..MaxFaults
    BY <2>1, FaultTypes
  <2>3. PhotoTypes' /\ PhotoFacts' /\ ReadyIsStored' /\ CompletedLeavesNothingPending'
    BY <2>1, <2>2 DEF PhotoInv, PhotoTypes, PhotoFacts, ReadyIsStored, CompletedLeavesNothingPending
  <2> QED BY <2>3 DEF PhotoInv
<1>9. CASE UNCHANGED photoVars
  BY <1>9 DEF photoVars, PhotoInv, PhotoTypes, PhotoFacts, ReadyIsStored,
              CompletedLeavesNothingPending
<1> QED BY <1>1, <1>2, <1>3, <1>4, <1>5, <1>6, <1>7, <1>8, <1>9 DEF PhotoNext, Working

LEMMA PhotoInvariant == PhotoSpec => []PhotoInv
<1>1. PhotoInit => PhotoInv
  BY PhotoInitInv
<1>2. PhotoInv /\ [PhotoNext]_photoVars => PhotoInv'
  BY PhotoNextInv
<1> QED BY <1>1, <1>2, PTL DEF PhotoSpec

\* The columns of a photo agree with one another as the table's CHECKs demand.
THEOREM PhotoColumns == PhotoSpec => []PhotoTypes
<1>1. PhotoInv => PhotoTypes
  BY DEF PhotoInv
<1> QED BY <1>1, PhotoInvariant, PTL

\* Whatever requests, retries, crashes and losses there were, a ready photo can be shown.
THEOREM ReadyPhotos == PhotoSpec => []ReadyIsStored
<1>1. PhotoInv => ReadyIsStored
  BY DEF PhotoInv
<1> QED BY <1>1, PhotoInvariant, PTL

\* A completed visit locks no photo's upload out half-way.
THEOREM CompletedVisits == PhotoSpec => []CompletedLeavesNothingPending
<1>1. PhotoInv => CompletedLeavesNothingPending
  BY DEF PhotoInv
<1> QED BY <1>1, PhotoInvariant, PTL

\* A request that records an original is not told of a conflict when the revision is the one
\* it saw: the checks of recordPhotoOriginal that follow that of the revision never refuse.
THEOREM Recording == PhotoSpec => []RecordsWhatItSaw
<1>1. PhotoInv => RecordsWhatItSaw
  <2> SUFFICES ASSUME PhotoInv, NEW d \in Preparers, request[d].pc = "record",
                      photo[request[d].of].revision = request[d].revision
               PROVE  /\ ~photo[request[d].of].recorded
                      /\ photo[request[d].of].state \in {"reserved", "failed"}
    BY DEF RecordsWhatItSaw
  <2>1. /\ request[d].of \in Photos
        /\ Follows(request[d], photo[request[d].of], object[request[d].of])
    BY RequestFacts
  <2>2. /\ RowSound(photo[request[d].of]) /\ photo[request[d].of].state \in PhotoStates
    BY <2>1, PhotoRowFacts
  <2>3. ~photo[request[d].of].recorded /\ photo[request[d].of].state # "absent"
    BY <2>1 DEF Follows
  <2> QED BY <2>2, <2>3 DEF RowSound, PhotoStates, Pending
<1> QED BY <1>1, PhotoInvariant, PTL

\* Nothing fails, renders or records a photo again that is ready.
THEOREM ReadyStays == PhotoSpec => ReadyForGood
<1>1. PhotoInv /\ [PhotoNext]_photoVars =>
        [\A p \in Photos : photo[p].state = "ready" => photo'[p] = photo[p]]_photoVars
  <2> SUFFICES ASSUME PhotoInv, PhotoNext, NEW p \in Photos, photo[p].state = "ready"
               PROVE  photo'[p] = photo[p]
    OBVIOUS
  <2>1. photo \in [Photos -> PhotoRow]
    BY PhotoRowFacts
  <2>2. ASSUME NEW d \in Preparers, Proceed(d) PROVE photo'[p] = photo[p]
    <3>1. CASE RecordPhotoOriginal(d)
      BY <2>1, <3>1 DEF RecordPhotoOriginal
    <3>2. CASE BeginPhotoProcessing(d)
      BY <2>1, <3>2 DEF BeginPhotoProcessing, Claimable
    <3>3. CASE CompletePhoto(d)
      BY <2>1, <3>3 DEF CompletePhoto
    <3>4. CASE FailPhoto(d)
      BY <2>1, <3>4 DEF FailPhoto, FailureAccepted
    <3> QED BY <2>2, <3>1, <3>2, <3>3, <3>4 DEF Proceed, StoreOriginal, ReadOriginal, StoreDerivative
  <2>3. ASSUME NEW d \in Preparers, NEW k \in Photos, Upload(d, k) PROVE photo'[p] = photo[p]
    BY <2>1, <2>3 DEF Upload
  <2> QED BY <2>2, <2>3 DEF PhotoNext, Working, RetryPhoto, StepFails, Crash, LeaseExpires,
                            LoseOriginal, CompleteVisit, Reopen, CancelVisit, ChangeProject
<1> QED BY <1>1, PhotoInvariant, PTL DEF PhotoSpec, ReadyForGood
=============================================================================
