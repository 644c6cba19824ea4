---------------------------- MODULE MCFieldVisits ---------------------------
(***************************************************************************)
(* The records that people keep, before a proposal (LeadReview) and after  *)
(* the award (FieldVisits), for TLC.  They share no state, and one kind is *)
(* explored at a time.                                                     *)
(***************************************************************************)
EXTENDS FieldVisits, LeadReview, TLC

\* "calendar":  visits of several projects in one calendar, every one planned and
\*              every record ready, seen on one page.
\* "record":    one visit and its field record, every operation, from every page.
\* "leads":     one complete lead among others, of which one changes, as it is reviewed
\*              again and again.
\* "attention": one lead, every operation, and the list of what needs attention, while
\*              another lead appears, the policy changes and the member comes and goes.
VARIABLE aspect

Symmetry == Permutations(Visits) \cup Permutations(Pages)

OnlyPage(s) == \A other \in Pages \ {s} : page[other] = NoPage
CalendarRevision == 3
OnlyVisit(v) == \A other \in Visits \ {v} : ~Exists(other)
AProject == CHOOSE p \in Projects : TRUE
AnHour == {{}, {CHOOSE h \in Hours : TRUE}}

CalendarNext ==
  \/ \E p \in Projects, status \in {"active", "completed"} : SaveProject(p, status)
  \/ \E v \in Visits, p \in Projects, state \in VisitStates, who \in Members, plan \in Plans \ {{}} :
       CreateVisit(v, p, state, who, plan)
  \/ \E s \in Pages :
       /\ OnlyPage(s)
       /\ page[s] # NoPage => visit[page[s].of].revision < CalendarRevision
       /\ \/ \E v \in Visits : Load(s, v)
          \/ \E state \in VisitStates, who \in Members, plan \in Plans \ {{}} :
               SaveVisit(s, state, who, plan)
          \/ AttachTemplate(s, TRUE)
          \/ ReopenVisit(s)

RecordNext ==
  \/ \E status \in Statuses : SaveProject(AProject, status)
  \/ \E i \in Members : ChangeMembership(i)
  \/ \E v \in Visits, state \in VisitStates, who \in Members \cup {Nobody}, plan \in AnHour :
       OnlyVisit(v) /\ CreateVisit(v, AProject, state, who, plan)
  \/ \E s \in Pages :
       \/ \E v \in Visits : Load(s, v)
       \/ \E state \in VisitStates, who \in Members \cup {Nobody}, plan \in AnHour :
            SaveVisit(s, state, who, plan)
       \/ \E ready \in BOOLEAN : AttachTemplate(s, ready) \/ SaveRecord(s, ready)
       \/ ReopenVisit(s)
  \/ \E v \in Visits, reserved \in BOOLEAN, ready \in BOOLEAN : ChangePhoto(v, reserved, ready)

Complete(l) == [status |-> "kept", face |-> leads[l].face, answers |-> Answers,
                assigned |-> TRUE, disposition |-> "kept"]
InOrder(l) == \A k \in Leads : k < l => LeadExists(k)

LeadsNext ==
  \/ \E l \in Leads, f \in Faces : InOrder(l) /\ CreateLead(l, f, Answers, TRUE)
  \/ \E s \in {"kept", "ready_for_proposal"}, f \in Faces, d \in Dispositions \cup {"kept"} :
       UpdateLead(1, [Complete(1) EXCEPT !.status = s, !.face = f, !.disposition = d])
  \/ \E f \in Faces : leads[2].version < 2 /\ UpdateLead(2, [Complete(2) EXCEPT !.face = f])
  \/ RepeatCreate(1) \/ AppendLeadEvidence(1) \/ CreateProposal(1)

AttentionNext ==
  \/ \E answers \in 0..Answers, assigned \in BOOLEAN : CreateLead(1, AnyFace, answers, assigned)
  \/ LeadExists(1) /\ CreateLead(2, AnyFace, 0, FALSE)
  \/ \E s \in LeadStatuses \cup {"kept"}, answers \in 0..Answers,
        d \in {"kept", "distinct", "duplicate"} :
       UpdateLead(1, [Complete(1) EXCEPT !.status = s, !.answers = answers, !.disposition = d])
  \/ RepeatCreate(1) \/ AppendLeadEvidence(1) \/ CreateProposal(1)
  \/ \E status \in {"in_progress", "dismissed"} : UpdateTask(1, status)
  \/ \E asks \in 0..Answers : SaveIntakePolicy(asks)
  \/ ChangeMember \/ GetWorkspace

AspectInit ==
  /\ Init /\ LeadInit
  /\ aspect \in {"calendar", "record", "leads", "attention"}
AspectNext ==
  /\ UNCHANGED aspect
  /\ \/ aspect = "calendar" /\ CalendarNext /\ UNCHANGED leadVars
     \/ aspect = "record" /\ RecordNext /\ UNCHANGED leadVars
     \/ aspect = "leads" /\ LeadsNext /\ UNCHANGED vars
     \/ aspect = "attention" /\ AttentionNext /\ UNCHANGED vars
AspectSpec == AspectInit /\ [][AspectNext]_<<vars, leadVars, aspect>>
=============================================================================
