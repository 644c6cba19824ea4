----------------------------- MODULE LeadReview -----------------------------
(***************************************************************************)
(* The leads of one company: captured, completed, compared with others     *)
(* that look like them, reviewed against the company's intake policy, made *)
(* ready and handed over to a proposal; and the list of what needs         *)
(* attention, which is derived from them.                                  *)
(*                                                                         *)
(* Every operation takes advisory lock 29 and is one step, and an edit     *)
(* succeeds only under the version that its page showed, so a person here  *)
(* acts on the lead that stands.  What makes it hard is that readiness is  *)
(* never stored.  It rests on other rows as well, on the leads that look   *)
(* alike, the policy and the assigned member, which change at any time; a  *)
(* review keeps the versions of what it was given for, and an item of the  *)
(* attention list a digest of what it says.                                *)
(*                                                                         *)
(* A lead is known by its face: what it is matched by.  What else it is    *)
(* asked for is a number, of how much it answers.  All leads are assigned  *)
(* to one member or to nobody.  A lead's number is its place in ORDER BY   *)
(* id.  Texts, directory and catalog references and the events that        *)
(* automation reads are left out.                                          *)
(***************************************************************************)
EXTENDS Naturals, FiniteSets

CONSTANTS
  MaxLeads,
  Faces,
  Answers,         \* how much a lead answers, and a policy asks for: 0..Answers
  CandidateLimit,  \* 100 in the code
  MaxLeadVersion,  \* bound of a lead's version
  MaxPolicy        \* bound of the policy's version

ASSUME LeadAssumption ==
  /\ Faces # {}
  /\ MaxLeads \in Nat \ {0} /\ Answers \in Nat /\ CandidateLimit \in Nat \ {0}
  /\ MaxLeadVersion \in Nat \ {0} /\ MaxPolicy \in Nat

VARIABLES
  leads,    \* cpl_workflow_leads
  reviews,  \* the latest of each lead's cpl_lead_review_events
  policy,   \* the setting company.intake-policy
  staffed,  \* whether the assigned member is active
  handed,   \* the leads that a proposal was made of
  tasks,    \* each lead's row of cpl_action_tasks without an execution
  news      \* history: the leads that changed since a lead's latest review

leadVars == <<leads, reviews, policy, staffed, handed, tasks, news>>

Leads == 1..MaxLeads
LeadStatuses == {"new", "needs_info", "ready_for_proposal", "disqualified"}
Dispositions == {"unreviewed", "distinct", "duplicate"}
Groups == {"missing_information", "reviews", "next_actions"}
Issue == {"assigned_member", "policy_answers", "duplicate_review_required", "marked_duplicate",
          "disqualified", "policy_review_required"}

LeadRecord ==
  [status : LeadStatuses \cup {"absent"}, version : 0..MaxLeadVersion, face : Faces,
   answers : 0..Answers, assigned : BOOLEAN, policy : 0..MaxPolicy]
ReviewRecord ==
  [disposition : Dispositions, face : Faces, seen : [Leads -> 0..MaxLeadVersion]]
StandingRecord ==
  [version : 0..MaxLeadVersion, issues : SUBSET Issue, lacks : SUBSET (1..Answers),
   proposed : BOOLEAN]
TaskRecord ==
  [status : {"none", "open", "in_progress", "completed", "dismissed"},
   group : Groups, hash : StandingRecord]

AnyFace == CHOOSE f \in Faces : TRUE
NoLead == [status |-> "absent", version |-> 0, face |-> AnyFace, answers |-> 0,
           assigned |-> FALSE, policy |-> 0]
\* Before the first review, which counts as nothing since no event is written.
NoReview == [disposition |-> "unreviewed", face |-> AnyFace, seen |-> [l \in Leads |-> 0]]
NoTask == [status |-> "none", group |-> "missing_information",
           hash |-> [version |-> 0, issues |-> {}, lacks |-> {}, proposed |-> FALSE]]

LeadInit ==
  /\ leads = [l \in Leads |-> NoLead]
  /\ reviews = [l \in Leads |-> NoReview]
  /\ policy = [version |-> 0, asks |-> 0]
  /\ staffed = TRUE
  /\ handed = {}
  /\ tasks = [l \in Leads |-> NoTask]
  /\ news = [l \in Leads |-> {}]

LeadExists(l) == leads[l].status # "absent"

-----------------------------------------------------------------------------
(***************************************************************************)
(* Readiness: evaluated whenever a lead is read.                           *)
(***************************************************************************)

\* The leads that look like one with this face.
Lookalikes(l, face) == {c \in Leads \ {l} : LeadExists(c) /\ leads[c].face = face}

\* Those that are read, in the order of their numbers.
Candidates(l, face) ==
  LET found == Lookalikes(l, face)
  IN {c \in found : Cardinality({b \in found : b < c}) < CandidateLimit}

\* Seeded fault: a lead that was reviewed is not looked at again.
ReviewedOnce(l) ==
  /\ Cardinality(Candidates(l, leads[l].face)) < CandidateLimit
  /\ reviews[l].face = leads[l].face
  /\ \A c \in Candidates(l, leads[l].face) : reviews[l].seen[c] # 0

\* The latest review still counts: the lead, and what looks like it, is what was reviewed.
Reviewed(l) ==
  /\ Cardinality(Candidates(l, leads[l].face)) < CandidateLimit
  /\ reviews[l].face = leads[l].face
  /\ \A c \in Candidates(l, leads[l].face) : reviews[l].seen[c] = leads[c].version

Disposition(l) == IF Reviewed(l) THEN reviews[l].disposition ELSE "unreviewed"

\* What the policy asks for and the lead does not answer.
Lacks(l) == (leads[l].answers + 1)..policy.asks

Holds(issue, condition) == IF condition THEN {issue} ELSE {}

\* What a lead lacks and what speaks against it.
Issues(l) ==
  Holds("assigned_member", ~(leads[l].assigned /\ staffed))
  \cup Holds("policy_answers", Lacks(l) # {})
  \cup Holds("duplicate_review_required",
             Candidates(l, leads[l].face) # {} /\ Disposition(l) = "unreviewed")
  \cup Holds("marked_duplicate", Disposition(l) = "duplicate")
  \cup Holds("disqualified", leads[l].status = "disqualified")
  \cup Holds("policy_review_required",
             leads[l].status = "ready_for_proposal" /\ leads[l].policy # policy.version)

-----------------------------------------------------------------------------
(***************************************************************************)
(* Attention.                                                              *)
(***************************************************************************)

\* Seeded fault: the digest is of the lead alone.
StandingOfLead(l) ==
  [version |-> leads[l].version, issues |-> Issues(l), lacks |-> Lacks(l), proposed |-> FALSE]

\* What sourceHash is taken of.
Standing(l) ==
  [version |-> leads[l].version, issues |-> Issues(l), lacks |-> Lacks(l),
   proposed |-> l \in handed]

Done(l) == leads[l].status = "disqualified" \/ l \in handed

Group(l) ==
  IF Issues(l) # {} THEN "missing_information"
  ELSE IF leads[l].status = "ready_for_proposal" THEN "next_actions" ELSE "reviews"

Notice(l) ==
  [status |-> IF Done(l) THEN "completed" ELSE "open", group |-> Group(l), hash |-> Standing(l)]

\* syncCplLeadAttention: the row that was, and what is to be noticed.
Synced(row, notice) ==
  IF row.hash = notice.hash \/ (row = NoTask /\ notice.status = "completed") THEN row ELSE notice

\* A lead was created or changed, which is news to all others.
Changed(l) == [k \in Leads |-> IF k = l THEN news[k] ELSE news[k] \cup {l}]

SyncsOnly(l) == tasks' = [tasks EXCEPT ![l] = Synced(@, Notice(l)')]

-----------------------------------------------------------------------------
(***************************************************************************)
(* Operations.                                                             *)
(***************************************************************************)

\* People and the ingestion worker create leads, by keys of their own.
CreateLead(l, face, answers, assigned) ==
  /\ ~LeadExists(l)
  /\ assigned => staffed
  /\ leads' = [leads EXCEPT ![l] = [status |-> "new", version |-> 1, face |-> face,
                                    answers |-> answers, assigned |-> assigned, policy |-> 0]]
  /\ news' = Changed(l)
  /\ UNCHANGED <<reviews, policy, staffed, handed>>
  /\ SyncsOnly(l)

\* The same request again: it answers with the lead as it is, and syncs as well.
RepeatCreate(l) ==
  /\ LeadExists(l)
  /\ UNCHANGED <<leads, reviews, policy, staffed, handed, news>>
  /\ SyncsOnly(l)

\* The events that a review writes: against what stands when it is saved, with the lead as
\* it is being saved.
Review(l, disposition, face) ==
  [disposition |-> disposition, face |-> face,
   seen |-> [c \in Leads |-> IF c \in Candidates(l, face) THEN leads[c].version ELSE 0]]

\* An edit of the intake fields, of the status, of the duplicate review, or of several at
\* once.  A status that is not sent stays, and with it the policy it was reviewed under.
UpdateLead(l, edit) ==
  /\ LeadExists(l) /\ leads[l].version < MaxLeadVersion
  /\ edit.assigned => staffed
  /\ edit.disposition = "duplicate" => Candidates(l, edit.face) # {}
  /\ leads' = [leads EXCEPT ![l] =
       [status |-> IF edit.status = "kept" THEN @.status ELSE edit.status,
        version |-> @.version + 1,
        face |-> edit.face, answers |-> edit.answers, assigned |-> edit.assigned,
        policy |-> IF edit.status = "ready_for_proposal" THEN policy.version ELSE @.policy]]
  /\ IF edit.disposition = "kept"
       THEN reviews' = reviews /\ news' = Changed(l)
       ELSE /\ reviews' = [reviews EXCEPT ![l] = Review(l, edit.disposition, edit.face)]
            /\ news' = [Changed(l) EXCEPT ![l] = {}]
  /\ UNCHANGED <<policy, staffed, handed>>
  /\ leads'[l].status = "ready_for_proposal" => Issues(l)' = {}
  /\ SyncsOnly(l)

\* More source material: a new version of the lead, of which attention hears later.
AppendLeadEvidence(l) ==
  /\ LeadExists(l) /\ leads[l].version < MaxLeadVersion
  /\ leads' = [leads EXCEPT ![l].version = @ + 1]
  /\ news' = Changed(l)
  /\ UNCHANGED <<reviews, policy, staffed, handed, tasks>>

SaveIntakePolicy(asks) ==
  /\ policy.version < MaxPolicy
  /\ policy' = [version |-> policy.version + 1, asks |-> asks]
  /\ UNCHANGED <<leads, reviews, staffed, handed, tasks, news>>

\* The assigned member leaves, or returns.
ChangeMember ==
  /\ staffed' = ~staffed
  /\ UNCHANGED <<leads, reviews, policy, handed, tasks, news>>

\* By a person or by a recipe: what follows is Commercial's.
CreateProposal(l) ==
  /\ leads[l].status = "ready_for_proposal" /\ Issues(l) = {}
  /\ handed' = handed \cup {l}
  /\ UNCHANGED <<leads, reviews, policy, staffed, tasks, news>>

Listed == {l \in Leads : leads[l].status \in LeadStatuses \ {"disqualified"}}

\* Somebody opens the action center.
GetWorkspace ==
  /\ tasks' = [l \in Leads |-> IF l \in Listed THEN Synced(tasks[l], Notice(l)) ELSE tasks[l]]
  /\ UNCHANGED <<leads, reviews, policy, staffed, handed, news>>

\* An item about a lead is never completed by a person, only started and dismissed.
UpdateTask(l, status) ==
  /\ \/ status = "in_progress" /\ tasks[l].status = "open"
     \/ status = "dismissed" /\ tasks[l].status \in {"open", "in_progress"}
  /\ tasks' = [tasks EXCEPT ![l].status = status]
  /\ UNCHANGED <<leads, reviews, policy, staffed, handed, news>>

Edits ==
  [status : LeadStatuses \cup {"kept"}, face : Faces, answers : 0..Answers, assigned : BOOLEAN,
   disposition : Dispositions \cup {"kept"}]

LeadNext ==
  \/ \E l \in Leads :
       \/ \E face \in Faces, answers \in 0..Answers, assigned \in BOOLEAN :
            CreateLead(l, face, answers, assigned)
       \/ \E edit \in Edits : UpdateLead(l, edit)
       \/ RepeatCreate(l) \/ AppendLeadEvidence(l) \/ CreateProposal(l)
       \/ \E status \in {"in_progress", "dismissed"} : UpdateTask(l, status)
  \/ \E asks \in 0..Answers : SaveIntakePolicy(asks)
  \/ ChangeMember \/ GetWorkspace

LeadSpec == LeadInit /\ [][LeadNext]_leadVars

-----------------------------------------------------------------------------
(***************************************************************************)
(* Properties.                                                             *)
(***************************************************************************)

LeadTypes ==
  /\ leads \in [Leads -> LeadRecord]
  /\ reviews \in [Leads -> ReviewRecord]
  /\ policy \in [version : 0..MaxPolicy, asks : 0..Answers]
  /\ staffed \in BOOLEAN
  /\ handed \in SUBSET Leads
  /\ tasks \in [Leads -> TaskRecord]
  /\ news \in [Leads -> SUBSET Leads]

\* A proposal is made of a lead that was compared with every lead that looks like it, as
\* each of them is now: none appeared or changed, not even to and fro, since the review
\* (currentReview of intakeLead); and of a lead that was called ready under the policy in
\* force and answers all it asks.
HandoffIsReviewed ==
  [][\A l \in handed' \ handed :
       /\ Lookalikes(l, leads[l].face) # {} =>
            /\ reviews[l].disposition = "distinct"
            /\ Lookalikes(l, leads[l].face) \cap news[l] = {}
       /\ leads[l].policy = policy.version /\ leads[l].answers >= policy.asks]_leadVars

\* An item of the attention list that bears the digest of the lead as it is says what the
\* lead as it is needs, and is closed exactly if nothing is left to do; so it may be
\* passed over (syncCplLeadAttention).  And nobody is asked to look after a disqualified
\* lead, of which the list hears nothing more.
NoticeAgrees ==
  \A l \in Leads :
    /\ tasks[l].status # "none" /\ tasks[l].hash = Standing(l) =>
         tasks[l].group = Group(l) /\ (tasks[l].status = "completed" <=> Done(l))
    /\ leads[l].status = "disqualified" => tasks[l].status \in {"none", "completed"}
=============================================================================
