----------------------------- MODULE Commercial -----------------------------
(***************************************************************************)
(* The proposals of one lead, from their creation by people and by the     *)
(* automation, through versions, review, outcome and award, to the project *)
(* that is launched from an award and the PDF that customers receive.      *)
(*                                                                         *)
(* Every change of a proposal locks its row and compares the revision that *)
(* the sender's page showed, so it is one step.  What is not one step is   *)
(* what a page or a renderer remembers: a session may look at an old page, *)
(* a request may be sent again after its answer was lost, and a PDF is     *)
(* rendered between two transactions.  Creation is two steps, because only *)
(* advisory lock 29 keeps two creations for one lead apart.  A version's   *)
(* text stands for itself by its number; who may do what is the subject of *)
(* Membership.                                                             *)
(***************************************************************************)
EXTENDS Naturals, FiniteSets

CONSTANTS
  MaxProposals,  \* proposals of the lead
  Keys,          \* idempotency keys of requests that create a proposal
  Sessions,      \* browser pages of people who edit and review
  Requests,      \* idempotency keys of requests that record an outcome
  Renderers,     \* requests that render a PDF
  MaxVersion,    \* versions of a proposal (100 in the code)
  MaxRevision    \* bound on a proposal's revision

ASSUME CommercialAssumption ==
  MaxProposals \in Nat \ {0} /\ MaxVersion \in Nat \ {0} /\ MaxRevision \in Nat \ {0}

VARIABLES
  lead,      \* the lead is ready for a proposal
  proposal,  \* cpl_commercial_proposals
  stamp,     \* revision of the first approved event of each version, 0 if none
  award,     \* cpl_commercial_awards: the version awarded, 0 if none
  project,   \* cpl_commercial_projects: the version it was launched with
  artifact,  \* cpl_commercial_artifacts: the stamp that a version's PDF bears
  wish,      \* what a creation key asks for
  creation,  \* creation transactions under way
  created,   \* cpl_workflow_mutations of creations: the proposal, 0 if none
  page,      \* what each session looks at
  request,   \* outcome requests, and what their sender was answered last
  render     \* projections being rendered

creating == <<lead, wish, creation, created>>
agreeing == <<award, project>>
printing == <<artifact, render>>
vars == <<creating, proposal, stamp, agreeing, printing, page, request>>

-----------------------------------------------------------------------------
Proposals == 1..MaxProposals
Versions == 1..MaxVersion
Revisions == 1..MaxRevision

Final == {"lost", "withdrawn", "awarded"}
States == {"draft", "review", "approved", "revision_requested"} \cup Final
ProposalRecord ==
  [state : States \cup {"absent"}, version : 0..MaxVersion, approved : 0..MaxVersion,
   revision : 0..MaxRevision, plain : BOOLEAN, legacy : BOOLEAN]
NoProposal == [state |-> "absent", version |-> 0, approved |-> 0, revision |-> 0,
               plain |-> FALSE, legacy |-> FALSE]
Exists(p) == proposal[p].state # "absent"

\* allowAdditional; a legacy draft to upgrade.
Wishes == [additional : BOOLEAN, legacy : BOOLEAN]

Nothing == [pc |-> "none"]
Seen == [pc : {"seen"}, of : Proposals, version : Versions, revision : Revisions]
Asked == [pc : {"asked"}, of : Proposals, version : Versions, revision : Revisions,
          outcome : Final, decided : BOOLEAN, answer : {"none", "done", "refused"}]
Rendering == [pc : {"rendering"}, of : Proposals, version : Versions, stamp : Revisions]

TypeOK ==
  /\ lead \in BOOLEAN
  /\ proposal \in [Proposals -> ProposalRecord]
  /\ stamp \in [Proposals -> [Versions -> 0..MaxRevision]]
  /\ award \in [Proposals -> 0..MaxVersion]
  /\ project \in [Proposals -> 0..MaxVersion]
  /\ artifact \in [Proposals -> [Versions -> 0..MaxRevision]]
  /\ wish \in [Keys -> Wishes \cup {Nothing}]
  /\ creation \in [Keys -> {Nothing} \cup [pc : {"open"}, found : 0..MaxProposals]]
  /\ created \in [Keys -> 0..MaxProposals]
  /\ page \in [Sessions -> {Nothing} \cup Seen]
  /\ request \in [Requests -> {Nothing} \cup Asked]
  /\ render \in [Renderers -> {Nothing} \cup Rendering]

Init ==
  /\ lead = TRUE
  /\ proposal = [p \in Proposals |-> NoProposal]
  /\ stamp = [p \in Proposals |-> [v \in Versions |-> 0]]
  /\ award = [p \in Proposals |-> 0] /\ project = [p \in Proposals |-> 0]
  /\ artifact = [p \in Proposals |-> [v \in Versions |-> 0]]
  /\ wish = [k \in Keys |-> Nothing]
  /\ creation = [k \in Keys |-> Nothing]
  /\ created = [k \in Keys |-> 0]
  /\ page = [s \in Sessions |-> Nothing]
  /\ request = [r \in Requests |-> Nothing]
  /\ render = [r \in Renderers |-> Nothing]

-----------------------------------------------------------------------------
(***************************************************************************)
(* Creation, by people and by a recipe.                                    *)
(***************************************************************************)

\* Seeded fault: nobody takes the lock.
UnlockedAlways == TRUE

\* Advisory lock 29, which intake takes for every change of a lead as well.
Unlocked == \A k \in Keys : creation[k] = Nothing

ChangeLead ==
  /\ Unlocked
  /\ lead' = ~lead
  /\ UNCHANGED <<wish, creation, created, proposal, stamp, agreeing, printing, page, request>>

\* The earliest proposal that this request would repeat; rows are numbered as they come.
Existing(w) ==
  LET same == {p \in Proposals : Exists(p) /\ ((w.legacy /\ proposal[p].legacy) \/ ~w.additional)}
  IN IF same = {} THEN 0 ELSE CHOOSE p \in same : \A q \in same : p <= q

\* A key that was used answers with its proposal and changes nothing.
OpenCreation(k, w) ==
  /\ Unlocked
  /\ wish[k] \in {Nothing, w}
  /\ created[k] = 0
  /\ lead
  /\ wish' = [wish EXCEPT ![k] = w]
  /\ creation' = [creation EXCEPT ![k] = [pc |-> "open", found |-> Existing(w)]]
  /\ UNCHANGED <<lead, created, proposal, stamp, agreeing, printing, page, request>>

Fresh == Cardinality({p \in Proposals : Exists(p)}) + 1

KeyResource(k) == IF creation[k].found # 0 THEN creation[k].found ELSE Fresh

CommitCreation(k) ==
  /\ creation[k] # Nothing
  /\ (creation[k].found # 0) \/ (Fresh <= MaxProposals)
  /\ created' = [created EXCEPT ![k] = KeyResource(k)]
  /\ proposal' = IF creation[k].found # 0 THEN proposal
       ELSE [proposal EXCEPT ![Fresh] =
               [state |-> "draft", version |-> 1, approved |-> 0, revision |-> 1,
                plain |-> ~wish[k].additional, legacy |-> wish[k].legacy]]
  /\ creation' = [creation EXCEPT ![k] = Nothing]
  /\ UNCHANGED <<lead, wish, stamp, agreeing, printing, page, request>>

\* A template without a currency, a fence that was lost, or a crash.
AbortCreation(k) ==
  /\ creation[k] # Nothing
  /\ creation' = [creation EXCEPT ![k] = Nothing]
  /\ UNCHANGED <<lead, wish, created, proposal, stamp, agreeing, printing, page, request>>

-----------------------------------------------------------------------------
(***************************************************************************)
(* Editing and review from a page.  Success answers with the new revision, *)
(* so the page is of it afterwards.                                        *)
(***************************************************************************)
View(p, row) == [pc |-> "seen", of |-> p, version |-> row.version, revision |-> row.revision]

Load(s, p) ==
  /\ Exists(p)
  /\ page' = [page EXCEPT ![s] = View(p, proposal[p])]
  /\ UNCHANGED <<creating, proposal, stamp, agreeing, printing, request>>

Expected(s) == page[s].revision = proposal[page[s].of].revision

\* The proposal that s looks at, as it is now.
Row(s) == proposal[page[s].of]

\* The session s changes its proposal, in one of the given states, to row.
Changes(s, states, row) ==
  /\ page[s] # Nothing
  /\ Expected(s)
  /\ Row(s).state \in states
  /\ row.revision <= MaxRevision
  /\ proposal' = [proposal EXCEPT ![page[s].of] = row]
  /\ page' = [page EXCEPT ![s] = View(page[s].of, row)]
  /\ UNCHANGED <<creating, agreeing, printing, request>>

Saved(row) ==
  [row EXCEPT !.version = @ + 1, !.state = "draft", !.approved = 0, !.revision = @ + 1]

Moved(row, state, approved) ==
  [row EXCEPT !.state = state, !.approved = approved, !.revision = @ + 1]

SaveProposal(s) ==
  /\ Changes(s, {"draft", "revision_requested"}, Saved(Row(s)))
  /\ Row(s).version < MaxVersion
  /\ UNCHANGED stamp

SubmitProposal(s) ==
  /\ Changes(s, {"draft"}, Moved(Row(s), "review", 0))
  /\ UNCHANGED stamp

\* publicDocument reads the first approved event of a version.
Stamped(old, revision) == IF old = 0 THEN revision ELSE old

ApproveProposal(s) ==
  /\ Changes(s, {"review"}, Moved(Row(s), "approved", Row(s).version))
  /\ LET p == page[s].of  v == Row(s).version
     IN stamp' = [stamp EXCEPT ![p][v] = Stamped(stamp[p][v], proposal'[p].revision)]

RequestChanges(s) ==
  /\ Changes(s, {"review"}, Moved(Row(s), "revision_requested", 0))
  /\ UNCHANGED stamp

Revisable == {"review", "approved", "revision_requested"}

\* The version is opened as it is: it may be submitted and approved again unsaved.
ReviseProposal(s) ==
  /\ Changes(s, Revisable, Moved(Row(s), "draft", 0))
  /\ UNCHANGED stamp

-----------------------------------------------------------------------------
(***************************************************************************)
(* Outcomes.  A request is composed from a page and sent until its sender  *)
(* sees an answer.                                                         *)
(***************************************************************************)
ComposeOutcome(r, s, outcome) ==
  /\ request[r] = Nothing /\ page[s] # Nothing
  /\ request' = [request EXCEPT ![r] =
       [pc |-> "asked", of |-> page[s].of, version |-> page[s].version,
        revision |-> page[s].revision, outcome |-> outcome, decided |-> FALSE, answer |-> "none"]]
  /\ UNCHANGED <<creating, proposal, stamp, agreeing, printing, page>>

\* Seeded fault: a lost proposal may still be awarded, and an awarded one lost.
DecidableAlways(row, outcome) == outcome = "awarded" => row.state = "approved"

\* An award is for the total of the version that is approved and current.
Decidable(row, outcome) ==
  /\ row.state \notin Final
  /\ outcome = "awarded" => row.state = "approved" /\ row.approved = row.version

\* Seeded fault: the revision is compared before the key is looked up.
VerdictRevisionFirst(q, row) ==
  IF q.revision # row.revision \/ ~Decidable(row, q.outcome) THEN "refused"
  ELSE IF q.decided THEN "again" ELSE "done"

Verdict(q, row) ==
  IF q.decided THEN "again"
  ELSE IF q.revision # row.revision \/ ~Decidable(row, q.outcome) THEN "refused" ELSE "done"

RecordOutcome(r) ==
  /\ request[r] # Nothing
  /\ LET q == request[r]  p == q.of  verdict == Verdict(q, proposal[p])
         row == Moved(proposal[p], q.outcome, proposal[p].approved)
     IN /\ verdict = "done" => row.revision <= MaxRevision
        /\ proposal' = IF verdict = "done" THEN [proposal EXCEPT ![p] = row] ELSE proposal
        /\ award' = IF verdict = "done" /\ q.outcome = "awarded"
                      THEN [award EXCEPT ![p] = row.version] ELSE award
        /\ request' = [request EXCEPT
             ![r].decided = q.decided \/ verdict = "done",
             ![r].answer = IF verdict = "refused" THEN "refused" ELSE "done"]
  /\ UNCHANGED <<creating, stamp, project, printing, page>>

\* The person stopped waiting and starts over from a page.
AbandonOutcome(r) ==
  /\ request[r] # Nothing /\ ~request[r].decided
  /\ request' = [request EXCEPT ![r] = Nothing]
  /\ UNCHANGED <<creating, proposal, stamp, agreeing, printing, page>>

\* By a person or a recipe: the award's row is the authority, whoever comes second gets its project.
CreateProject(p) ==
  /\ proposal[p].state = "awarded" /\ award[p] # 0 /\ project[p] = 0
  /\ project' = [project EXCEPT ![p] = award[p]]
  /\ UNCHANGED <<creating, proposal, stamp, award, printing, page, request>>

-----------------------------------------------------------------------------
(***************************************************************************)
(* The PDF of an approved version, rendered between two transactions.      *)
(***************************************************************************)

\* Seeded fault: any version that was ever approved will do.
AvailableOnceApproved(p, v) == stamp[p][v] # 0

\* approvedDocument
Available(p, v) ==
  /\ proposal[p].state \in {"approved", "awarded"}
  /\ proposal[p].approved = v /\ proposal[p].version = v
  /\ stamp[p][v] # 0

GetApprovedPdf(d, p) ==
  /\ render[d] = Nothing
  /\ LET v == proposal[p].version
     IN /\ v # 0 /\ Available(p, v)
        /\ render' = [render EXCEPT ![d] =
             [pc |-> "rendering", of |-> p, version |-> v, stamp |-> stamp[p][v]]]
  /\ UNCHANGED <<creating, proposal, stamp, agreeing, artifact, page, request>>

\* Refused, or lost in a crash, it leaves nothing.
RecordArtifact(d) ==
  /\ render[d] # Nothing
  /\ LET p == render[d].of  v == render[d].version
         accepted == Available(p, v) /\ stamp[p][v] = render[d].stamp /\ artifact[p][v] = 0
     IN artifact' = IF accepted THEN [artifact EXCEPT ![p][v] = render[d].stamp] ELSE artifact
  /\ render' = [render EXCEPT ![d] = Nothing]
  /\ UNCHANGED <<creating, proposal, stamp, agreeing, page, request>>

-----------------------------------------------------------------------------
Creating ==
  \/ ChangeLead
  \/ \E k \in Keys : (\E w \in Wishes : OpenCreation(k, w)) \/ CommitCreation(k) \/ AbortCreation(k)

Deciding ==
  \/ \E s \in Sessions :
       \/ \E p \in Proposals : Load(s, p)
       \/ SaveProposal(s) \/ SubmitProposal(s) \/ ApproveProposal(s) \/ RequestChanges(s)
       \/ ReviseProposal(s)
  \/ \E r \in Requests :
       \/ \E s \in Sessions, outcome \in Final : ComposeOutcome(r, s, outcome)
       \/ RecordOutcome(r) \/ AbandonOutcome(r)
  \/ \E p \in Proposals : CreateProject(p)
  \/ \E d \in Renderers : (\E p \in Proposals : GetApprovedPdf(d, p)) \/ RecordArtifact(d)

Next == Creating \/ Deciding

Spec == Init /\ [][Next]_vars

-----------------------------------------------------------------------------
(***************************************************************************)
(* Properties.                                                             *)
(***************************************************************************)

\* A person and a recipe that both turn a lead into its proposal, with retries,
\* make one; only who asks for an additional one gets a second, a legacy draft
\* is upgraded once unless the lead had a proposal already, and a key that was
\* answered keeps naming a proposal that exists.
OneProposal ==
  /\ Cardinality({p \in Proposals : proposal[p].plain}) <= 1
  /\ Cardinality({p \in Proposals : proposal[p].legacy}) <= 1
  /\ \A k \in Keys : created[k] # 0 => Exists(created[k])

\* An award, the project launched from it and the proposal they came from
\* agree on the version for good, and that version was approved.
AgreementStands == \A p \in Proposals :
  award[p] # 0 =>
    /\ proposal[p].state = "awarded"
    /\ proposal[p].version = award[p] /\ proposal[p].approved = award[p]
    /\ stamp[p][award[p]] # 0
    /\ project[p] \in {0, award[p]}

\* An outcome ends a proposal: no later request, page or retry changes the row.
OutcomeStays == [][\A p \in Proposals :
  proposal[p].state \in Final => proposal'[p] = proposal[p]]_vars

\* Who approves a version had that version on the screen, whatever others saved meanwhile.
ApprovedAsSeen == [][\A s \in Sessions, p \in Proposals :
  (page'[s] # page[s] /\ stamp'[p] # stamp[p]) =>
     page[s].of = p /\ page[s].version = proposal[p].version]_vars

\* An award is of the version its sender had on the screen, and an outcome
\* that took effect is the one its sender asked for.
OutcomeAsAsked == \A r \in Requests :
  request[r] # Nothing /\ request[r].decided =>
    LET p == request[r].of
    IN /\ proposal[p].state = request[r].outcome
       /\ proposal[p].version = request[r].version

\* A sender whose outcome was recorded is never told that it was refused,
\* however often an answer was lost and the request sent again.
RecordedIsAnswered == \A r \in Requests :
  request[r] # Nothing /\ request[r].decided => request[r].answer = "done"

\* The PDF that was recorded for a version is the one that the document on
\* offer would render to again, after any number of revisions and approvals.
ArtifactIsDocument == \A p \in Proposals, v \in Versions :
  artifact[p][v] # 0 /\ Available(p, v) => artifact[p][v] = stamp[p][v]

\* Proposals are documents whose published files are of agreed versions.
Document == INSTANCE ApprovedArtifact WITH
  Documents <- Proposals, Stamps <- Revisions,
  text <- [p \in Proposals |-> proposal[p].version],
  agreed <- [p \in Proposals |-> proposal[p].approved],
  file <- artifact
ImplementsDocument == Document!Spec
=============================================================================
