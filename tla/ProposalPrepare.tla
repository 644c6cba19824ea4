---------------------------- MODULE ProposalPrepare ----------------------------
(***************************************************************************)
(* Proposal drafts and the jobs that prepare them for download: rows of    *)
(* cpl_workflow_jobs with kind 'proposal.prepare'.  Every version of a     *)
(* draft gets a job; a worker invocation claims it under a 30 second lease *)
(* and, in one transaction, renders the draft, marks the version prepared  *)
(* and completes the job.  Editors go on editing meanwhile, and            *)
(* administrators change memberships and the module's entitlement.         *)
(*                                                                         *)
(* That transaction is taken apart statement by statement, since other     *)
(* transactions run between its statements: Begin, LockJob, LockDraft,     *)
(* Authorize, Store, Commit.  What Store writes becomes visible at Commit. *)
(* Its locks are read off the worker's pc: the job row from LockJob on and *)
(* the draft row from LockDraft on.  Memberships are read without a lock.  *)
(* Time is as in RecipeJobs: "live" and "due" are the outcomes of the two  *)
(* comparisons with the clock.                                             *)
(***************************************************************************)
EXTENDS Naturals

CONSTANTS
  Drafts,        \* cpl_proposal_drafts
  Members,       \* people who may write proposals
  Workers,       \* concurrent invocations of processHostedJobs
  NoDraft,       \* what an idle worker works on
  NoMember,      \* the issuer of a job that does not exist
  MaxAttempts,   \* max_attempts of a job (3 in the schema)
  MaxVersion,    \* bound on a draft's version
  MaxMembership  \* bound on a membership's version

ASSUME PrepareAssumption ==
  /\ NoDraft \notin Drafts
  /\ MaxAttempts \in Nat \ {0} /\ MaxVersion \in Nat \ {0} /\ MaxMembership \in Nat \ {0}

VARIABLES
  draft,      \* version (0: no draft), prepared_version (0: NULL) and
              \* prepared_sha256, standing for the version whose text it digests
  job,        \* one job for each version of each draft
  member,     \* memberships that may write proposals
  entitled,   \* the proposal-builder module is enabled
  worker,     \* worker invocations
  audited     \* 'proposal.prepared' records of each draft and version

vars == <<draft, job, member, entitled, worker, audited>>

Versions == 1..MaxVersion
Statuses == {"absent", "queued", "running", "completed", "failed"}

\* A lease token stands for the attempt that drew it, 0 for NULL.
JobRecord == [status : Statuses, attempts : 0..MaxAttempts, token : 0..MaxAttempts,
              live : BOOLEAN, due : BOOLEAN,
              by : Members \cup {NoMember}, issued : 0..MaxMembership]
NoRow == [status |-> "absent", attempts |-> 0, token |-> 0, live |-> FALSE,
          due |-> FALSE, by |-> NoMember, issued |-> 0]

Pcs == {"idle", "claimed", "begun", "fenced", "drafted", "authorized", "stored", "caught"}
WorkerRecord == [pc : Pcs, draft : Drafts \cup {NoDraft}, version : 0..MaxVersion,
                 read : 0..MaxVersion, attempt : 0..MaxAttempts, fresh : BOOLEAN, revoked : BOOLEAN]
Idle == [pc |-> "idle", draft |-> NoDraft, version |-> 0, read |-> 0,
         attempt |-> 0, fresh |-> FALSE, revoked |-> FALSE]

TypeOK ==
  /\ draft \in [Drafts -> [version : 0..MaxVersion, prepared : 0..MaxVersion,
                            digest : 0..MaxVersion]]
  /\ job \in [Drafts -> [Versions -> JobRecord]]
  /\ member \in [Members -> [version : 1..MaxMembership, active : BOOLEAN]]
  /\ entitled \in BOOLEAN
  /\ worker \in [Workers -> WorkerRecord]
  /\ audited \in [Drafts -> [Versions -> Nat]]

Init ==
  /\ draft = [d \in Drafts |-> [version |-> 0, prepared |-> 0, digest |-> 0]]
  /\ job = [d \in Drafts |-> [v \in Versions |-> NoRow]]
  /\ member = [m \in Members |-> [version |-> 1, active |-> TRUE]]
  /\ entitled = TRUE
  /\ worker = [w \in Workers |-> Idle]
  /\ audited = [d \in Drafts |-> [v \in Versions |-> 0]]

-----------------------------------------------------------------------------
HoldsJob(w) == worker[w].pc \in {"fenced", "drafted", "authorized", "stored"}
HoldsDraft(w) == worker[w].pc \in {"drafted", "authorized", "stored"}

\* Seeded faults: a row is read without FOR UPDATE.
JobUnlocked(d, v) == FALSE
DraftUnlocked(d) == FALSE

JobLocked(d, v) ==
  \E w \in Workers : HoldsJob(w) /\ worker[w].draft = d /\ worker[w].version = v
DraftLocked(d) == \E w \in Workers : HoldsDraft(w) /\ worker[w].draft = d

\* The membership and entitlement a job was issued under still stand.
Authorized(row) ==
  entitled /\ member[row.by].active /\ member[row.by].version = row.issued

-----------------------------------------------------------------------------
\* The web process.

MayWrite(m) == entitled /\ member[m].active

Enqueued(m) == [status |-> "queued", attempts |-> 0, token |-> 0, live |-> FALSE,
                due |-> TRUE, by |-> m, issued |-> member[m].version]

\* createProposalDraft
CreateDraft(m, d) ==
  /\ MayWrite(m)
  /\ draft[d].version = 0
  /\ draft' = [draft EXCEPT ![d].version = 1]
  /\ job' = [job EXCEPT ![d][1] = Enqueued(m)]
  /\ UNCHANGED <<member, entitled, worker, audited>>

Edited(d) == [version |-> draft[d].version + 1, prepared |-> 0, digest |-> 0]

\* updateProposalDraft: its UPDATE waits for a worker that holds the row.
UpdateDraft(m, d) ==
  /\ MayWrite(m)
  /\ draft[d].version \in 1..(MaxVersion - 1)
  /\ ~DraftLocked(d)
  /\ draft' = [draft EXCEPT ![d] = Edited(d)]
  /\ job' = [job EXCEPT ![d][draft[d].version + 1] = Enqueued(m)]
  /\ UNCHANGED <<member, entitled, worker, audited>>

\* Administration: nothing the worker does holds these rows.
ChangeMembership(m, active) ==
  /\ member[m].version < MaxMembership
  /\ member' = [member EXCEPT ![m] = [version |-> member[m].version + 1, active |-> active]]
  /\ UNCHANGED <<draft, job, entitled, worker, audited>>

ChangeEntitlement ==
  /\ entitled' = ~entitled
  /\ UNCHANGED <<draft, job, member, worker, audited>>

-----------------------------------------------------------------------------
\* The passing of time.

LeaseExpires(d, v) ==
  /\ job[d][v].live
  /\ job' = [job EXCEPT ![d][v].live = FALSE]
  /\ UNCHANGED <<draft, member, entitled, worker, audited>>

BackoffPasses(d, v) ==
  /\ job[d][v].status = "queued" /\ ~job[d][v].due
  /\ job' = [job EXCEPT ![d][v].due = TRUE]
  /\ UNCHANGED <<draft, member, entitled, worker, audited>>

-----------------------------------------------------------------------------
\* processHostedJobs.

\* Seeded fault: a job whose worker died is never picked again.
ClaimableQueued(d, v) ==
  job[d][v].status = "queued" /\ job[d][v].due /\ ~JobLocked(d, v)

Claimable(d, v) ==
  /\ \/ job[d][v].status = "queued" /\ job[d][v].due
     \/ job[d][v].status = "running" /\ ~job[d][v].live
  /\ ~JobLocked(d, v)

Spent(row) == row.attempts >= MaxAttempts

SetJob(d, v, row) == job' = [job EXCEPT ![d][v] = row]

Claim(w, d, v) ==
  LET row == job[d][v] IN
  /\ worker[w].pc = "idle"
  /\ Claimable(d, v)
  /\ ~Spent(row)
  /\ SetJob(d, v, [row EXCEPT !.status = "running", !.attempts = row.attempts + 1,
                              !.token = row.attempts + 1, !.live = TRUE])
  /\ worker' = [worker EXCEPT ![w] =
                  [pc |-> "claimed", draft |-> d, version |-> v, read |-> 0,
                   attempt |-> row.attempts + 1, fresh |-> FALSE, revoked |-> FALSE]]
  /\ UNCHANGED <<draft, member, entitled, audited>>

Exhaust(w, d, v) ==
  /\ worker[w].pc = "idle"
  /\ Claimable(d, v)
  /\ Spent(job[d][v])
  /\ SetJob(d, v, [job[d][v] EXCEPT !.status = "failed", !.token = 0, !.live = FALSE])
  /\ UNCHANGED <<draft, member, entitled, worker, audited>>

Row(w) == job[worker[w].draft][worker[w].version]
GoTo(w, pc) == worker' = [worker EXCEPT ![w].pc = pc]
Release(w) == worker' = [worker EXCEPT ![w] = Idle]
UnchangedData == UNCHANGED <<draft, job, member, entitled, audited>>

\* BEGIN fixes CURRENT_TIMESTAMP, which the fence compares the lease with.
Begin(w) ==
  /\ worker[w].pc = "claimed"
  /\ worker' = [worker EXCEPT ![w].pc = "begun",
                              ![w].fresh = Row(w).live /\ Row(w).token = worker[w].attempt]
  /\ UnchangedData

\* Seeded fault: any running job passes, whoever has claimed it since.
FencedByStatus(w) == Row(w).status = "running"

Fenced(w) ==
  /\ Row(w).status = "running"
  /\ Row(w).token = worker[w].attempt
  /\ worker[w].fresh

\* A lost lease is thrown to the scheduler: the invocation ends.
LockJob(w) ==
  /\ worker[w].pc = "begun"
  /\ ~JobLocked(worker[w].draft, worker[w].version)
  /\ \/ Fenced(w) /\ GoTo(w, "fenced")
     \/ ~Fenced(w) /\ Release(w)
  /\ UnchangedData

LockDraft(w) ==
  /\ worker[w].pc = "fenced"
  /\ ~DraftLocked(worker[w].draft)
  /\ worker' = [worker EXCEPT ![w].pc = "drafted",
                              ![w].read = draft[worker[w].draft].version]
  /\ UnchangedData

Catch(w, revoked) ==
  worker' = [worker EXCEPT ![w].pc = "caught", ![w].revoked = revoked]

Authorize(w) ==
  /\ worker[w].pc = "drafted"
  /\ \/ Authorized(Row(w)) /\ GoTo(w, "authorized")
     \/ ~Authorized(Row(w)) /\ Catch(w, TRUE)
  /\ UnchangedData

\* The text that was read is the version the job was made for.
SameVersion(w) == worker[w].read = worker[w].version

\* The UPDATE asks for the authorization once more.
Store(w) ==
  /\ worker[w].pc = "authorized"
  /\ \/ SameVersion(w) /\ ~Authorized(Row(w)) /\ Catch(w, TRUE)
     \/ SameVersion(w) /\ Authorized(Row(w)) /\ GoTo(w, "stored")
     \/ ~SameVersion(w) /\ GoTo(w, "stored")
  /\ UnchangedData

\* The UPDATE of the job names the token alone.  A commit whose answer is lost
\* reaches the worker as an error.
Commit(w) ==
  LET d == worker[w].draft
      v == worker[w].version
  IN
  /\ worker[w].pc = "stored"
  /\ IF SameVersion(w)
       THEN /\ draft' = [draft EXCEPT ![d].prepared = draft[d].version,
                                      ![d].digest = worker[w].read]
            /\ audited' = [audited EXCEPT ![d][v] = audited[d][v] + 1]
       ELSE UNCHANGED <<draft, audited>>
  /\ IF Row(w).token = worker[w].attempt
       THEN SetJob(d, v, [Row(w) EXCEPT !.status = "completed", !.token = 0, !.live = FALSE])
       ELSE UNCHANGED job
  /\ Release(w) \/ Catch(w, FALSE)
  /\ UNCHANGED <<member, entitled>>

\* Any other error rolls the transaction back.
Fails(w) ==
  /\ worker[w].pc \in {"claimed", "begun", "fenced", "drafted", "authorized", "stored"}
  /\ Catch(w, FALSE)
  /\ UnchangedData

\* The job still is the one that this invocation claimed.
StillMine(w) == Row(w).status = "running" /\ Row(w).token = worker[w].attempt

Terminal(w) == worker[w].revoked \/ worker[w].attempt >= MaxAttempts

\* The catch block, outside of the transaction; a job that went to another
\* claimant is left alone.
Report(w) ==
  /\ worker[w].pc = "caught"
  /\ ~JobLocked(worker[w].draft, worker[w].version)
  /\ IF StillMine(w)
       THEN SetJob(worker[w].draft, worker[w].version,
              [Row(w) EXCEPT !.status = IF Terminal(w) THEN "failed" ELSE "queued",
                             !.token = 0, !.live = FALSE, !.due = FALSE])
       ELSE UNCHANGED job
  /\ Release(w)
  /\ UNCHANGED <<draft, member, entitled, audited>>

\* The invocation dies: the database rolls its transaction back.
Crash(w) ==
  /\ worker[w].pc # "idle"
  /\ Release(w)
  /\ UnchangedData

-----------------------------------------------------------------------------
Works(w) ==
  \/ \E d \in Drafts, v \in Versions : Claim(w, d, v) \/ Exhaust(w, d, v)
  \/ Begin(w) \/ LockJob(w) \/ LockDraft(w) \/ Authorize(w) \/ Store(w) \/ Commit(w)
  \/ Report(w)

Next ==
  \/ \E m \in Members, d \in Drafts : CreateDraft(m, d) \/ UpdateDraft(m, d)
  \/ \E m \in Members, active \in BOOLEAN : ChangeMembership(m, active)
  \/ ChangeEntitlement
  \/ \E d \in Drafts, v \in Versions : LeaseExpires(d, v) \/ BackoffPasses(d, v)
  \/ \E w \in Workers : Works(w) \/ Fails(w) \/ Crash(w)

Spec == Init /\ [][Next]_vars

Passes(w) ==
  Begin(w) \/ LockJob(w) \/ LockDraft(w) \/ Authorize(w) \/ Store(w) \/ Commit(w) \/ Report(w)

\* A started invocation goes on, the clock advances, and the scheduler goes on
\* invoking workers, which pick jobs in the order of available_at.
Fairness ==
  /\ \A w \in Workers : WF_vars(Passes(w))
  /\ \A d \in Drafts, v \in Versions :
       /\ WF_vars(LeaseExpires(d, v)) /\ WF_vars(BackoffPasses(d, v))
       /\ SF_vars(\E w \in Workers : Claim(w, d, v) \/ Exhaust(w, d, v))

FairSpec == Spec /\ Fairness

-----------------------------------------------------------------------------
(***************************************************************************)
(* Properties.                                                             *)
(***************************************************************************)

\* What downloadProposal serves as ready (hosted-workflow.ts:363): a mark is
\* of the current version and its digest of the text stored under it, although
\* editors save new text while workers render the old.
ReadyIsCurrent ==
  \A d \in Drafts :
    draft[d].prepared # 0 => /\ draft[d].prepared = draft[d].version
                             /\ draft[d].digest = draft[d].version

\* The job list and the draft agree on the current version: its job is reported
\* completed exactly when the draft can be downloaded.
CompletedIsReady ==
  \A d \in Drafts : draft[d].version # 0 =>
    (job[d][draft[d].version].status = "completed" <=> draft[d].prepared = draft[d].version)

\* However often leases expire, commits go unanswered and invocations die, the
\* audit trail says once that a version was prepared, and only of a job that
\* was reported completed.
PreparedOnce ==
  \A d \in Drafts, v \in Versions :
    /\ audited[d][v] <= 1
    /\ audited[d][v] = 1 => job[d][v].status = "completed"

\* No job is run again after it completed or failed: there is no retry of a
\* preparation, a new version is needed.
FinalStays ==
  [][\A d \in Drafts, v \in Versions :
       job[d][v].status \in {"completed", "failed"} => job'[d][v] = job[d][v]]_vars

\* An invocation that lost its job to a later attempt changes neither the job
\* nor the draft (hosted-workflow.ts:499 and :569).
OnlyHolderWrites ==
  [][\A w \in Workers :
       worker[w].pc # "idle" /\ worker'[w] # worker[w]
         /\ Row(w).token # worker[w].attempt
       => UNCHANGED <<draft, job>>]_vars

\* Every job that is enqueued completes or fails.
JobSettles ==
  \A d \in Drafts, v \in Versions :
    job[d][v].status = "queued" ~> job[d][v].status \in {"completed", "failed"}
=============================================================================
