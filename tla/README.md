# CPL Command Center: TLA+ models and proofs

The Command Center is a multi-tenant web product for service companies (inquiries
and leads, proposals, projects, field records, reports, delivery) over one
PostgreSQL database. People change it through web transactions. Scheduled worker
invocations change it through a job queue. Neither side waits for the other, an
invocation may die anywhere, a page may be hours old when it is saved, files are
rendered outside of any transaction, and authority may be withdrawn at any
moment. This directory models the parts where those facts meet, checks them with
TLC and proves the core of them with TLAPS.

All source paths below are relative to `src/packages/database/src/` unless they
begin with another directory.

## 1. Inventory

### 1.1 Parts, their state, operations and interactions

| Part | State | Operations | Meets |
|---|---|---|---|
| **Inbound receipts** (`cpl-ingestion-worker.ts`, `cpl-inbound-repository.ts`) | originals, receipts, attempts, nonces, the form's configuration and keys | accept a signed form; process a receipt into a lead; acknowledge; report a failure; retry, reprocess, dismiss | intake; the queue |
| **Gmail synchronization** (`cpl-gmail-sync.ts`, `cpl-integration-repository.ts`, `migrations/0038`, `0039`) | source row with generation, checkpoint, page cursor and operation token; one active job; originals | authorize, read labels, save a selection, pause, resume, disconnect, sync now; a worker turn of listing, storing, capturing, advancing | Gmail; the queue; inbound receipts |
| **Intake** (`cpl-intake-repository.ts`) | leads, duplicates, consent | revision-checked edits under advisory lock 29; readiness | emits `lead.ready`; commercial |
| **Commercial** (`cpl-commercial-repository.ts`) | opportunities, proposal versions, PDFs, outcomes, awards | create once for a lead, edit, new version, review, approve, render and file the PDF, record an outcome, award and launch the project | intake before it, execution after it |
| **Execution and field** (`cpl-execution-repository.ts`, `cpl-field-repository.ts`, `src/apps/web/lib/cpl-field*.ts`) | projects, visits, field records and their versions, photos and their derivatives | plan, move, reopen and complete visits; edit records; upload, process and retry photos; put a project on hold, close it | reports; the evidence store |
| **Reports** (`cpl-report-repository.ts`) | versions, sources, reviews, approval attempts, PDFs | compose, refresh, submit, request changes; approve in three steps around a rendering | field records; delivery |
| **Delivery and closeout** (`cpl-delivery-repository.ts`) | packages and their events; facts, policy, dispositions, overrides | edit, confirm, export, send, acknowledge; evaluate whether a project can be closed | reports; execution |
| **Automation executions** (`cpl-automation-worker.ts`, `cpl-automation-repository.ts`, `cpl-business-events.ts`, `migrations/0034`) | events, recipes and their versions, jobs, attempts, step receipts | capture an event; claim; two steps, each a fenced transaction; finish; cancel, retry, replay; save or disable a recipe | every store that emits an event; memberships and entitlements; the queue |
| **Hosted job dispatch and proposal preparation** (`hosted-workflow.ts`) | `cpl_workflow_jobs`, proposal drafts with their preparation mark | claim the longest-waiting job; render; complete, put back or fail; edit; download | all job kinds share the table and the claim |
| **Company administration** (`cpl-administration-repository.ts`, `tenant-repository.ts`) | memberships, invitations | change a member, invite, reissue, revoke, accept; every other transaction of the product reads its access under a shared lock | everything, through the access check |
| **Company configuration** (`cpl-company-repository.ts`) | settings, catalog, directory | versioned edits | intake, commercial |
| **Sign-in, local owner** (`packages/security`, `hosted-auth-store.ts`) | attempts, sessions | start, complete, rotate, expire, select an organization | every request |
| **Evidence and artifacts** (`packages/artifacts`) | objects, manifests, PDFs | upload, render | field records, reports, proposals |
| **Demonstration engines** (`*-executor.ts`, `job-claim.ts`, `apps/worker/src/runtime.ts`) | an earlier single-company product | seeded runs over a queue of its own; refused outside of tests (`assertLegacyRuntimeTestOnly`) | itself |
| **Assistant and voice, connectors, domain rules, web, scripts, UI** | presentation, provider streams, validation, tooling | | |

### 1.2 What is hard, and what would make each part correct

*Inbound receipts.* A customer's site may send a form twice, late, or again
after the form or its key changed. The lead commits before the job that made it
is acknowledged. It is correct when what was accepted is kept, when a repeated
delivery is answered as the first was, and when one inquiry becomes one lead.

*Commercial.* Two people may create the proposal of one lead, a page may be old,
an outcome may be sent again after its answer was lost, and a PDF is rendered
between two transactions. It is correct when a lead has one proposal, when what
a customer received is the text that was agreed, and when what was awarded and
launched stays as it was.

*Visits.* Planning, completing, reopening, and closing or resuming a project
are operations of two stores that have to keep each other's promises: nobody is
in two places, a closed project is over, a completed visit's record was ready.

*Photos.* Preparing a photo works outside the database between transactions,
under a lease, and may die between any two. It is correct when a photo that is
called ready has its files, when a completed visit leaves nothing pending, and
when a pending photo does not stay so for ever while its record may be edited.

*Reports.* Approval prepares, renders outside any transaction, and completes;
the records, the branding and the approver's role may change meanwhile, and the
request may be sent again. It is correct when the approved PDF is of the version
that was reviewed and of sources that still stand.

*Delivery and closeout.* What was confirmed may change before it is sent, and
what an override was given for may change before closeout. It is correct when
what was sent was approved then and when readiness rests on what is there now.

*Leads.* Whether a lead is ready is never stored: it is derived from its
answers, its duplicates and the policy of the moment, while other leads appear,
change and hand over. A review speaks of the candidates' versions that it saw,
and an item of the attention list is passed over by a digest of what it said. It
is correct when no lead is handed over that was not compared, as it is, with
every lead that looks like it, and when nobody is spared a notice that says
something new.

*Automation.* A job is claimed under a 30 second lease, and nothing stops a
holder that outlives it. A step's mutation and its receipt commit together, but
the two steps and the outcome are three transactions. Between what a step reads
(recipe, issuer, modules, source) and its commit, the web process goes on. It is
correct when a step takes effect once, only under authority that still holds at
its commit; when attempts agree with the job; when final outcomes stay; and when
operators act only on what they saw.

*Proposal preparation.* The lease is compared at the beginning and not at the
end, an editor may save between claim and rendering, and a commit's answer may
be lost. It is correct when what is offered for download is of the current text
and the job list says the same.

*Administration.* Access is read under shared row locks that last until commit,
so two owners who change one another could wait for one another; the code orders
an advisory lock before them. It is correct when those who keep that order never
wait for one another in a circle, nobody works under withdrawn access, an owner
remains, and an invitation admits once and on unchanged authority.

*Gmail.* A turn keeps no transaction open while it talks to Gmail, so lease,
operation, authority and configuration may change between any two of its steps.
Pages are finished over several turns. It is correct when the checkpoint passes
no message that was neither captured nor found gone, when coverage is not called
complete of more than is there, and when an active connection is polled.

The hazards of `PROJECT.json` list these at the lines where they bite.

## 2. The modules

| Module | What it is |
|---|---|
| `RecipeExecution` | abstract: two steps in order, each once, completed only with both, only failed ones reopened |
| `RecipeJobs` | automation executions over the queue, with workers, leases, attempts, crashes, administration and operators |
| `ProposalPrepare` | proposal drafts, their preparation jobs and the invocations that render them |
| `Membership` | memberships, invitations, and the locks that keep access alive |
| `LockOrder` | the order in which seventeen kinds of transaction take their locks, and who waits for whom |
| `GmailSync` | a Gmail connection, its jobs and turns, and the people who manage it |
| `InboundIntake` | abstract: an inquiry is received once, becomes one lead, and ends or waits for somebody |
| `InboundReceipts` | signed and unsigned forms, their receipts, and the invocations that make leads of them |
| `LeadReview` | leads, duplicate reviews, the intake policy, and the attention list derived from them |
| `ApprovedArtifact` | abstract: a document is written, agreed to, and published as it was agreed |
| `Commercial` | proposals from their creation to award and launch, with PDFs, outcome requests and old pages |
| `FieldVisits` | projects, visits and field records, with old pages |
| `PhotoUploads` | photos of field records, the requests that prepare them, and the store of their files |
| `ReportApproval` | reports, their sources, and approval in three steps around a rendering |
| `Delivery`, `Closeout` | packages with their events; closeout extends it by policy, facts, dispositions and overrides |
| `...Proofs` | the theorems of section 4 |
| `MC...` | instances for TLC: symmetry, and the *aspects* of a model that one run explores one at a time |

`Closeout` EXTENDS `Delivery`; an `MC` module extends the modules its run is about.
The others meet at what each takes from outside as a nondeterministic input: an
award is what makes a project (`FieldVisits` begins with projects), a completed
record is a source of a report, an approved report is what a package holds.

### 2.1 RecipeJobs

*State.* `job` is the row of `cpl_workflow_jobs` (status, revision, attempts,
max_attempts, lease, the recipe version and membership version it was captured
with); `ledger` the attempt rows; `receipts` the step rows; `effects` how often
each step's mutation really committed, which no table tells; `worker` the
invocations and what they remember of their claim; `request` a retry or cancel
that a browser keeps sending; the rest is the organization: recipes, the
issuer's membership, modules, and whether an event's source record is still what
it was.

*Time.* The code only compares `lease_expires_at` and `available_at` with the
clock. Each row carries the outcomes, `live` and `due`, and they change at any
moment. A lease token is only compared with the token of its own row, so the
number of the claiming attempt stands for it.

*Transactions.* A step is three actions because others run between them:
`OpenStep` (`cpl_automation_lock_authority`: job row, recipe, issuer),
`EnterStep` (modules, advisory lock 29 or 31, prior receipt, source) and
`CommitStep` (the closing fence). The locks held are read off the program
counter; whoever needs a held lock waits. `Claim` passes over a locked row, as
`SKIP LOCKED` does. `Finish` and the operators' actions are one transaction each.
`StepFails` stands for every failure of a step's own operations: a listed code
skips, any other is an error. `Crash` rolls back what was open.

*The abstract specification.* `RecipeExecution` knows phases and steps and no
queue. `ImplementsExecution` maps a job's status to a phase and `receipts` to
what is done; claims, attempts, leases and edits are stutters.

### 2.2 ProposalPrepare

A draft has a version, the version and digest it was prepared at, and one job
per version, enqueued by the edit. The renderer's transaction is split where it
waits: fence, draft lock, authority, update. A commit may go unanswered, after
which the invocation runs its error path. Text stands for itself by its version.

### 2.3 Membership and LockOrder

In `Membership` each transaction is of a kind (`work`, `change`, `invite`,
`accept`). Ordinary work reads its access and keeps the row shared.
Administration takes advisory lock 36 first, then its own access, then what it
changes. Invitations carry the version of the inviter's membership. `admitted`
counts how often each admitted somebody and `disturbed` records that its inviter
was ever changed; both are history that no table holds.

`LockOrder` has no data, only what a transaction locks and in which mode: a plan
is the sequence of its lock statements, one statement may lock several rows, and
row locks and advisory locks are released together at the end. A person has
several sessions, each a row of its own; a transaction begins with the session it
came in by, and a revocation of all sessions goes on to lock another (one stands
for all of them). `Ordered` are the plans that keep one order; the three others,
`selectOrganization` and the two revocations of all sessions, lock a membership
or a second session when they already have the identity. `FullSpec` runs them all,
and `OrderedNoDeadlock` says of it that the former never wait in a circle of
their own. Left out are rows that are locked only under an exclusive advisory
lock, since nobody can meet there; an administrator's row, which is taken only
under the identity's row in the same mode; the organization's row, which nobody
locks exclusively; foreign keys' key-share locks; transactions that take a
single lock (sign-in, revocation of one session by its token); and provisioning,
which makes a company of its own.

### 2.4 GmailSync

*State.* `source` is the row with its configuration; `operation` who holds the
25 second operation token; `job` the latest synchronization job (a unique index
allows one active); `worker` a turn with its local cursor, `human` a label
operation or save under way. A lease is who drew its token while it lives, and
nobody once it expired. `since`, `listed`, `skipped` and `owed` are history for
the properties: where the present line of checkpoints began, whether it began
with a listing, what was found gone, and what of the stored pages is still to be
accounted for.

*Gmail* is a growing record of messages that enter and leave the label; its
length is the history id. `ListHistory` reads a page of it; the last page reaches
the id it returns. That is an assumption about Gmail. `HistoryGone` may happen
at any listing.

*Steps.* A turn's transactions and its calls to Gmail are separate actions:
`Acquire`, `StartCursor`, `PersistCursor`, `ListMessages` / `ListHistory`,
`PersistPage`, `GetMessage`, `Capture`, `CloseTurn`, and the three ways to end
otherwise (`Refused` then `End`, `Fails` then `Report`, `FailExhausted`), with
`Release` as the `finally` block. Every transaction is `Guarded` by the lease,
the authority function and, once taken, the operation.

### 2.5 InboundReceipts

Every transaction of senders, administrators and invocations takes advisory lock
38 and is one step, except three: the failure report and the acknowledgement,
which take no advisory lock but are one update, and a person's retry, which reads
and then writes without locking the row, and is two steps. A body is its event
and a form; a key is the generation that it signs for, and a signature either
verifies or does not. A lease is who drew its token. `Verdict` is the order in
which a submission is judged, with its early returns; a nonce row remembers what
it was used for. `InboundIntake` has none of this: `ImplementsIntake` maps an
event's original, receipt, job and lead to the phase of one inquiry.

### 2.6 LeadReview

A lead has a face (what duplicates are found by), a number of answers (what the
policy may ask for), an assignee and a disposition. Every operation runs under
advisory lock 29. What makes a lead ready is a definition, evaluated where the
code evaluates it; a review binds the versions of the candidates that its
transaction reads, up to the limit of the query, and the version of the policy.
The attention list is derived, and an item is passed over by the digest of what
it said.

### 2.7 Commercial, ReportApproval and ApprovedArtifact

A proposal's creation is two steps: what the request read before lock 29, and the
transaction under it. Pages, outcome requests and renderers remember what they
were shown; a request may be sent again at any time. The PDF is rendered between
two transactions. A report's sources are a value per state of the field records,
and its approval is the code's three steps (prepare, store, complete) with a call
that may be repeated or abandoned between any two. `ApprovedArtifact` knows
text, agreement and publication; `ImplementsDocument` in either module maps
versions and files to it.

### 2.8 FieldVisits and PhotoUploads

Operations of `FieldVisits` run under advisory lock 31 and are one step; what
grows old is the page a person saves from. A plan is a set of hours; two visits
collide as the code's overlap query decides. `PhotoUploads` is all that happens
between: reserving, recording an original, claiming, storing derivatives, completing or
failing, each a transaction of its own; faults are counted so that they end. The
store of files keeps or loses them. A visit is open, completed or cancelled, and
its project under way or not; `FieldOpen` is what every edit of the record asks
of both (`cpl-field-repository.ts:150-164`).

A photo that is pending when its visit is cancelled, or when its project is held
or closed for good, stays pending: no edit of that record is accepted, a retry is
one, and nothing else settles it. `PendingSettles` therefore promises an end only
if the visit is not cancelled and the project under way from some time on.

### 2.9 Delivery and Closeout

A package is confirmed, exported, sent and acknowledged by versions, from pages;
its state is a column and also what the events of its version derive. The project
has the four statuses of the code and a revision; a package is refused while the
project is on hold or cancelled, and one of a *completed* project can still be
confirmed, exported and sent (`cpl-delivery-repository.ts:86-88`).

Readiness is evaluated and never stored. Overrides and dispositions are bound to
the evidence they were given on, and count only while it is the same. What is
evaluated are policy, facts, approvals, deliveries, the project with its
revision, visits (completed or not, or cancelled) and an issue reported in the
record. An issue comes with an answer and goes with one: when the record is saved
without it, or its visit is cancelled, there is none, and the project may become
ready in that very step. `NeverLatched` says which changes cannot leave it ready.
Issues entered by hand are left out.

## 3. Runs

"States" are distinct states. Every bound is a CONSTANT of its cfg or a named
definition of its MC module. Where a module has several regions that share too
little to be explored together, its run chooses an *aspect* in the initial state.

| Run | Bounds | States | Properties |
|---|---|---|---|
| `recipe_jobs` | 1 job, 2 invocations, 1 operator, versions to 2, budget 2, one more by retry or replay, capped at 3; `authority`: everything, until a budget would be raised; `budget`: budgets are raised, members stay, sources stay, modules change between invocations | 0.47 M | `AttemptLedger`, `AttemptBudget`, `OneTransactionPerJob`, `CommitAuthorized`, `ControlsWhatWasSeen`, `ImplementsExecution`, `JobSettles` |
| `proposal_prepare` | 1 draft, 2 versions, 2 invocations, 2 attempts, 2 membership versions | 0.27 M | `ReadyIsCurrent`, `PreparedOnce`, `OnlyHolderWrites`, `JobSettles` |
| `membership` | `access`: 2 people, 3 transactions at once; `life`: 3 people, 2 invitations, transactions in turn; `order`: locks of 2 transactions of any kind, or 3 with two workers, 2 people with 2 sessions each | 0.42 M | `OwnerRemains`, `AccessIsLive`, `RedeemedOnce`, `OrderedNoDeadlock`, `RaisedByOwner` |
| `gmail_sync` | `people`: 1 message, everything people do, 3 generations; `mail`: 2 messages, 3 changes of the label, pages of 2, 1 message a turn; `turns`: 2 invocations that overlap; 2 attempts | 1.7 M | `PolledOrGivenUp`, `CheckpointAccounts`, `HonestCoverage` |
| `inbound_receipts` | `senders`: 2 events, 2 nonces, 4 form versions, capacity 1; `workers`: 1 event, 2 form versions, 2 invocations, 2 attempts | 53 k | `AcceptedIsDurable`, `RetryConverges`, `ImplementsIntake`, `JobSettles` |
| `approvals` | `proposal`: 2 versions, 2 pages, 2 outcome requests, 1 renderer; `creation`: 3 requests of every kind for one lead; `report`: 4 states of the sources, 1 reviewer, 2 requests, 2 calls, 2 versions | 0.69 M | `OneProposal`, `AgreementStands`, `RecordedIsAnswered`, `CommitIsFresh`, `DocumentsAreArtifacts` |
| `visits` | `calendar`: 2 projects, 2 visits, 2 hours; `record`: 1 visit, 2 pages, revisions to 4; `leads`: 4 leads, 2 faces, limit 3; `attention`: 1 lead and a lookalike | 0.68 M | `NoDoubleBooking`, `ClosedProjectIsOver`, `CompletedIsReady`, `NoticeAgrees`, `HandoffIsReviewed` |
| `photo_uploads` | 1 photo, 2 requests, 1 retry key, 2 faults (a dead server, a lost answer or file, a hold of the project), revisions to 3; files kept: visit also cancelled, before other faults, and project held; originals lost: visit open or completed, project under way | 1.0 M | `ReadyIsStored`, `CompletedLeavesNothingPending`, `KeptSettles` |
| `closeout` | 2 reports, project revisions to 2; `packages`: 1 package, 2 pages, versions to 3; `delivered`: 1 page, 1 version, what reports and deliveries decide; `work`: what visits, their record and the project decide; 2 policies, 1 override | 1.8 M | `RowAgreesWithEvents`, `ReadyIsDelivered`, `SentWasApproved`, `NeverLatched` |
| `gmail_sync_reconnect` | 2 messages, 1 invocation, 4 generations | violated | `PagesAccounted`, section 6 |
| `photo_uploads_loss` | as `photo_uploads`, files may be lost | violated | `PendingSettles`, section 6 |
| `lock_order_selection` | 2 transactions, 2 people, 1 session each, those that keep the order with `selectOrganization` | violated | `NoDeadlock`, section 6 |

Why the bounds suffice for what is asked. Two invocations, pages or requests are
the fewest that can overlap over one row, and locks are per row or per
organization, so a third adds no new kind of conflict; where a third one could
(locks of three transactions, three creation requests) there are three. A budget
of two attempts has a first and a last one; one more by retry reaches the cap,
where the next request is refused. Two sessions of a person are those of a request
and of another request of the same person. Two versions tell current from stale.
Pages of two and one message a turn make a page outlive its turn; three changes
make a second page. A limit of three candidates is reached by four leads. The
theorems of section 4 remove the bounds for every safety property in the table.

Deadlock is checked except in the Gmail runs: a source that failed stays so while
people leave it alone.

### Fairness

Only `JobSettles` and `KeptSettles` need any. The scheduler invokes the worker
again and again (`src/scripts/cpl-development-runtime.ts`, every two seconds;
`src/apps/worker/cloudflare-scheduler.mjs`, on a cron trigger) and takes the job
that has waited longest (`ORDER BY available_at,created_at,id`), so each job that
can be claimed is claimed in the end: weak fairness of taking a job in
`RecipeJobs`, strong fairness of claiming (or exhausting) it in `ProposalPrepare`
and `InboundReceipts`, where invocations that hold other jobs may interrupt the
chance. An invocation that has not died goes on: weak fairness of its steps. The
clock moves: weak fairness of expiry and back-off. A retry that has read its
receipt goes on to write; where it meets an invocation that found the job
exhausted, both get their turn (strong fairness of either). For photos, a person
retries one that stays pending while its record may be edited (strong fairness,
since a request under way interrupts the chance). No fairness is assumed of success: every attempt may fail
or die. Operators and edits are never obliged to happen.

## 4. Proofs

Eight modules hold the theorems; each is for any sets and bounds that satisfy the
named assumption on the constants (`SyncAssumption`, `DeliveryAssumption` and so
on): sets of actors do not overlap, bounds are positive, a job is determined by
its event and recipe. None of the properties is inductive. Each module therefore
defines an invariant that is, with one lemma for each action (or group of actions
that disturb the same), and reads the properties off it. These invariants were
checked by TLC on the instances of section 3 before they were proved.

| Module | Theorems |
|---|---|
| `RecipeJobsProofs` | `TypeCorrect`, `Ledger`, `Budgets`, `Safety`, `Exclusion`, `Authorization`, `Finality`, `Control`, `Refinement` |
| `ProposalPrepareProofs` | `PrepareTypes`, `CurrentDownload`, `CompletedDownload`, `OneRecord`, `HolderWrites`, `JobsStayFinal` |
| `MembershipProofs` | `Ownership`, `LiveAccess`, `Redemption`, `Raising`, `Deadlock` |
| `FieldVisitsProofs` | `FreeCalendar`, `ProjectOver`, `CompletedReady`, `Submission`, `SavedAsSeen`; of leads `Noticing`, `HandingOver`; of photos `PhotoColumns`, `ReadyPhotos`, `CompletedVisits`, `Recording`, `ReadyStays` |
| `CommercialProofs` | `OneProposalOnly`, `Agreement`, `Asking`, `Answering`, `Printing`, `OutcomesStand`, `Approving`, `ProposalsAreDocuments` |
| `ReportApprovalProofs` | `Readiness`, `FiledBeforeOffered`, `Reviewing`, `FreshCommit`, `History`, `ReportIsDocument` |
| `InboundReceiptsProofs` | `ReceiptTypes`, `Durable`, `Converging`, `Backing`, `Completion`, `Refinement` |
| `ExchangeProofs` | of mail `ActiveIsPolled`, `CheckpointHolds`, `CoverageIsHonest`; of packages `RowAndEvents`, `Sending`, `CloseoutDelivers`, `Latching`, `Delivered` |

Type correctness is a theorem of every module as well, as the others need it.

*Automation.* That a receipt is written once depends on what an invocation inside
a transaction has read, and that depends on the row being its own. `IInv` adds, to
what each row satisfies (`JobInv`, `LedgerInv`, `StepInv`), what every busy
invocation knows (`WorkerInv`): its attempt is not of the future; while it owns
the row its copy of the budget is exact; past `OpenStep` the row is running under
its token and recipe and issuer are current, because their writers wait for its
locks; past `EnterStep` modules and source are too, and there is no receipt yet.
`Exclusive` says that two invocations are not inside of one job. `Control` needs
`RequestInv` besides: an unused request whose revision still matches meets the
status its author saw, or a running job whose budget ran out, since exhausting a
job does not raise its revision. `Refinement` takes the steps of the queue to
those of `RecipeExecution`.

*Proposal preparation.* `IInv` is what the rows agree on (`Data`), what an
invocation may trust at each statement of its transaction (`Working`, by
`Trusts`), and that one invocation holds a job (`OneHolder`).

*Membership and locks.* `Actors` says what a running transaction read of its own
access; with the shared row locks it gives `AccessIsLive`, and with lock 36
`OwnerRemains`. `Invites` says how an open invitation relates to its inviter,
that it is alone for its recipient, and what replaced it. `Deadlock` needs no
data: locks have ranks, every plan of `Ordered` asks for them in ascending order
except under lock 36, and so of those who wait for one another whoever waits for
the highest waits for none of them. That no two transactions have conflicting
locks is proved of all plans.

*Visits, leads, photos.* For visits the invariant is the calendar together with
what is written down of completed and closed work. For leads it says that nothing
remembered is of the future (`Aged`), which candidates a review compared
(`Compared`), and what a passed-over item was told (`Told`). For photos it relates
the columns, the requests' memories and the store (`PhotoFacts`).

*Proposals.* `Agreed` relates proposals, awards, projects and files; `Remembered`
says that what a page or a request shows is true or of an earlier revision;
`Made` says how the proposals of a lead are numbered and found again.
`ProposalsAreDocuments` then takes every step to one of `ApprovedArtifact` or to a
stutter. *Reports.* `Standing`, `Approved`, `Remembered` and `Rendered` say the
same of reports, and what an approval attempt between its steps may count on;
the theorems are stated of `Spec` under `ReportAssumption`, since the module is
instantiated and not extended by its run. `ReportIsDocument` is the refinement.

*Receipts.* Every step advances one inquiry in one of five ways (it stays, halts,
resumes, links its lead or is edited), and `IInv` says enough of versions,
senders, linkage, commits and retries to tell which. The theorem `Refinement`
follows step by step.

*Mail.* A checkpoint is written from what a turn remembers of a page, and another
turn may have stored it. `SyncInv` says what a cursor has passed of the line that
its checkpoint will close (`Passed`): everything up to its position is captured,
found gone with a warning, on its page or in hand, and for a listing everything
that was in the label and stayed. It is true of the stored page (`Saved`) and of
what a turn knows at each of its steps (`Trusts`), as long as the turn holds the
job at the source's generation; a generation never comes back and a lease returns
only by a claim, so whoever lost either writes nothing. Facts of the mailbox
(`AppendedMail`, `ListedFacts`, `EnteredMonotone`) are lemmas over any sequence
of events: a message takes nothing from the line, and a page names all that
happened in its span.

*Packages and closeout.* `Packed`: versions are numbered without gaps, nothing is
recorded of one that does not exist, and whoever records anything of a version
confirmed it first; then the state that the events derive has a closed form.
`Remembered`: the evidence of an override is of the past, of the project's revision
and of the visits' as of everything else, and whatever changes later has a
revision it has not seen. `CloseoutDelivers` says that closing out leaves packages
to `Delivery`.

## 5. Only model-checked

Liveness: `JobSettles` of `recipe_jobs`, `proposal_prepare` and
`inbound_receipts`, and `KeptSettles`. The prover has no rule for fairness and
ENABLED. `DocumentsAreArtifacts` is checked as one property of two documents and
proved as two theorems, one for each.

## 6. What was found

*Checkpoint over a dropped page* (`gmail_sync_reconnect`). The comment on the
page cursor (`cpl-gmail-sync.ts:25`) and
`src/docs/PHASE6_INTAKE_IMPLEMENTATION.md:95` say that the checkpoint advances
only after pending page work is accounted for. A connection whose authorization
is renewed while a stored page is half done loses that page and its checkpoint
(`cpl-integration-repository.ts:589`) and is paused. `resume` makes it active
again with the old selection. With a `from_now` selection the next turn takes
Gmail's present position as checkpoint (`cpl-gmail-sync.ts:342-356`) and reports
`complete_to_checkpoint`; messages of the dropped page, and mail since, are not
captured. Saving the selection anew states a new starting point and is not
counted. `CheckpointHolds` is no contradiction: it speaks of one line of
checkpoints, and this begins another.

*A photo in processing for ever* (`photo_uploads_loss`). `failPhoto`
(`cpl-field-repository.ts:991`) refuses while a photo is `processing` under
another token, even after the lease expired. A retry that finds the original lost
reports it without a token, because it has not claimed the photo
(`src/apps/web/lib/cpl-field-evidence.ts:100-110`). When the holder died after
claiming and the original is then lost, the photo stays in `processing` and keeps
its visit from being completed; `src/docs/LOCAL_PHASE3_TESTING.md:26` says that
processing must finish or reach a recoverable failed state.

*Two lock orders* (`lock_order_selection`). `changeMember`
(`cpl-administration-repository.ts:458`) has a person's membership and waits for
his identity row; `selectOrganization` of the same person has the identity row
and waits for the membership (`hosted-auth-store.ts:308`), without lock 36.
PostgreSQL ends one of the two, and nothing repeats it. The comment at
`tenant-repository.ts:417-419` states the order that prevents this among the
others.

A revocation of all sessions has the same kind of circle, which is not the subject
of a run: it has its own session and the identity row, and updates the other
sessions of the identity (`hosted-auth-store.ts:284-288`), of which a request of
the same person may hold one `FOR SHARE` and wait for the identity
(`tenant-repository.ts:295-300`). So has `revokeAllSessions`
(`tenant-repository.ts:319-327`, which only tests call): two of them share a
session and then both want to write it. `Deadlock` proves that the other plans
have no circle among themselves, whatever these three do.

Noted while modelling, and not the subject of a run:

- A turn that finds the connection busy at its last attempt, or meets a revoked
  authority that is restored later, leaves the source active without a job
  (`cpl-gmail-sync.ts:559-569`); `PolledOrGivenUp` names these exceptions. A
  person has to ask for a synchronization.
- An error before a turn has a cursor sets coverage to `incomplete`, which every
  later line of pages then inherits as `CPL_GMAIL_PRIOR_COVERAGE_INCOMPLETE`.
- Exhausting an automation job leaves its revision as it was
  (`hosted-workflow.ts:436`), so a request made for the running job may still
  match it; the status check refuses or accepts it by what it is.
- Saving a recipe makes the queued jobs of its earlier version end as skipped,
  and replay takes only failed ones.
- The comment at `cpl-action-attention.ts:5-7` says that the same revision of a
  lead never recreates a dismissed item. The digest also covers readiness and the
  proposed action, so a saved policy, a lookalike's edit or a member who leaves
  reopens the item of an unchanged lead.
- An edit of a ready lead raises its version without another `lead.ready` event,
  so a captured recipe is skipped with `CPL_AUTOMATION_SOURCE_CHANGED`.
- A duplicate review records the candidates as they are at its commit, also ones
  that appeared after the reviewer's page was loaded.
- `retryReceipt` (`cpl-integration-repository.ts:1130-1153`) compares the revision
  before its write without locking the row; a failure report in between is
  overwritten.

## 7. Not modelled, and why

Validation, normalization and rendering are inputs that are already valid, or
digests. Row-level security and database roles are a static configuration.
Credential refresh in Gmail turns (`cpl-gmail-sync.ts:309`) is its errors, and
whether a connection ever catches up with mail that keeps arriving
(`cpl-gmail-sync.ts:369`) needs a bound on Gmail that the code does not have.
Sign-in and sessions, the local owner, company configuration and the directory
are not modelled so far; the demonstration engines are refused outside of tests;
the assistant, connectors, web pages and scripts are presentation, streams or
tooling. `PROJECT.json` lists each with its reason.

## 8. Plan

1. `HostedSessions`: one-time attempts, session rotation and expiry, selection of
   an organization, and revocation; composed with `Membership` at the access
   check.
2. Credential refresh in `GmailSync`: the revision of a credential as a
   compare-and-set of two holders.
3. Proofs: that what a person saves was what he saw, for the remaining stores
   (packages, leads); that `LockOrder` with the selection reordered behind lock 36
   has no circle.
