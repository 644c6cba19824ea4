------------------------------ MODULE RecipeJobs ------------------------------
(***************************************************************************)
(* Automation executions: rows of cpl_workflow_jobs with kind              *)
(* 'automation.recipe'.  A business event captures one job for every       *)
(* enabled recipe; worker invocations claim jobs under a 30 second lease   *)
(* and run two steps, "handoff" then "task", each in a transaction of its  *)
(* own; operators retry, cancel and replay; administrators edit recipes,   *)
(* memberships and entitlements while all of that goes on.                 *)
(*                                                                         *)
(* Time is not a number here.  The code compares lease_expires_at and      *)
(* available_at with the clock and nothing else, so each job carries the   *)
(* two outcomes: "live" (the lease has not expired) and "due" (the back-   *)
(* off has passed), changed by steps of their own at any moment.           *)
(*                                                                         *)
(* A step's transaction is three actions (OpenStep, EnterStep, CommitStep) *)
(* because the database lets other transactions run between them.  The     *)
(* locks it holds are read off the worker's pc: the job row from OpenStep  *)
(* on, with FOR SHARE locks on the recipe, memberships and entitlements;   *)
(* the organization's advisory lock from EnterStep on.                     *)
(***************************************************************************)
EXTENDS Naturals

CONSTANTS
  Events,        \* business events, each one source record at one version
  Recipes,       \* automation recipes
  Jobs,          \* one job per captured (event, recipe): cpl_recipe_event_once
  EventOf,       \* the event of a job
  RecipeOf,      \* the recipe of a job
  LockOf,        \* the advisory lock of an event's source: 29 intake, 31 projects
  NoJob,         \* what an idle worker works on
  Workers,       \* concurrent invocations of processHostedJobs
  Operators,     \* browser sessions of people who may operate automations
  InitialBudget, \* max_attempts of a new job (3 in the schema)
  RetryGrant,    \* attempts a retry or replay adds (3 in the code)
  BudgetCap,     \* CHECK(max_attempts BETWEEN 1 AND 30)
  MaxVersion     \* bound on recipe and membership versions

ASSUME JobAssumption ==
  /\ EventOf \in [Jobs -> Events]
  /\ RecipeOf \in [Jobs -> Recipes]
  /\ LockOf \in [Events -> {29, 31}]
  /\ \A i, j \in Jobs : EventOf[i] = EventOf[j] /\ RecipeOf[i] = RecipeOf[j] => i = j
  /\ NoJob \notin Jobs

ASSUME BudgetAssumption ==
  /\ InitialBudget \in Nat \ {0} /\ RetryGrant \in Nat \ {0}
  /\ BudgetCap \in Nat /\ InitialBudget <= BudgetCap /\ RetryGrant <= BudgetCap
  /\ MaxVersion \in Nat \ {0}

VARIABLES
  recorded,  \* the events that are rows of cpl_business_events
  recipe,    \* cpl_automation_recipes joined with its current version row
  member,    \* the configuring identity's membership (role owner or admin)
  entitled,  \* the trigger's modules are on and a person owner is active
  current,   \* the events whose source record still is what the event saw
  job,       \* cpl_workflow_jobs
  ledger,    \* cpl_automation_attempts
  receipts,  \* cpl_automation_steps: the steps with an immutable receipt
  effects,   \* how often each step's domain mutation was committed
  worker,    \* worker invocations
  request    \* the retry or cancel an operator's browser keeps sending

orgVars == <<recorded, recipe, member, entitled, current>>
jobVars == <<job, ledger>>
stepVars == <<receipts, effects>>
vars == <<orgVars, jobVars, stepVars, worker, request>>

Steps == {"handoff", "task"}
Attempts == 1..BudgetCap
Waiting == {"queued", "retrying"}
Statuses == {"absent", "queued", "running", "retrying",
             "completed", "failed", "skipped", "cancelled"}
Settled == {"completed", "failed", "skipped", "cancelled"}
AttemptStatuses == {"none", "running", "succeeded", "retrying",
                    "failed", "skipped", "cancelled"}

\* A fresh lease token is drawn at every claim.  It is only ever compared with
\* the token of the same row, so the number of the claiming attempt stands for
\* it, and 0 for NULL.
JobRecord == [status : Statuses, revision : Nat, attempts : Nat, max : Nat,
              token : Nat, live : BOOLEAN, due : BOOLEAN,
              version : Nat, issued : Nat]
NoRow == [status |-> "absent", revision |-> 0, attempts |-> 0, max |-> 0,
          token |-> 0, live |-> FALSE, due |-> FALSE, version |-> 0, issued |-> 0]

Pcs == {"idle", "step", "authorized", "working", "passing", "finish"}
Outcomes == {"none", "completed", "skipped", "error"}
WorkerRecord == [pc : Pcs, job : Jobs \cup {NoJob}, attempt : Nat, max : Nat,
                 step : Steps, out : Outcomes]
Idle == [pc |-> "idle", job |-> NoJob, attempt |-> 0, max |-> 0,
         step |-> "handoff", out |-> "none"]

RequestRecord == [act : {"none", "retry", "cancel"}, job : Jobs \cup {NoJob},
                  expected : Nat, seen : Statuses, used : BOOLEAN]
NoRequest == [act |-> "none", job |-> NoJob, expected |-> 0,
              seen |-> "absent", used |-> FALSE]

TypeOK ==
  /\ recorded \subseteq Events
  /\ recipe \in [Recipes -> [version : Nat, enabled : BOOLEAN, auth : Nat]]
  /\ member \in [version : Nat, active : BOOLEAN]
  /\ entitled \in BOOLEAN
  /\ current \subseteq Events
  /\ job \in [Jobs -> JobRecord]
  /\ ledger \in [Jobs -> [Attempts -> AttemptStatuses]]
  /\ receipts \in [Jobs -> SUBSET Steps]
  /\ effects \in [Jobs -> [Steps -> Nat]]
  /\ worker \in [Workers -> WorkerRecord]
  /\ request \in [Operators -> RequestRecord]

Init ==
  /\ recorded = {}
  /\ recipe = [r \in Recipes |-> [version |-> 0, enabled |-> FALSE, auth |-> 0]]
  /\ member = [version |-> 1, active |-> TRUE]
  /\ entitled = TRUE
  /\ current = {}
  /\ job = [j \in Jobs |-> NoRow]
  /\ ledger = [j \in Jobs |-> [n \in Attempts |-> "none"]]
  /\ receipts = [j \in Jobs |-> {}]
  /\ effects = [j \in Jobs |-> [s \in Steps |-> 0]]
  /\ worker = [w \in Workers |-> Idle]
  /\ request = [o \in Operators |-> NoRequest]

-----------------------------------------------------------------------------
\* Locks, read off the workers' program counters.

InTransaction(w) == worker[w].pc \in {"authorized", "working", "passing"}

\* Seeded faults: the row is read without FOR UPDATE, the recipe without FOR SHARE.
NoRowLock(j) == FALSE
NoRecipeLock(r) == FALSE

RowLocked(j) == \E w \in Workers : InTransaction(w) /\ worker[w].job = j
RecipeShared(r) == \E w \in Workers : InTransaction(w) /\ RecipeOf[worker[w].job] = r
AuthorityShared == \E w \in Workers : InTransaction(w)
AdvisoryHeld(e) == \E w \in Workers :
  worker[w].pc \in {"working", "passing"} /\ LockOf[EventOf[worker[w].job]] = LockOf[e]

\* The queue fence every transaction of a worker checks.
Fenced(w) ==
  LET j == worker[w].job IN
  /\ job[j].status = "running"
  /\ job[j].token = worker[w].attempt
  /\ job[j].live

RecipeCurrent(j) ==
  recipe[RecipeOf[j]].enabled /\ recipe[RecipeOf[j]].version = job[j].version

IssuerCurrent(j) == member.active /\ member.version = job[j].issued

-----------------------------------------------------------------------------
\* Administration and business changes: transactions of the web process.

\* saveRecipe: create, edit, enable or disable.  Its UPDATE of the recipe row
\* waits for workers that hold the row FOR SHARE.
SaveRecipe(r, on) ==
  /\ member.active /\ entitled
  /\ recipe[r].version < MaxVersion
  /\ ~RecipeShared(r)
  /\ recipe' = [recipe EXCEPT ![r] = [version |-> @.version + 1, enabled |-> on,
                                      auth |-> member.version]]
  /\ UNCHANGED <<recorded, member, entitled, current, jobVars, stepVars, worker, request>>

\* A membership change of the configuring identity: every one of them bumps the
\* version; "active" also stands for the role still being owner or admin.
ChangeMembership(active) ==
  /\ member.version < MaxVersion
  /\ ~AuthorityShared
  /\ member' = [version |-> member.version + 1, active |-> active]
  /\ UNCHANGED <<recorded, recipe, entitled, current, jobVars, stepVars, worker, request>>

ChangeEntitlement ==
  /\ ~AuthorityShared
  /\ entitled' = ~entitled
  /\ UNCHANGED <<recorded, recipe, member, current, jobVars, stepVars, worker, request>>

\* The source record moves on (or back) under the same advisory lock the
\* worker's source check takes.
ChangeSource(e) ==
  /\ e \in recorded
  /\ ~AdvisoryHeld(e)
  /\ current' = IF e \in current THEN current \ {e} ELSE current \cup {e}
  /\ UNCHANGED <<recorded, recipe, member, entitled, jobVars, stepVars, worker, request>>

Captured(j) ==
  [status |-> "queued", revision |-> 1, attempts |-> 0, max |-> InitialBudget,
   token |-> 0, live |-> FALSE, due |-> TRUE,
   version |-> recipe[RecipeOf[j]].version, issued |-> recipe[RecipeOf[j]].auth]

\* emitCplBusinessEvent for a person's transition: the event row and one queued
\* job for each enabled recipe, with the source change, in one commit.
EmitEvent(e) ==
  /\ e \notin recorded
  /\ ~AdvisoryHeld(e)
  /\ recorded' = recorded \cup {e}
  /\ current' = current \cup {e}
  /\ job' = [j \in Jobs |-> IF EventOf[j] = e /\ recipe[RecipeOf[j]].enabled
                            THEN Captured(j) ELSE job[j]]
  /\ UNCHANGED <<recipe, member, entitled, ledger, stepVars, worker, request>>

-----------------------------------------------------------------------------
\* The passing of time.

LeaseExpires(j) ==
  /\ job[j].status = "running" /\ job[j].live
  /\ job' = [job EXCEPT ![j].live = FALSE]
  /\ UNCHANGED <<orgVars, ledger, stepVars, worker, request>>

BackoffPasses(j) ==
  /\ job[j].status # "absent" /\ ~job[j].due
  /\ job' = [job EXCEPT ![j].due = TRUE]
  /\ UNCHANGED <<orgVars, ledger, stepVars, worker, request>>

-----------------------------------------------------------------------------
\* processHostedJobs: the claiming transaction.

\* Seeded fault: a job whose worker died is never picked again.
ClaimableWaiting(j) == job[j].status \in Waiting /\ job[j].due /\ ~RowLocked(j)

\* FOR UPDATE SKIP LOCKED passes over a row a step's transaction holds.
Claimable(j) ==
  /\ \/ job[j].status \in Waiting /\ job[j].due
     \/ job[j].status = "running" /\ ~job[j].live
  /\ ~RowLocked(j)

SetRow(j, row) == job' = [job EXCEPT ![j] = row]

\* Seeded fault: attempts left open by a dead worker stay open.
LeaveAttempts(j, st) == ledger[j]

\* Every running attempt of job j is closed as st.
CloseAttempts(j, st) ==
  [n \in Attempts |-> IF ledger[j][n] = "running" THEN st ELSE ledger[j][n]]

Claim(w, j) ==
  /\ worker[w].pc = "idle"
  /\ Claimable(j)
  /\ job[j].attempts < job[j].max
  /\ SetRow(j, [job[j] EXCEPT !.status = "running", !.revision = @ + 1, !.attempts = @ + 1,
                              !.token = job[j].attempts + 1, !.live = TRUE])
  /\ ledger' = [ledger EXCEPT ![j] = [CloseAttempts(j, "retrying") EXCEPT
                                        ![job[j].attempts + 1] = "running"]]
  /\ worker' = [worker EXCEPT ![w] =
                  [pc |-> "step", job |-> j, attempt |-> job[j].attempts + 1,
                   max |-> job[j].max, step |-> "handoff", out |-> "none"]]
  /\ UNCHANGED <<orgVars, stepVars, request>>

\* A job whose budget is spent fails in the claiming transaction, and the
\* revision stays as it was.
Exhaust(w, j) ==
  /\ worker[w].pc = "idle"
  /\ Claimable(j)
  /\ job[j].attempts >= job[j].max
  /\ SetRow(j, [job[j] EXCEPT !.status = "failed", !.token = 0, !.live = FALSE])
  /\ ledger' = [ledger EXCEPT ![j] = CloseAttempts(j, "failed")]
  /\ UNCHANGED <<orgVars, stepVars, worker, request>>

-----------------------------------------------------------------------------
\* processCplAutomationJob: one transaction per step, then finish.

GoTo(w, pc) == worker' = [worker EXCEPT ![w].pc = pc]
Release(w) == worker' = [worker EXCEPT ![w] = Idle]
Conclude(w, out) == worker' = [worker EXCEPT ![w].pc = "finish", ![w].out = out]

\* cpl_automation_lock_authority: lock the job row and check the fence, then
\* the recipe, then the issuer; a failure ends the transaction.
OpenStep(w) ==
  LET j == worker[w].job IN
  /\ worker[w].pc = "step"
  /\ ~RowLocked(j)
  /\ \/ ~Fenced(w) /\ Release(w)
     \/ Fenced(w) /\ ~(RecipeCurrent(j) /\ IssuerCurrent(j)) /\ Conclude(w, "skipped")
     \/ Fenced(w) /\ RecipeCurrent(j) /\ IssuerCurrent(j) /\ GoTo(w, "authorized")
  /\ UNCHANGED <<orgVars, jobVars, stepVars, request>>

\* The step has a receipt of an earlier attempt.
Received(w) == worker[w].step \in receipts[worker[w].job]

\* The modules and the owner, then the advisory lock, a prior receipt, and the
\* source.  A step with a receipt only passes the closing fence.
EnterStep(w) ==
  LET j == worker[w].job IN
  /\ worker[w].pc = "authorized"
  /\ \/ ~entitled /\ Conclude(w, "skipped")
     \/ /\ entitled /\ ~AdvisoryHeld(EventOf[j])
        /\ \/ Received(w) /\ GoTo(w, "passing")
           \/ ~Received(w) /\ EventOf[j] \notin current /\ Conclude(w, "skipped")
           \/ ~Received(w) /\ EventOf[j] \in current /\ GoTo(w, "working")
  /\ UNCHANGED <<orgVars, jobVars, stepVars, request>>

\* An operation of the step fails: a listed code skips the job, any other one
\* is an error.  The transaction rolls back.
StepFails(w, out) ==
  /\ worker[w].pc \in {"step", "authorized", "working"}
  /\ Conclude(w, out)
  /\ UNCHANGED <<orgVars, jobVars, stepVars, request>>

AfterStep(w) ==
  IF worker[w].step = "handoff"
  THEN worker' = [worker EXCEPT ![w].pc = "step", ![w].step = "task"]
  ELSE Conclude(w, "completed")

\* The closing fence of withAutomationTransaction.  A lost lease rolls the
\* whole step back; otherwise mutation and receipt commit together.  The task
\* step needs the receipt of the handoff.
CommitStep(w) ==
  LET j == worker[w].job
      s == worker[w].step IN
  /\ \/ /\ worker[w].pc \in {"working", "passing"} /\ ~Fenced(w)
        /\ Release(w)
        /\ UNCHANGED stepVars
     \/ /\ worker[w].pc = "passing" /\ Fenced(w)
        /\ AfterStep(w)
        /\ UNCHANGED stepVars
     \/ /\ worker[w].pc = "working" /\ Fenced(w)
        /\ s = "task" => "handoff" \in receipts[j]
        /\ receipts' = [receipts EXCEPT ![j] = @ \cup {s}]
        /\ effects' = [effects EXCEPT ![j][s] = @ + 1]
        /\ AfterStep(w)
  /\ UNCHANGED <<orgVars, jobVars, request>>

\* The status the catch block of processCplAutomationJob chooses, from the
\* attempt and the budget read at the claim.
FinalStatus(w) ==
  IF worker[w].out # "error" THEN worker[w].out
  ELSE IF worker[w].attempt >= worker[w].max THEN "failed" ELSE "retrying"

AttemptStatus(st) == IF st = "completed" THEN "succeeded" ELSE st

Finish(w) ==
  LET j == worker[w].job
      st == FinalStatus(w) IN
  /\ worker[w].pc = "finish"
  /\ ~RowLocked(j)
  /\ \/ ~Fenced(w) /\ UNCHANGED jobVars
     \/ /\ Fenced(w)
        /\ SetRow(j, [job[j] EXCEPT !.status = st, !.revision = @ + 1,
                                    !.token = 0, !.live = FALSE, !.due = FALSE])
        /\ ledger' = [ledger EXCEPT ![j][worker[w].attempt] = AttemptStatus(st)]
  /\ Release(w)
  /\ UNCHANGED <<orgVars, stepVars, request>>

\* The process dies, or its connection does: the open transaction rolls back
\* and nothing is reported.
Crash(w) ==
  /\ worker[w].pc # "idle"
  /\ Release(w)
  /\ UNCHANGED <<orgVars, jobVars, stepVars, request>>

-----------------------------------------------------------------------------
\* SqlCplAutomationRepository: what operators do.

\* Seeded fault: whatever did not complete may be retried.
PermitsMore(act) == IF act = "retry" THEN {"failed", "retrying", "skipped", "cancelled"}
                    ELSE {"queued", "retrying", "running"}

Permits(act) == IF act = "retry" THEN {"failed", "retrying"}
                ELSE {"queued", "retrying", "running"}

\* The browser shows an execution and the person asks for an offered action;
\* the revision on the page becomes expectedRevision, under a new key.
ComposeRequest(o, act, j) ==
  /\ job[j].status \in Permits(act)
  /\ request' = [request EXCEPT ![o] = [act |-> act, job |-> j,
                   expected |-> job[j].revision, seen |-> job[j].status, used |-> FALSE]]
  /\ UNCHANGED <<orgVars, jobVars, stepVars, worker>>

\* Seeded fault: putting a job back does not count as a revision.
RequeuedUnseen(j) ==
  [job[j] EXCEPT !.status = "queued", !.due = TRUE, !.token = 0, !.live = FALSE,
                 !.max = IF job[j].attempts + RetryGrant > @
                         THEN job[j].attempts + RetryGrant ELSE @]

\* Seeded fault: a job whose budget is spent is put back without another attempt.
RequeuedSpent(j) ==
  [job[j] EXCEPT !.status = "queued", !.revision = @ + 1, !.due = TRUE,
                 !.token = 0, !.live = FALSE]

Requeued(j) ==
  [job[j] EXCEPT !.status = "queued", !.revision = @ + 1, !.due = TRUE,
                 !.token = 0, !.live = FALSE,
                 !.max = IF job[j].attempts + RetryGrant > @
                         THEN job[j].attempts + RetryGrant ELSE @]

\* control("retry"): the request may arrive any number of times; a key that was
\* used returns the execution as it is.
Retry(o) ==
  LET q == request[o]
      j == q.job IN
  /\ q.act = "retry" /\ ~q.used
  /\ ~RowLocked(j)
  /\ job[j].revision = q.expected
  /\ job[j].attempts + RetryGrant <= BudgetCap
  /\ job[j].status \in Permits("retry")
  /\ RecipeCurrent(j)
  /\ SetRow(j, Requeued(j))
  /\ request' = [request EXCEPT ![o].used = TRUE]
  /\ UNCHANGED <<orgVars, ledger, stepVars, worker>>

\* control("cancel")
Cancel(o) ==
  LET q == request[o]
      j == q.job IN
  /\ q.act = "cancel" /\ ~q.used
  /\ ~RowLocked(j)
  /\ job[j].revision = q.expected
  /\ job[j].status \in Permits("cancel")
  /\ SetRow(j, [job[j] EXCEPT !.status = "cancelled", !.revision = @ + 1,
                              !.token = 0, !.live = FALSE, !.due = TRUE])
  /\ ledger' = [ledger EXCEPT ![j] = CloseAttempts(j, "cancelled")]
  /\ request' = [request EXCEPT ![o].used = TRUE]
  /\ UNCHANGED <<orgVars, stepVars, worker>>

Replayable(e, j) ==
  /\ EventOf[j] = e
  /\ job[j].status \in {"failed", "retrying"}
  /\ job[j].attempts + RetryGrant <= BudgetCap
  /\ RecipeCurrent(j)

\* replayEvent under a new key: every captured job of the event that failed.
ReplayEvent(e) ==
  /\ \E j \in Jobs : Replayable(e, j)
  /\ job' = [j \in Jobs |-> IF Replayable(e, j)
                            THEN [Requeued(j) EXCEPT !.token = job[j].token, !.live = job[j].live]
                            ELSE job[j]]
  /\ UNCHANGED <<orgVars, ledger, stepVars, worker, request>>

-----------------------------------------------------------------------------
Administration ==
  \/ \E r \in Recipes, on \in BOOLEAN : SaveRecipe(r, on)
  \/ \E active \in BOOLEAN : ChangeMembership(active)
  \/ ChangeEntitlement
  \/ \E e \in Events : ChangeSource(e)
  \/ \E e \in Events : EmitEvent(e)

Time == \E j \in Jobs : LeaseExpires(j) \/ BackoffPasses(j)

TakeJob(j) == \E w \in Workers : Claim(w, j) \/ Exhaust(w, j)

WorkerStep(w) ==
  \/ OpenStep(w)
  \/ EnterStep(w)
  \/ \E out \in {"skipped", "error"} : StepFails(w, out)
  \/ CommitStep(w)
  \/ Finish(w)

Operation ==
  \/ \E o \in Operators, act \in {"retry", "cancel"}, j \in Jobs : ComposeRequest(o, act, j)
  \/ \E o \in Operators : Retry(o) \/ Cancel(o)
  \/ \E e \in Events : ReplayEvent(e)

Next ==
  \/ Administration
  \/ Time
  \/ \E j \in Jobs : TakeJob(j)
  \/ \E w \in Workers : WorkerStep(w) \/ Crash(w)
  \/ Operation

Spec == Init /\ [][Next]_vars

\* The scheduler keeps invoking the worker and picks the job that has waited
\* longest (ORDER BY available_at); an invocation that has not died goes on;
\* the clock moves.
Fairness ==
  /\ \A j \in Jobs : WF_vars(TakeJob(j))
  /\ \A w \in Workers : WF_vars(WorkerStep(w))
  /\ \A j \in Jobs : WF_vars(LeaseExpires(j)) /\ WF_vars(BackoffPasses(j))

FairSpec == Spec /\ Fairness
-----------------------------------------------------------------------------
\* Safety.

\* The attempt history agrees with the queue row: an attempt is "running" just
\* when the job is running and it is the job's latest attempt, and there is one
\* row for every attempt made.  Claiming over an expired lease, cancelling a
\* running job and exhausting its budget each have to close the row left open.
AttemptLedger ==
  \A j \in Jobs, n \in Attempts :
    /\ ledger[j][n] = "running" <=> job[j].status = "running" /\ n = job[j].attempts
    /\ ledger[j][n] = "none" <=> n > job[j].attempts
    /\ ledger[j][n] = "succeeded" => job[j].status = "completed" /\ n = job[j].attempts

\* A step's domain mutation is committed at most once however often the job is
\* claimed, retried or replayed, its receipt says so, and the task follows the
\* handoff.
StepsOnce ==
  \A j \in Jobs :
    /\ \A s \in Steps : effects[j][s] = IF s \in receipts[j] THEN 1 ELSE 0
    /\ "task" \in receipts[j] => "handoff" \in receipts[j]

\* An execution that reads "completed" has done both of its steps.
CompletedIsDone ==
  \A j \in Jobs : job[j].status = "completed" => receipts[j] = Steps

\* No attempt is made beyond the budget, no retry or replay raises the budget
\* past the CHECK constraint, and a job that waits always has an attempt left.
AttemptBudget ==
  \A j \in Jobs :
    /\ job[j].attempts <= job[j].max /\ job[j].max <= BudgetCap
    /\ job[j].status \in Waiting => job[j].attempts < job[j].max

\* Two invocations are never inside transactions of the same job, and one that
\* is inside still owns the row: cancel, retry, replay and the next claim wait
\* for it or pass over it.
OneTransactionPerJob ==
  \A w \in Workers : InTransaction(w) =>
    /\ job[worker[w].job].status = "running"
    /\ job[worker[w].job].token = worker[w].attempt
    /\ \A v \in Workers \ {w} : InTransaction(v) => worker[v].job # worker[w].job

\* At the instant a step commits, everything it was authorized by still holds:
\* the lease, the exact recipe version and its being enabled, the issuer's
\* membership version, the modules, and the source record.  CommitStep checks
\* only the lease; the locks have to do the rest.
CommitAuthorized ==
  [][\A j \in Jobs : receipts'[j] # receipts[j] =>
       /\ job[j].status = "running" /\ job[j].live
       /\ RecipeCurrent(j) /\ IssuerCurrent(j)
       /\ entitled /\ EventOf[j] \in current]_vars

\* Completed, skipped and cancelled executions stay as they are, and no step of
\* theirs commits afterwards, not even by an invocation that was under way.
FinalStays ==
  [][\A j \in Jobs : job[j].status \in {"completed", "skipped", "cancelled"} =>
       job'[j].status = job[j].status /\ receipts'[j] = receipts[j]]_vars

\* A retry or cancel takes effect only on the status its author saw: the
\* revision check catches every change that came between.
ControlsWhatWasSeen ==
  [][\A o \in Operators : request'[o].used /\ ~request[o].used =>
       job[request[o].job].status = request[o].seen]_vars

-----------------------------------------------------------------------------
\* Liveness, under FairSpec.

\* Every captured or requeued job comes to rest, even when every invocation
\* that takes it dies: the attempt budget runs out.
JobSettles ==
  \A j \in Jobs : job[j].status \in {"queued", "running", "retrying"} ~> job[j].status \in Settled

-----------------------------------------------------------------------------
\* What an execution promises, whatever the queue does.

Phase(st) ==
  IF st \in {"queued", "running", "retrying"} THEN "open"
  ELSE IF st \in {"skipped", "cancelled"} THEN "dropped" ELSE st

Execution == INSTANCE RecipeExecution WITH
  phase <- [j \in Jobs |-> Phase(job[j].status)],
  done <- receipts

\* The queue implements the abstract execution: steps are performed in order
\* and once, only while the execution is open, and it is completed only with
\* both done; of the closed ones only a failed one is reopened.
ImplementsExecution == Execution!Spec
=============================================================================
