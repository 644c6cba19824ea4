--------------------------- MODULE RecipeJobsProofs ---------------------------
(***************************************************************************)
(* Theorems about RecipeJobs for every set of events, recipes, jobs,       *)
(* workers and operators and every budget the assumptions allow.           *)
(*                                                                         *)
(* First the inductive invariant: one lemma per action says that the       *)
(* action preserves it.  Under it every step of the queue is of one of     *)
(* five kinds, and the action properties and the refinement follow from    *)
(* the kind alone.                                                         *)
(***************************************************************************)
EXTENDS RecipeJobs, TLAPS

\* What each row of the queue satisfies on its own.
JobInv(j) ==
  /\ EventOf[j] \notin recorded => job[j].status = "absent"
  /\ job[j].status = "absent" => job[j].attempts = 0
  /\ job[j].status = "running" => job[j].token = job[j].attempts /\ job[j].attempts > 0
  /\ job[j].status # "running" => job[j].token = 0 /\ job[j].live = FALSE
  /\ job[j].attempts <= job[j].max /\ job[j].max <= BudgetCap
  /\ job[j].status \in Waiting => job[j].attempts < job[j].max
  /\ job[j].status = "completed" => receipts[j] = Steps

LedgerInv(j) ==
  \A n \in Attempts :
    /\ ledger[j][n] = "running" <=> job[j].status = "running" /\ n = job[j].attempts
    /\ ledger[j][n] = "none" <=> n > job[j].attempts
    /\ ledger[j][n] = "succeeded" => job[j].status = "completed" /\ n = job[j].attempts

StepInv(j) ==
  /\ \A s \in Steps : effects[j][s] = IF s \in receipts[j] THEN 1 ELSE 0
  /\ "task" \in receipts[j] => "handoff" \in receipts[j]

\* What each busy invocation knows: its claim is of the past, its snapshot of
\* the budget is exact while it owns the row, and its locks keep true what
\* its transaction has read.
WorkerInv(w) ==
  LET j == worker[w].job IN
  worker[w].pc # "idle" =>
    /\ j \in Jobs
    /\ worker[w].attempt > 0 /\ worker[w].attempt <= job[j].attempts
    /\ job[j].status = "running" /\ job[j].token = worker[w].attempt
         => worker[w].max = job[j].max
    /\ worker[w].pc = "finish" =>
         /\ worker[w].out # "none"
         /\ worker[w].out = "completed" => receipts[j] = Steps
    /\ worker[w].pc # "finish" /\ worker[w].step = "task" => "handoff" \in receipts[j]
    /\ InTransaction(w) =>
         /\ job[j].status = "running" /\ job[j].token = worker[w].attempt
         /\ RecipeCurrent(j) /\ IssuerCurrent(j)
    /\ worker[w].pc \in {"working", "passing"} => entitled
    /\ worker[w].pc = "working" =>
         worker[w].step \notin receipts[j] /\ EventOf[j] \in current
    /\ worker[w].pc = "passing" => worker[w].step \in receipts[j]

Exclusive ==
  \A v, w \in Workers :
    InTransaction(v) /\ InTransaction(w) /\ worker[v].job = worker[w].job => v = w

\* An unused request whose revision still matches meets the status its author
\* saw, or a running job that has since exhausted its budget.
RequestInv(o) ==
  LET q == request[o] IN
  q.act # "none" =>
    /\ q.job \in Jobs
    /\ q.seen \in Permits(q.act)
    /\ job[q.job].status # "absent" /\ q.expected <= job[q.job].revision
    /\ job[q.job].revision = q.expected =>
         job[q.job].status = q.seen \/ (q.seen = "running" /\ job[q.job].status = "failed")

IInv ==
  /\ TypeOK
  /\ \A j \in Jobs : JobInv(j) /\ LedgerInv(j) /\ StepInv(j)
  /\ \A w \in Workers : WorkerInv(w)
  /\ Exclusive

USE JobAssumption, BudgetAssumption
USE DEF Steps, Attempts, Waiting, Statuses, AttemptStatuses, Pcs, Outcomes

-----------------------------------------------------------------------------
LEMMA InitInv == Init => IInv
<1> SUFFICES ASSUME Init PROVE IInv
  OBVIOUS
<1>1. TypeOK
  BY DEF Init, TypeOK, JobRecord, NoRow, WorkerRecord, Idle, RequestRecord, NoRequest
<1>2. \A j \in Jobs : JobInv(j) /\ LedgerInv(j) /\ StepInv(j)
  BY DEF Init, JobInv, LedgerInv, StepInv, NoRow
<1>3. \A w \in Workers : WorkerInv(w)
  BY DEF Init, WorkerInv, Idle
<1>4. Exclusive
  BY DEF Init, Exclusive, InTransaction, Idle
<1>5. QED
  BY <1>1, <1>2, <1>3, <1>4 DEF IInv

LEMMA StutterInv == IInv /\ UNCHANGED vars => IInv'
  BY DEF IInv, vars, orgVars, jobVars, stepVars, TypeOK, JobInv, LedgerInv, StepInv,
         WorkerInv, Exclusive, InTransaction, RecipeCurrent, IssuerCurrent

LEMMA SaveRecipeInv ==
  ASSUME IInv, NEW r \in Recipes, NEW on \in BOOLEAN, SaveRecipe(r, on)
  PROVE  IInv'
<1> USE DEF SaveRecipe, orgVars, jobVars, stepVars
<1>1. TypeOK'
  BY DEF IInv, TypeOK
<1>2. \A j \in Jobs : (JobInv(j) /\ LedgerInv(j) /\ StepInv(j))'
  BY DEF IInv, JobInv, LedgerInv, StepInv
<1>3. ASSUME NEW w \in Workers PROVE WorkerInv(w)'
  <2>1. WorkerInv(w)
    BY DEF IInv
  <2>2. InTransaction(w) => RecipeOf[worker[w].job] # r
    BY DEF RecipeShared
  <2>3. QED
    BY <2>1, <2>2 DEF IInv, TypeOK, WorkerInv, InTransaction, RecipeCurrent, IssuerCurrent
<1>4. Exclusive'
  BY DEF IInv, Exclusive, InTransaction
<1>5. QED
  BY <1>1, <1>2, <1>3, <1>4 DEF IInv

LEMMA ChangeMembershipInv ==
  ASSUME IInv, NEW active \in BOOLEAN, ChangeMembership(active)
  PROVE  IInv'
<1> USE DEF ChangeMembership, orgVars, jobVars, stepVars
<1>1. TypeOK'
  BY DEF IInv, TypeOK
<1>2. \A j \in Jobs : (JobInv(j) /\ LedgerInv(j) /\ StepInv(j))'
  BY DEF IInv, JobInv, LedgerInv, StepInv
<1>3. ASSUME NEW w \in Workers PROVE WorkerInv(w)'
  <2>1. WorkerInv(w)
    BY DEF IInv
  <2>2. QED
    BY <2>1 DEF IInv, TypeOK, JobRecord, WorkerRecord, JobInv, WorkerInv, InTransaction, RecipeCurrent, IssuerCurrent, AuthorityShared
<1>4. Exclusive'
  BY DEF IInv, Exclusive, InTransaction
<1>5. QED
  BY <1>1, <1>2, <1>3, <1>4 DEF IInv

LEMMA ChangeEntitlementInv ==
  ASSUME IInv, ChangeEntitlement
  PROVE  IInv'
<1> USE DEF ChangeEntitlement, orgVars, jobVars, stepVars
<1>1. TypeOK'
  BY DEF IInv, TypeOK
<1>2. \A j \in Jobs : (JobInv(j) /\ LedgerInv(j) /\ StepInv(j))'
  BY DEF IInv, JobInv, LedgerInv, StepInv
<1>3. ASSUME NEW w \in Workers PROVE WorkerInv(w)'
  <2>1. WorkerInv(w)
    BY DEF IInv
  <2>2. QED
    BY <2>1 DEF IInv, TypeOK, JobRecord, WorkerRecord, JobInv, WorkerInv, InTransaction, RecipeCurrent, IssuerCurrent, AuthorityShared
<1>4. Exclusive'
  BY DEF IInv, Exclusive, InTransaction
<1>5. QED
  BY <1>1, <1>2, <1>3, <1>4 DEF IInv

LEMMA ChangeSourceInv ==
  ASSUME IInv, NEW e \in Events, ChangeSource(e)
  PROVE  IInv'
<1> USE DEF ChangeSource, orgVars, jobVars, stepVars
<1>1. TypeOK'
  BY DEF IInv, TypeOK
<1>2. \A j \in Jobs : (JobInv(j) /\ LedgerInv(j) /\ StepInv(j))'
  BY DEF IInv, JobInv, LedgerInv, StepInv
<1>3. ASSUME NEW w \in Workers PROVE WorkerInv(w)'
  <2>1. WorkerInv(w)
    BY DEF IInv
  <2>2. QED
    BY <2>1 DEF IInv, TypeOK, JobRecord, WorkerRecord, JobInv, WorkerInv, InTransaction, RecipeCurrent, IssuerCurrent, AdvisoryHeld
<1>4. Exclusive'
  BY DEF IInv, Exclusive, InTransaction
<1>5. QED
  BY <1>1, <1>2, <1>3, <1>4 DEF IInv

LEMMA EmitEventInv ==
  ASSUME IInv, NEW e \in Events, EmitEvent(e)
  PROVE  IInv'
<1> USE DEF EmitEvent, Captured, orgVars, jobVars, stepVars
<1>1. TypeOK'
  BY DEF IInv, TypeOK, JobRecord, WorkerRecord, RequestRecord
<1>2. \A j \in Jobs : (JobInv(j) /\ LedgerInv(j) /\ StepInv(j))'
  BY DEF IInv, JobInv, LedgerInv, StepInv, TypeOK, JobRecord
<1>3. ASSUME NEW w \in Workers PROVE WorkerInv(w)'
  <2>1. WorkerInv(w)
    BY DEF IInv
  <2>2. QED
    BY <2>1 DEF IInv, TypeOK, JobRecord, WorkerRecord, JobInv, WorkerInv, InTransaction, RecipeCurrent, IssuerCurrent, AdvisoryHeld
<1>4. Exclusive'
  BY DEF IInv, Exclusive, InTransaction
<1>5. QED
  BY <1>1, <1>2, <1>3, <1>4 DEF IInv

LEMMA LeaseExpiresInv ==
  ASSUME IInv, NEW k \in Jobs, LeaseExpires(k)
  PROVE  IInv'
<1> USE DEF LeaseExpires, orgVars, jobVars, stepVars
<1>1. /\ job \in [Jobs -> JobRecord] /\ job[k] \in JobRecord
  BY DEF IInv, TypeOK
<1>2. /\ job' \in [Jobs -> JobRecord]
      /\ \A j \in Jobs \ {k} : job'[j] = job[j]
       /\ job'[k].status = job[k].status
       /\ job'[k].revision = job[k].revision
       /\ job'[k].attempts = job[k].attempts
       /\ job'[k].max = job[k].max
       /\ job'[k].token = job[k].token
       /\ job'[k].live = FALSE
       /\ job'[k].due = job[k].due
       /\ job'[k].version = job[k].version
       /\ job'[k].issued = job[k].issued
  BY <1>1 DEF JobRecord
<1>3. TypeOK'
  BY <1>2 DEF IInv, TypeOK
<1>4. \A j \in Jobs : (JobInv(j) /\ LedgerInv(j) /\ StepInv(j))'
  BY <1>2 DEF IInv, JobInv, LedgerInv, StepInv
<1>5. ASSUME NEW w \in Workers PROVE WorkerInv(w)'
  <2>1. WorkerInv(w)
    BY DEF IInv
  <2>2. QED
    BY <1>2, <2>1 DEF WorkerInv, InTransaction, RecipeCurrent, IssuerCurrent
<1>6. Exclusive'
  BY DEF IInv, Exclusive, InTransaction
<1>7. QED
  BY <1>3, <1>4, <1>5, <1>6 DEF IInv

LEMMA BackoffPassesInv ==
  ASSUME IInv, NEW k \in Jobs, BackoffPasses(k)
  PROVE  IInv'
<1> USE DEF BackoffPasses, orgVars, jobVars, stepVars
<1>1. /\ job \in [Jobs -> JobRecord] /\ job[k] \in JobRecord
  BY DEF IInv, TypeOK
<1>2. /\ job' \in [Jobs -> JobRecord]
      /\ \A j \in Jobs \ {k} : job'[j] = job[j]
       /\ job'[k].status = job[k].status
       /\ job'[k].revision = job[k].revision
       /\ job'[k].attempts = job[k].attempts
       /\ job'[k].max = job[k].max
       /\ job'[k].token = job[k].token
       /\ job'[k].live = job[k].live
       /\ job'[k].due = TRUE
       /\ job'[k].version = job[k].version
       /\ job'[k].issued = job[k].issued
  BY <1>1 DEF JobRecord
<1>3. TypeOK'
  BY <1>2 DEF IInv, TypeOK
<1>4. \A j \in Jobs : (JobInv(j) /\ LedgerInv(j) /\ StepInv(j))'
  BY <1>2 DEF IInv, JobInv, LedgerInv, StepInv
<1>5. ASSUME NEW w \in Workers PROVE WorkerInv(w)'
  <2>1. WorkerInv(w)
    BY DEF IInv
  <2>2. QED
    BY <1>2, <2>1 DEF WorkerInv, InTransaction, RecipeCurrent, IssuerCurrent
<1>6. Exclusive'
  BY DEF IInv, Exclusive, InTransaction
<1>7. QED
  BY <1>3, <1>4, <1>5, <1>6 DEF IInv

LEMMA ClaimInv ==
  ASSUME IInv, NEW u \in Workers, NEW k \in Jobs, Claim(u, k)
  PROVE  IInv'
<1> USE DEF Claim, SetRow, orgVars, jobVars, stepVars
<1>1. /\ job \in [Jobs -> JobRecord] /\ job[k] \in JobRecord
      /\ ledger \in [Jobs -> [Attempts -> AttemptStatuses]]
      /\ worker \in [Workers -> WorkerRecord]
  BY DEF IInv, TypeOK
<1>2. /\ job' \in [Jobs -> JobRecord]
      /\ \A j \in Jobs \ {k} : job'[j] = job[j]
      /\ job'[k].status = "running" /\ job'[k].live = TRUE
      /\ job'[k].attempts = job[k].attempts + 1 /\ job'[k].token = job[k].attempts + 1
      /\ job'[k].max = job[k].max
  <2> DEFINE row == [job[k] EXCEPT !.status = "running", !.revision = @ + 1, !.attempts = @ + 1,
                                   !.token = job[k].attempts + 1, !.live = TRUE]
  <2>1. job' = [job EXCEPT ![k] = row]
    OBVIOUS
  <2>2. job[k].attempts + 1 \in Nat /\ job[k].revision + 1 \in Nat
    BY <1>1 DEF JobRecord
  <2>3. row \in JobRecord
    BY <1>1, <2>2 DEF JobRecord
  <2>4. /\ row.status = "running" /\ row.live = TRUE /\ row.max = job[k].max
        /\ row.attempts = job[k].attempts + 1 /\ row.token = job[k].attempts + 1
    BY <1>1 DEF JobRecord
  <2> HIDE DEF row
  <2>5. QED
    BY <1>1, <2>1, <2>3, <2>4
<1>3. /\ ledger' \in [Jobs -> [Attempts -> AttemptStatuses]]
      /\ \A j \in Jobs \ {k} : ledger'[j] = ledger[j]
      /\ \A n \in Attempts :
           ledger'[k][n] = IF n = job[k].attempts + 1 THEN "running"
                           ELSE IF ledger[k][n] = "running" THEN "retrying" ELSE ledger[k][n]
  BY <1>1 DEF CloseAttempts
<1>4. /\ worker' \in [Workers -> WorkerRecord]
      /\ \A w \in Workers \ {u} : worker'[w] = worker[w]
      /\ worker'[u].pc = "step" /\ worker'[u].job = k /\ worker'[u].step = "handoff"
      /\ worker'[u].attempt = job[k].attempts + 1 /\ worker'[u].max = job[k].max
  BY <1>1 DEF WorkerRecord, JobRecord
<1>5. job[k].attempts \in Nat /\ job[k].max \in Nat /\ job[k].attempts < job[k].max
  BY <1>1 DEF JobRecord
<1>6. /\ JobInv(k) /\ LedgerInv(k) /\ StepInv(k)
      /\ job[k].status \in {"queued", "retrying", "running"}
  BY DEF IInv, Claimable
<1>7. TypeOK'
  BY <1>2, <1>3, <1>4 DEF IInv, TypeOK
<1>8. \A j \in Jobs : (JobInv(j) /\ LedgerInv(j) /\ StepInv(j))'
  <2>1. JobInv(k)'
    BY <1>2, <1>5, <1>6 DEF JobInv
  <2>2. LedgerInv(k)'
    BY <1>2, <1>3, <1>5, <1>6 DEF LedgerInv
  <2>3. StepInv(k)'
    BY <1>6 DEF StepInv
  <2>4. QED
    BY <1>2, <1>3, <2>1, <2>2, <2>3 DEF IInv, JobInv, LedgerInv, StepInv
<1>9. ASSUME NEW w \in Workers PROVE WorkerInv(w)'
  <2>1. CASE w = u
    BY <1>2, <1>4, <1>5, <2>1 DEF WorkerInv, InTransaction
  <2>2. CASE w # u /\ worker[w].job = k
    <3>1. WorkerInv(w) /\ ~InTransaction(w)
      BY <2>2 DEF IInv, Claimable, RowLocked
    <3>2. worker[w].attempt \in Nat /\ worker'[w] = worker[w]
      BY <1>1, <1>4, <2>2 DEF WorkerRecord
    <3>3. worker[w].pc # "idle" => /\ worker[w].attempt <= job[k].attempts
                                   /\ job'[k].token # worker[w].attempt
      BY <1>2, <1>5, <2>2, <3>1, <3>2 DEF WorkerInv
    <3>4. ~InTransaction(w)'
      BY <3>1, <3>2 DEF InTransaction
    <3>5. QED
      BY <1>2, <1>5, <2>2, <3>1, <3>2, <3>3, <3>4 DEF WorkerInv, InTransaction
  <2>3. CASE w # u /\ worker[w].job # k
    <3>1. WorkerInv(w)
      BY DEF IInv
    <3>2. QED
      BY <1>2, <1>4, <2>3, <3>1 DEF WorkerInv, InTransaction, RecipeCurrent, IssuerCurrent
  <2>4. QED
    BY <2>1, <2>2, <2>3
<1>10. Exclusive'
  BY <1>4 DEF IInv, Exclusive, InTransaction
<1>11. QED
  BY <1>7, <1>8, <1>9, <1>10 DEF IInv

LEMMA ExhaustInv ==
  ASSUME IInv, NEW u \in Workers, NEW k \in Jobs, Exhaust(u, k)
  PROVE  IInv'
<1> USE DEF Exhaust, SetRow, orgVars, jobVars, stepVars
<1>1. /\ job \in [Jobs -> JobRecord] /\ job[k] \in JobRecord
      /\ ledger \in [Jobs -> [Attempts -> AttemptStatuses]]
  BY DEF IInv, TypeOK
<1>2. /\ job' \in [Jobs -> JobRecord]
      /\ \A j \in Jobs \ {k} : job'[j] = job[j]
      /\ job'[k].status = "failed" /\ job'[k].token = 0 /\ job'[k].live = FALSE
      /\ job'[k].attempts = job[k].attempts /\ job'[k].max = job[k].max
  BY <1>1 DEF JobRecord
<1>3. /\ ledger' \in [Jobs -> [Attempts -> AttemptStatuses]]
      /\ \A j \in Jobs \ {k} : ledger'[j] = ledger[j]
      /\ \A n \in Attempts :
           ledger'[k][n] = IF ledger[k][n] = "running" THEN "failed" ELSE ledger[k][n]
  BY <1>1 DEF CloseAttempts
<1>4. JobInv(k) /\ LedgerInv(k) /\ StepInv(k) /\ job[k].status = "running"
  BY <1>1 DEF IInv, Claimable, JobInv, JobRecord
<1>5. TypeOK'
  BY <1>2, <1>3 DEF IInv, TypeOK
<1>6. \A j \in Jobs : (JobInv(j) /\ LedgerInv(j) /\ StepInv(j))'
  BY <1>2, <1>3, <1>4 DEF IInv, JobInv, LedgerInv, StepInv
<1>7. ASSUME NEW w \in Workers PROVE WorkerInv(w)'
  <2>1. WorkerInv(w)
    BY DEF IInv
  <2>2. worker[w].job = k => ~InTransaction(w)
    BY DEF Claimable, RowLocked
  <2>3. QED
    BY <1>2, <2>1, <2>2 DEF WorkerInv, InTransaction, RecipeCurrent, IssuerCurrent
<1>8. Exclusive'
  BY DEF IInv, Exclusive, InTransaction
<1>9. QED
  BY <1>5, <1>6, <1>7, <1>8 DEF IInv

\* A step that moves one invocation only keeps the invariant if that invocation
\* meets its own part and enters a transaction only of a job nobody else is in.
LEMMA WorkerOnly ==
  ASSUME IInv, NEW u \in Workers,
         UNCHANGED <<orgVars, jobVars, stepVars, request>>,
         worker' \in [Workers -> WorkerRecord],
         \A w \in Workers \ {u} : worker'[w] = worker[w],
         WorkerInv(u)',
         InTransaction(u)' => \A w \in Workers \ {u} :
           InTransaction(w) => worker[w].job # worker'[u].job
  PROVE  IInv'
<1> USE DEF orgVars, jobVars, stepVars
<1>1. TypeOK'
  BY DEF IInv, TypeOK
<1>2. \A j \in Jobs : (JobInv(j) /\ LedgerInv(j) /\ StepInv(j))'
  BY DEF IInv, JobInv, LedgerInv, StepInv
<1>3. ASSUME NEW w \in Workers, w # u PROVE WorkerInv(w)'
  <2>1. WorkerInv(w) /\ worker'[w] = worker[w]
    BY <1>3 DEF IInv
  <2>2. QED
    BY <2>1 DEF WorkerInv, InTransaction, RecipeCurrent, IssuerCurrent
<1>4. Exclusive'
  BY DEF IInv, Exclusive, InTransaction
<1>5. QED
  BY <1>1, <1>2, <1>3, <1>4 DEF IInv

LEMMA ReleaseInv ==
  ASSUME IInv, NEW u \in Workers, Release(u),
         UNCHANGED <<orgVars, jobVars, stepVars, request>>
  PROVE  IInv'
<1>1. /\ worker' \in [Workers -> WorkerRecord] /\ worker'[u].pc = "idle"
      /\ \A w \in Workers \ {u} : worker'[w] = worker[w]
  BY DEF IInv, TypeOK, Release, Idle, WorkerRecord
<1>2. WorkerInv(u)' /\ ~InTransaction(u)'
  BY <1>1 DEF WorkerInv, InTransaction
<1>3. QED
  BY <1>1, <1>2, WorkerOnly

\* Ending a step early needs nothing; ending as completed needs both receipts.
LEMMA ConcludeInv ==
  ASSUME IInv, NEW u \in Workers, NEW out \in Outcomes \ {"none"}, Conclude(u, out),
         worker[u].pc # "idle", out = "completed" => receipts[worker[u].job] = Steps,
         UNCHANGED <<orgVars, jobVars, stepVars, request>>
  PROVE  IInv'
<1>1. /\ worker' \in [Workers -> WorkerRecord]
      /\ worker'[u].pc = "finish" /\ worker'[u].out = out /\ worker'[u].job = worker[u].job
      /\ worker'[u].attempt = worker[u].attempt /\ worker'[u].max = worker[u].max
      /\ \A w \in Workers \ {u} : worker'[w] = worker[w]
  <2> DEFINE row == [worker[u] EXCEPT !.pc = "finish", !.out = out]
  <2>1. worker \in [Workers -> WorkerRecord] /\ worker[u] \in WorkerRecord
    BY DEF IInv, TypeOK
  <2>2. worker' = [worker EXCEPT ![u] = row]
    BY <2>1 DEF Conclude, WorkerRecord
  <2>3. /\ row \in WorkerRecord /\ row.pc = "finish" /\ row.out = out
        /\ row.job = worker[u].job /\ row.attempt = worker[u].attempt /\ row.max = worker[u].max
    BY <2>1 DEF WorkerRecord
  <2> HIDE DEF row
  <2>4. QED
    BY <2>1, <2>2, <2>3
<1>2. WorkerInv(u)
  BY DEF IInv
<1>3. WorkerInv(u)' /\ ~InTransaction(u)'
  BY <1>1, <1>2 DEF WorkerInv, InTransaction, orgVars, jobVars, stepVars
<1>4. QED
  BY <1>1, <1>3, WorkerOnly

LEMMA GoToFacts ==
  ASSUME TypeOK, NEW u \in Workers, NEW pc \in Pcs, GoTo(u, pc)
  PROVE  /\ worker' \in [Workers -> WorkerRecord]
         /\ worker'[u].pc = pc /\ worker'[u].job = worker[u].job
         /\ worker'[u].step = worker[u].step
         /\ worker'[u].attempt = worker[u].attempt /\ worker'[u].max = worker[u].max
         /\ \A w \in Workers \ {u} : worker'[w] = worker[w]
<1> DEFINE row == [worker[u] EXCEPT !.pc = pc]
<1>1. worker \in [Workers -> WorkerRecord] /\ worker[u] \in WorkerRecord
  BY DEF TypeOK
<1>2. worker' = [worker EXCEPT ![u] = row]
  BY DEF GoTo
<1>3. /\ row \in WorkerRecord /\ row.pc = pc /\ row.job = worker[u].job
      /\ row.step = worker[u].step /\ row.attempt = worker[u].attempt /\ row.max = worker[u].max
  BY <1>1 DEF WorkerRecord
<1> HIDE DEF row
<1>4. QED
  BY <1>1, <1>2, <1>3

LEMMA OpenStepInv ==
  ASSUME IInv, NEW u \in Workers, OpenStep(u)
  PROVE  IInv'
<1> DEFINE k == worker[u].job
<1>1. worker[u].pc = "step" /\ ~RowLocked(k)
      /\ UNCHANGED <<orgVars, jobVars, stepVars, request>>
  BY DEF OpenStep
<1>2. CASE Release(u)
  BY <1>1, <1>2, ReleaseInv
<1>3. CASE Conclude(u, "skipped")
  BY <1>1, <1>3, ConcludeInv
<1>4. CASE Fenced(u) /\ RecipeCurrent(k) /\ IssuerCurrent(k) /\ GoTo(u, "authorized")
  <2>1. /\ worker' \in [Workers -> WorkerRecord]
        /\ worker'[u].pc = "authorized" /\ worker'[u].job = k
        /\ worker'[u].step = worker[u].step
        /\ worker'[u].attempt = worker[u].attempt /\ worker'[u].max = worker[u].max
        /\ \A w \in Workers \ {u} : worker'[w] = worker[w]
    BY <1>4, GoToFacts DEF IInv
  <2>2. WorkerInv(u)
    BY DEF IInv
  <2>3. WorkerInv(u)'
    BY <1>1, <1>4, <2>1, <2>2
       DEF WorkerInv, Fenced, InTransaction, RecipeCurrent, IssuerCurrent, orgVars, jobVars, stepVars
  <2>4. \A w \in Workers \ {u} : InTransaction(w) => worker[w].job # worker'[u].job
    BY <1>1, <2>1 DEF RowLocked
  <2>5. QED
    BY <1>1, <2>1, <2>3, <2>4, WorkerOnly
<1>5. QED
  BY <1>2, <1>3, <1>4 DEF OpenStep

LEMMA EnterStepInv ==
  ASSUME IInv, NEW u \in Workers, EnterStep(u)
  PROVE  IInv'
<1> DEFINE k == worker[u].job
           s == worker[u].step
<1>1. worker[u].pc = "authorized" /\ UNCHANGED <<orgVars, jobVars, stepVars, request>>
  BY DEF EnterStep
<1>2. CASE Conclude(u, "skipped")
  BY <1>1, <1>2, ConcludeInv
<1>3. ASSUME NEW pc \in {"passing", "working"}, GoTo(u, pc), entitled,
             pc = "passing" => s \in receipts[k],
             pc = "working" => s \notin receipts[k] /\ EventOf[k] \in current
      PROVE  IInv'
  <2>1. /\ worker' \in [Workers -> WorkerRecord]
        /\ worker'[u].pc = pc /\ worker'[u].job = k /\ worker'[u].step = s
        /\ worker'[u].attempt = worker[u].attempt /\ worker'[u].max = worker[u].max
        /\ \A w \in Workers \ {u} : worker'[w] = worker[w]
    BY <1>3, GoToFacts DEF IInv
  <2>2. WorkerInv(u) /\ InTransaction(u)
    BY <1>1 DEF IInv, InTransaction
  <2>3. WorkerInv(u)'
    BY <1>1, <1>3, <2>1, <2>2
       DEF WorkerInv, InTransaction, RecipeCurrent, IssuerCurrent, orgVars, jobVars, stepVars
  <2>4. \A w \in Workers \ {u} : InTransaction(w) => worker[w].job # worker'[u].job
    BY <2>1, <2>2 DEF IInv, Exclusive
  <2>5. QED
    BY <1>1, <2>1, <2>3, <2>4, WorkerOnly
<1>4. QED
  BY <1>2, <1>3 DEF EnterStep, Received

LEMMA StepFailsInv ==
  ASSUME IInv, NEW u \in Workers, NEW out \in {"skipped", "error"}, StepFails(u, out)
  PROVE  IInv'
<1>1. /\ worker[u].pc # "idle" /\ Conclude(u, out)
      /\ UNCHANGED <<orgVars, jobVars, stepVars, request>>
  BY DEF StepFails
<1>2. QED
  BY <1>1, ConcludeInv

LEMMA CrashInv ==
  ASSUME IInv, NEW u \in Workers, Crash(u)
  PROVE  IInv'
  BY ReleaseInv DEF Crash

\* Moving past a step whose receipt is there, within one job's row.
LEMMA AfterStepFacts ==
  ASSUME TypeOK, NEW u \in Workers, AfterStep(u)
  PROVE  /\ worker' \in [Workers -> WorkerRecord]
         /\ \A w \in Workers \ {u} : worker'[w] = worker[w]
         /\ worker'[u].job = worker[u].job
         /\ worker'[u].attempt = worker[u].attempt /\ worker'[u].max = worker[u].max
         /\ \/ /\ worker[u].step = "handoff"
               /\ worker'[u].pc = "step" /\ worker'[u].step = "task"
            \/ /\ worker[u].step = "task"
               /\ worker'[u].pc = "finish" /\ worker'[u].out = "completed"
<1>1. worker \in [Workers -> WorkerRecord] /\ worker[u] \in WorkerRecord
  BY DEF TypeOK
<1>2. worker[u].step \in Steps
  BY <1>1 DEF WorkerRecord
<1>3. CASE worker[u].step = "handoff"
  <2> DEFINE row == [worker[u] EXCEPT !.pc = "step", !.step = "task"]
  <2>1. worker' = [worker EXCEPT ![u] = row]
    BY <1>1, <1>3 DEF AfterStep, WorkerRecord
  <2>2. /\ row \in WorkerRecord /\ row.pc = "step" /\ row.step = "task"
        /\ row.job = worker[u].job /\ row.attempt = worker[u].attempt /\ row.max = worker[u].max
    BY <1>1 DEF WorkerRecord
  <2> HIDE DEF row
  <2>3. QED
    BY <1>1, <1>3, <2>1, <2>2
<1>4. CASE worker[u].step = "task"
  <2> DEFINE row == [worker[u] EXCEPT !.pc = "finish", !.out = "completed"]
  <2>1. worker' = [worker EXCEPT ![u] = row]
    BY <1>1, <1>4 DEF AfterStep, Conclude, WorkerRecord
  <2>2. /\ row \in WorkerRecord /\ row.pc = "finish" /\ row.out = "completed"
        /\ row.job = worker[u].job /\ row.attempt = worker[u].attempt /\ row.max = worker[u].max
    BY <1>1 DEF WorkerRecord
  <2> HIDE DEF row
  <2>3. QED
    BY <1>1, <1>4, <2>1, <2>2
<1>5. QED
  BY <1>2, <1>3, <1>4

LEMMA CommitStepInv ==
  ASSUME IInv, NEW u \in Workers, CommitStep(u)
  PROVE  IInv'
<1>1. /\ worker[u].pc \in {"working", "passing"}
      /\ UNCHANGED <<orgVars, jobVars, request>>
  BY DEF CommitStep
<1>2. /\ WorkerInv(u) /\ InTransaction(u)
      /\ worker \in [Workers -> WorkerRecord]
      /\ worker[u].job \in Jobs /\ worker[u].step \in Steps
  BY <1>1 DEF IInv, TypeOK, WorkerInv, InTransaction, WorkerRecord
<1>k. PICK k \in Jobs : k = worker[u].job
  BY <1>2
<1>s. PICK s \in Steps : s = worker[u].step
  BY <1>2
<1>3. CASE Release(u) /\ UNCHANGED stepVars
  BY <1>k, <1>s, <1>1, <1>3, ReleaseInv
<1>4. ASSUME AfterStep(u), \A j \in Jobs : receipts[j] \subseteq receipts'[j],
             s \in receipts'[k], receipts'[k] \subseteq Steps
      PROVE  WorkerInv(u)' /\ ~InTransaction(u)'
  <2>1. s = "task" => "handoff" \in receipts[k]
    BY <1>k, <1>s, <1>1, <1>2 DEF WorkerInv
  <2>2. /\ worker'[u].job = k
        /\ worker'[u].attempt = worker[u].attempt /\ worker'[u].max = worker[u].max
        /\ \/ s = "handoff" /\ worker'[u].pc = "step" /\ worker'[u].step = "task"
           \/ s = "task" /\ worker'[u].pc = "finish" /\ worker'[u].out = "completed"
    BY <1>k, <1>s, <1>4, AfterStepFacts DEF IInv
  <2>3. UNCHANGED job /\ receipts[k] \subseteq receipts'[k]
    BY <1>k, <1>s, <1>1, <1>2, <1>4 DEF jobVars
  <2>4. worker'[u].pc = "finish" => receipts'[k] = Steps
    <3>1. receipts'[k] \subseteq Steps
      BY <1>k, <1>s, <1>2, <1>4
    <3>2. QED
      BY <1>k, <1>s, <1>4, <2>1, <2>2, <2>3, <3>1
  <2>5. QED
    BY <1>k, <1>s, <1>2, <1>4, <2>2, <2>3, <2>4 DEF WorkerInv, InTransaction
<1>5. CASE worker[u].pc = "passing" /\ AfterStep(u) /\ UNCHANGED stepVars
  <2>1. /\ s \in receipts'[k] /\ \A j \in Jobs : receipts[j] \subseteq receipts'[j]
        /\ receipts'[k] \subseteq Steps
    BY <1>k, <1>s, <1>2, <1>5 DEF IInv, TypeOK, WorkerInv, stepVars
  <2>2. WorkerInv(u)' /\ ~InTransaction(u)'
    BY <1>k, <1>s, <1>4, <1>5, <2>1
  <2>3. /\ worker' \in [Workers -> WorkerRecord]
        /\ \A w \in Workers \ {u} : worker'[w] = worker[w]
    BY <1>k, <1>s, <1>5, AfterStepFacts DEF IInv
  <2>4. QED
    BY <1>k, <1>s, <1>1, <1>5, <2>2, <2>3, WorkerOnly
<1>6. CASE /\ worker[u].pc = "working" /\ Fenced(u) /\ AfterStep(u)
           /\ receipts' = [receipts EXCEPT ![k] = @ \cup {s}]
           /\ effects' = [effects EXCEPT ![k][s] = @ + 1]
  <2>1. /\ receipts \in [Jobs -> SUBSET Steps] /\ effects \in [Jobs -> [Steps -> Nat]]
        /\ s \notin receipts[k] /\ (s = "task" => "handoff" \in receipts[k])
        /\ StepInv(k)
    BY <1>k, <1>s, <1>2, <1>6 DEF IInv, TypeOK, WorkerInv
  <2>2. /\ receipts' \in [Jobs -> SUBSET Steps] /\ effects' \in [Jobs -> [Steps -> Nat]]
        /\ receipts'[k] = receipts[k] \cup {s}
        /\ \A j \in Jobs \ {k} : receipts'[j] = receipts[j] /\ effects'[j] = effects[j]
        /\ \A t \in Steps : effects'[k][t] = IF t = s THEN effects[k][t] + 1 ELSE effects[k][t]
    BY <1>k, <1>s, <1>2, <1>6, <2>1
  <2>3. /\ worker' \in [Workers -> WorkerRecord]
        /\ \A w \in Workers \ {u} : worker'[w] = worker[w]
    BY <1>k, <1>s, <1>6, AfterStepFacts DEF IInv
  <2>4. TypeOK'
    BY <1>k, <1>s, <1>1, <2>2, <2>3 DEF IInv, TypeOK, orgVars, jobVars
  <2>5. \A j \in Jobs : JobInv(j)' /\ LedgerInv(j)'
    BY <1>k, <1>s, <1>1, <2>1, <2>2 DEF IInv, JobInv, LedgerInv, orgVars, jobVars
  <2>6. \A j \in Jobs : StepInv(j)'
    <3>1. StepInv(k)'
      <4>1. \A t \in Steps : effects'[k][t] = IF t \in receipts'[k] THEN 1 ELSE 0
        <5>1. \A t \in Steps : effects[k][t] = IF t \in receipts[k] THEN 1 ELSE 0
          BY <2>1 DEF StepInv
        <5>2. effects[k][s] = 0
          BY <2>1, <5>1
        <5>3. TAKE t \in Steps
        <5>4. CASE t = s
          BY <2>2, <5>2, <5>4
        <5>5. CASE t # s
          BY <2>2, <5>1, <5>5
        <5>6. QED
          BY <5>4, <5>5
      <4>2. "task" \in receipts'[k] => "handoff" \in receipts'[k]
        BY <1>k, <1>s, <1>2, <2>1, <2>2 DEF StepInv
      <4>3. QED
        BY <1>k, <1>s, <4>1, <4>2 DEF StepInv
    <3>2. ASSUME NEW j \in Jobs \ {k} PROVE StepInv(j)'
      BY <1>k, <1>s, <2>2 DEF IInv, StepInv
    <3>3. QED
      BY <1>k, <1>s, <3>1, <3>2
  <2>7. WorkerInv(u)' /\ ~InTransaction(u)'
    BY <1>k, <1>s, <1>2, <1>4, <1>6, <2>2
  <2>8. ASSUME NEW w \in Workers, w # u PROVE WorkerInv(w)'
    <3>1. WorkerInv(w) /\ worker'[w] = worker[w]
      BY <1>k, <1>s, <2>3, <2>8 DEF IInv
    <3>2. InTransaction(w) => worker[w].job # k
      BY <1>k, <1>s, <1>2, <2>8 DEF IInv, Exclusive
    <3>3. worker[w].pc # "idle" => receipts[worker[w].job] \subseteq receipts'[worker[w].job]
      BY <1>k, <1>s, <2>2, <3>1 DEF WorkerInv
    <3>4. InTransaction(w) => receipts'[worker[w].job] = receipts[worker[w].job]
      BY <1>k, <1>s, <2>2, <3>1, <3>2 DEF WorkerInv, InTransaction
    <3>5. worker[w].pc # "idle" => receipts'[worker[w].job] \in SUBSET Steps
      BY <1>k, <1>s, <2>2, <3>1 DEF WorkerInv
    <3>6. QED
      BY <1>k, <1>s, <1>1, <3>1, <3>3, <3>4, <3>5
         DEF WorkerInv, InTransaction, RecipeCurrent, IssuerCurrent, orgVars, jobVars
  <2>9. Exclusive'
    BY <1>k, <1>s, <2>3, <2>7 DEF IInv, Exclusive, InTransaction
  <2>10. QED
    BY <1>k, <1>s, <2>4, <2>5, <2>6, <2>7, <2>8, <2>9 DEF IInv
<1>7. QED
  BY <1>k, <1>s, <1>3, <1>5, <1>6 DEF CommitStep

LEMMA FinishInv ==
  ASSUME IInv, NEW u \in Workers, Finish(u)
  PROVE  IInv'
<1>1. /\ worker[u].pc = "finish" /\ ~RowLocked(worker[u].job) /\ Release(u)
      /\ UNCHANGED <<orgVars, stepVars, request>>
  BY DEF Finish
<1>2. /\ WorkerInv(u) /\ worker[u] \in WorkerRecord /\ worker[u].job \in Jobs
  BY <1>1 DEF IInv, TypeOK, WorkerInv
<1>k. PICK k \in Jobs : k = worker[u].job
  BY <1>2
<1>3. CASE UNCHANGED jobVars
  BY <1>1, <1>3, ReleaseInv
<1>4. CASE /\ Fenced(u)
           /\ SetRow(k, [job[k] EXCEPT !.status = FinalStatus(u), !.revision = @ + 1,
                                       !.token = 0, !.live = FALSE, !.due = FALSE])
           /\ ledger' = [ledger EXCEPT ![k][worker[u].attempt] = AttemptStatus(FinalStatus(u))]
  <2> DEFINE row == [job[k] EXCEPT !.status = FinalStatus(u), !.revision = @ + 1,
                                   !.token = 0, !.live = FALSE, !.due = FALSE]
  <2>1. /\ job \in [Jobs -> JobRecord] /\ job[k] \in JobRecord
        /\ ledger \in [Jobs -> [Attempts -> AttemptStatuses]]
    BY DEF IInv, TypeOK
  <2>2. /\ worker[u].out \in {"completed", "skipped", "error"}
        /\ worker[u].out = "completed" => receipts[k] = Steps
        /\ worker[u].attempt = job[k].attempts /\ worker[u].max = job[k].max
        /\ job[k].attempts > 0 /\ job[k].status = "running"
    BY <1>1, <1>2, <1>k, <1>4 DEF IInv, JobInv, WorkerInv, WorkerRecord, Fenced
  <2>3. /\ FinalStatus(u) \in {"completed", "skipped", "failed", "retrying"}
        /\ FinalStatus(u) = "completed" => receipts[k] = Steps
        /\ FinalStatus(u) = "retrying" => job[k].attempts < job[k].max
    BY <2>1, <2>2 DEF FinalStatus, JobRecord
  <2>4. /\ job' = [job EXCEPT ![k] = row]
    BY <1>4 DEF SetRow
  <2>5. /\ row \in JobRecord
        /\ row.status = FinalStatus(u) /\ row.token = 0 /\ row.live = FALSE
        /\ row.attempts = job[k].attempts /\ row.max = job[k].max
    <3>1. job[k].revision + 1 \in Nat
      BY <2>1 DEF JobRecord
    <3>2. QED
      BY <2>1, <2>3, <3>1 DEF JobRecord
  <2>6. /\ job' \in [Jobs -> JobRecord]
        /\ \A j \in Jobs \ {k} : job'[j] = job[j]
        /\ job'[k].status = FinalStatus(u) /\ job'[k].token = 0 /\ job'[k].live = FALSE
        /\ job'[k].attempts = job[k].attempts /\ job'[k].max = job[k].max
    <3> HIDE DEF row
    <3>1. QED
      BY <2>1, <2>4, <2>5
  <2>7. AttemptStatus(FinalStatus(u)) \in {"succeeded", "skipped", "failed", "retrying"}
        /\ (AttemptStatus(FinalStatus(u)) = "succeeded" => FinalStatus(u) = "completed")
    BY <2>3 DEF AttemptStatus
  <2>8. /\ ledger' \in [Jobs -> [Attempts -> AttemptStatuses]]
        /\ \A j \in Jobs \ {k} : ledger'[j] = ledger[j]
        /\ \A n \in Attempts :
             ledger'[k][n] = IF n = job[k].attempts THEN AttemptStatus(FinalStatus(u))
                             ELSE ledger[k][n]
    BY <1>4, <2>1, <2>2, <2>7
  <2>9. /\ worker' \in [Workers -> WorkerRecord] /\ worker'[u].pc = "idle"
        /\ \A w \in Workers \ {u} : worker'[w] = worker[w]
    BY <1>1 DEF IInv, TypeOK, Release, Idle, WorkerRecord
  <2>10. TypeOK'
    BY <1>1, <2>6, <2>8, <2>9 DEF IInv, TypeOK, orgVars, stepVars
  <2>11. JobInv(k)' /\ LedgerInv(k)' /\ StepInv(k)'
    <3>1. JobInv(k) /\ LedgerInv(k) /\ StepInv(k)
      BY DEF IInv
    <3>2. JobInv(k)'
      BY <1>1, <2>2, <2>3, <2>6, <3>1 DEF JobInv, orgVars, stepVars
    <3>3. LedgerInv(k)'
      <4>1. job[k].attempts \in Nat
        BY <2>1 DEF JobRecord
      <4>2. QED
        BY <2>2, <2>3, <2>6, <2>7, <2>8, <3>1, <4>1 DEF LedgerInv
    <3>4. StepInv(k)'
      BY <1>1, <3>1 DEF StepInv, stepVars
    <3>5. QED
      BY <3>2, <3>3, <3>4
  <2>12. \A j \in Jobs \ {k} : JobInv(j)' /\ LedgerInv(j)' /\ StepInv(j)'
    BY <1>1, <2>6, <2>8 DEF IInv, JobInv, LedgerInv, StepInv, orgVars, stepVars
  <2>13. ASSUME NEW w \in Workers PROVE WorkerInv(w)'
    <3>1. CASE w = u
      BY <2>9, <3>1 DEF WorkerInv
    <3>2. CASE w # u
      <4>1. WorkerInv(w) /\ worker'[w] = worker[w]
        BY <2>9, <3>2 DEF IInv
      <4>2. InTransaction(w) => worker[w].job # k
        BY <1>1, <1>k DEF RowLocked
      <4>3. QED
        BY <1>1, <2>3, <2>6, <4>1, <4>2
           DEF WorkerInv, InTransaction, RecipeCurrent, IssuerCurrent, orgVars, stepVars
    <3>3. QED
      BY <3>1, <3>2
  <2>14. Exclusive'
    BY <2>9 DEF IInv, Exclusive, InTransaction
  <2>15. QED
    BY <2>10, <2>11, <2>12, <2>13, <2>14 DEF IInv
<1>5. QED
  BY <1>k, <1>3, <1>4 DEF Finish

LEMMA ComposeRequestInv ==
  ASSUME IInv, NEW o \in Operators, NEW act \in {"retry", "cancel"}, NEW k \in Jobs,
         ComposeRequest(o, act, k)
  PROVE  IInv'
<1> USE DEF ComposeRequest, orgVars, jobVars, stepVars
<1>1. TypeOK'
  BY DEF IInv, TypeOK, RequestRecord, JobRecord
<1>2. \A j \in Jobs : (JobInv(j) /\ LedgerInv(j) /\ StepInv(j))'
  BY DEF IInv, JobInv, LedgerInv, StepInv
<1>3. \A w \in Workers : WorkerInv(w)'
  BY DEF IInv, WorkerInv, InTransaction, RecipeCurrent, IssuerCurrent
<1>4. Exclusive'
  BY DEF IInv, Exclusive, InTransaction
<1>5. QED
  BY <1>1, <1>2, <1>3, <1>4 DEF IInv

\* A requeued row has an attempt left and a budget within the constraint.
LEMMA RequeuedFacts ==
  ASSUME NEW k \in Jobs, job[k] \in JobRecord, job[k].max <= BudgetCap,
         job[k].attempts + RetryGrant <= BudgetCap
  PROVE  /\ Requeued(k) \in JobRecord
         /\ Requeued(k).status = "queued" /\ Requeued(k).token = 0
         /\ Requeued(k).live = FALSE /\ Requeued(k).attempts = job[k].attempts
         /\ Requeued(k).attempts < Requeued(k).max /\ Requeued(k).max <= BudgetCap
         /\ Requeued(k).revision = job[k].revision + 1
<1> DEFINE max == IF job[k].attempts + RetryGrant > job[k].max
                  THEN job[k].attempts + RetryGrant ELSE job[k].max
<1>1. /\ job[k].attempts \in Nat /\ job[k].max \in Nat /\ job[k].revision + 1 \in Nat
      /\ RetryGrant \in Nat /\ RetryGrant > 0
  BY DEF JobRecord
<1>2. max \in Nat /\ job[k].attempts < max /\ max <= BudgetCap
  BY <1>1
<1>3. Requeued(k) = [job[k] EXCEPT !.status = "queued", !.revision = @ + 1, !.due = TRUE,
                                   !.token = 0, !.live = FALSE, !.max = max]
  BY DEF Requeued
<1> HIDE DEF max
<1>4. Requeued(k) \in JobRecord
  <2> DEFINE base == [job[k] EXCEPT !.status = "queued", !.due = TRUE, !.token = 0]
             next == [base EXCEPT !.live = FALSE, !.revision = job[k].revision + 1]
  <2>1. base \in JobRecord
    BY DEF JobRecord
  <2>2. Requeued(k) = [next EXCEPT !.max = max]
    BY <1>3 DEF JobRecord
  <2> HIDE DEF base
  <2>3. next \in JobRecord
    BY <1>1, <2>1 DEF JobRecord
  <2> HIDE DEF next
  <2>4. QED
    BY <1>2, <2>2, <2>3 DEF JobRecord
<1>5. /\ Requeued(k).status = "queued" /\ Requeued(k).token = 0
      /\ Requeued(k).live = FALSE /\ Requeued(k).attempts = job[k].attempts
      /\ Requeued(k).max = max /\ Requeued(k).revision = job[k].revision + 1
  BY <1>3 DEF JobRecord
<1>6. QED
  BY <1>2, <1>4, <1>5

LEMMA UsedFacts ==
  ASSUME TypeOK, NEW o \in Operators, request' = [request EXCEPT ![o].used = TRUE]
  PROVE  /\ request' \in [Operators -> RequestRecord]
         /\ request'[o].act = request[o].act /\ request'[o].job = request[o].job
         /\ request'[o].expected = request[o].expected /\ request'[o].seen = request[o].seen
         /\ \A p \in Operators \ {o} : request'[p] = request[p]
<1> DEFINE row == [request[o] EXCEPT !.used = TRUE]
<1>1. request \in [Operators -> RequestRecord] /\ request[o] \in RequestRecord
  BY DEF TypeOK
<1>2. /\ row \in RequestRecord /\ row.act = request[o].act /\ row.job = request[o].job
      /\ row.expected = request[o].expected /\ row.seen = request[o].seen
  BY <1>1 DEF RequestRecord
<1>3. request' = [request EXCEPT ![o] = row]
  OBVIOUS
<1> HIDE DEF row
<1>4. QED
  BY <1>1, <1>2, <1>3

LEMMA RetryInv ==
  ASSUME IInv, NEW o \in Operators, Retry(o), RequestInv(o)
  PROVE  IInv'
<1>k. PICK k \in Jobs : k = request[o].job
  BY DEF Retry, RequestInv
<1>1. /\ ~RowLocked(k) /\ job[k].status \in {"failed", "retrying"}
      /\ job[k].attempts + RetryGrant <= BudgetCap
      /\ job' = [job EXCEPT ![k] = Requeued(k)]
      /\ request' = [request EXCEPT ![o].used = TRUE]
      /\ UNCHANGED <<orgVars, ledger, stepVars, worker>>
  BY <1>k DEF Retry, SetRow, Permits
<1>2. /\ job \in [Jobs -> JobRecord] /\ job[k] \in JobRecord
      /\ job[k].attempts \in Nat
      /\ JobInv(k) /\ LedgerInv(k) /\ StepInv(k)
  BY DEF IInv, TypeOK, JobRecord
<1>3. /\ Requeued(k) \in JobRecord
      /\ Requeued(k).status = "queued" /\ Requeued(k).token = 0
      /\ Requeued(k).live = FALSE /\ Requeued(k).attempts = job[k].attempts
      /\ Requeued(k).attempts < Requeued(k).max /\ Requeued(k).max <= BudgetCap
  BY <1>1, <1>2, RequeuedFacts DEF JobInv
<1>4. /\ job' \in [Jobs -> JobRecord] /\ job'[k] = Requeued(k)
      /\ \A j \in Jobs \ {k} : job'[j] = job[j]
  BY <1>1, <1>2, <1>3
<1>5. TypeOK'
  <2>1. request' \in [Operators -> RequestRecord]
    BY <1>1, UsedFacts DEF IInv
  <2>2. QED
    BY <1>1, <1>4, <2>1 DEF IInv, TypeOK, orgVars, stepVars
<1>6. JobInv(k)' /\ LedgerInv(k)' /\ StepInv(k)'
  <2>1. JobInv(k)'
    <3>1. job[k].max \in Nat /\ Requeued(k).max \in Nat
      BY <1>2, <1>3 DEF JobRecord
    <3>2. QED
      BY <1>1, <1>2, <1>3, <1>4, <3>1 DEF JobInv, orgVars, stepVars
  <2>2. LedgerInv(k)'
    BY <1>1, <1>2, <1>3, <1>4 DEF LedgerInv
  <2>3. StepInv(k)'
    BY <1>1, <1>2 DEF StepInv, stepVars
  <2>4. QED
    BY <2>1, <2>2, <2>3
<1>7. \A j \in Jobs \ {k} : JobInv(j)' /\ LedgerInv(j)' /\ StepInv(j)'
  BY <1>1, <1>4 DEF IInv, JobInv, LedgerInv, StepInv, orgVars, stepVars
<1>8. ASSUME NEW w \in Workers PROVE WorkerInv(w)'
  <2>1. WorkerInv(w) /\ worker'[w] = worker[w]
    BY <1>1 DEF IInv
  <2>2. InTransaction(w) => worker[w].job # k
    BY <1>1 DEF RowLocked
  <2>3. QED
    BY <1>1, <1>3, <1>4, <2>1, <2>2
       DEF WorkerInv, InTransaction, RecipeCurrent, IssuerCurrent, orgVars, stepVars
<1>9. Exclusive'
  BY <1>1 DEF IInv, Exclusive, InTransaction
<1>10. QED
  BY <1>5, <1>6, <1>7, <1>8, <1>9 DEF IInv

LEMMA CancelInv ==
  ASSUME IInv, NEW o \in Operators, Cancel(o), RequestInv(o)
  PROVE  IInv'
<1>k. PICK k \in Jobs : k = request[o].job
  BY DEF Cancel, RequestInv
<1> DEFINE row == [job[k] EXCEPT !.status = "cancelled", !.revision = @ + 1,
                                 !.token = 0, !.live = FALSE, !.due = TRUE]
<1>1. /\ ~RowLocked(k) /\ job[k].status \in {"queued", "retrying", "running"}
      /\ job' = [job EXCEPT ![k] = row]
      /\ ledger' = [ledger EXCEPT ![k] = CloseAttempts(k, "cancelled")]
      /\ request' = [request EXCEPT ![o].used = TRUE]
      /\ UNCHANGED <<orgVars, stepVars, worker>>
  BY <1>k DEF Cancel, SetRow, Permits
<1>2. /\ job \in [Jobs -> JobRecord] /\ job[k] \in JobRecord
      /\ ledger \in [Jobs -> [Attempts -> AttemptStatuses]]
      /\ job[k].attempts \in Nat /\ job[k].revision + 1 \in Nat
      /\ JobInv(k) /\ LedgerInv(k) /\ StepInv(k)
  <2>1. /\ job \in [Jobs -> JobRecord] /\ job[k] \in JobRecord
        /\ ledger \in [Jobs -> [Attempts -> AttemptStatuses]]
    BY DEF IInv, TypeOK
  <2>2. job[k].attempts \in Nat /\ job[k].revision + 1 \in Nat
    BY <2>1 DEF JobRecord
  <2>3. QED
    BY <2>1, <2>2 DEF IInv
<1>3. /\ row \in JobRecord /\ row.status = "cancelled" /\ row.token = 0 /\ row.live = FALSE
      /\ row.attempts = job[k].attempts /\ row.max = job[k].max
  BY <1>2 DEF JobRecord
<1>4. /\ job' \in [Jobs -> JobRecord]
      /\ job'[k].status = "cancelled" /\ job'[k].token = 0 /\ job'[k].live = FALSE
      /\ job'[k].attempts = job[k].attempts /\ job'[k].max = job[k].max
      /\ \A j \in Jobs \ {k} : job'[j] = job[j]
  <2> HIDE DEF row
  <2>1. QED
    BY <1>1, <1>2, <1>3
<1>5. /\ ledger' \in [Jobs -> [Attempts -> AttemptStatuses]]
      /\ \A j \in Jobs \ {k} : ledger'[j] = ledger[j]
      /\ \A n \in Attempts :
           ledger'[k][n] = IF ledger[k][n] = "running" THEN "cancelled" ELSE ledger[k][n]
  BY <1>1, <1>2 DEF CloseAttempts
<1> HIDE DEF row
<1>6. TypeOK'
  <2>1. request' \in [Operators -> RequestRecord]
    BY <1>1, UsedFacts DEF IInv
  <2>2. QED
    BY <1>1, <1>4, <1>5, <2>1 DEF IInv, TypeOK, orgVars, stepVars
<1>7. JobInv(k)' /\ LedgerInv(k)' /\ StepInv(k)'
  BY <1>1, <1>2, <1>4, <1>5 DEF JobInv, LedgerInv, StepInv, orgVars, stepVars
<1>8. \A j \in Jobs \ {k} : JobInv(j)' /\ LedgerInv(j)' /\ StepInv(j)'
  BY <1>1, <1>4, <1>5 DEF IInv, JobInv, LedgerInv, StepInv, orgVars, stepVars
<1>9. ASSUME NEW w \in Workers PROVE WorkerInv(w)'
  <2>1. WorkerInv(w) /\ worker'[w] = worker[w]
    BY <1>1 DEF IInv
  <2>2. InTransaction(w) => worker[w].job # k
    BY <1>1 DEF RowLocked
  <2>3. QED
    BY <1>1, <1>4, <2>1, <2>2
       DEF WorkerInv, InTransaction, RecipeCurrent, IssuerCurrent, orgVars, stepVars
<1>10. Exclusive'
  BY <1>1 DEF IInv, Exclusive, InTransaction
<1>11. QED
  BY <1>6, <1>7, <1>8, <1>9, <1>10 DEF IInv

LEMMA ReplayEventInv ==
  ASSUME IInv, NEW e \in Events, ReplayEvent(e)
  PROVE  IInv'
<1> DEFINE row(j) == [Requeued(j) EXCEPT !.token = job[j].token, !.live = job[j].live]
<1>1. /\ job' = [j \in Jobs |-> IF Replayable(e, j) THEN row(j) ELSE job[j]]
      /\ UNCHANGED <<orgVars, ledger, stepVars, worker, request>>
  BY DEF ReplayEvent
<1>2. ASSUME NEW j \in Jobs, Replayable(e, j)
      PROVE  /\ row(j) \in JobRecord /\ row(j).status = "queued"
             /\ row(j).token = 0 /\ row(j).live = FALSE
             /\ row(j).attempts = job[j].attempts /\ row(j).max \in Nat
             /\ row(j).attempts < row(j).max /\ row(j).max <= BudgetCap
             /\ job[j].status \in {"failed", "retrying"}
  <2>1. /\ job[j] \in JobRecord /\ job[j].max <= BudgetCap
        /\ job[j].token = 0 /\ job[j].live = FALSE
        /\ job[j].status \in {"failed", "retrying"}
        /\ job[j].attempts + RetryGrant <= BudgetCap
    BY <1>2 DEF IInv, TypeOK, JobInv, Replayable
  <2>2. /\ Requeued(j) \in JobRecord
        /\ Requeued(j).status = "queued" /\ Requeued(j).attempts = job[j].attempts
        /\ Requeued(j).attempts < Requeued(j).max /\ Requeued(j).max <= BudgetCap
    BY <2>1, RequeuedFacts
  <2>3. QED
    BY <2>1, <2>2 DEF JobRecord
<1>3. ASSUME NEW j \in Jobs, ~Replayable(e, j) PROVE job'[j] = job[j]
  BY <1>1, <1>3
<1>4. job' \in [Jobs -> JobRecord]
  <2> HIDE DEF row
  <2>1. QED
    BY <1>1, <1>2 DEF IInv, TypeOK
<1>5. TypeOK'
  BY <1>1, <1>4 DEF IInv, TypeOK, orgVars, stepVars
<1>6. ASSUME NEW j \in Jobs PROVE JobInv(j)' /\ LedgerInv(j)' /\ StepInv(j)'
  <2>1. JobInv(j) /\ LedgerInv(j) /\ StepInv(j) /\ job[j].attempts \in Nat /\ job[j].max \in Nat
    BY DEF IInv, TypeOK, JobRecord
  <2>2. CASE Replayable(e, j)
    <3> HIDE DEF row
    <3>1. job'[j] = row(j)
      BY <1>1, <2>2
    <3>2. /\ job'[j].status = "queued" /\ job'[j].token = 0 /\ job'[j].live = FALSE
          /\ job'[j].attempts \in Nat /\ job'[j].max \in Nat
          /\ job'[j].attempts < job'[j].max /\ job'[j].max <= BudgetCap
          /\ job[j].status # "absent"
      BY <1>2, <2>1, <2>2, <3>1
    <3>3. JobInv(j)'
      BY <1>1, <2>1, <3>2 DEF JobInv, orgVars
    <3>4. LedgerInv(j)'
      BY <1>1, <1>2, <2>1, <2>2, <3>1 DEF LedgerInv
    <3>5. StepInv(j)'
      BY <1>1, <2>1 DEF StepInv, stepVars
    <3>6. QED
      BY <3>3, <3>4, <3>5
  <2>3. CASE ~Replayable(e, j)
    BY <1>1, <1>3, <2>1, <2>3 DEF JobInv, LedgerInv, StepInv, orgVars, stepVars
  <2>4. QED
    BY <2>2, <2>3
<1>7. ASSUME NEW w \in Workers PROVE WorkerInv(w)'
  <2>1. WorkerInv(w) /\ worker'[w] = worker[w]
    BY <1>1 DEF IInv
  <2>2. CASE worker[w].pc = "idle"
    BY <2>1, <2>2 DEF WorkerInv
  <2>3. CASE worker[w].pc # "idle" /\ ~Replayable(e, worker[w].job)
    BY <1>1, <1>3, <2>1, <2>3
       DEF WorkerInv, InTransaction, RecipeCurrent, IssuerCurrent, orgVars, stepVars
  <2>4. CASE worker[w].pc # "idle" /\ Replayable(e, worker[w].job)
    <3>1. worker[w].job \in Jobs
      BY <2>1, <2>4 DEF WorkerInv
    <3> HIDE DEF row
    <3>2. job'[worker[w].job] = row(worker[w].job)
      BY <1>1, <2>4, <3>1
    <3>3. job'[worker[w].job].status = "queued"
          /\ job'[worker[w].job].attempts = job[worker[w].job].attempts
          /\ job[worker[w].job].status # "running"
      BY <1>2, <2>4, <3>1, <3>2
    <3>4. ~InTransaction(w)
      BY <2>1, <2>4, <3>3 DEF WorkerInv
    <3>5. QED
      BY <1>1, <2>1, <2>4, <3>3, <3>4 DEF WorkerInv, InTransaction, orgVars, stepVars
  <2>5. QED
    BY <2>2, <2>3, <2>4
<1>8. Exclusive'
  BY <1>1 DEF IInv, Exclusive, InTransaction
<1>9. QED
  BY <1>5, <1>6, <1>7, <1>8 DEF IInv

-----------------------------------------------------------------------------
(***************************************************************************)
(* The theorems.                                                           *)
(***************************************************************************)

Inv == IInv /\ \A o \in Operators : RequestInv(o)

USE JobAssumption, BudgetAssumption
USE DEF Steps, Attempts, Waiting, Statuses, AttemptStatuses, Pcs, Outcomes

-----------------------------------------------------------------------------
\* The kinds of step.

Open == {"queued", "running", "retrying"}

\* Nothing an execution promises changes.
Quiet ==
  /\ \A j \in Jobs : job'[j].status = job[j].status /\ job'[j].revision = job[j].revision
  /\ receipts' = receipts

\* An event captures jobs that were not there.
Captures(e) ==
  /\ e \notin recorded
  /\ \A j \in Jobs : \/ job'[j] = job[j]
                     \/ EventOf[j] = e /\ job'[j].status = "queued"
  /\ receipts' = receipts

\* One open job changes hands or is closed.  Only a spent budget closes it
\* without a new revision.
Moves(k) ==
  /\ \A j \in Jobs \ {k} : job'[j] = job[j]
  /\ receipts' = receipts
  /\ job[k].status \in Open
  /\ job'[k].status \in Open \cup Settled
  /\ job'[k].status = "completed" => receipts[k] = Steps
  /\ \/ job'[k].revision > job[k].revision
     \/ /\ job'[k].revision = job[k].revision
        /\ job[k].status = "running" /\ job'[k].status = "failed"

\* Failed or waiting jobs go back to the queue.
Requeues ==
  /\ \A j \in Jobs :
       \/ job'[j] = job[j]
       \/ /\ job[j].status \in {"failed", "retrying"} /\ job'[j].status = "queued"
          /\ job'[j].revision > job[j].revision
  /\ receipts' = receipts

\* A step of job k commits.
Performs(k, s) ==
  /\ job' = job
  /\ receipts' = [receipts EXCEPT ![k] = receipts[k] \cup {s}]
  /\ s \notin receipts[k]
  /\ s = "task" => "handoff" \in receipts[k]
  /\ job[k].status = "running" /\ job[k].live
  /\ RecipeCurrent(k) /\ IssuerCurrent(k)
  /\ entitled /\ EventOf[k] \in current

Kinds ==
  \/ Quiet
  \/ \E e \in Events : Captures(e)
  \/ \E k \in Jobs : Moves(k)
  \/ Requeues
  \/ \E k \in Jobs, s \in Steps : Performs(k, s)

-----------------------------------------------------------------------------
LEMMA SetRowFacts ==
  ASSUME job \in [Jobs -> JobRecord], NEW k \in Jobs, NEW row, SetRow(k, row)
  PROVE  job'[k] = row /\ \A j \in Jobs \ {k} : job'[j] = job[j]
  BY DEF SetRow

LEMMA TimeKind ==
  ASSUME Inv, NEW k \in Jobs, LeaseExpires(k) \/ BackoffPasses(k)
  PROVE  Quiet
<1>1. job \in [Jobs -> JobRecord] /\ job[k] \in JobRecord
  BY DEF Inv, IInv, TypeOK
<1>2. receipts' = receipts
  BY DEF LeaseExpires, BackoffPasses, stepVars
<1>3. CASE LeaseExpires(k)
  <2> DEFINE row == [job[k] EXCEPT !.live = FALSE]
  <2>1. job' = [job EXCEPT ![k] = row]
    BY <1>3 DEF LeaseExpires
  <2>2. row.status = job[k].status /\ row.revision = job[k].revision
    BY <1>1 DEF JobRecord
  <2> HIDE DEF row
  <2>3. QED
    BY <1>1, <1>2, <2>1, <2>2 DEF Quiet
<1>4. CASE BackoffPasses(k)
  <2> DEFINE row == [job[k] EXCEPT !.due = TRUE]
  <2>1. job' = [job EXCEPT ![k] = row]
    BY <1>4 DEF BackoffPasses
  <2>2. row.status = job[k].status /\ row.revision = job[k].revision
    BY <1>1 DEF JobRecord
  <2> HIDE DEF row
  <2>3. QED
    BY <1>1, <1>2, <2>1, <2>2 DEF Quiet
<1>5. QED
  BY <1>3, <1>4

LEMMA TakeJobKind ==
  ASSUME Inv, NEW w \in Workers, NEW k \in Jobs, Claim(w, k) \/ Exhaust(w, k)
  PROVE  Moves(k)
<1>1. /\ job \in [Jobs -> JobRecord] /\ job[k] \in JobRecord
      /\ job[k].revision \in Nat /\ job[k].attempts \in Nat /\ job[k].max \in Nat
      /\ JobInv(k)
  BY DEF Inv, IInv, TypeOK, JobRecord
<1>2. job[k].status \in Open /\ receipts' = receipts
  BY DEF Claim, Exhaust, Claimable, Open, stepVars
<1>3. CASE Claim(w, k)
  <2> DEFINE row == [job[k] EXCEPT !.status = "running", !.revision = @ + 1, !.attempts = @ + 1,
                                   !.token = job[k].attempts + 1, !.live = TRUE]
  <2>1. SetRow(k, row)
    BY <1>3 DEF Claim
  <2>2. row.status = "running" /\ row.revision > job[k].revision
    BY <1>1 DEF JobRecord
  <2> HIDE DEF row
  <2>3. QED
    BY <1>1, <1>2, <2>1, <2>2, SetRowFacts DEF Moves, Open
<1>4. CASE Exhaust(w, k)
  <2> DEFINE row == [job[k] EXCEPT !.status = "failed", !.token = 0, !.live = FALSE]
  <2>1. SetRow(k, row)
    BY <1>4 DEF Exhaust
  <2>2. row.status = "failed" /\ row.revision = job[k].revision
    BY <1>1 DEF JobRecord
  <2>3. job[k].status = "running"
    BY <1>1, <1>2, <1>4 DEF Exhaust, JobInv, Open
  <2> HIDE DEF row
  <2>4. QED
    BY <1>1, <1>2, <2>1, <2>2, <2>3, SetRowFacts DEF Moves, Open, Settled
<1>5. QED
  BY <1>3, <1>4

LEMMA CommitStepKind ==
  ASSUME Inv, NEW w \in Workers, CommitStep(w)
  PROVE  Quiet \/ \E k \in Jobs, s \in Steps : Performs(k, s)
<1>1. WorkerInv(w) /\ job' = job
  BY DEF Inv, IInv, CommitStep, jobVars
<1>2. CASE UNCHANGED stepVars
  BY <1>1, <1>2 DEF Quiet, stepVars
<1>3. CASE ~UNCHANGED stepVars
  <2>1. /\ worker[w].pc = "working" /\ Fenced(w)
        /\ worker[w].step = "task" => "handoff" \in receipts[worker[w].job]
        /\ receipts' = [receipts EXCEPT ![worker[w].job] = @ \cup {worker[w].step}]
    BY <1>3 DEF CommitStep
  <2>2. PICK k \in Jobs, s \in Steps : k = worker[w].job /\ s = worker[w].step
    BY <1>1, <2>1 DEF WorkerInv, Inv, IInv, TypeOK, WorkerRecord
  <2>3. /\ job[k].status = "running" /\ job[k].live
        /\ s = "task" => "handoff" \in receipts[k]
        /\ receipts' = [receipts EXCEPT ![k] = receipts[k] \cup {s}]
    BY <2>1, <2>2 DEF Fenced
  <2>4. /\ s \notin receipts[k] /\ entitled /\ EventOf[k] \in current
        /\ RecipeCurrent(k) /\ IssuerCurrent(k)
    BY <1>1, <2>1, <2>2 DEF WorkerInv, InTransaction
  <2>5. Performs(k, s)
    BY <1>1, <2>3, <2>4 DEF Performs
  <2>6. QED
    BY <2>5
<1>4. QED
  BY <1>2, <1>3

LEMMA FinishKind ==
  ASSUME Inv, NEW w \in Workers, Finish(w)
  PROVE  Quiet \/ \E k \in Jobs : Moves(k)
<1>1. /\ worker[w].pc = "finish" /\ WorkerInv(w) /\ worker[w] \in WorkerRecord
      /\ receipts' = receipts
  BY DEF Finish, Inv, IInv, TypeOK, stepVars
<1>2. PICK k \in Jobs : k = worker[w].job
  BY <1>1 DEF WorkerInv
<1>3. CASE ~Fenced(w)
  BY <1>1, <1>3 DEF Finish, jobVars, Quiet
<1>4. CASE Fenced(w)
  <2> DEFINE row == [job[k] EXCEPT !.status = FinalStatus(w), !.revision = @ + 1,
                                   !.token = 0, !.live = FALSE, !.due = FALSE]
  <2>1. SetRow(k, row) /\ job[k].status = "running"
    BY <1>2, <1>4 DEF Finish, Fenced
  <2>2. job \in [Jobs -> JobRecord] /\ job[k] \in JobRecord /\ job[k].revision \in Nat
    BY DEF Inv, IInv, TypeOK, JobRecord
  <2>3. row.status = FinalStatus(w) /\ row.revision > job[k].revision
    BY <2>2 DEF JobRecord
  <2>4. /\ FinalStatus(w) \in {"completed", "skipped", "failed", "retrying"}
        /\ FinalStatus(w) = "completed" => receipts[k] = Steps
    BY <1>1, <1>2 DEF FinalStatus, WorkerInv, WorkerRecord
  <2> HIDE DEF row
  <2>5. QED
    BY <1>1, <2>1, <2>2, <2>3, <2>4, SetRowFacts DEF Moves, Open, Settled
<1>5. QED
  BY <1>3, <1>4

LEMMA RetryKind ==
  ASSUME Inv, NEW o \in Operators, Retry(o)
  PROVE  Requeues
<1>1. PICK k \in Jobs : k = request[o].job
  BY DEF Inv, RequestInv, Retry
<1>2. /\ job \in [Jobs -> JobRecord] /\ job[k] \in JobRecord
      /\ job[k].revision \in Nat /\ job[k].max <= BudgetCap
  BY DEF Inv, IInv, TypeOK, JobRecord, JobInv
<1>3. /\ SetRow(k, Requeued(k)) /\ receipts' = receipts
      /\ job[k].status \in {"failed", "retrying"}
      /\ job[k].attempts + RetryGrant <= BudgetCap
  BY <1>1 DEF Retry, Permits, stepVars
<1>4. Requeued(k).status = "queued" /\ Requeued(k).revision > job[k].revision
  <2>1. Requeued(k).status = "queued" /\ Requeued(k).revision = job[k].revision + 1
    BY <1>2, <1>3, RequeuedFacts
  <2>2. QED
    BY <1>2, <2>1
<1>5. QED
  BY <1>2, <1>3, <1>4, SetRowFacts DEF Requeues

LEMMA CancelKind ==
  ASSUME Inv, NEW o \in Operators, Cancel(o)
  PROVE  \E k \in Jobs : Moves(k)
<1>1. PICK k \in Jobs : k = request[o].job
  BY DEF Inv, RequestInv, Cancel
<1> DEFINE row == [job[k] EXCEPT !.status = "cancelled", !.revision = @ + 1,
                                 !.token = 0, !.live = FALSE, !.due = TRUE]
<1>2. /\ job \in [Jobs -> JobRecord] /\ job[k] \in JobRecord /\ job[k].revision \in Nat
  BY DEF Inv, IInv, TypeOK, JobRecord
<1>3. /\ SetRow(k, row) /\ receipts' = receipts
      /\ job[k].status \in {"queued", "retrying", "running"}
  BY <1>1 DEF Cancel, Permits, stepVars
<1>4. row.status = "cancelled" /\ row.revision > job[k].revision
  BY <1>2 DEF JobRecord
<1> HIDE DEF row
<1>5. QED
  BY <1>2, <1>3, <1>4, SetRowFacts DEF Moves, Open, Settled

LEMMA ReplayEventKind ==
  ASSUME Inv, NEW e \in Events, ReplayEvent(e)
  PROVE  Requeues
<1>1. ASSUME NEW j \in Jobs, Replayable(e, j)
      PROVE  /\ job[j].status \in {"failed", "retrying"} /\ job'[j].status = "queued"
             /\ job'[j].revision > job[j].revision
  <2> DEFINE row == [Requeued(j) EXCEPT !.token = job[j].token, !.live = job[j].live]
  <2>1. /\ job[j] \in JobRecord /\ job[j].max <= BudgetCap /\ job[j].revision \in Nat
        /\ job[j].status \in {"failed", "retrying"}
        /\ job[j].attempts + RetryGrant <= BudgetCap
    BY <1>1 DEF Inv, IInv, TypeOK, JobInv, Replayable, JobRecord
  <2>2. /\ Requeued(j) \in JobRecord /\ Requeued(j).status = "queued"
        /\ Requeued(j).revision = job[j].revision + 1
    BY <2>1, RequeuedFacts
  <2>3. row.status = "queued" /\ row.revision > job[j].revision
    BY <2>1, <2>2 DEF JobRecord
  <2>4. job'[j] = row
    BY <1>1 DEF ReplayEvent
  <2> HIDE DEF row
  <2>5. QED
    BY <2>1, <2>3, <2>4
<1>2. \A j \in Jobs : ~Replayable(e, j) => job'[j] = job[j]
  BY DEF ReplayEvent
<1>3. QED
  BY <1>1, <1>2 DEF Requeues, ReplayEvent, stepVars

\* Every step is of one of the five kinds.
LEMMA NextKinds ==
  ASSUME Inv, [Next]_vars
  PROVE  Kinds
<1>1. ASSUME job' = job /\ receipts' = receipts PROVE Quiet
  BY <1>1 DEF Quiet
<1>2. CASE Administration
  <2>1. CASE \E e \in Events : EmitEvent(e)
    <3>1. PICK e \in Events : EmitEvent(e)
      BY <2>1
    <3>2. Captures(e)
      BY <3>1 DEF EmitEvent, Captures, Captured, stepVars, Inv, IInv, TypeOK
    <3>3. QED
      BY <3>2 DEF Kinds
  <2>2. CASE ~\E e \in Events : EmitEvent(e)
    <3>1. job' = job /\ receipts' = receipts
      BY <1>2, <2>2 DEF Administration, SaveRecipe, ChangeMembership, ChangeEntitlement,
                        ChangeSource, jobVars, stepVars
    <3>2. QED
      BY <1>1, <3>1 DEF Kinds
  <2>3. QED
    BY <2>1, <2>2
<1>3. CASE Time
  BY <1>3, TimeKind DEF Time, Kinds
<1>4. CASE \E j \in Jobs : TakeJob(j)
  BY <1>4, TakeJobKind DEF TakeJob, Kinds
<1>5. CASE \E w \in Workers : WorkerStep(w) \/ Crash(w)
  <2>1. PICK w \in Workers : WorkerStep(w) \/ Crash(w)
    BY <1>5
  <2>2. CASE CommitStep(w)
    BY <2>2, CommitStepKind DEF Kinds
  <2>3. CASE Finish(w)
    BY <2>3, FinishKind DEF Kinds
  <2>4. CASE ~CommitStep(w) /\ ~Finish(w)
    <3>1. job' = job /\ receipts' = receipts
      BY <2>1, <2>4 DEF WorkerStep, OpenStep, EnterStep, StepFails, Crash, jobVars, stepVars
    <3>2. QED
      BY <1>1, <3>1 DEF Kinds
  <2>5. QED
    BY <2>2, <2>3, <2>4
<1>6. CASE Operation
  <2>1. CASE \E o \in Operators, act \in {"retry", "cancel"}, j \in Jobs :
               ComposeRequest(o, act, j)
    BY <1>1, <2>1 DEF ComposeRequest, Kinds, jobVars, stepVars
  <2>2. CASE \E o \in Operators : Retry(o) \/ Cancel(o)
    BY <2>2, RetryKind, CancelKind DEF Kinds
  <2>3. CASE \E e \in Events : ReplayEvent(e)
    BY <2>3, ReplayEventKind DEF Kinds
  <2>4. QED
    BY <1>6, <2>1, <2>2, <2>3 DEF Operation
<1>7. CASE UNCHANGED vars
  BY <1>1, <1>7 DEF Kinds, vars, jobVars, stepVars
<1>8. QED
  BY <1>2, <1>3, <1>4, <1>5, <1>6, <1>7 DEF Next

-----------------------------------------------------------------------------
\* Requests.

\* A status changes without a new revision only when a budget is spent.
LEMMA RevisionCounts ==
  ASSUME Inv, Kinds, TypeOK', NEW k \in Jobs, job[k].status # "absent"
  PROVE  /\ job'[k].status # "absent" /\ job'[k].revision >= job[k].revision
         /\ job'[k].revision = job[k].revision =>
              \/ job'[k].status = job[k].status
              \/ job[k].status = "running" /\ job'[k].status = "failed"
<1>1. job[k].revision \in Nat /\ job'[k].revision \in Nat /\ JobInv(k)
  BY DEF Inv, IInv, TypeOK, JobRecord
<1>2. CASE Quiet
  BY <1>1, <1>2 DEF Quiet
<1>3. CASE \E e \in Events : Captures(e)
  BY <1>1, <1>3 DEF Captures, JobInv
<1>4. CASE \E j \in Jobs : Moves(j)
  BY <1>1, <1>4 DEF Moves, Open, Settled
<1>5. CASE Requeues
  BY <1>1, <1>5 DEF Requeues
<1>6. CASE \E j \in Jobs, s \in Steps : Performs(j, s)
  BY <1>1, <1>6 DEF Performs
<1>7. QED
  BY <1>2, <1>3, <1>4, <1>5, <1>6 DEF Kinds

\* A request is composed from the row as it is, is used, or stays as it is.
LEMMA RequestMoves ==
  ASSUME TypeOK, [Next]_vars, NEW o \in Operators
  PROVE  \/ /\ request'[o].act = request[o].act /\ request'[o].job = request[o].job
            /\ request'[o].expected = request[o].expected
            /\ request'[o].seen = request[o].seen
         \/ /\ request'[o].job \in Jobs /\ job' = job
            /\ request'[o].seen \in Permits(request'[o].act)
            /\ request'[o].expected = job[request'[o].job].revision
            /\ request'[o].seen = job[request'[o].job].status
<1>1. CASE request' = request
  BY <1>1
<1>2. CASE \E p \in Operators : Retry(p) \/ Cancel(p)
  <2>1. PICK p \in Operators : request' = [request EXCEPT ![p].used = TRUE]
    BY <1>2 DEF Retry, Cancel
  <2>2. QED
    BY <2>1, UsedFacts
<1>3. CASE \E p \in Operators, act \in {"retry", "cancel"}, j \in Jobs : ComposeRequest(p, act, j)
  <2>1. PICK p \in Operators, act \in {"retry", "cancel"}, j \in Jobs : ComposeRequest(p, act, j)
    BY <1>3
  <2>2. CASE p = o
    BY <2>1, <2>2 DEF ComposeRequest, jobVars, TypeOK
  <2>3. CASE p # o
    BY <2>1, <2>3 DEF ComposeRequest, TypeOK
  <2>4. QED
    BY <2>2, <2>3
<1>4. QED
  BY <1>1, <1>2, <1>3
     DEF Next, vars, Administration, Time, TakeJob, WorkerStep, Crash, Operation, SaveRecipe,
         ChangeMembership, ChangeEntitlement, ChangeSource, EmitEvent, LeaseExpires,
         BackoffPasses, Claim, Exhaust, OpenStep, EnterStep, StepFails, CommitStep, Finish,
         ReplayEvent

LEMMA NextIInv ==
  ASSUME Inv, [Next]_vars
  PROVE  IInv'
<1>1. IInv /\ \A o \in Operators : RequestInv(o)
  BY DEF Inv
<1>2. CASE Administration
  BY <1>1, <1>2, SaveRecipeInv, ChangeMembershipInv, ChangeEntitlementInv, ChangeSourceInv,
     EmitEventInv DEF Administration
<1>3. CASE Time
  BY <1>1, <1>3, LeaseExpiresInv, BackoffPassesInv DEF Time
<1>4. CASE \E j \in Jobs : TakeJob(j)
  BY <1>1, <1>4, ClaimInv, ExhaustInv DEF TakeJob
<1>5. CASE \E w \in Workers : WorkerStep(w) \/ Crash(w)
  BY <1>1, <1>5, OpenStepInv, EnterStepInv, StepFailsInv, CommitStepInv, FinishInv, CrashInv
     DEF WorkerStep
<1>6. CASE Operation
  BY <1>1, <1>6, ComposeRequestInv, RetryInv, CancelInv, ReplayEventInv DEF Operation
<1>7. CASE UNCHANGED vars
  BY <1>1, <1>7, StutterInv
<1>8. QED
  BY <1>2, <1>3, <1>4, <1>5, <1>6, <1>7 DEF Next

LEMMA NextInv == Inv /\ [Next]_vars => Inv'
<1> SUFFICES ASSUME Inv, [Next]_vars PROVE Inv'
  OBVIOUS
<1>1. IInv' /\ Kinds /\ TypeOK /\ TypeOK'
  BY NextIInv, NextKinds DEF Inv, IInv
<1>2. ASSUME NEW o \in Operators PROVE RequestInv(o)'
  <2>1. RequestInv(o)
    BY DEF Inv
  <2>2. CASE /\ request'[o].act = request[o].act /\ request'[o].job = request[o].job
             /\ request'[o].expected = request[o].expected
             /\ request'[o].seen = request[o].seen
    <3>1. CASE request[o].act = "none"
      BY <2>2, <3>1 DEF RequestInv
    <3>2. CASE request[o].act # "none"
      <4>1. PICK k \in Jobs : k = request[o].job
        BY <2>1, <3>2 DEF RequestInv
      <4>2. /\ job'[k].status # "absent" /\ job'[k].revision >= job[k].revision
            /\ job'[k].revision = job[k].revision =>
                 \/ job'[k].status = job[k].status
                 \/ job[k].status = "running" /\ job'[k].status = "failed"
        BY <1>1, <2>1, <3>2, <4>1, RevisionCounts DEF RequestInv
      <4>3. /\ request[o].expected \in Nat /\ job[k].revision \in Nat
            /\ job'[k].revision \in Nat
        BY <1>1 DEF TypeOK, RequestRecord, JobRecord
      <4>4. QED
        BY <2>1, <2>2, <3>2, <4>1, <4>2, <4>3 DEF RequestInv, Permits
    <3>3. QED
      BY <3>1, <3>2
  <2>3. CASE /\ request'[o].job \in Jobs /\ job' = job
             /\ request'[o].seen \in Permits(request'[o].act)
             /\ request'[o].expected = job[request'[o].job].revision
             /\ request'[o].seen = job[request'[o].job].status
    <3>1. job[request'[o].job].revision \in Nat
      BY <1>1, <2>3 DEF TypeOK, JobRecord
    <3>2. QED
      BY <2>3, <3>1 DEF RequestInv, Permits
  <2>4. QED
    BY <1>1, <2>2, <2>3, RequestMoves
<1>3. QED
  BY <1>1, <1>2 DEF Inv

LEMMA InitImpliesInv == Init => Inv
  BY InitInv DEF Init, Inv, RequestInv, NoRequest

-----------------------------------------------------------------------------
\* The invariant of every behaviour: types, the attempt history, the receipts,
\* what each invocation knows, mutual exclusion, and what requests know.
THEOREM Invariance == Spec => []Inv
<1>1. Init => Inv
  BY InitImpliesInv
<1>2. Inv /\ [Next]_vars => Inv'
  BY NextInv
<1>3. QED
  BY <1>1, <1>2, PTL DEF Spec

\* Every variable keeps its type.
THEOREM TypeCorrect == Spec => []TypeOK
<1>1. Inv => TypeOK
  BY DEF Inv, IInv
<1>2. QED
  BY <1>1, Invariance, PTL

\* The attempt history agrees with the queue row, for any number of invocations
\* that claim, crash and lose their leases, and of operators who retry.
THEOREM Ledger == Spec => []AttemptLedger
<1>1. Inv => AttemptLedger
  BY DEF Inv, IInv, LedgerInv, AttemptLedger
<1>2. QED
  BY <1>1, Invariance, PTL

\* Retries and replays leave every attempt budget within the table's bound.
THEOREM Budgets == Spec => []AttemptBudget
<1>1. Inv => AttemptBudget
  BY DEF Inv, IInv, JobInv, AttemptBudget
<1>2. QED
  BY <1>1, Invariance, PTL

\* A step takes effect at most once and in order, whoever dies after it, and
\* "completed" means that both did.
THEOREM Safety == Spec => [](StepsOnce /\ CompletedIsDone)
<1>1. Inv => StepsOnce /\ CompletedIsDone
  BY DEF Inv, IInv, JobInv, StepInv, StepsOnce, CompletedIsDone
<1>2. QED
  BY <1>1, Invariance, PTL

\* Transactions of one job exclude one another and own the row.
THEOREM Exclusion == Spec => []OneTransactionPerJob
<1>1. Inv => OneTransactionPerJob
  <2> SUFFICES ASSUME Inv, NEW w \in Workers, InTransaction(w)
               PROVE  /\ job[worker[w].job].status = "running"
                      /\ job[worker[w].job].token = worker[w].attempt
                      /\ \A v \in Workers \ {w} :
                           InTransaction(v) => worker[v].job # worker[w].job
    BY DEF OneTransactionPerJob
  <2>1. WorkerInv(w) /\ Exclusive /\ worker[w].pc # "idle"
    BY DEF Inv, IInv, InTransaction
  <2>2. QED
    BY <2>1 DEF WorkerInv, Exclusive
<1>2. QED
  BY <1>1, Invariance, PTL

\* A step commits only while the lease, the recipe version, the issuer's
\* membership, the modules and the source it was authorized by still hold.
THEOREM Authorization == Spec => CommitAuthorized
<1> DEFINE Commits == \A j \in Jobs : receipts'[j] # receipts[j] =>
                        /\ job[j].status = "running" /\ job[j].live
                        /\ RecipeCurrent(j) /\ IssuerCurrent(j)
                        /\ entitled /\ EventOf[j] \in current
<1>1. Inv /\ [Next]_vars => [Commits]_vars
  <2> SUFFICES ASSUME Inv, [Next]_vars PROVE Commits
    OBVIOUS
  <2>1. Kinds /\ receipts \in [Jobs -> SUBSET Steps]
    BY NextKinds DEF Inv, IInv, TypeOK
  <2>2. CASE receipts' = receipts
    BY <2>2
  <2>3. CASE \E k \in Jobs, s \in Steps : Performs(k, s)
    BY <2>1, <2>3 DEF Performs
  <2>4. QED
    BY <2>1, <2>2, <2>3 DEF Kinds, Quiet, Captures, Moves, Requeues
<1>2. QED
  BY <1>1, Invariance, PTL DEF Spec, CommitAuthorized

\* Completed, skipped and cancelled executions are final, and nothing of
\* theirs commits later.
THEOREM Finality == Spec => FinalStays
<1> DEFINE Stays == \A j \in Jobs : job[j].status \in {"completed", "skipped", "cancelled"} =>
                      job'[j].status = job[j].status /\ receipts'[j] = receipts[j]
<1>1. Inv /\ [Next]_vars => [Stays]_vars
  <2> SUFFICES ASSUME Inv, [Next]_vars PROVE Stays
    OBVIOUS
  <2>1. Kinds /\ receipts \in [Jobs -> SUBSET Steps] /\ \A j \in Jobs : JobInv(j)
    BY NextKinds DEF Inv, IInv, TypeOK
  <2>2. CASE Quiet
    BY <2>2 DEF Quiet
  <2>3. CASE \E e \in Events : Captures(e)
    BY <2>1, <2>3 DEF Captures, JobInv
  <2>4. CASE \E k \in Jobs : Moves(k)
    BY <2>4 DEF Moves, Open
  <2>5. CASE Requeues
    BY <2>5 DEF Requeues
  <2>6. CASE \E k \in Jobs, s \in Steps : Performs(k, s)
    BY <2>1, <2>6 DEF Performs
  <2>7. QED
    BY <2>1, <2>2, <2>3, <2>4, <2>5, <2>6 DEF Kinds
<1>2. QED
  BY <1>1, Invariance, PTL DEF Spec, FinalStays

\* A retry or cancel takes effect only on the status its author saw.
THEOREM Control == Spec => ControlsWhatWasSeen
<1> DEFINE Sees == \A o \in Operators : request'[o].used /\ ~request[o].used =>
                     job[request[o].job].status = request[o].seen
<1>1. Inv /\ [Next]_vars => [Sees]_vars
  <2> SUFFICES ASSUME Inv, [Next]_vars, NEW o \in Operators,
                      request'[o].used, ~request[o].used
               PROVE  job[request[o].job].status = request[o].seen
    OBVIOUS
  <2>1. RequestInv(o) /\ request \in [Operators -> RequestRecord]
    BY DEF Inv, IInv, TypeOK
  <2>2. PICK p \in Operators : Retry(p) \/ Cancel(p)
    <3>1. CASE \E p \in Operators, act \in {"retry", "cancel"}, j \in Jobs :
                 ComposeRequest(p, act, j)
      BY <2>1, <3>1 DEF ComposeRequest
    <3>2. request' # request
      OBVIOUS
    <3>3. QED
      BY <3>1, <3>2
         DEF Next, vars, Administration, Time, TakeJob, WorkerStep, Crash, Operation, SaveRecipe,
             ChangeMembership, ChangeEntitlement, ChangeSource, EmitEvent, LeaseExpires,
             BackoffPasses, Claim, Exhaust, OpenStep, EnterStep, StepFails, CommitStep, Finish,
             ReplayEvent
  <2>3. p = o
    <3>1. request' = [request EXCEPT ![p].used = TRUE]
      BY <2>2 DEF Retry, Cancel
    <3>2. QED
      BY <2>1, <3>1
  <2>4. QED
    BY <2>1, <2>2, <2>3 DEF Retry, Cancel, RequestInv, Permits
<1>2. QED
  BY <1>1, Invariance, PTL DEF Spec, ControlsWhatWasSeen

-----------------------------------------------------------------------------
\* Refinement.

LEMMA ExecutionStep ==
  ASSUME Inv, Inv', [Next]_vars
  PROVE  [Execution!Next]_(Execution!vars)
<1> USE DEF Open, Settled, Phase
<1>1. /\ Kinds /\ receipts \in [Jobs -> SUBSET Steps]
      /\ \A j \in Jobs : JobInv(j) /\ job[j].status \in Statuses
  BY NextKinds DEF Inv, IInv, TypeOK, JobRecord
<1>2. CASE Quiet
  BY <1>2 DEF Quiet, Execution!vars
<1>3. CASE \E e \in Events : Captures(e)
  <2>1. PICK S \in SUBSET Jobs :
               S = {j \in Jobs : job[j].status = "absent" /\ job'[j].status = "queued"}
    OBVIOUS
  <2>2. Execution!Capture(S)
    BY <1>1, <1>3, <2>1 DEF Captures, JobInv, Execution!Capture
  <2>3. QED
    BY <2>2 DEF Execution!Next
<1>4. CASE \E k \in Jobs : Moves(k)
  <2>1. PICK k \in Jobs : Moves(k)
    BY <1>4
  <2>2. CASE job'[k].status \in Open
    BY <2>1, <2>2 DEF Moves, Execution!vars
  <2>3. CASE job'[k].status \in Settled
    <3>1. PICK p \in {"completed", "failed", "dropped"} : p = Phase(job'[k].status)
      BY <2>3
    <3>2. p = "completed" => receipts[k] = {"handoff", "task"}
      BY <2>1, <2>3, <3>1 DEF Moves
    <3>3. Execution!Close(k, p)
      BY <2>1, <3>1, <3>2 DEF Moves, Execution!Close
    <3>4. QED
      BY <3>3 DEF Execution!Next
  <2>4. QED
    BY <2>1, <2>2, <2>3 DEF Moves
<1>5. CASE Requeues
  <2>1. PICK S \in SUBSET Jobs :
               S = {j \in Jobs : job[j].status = "failed" /\ job'[j].status = "queued"}
    OBVIOUS
  <2>2. Execution!Reopen(S)
    BY <1>1, <1>5, <2>1 DEF Requeues, Execution!Reopen
  <2>3. QED
    BY <2>2 DEF Execution!Next
<1>6. CASE \E k \in Jobs, s \in Steps : Performs(k, s)
  <2>1. PICK k \in Jobs, s \in Steps : Performs(k, s)
    BY <1>6
  <2>2. Execution!Perform(k, s)
    BY <1>1, <2>1 DEF Performs, Execution!Perform
  <2>3. QED
    BY <2>2 DEF Execution!Next
<1>7. QED
  BY <1>1, <1>2, <1>3, <1>4, <1>5, <1>6 DEF Kinds

\* The queue implements the abstract execution of RecipeExecution.
THEOREM Refinement == Spec => ImplementsExecution
<1>1. Init => Execution!Init
  BY DEF Init, NoRow, Phase, Execution!Init
<1>2. Inv /\ Inv' /\ [Next]_vars => [Execution!Next]_(Execution!vars)
  BY ExecutionStep
<1>3. QED
  BY <1>1, <1>2, Invariance, PTL DEF Spec, ImplementsExecution, Execution!Spec
=============================================================================
