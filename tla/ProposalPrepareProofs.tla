------------------------ MODULE ProposalPrepareProofs -------------------------
(***************************************************************************)
(* What a downloaded proposal, its job and the audit trail say of one      *)
(* another, for any number of drafts, editors, invocations and attempts.   *)
(*                                                                         *)
(* The transaction of an invocation is six steps of the model, with those  *)
(* of all others in between, so the properties are not inductive alone.    *)
(* What carries them is what an invocation may rely on while it holds a    *)
(* row (Trusts): the job is still its own from LockJob on, and the text    *)
(* that it read is still the current one from LockDraft on.  Each row has  *)
(* one holder at a time (OneHolder), and a lock is what keeps the claims,  *)
(* the reports and the edits of others away.                               *)
(***************************************************************************)
EXTENDS ProposalPrepare, TLAPS

JobPcs == {"fenced", "drafted", "authorized", "stored"}
DraftPcs == {"drafted", "authorized", "stored"}

\* A version has a job from the moment it is written.
Existing == \A d \in Drafts, v \in Versions :
  job[d][v].status = "absent" <=> v > draft[d].version

LiveRuns == \A d \in Drafts, v \in Versions : job[d][v].live => job[d][v].status = "running"

Data == Existing /\ LiveRuns /\ ReadyIsCurrent /\ CompletedIsReady /\ PreparedOnce

\* What an invocation in the state r may rely on.
Trusts(r) == r.pc # "idle" =>
  /\ r.draft \in Drafts /\ r.version \in Versions
  /\ job[r.draft][r.version].status # "absent"
  /\ r.pc \in JobPcs => /\ job[r.draft][r.version].status = "running"
                        /\ job[r.draft][r.version].token = r.attempt
  /\ r.pc \in DraftPcs => r.read = draft[r.draft].version

Working == \A w \in Workers : Trusts(worker[w])

OneHolder == \A w, x \in Workers : w # x /\ worker[w].draft = worker[x].draft =>
  /\ ~(HoldsDraft(w) /\ HoldsDraft(x))
  /\ ~(HoldsJob(w) /\ HoldsJob(x) /\ worker[w].version = worker[x].version)

IInv == TypeOK /\ Data /\ Working /\ OneHolder

LEMMA InitIInv == Init => IInv
<1> SUFFICES ASSUME Init PROVE IInv
  OBVIOUS
<1> USE PrepareAssumption DEF Init, Idle, NoRow
<1>1. TypeOK
  BY DEF TypeOK, JobRecord, Statuses, WorkerRecord, Pcs, Versions
<1>2. Data
  BY DEF Data, Existing, LiveRuns, ReadyIsCurrent, CompletedIsReady, PreparedOnce, Versions
<1>3. Working /\ OneHolder
  BY DEF Working, Trusts, OneHolder, HoldsDraft, HoldsJob
<1>4. QED
  BY <1>1, <1>2, <1>3 DEF IInv

-----------------------------------------------------------------------------
(***************************************************************************)
(* Facts of type, and what a write leaves alone.                           *)
(***************************************************************************)
LEMMA JobFacts ==
  ASSUME TypeOK, NEW d \in Drafts, NEW v \in Versions
  PROVE  /\ job[d][v] \in JobRecord /\ job[d][v].status \in Statuses
         /\ job[d][v].attempts \in 0..MaxAttempts /\ job[d][v].token \in 0..MaxAttempts
         /\ draft[d].version \in 0..MaxVersion /\ draft[d].prepared \in 0..MaxVersion
         /\ v \in Nat /\ v # 0 /\ audited[d][v] \in Nat
<1>1. job[d][v] \in JobRecord /\ audited[d][v] \in Nat
  BY DEF TypeOK
<1>2. /\ job[d][v].status \in Statuses
      /\ job[d][v].attempts \in 0..MaxAttempts /\ job[d][v].token \in 0..MaxAttempts
  BY <1>1 DEF JobRecord
<1>3. draft[d].version \in 0..MaxVersion /\ draft[d].prepared \in 0..MaxVersion
  BY DEF TypeOK
<1>4. v \in Nat /\ v # 0
  BY PrepareAssumption DEF Versions
<1>5. QED
  BY <1>1, <1>2, <1>3, <1>4

LEMMA WorkerFacts ==
  ASSUME TypeOK, NEW w \in Workers
  PROVE  /\ worker[w] \in WorkerRecord /\ worker[w].pc \in Pcs
         /\ worker[w].attempt \in 0..MaxAttempts /\ worker[w].read \in 0..MaxVersion
  BY DEF TypeOK, WorkerRecord

LEMMA JobWrite ==
  ASSUME TypeOK, NEW d \in Drafts, NEW v \in Versions, NEW row \in JobRecord,
         job' = [job EXCEPT ![d][v] = row]
  PROVE  /\ job' \in [Drafts -> [Versions -> JobRecord]]
         /\ job'[d][v] = row
         /\ \A e \in Drafts, u \in Versions : e # d \/ u # v => job'[e][u] = job[e][u]
  BY DEF TypeOK

LEMMA WorkerWrite ==
  ASSUME TypeOK, NEW w \in Workers, NEW r \in WorkerRecord, worker' = [worker EXCEPT ![w] = r]
  PROVE  /\ worker' \in [Workers -> WorkerRecord]
         /\ worker'[w] = r
         /\ \A x \in Workers \ {w} : worker'[x] = worker[x]
  BY DEF TypeOK

LEMMA Zero == 0 \in 0..MaxAttempts /\ 0 \in 0..MaxVersion
  BY PrepareAssumption

LEMMA IdleRecord == Idle \in WorkerRecord /\ Trusts(Idle) /\ Idle.pc \notin JobPcs
  BY Zero DEF Idle, WorkerRecord, Pcs, Trusts, JobPcs

\* Who has a row locked.
LEMMA NotLocked ==
  ASSUME IInv, NEW w \in Workers
  PROVE  /\ HoldsJob(w) <=> worker[w].pc \in JobPcs
         /\ HoldsDraft(w) <=> worker[w].pc \in DraftPcs
         /\ HoldsDraft(w) => HoldsJob(w)
  BY DEF HoldsJob, HoldsDraft, JobPcs, DraftPcs

-----------------------------------------------------------------------------
(***************************************************************************)
(* Steps of an invocation that write no data.                              *)
(***************************************************************************)
LEMMA WorkerStep ==
  ASSUME IInv, NEW w \in Workers, NEW r \in WorkerRecord,
         worker' = [worker EXCEPT ![w] = r], UnchangedData, Trusts(r),
         \A x \in Workers \ {w} : worker[x].draft = r.draft =>
           /\ ~(r.pc \in DraftPcs /\ HoldsDraft(x))
           /\ ~(r.pc \in JobPcs /\ HoldsJob(x) /\ worker[x].version = r.version)
  PROVE  IInv'
<1> USE DEF UnchangedData
<1>1. /\ worker' \in [Workers -> WorkerRecord] /\ worker'[w] = r
      /\ \A x \in Workers \ {w} : worker'[x] = worker[x]
  BY WorkerWrite DEF IInv
<1>2. TypeOK'
  BY <1>1 DEF IInv, TypeOK
<1>3. Data'
  BY DEF IInv, Data, Existing, LiveRuns, ReadyIsCurrent, CompletedIsReady, PreparedOnce
<1>4. Working'
  BY <1>1 DEF IInv, Working, Trusts
<1>5. OneHolder'
  BY <1>1 DEF IInv, OneHolder, HoldsDraft, HoldsJob, DraftPcs, JobPcs
<1>6. QED
  BY <1>2, <1>3, <1>4, <1>5 DEF IInv

\* To a step at which nothing is held.
LEMMA LetGo ==
  ASSUME IInv, NEW w \in Workers, NEW r \in WorkerRecord,
         worker' = [worker EXCEPT ![w] = r], UnchangedData, Trusts(r), r.pc \notin JobPcs
  PROVE  IInv'
<1>1. r.pc \notin DraftPcs
  BY DEF JobPcs, DraftPcs
<1>2. QED
  BY <1>1, WorkerStep

LEMMA CatchRecord ==
  ASSUME IInv, NEW w \in Workers, worker[w].pc # "idle", NEW b \in BOOLEAN, Catch(w, b)
  PROVE  \E r \in WorkerRecord : /\ worker' = [worker EXCEPT ![w] = r]
                                 /\ Trusts(r) /\ r.pc = "caught"
<1>1. PICK r : r = [worker[w] EXCEPT !.pc = "caught", !.revoked = b]
  OBVIOUS
<1>2. worker' = [worker EXCEPT ![w] = r]
  BY <1>1 DEF Catch, IInv, TypeOK, WorkerRecord
<1>3. r \in WorkerRecord /\ r.pc = "caught" /\ r.draft = worker[w].draft /\ r.version = worker[w].version
  BY <1>1, WorkerFacts DEF IInv, WorkerRecord, Pcs
<1>4. Trusts(r)
  BY <1>3 DEF IInv, Working, Trusts, JobPcs, DraftPcs
<1>5. QED
  BY <1>2, <1>3, <1>4

LEMMA CatchInv ==
  ASSUME IInv, NEW w \in Workers, worker[w].pc # "idle", NEW b \in BOOLEAN, Catch(w, b),
         UnchangedData
  PROVE  IInv'
<1>1. PICK r \in WorkerRecord : worker' = [worker EXCEPT ![w] = r] /\ Trusts(r) /\ r.pc = "caught"
  BY CatchRecord
<1>2. r.pc \notin JobPcs
  BY <1>1 DEF JobPcs
<1>3. QED
  BY <1>1, <1>2, LetGo

LEMMA ReleaseInv ==
  ASSUME IInv, NEW w \in Workers, Release(w), UnchangedData
  PROVE  IInv'
<1>1. worker' = [worker EXCEPT ![w] = Idle] /\ Idle.pc \notin JobPcs
  BY DEF Release, Idle, JobPcs
<1>2. QED
  BY <1>1, IdleRecord, LetGo

\* To the next step, with what is held already.
LEMMA GoToInv ==
  ASSUME IInv, NEW w \in Workers, worker[w].pc \in DraftPcs, NEW pc \in DraftPcs, GoTo(w, pc),
         UnchangedData
  PROVE  IInv'
<1>1. PICK r : r = [worker[w] EXCEPT !.pc = pc]
  OBVIOUS
<1>2. worker' = [worker EXCEPT ![w] = r]
  BY <1>1 DEF GoTo, IInv, TypeOK, WorkerRecord
<1>3. /\ r \in WorkerRecord /\ r.pc = pc /\ r.draft = worker[w].draft
      /\ r.version = worker[w].version /\ r.read = worker[w].read /\ r.attempt = worker[w].attempt
  BY <1>1, WorkerFacts DEF IInv, WorkerRecord, Pcs, DraftPcs
<1>4. Trusts(r)
  BY <1>3 DEF IInv, Working, Trusts, JobPcs, DraftPcs
<1>5. HoldsDraft(w) /\ HoldsJob(w)
  BY NotLocked
<1>6. \A x \in Workers \ {w} : worker[x].draft = r.draft =>
        /\ ~(r.pc \in DraftPcs /\ HoldsDraft(x))
        /\ ~(r.pc \in JobPcs /\ HoldsJob(x) /\ worker[x].version = r.version)
  BY <1>3, <1>5 DEF IInv, OneHolder
<1>7. QED
  BY <1>2, <1>3, <1>4, <1>6, WorkerStep

LEMMA BeginInv ==
  ASSUME IInv, NEW w \in Workers, Begin(w)
  PROVE  IInv'
<1>1. PICK f \in BOOLEAN : f = (Row(w).live /\ Row(w).token = worker[w].attempt)
  OBVIOUS
<1>2. PICK r : r = [worker[w] EXCEPT !.pc = "begun", !.fresh = f]
  OBVIOUS
<1>3. worker' = [worker EXCEPT ![w] = r]
  BY <1>1, <1>2 DEF Begin, IInv, TypeOK, WorkerRecord
<1>4. r \in WorkerRecord /\ r.pc = "begun" /\ r.draft = worker[w].draft /\ r.version = worker[w].version
  BY <1>2, WorkerFacts DEF IInv, WorkerRecord, Pcs
<1>5. Trusts(r) /\ r.pc \notin JobPcs
  BY <1>4 DEF Begin, IInv, Working, Trusts, JobPcs, DraftPcs
<1>6. QED
  BY <1>3, <1>4, <1>5, LetGo DEF Begin

LEMMA LockJobInv ==
  ASSUME IInv, NEW w \in Workers, LockJob(w)
  PROVE  IInv'
<1>1. CASE Fenced(w) /\ GoTo(w, "fenced")
  <2>1. PICK r : r = [worker[w] EXCEPT !.pc = "fenced"]
    OBVIOUS
  <2>2. worker' = [worker EXCEPT ![w] = r]
    BY <1>1, <2>1 DEF GoTo, IInv, TypeOK, WorkerRecord
  <2>3. /\ r \in WorkerRecord /\ r.pc = "fenced" /\ r.draft = worker[w].draft
        /\ r.version = worker[w].version /\ r.attempt = worker[w].attempt
    BY <2>1, WorkerFacts DEF IInv, WorkerRecord, Pcs
  <2>4. Trusts(r) /\ r.pc \notin DraftPcs
    BY <1>1, <2>3 DEF LockJob, Fenced, Row, IInv, Working, Trusts, JobPcs, DraftPcs
  <2>5. \A x \in Workers : ~(HoldsJob(x) /\ worker[x].draft = r.draft /\ worker[x].version = r.version)
    BY <2>3 DEF LockJob, JobLocked
  <2>6. QED
    BY <2>2, <2>3, <2>4, <2>5, WorkerStep DEF LockJob
<1>2. CASE Release(w)
  BY <1>2, ReleaseInv DEF LockJob
<1>3. QED
  BY <1>1, <1>2 DEF LockJob

LEMMA LockDraftInv ==
  ASSUME IInv, NEW w \in Workers, LockDraft(w)
  PROVE  IInv'
<1>1. PICK n : n = draft[worker[w].draft].version
  OBVIOUS
<1>2. PICK r : r = [worker[w] EXCEPT !.pc = "drafted", !.read = n]
  OBVIOUS
<1>3. worker' = [worker EXCEPT ![w] = r]
  BY <1>1, <1>2 DEF LockDraft, IInv, TypeOK, WorkerRecord
<1>4. worker[w].draft \in Drafts /\ worker[w].version \in Versions
  BY DEF LockDraft, IInv, Working, Trusts
<1>5. n \in 0..MaxVersion
  BY <1>1, <1>4 DEF IInv, TypeOK
<1>6. /\ r \in WorkerRecord /\ r.pc = "drafted" /\ r.draft = worker[w].draft /\ r.read = n
      /\ r.version = worker[w].version /\ r.attempt = worker[w].attempt
  BY <1>2, <1>5, WorkerFacts DEF IInv, WorkerRecord, Pcs
<1>7. Trusts(r)
  BY <1>1, <1>6 DEF LockDraft, IInv, Working, Trusts, JobPcs, DraftPcs
<1>8. HoldsJob(w)
  BY DEF LockDraft, HoldsJob
<1>9. \A x \in Workers : ~(HoldsDraft(x) /\ worker[x].draft = r.draft)
  BY <1>6 DEF LockDraft, DraftLocked
<1>10. \A x \in Workers \ {w} :
         worker[x].draft = r.draft => ~(HoldsJob(x) /\ worker[x].version = r.version)
  BY <1>6, <1>8 DEF IInv, OneHolder
<1>11. QED
  BY <1>3, <1>6, <1>7, <1>9, <1>10, WorkerStep DEF LockDraft

LEMMA AuthorizeInv ==
  ASSUME IInv, NEW w \in Workers, Authorize(w)
  PROVE  IInv'
<1>1. worker[w].pc \in DraftPcs /\ worker[w].pc # "idle" /\ "authorized" \in DraftPcs
  BY DEF Authorize, DraftPcs
<1>2. QED
  BY <1>1, GoToInv, CatchInv DEF Authorize

LEMMA StoreInv ==
  ASSUME IInv, NEW w \in Workers, Store(w)
  PROVE  IInv'
<1>1. worker[w].pc \in DraftPcs /\ worker[w].pc # "idle" /\ "stored" \in DraftPcs
  BY DEF Store, DraftPcs
<1>2. QED
  BY <1>1, GoToInv, CatchInv DEF Store

-----------------------------------------------------------------------------
(***************************************************************************)
(* Steps that write data.                                                  *)
(***************************************************************************)
\* A job is written that is queued or running: it stays one or fails, and
\* whoever holds it goes on holding it.  Invocations stay where they are, or get
\* to where nothing is held.
Rewrites(d, v, row) ==
  /\ row \in JobRecord
  /\ job' = [job EXCEPT ![d][v] = row]
  /\ job[d][v].status \in {"queued", "running"}
  /\ row.status \in {"queued", "running", "failed"}
  /\ row.live => row.status = "running"
  /\ worker' \in [Workers -> WorkerRecord]
  /\ \A x \in Workers :
       \/ worker'[x] = worker[x]
       \/ worker'[x].pc \notin JobPcs /\ Trusts(worker'[x])
  /\ \A x \in Workers : HoldsJob(x) /\ worker[x].draft = d /\ worker[x].version = v =>
       row.status = "running" /\ row.token = job[d][v].token
  /\ UNCHANGED <<draft, member, entitled, audited>>

LEMMA JobStep ==
  ASSUME IInv, NEW d \in Drafts, NEW v \in Versions, NEW row, Rewrites(d, v, row)
  PROVE  IInv'
<1> USE DEF Rewrites
<1>1. /\ job' \in [Drafts -> [Versions -> JobRecord]] /\ job'[d][v] = row
      /\ \A e \in Drafts, u \in Versions : e # d \/ u # v => job'[e][u] = job[e][u]
  BY JobWrite DEF IInv
<1>2. TypeOK'
  BY <1>1 DEF IInv, TypeOK
<1>3. Existing' /\ LiveRuns'
  BY <1>1 DEF IInv, Data, Existing, LiveRuns
<1>4. ReadyIsCurrent'
  BY DEF IInv, Data, ReadyIsCurrent
<1>5. CompletedIsReady'
  <2> SUFFICES ASSUME NEW e \in Drafts, draft[e].version # 0
               PROVE  job'[e][draft[e].version].status = "completed"
                        <=> draft[e].prepared = draft[e].version
    BY DEF CompletedIsReady
  <2>1. draft[e].version \in Versions
    BY PrepareAssumption DEF IInv, TypeOK, Versions
  <2>2. job'[e][draft[e].version].status = "completed" <=> job[e][draft[e].version].status = "completed"
    BY <1>1, <2>1
  <2>3. QED
    BY <2>2 DEF IInv, Data, CompletedIsReady
<1>6. PreparedOnce'
  BY <1>1 DEF IInv, Data, PreparedOnce
<1>7. Working'
  <2> SUFFICES ASSUME NEW x \in Workers, worker'[x].pc # "idle" PROVE Trusts(worker[x])'
    BY DEF Working, Trusts
  <2>1. PICK r : r = worker'[x]
    OBVIOUS
  <2>2. Trusts(r) /\ r.pc # "idle"
    BY <2>1 DEF IInv, Working
  <2>3. /\ r.draft \in Drafts /\ r.version \in Versions
        /\ job'[r.draft][r.version].status # "absent"
    BY <1>1, <2>2 DEF Trusts
  <2>4. ASSUME r.pc \in JobPcs
        PROVE  /\ job'[r.draft][r.version].status = "running"
               /\ job'[r.draft][r.version].token = r.attempt
    <3>1. r = worker[x] /\ HoldsJob(x)
      BY <2>1, <2>4, NotLocked
    <3>2. CASE r.draft = d /\ r.version = v
      BY <1>1, <2>2, <2>4, <3>1, <3>2 DEF Trusts
    <3>3. CASE ~(r.draft = d /\ r.version = v)
      BY <1>1, <2>2, <2>3, <2>4, <3>3 DEF Trusts
    <3>4. QED
      BY <3>2, <3>3
  <2>5. r.pc \in DraftPcs => r.read = draft'[r.draft].version
    BY <2>2 DEF Trusts
  <2>6. QED
    BY <2>1, <2>3, <2>4, <2>5 DEF Trusts
<1>8. OneHolder'
  <2> SUFFICES ASSUME NEW x \in Workers, NEW y \in Workers, x # y,
                      worker'[x].draft = worker'[y].draft, HoldsJob(x)', HoldsJob(y)'
               PROVE  /\ ~(HoldsDraft(x)' /\ HoldsDraft(y)')
                      /\ worker'[x].version # worker'[y].version
    BY DEF OneHolder, HoldsDraft, HoldsJob
  <2>1. worker'[x] = worker[x] /\ worker'[y] = worker[y]
    BY DEF HoldsJob, JobPcs
  <2>2. HoldsJob(x) /\ HoldsJob(y)
    BY <2>1 DEF HoldsJob
  <2>3. (HoldsDraft(x)' <=> HoldsDraft(x)) /\ (HoldsDraft(y)' <=> HoldsDraft(y))
    BY <2>1 DEF HoldsDraft
  <2>4. QED
    BY <2>1, <2>2, <2>3 DEF IInv, OneHolder
<1>9. QED
  BY <1>2, <1>3, <1>4, <1>5, <1>6, <1>7, <1>8 DEF IInv, Data

LEMMA LeaseExpiresInv ==
  ASSUME IInv, NEW d \in Drafts, NEW v \in Versions, LeaseExpires(d, v)
  PROVE  IInv'
<1>1. PICK row : row = [job[d][v] EXCEPT !.live = FALSE]
  OBVIOUS
<1>2. job' = [job EXCEPT ![d][v] = row]
  BY <1>1 DEF LeaseExpires
<1>3. job[d][v].status = "running"
  BY DEF LeaseExpires, IInv, Data, LiveRuns
<1>4. /\ row \in JobRecord /\ row.status = "running" /\ row.token = job[d][v].token
  BY <1>1, <1>3, JobFacts DEF IInv, JobRecord
<1>5. worker' \in [Workers -> WorkerRecord] /\ \A x \in Workers : worker'[x] = worker[x]
  BY DEF LeaseExpires, IInv, TypeOK
<1>6. UNCHANGED <<draft, member, entitled, audited>>
  BY DEF LeaseExpires
<1>7. Rewrites(d, v, row)
  BY <1>2, <1>3, <1>4, <1>5, <1>6 DEF Rewrites
<1>8. QED
  BY <1>7, JobStep

LEMMA BackoffPassesInv ==
  ASSUME IInv, NEW d \in Drafts, NEW v \in Versions, BackoffPasses(d, v)
  PROVE  IInv'
<1>1. PICK row : row = [job[d][v] EXCEPT !.due = TRUE]
  OBVIOUS
<1>2. job' = [job EXCEPT ![d][v] = row]
  BY <1>1 DEF BackoffPasses
<1>3. job[d][v].status = "queued"
  BY DEF BackoffPasses
<1>4. /\ row \in JobRecord /\ row.status = "queued" /\ ~row.live
  BY <1>1, <1>3, JobFacts DEF IInv, JobRecord, Data, LiveRuns
<1>5. worker' \in [Workers -> WorkerRecord] /\ \A x \in Workers : worker'[x] = worker[x]
  BY DEF BackoffPasses, IInv, TypeOK
<1>6. \A x \in Workers : ~(HoldsJob(x) /\ worker[x].draft = d /\ worker[x].version = v)
  BY <1>3, NotLocked DEF IInv, Working, Trusts, JobPcs
<1>7. UNCHANGED <<draft, member, entitled, audited>>
  BY DEF BackoffPasses
<1>8. Rewrites(d, v, row)
  BY <1>2, <1>3, <1>4, <1>5, <1>6, <1>7 DEF Rewrites
<1>9. QED
  BY <1>8, JobStep

LEMMA ClaimInv ==
  ASSUME IInv, NEW w \in Workers, NEW d \in Drafts, NEW v \in Versions, Claim(w, d, v)
  PROVE  IInv'
<1>1. PICK n : n = job[d][v].attempts + 1
  OBVIOUS
<1>2. n \in 0..MaxAttempts
  BY <1>1, JobFacts, PrepareAssumption DEF Claim, Spent, IInv
<1>3. PICK row : row = [job[d][v] EXCEPT !.status = "running", !.attempts = n, !.token = n, !.live = TRUE]
  OBVIOUS
<1>4. PICK r : r = [pc |-> "claimed", draft |-> d, version |-> v, read |-> 0,
                    attempt |-> n, fresh |-> FALSE, revoked |-> FALSE]
  OBVIOUS
<1>5. job' = [job EXCEPT ![d][v] = row] /\ worker' = [worker EXCEPT ![w] = r]
  BY <1>1, <1>3, <1>4 DEF Claim, SetJob
<1>6. row \in JobRecord /\ row.status = "running"
  BY <1>2, <1>3, JobFacts DEF IInv, JobRecord, Statuses
<1>7. r \in WorkerRecord
  BY <1>2, <1>4, PrepareAssumption DEF WorkerRecord, Pcs, Versions
<1>8. job[d][v].status \in {"queued", "running"} /\ ~JobLocked(d, v)
  BY DEF Claim, Claimable
<1>9. r.pc \notin JobPcs /\ Trusts(r)
  BY <1>4, <1>8 DEF Trusts, JobPcs, DraftPcs
<1>10. /\ worker' \in [Workers -> WorkerRecord] /\ worker'[w] = r
       /\ \A x \in Workers \ {w} : worker'[x] = worker[x]
  BY <1>5, <1>7, WorkerWrite DEF IInv
<1>11. \A x \in Workers : \/ worker'[x] = worker[x]
                          \/ worker'[x].pc \notin JobPcs /\ Trusts(worker'[x])
  BY <1>9, <1>10
<1>12. \A x \in Workers : ~(HoldsJob(x) /\ worker[x].draft = d /\ worker[x].version = v)
  BY <1>8 DEF JobLocked
<1>13. UNCHANGED <<draft, member, entitled, audited>>
  BY DEF Claim
<1>14. Rewrites(d, v, row)
  BY <1>5, <1>6, <1>8, <1>10, <1>11, <1>12, <1>13 DEF Rewrites
<1>15. QED
  BY <1>14, JobStep

LEMMA ExhaustInv ==
  ASSUME IInv, NEW w \in Workers, NEW d \in Drafts, NEW v \in Versions, Exhaust(w, d, v)
  PROVE  IInv'
<1>1. PICK row : row = [job[d][v] EXCEPT !.status = "failed", !.token = 0, !.live = FALSE]
  OBVIOUS
<1>2. job' = [job EXCEPT ![d][v] = row]
  BY <1>1 DEF Exhaust, SetJob
<1>3. job[d][v].status \in {"queued", "running"} /\ ~JobLocked(d, v)
  BY DEF Exhaust, Claimable
<1>4. row \in JobRecord /\ row.status = "failed" /\ ~row.live
  <2>1. job[d][v] \in JobRecord
    BY JobFacts DEF IInv
  <2>2. QED
    BY <1>1, <2>1, Zero DEF JobRecord, Statuses
<1>5. worker' \in [Workers -> WorkerRecord] /\ \A x \in Workers : worker'[x] = worker[x]
  BY DEF Exhaust, IInv, TypeOK
<1>6. \A x \in Workers : ~(HoldsJob(x) /\ worker[x].draft = d /\ worker[x].version = v)
  BY <1>3 DEF JobLocked
<1>7. UNCHANGED <<draft, member, entitled, audited>>
  BY DEF Exhaust
<1>8. Rewrites(d, v, row)
  BY <1>2, <1>3, <1>4, <1>5, <1>6, <1>7 DEF Rewrites
<1>9. QED
  BY <1>8, JobStep

LEMMA ReportInv ==
  ASSUME IInv, NEW w \in Workers, Report(w)
  PROVE  IInv'
<1>1. CASE ~StillMine(w)
  <2>1. UnchangedData /\ Release(w)
    BY <1>1 DEF Report, UnchangedData
  <2>2. QED
    BY <2>1, ReleaseInv
<1>2. CASE StillMine(w)
  <2>1. PICK d \in Drafts, v \in Versions : d = worker[w].draft /\ v = worker[w].version
    BY DEF Report, IInv, Working, Trusts
  <2>2. PICK s \in {"failed", "queued"} : s = IF Terminal(w) THEN "failed" ELSE "queued"
    OBVIOUS
  <2>3. PICK row : row = [job[d][v] EXCEPT !.status = s, !.token = 0, !.live = FALSE, !.due = FALSE]
    OBVIOUS
  <2>4. job' = [job EXCEPT ![d][v] = row]
    BY <1>2, <2>1, <2>2, <2>3 DEF Report, SetJob, Row
  <2>5. row \in JobRecord /\ row.status \in {"failed", "queued"} /\ ~row.live
    <3>1. job[d][v] \in JobRecord
      BY JobFacts DEF IInv
    <3>2. QED
      BY <2>2, <2>3, <3>1, Zero DEF JobRecord, Statuses
  <2>6. job[d][v].status = "running" /\ ~JobLocked(d, v)
    BY <1>2, <2>1 DEF Report, StillMine, Row
  <2>7. /\ worker' \in [Workers -> WorkerRecord] /\ worker'[w] = Idle
        /\ \A x \in Workers \ {w} : worker'[x] = worker[x]
    BY IdleRecord, WorkerWrite DEF IInv, Report, Release
  <2>8. \A x \in Workers : \/ worker'[x] = worker[x]
                           \/ worker'[x].pc \notin JobPcs /\ Trusts(worker'[x])
    BY <2>7, IdleRecord
  <2>9. \A x \in Workers : ~(HoldsJob(x) /\ worker[x].draft = d /\ worker[x].version = v)
    BY <2>6 DEF JobLocked
  <2>10. UNCHANGED <<draft, member, entitled, audited>>
    BY DEF Report
  <2>11. Rewrites(d, v, row)
    BY <2>4, <2>5, <2>6, <2>7, <2>8, <2>9, <2>10 DEF Rewrites
  <2>12. QED
    BY <2>11, JobStep
<1>3. QED
  BY <1>1, <1>2

\* The draft of a job that is not there is nobody's.
LEMMA NobodyWorks ==
  ASSUME IInv, NEW d \in Drafts, NEW v \in Versions, job[d][v].status = "absent",
         NEW x \in Workers, worker[x].pc # "idle"
  PROVE  ~(worker[x].draft = d /\ worker[x].version = v)
  BY DEF IInv, Working, Trusts

LEMMA EnqueuedRecord ==
  ASSUME IInv, NEW m \in Members
  PROVE  Enqueued(m) \in JobRecord /\ Enqueued(m).status = "queued" /\ ~Enqueued(m).live
<1>1. member[m].version \in 0..MaxMembership
  BY PrepareAssumption DEF IInv, TypeOK
<1>2. QED
  BY <1>1, Zero DEF Enqueued, JobRecord, Statuses

\* A version is written, and its job, while nobody holds the draft.
LEMMA NewVersion ==
  ASSUME IInv, NEW m \in Members, NEW d \in Drafts, NEW v \in Versions,
         v = draft[d].version + 1, ~DraftLocked(d),
         NEW dr \in [version : {v}, prepared : {0}, digest : 0..MaxVersion],
         draft' = [draft EXCEPT ![d] = dr],
         job' = [job EXCEPT ![d][v] = Enqueued(m)],
         UNCHANGED <<member, entitled, worker, audited>>
  PROVE  IInv'
<1>1. PICK row : row = Enqueued(m)
  OBVIOUS
<1>2. row \in JobRecord /\ row.status = "queued" /\ ~row.live
  BY <1>1, EnqueuedRecord
<1>3. /\ job' \in [Drafts -> [Versions -> JobRecord]] /\ job'[d][v] = row
      /\ \A e \in Drafts, u \in Versions : e # d \/ u # v => job'[e][u] = job[e][u]
  <2>1. job' = [job EXCEPT ![d][v] = row]
    BY <1>1
  <2>2. row \in JobRecord /\ TypeOK
    BY <1>2 DEF IInv
  <2>3. QED
    BY <2>1, <2>2 DEF TypeOK
<1>4. /\ draft'[d].version = v /\ draft'[d].prepared = 0
      /\ \A e \in Drafts \ {d} : draft'[e] = draft[e]
  BY DEF IInv, TypeOK
<1>5. draft[d].version \in 0..MaxVersion /\ v \in Nat /\ v # 0 /\ v \in 0..MaxVersion
  BY JobFacts, PrepareAssumption DEF IInv, Versions
<1>6. job[d][v].status = "absent"
  <2>1. v > draft[d].version
    BY <1>5
  <2>2. QED
    BY <2>1 DEF IInv, Data, Existing
<1>7. TypeOK'
  <2>1. dr \in [version : 0..MaxVersion, prepared : 0..MaxVersion, digest : 0..MaxVersion]
    BY <1>5, Zero
  <2>2. QED
    BY <1>3, <2>1 DEF IInv, TypeOK
<1>8. Existing'
  <2> SUFFICES ASSUME NEW e \in Drafts, NEW u \in Versions
               PROVE  job'[e][u].status = "absent" <=> u > draft'[e].version
    BY DEF Existing
  <2>1. CASE e = d /\ u = v
    BY <1>2, <1>3, <1>4, <1>5, <2>1
  <2>2. CASE e = d /\ u # v
    <3>1. u \in Nat
      BY DEF Versions
    <3>2. u > v <=> u > draft[d].version
      BY <1>5, <2>2, <3>1
    <3>3. QED
      BY <1>3, <1>4, <2>2, <3>2 DEF IInv, Data, Existing
  <2>3. CASE e # d
    BY <1>3, <1>4, <2>3 DEF IInv, Data, Existing
  <2>4. QED
    BY <2>1, <2>2, <2>3
<1>9. LiveRuns'
  BY <1>2, <1>3 DEF IInv, Data, LiveRuns
<1>10. ReadyIsCurrent'
  BY <1>4 DEF IInv, Data, ReadyIsCurrent
<1>11. CompletedIsReady'
  <2> SUFFICES ASSUME NEW e \in Drafts, draft'[e].version # 0
               PROVE  job'[e][draft'[e].version].status = "completed"
                        <=> draft'[e].prepared = draft'[e].version
    BY DEF CompletedIsReady
  <2>1. CASE e = d
    BY <1>2, <1>3, <1>4, <1>5, <2>1
  <2>2. CASE e # d
    <3>1. draft'[e] = draft[e] /\ draft[e].version \in Versions
      BY <1>4, <2>2, PrepareAssumption DEF IInv, TypeOK, Versions
    <3>2. job'[e][draft[e].version] = job[e][draft[e].version]
      BY <1>3, <2>2, <3>1
    <3>3. QED
      BY <3>1, <3>2 DEF IInv, Data, CompletedIsReady
  <2>3. QED
    BY <2>1, <2>2
<1>12. PreparedOnce'
  <2>1. audited[d][v] # 1
    BY <1>6 DEF IInv, Data, PreparedOnce
  <2>2. QED
    BY <1>3, <2>1 DEF IInv, Data, PreparedOnce
<1>13. Working'
  <2> SUFFICES ASSUME NEW x \in Workers, worker[x].pc # "idle" PROVE Trusts(worker[x])'
    BY DEF Working, Trusts
  <2>1. PICK r : r = worker[x]
    OBVIOUS
  <2>2. Trusts(r) /\ r.pc # "idle"
    BY <2>1 DEF IInv, Working
  <2>3. r.draft \in Drafts /\ r.version \in Versions /\ ~(r.draft = d /\ r.version = v)
    BY <1>6, <2>1, <2>2, NobodyWorks DEF Trusts
  <2>4. job'[r.draft][r.version] = job[r.draft][r.version]
    BY <1>3, <2>3
  <2>5. r.pc \in DraftPcs => draft'[r.draft] = draft[r.draft]
    BY <1>4, <2>1, <2>3, NotLocked DEF DraftLocked
  <2>6. Trusts(r)'
    BY <2>2, <2>4, <2>5 DEF Trusts
  <2>7. QED
    BY <2>1, <2>6 DEF Trusts
<1>14. OneHolder'
  BY DEF IInv, OneHolder, HoldsDraft, HoldsJob
<1>15. QED
  BY <1>7, <1>8, <1>9, <1>10, <1>11, <1>12, <1>13, <1>14 DEF IInv, Data

LEMMA CreateDraftInv ==
  ASSUME IInv, NEW m \in Members, NEW d \in Drafts, CreateDraft(m, d)
  PROVE  IInv'
<1>1. PICK v \in Versions : v = 1
  BY PrepareAssumption DEF Versions
<1>2. PICK dr : dr = [draft[d] EXCEPT !.version = 1]
  OBVIOUS
<1>3. draft[d].version = 0 /\ v = draft[d].version + 1 /\ draft[d].prepared = 0
  BY <1>1, JobFacts DEF CreateDraft, IInv, Data, ReadyIsCurrent
<1>4. dr \in [version : {v}, prepared : {0}, digest : 0..MaxVersion]
  BY <1>1, <1>2, <1>3 DEF IInv, TypeOK
<1>5. draft' = [draft EXCEPT ![d] = dr] /\ job' = [job EXCEPT ![d][v] = Enqueued(m)]
  BY <1>1, <1>2 DEF CreateDraft
<1>6. ~DraftLocked(d)
  <2> SUFFICES ASSUME NEW x \in Workers, HoldsDraft(x), worker[x].draft = d PROVE FALSE
    BY DEF DraftLocked
  <2>1. worker[x].pc # "idle" /\ worker[x].version \in Versions
    BY DEF HoldsDraft, IInv, Working, Trusts
  <2>2. worker[x].version > draft[d].version
    BY <1>3, <2>1, PrepareAssumption DEF Versions
  <2>3. QED
    BY <2>1, <2>2 DEF IInv, Data, Existing, Working, Trusts
<1>7. UNCHANGED <<member, entitled, worker, audited>>
  BY DEF CreateDraft
<1>8. QED
  BY <1>3, <1>4, <1>5, <1>6, <1>7, NewVersion

LEMMA UpdateDraftInv ==
  ASSUME IInv, NEW m \in Members, NEW d \in Drafts, UpdateDraft(m, d)
  PROVE  IInv'
<1>1. draft[d].version \in 1..(MaxVersion - 1) /\ ~DraftLocked(d)
  BY DEF UpdateDraft
<1>2. PICK v \in Versions : v = draft[d].version + 1
  BY <1>1, PrepareAssumption DEF Versions
<1>3. PICK dr : dr = Edited(d)
  OBVIOUS
<1>4. dr \in [version : {v}, prepared : {0}, digest : 0..MaxVersion]
  BY <1>2, <1>3, Zero DEF Edited
<1>5. draft' = [draft EXCEPT ![d] = dr] /\ job' = [job EXCEPT ![d][v] = Enqueued(m)]
  BY <1>2, <1>3 DEF UpdateDraft
<1>6. UNCHANGED <<member, entitled, worker, audited>>
  BY DEF UpdateDraft
<1>7. QED
  BY <1>1, <1>2, <1>4, <1>5, <1>6, NewVersion

LEMMA AdministrationInv ==
  ASSUME IInv,
         ChangeEntitlement \/ \E m \in Members, active \in BOOLEAN : ChangeMembership(m, active)
  PROVE  IInv'
<1>1. TypeOK'
  <2>1. CASE ChangeEntitlement
    BY <2>1 DEF ChangeEntitlement, IInv, TypeOK
  <2>2. CASE \E m \in Members, active \in BOOLEAN : ChangeMembership(m, active)
    <3>1. PICK m \in Members, active \in BOOLEAN : ChangeMembership(m, active)
      BY <2>2
    <3>2. member[m].version + 1 \in 1..MaxMembership
      BY <3>1, PrepareAssumption DEF ChangeMembership, IInv, TypeOK
    <3>3. QED
      BY <3>1, <3>2 DEF ChangeMembership, IInv, TypeOK
  <2>3. QED
    BY <2>1, <2>2
<1>2. UNCHANGED <<draft, job, worker, audited>>
  BY DEF ChangeEntitlement, ChangeMembership
<1>3. Data'
  BY <1>2 DEF IInv, Data, Existing, LiveRuns, ReadyIsCurrent, CompletedIsReady, PreparedOnce
<1>4. Working' /\ OneHolder'
  BY <1>2 DEF IInv, Working, Trusts, OneHolder, HoldsDraft, HoldsJob
<1>5. QED
  BY <1>1, <1>3, <1>4 DEF IInv


\* What a commit makes of the data, whether or not its answer arrives.
LEMMA CommitData ==
  ASSUME IInv, NEW w \in Workers, Commit(w),
         NEW d \in Drafts, NEW v \in Versions, d = worker[w].draft, v = worker[w].version
  PROVE  /\ TypeOK' /\ Data'
         /\ \A e \in Drafts : draft'[e].version = draft[e].version
         /\ \A e \in Drafts, u \in Versions : e # d \/ u # v => job'[e][u] = job[e][u]
         /\ job'[d][v].status = "completed"
<1>1. worker[w].pc = "stored" /\ HoldsJob(w)
  BY DEF Commit, HoldsJob
<1>2. /\ job[d][v].status = "running" /\ job[d][v].token = worker[w].attempt
      /\ worker[w].read = draft[d].version
  BY <1>1 DEF IInv, Working, Trusts, JobPcs, DraftPcs
<1>3. PICK row : row = [job[d][v] EXCEPT !.status = "completed", !.token = 0, !.live = FALSE]
  OBVIOUS
<1>4. row \in JobRecord /\ row.status = "completed" /\ ~row.live
  <2>1. job[d][v] \in JobRecord
    BY JobFacts DEF IInv
  <2>2. QED
    BY <1>3, <2>1, Zero DEF JobRecord, Statuses
<1>5. job' = [job EXCEPT ![d][v] = row]
  BY <1>2, <1>3 DEF Commit, Row, SetJob
<1>6. /\ job' \in [Drafts -> [Versions -> JobRecord]] /\ job'[d][v] = row
      /\ \A e \in Drafts, u \in Versions : e # d \/ u # v => job'[e][u] = job[e][u]
  <2>1. row \in JobRecord /\ TypeOK
    BY <1>4 DEF IInv
  <2>2. QED
    BY <1>5, <2>1 DEF TypeOK
<1>7. /\ draft[d].version \in 0..MaxVersion /\ draft[d].version \in Nat
      /\ draft[d].prepared \in 0..MaxVersion /\ v \in Nat /\ v # 0
  BY JobFacts DEF IInv
<1>8. /\ draft' \in [Drafts -> [version : 0..MaxVersion, prepared : 0..MaxVersion,
                                digest : 0..MaxVersion]]
      /\ \A e \in Drafts : draft'[e].version = draft[e].version
      /\ \A e \in Drafts \ {d} : draft'[e] = draft[e]
      /\ IF draft[d].version = v
           THEN draft'[d].prepared = v /\ draft'[d].digest = v
           ELSE draft'[d] = draft[d]
  <2>1. CASE draft[d].version = v
    <3>1. draft' = [draft EXCEPT ![d].prepared = v, ![d].digest = v]
      BY <1>2, <2>1 DEF Commit, SameVersion
    <3>2. QED
      BY <1>7, <2>1, <3>1 DEF IInv, TypeOK
  <2>2. CASE draft[d].version # v
    BY <1>2, <2>2 DEF Commit, SameVersion, IInv, TypeOK
  <2>3. QED
    BY <2>1, <2>2
<1>9. /\ audited' \in [Drafts -> [Versions -> Nat]]
      /\ audited'[d][v] \in {audited[d][v], audited[d][v] + 1}
      /\ \A e \in Drafts, u \in Versions : e # d \/ u # v => audited'[e][u] = audited[e][u]
  <2>1. \/ audited' = [audited EXCEPT ![d][v] = audited[d][v] + 1]
        \/ audited' = audited
    BY DEF Commit
  <2>2. audited \in [Drafts -> [Versions -> Nat]] /\ audited[d][v] + 1 \in Nat
    BY DEF IInv, TypeOK
  <2>3. QED
    BY <2>1, <2>2
<1>10. TypeOK'
  <2>1. worker' \in [Workers -> WorkerRecord]
    <3>1. CASE Release(w)
      BY <3>1, IdleRecord DEF Release, IInv, TypeOK
    <3>2. CASE Catch(w, FALSE)
      BY <1>1, <3>2, CatchRecord, WorkerWrite DEF IInv
    <3>3. QED
      BY <3>1, <3>2 DEF Commit
  <2>2. member' = member /\ entitled' = entitled
    BY DEF Commit
  <2>3. member \in [Members -> [version : 1..MaxMembership, active : BOOLEAN]] /\ entitled \in BOOLEAN
    BY DEF IInv, TypeOK
  <2>4. QED
    BY <1>6, <1>8, <1>9, <2>1, <2>2, <2>3 DEF TypeOK
<1>11. Existing' /\ LiveRuns'
  <2>1. \A e \in Drafts, u \in Versions :
          /\ job'[e][u].status = "absent" <=> job[e][u].status = "absent"
          /\ job'[e][u].live => job'[e][u].status = "running"
    <3> SUFFICES ASSUME NEW e \in Drafts, NEW u \in Versions
                 PROVE  /\ job'[e][u].status = "absent" <=> job[e][u].status = "absent"
                        /\ job'[e][u].live => job'[e][u].status = "running"
      OBVIOUS
    <3>1. CASE e = d /\ u = v
      BY <1>2, <1>4, <1>6, <3>1
    <3>2. CASE e # d \/ u # v
      BY <1>6, <3>2 DEF IInv, Data, LiveRuns
    <3>3. QED
      BY <3>1, <3>2
  <2>2. Existing'
    BY <1>8, <2>1 DEF IInv, Data, Existing
  <2>3. LiveRuns'
    BY <2>1 DEF LiveRuns
  <2>4. QED
    BY <2>2, <2>3
<1>12. ReadyIsCurrent'
  BY <1>8 DEF IInv, Data, ReadyIsCurrent
<1>13. CompletedIsReady'
  <2> SUFFICES ASSUME NEW e \in Drafts, draft[e].version # 0
               PROVE  job'[e][draft[e].version].status = "completed"
                        <=> draft'[e].prepared = draft[e].version
    BY <1>8 DEF CompletedIsReady
  <2>1. draft[e].version \in Versions
    BY PrepareAssumption DEF IInv, TypeOK, Versions
  <2>2. CASE e = d /\ draft[e].version = v
    BY <1>4, <1>6, <1>8, <2>2
  <2>3. CASE ~(e = d /\ draft[e].version = v)
    <3>1. job'[e][draft[e].version] = job[e][draft[e].version] /\ draft'[e] = draft[e]
      BY <1>6, <1>8, <2>1, <2>3
    <3>2. QED
      BY <3>1 DEF IInv, Data, CompletedIsReady
  <2>4. QED
    BY <2>2, <2>3
<1>14. PreparedOnce'
  <2>1. audited[d][v] = 0
    <3>1. audited[d][v] \in Nat /\ audited[d][v] <= 1 /\ audited[d][v] # 1
      BY <1>2, JobFacts DEF IInv, Data, PreparedOnce
    <3>2. QED
      BY <3>1
  <2>2. audited'[d][v] <= 1
    BY <1>9, <2>1
  <2>3. QED
    BY <1>4, <1>6, <1>9, <2>2 DEF IInv, Data, PreparedOnce
<1>15. QED
  BY <1>4, <1>6, <1>8, <1>10, <1>11, <1>12, <1>13, <1>14 DEF Data

LEMMA CommitInv ==
  ASSUME IInv, NEW w \in Workers, Commit(w)
  PROVE  IInv'
<1>1. worker[w].pc = "stored" /\ worker[w].pc # "idle" /\ HoldsJob(w) /\ HoldsDraft(w)
  BY DEF Commit, HoldsJob, HoldsDraft
<1>2. PICK d \in Drafts, v \in Versions : d = worker[w].draft /\ v = worker[w].version
  BY <1>1 DEF IInv, Working, Trusts
<1>3. /\ TypeOK' /\ Data'
      /\ \A e \in Drafts : draft'[e].version = draft[e].version
      /\ \A e \in Drafts, u \in Versions : e # d \/ u # v => job'[e][u] = job[e][u]
      /\ job'[d][v].status = "completed"
  BY <1>2, CommitData
<1>4. PICK r \in WorkerRecord : /\ worker' = [worker EXCEPT ![w] = r]
                                /\ Trusts(r) /\ r.pc \notin JobPcs
  <2>1. CASE Release(w)
    BY <2>1, IdleRecord DEF Release
  <2>2. CASE Catch(w, FALSE)
    <3>1. PICK r \in WorkerRecord : worker' = [worker EXCEPT ![w] = r] /\ Trusts(r) /\ r.pc = "caught"
      BY <1>1, <2>2, CatchRecord
    <3>2. r.pc \notin JobPcs
      BY <3>1 DEF JobPcs
    <3>3. QED
      BY <3>1, <3>2
  <2>3. QED
    BY <2>1, <2>2 DEF Commit
<1>5. worker'[w] = r /\ \A x \in Workers \ {w} : worker'[x] = worker[x]
  BY <1>4, WorkerWrite DEF IInv
<1>6. Working'
  <2> SUFFICES ASSUME NEW x \in Workers, worker'[x].pc # "idle" PROVE Trusts(worker[x])'
    BY DEF Working, Trusts
  <2>1. PICK s : s = worker'[x]
    OBVIOUS
  <2>2. Trusts(s) /\ s.pc # "idle"
    BY <1>4, <1>5, <2>1 DEF IInv, Working
  <2>3. /\ s.draft \in Drafts /\ s.version \in Versions
        /\ job'[s.draft][s.version].status # "absent"
    BY <1>3, <2>2 DEF Trusts
  <2>4. s.pc \in JobPcs => ~(s.draft = d /\ s.version = v)
    BY <1>1, <1>2, <1>4, <1>5, <2>1, NotLocked DEF IInv, OneHolder
  <2>5. Trusts(s)'
    BY <1>3, <2>2, <2>3, <2>4 DEF Trusts
  <2>6. QED
    BY <2>1, <2>5 DEF Trusts
<1>7. OneHolder'
  BY <1>4, <1>5 DEF IInv, OneHolder, HoldsDraft, HoldsJob, JobPcs
<1>8. QED
  BY <1>3, <1>6, <1>7 DEF IInv

LEMMA WorksInv ==
  ASSUME IInv, NEW w \in Workers, Works(w) \/ Fails(w) \/ Crash(w)
  PROVE  IInv'
<1>1. CASE Works(w)
  BY <1>1, ClaimInv, ExhaustInv, BeginInv, LockJobInv, LockDraftInv, AuthorizeInv, StoreInv,
     CommitInv, ReportInv DEF Works
<1>2. CASE Fails(w)
  BY <1>2, CatchInv DEF Fails
<1>3. CASE Crash(w)
  BY <1>3, ReleaseInv DEF Crash
<1>4. QED
  BY <1>1, <1>2, <1>3

LEMMA NextIInv == IInv /\ [Next]_vars => IInv'
<1> SUFFICES ASSUME IInv, [Next]_vars PROVE IInv'
  OBVIOUS
<1>1. CASE Next
  BY <1>1, CreateDraftInv, UpdateDraftInv, AdministrationInv, LeaseExpiresInv,
     BackoffPassesInv, WorksInv DEF Next
<1>2. CASE UNCHANGED vars
  BY <1>2 DEF vars, IInv, TypeOK, Data, Existing, LiveRuns, ReadyIsCurrent, CompletedIsReady,
     PreparedOnce, Working, Trusts, OneHolder, HoldsDraft, HoldsJob
<1>3. QED
  BY <1>1, <1>2

-----------------------------------------------------------------------------
\* The state is well-typed.
THEOREM PrepareTypes == Spec => []TypeOK
BY InitIInv, NextIInv, PTL DEF Spec, IInv

\* What can be downloaded is the current text.
THEOREM CurrentDownload == Spec => []ReadyIsCurrent
BY InitIInv, NextIInv, PTL DEF Spec, IInv, Data

\* The current version's job is completed exactly when its text can be downloaded.
THEOREM CompletedDownload == Spec => []CompletedIsReady
BY InitIInv, NextIInv, PTL DEF Spec, IInv, Data

\* No version is recorded as prepared twice, nor without its job completed.
THEOREM OneRecord == Spec => []PreparedOnce
BY InitIInv, NextIInv, PTL DEF Spec, IInv, Data

\* An invocation that lost its job writes nothing.
THEOREM HolderWrites == Spec => OnlyHolderWrites
<1> DEFINE Quiet == \A w \in Workers :
      worker[w].pc # "idle" /\ worker'[w] # worker[w] /\ Row(w).token # worker[w].attempt
        => UNCHANGED <<draft, job>>
<1>1. IInv /\ [Next]_vars => [Quiet]_vars
  <2> SUFFICES ASSUME IInv, Next, NEW w \in Workers, worker[w].pc # "idle",
                      worker'[w] # worker[w], Row(w).token # worker[w].attempt
               PROVE  UNCHANGED <<draft, job>>
    OBVIOUS
  <2>1. \A x \in Workers : x # w => ~(Works(x) \/ Fails(x) \/ Crash(x))
    <3> SUFFICES ASSUME NEW x \in Workers, x # w, Works(x) \/ Fails(x) \/ Crash(x)
                 PROVE  worker'[w] = worker[w]
      OBVIOUS
    <3>1. \A y \in Workers : \A f : worker' = [worker EXCEPT ![y] = f] /\ y # w => worker'[w] = worker[w]
      BY DEF IInv, TypeOK
    <3>2. worker' = worker \/ \E f : worker' = [worker EXCEPT ![x] = f]
      BY DEF Works, Fails, Crash, Claim, Exhaust, Begin, LockJob, LockDraft, Authorize, Store,
         Commit, Report, GoTo, Catch, Release
    <3>3. QED
      BY <3>1, <3>2
  <2>2. Works(w) \/ Fails(w) \/ Crash(w)
    BY <2>1 DEF Next, CreateDraft, UpdateDraft, ChangeMembership, ChangeEntitlement,
       LeaseExpires, BackoffPasses
  <2>3. worker[w].pc \notin JobPcs
    BY DEF IInv, Working, Trusts, Row
  <2>4. CASE Works(w)
    BY <2>3, <2>4 DEF Works, Claim, Exhaust, Begin, LockJob, LockDraft, Authorize, Store, Commit,
       Report, StillMine, JobPcs, UnchangedData
  <2>5. QED
    BY <2>2, <2>4 DEF Fails, Crash, UnchangedData
<1>2. QED
  BY <1>1, InitIInv, NextIInv, PTL DEF Spec, OnlyHolderWrites

\* A job that completed or failed is never run again.
THEOREM JobsStayFinal == Spec => FinalStays
<1> DEFINE Final == \A d \in Drafts, v \in Versions :
      job[d][v].status \in {"completed", "failed"} => job'[d][v] = job[d][v]
<1>1. IInv /\ [Next]_vars => [Final]_vars
  <2> SUFFICES ASSUME IInv, Next, NEW d \in Drafts, NEW v \in Versions,
                      job[d][v].status \in {"completed", "failed"}
               PROVE  job'[d][v] = job[d][v]
    OBVIOUS
  <2>1. ASSUME NEW e \in Drafts, NEW u \in Versions, NEW row, job' = [job EXCEPT ![e][u] = row],
               job[e][u].status \notin {"completed", "failed"}
        PROVE  job'[d][v] = job[d][v]
    BY <2>1 DEF IInv, TypeOK
  <2>2. CASE \E m \in Members, e \in Drafts : CreateDraft(m, e) \/ UpdateDraft(m, e)
    <3>1. PICK m \in Members, e \in Drafts : CreateDraft(m, e) \/ UpdateDraft(m, e)
      BY <2>2
    <3>2. PICK u \in Versions : u = draft[e].version + 1
      BY <3>1, PrepareAssumption DEF CreateDraft, UpdateDraft, Versions
    <3>3. job' = [job EXCEPT ![e][u] = Enqueued(m)]
      BY <3>1, <3>2 DEF CreateDraft, UpdateDraft
    <3>4. job[e][u].status = "absent"
      <4>1. u > draft[e].version
        BY <3>2, JobFacts DEF IInv
      <4>2. QED
        BY <4>1 DEF IInv, Data, Existing
    <3>5. QED
      BY <2>1, <3>3, <3>4
  <2>3. CASE \E e \in Drafts, u \in Versions : LeaseExpires(e, u) \/ BackoffPasses(e, u)
    <3>1. PICK e \in Drafts, u \in Versions : LeaseExpires(e, u) \/ BackoffPasses(e, u)
      BY <2>3
    <3>2. job[e][u].status \notin {"completed", "failed"}
      BY <3>1 DEF LeaseExpires, BackoffPasses, IInv, Data, LiveRuns
    <3>3. \E row : job' = [job EXCEPT ![e][u] = row]
      BY <3>1 DEF LeaseExpires, BackoffPasses
    <3>4. QED
      BY <2>1, <3>2, <3>3
  <2>4. CASE \E w \in Workers, e \in Drafts, u \in Versions : Claim(w, e, u) \/ Exhaust(w, e, u)
    <3>1. PICK w \in Workers, e \in Drafts, u \in Versions : Claim(w, e, u) \/ Exhaust(w, e, u)
      BY <2>4
    <3>2. job[e][u].status \notin {"completed", "failed"}
      BY <3>1 DEF Claim, Exhaust, Claimable
    <3>3. \E row : job' = [job EXCEPT ![e][u] = row]
      BY <3>1 DEF Claim, Exhaust, SetJob
    <3>4. QED
      BY <2>1, <3>2, <3>3
  <2>5. CASE \E w \in Workers : Commit(w) \/ Report(w)
    <3>1. PICK w \in Workers : Commit(w) \/ Report(w)
      BY <2>5
    <3>2. PICK e \in Drafts, u \in Versions : e = worker[w].draft /\ u = worker[w].version
      BY <3>1 DEF Commit, Report, IInv, Working, Trusts
    <3>3. job' = job \/ job[e][u].status \notin {"completed", "failed"}
      BY <3>1, <3>2 DEF Commit, Report, StillMine, Row, IInv, Working, Trusts, JobPcs
    <3>4. job' = job \/ \E row : job' = [job EXCEPT ![e][u] = row]
      BY <3>1, <3>2 DEF Commit, Report, SetJob
    <3>5. QED
      BY <2>1, <3>3, <3>4
  <2>6. CASE UNCHANGED job
    BY <2>6
  <2>7. QED
    BY <2>2, <2>3, <2>4, <2>5, <2>6 DEF Next, Works, Fails, Crash, ChangeMembership,
       ChangeEntitlement, Begin, LockJob, LockDraft, Authorize, Store, UnchangedData
<1>2. QED
  BY <1>1, InitIInv, NextIInv, PTL DEF Spec, FinalStays
=============================================================================
