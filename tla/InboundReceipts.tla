--------------------------- MODULE InboundReceipts ---------------------------
(***************************************************************************)
(* Inquiries that arrive through one published form: the form's source row *)
(* with its signing key, the immutable originals and their receipts, the   *)
(* job that each receipt waits for, the worker invocations that turn it    *)
(* into a lead, and the administrators who change the form, retry and      *)
(* reprocess meanwhile.                                                    *)
(*                                                                         *)
(* Every transaction here takes advisory lock 38 first, and is one step,   *)
(* but for two: the report of a failure and the acknowledgement of a job   *)
(* take no lock.  They are single steps too; what they can fall between    *)
(* is a retry, which reads its receipt and writes it in two steps with     *)
(* the lock held.  A lease is who drew its token while it lives and NoOne  *)
(* once it expired.  The configuration version of the source never moves   *)
(* without its generation, so a job is compared by its generation alone.   *)
(* Cryptography is reduced to which key generation signed; parsing and     *)
(* mapping to whether they succeed.                                        *)
(***************************************************************************)
EXTENDS Naturals, FiniteSets

CONSTANTS
  Events,         \* external_event_id of an inquiry
  Nonces,         \* nonces of signed submissions
  Browser,        \* in place of a nonce: a submission that is not signed
  Mappings,       \* saved mapping versions
  Workers,        \* concurrent invocations of processHostedJobs
  NoOne,          \* a lease that is NULL or expired
  None,           \* no original, no lead
  MaxAttempts,    \* max_attempts of a job (5 in the code)
  MaxGeneration,  \* bound on the source's generation
  Capacity        \* originals a company may keep (25000 in the code)

ASSUME ReceiptsAssumption ==
  /\ NoOne \notin Workers /\ Browser \notin Nonces /\ None \notin Mappings
  /\ MaxAttempts \in Nat \ {0} /\ MaxGeneration \in Nat \ {0} /\ Capacity \in Nat

VARIABLES
  source,    \* cpl_integration_sources of the form, and its key_generation
  standing,  \* the form's author still holds the role and the module
  nonces,    \* cpl_inbound_nonces that have not expired
  original,  \* cpl_inbound_originals: the body kept under an event
  receipt,   \* cpl_inbound_receipts
  lead,      \* cpl_workflow_leads made of a receipt
  job,       \* the latest cpl_workflow_jobs row of a receipt
  worker,    \* invocations
  person,    \* a retry under way, between its read and its writes
  told       \* (checking) bodies whose sender was answered "accepted"

inbox == <<source, standing, nonces, original, told>>
vars == <<inbox, receipt, lead, job, worker, person>>

-----------------------------------------------------------------------------
Generations == 1..MaxGeneration
\* The bytes of a submission name its event and the form version it was filled in for.
Bodies == [event : Events, form : Generations]
ASSUME BodiesAssumption == None \notin Bodies

Envelopes == [key : Generations, nonce : Nonces, body : Bodies]

ReceiptRecord == [state : {"absent", "queued", "needs_review", "linked_lead", "failed", "blocked"},
                  mapping : Mappings \cup {None}]
NoReceipt == [state |-> "absent", mapping |-> None]

LeadRecord == [mapping : Mappings \cup {None}, edited : BOOLEAN]
NoLead == [mapping |-> None, edited |-> FALSE]

Active == {"queued", "retrying", "running"}
JobRecord == [status : Active \cup {"none", "completed", "failed", "skipped"},
              gen : 0..MaxGeneration, attempts : 0..MaxAttempts, lease : Workers \cup {NoOne}]
NoJob == [status |-> "none", gen |-> 0, attempts |-> 0, lease |-> NoOne]

Idle == [pc |-> "idle"]
Errors == {"review", "refused", "transient"}
WorkerRecord ==
  {Idle} \cup [pc : {"exhausted", "claimed", "committed"}, event : Events, last : BOOLEAN]
         \cup [pc : {"failing"}, event : Events, last : BOOLEAN, error : Errors]

PersonRecord == {Idle} \cup [pc : {"retrying"}, event : Events]

TypeOK ==
  /\ source \in [state : {"active", "paused"}, gen : Generations, form : Generations,
                 key : 0..MaxGeneration]
  /\ standing \in BOOLEAN
  /\ nonces \subseteq Envelopes
  /\ original \in [Events -> Bodies \cup {None}]
  /\ receipt \in [Events -> ReceiptRecord]
  /\ lead \in [Events -> LeadRecord]
  /\ job \in [Events -> JobRecord]
  /\ worker \in [Workers -> WorkerRecord]
  /\ person \in PersonRecord
  /\ told \subseteq Bodies

\* A form was saved and enabled; no key was issued yet.
Init ==
  /\ source = [state |-> "active", gen |-> 1, form |-> 1, key |-> 0]
  /\ standing = TRUE
  /\ nonces = {} /\ told = {}
  /\ original = [e \in Events |-> None]
  /\ receipt = [e \in Events |-> NoReceipt]
  /\ lead = [e \in Events |-> NoLead]
  /\ job = [e \in Events |-> NoJob]
  /\ worker = [w \in Workers |-> Idle]
  /\ person = Idle

\* Advisory lock 38 of the company; only a retry holds it from one step to the next.
Unlocked == person = Idle

-----------------------------------------------------------------------------
(***************************************************************************)
(* Submissions.  A refused one leaves nothing behind, the nonce included.  *)
(***************************************************************************)

\* cpl_inbound_public_context: the form is published under a live authority.
Published == source.state = "active" /\ standing

\* What this nonce was used for under this key, if it is remembered.
Uses(k, n) == {v \in nonces : v.key = k /\ v.nonce = n}

\* Seeded fault: the form version is checked before the event is looked up.
VerdictVersionFirst(b, k, n) ==
  LET signed == n # Browser
      used == IF signed THEN Uses(k, n) ELSE {}
      kept == original[b.event]
  IN IF ~Published \/ (signed /\ k # source.key) THEN "refused"
     ELSE IF b.form # source.form THEN "changed"
     ELSE IF \E v \in used : v.body # b THEN "replay"
     ELSE IF kept # None THEN IF kept = b THEN "again" ELSE "conflict"
     ELSE IF used # {} THEN "replay"
     ELSE "new"

\* acceptSubmission for a body that is signed by key generation k with nonce n,
\* or comes from the browser (n = Browser).
Verdict(b, k, n) ==
  LET signed == n # Browser
      used == IF signed THEN Uses(k, n) ELSE {}
      kept == original[b.event]
  IN IF ~Published \/ (signed /\ k # source.key) THEN "refused"
     ELSE IF \E v \in used : v.body # b THEN "replay"
     ELSE IF kept # None THEN IF kept = b THEN "again" ELSE "conflict"
     ELSE IF used # {} THEN "replay"
     ELSE IF b.form # source.form THEN "changed"
     ELSE IF Cardinality({e \in Events : original[e] # None}) >= Capacity THEN "full"
     ELSE "new"

\* Seeded fault: an event that is known answers for whatever arrives under its name.
AcceptingConflict == {"again", "new", "conflict"}

Accepting == {"again", "new"}

\* The nonce row is written before the body is looked at, in the same transaction.
Remembered(b, k, n) ==
  IF n = Browser \/ Verdict(b, k, n) \notin Accepting THEN nonces
  ELSE nonces \cup {[key |-> k, nonce |-> n, body |-> b]}

\* enqueueInboundReceipt: a job for the source as it is configured now.
Queued == [NoJob EXCEPT !.status = "queued", !.gen = source.gen]

Submit(b, k, n) ==
  /\ Unlocked
  /\ nonces' = Remembered(b, k, n)
  /\ told' = IF Verdict(b, k, n) \in Accepting THEN told \cup {b} ELSE told
  /\ IF Verdict(b, k, n) = "new"
     THEN /\ original' = [original EXCEPT ![b.event] = b]
          /\ \E m \in Mappings :
               receipt' = [receipt EXCEPT ![b.event] = [state |-> "queued", mapping |-> m]]
          /\ job' = [job EXCEPT ![b.event] = Queued]
     ELSE UNCHANGED <<original, receipt, job>>
  /\ UNCHANGED <<source, standing, lead, worker, person>>

\* Six minutes later the row no longer counts.
ForgetNonce(v) ==
  /\ nonces' = nonces \ {v}
  /\ UNCHANGED <<source, standing, original, told, receipt, lead, job, worker, person>>

-----------------------------------------------------------------------------
(***************************************************************************)
(* The form's administrators.                                              *)
(***************************************************************************)

\* saveForm, and setFormEnabled for either value: a new configuration, authorized anew.
Configure(state) ==
  /\ Unlocked /\ source.gen < MaxGeneration
  /\ source' = [source EXCEPT !.state = state, !.gen = source.gen + 1, !.form = source.form + 1]
  /\ standing' = TRUE
  /\ UNCHANGED <<nonces, original, told, receipt, lead, job, worker, person>>

\* rotateSourceCredential
RotateKey ==
  /\ Unlocked /\ source.gen < MaxGeneration
  /\ source' = [source EXCEPT !.gen = source.gen + 1, !.key = source.gen + 1]
  /\ UNCHANGED <<standing, nonces, original, told, receipt, lead, job, worker, person>>

\* revokeSourceCredential
RevokeKey ==
  /\ Unlocked /\ source.gen < MaxGeneration
  /\ source' = [source EXCEPT !.gen = source.gen + 1, !.key = 0]
  /\ UNCHANGED <<standing, nonces, original, told, receipt, lead, job, worker, person>>

\* Elsewhere: the author's membership changes, the module is switched off or on.
ChangeStanding ==
  /\ standing' = ~standing
  /\ UNCHANGED <<source, nonces, original, told, receipt, lead, job, worker, person>>

-----------------------------------------------------------------------------
(***************************************************************************)
(* The worker.                                                             *)
(***************************************************************************)

At(w, pc) == worker[w].pc = pc
Become(w, state) == worker' = [worker EXCEPT ![w] = state]
Working(pc, e, last) == [pc |-> pc, event |-> e, last |-> last]
Failing(w, error) ==
  Become(w, [pc |-> "failing", event |-> worker[w].event, last |-> worker[w].last, error |-> error])

Holds(w) == job[worker[w].event].status = "running" /\ job[worker[w].event].lease = w

Spent(e) == job[e].attempts >= MaxAttempts

\* processHostedJobs takes the job; one without an attempt left is only fenced.
Claim(w, e) ==
  /\ At(w, "idle")
  /\ job[e].status \in {"queued", "retrying"} \/ (job[e].status = "running" /\ job[e].lease = NoOne)
  /\ LET count == IF Spent(e) THEN job[e].attempts ELSE job[e].attempts + 1
     IN /\ job' = [job EXCEPT ![e].status = "running", ![e].lease = w, ![e].attempts = count]
        /\ Become(w, Working(IF Spent(e) THEN "exhausted" ELSE "claimed", e, count >= MaxAttempts))
  /\ UNCHANGED <<inbox, receipt, lead, person>>

\* cpl_ingestion_lock_authority, once the lease is found alive.
Authorized(e) == Published /\ source.gen = job[e].gen

\* Lead, receipt and attempt commit together; a receipt that has its lead is passed over.
Linked(e) ==
  IF receipt[e].state = "linked_lead"
  THEN UNCHANGED <<receipt, lead>>
  ELSE /\ receipt' = [receipt EXCEPT ![e].state = "linked_lead"]
       /\ lead' = [lead EXCEPT ![e] = [mapping |-> receipt[e].mapping, edited |-> FALSE]]

\* The transaction of processCplIngestionJob commits.  Its answer may be lost.
Process(w) ==
  LET e == worker[w].event IN
  /\ At(w, "claimed") /\ Unlocked /\ Holds(w) /\ Authorized(e)
  /\ Linked(e)
  /\ Become(w, Working("committed", e, worker[w].last)) \/ Failing(w, "transient")
  /\ UNCHANGED <<inbox, job, person>>

\* It is rolled back: by its authority, by what it reads, or by an outage.
ProcessFails(w) ==
  LET e == worker[w].event IN
  /\ At(w, "claimed") /\ Holds(w)
  /\ \/ Unlocked /\ ~Authorized(e) /\ Failing(w, "refused")
     \/ Unlocked /\ Authorized(e) /\ receipt[e].state # "linked_lead" /\ Failing(w, "review")
     \/ Failing(w, "transient")
  /\ UNCHANGED <<inbox, receipt, lead, job, person>>

\* CPL_INTEGRATION_LEASE_LOST ends the invocation, wherever it is found out.
LeaseLost(w) ==
  /\ worker[w] # Idle /\ ~Holds(w)
  /\ Become(w, Idle)
  /\ UNCHANGED <<inbox, receipt, lead, job, person>>

\* The acknowledgement is one conditional update; an outage of it is a failure as well.
Acknowledge(w) ==
  LET e == worker[w].event IN
  /\ At(w, "committed") /\ Holds(w)
  /\ \/ /\ job' = [job EXCEPT ![e].status = "completed", ![e].lease = NoOne]
        /\ Become(w, Idle)
     \/ Failing(w, "transient") /\ UNCHANGED job
  /\ UNCHANGED <<inbox, receipt, lead, person>>

\* The error path's transaction, which takes no advisory lock.
Terminal(w) == worker[w].error \in {"review", "refused"} \/ worker[w].last

Outcome(w) == IF worker[w].error = "review" THEN "needs_review"
              ELSE IF Terminal(w) THEN "blocked" ELSE "failed"

\* Seeded fault: the report does not look at linked_lead_id.
SetStateAlways(e, state) == [receipt EXCEPT ![e].state = state]

\* linked_lead_id IS NULL: a receipt that has its lead keeps its state.
SetState(e, state) ==
  IF receipt[e].state = "linked_lead" THEN receipt ELSE [receipt EXCEPT ![e].state = state]

Report(w) ==
  LET e == worker[w].event IN
  /\ At(w, "failing") /\ Holds(w)
  /\ job' = [job EXCEPT ![e].status = IF Terminal(w) THEN "skipped" ELSE "retrying",
                        ![e].lease = NoOne]
  /\ receipt' = SetState(e, Outcome(w))
  /\ Become(w, Idle)
  /\ UNCHANGED <<inbox, lead, person>>

\* Seeded fault: an exhausted job is closed and its receipt left as it was.
FailExhaustedJobOnly(w) ==
  LET e == worker[w].event IN
  /\ At(w, "exhausted") /\ Unlocked /\ Holds(w)
  /\ job' = [job EXCEPT ![e].status = "failed", ![e].lease = NoOne]
  /\ Become(w, Idle)
  /\ UNCHANGED <<inbox, receipt, lead, person>>

\* failExhaustedCplIngestionJob
FailExhausted(w) ==
  LET e == worker[w].event IN
  /\ At(w, "exhausted") /\ Unlocked /\ Holds(w)
  /\ job' = [job EXCEPT ![e].status = "failed", ![e].lease = NoOne]
  /\ receipt' = SetState(e, "failed")
  /\ Become(w, Idle)
  /\ UNCHANGED <<inbox, lead, person>>

Crash(w) ==
  /\ worker[w] # Idle
  /\ Become(w, Idle)
  /\ UNCHANGED <<inbox, receipt, lead, job, person>>

ExpireLease(e) ==
  /\ job[e].status = "running" /\ job[e].lease # NoOne
  /\ job' = [job EXCEPT ![e].lease = NoOne]
  /\ UNCHANGED <<inbox, receipt, lead, worker, person>>

-----------------------------------------------------------------------------
(***************************************************************************)
(* The people who look after receipts and leads.                           *)
(***************************************************************************)

\* retryReceipt up to its writes: the revision the page showed is the receipt's.
ReadForRetry(e) ==
  /\ Unlocked
  /\ receipt[e].state \notin {"absent", "linked_lead"}
  /\ source.state = "active"
  /\ person' = [pc |-> "retrying", event |-> e]
  /\ UNCHANGED <<inbox, receipt, lead, job, worker>>

\* cpl_inbound_active_job refuses a second active job; then all is rolled back.
WriteRetry ==
  LET e == person.event IN
  /\ person # Idle
  /\ IF job[e].status \in Active
     THEN UNCHANGED <<receipt, job>>
     ELSE /\ job' = [job EXCEPT ![e] = Queued]
          /\ receipt' = [receipt EXCEPT ![e].state = "queued"]
  /\ person' = Idle
  /\ UNCHANGED <<inbox, lead, worker>>

\* reprocessReceipt: a preview under another mapping, which the receipt keeps.
Reprocess(e, m) ==
  /\ Unlocked /\ original[e] # None
  /\ receipt' = [receipt EXCEPT ![e].mapping = m]
  /\ UNCHANGED <<inbox, lead, job, worker, person>>

\* updateLead: somebody corrects what was captured.
EditLead(e) ==
  /\ lead[e] # NoLead
  /\ lead' = [lead EXCEPT ![e].edited = TRUE]
  /\ UNCHANGED <<inbox, receipt, job, worker, person>>

-----------------------------------------------------------------------------
Work(w) == Process(w) \/ ProcessFails(w) \/ LeaseLost(w) \/ Acknowledge(w) \/ Report(w)
           \/ FailExhausted(w)

Submissions ==
  \E b \in Bodies : Submit(b, 1, Browser) \/ \E k \in Generations, n \in Nonces : Submit(b, k, n)

Administration ==
  \/ \E v \in nonces : ForgetNonce(v)
  \/ \E state \in {"active", "paused"} : Configure(state)
  \/ RotateKey
  \/ RevokeKey
  \/ ChangeStanding

Processing ==
  \/ \E w \in Workers :
       \/ \E e \in Events : Claim(w, e)
       \/ Work(w)
       \/ Crash(w)
  \/ WriteRetry
  \/ \E e \in Events :
       \/ ExpireLease(e)
       \/ ReadForRetry(e)
       \/ EditLead(e)
       \/ \E m \in Mappings : Reprocess(e, m)

Next == Submissions \/ Administration \/ Processing

Spec == Init /\ [][Next]_vars

\* The scheduler starts an invocation every two seconds, which takes the job that has
\* been due the longest; time passes; whoever holds the lock commits; and not every
\* invocation dies before it gives its answer, or while it waits for the lock.
Fairness ==
  /\ \A e \in Events : SF_vars(\E w \in Workers : Claim(w, e))
  /\ \A e \in Events : WF_vars(ExpireLease(e))
  /\ WF_vars(WriteRetry)
  /\ SF_vars(WriteRetry /\ \E w \in Workers : At(w, "exhausted") /\ Holds(w))
  /\ \A w \in Workers : SF_vars(FailExhausted(w)) /\ WF_vars(Work(w))

FairSpec == Spec /\ Fairness

-----------------------------------------------------------------------------
(***************************************************************************)
(* Properties                                                              *)
(***************************************************************************)

\* "A success response means source receipt is durable": whoever was answered
\* "accepted" finds exactly that body as the original of its event, whatever else
\* was delivered under the same event or nonce, before or after.
AcceptedIsDurable == \A b \in told : original[b.event] = b

\* An identical retry converges: while the form is published and the key live, a
\* sender who repeats an accepted body gets the same answer, through the browser or
\* signed with its nonce or a fresh one, although the form's version moved on or the
\* company's storage is full since.
RetryConverges ==
  \A b \in told : Published =>
    /\ Verdict(b, 1, Browser) = "again"
    /\ \A n \in Nonces : source.key # 0 /\ (\A v \in Uses(source.key, n) : v.body = b)
                           => Verdict(b, source.key, n) = "again"

\* A remembered nonce always stands for a body that was kept: one that is refused as a
\* replay with nothing to show for it would be lost to its sender.
NonceIsBacked == \A v \in nonces : original[v.body.event] = v.body

\* A completed job has its lead, although the two commit apart from each other.
CompletedHasLead == \A e \in Events : job[e].status = "completed" => lead[e] # NoLead

\* The inquiry as the company is promised it; a receipt whose lead exists is a lead
\* although its job may yet be claimed again.
Stage(e) ==
  IF receipt[e].state = "linked_lead" THEN "lead"
  ELSE IF job[e].status \in Active THEN "waiting"
  ELSE IF original[e] = None THEN "absent" ELSE "attention"

Intake == INSTANCE InboundIntake WITH
  inquiry <- [e \in Events |-> [stage |-> Stage(e), body |-> original[e],
                                lead |-> lead[e].mapping, edited |-> lead[e].edited]]

\* One lead of one kept original: a second attempt after a lost acknowledgement, a
\* late failure, a retry or a reprocessing changes neither the lead nor what people
\* wrote into it, and takes no linked receipt back.
ImplementsIntake == Intake!Spec

\* An attempt comes to rest, and its receipt with it: a job that is waiting or running is
\* completed, skipped or failed in the end, although invocations die over it and their
\* answers are lost, and a receipt that says it is queued has a job that comes to it,
\* through failures, exhaustion, crashes and a retry between another attempt's steps.
Waiting(e) == job[e].status \in Active \/ receipt[e].state = "queued"
JobSettles == \A e \in Events : Waiting(e) ~> ~Waiting(e)
=============================================================================
