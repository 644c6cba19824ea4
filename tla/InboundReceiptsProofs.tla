------------------------- MODULE InboundReceiptsProofs -------------------------
(***************************************************************************)
(* Inquiries through a published form, for any number of events, nonces,   *)
(* mappings and worker invocations.                                        *)
(*                                                                         *)
(* The invariant has two halves that do not need each other.  What senders *)
(* are told rests on originals that are written once (Senders).  What      *)
(* becomes of an inquiry rests on the receipt, the lead and the job        *)
(* agreeing on how far it has come (Rows), on an invocation that committed *)
(* having left a lead (Committed), and on a retry under way keeping its    *)
(* receipt from becoming one (Retrying).  From the second half every step  *)
(* is one of InboundIntake's, or none.                                     *)
(***************************************************************************)
EXTENDS InboundReceipts, TLAPS

USE ReceiptsAssumption, BodiesAssumption

-----------------------------------------------------------------------------
Senders == AcceptedIsDurable /\ NonceIsBacked

\* How far an inquiry has come: its original, receipt, lead and job agree.
Rows(e) ==
  /\ receipt[e].state = "absent" <=> original[e] = None
  /\ job[e].status = "none" <=> original[e] = None
  /\ receipt[e].state # "absent" => receipt[e].mapping \in Mappings
  /\ receipt[e].state = "linked_lead" <=> lead[e].mapping # None
  /\ lead[e].mapping = None => lead[e] = NoLead
  /\ job[e].status = "completed" => receipt[e].state = "linked_lead"

Linkage == \A e \in Events : Rows(e)

Committed == \A w \in Workers :
  At(w, "committed") => receipt[worker[w].event].state = "linked_lead"

Retrying == person # Idle => receipt[person.event].state \notin {"absent", "linked_lead"}

\* The form's version moves with the source's generation, never ahead of it.
Versioned == source.form <= source.gen

IInv == TypeOK /\ Versioned /\ Senders /\ Linkage /\ Committed /\ Retrying

LEMMA InitInv == Init => IInv
<1> SUFFICES ASSUME Init PROVE IInv
  OBVIOUS
<1> USE DEF Init
<1>1. NoReceipt \in ReceiptRecord /\ NoLead \in LeadRecord
  BY DEF NoReceipt, ReceiptRecord, NoLead, LeadRecord
<1>2. NoJob \in JobRecord
  BY DEF NoJob, JobRecord, Active
<1>3. Idle \in WorkerRecord /\ Idle \in PersonRecord /\ Idle.pc = "idle"
  BY DEF Idle, WorkerRecord, PersonRecord
<1>4. source \in [state : {"active", "paused"}, gen : Generations, form : Generations,
                  key : 0..MaxGeneration] /\ Versioned
  BY DEF Generations, Versioned
<1>5. TypeOK
  BY <1>1, <1>2, <1>3, <1>4 DEF TypeOK
<1>6. Senders
  BY DEF Senders, AcceptedIsDurable, NonceIsBacked
<1>7. Linkage
  BY DEF Linkage, Rows, NoReceipt, NoLead, NoJob
<1>8. Committed /\ Retrying
  BY <1>3 DEF Committed, At, Retrying
<1>9. QED
  BY <1>4, <1>5, <1>6, <1>7, <1>8 DEF IInv

\* What an invocation knows while it is not idle.
LEMMA Invocations ==
  ASSUME TypeOK, NEW w \in Workers
  PROVE  /\ worker[w].pc = "idle" <=> worker[w] = Idle
         /\ worker[w].pc \in {"exhausted", "claimed", "committed", "failing"} =>
              worker[w].event \in Events /\ worker[w].last \in BOOLEAN
         /\ worker[w].pc \in {"idle", "exhausted", "claimed", "committed", "failing"}
         /\ worker[w].pc = "failing" => worker[w].error \in Errors
<1>1. worker[w] \in WorkerRecord
  BY DEF TypeOK
<1>2. CASE worker[w] = Idle
  BY <1>2 DEF Idle
<1>3. CASE worker[w] \in [pc : {"exhausted", "claimed", "committed"}, event : Events, last : BOOLEAN]
  BY <1>3 DEF Idle
<1>4. CASE worker[w] \in [pc : {"failing"}, event : Events, last : BOOLEAN, error : Errors]
  BY <1>4 DEF Idle
<1>5. QED
  BY <1>1, <1>2, <1>3, <1>4 DEF WorkerRecord

LEMMA Becoming ==
  ASSUME TypeOK, NEW w \in Workers, NEW x \in WorkerRecord, Become(w, x)
  PROVE  /\ worker' \in [Workers -> WorkerRecord]
         /\ worker'[w] = x /\ \A v \in Workers \ {w} : worker'[v] = worker[v]
  BY DEF TypeOK, Become

LEMMA Work1 ==
  ASSUME NEW pc \in {"exhausted", "claimed", "committed"}, NEW e \in Events, NEW last \in BOOLEAN
  PROVE  /\ Working(pc, e, last) \in WorkerRecord
         /\ Working(pc, e, last).pc = pc /\ Working(pc, e, last).event = e
  BY DEF Working, WorkerRecord

LEMMA Fail1 ==
  ASSUME TypeOK, NEW w \in Workers, NEW error \in Errors,
         worker[w].pc \in {"claimed", "committed"}, Failing(w, error)
  PROVE  /\ worker' \in [Workers -> WorkerRecord]
         /\ worker'[w].pc = "failing" /\ \A v \in Workers \ {w} : worker'[v] = worker[v]
<1>1. PICK x : x = [pc |-> "failing", event |-> worker[w].event, last |-> worker[w].last, error |-> error]
  OBVIOUS
<1>2. worker[w].event \in Events /\ worker[w].last \in BOOLEAN
  BY Invocations
<1>3. x \in WorkerRecord /\ x.pc = "failing"
  BY <1>1, <1>2 DEF WorkerRecord
<1>4. Become(w, x)
  BY <1>1 DEF Failing
<1>5. QED
  BY <1>3, <1>4, Becoming

-----------------------------------------------------------------------------
(***************************************************************************)
(* Senders.                                                                *)
(***************************************************************************)

\* The job that a receipt is given.
LEMMA QueuedRow ==
  ASSUME TypeOK
  PROVE  Queued \in JobRecord /\ Queued.status = "queued"
<1>1. source.gen \in Generations
  BY DEF TypeOK
<1>2. NoJob \in JobRecord
  BY DEF NoJob, JobRecord, Active
<1>3. PICK q : q = Queued
  OBVIOUS
<1>4. q = [NoJob EXCEPT !.status = "queued", !.gen = source.gen]
  BY <1>3 DEF Queued
<1>5. q.status = "queued" /\ q.gen = source.gen /\ q.attempts = NoJob.attempts /\ q.lease = NoJob.lease
  BY <1>2, <1>4 DEF JobRecord
<1>6. q.status \in Active /\ q.gen \in 0..MaxGeneration
  BY <1>1, <1>5 DEF Active, Generations
<1>7. q \in JobRecord
  BY <1>2, <1>4, <1>5, <1>6 DEF JobRecord
<1>8. QED
  BY <1>3, <1>5, <1>7

\* An answer's preconditions, as far as the invariant needs them.
LEMMA Answers ==
  ASSUME NEW b, NEW k, NEW n
  PROVE  /\ Verdict(b, k, n) = "again" => original[b.event] = b
         /\ Verdict(b, k, n) = "new" => original[b.event] = None
  BY DEF Verdict

LEMMA Repeats ==
  ASSUME TypeOK, AcceptedIsDurable
  PROVE  RetryConverges
<1> SUFFICES ASSUME NEW b \in told, Published
             PROVE  /\ Verdict(b, 1, Browser) = "again"
                    /\ \A n \in Nonces : source.key # 0 /\ (\A v \in Uses(source.key, n) : v.body = b)
                                           => Verdict(b, source.key, n) = "again"
  BY DEF RetryConverges
<1>1. original[b.event] = b /\ b # None
  BY DEF AcceptedIsDurable, TypeOK
<1>2. Verdict(b, 1, Browser) = "again"
  BY <1>1 DEF Verdict
<1>3. ASSUME NEW n \in Nonces, \A v \in Uses(source.key, n) : v.body = b
      PROVE  Verdict(b, source.key, n) = "again"
  BY <1>1, <1>3 DEF Verdict
<1>4. QED
  BY <1>2, <1>3

LEMMA SubmitInv ==
  ASSUME IInv, NEW b \in Bodies, NEW k \in Generations, NEW n \in Nonces \cup {Browser},
         Submit(b, k, n)
  PROVE  IInv'
<1>1. PICK e \in Events : e = b.event
  BY DEF Bodies
<1>2. /\ person = Idle /\ UNCHANGED <<source, standing, lead, worker, person>>
      /\ nonces' \subseteq nonces \cup {[key |-> k, nonce |-> n, body |-> b]}
      /\ nonces' # nonces => Verdict(b, k, n) \in Accepting /\ n # Browser
      /\ told' \subseteq told \cup {b} /\ (told' # told => Verdict(b, k, n) \in Accepting)
  BY DEF Submit, Unlocked, Remembered
<1>3. CASE Verdict(b, k, n) # "new"
  <2>1. UNCHANGED <<original, receipt, job>>
    BY <1>3 DEF Submit
  <2>2. Verdict(b, k, n) \in Accepting => original[e] = b
    BY <1>1, <1>3, Answers DEF Accepting
  <2>3. nonces' \subseteq Envelopes /\ told' \subseteq Bodies
    BY <1>2 DEF IInv, TypeOK, Envelopes
  <2>4. TypeOK' /\ Versioned'
    BY <1>2, <2>1, <2>3 DEF IInv, TypeOK, Versioned
  <2>5. Senders'
    BY <1>1, <1>2, <2>1, <2>2 DEF IInv, Senders, AcceptedIsDurable, NonceIsBacked
  <2>6. Linkage' /\ Committed' /\ Retrying'
    BY <1>2, <2>1 DEF IInv, Linkage, Rows, Committed, At, Retrying
  <2>7. QED
    BY <2>4, <2>5, <2>6 DEF IInv
<1>4. CASE Verdict(b, k, n) = "new"
  <2>1. PICK m \in Mappings : receipt' = [receipt EXCEPT ![e] = [state |-> "queued", mapping |-> m]]
    BY <1>1, <1>4 DEF Submit
  <2>2. PICK q, r : q = Queued /\ r = [state |-> "queued", mapping |-> m]
    OBVIOUS
  <2>3. original' = [original EXCEPT ![e] = b] /\ job' = [job EXCEPT ![e] = q] /\ original[e] = None
    BY <1>1, <1>4, <2>2, Answers DEF Submit
  <2>4. r \in ReceiptRecord /\ r.state = "queued" /\ r.mapping = m
    BY <2>2 DEF ReceiptRecord
  <2>5. q \in JobRecord /\ q.status = "queued"
    BY <2>2, QueuedRow DEF IInv
  <2>6. nonces' \subseteq Envelopes /\ told' \subseteq Bodies
    BY <1>2 DEF IInv, TypeOK, Envelopes
  <2>7. TypeOK' /\ Versioned'
    BY <1>2, <2>1, <2>2, <2>3, <2>4, <2>5, <2>6 DEF IInv, TypeOK, Versioned
  <2>8. /\ original'[e] = b /\ receipt'[e] = r /\ job'[e] = q
        /\ \A f \in Events \ {e} : /\ original'[f] = original[f] /\ receipt'[f] = receipt[f]
                                   /\ job'[f] = job[f]
    BY <2>1, <2>2, <2>3 DEF IInv, TypeOK
  <2>9. b # None
    OBVIOUS
  <2>10. Senders'
    <3>1. \A a \in Bodies : a.event \in Events
      BY DEF Bodies
    <3>2. \A a \in told : original'[a.event] = a
      BY <2>3, <2>8, <3>1 DEF IInv, Senders, AcceptedIsDurable, TypeOK
    <3>3. \A v \in nonces : original'[v.body.event] = v.body
      BY <2>3, <2>8, <3>1 DEF IInv, Senders, NonceIsBacked, TypeOK, Envelopes
    <3>4. QED
      BY <1>1, <1>2, <2>8, <3>2, <3>3 DEF Senders, AcceptedIsDurable, NonceIsBacked
  <2>11. Linkage'
    <3>1. ASSUME NEW f \in Events \ {e} PROVE Rows(f)'
      BY <1>2, <2>8 DEF IInv, Linkage, Rows
    <3>2. Rows(e)'
      BY <1>2, <2>3, <2>4, <2>5, <2>8, <2>9 DEF IInv, Linkage, Rows
    <3>3. QED
      BY <3>1, <3>2 DEF Linkage
  <2>12. Committed'
    <3>1. receipt[e].state = "absent"
      BY <2>3 DEF IInv, Linkage, Rows
    <3>2. QED
      BY <1>2, <2>8, <3>1, Invocations DEF IInv, Committed, At
  <2>13. Retrying'
    BY <1>2 DEF Retrying
  <2>14. QED
    BY <2>7, <2>10, <2>11, <2>12, <2>13 DEF IInv
<1>5. QED
  BY <1>3, <1>4

LEMMA AdministrationInv ==
  ASSUME IInv, Administration
  PROVE  IInv'
<1>1. /\ UNCHANGED <<original, told, receipt, lead, job, worker, person>>
      /\ nonces' \subseteq nonces /\ standing' \in BOOLEAN
  BY DEF Administration, ForgetNonce, Configure, RotateKey, RevokeKey, ChangeStanding, IInv, TypeOK
<1>2. /\ source' \in [state : {"active", "paused"}, gen : Generations, form : Generations,
                      key : 0..MaxGeneration]
      /\ source'.form <= source'.gen
  <2>1. /\ source \in [state : {"active", "paused"}, gen : Generations, form : Generations,
                       key : 0..MaxGeneration]
        /\ source.gen \in 1..MaxGeneration /\ source.form \in 1..MaxGeneration
        /\ source.form <= source.gen
    BY DEF IInv, TypeOK, Versioned, Generations
  <2>2. CASE UNCHANGED source
    BY <2>1, <2>2
  <2>3. CASE \E state \in {"active", "paused"} : Configure(state)
    <3>1. PICK state \in {"active", "paused"} : Configure(state)
      BY <2>3
    <3>2. PICK row : row = [source EXCEPT !.state = state, !.gen = source.gen + 1,
                                          !.form = source.form + 1]
      OBVIOUS
    <3>3. source' = row /\ source.gen < MaxGeneration
      BY <3>1, <3>2 DEF Configure
    <3>4. row.state = state /\ row.gen = source.gen + 1 /\ row.form = source.form + 1
      BY <2>1, <3>2
    <3>5. row.gen \in Generations /\ row.form \in Generations
      BY <2>1, <3>3, <3>4 DEF Generations
    <3>6. row \in [state : {"active", "paused"}, gen : Generations, form : Generations,
                   key : 0..MaxGeneration]
      BY <2>1, <3>2, <3>4, <3>5
    <3>7. QED
      BY <2>1, <3>3, <3>4, <3>6
  <2>4. CASE RotateKey
    <3>1. PICK row : row = [source EXCEPT !.gen = source.gen + 1, !.key = source.gen + 1]
      OBVIOUS
    <3>2. source' = row /\ source.gen < MaxGeneration
      BY <2>4, <3>1 DEF RotateKey
    <3>3. row.gen = source.gen + 1 /\ row.key = source.gen + 1 /\ row.form = source.form
      BY <2>1, <3>1
    <3>4. row.gen \in Generations /\ row.key \in 0..MaxGeneration
      BY <2>1, <3>2, <3>3 DEF Generations
    <3>5. row \in [state : {"active", "paused"}, gen : Generations, form : Generations,
                   key : 0..MaxGeneration]
      BY <2>1, <3>1, <3>3, <3>4
    <3>6. QED
      BY <2>1, <3>2, <3>3, <3>5
  <2>5. CASE RevokeKey
    <3>1. PICK row : row = [source EXCEPT !.gen = source.gen + 1, !.key = 0]
      OBVIOUS
    <3>2. source' = row /\ source.gen < MaxGeneration
      BY <2>5, <3>1 DEF RevokeKey
    <3>3. row.gen = source.gen + 1 /\ row.key = 0 /\ row.form = source.form
      BY <2>1, <3>1
    <3>4. row.gen \in Generations /\ row.key \in 0..MaxGeneration
      BY <2>1, <3>2, <3>3 DEF Generations
    <3>5. row \in [state : {"active", "paused"}, gen : Generations, form : Generations,
                   key : 0..MaxGeneration]
      BY <2>1, <3>1, <3>3, <3>4
    <3>6. QED
      BY <2>1, <3>2, <3>3, <3>5
  <2>6. QED
    BY <2>2, <2>3, <2>4, <2>5 DEF Administration, ForgetNonce, ChangeStanding
<1>3. TypeOK' /\ Versioned'
  BY <1>1, <1>2 DEF IInv, TypeOK, Versioned
<1>4. Senders' /\ Linkage' /\ Committed' /\ Retrying'
  BY <1>1 DEF IInv, Senders, AcceptedIsDurable, NonceIsBacked, Linkage, Rows, Committed, At, Retrying
<1>5. QED
  BY <1>3, <1>4 DEF IInv

-----------------------------------------------------------------------------
(***************************************************************************)
(* Processing.  Every step concerns one inquiry, and takes it no further   *)
(* than InboundIntake allows.                                              *)
(***************************************************************************)

Touches(e) ==
  /\ UNCHANGED inbox
  /\ \A f \in Events \ {e} : receipt'[f] = receipt[f] /\ lead'[f] = lead[f] /\ job'[f] = job[f]

Stays(e) == Stage(e)' = Stage(e) /\ lead'[e] = lead[e]
Halts(e) == Stage(e) = "waiting" /\ Stage(e)' = "attention" /\ lead'[e] = lead[e]
Resumes(e) == Stage(e) = "attention" /\ Stage(e)' = "waiting" /\ lead'[e] = lead[e]
Links(e) ==
  /\ Stage(e) = "waiting" /\ Stage(e)' = "lead"
  /\ lead[e] = NoLead /\ \E m \in Mappings : lead'[e] = [mapping |-> m, edited |-> FALSE]
Edits(e) ==
  /\ Stage(e) = "lead" /\ Stage(e)' = "lead"
  /\ lead'[e] = [lead[e] EXCEPT !.edited = TRUE]

Advances(e) == Touches(e) /\ (Stays(e) \/ Halts(e) \/ Resumes(e) \/ Links(e) \/ Edits(e))

\* What a step on one inquiry has to leave in order.
LEMMA OneInquiry ==
  ASSUME IInv, NEW e \in Events, Touches(e),
         receipt' \in [Events -> ReceiptRecord], lead' \in [Events -> LeadRecord],
         job' \in [Events -> JobRecord], worker' \in [Workers -> WorkerRecord],
         person' \in PersonRecord,
         Rows(e)', Retrying',
         receipt[e].state = "linked_lead" => receipt'[e].state = "linked_lead",
         \A w \in Workers : At(w, "committed")' =>
           \/ worker'[w] = worker[w]
           \/ worker'[w].event = e /\ receipt'[e].state = "linked_lead"
  PROVE  IInv'
<1>1. TypeOK' /\ Versioned'
  BY DEF IInv, TypeOK, Versioned, Touches, inbox
<1>2. Senders'
  BY DEF IInv, Senders, AcceptedIsDurable, NonceIsBacked, Touches, inbox
<1>3. Linkage'
  <2>1. ASSUME NEW f \in Events \ {e} PROVE Rows(f)'
    BY DEF IInv, Linkage, Rows, Touches, inbox
  <2>2. QED
    BY <2>1 DEF Linkage
<1>4. Committed'
  <2> SUFFICES ASSUME NEW w \in Workers, At(w, "committed")'
               PROVE  receipt'[worker'[w].event].state = "linked_lead"
    BY DEF Committed
  <2>1. CASE worker'[w] = worker[w]
    <3>1. worker[w].event \in Events /\ receipt[worker[w].event].state = "linked_lead"
      BY <2>1, Invocations DEF IInv, Committed, At
    <3>2. QED
      BY <2>1, <3>1 DEF Touches
  <2>2. QED
    BY <2>1
<1>5. QED
  BY <1>1, <1>2, <1>3, <1>4 DEF IInv

\* A job that an invocation gives back, or takes.
LEMMA JobRow ==
  ASSUME TypeOK, NEW e \in Events, NEW status \in Active \cup {"completed", "failed", "skipped"},
         NEW lease \in Workers \cup {NoOne},
         job' = [job EXCEPT ![e].status = status, ![e].lease = lease]
  PROVE  /\ job' \in [Events -> JobRecord] /\ job'[e].status = status
         /\ \A f \in Events \ {e} : job'[f] = job[f]
<1>1. job[e] \in JobRecord
  BY DEF TypeOK
<1>2. PICK row : row = [job[e] EXCEPT !.status = status, !.lease = lease]
  OBVIOUS
<1>3. row.status = status /\ row.lease = lease /\ row.gen = job[e].gen /\ row.attempts = job[e].attempts
  BY <1>1, <1>2 DEF JobRecord
<1>4. row \in JobRecord
  BY <1>1, <1>2, <1>3 DEF JobRecord
<1>5. job' = [job EXCEPT ![e] = row]
  BY <1>2 DEF TypeOK
<1>6. job \in [Events -> JobRecord]
  BY DEF TypeOK
<1>7. job'[e] = row
  BY <1>5, <1>6
<1>8. job' \in [Events -> JobRecord]
  BY <1>4, <1>5, <1>6
<1>9. \A f \in Events \ {e} : job'[f] = job[f]
  BY <1>5, <1>6
<1>10. QED
  BY <1>3, <1>7, <1>8, <1>9

\* The receipts, as a report may leave them.
LEMMA ReceiptSet ==
  ASSUME TypeOK, NEW e \in Events, NEW state \in {"needs_review", "blocked", "failed"},
         receipt[e].state # "absent", receipt' = SetState(e, state)
  PROVE  /\ receipt' \in [Events -> ReceiptRecord]
         /\ \A f \in Events \ {e} : receipt'[f] = receipt[f]
         /\ receipt'[e].mapping = receipt[e].mapping /\ receipt'[e].state # "absent"
         /\ receipt'[e].state = "linked_lead" <=> receipt[e].state = "linked_lead"
<1>1. receipt[e] \in ReceiptRecord
  BY DEF TypeOK
<1>2. CASE receipt[e].state = "linked_lead"
  BY <1>2 DEF SetState, TypeOK
<1>3. CASE receipt[e].state # "linked_lead"
  <2>1. PICK r : r = [receipt[e] EXCEPT !.state = state]
    OBVIOUS
  <2>2. r \in ReceiptRecord /\ r.state = state /\ r.mapping = receipt[e].mapping
    BY <1>1, <2>1 DEF ReceiptRecord
  <2>3. receipt' = [receipt EXCEPT ![e] = r]
    BY <1>3, <2>1 DEF SetState, TypeOK
  <2>4. QED
    BY <1>3, <2>2, <2>3 DEF TypeOK
<1>4. QED
  BY <1>2, <1>3

LEMMA ClaimStep ==
  ASSUME IInv, NEW w \in Workers, NEW e \in Events, Claim(w, e)
  PROVE  IInv' /\ Advances(e)
<1> USE DEF IInv
<1>1. PICK count, pc : /\ count = IF Spent(e) THEN job[e].attempts ELSE job[e].attempts + 1
                       /\ pc = IF Spent(e) THEN "exhausted" ELSE "claimed"
  OBVIOUS
<1>2. job[e] \in JobRecord /\ job[e].status \in Active
  BY DEF Claim, TypeOK, Active
<1>3. count \in 0..MaxAttempts /\ (count >= MaxAttempts) \in BOOLEAN
  BY <1>1, <1>2 DEF Spent, JobRecord
<1>4. PICK row : row = [job[e] EXCEPT !.status = "running", !.lease = w, !.attempts = count]
  OBVIOUS
<1>5. /\ row.status = "running" /\ row.lease = w /\ row.attempts = count /\ row.gen = job[e].gen
  BY <1>2, <1>4 DEF JobRecord
<1>6. row \in JobRecord
  BY <1>2, <1>3, <1>4, <1>5 DEF JobRecord, Active
<1>7. /\ job' = [job EXCEPT ![e] = row]
      /\ Become(w, Working(pc, e, count >= MaxAttempts))
      /\ UNCHANGED <<inbox, receipt, lead, person>>
  BY <1>1, <1>4 DEF Claim, TypeOK
<1>8. /\ worker' \in [Workers -> WorkerRecord] /\ worker'[w].pc = pc
      /\ \A v \in Workers \ {w} : worker'[v] = worker[v]
  <2>1. PICK last \in BOOLEAN : last = (count >= MaxAttempts)
    BY <1>3
  <2>2. PICK x : x = Working(pc, e, last)
    OBVIOUS
  <2>3. x \in WorkerRecord /\ x.pc = pc
    BY <1>1, <2>2, Work1
  <2>4. Become(w, x)
    BY <1>7, <2>1, <2>2
  <2>5. QED
    BY <2>3, <2>4, Becoming
<1>9. /\ job' \in [Events -> JobRecord] /\ job'[e] = row
      /\ Touches(e) /\ job'[e].status \in Active /\ job'[e].status \notin {"none", "completed"}
  BY <1>5, <1>6, <1>7 DEF TypeOK, Touches, Active
<1>10. Stays(e)
  BY <1>2, <1>7, <1>9 DEF Stays, Stage, inbox
<1>11. Rows(e)'
  BY <1>2, <1>7, <1>9 DEF Linkage, Rows, Active, inbox
<1>12. Retrying'
  BY <1>7 DEF Retrying
<1>13. \A v \in Workers : At(v, "committed")' => worker'[v] = worker[v]
  BY <1>1, <1>8 DEF At
<1>14. /\ receipt' \in [Events -> ReceiptRecord] /\ lead' \in [Events -> LeadRecord]
       /\ person' \in PersonRecord /\ receipt' = receipt
  BY <1>7 DEF TypeOK
<1>15. IInv'
  <2> HIDE DEF IInv
  <2>1. QED
    BY <1>8, <1>9, <1>11, <1>12, <1>13, <1>14, OneInquiry
<1>16. QED
  BY <1>9, <1>10, <1>15 DEF Advances

\* A step that only the invocation notices.
LEMMA Unnoticed ==
  ASSUME IInv, NEW e \in Events, UNCHANGED <<inbox, receipt, lead, job, person>>,
         worker' \in [Workers -> WorkerRecord],
         \A w \in Workers : At(w, "committed")' => worker'[w] = worker[w]
  PROVE  IInv' /\ Advances(e)
<1>1. Touches(e) /\ Stays(e)
  BY DEF Touches, Stays, Stage, inbox
<1>2. Rows(e)' /\ Retrying'
  BY DEF IInv, Linkage, Rows, Retrying, inbox
<1>3. /\ receipt' \in [Events -> ReceiptRecord] /\ lead' \in [Events -> LeadRecord]
      /\ job' \in [Events -> JobRecord] /\ person' \in PersonRecord
  BY DEF IInv, TypeOK
<1>4. IInv'
  BY <1>1, <1>2, <1>3, OneInquiry
<1>5. QED
  BY <1>1, <1>4 DEF Advances

LEMMA EndsStep ==
  ASSUME IInv, NEW w \in Workers, Crash(w) \/ LeaseLost(w)
  PROVE  IInv' /\ \E e \in Events : Advances(e)
<1>1. PICK e \in Events : e = worker[w].event
  BY Invocations DEF IInv, Crash, LeaseLost
<1>2. Idle \in WorkerRecord /\ Idle.pc = "idle"
  BY DEF WorkerRecord, Idle
<1>3. Become(w, Idle) /\ UNCHANGED <<inbox, receipt, lead, job, person>>
  BY DEF Crash, LeaseLost
<1>4. /\ worker' \in [Workers -> WorkerRecord] /\ worker'[w].pc = "idle"
      /\ \A v \in Workers \ {w} : worker'[v] = worker[v]
  BY <1>2, <1>3, Becoming DEF IInv
<1>5. \A v \in Workers : At(v, "committed")' => worker'[v] = worker[v]
  BY <1>4 DEF At
<1>6. QED
  BY <1>3, <1>4, <1>5, Unnoticed

LEMMA ProcessFailsStep ==
  ASSUME IInv, NEW w \in Workers, ProcessFails(w)
  PROVE  IInv' /\ \E e \in Events : Advances(e)
<1>1. /\ worker[w].pc = "claimed" /\ UNCHANGED <<inbox, receipt, lead, job, person>>
      /\ \E error \in Errors : Failing(w, error)
  BY DEF ProcessFails, At, Errors
<1>2. PICK e \in Events : e = worker[w].event
  BY <1>1, Invocations DEF IInv
<1>3. /\ worker' \in [Workers -> WorkerRecord] /\ worker'[w].pc = "failing"
      /\ \A v \in Workers \ {w} : worker'[v] = worker[v]
  BY <1>1, Fail1 DEF IInv
<1>4. \A v \in Workers : At(v, "committed")' => worker'[v] = worker[v]
  BY <1>3 DEF At
<1>5. QED
  BY <1>1, <1>3, <1>4, Unnoticed

\* The receipt is, or becomes, that of a lead.
LEMMA LinkedRow ==
  ASSUME IInv, NEW e \in Events, Linked(e), job[e].status \in Active,
         UNCHANGED <<inbox, job>>
  PROVE  /\ receipt' \in [Events -> ReceiptRecord] /\ lead' \in [Events -> LeadRecord]
         /\ receipt'[e].state = "linked_lead" /\ Rows(e)'
         /\ Touches(e) /\ (Stays(e) \/ Links(e))
<1>0. Rows(e) /\ receipt[e] \in ReceiptRecord
  BY DEF IInv, Linkage, TypeOK
<1>1. CASE receipt[e].state = "linked_lead"
  BY <1>0, <1>1 DEF Linked, IInv, TypeOK, Touches, Stays, Stage, Rows, inbox
<1>2. CASE receipt[e].state # "linked_lead"
  <2>1. PICK r, l : /\ r = [receipt[e] EXCEPT !.state = "linked_lead"]
                    /\ l = [mapping |-> receipt[e].mapping, edited |-> FALSE]
    OBVIOUS
  <2>2. job[e].status # "none" /\ original[e] # None /\ receipt[e].state # "absent"
    BY <1>0 DEF Rows, Active
  <2>3. receipt[e].mapping \in Mappings
    BY <1>0, <2>2 DEF Rows
  <2>4. r \in ReceiptRecord /\ r.state = "linked_lead" /\ r.mapping = receipt[e].mapping
    BY <1>0, <2>1 DEF ReceiptRecord
  <2>5. l \in LeadRecord /\ l.mapping = receipt[e].mapping
    BY <2>1, <2>3 DEF LeadRecord
  <2>6. receipt' = [receipt EXCEPT ![e] = r] /\ lead' = [lead EXCEPT ![e] = l]
    BY <1>2, <2>1 DEF Linked, IInv, TypeOK
  <2>7. /\ receipt' \in [Events -> ReceiptRecord] /\ lead' \in [Events -> LeadRecord]
        /\ receipt'[e] = r /\ lead'[e] = l /\ Touches(e)
    BY <2>4, <2>5, <2>6 DEF IInv, TypeOK, Touches
  <2>8. Rows(e)'
    <3>1. r.mapping \in Mappings /\ l.mapping # None
      BY <2>3, <2>4, <2>5
    <3>2. QED
      BY <1>0, <2>2, <2>4, <2>7, <3>1 DEF Rows, inbox
  <2>9. Links(e)
    <3>1. lead[e] = NoLead
      BY <1>0, <1>2 DEF Rows
    <3>2. Stage(e) = "waiting" /\ Stage(e)' = "lead"
      BY <1>2, <2>4, <2>7 DEF Stage
    <3>3. QED
      BY <2>1, <2>3, <2>7, <3>1, <3>2 DEF Links
  <2>10. QED
    BY <2>4, <2>7, <2>8, <2>9
<1>3. QED
  BY <1>1, <1>2

LEMMA ProcessStep ==
  ASSUME IInv, NEW w \in Workers, Process(w)
  PROVE  IInv' /\ \E e \in Events : Advances(e)
<1>1. worker[w].pc = "claimed" /\ worker[w].last \in BOOLEAN
  BY Invocations DEF IInv, Process, At
<1>2. PICK e \in Events : e = worker[w].event
  BY <1>1, Invocations DEF IInv
<1>3. /\ Linked(e) /\ job[e].status \in Active /\ person = Idle
      /\ UNCHANGED <<inbox, job, person>>
      /\ Become(w, Working("committed", e, worker[w].last)) \/ Failing(w, "transient")
  BY <1>2 DEF Process, Holds, Active, Unlocked
<1>4. /\ receipt' \in [Events -> ReceiptRecord] /\ lead' \in [Events -> LeadRecord]
      /\ receipt'[e].state = "linked_lead" /\ Rows(e)'
      /\ Touches(e) /\ (Stays(e) \/ Links(e))
  BY <1>3, LinkedRow
<1>5. /\ worker' \in [Workers -> WorkerRecord]
      /\ \A v \in Workers \ {w} : worker'[v] = worker[v]
      /\ worker'[w].pc = "committed" => worker'[w].event = e
  <2>1. CASE Become(w, Working("committed", e, worker[w].last))
    BY <1>1, <2>1, Becoming, Work1 DEF IInv
  <2>2. CASE Failing(w, "transient")
    BY <1>1, <2>2, Fail1 DEF IInv, Errors
  <2>3. QED
    BY <1>3, <2>1, <2>2
<1>6. \A v \in Workers : At(v, "committed")' =>
        worker'[v] = worker[v] \/ (worker'[v].event = e /\ receipt'[e].state = "linked_lead")
  BY <1>4, <1>5 DEF At
<1>7. Retrying' /\ person' \in PersonRecord /\ job' \in [Events -> JobRecord]
  BY <1>3 DEF Retrying, IInv, TypeOK
<1>8. IInv'
  BY <1>4, <1>5, <1>6, <1>7, OneInquiry
<1>9. QED
  BY <1>4, <1>8 DEF Advances

\* A job that comes to rest, or to wait for another attempt, and the receipt with it.
LEMMA GivenBack ==
  ASSUME IInv, NEW w \in Workers, NEW e \in Events, e = worker[w].event,
         NEW status \in {"completed", "skipped", "retrying", "failed"}, Holds(w),
         job' = [job EXCEPT ![e].status = status, ![e].lease = NoOne],
         UNCHANGED <<inbox, lead, person>>, Become(w, Idle),
         receipt' = receipt \/ \E state \in {"needs_review", "blocked", "failed"} :
                                  receipt' = SetState(e, state),
         status = "completed" => receipt[e].state = "linked_lead"
  PROVE  IInv' /\ Advances(e)
<1>1. job[e].status = "running"
  BY DEF Holds
<1>2. /\ job' \in [Events -> JobRecord] /\ job'[e].status = status
      /\ \A f \in Events \ {e} : job'[f] = job[f]
  <2>1. status \in Active \cup {"completed", "failed", "skipped"}
    BY DEF Active
  <2>2. QED
    BY <2>1, JobRow DEF IInv
<1>4. Rows(e) /\ receipt[e].state # "absent" /\ original[e] # None
  BY <1>1 DEF IInv, Linkage, Rows
<1>5. /\ receipt' \in [Events -> ReceiptRecord]
      /\ \A f \in Events \ {e} : receipt'[f] = receipt[f]
      /\ receipt'[e].mapping = receipt[e].mapping /\ receipt'[e].state # "absent"
      /\ receipt'[e].state = "linked_lead" <=> receipt[e].state = "linked_lead"
  <2>1. CASE receipt' = receipt
    BY <1>4, <2>1 DEF IInv, TypeOK
  <2>2. CASE \E state \in {"needs_review", "blocked", "failed"} : receipt' = SetState(e, state)
    BY <1>4, <2>2, ReceiptSet DEF IInv
  <2>3. QED
    BY <2>1, <2>2
<1>6. lead' = lead /\ original' = original /\ Touches(e)
  BY <1>2, <1>5 DEF Touches, inbox
<1>7. Rows(e)'
  BY <1>2, <1>4, <1>5, <1>6 DEF Rows
<1>8. Stays(e) \/ Halts(e)
  BY <1>1, <1>2, <1>4, <1>5, <1>6 DEF Stays, Halts, Stage, Active
<1>9. Retrying'
  <2>1. CASE person = Idle
    BY <2>1 DEF Retrying
  <2>2. CASE person # Idle
    <3>1. person.event \in Events
      BY <2>2 DEF IInv, TypeOK, PersonRecord
    <3>2. QED
      BY <1>5, <2>2, <3>1 DEF IInv, Retrying
  <2>3. QED
    BY <2>1, <2>2
<1>10. Idle \in WorkerRecord /\ Idle.pc = "idle"
  BY DEF WorkerRecord, Idle
<1>11. /\ worker' \in [Workers -> WorkerRecord] /\ worker'[w].pc = "idle"
       /\ \A v \in Workers \ {w} : worker'[v] = worker[v]
  BY <1>10, Becoming DEF IInv
<1>12. \A v \in Workers : At(v, "committed")' => worker'[v] = worker[v]
  BY <1>11 DEF At
<1>13. lead' \in [Events -> LeadRecord] /\ person' \in PersonRecord
  BY DEF IInv, TypeOK
<1>14. IInv'
  BY <1>2, <1>5, <1>6, <1>7, <1>9, <1>11, <1>12, <1>13, OneInquiry
<1>15. QED
  BY <1>6, <1>8, <1>14 DEF Advances

LEMMA AcknowledgeStep ==
  ASSUME IInv, NEW w \in Workers, Acknowledge(w)
  PROVE  IInv' /\ \E e \in Events : Advances(e)
<1>1. worker[w].pc = "committed"
  BY DEF Acknowledge, At
<1>2. PICK e \in Events : e = worker[w].event
  BY <1>1, Invocations DEF IInv
<1>3. CASE Failing(w, "transient") /\ UNCHANGED job
  <2>1. /\ worker' \in [Workers -> WorkerRecord] /\ worker'[w].pc = "failing"
        /\ \A v \in Workers \ {w} : worker'[v] = worker[v]
    BY <1>1, <1>3, Fail1 DEF IInv, Errors
  <2>2. \A v \in Workers : At(v, "committed")' => worker'[v] = worker[v]
    BY <2>1 DEF At
  <2>3. UNCHANGED <<inbox, receipt, lead, job, person>>
    BY <1>3 DEF Acknowledge
  <2>4. QED
    BY <2>1, <2>2, <2>3, Unnoticed
<1>4. CASE ~(Failing(w, "transient") /\ UNCHANGED job)
  <2>1. /\ job' = [job EXCEPT ![e].status = "completed", ![e].lease = NoOne]
        /\ Holds(w) /\ Become(w, Idle) /\ UNCHANGED <<inbox, receipt, lead, person>>
    BY <1>2, <1>4 DEF Acknowledge
  <2>2. receipt[e].state = "linked_lead" /\ receipt' = receipt
    BY <1>1, <1>2, <2>1 DEF IInv, Committed, At
  <2>3. IInv' /\ Advances(e)
    BY <1>2, <2>1, <2>2, GivenBack
  <2>4. QED
    BY <2>3
<1>5. QED
  BY <1>3, <1>4

LEMMA ReportStep ==
  ASSUME IInv, NEW w \in Workers, Report(w) \/ FailExhausted(w)
  PROVE  IInv' /\ \E e \in Events : Advances(e)
<1>1. worker[w].pc \in {"failing", "exhausted"}
  BY DEF Report, FailExhausted, At
<1>2. PICK e \in Events : e = worker[w].event
  BY <1>1, Invocations DEF IInv
<1>3. PICK status \in {"skipped", "retrying", "failed"} :
        job' = [job EXCEPT ![e].status = status, ![e].lease = NoOne]
  BY <1>2 DEF Report, FailExhausted
<1>4. /\ Holds(w) /\ Become(w, Idle) /\ UNCHANGED <<inbox, lead, person>>
      /\ \E state \in {"needs_review", "blocked", "failed"} : receipt' = SetState(e, state)
  BY <1>2 DEF Report, FailExhausted, Outcome
<1>5. IInv' /\ Advances(e)
  BY <1>2, <1>3, <1>4, GivenBack
<1>6. QED
  BY <1>5

LEMMA ExpireStep ==
  ASSUME IInv, NEW e \in Events, ExpireLease(e)
  PROVE  IInv' /\ Advances(e)
<1>1. job[e] \in JobRecord /\ job[e].status = "running"
  BY DEF IInv, TypeOK, ExpireLease
<1>2. PICK row : row = [job[e] EXCEPT !.lease = NoOne]
  OBVIOUS
<1>3. row \in JobRecord /\ row.status = "running"
  BY <1>1, <1>2 DEF JobRecord
<1>4. job' = [job EXCEPT ![e] = row] /\ UNCHANGED <<inbox, receipt, lead, worker, person>>
  BY <1>2 DEF ExpireLease, IInv, TypeOK
<1>5. /\ job' \in [Events -> JobRecord] /\ job'[e] = row
      /\ \A f \in Events \ {e} : job'[f] = job[f]
  BY <1>3, <1>4 DEF IInv, TypeOK
<1>6. Touches(e) /\ Stays(e) /\ Rows(e)' /\ Retrying'
  BY <1>1, <1>3, <1>4, <1>5 DEF Touches, Stays, Stage, IInv, Linkage, Rows, Retrying, Active, inbox
<1>7. /\ receipt' \in [Events -> ReceiptRecord] /\ lead' \in [Events -> LeadRecord]
      /\ person' \in PersonRecord /\ worker' \in [Workers -> WorkerRecord]
      /\ receipt' = receipt /\ worker' = worker
  BY <1>4 DEF IInv, TypeOK
<1>8. IInv'
  BY <1>5, <1>6, <1>7, OneInquiry DEF At
<1>9. QED
  BY <1>6, <1>8 DEF Advances

LEMMA ReadForRetryStep ==
  ASSUME IInv, NEW e \in Events, ReadForRetry(e)
  PROVE  IInv' /\ Advances(e)
<1>1. PICK p : p = [pc |-> "retrying", event |-> e]
  OBVIOUS
<1>2. p \in PersonRecord /\ p.event = e
  BY <1>1 DEF PersonRecord
<1>3. /\ person' = p /\ UNCHANGED <<inbox, receipt, lead, job, worker>>
      /\ receipt[e].state \notin {"absent", "linked_lead"}
  BY <1>1 DEF ReadForRetry
<1>4. Touches(e) /\ Stays(e) /\ Rows(e)' /\ Retrying'
  BY <1>2, <1>3 DEF Touches, Stays, Stage, IInv, Linkage, Rows, Retrying, inbox
<1>5. /\ receipt' \in [Events -> ReceiptRecord] /\ lead' \in [Events -> LeadRecord]
      /\ job' \in [Events -> JobRecord] /\ worker' \in [Workers -> WorkerRecord]
      /\ receipt' = receipt /\ worker' = worker /\ person' \in PersonRecord
  BY <1>2, <1>3 DEF IInv, TypeOK
<1>6. IInv'
  BY <1>4, <1>5, OneInquiry DEF At
<1>7. QED
  BY <1>4, <1>6 DEF Advances

LEMMA WriteRetryStep ==
  ASSUME IInv, WriteRetry
  PROVE  IInv' /\ \E e \in Events : Advances(e)
<1>1. PICK e \in Events : e = person.event /\ receipt[e].state \notin {"absent", "linked_lead"}
  BY DEF WriteRetry, IInv, TypeOK, PersonRecord, Retrying
<1>2. /\ person' = Idle /\ UNCHANGED <<inbox, lead, worker>>
      /\ \/ UNCHANGED <<receipt, job>>
         \/ /\ job[e].status \notin Active
            /\ job' = [job EXCEPT ![e] = Queued]
            /\ receipt' = [receipt EXCEPT ![e].state = "queued"]
  BY <1>1 DEF WriteRetry
<1>3. Retrying' /\ person' \in PersonRecord
  BY <1>2 DEF Retrying, PersonRecord
<1>4. lead' \in [Events -> LeadRecord] /\ worker' \in [Workers -> WorkerRecord] /\ worker' = worker
  BY <1>2 DEF IInv, TypeOK
<1>5. Rows(e) /\ receipt[e] \in ReceiptRecord
  BY DEF IInv, Linkage, TypeOK
<1>6. CASE UNCHANGED <<receipt, job>>
  <2>1. Touches(e) /\ Stays(e) /\ Rows(e)'
    BY <1>2, <1>5, <1>6 DEF Touches, Stays, Stage, Rows, inbox
  <2>2. receipt' \in [Events -> ReceiptRecord] /\ job' \in [Events -> JobRecord] /\ receipt' = receipt
    BY <1>6 DEF IInv, TypeOK
  <2>3. IInv'
    BY <1>3, <1>4, <2>1, <2>2, OneInquiry DEF At
  <2>4. QED
    BY <2>1, <2>3 DEF Advances
<1>7. CASE ~UNCHANGED <<receipt, job>>
  <2>1. PICK q, r : q = Queued /\ r = [receipt[e] EXCEPT !.state = "queued"]
    OBVIOUS
  <2>2. q \in JobRecord /\ q.status = "queued"
    BY <2>1, QueuedRow DEF IInv
  <2>3. r \in ReceiptRecord /\ r.state = "queued" /\ r.mapping = receipt[e].mapping
    BY <1>5, <2>1 DEF ReceiptRecord
  <2>4. job' = [job EXCEPT ![e] = q] /\ receipt' = [receipt EXCEPT ![e] = r]
        /\ job[e].status \notin Active
    BY <1>2, <1>7, <2>1 DEF IInv, TypeOK
  <2>5. /\ job' \in [Events -> JobRecord] /\ job'[e] = q
        /\ receipt' \in [Events -> ReceiptRecord] /\ receipt'[e] = r
        /\ \A f \in Events \ {e} : job'[f] = job[f] /\ receipt'[f] = receipt[f]
    BY <2>2, <2>3, <2>4 DEF IInv, TypeOK
  <2>6. Touches(e)
    BY <1>2, <2>5 DEF Touches
  <2>7. original[e] # None /\ original' = original /\ lead' = lead
    BY <1>1, <1>2, <1>5 DEF Rows, inbox
  <2>8. Rows(e)'
    BY <1>1, <1>5, <2>2, <2>3, <2>5, <2>7 DEF Rows
  <2>9. Resumes(e)
    BY <1>1, <2>2, <2>3, <2>4, <2>5, <2>7 DEF Resumes, Stage, Active
  <2>10. IInv'
    BY <1>1, <1>3, <1>4, <2>5, <2>6, <2>8, OneInquiry DEF At
  <2>11. QED
    BY <2>6, <2>9, <2>10 DEF Advances
<1>8. QED
  BY <1>6, <1>7

LEMMA ReprocessStep ==
  ASSUME IInv, NEW e \in Events, NEW m \in Mappings, Reprocess(e, m)
  PROVE  IInv' /\ Advances(e)
<1>1. PICK r : r = [receipt[e] EXCEPT !.mapping = m]
  OBVIOUS
<1>2. Rows(e) /\ receipt[e] \in ReceiptRecord
  BY DEF IInv, Linkage, TypeOK
<1>3. r \in ReceiptRecord /\ r.state = receipt[e].state /\ r.mapping = m
  BY <1>1, <1>2 DEF ReceiptRecord
<1>4. receipt' = [receipt EXCEPT ![e] = r] /\ UNCHANGED <<inbox, lead, job, worker, person>>
      /\ person = Idle
  BY <1>1 DEF Reprocess, IInv, TypeOK, Unlocked
<1>5. /\ receipt' \in [Events -> ReceiptRecord] /\ receipt'[e] = r
      /\ \A f \in Events \ {e} : receipt'[f] = receipt[f]
  BY <1>3, <1>4 DEF IInv, TypeOK
<1>6. Touches(e) /\ Stays(e) /\ Rows(e)' /\ Retrying'
  BY <1>2, <1>3, <1>4, <1>5 DEF Touches, Stays, Stage, Rows, Retrying, inbox
<1>7. /\ lead' \in [Events -> LeadRecord] /\ job' \in [Events -> JobRecord]
      /\ worker' \in [Workers -> WorkerRecord] /\ worker' = worker /\ person' \in PersonRecord
  BY <1>4 DEF IInv, TypeOK
<1>8. IInv'
  BY <1>3, <1>5, <1>6, <1>7, OneInquiry DEF At
<1>9. QED
  BY <1>6, <1>8 DEF Advances

LEMMA EditLeadStep ==
  ASSUME IInv, NEW e \in Events, EditLead(e)
  PROVE  IInv' /\ Advances(e)
<1>1. PICK l : l = [lead[e] EXCEPT !.edited = TRUE]
  OBVIOUS
<1>2. Rows(e) /\ lead[e] \in LeadRecord /\ lead[e] # NoLead
  BY DEF IInv, Linkage, TypeOK, EditLead
<1>3. l \in LeadRecord /\ l.mapping = lead[e].mapping
  BY <1>1, <1>2 DEF LeadRecord
<1>4. lead' = [lead EXCEPT ![e] = l] /\ UNCHANGED <<inbox, receipt, job, worker, person>>
  BY <1>1 DEF EditLead, IInv, TypeOK
<1>5. /\ lead' \in [Events -> LeadRecord] /\ lead'[e] = l
      /\ \A f \in Events \ {e} : lead'[f] = lead[f]
  BY <1>3, <1>4 DEF IInv, TypeOK
<1>6. receipt[e].state = "linked_lead" /\ lead[e].mapping # None
  BY <1>2 DEF Rows
<1>7. Touches(e) /\ Rows(e)'
  BY <1>2, <1>3, <1>4, <1>5, <1>6 DEF Touches, Rows, inbox
<1>8. Edits(e)
  BY <1>1, <1>4, <1>5, <1>6 DEF Edits, Stage
<1>9. Retrying'
  BY <1>4 DEF Retrying, IInv
<1>10. /\ receipt' \in [Events -> ReceiptRecord] /\ job' \in [Events -> JobRecord]
       /\ worker' \in [Workers -> WorkerRecord] /\ worker' = worker /\ person' \in PersonRecord
       /\ receipt' = receipt
  BY <1>4 DEF IInv, TypeOK
<1>11. IInv'
  BY <1>5, <1>7, <1>9, <1>10, OneInquiry DEF At
<1>12. QED
  BY <1>7, <1>8, <1>11 DEF Advances

LEMMA ProcessingStep ==
  ASSUME IInv, Processing
  PROVE  IInv' /\ \E e \in Events : Advances(e)
<1>1. CASE \E w \in Workers : \E e \in Events : Claim(w, e)
  BY <1>1, ClaimStep
<1>2. CASE \E w \in Workers : Work(w)
  <2>1. PICK w \in Workers : Work(w)
    BY <1>2
  <2>2. CASE Process(w)
    BY <2>2, ProcessStep
  <2>3. CASE ProcessFails(w)
    BY <2>3, ProcessFailsStep
  <2>4. CASE LeaseLost(w)
    BY <2>4, EndsStep
  <2>5. CASE Acknowledge(w)
    BY <2>5, AcknowledgeStep
  <2>6. CASE Report(w) \/ FailExhausted(w)
    BY <2>6, ReportStep
  <2>7. QED
    BY <2>1, <2>2, <2>3, <2>4, <2>5, <2>6 DEF Work
<1>3. CASE \E w \in Workers : Crash(w)
  BY <1>3, EndsStep
<1>4. CASE WriteRetry
  BY <1>4, WriteRetryStep
<1>5. CASE \E e \in Events : ExpireLease(e)
  BY <1>5, ExpireStep
<1>6. CASE \E e \in Events : ReadForRetry(e)
  BY <1>6, ReadForRetryStep
<1>7. CASE \E e \in Events : EditLead(e)
  BY <1>7, EditLeadStep
<1>8. CASE \E e \in Events : \E m \in Mappings : Reprocess(e, m)
  BY <1>8, ReprocessStep
<1>9. QED
  BY <1>1, <1>2, <1>3, <1>4, <1>5, <1>6, <1>7, <1>8 DEF Processing

LEMMA NextInv ==
  ASSUME IInv, [Next]_vars
  PROVE  IInv'
<1>1. CASE Submissions
  <2>1. PICK b \in Bodies, k \in Generations, n \in Nonces \cup {Browser} : Submit(b, k, n)
    BY <1>1 DEF Submissions, Generations
  <2>2. QED
    BY <2>1, SubmitInv
<1>2. CASE Administration
  BY <1>2, AdministrationInv
<1>3. CASE Processing
  BY <1>3, ProcessingStep
<1>4. CASE UNCHANGED vars
  <2>1. UNCHANGED <<source, standing, nonces, original, told, receipt, lead, job, worker, person>>
    BY <1>4 DEF vars, inbox
  <2>2. TypeOK' /\ Versioned' /\ Senders'
    BY <2>1 DEF IInv, TypeOK, Versioned, Senders, AcceptedIsDurable, NonceIsBacked
  <2>3. Linkage' /\ Committed' /\ Retrying'
    BY <2>1 DEF IInv, Linkage, Rows, Committed, At, Retrying
  <2>4. QED
    BY <2>2, <2>3 DEF IInv
<1>5. QED
  BY <1>1, <1>2, <1>3, <1>4 DEF Next

LEMMA Invariance == Spec => []IInv
  BY InitInv, NextInv, PTL DEF Spec

-----------------------------------------------------------------------------
(***************************************************************************)
(* The intake that the company is promised.                                *)
(***************************************************************************)

\* What Intake is told of an inquiry.
Shown(e) == [stage |-> Stage(e), body |-> original[e],
             lead |-> lead[e].mapping, edited |-> lead[e].edited]

Inquiry == [e \in Events |-> Shown(e)]

LEMMA SameInquiry ==
  ASSUME \A e \in Events : Stage(e)' = Stage(e) /\ lead'[e] = lead[e], original' = original
  PROVE  Inquiry' = Inquiry
<1>1. \A e \in Events : Shown(e)' = Shown(e)
  BY DEF Shown
<1>2. QED
  BY <1>1 DEF Inquiry

\* A step of one inquiry is an update of the abstract one.
LEMMA OneShown ==
  ASSUME NEW e \in Events,
         \A f \in Events \ {e} : Stage(f)' = Stage(f) /\ lead'[f] = lead[f] /\ original'[f] = original[f],
         NEW x, Shown(e)' = x
  PROVE  Inquiry' = [Inquiry EXCEPT ![e] = x] /\ Inquiry[e] = Shown(e)
<1>1. \A f \in Events \ {e} : Shown(f)' = Shown(f)
  BY DEF Shown
<1>2. QED
  BY <1>1 DEF Inquiry

LEMMA Elsewhere ==
  ASSUME NEW e \in Events, Touches(e)
  PROVE  \A f \in Events \ {e} :
           Stage(f)' = Stage(f) /\ lead'[f] = lead[f] /\ original'[f] = original[f]
  BY DEF Touches, Stage, inbox

LEMMA AdvancesIntake ==
  ASSUME IInv, NEW e \in Events, Advances(e)
  PROVE  Intake!Next \/ Inquiry' = Inquiry
<1>1. Touches(e) /\ original' = original /\ lead[e] \in LeadRecord
  BY DEF Advances, Touches, inbox, IInv, TypeOK
<1>2. CASE Stays(e)
  BY <1>1, <1>2, Elsewhere, SameInquiry DEF Stays
<1>3. CASE Halts(e)
  <2>1. PICK x : x = [Shown(e) EXCEPT !.stage = "attention"]
    OBVIOUS
  <2>2. Shown(e)' = x
    BY <1>1, <1>3, <2>1 DEF Halts, Shown
  <2>3. Inquiry' = [Inquiry EXCEPT ![e] = x] /\ Inquiry[e] = Shown(e)
    BY <1>1, <2>2, Elsewhere, OneShown
  <2>4. Intake!SetAside(e)
    BY <1>3, <2>1, <2>3 DEF Intake!SetAside, Halts, Inquiry, Shown
  <2>5. QED
    BY <2>4 DEF Intake!Next
<1>4. CASE Resumes(e)
  <2>1. PICK x : x = [Shown(e) EXCEPT !.stage = "waiting"]
    OBVIOUS
  <2>2. Shown(e)' = x
    BY <1>1, <1>4, <2>1 DEF Resumes, Shown
  <2>3. Inquiry' = [Inquiry EXCEPT ![e] = x] /\ Inquiry[e] = Shown(e)
    BY <1>1, <2>2, Elsewhere, OneShown
  <2>4. Intake!TakeUpAgain(e)
    BY <1>4, <2>1, <2>3 DEF Intake!TakeUpAgain, Resumes, Inquiry, Shown
  <2>5. QED
    BY <2>4 DEF Intake!Next
<1>5. CASE Links(e)
  <2>1. PICK m \in Mappings : lead'[e] = [mapping |-> m, edited |-> FALSE]
    BY <1>5 DEF Links
  <2>2. lead[e].edited = FALSE /\ lead'[e].mapping = m /\ lead'[e].edited = FALSE
    BY <1>5, <2>1 DEF Links, NoLead
  <2>3. PICK x : x = [Shown(e) EXCEPT !.stage = "lead", !.lead = m]
    OBVIOUS
  <2>4. Shown(e)' = x
    BY <1>1, <1>5, <2>2, <2>3 DEF Links, Shown
  <2>5. Inquiry' = [Inquiry EXCEPT ![e] = x] /\ Inquiry[e] = Shown(e)
    BY <1>1, <2>4, Elsewhere, OneShown
  <2>6. Intake!BecomeLead(e, m)
    BY <1>5, <2>3, <2>5 DEF Intake!BecomeLead, Links, Inquiry, Shown
  <2>7. QED
    BY <2>6 DEF Intake!Next
<1>6. CASE Edits(e)
  <2>1. lead'[e].mapping = lead[e].mapping /\ lead'[e].edited = TRUE
    BY <1>1, <1>6 DEF Edits, LeadRecord
  <2>2. PICK x : x = [Shown(e) EXCEPT !.edited = TRUE]
    OBVIOUS
  <2>3. Shown(e)' = x
    BY <1>1, <1>6, <2>1, <2>2 DEF Edits, Shown
  <2>4. Inquiry' = [Inquiry EXCEPT ![e] = x] /\ Inquiry[e] = Shown(e)
    BY <1>1, <2>3, Elsewhere, OneShown
  <2>5. Intake!EditLead(e)
    BY <1>6, <2>2, <2>4 DEF Intake!EditLead, Edits, Inquiry, Shown
  <2>6. QED
    BY <2>5 DEF Intake!Next
<1>7. QED
  BY <1>2, <1>3, <1>4, <1>5, <1>6 DEF Advances

LEMMA SubmitIntake ==
  ASSUME IInv, NEW b \in Bodies, NEW k \in Generations, NEW n \in Nonces \cup {Browser},
         Submit(b, k, n)
  PROVE  Intake!Next \/ Inquiry' = Inquiry
<1>1. PICK e \in Events : e = b.event
  BY DEF Bodies
<1>2. CASE Verdict(b, k, n) # "new"
  <2>1. UNCHANGED <<original, receipt, job, lead>>
    BY <1>2 DEF Submit
  <2>2. QED
    BY <2>1, SameInquiry DEF Stage
<1>3. CASE Verdict(b, k, n) = "new"
  <2>1. PICK r, q : /\ receipt' = [receipt EXCEPT ![e] = r] /\ r.state = "queued"
                    /\ job' = [job EXCEPT ![e] = q] /\ q.status = "queued"
    <3>1. PICK m \in Mappings : receipt' = [receipt EXCEPT ![e] = [state |-> "queued", mapping |-> m]]
      BY <1>1, <1>3 DEF Submit
    <3>2. job' = [job EXCEPT ![e] = Queued] /\ Queued.status = "queued"
      BY <1>1, <1>3, QueuedRow DEF Submit, IInv
    <3>3. QED
      BY <3>1, <3>2
  <2>2. original' = [original EXCEPT ![e] = b] /\ lead' = lead /\ original[e] = None
    BY <1>1, <1>3, Answers DEF Submit
  <2>3. /\ receipt'[e] = r /\ job'[e] = q /\ original'[e] = b
        /\ \A f \in Events \ {e} : /\ receipt'[f] = receipt[f] /\ job'[f] = job[f]
                                   /\ original'[f] = original[f]
    BY <2>1, <2>2 DEF IInv, TypeOK
  <2>4. Rows(e)
    BY DEF IInv, Linkage
  <2>5. Stage(e) = "absent" /\ lead[e] = NoLead
    BY <2>2, <2>4 DEF Stage, Rows, Active
  <2>6. Stage(e)' = "waiting"
    BY <2>1, <2>3 DEF Stage, Active
  <2>7. PICK x : x = [stage |-> "waiting", body |-> b, lead |-> None, edited |-> FALSE]
    OBVIOUS
  <2>8. Shown(e)' = x
    <3>1. lead'[e].mapping = None /\ lead'[e].edited = FALSE
      BY <2>2, <2>5 DEF NoLead
    <3>2. QED
      BY <2>3, <2>6, <2>7, <3>1 DEF Shown
  <2>9. Inquiry' = [Inquiry EXCEPT ![e] = x] /\ Inquiry[e] = Shown(e)
    BY <2>2, <2>3, <2>8, OneShown DEF Stage
  <2>10. x = [Intake!Blank EXCEPT !.stage = "waiting", !.body = b]
    <3>1. PICK y : y = [Intake!Blank EXCEPT !.stage = "waiting", !.body = b]
      OBVIOUS
    <3>2. Intake!Blank \in [stage : {"absent", "waiting"}, body : {None, b}, lead : {None}, edited : {FALSE}]
      BY DEF Intake!Blank
    <3>3. y.stage = "waiting" /\ y.body = b
      BY <3>1, <3>2
    <3>4. y \in [stage : {"absent", "waiting"}, body : {None, b}, lead : {None}, edited : {FALSE}]
      BY <3>1, <3>2, <3>3
    <3>5. x = y
      BY <2>7, <3>3, <3>4
    <3>6. QED
      BY <3>1, <3>5
  <2>11. Intake!Receive(e, b)
    BY <2>5, <2>9, <2>10 DEF Intake!Receive, Inquiry, Shown
  <2>12. QED
    BY <2>11 DEF Intake!Next
<1>4. QED
  BY <1>2, <1>3

LEMMA IntakeStep ==
  ASSUME IInv, [Next]_vars
  PROVE  Intake!Next \/ Inquiry' = Inquiry
<1>1. CASE Submissions
  <2>1. PICK b \in Bodies, k \in Generations, n \in Nonces \cup {Browser} : Submit(b, k, n)
    BY <1>1 DEF Submissions, Generations
  <2>2. QED
    BY <2>1, SubmitIntake
<1>2. CASE Administration
  <2>1. UNCHANGED <<original, receipt, job, lead>>
    BY <1>2 DEF Administration, ForgetNonce, Configure, RotateKey, RevokeKey, ChangeStanding
  <2>2. QED
    BY <2>1, SameInquiry DEF Stage
<1>3. CASE Processing
  BY <1>3, ProcessingStep, AdvancesIntake
<1>4. CASE UNCHANGED vars
  BY <1>4, SameInquiry DEF Stage, vars, inbox
<1>5. QED
  BY <1>1, <1>2, <1>3, <1>4 DEF Next

-----------------------------------------------------------------------------
(***************************************************************************)
(* Theorems.                                                               *)
(***************************************************************************)

\* Every variable keeps its type.
THEOREM ReceiptTypes == Spec => []TypeOK
  BY Invariance, PTL DEF IInv

\* Whoever was answered "accepted" finds his body as the original of its event.
THEOREM Durable == Spec => []AcceptedIsDurable
  BY Invariance, PTL DEF IInv, Senders

\* Whoever repeats an accepted body gets the same answer, whatever the form's
\* version and the storage are by then.
THEOREM Converging == Spec => []RetryConverges
<1>1. IInv => RetryConverges
  BY Repeats DEF IInv, Senders
<1>2. QED
  BY <1>1, Invariance, PTL

\* No nonce is remembered of a body that was not kept.
THEOREM Backing == Spec => []NonceIsBacked
  BY Invariance, PTL DEF IInv, Senders

\* A completed job has its lead, although lead and job are written apart.
THEOREM Completion == Spec => []CompletedHasLead
<1>1. IInv => CompletedHasLead
  <2> SUFFICES ASSUME IInv, NEW e \in Events, job[e].status = "completed"
               PROVE  lead[e] # NoLead
    BY DEF CompletedHasLead
  <2>1. lead[e].mapping # None
    BY DEF IInv, Linkage, Rows
  <2>2. QED
    BY <2>1 DEF NoLead
<1>2. QED
  BY <1>1, Invariance, PTL

\* The transactions of senders, invocations and administrators implement the
\* intake of InboundIntake.
THEOREM Refinement == Spec => ImplementsIntake
<1>1. Init => Intake!Init
  BY DEF Init, Intake!Init, Intake!Blank, NoReceipt, NoLead, NoJob, Stage, Active
<1>2. IInv /\ [Next]_vars => [Intake!Next]_Inquiry
  BY IntakeStep
<1>3. QED
  BY <1>1, <1>2, Invariance, PTL DEF Spec, ImplementsIntake, Intake!Spec, Inquiry, Shown
=============================================================================
