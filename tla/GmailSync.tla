------------------------------ MODULE GmailSync ------------------------------
(***************************************************************************)
(* One Gmail connection: the source row with its history checkpoint and    *)
(* its durable page cursor, the one synchronization job that is active at  *)
(* a time, the worker turns that advance both, and the people who          *)
(* authorize, configure, pause and resume the connection meanwhile.        *)
(*                                                                         *)
(* Every transaction that reads a connection and then writes it takes      *)
(* advisory lock 38 first (the web process in the stores' transaction, the *)
(* worker in cpl_ingestion_lock_authority), and the others are single      *)
(* conditional updates, so each is one step here.  What may run between    *)
(* two steps of a turn is everything else, since a turn holds no           *)
(* transaction while it talks to Gmail.                                    *)
(*                                                                         *)
(* The mailbox is outside of the repository: a growing record of messages  *)
(* that entered or left the selected label, whose length is Gmail's        *)
(* history id: the last page of a listing reaches the id it returns.       *)
(* Credentials, token refresh and message content are abstracted to the    *)
(* errors they may raise.  A lease is who drew its token while it lives    *)
(* and NoOne once it expired, since a condition that reads a token reads   *)
(* its expiry too, or clears it; "due" is the outcome of comparing         *)
(* available_at with the clock.                                            *)
(***************************************************************************)
EXTENDS Naturals, Sequences, FiniteSets

CONSTANTS
  Messages,       \* mail that may be in the selected label
  Workers,        \* concurrent invocations of processHostedJobs
  NoOne, Dead, Human, Callback,  \* other holders of leases: NULL or expired, a process
                                 \* that died, a label operation, an authorization
  MaxAttempts,    \* max_attempts of a job (5 in the code)
  TurnLimit,      \* messages handled in one turn (4 in the code)
  PageLimit,      \* entries of a page (10 in the code)
  BackfillLimit,  \* maxMessages of a bounded backfill
  MaxMailbox,     \* bound on the mailbox's history
  MaxGeneration   \* bound on the source's generation

ASSUME SyncAssumption ==
  /\ {NoOne, Dead, Human, Callback} \cap Workers = {}
  /\ Cardinality({NoOne, Dead, Human, Callback}) = 4
  /\ \A n \in {MaxAttempts, TurnLimit, PageLimit, BackfillLimit, MaxMailbox, MaxGeneration} :
       n \in Nat \ {0}

VARIABLES
  mailbox,    \* Gmail: what happened to the label, in order
  source,     \* cpl_integration_sources, with its current configuration
  standing,   \* what the source was authorized by: the configurer's membership
              \* version ("issuer") and the module entitlement ("entitled")
  operation,  \* who holds operation_token, until operation_expires_at
  job,        \* the latest cpl_workflow_jobs row of the source
  captured,   \* messages with an immutable original, a receipt and its job
  worker,     \* worker turns
  human,      \* a label operation or configuration save under way
  since,      \* (checking) where the present line of checkpoints began
  listed,     \* (checking) that line began with a listing of the whole label
  skipped,    \* (checking) messages that a turn found to be gone, and warned of
  owed        \* (checking) messages of stored pages not yet accounted for

outside == <<mailbox, standing>>
ghosts == <<since, listed, skipped, owed>>
syncVars == <<outside, source, operation, job, captured, worker, human, ghosts>>

-----------------------------------------------------------------------------
SourceStates == {"authorization_required", "paused", "active", "failed",
           "reconnect_required", "disconnected"}
Coverages == {"not_started", "backfill_in_progress", "incomplete",
              "complete_to_checkpoint", "resync_required"}
Positions == 0..MaxMailbox

\* pos and rest stand for nextPageToken: what a further page would start with.
Cursor == [mode : {"none", "backfill", "history"}, base : Positions, check : Positions,
           more : BOOLEAN, pos : Positions, past : SUBSET Messages, loaded : BOOLEAN,
           pending : SUBSET (Messages \X BOOLEAN), remaining : 0..BackfillLimit,
           warned : BOOLEAN]
NoPage == [mode |-> "none", base |-> 0, check |-> 0, more |-> FALSE, pos |-> 0, past |-> {},
           loaded |-> FALSE, pending |-> {}, remaining |-> 0, warned |-> FALSE]

\* history: 0 is NULL, which Gmail never returns.  policy: how the selection starts.
SourceRecord ==
  [state : SourceStates, gen : 1..MaxGeneration, granted : BOOLEAN,
   policy : {"none", "from_now", "bounded_backfill"},
   history : Positions, page : Cursor, coverage : Coverages]

Holders == Workers \cup {NoOne, Dead, Human, Callback}
Unfinished == {"queued", "retrying", "running"}
JobRecord ==
  [status : Unfinished \cup {"completed", "failed", "skipped", "cancelled"},
   gen : 0..MaxGeneration, attempts : 0..MaxAttempts, lease : Holders, due : BOOLEAN,
   code : {"none", "busy", "revoked", "other"}]
NoJob == [status |-> "cancelled", gen |-> 0, attempts |-> 0, lease |-> NoOne,
          due |-> FALSE, code |-> "none"]

Pcs == {"idle", "exhausted", "claimed", "acquired", "started", "loop", "listed", "fetched",
        "closing", "ending", "failing", "release"}
NoItem == <<>>
Errors == {"reconnect", "retryable", "permanent"}
WorkerRecord ==
  [pc : Pcs, owns : BOOLEAN, policy : {"none", "from_now", "bounded_backfill"},
   history : Positions, cursor : Cursor, item : (Messages \X BOOLEAN) \cup {NoItem}, handled : 0..TurnLimit,
   out : Errors \cup {"none", "resync", "busy", "late", "revoked"}]
Idle == [pc |-> "idle", owns |-> FALSE, policy |-> "none", history |-> 0, cursor |-> NoPage,
         item |-> NoItem, handled |-> 0, out |-> "none"]

HumanRecord == [pc : {"idle", "holding", "saving"}, gen : 0..MaxGeneration, history : Positions]
Absent == [pc |-> "idle", gen |-> 0, history |-> 0]

Events == [msg : Messages, enters : BOOLEAN]

SyncTypes ==
  /\ mailbox \in Seq(Events) /\ Len(mailbox) <= MaxMailbox
  /\ source \in SourceRecord
  /\ standing \in [issuer : BOOLEAN, entitled : BOOLEAN]
  /\ operation \in Holders
  /\ job \in JobRecord
  /\ captured \subseteq Messages
  /\ worker \in [Workers -> WorkerRecord]
  /\ human \in HumanRecord
  /\ since \in Positions /\ listed \in BOOLEAN
  /\ skipped \subseteq Messages /\ owed \subseteq Messages

\* The connection was created and authorized; its selection is not saved yet.
\* One message is in the label already.
SyncInit ==
  /\ \E m \in Messages : mailbox = <<[msg |-> m, enters |-> TRUE]>>
  /\ source = [state |-> "paused", gen |-> 1, granted |-> TRUE, policy |-> "none",
               history |-> 0, page |-> NoPage, coverage |-> "not_started"]
  /\ standing = [issuer |-> TRUE, entitled |-> TRUE]
  /\ operation = NoOne
  /\ job = NoJob
  /\ captured = {}
  /\ worker = [w \in Workers |-> Idle]
  /\ human = Absent
  /\ since = 0 /\ listed = FALSE /\ skipped = {} /\ owed = {}

-----------------------------------------------------------------------------
(***************************************************************************)
(* Gmail, and the passing of time.                                         *)
(***************************************************************************)

HistoryId == Len(mailbox)

\* The position of the last thing that happened to m, 0 if nothing did.
LastOf(m) ==
  IF \E i \in 1..HistoryId : mailbox[i].msg = m
  THEN CHOOSE i \in 1..HistoryId :
         mailbox[i].msg = m /\ \A k \in 1..HistoryId : mailbox[k].msg = m => k <= i
  ELSE 0

Labelled == {m \in Messages : LastOf(m) # 0 /\ mailbox[LastOf(m)].enters}

\* A message arrives in the label, or leaves it.
Mail(m) ==
  /\ HistoryId < MaxMailbox
  /\ mailbox' = Append(mailbox, [msg |-> m, enters |-> m \notin Labelled])
  /\ UNCHANGED <<standing, source, operation, job, captured, worker, human, ghosts>>

LeaseExpires ==
  /\ job.lease # NoOne
  /\ job' = [job EXCEPT !.lease = NoOne]
  /\ UNCHANGED <<outside, source, operation, captured, worker, human, ghosts>>

BackoffPasses ==
  /\ job.status \in {"queued", "retrying"} /\ ~job.due
  /\ job' = [job EXCEPT !.due = TRUE]
  /\ UNCHANGED <<outside, source, operation, captured, worker, human, ghosts>>

OperationExpires ==
  /\ operation # NoOne
  /\ operation' = NoOne
  /\ UNCHANGED <<outside, source, job, captured, worker, human, ghosts>>

\* The membership of the person who configured the source is changed.
ChangeMembership ==
  /\ standing.issuer
  /\ standing' = [standing EXCEPT !.issuer = FALSE]
  /\ UNCHANGED <<mailbox, source, operation, job, captured, worker, human, ghosts>>

ChangeEntitlement ==
  /\ standing' = [standing EXCEPT !.entitled = ~standing.entitled]
  /\ UNCHANGED <<mailbox, source, operation, job, captured, worker, human, ghosts>>

-----------------------------------------------------------------------------
(***************************************************************************)
(* What people do: SqlCplIntegrationRepository.                            *)
(***************************************************************************)

MayConfigure == standing.entitled
MayMove == MayConfigure /\ source.gen < MaxGeneration
FreedOf(who) == operation' = IF operation = who THEN NoOne ELSE operation

\* cancelSourceJobs
CancelledJob ==
  IF job.status \in Unfinished
  THEN [job EXCEPT !.status = "cancelled", !.lease = NoOne, !.code = "other"]
  ELSE job

QueuedJob(gen, due) ==
  [status |-> "queued", gen |-> gen, attempts |-> 0, lease |-> NoOne,
   due |-> due, code |-> "none"]

\* The insert is refused while another job of the source is active
\* (cpl_gmail_active_job).
Enqueue(old, gen, due) ==
  /\ old.status \notin Unfinished
  /\ job' = QueuedJob(gen, due)

\* startOAuth takes the operation whoever holds it, and leaves the job alone.
StartOAuth ==
  /\ MayMove
  /\ source' = [source EXCEPT !.state = "authorization_required", !.gen = source.gen + 1]
  /\ operation' = Callback
  /\ UNCHANGED <<outside, job, captured, worker, human, ghosts>>

\* completeOAuth, of the same account: the checkpoint and the page are dropped.
CompleteOAuth ==
  /\ MayMove
  /\ operation = Callback
  /\ source' = [source EXCEPT !.state = "paused", !.gen = source.gen + 1, !.granted = TRUE,
                              !.history = 0, !.page = NoPage, !.coverage = "not_started"]
  /\ standing' = [standing EXCEPT !.issuer = TRUE]
  /\ operation' = NoOne
  /\ UNCHANGED <<mailbox, job, captured, worker, human, ghosts>>

\* authorizedLabels, up to the first call to Gmail.
BeginLabels ==
  /\ MayConfigure /\ human.pc = "idle"
  /\ source.state # "disconnected" /\ source.granted
  /\ operation = NoOne
  /\ operation' = Human
  /\ human' = [pc |-> "holding", gen |-> source.gen, history |-> 0]
  /\ UNCHANGED <<outside, source, job, captured, worker, ghosts>>

\* It reads the mailbox's position and gives the operation back.
ReadProfile ==
  /\ MayConfigure /\ human.pc = "holding"
  /\ source.gen = human.gen /\ source.state # "disconnected"
  /\ operation = Human
  /\ human' = [human EXCEPT !.pc = "saving", !.history = HistoryId]
  /\ FreedOf(Human)
  /\ UNCHANGED <<outside, source, job, captured, worker, ghosts>>

\* Only labels were asked for, or something failed; a request that died leaves
\* its token behind.
EndLabels(dies) ==
  /\ human.pc # "idle"
  /\ human' = Absent
  /\ IF dies
       THEN operation' = IF operation = Human THEN Dead ELSE operation
       ELSE FreedOf(Human)
  /\ UNCHANGED <<outside, source, job, captured, worker, ghosts>>

\* saveConnection, its last transaction.
SaveConnection(policy) ==
  /\ MayMove /\ human.pc = "saving" /\ source.gen = human.gen
  /\ source' = [source EXCEPT !.state = "active", !.gen = source.gen + 1, !.policy = policy,
                   !.history = IF policy = "from_now" THEN human.history ELSE 0,
                   !.page = NoPage, !.coverage = "not_started"]
  /\ standing' = [standing EXCEPT !.issuer = TRUE]
  /\ Enqueue(CancelledJob, source.gen + 1, TRUE)
  /\ human' = Absent
  /\ since' = human.history /\ listed' = FALSE /\ skipped' = {} /\ owed' = {}
  /\ UNCHANGED <<mailbox, operation, captured, worker>>

\* changeConnectionState: pause and disconnect.
Suspend(state) ==
  /\ MayMove
  /\ source' = [source EXCEPT !.state = state, !.gen = source.gen + 1,
                              !.granted = source.granted /\ state # "disconnected"]
  /\ operation' = NoOne
  /\ job' = CancelledJob
  /\ UNCHANGED <<outside, captured, worker, human, ghosts>>

\* changeConnectionState: resume, wherever a page or the history was left.
Resume ==
  /\ MayMove
  /\ source.policy # "none" /\ source.state # "disconnected"
  /\ source' = [source EXCEPT !.state = "active", !.gen = source.gen + 1]
  /\ operation' = NoOne
  /\ Enqueue(CancelledJob, source.gen + 1, TRUE)
  /\ UNCHANGED <<outside, captured, worker, human, ghosts>>

\* enqueueSync: "sync now" while nothing is queued.
EnqueueSync ==
  /\ MayConfigure
  /\ source.state = "active" /\ job.status \notin Unfinished
  /\ Enqueue(job, source.gen, TRUE)
  /\ UNCHANGED <<outside, source, operation, captured, worker, human, ghosts>>

-----------------------------------------------------------------------------
(***************************************************************************)
(* Claiming, and the fences of a turn.                                     *)
(***************************************************************************)

Claimable == \/ job.status \in {"queued", "retrying"} /\ job.due
             \/ job.status = "running" /\ job.lease = NoOne

Claim(w) ==
  /\ worker[w].pc = "idle" /\ Claimable
  /\ IF job.attempts < MaxAttempts
       THEN /\ job' = [job EXCEPT !.status = "running", !.attempts = job.attempts + 1,
                                  !.lease = w]
            /\ worker' = [worker EXCEPT ![w].pc = "claimed"]
       ELSE /\ job' = [job EXCEPT !.status = "running", !.lease = w]
            /\ worker' = [worker EXCEPT ![w].pc = "exhausted"]
  /\ UNCHANGED <<outside, source, operation, captured, human, ghosts>>

Leased(w) == job.status = "running" /\ job.lease = w

\* cpl_ingestion_lock_authority; configuration_version moves with generation.
Authority ==
  /\ source.state = "active" /\ source.gen = job.gen
  /\ standing.issuer /\ standing.entitled

\* checkOperation
Operates(w) == worker[w].owns => operation = w

Guarded(w) == Leased(w) /\ Authority /\ Operates(w)

GoTo(w, pc) == worker' = [worker EXCEPT ![w].pc = pc]
Conclude(w, pc, out) ==
  worker' = [worker EXCEPT ![w] = [Idle EXCEPT !.pc = pc, !.owns = worker[w].owns, !.out = out]]
Leave(w) == IF worker[w].owns THEN Conclude(w, "release", "none")
            ELSE worker' = [worker EXCEPT ![w] = Idle]

\* Seeded fault: the job fails, its source stays as it was.
FailJobOnly(w) ==
  /\ worker[w].pc = "exhausted"
  /\ job' = IF Leased(w) THEN [job EXCEPT !.status = "failed", !.lease = NoOne, !.code = "other"]
            ELSE job
  /\ Leave(w)
  /\ UNCHANGED <<outside, source, operation, captured, human, ghosts>>

\* failExhaustedCplIngestionJob
FailExhausted(w) ==
  /\ worker[w].pc = "exhausted"
  /\ IF Leased(w)
       THEN /\ source' = IF source.state = "active" /\ source.gen = job.gen
                          THEN [source EXCEPT !.state = "failed"] ELSE source
            /\ job' = [job EXCEPT !.status = "failed", !.lease = NoOne,
                                  !.code = "other"]
       ELSE UNCHANGED <<source, job>>
  /\ Leave(w)
  /\ UNCHANGED <<outside, operation, captured, human, ghosts>>

\* Any guarded transaction of the turn may find that it lost its standing.  A
\* lost lease is thrown; the other two end the turn.
Refused(w) ==
  /\ worker[w].pc \in {"claimed", "acquired", "started", "loop", "listed", "fetched", "closing",
                       "failing"}
  /\ ~Guarded(w)
  /\ IF ~Leased(w) THEN Leave(w)
     ELSE Conclude(w, "ending", IF ~Authority THEN "revoked"
                                ELSE IF worker[w].pc = "failing" THEN "late" ELSE "busy")
  /\ UNCHANGED <<outside, source, operation, job, captured, human, ghosts>>

\* Gmail, the network or the database fails with one of the listed kinds of error.
Fails(w, error) ==
  /\ worker[w].pc \in {"claimed", "acquired", "started", "loop", "listed", "fetched", "closing"}
  /\ Conclude(w, "failing", error)
  /\ UNCHANGED <<outside, source, operation, job, captured, human, ghosts>>

\* This worker has no provider configured for the source.
Disabled(w) ==
  /\ worker[w].pc = "claimed"
  /\ Conclude(w, "ending", "revoked")
  /\ UNCHANGED <<outside, source, operation, job, captured, human, ghosts>>

-----------------------------------------------------------------------------
(***************************************************************************)
(* A turn: processCplGmailSync.                                            *)
(***************************************************************************)

\* The operation is taken, and the row read that the turn works from.
Acquire(w) ==
  /\ worker[w].pc = "claimed" /\ Guarded(w)
  /\ IF operation = NoOne
       THEN /\ operation' = w
            /\ worker' = [worker EXCEPT ![w].pc = "acquired", ![w].owns = TRUE,
                 ![w].policy = source.policy, ![w].history = source.history,
                 ![w].cursor = [source.page EXCEPT
                   !.warned = source.page.warned
                     \/ (source.page = NoPage /\ source.coverage = "incomplete")]]
       ELSE Conclude(w, "ending", "busy") /\ UNCHANGED operation
  /\ UNCHANGED <<outside, source, job, captured, human, ghosts>>

\* Where work starts: at the checkpoint or, when there is none, at Gmail's present
\* position, which a bounded backfill reads before it lists anything.
CursorAfter(w, warned) ==
  LET base == IF worker[w].history = 0 THEN HistoryId ELSE worker[w].history
      backfill == worker[w].history = 0 /\ worker[w].policy = "bounded_backfill"
  IN  [mode |-> IF backfill THEN "backfill" ELSE "history", base |-> base, check |-> base,
       more |-> FALSE, pos |-> base, past |-> {},
       loaded |-> worker[w].history = 0 /\ ~backfill, pending |-> {},
       remaining |-> IF backfill THEN BackfillLimit ELSE 0, warned |-> warned]

\* Seeded fault: an earlier incomplete coverage is forgotten.
ForgetfulCursor(w) == CursorAfter(w, FALSE)

NewCursor(w) == CursorAfter(w, worker[w].cursor.warned)

StartCursor(w) ==
  /\ worker[w].pc = "acquired" /\ Guarded(w)
  /\ IF worker[w].cursor.mode # "none" THEN GoTo(w, "loop")
     ELSE worker' = [worker EXCEPT ![w].pc = "started", ![w].cursor = NewCursor(w)]
  /\ UNCHANGED <<outside, source, operation, job, captured, human, ghosts>>

\* persist
Persisted(cursor) ==
  [source EXCEPT !.page = cursor,
     !.coverage = IF cursor.mode = "backfill" THEN "backfill_in_progress" ELSE "incomplete"]

PersistCursor(w) ==
  /\ worker[w].pc = "started" /\ Guarded(w)
  /\ source' = Persisted(worker[w].cursor)
  /\ GoTo(w, "loop")
  /\ IF worker[w].history = 0
       THEN /\ since' = worker[w].cursor.base /\ skipped' = {}
            /\ listed' = (worker[w].cursor.mode = "backfill")
       ELSE UNCHANGED <<since, skipped, listed>>
  /\ UNCHANGED <<outside, operation, job, captured, human, owed>>

Accounted(cursor) == cursor.loaded /\ cursor.pending = {} /\ ~cursor.more

\* Another page is wanted.
WantsPage(w) ==
  /\ worker[w].pc = "loop" /\ Guarded(w) /\ worker[w].handled < TurnLimit
  /\ worker[w].cursor.pending = {} /\ ~Accounted(worker[w].cursor)

TurnPage(w, cursor) ==
  /\ worker' = [worker EXCEPT ![w].pc = "listed", ![w].cursor = [cursor EXCEPT !.loaded = TRUE]]
  /\ UNCHANGED <<outside, source, operation, job, captured, human, ghosts>>

\* The backfill reached its limit with more to list.
EndBackfill(w) ==
  LET c == worker[w].cursor IN
  /\ WantsPage(w) /\ c.mode = "backfill" /\ c.remaining = 0
  /\ TurnPage(w, [c EXCEPT !.warned = TRUE, !.more = FALSE])

\* listMessages: a page of what is in the label now.
ListMessages(w) ==
  LET c == worker[w].cursor
      rest == Labelled \ c.past
      limit == IF c.remaining < PageLimit THEN c.remaining ELSE PageLimit
  IN  /\ WantsPage(w) /\ c.mode = "backfill" /\ c.remaining > 0
      /\ \E page \in SUBSET rest :
           /\ Cardinality(page) = IF Cardinality(rest) < limit THEN Cardinality(rest) ELSE limit
           /\ TurnPage(w, [c EXCEPT !.pending = page \X {FALSE}, !.past = c.past \cup page,
                                    !.more = rest # page])

\* listHistory: a page of what happened since; the last change of a message counts.
ListHistory(w) ==
  LET c == worker[w].cursor
      end == IF c.pos + PageLimit < HistoryId THEN c.pos + PageLimit ELSE HistoryId
      page == (c.pos + 1)..end
      last == {i \in page : \A k \in page : mailbox[k].msg = mailbox[i].msg => k <= i}
  IN  /\ WantsPage(w) /\ c.mode = "history"
      /\ TurnPage(w, [c EXCEPT !.pending = {<<mailbox[i].msg, ~mailbox[i].enters>> : i \in last},
                               !.pos = end, !.more = end < HistoryId, !.check = HistoryId])

\* Gmail no longer has the history from there on, which may be true of any of it.
HistoryGone(w) ==
  /\ WantsPage(w) /\ worker[w].cursor.mode = "history"
  /\ Conclude(w, "failing", "resync")
  /\ UNCHANGED <<outside, source, operation, job, captured, human, ghosts>>

\* A page is stored before any of its messages is read; an empty one ends the turn.
PersistPage(w) ==
  LET c == worker[w].cursor IN
  /\ worker[w].pc = "listed" /\ Guarded(w)
  /\ source' = Persisted(c)
  /\ owed' = owed \cup {entry[1] : entry \in c.pending}
  /\ GoTo(w, IF c.pending = {} THEN "closing" ELSE "loop")
  /\ UNCHANGED <<outside, operation, job, captured, human, since, listed, skipped>>

\* getMessage: removed, unavailable or no longer selected messages are warned of.
Present(entry) == ~entry[2] /\ entry[1] \in Labelled

GetMessage(w) ==
  /\ worker[w].pc = "loop" /\ Guarded(w) /\ worker[w].handled < TurnLimit
  /\ \E entry \in worker[w].cursor.pending :
       worker' = [worker EXCEPT ![w].pc = "fetched",
         ![w].item = IF Present(entry) THEN entry ELSE <<entry[1], TRUE>>,
         ![w].cursor = [worker[w].cursor EXCEPT
            !.pending = worker[w].cursor.pending \ {entry},
            !.remaining = IF worker[w].cursor.remaining = 0 THEN 0
                          ELSE worker[w].cursor.remaining - 1,
            !.warned = worker[w].cursor.warned \/ ~Present(entry)]]
  /\ UNCHANGED <<outside, source, operation, job, captured, human, ghosts>>

\* The original, its receipt and its job are stored with the shorter page.
Capture(w) ==
  LET message == worker[w].item[1]
      gone == worker[w].item[2]
  IN  /\ worker[w].pc = "fetched" /\ Guarded(w)
      /\ captured' = IF gone THEN captured ELSE captured \cup {message}
      /\ skipped' = IF gone THEN skipped \cup {message} ELSE skipped
      /\ owed' = owed \ {message}
      /\ source' = Persisted(worker[w].cursor)
      /\ worker' = [worker EXCEPT ![w].pc = "loop", ![w].item = NoItem,
                                  ![w].handled = worker[w].handled + 1]
      /\ UNCHANGED <<outside, operation, job, human, since, listed>>

\* The turn is over when all is accounted for, or after enough messages; it may
\* also run out of its 18 seconds.
EndTurn(w) ==
  /\ worker[w].pc = "loop"
  /\ Accounted(worker[w].cursor) \/ worker[w].handled = TurnLimit
  /\ GoTo(w, "closing")
  /\ UNCHANGED <<outside, source, operation, job, captured, human, ghosts>>

TimeIsUp(w) ==
  /\ worker[w].pc = "loop"
  /\ GoTo(w, "closing")
  /\ UNCHANGED <<outside, source, operation, job, captured, human, ghosts>>

\* Seeded fault: an unfinished turn stores the position its last page gave.
ClosedAtCheck(w) ==
  LET c == worker[w].cursor IN
  IF Accounted(c)
  THEN [source EXCEPT !.history = c.check, !.page = NoPage,
          !.coverage = IF c.warned THEN "incomplete" ELSE "complete_to_checkpoint"]
  ELSE [Persisted(c) EXCEPT !.history = c.check]

\* What the end of a turn leaves in the source: the checkpoint moves only when
\* every page is accounted for.
Closed(w) ==
  LET c == worker[w].cursor IN
  IF Accounted(c)
  THEN [source EXCEPT !.history = c.check, !.page = NoPage,
          !.coverage = IF c.warned THEN "incomplete" ELSE "complete_to_checkpoint"]
  ELSE [Persisted(c) EXCEPT !.history = worker[w].history]

\* The job is completed and its successor queued in the same transaction.
CloseTurn(w) ==
  /\ worker[w].pc = "closing" /\ Guarded(w)
  /\ source' = Closed(w)
  /\ Enqueue([job EXCEPT !.status = "completed"], source.gen, FALSE)
  /\ Leave(w)
  /\ UNCHANGED <<outside, operation, captured, human, ghosts>>

\* finishJob
Finished(status, code) ==
  job' = [job EXCEPT !.status = status, !.lease = NoOne, !.due = FALSE,
                     !.code = code]

\* The turn lost its operation or its authority: only its job is concluded, if
\* the lease still lives.
End(w) ==
  LET spent == job.attempts >= MaxAttempts IN
  /\ worker[w].pc = "ending"
  /\ IF ~Leased(w) THEN UNCHANGED job
     ELSE \/ worker[w].out = "revoked" /\ Finished("skipped", "revoked")
          \/ worker[w].out = "late" /\ Finished("retrying", "busy")
          \/ worker[w].out = "busy" /\ Finished(IF spent THEN "failed" ELSE "retrying", "busy")
  /\ Leave(w)
  /\ UNCHANGED <<outside, source, operation, captured, human, ghosts>>

\* An error is recorded on the source and on the job together.
Report(w) ==
  LET error == worker[w].out
      terminal == error # "retryable" \/ job.attempts >= MaxAttempts
  IN  /\ worker[w].pc = "failing" /\ Guarded(w)
      /\ source' = [source EXCEPT
           !.state = IF error = "reconnect" THEN "reconnect_required"
                     ELSE IF terminal THEN "failed" ELSE "active",
           !.coverage = IF error = "resync" THEN "resync_required" ELSE "incomplete"]
      /\ Finished(IF terminal THEN "failed" ELSE "retrying", "other")
      /\ Leave(w)
      /\ UNCHANGED <<outside, operation, captured, human, ghosts>>

\* finally: the turn clears the operation if it is still its own.
Release(w) ==
  /\ worker[w].pc = "release"
  /\ FreedOf(w)
  /\ worker' = [worker EXCEPT ![w] = Idle]
  /\ UNCHANGED <<outside, source, job, captured, human, ghosts>>

\* The invocation dies.  The leases it drew belong to nobody.
Crash(w) ==
  /\ worker[w].pc # "idle"
  /\ worker' = [worker EXCEPT ![w] = Idle]
  /\ operation' = IF operation = w THEN Dead ELSE operation
  /\ job' = [job EXCEPT !.lease = IF job.lease = w THEN Dead ELSE job.lease]
  /\ UNCHANGED <<outside, source, captured, human, ghosts>>

-----------------------------------------------------------------------------
Outside ==
  \/ \E m \in Messages : Mail(m)
  \/ LeaseExpires \/ BackoffPasses \/ OperationExpires
  \/ ChangeMembership \/ ChangeEntitlement

People ==
  \/ StartOAuth \/ CompleteOAuth
  \/ BeginLabels \/ ReadProfile \/ \E dies \in BOOLEAN : EndLabels(dies)
  \/ \E policy \in {"from_now", "bounded_backfill"} : SaveConnection(policy)
  \/ \E state \in {"paused", "disconnected"} : Suspend(state)
  \/ Resume \/ EnqueueSync

Handles(w) ==
  EndBackfill(w) \/ ListMessages(w) \/ ListHistory(w) \/ HistoryGone(w) \/ GetMessage(w)

Turn(w) ==
  \/ FailExhausted(w) \/ Refused(w)
  \/ Acquire(w) \/ StartCursor(w) \/ PersistCursor(w)
  \/ Handles(w) \/ PersistPage(w) \/ Capture(w) \/ EndTurn(w) \/ CloseTurn(w)
  \/ End(w) \/ Report(w) \/ Release(w)

Polling ==
  \E w \in Workers :
    \/ Claim(w) \/ Turn(w) \/ TimeIsUp(w) \/ Disabled(w) \/ Crash(w)
    \/ \E error \in Errors : Fails(w, error)

SyncNext == Outside \/ People \/ Polling

SyncSpec == SyncInit /\ [][SyncNext]_syncVars

-----------------------------------------------------------------------------
(***************************************************************************)
(* Properties.                                                             *)
(***************************************************************************)

Entered(from, to) == {mailbox[i].msg : i \in {k \in (from + 1)..to : mailbox[k].enters}}

\* Whatever turns were interrupted, refused, repeated or resumed: when the
\* checkpoint stands somewhere, every message that entered the label between
\* the start of the line and there was captured, or found gone and warned of
\* (cpl-gmail-sync.ts:25).
CheckpointAccounts ==
  source.history # 0 => Entered(since, source.history) \subseteq captured \cup skipped

\* Coverage is called complete only of what is: nothing on the line was skipped,
\* and after a listing whatever was in the label then, and stayed, is captured.
HonestCoverage ==
  source.coverage = "complete_to_checkpoint" =>
    /\ Entered(since, source.history) \subseteq captured
    /\ listed => {m \in Labelled : LastOf(m) <= source.history} \subseteq captured

\* A source that is active is also polled, unless its last job gave up as busy
\* or as no longer authorized, which leave the source as it was
\* (cpl-gmail-sync.ts:559-569): every other way to end a job ends in a
\* successor or in a visible state of the source.
PolledOrGivenUp ==
  source.state = "active" =>
    \/ job.status \in Unfinished /\ job.gen = source.gen
    \/ job.status \notin Unfinished /\ job.code \in {"busy", "revoked"}

\* No checkpoint comes about while a message of a stored page is unaccounted
\* for; saving a selection anew starts over.  "A history checkpoint advances only
\* after every ID in every page is accounted for" (cpl-gmail-sync.ts:25-26).
PagesAccounted ==
  [][source'.history # source.history /\ source'.history # 0 => owed' = {}]_syncVars
=============================================================================
