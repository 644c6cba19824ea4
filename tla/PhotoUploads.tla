---------------------------- MODULE PhotoUploads ----------------------------
(***************************************************************************)
(* The photos of one visit: reserved, stored, recorded, rendered and made  *)
(* ready by requests that work outside the database between transactions,  *)
(* while the visit is completed, reopened or cancelled and its project is  *)
(* held and resumed.                                                       *)
(*                                                                         *)
(* Every transaction takes advisory lock 31 exclusively and is one step.   *)
(* Between them a request reads and writes the evidence store, whose       *)
(* objects appear whole or not at all (a staging directory is renamed).    *)
(* The same bytes render to the same derivatives.  Faults are counted: a   *)
(* request that dies, an error of storage, rendering or database, a lost   *)
(* answer, a lease that expires under its holder, an original that is lost,*)
(* a project put on hold.                                                  *)
(***************************************************************************)
EXTENDS Naturals, FiniteSets

CONSTANTS
  Photos,           \* photos of the visit, each named by the key of its upload
  Preparers,        \* requests of the server that upload or retry
  RetryKeys,        \* idempotency keys of retries
  MaxFaults,        \* bound on faults
  MaxPhotoRevision  \* a failed photo of this revision is not retried any more

ASSUME PhotoUploadsAssumption ==
  MaxFaults \in Nat /\ MaxPhotoRevision \in Nat /\ Photos \cap RetryKeys = {}

VARIABLES
  fieldVisit,  \* the visit: "open", "completed" or "cancelled"
  underway,    \* the project's status is "active"
  photo,       \* cpl_field_photos
  live,        \* the processing lease has not expired
  mutation,    \* cpl_field_mutations of the photos
  object,      \* the objects stored for each photo
  request,     \* what each request does, and the transfer it holds
  faults       \* faults so far

photoVars == <<fieldVisit, underway, photo, live, mutation, object, request, faults>>

-----------------------------------------------------------------------------
Pending == {"reserved", "original_ready", "processing"}
PhotoStates == Pending \cup {"absent", "ready", "failed"}
Objects == {"original", "thumbnail", "report"}
Keys == Photos \cup RetryKeys

NoPhoto == [state |-> "absent", revision |-> 0, recorded |-> FALSE, token |-> 0, attempts |-> 0]

\* pc names the step that comes next.
Steps == {"store", "restore", "read", "record", "claim", "thumbnail", "report", "complete", "fail"}
Idle == [pc |-> "idle"]
Request == [pc : Steps, of : Photos, key : Keys, revision : Nat, recorded : BOOLEAN, token : Nat]

\* A row of the mutations; token is the processing token that it concerns.
Mutation(kind, d) ==
  [kind |-> kind, of |-> request[d].of, key |-> request[d].key,
   revision |-> request[d].revision, token |-> request[d].token]

\* Includes the table's CHECKs.
PhotoTypes ==
  /\ fieldVisit \in {"open", "completed", "cancelled"}
  /\ underway \in BOOLEAN
  /\ photo \in [Photos -> [state : PhotoStates, revision : Nat, recorded : BOOLEAN,
                           token : Nat, attempts : Nat]]
  /\ live \in [Photos -> BOOLEAN]
  /\ object \in [Photos -> SUBSET Objects]
  /\ request \in [Preparers -> {Idle} \cup Request]
  /\ faults \in 0..MaxFaults
  /\ \A p \in Photos :
       /\ photo[p].state = "processing" <=> photo[p].token # 0
       /\ photo[p].state = "ready" => photo[p].recorded

PhotoInit ==
  /\ fieldVisit = "open" /\ underway = TRUE
  /\ photo = [p \in Photos |-> NoPhoto]
  /\ live = [p \in Photos |-> FALSE]
  /\ mutation = {}
  /\ object = [p \in Photos |-> {}]
  /\ request = [d \in Preparers |-> Idle]
  /\ faults = 0

-----------------------------------------------------------------------------
(***************************************************************************)
(* A request's transactions.  Each checks that the visit may be edited: it *)
(* is neither completed nor cancelled, and the project is active.          *)
(***************************************************************************)
FieldOpen == fieldVisit = "open" /\ underway

Fault ==
  /\ faults < MaxFaults
  /\ faults' = faults + 1

\* The transfer that a transaction returns; a lost answer leaves the old one.
Continue(d, row, pc) ==
  \/ /\ request' = [request EXCEPT ![d] =
          [@ EXCEPT !.pc = pc, !.revision = row.revision, !.recorded = row.recorded]]
     /\ UNCHANGED faults
  \/ request' = [request EXCEPT ![d].pc = "fail"] /\ Fault

\* An error of the field records, of access or of the session ends the request.
End(d) == request' = [request EXCEPT ![d] = Idle] /\ UNCHANGED faults

Begin(d, p, k, row, pc) ==
  request' = [request EXCEPT ![d] =
    [pc |-> pc, of |-> p, key |-> k, revision |-> row.revision,
     recorded |-> row.recorded, token |-> 0]]

\* The page sends a file again under its key and gets the photo it reserved.
Upload(d, p) ==
  /\ request[d] = Idle /\ FieldOpen
  /\ photo' = IF photo[p].state = "absent"
                THEN [photo EXCEPT ![p] = [NoPhoto EXCEPT !.state = "reserved", !.revision = 1]]
                ELSE photo
  /\ Begin(d, p, p, photo'[p], IF photo[p].state = "ready" THEN "restore" ELSE "store")
  /\ UNCHANGED <<fieldVisit, underway, live, mutation, object, faults>>

\* putImmutable; what is stored already is verified and kept.
StoreOriginal(d) ==
  /\ request[d].pc \in {"store", "restore"}
  /\ object' = [object EXCEPT ![request[d].of] = @ \cup {"original"}]
  /\ IF request[d].pc = "restore" THEN End(d)
     ELSE request' = [request EXCEPT ![d].pc = "read"] /\ UNCHANGED faults
  /\ UNCHANGED <<fieldVisit, underway, photo, live, mutation>>

RetryPhoto(d, p, k) ==
  /\ request[d] = Idle /\ FieldOpen
  /\ photo[p].state \in Pending \/ (photo[p].state = "failed" /\ photo[p].revision < MaxPhotoRevision)
  /\ Begin(d, p, k, photo[p], "read")
  /\ UNCHANGED <<fieldVisit, underway, photo, live, mutation, object, faults>>

ReadOriginal(d) ==
  /\ request[d].pc = "read"
  /\ request' = [request EXCEPT ![d].pc =
       IF "original" \notin object[request[d].of] THEN "fail"
       ELSE IF request[d].recorded THEN "claim" ELSE "record"]
  /\ UNCHANGED <<fieldVisit, underway, photo, live, mutation, object, faults>>

RecordPhotoOriginal(d) ==
  /\ request[d].pc = "record"
  /\ LET p == request[d].of  row == photo[p]  m == Mutation("original", d)
         recorded == [row EXCEPT !.state = "original_ready", !.recorded = TRUE, !.revision = @ + 1]
     IN \/ /\ FieldOpen /\ m \notin mutation /\ row.revision = request[d].revision
           /\ ~row.recorded /\ row.state \in {"reserved", "failed"}
           /\ photo' = [photo EXCEPT ![p] = recorded]
           /\ mutation' = mutation \cup {m}
           /\ Continue(d, recorded, "claim")
        \/ /\ FieldOpen /\ m \in mutation
           /\ IF row.state = "ready" THEN End(d) ELSE Continue(d, row, "claim")
           /\ UNCHANGED <<photo, mutation>>
        \/ /\ ~FieldOpen \/ (m \notin mutation /\ row.revision # request[d].revision)
           /\ End(d)
           /\ UNCHANGED <<photo, mutation>>
  /\ UNCHANGED <<fieldVisit, underway, live, object>>

\* Seeded fault: an attempt is left to its request, dead or alive.
ClaimableNever(row, alive) == row.recorded /\ row.state \notin {"ready", "processing"}

Claimable(row, alive) ==
  /\ row.recorded /\ row.state # "ready"
  /\ ~(row.state = "processing" /\ alive)

\* A request with the same key at the same revision shares its token.
BeginPhotoProcessing(d) ==
  /\ request[d].pc = "claim"
  /\ LET p == request[d].of  row == photo[p]
         prior == {m \in mutation : m.kind = "processing" /\ m.of = p
                     /\ m.key = request[d].key /\ m.revision = request[d].revision}
         claimed == [row EXCEPT !.state = "processing", !.revision = @ + 1,
                                !.token = row.attempts + 1, !.attempts = @ + 1]
         Hold(held) == \/ /\ request' = [request EXCEPT ![d] =
                               [@ EXCEPT !.pc = "thumbnail", !.revision = held.revision,
                                         !.token = held.token]]
                          /\ UNCHANGED faults
                       \/ request' = [request EXCEPT ![d].pc = "fail"] /\ Fault
         fresh == prior = {} /\ row.revision = request[d].revision /\ Claimable(row, live[p])
         shared == \E m \in prior : m.token = row.token /\ live[p]
     IN \/ /\ FieldOpen /\ fresh
           /\ photo' = [photo EXCEPT ![p] = claimed]
           /\ live' = [live EXCEPT ![p] = TRUE]
           /\ mutation' = mutation \cup {[Mutation("processing", d) EXCEPT !.token = claimed.token]}
           /\ Hold(claimed)
        \/ /\ FieldOpen /\ shared
           /\ Hold(row)
           /\ UNCHANGED <<photo, live, mutation>>
        \/ /\ ~(FieldOpen /\ (fresh \/ shared))
           /\ End(d)
           /\ UNCHANGED <<photo, live, mutation>>
  /\ UNCHANGED <<fieldVisit, underway, object>>

\* Seeded fault: the photo is completed before its report image is stored.
AfterDerivativeEarly(derivative) == "complete"

AfterDerivative(derivative) == IF derivative = "thumbnail" THEN "report" ELSE "complete"

StoreDerivative(d) ==
  /\ request[d].pc \in {"thumbnail", "report"}
  /\ object' = [object EXCEPT ![request[d].of] = @ \cup {request[d].pc}]
  /\ request' = [request EXCEPT ![d].pc = AfterDerivative(request[d].pc)]
  /\ UNCHANGED <<fieldVisit, underway, photo, live, mutation, faults>>

CompletePhoto(d) ==
  /\ request[d].pc = "complete"
  /\ LET p == request[d].of  row == photo[p]  m == [Mutation("complete", d) EXCEPT !.key = p, !.revision = 0]
         accepted == FieldOpen /\ m \notin mutation /\ row.state = "processing"
                     /\ row.token = request[d].token /\ live[p]
     IN IF accepted
        THEN /\ photo' = [photo EXCEPT ![p] =
                  [row EXCEPT !.state = "ready", !.revision = @ + 1, !.token = 0]]
             /\ live' = [live EXCEPT ![p] = FALSE]
             /\ mutation' = mutation \cup {m}
             /\ End(d) \/ (request' = [request EXCEPT ![d].pc = "fail"] /\ Fault)
        ELSE End(d) /\ UNCHANGED <<photo, live, mutation>>
  /\ UNCHANGED <<fieldVisit, underway, object>>

FailureAccepted(row, q) ==
  /\ row.revision = q.revision
  /\ row.state # "ready"
  /\ row.state = "processing" => row.token = q.token

Failed(row) == [row EXCEPT !.state = "failed", !.revision = @ + 1, !.token = 0]

FailPhoto(d) ==
  /\ request[d].pc = "fail"
  /\ LET p == request[d].of  m == Mutation("failed", d)
         accepted == FieldOpen /\ m \notin mutation /\ FailureAccepted(photo[p], request[d])
     IN IF accepted
        THEN /\ photo' = [photo EXCEPT ![p] = Failed(@)]
             /\ live' = [live EXCEPT ![p] = FALSE]
             /\ mutation' = mutation \cup {m}
        ELSE UNCHANGED <<photo, live, mutation>>
  /\ End(d)
  /\ UNCHANGED <<fieldVisit, underway, object>>

-----------------------------------------------------------------------------
(***************************************************************************)
(* Faults, the visit and the project.                                      *)
(***************************************************************************)

\* Storage, rendering or the database fails, and the request reports it.
StepFails(d) ==
  /\ request[d].pc \in Steps \ {"store", "restore", "fail"}
  /\ request' = [request EXCEPT ![d].pc = "fail"]
  /\ Fault
  /\ UNCHANGED <<fieldVisit, underway, photo, live, mutation, object>>

\* The server or the connection is gone, or the person's access.
Crash(d) ==
  /\ request[d] # Idle
  /\ request' = [request EXCEPT ![d] = Idle]
  /\ Fault
  /\ UNCHANGED <<fieldVisit, underway, photo, live, mutation, object>>

Held(p) == \E d \in Preparers : request[d] # Idle /\ request[d].of = p
                                /\ request[d].token = photo[p].token /\ photo[p].token # 0

\* Ninety seconds; only a slow holder's lease counts as a fault.
LeaseExpires(p) ==
  /\ live[p]
  /\ live' = [live EXCEPT ![p] = FALSE]
  /\ IF Held(p) THEN Fault ELSE UNCHANGED faults
  /\ UNCHANGED <<fieldVisit, underway, photo, mutation, object, request>>

LoseOriginal(p) ==
  /\ "original" \in object[p]
  /\ object' = [object EXCEPT ![p] = @ \ {"original"}]
  /\ Fault
  /\ UNCHANGED <<fieldVisit, underway, photo, live, mutation, request>>

\* Seeded fault: an expired attempt does not count as pending.
BlockingExpired(p) == photo[p].state \in {"reserved", "original_ready"} \/ live[p]

\* cplFieldReadiness
Blocking(p) == photo[p].state \in Pending

CompleteVisit ==
  /\ FieldOpen /\ \A p \in Photos : ~Blocking(p)
  /\ fieldVisit' = "completed"
  /\ UNCHANGED <<underway, photo, live, mutation, object, request, faults>>

Reopen ==
  /\ fieldVisit = "completed" /\ underway
  /\ fieldVisit' = "open"
  /\ UNCHANGED <<underway, photo, live, mutation, object, request, faults>>

\* Whatever its photos are, and for good.
CancelVisit ==
  /\ fieldVisit = "open"
  /\ fieldVisit' = "cancelled"
  /\ UNCHANGED <<underway, photo, live, mutation, object, request, faults>>

\* The project is put on hold at any time, or completed or cancelled over no
\* open visit, and made active again.  Over an open visit this counts as a fault.
ChangeProject ==
  /\ underway' = ~underway
  /\ IF FieldOpen THEN Fault ELSE UNCHANGED faults
  /\ UNCHANGED <<fieldVisit, photo, live, mutation, object, request>>

-----------------------------------------------------------------------------
Proceed(d) ==
  \/ StoreOriginal(d) \/ ReadOriginal(d) \/ RecordPhotoOriginal(d) \/ BeginPhotoProcessing(d)
  \/ StoreDerivative(d) \/ CompletePhoto(d) \/ FailPhoto(d)

\* Everything but the loss of what was stored.
Working ==
  \/ \E d \in Preparers :
       \/ \E p \in Photos : Upload(d, p) \/ \E k \in RetryKeys : RetryPhoto(d, p, k)
       \/ Proceed(d) \/ StepFails(d) \/ Crash(d)
  \/ \E p \in Photos : LeaseExpires(p)
  \/ CompleteVisit \/ Reopen \/ CancelVisit \/ ChangeProject

PhotoNext == Working \/ \E p \in Photos : LoseOriginal(p)

PhotoSpec == PhotoInit /\ [][PhotoNext]_photoVars

\* A running request goes on, time passes, and a person retries a photo that is
\* pending, whenever the visit may be edited.
Fairness ==
  /\ \A d \in Preparers : WF_photoVars(Proceed(d))
  /\ \A p \in Photos : WF_photoVars(LeaseExpires(p))
  /\ \A p \in Photos : SF_photoVars(\E d \in Preparers, k \in RetryKeys :
                                 photo[p].state \in Pending /\ RetryPhoto(d, p, k))

-----------------------------------------------------------------------------
(***************************************************************************)
(* Properties.                                                             *)
(***************************************************************************)

\* Whatever order requests, failures and retries came in, the derivatives of a ready photo are stored.
ReadyIsStored == \A p \in Photos :
  photo[p].state = "ready" => {"thumbnail", "report"} \subseteq object[p]

\* No photo of a completed visit waits for a request that the visit locks out.
CompletedLeavesNothingPending == fieldVisit = "completed" =>
  \A p \in Photos : photo[p].state \notin Pending

\* A photo that is being uploaded or processed becomes ready, or fails so that
\* the visit can be completed without it, once faults stop and somebody retries,
\* unless the visit is cancelled or its project is held again and again: a photo
\* that is pending then is locked as it is.
PendingSettles ==
  <>[](fieldVisit # "cancelled" /\ underway) =>
    \A p \in Photos : photo[p].state \in Pending ~> photo[p].state \notin Pending
=============================================================================
