------------------------- MODULE ReportApprovalProofs -------------------------
(***************************************************************************)
(* The report of a project, for any number of people, requests and calls.  *)
(*                                                                         *)
(* An approval trusts three things that it read in earlier steps: the page *)
(* it was composed from, the attempt that was prepared for it, and the PDF *)
(* that was rendered from that attempt.  The invariant says why it may: a  *)
(* revision names one version for good (Pages, Requests), an attempt keeps *)
(* the version of its request and what that version has frozen (Attempts), *)
(* and a call that has stored a PDF has stored the one of its attempt      *)
(* (Working).                                                              *)
(***************************************************************************)
EXTENDS ReportApproval, FiniteSetTheorems, TLAPS

\* A version has frozen its sources if it is not later than the report's.
Numbered ==
  /\ report.state = "absent" <=> report.version = 0
  /\ report.state = "absent" <=> report.revision = 0
  /\ \A v \in Versions : version[v] # None <=> v <= report.version

\* What was seen under a revision that still stands is what stands.
Recalls(row, seen) ==
  seen.revision <= row.revision /\ (seen.revision = row.revision => seen.version = row.version)

Pages == \A p \in People : page[p] # None => Recalls(report, page[p])
Requests == \A k \in Keys : request[k] # None => Recalls(report, request[k])

Attempts == \A k \in Keys : attempt[k] # None =>
  /\ request[k] # None /\ request[k].version = attempt[k].version
  /\ version[attempt[k].version] = attempt[k].sources

CallsWork == \A c \in Calls : call[c] # Idle =>
  attempt[call[c].key] # None /\ (call[c].pc = "stored" => call[c].key \in stored)

Filing == \A v \in Versions : artifact[v] # None =>
  /\ attempt[artifact[v]] # None /\ attempt[artifact[v]].version = v
  /\ artifact[v] \in stored

Approved == report.state = "approved" => artifact[report.version] # None

Standing == Numbered /\ ReviewedIsReady
Remembered == Pages /\ Requests
Rendered == Attempts /\ CallsWork /\ Filing

IInv == ReportAssumption /\ TypeOK /\ Standing /\ Approved /\ Remembered /\ Rendered

-----------------------------------------------------------------------------
LEMMA InitIInv == ReportAssumption /\ Init => IInv
<1> SUFFICES ASSUME ReportAssumption, Init PROVE IInv
  OBVIOUS
<1> USE DEF Init
<1>1. 0 \in 0..MaxVersion /\ 0 \in 0..MaxRevision
  BY DEF ReportAssumption
<1>2. TypeOK
  BY <1>1 DEF TypeOK, ReportRecord
<1>3. Numbered
  <2>1. \A v \in Versions : ~(v <= 0)
    BY DEF ReportAssumption, Versions
  <2>2. QED
    BY <2>1 DEF Numbered
<1>4. ReviewedIsReady /\ Approved /\ Remembered /\ Rendered
  BY DEF ReviewedIsReady, Approved, Remembered, Pages, Requests, Rendered, Attempts, CallsWork, Filing
<1>5. QED
  BY <1>2, <1>3, <1>4 DEF IInv, Standing

LEMMA ReportFacts ==
  ASSUME IInv
  PROVE  /\ report.version \in 0..MaxVersion /\ report.version \in Nat
         /\ report.revision \in 0..MaxRevision /\ report.revision \in Nat
         /\ report.state # "absent" => report.version \in Versions /\ report.revision \in 1..MaxRevision
         /\ MaxVersion \in Nat \ {0} /\ MaxRevision \in Nat \ {0}
         /\ \A v \in Versions : v \in Nat
<1>1. report.version \in 0..MaxVersion /\ report.revision \in 0..MaxRevision
  BY DEF IInv, TypeOK, ReportRecord
<1>2. MaxVersion \in Nat \ {0} /\ MaxRevision \in Nat \ {0}
  BY DEF IInv, ReportAssumption
<1>3. report.state # "absent" => report.version \in Versions /\ report.revision \in 1..MaxRevision
  BY <1>1, <1>2 DEF IInv, Standing, Numbered, Versions
<1>4. QED
  BY <1>1, <1>2, <1>3 DEF Versions

LEMMA PageFacts ==
  ASSUME IInv, NEW p \in People, page[p] # None
  PROVE  /\ page[p].version \in Versions /\ page[p].revision \in 1..MaxRevision
         /\ page[p].revision \in Nat
  BY ReportFacts DEF IInv, TypeOK, Shown

LEMMA RequestFacts ==
  ASSUME IInv, NEW k \in Keys, request[k] # None
  PROVE  /\ request[k].version \in Versions /\ request[k].revision \in 1..MaxRevision
         /\ request[k].revision \in Nat
  BY ReportFacts DEF IInv, TypeOK, Asked

LEMMA AttemptFacts ==
  ASSUME IInv, NEW k \in Keys, attempt[k] # None
  PROVE  /\ attempt[k].version \in Versions /\ attempt[k].revision \in 1..MaxRevision
         /\ attempt[k].sources \in Sources /\ attempt[k].sources # None
  BY DEF IInv, TypeOK, Attempt, ReportAssumption

-----------------------------------------------------------------------------
(***************************************************************************)
(* Steps that leave the report alone.                                      *)
(***************************************************************************)
LEMMA ChangeSourcesInv == ASSUME IInv, NEW s \in Sources, ChangeSources(s) PROVE IInv'
  BY DEF ChangeSources, reviewing, IInv, TypeOK, Standing, Numbered, ReviewedIsReady, IsReady,
         Approved, Remembered, Pages, Requests, Rendered, Attempts, CallsWork, Filing

LEMMA ChangeReviewerInv == ASSUME IInv, NEW p \in People, ChangeReviewer(p) PROVE IInv'
<1> USE DEF ChangeReviewer, reviewing
<1>1. TypeOK'
  BY DEF IInv, TypeOK
<1>2. Standing' /\ Approved' /\ Remembered' /\ Rendered'
  BY DEF IInv, Standing, Numbered, ReviewedIsReady, IsReady, Approved, Remembered, Pages, Requests,
         Rendered, Attempts, CallsWork, Filing
<1>3. QED
  BY <1>1, <1>2 DEF IInv

LEMMA ViewInv == ASSUME IInv, NEW p \in People, View(p) PROVE IInv'
<1>1. PICK seen : seen = [version |-> report.version, revision |-> report.revision]
  OBVIOUS
<1>2. /\ report.state # "absent" /\ page' = [page EXCEPT ![p] = seen]
      /\ UNCHANGED <<sources, reviewers, report, version, attempt, artifact, stored, request, call>>
  BY <1>1 DEF View
<1>3. seen \in Shown /\ Recalls(report, seen)
  BY <1>1, <1>2, ReportFacts DEF Shown, Recalls
<1>4. TypeOK'
  BY <1>2, <1>3 DEF IInv, TypeOK
<1>5. \A q \in People : page'[q] = IF q = p THEN seen ELSE page[q]
  BY <1>2 DEF IInv, TypeOK
<1>6. Pages'
  BY <1>2, <1>3, <1>5 DEF IInv, Remembered, Pages
<1>7. Standing' /\ Approved' /\ Requests' /\ Rendered'
  BY <1>2 DEF IInv, Standing, Numbered, ReviewedIsReady, IsReady, Approved, Remembered, Requests,
              Rendered, Attempts, CallsWork, Filing
<1>8. QED
  BY <1>4, <1>6, <1>7 DEF IInv, Remembered

LEMMA ComposeApprovalInv ==
  ASSUME IInv, NEW p \in People, NEW k \in Keys, ComposeApproval(p, k)
  PROVE  IInv'
<1>1. PICK asked : asked = [by |-> p, version |-> page[p].version, revision |-> page[p].revision]
  OBVIOUS
<1>2. /\ page[p] # None /\ request[k] = None
      /\ request' = [request EXCEPT ![k] = asked]
      /\ UNCHANGED <<sources, reviewers, report, version, attempt, artifact, stored, page, call>>
  BY <1>1 DEF ComposeApproval
<1>3. asked \in Asked /\ Recalls(report, asked)
  BY <1>1, <1>2, PageFacts DEF Asked, IInv, Remembered, Pages, Recalls
<1>4. TypeOK'
  BY <1>2, <1>3 DEF IInv, TypeOK
<1>5. \A q \in Keys : request'[q] = IF q = k THEN asked ELSE request[q]
  BY <1>2 DEF IInv, TypeOK
<1>6. Requests'
  BY <1>2, <1>3, <1>5 DEF IInv, Remembered, Requests
<1>7. Attempts'
  BY <1>2, <1>5 DEF IInv, Rendered, Attempts
<1>8. Standing' /\ Approved' /\ Pages' /\ CallsWork' /\ Filing'
  BY <1>2 DEF IInv, Standing, Numbered, ReviewedIsReady, IsReady, Approved, Remembered, Pages,
              Rendered, CallsWork, Filing
<1>9. QED
  BY <1>4, <1>6, <1>7, <1>8 DEF IInv, Remembered, Rendered

LEMMA PrepareApprovalInv ==
  ASSUME IInv, NEW c \in Calls, NEW k \in Keys, PrepareApproval(c, k)
  PROVE  IInv'
<1>1. PICK row : row = [pc |-> "rendering", key |-> k]
  OBVIOUS
<1>2. row \in Working /\ row # Idle /\ row.key = k /\ row.pc # "stored"
  BY <1>1 DEF Working, Idle
<1>3. /\ request[k] # None /\ Reviewable(k)
      /\ call' = [call EXCEPT ![c] = row]
      /\ UNCHANGED <<sources, reviewers, report, version, artifact, stored, page, request>>
  BY <1>1 DEF PrepareApproval
<1>4. \A d \in Calls : call'[d] = IF d = c THEN row ELSE call[d]
  BY <1>3 DEF IInv, TypeOK
<1>5. Standing' /\ Approved' /\ Remembered'
  BY <1>3 DEF IInv, Standing, Numbered, ReviewedIsReady, IsReady, Approved, Remembered, Pages, Requests
<1>6. CASE attempt[k] # None /\ attempt' = attempt
  <2>1. TypeOK'
    BY <1>2, <1>3, <1>6 DEF IInv, TypeOK
  <2>2. Rendered'
    BY <1>2, <1>3, <1>4, <1>6 DEF IInv, Rendered, Attempts, CallsWork, Filing
  <2>3. QED
    BY <1>5, <2>1, <2>2 DEF IInv
<1>7. CASE attempt[k] = None /\ IsReady(report.version)
  <2>1. PICK new : new = [version |-> report.version, revision |-> report.revision,
                          sources |-> version[report.version], at |-> Cardinality(Prepared) + 1]
    OBVIOUS
  <2>2. attempt' = [attempt EXCEPT ![k] = new]
    BY <1>7, <2>1 DEF PrepareApproval, Prepared
  <2>3. Cardinality(Prepared) + 1 \in 1..Cardinality(Keys)
    <3>1. IsFiniteSet(Keys) /\ Prepared \subseteq Keys /\ Prepared # Keys
      BY <1>7 DEF IInv, ReportAssumption, Prepared
    <3>2. /\ IsFiniteSet(Prepared) /\ Cardinality(Prepared) <= Cardinality(Keys)
          /\ Cardinality(Prepared) # Cardinality(Keys)
      BY <3>1, FS_Subset
    <3>3. Cardinality(Prepared) \in Nat /\ Cardinality(Keys) \in Nat
      BY <3>1, <3>2, FS_CardinalityType
    <3>4. QED
      BY <3>2, <3>3
  <2>4. report.version \in Versions /\ report.revision \in 1..MaxRevision
    BY <1>3, ReportFacts DEF Reviewable
  <2>5. new \in Attempt
    BY <1>7, <2>1, <2>3, <2>4 DEF Attempt, IsReady, IInv, ReportAssumption
  <2>6. new # None
    BY <2>5 DEF IInv, ReportAssumption
  <2>7. request[k].version = new.version
    BY <1>3, <2>1 DEF IInv, Remembered, Requests, Recalls, Reviewable, Current
  <2>8. TypeOK'
    BY <1>2, <1>3, <2>2, <2>5 DEF IInv, TypeOK
  <2>9. \A q \in Keys : attempt'[q] = IF q = k THEN new ELSE attempt[q]
    BY <2>2 DEF IInv, TypeOK
  <2>10. Attempts'
    BY <1>3, <2>1, <2>7, <2>9 DEF IInv, Rendered, Attempts
  <2>11. CallsWork'
    <3>1. \A d \in Calls : call[d] # Idle => call[d].key \in Keys
      BY DEF IInv, TypeOK, Working
    <3>2. QED
      BY <1>2, <1>3, <1>4, <1>7, <2>6, <2>9, <3>1 DEF IInv, Rendered, CallsWork
  <2>12. Filing'
    <3>1. \A v \in Versions : artifact[v] # None => artifact[v] \in Keys /\ artifact[v] # k
      BY <1>7 DEF IInv, TypeOK, Rendered, Filing
    <3>2. QED
      BY <1>3, <2>9, <3>1 DEF IInv, Rendered, Filing
  <2>13. QED
    BY <1>5, <2>8, <2>10, <2>11, <2>12 DEF IInv, Rendered
<1>8. QED
  BY <1>6, <1>7 DEF PrepareApproval, Prepared

LEMMA StoreArtifactInv == ASSUME IInv, NEW c \in Calls, StoreArtifact(c) PROVE IInv'
<1>1. PICK row \in Working : row = call[c] /\ row # Idle
  BY DEF StoreArtifact, IInv, TypeOK, Idle
<1>2. PICK new : new = [row EXCEPT !.pc = "stored"]
  OBVIOUS
<1>3. new \in Working /\ new # Idle /\ new.key = row.key /\ row.key \in Keys
  BY <1>1, <1>2 DEF Working, Idle
<1>4. /\ stored' = stored \cup {row.key}
      /\ call' = [call EXCEPT ![c] = new]
      /\ UNCHANGED <<sources, reviewers, report, version, attempt, artifact, page, request>>
  BY <1>1, <1>2 DEF StoreArtifact, Filed
<1>5. \A d \in Calls : call'[d] = IF d = c THEN new ELSE call[d]
  BY <1>4 DEF IInv, TypeOK
<1>6. TypeOK'
  BY <1>3, <1>4 DEF IInv, TypeOK
<1>7. CallsWork'
  BY <1>1, <1>3, <1>4, <1>5 DEF IInv, Rendered, CallsWork
<1>8. Standing' /\ Approved' /\ Remembered' /\ Attempts' /\ Filing'
  BY <1>4 DEF IInv, Standing, Numbered, ReviewedIsReady, IsReady, Approved, Remembered, Pages,
              Requests, Rendered, Attempts, Filing
<1>9. QED
  BY <1>6, <1>7, <1>8 DEF IInv, Rendered

LEMMA EndCallInv == ASSUME IInv, NEW c \in Calls, EndCall(c) PROVE IInv'
<1> USE DEF EndCall
<1>1. TypeOK'
  BY DEF IInv, TypeOK
<1>2. CallsWork'
  BY DEF IInv, TypeOK, Rendered, CallsWork
<1>3. Standing' /\ Approved' /\ Remembered' /\ Attempts' /\ Filing'
  BY DEF IInv, Standing, Numbered, ReviewedIsReady, IsReady, Approved, Remembered, Pages,
         Requests, Rendered, Attempts, Filing
<1>4. QED
  BY <1>1, <1>2, <1>3 DEF IInv, Rendered

-----------------------------------------------------------------------------
(***************************************************************************)
(* Steps of the report.                                                    *)
(***************************************************************************)
\* The report moves to row, which may have a version more; what is frozen stays.
Turns(row) ==
  /\ row \in ReportRecord /\ row.state # "absent" /\ row.version \in Versions
  /\ row.revision = report.revision + 1
  /\ report' = row
  /\ version' \in [Versions -> Sources \cup {None}]
  /\ \A v \in Versions : version[v] # None => version'[v] = version[v]
  /\ \A v \in Versions : version'[v] # None <=> v <= row.version
  /\ row.state \in {"in_review", "approved"} => version'[row.version] \in Ready
  /\ UNCHANGED <<sources, reviewers, attempt, stored, page, request>>

LEMMA TurnInv ==
  ASSUME IInv, NEW row, Turns(row)
  PROVE  Standing' /\ Remembered' /\ Attempts'
<1>1. row.revision # 0 /\ row.version # 0
  BY ReportFacts DEF Turns, Versions
<1>2. Numbered'
  BY <1>1 DEF Turns, Numbered
<1>3. ReviewedIsReady'
  BY DEF Turns, ReviewedIsReady, IsReady
<1>4. Pages'
  <2> SUFFICES ASSUME NEW p \in People, page[p] # None PROVE Recalls(row, page[p])
    BY DEF Turns, Pages
  <2>1. page[p].revision \in Nat /\ report.revision \in Nat /\ page[p].revision <= report.revision
    BY PageFacts, ReportFacts DEF IInv, Remembered, Pages, Recalls
  <2>2. page[p].revision <= row.revision /\ page[p].revision # row.revision
    BY <2>1 DEF Turns
  <2>3. QED
    BY <2>2 DEF Recalls
<1>5. Requests'
  <2> SUFFICES ASSUME NEW k \in Keys, request[k] # None PROVE Recalls(row, request[k])
    BY DEF Turns, Requests
  <2>1. /\ request[k].revision \in Nat /\ report.revision \in Nat
        /\ request[k].revision <= report.revision
    BY RequestFacts, ReportFacts DEF IInv, Remembered, Requests, Recalls
  <2>2. request[k].revision <= row.revision /\ request[k].revision # row.revision
    BY <2>1 DEF Turns
  <2>3. QED
    BY <2>2 DEF Recalls
<1>6. Attempts'
  <2> SUFFICES ASSUME NEW k \in Keys, attempt[k] # None
               PROVE  /\ request[k] # None /\ request[k].version = attempt[k].version
                      /\ version'[attempt[k].version] = attempt[k].sources
    BY DEF Turns, Attempts
  <2>1. attempt[k].version \in Versions /\ attempt[k].sources # None
    BY AttemptFacts
  <2>2. QED
    BY <2>1 DEF Turns, IInv, Rendered, Attempts
<1>7. QED
  BY <1>2, <1>3, <1>4, <1>5, <1>6 DEF Standing, Remembered

\* All but an approval leave the artifacts and the calls as they are.
LEMMA QuietTurnInv ==
  ASSUME IInv, NEW row, Turns(row), row.state # "approved", UNCHANGED <<artifact, call>>
  PROVE  IInv'
<1>1. Standing' /\ Remembered' /\ Attempts'
  BY TurnInv
<1>2. TypeOK'
  BY DEF Turns, IInv, TypeOK
<1>3. Approved'
  BY DEF Turns, Approved
<1>4. CallsWork' /\ Filing'
  BY DEF Turns, IInv, Rendered, CallsWork, Filing
<1>5. QED
  BY <1>1, <1>2, <1>3, <1>4 DEF IInv, Rendered

\* The version that is begun has not been frozen, and is the next one.
LEMMA AppendFacts ==
  ASSUME IInv, report.version + 1 \in Versions, NEW frozen \in Sources,
         version' = [version EXCEPT ![report.version + 1] = frozen]
  PROVE  /\ version' \in [Versions -> Sources \cup {None}]
         /\ \A v \in Versions : version[v] # None => version'[v] = version[v]
         /\ \A v \in Versions : version'[v] # None <=> v <= report.version + 1
<1>1. version \in [Versions -> Sources \cup {None}] /\ frozen # None
  BY DEF IInv, TypeOK, ReportAssumption
<1>2. \A v \in Versions : v <= report.version + 1 <=> v = report.version + 1 \/ v <= report.version
  BY ReportFacts
<1>3. ~(report.version + 1 <= report.version)
  BY ReportFacts
<1>4. \A v \in Versions : version[v] # None <=> v <= report.version
  BY DEF IInv, Standing, Numbered
<1>5. \A v \in Versions : version'[v] = IF v = report.version + 1 THEN frozen ELSE version[v]
  BY <1>1
<1>6. QED
  BY <1>1, <1>2, <1>3, <1>4, <1>5

LEMMA NextRow ==
  ASSUME IInv, Bounded, NEW state \in States, NEW number \in Versions,
         NEW row, row = [state |-> state, version |-> number, revision |-> report.revision + 1]
  PROVE  /\ row \in ReportRecord /\ row.state = state /\ row.state # "absent"
         /\ row.version = number /\ row.revision = report.revision + 1
<1>1. report.revision + 1 \in 0..MaxRevision /\ number \in 0..MaxVersion
  BY ReportFacts DEF Bounded, Versions
<1>2. QED
  BY <1>1 DEF ReportRecord, States

LEMMA CreateReportInv == ASSUME IInv, CreateReport PROVE IInv'
<1>1. PICK row : row = [state |-> "draft", version |-> 1, revision |-> 1]
  OBVIOUS
<1>2. /\ report.state = "absent" /\ report' = row
      /\ version' = [version EXCEPT ![1] = sources]
      /\ UNCHANGED <<sources, reviewers, attempt, artifact, stored, page, request, call>>
  BY <1>1 DEF CreateReport, reviewing
<1>3. report.version = 0 /\ sources \in Sources /\ 1 \in Versions
  BY <1>2, ReportFacts DEF IInv, Standing, Numbered, TypeOK, Versions
<1>4. report.version + 1 = 1
  BY <1>3
<1>5. /\ version' \in [Versions -> Sources \cup {None}]
      /\ \A v \in Versions : version[v] # None => version'[v] = version[v]
      /\ \A v \in Versions : version'[v] # None <=> v <= 1
  BY <1>2, <1>3, <1>4, AppendFacts
<1>6. row \in ReportRecord /\ row.state = "draft" /\ row.version = 1 /\ row.revision = 1
  BY <1>1, ReportFacts DEF ReportRecord, States
<1>7. report.revision + 1 = 1
  BY <1>2 DEF IInv, Standing, Numbered
<1>8. Turns(row)
  BY <1>2, <1>3, <1>5, <1>6, <1>7 DEF Turns
<1>9. QED
  BY <1>2, <1>6, <1>8, QuietTurnInv

LEMMA EditReportInv ==
  ASSUME IInv, NEW p \in People, NEW refresh \in BOOLEAN, EditReport(p, refresh)
  PROVE  IInv'
<1>1. PICK row : row = [state |-> report.state, version |-> report.version + 1,
                        revision |-> report.revision + 1]
  OBVIOUS
<1>2. /\ Editable /\ Bounded /\ report.version + 1 \in Versions
      /\ report' = row /\ version' = [version EXCEPT ![report.version + 1] = sources]
      /\ UNCHANGED <<sources, reviewers, attempt, artifact, stored, page, request, call>>
  BY <1>1 DEF EditReport, Appended, Moves, reviewing
<1>3. sources \in Sources
  BY DEF IInv, TypeOK
<1>4. /\ version' \in [Versions -> Sources \cup {None}]
      /\ \A v \in Versions : version[v] # None => version'[v] = version[v]
      /\ \A v \in Versions : version'[v] # None <=> v <= report.version + 1
  BY <1>2, <1>3, AppendFacts
<1>5. /\ row \in ReportRecord /\ row.state = report.state /\ row.state # "absent"
      /\ row.version = report.version + 1 /\ row.revision = report.revision + 1
  BY <1>1, <1>2, NextRow DEF Editable, States
<1>6. row.state \notin {"in_review", "approved"}
  BY <1>2, <1>5 DEF Editable
<1>7. Turns(row)
  BY <1>2, <1>4, <1>5, <1>6 DEF Turns
<1>8. QED
  BY <1>2, <1>6, <1>7, QuietTurnInv

LEMMA ReviseReportInv == ASSUME IInv, NEW p \in People, ReviseReport(p) PROVE IInv'
<1>1. PICK row : row = [state |-> "draft", version |-> report.version + 1,
                        revision |-> report.revision + 1]
  OBVIOUS
<1>2. PICK frozen : frozen = version[report.version]
  OBVIOUS
<1>3. /\ report.state = "approved" /\ Bounded /\ report.version + 1 \in Versions
      /\ report' = row /\ version' = [version EXCEPT ![report.version + 1] = frozen]
      /\ UNCHANGED <<sources, reviewers, attempt, artifact, stored, page, request, call>>
  BY <1>1, <1>2 DEF ReviseReport, Appended, Moves, reviewing
<1>4. frozen \in Sources
  BY <1>2, <1>3 DEF IInv, Standing, ReviewedIsReady, IsReady, ReportAssumption
<1>5. /\ version' \in [Versions -> Sources \cup {None}]
      /\ \A v \in Versions : version[v] # None => version'[v] = version[v]
      /\ \A v \in Versions : version'[v] # None <=> v <= report.version + 1
  BY <1>3, <1>4, AppendFacts
<1>6. /\ row \in ReportRecord /\ row.state = "draft"
      /\ row.version = report.version + 1 /\ row.revision = report.revision + 1
  BY <1>1, <1>3, NextRow DEF States
<1>7. Turns(row)
  BY <1>3, <1>5, <1>6 DEF Turns
<1>8. QED
  BY <1>3, <1>6, <1>7, QuietTurnInv

\* A turn that begins no version; one that puts the report under review or
\* approves it is of a version that is ready.
LEMMA SameVersion ==
  ASSUME IInv, Bounded, report.state # "absent", NEW state \in States,
         state \in {"in_review", "approved"} => IsReady(report.version),
         NEW row, row = [state |-> state, version |-> report.version,
                         revision |-> report.revision + 1],
         report' = row,
         UNCHANGED <<sources, reviewers, version, attempt, stored, page, request>>
  PROVE  Turns(row) /\ row.state = state
<1>1. report.version \in Versions
  BY ReportFacts
<1>2. /\ row \in ReportRecord /\ row.state = state /\ row.state # "absent"
      /\ row.version = report.version /\ row.revision = report.revision + 1
  BY <1>1, NextRow
<1>3. version \in [Versions -> Sources \cup {None}]
  BY DEF IInv, TypeOK
<1>4. \A v \in Versions : version[v] # None <=> v <= report.version
  BY DEF IInv, Standing, Numbered
<1>5. QED
  BY <1>1, <1>2, <1>3, <1>4 DEF Turns, IsReady

LEMMA ReviewInv ==
  ASSUME IInv, NEW p \in People, SubmitReport(p) \/ RequestChanges(p)
  PROVE  IInv'
<1>1. CASE SubmitReport(p)
  <2>1. PICK row : row = [state |-> "in_review", version |-> report.version,
                          revision |-> report.revision + 1]
    OBVIOUS
  <2>2. /\ Bounded /\ report.state # "absent" /\ IsReady(report.version) /\ report' = row
        /\ UNCHANGED <<sources, reviewers, version, attempt, artifact, stored, page, request, call>>
    BY <1>1, <2>1 DEF SubmitReport, Editable, Moves, reviewing
  <2>3. Turns(row) /\ row.state = "in_review"
    BY <2>1, <2>2, SameVersion DEF States
  <2>4. QED
    BY <2>2, <2>3, QuietTurnInv
<1>2. CASE RequestChanges(p)
  <2>1. PICK row : row = [state |-> "changes_requested", version |-> report.version,
                          revision |-> report.revision + 1]
    OBVIOUS
  <2>2. /\ Bounded /\ report.state # "absent" /\ report' = row
        /\ UNCHANGED <<sources, reviewers, version, attempt, artifact, stored, page, request, call>>
    BY <1>2, <2>1 DEF RequestChanges, Moves, reviewing
  <2>3. Turns(row) /\ row.state = "changes_requested"
    BY <2>1, <2>2, SameVersion DEF States
  <2>4. QED
    BY <2>2, <2>3, QuietTurnInv
<1>3. QED
  BY <1>1, <1>2

LEMMA CompleteApprovalInv == ASSUME IInv, NEW c \in Calls, CompleteApproval(c) PROVE IInv'
<1>1. PICK k \in Keys : k = call[c].key /\ call[c].pc = "stored" /\ call[c] # Idle
  BY DEF CompleteApproval, IInv, TypeOK, Working, Idle
<1>2. attempt[k] # None /\ k \in stored
  BY <1>1 DEF IInv, Rendered, CallsWork
<1>3. PICK v \in Versions : v = attempt[k].version
  BY <1>2, AttemptFacts
<1>4. PICK row : row = [state |-> "approved", version |-> report.version,
                        revision |-> report.revision + 1]
  OBVIOUS
<1>5. /\ Bounded /\ report.state = "in_review" /\ report.version = v
      /\ IsReady(report.version) /\ report' = row
      /\ artifact[v] = None /\ artifact' = [artifact EXCEPT ![v] = k]
      /\ call' = [call EXCEPT ![c] = Idle]
      /\ UNCHANGED <<sources, reviewers, version, attempt, stored, page, request>>
  BY <1>1, <1>3, <1>4 DEF CompleteApproval, Commits, Moves
<1>6. Turns(row) /\ row.state = "approved"
  BY <1>4, <1>5, SameVersion DEF States
<1>7. Standing' /\ Remembered' /\ Attempts'
  BY <1>6, TurnInv
<1>8. k # None
  BY DEF IInv, ReportAssumption
<1>9. \A w \in Versions : artifact'[w] = IF w = v THEN k ELSE artifact[w]
  BY <1>5 DEF IInv, TypeOK
<1>10. TypeOK'
  BY <1>5, <1>6 DEF Turns, IInv, TypeOK
<1>11. Approved'
  BY <1>4, <1>5, <1>8, <1>9 DEF Approved
<1>12. Filing'
  BY <1>2, <1>3, <1>5, <1>9 DEF IInv, Rendered, Filing
<1>13. CallsWork'
  BY <1>5 DEF IInv, TypeOK, Rendered, CallsWork
<1>14. QED
  BY <1>7, <1>10, <1>11, <1>12, <1>13 DEF IInv, Rendered

-----------------------------------------------------------------------------
LEMMA NextIInv == IInv /\ [Next]_vars => IInv'
<1> SUFFICES ASSUME IInv, [Next]_vars PROVE IInv'
  OBVIOUS
<1>1. CASE CreateReport \/ \E s \in Sources : ChangeSources(s)
  BY <1>1, CreateReportInv, ChangeSourcesInv
<1>2. CASE \E p \in People : ChangeReviewer(p) \/ View(p)
  BY <1>2, ChangeReviewerInv, ViewInv
<1>3. CASE \E p \in People : SubmitReport(p) \/ RequestChanges(p) \/ ReviseReport(p)
  BY <1>3, ReviewInv, ReviseReportInv
<1>4. CASE \E p \in People, refresh \in BOOLEAN : EditReport(p, refresh)
  BY <1>4, EditReportInv
<1>5. CASE \E p \in People, k \in Keys : ComposeApproval(p, k)
  BY <1>5, ComposeApprovalInv
<1>6. CASE \E c \in Calls : StoreArtifact(c) \/ CompleteApproval(c) \/ EndCall(c)
  BY <1>6, StoreArtifactInv, CompleteApprovalInv, EndCallInv
<1>7. CASE \E c \in Calls, k \in Keys : PrepareApproval(c, k)
  BY <1>7, PrepareApprovalInv
<1>8. CASE UNCHANGED vars
  <2>1. TypeOK'
    BY <1>8 DEF vars, reviewing, IInv, TypeOK
  <2>2. QED
    BY <1>8, <2>1 DEF vars, reviewing, IInv, Standing, Numbered, ReviewedIsReady, IsReady, Approved,
                Remembered, Pages, Requests, Rendered, Attempts, CallsWork, Filing
<1>9. QED
  BY <1>1, <1>2, <1>3, <1>4, <1>5, <1>6, <1>7, <1>8 DEF Next

\* What pages, requests, attempts and calls remember is worth what the invariant says.
THEOREM Invariance == ReportAssumption /\ Spec => []IInv
<1>1. ReportAssumption /\ Init => IInv
  BY InitIInv
<1>2. IInv /\ [Next]_vars => IInv'
  BY NextIInv
<1>3. QED
  BY <1>1, <1>2, PTL DEF Spec

-----------------------------------------------------------------------------
\* Every variable keeps its type.
THEOREM ReportTypes == ReportAssumption /\ Spec => []TypeOK
<1>1. IInv => TypeOK
  BY DEF IInv
<1>2. QED
  BY <1>1, Invariance, PTL

\* Nothing is reviewed or approved that was assembled from unfinished work.
THEOREM Readiness == ReportAssumption /\ Spec => []ReviewedIsReady
<1>1. IInv => ReviewedIsReady
  BY DEF IInv, Standing
<1>2. QED
  BY <1>1, Invariance, PTL

\* An approved report has its PDF, and the store has every PDF on offer.
THEOREM FiledBeforeOffered == ReportAssumption /\ Spec => []ApprovedIsFiled
<1>1. IInv => ApprovedIsFiled
  BY DEF IInv, Approved, Rendered, Filing, ApprovedIsFiled
<1>2. QED
  BY <1>1, Invariance, PTL

\* A PDF is of the version that its reviewer had on the screen.
THEOREM Reviewing == ReportAssumption /\ Spec => []ApprovedAsReviewed
<1>1. IInv => ApprovedAsReviewed
  <2> SUFFICES ASSUME IInv, NEW v \in Versions, artifact[v] # None
               PROVE  /\ request[artifact[v]].version = v
                      /\ attempt[artifact[v]].version = v
                      /\ attempt[artifact[v]].sources = version[v]
    BY DEF ApprovedAsReviewed
  <2>1. artifact[v] \in Keys
    BY DEF IInv, TypeOK
  <2>2. QED
    BY <2>1 DEF IInv, Rendered, Filing, Attempts
<1>2. QED
  BY <1>1, Invariance, PTL

\* A PDF becomes available only while its sources are what they were when its
\* version was saved, and while its reviewer may review.
THEOREM FreshCommit == ReportAssumption /\ Spec => CommitIsFresh
<1> DEFINE Unstale == \A v \in Versions : artifact'[v] # artifact[v] =>
                        /\ sources = version[v]
                        /\ request[artifact'[v]].by \in reviewers
<1>1. IInv /\ [Next]_vars => [Unstale]_vars
  <2> SUFFICES ASSUME IInv, Next, NEW v \in Versions, artifact'[v] # artifact[v]
               PROVE  sources = version[v] /\ request[artifact'[v]].by \in reviewers
    BY DEF vars
  <2>1. PICK c \in Calls : CompleteApproval(c)
    BY DEF Next, CreateReport, ChangeSources, ChangeReviewer, View, SubmitReport, RequestChanges,
           ReviseReport, EditReport, ComposeApproval, StoreArtifact, EndCall, PrepareApproval
  <2>2. PICK k \in Keys : k = call[c].key
    <3>1. call[c] \in {Idle} \cup Working /\ call[c] # Idle
      BY <2>1 DEF CompleteApproval, IInv, TypeOK, Idle
    <3>2. QED
      BY <3>1 DEF Working
  <2>3. attempt[k].version = v /\ artifact'[v] = k
    BY <2>1, <2>2 DEF CompleteApproval, IInv, TypeOK
  <2>4. Commits(k)
    BY <2>1, <2>2 DEF CompleteApproval
  <2>5. QED
    BY <2>3, <2>4 DEF Commits, Fresh
<1>2. QED
  BY <1>1, Invariance, PTL DEF Spec, CommitIsFresh

\* Neither a saved version nor a published PDF ever changes.
THEOREM History == ReportAssumption /\ Spec => HistoryStays
<1> DEFINE Kept == \A v \in Versions :
                     /\ version[v] # None => version'[v] = version[v]
                     /\ artifact[v] # None => artifact'[v] = artifact[v]
<1>1. IInv /\ [Next]_vars => [Kept]_vars
  <2> SUFFICES ASSUME IInv, Next, NEW v \in Versions
               PROVE  /\ version[v] # None => version'[v] = version[v]
                      /\ artifact[v] # None => artifact'[v] = artifact[v]
    BY DEF vars
  <2>1. version[v] # None => version'[v] = version[v]
    <3> SUFFICES ASSUME version[v] # None PROVE version'[v] = version[v]
      OBVIOUS
    <3>1. v <= report.version /\ v # report.version + 1
      BY ReportFacts DEF IInv, Standing, Numbered
    <3>2. CASE CreateReport
      <4>1. report.version = 0 /\ v \in 1..MaxVersion
        BY <3>2 DEF CreateReport, IInv, Standing, Numbered, Versions
      <4>2. QED
        BY <3>1, <4>1, ReportFacts
    <3>3. CASE \E p \in People : ReviseReport(p) \/ \E refresh \in BOOLEAN : EditReport(p, refresh)
      BY <3>1, <3>3 DEF ReviseReport, EditReport, Appended, IInv, TypeOK
    <3>4. QED
      BY <3>2, <3>3 DEF Next, ChangeSources, ChangeReviewer, View, SubmitReport, RequestChanges,
                    ComposeApproval, StoreArtifact, CompleteApproval, EndCall, PrepareApproval
  <2>2. artifact[v] # None => artifact'[v] = artifact[v]
    <3>1. CASE \E c \in Calls : CompleteApproval(c)
      BY <3>1 DEF CompleteApproval, IInv, TypeOK
    <3>2. QED
      BY <3>1 DEF Next, CreateReport, ChangeSources, ChangeReviewer, View, SubmitReport,
                  RequestChanges, ReviseReport, EditReport, ComposeApproval, StoreArtifact, EndCall,
                  PrepareApproval
  <2>3. QED
    BY <2>1, <2>2
<1>2. QED
  BY <1>1, Invariance, PTL DEF Spec, HistoryStays

-----------------------------------------------------------------------------
(***************************************************************************)
(* The report as a document: a step of the report is a step of             *)
(* ApprovedArtifact.                                                       *)
(***************************************************************************)
Agreement(row) == IF row.state = "approved" THEN row.version ELSE 0

LEMMA StampsKept ==
  ASSUME IInv, artifact' = artifact, \A k \in Keys : attempt[k] # None => attempt'[k] = attempt[k]
  PROVE  [v \in Versions |-> Published(v)'] = [v \in Versions |-> Published(v)]
<1>1. \A v \in Versions : Published(v)' = Published(v)
  <2> SUFFICES ASSUME NEW v \in Versions PROVE Published(v)' = Published(v)
    OBVIOUS
  <2>1. artifact[v] # None => artifact[v] \in Keys /\ attempt[artifact[v]] # None
    BY DEF IInv, TypeOK, Rendered, Filing
  <2>2. QED
    BY <2>1 DEF Published
<1>2. QED
  BY <1>1

LEMMA DocumentStands ==
  ASSUME [v \in Versions |-> Published(v)'] = [v \in Versions |-> Published(v)],
         report'.version = report.version, Agreement(report') = Agreement(report)
  PROVE  UNCHANGED Document!vars
<1>1. [d \in {"report"} |-> report'.version] = [d \in {"report"} |-> report.version]
  OBVIOUS
<1>2. [d \in {"report"} |-> IF report'.state = "approved" THEN report'.version ELSE 0]
        = [d \in {"report"} |-> IF report.state = "approved" THEN report.version ELSE 0]
  BY DEF Agreement
<1>3. QED
  BY <1>1, <1>2 DEF Document!vars

LEMMA DocumentWritten ==
  ASSUME [v \in Versions |-> Published(v)'] = [v \in Versions |-> Published(v)],
         report'.version = report.version + 1, Agreement(report') = 0
  PROVE  Document!Next
<1>1. [d \in {"report"} |-> report'.version]
        = [[d \in {"report"} |-> report.version] EXCEPT !["report"] = @ + 1]
  OBVIOUS
<1>2. [d \in {"report"} |-> IF report'.state = "approved" THEN report'.version ELSE 0]
        = [[d \in {"report"} |-> IF report.state = "approved" THEN report.version ELSE 0]
             EXCEPT !["report"] = 0]
  BY DEF Agreement
<1>3. Document!Write("report")
  BY <1>1, <1>2 DEF Document!Write
<1>4. QED
  BY <1>3 DEF Document!Next

\* The agreement and the file are one step; the stamp is the attempt's.
LEMMA DocumentPublished ==
  ASSUME NEW v \in Versions, v # 0, v = report.version, report'.version = v,
         report'.state = "approved", NEW t \in 1..Cardinality(Keys), Published(v) = 0,
         [w \in Versions |-> Published(w)'] = [[w \in Versions |-> Published(w)] EXCEPT ![v] = t]
  PROVE  Document!Next
<1> DEFINE old == [w \in Versions |-> Published(w)]
           new == [w \in Versions |-> Published(w)']
<1>1. [d \in {"report"} |-> report'.version] = [d \in {"report"} |-> report.version]
  OBVIOUS
<1>2. [d \in {"report"} |-> report.version]["report"] = v
  OBVIOUS
<1>3. [d \in {"report"} |-> IF report'.state = "approved" THEN report'.version ELSE 0]
        = [[d \in {"report"} |-> IF report.state = "approved" THEN report.version ELSE 0]
             EXCEPT !["report"] = v]
  OBVIOUS
<1>4. old[v] = 0 /\ new[v] = t /\ new = [old EXCEPT ![v] = t]
  OBVIOUS
<1>5. [d \in {"report"} |-> new]
        = [[d \in {"report"} |-> old] EXCEPT !["report"][v] = IF @ = 0 THEN t ELSE @]
  BY <1>4
<1>6. [d \in {"report"} |-> new] = [[d \in {"report"} |-> old] EXCEPT !["report"][v] = t]
  BY <1>4
<1>7. [d \in {"report"} |-> new]["report"][v] = t /\ [d \in {"report"} |-> old]["report"][v] = 0
  BY <1>4
<1>8. Document!Agree("report", t)
  BY <1>2, <1>3, <1>5 DEF Document!Agree
<1>9. Document!Publish("report")
  BY <1>1, <1>2, <1>3, <1>6, <1>7 DEF Document!Publish
<1>10. QED
  BY <1>8, <1>9 DEF Document!Next

LEMMA AppendedIsDocument ==
  ASSUME IInv, CreateReport \/ \E p \in People : ReviseReport(p) \/ \E refresh \in BOOLEAN : EditReport(p, refresh)
  PROVE  Document!Next
<1>1. [v \in Versions |-> Published(v)'] = [v \in Versions |-> Published(v)]
  <2>1. artifact' = artifact /\ attempt' = attempt
    BY DEF CreateReport, ReviseReport, EditReport
  <2>2. QED
    BY <2>1, StampsKept
<1>2. report'.version = report.version + 1 /\ report'.state # "approved"
  <2>1. CASE CreateReport
    <3>1. report.version = 0
      BY <2>1 DEF CreateReport, IInv, Standing, Numbered
    <3>2. QED
      BY <2>1, <3>1 DEF CreateReport
  <2>2. CASE \E p \in People : ReviseReport(p)
    BY <2>2 DEF ReviseReport, Moves, Appended
  <2>3. CASE \E p \in People, refresh \in BOOLEAN : EditReport(p, refresh)
    BY <2>3 DEF EditReport, Moves, Appended, Editable
  <2>4. QED
    BY <2>1, <2>2, <2>3
<1>3. Agreement(report') = 0
  BY <1>2 DEF Agreement
<1>4. QED
  BY <1>1, <1>2, <1>3, DocumentWritten

LEMMA ReviewIsStutter ==
  ASSUME IInv, NEW p \in People, SubmitReport(p) \/ RequestChanges(p)
  PROVE  UNCHANGED Document!vars
<1>1. [v \in Versions |-> Published(v)'] = [v \in Versions |-> Published(v)]
  <2>1. artifact' = artifact /\ attempt' = attempt
    BY DEF SubmitReport, RequestChanges
  <2>2. QED
    BY <2>1, StampsKept
<1>2. report'.version = report.version
  BY DEF SubmitReport, RequestChanges, Moves
<1>3. report.state # "approved" /\ report'.state # "approved"
  BY DEF SubmitReport, RequestChanges, Moves, Editable
<1>4. Agreement(report') = Agreement(report)
  BY <1>3 DEF Agreement
<1>5. QED
  BY <1>1, <1>2, <1>4, DocumentStands

\* What leaves the report and its files alone, an attempt prepared included.
LEMMA AsideIsStutter ==
  ASSUME IInv, report' = report, artifact' = artifact,
         \A k \in Keys : attempt[k] # None => attempt'[k] = attempt[k]
  PROVE  UNCHANGED Document!vars
<1>1. [v \in Versions |-> Published(v)'] = [v \in Versions |-> Published(v)]
  BY StampsKept
<1>2. report'.version = report.version /\ Agreement(report') = Agreement(report)
  OBVIOUS
<1>3. QED
  BY <1>1, <1>2, DocumentStands

LEMMA PrepareIsStutter ==
  ASSUME IInv, NEW c \in Calls, NEW k \in Keys, PrepareApproval(c, k)
  PROVE  UNCHANGED Document!vars
<1>1. \A o \in Keys : attempt[o] # None => attempt'[o] = attempt[o]
  <2>1. CASE attempt[k] # None
    BY <2>1 DEF PrepareApproval, Prepared
  <2>2. CASE attempt[k] = None
    BY <2>2 DEF PrepareApproval, Prepared, IInv, TypeOK
  <2>3. QED
    BY <2>1, <2>2
<1>2. report' = report /\ artifact' = artifact
  BY DEF PrepareApproval
<1>3. QED
  BY <1>1, <1>2, AsideIsStutter

LEMMA ApprovalIsDocument ==
  ASSUME IInv, NEW c \in Calls, CompleteApproval(c)
  PROVE  Document!Next
<1>1. PICK k \in Keys : k = call[c].key /\ call[c].pc = "stored" /\ call[c] # Idle
  BY DEF CompleteApproval, IInv, TypeOK, Working, Idle
<1>2. attempt[k] # None
  BY <1>1 DEF IInv, Rendered, CallsWork
<1>3. PICK v \in Versions : v = attempt[k].version
  BY <1>2, AttemptFacts
<1>4. PICK t \in 1..Cardinality(Keys) : t = attempt[k].at
  BY <1>2 DEF IInv, TypeOK, Attempt
<1>5. /\ report.version = v /\ artifact[v] = None
      /\ artifact' = [artifact EXCEPT ![v] = k] /\ attempt' = attempt
  BY <1>1, <1>3 DEF CompleteApproval, Commits
<1>6. report'.version = v /\ report'.state = "approved"
  BY <1>5 DEF CompleteApproval, Moves
<1>7. v # 0 /\ k # None
  BY DEF Versions, IInv, ReportAssumption
<1>8. \A w \in Versions : artifact'[w] = IF w = v THEN k ELSE artifact[w]
  BY <1>5 DEF IInv, TypeOK
<1>9. \A w \in Versions : Published(w)' = IF w = v THEN t ELSE Published(w)
  BY <1>4, <1>5, <1>7, <1>8 DEF Published
<1>10. [w \in Versions |-> Published(w)'] = [[w \in Versions |-> Published(w)] EXCEPT ![v] = t]
  BY <1>9
<1>11. Published(v) = 0
  BY <1>5 DEF Published
<1>12. QED
  BY <1>5, <1>6, <1>7, <1>10, <1>11, DocumentPublished

LEMMA StepIsDocument == IInv /\ [Next]_vars => [Document!Next]_(Document!vars)
<1> SUFFICES ASSUME IInv, [Next]_vars PROVE Document!Next \/ UNCHANGED Document!vars
  OBVIOUS
<1>1. CASE CreateReport \/ \E p \in People : ReviseReport(p) \/ \E refresh \in BOOLEAN : EditReport(p, refresh)
  BY <1>1, AppendedIsDocument
<1>2. CASE \E p \in People : SubmitReport(p) \/ RequestChanges(p)
  BY <1>2, ReviewIsStutter
<1>3. CASE \E c \in Calls, k \in Keys : PrepareApproval(c, k)
  BY <1>3, PrepareIsStutter
<1>4. CASE \E c \in Calls : CompleteApproval(c)
  BY <1>4, ApprovalIsDocument
<1>5. CASE \/ \E s \in Sources : ChangeSources(s)
           \/ \E p \in People : ChangeReviewer(p) \/ View(p) \/ \E k \in Keys : ComposeApproval(p, k)
           \/ \E c \in Calls : StoreArtifact(c) \/ EndCall(c)
           \/ UNCHANGED vars
  <2>1. report' = report /\ artifact' = artifact /\ attempt' = attempt
    BY <1>5 DEF ChangeSources, ChangeReviewer, View, ComposeApproval, StoreArtifact, EndCall, vars
  <2>2. QED
    BY <2>1, AsideIsStutter
<1>6. QED
  BY <1>1, <1>2, <1>3, <1>4, <1>5 DEF Next

\* The report keeps the promise of a document that customers receive: it is
\* agreed and published in one step, once per version, and what is published
\* bears the time of the attempt that was prepared for that version.
THEOREM ReportIsDocument == ReportAssumption /\ Spec => ImplementsDocument
<1>1. ReportAssumption /\ Init => Document!Init
  <2> SUFFICES ASSUME Init PROVE Document!Init
    OBVIOUS
  <2>1. \A v \in Versions : Published(v) = 0
    BY DEF Init, Published
  <2>2. [v \in Versions |-> Published(v)] = [v \in Versions |-> 0]
    BY <2>1
  <2>3. report.version = 0 /\ report.state # "approved"
    BY DEF Init
  <2>4. QED
    BY <2>2, <2>3 DEF Document!Init, Document!Blank
<1>2. IInv /\ [Next]_vars => [Document!Next]_(Document!vars)
  BY StepIsDocument
<1>3. QED
  BY <1>1, <1>2, Invariance, PTL DEF Spec, ImplementsDocument, Document!Spec
=============================================================================
