--------------------------- MODULE CommercialProofs ---------------------------
(***************************************************************************)
(* The proposals of a lead, for any number of pages, requests, renderers   *)
(* and proposals.                                                          *)
(*                                                                         *)
(* A page, a request and a renderer act on what they remember.  The        *)
(* invariant says what a memory is worth: a revision that still stands     *)
(* names the version that stands (Sights, Asks), a lookup that found       *)
(* nothing is still true while its transaction has the lock (Lookups), and *)
(* a stamp, once there, is what every PDF of its version bears (Files).    *)
(***************************************************************************)
EXTENDS Commercial, FiniteSetTheorems, TLAPS

Rows == \A p \in Proposals :
  /\ Exists(p) => proposal[p].version # 0 /\ proposal[p].revision # 0
  /\ ~Exists(p) => proposal[p] = NoProposal /\ award[p] = 0
  /\ proposal[p].approved \in {0, proposal[p].version}
  /\ proposal[p].state \in {"approved", "awarded"} =>
       /\ proposal[p].approved = proposal[p].version
       /\ stamp[p][proposal[p].version] # 0

Awards == \A p \in Proposals :
  /\ award[p] # 0 => proposal[p].state = "awarded" /\ proposal[p].version = award[p]
  /\ project[p] # 0 => project[p] = award[p]

Files == \A p \in Proposals, v \in Versions : artifact[p][v] # 0 => artifact[p][v] = stamp[p][v]

\* What was seen of a proposal is true of the revision at which it was seen.
Recalls(row, version, revision) ==
  /\ row.state # "absent"
  /\ revision <= row.revision
  /\ revision = row.revision => version = row.version

Sights == \A s \in Sessions : page[s] # Nothing =>
  Recalls(proposal[page[s].of], page[s].version, page[s].revision)

Asks == \A r \in Requests : request[r] # Nothing =>
  /\ Recalls(proposal[request[r].of], request[r].version, request[r].revision)
  /\ request[r].decided => /\ proposal[request[r].of].state = request[r].outcome
                           /\ proposal[request[r].of].version = request[r].version
                           /\ request[r].answer = "done"

\* Rows are numbered as they come.
Numbered == \E n \in 0..MaxProposals : \A p \in Proposals : Exists(p) <=> p <= n

Single == \A p, q \in Proposals :
  /\ proposal[p].plain /\ proposal[q].plain => p = q
  /\ proposal[p].legacy /\ proposal[q].legacy => p = q

Keyed == \A k \in Keys : created[k] # 0 => Exists(created[k])

\* One creation at a time, and what it found is what there is.
Lookups == \A k \in Keys : creation[k] # Nothing =>
  /\ \A other \in Keys \ {k} : creation[other] = Nothing
  /\ wish[k] \in Wishes
  /\ creation[k].found # 0 => Exists(creation[k].found)
  /\ creation[k].found = 0 /\ ~wish[k].additional => \A p \in Proposals : ~Exists(p)
  /\ creation[k].found = 0 /\ wish[k].legacy => \A p \in Proposals : ~proposal[p].legacy

Agreed == Rows /\ Awards /\ Files
Remembered == Sights /\ Asks
Made == Numbered /\ Single /\ Keyed /\ Lookups

IInv == TypeOK /\ Agreed /\ Remembered /\ Made

-----------------------------------------------------------------------------
LEMMA Zeroes == /\ 0 \in 0..MaxVersion /\ 0 \in 0..MaxRevision /\ 0 \in 0..MaxProposals
                /\ 1 \in 0..MaxVersion /\ 1 \in 0..MaxRevision
  BY CommercialAssumption

LEMMA InitIInv == Init => IInv
<1> SUFFICES ASSUME Init PROVE IInv
  OBVIOUS
<1> USE Zeroes DEF Init
<1>1. TypeOK
  BY DEF TypeOK, ProposalRecord, NoProposal, States
<1>2. \A p \in Proposals : ~Exists(p) /\ proposal[p] = NoProposal
  BY DEF Exists, NoProposal
<1>3. Agreed
  BY <1>2 DEF Agreed, Rows, Awards, Files, NoProposal
<1>4. Remembered
  BY DEF Remembered, Sights, Asks
<1>5. Numbered
  <2>1. \A p \in Proposals : ~(p <= 0)
    BY CommercialAssumption DEF Proposals
  <2>2. QED
    BY <1>2, <2>1 DEF Numbered
<1>6. Single /\ Keyed /\ Lookups
  BY <1>2 DEF Single, Keyed, Lookups, NoProposal
<1>7. QED
  BY <1>1, <1>3, <1>4, <1>5, <1>6 DEF IInv, Made

-----------------------------------------------------------------------------
(***************************************************************************)
(* Facts of type.                                                          *)
(***************************************************************************)
LEMMA RowFacts ==
  ASSUME TypeOK, NEW p \in Proposals
  PROVE  /\ proposal[p] \in ProposalRecord
         /\ proposal[p].version \in 0..MaxVersion /\ proposal[p].version \in Nat
         /\ proposal[p].revision \in 0..MaxRevision /\ proposal[p].revision \in Nat
         /\ award[p] \in 0..MaxVersion /\ project[p] \in 0..MaxVersion
<1>1. proposal[p] \in ProposalRecord
  BY DEF TypeOK
<1>2. proposal[p].version \in 0..MaxVersion /\ proposal[p].revision \in 0..MaxRevision
  BY <1>1 DEF ProposalRecord
<1>3. proposal[p].version \in Nat /\ proposal[p].revision \in Nat
  BY <1>2, CommercialAssumption
<1>4. QED
  BY <1>1, <1>2, <1>3 DEF TypeOK

LEMMA PageFacts ==
  ASSUME TypeOK, NEW s \in Sessions, page[s] # Nothing
  PROVE  page[s] \in Seen /\ page[s].of \in Proposals /\ page[s].version \in Versions
         /\ page[s].revision \in Revisions /\ page[s].revision \in Nat
  BY CommercialAssumption DEF TypeOK, Seen, Revisions

LEMMA RequestFacts ==
  ASSUME TypeOK, NEW r \in Requests, request[r] # Nothing
  PROVE  request[r] \in Asked /\ request[r].of \in Proposals
         /\ request[r].version \in Versions /\ request[r].revision \in Revisions
         /\ request[r].revision \in Nat
  BY CommercialAssumption DEF TypeOK, Asked, Revisions

-----------------------------------------------------------------------------
(***************************************************************************)
(* Creation.                                                               *)
(***************************************************************************)
LEMMA Elsewhere ==
  ASSUME IInv, UNCHANGED <<proposal, stamp, agreeing, printing, page, request>>
  PROVE  Agreed' /\ Remembered' /\ Numbered' /\ Single'
<1> USE DEF agreeing, printing
<1>1. Agreed'
  BY DEF IInv, Agreed, Rows, Awards, Files, Exists
<1>2. Remembered'
  BY DEF IInv, Remembered, Sights, Asks, Recalls, Exists
<1>3. Numbered' /\ Single'
  BY DEF IInv, Made, Numbered, Single, Exists
<1>4. QED
  BY <1>1, <1>2, <1>3

LEMMA ChangeLeadInv == ASSUME IInv, ChangeLead PROVE IInv'
<1> USE DEF ChangeLead
<1>1. TypeOK'
  BY DEF IInv, TypeOK, agreeing, printing
<1>2. Keyed' /\ Lookups'
  BY DEF IInv, Made, Keyed, Lookups, Exists
<1>3. QED
  BY <1>1, <1>2, Elsewhere DEF IInv, Made

\* The lookup finds a proposal that exists; none only if there is none to repeat.
LEMMA ExistingFacts ==
  ASSUME IInv, NEW w \in Wishes
  PROVE  /\ Existing(w) \in 0..MaxProposals
         /\ Existing(w) # 0 => Exists(Existing(w))
         /\ Existing(w) = 0 /\ ~w.additional => \A p \in Proposals : ~Exists(p)
         /\ Existing(w) = 0 /\ w.legacy => \A p \in Proposals : ~proposal[p].legacy
<1> DEFINE same == {p \in Proposals : Exists(p) /\ ((w.legacy /\ proposal[p].legacy) \/ ~w.additional)}
           first == CHOOSE p \in same : \A q \in same : p <= q
<1>1. Existing(w) = IF same = {} THEN 0 ELSE first
  BY DEF Existing
<1>2. CASE same = {}
  <2>1. Existing(w) = 0
    BY <1>1, <1>2
  <2>2. ~w.additional => \A p \in Proposals : ~Exists(p)
    BY <1>2
  <2>3. w.legacy => \A p \in Proposals : ~proposal[p].legacy
    <3> SUFFICES ASSUME w.legacy, NEW p \in Proposals, proposal[p].legacy PROVE FALSE
      OBVIOUS
    <3>1. Exists(p)
      BY DEF IInv, Agreed, Rows, NoProposal
    <3>2. QED
      BY <1>2, <3>1
  <2>4. QED
    BY <2>1, <2>2, <2>3, Zeroes
<1>3. CASE same # {}
  <2>1. \E p \in same : \A q \in same : p <= q
    <3>1. CASE ~w.additional
      <4>1. PICK n \in 0..MaxProposals : \A p \in Proposals : Exists(p) <=> p <= n
        BY DEF IInv, Made, Numbered
      <4>2. PICK p \in same : TRUE
        BY <1>3
      <4>3. Exists(1) /\ 1 \in Proposals /\ \A q \in Proposals : 1 <= q
        BY <4>1, <4>2, CommercialAssumption DEF Proposals
      <4>4. 1 \in same
        BY <3>1, <4>3
      <4>5. QED
        BY <4>3, <4>4
    <3>2. CASE w.additional
      <4>1. PICK p \in same : TRUE
        BY <1>3
      <4>2. \A q \in same : q = p
        BY <3>2, <4>1 DEF IInv, Made, Single
      <4>3. p <= p
        BY <4>1, CommercialAssumption DEF Proposals
      <4>4. QED
        BY <4>1, <4>2, <4>3
    <3>3. QED
      BY <3>1, <3>2
  <2>2. first \in same
    BY <2>1
  <2> HIDE DEF first
  <2>3. Existing(w) \in Proposals /\ Exists(Existing(w))
    BY <1>1, <1>3, <2>2
  <2>4. Existing(w) \in 0..MaxProposals /\ Existing(w) # 0
    BY <2>3, CommercialAssumption DEF Proposals
  <2>5. QED
    BY <2>3, <2>4
<1>4. QED
  BY <1>2, <1>3

LEMMA OpenCreationInv ==
  ASSUME IInv, NEW k \in Keys, NEW w \in Wishes, OpenCreation(k, w)
  PROVE  IInv'
<1>1. PICK found : found = Existing(w)
  OBVIOUS
<1>2. PICK row : row = [pc |-> "open", found |-> found]
  OBVIOUS
<1>3. /\ wish' = [wish EXCEPT ![k] = w] /\ creation' = [creation EXCEPT ![k] = row]
      /\ \A other \in Keys : creation[other] = Nothing
      /\ UNCHANGED <<lead, created, proposal, stamp, agreeing, printing, page, request>>
  BY <1>1, <1>2 DEF OpenCreation, Unlocked
<1>4. /\ found \in 0..MaxProposals
      /\ found # 0 => Exists(found)
      /\ found = 0 /\ ~w.additional => \A p \in Proposals : ~Exists(p)
      /\ found = 0 /\ w.legacy => \A p \in Proposals : ~proposal[p].legacy
  BY <1>1, ExistingFacts
<1>5. TypeOK'
  BY <1>2, <1>3, <1>4 DEF IInv, TypeOK, agreeing, printing
<1>6. /\ creation'[k] = row /\ wish'[k] = w
      /\ \A other \in Keys \ {k} : creation'[other] = Nothing
  BY <1>3 DEF IInv, TypeOK
<1>7. Lookups'
  BY <1>2, <1>3, <1>4, <1>6 DEF Lookups, Exists
<1>8. Keyed'
  BY <1>3 DEF IInv, Made, Keyed, Exists
<1>9. QED
  BY <1>3, <1>5, <1>7, <1>8, Elsewhere DEF IInv, Made

LEMMA AbortCreationInv == ASSUME IInv, NEW k \in Keys, AbortCreation(k) PROVE IInv'
<1> USE DEF AbortCreation
<1>1. TypeOK'
  BY DEF IInv, TypeOK, agreeing, printing
<1>2. Keyed'
  BY DEF IInv, Made, Keyed, Exists
<1>3. creation'[k] = Nothing /\ \A other \in Keys \ {k} : creation'[other] = creation[other]
  BY DEF IInv, TypeOK
<1>4. Lookups'
  BY <1>3 DEF IInv, Made, Lookups, Exists
<1>5. QED
  BY <1>1, <1>2, <1>4, Elsewhere DEF IInv, Made

\* The number of the next row is one that is not taken.
LEMMA FreshFacts ==
  ASSUME IInv
  PROVE  \E n \in 0..MaxProposals :
           Fresh = n + 1 /\ \A p \in Proposals : Exists(p) <=> p <= n
<1>1. PICK n \in 0..MaxProposals : \A p \in Proposals : Exists(p) <=> p <= n
  BY DEF IInv, Made, Numbered
<1>2. {p \in Proposals : Exists(p)} = 1..n
  BY <1>1, CommercialAssumption DEF Proposals
<1>3. Cardinality(1..n) = n
  <2>1. 1 \in Int /\ n \in Int /\ (IF 1 > n THEN 0 ELSE n - 1 + 1) = n
    BY CommercialAssumption
  <2>2. Cardinality(1..n) = IF 1 > n THEN 0 ELSE n - 1 + 1
    BY <2>1, FS_Interval
  <2>3. QED
    BY <2>1, <2>2
<1>4. QED
  BY <1>1, <1>2, <1>3 DEF Fresh

LEMMA CommitCreationInv == ASSUME IInv, NEW k \in Keys, CommitCreation(k) PROVE IInv'
<1>1. creation[k] # Nothing /\ creation' = [creation EXCEPT ![k] = Nothing]
  BY DEF CommitCreation
<1>2. creation'[k] = Nothing /\ \A other \in Keys \ {k} : creation'[other] = Nothing
  BY <1>1 DEF IInv, TypeOK, Made, Lookups
<1>3. Lookups'
  BY <1>2 DEF Lookups
<1>4. /\ wish[k] \in Wishes
      /\ creation[k].found \in 0..MaxProposals
      /\ creation[k].found # 0 => Exists(creation[k].found)
      /\ creation[k].found = 0 /\ ~wish[k].additional => \A p \in Proposals : ~Exists(p)
      /\ creation[k].found = 0 /\ wish[k].legacy => \A p \in Proposals : ~proposal[p].legacy
  BY <1>1 DEF IInv, TypeOK, Made, Lookups
<1>5. CASE creation[k].found # 0
  <2>1. created' = [created EXCEPT ![k] = creation[k].found]
    BY <1>5 DEF CommitCreation, KeyResource
  <2>2. UNCHANGED <<lead, wish, proposal, stamp, agreeing, printing, page, request>>
    BY <1>5 DEF CommitCreation
  <2>3. TypeOK'
    BY <1>1, <1>4, <2>1, <2>2 DEF IInv, TypeOK, agreeing, printing
  <2>4. Keyed'
    BY <1>4, <1>5, <2>1, <2>2 DEF IInv, TypeOK, Made, Keyed, Exists
  <2>5. QED
    BY <1>3, <2>2, <2>3, <2>4, Elsewhere DEF IInv, Made
<1>6. CASE creation[k].found = 0
  <2>1. PICK n \in 0..MaxProposals : Fresh = n + 1 /\ \A p \in Proposals : Exists(p) <=> p <= n
    BY FreshFacts
  <2>2. PICK p \in Proposals : p = n + 1 /\ p = Fresh
    <3>1. n + 1 <= MaxProposals
      BY <1>6, <2>1 DEF CommitCreation
    <3>2. QED
      BY <2>1, <3>1, CommercialAssumption DEF Proposals
  <2>3. PICK row : row = [state |-> "draft", version |-> 1, approved |-> 0, revision |-> 1,
                          plain |-> ~wish[k].additional, legacy |-> wish[k].legacy]
    OBVIOUS
  <2>4. /\ proposal' = [proposal EXCEPT ![p] = row]
        /\ created' = [created EXCEPT ![k] = p]
        /\ UNCHANGED <<lead, wish, stamp, agreeing, printing, page, request>>
    BY <1>6, <2>2, <2>3 DEF CommitCreation, KeyResource
  <2>5. row \in ProposalRecord
    BY <1>4, <2>3, Zeroes DEF ProposalRecord, States, Wishes
  <2>6. /\ ~Exists(p) /\ proposal[p] = NoProposal /\ award[p] = 0 /\ project[p] = 0
        /\ \A q \in Proposals \ {p} : Exists(q) => q <= n
    <3>1. ~(p <= n)
      BY <2>2, CommercialAssumption
    <3>2. QED
      BY <2>1, <3>1 DEF IInv, Agreed, Rows, Awards
  <2>7. proposal'[p] = row /\ \A q \in Proposals \ {p} : proposal'[q] = proposal[q]
    BY <2>4 DEF IInv, TypeOK
  <2>8. Exists(p)' /\ \A q \in Proposals \ {p} : Exists(q)' <=> Exists(q)
    BY <2>3, <2>7 DEF Exists
  <2>9. TypeOK'
    <3>1. proposal' \in [Proposals -> ProposalRecord]
      BY <2>4, <2>5 DEF IInv, TypeOK
    <3>2. created' \in [Keys -> 0..MaxProposals]
      BY <2>4, CommercialAssumption DEF IInv, TypeOK, Proposals
    <3>3. QED
      BY <1>1, <2>4, <3>1, <3>2 DEF IInv, TypeOK, agreeing, printing
  <2>10. Rows'
    <3> SUFFICES ASSUME NEW q \in Proposals
                 PROVE  /\ Exists(q)' => proposal'[q].version # 0 /\ proposal'[q].revision # 0
                        /\ ~Exists(q)' => proposal'[q] = NoProposal /\ award'[q] = 0
                        /\ proposal'[q].approved \in {0, proposal'[q].version}
                        /\ proposal'[q].state \in {"approved", "awarded"} =>
                             /\ proposal'[q].approved = proposal'[q].version
                             /\ stamp'[q][proposal'[q].version] # 0
      BY DEF Rows
    <3>1. CASE q = p
      BY <2>3, <2>7, <2>8, <3>1
    <3>2. CASE q # p
      BY <2>4, <2>7, <2>8, <3>2 DEF IInv, Agreed, Rows, agreeing
    <3>3. QED
      BY <3>1, <3>2
  <2>11. Awards'
    BY <2>4, <2>6, <2>7 DEF IInv, Agreed, Awards, agreeing
  <2>12. Files'
    BY <2>4 DEF IInv, Agreed, Files, printing
  <2>13. Sights'
    BY <2>4, <2>6, <2>7, <2>8, PageFacts DEF IInv, Remembered, Sights, Recalls, Exists
  <2>14. Asks'
    BY <2>4, <2>6, <2>7, <2>8, RequestFacts DEF IInv, Remembered, Asks, Recalls, Exists
  <2>15. Numbered'
    <3>1. p \in 0..MaxProposals
      BY CommercialAssumption DEF Proposals
    <3>2. \A q \in Proposals : q <= p <=> q = p \/ q <= n
      BY <2>2, CommercialAssumption DEF Proposals
    <3>3. \A q \in Proposals : Exists(q)' <=> q <= p
      BY <2>1, <2>8, <3>2
    <3>4. QED
      BY <3>1, <3>3 DEF Numbered
  <2>16. Single'
    <3>1. ASSUME row.plain PROVE \A q \in Proposals : ~proposal[q].plain
      <4>1. ~wish[k].additional
        BY <2>3, <3>1
      <4>2. \A q \in Proposals : proposal[q] = NoProposal
        BY <1>4, <1>6, <4>1 DEF IInv, Agreed, Rows
      <4>3. QED
        BY <4>2 DEF NoProposal
    <3>2. row.legacy => \A q \in Proposals : ~proposal[q].legacy
      BY <1>4, <1>6, <2>3
    <3>3. QED
      BY <2>7, <3>1, <3>2 DEF IInv, Made, Single
  <2>17. Keyed'
    <3> SUFFICES ASSUME NEW other \in Keys, created'[other] # 0
                 PROVE  proposal'[created'[other]].state # "absent"
      BY DEF Keyed, Exists
    <3>1. CASE other = k
      BY <2>3, <2>4, <2>7, <3>1 DEF IInv, TypeOK
    <3>2. CASE other # k
      <4>1. created'[other] = created[other] /\ created[other] \in Proposals
        BY <2>4, <3>2, CommercialAssumption DEF IInv, TypeOK, Proposals
      <4>2. proposal[created[other]].state # "absent"
        BY <4>1 DEF IInv, Made, Keyed, Exists
      <4>3. created[other] # p
        BY <2>6, <4>2 DEF Exists
      <4>4. QED
        BY <2>7, <4>1, <4>2, <4>3
    <3>3. QED
      BY <3>1, <3>2
  <2>18. QED
    BY <1>3, <2>9, <2>10, <2>11, <2>12, <2>13, <2>14, <2>15, <2>16, <2>17
       DEF IInv, Agreed, Remembered, Made
<1>7. QED
  BY <1>5, <1>6

-----------------------------------------------------------------------------
(***************************************************************************)
(* Changes of a proposal.                                                  *)
(***************************************************************************)
\* A proposal that is not decided moves on, under the next revision; its stamps
\* only ever appear, and an award is of the version that is awarded.
Moves(p, row) ==
  /\ Exists(p) /\ proposal[p].state \notin Final
  /\ row \in ProposalRecord /\ row.state # "absent"
  /\ row.revision = proposal[p].revision + 1
  /\ row.version # 0
  /\ row.approved \in {0, row.version}
  /\ row.plain = proposal[p].plain /\ row.legacy = proposal[p].legacy
  /\ proposal' = [proposal EXCEPT ![p] = row]
  /\ stamp' \in [Proposals -> [Versions -> 0..MaxRevision]]
  /\ \A q \in Proposals, v \in Versions : stamp[q][v] # 0 => stamp'[q][v] = stamp[q][v]
  /\ row.state \in {"approved", "awarded"} =>
       row.approved = row.version /\ stamp'[p][row.version] # 0
  /\ award' \in [Proposals -> 0..MaxVersion]
  /\ \A q \in Proposals \ {p} : award'[q] = award[q]
  /\ award'[p] # 0 => row.state = "awarded" /\ award'[p] = row.version
  /\ UNCHANGED <<creating, project, printing>>

LEMMA MoveInv ==
  ASSUME IInv, NEW p \in Proposals, NEW row, Moves(p, row)
  PROVE  /\ proposal' \in [Proposals -> ProposalRecord]
         /\ proposal'[p] = row /\ \A q \in Proposals \ {p} : proposal'[q] = proposal[q]
         /\ \A q \in Proposals : Exists(q)' <=> Exists(q)
         /\ Agreed' /\ Made'
<1>1. /\ proposal' \in [Proposals -> ProposalRecord]
      /\ proposal'[p] = row /\ \A q \in Proposals \ {p} : proposal'[q] = proposal[q]
  BY DEF Moves, IInv, TypeOK
<1>2. \A q \in Proposals : Exists(q)' <=> Exists(q)
  BY <1>1 DEF Moves, Exists
<1>3. row.revision # 0
  BY RowFacts DEF Moves, IInv
<1>4. Rows'
  <2> SUFFICES ASSUME NEW q \in Proposals
               PROVE  /\ Exists(q)' => proposal'[q].version # 0 /\ proposal'[q].revision # 0
                      /\ ~Exists(q)' => proposal'[q] = NoProposal /\ award'[q] = 0
                      /\ proposal'[q].approved \in {0, proposal'[q].version}
                      /\ proposal'[q].state \in {"approved", "awarded"} =>
                           /\ proposal'[q].approved = proposal'[q].version
                           /\ stamp'[q][proposal'[q].version] # 0
    BY DEF Rows
  <2>1. CASE q = p
    BY <1>1, <1>2, <1>3, <2>1 DEF Moves
  <2>2. CASE q # p
    <3>1. proposal'[q] = proposal[q] /\ award'[q] = award[q]
      BY <1>1, <2>2 DEF Moves
    <3>2. proposal[q].state \in {"approved", "awarded"} => stamp'[q][proposal[q].version] # 0
      <4> SUFFICES ASSUME proposal[q].state \in {"approved", "awarded"}
                   PROVE  stamp'[q][proposal[q].version] # 0
        OBVIOUS
      <4>1. Exists(q) /\ proposal[q].version # 0 /\ stamp[q][proposal[q].version] # 0
        BY DEF Exists, IInv, Agreed, Rows
      <4>2. proposal[q].version \in Versions
        BY <4>1, RowFacts, CommercialAssumption DEF IInv, Versions
      <4>3. QED
        BY <4>1, <4>2 DEF Moves
    <3>3. QED
      BY <1>2, <3>1, <3>2 DEF IInv, Agreed, Rows
  <2>3. QED
    BY <2>1, <2>2
<1>5. Awards'
  <2>1. award[p] = 0 /\ project[p] = 0
    BY DEF Moves, IInv, Agreed, Awards, Final
  <2>2. project' = project
    BY DEF Moves
  <2>3. QED
    BY <1>1, <2>1, <2>2 DEF Moves, IInv, Agreed, Awards
<1>6. Files'
  BY DEF Moves, IInv, Agreed, Files, printing
<1>7. Numbered'
  BY <1>2 DEF IInv, Made, Numbered
<1>8. \A q \in Proposals : /\ proposal'[q].plain = proposal[q].plain
                           /\ proposal'[q].legacy = proposal[q].legacy
  BY <1>1 DEF Moves
<1>9. Single'
  BY <1>8 DEF IInv, Made, Single
<1>10. UNCHANGED <<lead, wish, creation, created>>
  BY DEF Moves, creating
<1>11. Keyed'
  <2>1. \A k \in Keys : created[k] # 0 => created[k] \in Proposals
    BY CommercialAssumption DEF IInv, TypeOK, Proposals
  <2>2. QED
    BY <1>2, <1>10, <2>1 DEF IInv, Made, Keyed
<1>12. Lookups'
  <2>1. \A k \in Keys : creation[k] # Nothing /\ creation[k].found # 0 =>
          creation[k].found \in Proposals
    BY CommercialAssumption DEF IInv, TypeOK, Proposals
  <2>2. QED
    BY <1>2, <1>8, <1>10, <2>1 DEF IInv, Made, Lookups
<1>13. QED
  BY <1>1, <1>2, <1>4, <1>5, <1>6, <1>7, <1>9, <1>11, <1>12 DEF Agreed, Made

\* What was recalled of any proposal still is, and what is decided stays so.
LEMMA MoveRecall ==
  ASSUME IInv, NEW p \in Proposals, NEW row, Moves(p, row)
  PROVE  /\ \A q \in Proposals, v \in Versions, n \in Revisions :
               Recalls(proposal[q], v, n) => Recalls(proposal'[q], v, n)
         /\ Asks /\ request' = request => Asks'
<1>1. /\ proposal'[p] = row /\ \A q \in Proposals \ {p} : proposal'[q] = proposal[q]
      /\ \A q \in Proposals : Exists(q)' <=> Exists(q)
  BY MoveInv
<1>2. ASSUME NEW q \in Proposals, NEW v \in Versions, NEW n \in Revisions,
             Recalls(proposal[q], v, n)
      PROVE  Recalls(proposal'[q], v, n)
  <2>1. n \in Nat /\ proposal[q].revision \in Nat
    BY RowFacts, CommercialAssumption DEF IInv, Revisions
  <2>2. CASE q = p
    BY <1>1, <1>2, <2>1, <2>2 DEF Recalls, Moves
  <2>3. CASE q # p
    BY <1>1, <1>2, <2>3
  <2>4. QED
    BY <2>2, <2>3
<1>3. ASSUME Asks, request' = request PROVE Asks'
  <2> SUFFICES ASSUME NEW r \in Requests, request[r] # Nothing
               PROVE  /\ Recalls(proposal'[request[r].of], request[r].version, request[r].revision)
                      /\ request[r].decided =>
                           /\ proposal'[request[r].of].state = request[r].outcome
                           /\ proposal'[request[r].of].version = request[r].version
                           /\ request[r].answer = "done"
    BY <1>3 DEF Asks
  <2>1. /\ request[r].of \in Proposals /\ request[r].version \in Versions
        /\ request[r].revision \in Revisions /\ request[r].outcome \in Final
    BY RequestFacts DEF IInv, Asked
  <2>2. Recalls(proposal'[request[r].of], request[r].version, request[r].revision)
    BY <1>2, <1>3, <2>1 DEF Asks
  <2>3. request[r].decided => proposal'[request[r].of] = proposal[request[r].of]
    BY <1>1, <1>3, <2>1 DEF Asks, Moves
  <2>4. QED
    BY <1>3, <2>2, <2>3 DEF Asks
<1>4. QED
  BY <1>2, <1>3

\* Who moves a proposal from a page looks at the new revision afterwards.
LEMMA PageMove ==
  ASSUME IInv, NEW s \in Sessions, NEW p \in Proposals, NEW row, Moves(p, row),
         row.version \in Versions, row.revision \in Revisions,
         page' = [page EXCEPT ![s] = View(p, row)], request' = request
  PROVE  IInv'
<1>1. /\ proposal' \in [Proposals -> ProposalRecord]
      /\ proposal'[p] = row /\ Exists(p)'
      /\ Agreed' /\ Made'
  BY MoveInv DEF Moves
<1>2. PICK view : view = View(p, row)
  OBVIOUS
<1>3. view \in Seen /\ view # Nothing
  BY <1>2 DEF View, Seen, Nothing
<1>4. page' \in [Sessions -> {Nothing} \cup Seen] /\ page' = [page EXCEPT ![s] = view]
  BY <1>2, <1>3 DEF IInv, TypeOK
<1>5. TypeOK'
  BY <1>1, <1>4 DEF Moves, IInv, TypeOK, creating, printing
<1>6. Sights'
  <2> SUFFICES ASSUME NEW t \in Sessions, page'[t] # Nothing
               PROVE  Recalls(proposal'[page'[t].of], page'[t].version, page'[t].revision)
    BY DEF Sights
  <2>1. CASE t = s
    <3>1. page'[t] = view
      BY <1>4, <2>1 DEF IInv, TypeOK
    <3>2. row.revision <= row.revision
      BY CommercialAssumption DEF Revisions
    <3>3. Recalls(row, row.version, row.revision)
      BY <3>2 DEF Recalls, Moves
    <3>4. QED
      BY <1>1, <1>2, <3>1, <3>3 DEF View
  <2>2. CASE t # s
    <3>1. page'[t] = page[t] /\ page[t] # Nothing
      BY <1>4, <2>2 DEF IInv, TypeOK
    <3>2. /\ page[t].of \in Proposals /\ page[t].version \in Versions
          /\ page[t].revision \in Revisions
      BY <3>1, PageFacts DEF IInv
    <3>3. Recalls(proposal[page[t].of], page[t].version, page[t].revision)
      BY <3>1 DEF IInv, Remembered, Sights
    <3>4. QED
      BY <3>1, <3>2, <3>3, MoveRecall
  <2>3. QED
    BY <2>1, <2>2
<1>7. Asks'
  BY MoveRecall DEF IInv, Remembered
<1>8. QED
  BY <1>1, <1>5, <1>6, <1>7 DEF IInv, Remembered

\* What editing and review do to the row that their page shows.
LEMMA ChangesInv ==
  ASSUME IInv, NEW s \in Sessions, NEW states \in SUBSET (Revisable \cup {"draft"}),
         NEW row, Changes(s, states, row),
         row \in ProposalRecord, row.state \in Revisable \cup {"draft"},
         row.revision = Row(s).revision + 1,
         row.version \in Versions, row.approved \in {0, row.version},
         row.plain = Row(s).plain, row.legacy = Row(s).legacy,
         stamp' \in [Proposals -> [Versions -> 0..MaxRevision]],
         \A q \in Proposals, v \in Versions : stamp[q][v] # 0 => stamp'[q][v] = stamp[q][v],
         row.state = "approved" => row.approved = row.version /\ stamp'[page[s].of][row.version] # 0
  PROVE  IInv'
<1>1. PICK p \in Proposals : p = page[s].of
  BY PageFacts DEF Changes, IInv
<1>2. /\ page[s] # Nothing /\ proposal[p].state \in states
      /\ row.revision <= MaxRevision
      /\ proposal' = [proposal EXCEPT ![p] = row]
      /\ page' = [page EXCEPT ![s] = View(p, row)]
      /\ UNCHANGED <<creating, agreeing, printing, request>>
  BY <1>1 DEF Changes, Row
<1>3. Exists(p) /\ proposal[p].state \notin Final
  BY <1>1, <1>2 DEF Revisable, Exists, Final
<1>4. award[p] = 0
  BY <1>3 DEF IInv, Agreed, Awards, Final
<1>5. row.version # 0
  BY CommercialAssumption DEF Versions
<1>6. Moves(p, row)
  <2>1. row.state # "absent" /\ row.state # "awarded"
    BY DEF Revisable
  <2>2. award' = award /\ award \in [Proposals -> 0..MaxVersion]
    BY <1>2 DEF agreeing, IInv, TypeOK
  <2>3. UNCHANGED <<creating, project, printing>>
    BY <1>2 DEF agreeing
  <2>4. QED
    BY <1>1, <1>2, <1>3, <1>4, <1>5, <2>1, <2>2, <2>3 DEF Moves, Row
<1>7. row.revision \in Revisions
  <2>1. proposal[p].revision \in Nat
    BY RowFacts DEF IInv
  <2>2. QED
    BY <1>1, <1>2, <2>1, CommercialAssumption DEF Row, Revisions
<1>8. QED
  BY <1>2, <1>6, <1>7, PageMove

LEMMA LoadInv ==
  ASSUME IInv, NEW s \in Sessions, NEW p \in Proposals, Load(s, p)
  PROVE  IInv'
<1>1. PICK row \in ProposalRecord : row = proposal[p]
  BY RowFacts DEF IInv
<1>2. PICK view : view = View(p, row)
  OBVIOUS
<1>3. /\ Exists(p) /\ row.state # "absent"
      /\ page' = [page EXCEPT ![s] = view]
      /\ UNCHANGED <<creating, proposal, stamp, agreeing, printing, request>>
  BY <1>1, <1>2 DEF Load, Exists
<1>4. row.version \in Versions /\ row.revision \in Revisions /\ row.revision \in Nat
  BY <1>1, <1>3, RowFacts, CommercialAssumption DEF IInv, Agreed, Rows, Versions, Revisions
<1>5. view \in Seen
  BY <1>2, <1>4 DEF View, Seen
<1>6. TypeOK'
  BY <1>3, <1>5 DEF IInv, TypeOK, creating, agreeing, printing
<1>7. Agreed' /\ Asks' /\ Made'
  BY <1>3 DEF creating, agreeing, printing, IInv, Agreed, Rows, Awards, Files, Remembered, Asks,
              Recalls, Made, Numbered, Single, Keyed, Lookups, Exists
<1>8. Sights'
  <2> SUFFICES ASSUME NEW t \in Sessions, page'[t] # Nothing
               PROVE  Recalls(proposal'[page'[t].of], page'[t].version, page'[t].revision)
    BY DEF Sights
  <2>1. CASE t = s
    <3>1. page'[t] = view
      BY <1>3, <2>1 DEF IInv, TypeOK
    <3>2. Recalls(row, row.version, row.revision)
      BY <1>3, <1>4 DEF Recalls
    <3>3. QED
      BY <1>1, <1>2, <1>3, <3>1, <3>2 DEF View
  <2>2. CASE t # s
    BY <1>3, <2>2 DEF IInv, TypeOK, Remembered, Sights
  <2>3. QED
    BY <2>1, <2>2
<1>9. QED
  BY <1>6, <1>7, <1>8 DEF IInv, Remembered

\* A row that a page may change, and the two rows it may change it to.
LEMMA RewrittenFacts ==
  ASSUME NEW row \in ProposalRecord, row.revision + 1 <= MaxRevision
  PROVE  /\ \A state \in States, approved \in {0, row.version} :
              /\ Moved(row, state, approved) \in ProposalRecord
              /\ Moved(row, state, approved).state = state
              /\ Moved(row, state, approved).approved = approved
              /\ Moved(row, state, approved).version = row.version
              /\ Moved(row, state, approved).revision = row.revision + 1
              /\ Moved(row, state, approved).plain = row.plain
              /\ Moved(row, state, approved).legacy = row.legacy
         /\ row.version < MaxVersion =>
              /\ Saved(row) \in ProposalRecord
              /\ Saved(row).state = "draft" /\ Saved(row).approved = 0
              /\ Saved(row).version = row.version + 1 /\ Saved(row).version \in Versions
              /\ Saved(row).revision = row.revision + 1
              /\ Saved(row).plain = row.plain /\ Saved(row).legacy = row.legacy
<1>1. row.version \in Nat /\ row.revision + 1 \in 0..MaxRevision
  BY CommercialAssumption DEF ProposalRecord
<1>2. ASSUME NEW state \in States, NEW approved \in {0, row.version}
      PROVE  /\ Moved(row, state, approved) \in ProposalRecord
             /\ Moved(row, state, approved).state = state
             /\ Moved(row, state, approved).approved = approved
             /\ Moved(row, state, approved).version = row.version
             /\ Moved(row, state, approved).revision = row.revision + 1
             /\ Moved(row, state, approved).plain = row.plain
             /\ Moved(row, state, approved).legacy = row.legacy
  BY <1>1, <1>2, Zeroes DEF Moved, ProposalRecord
<1>3. ASSUME row.version < MaxVersion
      PROVE  /\ Saved(row) \in ProposalRecord
             /\ Saved(row).state = "draft" /\ Saved(row).approved = 0
             /\ Saved(row).version = row.version + 1 /\ Saved(row).version \in Versions
             /\ Saved(row).revision = row.revision + 1
             /\ Saved(row).plain = row.plain /\ Saved(row).legacy = row.legacy
  <2>1. row.version + 1 \in 0..MaxVersion /\ row.version + 1 \in Versions
    BY <1>1, <1>3, CommercialAssumption DEF Versions
  <2>2. QED
    BY <1>1, <2>1, Zeroes DEF Saved, ProposalRecord, States
<1>4. QED
  BY <1>2, <1>3

LEMMA ShownFacts ==
  ASSUME IInv, NEW s \in Sessions, page[s] # Nothing, Row(s).revision + 1 <= MaxRevision
  PROVE  Row(s) \in ProposalRecord /\ Row(s).version \in Versions
<1>1. page[s].of \in Proposals /\ Exists(page[s].of)
  BY PageFacts DEF IInv, Remembered, Sights, Recalls, Exists
<1>2. QED
  BY <1>1, RowFacts, CommercialAssumption DEF IInv, Agreed, Rows, Row, Versions

LEMMA SaveProposalInv == ASSUME IInv, NEW s \in Sessions, SaveProposal(s) PROVE IInv'
<1>1. PICK row : row = Saved(Row(s))
  OBVIOUS
<1>2. Changes(s, {"draft", "revision_requested"}, row) /\ Row(s).version < MaxVersion /\ stamp' = stamp
  BY <1>1 DEF SaveProposal
<1>3. page[s] # Nothing /\ Row(s).revision + 1 <= MaxRevision
  BY <1>1, <1>2 DEF Changes, Saved
<1>4. QED
  BY <1>1, <1>2, <1>3, ShownFacts, RewrittenFacts, ChangesInv DEF Revisable, IInv, TypeOK

\* Submission, a request for changes and a reopening.
LEMMA MovedInv ==
  ASSUME IInv, NEW s \in Sessions, NEW states \in SUBSET (Revisable \cup {"draft"}),
         NEW state \in {"draft", "review", "revision_requested"},
         Changes(s, states, Moved(Row(s), state, 0)), stamp' = stamp
  PROVE  IInv'
<1>1. PICK row : row = Moved(Row(s), state, 0)
  OBVIOUS
<1>2. Changes(s, states, row)
  BY <1>1
<1>3. page[s] # Nothing /\ Row(s).revision + 1 <= MaxRevision
  BY <1>1, <1>2 DEF Changes, Moved
<1>4. /\ row \in ProposalRecord /\ row.state = state /\ row.approved = 0
      /\ row.version = Row(s).version /\ row.version \in Versions
      /\ row.revision = Row(s).revision + 1
      /\ row.plain = Row(s).plain /\ row.legacy = Row(s).legacy
  BY <1>1, <1>3, ShownFacts, RewrittenFacts DEF States
<1>5. QED
  BY <1>2, <1>4, ChangesInv DEF Revisable, IInv, TypeOK

LEMMA EditingInv ==
  ASSUME IInv, NEW s \in Sessions, SubmitProposal(s) \/ RequestChanges(s) \/ ReviseProposal(s)
  PROVE  IInv'
<1>1. CASE SubmitProposal(s)
  BY <1>1, MovedInv DEF SubmitProposal
<1>2. CASE RequestChanges(s)
  BY <1>2, MovedInv DEF RequestChanges, Revisable
<1>3. CASE ReviseProposal(s)
  BY <1>3, MovedInv DEF ReviseProposal
<1>4. QED
  BY <1>1, <1>2, <1>3

\* Approval stamps the version that is shown, unless it has a stamp.
LEMMA ApprovalStamps ==
  ASSUME IInv, NEW s \in Sessions, ApproveProposal(s)
  PROVE  \E n \in Revisions :
           stamp' = [stamp EXCEPT ![page[s].of][Row(s).version] =
                       Stamped(stamp[page[s].of][Row(s).version], n)]
<1>1. PICK row : row = Moved(Row(s), "approved", Row(s).version)
  OBVIOUS
<1>2. Changes(s, {"review"}, row)
  BY <1>1 DEF ApproveProposal
<1>3. page[s] # Nothing /\ Row(s).revision + 1 <= MaxRevision /\ row.revision = Row(s).revision + 1
  BY <1>1, <1>2 DEF Changes, Moved
<1>4. page[s].of \in Proposals
  BY <1>3, PageFacts DEF IInv
<1>5. proposal'[page[s].of] = row
  BY <1>2, <1>4 DEF Changes, IInv, TypeOK
<1>6. row.revision \in Revisions
  <2>1. Row(s).revision \in Nat
    BY <1>4, RowFacts DEF IInv, Row
  <2>2. QED
    BY <1>3, <2>1, CommercialAssumption DEF Revisions
<1>7. QED
  BY <1>5, <1>6 DEF ApproveProposal

LEMMA ApproveProposalInv == ASSUME IInv, NEW s \in Sessions, ApproveProposal(s) PROVE IInv'
<1>1. PICK row : row = Moved(Row(s), "approved", Row(s).version)
  OBVIOUS
<1>2. Changes(s, {"review"}, row)
  BY <1>1 DEF ApproveProposal
<1>3. page[s] # Nothing /\ Row(s).revision + 1 <= MaxRevision
  BY <1>1, <1>2 DEF Changes, Moved
<1>4. /\ row \in ProposalRecord /\ row.state = "approved" /\ row.approved = row.version
      /\ row.version = Row(s).version /\ row.version \in Versions
      /\ row.revision = Row(s).revision + 1
      /\ row.plain = Row(s).plain /\ row.legacy = Row(s).legacy
  BY <1>1, <1>3, ShownFacts, RewrittenFacts DEF States
<1>5. PICK n \in Revisions :
        stamp' = [stamp EXCEPT ![page[s].of][row.version] = Stamped(stamp[page[s].of][row.version], n)]
  BY <1>4, ApprovalStamps
<1>6. page[s].of \in Proposals
  BY <1>3, PageFacts DEF IInv
<1>7. n # 0 /\ n \in 0..MaxRevision
  BY CommercialAssumption DEF Revisions
<1>8. PICK bears : bears = Stamped(stamp[page[s].of][row.version], n)
  OBVIOUS
<1>9. /\ bears \in 0..MaxRevision /\ bears # 0
      /\ stamp[page[s].of][row.version] # 0 => bears = stamp[page[s].of][row.version]
  BY <1>4, <1>6, <1>7, <1>8 DEF Stamped, IInv, TypeOK
<1>10. stamp \in [Proposals -> [Versions -> 0..MaxRevision]]
  BY DEF IInv, TypeOK
<1>11. /\ stamp' \in [Proposals -> [Versions -> 0..MaxRevision]]
       /\ \A q \in Proposals, v \in Versions : stamp[q][v] # 0 => stamp'[q][v] = stamp[q][v]
       /\ stamp'[page[s].of][row.version] # 0
  BY <1>4, <1>5, <1>6, <1>8, <1>9, <1>10
<1>12. QED
  BY <1>2, <1>4, <1>11, ChangesInv DEF Revisable

-----------------------------------------------------------------------------
(***************************************************************************)
(* Outcomes, the project and the PDF.                                      *)
(***************************************************************************)
LEMMA ComposeOutcomeInv ==
  ASSUME IInv, NEW r \in Requests, NEW s \in Sessions, NEW outcome \in Final,
         ComposeOutcome(r, s, outcome)
  PROVE  IInv'
<1>1. PICK q : q = [pc |-> "asked", of |-> page[s].of, version |-> page[s].version,
                    revision |-> page[s].revision, outcome |-> outcome, decided |-> FALSE,
                    answer |-> "none"]
  OBVIOUS
<1>2. /\ page[s] # Nothing /\ request' = [request EXCEPT ![r] = q]
      /\ UNCHANGED <<creating, proposal, stamp, agreeing, printing, page>>
  BY <1>1 DEF ComposeOutcome
<1>3. q \in Asked
  BY <1>1, <1>2, PageFacts DEF IInv, Asked
<1>4. TypeOK'
  BY <1>2, <1>3 DEF IInv, TypeOK, creating, agreeing, printing
<1>5. Agreed' /\ Sights' /\ Made'
  BY <1>2 DEF creating, agreeing, printing, IInv, Agreed, Rows, Awards, Files, Remembered, Sights,
              Recalls, Made, Numbered, Single, Keyed, Lookups, Exists
<1>6. Asks'
  <2>1. Recalls(proposal[q.of], q.version, q.revision) /\ ~q.decided
    BY <1>1, <1>2 DEF IInv, Remembered, Sights
  <2>2. \A t \in Requests : request'[t] = IF t = r THEN q ELSE request[t]
    BY <1>2 DEF IInv, TypeOK
  <2>3. QED
    BY <1>2, <2>1, <2>2 DEF IInv, Remembered, Asks
<1>7. QED
  BY <1>4, <1>5, <1>6 DEF IInv, Remembered

LEMMA AbandonOutcomeInv == ASSUME IInv, NEW r \in Requests, AbandonOutcome(r) PROVE IInv'
<1> USE DEF AbandonOutcome
<1>1. TypeOK'
  BY DEF IInv, TypeOK, creating, agreeing, printing
<1>2. Agreed' /\ Sights' /\ Made'
  BY DEF creating, agreeing, printing, IInv, Agreed, Rows, Awards, Files, Remembered, Sights,
         Recalls, Made, Numbered, Single, Keyed, Lookups, Exists
<1>3. Asks'
  BY DEF IInv, TypeOK, Remembered, Asks
<1>4. QED
  BY <1>1, <1>2, <1>3 DEF IInv, Remembered

\* An outcome that is decided is recorded under the next revision.
LEMMA DecidedMoves ==
  ASSUME IInv, NEW r \in Requests, request[r] # Nothing,
         NEW q, q = request[r], Verdict(q, proposal[q.of]) = "done", RecordOutcome(r),
         NEW row, row = Moved(proposal[q.of], q.outcome, proposal[q.of].approved)
  PROVE  /\ Moves(q.of, row) /\ ~q.decided
         /\ row.state = q.outcome /\ row.version = q.version
<1>1. q.of \in Proposals /\ q.outcome \in Final
  BY RequestFacts DEF IInv, Asked
<1>2. PICK old \in ProposalRecord : old = proposal[q.of]
  BY <1>1, RowFacts DEF IInv
<1>3. ~q.decided /\ q.revision = old.revision /\ Decidable(old, q.outcome)
  BY <1>2 DEF Verdict
<1>4. /\ old.state # "absent" /\ q.version = old.version
      /\ old.version # 0 /\ old.approved \in {0, old.version}
      /\ old.state \in {"approved", "awarded"} => stamp[q.of][old.version] # 0
      /\ award[q.of] # 0 => old.state = "awarded"
  BY <1>1, <1>2, <1>3 DEF IInv, Agreed, Rows, Awards, Remembered, Asks, Recalls, Exists
<1>5. /\ row.revision <= MaxRevision
      /\ proposal' = [proposal EXCEPT ![q.of] = row]
      /\ award' = IF q.outcome = "awarded" THEN [award EXCEPT ![q.of] = row.version] ELSE award
      /\ UNCHANGED <<creating, stamp, project, printing, page>>
  BY DEF RecordOutcome
<1>6. /\ row \in ProposalRecord /\ row.state = q.outcome /\ row.approved = old.approved
      /\ row.version = old.version /\ row.revision = old.revision + 1
      /\ row.plain = old.plain /\ row.legacy = old.legacy
  <2>1. old.revision + 1 <= MaxRevision /\ q.outcome \in States
    BY <1>1, <1>2, <1>5 DEF Moved, States
  <2>2. QED
    BY <1>2, <1>4, <2>1, RewrittenFacts
<1>7. /\ old.state \notin Final
      /\ q.outcome = "awarded" => old.state = "approved" /\ old.approved = old.version
  BY <1>3 DEF Decidable
<1>8. award[q.of] = 0
  BY <1>4, <1>7 DEF Final
<1>9. /\ award' \in [Proposals -> 0..MaxVersion]
      /\ \A p \in Proposals \ {q.of} : award'[p] = award[p]
      /\ award'[q.of] # 0 => row.state = "awarded" /\ award'[q.of] = row.version
  <2>1. award \in [Proposals -> 0..MaxVersion] /\ row.version \in 0..MaxVersion
    BY <1>6 DEF IInv, TypeOK, ProposalRecord
  <2>2. QED
    BY <1>1, <1>5, <1>6, <1>8, <2>1
<1>10. row.state \in {"approved", "awarded"} =>
         row.approved = row.version /\ stamp'[q.of][row.version] # 0
  BY <1>1, <1>4, <1>5, <1>6, <1>7 DEF Final
<1>11. stamp' \in [Proposals -> [Versions -> 0..MaxRevision]] /\ stamp' = stamp
  BY <1>5 DEF IInv, TypeOK
<1>12. row.state # "absent" /\ Exists(q.of)
  BY <1>1, <1>2, <1>4, <1>6 DEF Final, Exists
<1>13. QED
  BY <1>2, <1>3, <1>4, <1>5, <1>6, <1>7, <1>9, <1>10, <1>11, <1>12 DEF Moves

LEMMA RecordOutcomeInv == ASSUME IInv, NEW r \in Requests, RecordOutcome(r) PROVE IInv'
<1>1. PICK q \in Asked : q = request[r] /\ request[r] # Nothing
  BY RequestFacts DEF RecordOutcome, IInv
<1>2. q.of \in Proposals /\ q.version \in Versions /\ q.revision \in Revisions /\ q.outcome \in Final
  BY <1>1 DEF Asked
<1>3. PICK verdict : verdict = Verdict(q, proposal[q.of])
  OBVIOUS
<1>4. PICK next : next = [q EXCEPT !.decided = q.decided \/ verdict = "done",
                                   !.answer = IF verdict = "refused" THEN "refused" ELSE "done"]
  OBVIOUS
<1>5. request' = [request EXCEPT ![r] = next]
  BY <1>1, <1>3, <1>4 DEF RecordOutcome
<1>6. /\ next \in Asked /\ next.of = q.of /\ next.version = q.version
      /\ next.revision = q.revision /\ next.outcome = q.outcome
  BY <1>4 DEF Asked
<1>7. verdict = "done" => next.decided /\ next.answer = "done"
  BY <1>4 DEF Asked
<1>8. verdict # "done" /\ next.decided => q.decided /\ next.answer = "done"
  <2> SUFFICES ASSUME verdict # "done", next.decided PROVE q.decided /\ next.answer = "done"
    OBVIOUS
  <2>1. q.decided
    <3>1. next.decided = (q.decided \/ verdict = "done")
      BY <1>4 DEF Asked
    <3>2. QED
      BY <3>1
  <2>2. verdict = "again"
    BY <1>3, <2>1 DEF Verdict
  <2>3. QED
    BY <1>4, <2>1, <2>2 DEF Asked
<1>9. \A t \in Requests : request'[t] = IF t = r THEN next ELSE request[t]
  BY <1>5 DEF IInv, TypeOK
<1>10. request' \in [Requests -> {Nothing} \cup Asked]
  BY <1>5, <1>6 DEF IInv, TypeOK
<1>11. CASE verdict = "done"
  <2>1. PICK row : row = Moved(proposal[q.of], q.outcome, proposal[q.of].approved)
    OBVIOUS
  <2>2. Moves(q.of, row) /\ ~q.decided /\ row.state = q.outcome /\ row.version = q.version
    BY <1>1, <1>3, <1>11, <2>1, DecidedMoves
  <2>3. /\ proposal' \in [Proposals -> ProposalRecord]
        /\ proposal'[q.of] = row /\ \A p \in Proposals \ {q.of} : proposal'[p] = proposal[p]
        /\ Agreed' /\ Made'
    BY <1>2, <2>2, MoveInv
  <2>4. page' = page
    BY DEF RecordOutcome
  <2>5. TypeOK'
    BY <1>10, <2>2, <2>3, <2>4 DEF Moves, IInv, TypeOK, creating, printing
  <2>6. \A p \in Proposals, v \in Versions, n \in Revisions :
          Recalls(proposal[p], v, n) => Recalls(proposal'[p], v, n)
    BY <1>2, <2>2, MoveRecall
  <2>7. Sights'
    BY <2>4, <2>6, PageFacts DEF IInv, Remembered, Sights
  <2>8. Asks'
    <3> SUFFICES ASSUME NEW t \in Requests, request'[t] # Nothing
                 PROVE  /\ Recalls(proposal'[request'[t].of], request'[t].version, request'[t].revision)
                        /\ request'[t].decided =>
                             /\ proposal'[request'[t].of].state = request'[t].outcome
                             /\ proposal'[request'[t].of].version = request'[t].version
                             /\ request'[t].answer = "done"
      BY DEF Asks
    <3>1. CASE t = r
      <4>1. Recalls(proposal[q.of], q.version, q.revision)
        BY <1>1 DEF IInv, Remembered, Asks
      <4>2. Recalls(proposal'[q.of], q.version, q.revision)
        BY <1>2, <2>6, <4>1
      <4>3. request'[t] = next
        BY <1>9, <3>1
      <4>4. QED
        BY <1>6, <1>7, <1>11, <2>2, <2>3, <4>2, <4>3
    <3>2. CASE t # r
      <4>1. request'[t] = request[t] /\ request[t] # Nothing
        BY <1>9, <3>2
      <4>2. /\ request[t].of \in Proposals /\ request[t].version \in Versions
            /\ request[t].revision \in Revisions /\ request[t].outcome \in Final
        BY <4>1, RequestFacts DEF IInv, Asked
      <4>3. /\ Recalls(proposal[request[t].of], request[t].version, request[t].revision)
            /\ request[t].decided => /\ proposal[request[t].of].state = request[t].outcome
                                     /\ proposal[request[t].of].version = request[t].version
                                     /\ request[t].answer = "done"
        BY <4>1 DEF IInv, Remembered, Asks
      <4>4. request[t].decided => request[t].of # q.of
        BY <2>2, <4>2, <4>3 DEF Moves
      <4>5. QED
        BY <2>3, <2>6, <4>1, <4>2, <4>3, <4>4
    <3>3. QED
      BY <3>1, <3>2
  <2>9. QED
    BY <2>3, <2>5, <2>7, <2>8 DEF IInv, Remembered
<1>12. CASE verdict # "done"
  <2>1. UNCHANGED <<creating, proposal, stamp, agreeing, printing, page>>
    BY <1>1, <1>3, <1>12 DEF RecordOutcome, agreeing
  <2>2. TypeOK'
    BY <1>10, <2>1 DEF IInv, TypeOK, creating, agreeing, printing
  <2>3. Agreed' /\ Sights' /\ Made'
    BY <2>1 DEF creating, agreeing, printing, IInv, Agreed, Rows, Awards, Files, Remembered, Sights,
                Recalls, Made, Numbered, Single, Keyed, Lookups, Exists
  <2>4. Asks'
    <3> SUFFICES ASSUME NEW t \in Requests, request'[t] # Nothing
                 PROVE  /\ Recalls(proposal[request'[t].of], request'[t].version, request'[t].revision)
                        /\ request'[t].decided =>
                             /\ proposal[request'[t].of].state = request'[t].outcome
                             /\ proposal[request'[t].of].version = request'[t].version
                             /\ request'[t].answer = "done"
      BY <2>1 DEF Asks
    <3>1. CASE t = r
      <4>1. /\ Recalls(proposal[q.of], q.version, q.revision)
            /\ q.decided => /\ proposal[q.of].state = q.outcome
                            /\ proposal[q.of].version = q.version
        BY <1>1 DEF IInv, Remembered, Asks
      <4>2. request'[t] = next
        BY <1>9, <3>1
      <4>3. QED
        BY <1>6, <1>8, <1>12, <4>1, <4>2
    <3>2. CASE t # r
      BY <1>9, <3>2 DEF IInv, Remembered, Asks
    <3>3. QED
      BY <3>1, <3>2
  <2>5. QED
    BY <2>2, <2>3, <2>4 DEF IInv, Remembered
<1>13. QED
  BY <1>11, <1>12

LEMMA CreateProjectInv == ASSUME IInv, NEW p \in Proposals, CreateProject(p) PROVE IInv'
<1> USE DEF CreateProject
<1>1. TypeOK'
  BY DEF IInv, TypeOK, creating, printing
<1>2. Rows' /\ Files' /\ Remembered' /\ Made'
  BY DEF creating, printing, IInv, Agreed, Rows, Files, Remembered, Sights, Asks,
         Recalls, Made, Numbered, Single, Keyed, Lookups, Exists
<1>3. Awards'
  BY DEF IInv, TypeOK, Agreed, Awards
<1>4. QED
  BY <1>1, <1>2, <1>3 DEF IInv, Agreed

LEMMA GetApprovedPdfInv ==
  ASSUME IInv, NEW d \in Renderers, NEW p \in Proposals, GetApprovedPdf(d, p)
  PROVE  IInv'
<1> USE DEF GetApprovedPdf
<1>1. PICK v : v = proposal[p].version /\ v # 0 /\ stamp[p][v] # 0
  BY DEF Available
<1>2. v \in Versions
  BY <1>1, RowFacts, CommercialAssumption DEF IInv, Versions
<1>3. stamp[p][v] \in Revisions
  BY <1>1, <1>2, CommercialAssumption DEF IInv, TypeOK, Revisions
<1>4. PICK row \in Rendering : row = [pc |-> "rendering", of |-> p, version |-> v, stamp |-> stamp[p][v]]
  BY <1>2, <1>3 DEF Rendering
<1>5. render' = [render EXCEPT ![d] = row]
  BY <1>1, <1>4
<1>6. TypeOK'
  BY <1>5 DEF IInv, TypeOK, creating, agreeing
<1>7. Agreed' /\ Remembered' /\ Made'
  BY DEF creating, agreeing, IInv, Agreed, Rows, Awards, Files, Remembered, Sights, Asks,
         Recalls, Made, Numbered, Single, Keyed, Lookups, Exists
<1>8. QED
  BY <1>6, <1>7 DEF IInv

LEMMA RecordArtifactInv == ASSUME IInv, NEW d \in Renderers, RecordArtifact(d) PROVE IInv'
<1>1. PICK row \in Rendering : row = render[d]
  BY DEF RecordArtifact, IInv, TypeOK
<1>2. row.of \in Proposals /\ row.version \in Versions /\ row.stamp \in 0..MaxRevision
  BY <1>1, CommercialAssumption DEF Rendering, Revisions
<1>3. /\ render' = [render EXCEPT ![d] = Nothing]
      /\ UNCHANGED <<creating, proposal, stamp, agreeing, page, request>>
  BY DEF RecordArtifact
<1>4. \/ artifact' = artifact
      \/ /\ stamp[row.of][row.version] = row.stamp
         /\ artifact' = [artifact EXCEPT ![row.of][row.version] = row.stamp]
  BY <1>1 DEF RecordArtifact
<1>5. artifact \in [Proposals -> [Versions -> 0..MaxRevision]]
  BY DEF IInv, TypeOK
<1>6. artifact' \in [Proposals -> [Versions -> 0..MaxRevision]]
  <2>1. CASE artifact' = artifact
    BY <2>1, <1>5
  <2>2. CASE artifact' = [artifact EXCEPT ![row.of][row.version] = row.stamp]
    <3>1. artifact[row.of] \in [Versions -> 0..MaxRevision]
      BY <1>2, <1>5
    <3>2. [artifact[row.of] EXCEPT ![row.version] = row.stamp] \in [Versions -> 0..MaxRevision]
      BY <3>1, <1>2
    <3>3. artifact' = [artifact EXCEPT ![row.of] = [artifact[row.of] EXCEPT ![row.version] = row.stamp]]
      BY <2>2, <1>2, <1>5
    <3>4. QED
      BY <3>2, <3>3, <1>2, <1>5
  <2>3. QED
    BY <2>1, <2>2, <1>4
<1>7. TypeOK'
  BY <1>3, <1>6 DEF IInv, TypeOK, creating, agreeing
<1>8. Files'
  BY <1>2, <1>3, <1>4, <1>5 DEF IInv, Agreed, Files
<1>9. Rows' /\ Awards' /\ Remembered' /\ Made'
  BY <1>3 DEF creating, agreeing, IInv, Agreed, Rows, Awards, Remembered, Sights, Asks,
              Recalls, Made, Numbered, Single, Keyed, Lookups, Exists
<1>10. QED
  BY <1>7, <1>8, <1>9 DEF IInv, Agreed

-----------------------------------------------------------------------------
LEMMA NextIInv == IInv /\ [Next]_vars => IInv'
<1> SUFFICES ASSUME IInv, [Next]_vars PROVE IInv'
  OBVIOUS
<1>1. CASE Creating
  <2>1. CASE ChangeLead
    BY <2>1, ChangeLeadInv
  <2>2. CASE \E k \in Keys, w \in Wishes : OpenCreation(k, w)
    BY <2>2, OpenCreationInv
  <2>3. CASE \E k \in Keys : CommitCreation(k) \/ AbortCreation(k)
    BY <2>3, CommitCreationInv, AbortCreationInv
  <2>4. QED
    BY <1>1, <2>1, <2>2, <2>3 DEF Creating
<1>2. CASE Deciding
  <2>1. CASE \E s \in Sessions, p \in Proposals : Load(s, p)
    BY <2>1, LoadInv
  <2>2. CASE \E s \in Sessions : SaveProposal(s) \/ ApproveProposal(s)
    BY <2>2, SaveProposalInv, ApproveProposalInv
  <2>3. CASE \E s \in Sessions : SubmitProposal(s) \/ RequestChanges(s) \/ ReviseProposal(s)
    BY <2>3, EditingInv
  <2>4. CASE \E r \in Requests, s \in Sessions, outcome \in Final : ComposeOutcome(r, s, outcome)
    BY <2>4, ComposeOutcomeInv
  <2>5. CASE \E r \in Requests : RecordOutcome(r) \/ AbandonOutcome(r)
    BY <2>5, RecordOutcomeInv, AbandonOutcomeInv
  <2>6. CASE \E p \in Proposals : CreateProject(p)
    BY <2>6, CreateProjectInv
  <2>7. CASE \E d \in Renderers, p \in Proposals : GetApprovedPdf(d, p)
    BY <2>7, GetApprovedPdfInv
  <2>8. CASE \E d \in Renderers : RecordArtifact(d)
    BY <2>8, RecordArtifactInv
  <2>9. QED
    BY <1>2, <2>1, <2>2, <2>3, <2>4, <2>5, <2>6, <2>7, <2>8 DEF Deciding
<1>3. CASE UNCHANGED vars
  BY <1>3 DEF vars, creating, agreeing, printing, IInv, TypeOK, Agreed, Rows, Awards, Files,
              Remembered, Sights, Asks, Recalls, Made, Numbered, Single, Keyed, Lookups, Exists
<1>4. QED
  BY <1>1, <1>2, <1>3 DEF Next

\* Pages, requests, renderers and creations never remember what could not have been.
THEOREM Invariance == Spec => []IInv
<1>1. Init => IInv
  BY InitIInv
<1>2. IInv /\ [Next]_vars => IInv'
  BY NextIInv
<1>3. QED
  BY <1>1, <1>2, PTL DEF Spec

-----------------------------------------------------------------------------
\* Every variable keeps its type.
THEOREM CommercialTypes == Spec => []TypeOK
<1>1. IInv => TypeOK
  BY DEF IInv
<1>2. QED
  BY <1>1, Invariance, PTL

LEMMA AtMostOne ==
  ASSUME NEW S, \A p, q \in S : p = q
  PROVE  Cardinality(S) <= 1
<1>1. CASE S = {}
  BY <1>1, FS_EmptySet
<1>2. CASE S # {}
  <2>1. PICK p \in S : S = {p}
    BY <1>2
  <2>2. Cardinality(S) = 1
    BY <2>1, FS_Singleton
  <2>3. QED
    BY <2>2
<1>3. QED
  BY <1>1, <1>2

\* However many people and recipes turn the lead into a proposal at once, the
\* lead has one, and one more only for who asks for it.
THEOREM OneProposalOnly == Spec => []OneProposal
<1>1. IInv => OneProposal
  <2> SUFFICES ASSUME IInv PROVE OneProposal
    OBVIOUS
  <2>1. Cardinality({p \in Proposals : proposal[p].plain}) <= 1
    <3>1. \A p, q \in {x \in Proposals : proposal[x].plain} : p = q
      BY DEF IInv, Made, Single
    <3>2. QED
      BY <3>1, AtMostOne
  <2>2. Cardinality({p \in Proposals : proposal[p].legacy}) <= 1
    <3>1. \A p, q \in {x \in Proposals : proposal[x].legacy} : p = q
      BY DEF IInv, Made, Single
    <3>2. QED
      BY <3>1, AtMostOne
  <2>3. QED
    BY <2>1, <2>2 DEF IInv, Made, Keyed, OneProposal
<1>2. QED
  BY <1>1, Invariance, PTL

\* Award, project and proposal agree on an approved version for good.
THEOREM Agreement == Spec => []AgreementStands
<1>1. IInv => AgreementStands
  BY DEF IInv, Agreed, Rows, Awards, AgreementStands
<1>2. QED
  BY <1>1, Invariance, PTL

\* An outcome that took effect is the one that was asked for, of the version
\* that its sender had on the screen.
THEOREM Asking == Spec => []OutcomeAsAsked
<1>1. IInv => OutcomeAsAsked
  BY DEF IInv, Remembered, Asks, OutcomeAsAsked
<1>2. QED
  BY <1>1, Invariance, PTL

\* Who recorded an outcome is never told that it was refused.
THEOREM Answering == Spec => []RecordedIsAnswered
<1>1. IInv => RecordedIsAnswered
  BY DEF IInv, Remembered, Asks, RecordedIsAnswered
<1>2. QED
  BY <1>1, Invariance, PTL

\* A version's PDF is the one that the document on offer renders to.
THEOREM Printing == Spec => []ArtifactIsDocument
<1>1. IInv => ArtifactIsDocument
  BY DEF IInv, Agreed, Files, ArtifactIsDocument
<1>2. QED
  BY <1>1, Invariance, PTL

\* Nothing changes a proposal that was decided.
THEOREM OutcomesStand == Spec => OutcomeStays
<1> DEFINE Settled == \A p \in Proposals : proposal[p].state \in Final => proposal'[p] = proposal[p]
<1>1. IInv /\ [Next]_vars => [Settled]_vars
  <2> SUFFICES ASSUME IInv, Next, NEW p \in Proposals, proposal[p].state \in Final
               PROVE  proposal'[p] = proposal[p]
    BY DEF vars
  <2>1. CASE Creating
    <3>1. CASE \E k \in Keys : CommitCreation(k)
      <4>1. PICK k \in Keys : CommitCreation(k)
        BY <3>1
      <4>2. PICK n \in 0..MaxProposals : Fresh = n + 1 /\ \A q \in Proposals : Exists(q) <=> q <= n
        BY FreshFacts
      <4>3. p <= n
        BY <4>2 DEF Exists, Final
      <4>4. p # Fresh
        BY <4>2, <4>3, CommercialAssumption DEF Proposals
      <4>5. QED
        BY <4>1, <4>4 DEF CommitCreation, IInv, TypeOK
    <3>2. QED
      BY <2>1, <3>1 DEF Creating, ChangeLead, OpenCreation, AbortCreation
  <2>2. CASE Deciding
    <3>1. ASSUME NEW s \in Sessions, NEW states, NEW row, Changes(s, states, row),
                 states \cap Final = {}
          PROVE  proposal'[p] = proposal[p]
      BY <3>1 DEF Changes, Row, IInv, TypeOK
    <3>2. CASE \E s \in Sessions : SaveProposal(s) \/ ApproveProposal(s)
      BY <3>1, <3>2 DEF SaveProposal, ApproveProposal, Final
    <3>3. CASE \E s \in Sessions : SubmitProposal(s) \/ RequestChanges(s) \/ ReviseProposal(s)
      BY <3>1, <3>3 DEF SubmitProposal, RequestChanges, ReviseProposal, Revisable, Final
    <3>4. CASE \E r \in Requests : RecordOutcome(r)
      <4>1. PICK r \in Requests : RecordOutcome(r)
        BY <3>4
      <4>2. request[r].of = p => Verdict(request[r], proposal[p]) # "done"
        BY DEF Verdict, Decidable
      <4>3. QED
        BY <4>1, <4>2 DEF RecordOutcome, IInv, TypeOK
    <3>5. QED
      BY <2>2, <3>2, <3>3, <3>4
         DEF Deciding, Load, ComposeOutcome, AbandonOutcome, CreateProject, GetApprovedPdf, RecordArtifact
  <2>3. QED
    BY <2>1, <2>2 DEF Next
<1>2. QED
  BY <1>1, Invariance, PTL DEF Spec, OutcomeStays

\* Who approves a version had that version on the screen.
THEOREM Approving == Spec => ApprovedAsSeen
<1> DEFINE Shown == \A s \in Sessions, p \in Proposals :
                      (page'[s] # page[s] /\ stamp'[p] # stamp[p]) =>
                         page[s].of = p /\ page[s].version = proposal[p].version
<1>1. IInv /\ [Next]_vars => [Shown]_vars
  <2> SUFFICES ASSUME IInv, Next, NEW s \in Sessions, NEW p \in Proposals,
                      page'[s] # page[s], stamp'[p] # stamp[p]
               PROVE  page[s].of = p /\ page[s].version = proposal[p].version
    BY DEF vars
  <2>1. PICK t \in Sessions : ApproveProposal(t)
    <3>1. ~Creating
      BY DEF Creating, ChangeLead, OpenCreation, CommitCreation, AbortCreation
    <3>2. QED
      BY <3>1 DEF Next, Deciding, Load, SaveProposal, SubmitProposal, RequestChanges, ReviseProposal,
                  ComposeOutcome, RecordOutcome, AbandonOutcome, CreateProject, GetApprovedPdf,
                  RecordArtifact
  <2>2. t = s
    BY <2>1 DEF ApproveProposal, Changes, IInv, TypeOK
  <2>3. page[s].of = p
    <3>1. PICK n \in Revisions :
            stamp' = [stamp EXCEPT ![page[t].of][Row(t).version] =
                        Stamped(stamp[page[t].of][Row(t).version], n)]
      BY <2>1, ApprovalStamps
    <3>2. QED
      BY <2>2, <3>1 DEF IInv, TypeOK
  <2>4. page[s] # Nothing /\ page[s].revision = proposal[p].revision
    BY <2>1, <2>2, <2>3 DEF ApproveProposal, Changes, Expected
  <2>5. QED
    BY <2>3, <2>4 DEF IInv, Remembered, Sights, Recalls
<1>2. QED
  BY <1>1, Invariance, PTL DEF Spec, ApprovedAsSeen

-----------------------------------------------------------------------------
(***************************************************************************)
(* Proposals as documents: what a step does to a proposal's version, its   *)
(* approval, its stamps and its PDFs is a step of ApprovedArtifact.        *)
(***************************************************************************)
Same(p) == proposal'[p].version = proposal[p].version /\ proposal'[p].approved = proposal[p].approved

LEMMA DocumentWritten ==
  ASSUME NEW p \in Proposals, stamp' = stamp, artifact' = artifact,
         proposal'[p].version = proposal[p].version + 1, proposal'[p].approved = 0,
         \A q \in Proposals \ {p} : Same(q)
  PROVE  Document!Next
<1>1. [q \in Proposals |-> proposal'[q].version]
        = [[q \in Proposals |-> proposal[q].version] EXCEPT ![p] = @ + 1]
  BY DEF Same
<1>2. [q \in Proposals |-> proposal'[q].approved]
        = [[q \in Proposals |-> proposal[q].approved] EXCEPT ![p] = 0]
  BY DEF Same
<1>3. Document!Write(p)
  BY <1>1, <1>2 DEF Document!Write
<1>4. QED
  BY <1>3 DEF Document!Next

LEMMA DocumentOpened ==
  ASSUME NEW p \in Proposals, stamp' = stamp, artifact' = artifact,
         proposal'[p].version = proposal[p].version, proposal'[p].approved = 0,
         \A q \in Proposals \ {p} : Same(q)
  PROVE  Document!Next
<1>1. [q \in Proposals |-> proposal'[q].version] = [q \in Proposals |-> proposal[q].version]
  BY DEF Same
<1>2. [q \in Proposals |-> proposal'[q].approved]
        = [[q \in Proposals |-> proposal[q].approved] EXCEPT ![p] = 0]
  BY DEF Same
<1>3. Document!Open(p)
  BY <1>1, <1>2 DEF Document!Open
<1>4. QED
  BY <1>3 DEF Document!Next

LEMMA DocumentAgreed ==
  ASSUME NEW p \in Proposals, NEW v, v = proposal[p].version, v # 0, NEW n \in Revisions,
         artifact' = artifact, stamp' = [stamp EXCEPT ![p][v] = Stamped(stamp[p][v], n)],
         proposal'[p].version = v, proposal'[p].approved = v,
         \A q \in Proposals \ {p} : Same(q)
  PROVE  Document!Next
<1>1. [q \in Proposals |-> proposal'[q].version] = [q \in Proposals |-> proposal[q].version]
  BY DEF Same
<1>2. [q \in Proposals |-> proposal'[q].approved]
        = [[q \in Proposals |-> proposal[q].approved]
             EXCEPT ![p] = [q \in Proposals |-> proposal[q].version][p]]
  BY DEF Same
<1>3. stamp' = [stamp EXCEPT ![p][v] = IF @ = 0 THEN n ELSE @]
  BY DEF Stamped
<1>4. [q \in Proposals |-> proposal[q].version][p] = v
  OBVIOUS
<1>5. Document!Agree(p, n)
  BY <1>2, <1>3, <1>4 DEF Document!Agree
<1>6. QED
  BY <1>1, <1>5 DEF Document!Next

LEMMA DocumentPublished ==
  ASSUME NEW p \in Proposals, NEW v, v = proposal[p].version, v # 0, proposal[p].approved = v,
         artifact[p][v] = 0, artifact' = [artifact EXCEPT ![p][v] = stamp[p][v]],
         proposal' = proposal, stamp' = stamp
  PROVE  Document!Next
<1>1. [q \in Proposals |-> proposal[q].version][p] = v
      /\ [q \in Proposals |-> proposal[q].approved]'[p] = v
  OBVIOUS
<1>2. Document!Publish(p)
  BY <1>1 DEF Document!Publish
<1>3. QED
  BY <1>1, <1>2 DEF Document!Next

LEMMA DocumentStands ==
  ASSUME stamp' = stamp, artifact' = artifact, \A q \in Proposals : Same(q)
  PROVE  UNCHANGED Document!vars
<1>1. [q \in Proposals |-> proposal'[q].version] = [q \in Proposals |-> proposal[q].version]
      /\ [q \in Proposals |-> proposal'[q].approved] = [q \in Proposals |-> proposal[q].approved]
  BY DEF Same
<1>2. QED
  BY <1>1 DEF Document!vars

LEMMA CreationIsDocument ==
  ASSUME IInv, NEW k \in Keys, CommitCreation(k)
  PROVE  Document!Next \/ UNCHANGED Document!vars
<1>1. CASE creation[k].found # 0
  BY <1>1, DocumentStands DEF CommitCreation, printing, Same
<1>2. CASE creation[k].found = 0
  <2>1. PICK n \in 0..MaxProposals : Fresh = n + 1 /\ \A p \in Proposals : Exists(p) <=> p <= n
    BY FreshFacts
  <2>2. PICK p \in Proposals : p = n + 1 /\ p = Fresh
    BY <1>2, <2>1, CommercialAssumption DEF CommitCreation, Proposals
  <2>3. proposal[p] = NoProposal
    <3>1. ~(p <= n)
      BY <2>2, CommercialAssumption
    <3>2. QED
      BY <2>1, <3>1 DEF IInv, Agreed, Rows
  <2>4. PICK row : row = [state |-> "draft", version |-> 1, approved |-> 0, revision |-> 1,
                          plain |-> ~wish[k].additional, legacy |-> wish[k].legacy]
    OBVIOUS
  <2>5. proposal' = [proposal EXCEPT ![p] = row] /\ stamp' = stamp /\ artifact' = artifact
    BY <1>2, <2>2, <2>4 DEF CommitCreation, printing
  <2>6. proposal'[p] = row /\ \A q \in Proposals \ {p} : proposal'[q] = proposal[q]
    BY <2>5 DEF IInv, TypeOK
  <2>7. proposal'[p].version = proposal[p].version + 1 /\ proposal'[p].approved = 0
    BY <2>3, <2>4, <2>6 DEF NoProposal
  <2>8. \A q \in Proposals \ {p} : Same(q)
    BY <2>6 DEF Same
  <2>9. QED
    BY <2>5, <2>7, <2>8, DocumentWritten
<1>3. QED
  BY <1>1, <1>2

\* What a session does from its page is of the proposal that the page shows.
LEMMA ChangedRow ==
  ASSUME IInv, NEW s \in Sessions, NEW states, NEW row, Changes(s, states, row)
  PROVE  /\ page[s].of \in Proposals /\ proposal'[page[s].of] = row /\ artifact' = artifact
         /\ \A q \in Proposals \ {page[s].of} : Same(q)
<1>1. page[s].of \in Proposals
  BY PageFacts DEF Changes, IInv
<1>2. proposal'[page[s].of] = row /\ \A q \in Proposals \ {page[s].of} : proposal'[q] = proposal[q]
  BY <1>1 DEF Changes, IInv, TypeOK
<1>3. QED
  BY <1>1, <1>2 DEF Changes, printing, Same

LEMMA PageIsDocument ==
  ASSUME IInv, NEW s \in Sessions,
         \/ SaveProposal(s) \/ SubmitProposal(s) \/ ApproveProposal(s)
         \/ RequestChanges(s) \/ ReviseProposal(s)
  PROVE  Document!Next
<1>1. PICK p : p = page[s].of
  OBVIOUS
<1>2. Row(s) = proposal[p]
  BY <1>1 DEF Row
<1>3. CASE SaveProposal(s)
  <2>1. Changes(s, {"draft", "revision_requested"}, Saved(Row(s))) /\ stamp' = stamp
    BY <1>3 DEF SaveProposal
  <2>2. Saved(Row(s)).version = proposal[p].version + 1 /\ Saved(Row(s)).approved = 0
    <3>1. page[s] # Nothing /\ Row(s).revision + 1 <= MaxRevision
      BY <2>1 DEF Changes, Saved
    <3>2. Row(s) \in ProposalRecord
      BY <3>1, ShownFacts
    <3>3. QED
      BY <1>2, <3>2 DEF Saved, ProposalRecord
  <2>3. p \in Proposals /\ artifact' = artifact /\ \A q \in Proposals \ {p} : Same(q)
    BY <1>1, <2>1, ChangedRow
  <2>4. proposal'[p] = Saved(Row(s))
    BY <1>1, <2>1, ChangedRow
  <2>5. proposal'[p].version = proposal[p].version + 1 /\ proposal'[p].approved = 0
    BY <2>2, <2>4
  <2>6. QED
    BY <2>1, <2>3, <2>5, DocumentWritten
<1>4. ASSUME NEW states, NEW state \in States, Changes(s, states, Moved(Row(s), state, 0)), stamp' = stamp
      PROVE  Document!Next
  <2>1. Moved(Row(s), state, 0).version = proposal[p].version /\ Moved(Row(s), state, 0).approved = 0
    <3>1. page[s] # Nothing /\ Row(s).revision + 1 <= MaxRevision
      BY <1>4 DEF Changes, Moved
    <3>2. Row(s) \in ProposalRecord
      BY <3>1, ShownFacts
    <3>3. QED
      BY <1>2, <3>2 DEF Moved, ProposalRecord
  <2>2. p \in Proposals /\ artifact' = artifact /\ \A q \in Proposals \ {p} : Same(q)
    BY <1>1, <1>4, ChangedRow
  <2>3. proposal'[p] = Moved(Row(s), state, 0)
    BY <1>1, <1>4, ChangedRow
  <2>4. proposal'[p].version = proposal[p].version /\ proposal'[p].approved = 0
    BY <2>1, <2>3
  <2>5. QED
    BY <1>4, <2>2, <2>4, DocumentOpened
<1>5. CASE SubmitProposal(s) \/ RequestChanges(s) \/ ReviseProposal(s)
  <2>1. "review" \in States /\ "revision_requested" \in States /\ "draft" \in States
    BY DEF States
  <2>2. QED
    BY <1>4, <1>5, <2>1 DEF SubmitProposal, RequestChanges, ReviseProposal
<1>6. CASE ApproveProposal(s)
  <2>1. Changes(s, {"review"}, Moved(Row(s), "approved", Row(s).version))
    BY <1>6 DEF ApproveProposal
  <2>2. PICK v : v = proposal[p].version
    OBVIOUS
  <2>3. page[s] # Nothing /\ Row(s).revision + 1 <= MaxRevision
    BY <2>1 DEF Changes, Moved
  <2>4. Row(s) \in ProposalRecord /\ Row(s).version \in Versions
    BY <2>3, ShownFacts
  <2>5. v # 0
    BY <1>2, <2>2, <2>4, CommercialAssumption DEF Versions
  <2>6. PICK n \in Revisions :
          stamp' = [stamp EXCEPT ![p][v] = Stamped(stamp[p][v], n)]
    BY <1>1, <1>2, <1>6, <2>2, ApprovalStamps
  <2>7. p \in Proposals /\ artifact' = artifact /\ \A q \in Proposals \ {p} : Same(q)
    BY <1>1, <2>1, ChangedRow
  <2>8. proposal'[p] = Moved(Row(s), "approved", Row(s).version)
    BY <1>1, <2>1, ChangedRow
  <2>9. proposal'[p].version = v /\ proposal'[p].approved = v
    BY <1>2, <2>2, <2>4, <2>8 DEF Moved, ProposalRecord
  <2>10. QED
    BY <2>2, <2>5, <2>6, <2>7, <2>9, DocumentAgreed
<1>7. QED
  BY <1>3, <1>5, <1>6

LEMMA OutcomeIsStutter ==
  ASSUME IInv, NEW r \in Requests, RecordOutcome(r)
  PROVE  UNCHANGED Document!vars
<1>1. PICK q \in Asked : q = request[r] /\ request[r] # Nothing
  BY RequestFacts DEF RecordOutcome, IInv
<1>2. q.of \in Proposals /\ stamp' = stamp /\ artifact' = artifact
  BY <1>1 DEF Asked, RecordOutcome, printing
<1>3. PICK row : row = Moved(proposal[q.of], q.outcome, proposal[q.of].approved)
  OBVIOUS
<1>4. row.version = proposal[q.of].version /\ row.approved = proposal[q.of].approved
  <2>1. proposal[q.of] \in ProposalRecord
    BY <1>2, RowFacts DEF IInv
  <2>2. QED
    BY <1>3, <2>1 DEF Moved, ProposalRecord
<1>5. proposal' = proposal \/ proposal' = [proposal EXCEPT ![q.of] = row]
  BY <1>1, <1>3 DEF RecordOutcome
<1>6. \A p \in Proposals : Same(p)
  BY <1>2, <1>4, <1>5 DEF Same, IInv, TypeOK
<1>7. QED
  BY <1>2, <1>6, DocumentStands

LEMMA PdfIsDocument ==
  ASSUME IInv, NEW d \in Renderers, RecordArtifact(d)
  PROVE  Document!Next \/ UNCHANGED Document!vars
<1>1. PICK row \in Rendering : row = render[d]
  BY DEF RecordArtifact, IInv, TypeOK
<1>2. PICK p \in Proposals : p = row.of
  BY DEF Rendering
<1>3. PICK v \in Versions : v = row.version
  BY DEF Rendering
<1>4. proposal' = proposal /\ stamp' = stamp
  BY DEF RecordArtifact
<1>5. CASE artifact' = artifact
  BY <1>4, <1>5, DocumentStands DEF Same
<1>6. CASE artifact' # artifact
  <2>1. Available(p, v) /\ stamp[p][v] = row.stamp /\ artifact[p][v] = 0
        /\ artifact' = [artifact EXCEPT ![p][v] = row.stamp]
    BY <1>1, <1>2, <1>3, <1>6 DEF RecordArtifact
  <2>2. artifact' = [artifact EXCEPT ![p][v] = stamp[p][v]]
    BY <2>1
  <2>3. v = proposal[p].version /\ proposal[p].approved = v /\ v # 0
    BY <2>1, CommercialAssumption DEF Available, Versions
  <2>4. QED
    BY <1>4, <2>1, <2>2, <2>3, DocumentPublished
<1>7. QED
  BY <1>5, <1>6

LEMMA StepIsDocument == IInv /\ [Next]_vars => [Document!Next]_(Document!vars)
<1> SUFFICES ASSUME IInv, [Next]_vars PROVE Document!Next \/ UNCHANGED Document!vars
  OBVIOUS
<1>1. ASSUME proposal' = proposal, stamp' = stamp, artifact' = artifact PROVE UNCHANGED Document!vars
  BY <1>1, DocumentStands DEF Same
<1>2. CASE Creating
  <2>1. CASE \E k \in Keys : CommitCreation(k)
    BY <2>1, CreationIsDocument
  <2>2. CASE ~\E k \in Keys : CommitCreation(k)
    BY <1>1, <1>2, <2>2 DEF Creating, ChangeLead, OpenCreation, AbortCreation, printing
  <2>3. QED
    BY <2>1, <2>2
<1>3. CASE Deciding
  <2>1. CASE \E s \in Sessions : \/ SaveProposal(s) \/ SubmitProposal(s) \/ ApproveProposal(s)
                                 \/ RequestChanges(s) \/ ReviseProposal(s)
    BY <2>1, PageIsDocument
  <2>2. CASE \E r \in Requests : RecordOutcome(r)
    BY <2>2, OutcomeIsStutter
  <2>3. CASE \E d \in Renderers : RecordArtifact(d)
    BY <2>3, PdfIsDocument
  <2>4. CASE \/ \E s \in Sessions, p \in Proposals : Load(s, p)
             \/ \E r \in Requests, s \in Sessions, outcome \in Final : ComposeOutcome(r, s, outcome)
             \/ \E r \in Requests : AbandonOutcome(r)
             \/ \E p \in Proposals : CreateProject(p)
             \/ \E d \in Renderers, p \in Proposals : GetApprovedPdf(d, p)
    BY <1>1, <2>4 DEF Load, ComposeOutcome, AbandonOutcome, CreateProject, GetApprovedPdf, printing
  <2>5. QED
    BY <1>3, <2>1, <2>2, <2>3, <2>4 DEF Deciding
<1>4. CASE UNCHANGED vars
  BY <1>1, <1>4 DEF vars, printing
<1>5. QED
  BY <1>2, <1>3, <1>4 DEF Next

\* A proposal keeps the promise of a document that customers receive: whatever
\* pages, requests and renderers do, a PDF is recorded once per version, while
\* that version is the approved one, and bears its first approval.
THEOREM ProposalsAreDocuments == Spec => ImplementsDocument
<1>1. Init => Document!Init
  <2> SUFFICES ASSUME Init PROVE Document!Init
    OBVIOUS
  <2>1. [p \in Proposals |-> proposal[p].version] = [p \in Proposals |-> 0]
        /\ [p \in Proposals |-> proposal[p].approved] = [p \in Proposals |-> 0]
    BY DEF Init, NoProposal
  <2>2. QED
    BY <2>1 DEF Init, Document!Init, Document!Blank
<1>2. IInv /\ [Next]_vars => [Document!Next]_(Document!vars)
  BY StepIsDocument
<1>3. QED
  BY <1>1, <1>2, Invariance, PTL DEF Spec, ImplementsDocument, Document!Spec
=============================================================================
