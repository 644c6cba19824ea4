--------------------------- MODULE MembershipProofs ---------------------------
(***************************************************************************)
(* The members of a company, for any number of people, invitations and     *)
(* transactions.                                                           *)
(*                                                                         *)
(* What a transaction may do, it decides from a role that it read earlier. *)
(* The invariant is that the row it read is still what it was (the share   *)
(* lock), and that an invitation knows by a version number whether its     *)
(* inviter's row is (Issues): a row that was changed has a later version,  *)
(* also when it was changed back.                                          *)
(***************************************************************************)
EXTENDS Membership, LockOrder, FiniteSetTheorems, TLAPS

\* A transaction under way is somebody's, and a change is about somebody.
Actors == \A t \in Transactions :
  /\ tx[t].kind # "idle" => tx[t].actor \in Identities
  /\ tx[t].kind = "change" => tx[t].target \in Identities
  /\ tx[t].shares => tx[t].kind # "idle"

Issues == \A i \in Invitations :
  /\ invitation[i].state # "none" =>
       /\ invitation[i].by \in Identities /\ invitation[i].to \in Identities
       /\ invitation[i].role # "owner"
       /\ invitation[i].issued <= member[invitation[i].by].version
       /\ disturbed[i] => invitation[i].issued < member[invitation[i].by].version
  /\ invitation[i].state = "none" => ~disturbed[i]
  /\ admitted[i] = IF invitation[i].state = "redeemed" THEN 1 ELSE 0

Alone == \A i, j \in Invitations :
  Open(i) /\ Open(j) /\ invitation[i].to = invitation[j].to => i = j

\* What was replaced stays revoked.
Successors ==
  /\ \A i, j \in Invitations : invitation[j].replaces = i => invitation[i].state = "revoked"
  /\ \A i, j, k \in Invitations :
       invitation[j].replaces = i /\ invitation[k].replaces = i => j = k

Invites == Issues /\ Alone /\ Successors

IInv == TypeOK /\ Actors /\ AccessIsLive /\ OwnerRemains /\ Invites

-----------------------------------------------------------------------------
LEMMA InitIInv == Init => IInv
<1> SUFFICES ASSUME Init PROVE IInv
  OBVIOUS
<1> USE DEF Init
<1>1. 0 \in 0..MaxVersion /\ 1 \in 0..MaxVersion
  BY MembershipAssumption
<1>2. TypeOK
  BY <1>1 DEF TypeOK, MemberRecord, InvitationRecord, TxRecord, Idle, NoMembership, NotIssued,
              Roles, Statuses
<1>3. Actors /\ AccessIsLive
  BY DEF Actors, AccessIsLive, Idle
<1>4. OwnerRemains
  <2>1. Founder \in ActiveOwners
    BY MembershipAssumption DEF ActiveOwners, Active
  <2>2. QED
    BY <2>1 DEF OwnerRemains
<1>5. Invites
  BY MembershipAssumption DEF Invites, Issues, Alone, Successors, Open, NotIssued
<1>6. QED
  BY <1>2, <1>3, <1>4, <1>5 DEF IInv

-----------------------------------------------------------------------------
LEMMA MemberFacts ==
  ASSUME IInv, NEW m \in Identities
  PROVE  /\ member[m] \in MemberRecord /\ member[m].version \in 0..MaxVersion
         /\ member[m].version \in Nat
<1>1. member[m] \in MemberRecord
  BY DEF IInv, TypeOK
<1>2. member[m].version \in 0..MaxVersion
  BY <1>1 DEF MemberRecord
<1>3. QED
  BY <1>1, <1>2, MembershipAssumption DEF IInv

LEMMA InvitationFacts ==
  ASSUME IInv, NEW i \in Invitations
  PROVE  /\ invitation[i] \in InvitationRecord /\ invitation[i].issued \in Nat
         /\ invitation[i].state \in {"none", "open", "redeemed", "revoked"}
<1>1. invitation[i] \in InvitationRecord
  BY DEF IInv, TypeOK
<1>2. invitation[i].issued \in 0..MaxVersion /\ invitation[i].state \in {"none", "open", "redeemed", "revoked"}
  BY <1>1 DEF InvitationRecord
<1>3. QED
  BY <1>1, <1>2, MembershipAssumption DEF IInv

LEMMA TxFacts ==
  ASSUME IInv, NEW t \in Transactions
  PROVE  tx[t] \in TxRecord /\ tx[t].version \in 0..MaxVersion /\ tx[t].role \in Roles
  BY DEF IInv, TypeOK, TxRecord

-----------------------------------------------------------------------------
(***************************************************************************)
(* Steps that only concern the transaction that takes them.                *)
(***************************************************************************)
\* t goes on as row, and reads the access of its actor or none.
Proceeds(t, row) ==
  /\ row \in TxRecord
  /\ tx' = [tx EXCEPT ![t] = row]
  /\ row.kind # "idle" => row.actor \in Identities
  /\ row.kind = "change" => row.target \in Identities
  /\ row.shares => /\ row.kind # "idle" /\ Active(row.actor)
                   /\ member[row.actor].role = row.role
                   /\ member[row.actor].version = row.version

LEMMA ProceedInv ==
  ASSUME IInv, NEW t \in Transactions, NEW row, Proceeds(t, row), UnchangedData
  PROVE  IInv'
<1> USE DEF UnchangedData
<1>1. \A u \in Transactions : tx'[u] = IF u = t THEN row ELSE tx[u]
  BY DEF Proceeds, IInv, TypeOK
<1>2. TypeOK'
  BY DEF Proceeds, IInv, TypeOK
<1>3. Actors'
  BY <1>1 DEF Proceeds, IInv, Actors
<1>4. AccessIsLive'
  BY <1>1 DEF Proceeds, IInv, AccessIsLive, Active
<1>5. OwnerRemains' /\ Invites'
  BY DEF IInv, OwnerRemains, ActiveOwners, Active, Invites, Issues, Alone, Successors, Open
<1>6. QED
  BY <1>2, <1>3, <1>4, <1>5 DEF IInv

LEMMA IdleFacts == ASSUME IInv PROVE Idle \in TxRecord /\ Idle.kind = "idle" /\ ~Idle.shares
<1>1. 0 \in 0..MaxVersion
  BY MembershipAssumption DEF IInv
<1>2. QED
  BY <1>1 DEF Idle, TxRecord, Roles

LEMMA BeginWorkInv ==
  ASSUME IInv, NEW t \in Transactions, NEW m \in Identities, BeginWork(t, m)
  PROVE  IInv'
<1>1. PICK row : row = [Shared(t, m) EXCEPT !.kind = "work", !.actor = m]
  OBVIOUS
<1>2. tx' = [tx EXCEPT ![t] = row] /\ Active(m) /\ UnchangedData
  BY <1>1 DEF BeginWork
<1>3. /\ row \in TxRecord /\ row.kind = "work" /\ row.actor = m
      /\ row.role = member[m].role /\ row.version = member[m].version
  BY <1>1, TxFacts, MemberFacts DEF Shared, TxRecord, MemberRecord
<1>4. Proceeds(t, row)
  BY <1>2, <1>3 DEF Proceeds
<1>5. QED
  BY <1>2, <1>4, ProceedInv

LEMMA BeginInv ==
  ASSUME IInv, NEW t \in Transactions, NEW m \in Identities,
         \/ \E target \in Identities : BeginChange(t, m, target)
         \/ BeginOther(t, m, "invite")
         \/ BeginOther(t, m, "accept")
  PROVE  IInv'
<1>1. CASE \E target \in Identities : BeginChange(t, m, target)
  <2>1. PICK target \in Identities : BeginChange(t, m, target)
    BY <1>1
  <2>2. PICK row : row = [Idle EXCEPT !.kind = "change", !.actor = m, !.target = target]
    OBVIOUS
  <2>3. row \in TxRecord /\ row.actor = m /\ row.target = target /\ ~row.shares
    BY <2>2, IdleFacts DEF Idle, TxRecord
  <2>4. tx' = [tx EXCEPT ![t] = row] /\ UnchangedData
    BY <2>1, <2>2 DEF BeginChange
  <2>5. Proceeds(t, row)
    BY <2>3, <2>4 DEF Proceeds
  <2>6. QED
    BY <2>4, <2>5, ProceedInv
<1>2. ASSUME NEW kind \in {"invite", "accept"}, BeginOther(t, m, kind) PROVE IInv'
  <2>1. PICK row : row = [Idle EXCEPT !.kind = kind, !.actor = m]
    OBVIOUS
  <2>2. row \in TxRecord /\ row.kind = kind /\ row.actor = m /\ ~row.shares
    BY <2>1, IdleFacts DEF Idle, TxRecord
  <2>3. tx' = [tx EXCEPT ![t] = row] /\ UnchangedData
    BY <1>2, <2>1 DEF BeginOther
  <2>4. Proceeds(t, row)
    BY <2>2, <2>3 DEF Proceeds
  <2>5. QED
    BY <2>3, <2>4, ProceedInv
<1>3. QED
  BY <1>1, <1>2

LEMMA TakeLockInv == ASSUME IInv, NEW t \in Transactions, TakeLock(t) PROVE IInv'
<1>1. PICK old \in TxRecord : old = tx[t]
  BY TxFacts
<1>2. PICK row : row = [old EXCEPT !.lock = TRUE]
  OBVIOUS
<1>3. tx' = [tx EXCEPT ![t] = row] /\ UnchangedData
  BY <1>1, <1>2 DEF TakeLock
<1>4. /\ row \in TxRecord /\ row.kind = old.kind /\ row.actor = old.actor
      /\ row.target = old.target /\ row.shares = old.shares
      /\ row.role = old.role /\ row.version = old.version
  BY <1>2 DEF TxRecord
<1>5. Proceeds(t, row)
  BY <1>1, <1>3, <1>4 DEF Proceeds, IInv, Actors, AccessIsLive
<1>6. QED
  BY <1>3, <1>5, ProceedInv

LEMMA AuthorizeInv == ASSUME IInv, NEW t \in Transactions, Authorize(t) PROVE IInv'
<1>1. PICK old \in TxRecord : old = tx[t]
  BY TxFacts
<1>2. PICK m \in Identities : m = old.actor
  BY <1>1 DEF Authorize, MayAuthorize, IInv, Actors
<1>3. PICK row : row = Shared(t, m)
  OBVIOUS
<1>4. /\ tx' = [tx EXCEPT ![t] = row] /\ UnchangedData /\ Active(m)
      /\ old.kind \in {"change", "invite"}
  BY <1>1, <1>2, <1>3 DEF Authorize, MayAuthorize
<1>5. /\ row \in TxRecord /\ row.kind = old.kind /\ row.actor = m /\ row.target = old.target
      /\ row.role = member[m].role /\ row.version = member[m].version
  BY <1>1, <1>2, <1>3, MemberFacts DEF Shared, TxRecord, MemberRecord
<1>6. Proceeds(t, row)
  BY <1>1, <1>4, <1>5 DEF Proceeds, IInv, Actors
<1>7. QED
  BY <1>4, <1>6, ProceedInv

LEMMA LeaveInv == ASSUME IInv, NEW t \in Transactions, Leave(t) PROVE IInv'
<1>1. Proceeds(t, Idle) /\ UnchangedData
  BY IdleFacts DEF Leave, End, Proceeds
<1>2. QED
  BY <1>1, ProceedInv

-----------------------------------------------------------------------------
(***************************************************************************)
(* The last step of a transaction that changed something.                  *)
(***************************************************************************)
LEMMA EndFacts ==
  ASSUME IInv, NEW t \in Transactions, End(t)
  PROVE  /\ tx' \in [Transactions -> TxRecord] /\ Actors'
         /\ tx'[t] = Idle /\ \A u \in Transactions \ {t} : tx'[u] = tx[u]
<1>1. /\ tx' \in [Transactions -> TxRecord]
      /\ tx'[t] = Idle /\ \A u \in Transactions \ {t} : tx'[u] = tx[u]
  BY IdleFacts DEF End, IInv, TypeOK
<1>2. Actors'
  BY <1>1, IdleFacts DEF IInv, Actors
<1>3. QED
  BY <1>1, <1>2

\* m's row is rewritten under the next version while nobody shares it: whom m
\* invited is disturbed, and nobody else's access is touched.
Rewritten(m, row) ==
  /\ row \in MemberRecord /\ row.version = member[m].version + 1
  /\ member' = [member EXCEPT ![m] = row]
  /\ disturbed' = [i \in Invitations |->
                     disturbed[i] \/ (invitation[i].state # "none" /\ invitation[i].by = m)]

LEMMA RewrittenInv ==
  ASSUME IInv, NEW t \in Transactions, NEW m \in Identities, NEW row,
         Rewritten(m, row), Unshared(t, m), End(t)
  PROVE  /\ member' \in [Identities -> MemberRecord]
         /\ disturbed' \in [Invitations -> BOOLEAN]
         /\ member'[m] = row /\ \A n \in Identities \ {m} : member'[n] = member[n]
         /\ AccessIsLive'
<1>1. /\ member' \in [Identities -> MemberRecord]
      /\ disturbed' \in [Invitations -> BOOLEAN]
      /\ member'[m] = row /\ \A n \in Identities \ {m} : member'[n] = member[n]
  BY DEF Rewritten, IInv, TypeOK
<1>2. AccessIsLive'
  <2> SUFFICES ASSUME NEW u \in Transactions, tx'[u].shares
               PROVE  /\ member'[tx'[u].actor].status = "active"
                      /\ member'[tx'[u].actor].role = tx'[u].role
                      /\ member'[tx'[u].actor].version = tx'[u].version
    BY DEF AccessIsLive, Active
  <2>1. u # t /\ tx'[u] = tx[u]
    BY EndFacts, IdleFacts
  <2>2. tx[u].actor \in Identities /\ tx[u].actor # m
    BY <2>1 DEF Unshared, IInv, Actors
  <2>3. QED
    BY <1>1, <2>1, <2>2 DEF IInv, AccessIsLive, Active
<1>3. QED
  BY <1>1, <1>2

\* What invitations know about their inviters stays true.
LEMMA DisturbedFacts ==
  ASSUME IInv, NEW m \in Identities, NEW row, Rewritten(m, row),
         NEW i \in Invitations, invitation[i].state # "none"
  PROVE  /\ invitation[i].issued <= member'[invitation[i].by].version
         /\ disturbed'[i] => invitation[i].issued < member'[invitation[i].by].version
<1>1. PICK by \in Identities : by = invitation[i].by
  BY DEF IInv, Invites, Issues
<1>2. PICK n \in Nat : n = invitation[i].issued
  BY InvitationFacts
<1>3. n <= member[by].version /\ (disturbed[i] => n < member[by].version)
  BY <1>1, <1>2 DEF IInv, Invites, Issues
<1>4. CASE by = m
  <2>1. member'[by].version = member[by].version + 1
    BY <1>4 DEF Rewritten, IInv, TypeOK
  <2>2. n < member[by].version + 1 /\ n <= member[by].version + 1
    BY <1>3, MemberFacts
  <2>3. QED
    BY <1>1, <1>2, <2>1, <2>2
<1>5. CASE by # m
  <2>1. member'[by] = member[by] /\ disturbed'[i] = disturbed[i]
    BY <1>1, <1>5 DEF Rewritten, IInv, TypeOK
  <2>2. QED
    BY <1>1, <1>2, <1>3, <2>1
<1>6. QED
  BY <1>4, <1>5

LEMMA ChangeMemberInv ==
  ASSUME IInv, NEW t \in Transactions, NEW role \in Roles, NEW status \in Statuses,
         ChangeMember(t, role, status)
  PROVE  IInv'
<1>1. PICK m \in Identities : m = tx[t].target
  BY DEF ChangeMember, Ready, IInv, Actors
<1>2. PICK row : row = Changed(m, role, status)
  OBVIOUS
<1>3. /\ member[m].version < MaxVersion /\ Unshared(t, m) /\ KeepsOwner(m, role, status)
      /\ member' = [member EXCEPT ![m] = row]
      /\ disturbed' = [i \in Invitations |->
                         disturbed[i] \/ (invitation[i].state # "none" /\ invitation[i].by = m)]
      /\ End(t) /\ UNCHANGED <<invitation, admitted>>
  BY <1>1, <1>2 DEF ChangeMember
<1>4. /\ row \in MemberRecord /\ row.role = role /\ row.status = status
      /\ row.version = member[m].version + 1
  <2>1. member[m].version + 1 \in 0..MaxVersion
    BY <1>3, MemberFacts, MembershipAssumption DEF IInv
  <2>2. QED
    BY <1>2, <2>1 DEF Changed, MemberRecord
<1>5. Rewritten(m, row)
  BY <1>3, <1>4 DEF Rewritten
<1>6. /\ member' \in [Identities -> MemberRecord]
      /\ disturbed' \in [Invitations -> BOOLEAN]
      /\ member'[m] = row /\ \A n \in Identities \ {m} : member'[n] = member[n]
      /\ AccessIsLive'
  BY <1>3, <1>5, RewrittenInv
<1>7. TypeOK' /\ Actors'
  BY <1>3, <1>6, EndFacts DEF IInv, TypeOK
<1>8. OwnerRemains'
  <2>1. \E n \in Identities : member'[n].status = "active" /\ member'[n].role = "owner"
    <3>1. PICK n \in Identities : member[n].status = "active" /\ member[n].role = "owner"
      BY DEF IInv, OwnerRemains, ActiveOwners, Active
    <3>2. CASE member[m].role = "owner" /\ member[m].status = "active" /\ (role # "owner" \/ status # "active")
      <4>1. Cardinality(ActiveOwners) >= 2
        BY <1>3, <3>2 DEF KeepsOwner, Active
      <4>2. ActiveOwners # {m}
        <5>1. Cardinality({m}) = 1
          BY FS_Singleton
        <5>2. QED
          BY <4>1, <5>1
      <4>3. m \in ActiveOwners
        BY <3>2 DEF ActiveOwners, Active
      <4>4. PICK o \in ActiveOwners : o # m
        BY <4>2, <4>3
      <4>5. QED
        BY <1>6, <4>4 DEF ActiveOwners, Active
    <3>3. CASE n # m
      BY <1>6, <3>1, <3>3
    <3>4. CASE n = m /\ role = "owner" /\ status = "active"
      BY <1>4, <1>6, <3>4
    <3>5. QED
      BY <3>1, <3>2, <3>3, <3>4
  <2>2. QED
    BY <2>1 DEF OwnerRemains, ActiveOwners, Active
<1>9. Issues'
  <2>1. \A i \in Invitations : invitation[i].state = "none" => ~disturbed'[i]
    BY <1>3 DEF IInv, Invites, Issues
  <2>2. \A i \in Invitations : invitation[i].state # "none" =>
          /\ invitation[i].issued <= member'[invitation[i].by].version
          /\ disturbed'[i] => invitation[i].issued < member'[invitation[i].by].version
    BY <1>5, DisturbedFacts
  <2>3. QED
    BY <1>3, <2>1, <2>2 DEF IInv, Invites, Issues
<1>10. Alone' /\ Successors'
  BY <1>3 DEF IInv, Invites, Alone, Successors, Open
<1>11. QED
  BY <1>6, <1>7, <1>8, <1>9, <1>10 DEF IInv, Invites

LEMMA AcceptInvitationInv ==
  ASSUME IInv, NEW t \in Transactions, NEW i \in Invitations, AcceptInvitation(t, i)
  PROVE  IInv'
<1>1. PICK m \in Identities : m = tx[t].actor
  BY DEF AcceptInvitation, IInv, Actors
<1>2. PICK row : row = [role |-> invitation[i].role, status |-> "active",
                        version |-> member[m].version + 1]
  OBVIOUS
<1>3. PICK new : new = [invitation[i] EXCEPT !.state = "redeemed"]
  OBVIOUS
<1>4. /\ invitation[i].state = "open" /\ MayJoin(m) /\ member[m].version < MaxVersion
      /\ member' = [member EXCEPT ![m] = row]
      /\ invitation' = [invitation EXCEPT ![i] = new]
      /\ disturbed' = [j \in Invitations |->
                         disturbed[j] \/ (invitation[j].state # "none" /\ invitation[j].by = m)]
      /\ admitted' = [admitted EXCEPT ![i] = admitted[i] + 1]
      /\ End(t)
  BY <1>1, <1>2, <1>3 DEF AcceptInvitation, Pending, Open
<1>5. /\ row \in MemberRecord /\ row.role = invitation[i].role /\ row.status = "active"
      /\ row.version = member[m].version + 1
  <2>1. member[m].version + 1 \in 0..MaxVersion
    BY <1>4, MemberFacts, MembershipAssumption DEF IInv
  <2>2. invitation[i].role \in Roles
    BY InvitationFacts DEF InvitationRecord
  <2>3. QED
    BY <1>2, <2>1, <2>2 DEF MemberRecord, Statuses
<1>6. member[m].status # "active"
  BY <1>4 DEF MayJoin
<1>7. Rewritten(m, row)
  BY <1>4, <1>5 DEF Rewritten
<1>8. Unshared(t, m)
  BY <1>6 DEF Unshared, IInv, AccessIsLive, Active
<1>9. /\ member' \in [Identities -> MemberRecord]
      /\ disturbed' \in [Invitations -> BOOLEAN]
      /\ member'[m] = row /\ \A n \in Identities \ {m} : member'[n] = member[n]
      /\ AccessIsLive'
  BY <1>4, <1>7, <1>8, RewrittenInv
<1>10. /\ new \in InvitationRecord /\ new.state = "redeemed" /\ new.by = invitation[i].by
       /\ new.to = invitation[i].to /\ new.role = invitation[i].role
       /\ new.issued = invitation[i].issued /\ new.replaces = invitation[i].replaces
  BY <1>3, InvitationFacts DEF InvitationRecord
<1>11. \A j \in Invitations : invitation'[j] = IF j = i THEN new ELSE invitation[j]
  BY <1>4 DEF IInv, TypeOK
<1>12. admitted[i] = 0 /\ \A j \in Invitations : admitted'[j] = IF j = i THEN 1 ELSE admitted[j]
  BY <1>4 DEF IInv, TypeOK, Invites, Issues
<1>13. TypeOK' /\ Actors'
  <2>1. admitted' \in [Invitations -> Nat]
    BY <1>4 DEF IInv, TypeOK
  <2>2. QED
    BY <1>4, <1>9, <1>10, <2>1, EndFacts DEF IInv, TypeOK
<1>14. OwnerRemains'
  <2>1. PICK n \in Identities : member[n].status = "active" /\ member[n].role = "owner"
    BY DEF IInv, OwnerRemains, ActiveOwners, Active
  <2>2. member'[n] = member[n]
    BY <1>6, <1>9, <2>1
  <2>3. QED
    BY <2>1, <2>2 DEF OwnerRemains, ActiveOwners, Active
<1>15. Issues'
  <2> SUFFICES ASSUME NEW j \in Invitations
               PROVE  /\ invitation'[j].state # "none" =>
                           /\ invitation'[j].by \in Identities /\ invitation'[j].to \in Identities
                           /\ invitation'[j].role # "owner"
                           /\ invitation'[j].issued <= member'[invitation'[j].by].version
                           /\ disturbed'[j] => invitation'[j].issued < member'[invitation'[j].by].version
                      /\ invitation'[j].state = "none" => ~disturbed'[j]
                      /\ admitted'[j] = IF invitation'[j].state = "redeemed" THEN 1 ELSE 0
    BY DEF Issues
  <2>1. invitation[j].state # "none" =>
          /\ invitation[j].issued <= member'[invitation[j].by].version
          /\ disturbed'[j] => invitation[j].issued < member'[invitation[j].by].version
    BY <1>7, DisturbedFacts
  <2>2. CASE j = i
    BY <1>4, <1>10, <1>11, <1>12, <2>1, <2>2 DEF IInv, Invites, Issues
  <2>3. CASE j # i
    <3>1. invitation'[j] = invitation[j] /\ admitted'[j] = admitted[j]
      BY <1>11, <1>12, <2>3
    <3>2. invitation[j].state = "none" => ~disturbed'[j]
      BY <1>4 DEF IInv, Invites, Issues
    <3>3. QED
      BY <2>1, <3>1, <3>2 DEF IInv, Invites, Issues
  <2>4. QED
    BY <2>2, <2>3
<1>16. Alone'
  BY <1>10, <1>11 DEF IInv, Invites, Alone, Open
<1>17. Successors'
  <2>1. \A j \in Invitations : invitation'[j].replaces = invitation[j].replaces
    BY <1>10, <1>11
  <2>2. ASSUME NEW j \in Invitations, NEW k \in Invitations, invitation[j].replaces = k
        PROVE  invitation'[k].state = "revoked"
    <3>1. invitation[k].state = "revoked"
      BY <2>2 DEF IInv, Invites, Successors
    <3>2. QED
      BY <1>4, <1>11, <3>1
  <2>3. QED
    BY <2>1, <2>2 DEF IInv, Invites, Successors
<1>18. QED
  BY <1>9, <1>13, <1>14, <1>15, <1>16, <1>17 DEF IInv, Invites

\* j is issued to somebody nobody else invites; the one that it replaces is revoked.
Succeeds(t, j, new, replaces) ==
  /\ new \in InvitationRecord /\ new.state = "open" /\ new.to \in Identities
  /\ new.role # "owner" /\ new.by = tx[t].actor /\ new.issued = tx[t].version
  /\ new.replaces = replaces
  /\ invitation[j].state = "none" /\ ~Invited(new.to, replaces)
  /\ replaces \in Invitations => invitation[replaces].state \in {"open", "revoked"} /\ ~Replaced(replaces)
  /\ invitation' \in [Invitations -> InvitationRecord]
  /\ invitation'[j] = new
  /\ \A i \in Invitations \ {j} :
       /\ invitation'[i].by = invitation[i].by /\ invitation'[i].to = invitation[i].to
       /\ invitation'[i].role = invitation[i].role /\ invitation'[i].issued = invitation[i].issued
       /\ invitation'[i].replaces = invitation[i].replaces
       /\ invitation'[i].expired = invitation[i].expired
       /\ invitation'[i].state = IF i = replaces THEN "revoked" ELSE invitation[i].state

LEMMA SucceedInv ==
  ASSUME IInv, NEW t \in Transactions, NEW j \in Invitations, NEW new,
         NEW replaces \in Invitations \cup {NoInvitation}, Succeeds(t, j, new, replaces),
         Ready(t, "invite"), End(t), UNCHANGED <<member, disturbed, admitted>>
  PROVE  IInv'
<1>1. tx[t].actor \in Identities /\ member[tx[t].actor].version = tx[t].version
  BY DEF Ready, IInv, Actors, AccessIsLive
<1>2. TypeOK' /\ Actors'
  BY EndFacts DEF Succeeds, IInv, TypeOK
<1>3. AccessIsLive'
  BY EndFacts, IdleFacts DEF IInv, AccessIsLive, Active
<1>4. OwnerRemains'
  BY DEF IInv, OwnerRemains, ActiveOwners, Active
<1>5. Issues'
  <2> SUFFICES ASSUME NEW i \in Invitations
               PROVE  /\ invitation'[i].state # "none" =>
                           /\ invitation'[i].by \in Identities /\ invitation'[i].to \in Identities
                           /\ invitation'[i].role # "owner"
                           /\ invitation'[i].issued <= member[invitation'[i].by].version
                           /\ disturbed[i] => invitation'[i].issued < member[invitation'[i].by].version
                      /\ invitation'[i].state = "none" => ~disturbed[i]
                      /\ admitted[i] = IF invitation'[i].state = "redeemed" THEN 1 ELSE 0
    BY DEF Issues
  <2>1. CASE i = j
    <3>1. ~disturbed[i] /\ admitted[i] = 0
      BY <2>1 DEF Succeeds, IInv, Invites, Issues
    <3>2. tx[t].version <= member[tx[t].actor].version
      BY <1>1, MemberFacts
    <3>3. QED
      BY <1>1, <2>1, <3>1, <3>2 DEF Succeeds
  <2>2. CASE i # j
    BY <2>2 DEF Succeeds, IInv, Invites, Issues
  <2>3. QED
    BY <2>1, <2>2
<1>6. Alone'
  <2> SUFFICES ASSUME NEW i \in Invitations, NEW k \in Invitations, i # k,
                      invitation'[i].state = "open" /\ ~invitation'[i].expired,
                      invitation'[k].state = "open" /\ ~invitation'[k].expired,
                      invitation'[i].to = invitation'[k].to
               PROVE  FALSE
    BY DEF Alone, Open
  <2>1. \A x \in Invitations \ {j} :
          invitation'[x].state = "open" /\ ~invitation'[x].expired =>
            Open(x) /\ x # replaces /\ invitation'[x].to = invitation[x].to
    BY DEF Succeeds, Open
  <2>2. \A x \in Invitations \ {j} :
          invitation'[x].state = "open" /\ ~invitation'[x].expired => invitation'[x].to # new.to
    BY <2>1 DEF Succeeds, Invited
  <2>3. CASE i # j /\ k # j
    BY <2>1, <2>3 DEF IInv, Invites, Alone
  <2>4. CASE i = j \/ k = j
    BY <2>2, <2>4 DEF Succeeds
  <2>5. QED
    BY <2>3, <2>4
<1>7. Successors'
  <2>1. \A i, k \in Invitations : invitation[k].replaces = i => i # j
    BY DEF Succeeds, IInv, Invites, Successors
  <2>2. ASSUME NEW i \in Invitations, NEW k \in Invitations, invitation'[k].replaces = i
        PROVE  invitation'[i].state = "revoked"
    <3>1. CASE k = j
      <4>1. i = replaces /\ i # j
        BY <2>2, <3>1 DEF Succeeds
      <4>2. QED
        BY <4>1 DEF Succeeds
    <3>2. CASE k # j
      <4>1. invitation[k].replaces = i
        BY <2>2, <3>2 DEF Succeeds
      <4>2. invitation[i].state = "revoked" /\ i # j
        BY <2>1, <4>1 DEF IInv, Invites, Successors
      <4>3. QED
        BY <4>2 DEF Succeeds
    <3>3. QED
      BY <3>1, <3>2
  <2>3. ASSUME NEW i \in Invitations, NEW k \in Invitations, NEW l \in Invitations,
               invitation'[k].replaces = i, invitation'[l].replaces = i
        PROVE  k = l
    <3>1. \A x \in Invitations \ {j} : invitation'[x].replaces = i => invitation[x].replaces = i
      BY DEF Succeeds
    <3>2. CASE k # j /\ l # j
      BY <2>3, <3>1, <3>2 DEF IInv, Invites, Successors
    <3>3. CASE k = j \/ l = j
      <4>1. i = replaces
        BY <2>3, <3>3 DEF Succeeds
      <4>2. \A x \in Invitations \ {j} : invitation'[x].replaces # i
        BY <3>1, <4>1 DEF Succeeds, Replaced
      <4>3. QED
        BY <2>3, <4>2
    <3>4. QED
      BY <3>2, <3>3
  <2>4. QED
    BY <2>2, <2>3 DEF Successors
<1>8. QED
  BY <1>2, <1>3, <1>4, <1>5, <1>6, <1>7 DEF IInv, Invites

LEMMA IssuedFacts ==
  ASSUME IInv, NEW t \in Transactions, Ready(t, "invite"), NEW to \in Identities,
         NEW role \in Roles, NEW replaces \in Invitations \cup {NoInvitation},
         NEW new, new = Issued(t, to, role, replaces)
  PROVE  /\ new \in InvitationRecord /\ new.state = "open" /\ new.to = to /\ new.role = role
         /\ new.by = tx[t].actor /\ new.issued = tx[t].version /\ new.replaces = replaces
<1>1. tx[t].actor \in Identities /\ tx[t].version \in 0..MaxVersion
  BY TxFacts DEF Ready, IInv, Actors
<1>2. QED
  BY <1>1 DEF Issued, InvitationRecord

LEMMA CreateInvitationInv ==
  ASSUME IInv, NEW t \in Transactions, NEW j \in Invitations, NEW to \in Identities,
         NEW role \in Roles, CreateInvitation(t, j, to, role)
  PROVE  IInv'
<1>1. PICK new : new = Issued(t, to, role, NoInvitation)
  OBVIOUS
<1>2. /\ Ready(t, "invite") /\ invitation[j].state = "none" /\ role # "owner"
      /\ ~Invited(to, NoInvitation)
      /\ invitation' = [invitation EXCEPT ![j] = new]
      /\ End(t) /\ UNCHANGED <<member, disturbed, admitted>>
  BY <1>1 DEF CreateInvitation, Issueable
<1>3. /\ new \in InvitationRecord /\ new.state = "open" /\ new.to = to /\ new.role = role
      /\ new.by = tx[t].actor /\ new.issued = tx[t].version /\ new.replaces = NoInvitation
  BY <1>1, <1>2, IssuedFacts
<1>4. /\ invitation' \in [Invitations -> InvitationRecord]
      /\ invitation'[j] = new /\ \A i \in Invitations \ {j} : invitation'[i] = invitation[i]
  BY <1>2, <1>3 DEF IInv, TypeOK
<1>5. NoInvitation \notin Invitations
  BY MembershipAssumption DEF IInv
<1>6. Succeeds(t, j, new, NoInvitation)
  BY <1>2, <1>3, <1>4, <1>5 DEF Succeeds
<1>7. QED
  BY <1>2, <1>6, SucceedInv

LEMMA ReissueInvitationInv ==
  ASSUME IInv, NEW t \in Transactions, NEW i \in Invitations, NEW j \in Invitations,
         ReissueInvitation(t, i, j)
  PROVE  IInv'
<1>1. PICK row \in InvitationRecord : row = invitation[i]
  BY InvitationFacts
<1>2. PICK new : new = Issued(t, row.to, row.role, i)
  OBVIOUS
<1>3. PICK old : old = [row EXCEPT !.state = "revoked"]
  OBVIOUS
<1>4. /\ Ready(t, "invite") /\ row.state \in {"open", "revoked"} /\ ~Replaced(i)
      /\ invitation[j].state = "none" /\ row.role # "owner" /\ ~Invited(row.to, i)
      /\ End(t) /\ UNCHANGED <<member, disturbed, admitted>>
  BY <1>1 DEF ReissueInvitation, Issueable
<1>5. invitation' = [invitation EXCEPT ![i].state = "revoked", ![j] = new]
  BY <1>1, <1>2 DEF ReissueInvitation
<1>6. row.to \in Identities /\ row.role \in Roles /\ i # j
  BY <1>1, <1>4 DEF IInv, Invites, Issues, InvitationRecord
<1>7. /\ new \in InvitationRecord /\ new.state = "open" /\ new.to = row.to /\ new.role = row.role
      /\ new.by = tx[t].actor /\ new.issued = tx[t].version /\ new.replaces = i
  BY <1>2, <1>4, <1>6, IssuedFacts
<1>8. /\ old \in InvitationRecord /\ old.state = "revoked" /\ old.to = row.to /\ old.by = row.by
      /\ old.role = row.role /\ old.issued = row.issued /\ old.replaces = row.replaces
      /\ old.expired = row.expired
  BY <1>3 DEF InvitationRecord
<1>9. \A k \in Invitations :
        invitation'[k] = IF k = j THEN new ELSE IF k = i THEN old ELSE invitation[k]
  BY <1>1, <1>3, <1>5, <1>6 DEF IInv, TypeOK
<1>10. invitation' \in [Invitations -> InvitationRecord]
  <2>1. DOMAIN invitation' = Invitations /\ invitation' = [k \in Invitations |-> invitation'[k]]
    BY <1>5 DEF IInv, TypeOK
  <2>2. \A k \in Invitations : invitation'[k] \in InvitationRecord
    BY <1>7, <1>8, <1>9, InvitationFacts
  <2>3. QED
    BY <2>1, <2>2
<1>11. Succeeds(t, j, new, i)
  BY <1>1, <1>4, <1>6, <1>7, <1>8, <1>9, <1>10 DEF Succeeds
<1>12. QED
  BY <1>4, <1>11, SucceedInv

\* An invitation that is closed by its state or by time.
LEMMA CloseInv ==
  ASSUME IInv, NEW i \in Invitations, invitation[i].state = "open",
         NEW new \in InvitationRecord,
         new.state = "revoked" \/ (new.state = "open" /\ new.expired),
         new.by = invitation[i].by, new.to = invitation[i].to, new.role = invitation[i].role,
         new.issued = invitation[i].issued, new.replaces = invitation[i].replaces,
         invitation' = [invitation EXCEPT ![i] = new],
         UNCHANGED <<member, disturbed, admitted>>
  PROVE  invitation' \in [Invitations -> InvitationRecord] /\ Invites' /\ OwnerRemains'
<1>1. /\ invitation' \in [Invitations -> InvitationRecord]
      /\ \A j \in Invitations : invitation'[j] = IF j = i THEN new ELSE invitation[j]
  BY DEF IInv, TypeOK
<1>2. Issues'
  BY <1>1 DEF IInv, Invites, Issues
<1>3. Alone'
  BY <1>1 DEF IInv, Invites, Alone, Open
<1>4. Successors'
  <2>1. \A j \in Invitations : invitation'[j].replaces = invitation[j].replaces
    BY <1>1
  <2>2. ASSUME NEW j \in Invitations, NEW k \in Invitations, invitation[j].replaces = k
        PROVE  invitation'[k].state = "revoked"
    <3>1. invitation[k].state = "revoked"
      BY <2>2 DEF IInv, Invites, Successors
    <3>2. QED
      BY <1>1, <3>1
  <2>3. QED
    BY <2>1, <2>2 DEF IInv, Invites, Successors
<1>5. OwnerRemains'
  BY DEF IInv, OwnerRemains, ActiveOwners, Active
<1>6. QED
  BY <1>1, <1>2, <1>3, <1>4, <1>5 DEF Invites

LEMMA RevokeInvitationInv ==
  ASSUME IInv, NEW t \in Transactions, NEW i \in Invitations, RevokeInvitation(t, i)
  PROVE  IInv'
<1>1. PICK row \in InvitationRecord : row = invitation[i]
  BY InvitationFacts
<1>2. PICK new : new = [row EXCEPT !.state = "revoked"]
  OBVIOUS
<1>3. /\ row.state = "open" /\ invitation' = [invitation EXCEPT ![i] = new]
      /\ End(t) /\ UNCHANGED <<member, disturbed, admitted>>
  BY <1>1, <1>2 DEF RevokeInvitation
<1>4. /\ new \in InvitationRecord /\ new.state = "revoked" /\ new.to = row.to /\ new.by = row.by
      /\ new.role = row.role /\ new.issued = row.issued /\ new.replaces = row.replaces
  BY <1>2 DEF InvitationRecord
<1>5. invitation' \in [Invitations -> InvitationRecord] /\ Invites' /\ OwnerRemains'
  BY <1>1, <1>3, <1>4, CloseInv
<1>6. TypeOK' /\ Actors'
  BY <1>3, <1>5, EndFacts DEF IInv, TypeOK
<1>7. AccessIsLive'
  BY <1>3, EndFacts, IdleFacts DEF IInv, AccessIsLive, Active
<1>8. QED
  BY <1>5, <1>6, <1>7 DEF IInv

LEMMA ExpireInv == ASSUME IInv, NEW i \in Invitations, Expire(i) PROVE IInv'
<1>1. PICK row \in InvitationRecord : row = invitation[i]
  BY InvitationFacts
<1>2. PICK new : new = [row EXCEPT !.expired = TRUE]
  OBVIOUS
<1>3. /\ row.state = "open" /\ invitation' = [invitation EXCEPT ![i] = new]
      /\ UNCHANGED <<member, tx, disturbed, admitted>>
  BY <1>1, <1>2 DEF Expire
<1>4. /\ new \in InvitationRecord /\ new.state = "open" /\ new.expired /\ new.to = row.to
      /\ new.by = row.by /\ new.role = row.role /\ new.issued = row.issued
      /\ new.replaces = row.replaces
  BY <1>2, <1>3 DEF InvitationRecord
<1>5. invitation' \in [Invitations -> InvitationRecord] /\ Invites' /\ OwnerRemains'
  BY <1>1, <1>3, <1>4, CloseInv
<1>6. TypeOK' /\ Actors' /\ AccessIsLive'
  BY <1>3, <1>5 DEF IInv, TypeOK, Actors, AccessIsLive, Active
<1>7. QED
  BY <1>5, <1>6 DEF IInv

-----------------------------------------------------------------------------
LEMMA NextIInv == IInv /\ [Next]_vars => IInv'
<1> SUFFICES ASSUME IInv, [Next]_vars PROVE IInv'
  OBVIOUS
<1>1. CASE \E t \in Transactions, m \in Identities : BeginWork(t, m)
  BY <1>1, BeginWorkInv
<1>2. CASE \E t \in Transactions, m \in Identities :
             \/ BeginOther(t, m, "invite") \/ BeginOther(t, m, "accept")
             \/ \E target \in Identities : BeginChange(t, m, target)
  BY <1>2, BeginInv
<1>3. CASE \E t \in Transactions : TakeLock(t) \/ Authorize(t) \/ Leave(t)
  BY <1>3, TakeLockInv, AuthorizeInv, LeaveInv
<1>4. CASE \E t \in Transactions, role \in Roles, status \in Statuses : ChangeMember(t, role, status)
  BY <1>4, ChangeMemberInv
<1>5. CASE \E t \in Transactions, i \in Invitations, to \in Identities, role \in Roles :
             CreateInvitation(t, i, to, role)
  BY <1>5, CreateInvitationInv
<1>6. CASE \E t \in Transactions, i \in Invitations : RevokeInvitation(t, i) \/ AcceptInvitation(t, i)
  BY <1>6, RevokeInvitationInv, AcceptInvitationInv
<1>7. CASE \E t \in Transactions, i \in Invitations, j \in Invitations : ReissueInvitation(t, i, j)
  BY <1>7, ReissueInvitationInv
<1>8. CASE \E i \in Invitations : Expire(i)
  BY <1>8, ExpireInv
<1>9. CASE UNCHANGED vars
  BY <1>9 DEF vars, IInv, TypeOK, Actors, AccessIsLive, Active, OwnerRemains, ActiveOwners,
              Invites, Issues, Alone, Successors, Open
<1>10. QED
  BY <1>1, <1>2, <1>3, <1>4, <1>5, <1>6, <1>7, <1>8, <1>9 DEF Next

\* Transactions act on rows that are what they read, and invitations know whether theirs are.
THEOREM Invariance == Spec => []IInv
<1>1. Init => IInv
  BY InitIInv
<1>2. IInv /\ [Next]_vars => IInv'
  BY NextIInv
<1>3. QED
  BY <1>1, <1>2, PTL DEF Spec

-----------------------------------------------------------------------------
\* Every variable keeps its type.
THEOREM MembershipTypes == Spec => []TypeOK
<1>1. IInv => TypeOK
  BY DEF IInv
<1>2. QED
  BY <1>1, Invariance, PTL

\* However owners change one another at the same time, one remains.
THEOREM Ownership == Spec => []OwnerRemains
<1>1. IInv => OwnerRemains
  BY DEF IInv
<1>2. QED
  BY <1>1, Invariance, PTL

\* Nobody is suspended or demoted under a transaction that runs with his access.
THEOREM LiveAccess == Spec => []AccessIsLive
<1>1. IInv => AccessIsLive
  BY DEF IInv
<1>2. QED
  BY <1>1, Invariance, PTL

\* An invitation admits once, alone for its recipient, and never after it was replaced.
THEOREM Redemption == Spec => []RedeemedOnce
<1>1. IInv => RedeemedOnce
  <2> SUFFICES ASSUME IInv PROVE RedeemedOnce
    OBVIOUS
  <2>1. \A i, j \in Invitations :
          Open(i) /\ Open(j) /\ invitation[i].to = invitation[j].to => i = j
    BY DEF IInv, Invites, Alone
  <2>2. \A i \in Invitations : admitted[i] <= 1
    BY DEF IInv, Invites, Issues
  <2>3. \A i, j \in Invitations : invitation[j].replaces = i => admitted[i] = 0
    BY DEF IInv, Invites, Issues, Successors
  <2>4. \A i, j, k \in Invitations :
          invitation[j].replaces = i /\ invitation[k].replaces = i => j = k
    BY DEF IInv, Invites, Successors
  <2>5. QED
    BY <2>1, <2>2, <2>3, <2>4 DEF RedeemedOnce
<1>2. QED
  BY <1>1, Invariance, PTL

\* Only an owner raises anybody, and an invitation does so only while its
\* inviter's membership is the one that issued it.
THEOREM Raising == Spec => RaisedByOwner
<1> DEFINE Undisturbed == \A i \in Invitations : disturbed[i] => admitted'[i] = admitted[i]
           Raised ==
             \A m \in Identities :
               LET rank == member'[m].role
                   gains == member'[m].status = "active" /\ rank # "member"
                              /\ (member[m].role # rank \/ ~Active(m))
               IN  gains =>
                     \/ \E t \in Transactions : /\ tx[t].kind = "change" /\ tx'[t].kind = "idle"
                                                /\ tx[t].actor \in ActiveOwners
                     \/ rank = "admin" /\ \E i \in Invitations :
                          /\ admitted'[i] # admitted[i]
                          /\ invitation[i].by \in ActiveOwners
<1>1. IInv /\ [Next]_vars => [Undisturbed]_vars
  <2> SUFFICES ASSUME IInv, Next, NEW i \in Invitations, disturbed[i], admitted'[i] # admitted[i]
               PROVE  FALSE
    BY DEF vars
  <2>1. PICK t \in Transactions, j \in Invitations : AcceptInvitation(t, j)
    BY DEF Next, BeginWork, BeginOther, BeginChange, TakeLock, Authorize, Leave, ChangeMember,
           CreateInvitation, RevokeInvitation, ReissueInvitation, Expire, UnchangedData
  <2>2. j = i
    BY <2>1 DEF AcceptInvitation, IInv, TypeOK
  <2>3. invitation[i].state = "open" /\ member[invitation[i].by].version = invitation[i].issued
    BY <2>1, <2>2 DEF AcceptInvitation, Pending, Open
  <2>4. invitation[i].issued < member[invitation[i].by].version
    BY <2>3 DEF IInv, Invites, Issues
  <2>5. QED
    BY <2>3, <2>4, InvitationFacts
<1>2. IInv /\ [Next]_vars => [Raised]_vars
  <2> SUFFICES ASSUME IInv, Next, NEW m \in Identities,
                      member'[m].status = "active", member'[m].role # "member",
                      member[m].role # member'[m].role \/ ~Active(m)
               PROVE  \/ \E t \in Transactions : /\ tx[t].kind = "change" /\ tx'[t].kind = "idle"
                                                 /\ tx[t].actor \in ActiveOwners
                      \/ member'[m].role = "admin" /\ \E i \in Invitations :
                           /\ admitted'[i] # admitted[i]
                           /\ invitation[i].by \in ActiveOwners
    BY DEF vars
  <2>1. member' # member
    BY DEF Active
  <2>2. CASE \E t \in Transactions, role \in Roles, status \in Statuses : ChangeMember(t, role, status)
    <3>1. PICK t \in Transactions, role \in Roles, status \in Statuses : ChangeMember(t, role, status)
      BY <2>2
    <3>2. PICK n \in Identities : n = tx[t].target
      BY <3>1 DEF ChangeMember, Ready, IInv, Actors
    <3>3. member' = [member EXCEPT ![n] = Changed(n, role, status)]
      BY <3>1, <3>2 DEF ChangeMember
    <3>4. m = n
      BY <3>3 DEF IInv, TypeOK, Active
    <3>5. member'[m].role = role
      BY <3>3, <3>4 DEF IInv, TypeOK, Changed
    <3>6. /\ tx[t].kind = "change" /\ tx[t].shares /\ tx[t].role = "owner"
          /\ tx[t].actor \in Identities /\ tx'[t].kind = "idle"
      BY <3>1, <3>5, EndFacts, IdleFacts DEF ChangeMember, Ready, MayGrant, IInv, Actors
    <3>7. tx[t].actor \in ActiveOwners
      BY <3>6 DEF IInv, AccessIsLive, ActiveOwners
    <3>8. QED
      BY <3>6, <3>7
  <2>3. CASE \E t \in Transactions, i \in Invitations : AcceptInvitation(t, i)
    <3>1. PICK t \in Transactions, i \in Invitations : AcceptInvitation(t, i)
      BY <2>3
    <3>2. PICK n \in Identities : n = tx[t].actor
      BY <3>1 DEF AcceptInvitation, IInv, Actors
    <3>3. PICK row : row = [role |-> invitation[i].role, status |-> "active",
                            version |-> member[n].version + 1]
      OBVIOUS
    <3>4. member' = [member EXCEPT ![n] = row] /\ Pending(i)
      BY <3>1, <3>2, <3>3 DEF AcceptInvitation
    <3>5. m = n
      BY <3>4 DEF IInv, TypeOK, Active
    <3>6. member'[m].role = invitation[i].role
      BY <3>3, <3>4, <3>5 DEF IInv, TypeOK
    <3>7. /\ invitation[i].by \in Identities /\ invitation[i].role \in {"admin", "member"}
      BY <3>4, InvitationFacts DEF Pending, Open, IInv, Invites, Issues, InvitationRecord, Roles
    <3>8. invitation[i].by \in ActiveOwners
      BY <3>4, <3>6, <3>7 DEF Pending, ActiveOwners
    <3>9. admitted'[i] # admitted[i]
      <4>1. admitted[i] \in Nat /\ admitted'[i] = admitted[i] + 1
        BY <3>1 DEF AcceptInvitation, IInv, TypeOK
      <4>2. QED
        BY <4>1
    <3>10. QED
      BY <3>6, <3>7, <3>8, <3>9
  <2>4. QED
    BY <2>1, <2>2, <2>3
       DEF Next, BeginWork, BeginOther, BeginChange, TakeLock, Authorize, Leave,
           CreateInvitation, RevokeInvitation, ReissueInvitation, Expire, UnchangedData
<1>3. QED
  BY <1>1, <1>2, Invariance, PTL DEF Spec, RaisedByOwner

-----------------------------------------------------------------------------
(***************************************************************************)
(* Transactions that keep the order do not wait in a circle, however many  *)
(* there are, whomever they are about and whatever others run: those that  *)
(* select an organization or revoke all sessions of a person.              *)
(*                                                                         *)
(* What a transaction waits for has a rank, and what it has can only be    *)
(* waited for at a lower or equal one (After).  Those plans climb: what one *)
(* has is After a rank lower than what it asks for next.  So whoever is    *)
(* waited for, and waits himself, waits at a higher rank.  The exception   *)
(* is a membership that is asked for exclusively by a transaction that     *)
(* reads another one: both plans that do so take lock 36 before, which     *)
(* only one transaction has.                                               *)
(***************************************************************************)

LockStep == [lock : Locks, of : {"self", "other", "session", "elsewhere", "company"},
             mode : {"S", "X"}]

\* The rank of waiting for a lock.
Rank(step) ==
  CASE step.lock = "session" -> 1
    [] step.lock = "identity" /\ step.mode = "X" -> 2
    [] step.lock = "36" -> 3
    [] step.lock = "invitation" -> 4
    [] step.lock = "member" /\ step.mode = "X" -> 5
    [] step.lock = "entitlement" /\ step.mode = "X" -> 6
    [] step.lock = "38" -> 7
    [] step.lock \in {"job", "receiptJob"} -> 8
    [] step.lock \in {"recipe", "source"} -> 9
    [] step.lock = "29" -> 10
    [] step.lock = "31" -> 11
    [] step.lock = "member" /\ step.mode = "S" -> 12
    [] step.lock = "entitlement" /\ step.mode = "S" -> 13
    [] OTHER -> 14

\* The highest rank of those who may wait for what a step has locked: for a row
\* that is shared, of those who want it exclusively.
After(step) ==
  IF step.mode = "X"
  THEN Rank([step EXCEPT !.mode = "S"])
  ELSE Rank([step EXCEPT !.mode = "X"])

Exclusive(step) == step.lock = "member" /\ step.mode = "X"

\* A plan climbs, but for a membership that is taken exclusively under lock 36.
Climbs(steps) ==
  \A j, k \in 1..Len(steps) : j < k =>
    \/ After(steps[j]) < Rank(steps[k])
    \/ /\ steps[j].lock = "member" /\ steps[j].mode = "S" /\ Exclusive(steps[k])
Serialized(steps) ==
  \A k \in 1..Len(steps) : Exclusive(steps[k]) =>
    \E j \in 1..(k - 1) : steps[j] = The("36", "X")

-----------------------------------------------------------------------------
LEMMA Ranks ==
  ASSUME NEW s \in LockStep PROVE Rank(s) \in 1..14 /\ After(s) \in 1..14
  BY DEF LockStep, Locks, Rank, After

\* Who waits for a lock because of what another has waits at most at After of that.
LEMMA Conflict ==
  ASSUME NEW s \in LockStep, NEW h \in LockStep, s.lock = h.lock,
         "X" \in {s.mode, h.mode} \/ s.lock \in Advisory
  PROVE  Rank(s) <= After(h)
<1>1. CASE h.mode = "X"
  BY <1>1 DEF LockStep, Locks, Rank, After, Advisory
<1>2. CASE h.mode = "S"
  BY <1>2 DEF LockStep, Locks, Rank, After, Advisory
<1>3. QED
  BY <1>1, <1>2 DEF LockStep

Legal(steps) == steps \in Seq(LockStep) /\ Len(steps) \in 1..9
Good(steps) == Legal(steps) /\ Climbs(steps) /\ Serialized(steps)

\* Each plan that keeps the order climbs.
LEMMA OrderedIsGood == ASSUME NEW p \in Ordered PROVE Good(Plan[p])
<1> USE DEF Good, Legal, Climbs, Serialized, Exclusive, LockStep, Locks, Rank, After,
           Own, Their, The, Session
<1>1. Good(ReviewLeadLocks)
  BY DEF ReviewLeadLocks
<1>2. Good(UpdateTaskLocks)
  BY DEF UpdateTaskLocks
<1>3. Good(PlanVisitLocks)
  BY DEF PlanVisitLocks
<1>4. Good(ReadWorkspaceLocks)
  BY DEF ReadWorkspaceLocks
<1>5. Good(ConfigureSourceLocks)
  BY DEF ConfigureSourceLocks
<1>6. Good(SaveRecipeLocks)
  BY DEF SaveRecipeLocks
<1>7. Good(ControlJobLocks)
  BY DEF ControlJobLocks
<1>8. Good(ChangeMemberLocks)
  BY DEF ChangeMemberLocks
<1>9. Good(AcceptInvitationLocks)
  BY DEF AcceptInvitationLocks
<1>10. Good(SetEntitlementLocks)
  BY DEF SetEntitlementLocks
<1>11. Good(RotateSessionLocks)
  BY DEF RotateSessionLocks
<1>12. Good(RunRecipeLocks)
  BY DEF RunRecipeLocks
<1>13. Good(ProcessReceiptLocks)
  BY DEF ProcessReceiptLocks
<1>14. Good(ReceiveFormLocks)
  BY DEF ReceiveFormLocks
<1> HIDE DEF Good
<1>15. QED
  BY <1>1, <1>2, <1>3, <1>4, <1>5, <1>6, <1>7, <1>8, <1>9, <1>10, <1>11, <1>12, <1>13, <1>14 DEF Ordered, Plans, Plan

-----------------------------------------------------------------------------
LEMMA PlansAreLegal == ASSUME NEW p \in Plans PROVE Legal(Plan[p])
<1> USE DEF Legal, LockStep, Locks, Own, Session, OtherSession, The
<1>1. Legal(SelectOrganizationLocks)
  BY DEF SelectOrganizationLocks
<1>2. Legal(RevokeSessionsLocks)
  BY DEF RevokeSessionsLocks
<1>3. Legal(RevokeAllSessionsLocks)
  BY DEF RevokeAllSessionsLocks
<1>4. CASE p \in Ordered
  BY <1>4, OrderedIsGood DEF Good
<1> HIDE DEF Legal
<1>5. CASE p \in {"SelectOrganization", "RevokeSessions", "RevokeAllSessions"}
  BY <1>1, <1>2, <1>3, <1>5 DEF Plan
<1>6. QED
  BY <1>4, <1>5 DEF Ordered

-----------------------------------------------------------------------------
(***************************************************************************)
(* The invariant: nobody has a lock that another has in a conflicting mode. *)
(***************************************************************************)
Typed ==
  /\ conn \in [Connections -> {Free} \cup Running]
  /\ \A t \in Connections : conn[t] # Free =>
       conn[t].plan \in Plans /\ conn[t].at \in 1..Len(Plan[conn[t].plan])

Compatible == \A t, u \in Connections : \A n \in Done(t) : ~Refuses(u, t, n)

Inv == Typed /\ Compatible

\* What a running transaction is: steps of a plan.
LEMMA RunningFacts ==
  ASSUME Typed, NEW t \in Connections, conn[t] # Free
  PROVE  /\ conn[t] \in Running /\ Legal(Plan[conn[t].plan])
         /\ conn[t].plan \in Ordered => Good(Plan[conn[t].plan])
         /\ conn[t].at \in 1..Len(Plan[conn[t].plan])
         /\ \A n \in 1..Len(Plan[conn[t].plan]) : Step(t, n) \in LockStep
<1>1. conn[t] \in Running /\ conn[t].plan \in Plans /\ conn[t].at \in 1..Len(Plan[conn[t].plan])
  BY DEF Typed
<1>2. Legal(Plan[conn[t].plan])
  BY <1>1, PlansAreLegal
<1>3. Plan[conn[t].plan] \in Seq(LockStep)
  BY <1>2 DEF Legal
<1>4. QED
  BY <1>1, <1>2, <1>3, OrderedIsGood DEF Step

LEMMA IdleHasNothing ==
  ASSUME NEW t \in Connections, conn[t] = Free PROVE Done(t) = {}
  BY DEF Done, Free

LEMMA InitInv == AllFree => Inv
<1> SUFFICES ASSUME AllFree PROVE Inv
  OBVIOUS
<1>1. \A t \in Connections : conn[t] = Free
  BY DEF AllFree
<1>2. QED
  BY <1>1, IdleHasNothing DEF AllFree, Inv, Typed, Compatible

\* What others have and want does not change with t.
LEMMA OthersKeep ==
  ASSUME NEW t \in Connections, NEW row, Typed, conn' = [conn EXCEPT ![t] = row],
         NEW u \in Connections \ {t}
  PROVE  /\ conn'[u] = conn[u] /\ Done(u)' = Done(u)
         /\ \A n : Step(u, n)' = Step(u, n) /\ Owner(u, n)' = Owner(u, n)
<1>1. conn'[u] = conn[u]
  BY DEF Typed
<1>2. QED
  BY <1>1 DEF Done, Step, Owner

\* t has one step more than before, which nobody refused.
LEMMA TakeCompatible ==
  ASSUME Inv, NEW t \in Connections, NEW row, conn' = [conn EXCEPT ![t] = row],
         row.at \in Nat \ {0},
         \A n \in 1..(row.at - 1) : /\ n \in Done(t)
                                   /\ Step(t, n)' = Step(t, n) /\ Owner(t, n)' = Owner(t, n),
         \A u \in Connections : ~Refuses(u, t, row.at)'
  PROVE  Compatible'
<1>1. conn'[t] = row /\ Done(t)' = 1..row.at
  BY DEF Inv, Typed, Done
<1>2. ASSUME NEW u \in Connections \ {t}, NEW n \in Done(t)', NEW k \in Done(u)'
      PROVE  ~(SameLock(t, n, u, k)' /\ "X" \in {Step(t, n).mode, Step(u, k).mode}')
  <2>1. k \in Done(u) /\ Step(u, k)' = Step(u, k) /\ Owner(u, k)' = Owner(u, k)
    BY <1>2, OthersKeep DEF Inv
  <2>2. CASE n = row.at
    BY <1>2, <2>2 DEF Refuses
  <2>3. CASE n # row.at
    <3>1. n \in 1..(row.at - 1)
      BY <1>1, <1>2, <2>3
    <3>2. n \in Done(t) /\ Step(t, n)' = Step(t, n) /\ Owner(t, n)' = Owner(t, n)
      BY <3>1
    <3>3. ~Refuses(u, t, n)
      BY <3>2 DEF Inv, Compatible
    <3>4. QED
      BY <2>1, <3>2, <3>3 DEF Refuses, SameLock
  <2>4. QED
    BY <2>2, <2>3
<1>3. ASSUME NEW u \in Connections \ {t}, NEW v \in Connections \ {t}, NEW n \in Done(v)'
      PROVE  ~Refuses(u, v, n)'
  <2>1. n \in Done(v) /\ Step(v, n)' = Step(v, n) /\ Owner(v, n)' = Owner(v, n)
    BY <1>3, OthersKeep DEF Inv
  <2>2. \A k \in Done(u)' : k \in Done(u) /\ Step(u, k)' = Step(u, k) /\ Owner(u, k)' = Owner(u, k)
    BY <1>3, OthersKeep DEF Inv
  <2>3. ~Refuses(u, v, n)
    BY <2>1 DEF Inv, Compatible
  <2>4. QED
    BY <2>1, <2>2, <2>3 DEF Refuses, SameLock
<1>4. SUFFICES ASSUME NEW u \in Connections, NEW v \in Connections, NEW n \in Done(v)',
                      Refuses(u, v, n)'
               PROVE  FALSE
  BY DEF Compatible
<1>5. u # v /\ \E k \in Done(u)' : /\ SameLock(v, n, u, k)'
                                  /\ "X" \in {Step(v, n).mode, Step(u, k).mode}'
  BY <1>4 DEF Refuses
<1>6. CASE v = t
  BY <1>2, <1>4, <1>5, <1>6
<1>7. CASE u = t
  BY <1>2, <1>4, <1>5, <1>7 DEF SameLock
<1>8. QED
  BY <1>3, <1>4, <1>6, <1>7

LEMMA BeginKeeps ==
  ASSUME Inv, NEW t \in Connections, NEW p \in Plans, NEW a \in People, NEW b \in People,
         NEW s \in SessionsOf(p, "session"), NEW e \in SessionsOf(p, "elsewhere"),
         Begin(t, p, a, b, s, e)
  PROVE  Inv'
<1>1. PICK row : row = [plan |-> p, self |-> a, other |-> b,
                        session |-> s, elsewhere |-> e, at |-> 1]
  OBVIOUS
<1>2. conn' = [conn EXCEPT ![t] = row] /\ \A u \in Connections : ~Refuses(u, t, 1)'
  BY <1>1 DEF Begin
<1>3. Legal(Plan[p]) /\ s \in SomeSession /\ e \in SomeSession
  BY PlansAreLegal DEF SessionsOf, SomeSession
<1>4. 1 \in 1..Len(Plan[p])
  <2>1. PICK n \in 1..9 : n = Len(Plan[p])
    BY <1>3 DEF Legal
  <2>2. 1 \in 1..n
    OBVIOUS
  <2>3. QED
    BY <2>1, <2>2
<1>5. row \in Running /\ row.at = 1 /\ row.plan = p
  BY <1>1, <1>3 DEF Running
<1>6. Typed'
  BY <1>2, <1>4, <1>5 DEF Inv, Typed
<1>7. /\ row.at \in Nat \ {0} /\ 1..(row.at - 1) = {}
      /\ \A u \in Connections : ~Refuses(u, t, row.at)'
  BY <1>2, <1>5
<1>8. Compatible'
  BY <1>2, <1>7, TakeCompatible
<1>9. QED
  BY <1>6, <1>8 DEF Inv

LEMMA AcquireInv ==
  ASSUME Inv, NEW t \in Connections, Acquire(t)
  PROVE  Inv'
<1>1. PICK row : row = [conn[t] EXCEPT !.at = conn[t].at + 1]
  OBVIOUS
<1>2. conn[t] # Free /\ Wanting(t) /\ conn' = [conn EXCEPT ![t] = row]
  BY <1>1 DEF Acquire
<1>3. \A u \in Connections : ~Refuses(u, t, Wanted(t))
  BY DEF Acquire
<1>4. /\ conn[t] \in Running /\ Legal(Plan[conn[t].plan]) /\ conn[t].plan \in Plans
      /\ conn[t].at \in 1..Len(Plan[conn[t].plan])
  BY <1>2, RunningFacts DEF Inv, Typed
<1>5. PICK size \in 1..9 : size = Len(Plan[conn[t].plan]) /\ conn[t].at < size
  BY <1>2, <1>4 DEF Wanting, Legal
<1>6. conn[t].at + 1 \in 1..Len(Plan[conn[t].plan]) /\ conn[t].at + 1 \in 1..9
  <2>1. conn[t].at \in 1..size
    BY <1>4, <1>5
  <2>2. PICK at \in 1..size : at = conn[t].at /\ at < size
    BY <1>5, <2>1
  <2>3. at + 1 \in 1..size /\ at + 1 \in 1..9
    BY <2>2
  <2>4. QED
    BY <1>5, <2>2, <2>3
<1>7. /\ row \in Running /\ row.plan = conn[t].plan /\ row.at = conn[t].at + 1
      /\ row.self = conn[t].self /\ row.other = conn[t].other
      /\ row.session = conn[t].session /\ row.elsewhere = conn[t].elsewhere
  BY <1>1, <1>4, <1>6 DEF Running
<1>8. conn'[t] = row
  BY <1>2 DEF Inv, Typed
<1>9. \A n : Step(t, n)' = Step(t, n) /\ Owner(t, n)' = Owner(t, n)
  BY <1>7, <1>8 DEF Step, Owner
<1>10. \A u \in Connections : ~Refuses(u, t, row.at)'
  <2> SUFFICES ASSUME NEW u \in Connections, Refuses(u, t, row.at)'
               PROVE  FALSE
    OBVIOUS
  <2>1. u # t
    BY DEF Refuses
  <2>2. PICK k \in Done(u)' : /\ SameLock(t, row.at, u, k)'
                              /\ "X" \in {Step(t, row.at)'.mode, Step(u, k)'.mode}
    BY DEF Refuses
  <2>3. k \in Done(u) /\ Step(u, k)' = Step(u, k) /\ Owner(u, k)' = Owner(u, k)
    BY <1>2, <2>1, OthersKeep DEF Inv
  <2>4. SameLock(t, row.at, u, k) /\ "X" \in {Step(t, row.at).mode, Step(u, k).mode}
    BY <1>9, <2>2, <2>3 DEF SameLock
  <2>5. row.at = Wanted(t)
    BY <1>7 DEF Wanted
  <2>6. QED
    BY <1>3, <2>1, <2>3, <2>4, <2>5 DEF Refuses
<1>11. Typed'
  BY <1>2, <1>4, <1>6, <1>7, <1>8 DEF Inv, Typed
<1>12. row.at - 1 = conn[t].at /\ row.at \in Nat \ {0}
  BY <1>4, <1>7
<1>13. \A n \in 1..(row.at - 1) : n \in Done(t)
  BY <1>12 DEF Done
<1>14. Compatible'
  BY <1>2, <1>9, <1>10, <1>12, <1>13, TakeCompatible
<1>15. QED
  BY <1>11, <1>14 DEF Inv

LEMMA EndInv ==
  ASSUME Inv, NEW t \in Connections, Release(t)
  PROVE  Inv'
<1>1. conn' = [conn EXCEPT ![t] = Free]
  BY DEF Release
<1>2. conn'[t] = Free /\ Done(t)' = {}
  BY <1>1 DEF Inv, Typed, Done, Free
<1>3. Typed'
  BY <1>1 DEF Inv, Typed
<1>4. ASSUME NEW u \in Connections, NEW v \in Connections, NEW n \in Done(v)'
      PROVE  ~Refuses(u, v, n)'
  <2>1. CASE u = t \/ v = t
    BY <1>2, <1>4, <2>1 DEF Refuses
  <2>2. CASE u # t /\ v # t
    <3>1. n \in Done(v) /\ Step(v, n)' = Step(v, n) /\ Owner(v, n)' = Owner(v, n)
      BY <1>1, <1>4, <2>2, OthersKeep DEF Inv
    <3>2. \A k \in Done(u)' :
             k \in Done(u) /\ Step(u, k)' = Step(u, k) /\ Owner(u, k)' = Owner(u, k)
      BY <1>1, <2>2, OthersKeep DEF Inv
    <3>3. ~Refuses(u, v, n)
      BY <3>1 DEF Inv, Compatible
    <3>4. QED
      BY <3>1, <3>2, <3>3 DEF Refuses, SameLock
  <2>3. QED
    BY <2>1, <2>2
<1>5. QED
  BY <1>3, <1>4 DEF Inv, Compatible

-----------------------------------------------------------------------------
(***************************************************************************)
(* No circle.                                                              *)
(***************************************************************************)
Wish(t) == Step(t, Wanted(t))

LEMMA WishFacts ==
  ASSUME Inv, NEW t \in Connections, conn[t] # Free, Wanting(t)
  PROVE  /\ Wish(t) \in LockStep /\ Wanted(t) \in 1..Len(Plan[conn[t].plan])
         /\ Done(t) = 1..(Wanted(t) - 1)
<1>1. conn[t].at \in 1..Len(Plan[conn[t].plan]) /\ Legal(Plan[conn[t].plan])
  BY RunningFacts DEF Inv
<1>2. Wanted(t) \in 1..Len(Plan[conn[t].plan]) /\ Wanted(t) - 1 = conn[t].at
  BY <1>1 DEF Wanting, Wanted, Legal
<1>3. QED
  BY <1>2, RunningFacts DEF Inv, Wish, Done

\* Who keeps the order and asks for a membership exclusively has lock 36.
LEMMA HasLock36 ==
  ASSUME Inv, NEW t \in Connections, conn[t] # Free, conn[t].plan \in Ordered,
         Wanting(t), Exclusive(Wish(t))
  PROVE  \E j \in Done(t) : Step(t, j) = The("36", "X") /\ Owner(t, j) = Company
<1>1. Wanted(t) \in 1..Len(Plan[conn[t].plan]) /\ Done(t) = 1..(Wanted(t) - 1)
  BY WishFacts
<1>2. Serialized(Plan[conn[t].plan])
  BY RunningFacts DEF Inv, Good
<1>3. PICK j \in 1..(Wanted(t) - 1) : Step(t, j) = The("36", "X")
  BY <1>1, <1>2 DEF Serialized, Step, Wish
<1>4. Owner(t, j) = Company
  BY <1>3 DEF Owner, The
<1>5. QED
  BY <1>1, <1>3, <1>4

\* Whoever keeps the order, is waited for, and waits, waits at a higher rank.
LEMMA Rises ==
  ASSUME Inv, NEW t \in Connections, NEW u \in Connections, WaitsFor(t, u),
         conn[u] # Free, Wanting(u), conn[t].plan \in Ordered, conn[u].plan \in Ordered
  PROVE  Rank(Wish(t)) < Rank(Wish(u))
<1>1. t # u /\ conn[t] # Free /\ Wanting(t)
  BY DEF WaitsFor, Refuses
<1>2. PICK k \in Done(u) : /\ Wish(t).lock = Step(u, k).lock
                           /\ \/ "X" \in {Wish(t).mode, Step(u, k).mode}
                              \/ Wish(t).lock \in Advisory
  BY DEF WaitsFor, Refuses, SameLock, Wish
<1> DEFINE h == Step(u, k)
<1>3. /\ Wish(t) \in LockStep /\ Wish(u) \in LockStep /\ h \in LockStep
      /\ k \in 1..Len(Plan[conn[u].plan]) /\ k < Wanted(u)
      /\ Wanted(u) \in 1..Len(Plan[conn[u].plan])
  BY <1>1, WishFacts, RunningFacts DEF Inv
<1>4. Rank(Wish(t)) <= After(h)
  BY <1>2, <1>3, Conflict
<1>5. Climbs(Plan[conn[u].plan])
  BY RunningFacts DEF Inv, Good
<1>6. \/ After(h) < Rank(Wish(u))
      \/ h.lock = "member" /\ h.mode = "S" /\ Exclusive(Wish(u))
  BY <1>3, <1>5 DEF Climbs, Step, Wish
<1>7. CASE h.lock = "member" /\ h.mode = "S" /\ Exclusive(Wish(u))
  <2>1. Exclusive(Wish(t))
    BY <1>2, <1>3, <1>7 DEF Exclusive, Advisory, LockStep
  <2>2. PICK i \in Done(t) : Step(t, i) = The("36", "X") /\ Owner(t, i) = Company
    BY <1>1, <2>1, HasLock36
  <2>3. PICK j \in Done(u) : Step(u, j) = The("36", "X") /\ Owner(u, j) = Company
    BY <1>7, HasLock36
  <2>4. ~Refuses(u, t, i)
    BY DEF Inv, Compatible
  <2>5. QED
    BY <1>1, <2>2, <2>3, <2>4 DEF Refuses, SameLock, The
<1>8. Rank(Wish(t)) \in 1..14 /\ Rank(Wish(u)) \in 1..14 /\ After(h) \in 1..14
  BY <1>3, Ranks
<1> HIDE DEF h
<1>9. QED
  BY <1>4, <1>6, <1>7, <1>8

\* A set of ranks has a highest one: whichever of the fourteen is the first found
\* in it on the way down.
LEMMA Highest ==
  ASSUME NEW S \in SUBSET (1..14), S # {}
  PROVE  \E m \in S : \A k \in S : k <= m
<1> DEFINE Top(m) == m \in S /\ \A k \in S : k <= m
<1>1. CASE \E m \in 8..14 : m \in S
  <2>1. Top(14) \/ Top(13) \/ Top(12) \/ Top(11) \/ Top(10) \/ Top(9) \/ Top(8)
    BY <1>1
  <2>2. QED
    BY <2>1
<1>2. CASE \A m \in 8..14 : m \notin S
  <2>1. Top(7) \/ Top(6) \/ Top(5) \/ Top(4) \/ Top(3) \/ Top(2) \/ Top(1)
    <3>1. \A k \in S : k \in 1..7
      BY <1>2
    <3>2. 7 \in S \/ 6 \in S \/ 5 \in S \/ 4 \in S \/ 3 \in S \/ 2 \in S \/ 1 \in S
      <4>1. PICK k \in S : TRUE
        OBVIOUS
      <4>2. k \in 1..7
        BY <3>1
      <4>3. k = 1 \/ k = 2 \/ k = 3 \/ k = 4 \/ k = 5 \/ k = 6 \/ k = 7
        BY <4>2
      <4>4. QED
        BY <4>3
    <3>3. QED
      BY <3>1, <3>2
  <2>2. QED
    BY <2>1
<1>3. QED
  BY <1>1, <1>2

LEMMA InvNoDeadlock == Inv => OrderedNoDeadlock
<1> SUFFICES ASSUME Inv, NEW circle \in SUBSET Connections, circle # {},
                    \A t \in circle : conn[t].plan \in Ordered,
                    \A t \in circle : \E u \in circle : WaitsFor(t, u)
             PROVE  FALSE
  BY DEF OrderedNoDeadlock, Circle
<1>1. \A t \in circle : conn[t] # Free /\ Wanting(t) /\ Rank(Wish(t)) \in 1..14
  BY WishFacts, Ranks DEF WaitsFor
<1> DEFINE ranks == {Rank(Wish(t)) : t \in circle}
<1>2. PICK m \in ranks : \A k \in ranks : k <= m
  <2>1. ranks \in SUBSET (1..14) /\ ranks # {}
    BY <1>1
  <2> HIDE DEF ranks
  <2>2. QED
    BY <2>1, Highest
<1>3. PICK t \in circle : Rank(Wish(t)) = m
  BY <1>2
<1>4. PICK u \in circle : WaitsFor(t, u)
  OBVIOUS
<1>5. Rank(Wish(t)) < Rank(Wish(u)) /\ Rank(Wish(u)) <= m
  BY <1>1, <1>2, <1>4, Rises
<1>6. QED
  BY <1>1, <1>3, <1>5

-----------------------------------------------------------------------------
THEOREM LocksInvariant == FullSpec => []Inv
<1>1. Inv /\ [NextOf(Plans)]_connVars => Inv'
  <2> SUFFICES ASSUME Inv, [NextOf(Plans)]_connVars PROVE Inv'
    OBVIOUS
  <2>1. ASSUME NEW t \in Connections, Acquire(t) \/ Release(t)
        PROVE  Inv'
    BY <2>1, AcquireInv, EndInv
  <2>2. ASSUME NEW t \in Connections, NEW p \in Plans, NEW a \in People, NEW b \in People,
               NEW s \in SessionsOf(p, "session"), NEW e \in SessionsOf(p, "elsewhere"),
               Begin(t, p, a, b, s, e)
        PROVE  Inv'
    BY <2>2, BeginKeeps
  <2>3. CASE NextOf(Plans)
    <3>1. PICK t \in Connections :
            \/ \E p \in Plans, a, b \in People :
                 \E s \in SessionsOf(p, "session"), e \in SessionsOf(p, "elsewhere") :
                   Begin(t, p, a, b, s, e)
            \/ Acquire(t) \/ Release(t)
      BY <2>3 DEF NextOf
    <3>2. QED
      BY <2>1, <2>2, <3>1
  <2>4. CASE UNCHANGED connVars
    <3>1. Typed' /\ \A t : Done(t)' = Done(t)
      BY <2>4 DEF connVars, Inv, Typed, Done
    <3>2. \A t, n : Step(t, n)' = Step(t, n) /\ Owner(t, n)' = Owner(t, n)
      BY <2>4 DEF connVars, Step, Owner
    <3>3. QED
      BY <3>1, <3>2 DEF Inv, Compatible, Refuses, SameLock
  <2>5. QED
    BY <2>3, <2>4
<1>2. QED
  BY <1>1, InitInv, PTL DEF FullSpec

\* However many transactions of the company run, in however many sessions of
\* however many people, those that keep the order never wait in a circle of their
\* own, also while others select an organization or revoke all sessions of a person
\* (withAdministrationTransaction; the lock statements of the repositories).
THEOREM Deadlock == FullSpec => []OrderedNoDeadlock
  BY LocksInvariant, InvNoDeadlock, PTL
=============================================================================
