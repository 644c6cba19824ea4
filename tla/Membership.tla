------------------------------ MODULE Membership -------------------------------
(***************************************************************************)
(* Who belongs to one organization: memberships, the invitations that      *)
(* create or restore them, and the transactions that read and change both. *)
(*                                                                         *)
(* An ordinary transaction ("work") holds its actor's own membership FOR   *)
(* SHARE until it ends and acts with the role it read.  Administration     *)
(* takes advisory lock 36 first, then its actor's own membership, and only *)
(* then the row it changes.  Accepting an invitation takes lock 36 alone,  *)
(* since the recipient has no membership yet.  The last statement of a     *)
(* transaction that changes something and its COMMIT are one step; what it *)
(* waits for before that step is a state of its own.                       *)
(***************************************************************************)
EXTENDS Naturals, FiniteSets

CONSTANTS
  Identities,   \* people who may hold a session
  Founder,      \* the initial owner of provisionOrganization
  Invitations,  \* cpl_invitations
  Transactions, \* database transactions that may run at the same time
  Nobody,       \* no identity
  NoInvitation, \* replaces_id is NULL
  MaxVersion    \* bound on a membership's version

ASSUME MembershipAssumption ==
  /\ Founder \in Identities /\ Nobody \notin Identities
  /\ NoInvitation \notin Invitations
  /\ MaxVersion \in Nat \ {0}

VARIABLES
  member,      \* cpl_memberships
  invitation,  \* cpl_invitations
  tx,          \* running transactions
  disturbed,   \* invitations whose inviter's membership was changed since
  admitted     \* how many memberships each invitation created or restored

vars == <<member, invitation, tx, disturbed, admitted>>

\* "member" stands for every role below admin.
Roles == {"owner", "admin", "member"}
Statuses == {"active", "suspended", "removed"}
MemberRecord == [role : Roles, status : Statuses \cup {"none"}, version : 0..MaxVersion]
InvitationRecord ==
  [state : {"none", "open", "redeemed", "revoked"}, expired : BOOLEAN,
   to : Identities \cup {Nobody}, role : Roles, by : Identities \cup {Nobody},
   issued : 0..MaxVersion, replaces : Invitations \cup {NoInvitation}]
\* target: whom a "change" is about.  role, version: the access that was read.
TxRecord ==
  [kind : {"idle", "work", "change", "invite", "accept"}, actor : Identities \cup {Nobody},
   target : Identities \cup {Nobody}, lock : BOOLEAN, shares : BOOLEAN,
   role : Roles, version : 0..MaxVersion]

Idle == [kind |-> "idle", actor |-> Nobody, target |-> Nobody, lock |-> FALSE,
         shares |-> FALSE, role |-> "member", version |-> 0]
NoMembership == [role |-> "member", status |-> "none", version |-> 0]
NotIssued == [state |-> "none", expired |-> FALSE, to |-> Nobody, role |-> "member",
              by |-> Nobody, issued |-> 0, replaces |-> NoInvitation]

TypeOK ==
  /\ member \in [Identities -> MemberRecord]
  /\ invitation \in [Invitations -> InvitationRecord]
  /\ tx \in [Transactions -> TxRecord]
  /\ disturbed \in [Invitations -> BOOLEAN]
  /\ admitted \in [Invitations -> Nat]

\* provisionOrganization has created the company with its first owner.
Init ==
  /\ member = [m \in Identities |->
       IF m = Founder THEN [role |-> "owner", status |-> "active", version |-> 1]
                      ELSE NoMembership]
  /\ invitation = [i \in Invitations |-> NotIssued]
  /\ tx = [t \in Transactions |-> Idle]
  /\ disturbed = [i \in Invitations |-> FALSE]
  /\ admitted = [i \in Invitations |-> 0]

-----------------------------------------------------------------------------
(***************************************************************************)
(* Locks.                                                                  *)
(***************************************************************************)

\* Seeded fault: a membership may change under the transactions that read it.
UnsharedAlways(t, m) == TRUE

\* No transaction but t holds the membership of m FOR SHARE.
Unshared(t, m) ==
  \A u \in Transactions \ {t} : ~(tx[u].shares /\ tx[u].actor = m)

LockHeld == \E t \in Transactions : tx[t].lock

MayAuthorize(t) == tx[t].kind \in {"change", "invite"} /\ tx[t].lock

End(t) == tx' = [tx EXCEPT ![t] = Idle]
UnchangedData == UNCHANGED <<member, invitation, disturbed, admitted>>
Active(m) == member[m].status = "active"
Shared(t, m) == [tx[t] EXCEPT !.shares = TRUE, !.role = member[m].role,
                              !.version = member[m].version]

-----------------------------------------------------------------------------
(***************************************************************************)
(* Transactions come and go.                                               *)
(***************************************************************************)

\* authenticated: any operation of a tenant, with the access it runs under.
BeginWork(t, m) ==
  /\ tx[t].kind = "idle" /\ Active(m)
  /\ tx' = [tx EXCEPT ![t] = [Shared(t, m) EXCEPT !.kind = "work", !.actor = m]]
  /\ UnchangedData

\* withAdministrationTransaction and acceptInvitation, up to the session.
BeginChange(t, m, target) ==
  /\ tx[t].kind = "idle"
  /\ tx' = [tx EXCEPT ![t] = [Idle EXCEPT !.kind = "change", !.actor = m,
                                          !.target = target]]
  /\ UnchangedData

BeginOther(t, m, kind) ==
  /\ tx[t].kind = "idle"
  /\ tx' = [tx EXCEPT ![t] = [Idle EXCEPT !.kind = kind, !.actor = m]]
  /\ UnchangedData

TakeLock(t) ==
  /\ tx[t].kind \in {"change", "invite", "accept"}
  /\ ~LockHeld
  /\ tx' = [tx EXCEPT ![t].lock = TRUE]
  /\ UnchangedData

\* member(..., "members:manage"): owners and admins.
Authorize(t) ==
  LET m == tx[t].actor IN
  /\ MayAuthorize(t) /\ ~tx[t].shares
  /\ Active(m) /\ member[m].role \in {"owner", "admin"}
  /\ tx' = [tx EXCEPT ![t] = Shared(t, m)]
  /\ UnchangedData

\* A transaction that ends without effect: a reader, a refusal, an error or a
\* caller that died.
Leave(t) ==
  /\ tx[t].kind # "idle"
  /\ End(t)
  /\ UnchangedData

Expire(i) ==
  /\ invitation[i].state = "open" /\ ~invitation[i].expired
  /\ invitation' = [invitation EXCEPT ![i].expired = TRUE]
  /\ UNCHANGED <<member, tx, disturbed, admitted>>

-----------------------------------------------------------------------------
(***************************************************************************)
(* changeMember.                                                           *)
(***************************************************************************)

Ready(t, kind) == tx[t].kind = kind /\ tx[t].lock /\ tx[t].shares

CanChange(t, m) == tx[t].role = "owner" \/ member[m].role = "member"

\* Seeded fault: an admin may hand out the role he holds.
MayGrantOwn(t, role) == tx[t].role = "owner" \/ role # "owner"

MayGrant(t, role) == tx[t].role = "owner" \/ role = "member"

ActiveOwners == {m \in Identities : Active(m) /\ member[m].role = "owner"}

\* Seeded fault: off by one in the count of owners.
KeepsSome(m, role, status) ==
  member[m].role = "owner" /\ Active(m) /\ (role # "owner" \/ status # "active")
    => Cardinality(ActiveOwners) >= 1

\* Somebody else owns the company if m will not.
KeepsOwner(m, role, status) ==
  member[m].role = "owner" /\ Active(m) /\ (role # "owner" \/ status # "active")
    => Cardinality(ActiveOwners) >= 2

Changed(m, role, status) ==
  [role |-> role, status |-> status, version |-> member[m].version + 1]

ChangeMember(t, role, status) ==
  LET m == tx[t].target IN
  /\ Ready(t, "change")
  /\ member[m].status # "none" /\ member[m].version < MaxVersion
  /\ Unshared(t, m)
  /\ CanChange(t, m) /\ MayGrant(t, role)
  /\ KeepsOwner(m, role, status)
  /\ member' = [member EXCEPT ![m] = Changed(m, role, status)]
  /\ disturbed' = [i \in Invitations |->
                     disturbed[i] \/ (invitation[i].state # "none" /\ invitation[i].by = m)]
  /\ End(t)
  /\ UNCHANGED <<invitation, admitted>>

-----------------------------------------------------------------------------
(***************************************************************************)
(* Invitations.                                                            *)
(***************************************************************************)

Open(i) == invitation[i].state = "open" /\ ~invitation[i].expired

\* An invitation other than the one that is being revoked waits for "to".
Invited(to, without) == \E i \in Invitations \ {without} : Open(i) /\ invitation[i].to = to

MayJoin(to) ==
  \/ member[to].status = "none"
  \/ member[to].status = "removed" /\ member[to].role # "owner"

\* issue
Issueable(t, i, to, role, replaces) ==
  /\ invitation[i].state = "none"
  /\ role # "owner" /\ MayGrant(t, role)
  /\ MayJoin(to) /\ ~Invited(to, replaces)

Issued(t, to, role, replaces) ==
  [state |-> "open", expired |-> FALSE, to |-> to, role |-> role, by |-> tx[t].actor,
   issued |-> tx[t].version, replaces |-> replaces]

CreateInvitation(t, i, to, role) ==
  /\ Ready(t, "invite")
  /\ Issueable(t, i, to, role, NoInvitation)
  /\ invitation' = [invitation EXCEPT ![i] = Issued(t, to, role, NoInvitation)]
  /\ End(t)
  /\ UNCHANGED <<member, disturbed, admitted>>

Replaced(i) == \E j \in Invitations : invitation[j].replaces = i

RevokeInvitation(t, i) ==
  /\ Ready(t, "invite")
  /\ invitation[i].state = "open" /\ MayGrant(t, invitation[i].role)
  /\ invitation' = [invitation EXCEPT ![i].state = "revoked"]
  /\ End(t)
  /\ UNCHANGED <<member, disturbed, admitted>>

\* One that was revoked before may be issued again, once.
ReissueInvitation(t, i, j) ==
  LET row == invitation[i] IN
  /\ Ready(t, "invite")
  /\ row.state \in {"open", "revoked"} /\ MayGrant(t, row.role) /\ ~Replaced(i)
  /\ Issueable(t, j, row.to, row.role, i)
  /\ invitation' = [invitation EXCEPT ![i].state = "revoked",
                                      ![j] = Issued(t, row.to, row.role, i)]
  /\ End(t)
  /\ UNCHANGED <<member, disturbed, admitted>>

\* Seeded fault: what was redeemed may be redeemed again.
PendingAgain(i) ==
  LET by == invitation[i].by IN
  /\ invitation[i].state \in {"open", "redeemed"} /\ ~invitation[i].expired
  /\ Active(by) /\ member[by].version = invitation[i].issued

\* invitationStatus is "pending".
Pending(i) ==
  LET by == invitation[i].by IN
  /\ Open(i)
  /\ Active(by) /\ member[by].role \in {"owner", "admin"}
  /\ invitation[i].role = "admin" => member[by].role = "owner"
  /\ member[by].version = invitation[i].issued

AcceptInvitation(t, i) ==
  LET m == tx[t].actor IN
  /\ tx[t].kind = "accept" /\ tx[t].lock
  /\ invitation[i].to = m /\ Pending(i)
  /\ MayJoin(m) /\ member[m].version < MaxVersion
  /\ member' = [member EXCEPT ![m] = [role |-> invitation[i].role, status |-> "active",
                                      version |-> member[m].version + 1]]
  /\ invitation' = [invitation EXCEPT ![i].state = "redeemed"]
  /\ disturbed' = [j \in Invitations |->
                     disturbed[j] \/ (invitation[j].state # "none" /\ invitation[j].by = m)]
  /\ admitted' = [admitted EXCEPT ![i] = admitted[i] + 1]
  /\ End(t)

-----------------------------------------------------------------------------
Next ==
  \/ \E t \in Transactions :
       \/ \E m \in Identities : \/ BeginWork(t, m)
                                \/ BeginOther(t, m, "invite") \/ BeginOther(t, m, "accept")
                                \/ \E target \in Identities : BeginChange(t, m, target)
       \/ TakeLock(t) \/ Authorize(t) \/ Leave(t)
       \/ \E role \in Roles, status \in Statuses : ChangeMember(t, role, status)
       \/ \E i \in Invitations :
            \/ \E to \in Identities, role \in Roles : CreateInvitation(t, i, to, role)
            \/ RevokeInvitation(t, i) \/ AcceptInvitation(t, i)
            \/ \E j \in Invitations : ReissueInvitation(t, i, j)
  \/ \E i \in Invitations : Expire(i)

Spec == Init /\ [][Next]_vars

-----------------------------------------------------------------------------
(***************************************************************************)
(* Properties.                                                             *)
(***************************************************************************)

\* However owners demote and remove one another, or themselves, at the same
\* time, the company keeps an active owner (cpl-administration-repository.ts:475).
OwnerRemains == ActiveOwners # {}

\* While a transaction runs, its access is what the membership says: nobody is
\* suspended or demoted under it (tenant-repository.ts:418, "Ordinary operations
\* retain live membership locks").
AccessIsLive ==
  \A t \in Transactions : tx[t].shares =>
    /\ Active(tx[t].actor)
    /\ member[tx[t].actor].role = tx[t].role /\ member[tx[t].actor].version = tx[t].version

\* One admission for one invitation: a recipient never holds two that could be
\* accepted, whether issued, replaced or left over from an earlier membership;
\* each admits once, so who was removed does not come back by it; and it is
\* replaced by one successor, only while it admitted nobody.
RedeemedOnce ==
  /\ \A i, j \in Invitations :
       Open(i) /\ Open(j) /\ invitation[i].to = invitation[j].to => i = j
  /\ \A i \in Invitations : admitted[i] <= 1
  /\ \A i, j, k \in Invitations :
       /\ invitation[j].replaces = i /\ invitation[k].replaces = i => j = k
       /\ invitation[j].replaces = i => admitted[i] = 0

\* Nobody becomes an owner or an admin but by an owner: by his transaction, or
\* by an invitation of one who is an active owner at that moment.  And once its
\* inviter's membership was changed, an invitation admits nobody, even when the
\* inviter was restored to what he was.
RaisedByOwner ==
  [][/\ \A i \in Invitations : disturbed[i] => admitted'[i] = admitted[i]
     /\ \A m \in Identities :
          LET rank == member'[m].role
              gains == member'[m].status = "active" /\ rank # "member"
                         /\ (member[m].role # rank \/ ~Active(m))
          IN  gains =>
                \/ \E t \in Transactions : /\ tx[t].kind = "change" /\ tx'[t].kind = "idle"
                                           /\ tx[t].actor \in ActiveOwners
                \/ rank = "admin" /\ \E i \in Invitations :
                     /\ admitted'[i] # admitted[i]
                     /\ invitation[i].by \in ActiveOwners]_vars
=============================================================================
