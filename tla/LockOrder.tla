------------------------------ MODULE LockOrder ------------------------------
(***************************************************************************)
(* The order in which database transactions of one company take their      *)
(* locks, and who then waits for whom.                                     *)
(*                                                                         *)
(* A transaction is a plan, its steps the lock statements of one code      *)
(* path; what it does between them is left out.  It may end after any      *)
(* step, so a plan stands for every shorter one.  Advisory locks bear the  *)
(* numbers of the code.  A row that only holders of one exclusive advisory *)
(* lock lock is left out, and an administrator's, which is taken only under *)
(* his identity's in the same mode; so are the organization's row, which   *)
(* nobody locks exclusively, what foreign keys lock, and transactions that *)
(* take one lock only (sign-in).                                           *)
(*                                                                         *)
(* PostgreSQL lets FOR SHARE join FOR SHARE although somebody waits for    *)
(* the row exclusively; an advisory lock is handed out in order.           *)
(***************************************************************************)
EXTENDS Naturals, Sequences

CONSTANTS
  Connections,   \* each runs one transaction at a time
  People,
  Sessions,      \* those one person has, in several browsers
  Company        \* the owner of what is nobody's own

VARIABLE conn    \* the plan of each transaction, whom it is about, and the locks it has
connVars == conn

-----------------------------------------------------------------------------
Own(lock, mode) == [lock |-> lock, of |-> "self", mode |-> mode]
Their(lock, mode) == [lock |-> lock, of |-> "other", mode |-> mode]
Session(mode) == [lock |-> "session", of |-> "session", mode |-> mode]
OtherSession(mode) == [lock |-> "session", of |-> "elsewhere", mode |-> mode]
The(lock, mode) == [lock |-> lock, of |-> "company", mode |-> mode]

\* withTenantTransaction: the session with its identity, the membership, the
\* module; then what the operation takes.
ReviewLeadLocks ==
  <<Session("S"), Own("identity", "S"), Own("member", "S"), The("entitlement", "S"),
    The("29", "X"), Their("member", "S"), Their("identity", "S")>>
UpdateTaskLocks ==
  <<Session("S"), Own("identity", "S"), Own("member", "S"), The("entitlement", "S"),
    The("29", "X"), The("31", "X")>>
PlanVisitLocks ==
  <<Session("S"), Own("identity", "S"), Own("member", "S"), The("entitlement", "S"),
    The("31", "X"), Their("member", "S"), Their("identity", "S")>>
ReadWorkspaceLocks ==
  <<Session("S"), Own("identity", "S"), Own("member", "S"), The("entitlement", "S"),
    The("31", "S")>>
ConfigureSourceLocks ==
  <<Session("S"), Own("identity", "S"), Own("member", "S"), The("entitlement", "S"),
    The("38", "X"), The("source", "X")>>
SaveRecipeLocks ==
  <<Session("S"), Own("identity", "S"), Own("member", "S"), The("entitlement", "S"),
    The("recipe", "X")>>
ControlJobLocks ==
  <<Session("S"), Own("identity", "S"), Own("member", "S"), The("entitlement", "S"),
    The("job", "X"), The("recipe", "S")>>

\* Seeded fault: the membership is read before administration is serialized.
ChangeMemberLateLocks ==
  <<Session("S"), Own("identity", "S"), Own("member", "S"), The("36", "X"),
    Their("member", "X"), Their("identity", "S")>>

\* withAdministrationTransaction; memberRow: FOR UPDATE OF m FOR SHARE OF i.
ChangeMemberLocks ==
  <<Session("S"), Own("identity", "S"), The("36", "X"), Own("member", "S"),
    Their("member", "X"), Their("identity", "S")>>

\* The inviter's membership and identity, then one's own new membership.
AcceptInvitationLocks ==
  <<Session("S"), Own("identity", "S"), The("36", "X"), The("invitation", "X"),
    Their("member", "S"), Their("identity", "S"), Own("member", "X")>>

SetEntitlementLocks == <<Session("S"), Own("identity", "S"), The("entitlement", "X")>>

\* rotateSession, a passkey, revokeSession of one session: FOR UPDATE OF s,i.
RotateSessionLocks == <<Session("X"), Own("identity", "X")>>

\* revokeSession with allSessions then updates every session of the identity: one
\* other stands for them.
RevokeSessionsLocks == <<Session("X"), Own("identity", "X"), OtherSession("X")>>

\* revokeAllSessions shares the session and the identity, and updates the same.
RevokeAllSessionsLocks ==
  <<Session("S"), Own("identity", "S"), Session("X"), OtherSession("X")>>

SelectOrganizationLocks == <<Session("X"), Own("identity", "X"), Own("member", "S")>>

\* Two members stand for all, whom the authority function locks in any order.
RunRecipeLocks ==
  <<The("job", "X"), The("recipe", "S"), Own("member", "S"), Own("identity", "S"),
    Their("member", "S"), Their("identity", "S"), The("entitlement", "S"),
    The("29", "X"), The("31", "X")>>

ProcessReceiptLocks ==
  <<The("38", "X"), The("receiptJob", "X"), The("source", "S"), Own("member", "S"),
    Own("identity", "S"), The("entitlement", "S"), The("29", "X")>>

ReceiveFormLocks ==
  <<The("38", "X"), The("source", "S"), Own("member", "S"), Own("identity", "S"),
    The("entitlement", "S")>>

Plan == [
  ReviewLead |-> ReviewLeadLocks, UpdateTask |-> UpdateTaskLocks,
  PlanVisit |-> PlanVisitLocks, ReadWorkspace |-> ReadWorkspaceLocks,
  ConfigureSource |-> ConfigureSourceLocks, SaveRecipe |-> SaveRecipeLocks,
  ControlJob |-> ControlJobLocks, ChangeMember |-> ChangeMemberLocks,
  AcceptInvitation |-> AcceptInvitationLocks, SetEntitlement |-> SetEntitlementLocks,
  RotateSession |-> RotateSessionLocks, RevokeSessions |-> RevokeSessionsLocks,
  RevokeAllSessions |-> RevokeAllSessionsLocks, SelectOrganization |-> SelectOrganizationLocks,
  RunRecipe |-> RunRecipeLocks, ProcessReceipt |-> ProcessReceiptLocks,
  ReceiveForm |-> ReceiveFormLocks]

Plans == DOMAIN Plan

\* Those that keep one order; the others lock a membership, or a second session,
\* after the identity.
Ordered == Plans \ {"SelectOrganization", "RevokeSessions", "RevokeAllSessions"}

-----------------------------------------------------------------------------
Locks == {"session", "identity", "member", "entitlement", "29", "31", "36", "38",
          "invitation", "job", "receiptJob", "recipe", "source"}
Advisory == {"29", "31", "36", "38"}

SomeSession == Sessions \cup {Company}

Free == [plan |-> "none", self |-> Company, other |-> Company,
         session |-> Company, elsewhere |-> Company, at |-> 0]
Running == [plan : Plans, self : People, other : People,
            session : SomeSession, elsewhere : SomeSession, at : 1..9]

\* What step n of a transaction locks.
Step(t, n) == Plan[conn[t].plan][n]
Owner(t, n) == CASE Step(t, n).of = "self" -> conn[t].self
                 [] Step(t, n).of = "other" -> conn[t].other
                 [] Step(t, n).of = "session" -> <<conn[t].self, conn[t].session>>
                 [] Step(t, n).of = "elsewhere" -> <<conn[t].self, conn[t].elsewhere>>
                 [] OTHER -> Company
SameLock(t, n, u, k) == Step(t, n).lock = Step(u, k).lock /\ Owner(t, n) = Owner(u, k)

Done(t) == 1..conn[t].at
Wanting(t) == conn[t].at < Len(Plan[conn[t].plan])
Wanted(t) == conn[t].at + 1

\* u has, in a conflicting mode, what step n of t locks.
Refuses(u, t, n) ==
  /\ u # t
  /\ \E k \in Done(u) : SameLock(t, n, u, k) /\ "X" \in {Step(t, n).mode, Step(u, k).mode}

ConnTypes ==
  \A t \in Connections :
    conn[t] = Free \/ (conn[t] \in Running /\ conn[t].at <= Len(Plan[conn[t].plan]))

AllFree == conn = [t \in Connections |-> Free]

About(plan, whom) == \E n \in 1..Len(Plan[plan]) : Plan[plan][n].of = whom

SessionsOf(plan, which) == IF About(plan, which) THEN Sessions ELSE {Company}

\* The first lock of a plan is taken as it begins, in session s; e is another one.
Begin(t, plan, a, b, s, e) ==
  /\ conn[t] = Free
  /\ About(plan, "self") \/ a = b
  /\ About(plan, "other") \/ b = a
  /\ About(plan, "elsewhere") => e # s
  /\ conn' = [conn EXCEPT ![t] = [plan |-> plan, self |-> a, other |-> b,
                                  session |-> s, elsewhere |-> e, at |-> 1]]
  /\ \A u \in Connections : ~Refuses(u, t, 1)'

Acquire(t) ==
  /\ conn[t] # Free /\ Wanting(t)
  /\ \A u \in Connections : ~Refuses(u, t, Wanted(t))
  /\ conn' = [conn EXCEPT ![t].at = @ + 1]

\* COMMIT or ROLLBACK releases everything.
Release(t) ==
  /\ conn[t] # Free
  /\ conn' = [conn EXCEPT ![t] = Free]

NextOf(plans) ==
  \E t \in Connections :
    \/ \E plan \in plans, a, b \in People :
         \E s \in SessionsOf(plan, "session"), e \in SessionsOf(plan, "elsewhere") :
           Begin(t, plan, a, b, s, e)
    \/ Acquire(t) \/ Release(t)

FullSpec == AllFree /\ [][NextOf(Plans)]_connVars

\* Those that keep the order, with the selection of an organization.
SelectionSpec == AllFree /\ [][NextOf(Ordered \cup {"SelectOrganization"})]_connVars

-----------------------------------------------------------------------------
\* t waits for u: for what u has, or in the queue of an advisory lock that u
\* shares and that somebody asks for exclusively.
WaitsFor(t, u) ==
  /\ conn[t] # Free /\ Wanting(t)
  /\ \/ Refuses(u, t, Wanted(t))
     \/ /\ u # t /\ Step(t, Wanted(t)).lock \in Advisory
        /\ \E k \in Done(u) : SameLock(t, Wanted(t), u, k)
        /\ \E w \in Connections :
             /\ conn[w] # Free /\ Wanting(w) /\ SameLock(t, Wanted(t), w, Wanted(w))
             /\ Step(w, Wanted(w)).mode = "X"

\* Each of these waits for one of them: PostgreSQL fails one, and no request of
\* the web application is repeated for that.
Circle(some) == some # {} /\ \A t \in some : \E u \in some : WaitsFor(t, u)

\* No transactions wait for one another in a circle (the comment of
\* withAdministrationTransaction: "Otherwise two owners removing one another can
\* deadlock").
NoDeadlock == \A some \in SUBSET Connections : ~Circle(some)

\* Transactions that keep the order of the code's locks never wait for one
\* another in a circle, whatever others run.  What select an organization or
\* revoke all sessions of a person are such others: each can be in a circle.
OrderedNoDeadlock ==
  \A some \in SUBSET {t \in Connections : conn[t].plan \in Ordered} : ~Circle(some)
=============================================================================
