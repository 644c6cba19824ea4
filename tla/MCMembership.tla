----------------------------- MODULE MCMembership ------------------------------
(***************************************************************************)
(* Memberships, and the order of the locks that the transactions of a      *)
(* company take, for TLC.  One of them is explored at a time.              *)
(***************************************************************************)
EXTENDS LockOrder, Membership, Functions, TLC

VARIABLE aspect     \* what the run is about

\* Transactions are alike, everybody but the founder, and the sessions of a person.
Alike ==
  Permutations(Transactions) \cup Permutations(Identities \ {Founder}) \cup Permutations(Sessions)

Issues == {i \in Invitations : invitation[i].state # "none"}

\* Invitations are, too: they are issued in one order.
TheFirst == CHOOSE i \in Invitations : TRUE
InOrder == Issues = {} \/ TheFirst \in Issues

\* "access"  two people, one invitation, every transaction at once;
\* "life"    three people and two invitations, one transaction after another: the life
\*           of invitations over changes of their inviters and recipients;
\* "order"   the locks of two transactions of every kind, or of one of a person and two of
\*           the workers, about two people.
Bounds ==
  [access |-> [people |-> 2, issues |-> 1, running |-> 3, working |-> 1],
   life |-> [people |-> 3, issues |-> 2, running |-> 1, working |-> 0]]

\* Memberships are written this often: enough for one that is suspended and
\* restored, and another that is granted after that.
MaxWritten == 5

Involved ==
  ({Founder} \cup {m \in Identities : member[m].status # "none"}
     \cup {invitation[i].to : i \in Invitations}
     \cup UNION {{tx[t].actor, tx[t].target} : t \in Transactions}) \ {Nobody}

\* In the life of invitations, transactions that can only be refused
\* are left out, and changes of one's own membership.
Counts(t) ==
  LET m == tx[t].actor IN
  CASE tx[t].kind = "idle" -> TRUE
    [] tx[t].kind = "accept" -> \E i \in Invitations : invitation[i].to = m
    [] OTHER -> /\ Active(m) /\ member[m].role # "member" /\ m # tx[t].target
                /\ tx[t].target # Nobody => member[tx[t].target].status # "none"

WithinBounds ==
  /\ aspect = "life" => \A t \in Transactions : Counts(t)
  /\ InOrder
  /\ Cardinality(Involved) <= Bounds[aspect].people
  /\ Cardinality(Issues) <= Bounds[aspect].issues
  /\ Cardinality({t \in Transactions : tx[t].kind # "idle"}) <= Bounds[aspect].running
  /\ Cardinality({t \in Transactions : tx[t].kind = "work"}) <= Bounds[aspect].working
  /\ FoldFunction(LAMBDA x, n : x.version + n, 0, member) <= MaxWritten

Busy == {t \in Connections : conn[t].at # 0}
Requests == {t \in Busy : About(conn[t].plan, "session")}
Workers == {p \in Plans : ~About(p, "session")}
Admitted ==
  CASE Cardinality(Busy) < 2 \/ Requests = {} -> Plans
    [] Cardinality(Busy) = 2 /\ Cardinality(Requests) = 1 -> Workers
    [] OTHER -> {}

AspectInit == Init /\ AllFree /\ aspect \in DOMAIN Bounds \cup {"order"}
AspectNext ==
  /\ UNCHANGED aspect
  /\ \/ aspect # "order" /\ Next /\ UNCHANGED connVars /\ WithinBounds'
     \/ aspect = "order" /\ NextOf(Admitted) /\ UNCHANGED vars
AspectSpec == AspectInit /\ [][AspectNext]_<<vars, connVars, aspect>>
=============================================================================
