----------------------------- MODULE MCGmailSync ------------------------------
(***************************************************************************)
(* Instances of GmailSync for TLC.                                         *)
(***************************************************************************)
EXTENDS GmailSync, TLC

\* Messages are alike, and so are invocations.
Alike == Permutations(Messages) \cup Permutations(Workers)

-----------------------------------------------------------------------------
\* A connection whose selection has just been saved, as SaveConnection leaves it,
\* and which people leave alone from then on.
SavedInit ==
  /\ \E m \in Messages : mailbox = <<[msg |-> m, enters |-> TRUE]>>
  /\ \E policy \in {"from_now", "bounded_backfill"} :
       source = [state |-> "active", gen |-> 1, granted |-> TRUE, policy |-> policy,
                 history |-> IF policy = "from_now" THEN 1 ELSE 0,
                 page |-> NoPage, coverage |-> "not_started"]
  /\ standing = [issuer |-> TRUE, entitled |-> TRUE]
  /\ operation = NoOne
  /\ job = QueuedJob(1, TRUE)
  /\ captured = {}
  /\ worker = [w \in Workers |-> Idle]
  /\ human = Absent
  /\ since = 1 /\ listed = FALSE /\ skipped = {} /\ owed = {}

SavedNext ==
  \/ \E m \in Messages : Mail(m)
  \/ LeaseExpires \/ BackoffPasses \/ OperationExpires \/ ChangeMembership
  \/ Polling

-----------------------------------------------------------------------------
\* What one run explores, from the first state on:
\* "people"  everything people do to a connection with one message, one invocation;
\* "mail"    mail that comes and goes, in pages of two, one invocation;
\* "turns"   two invocations, one of which may go on after its lease expired.
VARIABLE aspect

aspectVars == <<syncVars, aspect>>
Busy == {w \in Workers : worker[w] # Idle}
Mailbox == [people |-> 1, mail |-> MaxMailbox, turns |-> 2]

AspectInit ==
  \/ aspect = "people" /\ SyncInit
  \/ aspect = "mail" /\ SavedInit
  \/ aspect = "turns" /\ SavedInit /\ source.policy = "from_now"

AspectNext ==
  /\ \/ aspect = "people" /\ SyncNext
     \/ aspect # "people" /\ SavedNext
  /\ Len(mailbox') <= Mailbox[aspect]
  /\ aspect # "turns" => Cardinality(Busy') <= 1
  /\ UNCHANGED aspect

AspectSpec == AspectInit /\ [][AspectNext]_aspectVars

\* Without a backfill, and with people at work on the connection.
ReconnectInit == SavedInit /\ source.policy = "from_now" /\ aspect = "people"
ReconnectNext == SyncNext /\ UNCHANGED aspect
ReconnectSpec == ReconnectInit /\ [][ReconnectNext]_aspectVars
=============================================================================
