---------------------------- MODULE ExchangeProofs ----------------------------
(***************************************************************************)
(* What a company exchanges with the outside: the mail that comes in       *)
(* (GmailSync) and the documents that go out (Delivery, Closeout).  The    *)
(* two share no state; they share this module's numbers and sets.          *)
(*                                                                         *)
(* Synchronization, for any mailbox, workers, page sizes and attempts.     *)
(* CheckpointAccounts alone is not inductive: a checkpoint is written from *)
(* what a worker remembers of a page, perhaps stored by another worker in  *)
(* an earlier turn.  The invariant therefore says what each cursor has     *)
(* passed of its line (Passed), that this is true of the stored page       *)
(* (Saved) and of the cursor of a worker that holds the job at the         *)
(* source's generation (Trusting): whoever lost the lease or the           *)
(* generation may believe anything, and writes nothing.                    *)
(***************************************************************************)
EXTENDS GmailSync, Closeout, FiniteSetTheorems, SequenceTheorems, WellFoundedInduction, TLAPS

-----------------------------------------------------------------------------
\* What a cursor has passed of the line of checkpoints that begins at since is
\* captured, found gone, on its page or in hand, and what was found gone is warned of.
OnPage(c) == {entry[1] : entry \in c.pending}
Before(h) == {m \in Labelled : LastOf(m) <= h}
Kept(c) == captured \cup (IF c.warned THEN skipped ELSE {})

Passed(c, hand) ==
  /\ c.mode = "backfill" =>
       /\ c.check = since
       /\ ~c.warned => /\ c.past \subseteq captured \cup OnPage(c) \cup hand
                       /\ c.loaded /\ ~c.more => Before(since) \subseteq c.past
  /\ c.mode = "history" =>
       /\ Entered(since, c.pos) \subseteq Kept(c) \cup OnPage(c) \cup hand
       /\ ~c.warned /\ listed => Before(c.pos) \subseteq captured \cup OnPage(c) \cup hand
       /\ c.loaded /\ ~c.more => c.check <= c.pos

\* Where a line begins: nothing is passed yet.
Begins(c) ==
  /\ c.mode # "none" /\ c.check = c.base /\ c.pos = c.base
  /\ c.pending = {} /\ c.past = {} /\ ~c.more /\ (c.mode = "backfill" => ~c.loaded)

\* Nothing on the line up to the checkpoint was skipped.
Clean == /\ Entered(since, source.history) \subseteq captured
         /\ listed => Before(source.history) \subseteq captured

\* A cursor speaks of what the mailbox has.
Within(c) == c.base <= HistoryId /\ c.check <= HistoryId /\ c.pos <= HistoryId

Bounds ==
  /\ since <= HistoryId /\ source.history <= HistoryId /\ human.history <= HistoryId
  /\ Within(source.page)
  /\ \A w \in Workers : worker[w].history <= HistoryId /\ Within(worker[w].cursor)

\* The source: its stored page says what was passed of the line, without a page and
\* without a warning all of it is captured, and coverage is complete only then.
Saved ==
  /\ source.page.mode = "none" => /\ source.page = NoPage
                                  /\ source.coverage # "incomplete" => Clean
  /\ source.page.mode # "none" => Passed(source.page, {})
  /\ source.coverage = "complete_to_checkpoint" => source.page.mode = "none"

\* Who holds the job of the present generation may still write; a generation never
\* comes back, so that who lost it lost it for good.
Holds(w) == Leased(w) /\ source.gen = job.gen

\* What a holder knows at each step of its turn is true of the source.
Trusts(row) ==
  /\ row.pc \in {"acquired", "started", "loop", "listed", "fetched", "closing"} =>
       row.history = source.history
  /\ row.pc = "acquired" =>
       /\ row.cursor.mode = source.page.mode
       /\ row.cursor.mode # "none" => Passed(row.cursor, {})
       /\ row.cursor.mode = "none" /\ ~row.cursor.warned => source.coverage # "incomplete"
  /\ row.pc = "started" =>
       /\ row.cursor.mode # "none"
       /\ IF row.history = 0 THEN Begins(row.cursor) ELSE Passed(row.cursor, {})
  /\ row.pc \in {"loop", "listed", "closing"} => Passed(row.cursor, {})
  /\ row.pc = "fetched" => /\ Passed(row.cursor, {row.item[1]})
                           /\ ~row.cursor.warned => ~row.item[2]
  /\ row.pc \in {"loop", "listed", "fetched", "closing"} =>
       row.cursor.mode # "none" /\ source.page.mode # "none"
  /\ row.pc = "failing" /\ row.out = "resync" => source.page.mode # "none"

Trusting == \A w \in Workers : Holds(w) => Trusts(worker[w])

\* What is in hand is a message, and there is room to count it.
Rows == \A w \in Workers : worker[w].pc = "fetched" =>
  worker[w].item # NoItem /\ worker[w].handled < TurnLimit

\* No job is of a generation to come.
Gens == job.gen <= source.gen

\* The inductive invariant of synchronization.
SyncInv ==
  SyncTypes /\ Bounds /\ Gens /\ Rows /\ PolledOrGivenUp /\ CheckpointAccounts /\ Saved /\ Trusting

(***************************************************************************)
(* The mailbox.  The facts about it are stated of any mailbox box, since   *)
(* they relate the mailbox before and after a message.                     *)
(***************************************************************************)
EnteredIn(box, from, to) == {box[i].msg : i \in {k \in (from + 1)..to : box[k].enters}}

LastIn(box, m) ==
  IF \E i \in 1..Len(box) : box[i].msg = m
  THEN CHOOSE i \in 1..Len(box) :
         box[i].msg = m /\ \A k \in 1..Len(box) : box[k].msg = m => k <= i
  ELSE 0

BeforeIn(box, h) ==
  {m \in Messages : LastIn(box, m) # 0 /\ box[LastIn(box, m)].enters /\ LastIn(box, m) <= h}

LEMMA OfMailbox ==
  /\ \A from, to : Entered(from, to) = EnteredIn(mailbox, from, to)
  /\ \A h : Before(h) = BeforeIn(mailbox, h)
  /\ \A m : LastOf(m) = LastIn(mailbox, m)
<1>1. \A from, to : Entered(from, to) = EnteredIn(mailbox, from, to)
  BY DEF Entered, EnteredIn
<1>2. \A m : LastOf(m) = LastIn(mailbox, m)
  BY DEF LastOf, LastIn, HistoryId
<1>3. \A h : Before(h) = BeforeIn(mailbox, h)
  BY <1>2 DEF Before, BeforeIn, Labelled
<1>4. QED
  BY <1>1, <1>2, <1>3

LEMMA OfNextMailbox ==
  /\ \A from, to : Entered(from, to)' = EnteredIn(mailbox', from, to)
  /\ \A h : Before(h)' = BeforeIn(mailbox', h)
<1>1. \A from, to : Entered(from, to)' = EnteredIn(mailbox', from, to)
  BY DEF Entered, EnteredIn
<1>2. \A m : LastOf(m)' = LastIn(mailbox', m)
  BY DEF LastOf, LastIn, HistoryId
<1>3. \A h : Before(h)' = BeforeIn(mailbox', h)
  BY <1>2 DEF Before, BeforeIn, Labelled
<1>4. QED
  BY <1>1, <1>2, <1>3

LEMMA GreatestNumber ==
  ASSUME NEW n \in Nat, NEW S \in SUBSET (1..n), S # {}
  PROVE  \E i \in S : \A k \in S : k <= i
<1> DEFINE R == OpToRel(<, Nat)
           T == {n - i : i \in S}
<1>1. T \in SUBSET Nat /\ T # {}
  <2>1. \A i \in S : n - i \in Nat
    OBVIOUS
  <2>2. \E i \in S : n - i \in T
    OBVIOUS
  <2>3. QED
    BY <2>1, <2>2
<1>2. IsWellFoundedOn(R, Nat)
  BY NatLessThanWellFounded
<1>3. PICK t \in T : \A u \in T : ~(<<u, t>> \in R)
  <2> HIDE DEF R, T
  <2> QED BY <1>1, <1>2, WFMin
<1>4. PICK i \in S : t = n - i
  OBVIOUS
<1>5. ASSUME NEW k \in S PROVE k <= i
  <2>1. n - k \in T /\ n - k \in Nat /\ n - i \in Nat /\ k \in Nat /\ i \in Nat
    OBVIOUS
  <2>2. n - k < n - i => <<n - k, n - i>> \in R
    BY <2>1 DEF OpToRel
  <2> HIDE DEF R, T
  <2>3. ~(n - k < n - i)
    BY <1>3, <1>4, <2>1, <2>2
  <2> QED BY <2>1, <2>3
<1>6. QED
  BY <1>5

LEMMA LastFacts ==
  ASSUME NEW box \in Seq(Events), NEW m
  PROVE  /\ LastIn(box, m) \in 0..Len(box) /\ LastIn(box, m) \in Nat
         /\ LastIn(box, m) # 0 => box[LastIn(box, m)].msg = m
         /\ \A k \in 1..Len(box) : box[k].msg = m => LastIn(box, m) # 0 /\ k <= LastIn(box, m)
<1> DEFINE S == {i \in 1..Len(box) : box[i].msg = m}
<1>1. Len(box) \in Nat
  BY LenProperties
<1>2. CASE S = {}
  BY <1>1, <1>2 DEF LastIn
<1>3. CASE S # {}
  <2>1. PICK i \in S : \A k \in S : k <= i
    <3> HIDE DEF S
    <3>1. S \in SUBSET (1..Len(box))
      BY DEF S
    <3>2. QED
      BY <1>1, <1>3, <3>1, GreatestNumber
  <2>2. \E j \in 1..Len(box) : box[j].msg = m /\ \A k \in 1..Len(box) : box[k].msg = m => k <= j
    BY <2>1
  <2>3. /\ LastIn(box, m) \in 1..Len(box) /\ box[LastIn(box, m)].msg = m
        /\ \A k \in 1..Len(box) : box[k].msg = m => k <= LastIn(box, m)
    BY <2>2 DEF LastIn
  <2>4. QED
    BY <1>1, <2>3
<1>4. QED
  BY <1>2, <1>3

\* A message changes nothing that was in the mailbox, and can only take one away
\* from what was in the label before.
LEMMA AppendedMail ==
  ASSUME NEW box \in Seq(Events), NEW e \in Events, NEW h \in Nat, h <= Len(box), NEW from \in Nat
  PROVE  /\ EnteredIn(Append(box, e), from, h) = EnteredIn(box, from, h)
         /\ BeforeIn(Append(box, e), h) \subseteq BeforeIn(box, h)
<1>1. PICK new \in Seq(Events) : new = Append(box, e)
  BY AppendProperties
<1>2. Len(box) \in Nat /\ Len(new) = Len(box) + 1 /\ \A i \in 1..Len(box) : new[i] = box[i]
  BY <1>1, AppendProperties, LenProperties
<1>3. EnteredIn(new, from, h) = EnteredIn(box, from, h)
  <2>1. \A k \in (from + 1)..h : k \in 1..Len(box)
    BY <1>2
  <2>2. \A k \in (from + 1)..h : new[k] = box[k]
    BY <1>2, <2>1
  <2>3. QED
    BY <2>2 DEF EnteredIn
<1>4. ASSUME NEW m \in BeforeIn(new, h) PROVE m \in BeforeIn(box, h)
  <2>1. PICK l : l = LastIn(new, m)
    OBVIOUS
  <2>2. m \in Messages /\ l # 0 /\ new[l].enters /\ l <= h
    BY <1>4, <2>1 DEF BeforeIn
  <2>3. l \in Nat /\ l \in 1..Len(box) /\ new[l].msg = m
    BY <1>2, <2>1, <2>2, LastFacts
  <2>4. box[l].msg = m /\ box[l].enters
    BY <1>2, <2>2, <2>3
  <2>5. PICK o : o = LastIn(box, m)
    OBVIOUS
  <2>6. o \in Nat /\ o # 0 /\ l <= o /\ o <= Len(box) /\ box[o].msg = m
    BY <1>2, <2>3, <2>4, <2>5, LastFacts
  <2>7. o \in 1..Len(new) /\ new[o].msg = m
    BY <1>2, <2>6
  <2>8. o <= l
    BY <2>1, <2>7, LastFacts
  <2>9. o = l
    BY <2>3, <2>6, <2>8
  <2>10. QED
    BY <2>2, <2>4, <2>5, <2>9 DEF BeforeIn
<1>5. QED
  BY <1>1, <1>3, <1>4

\* A page of the history has an entry for every message that something happened to.
ListedPage(box, from, to) ==
  LET last == {i \in (from + 1)..to : \A k \in (from + 1)..to : box[k].msg = box[i].msg => k <= i}
  IN {<<box[i].msg, ~box[i].enters>> : i \in last}

LEMMA ListedFacts ==
  ASSUME NEW box \in Seq(Events), NEW pos \in Nat, NEW end \in Nat, end <= Len(box),
         NEW since0 \in Nat,
         NEW names, names = {entry[1] : entry \in ListedPage(box, pos, end)}
  PROVE  /\ \A i \in (pos + 1)..end : box[i].msg \in names
         /\ EnteredIn(box, since0, end) \subseteq EnteredIn(box, since0, pos) \cup names
         /\ BeforeIn(box, end) \subseteq BeforeIn(box, pos) \cup names
<1> DEFINE span == (pos + 1)..end
           last == {i \in span : \A k \in span : box[k].msg = box[i].msg => k <= i}
<1>1. ASSUME NEW i \in span PROVE box[i].msg \in names
  <2>1. PICK S : S = {k \in span : box[k].msg = box[i].msg}
    OBVIOUS
  <2>2. S \in SUBSET (1..end) /\ S # {}
    BY <2>1
  <2>3. PICK j \in S : \A k \in S : k <= j
    BY <2>2, GreatestNumber
  <2>4. j \in last /\ box[j].msg = box[i].msg
    BY <2>1, <2>3
  <2>5. PICK entry : entry = <<box[j].msg, ~box[j].enters>>
    OBVIOUS
  <2>6. entry \in ListedPage(box, pos, end) /\ entry[1] = box[i].msg
    BY <2>4, <2>5 DEF ListedPage
  <2>7. QED
    BY <2>6
<1>2. EnteredIn(box, since0, end) \subseteq EnteredIn(box, since0, pos) \cup names
  <2>1. \A k \in (since0 + 1)..end : k \in (since0 + 1)..pos \/ k \in span
    OBVIOUS
  <2>2. QED
    BY <1>1, <2>1 DEF EnteredIn
<1>3. BeforeIn(box, end) \subseteq BeforeIn(box, pos) \cup names
  <2> SUFFICES ASSUME NEW m \in BeforeIn(box, end), m \notin BeforeIn(box, pos) PROVE m \in names
    OBVIOUS
  <2>1. PICK l : l = LastIn(box, m)
    OBVIOUS
  <2>2. l \in Nat /\ l # 0 /\ l <= end /\ ~(l <= pos) /\ box[l].msg = m
    BY <2>1, LastFacts DEF BeforeIn
  <2>3. l \in span
    BY <2>2
  <2>4. QED
    BY <1>1, <2>2, <2>3
<1>4. QED
  BY <1>1, <1>2, <1>3

\* The line is passed in order.
LEMMA EnteredMonotone ==
  ASSUME NEW from \in Nat, NEW low \in Nat, NEW high \in Nat, low <= high
  PROVE  /\ Entered(from, low) \subseteq Entered(from, high)
         /\ Entered(from, from) = {}
         /\ Entered(from, 0) = {}
<1>1. (from + 1)..from = {} /\ (from + 1)..0 = {}
  OBVIOUS
<1>2. \A k \in (from + 1)..low : k \in (from + 1)..high
  OBVIOUS
<1>3. QED
  BY <1>1, <1>2 DEF Entered

LEMMA BeforeMonotone ==
  ASSUME mailbox \in Seq(Events), NEW low \in Nat, NEW high \in Nat, low <= high
  PROVE  Before(low) \subseteq Before(high) /\ Before(0) = {}
<1>1. \A m : LastOf(m) \in Nat
  BY OfMailbox, LastFacts
<1>2. QED
  BY <1>1 DEF Before, Labelled

-----------------------------------------------------------------------------
(***************************************************************************)
(* Facts of type.                                                          *)
(***************************************************************************)
LEMMA Limits ==
  /\ MaxAttempts \in Nat /\ MaxAttempts # 0 /\ TurnLimit \in Nat /\ TurnLimit # 0
  /\ PageLimit \in Nat /\ BackfillLimit \in Nat
  /\ MaxMailbox \in Nat /\ MaxMailbox # 0 /\ MaxGeneration \in Nat /\ MaxGeneration # 0
  /\ NoOne # Dead /\ NoOne # Human /\ NoOne # Callback
  /\ NoOne \notin Workers /\ Dead \notin Workers
<1>1. {NoOne, Dead, Human, Callback} \cap Workers = {}
  BY SyncAssumption
<1>2. Cardinality({NoOne, Dead, Human, Callback}) = 4
  BY SyncAssumption
<1>3. NoOne \notin {Dead, Human, Callback}
  <2> SUFFICES ASSUME NoOne \in {Dead, Human, Callback} PROVE FALSE
    OBVIOUS
  <2>1. {NoOne, Dead, Human, Callback} = {Dead, Human, Callback}
    OBVIOUS
  <2>2. IsFiniteSet({Human, Callback}) /\ Cardinality({Human, Callback}) <= 2
    <3>1. IsFiniteSet({Callback}) /\ Cardinality({Callback}) = 1
      BY FS_Singleton
    <3>2. {Human, Callback} = {Callback} \cup {Human}
      OBVIOUS
    <3>3. QED
      BY <3>1, <3>2, FS_AddElement
  <2>3. Cardinality({Dead, Human, Callback}) <= 3
    <3>1. {Dead, Human, Callback} = {Human, Callback} \cup {Dead}
      OBVIOUS
    <3>2. Cardinality({Human, Callback}) \in Nat
      BY <2>2, FS_CardinalityType
    <3>3. QED
      BY <2>2, <3>1, <3>2, FS_AddElement
  <2>4. QED
    BY <1>2, <2>1, <2>3
<1>4. QED
  BY <1>1, <1>3, SyncAssumption

LEMMA NoPageFacts == NoPage \in Cursor /\ NoPage.mode = "none"
<1>1. 0 \in Positions /\ 0 \in 0..BackfillLimit
  BY Limits DEF Positions
<1>2. QED
  BY <1>1 DEF NoPage, Cursor

LEMMA CursorFacts ==
  ASSUME NEW c \in Cursor
  PROVE  /\ c.mode \in {"none", "backfill", "history"}
         /\ c.base \in Positions /\ c.check \in Positions /\ c.pos \in Positions
         /\ c.base \in Nat /\ c.check \in Nat /\ c.pos \in Nat
         /\ c.past \subseteq Messages /\ c.pending \subseteq Messages \X BOOLEAN
         /\ c.more \in BOOLEAN /\ c.loaded \in BOOLEAN /\ c.warned \in BOOLEAN
         /\ c.remaining \in 0..BackfillLimit
  BY Limits DEF Cursor, Positions

LEMMA SourceFacts ==
  ASSUME SyncTypes
  PROVE  /\ source \in SourceRecord /\ source.state \in SourceStates /\ source.gen \in 1..MaxGeneration
         /\ source.gen \in Nat /\ source.history \in Positions /\ source.history \in Nat
         /\ source.page \in Cursor /\ source.coverage \in Coverages /\ source.granted \in BOOLEAN
         /\ source.policy \in {"none", "from_now", "bounded_backfill"}
<1>1. source \in SourceRecord
  BY DEF SyncTypes
<1>2. QED
  BY <1>1, Limits DEF SourceRecord, Positions

LEMMA RowFacts ==
  ASSUME SyncTypes, NEW w \in Workers
  PROVE  /\ worker[w] \in WorkerRecord /\ worker[w].pc \in Pcs /\ worker[w].owns \in BOOLEAN
         /\ worker[w].history \in Positions /\ worker[w].history \in Nat
         /\ worker[w].cursor \in Cursor /\ worker[w].handled \in 0..TurnLimit
         /\ worker[w].item \in (Messages \X BOOLEAN) \cup {NoItem}
         /\ worker[w].policy \in {"none", "from_now", "bounded_backfill"}
<1>1. worker[w] \in WorkerRecord
  BY DEF SyncTypes
<1>2. QED
  BY <1>1, Limits DEF WorkerRecord, Positions

LEMMA JobFacts ==
  ASSUME SyncTypes
  PROVE  /\ job \in JobRecord /\ job.gen \in 0..MaxGeneration /\ job.gen \in Nat
         /\ job.attempts \in 0..MaxAttempts /\ job.lease \in Holders /\ job.due \in BOOLEAN
         /\ job.status \in Unfinished \cup {"completed", "failed", "skipped", "cancelled"}
         /\ job.code \in {"none", "busy", "revoked", "other"}
<1>1. job \in JobRecord
  BY DEF SyncTypes
<1>2. QED
  BY <1>1, Limits DEF JobRecord

LEMMA BoxFacts ==
  ASSUME SyncTypes
  PROVE  mailbox \in Seq(Events) /\ HistoryId \in Nat /\ HistoryId <= MaxMailbox /\ HistoryId \in Positions
         /\ since \in Nat
<1>1. mailbox \in Seq(Events) /\ HistoryId <= MaxMailbox
  BY DEF SyncTypes, HistoryId
<1>2. HistoryId \in Nat
  BY <1>1, LenProperties DEF HistoryId
<1>3. QED
  BY <1>1, <1>2, Limits DEF Positions, SyncTypes

LEMMA IdleFacts ==
  Idle \in WorkerRecord /\ Idle.pc = "idle" /\ Idle.history = 0 /\ Idle.cursor = NoPage
<1>1. 0 \in Positions /\ 0 \in 0..TurnLimit
  BY Limits DEF Positions
<1>2. QED
  BY <1>1, NoPageFacts DEF Idle, WorkerRecord, Pcs

Outs == Errors \cup {"none", "resync", "busy", "late", "revoked"}

Concluded(pc, owns, out) == [Idle EXCEPT !.pc = pc, !.owns = owns, !.out = out]

LEMMA ConcludedFacts ==
  ASSUME NEW pc \in Pcs, NEW owns \in BOOLEAN, NEW out \in Outs,
         NEW row, row = Concluded(pc, owns, out)
  PROVE  /\ row \in WorkerRecord /\ row.pc = pc /\ row.out = out
         /\ row.history = 0 /\ row.cursor = NoPage
<1>1. 0 \in Positions /\ 0 \in 0..TurnLimit
  BY Limits DEF Positions
<1>2. row = [pc |-> pc, owns |-> owns, policy |-> "none", history |-> 0, cursor |-> NoPage,
             item |-> NoItem, handled |-> 0, out |-> out]
  BY DEF Concluded, Idle
<1>3. row.pc = pc /\ row.out = out /\ row.history = 0 /\ row.cursor = NoPage
  BY DEF Concluded, Idle
<1>4. row \in WorkerRecord
  <2>1. NoItem \in (Messages \X BOOLEAN) \cup {NoItem} /\ NoPage \in Cursor
    BY NoPageFacts
  <2>2. "none" \in {"none", "from_now", "bounded_backfill"}
    OBVIOUS
  <2>3. [pc |-> pc, owns |-> owns, policy |-> "none", history |-> 0, cursor |-> NoPage,
         item |-> NoItem, handled |-> 0, out |-> out] \in WorkerRecord
    BY <1>1, <2>1, <2>2 DEF WorkerRecord, Outs
  <2>4. QED
    BY <1>2, <2>3
<1>5. QED
  BY <1>3, <1>4

-----------------------------------------------------------------------------
(***************************************************************************)
(* What a line has passed stays passed.                                    *)
(***************************************************************************)
Grows ==
  /\ mailbox' = mailbox \/ \E e \in Events : mailbox' = Append(mailbox, e)
  /\ since' = since /\ listed' = listed
  /\ captured \subseteq captured' /\ skipped \subseteq skipped'

LEMMA GrowingMail ==
  ASSUME SyncTypes, Grows, NEW h \in Nat, h <= HistoryId
  PROVE  /\ HistoryId <= HistoryId' /\ HistoryId' \in Nat
         /\ Entered(since, h)' = Entered(since, h) /\ Before(h)' \subseteq Before(h)
<1>1. PICK box \in Seq(Events) : box = mailbox
  BY BoxFacts
<1>2. PICK from \in Nat : from = since
  BY BoxFacts
<1>3. Len(box) \in Nat /\ HistoryId = Len(box)
  BY <1>1, BoxFacts DEF HistoryId
<1>4. HistoryId <= HistoryId' /\ HistoryId' \in Nat
  BY <1>1, <1>3, AppendProperties DEF Grows, HistoryId
<1>5. EnteredIn(mailbox', from, h) = EnteredIn(box, from, h) /\ BeforeIn(mailbox', h) \subseteq BeforeIn(box, h)
  <2>1. CASE mailbox' = mailbox
    BY <1>1, <2>1
  <2>2. CASE \E e \in Events : mailbox' = Append(mailbox, e)
    <3>1. PICK e \in Events : mailbox' = Append(box, e)
      BY <1>1, <2>2
    <3>2. QED
      BY <1>3, <3>1, AppendedMail
  <2>3. QED
    BY <2>1, <2>2 DEF Grows
<1>6. Entered(from, h)' = Entered(from, h) /\ Before(h)' \subseteq Before(h)
  BY <1>1, <1>5, OfMailbox, OfNextMailbox
<1>7. Entered(since, h)' = Entered(from, h)'
  BY <1>2 DEF Grows
<1>8. QED
  BY <1>2, <1>4, <1>6, <1>7

LEMMA PassedKeeps ==
  ASSUME SyncTypes, Bounds, Grows, NEW c \in Cursor, Within(c), NEW hand, Passed(c, hand)
  PROVE  Passed(c, hand)'
<1>1. since \in Nat /\ since <= HistoryId /\ c.pos \in Nat /\ c.pos <= HistoryId /\ c.warned \in BOOLEAN
  BY BoxFacts, CursorFacts DEF Bounds, Within
<1>2. Before(since)' \subseteq Before(since) /\ Before(c.pos)' \subseteq Before(c.pos)
      /\ Entered(since, c.pos)' = Entered(since, c.pos)
  <2>1. PICK p \in Nat : p = c.pos
    BY <1>1
  <2>2. PICK s \in Nat : s = since
    BY <1>1
  <2>3. Before(s)' \subseteq Before(s) /\ Before(p)' \subseteq Before(p) /\ Entered(since, p)' = Entered(since, p)
    BY <1>1, <2>1, <2>2, GrowingMail
  <2>4. Before(since)' = Before(s)'
    BY <2>2 DEF Grows
  <2>5. QED
    BY <2>1, <2>2, <2>3, <2>4
<1>3. Kept(c) \subseteq Kept(c)'
  BY DEF Kept, Grows
<1>4. since' = since /\ listed' = listed /\ captured \subseteq captured' /\ OnPage(c)' = OnPage(c)
  BY DEF Grows, OnPage
<1>5. (c.mode = "backfill" /\ ~c.warned /\ c.loaded /\ ~c.more) => Before(since)' \subseteq c.past
  BY <1>2 DEF Passed
<1>6. c.mode = "history" => Entered(since, c.pos)' \subseteq Kept(c)' \cup OnPage(c) \cup hand
  BY <1>2, <1>3 DEF Passed
<1>7. c.mode = "history" /\ ~c.warned /\ listed => Before(c.pos)' \subseteq captured' \cup OnPage(c) \cup hand
  BY <1>2, <1>4 DEF Passed
<1>8. QED
  BY <1>4, <1>5, <1>6, <1>7 DEF Passed

LEMMA CleanKeeps ==
  ASSUME SyncTypes, Bounds, Grows, source'.history = source.history, Clean
  PROVE  Clean'
<1>1. PICK h \in Nat : h = source.history /\ h <= HistoryId
  BY SourceFacts DEF Bounds
<1>2. Entered(since, h)' = Entered(since, h) /\ Before(h)' \subseteq Before(h)
  BY <1>1, GrowingMail
<1>3. Entered(since, source.history)' = Entered(since, h)' /\ Before(source.history)' = Before(h)'
  BY <1>1
<1>4. QED
  BY <1>1, <1>2, <1>3 DEF Clean, Grows

\* The source's columns that say how far synchronization is.
Progress == <<source.history, source.page, source.coverage>>

LEMMA TrustsKeeps ==
  ASSUME SyncTypes, Bounds, Grows, Progress' = Progress,
         NEW row \in WorkerRecord, Within(row.cursor), Trusts(row)
  PROVE  Trusts(row)'
<1>1. source'.history = source.history /\ source'.page = source.page
      /\ source'.coverage = source.coverage
  BY DEF Progress
<1>2. PICK c \in Cursor : c = row.cursor
  BY DEF WorkerRecord
<1>3. \A hand : Passed(c, hand) => Passed(c, hand)'
  BY <1>2, PassedKeeps
<1>4. Begins(c)' <=> Begins(c)
  BY DEF Begins
<1>5. QED
  BY <1>1, <1>2, <1>3, <1>4 DEF Trusts

LEMMA SavedKeeps ==
  ASSUME SyncTypes, Bounds, Grows, Progress' = Progress, Saved
  PROVE  Saved'
<1>1. source'.history = source.history /\ source'.page = source.page
      /\ source'.coverage = source.coverage
  BY DEF Progress
<1>2. PICK c \in Cursor : c = source.page
  BY SourceFacts
<1>3. Passed(c, {}) => Passed(c, {})'
  BY <1>2, PassedKeeps DEF Bounds
<1>4. Clean => Clean'
  BY <1>1, CleanKeeps
<1>5. QED
  BY <1>1, <1>2, <1>3, <1>4 DEF Saved

LEMMA CheckpointKeeps ==
  ASSUME SyncTypes, Bounds, Grows, source'.history = source.history, CheckpointAccounts
  PROVE  CheckpointAccounts'
<1>1. PICK h \in Nat : h = source.history /\ h <= HistoryId
  BY SourceFacts DEF Bounds
<1>2. Entered(since, h)' = Entered(since, h)
  BY <1>1, GrowingMail
<1>3. Entered(since, source.history)' = Entered(since, h)'
  BY <1>1
<1>4. QED
  BY <1>1, <1>2, <1>3 DEF CheckpointAccounts, Grows

LEMMA WithinKeeps ==
  ASSUME SyncTypes, Grows, NEW c \in Cursor, Within(c)
  PROVE  Within(c)'
<1>1. HistoryId \in Nat /\ HistoryId' \in Nat /\ HistoryId <= HistoryId'
  <2>1. 0 <= HistoryId /\ HistoryId \in Nat
    BY BoxFacts
  <2>2. QED
    BY <2>1, GrowingMail
<1>2. c.base \in Nat /\ c.check \in Nat /\ c.pos \in Nat
  BY CursorFacts
<1>3. c.base <= HistoryId' /\ c.check <= HistoryId' /\ c.pos <= HistoryId'
  BY <1>1, <1>2 DEF Within
<1>4. QED
  BY <1>3 DEF Within

LEMMA BoundsKeep ==
  ASSUME SyncTypes, Bounds, Grows, Progress' = Progress, human'.history \in Nat,
         human'.history <= HistoryId', worker' = worker
  PROVE  Bounds'
<1>1. HistoryId \in Nat /\ HistoryId' \in Nat /\ HistoryId <= HistoryId'
  <2>1. 0 <= HistoryId /\ HistoryId \in Nat
    BY BoxFacts
  <2>2. QED
    BY <2>1, GrowingMail
<1>2. source'.history = source.history /\ source'.page = source.page /\ since' = since
  BY DEF Progress, Grows
<1>3. source.history <= HistoryId' /\ since <= HistoryId'
  BY <1>1, SourceFacts, BoxFacts DEF Bounds
<1>4. Within(source.page)'
  <2>1. PICK c \in Cursor : c = source.page
    BY SourceFacts
  <2>2. Within(c)'
    BY <2>1, WithinKeeps DEF Bounds
  <2>3. QED
    BY <1>2, <2>1, <2>2 DEF Within
<1>5. ASSUME NEW w \in Workers PROVE worker'[w].history <= HistoryId' /\ Within(worker[w].cursor)'
  <2>1. PICK c \in Cursor : c = worker[w].cursor
    BY RowFacts
  <2>2. Within(c)'
    BY <2>1, WithinKeeps DEF Bounds
  <2>3. worker[w].history <= HistoryId'
    BY <1>1, RowFacts DEF Bounds
  <2>4. QED
    BY <2>1, <2>2, <2>3 DEF Within
<1>6. QED
  BY <1>2, <1>3, <1>4, <1>5 DEF Bounds

\* A step that leaves the workers and the progress of the source alone.
LEMMA AsideInv ==
  ASSUME SyncInv, Grows, Progress' = Progress, human'.history <= HistoryId', worker' = worker,
         SyncTypes', \A w \in Workers : Holds(w)' => Holds(w),
         job'.gen <= source'.gen, PolledOrGivenUp'
  PROVE  SyncInv'
<1>1. Bounds'
  <2>1. human'.history \in Nat
    BY Limits DEF SyncTypes, HumanRecord, Positions
  <2>2. QED
    BY <2>1, BoundsKeep DEF SyncInv
<1>2. Saved' /\ CheckpointAccounts'
  BY SavedKeeps, CheckpointKeeps DEF SyncInv, Progress
<1>3. ASSUME NEW w \in Workers, Holds(w)' PROVE Trusts(worker[w])'
  <2>1. PICK row \in WorkerRecord : row = worker[w]
    BY RowFacts DEF SyncInv
  <2>2. Within(row.cursor) /\ Trusts(row)
    BY <1>3, <2>1 DEF SyncInv, Bounds, Trusting
  <2>3. Trusts(row)'
    BY <2>1, <2>2, TrustsKeeps DEF SyncInv
  <2>4. QED
    BY <2>1, <2>3
<1>4. Trusting'
  BY <1>3 DEF Trusting
<1>5. Rows' /\ Gens'
  BY DEF SyncInv, Rows, Gens
<1>6. QED
  BY <1>1, <1>2, <1>4, <1>5 DEF SyncInv

\* A worker goes on, and what it has learned is true of the source.
Learns(w, row) ==
  /\ row \in WorkerRecord /\ row.history <= HistoryId /\ Within(row.cursor)
  /\ worker' = [worker EXCEPT ![w] = row]
  /\ row.pc = "fetched" => row.item # NoItem /\ row.handled < TurnLimit

LEMMA LearningRows ==
  ASSUME SyncTypes, Bounds, Rows, NEW w \in Workers, NEW row, Learns(w, row)
  PROVE  /\ worker' \in [Workers -> WorkerRecord] /\ worker'[w] = row
         /\ \A v \in Workers \ {w} : worker'[v] = worker[v]
         /\ \A v \in Workers : worker'[v].history <= HistoryId /\ Within(worker'[v].cursor)
         /\ Rows'
<1>1. worker' \in [Workers -> WorkerRecord] /\ worker'[w] = row
      /\ \A v \in Workers \ {w} : worker'[v] = worker[v]
  BY DEF Learns, SyncTypes
<1>2. \A v \in Workers : worker'[v].history <= HistoryId /\ Within(worker'[v].cursor)
  BY <1>1 DEF Learns, Bounds
<1>3. Rows'
  BY <1>1 DEF Learns, Rows
<1>4. QED
  BY <1>1, <1>2, <1>3

LEMMA WorkerMoves ==
  ASSUME SyncInv, NEW w \in Workers, NEW row, Learns(w, row),
         UNCHANGED <<outside, captured, human, ghosts>>, Progress' = Progress,
         source' \in SourceRecord, job' \in JobRecord, operation' \in Holders,
         \A v \in Workers \ {w} : Holds(v)' => Holds(v),
         Holds(w)' => Trusts(row),
         job'.gen <= source'.gen, PolledOrGivenUp'
  PROVE  SyncInv'
<1>1. Grows
  BY DEF outside, ghosts, Grows
<1>2. /\ worker' \in [Workers -> WorkerRecord] /\ worker'[w] = row
      /\ \A v \in Workers \ {w} : worker'[v] = worker[v]
      /\ \A v \in Workers : worker'[v].history <= HistoryId /\ Within(worker'[v].cursor)
      /\ Rows'
  BY LearningRows DEF SyncInv
<1>3. SyncTypes'
  BY <1>2 DEF SyncInv, SyncTypes, outside, ghosts
<1>4. Saved' /\ CheckpointAccounts'
  BY <1>1, SavedKeeps, CheckpointKeeps DEF SyncInv, Progress
<1>5. Bounds'
  <2>1. HistoryId' = HistoryId /\ source'.history = source.history /\ source'.page = source.page
    BY DEF outside, HistoryId, Progress
  <2>2. Within(source.page)' /\ \A v \in Workers : Within(worker[v].cursor)'
    BY <1>2, <2>1 DEF SyncInv, Bounds, Within
  <2>3. QED
    BY <1>2, <2>1, <2>2 DEF SyncInv, Bounds, ghosts
<1>6. ASSUME NEW v \in Workers, Holds(v)' PROVE Trusts(worker[v])'
  <2>1. PICK mine \in WorkerRecord : mine = worker'[v]
    BY <1>2
  <2>2. Trusts(mine)
    <3>1. CASE v = w
      BY <1>2, <1>6, <2>1, <3>1
    <3>2. CASE v # w
      BY <1>2, <1>6, <2>1, <3>2 DEF SyncInv, Trusting
    <3>3. QED
      BY <3>1, <3>2
  <2>3. Within(mine.cursor)
    BY <1>2, <2>1
  <2>4. Trusts(mine)'
    BY <1>1, <2>2, <2>3, TrustsKeeps DEF SyncInv
  <2>5. QED
    BY <2>1, <2>4
<1>7. QED
  BY <1>2, <1>3, <1>4, <1>5, <1>6 DEF SyncInv, Trusting, Gens

-----------------------------------------------------------------------------
(***************************************************************************)
(* The first state.                                                        *)
(***************************************************************************)
LEMMA SyncStarts ==
  ASSUME SyncInit
  PROVE  SyncInv
<1>1. PICK m \in Messages : mailbox = <<[msg |-> m, enters |-> TRUE]>>
  BY DEF SyncInit
<1>2. mailbox \in Seq(Events) /\ Len(mailbox) = 1 /\ HistoryId = 1
  <2>1. [msg |-> m, enters |-> TRUE] \in Events
    BY DEF Events
  <2>2. QED
    BY <1>1, <2>1 DEF HistoryId
<1>3. NoPage \in Cursor /\ 0 \in Positions /\ 0 \in 0..MaxAttempts /\ 0 \in 0..MaxGeneration
      /\ 1 \in 1..MaxGeneration
  BY NoPageFacts, Limits DEF Positions
<1>4. SyncTypes
  <2>1. source \in SourceRecord
    BY <1>3 DEF SyncInit, SourceRecord, SourceStates, Coverages
  <2>2. job \in JobRecord
    BY <1>3 DEF SyncInit, NoJob, JobRecord, Holders
  <2>3. human \in HumanRecord
    BY <1>3 DEF SyncInit, Absent, HumanRecord
  <2>4. worker \in [Workers -> WorkerRecord]
    BY IdleFacts DEF SyncInit
  <2>5. Len(mailbox) <= MaxMailbox
    BY <1>2, Limits
  <2>6. QED
    BY <1>2, <1>3, <2>1, <2>2, <2>3, <2>4, <2>5 DEF SyncInit, Holders, SyncTypes
<1>5. NoPage.base = 0 /\ NoPage.check = 0 /\ NoPage.pos = 0 /\ NoPage.mode = "none"
  BY DEF NoPage
<1>6. \A w \in Workers : worker[w] = Idle
  BY DEF SyncInit
<1>7. Bounds
  BY <1>2, <1>5, <1>6, IdleFacts DEF SyncInit, Bounds, Within, Absent
<1>8. Entered(since, source.history) = {}
  <2>1. (0 + 1)..0 = {}
    OBVIOUS
  <2>2. QED
    BY <2>1 DEF SyncInit, Entered
<1>9. Saved /\ CheckpointAccounts
  BY <1>5, <1>8 DEF SyncInit, Saved, Clean, CheckpointAccounts
<1>10. \A w \in Workers : ~Holds(w)
  BY DEF SyncInit, NoJob, Holds, Leased
<1>11. Trusting /\ Rows /\ Gens /\ PolledOrGivenUp
  BY <1>6, <1>10, IdleFacts DEF SyncInit, NoJob, Trusting, Rows, Gens, PolledOrGivenUp
<1>12. QED
  BY <1>4, <1>7, <1>9, <1>11 DEF SyncInv

-----------------------------------------------------------------------------
LEMMA OutsideKeeps ==
  ASSUME SyncInv, Outside
  PROVE  SyncInv'
<1>1. SyncTypes
  BY DEF SyncInv
<1>2. ASSUME NEW m \in Messages, Mail(m) PROVE SyncInv'
  <2>1. PICK e \in Events : mailbox' = Append(mailbox, e)
    <3>1. [msg |-> m, enters |-> m \notin Labelled] \in Events
      BY DEF Events
    <3>2. QED
      BY <1>2, <3>1 DEF Mail
  <2>2. Grows /\ Progress' = Progress
    BY <1>2, <2>1 DEF Mail, ghosts, Grows, Progress
  <2>3. mailbox' \in Seq(Events) /\ Len(mailbox') = Len(mailbox) + 1
    BY <1>1, <2>1, BoxFacts, AppendProperties
  <2>4. SyncTypes'
    <3>1. Len(mailbox') <= MaxMailbox
      BY <1>1, <1>2, <2>3, BoxFacts, Limits DEF Mail, HistoryId
    <3>2. QED
      BY <1>1, <1>2, <2>3, <3>1 DEF Mail, ghosts, SyncTypes
  <2>5. human'.history <= HistoryId'
    <3>1. human.history \in Nat
      BY <1>1, Limits DEF SyncTypes, HumanRecord, Positions
    <3>2. QED
      BY <1>1, <1>2, <2>3, <3>1, BoxFacts DEF Mail, HistoryId, SyncInv, Bounds
  <2>6. \A w \in Workers : Holds(w)' => Holds(w)
    BY <1>2 DEF Mail, Holds, Leased
  <2>7. job'.gen <= source'.gen /\ PolledOrGivenUp'
    BY <1>2 DEF Mail, SyncInv, Gens, PolledOrGivenUp
  <2>8. worker' = worker
    BY <1>2 DEF Mail
  <2>9. QED
    BY <2>2, <2>4, <2>5, <2>6, <2>7, <2>8, AsideInv
<1>3. ASSUME LeaseExpires \/ BackoffPasses PROVE SyncInv'
  <2>1. Grows /\ Progress' = Progress /\ worker' = worker /\ human'.history <= HistoryId'
    BY <1>3 DEF LeaseExpires, BackoffPasses, outside, ghosts, Grows, Progress, SyncInv, Bounds, HistoryId
  <2>2. job' \in JobRecord /\ job'.gen = job.gen /\ job'.status = job.status /\ job'.code = job.code
        /\ job'.lease \in {job.lease, NoOne}
    BY <1>1, <1>3, JobFacts DEF LeaseExpires, BackoffPasses, JobRecord, Holders
  <2>3. SyncTypes'
    BY <1>1, <1>3, <2>2 DEF LeaseExpires, BackoffPasses, outside, ghosts, SyncTypes
  <2>4. \A w \in Workers : Holds(w)' => Holds(w)
    BY <1>3, <2>2, Limits DEF LeaseExpires, BackoffPasses, Holds, Leased
  <2>5. job'.gen <= source'.gen /\ PolledOrGivenUp'
    BY <1>3, <2>2 DEF LeaseExpires, BackoffPasses, SyncInv, Gens, PolledOrGivenUp
  <2>6. QED
    BY <2>1, <2>3, <2>4, <2>5, AsideInv
<1>4. ASSUME OperationExpires \/ ChangeMembership \/ ChangeEntitlement PROVE SyncInv'
  <2>1. Grows /\ Progress' = Progress /\ worker' = worker /\ human'.history <= HistoryId'
    BY <1>4 DEF OperationExpires, ChangeMembership, ChangeEntitlement, outside, ghosts, Grows,
                Progress, SyncInv, Bounds, HistoryId
  <2>2. operation' \in Holders /\ standing' \in [issuer : BOOLEAN, entitled : BOOLEAN]
    BY <1>1, <1>4 DEF OperationExpires, ChangeMembership, ChangeEntitlement, outside, SyncTypes, Holders
  <2>3. SyncTypes'
    BY <1>1, <1>4, <2>2 DEF OperationExpires, ChangeMembership, ChangeEntitlement, outside, ghosts, SyncTypes
  <2>4. \A w \in Workers : Holds(w)' => Holds(w)
    BY <1>4 DEF OperationExpires, ChangeMembership, ChangeEntitlement, Holds, Leased
  <2>5. job'.gen <= source'.gen /\ PolledOrGivenUp'
    BY <1>4 DEF OperationExpires, ChangeMembership, ChangeEntitlement, SyncInv, Gens, PolledOrGivenUp
  <2>6. QED
    BY <2>1, <2>3, <2>4, <2>5, AsideInv
<1>5. QED
  BY <1>2, <1>3, <1>4 DEF Outside

-----------------------------------------------------------------------------
(***************************************************************************)
(* What people do.                                                         *)
(***************************************************************************)
LEMMA CancelledFacts ==
  ASSUME SyncTypes
  PROVE  /\ CancelledJob \in JobRecord /\ CancelledJob.gen = job.gen
         /\ CancelledJob.status \notin Unfinished
<1>1. CASE job.status \in Unfinished
  <2>1. PICK row \in JobRecord : row = [job EXCEPT !.status = "cancelled", !.lease = NoOne, !.code = "other"]
    BY JobFacts DEF JobRecord, Holders
  <2>2. row.gen = job.gen /\ row.status = "cancelled"
    BY <2>1, JobFacts DEF JobRecord
  <2>3. CancelledJob = row
    BY <1>1, <2>1 DEF CancelledJob
  <2>4. QED
    BY <2>2, <2>3 DEF Unfinished
<1>2. CASE job.status \notin Unfinished
  BY <1>2, JobFacts DEF CancelledJob
<1>3. QED
  BY <1>1, <1>2

LEMMA QueuedFacts ==
  ASSUME SyncTypes, NEW gen \in 0..MaxGeneration, NEW due \in BOOLEAN
  PROVE  /\ QueuedJob(gen, due) \in JobRecord /\ QueuedJob(gen, due).gen = gen
         /\ QueuedJob(gen, due).status = "queued"
<1>1. 0 \in 0..MaxAttempts
  BY Limits
<1>2. QED
  BY <1>1 DEF QueuedJob, JobRecord, Holders, Unfinished

LEMMA StartOAuthKeeps ==
  ASSUME SyncInv, StartOAuth
  PROVE  SyncInv'
<1>1. SyncTypes
  BY DEF SyncInv
<1>2. /\ source' \in SourceRecord /\ source'.gen = source.gen + 1 /\ source'.state # "active"
      /\ Progress' = Progress
  <2>1. source.gen + 1 \in 1..MaxGeneration
    BY <1>1, SourceFacts, Limits DEF StartOAuth, MayMove
  <2>2. PICK row \in SourceRecord : row = [source EXCEPT !.state = "authorization_required", !.gen = source.gen + 1]
    BY <1>1, <2>1, SourceFacts DEF SourceRecord, SourceStates
  <2>3. /\ row.gen = source.gen + 1 /\ row.state = "authorization_required" /\ row.page = source.page
        /\ row.history = source.history /\ row.coverage = source.coverage
    BY <1>1, <2>2, SourceFacts DEF SourceRecord
  <2>4. source' = row
    BY <2>2 DEF StartOAuth
  <2>5. QED
    BY <2>3, <2>4 DEF Progress
<1>3. Grows /\ worker' = worker /\ human'.history <= HistoryId'
  BY DEF StartOAuth, outside, ghosts, Grows, SyncInv, Bounds, HistoryId
<1>4. SyncTypes'
  BY <1>1, <1>2 DEF StartOAuth, outside, ghosts, SyncTypes, Holders
<1>5. \A w \in Workers : ~Holds(w)'
  BY <1>1, <1>2, SourceFacts, JobFacts DEF StartOAuth, Holds, SyncInv, Gens
<1>6. job'.gen <= source'.gen /\ PolledOrGivenUp'
  BY <1>1, <1>2, SourceFacts, JobFacts DEF StartOAuth, SyncInv, Gens, PolledOrGivenUp
<1>7. QED
  BY <1>2, <1>3, <1>4, <1>5, <1>6, AsideInv

LEMMA LabelsKeep ==
  ASSUME SyncInv, BeginLabels \/ ReadProfile \/ \E dies \in BOOLEAN : EndLabels(dies)
  PROVE  SyncInv'
<1>1. SyncTypes
  BY DEF SyncInv
<1>2. human \in HumanRecord /\ 0 \in Positions /\ 0 \in 0..MaxGeneration
      /\ source.gen \in 0..MaxGeneration /\ HistoryId \in Positions /\ HistoryId \in Nat
  BY <1>1, SourceFacts, BoxFacts, Limits DEF SyncTypes, Positions
<1>3. human' \in HumanRecord /\ human'.history <= HistoryId
  <2>1. CASE BeginLabels
    BY <1>2, <2>1 DEF BeginLabels, HumanRecord
  <2>2. CASE ReadProfile
    <3>1. PICK at \in Positions : at = HistoryId /\ at <= HistoryId
      BY <1>2
    <3>2. human' = [human EXCEPT !.pc = "saving", !.history = at]
      BY <2>2, <3>1 DEF ReadProfile
    <3>3. human' \in HumanRecord /\ human'.history = at
      BY <1>2, <3>2 DEF HumanRecord
    <3>4. QED
      BY <3>1, <3>3
  <2>3. CASE \E dies \in BOOLEAN : EndLabels(dies)
    BY <1>2, <2>3 DEF EndLabels, HumanRecord, Absent
  <2>4. QED
    BY <2>1, <2>2, <2>3
<1>4. /\ Grows /\ Progress' = Progress /\ worker' = worker /\ HistoryId' = HistoryId
      /\ source' = source /\ job' = job
  BY DEF BeginLabels, ReadProfile, EndLabels, outside, ghosts, Grows, Progress, HistoryId
<1>5. operation' \in Holders
  BY <1>1 DEF BeginLabels, ReadProfile, EndLabels, FreedOf, SyncTypes, Holders
<1>6. SyncTypes'
  BY <1>1, <1>3, <1>4, <1>5 DEF BeginLabels, ReadProfile, EndLabels, outside, ghosts, SyncTypes
<1>7. \A w \in Workers : Holds(w)' => Holds(w)
  BY <1>4 DEF Holds, Leased
<1>8. job'.gen <= source'.gen /\ PolledOrGivenUp'
  BY <1>4 DEF SyncInv, Gens, PolledOrGivenUp
<1>9. QED
  BY <1>3, <1>4, <1>6, <1>7, <1>8, AsideInv

LEMMA SuspendKeeps ==
  ASSUME SyncInv, NEW state \in {"paused", "disconnected"}, Suspend(state)
  PROVE  SyncInv'
<1>1. SyncTypes
  BY DEF SyncInv
<1>2. /\ source' \in SourceRecord /\ source'.gen = source.gen + 1 /\ source'.state # "active"
      /\ Progress' = Progress
  <2>1. source.gen + 1 \in 1..MaxGeneration
    BY <1>1, SourceFacts, Limits DEF Suspend, MayMove
  <2>2. PICK row \in SourceRecord :
          row = [source EXCEPT !.state = state, !.gen = source.gen + 1,
                               !.granted = source.granted /\ state # "disconnected"]
    BY <1>1, <2>1, SourceFacts DEF SourceRecord, SourceStates
  <2>3. /\ row.gen = source.gen + 1 /\ row.state = state /\ row.page = source.page
        /\ row.history = source.history /\ row.coverage = source.coverage
    BY <1>1, <2>2, SourceFacts DEF SourceRecord
  <2>4. source' = row
    BY <2>2 DEF Suspend
  <2>5. QED
    BY <2>3, <2>4 DEF Progress
<1>3. Grows /\ worker' = worker /\ human'.history <= HistoryId'
  BY DEF Suspend, outside, ghosts, Grows, SyncInv, Bounds, HistoryId
<1>4. job' \in JobRecord /\ job'.gen = job.gen
  BY <1>1, CancelledFacts DEF Suspend
<1>5. SyncTypes'
  BY <1>1, <1>2, <1>4 DEF Suspend, outside, ghosts, SyncTypes, Holders
<1>6. \A w \in Workers : ~Holds(w)'
  BY <1>1, <1>2, <1>4, SourceFacts, JobFacts DEF Holds, SyncInv, Gens
<1>7. job'.gen <= source'.gen /\ PolledOrGivenUp'
  BY <1>1, <1>2, <1>4, SourceFacts, JobFacts DEF SyncInv, Gens, PolledOrGivenUp
<1>8. QED
  BY <1>2, <1>3, <1>5, <1>6, <1>7, AsideInv

LEMMA ResumeKeeps ==
  ASSUME SyncInv, Resume \/ EnqueueSync
  PROVE  SyncInv'
<1>1. SyncTypes
  BY DEF SyncInv
<1>2. PICK gen \in 0..MaxGeneration :
        /\ source' \in SourceRecord /\ source'.gen = gen /\ gen >= source.gen
        /\ job' = QueuedJob(gen, TRUE)
  <2>1. CASE Resume
    <3>1. source.gen + 1 \in 0..MaxGeneration /\ source.gen + 1 >= source.gen
          /\ source.gen + 1 \in 1..MaxGeneration
      BY <1>1, <2>1, SourceFacts, Limits DEF Resume, MayMove
    <3>2. source' \in SourceRecord /\ source'.gen = source.gen + 1
      <4>1. PICK row \in SourceRecord : row = [source EXCEPT !.state = "active", !.gen = source.gen + 1]
        BY <1>1, <3>1, SourceFacts DEF SourceRecord, SourceStates
      <4>2. row.gen = source.gen + 1
        BY <1>1, <4>1, SourceFacts DEF SourceRecord
      <4>3. QED
        BY <2>1, <4>1, <4>2 DEF Resume
    <3>3. job' = QueuedJob(source.gen + 1, TRUE)
      BY <2>1 DEF Resume, Enqueue
    <3>4. QED
      BY <3>1, <3>2, <3>3
  <2>2. CASE EnqueueSync
    <3>1. source.gen \in 0..MaxGeneration /\ source.gen >= source.gen /\ source \in SourceRecord
      BY <1>1, SourceFacts, Limits
    <3>2. source' = source /\ job' = QueuedJob(source.gen, TRUE)
      BY <2>2 DEF EnqueueSync, Enqueue
    <3>3. QED
      BY <3>1, <3>2
  <2>3. QED
    BY <2>1, <2>2
<1>3. job' \in JobRecord /\ job'.gen = gen /\ job'.status = "queued"
  BY <1>1, <1>2, QueuedFacts
<1>4. Grows /\ worker' = worker /\ human'.history <= HistoryId' /\ Progress' = Progress
  <2>1. source'.history = source.history /\ source'.page = source.page
        /\ source'.coverage = source.coverage
    BY <1>1, SourceFacts DEF Resume, EnqueueSync, SourceRecord
  <2>2. QED
    BY <2>1 DEF Resume, EnqueueSync, outside, ghosts, Grows, SyncInv, Bounds, HistoryId, Progress
<1>5. operation' \in Holders
  BY <1>1 DEF Resume, EnqueueSync, SyncTypes, Holders
<1>6. SyncTypes'
  BY <1>1, <1>2, <1>3, <1>5 DEF Resume, EnqueueSync, outside, ghosts, SyncTypes
<1>7. \A w \in Workers : ~Holds(w)'
  BY <1>3 DEF Holds, Leased
<1>8. job'.gen <= source'.gen /\ PolledOrGivenUp'
  <2>1. gen <= gen
    BY Limits
  <2>2. job'.gen = gen /\ source'.gen = gen /\ job'.status \in Unfinished
    BY <1>2, <1>3 DEF Unfinished
  <2>3. QED
    BY <2>1, <2>2 DEF PolledOrGivenUp
<1>9. QED
  BY <1>4, <1>6, <1>7, <1>8, AsideInv

\* A line begins anew, and no worker holds the source.
LEMMA Restarts ==
  ASSUME SyncInv, SyncTypes', mailbox' = mailbox, worker' = worker,
         source'.page = NoPage, source'.coverage = "not_started",
         source'.history = 0 \/ (source'.history = since' /\ ~listed'),
         since' <= HistoryId, human'.history <= HistoryId,
         \A w \in Workers : ~Holds(w)', job'.gen <= source'.gen, PolledOrGivenUp'
  PROVE  SyncInv'
<1>1. HistoryId' = HistoryId /\ HistoryId \in Nat
  BY BoxFacts DEF SyncInv, HistoryId
<1>2. PICK s \in Nat, h \in Nat : s = since' /\ h = source'.history /\ h <= HistoryId
  <2>1. since' \in Nat
    BY Limits DEF SyncTypes, Positions
  <2>2. QED
    BY <1>1, <2>1
<1>3. Entered(since, source.history)' = {}
  <2>1. Entered(since, source.history)' = EnteredIn(mailbox', s, h)
    BY <1>2, OfNextMailbox
  <2>2. EnteredIn(mailbox', s, h) = Entered(s, h)
    BY OfMailbox
  <2>3. h = 0 \/ h = s
    BY <1>2
  <2>4. Entered(s, s) = {} /\ Entered(s, 0) = {}
    <3>1. s <= s
      OBVIOUS
    <3>2. QED
      BY <3>1, EnteredMonotone
  <2>5. QED
    BY <2>1, <2>2, <2>3, <2>4
<1>4. listed' => Before(source.history)' = {}
  <2> SUFFICES ASSUME listed' PROVE Before(source.history)' = {}
    OBVIOUS
  <2>1. h = 0
    BY <1>2
  <2>2. Before(source.history)' = BeforeIn(mailbox', h)
    BY <1>2, OfNextMailbox
  <2>3. BeforeIn(mailbox', h) = Before(0)
    BY <2>1, OfMailbox
  <2>4. Before(0) = {}
    <3>1. mailbox \in Seq(Events) /\ 0 \in Nat /\ 0 <= 0
      BY BoxFacts DEF SyncInv
    <3>2. QED
      BY <3>1, BeforeMonotone
  <2>5. QED
    BY <2>2, <2>3, <2>4
<1>5. Clean'
  BY <1>3, <1>4 DEF Clean
<1>6. Saved' /\ CheckpointAccounts'
  BY <1>3, <1>5, NoPageFacts DEF Saved, CheckpointAccounts
<1>7. Bounds'
  <2>1. NoPage.base = 0 /\ NoPage.check = 0 /\ NoPage.pos = 0
    BY DEF NoPage
  <2>2. Within(source.page)'
    BY <1>1, <2>1 DEF Within
  <2>3. \A w \in Workers : worker'[w].history <= HistoryId' /\ Within(worker[w].cursor)'
    BY <1>1 DEF SyncInv, Bounds, Within
  <2>4. QED
    BY <1>1, <1>2, <2>2, <2>3 DEF Bounds
<1>8. Trusting' /\ Rows' /\ Gens'
  BY DEF SyncInv, Trusting, Rows, Gens
<1>9. QED
  BY <1>6, <1>7, <1>8 DEF SyncInv

LEMMA CompleteOAuthKeeps ==
  ASSUME SyncInv, CompleteOAuth
  PROVE  SyncInv'
<1>1. SyncTypes
  BY DEF SyncInv
<1>2. source.gen + 1 \in 1..MaxGeneration /\ NoPage \in Cursor /\ 0 \in Positions
  BY <1>1, SourceFacts, NoPageFacts, Limits DEF CompleteOAuth, MayMove, Positions
<1>3. PICK row \in SourceRecord :
        row = [source EXCEPT !.state = "paused", !.gen = source.gen + 1, !.granted = TRUE,
                             !.history = 0, !.page = NoPage, !.coverage = "not_started"]
  BY <1>1, <1>2, SourceFacts DEF SourceRecord, SourceStates, Coverages
<1>4. /\ row.gen = source.gen + 1 /\ row.state = "paused" /\ row.page = NoPage
      /\ row.history = 0 /\ row.coverage = "not_started"
  BY <1>1, <1>3, SourceFacts DEF SourceRecord
<1>5. source' = row
  BY <1>3 DEF CompleteOAuth
<1>6. standing' \in [issuer : BOOLEAN, entitled : BOOLEAN]
  BY <1>1 DEF CompleteOAuth, SyncTypes
<1>7. SyncTypes'
  BY <1>1, <1>5, <1>6 DEF CompleteOAuth, ghosts, SyncTypes, Holders
<1>8. \A w \in Workers : ~Holds(w)'
  BY <1>1, <1>4, <1>5, SourceFacts, JobFacts DEF CompleteOAuth, Holds, SyncInv, Gens
<1>9. job'.gen <= source'.gen /\ PolledOrGivenUp'
  BY <1>1, <1>4, <1>5, SourceFacts, JobFacts DEF CompleteOAuth, SyncInv, Gens, PolledOrGivenUp
<1>10. /\ mailbox' = mailbox /\ worker' = worker /\ since' <= HistoryId
       /\ human'.history <= HistoryId
  BY DEF CompleteOAuth, ghosts, SyncInv, Bounds
<1>11. QED
  BY <1>4, <1>5, <1>7, <1>8, <1>9, <1>10, Restarts

LEMMA SaveConnectionKeeps ==
  ASSUME SyncInv, NEW selection \in {"from_now", "bounded_backfill"}, SaveConnection(selection)
  PROVE  SyncInv'
<1>1. SyncTypes
  BY DEF SyncInv
<1>2. PICK gen \in 1..MaxGeneration, at \in Positions, old \in Positions :
        /\ gen = source.gen + 1 /\ at = (IF selection = "from_now" THEN human.history ELSE 0)
        /\ old = human.history
  <2>1. human.history \in Positions /\ 0 \in Positions
    BY <1>1, Limits DEF SyncTypes, HumanRecord, Positions
  <2>2. source.gen + 1 \in 1..MaxGeneration
    BY <1>1, SourceFacts, Limits DEF SaveConnection, MayMove
  <2>3. QED
    BY <2>1, <2>2
<1>3. PICK row \in SourceRecord :
        row = [source EXCEPT !.state = "active", !.gen = gen, !.policy = selection,
                   !.history = at, !.page = NoPage, !.coverage = "not_started"]
  BY <1>1, SourceFacts, NoPageFacts DEF SourceRecord, SourceStates, Coverages
<1>4. /\ row.gen = gen /\ row.state = "active" /\ row.page = NoPage
      /\ row.history = at /\ row.coverage = "not_started"
  BY <1>1, <1>3, SourceFacts DEF SourceRecord
<1>5. source' = row
  BY <1>2, <1>3 DEF SaveConnection
<1>6. standing' \in [issuer : BOOLEAN, entitled : BOOLEAN]
  BY <1>1 DEF SaveConnection, SyncTypes
<1>7. job' \in JobRecord /\ job'.gen = gen /\ job'.status = "queued"
  <2>1. job' = QueuedJob(gen, TRUE)
    BY <1>2 DEF SaveConnection, Enqueue
  <2>2. gen \in 0..MaxGeneration
    BY Limits
  <2>3. QED
    BY <1>1, <2>1, <2>2, QueuedFacts
<1>8. human' \in HumanRecord /\ human'.history = 0
  BY Limits DEF SaveConnection, Absent, HumanRecord, Positions
<1>9. since' = old /\ listed' = FALSE /\ skipped' = {} /\ owed' = {}
  BY <1>2 DEF SaveConnection
<1>10. SyncTypes'
  BY <1>1, <1>5, <1>6, <1>7, <1>8, <1>9 DEF SaveConnection, SyncTypes
<1>11. \A w \in Workers : ~Holds(w)'
  BY <1>7 DEF Holds, Leased
<1>12. job'.gen <= source'.gen /\ PolledOrGivenUp'
  <2>1. gen <= gen
    BY Limits
  <2>2. source'.gen = gen /\ job'.status \in Unfinished
    BY <1>4, <1>5, <1>7 DEF Unfinished
  <2>3. QED
    BY <1>7, <2>1, <2>2 DEF PolledOrGivenUp
<1>13. mailbox' = mailbox /\ worker' = worker
  BY DEF SaveConnection
<1>14. since' <= HistoryId /\ human'.history <= HistoryId
  <2>1. HistoryId \in Nat /\ human.history <= HistoryId
    BY <1>1, BoxFacts DEF SyncInv, Bounds
  <2>2. QED
    BY <1>2, <1>8, <1>9, <2>1
<1>15. source'.history = 0 \/ (source'.history = since' /\ ~listed')
  BY <1>2, <1>4, <1>5, <1>9
<1>16. QED
  BY <1>4, <1>5, <1>10, <1>11, <1>12, <1>13, <1>14, <1>15, Restarts

-----------------------------------------------------------------------------
(***************************************************************************)
(* Steps of a turn that leave the source's progress alone.                 *)
(***************************************************************************)
\* A turn goes on, and the source and the job stay as they are.
LEMMA TurnMoves ==
  ASSUME SyncInv, NEW w \in Workers, NEW row, Learns(w, row), Holds(w) => Trusts(row),
         UNCHANGED <<outside, source, job, captured, human, ghosts>>, operation' \in Holders
  PROVE  SyncInv'
<1>1. source' = source /\ job' = job
  OBVIOUS
<1>2. source' \in SourceRecord /\ job' \in JobRecord
  BY <1>1, SourceFacts, JobFacts DEF SyncInv
<1>3. \A v \in Workers : Holds(v)' => Holds(v)
  BY <1>1 DEF Holds, Leased
<1>4. job'.gen <= source'.gen /\ PolledOrGivenUp' /\ Progress' = Progress
  BY <1>1 DEF SyncInv, Gens, PolledOrGivenUp, Progress
<1>5. UNCHANGED <<outside, captured, human, ghosts>>
  OBVIOUS
<1>6. QED
  BY <1>2, <1>3, <1>4, <1>5, WorkerMoves

\* What a turn knew is forgotten when it is over.
LEMMA Concludes ==
  ASSUME SyncInv, NEW w \in Workers, NEW pc \in {"release", "ending", "failing"}, NEW out \in Outs,
         Conclude(w, pc, out), pc = "failing" /\ out = "resync" => source.page.mode # "none"
  PROVE  \E row : Learns(w, row) /\ Trusts(row)
<1>1. PICK owns \in BOOLEAN : owns = worker[w].owns
  BY RowFacts DEF SyncInv
<1>2. PICK row : row = Concluded(pc, owns, out)
  OBVIOUS
<1>3. /\ row \in WorkerRecord /\ row.pc = pc /\ row.out = out
      /\ row.history = 0 /\ row.cursor = NoPage
  BY <1>2, ConcludedFacts DEF Pcs
<1>4. worker' = [worker EXCEPT ![w] = row]
  BY <1>1, <1>2 DEF Conclude, Concluded
<1>5. Within(NoPage) /\ 0 <= HistoryId
  BY BoxFacts DEF Within, NoPage, SyncInv
<1>6. Learns(w, row)
  <2>1. Within(row.cursor) /\ row.history <= HistoryId /\ row.pc # "fetched"
    BY <1>3, <1>5
  <2>2. QED
    BY <1>3, <1>4, <2>1 DEF Learns
<1>7. Trusts(row)
  BY <1>3 DEF Trusts
<1>8. QED
  BY <1>6, <1>7

LEMMA Leaves ==
  ASSUME SyncInv, NEW w \in Workers, Leave(w) \/ worker' = [worker EXCEPT ![w] = Idle]
  PROVE  \E row : Learns(w, row) /\ Trusts(row) /\ Trusts(row)'
<1>1. CASE Conclude(w, "release", "none")
  <2>1. PICK owns \in BOOLEAN : owns = worker[w].owns
    BY RowFacts DEF SyncInv
  <2>2. PICK row : row = Concluded("release", owns, "none")
    OBVIOUS
  <2>3. row \in WorkerRecord /\ row.pc = "release" /\ row.history = 0 /\ row.cursor = NoPage
    <3>1. "release" \in Pcs /\ "none" \in Outs
      BY DEF Pcs, Outs
    <3>2. QED
      BY <2>2, <3>1, ConcludedFacts
  <2>4. worker' = [worker EXCEPT ![w] = row]
    BY <1>1, <2>1, <2>2 DEF Conclude, Concluded
  <2>5. Within(NoPage) /\ 0 <= HistoryId
    BY BoxFacts DEF Within, NoPage, SyncInv
  <2>6. Learns(w, row) /\ Trusts(row) /\ Trusts(row)'
    BY <2>3, <2>4, <2>5 DEF Learns, Trusts
  <2>7. QED
    BY <2>6
<1>2. CASE worker' = [worker EXCEPT ![w] = Idle]
  <2>1. Within(NoPage) /\ 0 <= HistoryId
    BY BoxFacts DEF Within, NoPage, SyncInv
  <2>2. Learns(w, Idle) /\ Trusts(Idle) /\ Trusts(Idle)'
    BY <1>2, <2>1, IdleFacts DEF Learns, Trusts
  <2>3. QED
    BY <2>2
<1>3. QED
  BY <1>1, <1>2 DEF Leave

\* A turn moves on in its program with all that it knows.
LEMMA Moves ==
  ASSUME SyncInv, NEW w \in Workers, NEW pc \in Pcs, pc # "fetched", GoTo(w, pc)
  PROVE  \E row : /\ Learns(w, row) /\ row.pc = pc
                  /\ row.history = worker[w].history /\ row.cursor = worker[w].cursor
<1>1. PICK row \in WorkerRecord : row = [worker[w] EXCEPT !.pc = pc]
  BY RowFacts DEF SyncInv, WorkerRecord
<1>2. row.pc = pc /\ row.history = worker[w].history /\ row.cursor = worker[w].cursor
  BY <1>1, RowFacts DEF SyncInv, WorkerRecord
<1>3. worker' = [worker EXCEPT ![w] = row]
  BY <1>1 DEF GoTo
<1>4. Learns(w, row)
  BY <1>2, <1>3 DEF Learns, SyncInv, Bounds
<1>5. QED
  BY <1>2, <1>4

LEMMA GuardedHolds ==
  ASSUME SyncInv, NEW w \in Workers, Guarded(w)
  PROVE  /\ Holds(w) /\ Trusts(worker[w]) /\ source.state = "active" /\ source.gen = job.gen
         /\ job.status = "running" /\ job.lease = w
  BY DEF Guarded, Authority, Holds, Leased, SyncInv, Trusting

-----------------------------------------------------------------------------
LEMMA ClaimKeeps ==
  ASSUME SyncInv, NEW w \in Workers, Claim(w)
  PROVE  SyncInv'
<1>1. SyncTypes
  BY DEF SyncInv
<1>2. PICK pc \in {"claimed", "exhausted"} : GoTo(w, pc)
  BY DEF Claim, GoTo
<1>3. PICK row : Learns(w, row) /\ row.pc = pc
  BY <1>2, Moves DEF Pcs
<1>4. job' \in JobRecord /\ job'.status = "running" /\ job'.lease = w /\ job'.gen = job.gen
  <2>1. PICK n \in 0..MaxAttempts :
          n = IF job.attempts < MaxAttempts THEN job.attempts + 1 ELSE job.attempts
    BY <1>1, JobFacts, Limits
  <2>2. PICK new \in JobRecord :
          new = [job EXCEPT !.status = "running", !.attempts = n, !.lease = w]
    BY <1>1, JobFacts DEF JobRecord, Holders, Unfinished
  <2>3. new.status = "running" /\ new.lease = w /\ new.gen = job.gen
    BY <1>1, <2>2, JobFacts DEF JobRecord
  <2>4. job' = new
    <3>1. CASE job.attempts < MaxAttempts
      BY <2>1, <2>2, <3>1 DEF Claim
    <3>2. CASE ~(job.attempts < MaxAttempts)
      <4>1. job' = [job EXCEPT !.status = "running", !.lease = w]
        BY <3>2 DEF Claim
      <4>2. new = [job EXCEPT !.status = "running", !.attempts = job.attempts, !.lease = w]
        BY <2>1, <2>2, <3>2
      <4>3. QED
        BY <1>1, <4>1, <4>2, JobFacts DEF JobRecord
    <3>3. QED
      BY <3>1, <3>2
  <2>5. QED
    BY <2>3, <2>4
<1>5. source' \in SourceRecord /\ operation' \in Holders /\ Progress' = Progress
      /\ UNCHANGED <<outside, captured, human, ghosts>>
  BY <1>1, SourceFacts DEF Claim, SyncTypes, Progress
<1>6. \A v \in Workers \ {w} : ~Holds(v)'
  BY <1>4 DEF Holds, Leased
<1>7. Trusts(row)
  BY <1>3 DEF Trusts
<1>8. job'.gen <= source'.gen /\ PolledOrGivenUp'
  <2>1. job.status \in Unfinished
    BY DEF Claim, Claimable, Unfinished
  <2>2. QED
    BY <1>4, <2>1 DEF Claim, SyncInv, Gens, PolledOrGivenUp, Unfinished
<1>9. QED
  BY <1>3, <1>4, <1>5, <1>6, <1>7, <1>8, WorkerMoves

LEMMA FailExhaustedKeeps ==
  ASSUME SyncInv, NEW w \in Workers, FailExhausted(w)
  PROVE  SyncInv'
<1>1. SyncTypes
  BY DEF SyncInv
<1>2. PICK row : Learns(w, row) /\ Trusts(row)
  BY Leaves DEF FailExhausted
<1>3. operation' \in Holders /\ UNCHANGED <<outside, captured, human, ghosts>>
  BY <1>1 DEF FailExhausted, SyncTypes
<1>4. CASE ~Leased(w)
  BY <1>2, <1>3, <1>4, TurnMoves DEF FailExhausted
<1>5. CASE Leased(w)
  <2>1. PICK new \in JobRecord : new = [job EXCEPT !.status = "failed", !.lease = NoOne, !.code = "other"]
    BY <1>1, JobFacts DEF JobRecord, Holders
  <2>2. new.status = "failed" /\ new.gen = job.gen
    BY <1>1, <2>1, JobFacts DEF JobRecord
  <2>3. job' = new
    BY <1>5, <2>1 DEF FailExhausted
  <2>4. /\ source' \in SourceRecord /\ Progress' = Progress /\ source'.gen = source.gen
        /\ source'.state # "active"
    <3>1. CASE source.state = "active" /\ source.gen = job.gen
      <4>1. PICK failed \in SourceRecord : failed = [source EXCEPT !.state = "failed"]
        BY <1>1, SourceFacts DEF SourceRecord, SourceStates
      <4>2. /\ failed.gen = source.gen /\ failed.state = "failed" /\ failed.page = source.page
            /\ failed.history = source.history /\ failed.coverage = source.coverage
        BY <1>1, <4>1, SourceFacts DEF SourceRecord
      <4>3. source' = failed
        BY <1>5, <3>1, <4>1 DEF FailExhausted
      <4>4. QED
        BY <4>2, <4>3 DEF Progress
    <3>2. CASE ~(source.state = "active" /\ source.gen = job.gen)
      <4>1. source' = source
        BY <1>5, <3>2 DEF FailExhausted
      <4>2. source.state # "active"
        BY <1>5, <3>2 DEF Leased, SyncInv, PolledOrGivenUp, Unfinished
      <4>3. QED
        BY <1>1, <4>1, <4>2, SourceFacts DEF Progress
    <3>3. QED
      BY <3>1, <3>2
  <2>5. \A v \in Workers : ~Holds(v)'
    BY <2>2, <2>3 DEF Holds, Leased
  <2>6. job'.gen <= source'.gen /\ PolledOrGivenUp'
    BY <2>2, <2>3, <2>4 DEF SyncInv, Gens, PolledOrGivenUp
  <2>7. QED
    BY <1>2, <1>3, <2>3, <2>4, <2>5, <2>6, WorkerMoves
<1>6. QED
  BY <1>4, <1>5

LEMMA StoppingKeeps ==
  ASSUME SyncInv, NEW w \in Workers,
         \/ Refused(w) \/ Disabled(w) \/ HistoryGone(w)
         \/ \E error \in Errors : Fails(w, error)
  PROVE  SyncInv'
<1>1. UNCHANGED <<outside, source, job, captured, human, ghosts>> /\ operation' \in Holders
  BY DEF SyncInv, SyncTypes, Refused, Disabled, HistoryGone, Fails
<1>2. \E row : Learns(w, row) /\ Trusts(row)
  <2>1. CASE Refused(w)
    <3>1. CASE ~Leased(w)
      BY <2>1, <3>1, Leaves DEF Refused
    <3>2. CASE Leased(w)
      <4>1. PICK out \in {"revoked", "late", "busy"} : Conclude(w, "ending", out)
        BY <2>1, <3>2 DEF Refused
      <4>2. QED
        BY <4>1, Concludes DEF Outs
    <3>3. QED
      BY <3>1, <3>2
  <2>2. CASE Disabled(w)
    BY <2>2, Concludes DEF Disabled, Outs
  <2>3. CASE HistoryGone(w)
    <3>1. Guarded(w) /\ worker[w].pc = "loop" /\ Conclude(w, "failing", "resync")
      BY <2>3 DEF HistoryGone, WantsPage
    <3>2. source.page.mode # "none"
      BY <3>1, GuardedHolds DEF Trusts
    <3>3. QED
      BY <3>1, <3>2, Concludes DEF Outs
  <2>4. CASE \E error \in Errors : Fails(w, error)
    <3>1. PICK error \in Errors : Conclude(w, "failing", error)
      BY <2>4 DEF Fails
    <3>2. error \in Outs /\ error # "resync"
      BY DEF Outs, Errors
    <3>3. QED
      BY <3>1, <3>2, Concludes
  <2>5. QED
    BY <2>1, <2>2, <2>3, <2>4
<1>3. QED
  BY <1>1, <1>2, TurnMoves

LEMMA EndKeeps ==
  ASSUME SyncInv, NEW w \in Workers, End(w)
  PROVE  SyncInv'
<1>1. SyncTypes
  BY DEF SyncInv
<1>2. PICK row : Learns(w, row) /\ Trusts(row)
  BY Leaves DEF End
<1>3. operation' \in Holders /\ UNCHANGED <<outside, source, captured, human, ghosts>>
  BY <1>1 DEF End, SyncTypes
<1>4. CASE ~Leased(w)
  BY <1>2, <1>3, <1>4, TurnMoves DEF End
<1>5. CASE Leased(w)
  <2>1. PICK status \in {"skipped", "retrying", "failed"}, code \in {"revoked", "busy"} :
          Finished(status, code)
    BY <1>5 DEF End
  <2>2. PICK new \in JobRecord :
          new = [job EXCEPT !.status = status, !.lease = NoOne, !.due = FALSE, !.code = code]
    BY <1>1, JobFacts DEF JobRecord, Holders, Unfinished
  <2>3. new.status = status /\ new.gen = job.gen /\ new.code = code
    BY <1>1, <2>2, JobFacts DEF JobRecord
  <2>4. job' = new
    BY <2>1, <2>2 DEF Finished
  <2>5. \A v \in Workers : ~Holds(v)'
    BY <2>3, <2>4 DEF Holds, Leased
  <2>6. source' \in SourceRecord /\ Progress' = Progress
    BY <1>1, <1>3, SourceFacts DEF Progress
  <2>7. job'.gen <= source'.gen
    BY <1>3, <2>3, <2>4 DEF SyncInv, Gens
  <2>8. PolledOrGivenUp'
    BY <1>3, <1>5, <2>3, <2>4 DEF Leased, SyncInv, PolledOrGivenUp, Unfinished
  <2>9. UNCHANGED <<outside, captured, human, ghosts>>
    BY <1>3
  <2>10. QED
    BY <1>2, <1>3, <2>4, <2>5, <2>6, <2>7, <2>8, <2>9, WorkerMoves
<1>6. QED
  BY <1>4, <1>5

LEMMA ReleaseKeeps ==
  ASSUME SyncInv, NEW w \in Workers, Release(w)
  PROVE  SyncInv'
<1>1. PICK row : Learns(w, row) /\ Trusts(row)
  BY Leaves DEF Release
<1>2. operation' \in Holders
  BY DEF Release, FreedOf, SyncInv, SyncTypes, Holders
<1>3. UNCHANGED <<outside, source, job, captured, human, ghosts>>
  BY DEF Release
<1>4. QED
  BY <1>1, <1>2, <1>3, TurnMoves

LEMMA CrashKeeps ==
  ASSUME SyncInv, NEW w \in Workers, Crash(w)
  PROVE  SyncInv'
<1>1. SyncTypes
  BY DEF SyncInv
<1>2. PICK row : Learns(w, row) /\ Trusts(row)
  BY Leaves DEF Crash
<1>3. PICK lease \in Holders : lease = IF job.lease = w THEN Dead ELSE job.lease
  BY <1>1, JobFacts DEF Holders
<1>4. PICK new \in JobRecord : new = [job EXCEPT !.lease = lease]
  BY <1>1, JobFacts DEF JobRecord
<1>5. /\ new.status = job.status /\ new.gen = job.gen /\ new.code = job.code
      /\ new.lease = lease
  BY <1>1, <1>4, JobFacts DEF JobRecord
<1>6. job' = new
  BY <1>3, <1>4 DEF Crash
<1>7. operation' \in Holders /\ source' \in SourceRecord /\ Progress' = Progress
      /\ UNCHANGED <<outside, captured, human, ghosts>>
  BY <1>1, SourceFacts DEF Crash, Holders, SyncTypes, Progress
<1>8. \A v \in Workers \ {w} : Holds(v)' => Holds(v)
  BY <1>3, <1>5, <1>6, Limits DEF Crash, Holds, Leased
<1>9. job'.gen <= source'.gen /\ PolledOrGivenUp'
  BY <1>5, <1>6 DEF Crash, SyncInv, Gens, PolledOrGivenUp
<1>10. QED
  BY <1>2, <1>6, <1>7, <1>8, <1>9, WorkerMoves

-----------------------------------------------------------------------------
(***************************************************************************)
(* A turn begins and reads pages.                                          *)
(***************************************************************************)
LEMMA AcquireKeeps ==
  ASSUME SyncInv, NEW w \in Workers, Acquire(w)
  PROVE  SyncInv'
<1>1. UNCHANGED <<outside, source, job, captured, human, ghosts>> /\ SyncTypes /\ operation' \in Holders
  BY DEF Acquire, SyncInv, SyncTypes, Holders
<1>2. CASE operation # NoOne
  <2>1. "ending" \in {"release", "ending", "failing"} /\ "busy" \in Outs
    BY DEF Outs
  <2>2. Conclude(w, "ending", "busy")
    BY <1>2 DEF Acquire
  <2>3. \E row : Learns(w, row) /\ Trusts(row)
    BY <2>1, <2>2, Concludes
  <2>4. QED
    BY <1>1, <2>3, TurnMoves
<1>3. CASE operation = NoOne
  <2>1. PICK warned \in BOOLEAN :
          warned = (source.page.warned \/ (source.page = NoPage /\ source.coverage = "incomplete"))
    BY <1>1, SourceFacts, CursorFacts
  <2>2. PICK c \in Cursor : c = [source.page EXCEPT !.warned = warned]
    BY <1>1, SourceFacts DEF Cursor
  <2>3. /\ c.mode = source.page.mode /\ c.base = source.page.base /\ c.check = source.page.check
        /\ c.pos = source.page.pos /\ c.warned = warned
    BY <1>1, <2>2, SourceFacts DEF Cursor
  <2>4. PICK row \in WorkerRecord :
          row = [worker[w] EXCEPT !.pc = "acquired", !.owns = TRUE, !.policy = source.policy,
                                  !.history = source.history, !.cursor = c]
    BY <1>1, SourceFacts, RowFacts DEF WorkerRecord, Pcs
  <2>5. row.pc = "acquired" /\ row.history = source.history /\ row.cursor = c
    BY <1>1, <2>4, RowFacts DEF WorkerRecord
  <2>6. worker' = [worker EXCEPT ![w] = row]
    BY <1>1, <1>3, <2>1, <2>2, <2>4, RowFacts DEF Acquire, SyncTypes
  <2>7. Learns(w, row)
    BY <2>3, <2>5, <2>6 DEF Learns, SyncInv, Bounds, Within
  <2>8. c.mode # "none" => Passed(c, {})
    <3>1. CASE source.page.mode = "none"
      BY <2>3, <3>1
    <3>2. CASE source.page.mode # "none"
      <4>1. warned = source.page.warned
        BY <1>1, <2>1, <3>2, SourceFacts, CursorFacts, NoPageFacts
      <4>2. c = source.page
        BY <1>1, <2>2, <4>1, SourceFacts DEF Cursor
      <4>3. QED
        BY <3>2, <4>2 DEF SyncInv, Saved
    <3>3. QED
      BY <3>1, <3>2
  <2>9. c.mode = "none" /\ ~c.warned => source.coverage # "incomplete"
    BY <2>1, <2>3 DEF SyncInv, Saved
  <2>10. Trusts(row)
    BY <2>3, <2>5, <2>8, <2>9 DEF Trusts
  <2>11. QED
    BY <1>1, <2>7, <2>10, TurnMoves
<1>4. QED
  BY <1>2, <1>3

\* A worker begins, or goes on where an earlier turn stopped.
LEMMA NewCursorFacts ==
  ASSUME SyncInv, NEW w \in Workers, NEW c, c = NewCursor(w)
  PROVE  /\ c \in Cursor /\ Within(c) /\ c.mode \in {"backfill", "history"}
         /\ c.check = c.base /\ c.pos = c.base /\ c.pending = {} /\ c.past = {} /\ ~c.more
         /\ c.mode = "backfill" => ~c.loaded
         /\ worker[w].history # 0 => c.base = worker[w].history /\ c.mode = "history"
         /\ c.warned = worker[w].cursor.warned
<1>1. SyncTypes
  BY DEF SyncInv
<1>2. PICK base \in Positions :
        base = IF worker[w].history = 0 THEN HistoryId ELSE worker[w].history
  BY <1>1, BoxFacts, RowFacts
<1>3. base <= HistoryId
  BY <1>1, <1>2, BoxFacts DEF SyncInv, Bounds
<1>4. PICK backfill \in BOOLEAN :
        backfill = (worker[w].history = 0 /\ worker[w].policy = "bounded_backfill")
  OBVIOUS
<1>5. PICK warned \in BOOLEAN : warned = worker[w].cursor.warned
  BY <1>1, RowFacts, CursorFacts
<1>6. c = [mode |-> IF backfill THEN "backfill" ELSE "history", base |-> base, check |-> base,
           more |-> FALSE, pos |-> base, past |-> {},
           loaded |-> worker[w].history = 0 /\ ~backfill, pending |-> {},
           remaining |-> IF backfill THEN BackfillLimit ELSE 0, warned |-> warned]
  BY <1>2, <1>4, <1>5 DEF NewCursor, CursorAfter
<1>7. c \in Cursor
  <2>1. (IF backfill THEN BackfillLimit ELSE 0) \in 0..BackfillLimit
    BY Limits
  <2>2. QED
    BY <1>6, <2>1 DEF Cursor
<1>8. /\ c.mode = (IF backfill THEN "backfill" ELSE "history")
      /\ c.base = base /\ c.check = base /\ c.pos = base /\ c.pending = {} /\ c.past = {}
      /\ c.more = FALSE /\ c.loaded = (worker[w].history = 0 /\ ~backfill) /\ c.warned = warned
  BY <1>6
<1>9. Within(c)
  BY <1>3, <1>8 DEF Within
<1>10. QED
  BY <1>2, <1>4, <1>5, <1>7, <1>8, <1>9

LEMMA StartCursorKeeps ==
  ASSUME SyncInv, NEW w \in Workers, StartCursor(w)
  PROVE  SyncInv'
<1>1. UNCHANGED <<outside, source, job, captured, human, ghosts>> /\ SyncTypes /\ operation' \in Holders
  BY DEF StartCursor, SyncInv, SyncTypes
<1>2. /\ worker[w].pc = "acquired" /\ worker[w].history = source.history
      /\ worker[w].cursor.mode = source.page.mode
      /\ worker[w].cursor.mode # "none" => Passed(worker[w].cursor, {})
      /\ worker[w].cursor.mode = "none" /\ ~worker[w].cursor.warned => source.coverage # "incomplete"
  BY GuardedHolds DEF StartCursor, Trusts
<1>3. CASE worker[w].cursor.mode # "none"
  <2>1. PICK row : /\ Learns(w, row) /\ row.pc = "loop"
                   /\ row.history = worker[w].history /\ row.cursor = worker[w].cursor
    BY <1>3, Moves DEF StartCursor, Pcs
  <2>2. Trusts(row)
    BY <1>2, <1>3, <2>1 DEF Trusts
  <2>3. QED
    BY <1>1, <2>1, <2>2, TurnMoves
<1>4. CASE worker[w].cursor.mode = "none"
  <2>1. PICK c : c = NewCursor(w)
    OBVIOUS
  <2>2. /\ c \in Cursor /\ Within(c) /\ c.mode \in {"backfill", "history"}
        /\ c.check = c.base /\ c.pos = c.base /\ c.pending = {} /\ c.past = {} /\ ~c.more
        /\ c.mode = "backfill" => ~c.loaded
        /\ worker[w].history # 0 => c.base = worker[w].history /\ c.mode = "history"
        /\ c.warned = worker[w].cursor.warned
    BY <2>1, NewCursorFacts
  <2>3. PICK row \in WorkerRecord : row = [worker[w] EXCEPT !.pc = "started", !.cursor = c]
    BY <1>1, <2>2, RowFacts DEF WorkerRecord, Pcs
  <2>4. row.pc = "started" /\ row.history = worker[w].history /\ row.cursor = c
    BY <1>1, <2>3, RowFacts DEF WorkerRecord
  <2>5. worker' = [worker EXCEPT ![w] = row]
    BY <1>1, <1>4, <2>1, <2>3, RowFacts DEF StartCursor, SyncTypes
  <2>6. Learns(w, row)
    BY <2>2, <2>4, <2>5 DEF Learns, SyncInv, Bounds
  <2>7. row.history = 0 => Begins(c)
    BY <2>2 DEF Begins
  <2>8. row.history # 0 => Passed(c, {})
    <3> SUFFICES ASSUME row.history # 0 PROVE Passed(c, {})
      OBVIOUS
    <3>1. /\ c.mode = "history" /\ c.pos = source.history /\ c.check = c.pos /\ c.pos \in Nat
          /\ source.history # 0 /\ c.warned = worker[w].cursor.warned /\ c.warned \in BOOLEAN
      BY <1>2, <2>2, <2>4, CursorFacts
    <3>2. Entered(since, source.history) \subseteq captured \cup skipped
      BY <3>1 DEF SyncInv, CheckpointAccounts
    <3>3. ~c.warned => Clean
      BY <1>2, <1>4, <3>1 DEF SyncInv, Saved
    <3>4. Entered(since, c.pos) \subseteq Kept(c) \cup OnPage(c) \cup {}
      BY <3>1, <3>2, <3>3 DEF Kept, Clean
    <3>5. ~c.warned /\ listed => Before(c.pos) \subseteq captured \cup OnPage(c) \cup {}
      BY <3>1, <3>3 DEF Clean
    <3>6. c.check <= c.pos
      BY <3>1
    <3>7. QED
      BY <3>1, <3>4, <3>5, <3>6 DEF Passed
  <2>9. Trusts(row)
    BY <1>2, <2>2, <2>4, <2>7, <2>8 DEF Trusts
  <2>10. QED
    BY <1>1, <2>6, <2>9, TurnMoves
<1>5. QED
  BY <1>3, <1>4

-----------------------------------------------------------------------------
\* A page is read: the row that the turn then has.
LEMMA PageKeeps ==
  ASSUME SyncInv, NEW w \in Workers, NEW c \in Cursor, WantsPage(w), TurnPage(w, c),
         Within(c), c.mode = worker[w].cursor.mode,
         \A d \in Cursor : d = [c EXCEPT !.loaded = TRUE] => Passed(d, {})
  PROVE  SyncInv'
<1>1. UNCHANGED <<outside, source, job, captured, human, ghosts>> /\ SyncTypes /\ operation' \in Holders
  BY DEF TurnPage, SyncInv, SyncTypes
<1>2. PICK d \in Cursor : d = [c EXCEPT !.loaded = TRUE]
  BY DEF Cursor
<1>3. d.mode = c.mode /\ d.base = c.base /\ d.check = c.check /\ d.pos = c.pos
  BY <1>2 DEF Cursor
<1>4. PICK row \in WorkerRecord : row = [worker[w] EXCEPT !.pc = "listed", !.cursor = d]
  BY <1>1, RowFacts DEF WorkerRecord, Pcs
<1>5. row.pc = "listed" /\ row.history = worker[w].history /\ row.cursor = d
  BY <1>1, <1>4, RowFacts DEF WorkerRecord
<1>6. worker' = [worker EXCEPT ![w] = row]
  BY <1>1, <1>2, <1>4, RowFacts DEF TurnPage, SyncTypes
<1>7. Learns(w, row)
  BY <1>3, <1>5, <1>6 DEF Learns, SyncInv, Bounds, Within
<1>8. worker[w].history = source.history /\ c.mode # "none" /\ source.page.mode # "none"
  BY GuardedHolds DEF WantsPage, Trusts
<1>9. Trusts(row)
  BY <1>2, <1>3, <1>5, <1>8 DEF Trusts
<1>10. QED
  BY <1>1, <1>7, <1>9, TurnMoves

LEMMA WantsFacts ==
  ASSUME SyncInv, NEW w \in Workers, WantsPage(w), NEW c, c = worker[w].cursor
  PROVE  /\ c \in Cursor /\ Within(c) /\ Passed(c, {}) /\ c.pending = {} /\ OnPage(c) = {}
<1>1. c \in Cursor /\ Within(c) /\ c.pending = {}
  BY RowFacts DEF SyncInv, Bounds, WantsPage
<1>2. Passed(c, {})
  BY GuardedHolds DEF WantsPage, Trusts
<1>3. QED
  BY <1>1, <1>2 DEF OnPage

LEMMA EndBackfillKeeps ==
  ASSUME SyncInv, NEW w \in Workers, EndBackfill(w)
  PROVE  SyncInv'
<1>1. PICK c \in Cursor : c = worker[w].cursor
  BY RowFacts DEF SyncInv
<1>2. WantsPage(w) /\ c.mode = "backfill" /\ Within(c) /\ Passed(c, {})
  BY <1>1, WantsFacts DEF EndBackfill
<1>3. PICK d \in Cursor : d = [c EXCEPT !.warned = TRUE, !.more = FALSE]
  BY DEF Cursor
<1>4. d.mode = c.mode /\ d.base = c.base /\ d.check = c.check /\ d.pos = c.pos /\ d.warned = TRUE
  BY <1>3 DEF Cursor
<1>5. Within(d) /\ TurnPage(w, d)
  BY <1>1, <1>2, <1>3, <1>4 DEF Within, EndBackfill
<1>6. ASSUME NEW e \in Cursor, e = [d EXCEPT !.loaded = TRUE] PROVE Passed(e, {})
  <2>1. e.mode = "backfill" /\ e.check = c.check /\ e.warned = TRUE
    BY <1>2, <1>4, <1>6 DEF Cursor
  <2>2. QED
    BY <1>2, <2>1 DEF Passed
<1>7. QED
  BY <1>1, <1>2, <1>4, <1>5, <1>6, PageKeeps

LEMMA ListMessagesKeeps ==
  ASSUME SyncInv, NEW w \in Workers, ListMessages(w)
  PROVE  SyncInv'
<1>1. PICK c \in Cursor : c = worker[w].cursor
  BY RowFacts DEF SyncInv
<1>2. PICK found \in SUBSET (Labelled \ c.past) :
        TurnPage(w, [c EXCEPT !.pending = found \X {FALSE}, !.past = c.past \cup found,
                              !.more = Labelled \ c.past # found])
  BY <1>1 DEF ListMessages
<1>3. WantsPage(w) /\ c.mode = "backfill" /\ Within(c) /\ Passed(c, {}) /\ OnPage(c) = {}
      /\ c.past \subseteq Messages
  BY <1>1, WantsFacts, CursorFacts DEF ListMessages
<1>4. found \subseteq Messages /\ found \X {FALSE} \subseteq Messages \X BOOLEAN
  BY DEF Labelled
<1>5. PICK more \in BOOLEAN : more = (Labelled \ c.past # found)
  OBVIOUS
<1>6. PICK d \in Cursor :
        d = [c EXCEPT !.pending = found \X {FALSE}, !.past = c.past \cup found, !.more = more]
  BY <1>3, <1>4 DEF Cursor
<1>7. d.mode = c.mode /\ d.base = c.base /\ d.check = c.check /\ d.pos = c.pos
  BY <1>6 DEF Cursor
<1>8. Within(d) /\ TurnPage(w, d)
  BY <1>2, <1>3, <1>5, <1>6, <1>7 DEF Within
<1>9. ASSUME NEW e \in Cursor, e = [d EXCEPT !.loaded = TRUE] PROVE Passed(e, {})
  <2>1. /\ e.mode = "backfill" /\ e.check = c.check /\ e.warned = c.warned /\ e.more = more
        /\ e.pending = found \X {FALSE} /\ e.past = c.past \cup found
    BY <1>3, <1>6, <1>9 DEF Cursor
  <2>2. OnPage(e) = found
    <3>1. \A entry \in found \X {FALSE} : entry[1] \in found
      OBVIOUS
    <3>2. \A m \in found : <<m, FALSE>> \in found \X {FALSE} /\ <<m, FALSE>>[1] = m
      OBVIOUS
    <3>3. QED
      BY <2>1, <3>1, <3>2 DEF OnPage
  <2>3. ~e.warned => e.past \subseteq captured \cup OnPage(e) \cup {}
    BY <1>3, <2>1, <2>2 DEF Passed
  <2>4. ~e.more => Before(since) \subseteq e.past
    BY <1>5, <2>1 DEF Before
  <2>5. QED
    BY <1>3, <2>1, <2>3, <2>4 DEF Passed
<1>10. QED
  BY <1>1, <1>3, <1>7, <1>8, <1>9, PageKeeps

LEMMA ListHistoryKeeps ==
  ASSUME SyncInv, NEW w \in Workers, ListHistory(w)
  PROVE  SyncInv'
<1>1. PICK c \in Cursor : c = worker[w].cursor
  BY RowFacts DEF SyncInv
<1>2. WantsPage(w) /\ c.mode = "history" /\ Within(c) /\ Passed(c, {}) /\ OnPage(c) = {}
  BY <1>1, WantsFacts DEF ListHistory
<1>3. PICK box \in Seq(Events), top \in Positions, old \in Nat :
        box = mailbox /\ top = HistoryId /\ old = since /\ top \in Nat
  BY BoxFacts DEF SyncInv
<1>4. PICK end \in Positions :
        /\ end = (IF c.pos + PageLimit < HistoryId THEN c.pos + PageLimit ELSE HistoryId)
        /\ c.pos \in Nat /\ end \in Nat /\ end <= top /\ c.pos <= end
  BY <1>2, <1>3, CursorFacts, Limits DEF Within, Positions
<1>5. PICK more \in BOOLEAN : more = (end < top)
  <2>1. (end < top) \in BOOLEAN
    BY <1>3, <1>4
  <2>2. QED
    BY <2>1, Zenon
<1>6. PICK listing : listing = ListedPage(box, c.pos, end)
  OBVIOUS
<1>7. TurnPage(w, [c EXCEPT !.pending = listing, !.pos = end, !.more = more, !.check = top])
  BY <1>1, <1>3, <1>4, <1>5, <1>6 DEF ListHistory, ListedPage
<1>8. listing \subseteq Messages \X BOOLEAN
  <2>1. \A i \in (c.pos + 1)..end : box[i] \in Events
    BY <1>3, <1>4 DEF HistoryId
  <2>2. \A i \in (c.pos + 1)..end : <<box[i].msg, ~box[i].enters>> \in Messages \X BOOLEAN
    BY <2>1 DEF Events
  <2>3. \A entry \in listing : \E i \in (c.pos + 1)..end : entry = <<box[i].msg, ~box[i].enters>>
    BY <1>6 DEF ListedPage
  <2>4. QED
    BY <2>2, <2>3
<1>9. PICK d \in Cursor :
        d = [c EXCEPT !.pending = listing, !.pos = end, !.more = more, !.check = top]
  BY <1>8 DEF Cursor
<1>10. d.mode = c.mode /\ d.base = c.base /\ d.check = top /\ d.pos = end
  BY <1>9 DEF Cursor
<1>11. Within(d) /\ TurnPage(w, d)
  BY <1>2, <1>3, <1>4, <1>7, <1>9, <1>10 DEF Within
<1>12. ASSUME NEW e \in Cursor, e = [d EXCEPT !.loaded = TRUE] PROVE Passed(e, {})
  <2>1. /\ e.mode = "history" /\ e.check = top /\ e.warned = c.warned /\ e.more = more
        /\ e.pending = listing /\ e.pos = end
    BY <1>2, <1>9, <1>12 DEF Cursor
  <2>2. PICK names : names = {entry[1] : entry \in listing}
    OBVIOUS
  <2>3. /\ EnteredIn(box, old, end) \subseteq EnteredIn(box, old, c.pos) \cup names
        /\ BeforeIn(box, end) \subseteq BeforeIn(box, c.pos) \cup names
    <3>1. end <= Len(box)
      BY <1>3, <1>4 DEF HistoryId
    <3>2. QED
      BY <1>4, <1>6, <2>2, <3>1, ListedFacts
  <2>4. OnPage(e) = names
    BY <2>1, <2>2 DEF OnPage
  <2>5. /\ Entered(since, end) \subseteq Entered(since, c.pos) \cup names
        /\ Before(end) \subseteq Before(c.pos) \cup names
    BY <1>3, <2>3, OfMailbox
  <2>6. Kept(e) = Kept(c)
    BY <2>1 DEF Kept
  <2>7. Entered(since, e.pos) \subseteq Kept(e) \cup OnPage(e) \cup {}
    BY <1>2, <2>1, <2>4, <2>5, <2>6 DEF Passed
  <2>8. ~e.warned /\ listed => Before(e.pos) \subseteq captured \cup OnPage(e) \cup {}
    BY <1>2, <2>1, <2>4, <2>5 DEF Passed
  <2>9. ~e.more => e.check <= e.pos
    BY <1>3, <1>4, <1>5, <2>1
  <2>10. QED
    BY <2>1, <2>7, <2>8, <2>9 DEF Passed
<1>13. QED
  BY <1>1, <1>2, <1>10, <1>11, <1>12, PageKeeps

LEMMA EndTurnKeeps ==
  ASSUME SyncInv, NEW w \in Workers, EndTurn(w) \/ TimeIsUp(w)
  PROVE  SyncInv'
<1>1. UNCHANGED <<outside, source, job, captured, human, ghosts>> /\ operation' \in Holders
  BY DEF EndTurn, TimeIsUp, SyncInv, SyncTypes
<1>2. PICK row : /\ Learns(w, row) /\ row.pc = "closing"
                 /\ row.history = worker[w].history /\ row.cursor = worker[w].cursor
  BY Moves DEF EndTurn, TimeIsUp, Pcs
<1>3. Holds(w) => Trusts(row)
  <2>1. worker[w].pc = "loop"
    BY DEF EndTurn, TimeIsUp
  <2>2. QED
    BY <1>2, <2>1 DEF SyncInv, Trusting, Trusts
<1>4. QED
  BY <1>1, <1>2, <1>3, TurnMoves

\* A message is taken from the page into the turn's hand.
LEMMA GetMessageKeeps ==
  ASSUME SyncInv, NEW w \in Workers, GetMessage(w)
  PROVE  SyncInv'
<1>1. UNCHANGED <<outside, source, job, captured, human, ghosts>> /\ SyncTypes /\ operation' \in Holders
  BY DEF GetMessage, SyncInv, SyncTypes
<1>2. PICK c \in Cursor : c = worker[w].cursor
  BY <1>1, RowFacts
<1>3. /\ worker[w].history = source.history /\ Passed(c, {}) /\ c.mode # "none"
      /\ source.page.mode # "none" /\ Within(c)
  BY <1>2, GuardedHolds DEF GetMessage, Trusts, SyncInv, Bounds
<1>4. PICK entry \in c.pending :
        worker' = [worker EXCEPT ![w].pc = "fetched",
         ![w].item = IF Present(entry) THEN entry ELSE <<entry[1], TRUE>>,
         ![w].cursor = [c EXCEPT
            !.pending = c.pending \ {entry},
            !.remaining = IF c.remaining = 0 THEN 0 ELSE c.remaining - 1,
            !.warned = c.warned \/ ~Present(entry)]]
  BY <1>2 DEF GetMessage
<1>5. entry \in Messages \X BOOLEAN /\ c.pending \subseteq Messages \X BOOLEAN
  BY CursorFacts
<1>6. PICK item \in Messages \X BOOLEAN :
        item = IF Present(entry) THEN entry ELSE <<entry[1], TRUE>>
  BY <1>5
<1>7. item[1] = entry[1] /\ (item[2] => ~Present(entry)) /\ item # NoItem
  <2>1. item[1] = entry[1]
    BY <1>6
  <2>2. item[2] => ~Present(entry)
    BY <1>6 DEF Present
  <2>3. item # NoItem
    <3>1. Len(item) = 2 /\ Len(NoItem) = 0
      BY <1>6, <1>5 DEF NoItem
    <3>2. QED
      BY <3>1
  <2>4. QED
    BY <2>1, <2>2, <2>3
<1>8. PICK remaining \in 0..BackfillLimit :
        remaining = IF c.remaining = 0 THEN 0 ELSE c.remaining - 1
  BY CursorFacts, Limits
<1>9. PICK warned \in BOOLEAN : warned = (c.warned \/ ~Present(entry))
  OBVIOUS
<1>10. PICK d \in Cursor :
         d = [c EXCEPT !.pending = c.pending \ {entry}, !.remaining = remaining, !.warned = warned]
  BY <1>5 DEF Cursor
<1>11. /\ d.mode = c.mode /\ d.base = c.base /\ d.check = c.check /\ d.pos = c.pos /\ d.past = c.past
       /\ d.more = c.more /\ d.loaded = c.loaded /\ d.pending = c.pending \ {entry} /\ d.warned = warned
  BY <1>10 DEF Cursor
<1>12. PICK row \in WorkerRecord :
         row = [worker[w] EXCEPT !.pc = "fetched", !.item = item, !.cursor = d]
  BY <1>1, RowFacts DEF WorkerRecord, Pcs
<1>13. /\ row.pc = "fetched" /\ row.history = worker[w].history /\ row.cursor = d /\ row.item = item
       /\ row.handled = worker[w].handled
  BY <1>1, <1>12, RowFacts DEF WorkerRecord
<1>14. worker' = [worker EXCEPT ![w] = row]
  BY <1>1, <1>4, <1>6, <1>8, <1>9, <1>10, <1>12, RowFacts DEF SyncTypes
<1>15. Learns(w, row)
  BY <1>3, <1>7, <1>11, <1>13, <1>14 DEF Learns, SyncInv, Bounds, Within, GetMessage
<1>16. OnPage(c) \subseteq OnPage(d) \cup {item[1]}
  BY <1>7, <1>11 DEF OnPage
<1>17. Kept(c) \subseteq Kept(d) /\ (~d.warned => ~c.warned)
  BY <1>9, <1>11 DEF Kept
<1>18. Passed(d, {item[1]})
  <2>1. c.mode = "backfill" =>
          /\ d.check = since
          /\ ~d.warned => /\ d.past \subseteq captured \cup OnPage(d) \cup {item[1]}
                          /\ d.loaded /\ ~d.more => Before(since) \subseteq d.past
    BY <1>3, <1>11, <1>16, <1>17 DEF Passed
  <2>2. c.mode = "history" =>
          /\ Entered(since, d.pos) \subseteq Kept(d) \cup OnPage(d) \cup {item[1]}
          /\ ~d.warned /\ listed => Before(d.pos) \subseteq captured \cup OnPage(d) \cup {item[1]}
          /\ d.loaded /\ ~d.more => d.check <= d.pos
    BY <1>3, <1>11, <1>16, <1>17 DEF Passed
  <2>3. QED
    BY <1>11, <2>1, <2>2 DEF Passed
<1>19. ~d.warned => ~item[2]
  BY <1>7, <1>9, <1>11
<1>20. Trusts(row)
  BY <1>3, <1>11, <1>13, <1>18, <1>19 DEF Trusts
<1>21. QED
  BY <1>1, <1>15, <1>20, TurnMoves

-----------------------------------------------------------------------------
(***************************************************************************)
(* Steps that write the progress of the source.  The writer holds the job, *)
(* so that no other worker does.                                           *)
(***************************************************************************)
LEMMA WriterMoves ==
  ASSUME SyncInv, NEW w \in Workers, NEW row, Learns(w, row),
         UNCHANGED <<outside, human>>, source' \in SourceRecord, job' \in JobRecord,
         operation' \in Holders, captured' \subseteq Messages,
         since' \in Positions, listed' \in BOOLEAN, skipped' \subseteq Messages, owed' \subseteq Messages,
         since' <= HistoryId, source'.history <= HistoryId, Within(source'.page),
         Saved', CheckpointAccounts', PolledOrGivenUp', job'.gen <= source'.gen,
         \A v \in Workers \ {w} : ~Holds(v)', Holds(w)' => Trusts(row)'
  PROVE  SyncInv'
<1>1. /\ worker' \in [Workers -> WorkerRecord] /\ worker'[w] = row
      /\ \A v \in Workers : worker'[v].history <= HistoryId /\ Within(worker'[v].cursor)
      /\ Rows'
  BY LearningRows DEF SyncInv
<1>2. SyncTypes'
  BY <1>1 DEF SyncInv, SyncTypes, outside
<1>3. Bounds'
  <2>1. HistoryId' = HistoryId
    BY DEF outside, HistoryId
  <2>2. Within(source.page)' /\ \A v \in Workers : Within(worker[v].cursor)'
    BY <1>1, <2>1 DEF Within
  <2>3. QED
    BY <1>1, <2>1, <2>2 DEF SyncInv, Bounds
<1>4. Trusting'
  BY <1>1 DEF Trusting
<1>5. QED
  BY <1>1, <1>2, <1>3, <1>4 DEF SyncInv, Gens

LEMMA PersistedFacts ==
  ASSUME SyncTypes, NEW c \in Cursor, NEW new, new = Persisted(c)
  PROVE  /\ new \in SourceRecord /\ new.page = c /\ new.history = source.history
         /\ new.gen = source.gen /\ new.state = source.state
         /\ new.coverage \in {"backfill_in_progress", "incomplete"}
<1>1. PICK coverage \in {"backfill_in_progress", "incomplete"} :
        coverage = IF c.mode = "backfill" THEN "backfill_in_progress" ELSE "incomplete"
  OBVIOUS
<1>2. new = [source EXCEPT !.page = c, !.coverage = coverage]
  BY <1>1 DEF Persisted
<1>3. coverage \in Coverages
  BY DEF Coverages
<1>4. QED
  BY <1>2, <1>3, SourceFacts DEF SourceRecord

\* The page of the source is the writer's cursor, and the job is still its own.
LEMMA PersistMoves ==
  ASSUME SyncInv, NEW w \in Workers, NEW row, Learns(w, row), Guarded(w),
         UNCHANGED <<outside, job, human>>, NEW c \in Cursor, source' = Persisted(c),
         c.mode # "none", Within(c), row.pc \in {"loop", "closing"}, row.cursor = c,
         row.history = source.history,
         operation' \in Holders, captured' \subseteq Messages,
         since' \in Positions, listed' \in BOOLEAN, skipped' \subseteq Messages, owed' \subseteq Messages,
         since' <= HistoryId, Passed(c, {})', CheckpointAccounts'
  PROVE  SyncInv'
<1>1. /\ source' \in SourceRecord /\ source'.page = c /\ source'.history = source.history
      /\ source'.gen = source.gen /\ source'.state = source.state
      /\ source'.coverage \in {"backfill_in_progress", "incomplete"}
  <2>1. PICK new : new = Persisted(c)
    OBVIOUS
  <2>2. source' = new
    BY <2>1
  <2>3. QED
    BY <2>1, <2>2, PersistedFacts DEF SyncInv
<1>2. Saved'
  BY <1>1 DEF Saved
<1>3. Trusts(row)'
  BY <1>1 DEF Trusts
<1>4. \A v \in Workers \ {w} : ~Holds(v)'
  BY GuardedHolds DEF Holds, Leased
<1>5. job' \in JobRecord /\ job'.gen <= source'.gen /\ PolledOrGivenUp'
  BY <1>1, JobFacts DEF SyncInv, Gens, PolledOrGivenUp
<1>6. source'.history <= HistoryId /\ Within(source'.page)
  BY <1>1 DEF SyncInv, Bounds
<1>7. UNCHANGED <<outside, human>>
  OBVIOUS
<1>8. QED
  BY <1>1, <1>2, <1>3, <1>4, <1>5, <1>6, <1>7, WriterMoves

LEMMA PersistCursorKeeps ==
  ASSUME SyncInv, NEW w \in Workers, PersistCursor(w)
  PROVE  SyncInv'
<1>1. UNCHANGED <<outside, operation, job, captured, human, owed>> /\ SyncTypes
  BY DEF PersistCursor, SyncInv
<1>2. PICK c \in Cursor : c = worker[w].cursor
  BY <1>1, RowFacts
<1>3. PICK row : /\ Learns(w, row) /\ row.pc = "loop"
                 /\ row.history = worker[w].history /\ row.cursor = c
  BY <1>2, Moves DEF PersistCursor, Pcs
<1>4. /\ worker[w].history = source.history /\ c.mode # "none" /\ Within(c)
      /\ IF worker[w].history = 0 THEN Begins(c) ELSE Passed(c, {})
      /\ Guarded(w) /\ source' = Persisted(c)
  BY <1>2, GuardedHolds DEF PersistCursor, Trusts, SyncInv, Bounds
<1>5. CASE worker[w].history = 0
  <2>1. since' = c.base /\ skipped' = {} /\ listed' = (c.mode = "backfill")
    BY <1>2, <1>5 DEF PersistCursor
  <2>2. c.base \in Positions /\ c.base \in Nat /\ c.base <= HistoryId
    BY <1>4, CursorFacts DEF Within
  <2>3. Passed(c, {})'
    <3>1. Entered(since, c.pos)' = {}
      <4>1. PICK b \in Nat : b = c.base /\ b = c.pos /\ b = since'
        BY <1>4, <1>5, <2>1, <2>2 DEF Begins
      <4>2. Entered(since, c.pos)' = EnteredIn(mailbox', b, b)
        BY <4>1, OfNextMailbox
      <4>3. EnteredIn(mailbox', b, b) = Entered(b, b)
        BY <1>1, OfMailbox DEF outside
      <4>4. b <= b
        OBVIOUS
      <4>5. QED
        BY <4>2, <4>3, <4>4, EnteredMonotone
    <3>2. /\ c.check = since' /\ c.pos = c.check /\ c.past = {} /\ c.check \in Nat
          /\ c.mode = "backfill" => ~c.loaded
      BY <1>4, <1>5, <2>1, <2>2 DEF Begins
    <3>3. c.check <= c.pos
      BY <3>2
    <3>4. c.mode = "history" => ~listed'
      <4>1. c.mode = "history" => (c.mode = "backfill") = FALSE
        OBVIOUS
      <4>2. QED
        BY <2>1, <4>1, Zenon
    <3>5. QED
      BY <3>1, <3>2, <3>3, <3>4 DEF Passed
  <2>4. CheckpointAccounts'
    <3>1. source'.history = 0
      <4>1. PICK new : new = Persisted(c)
        OBVIOUS
      <4>2. QED
        BY <1>1, <1>4, <1>5, <4>1, PersistedFacts
    <3>2. QED
      BY <3>1 DEF CheckpointAccounts
  <2>5. /\ operation' \in Holders /\ captured' \subseteq Messages /\ since' \in Positions
        /\ listed' \in BOOLEAN /\ skipped' \subseteq Messages /\ owed' \subseteq Messages
        /\ since' <= HistoryId /\ UNCHANGED <<outside, job, human>>
    BY <1>1, <2>1, <2>2 DEF SyncTypes
  <2>6. QED
    BY <1>3, <1>4, <2>3, <2>4, <2>5, PersistMoves
<1>6. CASE worker[w].history # 0
  <2>1. UNCHANGED <<since, skipped, listed>>
    BY <1>6 DEF PersistCursor
  <2>2. Grows
    BY <1>1, <2>1 DEF Grows, outside
  <2>3. Passed(c, {})'
    <3>1. PICK hand : hand = {}
      OBVIOUS
    <3>2. Passed(c, hand)
      BY <1>4, <1>6, <3>1
    <3>3. Passed(c, hand)'
      BY <1>1, <1>4, <2>2, <3>2, PassedKeeps DEF SyncInv
    <3>4. QED
      BY <3>1, <3>3
  <2>4. CheckpointAccounts'
    <3>1. source'.history = source.history
      <4>1. PICK new : new = Persisted(c)
        OBVIOUS
      <4>2. QED
        BY <1>1, <1>4, <4>1, PersistedFacts
    <3>2. QED
      BY <1>1, <2>2, <3>1, CheckpointKeeps DEF SyncInv
  <2>5. /\ operation' \in Holders /\ captured' \subseteq Messages /\ since' \in Positions
        /\ listed' \in BOOLEAN /\ skipped' \subseteq Messages /\ owed' \subseteq Messages
        /\ since' <= HistoryId /\ UNCHANGED <<outside, job, human>>
    BY <1>1, <2>1 DEF SyncTypes, SyncInv, Bounds
  <2>6. QED
    BY <1>3, <1>4, <2>3, <2>4, <2>5, PersistMoves
<1>7. QED
  BY <1>5, <1>6

LEMMA PersistPageKeeps ==
  ASSUME SyncInv, NEW w \in Workers, PersistPage(w)
  PROVE  SyncInv'
<1>1. UNCHANGED <<outside, operation, job, captured, human, since, listed, skipped>> /\ SyncTypes
  BY DEF PersistPage, SyncInv
<1>2. PICK c \in Cursor : c = worker[w].cursor
  BY <1>1, RowFacts
<1>3. PICK pc \in {"loop", "closing"} : GoTo(w, pc)
  BY DEF PersistPage
<1>4. PICK row : /\ Learns(w, row) /\ row.pc = pc
                 /\ row.history = worker[w].history /\ row.cursor = c
  BY <1>2, <1>3, Moves DEF Pcs
<1>5. /\ worker[w].history = source.history /\ c.mode # "none" /\ Within(c)
      /\ Passed(c, {}) /\ Guarded(w) /\ source' = Persisted(c)
  BY <1>2, GuardedHolds DEF PersistPage, Trusts, SyncInv, Bounds
<1>6. Grows
  BY <1>1 DEF Grows, outside
<1>7. Passed(c, {})'
  <2>1. PICK hand : hand = {}
    OBVIOUS
  <2>2. Passed(c, hand)'
    BY <1>1, <1>5, <1>6, <2>1, PassedKeeps DEF SyncInv
  <2>3. QED
    BY <2>1, <2>2
<1>8. CheckpointAccounts'
  <2>1. source'.history = source.history
    <3>1. PICK new : new = Persisted(c)
      OBVIOUS
    <3>2. QED
      BY <1>1, <1>5, <3>1, PersistedFacts
  <2>2. QED
    BY <1>1, <1>6, <2>1, CheckpointKeeps DEF SyncInv
<1>9. owed' \subseteq Messages
  BY <1>1, <1>2, CursorFacts DEF PersistPage, SyncTypes
<1>10. /\ operation' \in Holders /\ captured' \subseteq Messages /\ since' \in Positions
       /\ listed' \in BOOLEAN /\ skipped' \subseteq Messages
       /\ since' <= HistoryId /\ UNCHANGED <<outside, job, human>>
  BY <1>1 DEF SyncTypes, SyncInv, Bounds
<1>11. QED
  BY <1>4, <1>5, <1>7, <1>8, <1>9, <1>10, PersistMoves

\* What was in hand is captured or, when it was gone, skipped with a warning.
LEMMA CaptureKeeps ==
  ASSUME SyncInv, NEW w \in Workers, Capture(w)
  PROVE  SyncInv'
<1>1. UNCHANGED <<outside, operation, job, human, since, listed>> /\ SyncTypes
  BY DEF Capture, SyncInv
<1>2. PICK c \in Cursor, item \in Messages \X BOOLEAN : c = worker[w].cursor /\ item = worker[w].item
  BY <1>1, RowFacts DEF SyncInv, Rows, Capture
<1>3. /\ worker[w].history = source.history /\ c.mode # "none" /\ Within(c)
      /\ Passed(c, {item[1]}) /\ Guarded(w) /\ source' = Persisted(c)
      /\ ~c.warned => ~item[2]
  BY <1>2, GuardedHolds DEF Capture, Trusts, SyncInv, Bounds
<1>4. /\ captured' = (IF item[2] THEN captured ELSE captured \cup {item[1]})
      /\ skipped' = (IF item[2] THEN skipped \cup {item[1]} ELSE skipped)
      /\ owed' = owed \ {item[1]} /\ item[1] \in Messages
  BY <1>2 DEF Capture
<1>5. PICK row \in WorkerRecord :
        row = [worker[w] EXCEPT !.pc = "loop", !.item = NoItem, !.handled = worker[w].handled + 1]
  <2>1. worker[w].handled + 1 \in 0..TurnLimit
    BY <1>1, RowFacts, Limits DEF SyncInv, Rows, Capture
  <2>2. QED
    BY <1>1, <2>1, RowFacts DEF WorkerRecord, Pcs
<1>6. row.pc = "loop" /\ row.history = worker[w].history /\ row.cursor = c
  BY <1>1, <1>2, <1>5, RowFacts DEF WorkerRecord
<1>7. worker' = [worker EXCEPT ![w] = row]
  BY <1>1, <1>5, RowFacts DEF Capture, SyncTypes
<1>8. Learns(w, row)
  BY <1>3, <1>6, <1>7 DEF Learns, SyncInv, Bounds
<1>9. Grows
  BY <1>1, <1>4 DEF Grows, outside
<1>10. Passed(c, {})'
  <2>1. Passed(c, {item[1]})'
    <3>1. PICK hand : hand = {item[1]}
      OBVIOUS
    <3>2. Passed(c, hand)'
      BY <1>1, <1>3, <1>9, <3>1, PassedKeeps DEF SyncInv
    <3>3. QED
      BY <3>1, <3>2
  <2>2. ~c.warned => item[1] \in captured'
    BY <1>3, <1>4
  <2>3. item[1] \in Kept(c)'
    <3>1. CASE item[2]
      BY <1>3, <1>4, <3>1 DEF Kept
    <3>2. CASE ~item[2]
      BY <1>4, <3>2 DEF Kept
    <3>3. QED
      BY <3>1, <3>2
  <2>4. QED
    BY <2>1, <2>2, <2>3 DEF Passed
<1>11. CheckpointAccounts'
  <2>1. source'.history = source.history
    <3>1. PICK new : new = Persisted(c)
      OBVIOUS
    <3>2. QED
      BY <1>1, <1>3, <3>1, PersistedFacts
  <2>2. QED
    BY <1>1, <1>9, <2>1, CheckpointKeeps DEF SyncInv
<1>12. /\ operation' \in Holders /\ captured' \subseteq Messages /\ since' \in Positions
       /\ listed' \in BOOLEAN /\ skipped' \subseteq Messages /\ owed' \subseteq Messages
       /\ since' <= HistoryId /\ UNCHANGED <<outside, job, human>>
  BY <1>1, <1>4 DEF SyncTypes, SyncInv, Bounds
<1>13. QED
  BY <1>3, <1>6, <1>8, <1>10, <1>11, <1>12, PersistMoves

-----------------------------------------------------------------------------
(***************************************************************************)
(* A turn ends.                                                            *)
(***************************************************************************)
\* The end of a turn: what every page accounted for says of the line.
LEMMA AccountedFacts ==
  ASSUME SyncInv, NEW c \in Cursor, Within(c), c.mode # "none", Passed(c, {}), Accounted(c)
  PROVE  /\ Entered(since, c.check) \subseteq captured \cup skipped
         /\ ~c.warned => /\ Entered(since, c.check) \subseteq captured
                         /\ listed => Before(c.check) \subseteq captured
<1>1. /\ c.mode \in {"none", "backfill", "history"} /\ c.check \in Nat /\ c.pos \in Nat
      /\ since \in Nat /\ c.loaded /\ ~c.more /\ OnPage(c) = {} /\ mailbox \in Seq(Events)
  BY CursorFacts, BoxFacts DEF Accounted, OnPage, SyncInv
<1>2. CASE c.mode = "backfill"
  <2>1. c.check = since
    BY <1>2 DEF Passed
  <2>2. Entered(since, since) = {}
    <3>1. since <= since
      BY <1>1
    <3>2. QED
      BY <1>1, <3>1, EnteredMonotone
  <2>3. ~c.warned => Before(since) \subseteq captured
    BY <1>1, <1>2 DEF Passed
  <2>4. QED
    BY <2>1, <2>2, <2>3
<1>3. CASE c.mode = "history"
  <2>1. c.check <= c.pos
    BY <1>1, <1>3 DEF Passed
  <2>2. Entered(since, c.check) \subseteq Entered(since, c.pos)
    BY <1>1, <2>1, EnteredMonotone
  <2>3. Before(c.check) \subseteq Before(c.pos)
    BY <1>1, <2>1, BeforeMonotone
  <2>4. Entered(since, c.pos) \subseteq Kept(c)
    BY <1>1, <1>3 DEF Passed
  <2>5. ~c.warned /\ listed => Before(c.pos) \subseteq captured
    BY <1>1, <1>3 DEF Passed
  <2>6. QED
    BY <2>2, <2>3, <2>4, <2>5 DEF Kept
<1>4. QED
  BY <1>1, <1>2, <1>3

\* What a turn leaves in the source, and that it may be trusted.
LEMMA ClosedFacts ==
  ASSUME SyncInv, NEW w \in Workers, worker[w].pc = "closing", Guarded(w),
         source' = Closed(w), UNCHANGED <<mailbox, captured, since, listed, skipped>>
  PROVE  /\ source' \in SourceRecord /\ source'.gen = source.gen /\ source'.state = source.state
         /\ source'.history <= HistoryId /\ Within(source'.page)
         /\ Saved' /\ CheckpointAccounts'
<1>1. SyncTypes
  BY DEF SyncInv
<1>2. PICK c \in Cursor : c = worker[w].cursor
  BY <1>1, RowFacts
<1>3. /\ worker[w].history = source.history /\ c.mode # "none" /\ Within(c) /\ Passed(c, {})
  BY <1>2, GuardedHolds DEF Trusts, SyncInv, Bounds
<1>4. Grows
  BY DEF Grows
<1>5. CASE Accounted(c)
  <2>1. PICK coverage \in Coverages :
          coverage = IF c.warned THEN "incomplete" ELSE "complete_to_checkpoint"
    BY DEF Coverages
  <2>2. PICK new \in SourceRecord :
          new = [source EXCEPT !.history = c.check, !.page = NoPage, !.coverage = coverage]
    BY <1>1, SourceFacts, CursorFacts, NoPageFacts DEF SourceRecord
  <2>3. /\ new.history = c.check /\ new.page = NoPage /\ new.coverage = coverage
        /\ new.gen = source.gen /\ new.state = source.state
    BY <1>1, <2>2, SourceFacts DEF SourceRecord
  <2>4. source' = new
    BY <1>2, <1>5, <2>1, <2>2 DEF Closed
  <2>5. /\ Entered(since, c.check) \subseteq captured \cup skipped
        /\ ~c.warned => /\ Entered(since, c.check) \subseteq captured
                        /\ listed => Before(c.check) \subseteq captured
    BY <1>3, <1>5, AccountedFacts
  <2>6. \A h : Entered(since, h)' = Entered(since, h) /\ Before(h)' = Before(h)
    <3>1. PICK s : s = since
      OBVIOUS
    <3>2. \A h : Entered(since, h)' = EnteredIn(mailbox', s, h) /\ Before(h)' = BeforeIn(mailbox', h)
      BY <3>1, OfNextMailbox
    <3>3. \A h : Entered(since, h) = EnteredIn(mailbox, s, h) /\ Before(h) = BeforeIn(mailbox, h)
      BY <3>1, OfMailbox
    <3>4. QED
      BY <3>2, <3>3
  <2>7. Entered(since, source.history)' = Entered(since, c.check)
        /\ Before(source.history)' = Before(c.check)
    BY <2>3, <2>4, <2>6
  <2>8. CheckpointAccounts'
    BY <2>5, <2>7 DEF CheckpointAccounts
  <2>9. source'.coverage # "incomplete" => Clean'
    BY <2>1, <2>3, <2>4, <2>5, <2>7 DEF Clean
  <2>10. Saved'
    BY <2>3, <2>4, <2>9, NoPageFacts DEF Saved
  <2>11. Within(source'.page) /\ source'.history <= HistoryId
    <3>1. Within(NoPage)
      BY <1>1, BoxFacts DEF Within, NoPage
    <3>2. QED
      BY <1>3, <2>3, <2>4, <3>1 DEF Within
  <2>12. QED
    BY <2>3, <2>4, <2>8, <2>10, <2>11
<1>6. CASE ~Accounted(c)
  <2>1. PICK kept : kept = Persisted(c)
    OBVIOUS
  <2>2. /\ kept \in SourceRecord /\ kept.page = c /\ kept.history = source.history
        /\ kept.gen = source.gen /\ kept.state = source.state
        /\ kept.coverage \in {"backfill_in_progress", "incomplete"}
    BY <1>1, <2>1, PersistedFacts
  <2>3. source' = [kept EXCEPT !.history = source.history]
    BY <1>2, <1>3, <1>6, <2>1 DEF Closed
  <2>4. source' = kept
    BY <2>2, <2>3 DEF SourceRecord
  <2>5. Passed(c, {})'
    <3>1. PICK hand : hand = {}
      OBVIOUS
    <3>2. Passed(c, hand)
      BY <1>3, <3>1
    <3>3. Passed(c, hand)'
      BY <1>1, <1>3, <1>4, <3>2, PassedKeeps DEF SyncInv
    <3>4. QED
      BY <3>1, <3>3
  <2>6. Saved'
    BY <1>3, <2>2, <2>4, <2>5 DEF Saved
  <2>7. CheckpointAccounts'
    BY <1>1, <1>4, <2>2, <2>4, CheckpointKeeps DEF SyncInv
  <2>8. QED
    BY <1>3, <2>2, <2>4, <2>6, <2>7 DEF SyncInv, Bounds
<1>7. QED
  BY <1>5, <1>6

LEMMA CloseTurnKeeps ==
  ASSUME SyncInv, NEW w \in Workers, CloseTurn(w)
  PROVE  SyncInv'
<1>1. UNCHANGED <<outside, operation, captured, human, ghosts>> /\ SyncTypes
  BY DEF CloseTurn, SyncInv
<1>2. PICK row : Learns(w, row) /\ Trusts(row) /\ Trusts(row)'
  BY Leaves DEF CloseTurn
<1>3. UNCHANGED <<mailbox, captured, since, listed, skipped>>
  BY <1>1 DEF outside, ghosts
<1>4. /\ source' \in SourceRecord /\ source'.gen = source.gen /\ source'.state = source.state
      /\ source'.history <= HistoryId /\ Within(source'.page)
      /\ Saved' /\ CheckpointAccounts'
  BY <1>3, ClosedFacts DEF CloseTurn
<1>5. job' \in JobRecord /\ job'.gen = source.gen /\ job'.status = "queued"
  <2>1. job' = QueuedJob(source.gen, FALSE)
    BY DEF CloseTurn, Enqueue
  <2>2. PICK gen \in 0..MaxGeneration : gen = source.gen
    BY <1>1, SourceFacts, Limits
  <2>3. QED
    BY <1>1, <2>1, <2>2, QueuedFacts
<1>6. \A v \in Workers : ~Holds(v)'
  BY <1>5 DEF Holds, Leased
<1>7. job'.gen <= source'.gen /\ PolledOrGivenUp'
  <2>1. source.gen <= source.gen
    BY <1>1, SourceFacts
  <2>2. job'.status \in Unfinished
    BY <1>5 DEF Unfinished
  <2>3. QED
    BY <1>4, <1>5, <2>1, <2>2 DEF PolledOrGivenUp
<1>8. /\ operation' \in Holders /\ captured' \subseteq Messages /\ since' \in Positions
      /\ listed' \in BOOLEAN /\ skipped' \subseteq Messages /\ owed' \subseteq Messages
      /\ since' <= HistoryId /\ UNCHANGED <<outside, human>>
  BY <1>1 DEF ghosts, SyncTypes, SyncInv, Bounds
<1>9. QED
  BY <1>2, <1>4, <1>5, <1>6, <1>7, <1>8, WriterMoves

LEMMA ReportKeeps ==
  ASSUME SyncInv, NEW w \in Workers, Report(w)
  PROVE  SyncInv'
<1>1. UNCHANGED <<outside, operation, captured, human, ghosts>> /\ SyncTypes
  BY DEF Report, SyncInv
<1>2. PICK row : Learns(w, row) /\ Trusts(row) /\ Trusts(row)'
  BY Leaves DEF Report
<1>3. PICK state \in {"reconnect_required", "failed", "active"},
           coverage \in {"resync_required", "incomplete"}, status \in {"failed", "retrying"} :
        /\ source' = [source EXCEPT !.state = state, !.coverage = coverage]
        /\ Finished(status, "other")
        /\ state = "active" => status = "retrying"
        /\ coverage = "resync_required" <=> worker[w].out = "resync"
  BY DEF Report
<1>4. PICK new \in SourceRecord : new = [source EXCEPT !.state = state, !.coverage = coverage]
  BY <1>1, SourceFacts DEF SourceRecord, SourceStates, Coverages
<1>5. /\ new.state = state /\ new.coverage = coverage /\ new.gen = source.gen
      /\ new.page = source.page /\ new.history = source.history
  BY <1>1, <1>4, SourceFacts DEF SourceRecord
<1>6. source' = new
  BY <1>3, <1>4
<1>7. PICK done \in JobRecord :
        done = [job EXCEPT !.status = status, !.lease = NoOne, !.due = FALSE, !.code = "other"]
  BY <1>1, JobFacts DEF JobRecord, Holders, Unfinished
<1>8. done.status = status /\ done.gen = job.gen
  BY <1>1, <1>7, JobFacts DEF JobRecord
<1>9. job' = done
  BY <1>3, <1>7 DEF Finished
<1>10. \A v \in Workers : ~Holds(v)'
  BY <1>8, <1>9 DEF Holds, Leased
<1>11. Guarded(w) /\ source.gen = job.gen /\ (coverage = "resync_required" => source.page.mode # "none")
  BY <1>3, GuardedHolds DEF Report, Trusts
<1>12. job'.gen <= source'.gen /\ PolledOrGivenUp'
  <2>1. job'.gen <= source'.gen
    BY <1>5, <1>6, <1>8, <1>9 DEF SyncInv, Gens
  <2>2. PolledOrGivenUp'
    BY <1>3, <1>5, <1>6, <1>8, <1>9, <1>11 DEF PolledOrGivenUp, Unfinished
  <2>3. QED
    BY <2>1, <2>2
<1>13. Grows
  BY <1>1 DEF Grows, outside, ghosts
<1>14. CheckpointAccounts'
  BY <1>1, <1>5, <1>6, <1>13, CheckpointKeeps DEF SyncInv
<1>15. Saved'
  <2>1. source.page.mode # "none" => Passed(source.page, {})'
    <3>1. PICK c \in Cursor, hand \in SUBSET Messages : c = source.page /\ hand = {}
      BY <1>1, SourceFacts
    <3>2. CASE c.mode # "none"
      <4>1. Within(c) /\ Passed(c, hand)
        BY <3>1, <3>2 DEF SyncInv, Saved, Bounds
      <4>2. Passed(c, hand)'
        BY <1>1, <1>13, <4>1, PassedKeeps DEF SyncInv
      <4>3. source'.page = c
        BY <1>5, <1>6, <3>1
      <4>4. QED
        BY <3>1, <4>2, <4>3
    <3>3. QED
      BY <3>1, <3>2
  <2>2. source'.coverage \in {"resync_required", "incomplete"}
        /\ (source'.coverage = "resync_required" => source.page.mode # "none")
        /\ source'.page = source.page
    BY <1>5, <1>6, <1>11
  <2>3. QED
    BY <2>1, <2>2 DEF SyncInv, Saved
<1>16. source'.history <= HistoryId /\ Within(source'.page) /\ source' \in SourceRecord /\ job' \in JobRecord
  BY <1>5, <1>6, <1>9 DEF SyncInv, Bounds
<1>17. /\ operation' \in Holders /\ captured' \subseteq Messages /\ since' \in Positions
       /\ listed' \in BOOLEAN /\ skipped' \subseteq Messages /\ owed' \subseteq Messages
       /\ since' <= HistoryId /\ UNCHANGED <<outside, human>>
  BY <1>1 DEF ghosts, SyncTypes, SyncInv, Bounds
<1>18. QED
  BY <1>2, <1>10, <1>12, <1>14, <1>15, <1>16, <1>17, WriterMoves

-----------------------------------------------------------------------------
LEMMA StutterKeeps ==
  ASSUME SyncInv, UNCHANGED syncVars
  PROVE  SyncInv'
<1>1. Grows /\ Progress' = Progress /\ worker' = worker /\ human'.history <= HistoryId'
  BY DEF syncVars, outside, ghosts, Grows, Progress, SyncInv, Bounds, HistoryId
<1>2. SyncTypes'
  BY DEF SyncInv, SyncTypes, syncVars, outside, ghosts
<1>3. \A w \in Workers : Holds(w)' => Holds(w)
  BY DEF syncVars, Holds, Leased
<1>4. job'.gen <= source'.gen /\ PolledOrGivenUp'
  BY DEF syncVars, SyncInv, Gens, PolledOrGivenUp
<1>5. QED
  BY <1>1, <1>2, <1>3, <1>4, AsideInv

LEMMA SyncKeeps ==
  ASSUME SyncInv, [SyncNext]_syncVars
  PROVE  SyncInv'
<1>1. CASE Outside
  BY <1>1, OutsideKeeps
<1>2. CASE People
  BY <1>2, StartOAuthKeeps, CompleteOAuthKeeps, LabelsKeep, SaveConnectionKeeps, SuspendKeeps,
     ResumeKeeps DEF People
<1>3. CASE Polling
  <2>1. PICK w \in Workers :
          \/ Claim(w) \/ Turn(w) \/ TimeIsUp(w) \/ Disabled(w) \/ Crash(w)
          \/ \E error \in Errors : Fails(w, error)
    BY <1>3 DEF Polling
  <2>2. CASE Claim(w) \/ Crash(w) \/ TimeIsUp(w) \/ Disabled(w) \/ \E error \in Errors : Fails(w, error)
    BY <2>2, ClaimKeeps, CrashKeeps, EndTurnKeeps, StoppingKeeps
  <2>3. CASE Turn(w)
    <3>1. CASE FailExhausted(w) \/ Refused(w) \/ Acquire(w) \/ StartCursor(w) \/ PersistCursor(w)
      BY <3>1, FailExhaustedKeeps, StoppingKeeps, AcquireKeeps, StartCursorKeeps, PersistCursorKeeps
    <3>2. CASE Handles(w)
      BY <3>2, EndBackfillKeeps, ListMessagesKeeps, ListHistoryKeeps, StoppingKeeps, GetMessageKeeps
         DEF Handles
    <3>3. CASE PersistPage(w) \/ Capture(w) \/ EndTurn(w) \/ CloseTurn(w) \/ End(w) \/ Report(w) \/ Release(w)
      BY <3>3, PersistPageKeeps, CaptureKeeps, EndTurnKeeps, CloseTurnKeeps, EndKeeps, ReportKeeps,
         ReleaseKeeps
    <3>4. QED
      BY <2>3, <3>1, <3>2, <3>3 DEF Turn
  <2>4. QED
    BY <2>1, <2>2, <2>3
<1>4. CASE UNCHANGED syncVars
  BY <1>4, StutterKeeps
<1>5. QED
  BY <1>1, <1>2, <1>3, <1>4 DEF SyncNext

\* Every reachable state satisfies the inductive invariant, whatever turns of
\* processCplGmailSync and requests of people are interleaved.
THEOREM SyncInvariance == SyncSpec => []SyncInv
<1>1. SyncInit => SyncInv
  BY SyncStarts
<1>2. SyncInv /\ [SyncNext]_syncVars => SyncInv'
  BY SyncKeeps
<1>3. QED
  BY <1>1, <1>2, PTL DEF SyncSpec

\* The columns of the source, its job and the memory of a turn keep their types and
\* their limits.
THEOREM SyncTypesKept == SyncSpec => []SyncTypes
<1>1. SyncInv => SyncTypes
  BY DEF SyncInv
<1>2. QED
  BY <1>1, SyncInvariance, PTL

\* A source that is active is polled by a job of its generation, unless the last one
\* gave up as busy or no longer authorized (cpl-gmail-sync.ts:559-569).
THEOREM ActiveIsPolled == SyncSpec => []PolledOrGivenUp
<1>1. SyncInv => PolledOrGivenUp
  BY DEF SyncInv
<1>2. QED
  BY <1>1, SyncInvariance, PTL

\* Whatever entered the label between the start of the line and the checkpoint was
\* captured, or found gone and warned of (cpl-gmail-sync.ts:25).
THEOREM CheckpointHolds == SyncSpec => []CheckpointAccounts
<1>1. SyncInv => CheckpointAccounts
  BY DEF SyncInv
<1>2. QED
  BY <1>1, SyncInvariance, PTL

\* Coverage is called complete only when nothing on the line was skipped and, after a
\* listing, whatever was in the label and stayed is captured (Closed).
THEOREM CoverageIsHonest == SyncSpec => []HonestCoverage
<1>1. SyncInv => HonestCoverage
  BY DEF SyncInv, Saved, Clean, Before, HonestCoverage
<1>2. QED
  BY <1>1, SyncInvariance, PTL

-----------------------------------------------------------------------------
(***************************************************************************)
(* The delivery packages and the closeout of a project, for any number of  *)
(* packages, pages, versions and revisions.                                *)
(*                                                                         *)
(* Of a package the invariant says that its versions are numbered without  *)
(* gaps, that nothing is recorded of a version that does not exist, and    *)
(* that who records anything of a version has confirmed it first (Packed). *)
(* Then the state that load derives from the events (a CHOOSE over them)   *)
(* has a simple form, and every transition moves both in the same way.     *)
(*                                                                         *)
(* Of an override it says that its evidence is of the past (Remembered):   *)
(* whatever changes afterwards has a revision that no override has seen.   *)
(***************************************************************************)
USE DeliveryAssumption, CloseoutAssumption

-----------------------------------------------------------------------------
\* The state that the events of a version name, without the choice.
Last(r) ==
  IF "acknowledged" \in r THEN "acknowledged"
  ELSE IF "manually_sent" \in r THEN "manually_sent"
  ELSE IF "exported" \in r THEN "exported"
  ELSE IF "ready" \in r THEN "ready" ELSE "draft"

\* The versions of a package and what is recorded of them.
Packed == \A p \in Packages :
  /\ package[p].state = "absent" => package[p].version = 0
  /\ package[p].state # "absent" => package[p].version > 0 /\ package[p].revision > 0
  /\ \A v \in Versions :
       /\ v > package[p].version => recorded[p][v] = {}
       /\ recorded[p][v] # {} => "ready" \in recorded[p][v]
       /\ v = package[p].version => package[p].state = Last(recorded[p][v])

DeliveryInv == TypeOK /\ Packed

LEMMA StatesAre == States = {"draft", "ready", "exported", "manually_sent", "acknowledged"}
<1>1. 1..5 = {1, 2, 3, 4, 5}
  OBVIOUS
<1>2. Steps[1] = "draft" /\ Steps[2] = "ready" /\ Steps[3] = "exported"
      /\ Steps[4] = "manually_sent" /\ Steps[5] = "acknowledged"
  BY DEF Steps
<1>3. QED
  BY <1>1, <1>2 DEF States

LEMMA DerivedIsLast ==
  ASSUME NEW p \in Packages, NEW v \in Versions
  PROVE  Derived(p, v) = Last(recorded[p][v])
<1>1. PICK reached : reached = {1} \cup {i \in 2..5 : Steps[i] \in recorded[p][v]}
  OBVIOUS
<1>2. Steps[1] = "draft" /\ Steps[2] = "ready" /\ Steps[3] = "exported"
      /\ Steps[4] = "manually_sent" /\ Steps[5] = "acknowledged"
  BY DEF Steps
<1>3. reached \subseteq 1..5 /\ 1 \in reached
  BY <1>1
<1>4. /\ 2 \in reached <=> "ready" \in recorded[p][v]
      /\ 3 \in reached <=> "exported" \in recorded[p][v]
      /\ 4 \in reached <=> "manually_sent" \in recorded[p][v]
      /\ 5 \in reached <=> "acknowledged" \in recorded[p][v]
  BY <1>1, <1>2
<1>5. PICK top \in reached : \A j \in reached : j <= top
  BY <1>3
<1>6. \A i \in reached : (\A j \in reached : j <= i) => i = top
  BY <1>3, <1>5
<1>7. (CHOOSE i \in reached : \A j \in reached : j <= i) = top
  BY <1>5, <1>6
<1>8. Steps[top] = Last(recorded[p][v])
  BY <1>2, <1>3, <1>4, <1>5 DEF Last
<1>9. QED
  BY <1>1, <1>7, <1>8 DEF Derived

-----------------------------------------------------------------------------
LEMMA DeliveryInit == Init => DeliveryInv
  BY StatesAre DEF Init, DeliveryInv, TypeOK, Packed, PackageRecord, Versions, Reports, Shown, Content,
                   Operations, Statuses

\* What concerns the report, the project and the pages leaves the packages alone.
LEMMA PackingUnchanged ==
  ASSUME Packed, UNCHANGED packing
  PROVE  Packed'
  BY DEF Packed, packing

LEMMA CreateInv ==
  ASSUME DeliveryInv, NEW p \in Packages, NEW c \in Content, CreatePackage(p, c)
  PROVE  DeliveryInv'
<1>1. PICK row : row = [state |-> "draft", version |-> 1, revision |-> 1]
  OBVIOUS
<1>2. /\ row \in PackageRecord /\ row.state = "draft" /\ row.version = 1 /\ row.revision = 1
      /\ 1 \in Versions
  BY <1>1, StatesAre DEF PackageRecord, Versions
<1>3. package' = [package EXCEPT ![p] = row] /\ package[p].state = "absent"
      /\ content' = [content EXCEPT ![p][1] = c]
      /\ UNCHANGED <<reporting, project, recorded, page>>
  BY <1>1 DEF CreatePackage
<1>4. TypeOK'
  BY <1>2, <1>3 DEF DeliveryInv, TypeOK, reporting
<1>5. /\ package'[p] = row
      /\ \A q \in Packages \ {p} : package'[q] = package[q] /\ content'[q] = content[q]
      /\ content'[p] = [content[p] EXCEPT ![1] = c]
      /\ recorded' = recorded
  BY <1>3 DEF DeliveryInv, TypeOK
<1>6. package[p].version = 0 /\ \A v \in Versions : recorded[p][v] = {}
  <2>1. package[p].version = 0
    BY <1>3 DEF DeliveryInv, Packed
  <2>2. QED
    BY <2>1 DEF DeliveryInv, Packed, Versions
<1>7. Packed'
  BY <1>2, <1>5, <1>6 DEF DeliveryInv, Packed, Last
<1>8. QED
  BY <1>4, <1>7 DEF DeliveryInv

\* SavePackage and RevisePackage.
LEMMA EditInv ==
  ASSUME DeliveryInv, NEW s \in Sessions, NEW c \in Content, EditPackage(s, c)
  PROVE  DeliveryInv'
<1>1. PICK p \in Packages : p = page[s].of
  BY DEF EditPackage, Expects, DeliveryInv, TypeOK, Shown
<1>2. PICK row : row = [state |-> EditedState(p), version |-> Following(p),
                        revision |-> package[p].revision + 1]
  OBVIOUS
<1>3. /\ row.state = "draft" /\ row.version = package[p].version + 1
      /\ row.revision = package[p].revision + 1
      /\ package' = [package EXCEPT ![p] = row]
      /\ content' = [content EXCEPT ![p][Following(p)] = c]
      /\ Bounded(p) /\ Following(p) \in Versions
      /\ UNCHANGED <<reporting, project, recorded, page>>
  BY <1>1, <1>2 DEF EditPackage, EditedState, Following
<1>4. row \in PackageRecord
  BY <1>2, <1>3, StatesAre DEF PackageRecord, Versions, Following, Bounded, DeliveryInv, TypeOK, EditedState
<1>5. TypeOK'
  BY <1>3, <1>4 DEF DeliveryInv, TypeOK, reporting
<1>6. /\ package'[p] = row
      /\ \A q \in Packages \ {p} : package'[q] = package[q]
      /\ recorded' = recorded
  BY <1>3 DEF DeliveryInv, TypeOK
<1>7. package[p].version \in 0..MaxVersion /\ package[p].revision \in 0..MaxRevision
  BY DEF DeliveryInv, TypeOK, PackageRecord
<1>8. \A v \in Versions : v >= package[p].version + 1 => recorded[p][v] = {}
  BY <1>7 DEF DeliveryInv, Packed, Versions
<1>9. Packed'
  BY <1>3, <1>6, <1>7, <1>8 DEF DeliveryInv, Packed, Last, Versions
<1>10. QED
  BY <1>5, <1>9 DEF DeliveryInv

LEMMA RecordInv ==
  ASSUME DeliveryInv, NEW s \in Sessions, NEW action \in States \ {"draft"}, Record(s, action)
  PROVE  DeliveryInv'
<1>1. PICK p \in Packages : p = page[s].of
  BY DEF Record, Expects, DeliveryInv, TypeOK, Shown
<1>2. PICK v, r : v = package[p].version /\ r = recorded[p][v] \cup {action}
  OBVIOUS
<1>3. /\ From(p, action) /\ Bounded(p)
      /\ recorded' = [recorded EXCEPT ![p][v] = r]
      /\ package' = [package EXCEPT ![p].state = action, ![p].revision = @ + 1]
      /\ UNCHANGED <<reporting, project, content, page>>
  BY <1>1, <1>2 DEF Record
<1>4. action \in {"ready", "exported", "manually_sent", "acknowledged"}
  BY StatesAre
<1>5. /\ action = "ready" => package[p].state = "draft"
      /\ action \in {"exported", "manually_sent"} => package[p].state \in {"ready", "exported"}
      /\ action = "acknowledged" => package[p].state = "manually_sent"
  BY <1>3, <1>4 DEF From
<1>6. v \in Versions /\ package[p].state = Last(recorded[p][v])
  <2>1. package[p].state # "absent"
    BY <1>4, <1>5
  <2>2. package[p].version \in 0..MaxVersion
    BY DEF DeliveryInv, TypeOK, PackageRecord
  <2>3. v \in Versions
    BY <1>2, <2>1, <2>2 DEF DeliveryInv, Packed, Versions
  <2>4. QED
    BY <1>2, <2>3 DEF DeliveryInv, Packed
<1>7. action = Last(r) /\ "ready" \in r
  BY <1>2, <1>4, <1>5, <1>6 DEF Last, DeliveryInv, Packed
<1>8. PICK row : row = [package[p] EXCEPT !.state = action, !.revision = @ + 1]
  OBVIOUS
<1>9. /\ row \in PackageRecord /\ row.state = action /\ row.version = v
      /\ row.revision = package[p].revision + 1 /\ row.revision > 0
  <2>1. package[p] \in PackageRecord
    BY DEF DeliveryInv, TypeOK
  <2>2. package[p].revision \in 0..MaxRevision /\ package[p].revision < MaxRevision
    BY <1>3, <2>1 DEF PackageRecord, Bounded
  <2>3. package[p].revision + 1 \in 0..MaxRevision /\ package[p].revision + 1 > 0
    BY <2>2
  <2>4. QED
    BY <1>2, <1>8, <2>1, <2>3 DEF PackageRecord
<1>10. package' = [package EXCEPT ![p] = row]
  BY <1>3, <1>8 DEF DeliveryInv, TypeOK
<1>11. recorded[p][v] \in SUBSET (States \ {"draft"}) /\ r \in SUBSET (States \ {"draft"})
  BY <1>2, <1>6 DEF DeliveryInv, TypeOK
<1>12. TypeOK'
  <2>1. PICK T : T = SUBSET (States \ {"draft"})
    OBVIOUS
  <2>2. recorded \in [Packages -> [Versions -> T]] /\ r \in T
    BY <1>11, <2>1 DEF DeliveryInv, TypeOK
  <2>3. recorded' \in [Packages -> [Versions -> T]]
    BY <1>3, <1>6, <2>2
  <2>4. package' \in [Packages -> PackageRecord]
    BY <1>9, <1>10 DEF DeliveryInv, TypeOK
  <2>5. QED
    BY <1>3, <2>1, <2>3, <2>4 DEF DeliveryInv, TypeOK, reporting
<1>13. /\ package'[p] = row
       /\ \A q \in Packages \ {p} : package'[q] = package[q] /\ recorded'[q] = recorded[q]
       /\ \A n \in Versions : recorded'[p][n] = IF n = v THEN r ELSE recorded[p][n]
  BY <1>3, <1>10 DEF DeliveryInv, TypeOK
<1>14. Packed'
  <2> SUFFICES ASSUME NEW q \in Packages
               PROVE  /\ package'[q].state = "absent" => package'[q].version = 0
                      /\ package'[q].state # "absent" =>
                           package'[q].version > 0 /\ package'[q].revision > 0
                      /\ \A n \in Versions :
                           /\ n > package'[q].version => recorded'[q][n] = {}
                           /\ recorded'[q][n] # {} => "ready" \in recorded'[q][n]
                           /\ n = package'[q].version => package'[q].state = Last(recorded'[q][n])
    BY DEF Packed
  <2>1. CASE q # p
    BY <1>13, <2>1 DEF DeliveryInv, Packed
  <2>2. CASE q = p
    <3>1. row.state # "absent" /\ row.version > 0 /\ row.revision > 0
      BY <1>4, <1>6, <1>9 DEF Versions
    <3>2. ASSUME NEW n \in Versions
          PROVE  /\ n > row.version => recorded'[p][n] = {}
                 /\ recorded'[p][n] # {} => "ready" \in recorded'[p][n]
                 /\ n = row.version => row.state = Last(recorded'[p][n])
      <4>1. n > v => n # v /\ recorded[p][n] = {}
        BY <1>2, <1>6 DEF DeliveryInv, Packed, Versions
      <4>2. recorded[p][n] # {} => "ready" \in recorded[p][n]
        BY DEF DeliveryInv, Packed
      <4>3. QED
        BY <1>7, <1>9, <1>13, <4>1, <4>2
    <3>3. QED
      BY <1>13, <2>2, <3>1, <3>2
  <2>3. QED
    BY <2>1, <2>2
<1>15. QED
  BY <1>12, <1>14 DEF DeliveryInv

LEMMA DeliveryStep ==
  ASSUME DeliveryInv, [Next]_vars
  PROVE  DeliveryInv'
<1>1. CASE \/ WriteReport \/ ApproveReport
           \/ \E r \in Reports : WithdrawApproval(r)
  <2>1. /\ latest' \in 0..MaxReport /\ latest' >= latest
        /\ withdrawn' \subseteq approved' /\ approved' \subseteq 1..latest'
        /\ UNCHANGED <<project, packing, page>>
    <3>1. CASE WriteReport
      BY <3>1 DEF WriteReport, DeliveryInv, TypeOK
    <3>2. CASE ApproveReport
      BY <3>2 DEF ApproveReport, DeliveryInv, TypeOK, Reports
    <3>3. CASE \E r \in Reports : WithdrawApproval(r)
      BY <3>3 DEF WithdrawApproval, DeliveryInv, TypeOK
    <3>4. QED
      BY <1>1, <3>1, <3>2, <3>3
  <2>2. TypeOK'
    BY <2>1 DEF DeliveryInv, TypeOK, packing
  <2>3. QED
    BY <2>1, <2>2, PackingUnchanged DEF DeliveryInv
<1>2. CASE \E status \in Statuses : ChangeProject(status)
  <2>1. project' \in Operations
    BY <1>2 DEF ChangeProject, DeliveryInv, TypeOK, Operations
  <2>3. TypeOK'
    BY <1>2, <2>1 DEF ChangeProject, DeliveryInv, TypeOK, packing, reporting
  <2>4. QED
    BY <1>2, <2>3, PackingUnchanged DEF DeliveryInv, ChangeProject
<1>3. CASE \E c \in Content : \E p \in Packages : CreatePackage(p, c)
  BY <1>3, CreateInv
<1>4. CASE \E c \in Content : \E s \in Sessions : SavePackage(s, c) \/ RevisePackage(s, c)
  BY <1>4, EditInv DEF SavePackage, RevisePackage
<1>5. CASE \E s \in Sessions : \E p \in Packages : View(s, p)
  <2>1. PICK s \in Sessions, p \in Packages : View(s, p)
    BY <1>5
  <2>2. [of |-> p, version |-> package[p].version, revision |-> package[p].revision] \in Shown
    BY <2>1 DEF View, DeliveryInv, TypeOK, Packed, PackageRecord, Shown, Versions
  <2>3. TypeOK'
    BY <2>1, <2>2 DEF View, DeliveryInv, TypeOK, packing, reporting
  <2>4. QED
    BY <2>1, <2>3, PackingUnchanged DEF DeliveryInv, View
<1>6. CASE \E s \in Sessions : \E action \in States \ {"draft"} : Record(s, action)
  BY <1>6, RecordInv
<1>7. CASE UNCHANGED vars
  <2>1. TypeOK'
    BY <1>7 DEF vars, packing, reporting, DeliveryInv, TypeOK
  <2>2. QED
    BY <1>7, <2>1, PackingUnchanged DEF DeliveryInv, vars
<1>8. QED
  BY <1>1, <1>2, <1>3, <1>4, <1>5, <1>6, <1>7 DEF Next

-----------------------------------------------------------------------------
LEMMA DeliveryInvariant == Spec => []DeliveryInv
  BY DeliveryInit, DeliveryStep, PTL DEF Spec

LEMMA RowAgrees ==
  ASSUME DeliveryInv
  PROVE  RowAgreesWithEvents
<1> SUFFICES ASSUME NEW p \in Packages, package[p].state # "absent"
             PROVE  package[p].state = Derived(p, package[p].version)
  BY DEF RowAgreesWithEvents
<1>1. package[p].version \in Versions
  BY DEF DeliveryInv, TypeOK, Packed, PackageRecord, Versions
<1>2. package[p].state = Last(recorded[p][package[p].version])
  BY <1>1 DEF DeliveryInv, Packed
<1>3. QED
  BY <1>1, <1>2, DerivedIsLast

\* A version is confirmed, exported or sent only while its reports are approved
\* and the project is neither on hold nor cancelled.
SentIsApproved == \A p \in Packages, v \in Versions :
  recorded'[p][v] \cap {"ready", "exported", "manually_sent"} # recorded[p][v]
                     \cap {"ready", "exported", "manually_sent"} =>
    /\ content[p][v].reports \cap withdrawn = {}
    /\ project.status \notin {"on_hold", "cancelled"}

LEMMA SendingStep ==
  ASSUME DeliveryInv, [Next]_vars
  PROVE  SentIsApproved
<1>1. CASE recorded' = recorded
  BY <1>1 DEF SentIsApproved
<1>2. CASE \E s \in Sessions, action \in States \ {"draft"} : Record(s, action)
  <2>1. PICK s \in Sessions, action \in States \ {"draft"} : Record(s, action)
    BY <1>2
  <2>2. PICK p \in Packages : p = page[s].of
    BY <2>1 DEF Record, Expects, DeliveryInv, TypeOK, Shown
  <2>3. PICK v : v = package[p].version
    OBVIOUS
  <2>4. /\ recorded' = [recorded EXCEPT ![p][v] = @ \cup {action}]
        /\ action # "acknowledged" => Deliverable(p)
    BY <2>1, <2>2, <2>3 DEF Record
  <2>5. Deliverable(p) => /\ content[p][v].reports \cap withdrawn = {}
                          /\ project.status \notin {"on_hold", "cancelled"}
    BY <2>3 DEF Deliverable, Active, Selectable, DeliveryInv, TypeOK
  <2>6. \A q \in Packages, n \in Versions :
          recorded'[q][n] = IF q = p /\ n = v THEN recorded[q][n] \cup {action} ELSE recorded[q][n]
    BY <2>4 DEF DeliveryInv, TypeOK
  <2>7. CASE action = "acknowledged"
    <3>1. \A q \in Packages, n \in Versions :
            recorded'[q][n] \cap {"ready", "exported", "manually_sent"}
              = recorded[q][n] \cap {"ready", "exported", "manually_sent"}
      BY <2>6, <2>7
    <3>2. QED
      BY <3>1 DEF SentIsApproved
  <2>8. CASE action # "acknowledged"
    BY <2>4, <2>5, <2>6, <2>8 DEF SentIsApproved
  <2>9. QED
    BY <2>7, <2>8
<1>3. recorded' = recorded \/ \E s \in Sessions, action \in States \ {"draft"} : Record(s, action)
  BY DEF Next, vars, packing, WriteReport, ApproveReport, WithdrawApproval, ChangeProject,
         CreatePackage, SavePackage, RevisePackage, EditPackage, View
<1>4. QED
  BY <1>1, <1>2, <1>3

-----------------------------------------------------------------------------
(***************************************************************************)
(* Closeout.                                                               *)
(***************************************************************************)

\* What an override was given for is of the past.
Remembered == \A o \in override :
  /\ o.check \in Checks /\ o.policy \in 1..policy.version
  /\ o.check \in {"report", "delivery"} /\ o.evidence[2] = TRUE => o.evidence[1] \in withdrawn
  /\ o.check = "issues" => \A e \in o.evidence : e[1] \in 0..issue.revision
  /\ o.check = "work" => /\ o.evidence[1].revision \in 0..visits.revision
                         /\ o.evidence[2].revision \in 0..project.revision

CloseoutInv ==
  /\ DeliveryInv /\ CloseoutTypeOK
  /\ policy.version = 0 => policy.requires = {}
  /\ Remembered

LEMMA Evidences ==
  /\ Evidence("work") = <<visits, project>>
  /\ Evidence("report") = <<facts.report, facts.report \in withdrawn, latest>>
  /\ Evidence("delivery") = <<facts.report, facts.report \in withdrawn, Sent>>
  /\ \A e \in Evidence("issues") : e[1] = issue.revision
<1>1. /\ Evidence("work") = <<visits, project>>
      /\ Evidence("report") = <<facts.report, facts.report \in withdrawn, latest>>
      /\ Evidence("delivery") = <<facts.report, facts.report \in withdrawn, Sent>>
  BY DEF Evidence
<1>2. Evidence("issues") \subseteq {<<issue.revision, Disposed>>}
  BY DEF Evidence
<1>3. QED
  BY <1>1, <1>2

LEMMA CloseoutInitInv == CloseoutInit => CloseoutInv
<1> SUFFICES ASSUME CloseoutInit PROVE CloseoutInv
  OBVIOUS
<1>1. DeliveryInv
  BY DeliveryInit DEF CloseoutInit
<1>2. /\ policy = [version |-> 0, requires |-> {}]
      /\ facts = [revision |-> 0, report |-> 0, disposed |-> 0]
      /\ visits = [revision |-> 0, state |-> "none"]
      /\ issue = [revision |-> 0, reported |-> FALSE] /\ override = {}
  BY DEF CloseoutInit, NoPolicy
<1>3. /\ policy \in [version : 0..MaxPolicy, requires : SUBSET Checks]
      /\ facts \in [revision : 0..MaxFacts, report : {0} \cup approved, disposed : 0..issue.revision]
      /\ visits \in [revision : 0..MaxField, state : VisitStates]
      /\ issue \in [revision : 0..MaxField, reported : BOOLEAN]
      /\ issue.reported => issue.revision > 0
  BY <1>2 DEF VisitStates
<1>4. CloseoutTypeOK
  BY <1>1, <1>2, <1>3 DEF CloseoutTypeOK, DeliveryInv
<1>5. Remembered
  BY <1>2 DEF Remembered
<1>6. QED
  BY <1>1, <1>2, <1>4, <1>5 DEF CloseoutInv

\* Nothing that an override remembers is taken back.
LEMMA StillRemembered ==
  ASSUME CloseoutInv, CloseoutTypeOK', override' \subseteq override,
         withdrawn \subseteq withdrawn', policy'.version >= policy.version,
         issue'.revision >= issue.revision, visits'.revision >= visits.revision,
         project'.revision >= project.revision
  PROVE  Remembered'
<1>1. /\ policy.version \in Nat /\ policy'.version \in Nat
      /\ issue.revision \in Nat /\ issue'.revision \in Nat
      /\ visits.revision \in Nat /\ visits'.revision \in Nat
      /\ project.revision \in Nat /\ project'.revision \in Nat
  BY DEF CloseoutInv, CloseoutTypeOK, TypeOK, Operations
<1> SUFFICES ASSUME NEW o \in override
             PROVE  /\ o.check \in Checks /\ o.policy \in 1..policy'.version
                    /\ o.check \in {"report", "delivery"} /\ o.evidence[2] = TRUE
                         => o.evidence[1] \in withdrawn'
                    /\ o.check = "issues" => \A e \in o.evidence : e[1] \in 0..issue'.revision
                    /\ o.check = "work" => /\ o.evidence[1].revision \in 0..visits'.revision
                                           /\ o.evidence[2].revision \in 0..project'.revision
  BY DEF Remembered
<1>2. o.check = "work" => /\ o.evidence[1].revision \in 0..visits'.revision
                          /\ o.evidence[2].revision \in 0..project'.revision
  BY <1>1 DEF CloseoutInv, Remembered
<1>3. o.check = "issues" => \A e \in o.evidence : e[1] \in 0..issue'.revision
  BY <1>1 DEF CloseoutInv, Remembered
<1>4. QED
  BY <1>1, <1>2, <1>3 DEF CloseoutInv, Remembered

\* What a step of the packages does to the project and to the approvals.
LEMMA DeliveryMoves ==
  ASSUME [Next]_vars
  PROVE  /\ project' = project \/ \E status \in Statuses : ChangeProject(status)
         /\ approved \subseteq approved' /\ withdrawn \subseteq withdrawn'
<1>1. CASE \/ WriteReport \/ ApproveReport
           \/ \E r \in Reports : WithdrawApproval(r)
  BY <1>1 DEF WriteReport, ApproveReport, WithdrawApproval
<1>2. CASE \E status \in Statuses : ChangeProject(status)
  BY <1>2 DEF ChangeProject, reporting
<1>3. ASSUME NEW p \in Packages, NEW c \in Content, CreatePackage(p, c)
      PROVE  UNCHANGED <<reporting, project>>
  BY <1>3 DEF CreatePackage
<1>4. ASSUME NEW s \in Sessions, NEW c \in Content, EditPackage(s, c)
      PROVE  UNCHANGED <<reporting, project>>
  BY <1>4 DEF EditPackage
<1>5. ASSUME NEW s \in Sessions, NEW p \in Packages, View(s, p)
      PROVE  UNCHANGED <<reporting, project>>
  BY <1>5 DEF View
<1>6. ASSUME NEW s \in Sessions, NEW action \in States \ {"draft"}, Record(s, action)
      PROVE  UNCHANGED <<reporting, project>>
  BY <1>6 DEF Record
<1>7. CASE UNCHANGED <<reporting, project>>
  BY <1>7 DEF reporting
<1>8. CASE UNCHANGED vars
  BY <1>7, <1>8 DEF vars
<1>9. QED
  BY <1>1, <1>2, <1>3, <1>4, <1>5, <1>6, <1>7, <1>8 DEF Next, SavePackage, RevisePackage

\* The project changes only in a new revision.
LEMMA ProjectRevised ==
  ASSUME TypeOK, [CloseoutNext]_closeoutVars
  PROVE  /\ project'.revision >= project.revision
         /\ project' # project => project'.revision > project.revision
<1>1. project' = project \/ \E status \in Statuses : ChangeProject(status)
  <2>1. CASE [Next]_vars
    BY <2>1, DeliveryMoves
  <2>2. CASE UNCHANGED vars
    BY <2>2 DEF vars
  <2>3. CASE \/ \E requires \in SUBSET Checks : SavePolicy(requires)
             \/ \E r \in 0..MaxReport, d \in 0..MaxField : SaveFacts(r, d)
             \/ \E next \in VisitStates : ChangeVisits(next)
             \/ \E reported \in BOOLEAN : SaveRecord(reported)
             \/ \E check \in Checks : OverrideReadiness(check)
    BY <2>2, <2>3 DEF SavePolicy, SaveFacts, ChangeVisits, SaveRecord, OverrideReadiness
  <2>4. QED
    BY <2>1, <2>2, <2>3 DEF CloseoutNext, closeoutVars
<1>2. project.revision \in Nat
  BY DEF TypeOK, Operations
<1>3. QED
  BY <1>1, <1>2 DEF ChangeProject

LEMMA DeliveryOnly ==
  ASSUME CloseoutInv, [Next]_vars, UNCHANGED closing,
         project'.revision >= project.revision
  PROVE  CloseoutInv'
<1>1. DeliveryInv'
  BY DeliveryStep DEF CloseoutInv
<1>2. approved \subseteq approved' /\ withdrawn \subseteq withdrawn'
  BY DeliveryMoves
<1>3. CloseoutTypeOK'
  BY <1>1, <1>2 DEF CloseoutInv, CloseoutTypeOK, DeliveryInv, closing
<1>4. /\ policy'.version >= policy.version /\ issue'.revision >= issue.revision
      /\ visits'.revision >= visits.revision /\ override' \subseteq override
  BY DEF closing, CloseoutInv, CloseoutTypeOK
<1>5. Remembered'
  BY <1>2, <1>3, <1>4, StillRemembered
<1>6. QED
  BY <1>1, <1>3, <1>5 DEF CloseoutInv, closing

LEMMA CloseoutChanges ==
  ASSUME CloseoutInv, UNCHANGED vars,
         \/ \E requires \in SUBSET Checks : SavePolicy(requires)
         \/ \E r \in 0..MaxReport, d \in 0..MaxField : SaveFacts(r, d)
         \/ \E next \in VisitStates : ChangeVisits(next)
         \/ \E reported \in BOOLEAN : SaveRecord(reported)
  PROVE  CloseoutInv'
<1>1. DeliveryInv'
  BY DeliveryStep DEF CloseoutInv
<1>2. /\ UNCHANGED <<approved, withdrawn>> /\ override' = override
      /\ policy' \in [version : 0..MaxPolicy, requires : SUBSET Checks]
      /\ policy'.version >= policy.version
      /\ policy'.version = 0 => policy'.requires = {}
      /\ facts' \in [revision : 0..MaxFacts, report : {0} \cup approved,
                    disposed : 0..issue'.revision]
      /\ visits' \in [revision : 0..MaxField, state : VisitStates]
      /\ visits'.revision >= visits.revision
      /\ issue' \in [revision : 0..MaxField, reported : BOOLEAN]
      /\ issue'.revision >= issue.revision
      /\ issue'.reported => issue'.revision > 0
  <2> USE DEF CloseoutInv, CloseoutTypeOK, vars, reporting
  <2>1. CASE \E requires \in SUBSET Checks : SavePolicy(requires)
    BY <2>1 DEF SavePolicy
  <2>2. CASE \E r \in 0..MaxReport, d \in 0..MaxField : SaveFacts(r, d)
    BY <2>2 DEF SaveFacts, Requirable, Disposable
  <2>3. CASE \E next \in VisitStates : ChangeVisits(next)
    <3>1. PICK next \in VisitStates : ChangeVisits(next)
      BY <2>3
    <3>2. visits' = [revision |-> visits.revision + 1, state |-> next] /\ visits.revision < MaxField
          /\ UNCHANGED <<policy, facts, override>>
      BY <3>1 DEF ChangeVisits
    <3>3. \/ issue' = issue \/ issue' = [issue EXCEPT !.reported = FALSE]
          \/ issue.revision < MaxField /\ issue' = [issue EXCEPT !.revision = @ + 1]
      BY <3>1 DEF ChangeVisits
    <3>4. /\ issue' \in [revision : 0..MaxField, reported : BOOLEAN]
          /\ issue'.revision >= issue.revision
          /\ issue'.reported => issue'.revision > 0
      <4>1. /\ issue \in [revision : 0..MaxField, reported : BOOLEAN]
            /\ issue.reported => issue.revision > 0
        OBVIOUS
      <4>2. CASE issue' = issue
        BY <4>1, <4>2
      <4>3. CASE issue' = [issue EXCEPT !.reported = FALSE]
        <5>1. issue' \in [revision : 0..MaxField, reported : BOOLEAN]
          BY <4>1, <4>3
        <5>2. issue'.revision = issue.revision /\ issue'.reported = FALSE
          BY <4>1, <4>3
        <5>3. QED
          BY <4>1, <5>1, <5>2
      <4>4. CASE issue.revision < MaxField /\ issue' = [issue EXCEPT !.revision = @ + 1]
        BY <4>1, <4>4
      <4>5. QED
        BY <3>3, <4>2, <4>3, <4>4
    <3>5. facts' \in [revision : 0..MaxFacts, report : {0} \cup approved,
                      disposed : 0..issue'.revision]
      BY <3>2, <3>4
    <3>6. QED
      BY <3>2, <3>4, <3>5
  <2>4. CASE \E reported \in BOOLEAN : SaveRecord(reported)
    BY <2>4 DEF SaveRecord
  <2>5. QED
    BY <2>1, <2>2, <2>3, <2>4
<1>3. CloseoutTypeOK'
  BY <1>1, <1>2 DEF CloseoutInv, CloseoutTypeOK, DeliveryInv
<1>4. project'.revision >= project.revision
  BY DEF vars, CloseoutInv, CloseoutTypeOK, TypeOK, Operations
<1>5. Remembered'
  BY <1>2, <1>3, <1>4, StillRemembered
<1>6. QED
  BY <1>1, <1>2, <1>3, <1>5 DEF CloseoutInv

LEMMA OverrideInv ==
  ASSUME CloseoutInv, NEW check \in Checks, OverrideReadiness(check)
  PROVE  CloseoutInv'
<1>1. UNCHANGED <<vars, policy, facts, visits, issue, project>> /\ check \in policy.requires
  BY DEF OverrideReadiness, Overridable, vars
<1>2. DeliveryInv'
  BY <1>1, DeliveryStep DEF CloseoutInv
<1>3. policy.version \in 1..MaxPolicy /\ policy.version \in 1..policy.version
  BY <1>1 DEF CloseoutInv, CloseoutTypeOK
<1>4. PICK o : o = [check |-> check, policy |-> policy.version, evidence |-> Evidence(check)]
  OBVIOUS
<1>5. override' \subseteq override \cup {o}
  BY <1>4 DEF OverrideReadiness
<1>6. o.check = check /\ o.policy = policy.version /\ o.evidence = Evidence(check)
  BY <1>4
<1>7. CloseoutTypeOK'
  BY <1>1, <1>2, <1>3, <1>5, <1>6 DEF CloseoutInv, CloseoutTypeOK, DeliveryInv, vars, reporting
<1>8. o.check \in {"report", "delivery"} /\ o.evidence[2] = TRUE => o.evidence[1] \in withdrawn
  <2>1. check = "report" => o.evidence[1] = facts.report /\ o.evidence[2] = (facts.report \in withdrawn)
    BY <1>6, Evidences
  <2>2. check = "delivery" => o.evidence[1] = facts.report /\ o.evidence[2] = (facts.report \in withdrawn)
    BY <1>6, Evidences
  <2>3. QED
    BY <1>6, <2>1, <2>2
<1>9. o.check = "issues" => \A e \in o.evidence : e[1] \in 0..issue.revision
  BY <1>6, Evidences DEF CloseoutInv, CloseoutTypeOK
<1>10. o.check = "work" => /\ o.evidence[1].revision \in 0..visits.revision
                           /\ o.evidence[2].revision \in 0..project.revision
  BY <1>6, Evidences DEF CloseoutInv, CloseoutTypeOK, TypeOK, Operations
<1>11. Remembered'
  <2> SUFFICES ASSUME NEW q \in override'
               PROVE  /\ q.check \in Checks /\ q.policy \in 1..policy.version
                      /\ q.check \in {"report", "delivery"} /\ q.evidence[2] = TRUE
                           => q.evidence[1] \in withdrawn
                      /\ q.check = "issues" => \A e \in q.evidence : e[1] \in 0..issue.revision
                      /\ q.check = "work" => /\ q.evidence[1].revision \in 0..visits.revision
                                             /\ q.evidence[2].revision \in 0..project.revision
    BY <1>1 DEF Remembered, vars, reporting
  <2>1. CASE q \in override
    BY <2>1 DEF CloseoutInv, Remembered
  <2>2. CASE q = o
    BY <1>3, <1>6, <1>8, <1>9, <1>10, <2>2
  <2>3. QED
    BY <1>5, <2>1, <2>2
<1>12. QED
  BY <1>1, <1>2, <1>7, <1>11 DEF CloseoutInv

LEMMA CloseoutStep ==
  ASSUME CloseoutInv, [CloseoutNext]_closeoutVars
  PROVE  CloseoutInv'
<1>0. project'.revision >= project.revision
  BY ProjectRevised DEF CloseoutInv, DeliveryInv
<1>1. CASE Next /\ ProjectCloses /\ UNCHANGED closing
  BY <1>0, <1>1, DeliveryOnly
<1>2. CASE \/ \E requires \in SUBSET Checks : SavePolicy(requires)
           \/ \E r \in 0..MaxReport, d \in 0..MaxField : SaveFacts(r, d)
           \/ \E next \in VisitStates : ChangeVisits(next)
           \/ \E reported \in BOOLEAN : SaveRecord(reported)
  <2>1. UNCHANGED vars
    BY <1>2 DEF SavePolicy, SaveFacts, ChangeVisits, SaveRecord
  <2>2. QED
    BY <1>2, <2>1, CloseoutChanges
<1>3. CASE \E check \in Checks : OverrideReadiness(check)
  BY <1>3, OverrideInv
<1>4. CASE UNCHANGED closeoutVars
  <2>1. UNCHANGED vars /\ UNCHANGED closing
    BY <1>4 DEF closeoutVars
  <2>2. QED
    BY <1>0, <2>1, DeliveryOnly
<1>5. QED
  BY <1>1, <1>2, <1>3, <1>4 DEF CloseoutNext

LEMMA CloseoutInvariant == CloseoutSpec => []CloseoutInv
  BY CloseoutInitInv, CloseoutStep, PTL DEF CloseoutSpec

-----------------------------------------------------------------------------
\* What a step that leaves a project ready has ended in.
LEMMA ReadyNext ==
  ASSUME Status' = "ready"
  PROVE  /\ policy'.version # 0
         /\ \A check \in policy'.requires : Met(check)' \/ Bound(check)' # {}
  BY DEF Status, Passes

\* The override by which a check passes was given for the evidence as it is.
LEMMA BoundNext ==
  ASSUME NEW check \in Checks, Bound(check)' # {}
  PROVE  \E o \in override' : /\ o.check = check /\ o.policy = policy'.version
                               /\ o.evidence = Evidence(check)'
  BY DEF Bound

LEMMA WithdrawalStep ==
  ASSUME CloseoutInv, [CloseoutNext]_closeoutVars,
         facts.report \in withdrawn' \ withdrawn,
         policy.requires \cap {"report", "delivery"} # {}
  PROVE  Status' # "ready"
<1>1. UNCHANGED <<policy, facts, visits, issue, override>>
  BY DEF CloseoutNext, closeoutVars, vars, reporting, SavePolicy, SaveFacts, ChangeVisits,
         SaveRecord, OverrideReadiness, closing
<1>2. PICK check \in policy.requires : check \in {"report", "delivery"}
  OBVIOUS
<1> SUFFICES ASSUME Status' = "ready" PROVE FALSE
  OBVIOUS
<1>3. Met(check)' \/ Bound(check)' # {}
  BY <1>1, <1>2, ReadyNext
<1>4. ~Met(check)'
  BY <1>1, <1>2 DEF Met, StillApproved
<1>5. check \in Checks
  BY <1>2 DEF Checks
<1>6. PICK o \in override : o.check = check /\ o.evidence = Evidence(check)'
  BY <1>1, <1>3, <1>4, <1>5, BoundNext
<1>7. o.evidence[1] = facts.report /\ o.evidence[2] = (facts.report \in withdrawn')
  BY <1>1, <1>2, <1>6 DEF Evidence
<1>8. o.evidence[2] = TRUE
  BY <1>7
<1>9. o.evidence[1] \in withdrawn
  BY <1>2, <1>6, <1>8 DEF CloseoutInv, Remembered
<1>10. QED
  BY <1>7, <1>9

LEMMA IssueStep ==
  ASSUME CloseoutInv, [CloseoutNext]_closeoutVars, issue' # issue, issue'.reported,
         "issues" \in policy.requires
  PROVE  Status' # "ready"
<1>1. UNCHANGED <<policy, facts, override>> /\ issue'.revision = issue.revision + 1
  <2>1. CASE \E next \in VisitStates : ChangeVisits(next)
    BY <2>1 DEF ChangeVisits, CloseoutInv, CloseoutTypeOK
  <2>2. CASE \E reported \in BOOLEAN : SaveRecord(reported)
    BY <2>2 DEF SaveRecord
  <2>3. QED
    BY <2>1, <2>2 DEF CloseoutNext, closeoutVars, SavePolicy, SaveFacts, OverrideReadiness, closing
<1>2. issue.revision \in Nat /\ facts.disposed \in 0..issue.revision
  BY DEF CloseoutInv, CloseoutTypeOK
<1> SUFFICES ASSUME Status' = "ready" PROVE FALSE
  OBVIOUS
<1>3. Met("issues")' \/ Bound("issues")' # {}
  BY <1>1, ReadyNext
<1>4. ~Met("issues")'
  <2>1. Met("issues")' => ~issue'.reported \/ Disposed'
    BY DEF Met
  <2>2. ~Disposed'
    BY <1>1, <1>2 DEF Disposed
  <2>3. QED
    BY <2>1, <2>2
<1>5. "issues" \in Checks
  BY DEF Checks
<1>6. PICK o \in override : o.check = "issues" /\ o.evidence = Evidence("issues")'
  BY <1>1, <1>3, <1>4, <1>5, BoundNext
<1>7. PICK e \in o.evidence : e[1] = issue.revision + 1
  <2>1. <<issue'.revision, Disposed'>> \in Evidence("issues")'
    BY DEF Evidence
  <2>2. <<issue'.revision, Disposed'>>[1] = issue.revision + 1
    BY <1>1
  <2>3. QED
    BY <1>6, <2>1, <2>2
<1>8. e[1] \in 0..issue.revision
  BY <1>6 DEF CloseoutInv, Remembered
<1>9. QED
  BY <1>2, <1>7, <1>8

LEMMA VisitStep ==
  ASSUME CloseoutInv, [CloseoutNext]_closeoutVars, <<visits, project>>' # <<visits, project>>,
         visits'.state # "over", "work" \in policy.requires
  PROVE  Status' # "ready"
<1>1. /\ UNCHANGED <<policy, override>>
      /\ visits'.revision > visits.revision \/ project'.revision > project.revision
  <2>1. CASE \E next \in VisitStates : ChangeVisits(next)
    BY <2>1 DEF ChangeVisits, CloseoutInv, CloseoutTypeOK
  <2>2. CASE Next /\ UNCHANGED closing
    BY <2>2, ProjectRevised DEF closing, CloseoutInv, DeliveryInv
  <2>3. QED
    BY <2>1, <2>2 DEF CloseoutNext, closeoutVars, vars, SavePolicy, SaveFacts, SaveRecord,
                      OverrideReadiness, closing
<1> SUFFICES ASSUME Status' = "ready" PROVE FALSE
  OBVIOUS
<1>2. Met("work")' \/ Bound("work")' # {}
  BY <1>1, ReadyNext
<1>3. Met("work")' => visits'.state = "over"
  BY DEF Met
<1>4. "work" \in Checks
  BY DEF Checks
<1>5. PICK o \in override : o.check = "work" /\ o.evidence = Evidence("work")'
  BY <1>1, <1>2, <1>3, <1>4, BoundNext
<1>6. o.evidence[1].revision = visits'.revision /\ o.evidence[2].revision = project'.revision
  BY <1>5 DEF Evidence
<1>7. /\ o.evidence[1].revision \in 0..visits.revision
      /\ o.evidence[2].revision \in 0..project.revision
  BY <1>5 DEF CloseoutInv, Remembered
<1>8. visits.revision \in Nat /\ project.revision \in Nat
  BY DEF CloseoutInv, CloseoutTypeOK, TypeOK, Operations
<1>9. QED
  BY <1>1, <1>6, <1>7, <1>8

LEMMA PolicyStep ==
  ASSUME CloseoutInv, CloseoutTypeOK', [CloseoutNext]_closeoutVars,
         policy'.version # policy.version, Status' = "ready",
         NEW check \in policy'.requires
  PROVE  Met(check)
<1>1. UNCHANGED <<vars, facts, visits, issue, override>> /\ policy'.version = policy.version + 1
  <2>1. policy' # policy
    OBVIOUS
  <2>2. \E requires \in SUBSET Checks : SavePolicy(requires)
    BY <2>1 DEF CloseoutNext, closeoutVars, SaveFacts, ChangeVisits, SaveRecord,
                OverrideReadiness, closing
  <2>3. QED
    BY <2>2 DEF SavePolicy
<1>2. check \in Checks
  BY DEF CloseoutTypeOK
<1>3. Met(check)' \/ Bound(check)' # {}
  BY ReadyNext
<1>4. Bound(check)' = {}
  <2> SUFFICES ASSUME Bound(check)' # {} PROVE FALSE
    OBVIOUS
  <2>1. PICK o \in override : o.policy = policy.version + 1
    BY <1>1, <1>2, BoundNext
  <2>2. QED
    BY <2>1 DEF CloseoutInv, CloseoutTypeOK, Remembered
<1>5. Met(check)' = Met(check)
  BY <1>1 DEF Met, StillApproved, Disposed, Sent, vars, reporting, packing
<1>6. QED
  BY <1>3, <1>4, <1>5

-----------------------------------------------------------------------------
(***************************************************************************)
(* Theorems.                                                               *)
(***************************************************************************)

\* Every variable of the packages keeps its type.
THEOREM DeliveryTypes == Spec => []TypeOK
  BY DeliveryInvariant, PTL DEF DeliveryInv

\* The state of a package is the one its events derive, through every edit and
\* transition from however many pages.
THEOREM RowAndEvents == Spec => []RowAgreesWithEvents
  BY DeliveryInvariant, RowAgrees, PTL

\* Nothing is confirmed, exported or sent whose approval was withdrawn since it
\* was bound, or of a project that is on hold or cancelled.
THEOREM Sending == Spec => SentWasApproved
<1>1. DeliveryInv /\ [Next]_vars => [SentIsApproved]_vars
  BY SendingStep
<1>2. QED
  BY <1>1, DeliveryInvariant, PTL DEF Spec, SentWasApproved, SentIsApproved

\* The packages of a project that is closed out are those of Delivery.
THEOREM CloseoutDelivers == CloseoutSpec => Spec
<1>1. CloseoutInit => Init
  BY DEF CloseoutInit
<1>2. [CloseoutNext]_closeoutVars => [Next]_vars
  BY DEF CloseoutNext, closeoutVars, SavePolicy, SaveFacts, ChangeVisits, SaveRecord,
         OverrideReadiness
<1>3. QED
  BY <1>1, <1>2, PTL DEF CloseoutSpec, Spec

\* Every variable of the closeout keeps its type.
THEOREM CloseoutTypes == CloseoutSpec => []CloseoutTypeOK
  BY CloseoutInvariant, PTL DEF CloseoutInv

\* A withdrawn approval, a new revision of a record that still reports an issue, a
\* change of visits that are not over or of their project, and a new policy take
\* readiness away in the step in which they happen, whatever was disposed of or
\* overridden before.
THEOREM Latching == CloseoutSpec => NeverLatched
<1>1. CloseoutInv /\ CloseoutInv' /\ [CloseoutNext]_closeoutVars =>
        [/\ facts.report \in withdrawn' \ withdrawn /\ policy.requires \cap {"report", "delivery"} # {}
              => Status' # "ready"
         /\ issue' # issue /\ issue'.reported /\ "issues" \in policy.requires
              => Status' # "ready"
         /\ <<visits, project>>' # <<visits, project>> /\ visits'.state # "over"
              /\ "work" \in policy.requires => Status' # "ready"
         /\ policy'.version # policy.version /\ Status' = "ready" =>
              \A check \in policy'.requires : Met(check)]_closeoutVars
  BY WithdrawalStep, IssueStep, VisitStep, PolicyStep DEF CloseoutInv
<1>2. QED
  BY <1>1, CloseoutInvariant, PTL DEF CloseoutSpec, NeverLatched

\* Who is ready by a delivery has sent the required report in a version that
\* was confirmed before, and the report's approval stands.
THEOREM Delivered == CloseoutSpec => []ReadyIsDelivered
<1>1. CloseoutInv => ReadyIsDelivered
  <2> SUFFICES ASSUME CloseoutInv, Status = "ready", "delivery" \in policy.requires,
                      Bound("delivery") = {}
               PROVE  /\ facts.report \in approved \ withdrawn
                      /\ \E p \in Packages, v \in Versions :
                           /\ {"ready", "manually_sent"} \subseteq recorded[p][v]
                           /\ facts.report \in content[p][v].reports
    BY DEF ReadyIsDelivered
  <2>1. Met("delivery")
    BY DEF Status, Passes
  <2>2. StillApproved /\ \E s \in Sent : facts.report \in content[s[1]][s[2]].reports
    BY <2>1 DEF Met
  <2>3. PICK p \in Packages, v \in Versions :
          "manually_sent" \in recorded[p][v] /\ facts.report \in content[p][v].reports
    BY <2>2 DEF Sent
  <2>4. "ready" \in recorded[p][v]
    BY <2>3 DEF CloseoutInv, DeliveryInv, Packed
  <2>5. QED
    BY <2>2, <2>3, <2>4 DEF StillApproved
<1>2. QED
  BY <1>1, CloseoutInvariant, PTL
=============================================================================
