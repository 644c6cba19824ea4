-------------------------- MODULE ApprovedArtifact --------------------------
(***************************************************************************)
(* What a document that customers receive promises, a proposal or a        *)
(* report alike: its text is written in versions, an agreement is always   *)
(* with the version that stands, the first agreement with a version stamps *)
(* it, and a file is published once per version, while that version is the *)
(* one agreed, and bears its stamp.                                        *)
(***************************************************************************)
EXTENDS Naturals

CONSTANTS
  Documents,
  Versions,    \* of a document's text: 1, 2, ...
  Stamps       \* of an agreement; 0 is none

VARIABLES
  text,        \* the version that stands; 0 before the document exists
  agreed,      \* the version agreed with; 0 while it is open
  stamp,       \* of each version, by its first agreement
  file         \* the stamp that the version's published file bears

vars == <<text, agreed, stamp, file>>

Blank == [d \in Documents |-> [v \in Versions |-> 0]]

Init ==
  /\ text = [d \in Documents |-> 0]
  /\ agreed = [d \in Documents |-> 0]
  /\ stamp = Blank
  /\ file = Blank

\* A new version takes the place of the old one and is open.
Write(d) ==
  /\ text' = [text EXCEPT ![d] = @ + 1]
  /\ agreed' = [agreed EXCEPT ![d] = 0]
  /\ UNCHANGED <<stamp, file>>

Agree(d, t) ==
  /\ text[d] # 0
  /\ agreed' = [agreed EXCEPT ![d] = text[d]]
  /\ stamp' = [stamp EXCEPT ![d][text[d]] = IF @ = 0 THEN t ELSE @]

Open(d) ==
  /\ agreed' = [agreed EXCEPT ![d] = 0]
  /\ UNCHANGED <<text, stamp, file>>

\* The version is the agreed one in the step that publishes it, if not before.
Publish(d) ==
  /\ agreed'[d] = text[d]
  /\ file[d][text[d]] = 0
  /\ file' = [file EXCEPT ![d][text[d]] = stamp'[d][text[d]]]
  /\ UNCHANGED text

Next == \E d \in Documents :
  \/ Write(d) \/ Open(d)
  \/ \E t \in Stamps : Agree(d, t) /\ (Publish(d) \/ UNCHANGED <<text, file>>)
  \/ UNCHANGED <<agreed, stamp>> /\ text[d] # 0 /\ Publish(d)

Spec == Init /\ [][Next]_vars
=============================================================================
