--------------------------- MODULE RecipeExecution ---------------------------
(***************************************************************************)
(* What an automation execution promises the people who configured it,     *)
(* with no workers, leases, attempts or revisions: two steps done in order *)
(* and at most once, a completed execution having done both, and only a    *)
(* failed one ever opened again.                                           *)
(***************************************************************************)
CONSTANT Jobs

VARIABLES
  phase, \* "absent", "open", "completed", "failed" or "dropped"
  done   \* the steps whose effect is durable

vars == <<phase, done>>

Init ==
  /\ phase = [j \in Jobs |-> "absent"]
  /\ done = [j \in Jobs |-> {}]

\* One event opens an execution for each of its recipes.
Capture(S) ==
  /\ \A j \in S : phase[j] = "absent"
  /\ phase' = [j \in Jobs |-> IF j \in S THEN "open" ELSE phase[j]]
  /\ UNCHANGED done

Perform(j, s) ==
  /\ phase[j] = "open"
  /\ s \notin done[j]
  /\ s = "task" => "handoff" \in done[j]
  /\ done' = [done EXCEPT ![j] = @ \cup {s}]
  /\ UNCHANGED phase

Close(j, p) ==
  /\ phase[j] = "open"
  /\ p = "completed" => done[j] = {"handoff", "task"}
  /\ phase' = [phase EXCEPT ![j] = p]
  /\ UNCHANGED done

Reopen(S) ==
  /\ \A j \in S : phase[j] = "failed"
  /\ phase' = [j \in Jobs |-> IF j \in S THEN "open" ELSE phase[j]]
  /\ UNCHANGED done

Next ==
  \/ \E S \in SUBSET Jobs : Capture(S) \/ Reopen(S)
  \/ \E j \in Jobs, s \in {"handoff", "task"} : Perform(j, s)
  \/ \E j \in Jobs, p \in {"completed", "failed", "dropped"} : Close(j, p)

Spec == Init /\ [][Next]_vars
=============================================================================
