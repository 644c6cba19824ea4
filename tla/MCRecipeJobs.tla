----------------------------- MODULE MCRecipeJobs -----------------------------
(* Instances of RecipeJobs for TLC: one event captured by one recipe. *)
EXTENDS RecipeJobs, TLC

CONSTANTS e1, j1, r1

OneEvent == [j \in {j1} |-> e1]
OneRecipe == [j \in {j1} |-> r1]

IntakeLock == [e \in {e1} |-> 29]

-----------------------------------------------------------------------------
\* "authority": everything, while no budget is raised: what a job rests on
\*              changes around its attempts;
\* "budget":    a job that has spent its budget is retried and replayed until
\*              the cap stops that, while its recipe changes, and the
\*              modules between invocations.
VARIABLE aspect

aspectVars == <<vars, aspect>>

Raised == \E j \in Jobs : job[j].max > InitialBudget

AspectInit == Init /\ aspect \in {"authority", "budget"}

AspectNext ==
  /\ UNCHANGED aspect
  /\ \/ aspect = "authority" /\ Next /\ ~Raised'
     \/ /\ aspect = "budget"
        /\ Next /\ UNCHANGED member
        /\ entitled' = entitled \/ \A w \in Workers : worker[w] = Idle
        /\ current \subseteq current'

\* Only administration and requests are restricted, which no fairness is about.
AspectSpec == AspectInit /\ [][AspectNext]_aspectVars /\ Fairness
=============================================================================
