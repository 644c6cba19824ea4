\* One job, two invocations, an operator who repeats requests: every
\* interleaving of claims, steps, lease expiries, crashes, edits and controls.
\* The budget starts below its cap, so that a failed job is retried once.
\* Without symmetry, as a liveness property is checked.
CONSTANTS
  e1 = e1
  j1 = j1
  r1 = r1
  Events = {e1}
  Recipes = {r1}
  Jobs = {j1}
  EventOf <- OneEvent
  RecipeOf <- OneRecipe
  LockOf <- IntakeLock
  NoJob = NoJob
  Workers = {w1, w2}
  Operators = {o1}
  InitialBudget = 2
  RetryGrant = 1
  BudgetCap = 3
  MaxVersion = 2
SPECIFICATION AspectSpec
INVARIANTS AttemptLedger AttemptBudget OneTransactionPerJob
PROPERTIES CommitAuthorized ControlsWhatWasSeen ImplementsExecution JobSettles
