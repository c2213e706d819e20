SPECIFICATION Spec
CONSTANTS
  v1 = v1
  v2 = v2
  v3 = v3
  v4 = v4
  Tasks <- ExtendedTasks
  Variables <- ExtendedVariables
  Policy <- ExtendedPolicy
  Page <- MCPage
  RetryLimit = 1
INVARIANTS
  OwnPageOnly
CHECK_DEADLOCK FALSE
