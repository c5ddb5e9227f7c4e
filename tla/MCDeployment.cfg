CONSTANTS
  Values = {v1, v2, v3}
  Verdicts <- MCVerdicts
  Behaviours <- MCBehaviours
  Ids <- MCIds
  MaxImport = 2
  Deployments <- MCDeployments
SPECIFICATION Spec
INVARIANTS
  TypeOK
  BindingIsTrue
  BoundIsCallable
PROPERTIES
  ActionsAreGated
CHECK_DEADLOCK FALSE
