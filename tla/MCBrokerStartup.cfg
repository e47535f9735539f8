SPECIFICATION Spec
CONSTANTS
  Deployments <- MCDeployments
  MaxEdits = 2
CHECK_DEADLOCK FALSE
INVARIANTS
  AcceptedIsWirable
  SourcesTrue
PROPERTY
  StopsOnSignal
