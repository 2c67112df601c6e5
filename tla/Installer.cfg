SPECIFICATION FairSpec
CONSTANTS
  Steps <- InstallSteps
  MaxPlans = 1
  MaxRuns = 2
INVARIANTS OneInstaller CancelledWithinStep SuccessUnmounts PlanIsValidated
PROPERTIES EndsReached
CHECK_DEADLOCK FALSE
