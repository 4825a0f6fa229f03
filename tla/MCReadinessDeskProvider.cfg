\* Two contracts and one retry.
CONSTANTS
  Null = Null
  Unreadable = Unreadable
  Contracts = {"CL", "ZN"}
  Answers <- SomeAnswers
  Outputs <- SomeOutputs
  Triggers <- SomeTriggers
  Files <- SomeFiles
  TotalAttempts = 2
SPECIFICATION Spec
INVARIANTS
  ProviderFailuresAre502
\* The command ends.
CHECK_DEADLOCK FALSE
