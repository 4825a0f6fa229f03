\* Two contracts and one retry.
CONSTANTS
  Null = Null
  Unreadable = Unreadable
  Contracts = {"CL", "ZN"}
  Answers <- SomeAnswers
  Outputs <- SomeOutputs
  Triggers <- SomeTriggers
  Files <- SomeFiles
  TotalAttempts = 2
SPECIFICATION Spec
INVARIANTS
  TypeOK
  PassedIsSound
  ExitTellsArtifact
  BlameIsRight
  DoctrineKept
PROPERTIES
  Finishes
\* The command ends.
CHECK_DEADLOCK FALSE
