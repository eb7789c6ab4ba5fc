SPECIFICATION FairSpec
CONSTANTS
  Plan <- CreateDataset
  MaxPolls = 2
  ClientCancels = 1
INVARIANTS
  StepsInOrder
  SuccessIsEarned
  NoChildOutlivesWorkflow
PROPERTIES
  WorkflowLifecycle
  CancelEndsWorkflow
  CancelReachesChild
