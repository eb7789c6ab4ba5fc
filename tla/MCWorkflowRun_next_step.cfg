SPECIFICATION Spec
CONSTANTS
  Plan <- CreateDataset
  MaxPolls = 2
  ClientCancels = 0
PROPERTIES
  NoStepAfterCancel
