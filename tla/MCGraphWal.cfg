SPECIFICATION Spec
CONSTANTS
  b1 = b1
  b2 = b2
  old = old
  new = new
  NumChunks = 3
  Schemas = {old, new}
  NoSchema = NoSchema
  Jobs = {b1, b2}
  Requested <- AnyOption
  Runners = 2
SYMMETRY Symmetry
INVARIANTS
  NoChunkTwice
  RunnersCover
PROPERTIES
  BuildIsOfOneManifest
  ImplementsResumableBuild
CHECK_DEADLOCK FALSE
