SPECIFICATION FairSpec
CONSTANTS
  j1 = j1
  j2 = j2
  Jobs = {j1, j2}
  Watched = {}
  ArtifactStatuses = {"planned", "written"}
  MaxCancels = 2
  MaxEvents = 2
  SaveMayFail = FALSE
  DamageMayHappen = FALSE
INVARIANTS
  DiskMirrorsTable
PROPERTIES
  ImplementsLifecycle
  CancelTerminates
  CanceledContextWins
