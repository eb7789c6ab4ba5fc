SPECIFICATION Spec
CONSTANTS
  j1 = j1
  j2 = j2
  Jobs = {j1, j2}
  Watched = {j1, j2}
  ArtifactStatuses = {"planned", "written"}
  MaxCancels = 1
  MaxEvents = 4
  SaveMayFail = TRUE
  DamageMayHappen = TRUE
SYMMETRY JobSymmetry
INVARIANTS
  TypeOK
  UnfinishedHasGoroutine
  EventLogExplainsStatus
  CanceledOnRequest
  ForgottenOnlyByDamage
PROPERTIES
  TerminalFrozen
  StoredTerminalFrozen
