SPECIFICATION Spec
CONSTANTS
  r1 = r1
  r2 = r2
  r3 = r3
  Requests = {r1, r2, r3}
  Kinds = {"import", "put_over", "delete", "rebuild"}
  MaxInFlight = 2
  IoMayFail = TRUE
  MayCrash = TRUE
SYMMETRY RequestSymmetry
INVARIANTS
  RefusalIsClean
  TornOnlyByOverlap
PROPERTIES
  SoloTakesEffect
CHECK_DEADLOCK FALSE
