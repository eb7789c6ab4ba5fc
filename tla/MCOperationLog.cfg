SPECIFICATION Spec
CONSTANTS
  r1 = r1
  r2 = r2
  Requests = {r1, r2}
  SaveMayFail = TRUE
  DamageMayHappen = TRUE
SYMMETRY RequestSymmetry
INVARIANTS
  RefsAreKnown
  RestartSettles
  AnsweredIsRecorded
