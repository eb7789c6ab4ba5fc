SPECIFICATION FairSpec
CONSTANTS
  fast = fast
  slow = slow
  free = free
  f = f
  s = s
  n = n
  Processes = {fast, slow, free}
  Threads = {f, s, n}
  Home <- AtHome
  Interval <- Intervals
  Chunks <- SomeChunks
  MaxAttempts = 2
  BaseDelay = 1
  MaxDelay = 1
  Horizon = 3
  MaxBuilds <- OneAgain
INVARIANTS
  OneHolder
  CallsSpaced
PROPERTIES
  SettledUnlessLeaked
CHECK_DEADLOCK FALSE
