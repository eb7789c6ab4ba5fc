\* Two builds, one request of any mode by either caller.
SPECIFICATION Spec
CONSTANTS
  TopK = 2
  Types = {"wanted"}
  Terms = {"term"}
  Hidden = {9}
  NumBuilds = 2
  Corpora <- MCCorpora
  Modes <- MCModes
  Traces <- MCTraces
  ScoredLists <- MCScoredLists
  NodeHits <- MCNodeHits
  RelationHits <- MCRelationHits
  ChunkHits <- MCChunkHits
  TripleHits <- MCTripleHits
INVARIANTS
  OnlyTraceFallsBack
  BestTriplesKept
  ChunksNotOlder
  CandidatesComplete
\* A request is answered once, and builds come to an end.
CHECK_DEADLOCK FALSE
