CONSTANTS
  Tools = {0, 1}
  Chunks <- MCChunks
  MaxChunks <- MCMaxChunks
  Upstreams <- MCUpstreams
  Reencoded <- MCReencoded
SPECIFICATION Spec
INVARIANTS
  TypeOK
  EndsTold
  ChunkingIrrelevant
  CallsCarryReasoning
PROPERTY
  FollowsProtocol
CHECK_DEADLOCK FALSE
