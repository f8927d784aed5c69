SPECIFICATION ProgressSpec
CONSTANTS
  n1 = n1
  c1 = c1
  c2 = c2
  run1 = run1
  parser = parser
  embedder = embedder
  Jobs = {"parse1", "plan1"}
  Nodes = {n1}
  Runs = {run1}
  Chunks = {}
  Executors = {parser, embedder}
  Role <- MCRole
  Kind <- MCKind
  Subject <- MCSubject
  Batch <- MCBatch
  ChunkNode <- MCChunkNode
  Children <- MCChildren
  MaxAttempts = 1
  MaxBlob = 1
  MaxRuntime = 1
  Roots = {"parse1"}
  MaxCopies = 2
  ParseRetries = 1
  EmbedLimit = 1
  MaxFaults = 1
INVARIANTS
  DispatchTypeOK
  MessagesInStep
PROPERTIES
  SettledBeforeAck
  
  QueueDrains
