SPECIFICATION Spec
CONSTANTS
  n1 = n1
  c1 = c1
  c2 = c2
  run1 = run1
  parser = parser
  embedder = embedder
  Jobs = {"parse1", "batch1"}
  Nodes = {n1}
  Runs = {run1}
  Chunks = {c1}
  Executors = {parser, embedder}
  Role <- MCRole
  Kind <- MCKind
  Subject <- MCSubject
  Batch <- MCBatch
  ChunkNode <- MCChunkNode
  Children <- MCChildren
  MaxAttempts = 2
  MaxBlob = 2
  MaxRuntime = 1
PROPERTIES
  SuccessIsTerminal
