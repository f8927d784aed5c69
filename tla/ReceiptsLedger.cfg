SPECIFICATION LedgerSpec
CONSTANTS
  n1 = n1
  c1 = c1
  c2 = c2
  run1 = run1
  parser = parser
  embedder = embedder
  Jobs = {"parse1", "evaluate1"}
  Nodes = {n1}
  Runs = {run1}
  Chunks = {}
  Executors = {parser, embedder}
  Role <- MCRole
  Kind <- MCKind
  Subject <- MCSubject
  Batch <- MCBatch
  ChunkNode <- MCChunkNode
  Children <- MCChildren
  MaxAttempts = 3
  MaxBlob = 2
  MaxRuntime = 2
  Catalog = {"bge"}
  DefaultModel = "bge"
  Endpoints <- MCEndpoints
  MaxRuntimes = 2
  MaxInstalls = 2
  MaxInstallKills = 1
INVARIANTS
  LedgerTypeOK
  LeftAsAsked
PROPERTIES
  ImplementsLedger
