SPECIFICATION FamilySpec
CONSTANTS
  n1 = n1
  c1 = c1
  c2 = c2
  run1 = run1
  parser = parser
  embedder = embedder
  Jobs = {"parse1", "plan1", "batch1"}
  Nodes = {n1}
  Runs = {run1}
  Chunks = {c1}
  Executors = {parser, embedder}
  Role <- MCRole
  Kind <- MCKind
  Subject <- MCSubject
  Batch <- MCBatch
  ChunkNode <- MCChunkNode
  Children <- MCChildren
  MaxAttempts = 2
  MaxBlob = 1
  MaxRuntime = 1
  NoConv = 0
  Old = {1}
  New = {2, 3}
  MaxStreams = 2
  MaxPanels = 2
  MaxChatRequests = 2
  NoDoc = NoDoc
  d1 = d1
  d2 = d2
  Docs = {d1, d2}
  Folder = Folder
  Places <- MCPlaces
  MaxListRequests = 2
  MaxChanges = 1
  Browsers = {1, 2, 3}
  Addresses = {"local", "e1"}
  LocalAdmin = "local"
  Keys = {"k"}
  Gone = Gone
  MaxAccounts = 2
  MaxAsked = 6
INVARIANTS
  FamilyTypeOK
  RunningDisjoint
  WritersHoldReceipts
  CommittedWithChildren
  ChatAgrees
  
  AccountsAsAnswered
PROPERTIES
  FinalStaysFinal
