SPECIFICATION ServicesSpec
CONSTANTS
  adm = adm
  usr = usr
  NodeIds = {1, 2, 3, 4, 5}
  Names = {"sync", "r", "f", "d", "f1"}
  GivenNames = {"d", "f"}
  AskedAI = {TRUE}
  Users = {adm, usr}
  Admins = {adm}
  Slots = {1, 2, 3}
  MaxRequests = 3
  LastDay = 1
  Sizes = {1, 2}
  Candidates <- MCCandidates
  TotalSize = 3
  SyncTotal = 3
  SyncName = "sync"
  RootName = "r"
  RelPaths <- MCRelPaths
  Workspaces <- MCWorkspaces
  Paths <- MCPaths
  Contents = {"one", "two"}
  AllowDelete = TRUE
  MaxEdits = 3
  MaxFaults = 1
  MaxGens = 4
  EmbGens = {1, 2}
  MaxCommands = 2
  MaxEmbRuns = 1
  MaxKills = 1
CHECK_DEADLOCK FALSE
INVARIANTS
  ServicesTypeOK
  RuntimeSettled
PROPERTIES
  
  KeepsSteadyFiles
  Converges
