SPECIFICATION FileSpec
CONSTANTS
  adm = adm
  usr = usr
  NodeIds = {1, 2, 3, 4, 5}
  Names = {"sync", "r", "f", "d", "f1"}
  GivenNames = {"d", "f"}
  AskedAI = {TRUE}
  Users = {adm, usr}
  Admins = {adm}
  Slots = {1, 2}
  MaxRequests = 2
  LastDay = 1
  Sizes = {1, 2}
  Candidates <- MCCandidates
  TotalSize = 3
  SyncTotal = 3
  SyncName = "sync"
  RootName = "r"
  RelPaths <- MCRelPaths
  Workspaces <- MCWorkspaces
CHECK_DEADLOCK FALSE
PROPERTIES
  PurgeOwnOnly
