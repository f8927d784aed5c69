SPECIFICATION ApplicationSpec
CONSTANTS
  u1 = u1
  u2 = u2
  u3 = u3
  w1 = w1
  r1 = r1
  r2 = r2
  Idle = Idle
  NoLimit = NoLimit
  Users = {u1, u2, u3}
  Workspaces = {w1}
  Requests = {r1, r2}
  Limits = {1, NoLimit}
  MaxUses = 2
  Nothing = Nothing
  Hosts <- MCHosts
  Catalogs <- MCCatalogs
  Measures <- MCMeasures
  Remotes = {"origin"}
  Aliases = {"me"}
  DefaultRemote = "origin"
  Urls = {"u1", "u2"}
  Accounts = {"A", "B"}
  Tokens = {"ta", "tb"}
  Issued <- MCIssued
  Clients = {"p1", "p2"}
  Nobody = Nobody
  MaxCliCommands = 2
  MaxCliKills = 1
  Files = {"f1", "f2"}
  Folders = {"d"}
  Spaces = {"p", "q"}
  SpaceOf <- MCSpaceOf
  Indices = {0, 1}
  Window = 1
  Models = {"m1", "m2", "m3"}
  DimOf <- MCDimOf
  SegmentDim = 1024
  FirstModel = "m1"
  NoModel = "no model"
  Workers = {"app"}
  Executor = "embedding-executor"
  EmptyScope = "empty scope"
  Searches = {"s"}
  Origins = {"sandbox", "answer"}
  Lying <- MCLying
  Sizes = {0, 1}
  Multiplier = 1
  PerFile = 2
  EvidenceSize = 1
  Spare <- MCSpare
SYMMETRY UserSymmetry
INVARIANTS
  ApplicationTypeOK
  PlanningSound
  CredentialsFit
  SearchSound
PROPERTIES
  OnlySoleDeleted
  AdminLostToRaceOnly
  JoinCounted
CHECK_DEADLOCK FALSE
