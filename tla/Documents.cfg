SPECIFICATION DocumentsSpec
CONSTANTS
  Docs = {1}
  ChunksPer = 2
  MaxTries = 1
  LastGen = 1
  Budgets <- MCBudgets
  Streams = {1, 2, 3}
  RequestIds = {"q1", "q2"}
  IdOf <- MCIdOf
  SlotIds = {"k1"}
  MaxCrashes = 1
  Editors = {"u1", "u2"}
  Fields = {"f"}
  RunIds = {1}
  MaxDrafts = 2
  MaxRevisions = 2
CHECK_DEADLOCK FALSE
INVARIANTS
  DocumentsTypeOK
  
  MixedOnlyIfDisturbed
  AnswersAccounted
  InForceAsSeen
PROPERTIES
  ActivationCovers
