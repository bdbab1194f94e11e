SPECIFICATION FederationSpec
CONSTANTS
  g = g
  vA = vA
  vB = vB
  sA = sA
  sB = sB
  EmptyId = EmptyId
  MaxSlot = 3
  Players = {0, 1, 2, 3}
  Counts = {1, 2, 3}
  Absent = Absent
  NoInfo = NoInfo
  NoPlayers = NoPlayers
  NoPending = NoPending
  NoLocal = NoLocal
PROPERTIES UpdatesSettle UpdatesCirculate RemoteViewerLearns GoneGameForgotten
CHECK_DEADLOCK FALSE
