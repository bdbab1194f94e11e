SPECIFICATION FairSession
CONSTANTS
  g1 = g1
  g2 = g2
  c1 = c1
  Game = {g1}
  Controller = {c1}
  DeviceId = {g1, c1}
  EmptyId = EmptyId
  MaxSlot = 2
  Players = {0, 2}
  Modes = {FALSE}
  DenyOnDisconnect = FALSE
  TakeOvers = FALSE
  Counts = {2}
  MaxConnects <- OneGame
  RegisterCall <- SessionRegisterCalls
  UpdateInfo <- SessionUpdateInfos
  LocalKind = {"server"}
  Absent = Absent
  NoInfo = NoInfo
  NoPlayers = NoPlayers
  NoPending = NoPending
  NoLocal = NoLocal
PROPERTIES GoneHostsForgotten
CHECK_DEADLOCK FALSE
