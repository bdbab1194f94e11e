SPECIFICATION SessionSpec
CONSTANTS
  g1 = g1
  g2 = g2
  c1 = c1
  Game = {g1, g2}
  Controller = {c1}
  DeviceId = {g1, g2, c1}
  EmptyId = EmptyId
  MaxSlot = 3
  Players = {0, 2}
  Modes = {TRUE}
  DenyOnDisconnect = FALSE
  TakeOvers = TRUE
  Counts = {2}
  MaxConnects <- Reconnects
  RegisterCall <- SessionRegisterCalls
  UpdateInfo <- SessionUpdateInfos
  LocalKind = {"server"}
  Absent = Absent
  NoInfo = NoInfo
  NoPlayers = NoPlayers
  NoPending = NoPending
  NoLocal = NoLocal
INVARIANTS HostListsAgree SlotsToldApart MembersRegistered
PROPERTIES SessionIsDisciplined
CHECK_DEADLOCK FALSE
