SPECIFICATION DisciplinedSpec
CONSTANTS
  d1 = d1
  d2 = d2
  d3 = d3
  DeviceId = {d1, d2, d3}
  EmptyId = EmptyId
  MaxSlot = 3
  Players = {0, 1}
  RegisterCall <- RegisterCalls
  UpdateInfo <- UpdateInfos
  LocalKind = {"game"}
  Absent = Absent
  NoInfo = NoInfo
  NoPlayers = NoPlayers
  NoPending = NoPending
  NoLocal = NoLocal
INVARIANTS TypeOK RecordsKeyed SlotsExact SlotsDense
PROPERTIES AnnouncedSlotsHeld ViewersTrackHosts
