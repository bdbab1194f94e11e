SPECIFICATION FairTransfer
CONSTANTS
  d1 = d1
  d2 = d2
  d3 = d3
  s1 = s1
  s2 = s2
  Device = {d1, d2, d3}
  SetId = {s1, s2}
  Stranger = d3
  StraySet = {s2}
  Source <- Transmissions
  MaxStray = 2
  MaxTotal = 3
  MaxTransfers <- TwoAndOne
  Zero = Zero
  NoBuffer = NoBuffer
  NotOffered = NotOffered
  Idle = Idle
  Nothing = Nothing
  Garbled = Garbled
INVARIANTS ChunkTypeOK BytesInPlace BuffersAccounted
PROPERTIES ReceivedBytesStay BlobsHandedOver TransfersConclude
CHECK_DEADLOCK FALSE
