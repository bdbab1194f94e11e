SPECIFICATION WireSpec
CONSTANTS
  Header <- MCHeader
  Object <- MCObject
  Version <- MCVersion
  Base = 4
  MaxUtf = 8
  MaxItems = 2
  MaxFrame = 128
INVARIANTS DecodedAsSent CutIsNotTaken HandshakeApart
