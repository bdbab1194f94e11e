SPECIFICATION ParserSpec
CONSTANTS
  Sample <- MCSample
  Piece <- MCPiece
  Broken <- MCBroken
  MaxEvents = 8
INVARIANTS SchemeFollowsNesting
