SPECIFICATION Spec
CONSTANTS
  game = game
  viewer = viewer
  odd = odd
  Device <- MCDevice
  Viewer <- MCViewer
  NulText <- MCNulText
  List = {l1}
  Struct <- MCStruct
  MaxCalls = 3
INVARIANTS PointersLive NothingLeaks LossHasCause
PROPERTIES MakersFailClean
CHECK_DEADLOCK FALSE
