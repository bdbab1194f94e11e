SPECIFICATION LogSpec
CONSTANTS
  c1 = c1
  c2 = c2
  p1 = p1
  p2 = p2
  CThread <- MCCThread
  PyThread <- MCPyThread
  NoThread = NoThread
  MaxLogCalls = 8
SYMMETRY MCSymmetry
CHECK_DEADLOCK FALSE
INVARIANTS WaitsOnlyForPython LoggedOnce
