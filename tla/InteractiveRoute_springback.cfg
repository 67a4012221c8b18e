SPECIFICATION RouteSpec
CONSTANTS
  Point = {p1, p2}
  Layers = 2
  MaxShoved = 1
  MaxRoutes = 1
  MaxGestures = 3
  MaxDocumentEdits = 0
INVARIANTS Springback
CHECK_DEADLOCK FALSE
