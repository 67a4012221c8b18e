SPECIFICATION AutoSpec
CONSTANTS
  Connection = {1, 2, 3}
  NetOf <- MCNetOf
  Cell = {1, 2, 3, 4, 5}
  Ways <- MCWays
  Box <- MCBox
  Stroke <- MCStroke
  MaxRouteRuns = 1
  MaxBoardEdits = 1
INVARIANT RoutedOnDocument
CHECK_DEADLOCK FALSE
