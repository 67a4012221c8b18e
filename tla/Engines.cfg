SPECIFICATION EnginesSpec
CONSTANTS
  ann = ann
  bob = bob
  eve = eve
  mechanical = mechanical
  electrical = electrical
  usb = usb
  v2 = v2
  v2b = v2b
  fit = fit
  Person <- MCPerson
  Role <- MCRole
  Contract = {usb}
  Version = {v2, v2b}
  Evidence = {fit}
  Draft <- MCDraft
  MaxConfs = 4
  MaxBranches = 2
  MaxBoxes = 1
  MaxFaults = 1
  product = product
  sandbox = sandbox
  thermal = thermal
  clearance = clearance
  Configuration = {product, sandbox}
  Committed = {product}
  GateOrder <- MCOrder
  Required = {thermal, clearance}
  Result = {"pass", "fail", "malformed"}
  MaxFiles = 1
  MaxRuns = 2
  MaxTime = 1
  MaxReleaseFaults = 1
  MaxChange = 4
  MaxBoards = 2
  MaxOpenRev = 3
  MaxStoreFaults = 2
  AgentTask = {route}
  AgentJob = {scan}
  Budget = 3
  MaxTaskFaults = 3
  Point = {p1, p2}
  Layers = 2
  MaxShoved = 1
  MaxRoutes = 2
  MaxGestures = 3
  MaxDocumentEdits = 1
  Connection = {1, 2, 3}
  NetOf <- MCNetOf
  Cell = {1, 2, 3, 4, 5}
  Ways <- MCWays
  Box <- MCBox
  Stroke <- MCStroke
  MaxRouteRuns = 2
  MaxBoardEdits = 1
INVARIANTS
  EnginesTypeOK HeadsAdvance ApprovalsSound VerdictsSound AckedDurable TrailTells ReferencesResolve TasksKept RouteSound RoutingSound
PROPERTIES StaleForever NothingForgotten
CHECK_DEADLOCK FALSE
