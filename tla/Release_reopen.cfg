SPECIFICATION ReleaseSpec
CONSTANTS
  product = product
  sandbox = sandbox
  thermal = thermal
  clearance = clearance
  Configuration = {product}
  Committed = {product}
  GateOrder <- MCOrder
  Required = {thermal}
  Result = {"pass", "fail"}
  MaxFiles = 1
  MaxRuns = 1
  MaxTime = 1
  MaxReleaseFaults = 1
INVARIANTS ReadyOnReported
