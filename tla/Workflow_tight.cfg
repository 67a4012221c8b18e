SPECIFICATION Spec
CONSTANTS
  N = 3
  Dep <- SmallDep
  Cost <- SmallCost
  Budget = 3
  Approver = {a1, a2}
  Version = {v1, v2, v3}
  Sound = {v1, v2}
  Missing = Missing
  None = None
  MaxFaults = 2
  MaxEdits = 2
INVARIANTS StoreAgrees NoStall Provenance
PROPERTIES LedgerSpec
