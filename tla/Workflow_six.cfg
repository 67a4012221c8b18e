SPECIFICATION FairSpec
CONSTANTS
  N = 6
  Dep <- SixDep
  Cost <- SixCost
  Budget = 72
  Approver = {a1}
  Version = {v1, v2}
  Sound = {v1}
  Missing = Missing
  None = None
  MaxFaults = 1
  MaxEdits = 1
INVARIANTS RecordAccepts
PROPERTIES PackagesComplete
