SPECIFICATION Spec
CONSTANTS
  Domain = {mech, elec}
  Elsewhere = Elsewhere
  Pass = Pass
  Digest = {1, 2}
  MaxRounds = 0
  Ref = {}
  ldo = ldo
  buck = buck
  Binding = {ldo, buck}
  Net = {vin, vout, gnd}
  Pins <- MCPins
  first = first
  again = again
  other = other
  partial = partial
  slim = slim
  wide = wide
  Preview = {first, again, partial}
  NoPreview = NoPreview
  Validated = {first, again}
  CadProgram = {slim, wide}
  ProgramOf <- MCProgramOf
  Reviewer = {s1}
  Version = {w1, w2}
  Nothing = Nothing
  Remains = Remains
  MaxUpdates = 0
  MaxUpdateDeaths = 0
  Part = {body, other_part}
  Redesign = {}
  MaxPreviews = 0
  MaxShapeEdits = 0
  vessel = vessel
  shell = shell
  v1 = v1
  v2 = v2
  Order <- MCOrder
  Initial <- MCInitial
  Outputs <- MCOutputs
  Content = {v1, v2}
  Absent = Absent
  None = None
  Lost = Lost
  MaxToolCalls = 0
  MaxToolFaults = 0
  MaxSaves = 0
  dp = dp
  dn = dn
  Footprints = 2
  Spot = {1, 2}
  BoardNet = {dp, dn}
  Items = 4
  Saved <- MCBoard
  Kept <- MCKept
  Stale = Stale
  NoProject = NoProject
  MaxEdits = 0
  MaxUndos = 0
  MaxOpens = 0
INVARIANTS PublishedAsReviewed
CHECK_DEADLOCK FALSE
