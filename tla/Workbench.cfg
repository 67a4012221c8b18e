SPECIFICATION Spec
CONSTANTS
  Domain = {mech, elec}
  Elsewhere = Elsewhere
  Pass = Pass
  Digest = {1, 2}
  MaxRounds = 3
  Ref = {u1, u2}
  ldo = ldo
  buck = buck
  Binding = {ldo, buck}
  Net = {vin, vout, gnd}
  Pins <- MCPins
  first = first
  again = again
  other = other
  partial = partial
  slim = slim
  wide = wide
  Preview = {first, again}
  NoPreview = NoPreview
  Validated = {first, again}
  CadProgram = {slim, wide}
  ProgramOf <- MCProgramOf
  Reviewer = {s1}
  Version = {w1, w2}
  Nothing = Nothing
  Remains = Remains
  MaxUpdates = 3
  MaxUpdateDeaths = 2
  Part = {body, other_part}
  Redesign = {r1, r2}
  MaxPreviews = 2
  MaxShapeEdits = 1
  vessel = vessel
  shell = shell
  v1 = v1
  v2 = v2
  Order <- MCOrder
  Initial <- MCInitial
  Outputs <- MCOutputs
  Content = {v1, v2}
  Absent = Absent
  None = None
  Lost = Lost
  MaxToolCalls = 2
  MaxToolFaults = 1
  MaxSaves = 1
  dp = dp
  dn = dn
  Footprints = 2
  Spot = {1, 2}
  BoardNet = {dp, dn}
  Items = 4
  Saved <- MCBoard
  Kept <- MCKept
  Stale = Stale
  NoProject = NoProject
  MaxEdits = 2
  MaxUndos = 1
  MaxOpens = 1
INVARIANTS TypeOK JournalSound ProductSafe PublicationSound DocumentsSound
PROPERTIES GraphSound RedesignsSound RevisionSpec HostAnswers
CHECK_DEADLOCK FALSE
