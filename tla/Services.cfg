SPECIFICATION Spec
CONSTANTS
  ann = ann
  bob = bob
  Nobody = Nobody
  Task = {1, 2, 3}
  Agent = {ann, bob}
  Blocker <- MCBlocker
  Priority <- MCPriority
  Kind <- MCKind
  Capable <- MCCapable
  MaxRetries = 1
  MaxRepeats = 1
  MaxVanished = 1
  MaxDeaths = 1
  MaxParts = 1
  BudgetBase = 1
  BudgetPerPart = 1
  BudgetMax = 2
  MaxRefine = 2
  SubstituteTries = 1
  ReuseQuality = 60
  MaxSessions = 2
  MaxCrashes = 1
  MaxOutcomes = 1
  Specification = {thin, thick}
  NoSpecification = NoSpecification
  MaxSubmits = 4
  MaxEdits = 2
  MaxRestarts = 1
  Job = {shell, lid}
  NoJob = NoJob
  Workers = 1
  Candidates = 2
  MaxServiceKills = 1
  MaxGenerationFaults = 1
  Product = {lamp, radio}
  NoProduct = NoProduct
  MaxPrompts = 3
  MaxProductChanges = 1
  MaxNewChats = 1
  MaxTools = 1
  MaxChatFaults = 2
INVARIANTS TypeOK TasksSound BuildsSound HandedOutSound ChatSound
PROPERTIES StepsSound WorkEnds
CHECK_DEADLOCK FALSE
