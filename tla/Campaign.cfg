SPECIFICATION FairSpec
CONSTANTS
  fit = fit
  enclosure = enclosure
  expert = expert
  gpu0 = gpu0
  gpu1 = gpu1
  v1 = v1
  v2 = v2
  Lane = {gpu0, gpu1}
  NoLane = NoLane
  Order <- MCOrder
  NoJob = NoJob
  Needs <- MCNeeds
  Compatible <- MCCompatible
  Preferred <- MCPreferred
  Long = {enclosure}
  Allowed <- MCAllowed
  Version = {v1}
  NoFile = NoFile
  NoStartAfter = 1
  MaxRuntime = 1
  MaxTime = 1
  MaxStarts = 2
  MaxTampers = 1
INVARIANT CampaignSound
PROPERTIES FinishedStays CampaignSettles
CHECK_DEADLOCK FALSE
