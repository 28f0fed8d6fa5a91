\* Each part of bench/ in turn, over every interleaving of its own actors.
CONSTANTS
  Campaigns <- MCCampaigns
  Bytes <- MCBytes
  Published <- MCPublished
  Unpublished = "none"
  Reps <- MCReps
  MaxRuns = 3
  Imported = {i1, i2}
  Restored = {r1, r2}
  Requests = 6
  Docs <- MCDocs
  Events = 1
  Commands = 2
  ARMS <- MCArms
  Invocations = 2
  Bank <- MCBank
  Misfits <- MCMisfits
  Exports <- MCExports
  Bundles <- MCBundles
  K = 2
  PageSpanMax = 5
  Scale = 12
  MeanMin = 6
  BelowMax = 6
  Cutoff = 6
  HardFloor = 3
  Operations = 2
  Recipes <- MCRecipes
  Fetches = 2
  Threads = {t1, t2}
  Loads <- MCLoads
  Shifts <- MCShifts
  Horizon = 8
  Window = 2
  Files = {f1, f2, f3}
  Launches = 2
  Writes = 2
  Copies = 2
  Dwell = 2
SPECIFICATION MCSpec
INVARIANTS
  CampaignSound
  RungsSound
  OwnAnswers
  SnapshotOfOneMoment
  ForkRestored
  EvidenceGatesNothing
  CheckedUnderItsName
  ProbeIsRight
  ShowsWhatItSays
PROPERTY SettlesOnce
CHECK_DEADLOCK FALSE
