SPECIFICATION StreamsSpec
CONSTANTS
  ShadowWarmup = 2
  MinPrimaryAge = 2
  MaxStream = 7
  MaxSpawns = 3
  None = None
  Capacity = 2
  Noise = {0, 1, 2}
  Decay = 1
  WarmUp = 2
  MaxOffers = 5
  NumTrees = 2
  SampleSize = 2
  MaxSlots = 5
  MaxUpdates = 4
  MaxRefusals = 2
  D = 3
  MaxScalars = 8
  Threads = {1, 2}
  Processes = {1, 2}
  ProcessOf <- OwnProcess
  Pid <- SamePid
  MaxSaves = 3
  Items = {1, 2, 3}
  Counters = 2
  Rows = {1, 2}
  Width = 2
  MaxTotal = 5
  Collectors = {1, 2}
  Members = {1, 2}
  Bits = {1, 2, 3}
  NumHashes = 2
  Registers = {1, 2}
  MaxRank = 2
  MaxAdded = 3
  Readings = {0, 1, 3}
  MinSub = 2
  WindowCap = 5
  LogTerm <- LogTerms
  MaxReadings = 7
  Scores = {0, 3}
  Slack = 1
  Limit = 2
  MinScores = 2
  Spreads = {1}
  MaxScores = 4
  Observables = {0, 2, 4, 6}
  Half = 1
  NumBins = 3
  MaxObserved = 4
  Points = {0, 48, 96}
  PointWarmUp = 2
  Boundless = Boundless
  MaxPoints = 4
INVARIANTS
  SampleIsLightest
  AnswersAgree
  DamageIsContained
  RecoveryLosesNothing
  ShinglesAreWindows
  SaveIsAtomicAndLasts
  SketchesBracketTruth
  DetectorsKeepToTheirStretch
CHECK_DEADLOCK FALSE
