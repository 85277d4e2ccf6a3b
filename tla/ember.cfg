SPECIFICATION FairSpec
CONSTANTS
  None = None
  Torn = Torn
  b1 = b1
  b2 = b2
  w1 = w1
  w2 = w2
  BatchCandidates <- Batches
  WorkerCandidates <- Workers
  DefaultBatch = b2
  DefaultWorkers = w1
  Objective = "efficiency"
  Rates <- TrialRates
  Powers <- TrialPowers
  MaxShares = 2
  PipeSize = 2
INVARIANTS TypeOK ShownIsCounted MinerStopsWithParent
PROPERTIES ShownGrows BestIsSaved TuneEnds GuiEnds
