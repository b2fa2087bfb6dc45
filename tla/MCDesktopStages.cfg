CONSTANTS
  Accounts = {a1, a2}
  Bundles = {b1}
  NoBundle = NoBundle
  NoReport = NoReport
  NoRun = NoRun
  MaxDecisions = 2
  MaxChips = 2
  MaxAnalyses = 1
  IoFaults = FALSE
SPECIFICATION FairSpec
INVARIANTS
  DecisionStageOwnsWorker
PROPERTIES
  RunningAnalysisEnds
