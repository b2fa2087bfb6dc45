CONSTANTS
  Accounts = {a1}
  Bundles = {b1, b2}
  NoBundle = NoBundle
  NoReport = NoReport
  NoRun = NoRun
  MaxDecisions = 2
  MaxChips = 2
  MaxAnalyses = 2
  IoFaults = TRUE
SPECIFICATION Spec
SYMMETRY Symmetry
INVARIANTS
  TypeOK
  OneWorker
  RunFlagsFollowWorkers
  CancelFileIsOfThisRun
  HistoricalShowsItsManifest
  SavedReportsBelongTogether
PROPERTIES
  CompleteAnalysisImmutable
