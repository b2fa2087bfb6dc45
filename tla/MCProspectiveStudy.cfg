CONSTANTS
  Gameweeks = {1, 2}
  Deadline <- MCDeadline
  Decisions = {d1, d2}
  Analyses = {n1}
  Capturers = {k1}
  Capture = Capture
  NoDecision = NoDecision
  NoReport = NoReport
  NoAnalysis = NoAnalysis
  MaxTime = 1
  MaxSaves = 2
  Evaluators = {e1, e2}
  Outputs = {o1}
  NoCase = NoCase
  NoOutput = NoOutput
SPECIFICATION Spec
SYMMETRY Symmetry
INVARIANTS
  TypeOK
  OneEvaluation
  OnePrimary
  PrimariesAreProspective
  ReportsShowLockedPrimaries
PROPERTIES
  ImplementsPrimaryRegister
