CONSTANTS
  Gameweeks = {1}
  Deadline <- MCDeadline
  Decisions = {d1, d2}
  Analyses = {n1}
  Capturers = {k1, k2}
  Capture = Capture
  NoDecision = NoDecision
  NoReport = NoReport
  NoAnalysis = NoAnalysis
  MaxTime = 2
  MaxSaves = 1
SPECIFICATION ArchiveSpec
SYMMETRY Symmetry
INVARIANTS
  CapturesAreProspective
  CapturedCasesStayValid
  OneCapturedCase
CHECK_DEADLOCK FALSE
