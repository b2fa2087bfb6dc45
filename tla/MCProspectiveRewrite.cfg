CONSTANTS
  Gameweeks = {1}
  Deadline <- MCDeadline
  Decisions = {d1}
  Analyses = {n1}
  Capturers = {k1}
  Capture = Capture
  NoDecision = NoDecision
  NoReport = NoReport
  NoAnalysis = NoAnalysis
  MaxTime = 1
  MaxSaves = 2
  Evaluators = {e1}
  Outputs = {o1}
  NoCase = NoCase
  NoOutput = NoOutput
SPECIFICATION Spec
INVARIANT
  LockedEvidenceStaysValid
