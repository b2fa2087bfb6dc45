CONSTANTS
  archived = archived
  metered = metered
  Requests = {archived, metered}
  Metered = {metered}
  Lifetime <- MCLifetime
  Forever = Forever
  NoEntry = NoEntry
  NoRequest = NoRequest
  Threads = {t1, t2}
  Budget = 2
  MaxClock = 1
  MaxVersion = 1
  MaxCalls = 3
SPECIFICATION Spec
SYMMETRY Symmetry
INVARIANTS
  TypeOK
  EvidenceFirst
  DailyBudget
  NeverBackdated
  HitsWithinLifetime
PROPERTIES
  OlderOnlyOverOverlapping
