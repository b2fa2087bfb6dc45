CONSTANTS
  Hold = hold
  swap = swap
  Packages = {hold, swap}
  Mismatch = mismatch
  Window = w
  Clients = {w, other}
  Contexts = {1, 2}
  MaxContext = 2
  Legal <- MCLegal
  NoResult = NoResult
  NoOperation = NoOperation
  MaxLoads = 2
  MaxOperations = 2
  MaxCommands = 2
  MaxActivity = 5
  keeper = keeper
  spare = spare
  back1 = back1
  back2 = back2
  new1 = new1
  new2 = new2
  red = red
  blue = blue
  gk = gk
  def = def
  Players <- MCPlayers
  Clubs = {red, blue}
  Positions = {gk, def}
  Club <- MCClub
  Position <- MCPosition
  Quota <- MCQuota
  ClubLimit = 2
  MaxFree = 5
  Granted = 1
  NoQuote = NoQuote
  Account <- MCAccount
  Projected <- MCProjected
  Outs <- MCOuts
  Ins <- MCIns
SPECIFICATION Spec
INVARIANTS
  TypeOK
  ValidatedPackage
  ShownIsCurrent
  BusyIsTimed
  SavedOnce
  ShownIsPlayable
