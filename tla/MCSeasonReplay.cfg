CONSTANTS
  keeper = keeper
  spare = spare
  back1 = back1
  back2 = back2
  new1 = new1
  new2 = new2
  red = red
  blue = blue
  gk = gk
  def = def
  Players <- MCPlayers
  Clubs = {red, blue}
  Positions = {gk, def}
  Club <- MCClub
  Position <- MCPosition
  Quota <- MCQuota
  ClubLimit = 2
  MaxFree = 2
  Granted = 1
  NoQuote = NoQuote
  Starts <- MCStarts
  StartChips <- MCStartChips
  Wildcard = wildcard
  FreeHit = free_hit
  PlayerChips = {bench_boost}
  NoChip = none
  FirstHalf = 3
  Retaining = {wildcard}
  ResetTo = 1
  PriceLists <- MCPriceLists
  Listed <- MCListed
  MaxTransfers = 2
  LastGameweek = 5
SPECIFICATION Spec
CHECK_DEADLOCK FALSE
INVARIANTS
  TypeOK
  AccountsAreLawful
  ChipsWithinRules
PROPERTY
  OnlyPricesMakeMoney
