SPECIFICATION ProgramsSpec
CONSTANTS
  Programs = {"sochi", "dubna"}
  PSize = 3
  HandSize = 1
  MinLevel = 1
  SuitCount = 2
  Deck <- Tiny
  Shuffles <- TinyShuffles
  MisereBid = 3
  StaleDiscards = FALSE
  MaxHands = 2
  Keys = {1, 2, 3}
  Weight <- Same
  Capacity = 2
  Vals = {"short", "long"}
  Big = {"long"}
  Nothing = "nothing"
  MaxPages = 24
  MaxTxn = 4
  MaxChanges = 2
  MaxTrouble = 1
  NewLeast = FALSE
  Stores <- EmptyOrFull
INVARIANT StoreKept
PROPERTIES IsPrefTable HandEnds
CHECK_DEADLOCK FALSE
