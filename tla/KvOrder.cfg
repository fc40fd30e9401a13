SPECIFICATION ProgramsSpec
CONSTANTS
  Programs = {"dubna"}
  PSize = 3
  HandSize = 1
  MinLevel = 1
  SuitCount = 2
  Deck <- Tiny
  Shuffles <- TinyShuffles
  MisereBid = 3
  StaleDiscards = FALSE
  MaxHands = 2
  Keys = {1, 2, 3, 4, 5}
  Weight <- Same
  Capacity = 2
  Vals = {"short"}
  Big = {}
  Nothing = "nothing"
  MaxPages = 16
  MaxTxn = 1
  MaxChanges = 5
  MaxTrouble = 0
  NewLeast = TRUE
  Stores <- Empty
INVARIANT KeysFound
