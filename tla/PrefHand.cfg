SPECIFICATION ProgramsSpec
CONSTANTS
  Programs = {"sochi"}
  PSize = 2
  HandSize = 3
  MinLevel = 2
  SuitCount = 2
  Deck <- Odd
  Shuffles <- OddShuffles
  MisereBid = 3
  StaleDiscards = FALSE
  MaxHands = 1
  Keys = {1}
  Weight <- Same
  Capacity = 1
  Vals = {"short"}
  Big = {}
  Nothing = "nothing"
  MaxPages = 6
  MaxTxn = 0
  MaxChanges = 0
  MaxTrouble = 0
  NewLeast = FALSE
  Stores <- Empty
INVARIANTS HandsMatchTable MoverCanMove
PROPERTY IsPrefTable
CHECK_DEADLOCK FALSE
