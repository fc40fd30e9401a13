SPECIFICATION TableSpec
CONSTANTS
  PSize = 3
  HandSize = 3
  MinLevel = 2
  MaxHands = 2
  Clients = {"a1", "b1"}
  Namesakes = {"a1"}
  Nick <- MCNick
  HostNick <- Vera
  BotNick <- MCBotNick
  Bots = 1
  LateJoins = FALSE
  MaxTries = 1
  MaxActs = 2
  MaxPings = 0
  MaxHostMoves = 0
  MaxSilences = 0
  MaxFlight = 2
INVARIANT AppliedInOrder
PROPERTY KeepsPromise
CHECK_DEADLOCK FALSE
