SPECIFICATION FairTable
CONSTANTS
  PSize = 3
  HandSize = 3
  MinLevel = 2
  MaxHands = 2
  Clients = {"a1"}
  Namesakes = {"a1"}
  Nick <- MCNick
  HostNick <- Vera
  BotNick <- MCBotNick
  Bots = 1
  LateJoins = FALSE
  MaxTries = 1
  MaxActs = 1
  MaxPings = 1
  MaxHostMoves = 1
  MaxSilences = 1
  MaxFlight = 1
PROPERTIES ActionsLand TableSettles
CHECK_DEADLOCK FALSE
