SPECIFICATION SochiSpec
CONSTANTS
  PSize = 3
  HandSize = 3
  MinLevel = 2
  MaxHands = 2
  Clients = {"a1", "a2"}
  Namesakes = {"a1", "a2"}
  Nick <- MCNick
  HostNick <- Vera
  BotNick <- MCBotNick
  Bots = 0
  LateJoins = FALSE
  MaxTries = 2
  MaxActs = 1
  MaxPings = 0
  MaxHostMoves = 0
  MaxSilences = 0
  MaxFlight = 1
INVARIANTS AckMeansSeen DroppedWasApplied OneSeatEach PoolsBounded ZeroSum HelpIsFair
CHECK_DEADLOCK FALSE
