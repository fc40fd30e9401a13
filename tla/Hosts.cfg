SPECIFICATION Spec
CONSTANTS
  Capacity = 3
  Visible = 1
  MaxShapes = 1
  Built <- Interfaces
  Texts <- SomeTexts
  Defined = {"f", "g"}
  Names = {"missing"}
  MaxText = 5
  MaxWidgets = 6
  MaxCalls = 1
  MaxInputs = 3
  Hosts = {"windows", "connection", "machines"}
  Backends = {"openssl", "schannel"}
  SocketRoom = 3
  MaxSend <- ClientTwo
  SeqRange = 24
  Mss = 2
  Offered = 2
  MaxTries = 1
  MaxConns = 2
  MaxBytes = 2
  MaxFaults = 1
  MaxWire = 1
  Denied = {"client"}
  EarlyClose = FALSE
INVARIANTS
  ConversationSound
  StreamKept
  WindowsSound
PROPERTY
  EventsKept
CHECK_DEADLOCK FALSE
