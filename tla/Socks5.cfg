\* Socks5Proxy::Connect, and a plain client of a Socket.
CONSTANTS
  MaxCalls = 4
  MaxSent = 3
SPECIFICATION Spec
CHECK_DEADLOCK FALSE
INVARIANTS
  TypeOK
  StreamIntact
  EstablishedMeansGranted
  HandshakeInOrder
PROPERTY ConnectReturns
