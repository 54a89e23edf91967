SPECIFICATION Spec
CONSTANTS
  MaxConns = 2
  MaxIds = 1
  MaxMsgs = 2
  StreamBuffer = 1
INVARIANTS ClosedOnce BridgeIntegrity NobodyWaitsOnABridge
CHECK_DEADLOCK FALSE
