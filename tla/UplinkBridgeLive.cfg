SPECIFICATION FairSpec
CONSTANTS
  MaxConns = 1
  MaxIds = 1
  MaxMsgs = 2
  StreamBuffer = 1
PROPERTIES OpenReturns BridgeDiesWithUplink
CHECK_DEADLOCK FALSE
