SPECIFICATION FairSpec
CONSTANTS
  r1 = r1
  Req = {r1}
  MaxChunks = 3
  StreamBuffer = 1
  MaxRepeats = 4
  MisSequence = TRUE
PROPERTIES ImplementsContract EveryoneReleased AbandonedWorkStops HandlerEnds
CHECK_DEADLOCK FALSE
