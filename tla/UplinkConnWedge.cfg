SPECIFICATION FairSpec
CONSTANTS
  r1 = r1
  Req = {r1}
  MaxChunks = 3
  StreamBuffer = 1
  MaxRepeats = 0
  MisSequence = FALSE
PROPERTY HandlerAlwaysEnds
CHECK_DEADLOCK FALSE
