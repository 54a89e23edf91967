SPECIFICATION Spec
CONSTANTS
  r1 = r1
  r2 = r2
  Req = {r1, r2}
  MaxChunks = 2
  StreamBuffer = 1
  MaxRepeats = 0
  MisSequence = FALSE
SYMMETRY Symmetry
INVARIANTS StreamIntegrity CleanEOF DoneReleases AbandonedIsTold OnlyAWedgeBlocks
CHECK_DEADLOCK FALSE
