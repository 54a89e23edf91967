SPECIFICATION GatewaySpec
CONSTANTS
  r1 = r1
  r2 = r2
  Req = {r1, r2}
  Levels = {"none", "read"}
  MaxChunks = 2
  MaxDocument = 2
  MaxFlips = 1
  QueueSize = 1
  MaxDecisions = 2
  MaxFaults = 1
SYMMETRY Symmetry
INVARIANTS RowsInOrder StopNeverWaits AnswersAreRecorded TrailIsComplete ShortIsSaid
CHECK_DEADLOCK FALSE
