\* A miner started at genesis whose ingest loop may fall a turn behind:
\* the deferred c.heights send can block mainCycle for ever after Stop.
CONSTANTS
  N = 2
  MaxTurn = 3
  StartHeights = {0}
  InitNextTurns = {1, 2}
  IngestModes = {FALSE}
SPECIFICATION Spec

PROPERTY StopTerminates
CHECK_DEADLOCK FALSE
