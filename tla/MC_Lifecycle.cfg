\* One miner of three started at genesis or two turns late, whatever the
\* runtime's first turn, with processBlocks keeping up with the turns or not.
CONSTANTS
  N = 3
  MaxTurn = 5
  StartHeights = {0, 2}
  InitNextTurns = {1, 2}
  IngestModes = {TRUE, FALSE}
SPECIFICATION Spec
INVARIANT TypeOK
PROPERTY StopTerminatesKeepingUp MainCycleNotBlocked
\* The program really stops in the Stop hang that MC_StopHang reports.
CHECK_DEADLOCK FALSE
