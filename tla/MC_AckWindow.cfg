\* Two peers, query TTL of one turn, four turns, two queries.
CONSTANTS
  N = 2
  Q = 1
  MaxTurn = 4
  Queries = {q1, q2}
SPECIFICATION Spec
INVARIANTS
  AcksWithinWindow
