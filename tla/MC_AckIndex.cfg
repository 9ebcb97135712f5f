\* Two peers, query TTL of one turn, five turns, three queries.
CONSTANTS
  N = 2
  Q = 1
  MaxTurn = 5
  Queries = {q1, q2, q3}
SPECIFICATION Spec
INVARIANTS
  TypeOK
  AckInChainOnce
