CONSTANTS
  Worker = {w1, w2, w3, w4}
  Remover = {r1, r2}
  MaxWorkers = 1
  NoWorker = NoWorker
SPECIFICATION Spec
SYMMETRY PoolSymmetry
CHECK_DEADLOCK FALSE
INVARIANT TypeOK
INVARIANT OverrunBounded
INVARIANT StatsMissesNobody
INVARIANT CountersCoverRemovals
