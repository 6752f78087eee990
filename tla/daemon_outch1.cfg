SPECIFICATION Spec
CONSTANTS
  MaxThreads = 2
  Workers = {w1, w2, w3}
  Main = Main
  Free = Free
  MaxCrashes = 2
SYMMETRY WorkerSymmetry
INVARIANT NoOutch1
