SPECIFICATION ESpec
CONSTANTS
  MaxThreads = 2
  Workers = {w1, w2, w3}
  Main = Main
  Free = Free
  MaxCrashes = 1
  Limit = 1
SYMMETRY WorkerSymmetry
INVARIANTS
  CountsEveryRun
  OvershootBounded
