SPECIFICATION RSpec
CONSTANTS
  MaxThreads = 1
  Workers = {w1, w2, w3}
  Main = Main
  Free = Free
  MaxCrashes = 0
  MaxKills = 1
  MaxRestarts = 1
SYMMETRY WorkerSymmetry
INVARIANT MaxConcurrent
