SPECIFICATION RSpec
CONSTANTS
  MaxThreads = 2
  Workers = {w1, w2, w3, w4}
  Main = Main
  Free = Free
  MaxCrashes = 2
  MaxKills = 1
  MaxRestarts = 1
SYMMETRY WorkerSymmetry
INVARIANTS
  CleanRestart
  JobsBesideOrphans
