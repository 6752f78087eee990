INIT DfInit
NEXT DfNext
CHECK_DEADLOCK FALSE
CONSTANTS
  DfMaxPlays = 1
  DfMaxRepeats = 1
INVARIANT
  DfLoops
