SPECIFICATION FairSpec
CONSTANTS
  MaxThreads = 2
  Workers = {w1, w2, w3}
  Main = Main
  Free = Free
  MaxCrashes = 2
INVARIANTS
  TypeOK
  SlotsExclusive
  MaxConcurrent
  RequestSucceeds
  CrashCostsOneSlot
  Outch1NeedsCrashes
PROPERTIES
  ImplementsPool
  DaemonResumes
  SlotsRecycled
