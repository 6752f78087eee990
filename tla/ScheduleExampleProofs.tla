------------------------ MODULE ScheduleExampleProofs ------------------------
(***************************************************************************)
(* The example daemon loses no count and keeps its limit but for the jobs  *)
(* in flight, for every limit and number of slots, process ids and         *)
(* crashes.                                                                *)
(***************************************************************************)
EXTENDS ScheduleExample, ScheduleDaemonProofs

-----------------------------------------------------------------------------
(* The inductive invariant.                                                *)

\* The types; only a worker that lives has counted its run, and getNext() keeps
\* its decision no longer than until it returns.
ETypes ==
  /\ num \in Nat /\ runs \in Nat
  /\ wnum \in [Workers -> Nat]
  /\ answer \in {"ask", "go", "stop"}
  /\ answer # "ask" => mpc = "getnext"
  /\ counted \subseteq {w \in Workers : Live(w)}

\* A run() between its lock() and unlock() holds the value of num.
HookInv ==
  /\ num = runs
  /\ \A w \in Workers : wpc[w] = "runhook" =>
       w \notin counted /\ (w \notin gone => wnum[w] = num)

\* The jobs that run and have not been counted yet.
InFlight == Running \ counted

\* The daemon has decided to fork one more.
Decided == answer = "go" \/ mpc = "fork"

\* What is counted, in flight or decided stays within the limit and the slots.
LimitInv ==
  num + Cardinality(InFlight) + (IF Decided THEN 1 ELSE 0)
    <= Limit + MaxThreads

ExampleInv == IInv /\ restarts = 0 /\ ETypes /\ HookInv /\ LimitInv

-----------------------------------------------------------------------------
(* The steps.                                                              *)

\* Every step of the example is one of the daemon.
LEMMA DaemonSteps == [ENext]_evars => [Next]_vars
BY DEF ENext, EMainHookLock, EMainHookUnlock, EMainGetNext, EMainOther,
       EWorkerHookLock, EWorkerHookUnlock, EWorkerFinish, EWorkerOther, evars,
       Next, MainNext, WorkerNext

\* The jobs in flight are finitely many, and run in slots of their own.
LEMMA FlightFinite ==
  ASSUME IInv, restarts = 0
  PROVE  /\ IsFiniteSet(InFlight) /\ Cardinality(InFlight) \in Nat
         /\ mpc \in MainOwner => Cardinality(InFlight) + 1 <= MaxThreads
<1> DEFINE f == [w \in InFlight |-> wslot[w]]
<1>1. f \in [InFlight -> Slots] /\ \A v, w \in InFlight : f[v] = f[w] => v = w
  BY DEF IInv, SlotInv, InFlight, Running, WorkerOwner
<1>2. f \in Injection(InFlight, Slots)
  BY <1>1 DEF Injection, IsInjective
<1>3. IsFiniteSet(InFlight) /\ Cardinality(InFlight) \in Nat
  BY <1>2, SlotsCardinality, FS_Injection, FS_CardinalityType
<1>4. ASSUME mpc \in MainOwner PROVE Cardinality(InFlight) + 1 <= MaxThreads
  <2>1. gone = {}
    BY <1>4 DEF IInv, LockInv, MainOwner
  <2>2. mslot \in Slots /\ \A w \in InFlight : f[w] \in Slots \ {mslot}
    BY <1>1, <1>4, <2>1 DEF IInv, SlotInv, InFlight, Running, WorkerOwner
  <2>3. f \in Injection(InFlight, Slots \ {mslot})
    BY <1>1, <2>2 DEF Injection, IsInjective
  <2>4. /\ IsFiniteSet(Slots \ {mslot})
        /\ Cardinality(Slots \ {mslot}) = MaxThreads - 1
    BY <2>2, SlotsCardinality, FS_RemoveElement
  <2>5. Cardinality(InFlight) <= MaxThreads - 1
    BY <2>3, <2>4, FS_Injection
  <2> QED
    BY <1>3, <2>5, DaemonAssumption
<1> QED
  BY <1>3, <1>4

\* A step that counts nothing, decides nothing and starts nothing.
LEMMA LimitQuiet ==
  ASSUME ExampleInv, IInv', restarts' = 0, UNCHANGED num,
         InFlight' \subseteq InFlight, Decided' => Decided
  PROVE  LimitInv'
<1>1. IInv /\ restarts = 0
  BY DEF ExampleInv
<1>2. /\ Cardinality(InFlight) \in Nat /\ Cardinality(InFlight') \in Nat
      /\ Cardinality(InFlight') <= Cardinality(InFlight)
  BY <1>1, FlightFinite, FS_Subset, FS_CardinalityType
<1> QED
  BY <1>2, ExampleAssumption, DaemonAssumption DEF ExampleInv, ETypes, LimitInv

\* The daemon's steps outside getNext().
LEMMA OtherMainStep ==
  ASSUME ExampleInv, IInv', restarts' = 0, EMainOther
  PROVE  ETypes' /\ HookInv' /\ LimitInv'
<1>1. /\ IInv /\ restarts = 0 /\ ETypes /\ HookInv /\ LimitInv
      /\ Types
  BY DEF ExampleInv, IInv
<1>2. UNCHANGED <<num, answer, wnum, counted, runs>> /\ answer = "ask"
  BY <1>1 DEF EMainOther, ETypes
<1>3. CASE MainFork
  <2>1. PICK w \in Workers :
          wpc[w] = "none" /\ wpc' = [wpc EXCEPT ![w] = "run"]
    BY <1>3 DEF MainFork
  <2>2. mpc = "fork" /\ mpc' = "lock" /\ UNCHANGED gone
    BY <1>3 DEF MainFork
  <2>3. w \notin counted /\ w \notin InFlight /\ InFlight' = InFlight \cup {w}
    BY <1>1, <1>2, <2>1 DEF ETypes, Live, InFlight, Running, Types
  <2>4. Cardinality(InFlight') = Cardinality(InFlight) + 1
    BY <1>1, <2>3, FlightFinite, FS_AddElement
  <2>5. LimitInv'
    BY <1>1, <1>2, <2>2, <2>4, FlightFinite, ExampleAssumption,
       DaemonAssumption DEF ETypes, LimitInv, Decided
  <2>6. ETypes'
    BY <1>1, <1>2, <2>1 DEF ETypes, Live, Types
  <2>7. HookInv'
    BY <1>1, <1>2, <2>1, <2>2 DEF HookInv, Types
  <2> QED
    BY <2>5, <2>6, <2>7
<1>4. ASSUME ~MainFork
      PROVE  /\ \A w \in Workers :
                  wpc'[w] = wpc[w] \/ (wpc[w] = "zombie" /\ wpc'[w] = "none")
             /\ gone \subseteq gone' /\ mpc' # "fork"
             /\ wpc' \in [Workers -> WorkerSteps]
  <2>1. mpc # "getnext" /\ mpc # "hook" /\ MainNext /\ Types'
    BY DEF EMainOther, IInv
  <2>2. CASE MainReap \/ MainWait
    BY <1>1, <2>1, <2>2 DEF MainReap, MainWait, Zombies, Children, Types
  <2>3. CASE MainRecheck \/ MainCountUnlocked \/ MainPostrun
    BY <1>1, <2>1, <2>3 DEF MainRecheck, MainCountUnlocked, MainPostrun,
       DaemonExit, AbandonWorkers, Types, LockInv, IInv, worker
  <2>4. CASE ~ (\/ MainReap \/ MainWait \/ MainRecheck
               \/ MainCountUnlocked \/ MainPostrun)
    BY <1>1, <1>4, <2>1, <2>4
    DEF MainNext, MainLock, MainCheckFree, MainCheckFull, MainRelock,
        MainOutch1, MainRequest, MainTake, MainInc, MainCount, MainHookLock,
        MainHookUnlock, MainGetNext, MainIdleLock, MainIdleRelease,
        MainIdlePut, MainIdleDec, MainIdleCount, MainForkFails, AcquireAt,
        worker, Types
  <2> QED
    BY <2>2, <2>3, <2>4
<1>5. CASE ~MainFork
  <2>1. InFlight' \subseteq InFlight
    BY <1>2, <1>4, <1>5 DEF InFlight, Running
  <2>2. LimitInv'
    BY <1>2, <1>4, <1>5, <2>1, LimitQuiet DEF Decided
  <2>3. HookInv'
    BY <1>1, <1>2, <1>4, <1>5 DEF HookInv
  <2>4. ETypes'
    BY <1>1, <1>2, <1>4, <1>5 DEF ETypes, Live
  <2> QED
    BY <2>2, <2>3, <2>4
<1> QED
  BY <1>3, <1>5

\* getNext() says go only below the limit, while the slot of its job is taken.
LEMMA HookMainStep ==
  ASSUME ExampleInv, IInv', restarts' = 0,
         EMainHookLock \/ EMainHookUnlock \/ EMainGetNext
  PROVE  ETypes' /\ HookInv' /\ LimitInv'
<1>1. /\ IInv /\ restarts = 0 /\ ETypes /\ HookInv /\ LimitInv
      /\ Types
  BY DEF ExampleInv, IInv
<1>2. UNCHANGED <<num, wnum, counted, runs, worker>> /\ mpc \in MainOwner
  BY DEF EMainHookLock, EMainHookUnlock, EMainGetNext, MainHookLock,
         AcquireAt, MainHookUnlock, MainGetNext, MainOwner
<1>3. HookInv' /\ InFlight' = InFlight
  BY <1>1, <1>2 DEF HookInv, InFlight, Running, worker
<1>4. ETypes'
  BY <1>1, <1>2 DEF ETypes, Live, worker, EMainHookLock, EMainHookUnlock,
     EMainGetNext, MainHookLock, AcquireAt, MainHookUnlock, MainGetNext
<1>5. CASE EMainHookLock \/ EMainGetNext
  <2>1. Decided' => Decided
    BY <1>1, <1>5 DEF Decided, ETypes, EMainHookLock, EMainGetNext,
       MainHookLock, AcquireAt, MainGetNext
  <2> QED
    BY <1>2, <1>3, <1>4, <2>1, LimitQuiet
<1>6. CASE EMainHookUnlock
  <2>1. Cardinality(InFlight) \in Nat
          /\ Cardinality(InFlight) + 1 <= MaxThreads
    BY <1>1, <1>2, FlightFinite
  <2>2. CASE num <= Limit
    BY <1>1, <1>2, <1>3, <1>4, <2>1, <2>2, ExampleAssumption, DaemonAssumption
    DEF ETypes, LimitInv
  <2>3. CASE ~(num <= Limit)
    <3>1. ~Decided'
      BY <1>1, <1>6, <2>3, ExampleAssumption
      DEF ETypes, Decided, EMainHookUnlock, MainHookUnlock
    <3> QED
      BY <1>2, <1>3, <1>4, <3>1, LimitQuiet
  <2> QED
    BY <2>2, <2>3
<1> QED
  BY <1>5, <1>6

\* A run() counts itself once, from the value it read under the lock.
LEMMA WorkerStep ==
  ASSUME ExampleInv, IInv', restarts' = 0, NEW w \in Workers,
         \/ EWorkerHookLock(w) \/ EWorkerHookUnlock(w) \/ EWorkerFinish(w)
         \/ EWorkerOther(w)
  PROVE  ETypes' /\ HookInv' /\ LimitInv'
<1>1. /\ IInv /\ restarts = 0 /\ ETypes /\ HookInv /\ LimitInv
      /\ Types /\ LockInv
  BY DEF ExampleInv, IInv
<1>2. CASE EWorkerHookLock(w)
  <2>1. /\ wpc[w] = "run" /\ wpc' = [wpc EXCEPT ![w] = "runhook"]
        /\ UNCHANGED <<mpc, gone, num, answer, counted, runs>>
        /\ wnum' = [wnum EXCEPT ![w] = num] /\ w \notin counted
    BY <1>2 DEF EWorkerHookLock, WorkerHookLock, WorkerAcquires, WorkerMoves,
       daemon
  <2>2. InFlight' = InFlight
    BY <1>1, <2>1 DEF InFlight, Running, Types
  <2>3. LimitInv'
    BY <2>1, <2>2, LimitQuiet DEF Decided
  <2>4. ETypes'
    BY <1>1, <2>1 DEF ETypes, Live, Types
  <2>5. HookInv'
    BY <1>1, <2>1 DEF HookInv, ETypes, Types
  <2> QED
    BY <2>3, <2>4, <2>5
<1>3. CASE EWorkerHookUnlock(w)
  <2>1. /\ wpc[w] = "runhook" /\ wpc' = [wpc EXCEPT ![w] = "run"]
        /\ UNCHANGED <<mpc, gone, answer, wnum>> /\ w \notin gone
        /\ num' = wnum[w] + 1 /\ counted' = counted \cup {w}
        /\ runs' = runs + 1
    BY <1>3 DEF EWorkerHookUnlock, WorkerHookUnlock, WorkerMoves, daemon
  <2>2. num' = num + 1 /\ w \notin counted
    BY <1>1, <2>1 DEF HookInv
  <2>3. w \in InFlight /\ InFlight' = InFlight \ {w}
    BY <1>1, <2>1, <2>2 DEF InFlight, Running, Types
  <2>4. Cardinality(InFlight') = Cardinality(InFlight) - 1
    BY <1>1, <2>3, FlightFinite, FS_RemoveElement
  <2>5. LimitInv'
    BY <1>1, <2>1, <2>2, <2>4, FlightFinite, ExampleAssumption,
       DaemonAssumption DEF ETypes, LimitInv, Decided
  <2>6. ETypes'
    BY <1>1, <2>1, <2>2 DEF ETypes, Live, Types
  <2>7. \A v \in Workers : wpc[v] = "runhook" /\ v \notin gone => v = w
    BY <1>1, <2>1 DEF LockInv, WorkerCritical
  <2>8. HookInv'
    BY <1>1, <2>1, <2>2, <2>7 DEF HookInv, Types
  <2> QED
    BY <2>5, <2>6, <2>8
<1>4. CASE EWorkerFinish(w)
  <2>1. /\ wpc[w] = "run" /\ wpc' = [wpc EXCEPT ![w] = "lock"]
        /\ UNCHANGED <<mpc, gone, num, answer, wnum, counted, runs>>
        /\ w \in counted
    BY <1>4 DEF EWorkerFinish, WorkerFinish, WorkerMoves, daemon
  <2>2. InFlight' = InFlight
    BY <1>1, <2>1 DEF InFlight, Running, Types
  <2>3. LimitInv'
    BY <2>1, <2>2, LimitQuiet DEF Decided
  <2>4. ETypes' /\ HookInv'
    BY <1>1, <2>1 DEF ETypes, HookInv, Live, Types
  <2> QED
    BY <2>3, <2>4
<1>5. CASE EWorkerOther(w)
  <2>1. PICK to \in {"release", "put", "dec", "count", "exit", "none",
                 "zombie"} :
          wpc' = [wpc EXCEPT ![w] = to]
    BY <1>5 DEF EWorkerOther, WorkerLock, WorkerAcquires, WorkerRelease,
       WorkerPut, WorkerDec, WorkerCount, WorkerExit, WorkerFails, WorkerCrash, WorkerMoves, Terminate
  <2>2. UNCHANGED mpc /\ \A v \in Workers \ {w} : v \in gone' <=> v \in gone
    BY <1>5 DEF EWorkerOther, WorkerLock, WorkerAcquires, WorkerRelease,
       WorkerPut, WorkerDec, WorkerCount, WorkerExit, WorkerFails, WorkerCrash, WorkerMoves,
       Terminate, daemon
  <2>3. UNCHANGED <<num, answer, runs>>
    BY <1>5 DEF EWorkerOther
  <2>4. CASE to \in {"none", "zombie"}
    <3>1. /\ counted' = counted \ {w} /\ wnum' = [wnum EXCEPT ![w] = 0]
      BY <1>1, <1>5, <2>1, <2>4 DEF EWorkerOther, Types
    <3>2. InFlight' \subseteq InFlight
      BY <1>1, <2>1, <2>4, <3>1 DEF InFlight, Running, Types
    <3>3. LimitInv'
      BY <2>2, <2>3, <3>2, LimitQuiet DEF Decided
    <3>4. ETypes'
      BY <1>1, <2>1, <2>2, <2>3, <2>4, <3>1 DEF ETypes, Live, Types
    <3>5. HookInv'
      BY <1>1, <2>1, <2>2, <2>3, <2>4, <3>1 DEF HookInv, ETypes, Types
    <3> QED
      BY <3>3, <3>4, <3>5
  <2>5. CASE to \notin {"none", "zombie"}
    <3>1. UNCHANGED <<counted, wnum>> /\ Live(w)
      BY <1>1, <1>5, <2>1, <2>5 DEF EWorkerOther, Types, Live, WorkerLock,
         WorkerAcquires, WorkerRelease, WorkerPut, WorkerDec, WorkerCount,
         WorkerExit, WorkerFails,
         WorkerCrash, WorkerMoves, Terminate
    <3>2. InFlight' \subseteq InFlight
      BY <1>1, <2>1, <2>5, <3>1 DEF InFlight, Running, Types
    <3>3. LimitInv'
      BY <2>2, <2>3, <3>2, LimitQuiet DEF Decided
    <3>4. ETypes'
      BY <1>1, <2>1, <2>2, <2>3, <2>5, <3>1 DEF ETypes, Live, Types
    <3>5. HookInv'
      BY <1>1, <2>1, <2>2, <2>3, <2>5, <3>1 DEF HookInv, ETypes, Types
    <3> QED
      BY <3>3, <3>4, <3>5
  <2> QED
    BY <2>4, <2>5
<1> QED
  BY <1>2, <1>3, <1>4, <1>5

\* Every step keeps the invariant.
LEMMA ExampleStep ==
  ASSUME ExampleInv, [ENext]_evars
  PROVE  ExampleInv'
<1>1. IInv' /\ restarts' = 0
  BY DaemonSteps, NextInv, OneLife DEF ExampleInv
<1>2. CASE EMainOther
  BY <1>1, <1>2, OtherMainStep DEF ExampleInv
<1>3. CASE EMainHookLock \/ EMainHookUnlock \/ EMainGetNext
  BY <1>1, <1>3, HookMainStep DEF ExampleInv
<1>4. ASSUME NEW w \in Workers,
             \/ EWorkerHookLock(w) \/ EWorkerHookUnlock(w)
             \/ EWorkerFinish(w) \/ EWorkerOther(w)
      PROVE  ExampleInv'
  BY <1>1, <1>4, WorkerStep DEF ExampleInv
<1>5. CASE UNCHANGED evars
  <2>1. ETypes' /\ HookInv'
    BY <1>5 DEF ExampleInv, ETypes, HookInv, Live, evars, vars
  <2>2. LimitInv'
    BY <1>5 DEF ExampleInv, LimitInv, Decided, InFlight, Running, evars, vars
  <2> QED
    BY <1>1, <2>1, <2>2 DEF ExampleInv
<1> QED
  BY <1>2, <1>3, <1>4, <1>5 DEF ENext

-----------------------------------------------------------------------------
(* The theorems.                                                           *)

\* Every state of the example satisfies the invariant.
THEOREM ExampleInvariance == ESpec => []ExampleInv
<1>1. EInit => ExampleInv
  <2> SUFFICES ASSUME EInit PROVE ExampleInv
    OBVIOUS
  <2>1. IInv /\ restarts = 0
    BY InitInv DEF EInit, Init
  <2>2. ETypes /\ HookInv
    BY DEF EInit, Init, ETypes, HookInv
  <2>3. InFlight = {} /\ ~Decided
    BY DEF EInit, Init, InFlight, Running, Decided
  <2>4. LimitInv
    BY <2>3, FS_EmptySet, ExampleAssumption, DaemonAssumption
    DEF EInit, LimitInv
  <2> QED
    BY <2>1, <2>2, <2>4 DEF ExampleInv
<1>2. ExampleInv /\ [ENext]_evars => ExampleInv'
  BY ExampleStep
<1> QED
  BY <1>1, <1>2, PTL DEF ESpec

\* The shared counter is the number of run() calls that passed their critical
\* section: the semaphore loses no update, even across crashes.
THEOREM NoUpdateIsLost == ESpec => []CountsEveryRun
<1>1. ExampleInv => CountsEveryRun
  BY DEF ExampleInv, HookInv, CountsEveryRun
<1> QED
  BY <1>1, ExampleInvariance, PTL

\* getNext() overshoots its limit by at most max_threads jobs.
THEOREM OvershootIsBounded == ESpec => []OvershootBounded
<1>1. ExampleInv => OvershootBounded
  <2> SUFFICES ASSUME ExampleInv PROVE OvershootBounded
    OBVIOUS
  <2>1. {w \in Running : w \notin counted} = InFlight
    BY DEF InFlight
  <2>2. Cardinality(InFlight) \in Nat
    BY FlightFinite DEF ExampleInv
  <2> QED
    BY <2>1, <2>2, ExampleAssumption, DaemonAssumption
    DEF ExampleInv, ETypes, LimitInv, OvershootBounded
<1> QED
  BY <1>1, ExampleInvariance, PTL
=============================================================================
