------------------------ MODULE ScheduleDaemonProofs ------------------------
(***************************************************************************)
(* Safety of one life of the schedule daemon, what crashes cost it and     *)
(* that it implements SlotPool, for every number of slots, process ids and *)
(* crashes; then what holds over several lives, for every number of kills  *)
(* and restarts.  The invariant of one life allows for workers of an       *)
(* earlier one that _postrun() cut off, so that it serves the lives that   *)
(* follow.  Costs and refinement both follow from what each step does to   *)
(* the holders of slots.                                                   *)
(***************************************************************************)
EXTENDS ScheduleRestart, FiniteSetTheorems, TLAPS

-----------------------------------------------------------------------------
(* The inductive invariant.                                                *)

\* Where a process is between lock() and unlock().
MainCritical   == {"reap", "check", "request", "take", "inc", "count", "hook",
                   "idlerelease", "idleput", "idledec", "idlecount"}
WorkerCritical == {"runhook", "release", "put", "dec", "count"}

\* Where a process still has to call releaseSlot().
MainOwner   == {"inc", "count", "getnext", "hook", "fork", "idlelock",
                "idlerelease", "idleput"}
WorkerOwner == {"run", "runhook", "lock", "release", "put"}

\* The types, without the bounds on the counter.
Types ==
  /\ mutex \in Workers \cup {Main, Free}
  /\ threads \in Int
  /\ slots \in [Slots -> BOOLEAN]
  /\ table \in [Procs -> [Slots -> BOOLEAN]]
  /\ count \in [Procs -> Int]
  /\ mpc \in MainSteps
  /\ mslot \in Slots \cup {NoSlot}
  /\ wpc \in [Workers -> WorkerSteps]
  /\ wslot \in [Workers -> Slots \cup {NoSlot}]
  /\ orphans \subseteq Workers /\ gone \subseteq orphans
  /\ crashes \in 0 .. MaxCrashes
  /\ kills \in Nat /\ restarts \in Nat /\ inherited \in Nat

\* The semaphore is held exactly by the process between lock() and unlock().
\* A worker without its parent is one that _postrun() cut off, and a daemon that
\* has ended, or found no child to wait for, leaves no other; in the first life
\* there are none before it ends.
LockInv ==
  /\ mutex = Main <=> mpc \in MainCritical
  /\ \A w \in Workers :
       mutex = w <=> (wpc[w] \in WorkerCritical /\ w \notin gone)
  /\ orphans = gone
  /\ \A w \in gone : wpc[w] \notin {"none", "zombie"}
  /\ mpc \in {"recheck", "stopped", "dead"} =>
       \A w \in Workers : wpc[w] # "none" => w \in gone
  /\ restarts = 0 /\ mpc # "stopped" => gone = {}

\* Owners have slots of their own, and these are marked taken; a worker that
\* was cut off owns a slot of the table that was removed with its life.
SlotInv ==
  /\ \A w \in Workers : wpc[w] \in WorkerOwner =>
       /\ wslot[w] \in Slots
       /\ w \notin gone => slots[wslot[w]]
  /\ \A v, w \in Workers :
       wpc[v] \in WorkerOwner /\ wpc[w] \in WorkerOwner /\ wslot[v] = wslot[w]
       /\ (restarts = 0 \/ (v \notin gone /\ w \notin gone))
         => v = w
  /\ mpc \in MainOwner =>
       /\ mslot \in Slots
       /\ slots[mslot]
       /\ \A w \in Workers :
            wpc[w] \in WorkerOwner /\ w \notin gone => wslot[w] # mslot

\* What a process has read and is about to write back is what is there: nobody
\* else has written in between.
CopyInv ==
  /\ mpc \in {"take", "idleput"} => table[Main] = slots
  /\ mpc \in {"count", "idlecount"} => count[Main] = threads
  /\ \A w \in Workers : w \notin gone =>
       /\ wpc[w] = "put" => table[w] = slots
       /\ wpc[w] = "count" => count[w] = threads

\* Between releaseSlot() and decThreads() a slot is free but still counted.
AtDec ==
  \/ mpc \in {"idledec", "idlecount"}
  \/ \E w \in Workers : wpc[w] \in {"dec", "count"} /\ w \notin gone

\* Between requestSlot() and incThreads() one is taken and not counted yet.
AtInc == mpc \in {"inc", "count"}

\* The counter covers the taken slots, so a counter below max_threads means
\* that there is a free slot.
CountInv ==
  /\ threads <= MaxThreads
  /\ mpc \in {"request", "take", "inc", "count"} => threads < MaxThreads
  /\ Cardinality(TakenSlots) + (IF AtDec THEN 1 ELSE 0)
       <= threads + (IF AtInc THEN 1 ELSE 0)

\* While the daemon waits, the counter is still at its maximum or a child has
\* left something to wait for.
WaitInv ==
  /\ mpc = "wait" =>
       \/ threads >= MaxThreads
       \/ \E w \in Workers : wpc[w] \in {"exit", "zombie"} /\ w \notin gone
  /\ mpc = "recheck" => threads >= MaxThreads

IInv == Types /\ LockInv /\ CopyInv /\ SlotInv /\ CountInv /\ WaitInv
-----------------------------------------------------------------------------
(* Counting slots.                                                         *)

\* There are max_threads slots.
LEMMA SlotsCardinality ==
  IsFiniteSet(Slots) /\ Cardinality(Slots) = MaxThreads
BY FS_Interval, DaemonAssumption DEF Slots

\* The taken slots are finitely many.
LEMMA TakenFinite ==
  IsFiniteSet(TakenSlots) /\ Cardinality(TakenSlots) \in Nat
BY SlotsCardinality, FS_Subset, FS_CardinalityType DEF TakenSlots

\* A free slot that is marked is one taken slot more.
LEMMA TakenGrows ==
  ASSUME slots \in [Slots -> BOOLEAN], NEW s \in FreeSlots,
         slots' = [slots EXCEPT ![s] = TRUE]
  PROVE  Cardinality(TakenSlots') = Cardinality(TakenSlots) + 1
<1>1. TakenSlots' = TakenSlots \cup {s} /\ s \notin TakenSlots
  BY DEF TakenSlots, FreeSlots
<1> QED
  BY <1>1, TakenFinite, FS_AddElement

\* A taken slot that is given back is one less.
LEMMA TakenShrinks ==
  ASSUME slots \in [Slots -> BOOLEAN], NEW s \in TakenSlots,
         slots' = [slots EXCEPT ![s] = FALSE]
  PROVE  Cardinality(TakenSlots') = Cardinality(TakenSlots) - 1
<1>1. TakenSlots' = TakenSlots \ {s}
  BY DEF TakenSlots
<1> QED
  BY <1>1, TakenFinite, FS_RemoveElement

\* A request made while the counter is below max_threads finds a free slot.
LEMMA RequestFinds ==
  ASSUME IInv, mpc = "take"
  PROVE  FreeSlots # {}
<1>1. SUFFICES ASSUME FreeSlots = {} PROVE FALSE
  OBVIOUS
<1>2. TakenSlots = Slots
  BY <1>1 DEF FreeSlots, TakenSlots
<1>3. MaxThreads <= threads /\ threads < MaxThreads
  BY <1>2, SlotsCardinality, DaemonAssumption
  DEF IInv, Types, faults, LockInv, CountInv, AtDec, AtInc
<1> QED
  BY <1>3, DaemonAssumption DEF IInv, Types

-----------------------------------------------------------------------------
(* What the writes write: with the semaphore held the copy is the original. *)

\* requestSlot() takes a free slot.
LEMMA TakeIs ==
  ASSUME IInv, MainTake
  PROVE  /\ mpc = "take" /\ mpc' = "inc" /\ mslot' \in FreeSlots
         /\ slots' = [slots EXCEPT ![mslot'] = TRUE]
         /\ UNCHANGED <<mutex, threads, worker, faults>> /\ DropLocals(Main)
<1>1. mpc = "take" /\ table[Main] = slots
  BY DEF IInv, CopyInv, MainTake
<1>2. {s \in Slots : ~table[Main][s]} = FreeSlots
  BY <1>1 DEF FreeSlots
<1> QED
  BY <1>1, <1>2, RequestFinds DEF MainTake, PutSlots

\* incThreads() counts one thread more, and only under the semaphore.
LEMMA CountIs ==
  ASSUME IInv, mpc = "count"
  PROVE  mutex = Main /\ count[Main] = threads
BY DEF IInv, LockInv, CopyInv, MainCritical

\* The writes that give a slot or a thread back.
LEMMA PutIs ==
  ASSUME IInv
  PROVE  /\ MainIdlePut => slots' = [slots EXCEPT ![mslot] = FALSE]
         /\ MainIdleCount => threads' = threads - 1
         /\ \A w \in Workers :
              /\ WorkerPut(w) => slots' = [slots EXCEPT ![wslot[w]] = FALSE]
              /\ WorkerCount(w) => threads' = threads - 1
BY DEF IInv, CopyInv, MainIdlePut, MainIdleCount, WorkerPut, WorkerCount,
       WorkerMoves, PutSlots, PutThreads

-----------------------------------------------------------------------------
(* Each part of the invariant is preserved by every step.                  *)

\* Dropping a process's locals keeps their types.
LEMMA DropTyped ==
  ASSUME table \in [Procs -> [Slots -> BOOLEAN]], count \in [Procs -> Int],
         NEW p \in Procs, DropLocals(p)
  PROVE  table' \in [Procs -> [Slots -> BOOLEAN]] /\ count' \in [Procs -> Int]
<1>1. Blank \in [Slots -> BOOLEAN]
  BY DEF Blank
<1>2. table' = [table EXCEPT ![p] = Blank] /\ count' = [count EXCEPT ![p] = 0]
  BY DEF DropLocals
<1> QED
  BY <1>1, <1>2

\* The types survive every step.
LEMMA TypesStep ==
  ASSUME IInv, Next
  PROVE  Types'
<1>0. MainTake => /\ mpc = "take" /\ mpc' = "inc" /\ mslot' \in FreeSlots
                  /\ slots' = [slots EXCEPT ![mslot'] = TRUE]
                  /\ UNCHANGED <<mutex, threads, worker, faults>>
                  /\ DropLocals(Main)
  BY TakeIs
<1>a. MainTake => /\ table' \in [Procs -> [Slots -> BOOLEAN]]
                  /\ count' \in [Procs -> Int]
  BY <1>0, DropTyped DEF IInv, Types, Procs
<1> USE DaemonAssumption DEF IInv, Types, faults, LockInv, SlotInv, MainOwner,
    WorkerOwner, MainCritical, Slots, NoSlot, MainSteps, WorkerSteps, ipc,
    daemon, worker, locals, Procs, Blank, DropLocals
<1>1. CASE MainLock
  BY <1>1 DEF MainLock, AcquireAt
<1>2. CASE MainReap
  BY <1>2 DEF MainReap, Zombies, Children
<1>3. CASE MainCheckFree
  BY <1>3 DEF MainCheckFree
<1>4. CASE MainCheckFull
  BY <1>4 DEF MainCheckFull
<1>5. CASE MainWait
  BY <1>5 DEF MainWait, Zombies, Children
<1>6. CASE MainRelock
  BY <1>6 DEF MainRelock, AcquireAt
<1>7. CASE MainOutch1
  BY <1>7 DEF MainOutch1, Children
<1>8. CASE MainRecheck
  <2>1. gone \subseteq {w \in Workers : Live(w)}
    BY DEF Live
  <2>2. CASE DaemonExit
    BY <1>8, <2>1, <2>2 DEF MainRecheck, DaemonExit, AbandonWorkers
  <2>3. CASE ~DaemonExit
    BY <1>8, <2>3 DEF MainRecheck
  <2> QED
    BY <2>2, <2>3
<1>9. CASE MainRequest
  BY <1>9 DEF MainRequest, GetSlots
<1>10. CASE MainCount
  BY <1>10, CountIs DEF MainCount, PutThreads
<1>11. CASE MainCountUnlocked
  BY <1>11 DEF MainCountUnlocked, DaemonExit, AbandonWorkers, Live
<1>12. CASE MainHookLock
  BY <1>12 DEF MainHookLock, AcquireAt
<1>13. CASE MainHookUnlock
  BY <1>13 DEF MainHookUnlock
<1>14. CASE MainGetNext
  BY <1>14 DEF MainGetNext
<1>15. CASE MainIdleLock
  BY <1>15 DEF MainIdleLock, AcquireAt
<1>16. CASE MainIdleRelease
  BY <1>16 DEF MainIdleRelease, GetSlots
<1>17. CASE MainIdleDec
  BY <1>17 DEF MainIdleDec, GetThreads
<1>18. CASE MainFork
  BY <1>18 DEF MainFork
<1>19. CASE MainForkFails
  BY <1>19 DEF MainForkFails
<1>20. CASE MainPostrun
  BY <1>20 DEF MainPostrun, AbandonWorkers, Live
<1>21. ASSUME NEW w \in Workers, WorkerHookLock(w) PROVE Types'
  BY <1>21 DEF WorkerHookLock, WorkerAcquires, WorkerMoves
<1>22. ASSUME NEW w \in Workers, WorkerHookUnlock(w) PROVE Types'
  BY <1>22 DEF WorkerHookUnlock, WorkerMoves
<1>23. ASSUME NEW w \in Workers, WorkerFinish(w) PROVE Types'
  BY <1>23 DEF WorkerFinish, WorkerMoves
<1>24. ASSUME NEW w \in Workers, WorkerLock(w) PROVE Types'
  BY <1>24 DEF WorkerLock, WorkerAcquires, WorkerMoves
<1>25. ASSUME NEW w \in Workers, WorkerRelease(w) PROVE Types'
  BY <1>25 DEF WorkerRelease, WorkerMoves, GetSlots
<1>26. ASSUME NEW w \in Workers, WorkerDec(w) PROVE Types'
  BY <1>26 DEF WorkerDec, WorkerMoves, GetThreads
<1>27. ASSUME NEW w \in Workers, WorkerExit(w) PROVE Types'
  BY <1>27 DEF WorkerExit, Terminate
<1>28. ASSUME NEW w \in Workers, WorkerFails(w) PROVE Types'
  BY <1>28 DEF WorkerFails, Terminate
<1>29. ASSUME NEW w \in Workers, WorkerCrash(w) PROVE Types'
  BY <1>29 DEF WorkerCrash, Terminate, Live
<1>30. CASE Terminated
  BY <1>30 DEF Terminated, vars
<1>31. CASE MainTake
  <2>1. mslot' \in Slots
    BY <1>31, <1>0 DEF FreeSlots
  <2>2. table' \in [Procs -> [Slots -> BOOLEAN]] /\ count' \in [Procs -> Int]
    BY <1>31, <1>a
  <2>3. slots' \in [Slots -> BOOLEAN]
    BY <1>31, <1>0
  <2> QED
    BY <1>31, <1>0, <2>1, <2>2, <2>3
<1>32. CASE MainInc
  BY <1>32 DEF MainInc, GetThreads
<1>33. CASE MainIdlePut
  BY <1>33, PutIs DEF MainIdlePut, PutSlots
<1>34. CASE MainIdleCount
  BY <1>34, PutIs DEF MainIdleCount, PutThreads
<1>35. ASSUME NEW w \in Workers, WorkerPut(w) PROVE Types'
  BY <1>35, PutIs DEF WorkerPut, WorkerMoves, PutSlots
<1>36. ASSUME NEW w \in Workers, WorkerCount(w) PROVE Types'
  BY <1>36, PutIs DEF WorkerCount, WorkerMoves, PutThreads
<1> QED
  BY <1>1, <1>2, <1>3, <1>4, <1>5, <1>6, <1>7, <1>8, <1>9, <1>10, <1>11, <1>12,
      <1>13, <1>14, <1>15, <1>16, <1>17, <1>18, <1>19, <1>20, <1>21, <1>22,
      <1>23, <1>24, <1>25, <1>26, <1>27, <1>28, <1>29, <1>30, <1>31, <1>32,
      <1>33, <1>34, <1>35, <1>36 DEF Next, MainNext, WorkerNext

\* So does the discipline on the semaphore.
LEMMA LockStep ==
  ASSUME IInv, Next
  PROVE  LockInv'
<1> USE DaemonAssumption DEF IInv, Types, faults, LockInv, WaitInv, MainCritical,
    WorkerCritical, MainSteps, WorkerSteps, HasFreeSlot, Slots, NoSlot, ipc,
    daemon, worker
<1>1. CASE MainLock
  BY <1>1 DEF MainLock, AcquireAt
<1>2. CASE MainReap
  BY <1>2 DEF MainReap, Zombies, Children
<1>3. CASE MainCheckFree
  BY <1>3 DEF MainCheckFree
<1>4. CASE MainCheckFull
  BY <1>4 DEF MainCheckFull
<1>5. CASE MainWait
  BY <1>5 DEF MainWait, Zombies, Children
<1>6. CASE MainRelock
  BY <1>6 DEF MainRelock, AcquireAt
<1>7. CASE MainOutch1
  BY <1>7 DEF MainOutch1, Children
<1>8. CASE MainRecheck
  <2>1. DaemonExit
    BY <1>8 DEF MainRecheck, CountInv
  <2> QED
    BY <1>8, <2>1 DEF MainRecheck, DaemonExit, AbandonWorkers, Live
<1>9. CASE MainRequest
  BY <1>9 DEF MainRequest, GetSlots
<1>10. CASE MainCount
  BY <1>10, CountIs DEF MainCount, PutThreads
<1>11. CASE MainCountUnlocked
  BY <1>11 DEF MainCountUnlocked, DaemonExit, AbandonWorkers, Live
<1>12. CASE MainHookLock
  BY <1>12 DEF MainHookLock, AcquireAt
<1>13. CASE MainHookUnlock
  BY <1>13 DEF MainHookUnlock
<1>14. CASE MainGetNext
  BY <1>14 DEF MainGetNext
<1>15. CASE MainIdleLock
  BY <1>15 DEF MainIdleLock, AcquireAt
<1>16. CASE MainIdleRelease
  BY <1>16 DEF MainIdleRelease, GetSlots
<1>17. CASE MainIdleDec
  BY <1>17 DEF MainIdleDec, GetThreads
<1>18. CASE MainFork
  BY <1>18 DEF MainFork
<1>19. CASE MainForkFails
  BY <1>19 DEF MainForkFails
<1>20. CASE MainPostrun
  BY <1>20 DEF MainPostrun, AbandonWorkers, Live
<1>21. ASSUME NEW w \in Workers, WorkerHookLock(w) PROVE LockInv'
  BY <1>21 DEF WorkerHookLock, WorkerAcquires, WorkerMoves
<1>22. ASSUME NEW w \in Workers, WorkerHookUnlock(w) PROVE LockInv'
  BY <1>22 DEF WorkerHookUnlock, WorkerMoves
<1>23. ASSUME NEW w \in Workers, WorkerFinish(w) PROVE LockInv'
  BY <1>23 DEF WorkerFinish, WorkerMoves
<1>24. ASSUME NEW w \in Workers, WorkerLock(w) PROVE LockInv'
  BY <1>24 DEF WorkerLock, WorkerAcquires, WorkerMoves
<1>25. ASSUME NEW w \in Workers, WorkerRelease(w) PROVE LockInv'
  BY <1>25 DEF WorkerRelease, WorkerMoves, GetSlots
<1>26. ASSUME NEW w \in Workers, WorkerDec(w) PROVE LockInv'
  BY <1>26 DEF WorkerDec, WorkerMoves, GetThreads
<1>27. ASSUME NEW w \in Workers, WorkerExit(w) PROVE LockInv'
  BY <1>27 DEF WorkerExit, Terminate
<1>28. ASSUME NEW w \in Workers, WorkerFails(w) PROVE LockInv'
  BY <1>28 DEF WorkerFails, Terminate
<1>29. ASSUME NEW w \in Workers, WorkerCrash(w) PROVE LockInv'
  BY <1>29 DEF WorkerCrash, Terminate, Live
<1>30. CASE Terminated
  BY <1>30 DEF Terminated, vars
<1>31. CASE MainTake
  BY <1>31, TakeIs DEF FreeSlots
<1>32. CASE MainInc
  BY <1>32 DEF MainInc, GetThreads
<1>33. CASE MainIdlePut
  BY <1>33, PutIs DEF MainIdlePut, PutSlots
<1>34. CASE MainIdleCount
  BY <1>34, PutIs DEF MainIdleCount, PutThreads
<1>35. ASSUME NEW w \in Workers, WorkerPut(w) PROVE LockInv'
  BY <1>35, PutIs DEF WorkerPut, WorkerMoves, PutSlots
<1>36. ASSUME NEW w \in Workers, WorkerCount(w) PROVE LockInv'
  BY <1>36, PutIs DEF WorkerCount, WorkerMoves, PutThreads
<1> QED
  BY <1>1, <1>2, <1>3, <1>4, <1>5, <1>6, <1>7, <1>8, <1>9, <1>10, <1>11, <1>12,
      <1>13, <1>14, <1>15, <1>16, <1>17, <1>18, <1>19, <1>20, <1>21, <1>22,
      <1>23, <1>24, <1>25, <1>26, <1>27, <1>28, <1>29, <1>30, <1>31, <1>32,
      <1>33, <1>34, <1>35, <1>36 DEF Next, MainNext, WorkerNext

\* Owners keep slots of their own.
LEMMA SlotStep ==
  ASSUME IInv, Next
  PROVE  SlotInv'
<1>0. MainTake => /\ mpc = "take" /\ mpc' = "inc" /\ mslot' \in FreeSlots
                  /\ slots' = [slots EXCEPT ![mslot'] = TRUE]
                  /\ UNCHANGED <<mutex, threads, worker, faults>>
                  /\ DropLocals(Main)
  BY TakeIs
<1>a. /\ MainIdlePut => slots' = [slots EXCEPT ![mslot] = FALSE]
      /\ \A w \in Workers :
           WorkerPut(w) => slots' = [slots EXCEPT ![wslot[w]] = FALSE]
  BY PutIs
<1> USE DaemonAssumption DEF IInv, Types, faults, LockInv, SlotInv, CountInv, WaitInv,
    MainCritical, WorkerCritical, MainOwner, WorkerOwner, MainSteps,
    WorkerSteps, Slots, NoSlot, HasFreeSlot, ipc, daemon, worker
<1>1. CASE MainLock
  BY <1>1 DEF MainLock, AcquireAt
<1>2. CASE MainReap
  BY <1>2 DEF MainReap, Zombies, Children
<1>3. CASE MainCheckFree
  BY <1>3 DEF MainCheckFree
<1>4. CASE MainCheckFull
  BY <1>4 DEF MainCheckFull
<1>5. CASE MainWait
  BY <1>5 DEF MainWait, Zombies, Children
<1>6. CASE MainRelock
  BY <1>6 DEF MainRelock, AcquireAt
<1>7. CASE MainOutch1
  BY <1>7 DEF MainOutch1, Children
<1>8. CASE MainRecheck
  BY <1>8 DEF MainRecheck, DaemonExit, AbandonWorkers, Live, HasFreeSlot
<1>9. CASE MainRequest
  BY <1>9 DEF MainRequest, GetSlots
<1>10. CASE MainCount
  BY <1>10, CountIs DEF MainCount, PutThreads
<1>11. CASE MainCountUnlocked
  BY <1>11 DEF MainCountUnlocked, DaemonExit, AbandonWorkers, Live
<1>12. CASE MainHookLock
  BY <1>12 DEF MainHookLock, AcquireAt
<1>13. CASE MainHookUnlock
  BY <1>13 DEF MainHookUnlock
<1>14. CASE MainGetNext
  BY <1>14 DEF MainGetNext
<1>15. CASE MainIdleLock
  BY <1>15 DEF MainIdleLock, AcquireAt
<1>16. CASE MainIdleRelease
  BY <1>16 DEF MainIdleRelease, GetSlots
<1>17. CASE MainIdleDec
  BY <1>17 DEF MainIdleDec, GetThreads
<1>18. CASE MainFork
  BY <1>18 DEF MainFork
<1>19. CASE MainForkFails
  BY <1>19 DEF MainForkFails
<1>20. CASE MainPostrun
  BY <1>20 DEF MainPostrun, AbandonWorkers, Live
<1>21. ASSUME NEW w \in Workers, WorkerHookLock(w) PROVE SlotInv'
  BY <1>21 DEF WorkerHookLock, WorkerAcquires, WorkerMoves
<1>22. ASSUME NEW w \in Workers, WorkerHookUnlock(w) PROVE SlotInv'
  BY <1>22 DEF WorkerHookUnlock, WorkerMoves
<1>23. ASSUME NEW w \in Workers, WorkerFinish(w) PROVE SlotInv'
  BY <1>23 DEF WorkerFinish, WorkerMoves
<1>24. ASSUME NEW w \in Workers, WorkerLock(w) PROVE SlotInv'
  BY <1>24 DEF WorkerLock, WorkerAcquires, WorkerMoves
<1>25. ASSUME NEW w \in Workers, WorkerRelease(w) PROVE SlotInv'
  BY <1>25 DEF WorkerRelease, WorkerMoves, GetSlots
<1>26. ASSUME NEW w \in Workers, WorkerDec(w) PROVE SlotInv'
  BY <1>26 DEF WorkerDec, WorkerMoves, GetThreads
<1>27. ASSUME NEW w \in Workers, WorkerExit(w) PROVE SlotInv'
  BY <1>27 DEF WorkerExit, Terminate
<1>28. ASSUME NEW w \in Workers, WorkerFails(w) PROVE SlotInv'
  BY <1>28 DEF WorkerFails, Terminate
<1>29. ASSUME NEW w \in Workers, WorkerCrash(w) PROVE SlotInv'
  BY <1>29 DEF WorkerCrash, Terminate, Live
<1>30. CASE Terminated
  BY <1>30 DEF Terminated, vars
<1>31. CASE MainTake
  BY <1>31, <1>0 DEF FreeSlots
<1>32. CASE MainInc
  BY <1>32 DEF MainInc, GetThreads
<1>33. CASE MainIdlePut
  <2>1. /\ mpc = "idleput" /\ mpc' = "idledec"
        /\ slots' = [slots EXCEPT ![mslot] = FALSE]
        /\ UNCHANGED <<mslot, worker, faults>>
    BY <1>33, <1>a DEF MainIdlePut
  <2> QED
    BY <2>1
<1>34. CASE MainIdleCount
  BY <1>34, PutIs DEF MainIdleCount, PutThreads
<1>35. ASSUME NEW w \in Workers, WorkerPut(w) PROVE SlotInv'
  <2>1. /\ wpc[w] = "put" /\ w \notin gone /\ wpc' = [wpc EXCEPT ![w] = "dec"]
        /\ slots' = [slots EXCEPT ![wslot[w]] = FALSE]
        /\ UNCHANGED <<daemon, wslot, orphans, gone, faults>>
    BY <1>35, <1>a DEF WorkerPut, WorkerMoves
  <2> QED
    BY <2>1
<1>36. ASSUME NEW w \in Workers, WorkerCount(w) PROVE SlotInv'
  BY <1>36, PutIs DEF WorkerCount, WorkerMoves, PutThreads
<1> QED
  BY <1>1, <1>2, <1>3, <1>4, <1>5, <1>6, <1>7, <1>8, <1>9, <1>10, <1>11, <1>12,
      <1>13, <1>14, <1>15, <1>16, <1>17, <1>18, <1>19, <1>20, <1>21, <1>22,
      <1>23, <1>24, <1>25, <1>26, <1>27, <1>28, <1>29, <1>30, <1>31, <1>32,
      <1>33, <1>34, <1>35, <1>36 DEF Next, MainNext, WorkerNext

\* A copy of the table or of the counter stays true until it is written back:
\* every write is made by the process that holds the semaphore.
LEMMA CopyStep ==
  ASSUME IInv, Next
  PROVE  CopyInv'
<1> USE DaemonAssumption DEF IInv, Types, faults, LockInv, CopyInv, MainCritical,
    WorkerCritical, MainSteps, WorkerSteps, Procs, ipc, locals, daemon, worker,
    DropLocals
<1>1. CASE MainLock
  BY <1>1 DEF MainLock, AcquireAt
<1>2. CASE MainReap
  BY <1>2 DEF MainReap, Zombies, Children
<1>3. CASE MainCheckFree
  BY <1>3 DEF MainCheckFree
<1>4. CASE MainCheckFull
  BY <1>4 DEF MainCheckFull
<1>5. CASE MainWait
  BY <1>5 DEF MainWait, Zombies, Children
<1>6. CASE MainRelock
  BY <1>6 DEF MainRelock, AcquireAt
<1>7. CASE MainOutch1
  BY <1>7 DEF MainOutch1
<1>8. CASE MainRecheck
  <2>1. DaemonExit
    BY <1>8 DEF MainRecheck, WaitInv, CountInv, HasFreeSlot
  <2> QED
    BY <1>8, <2>1 DEF MainRecheck, DaemonExit, AbandonWorkers, Live
<1>9. CASE MainRequest
  BY <1>9 DEF MainRequest, GetSlots
<1>10. CASE MainTake
  BY <1>10 DEF MainTake, PutSlots
<1>11. CASE MainInc
  BY <1>11 DEF MainInc, GetThreads
<1>12. CASE MainCount
  BY <1>12 DEF MainCount, PutThreads
<1>13. CASE MainCountUnlocked
  BY <1>13 DEF MainCountUnlocked, DaemonExit
<1>14. CASE MainHookLock
  BY <1>14 DEF MainHookLock, AcquireAt
<1>15. CASE MainHookUnlock
  BY <1>15 DEF MainHookUnlock
<1>16. CASE MainGetNext
  BY <1>16 DEF MainGetNext
<1>17. CASE MainIdleLock
  BY <1>17 DEF MainIdleLock, AcquireAt
<1>18. CASE MainIdleRelease
  BY <1>18 DEF MainIdleRelease, GetSlots
<1>19. CASE MainIdlePut
  BY <1>19 DEF MainIdlePut, PutSlots
<1>20. CASE MainIdleDec
  BY <1>20 DEF MainIdleDec, GetThreads
<1>21. CASE MainIdleCount
  BY <1>21 DEF MainIdleCount, PutThreads
<1>22. CASE MainFork
  BY <1>22 DEF MainFork
<1>23. CASE MainForkFails
  BY <1>23 DEF MainForkFails
<1>24. CASE MainPostrun
  BY <1>24 DEF MainPostrun, AbandonWorkers, Live
<1>25. ASSUME NEW w \in Workers, WorkerHookLock(w) PROVE CopyInv'
  BY <1>25 DEF WorkerHookLock, WorkerAcquires, WorkerMoves
<1>26. ASSUME NEW w \in Workers, WorkerHookUnlock(w) PROVE CopyInv'
  BY <1>26 DEF WorkerHookUnlock, WorkerMoves
<1>27. ASSUME NEW w \in Workers, WorkerFinish(w) PROVE CopyInv'
  BY <1>27 DEF WorkerFinish, WorkerMoves
<1>28. ASSUME NEW w \in Workers, WorkerLock(w) PROVE CopyInv'
  BY <1>28 DEF WorkerLock, WorkerAcquires, WorkerMoves
<1>29. ASSUME NEW w \in Workers, WorkerRelease(w) PROVE CopyInv'
  BY <1>29 DEF WorkerRelease, WorkerMoves, GetSlots
<1>30. ASSUME NEW w \in Workers, WorkerPut(w) PROVE CopyInv'
  BY <1>30 DEF WorkerPut, WorkerMoves, PutSlots
<1>31. ASSUME NEW w \in Workers, WorkerDec(w) PROVE CopyInv'
  BY <1>31 DEF WorkerDec, WorkerMoves, GetThreads
<1>32. ASSUME NEW w \in Workers, WorkerCount(w) PROVE CopyInv'
  BY <1>32 DEF WorkerCount, WorkerMoves, PutThreads
<1>33. ASSUME NEW w \in Workers, WorkerExit(w) PROVE CopyInv'
  BY <1>33 DEF WorkerExit, Terminate
<1>34. ASSUME NEW w \in Workers, WorkerFails(w) PROVE CopyInv'
  BY <1>34 DEF WorkerFails, Terminate
<1>35. ASSUME NEW w \in Workers, WorkerCrash(w) PROVE CopyInv'
  BY <1>35 DEF WorkerCrash, Terminate, Live
<1>36. CASE Terminated
  BY <1>36 DEF Terminated, vars
<1> QED
  BY <1>1, <1>2, <1>3, <1>4, <1>5, <1>6, <1>7, <1>8, <1>9, <1>10, <1>11, <1>12,
      <1>13, <1>14, <1>15, <1>16, <1>17, <1>18, <1>19, <1>20, <1>21, <1>22,
      <1>23, <1>24, <1>25, <1>26, <1>27, <1>28, <1>29, <1>30, <1>31, <1>32,
      <1>33, <1>34, <1>35, <1>36 DEF Next, MainNext, WorkerNext

\* A waiting daemon has something to wait for.
LEMMA WaitStep ==
  ASSUME IInv, Next
  PROVE  WaitInv'
<1> USE DaemonAssumption DEF IInv, Types, faults, LockInv, WaitInv, CountInv,
    MainCritical, WorkerCritical, MainSteps, WorkerSteps, HasFreeSlot, ipc,
    daemon, worker
<1>1. CASE MainLock
  BY <1>1 DEF MainLock, AcquireAt
<1>2. CASE MainReap
  BY <1>2 DEF MainReap, Zombies, Children
<1>3. CASE MainCheckFree
  BY <1>3 DEF MainCheckFree
<1>4. CASE MainCheckFull
  BY <1>4 DEF MainCheckFull
<1>5. CASE MainWait
  BY <1>5 DEF MainWait, Zombies, Children
<1>6. CASE MainRelock
  BY <1>6 DEF MainRelock, AcquireAt
<1>7. CASE MainOutch1
  BY <1>7 DEF MainOutch1, Children
<1>8. CASE MainRecheck
  BY <1>8 DEF MainRecheck, DaemonExit, AbandonWorkers, Live, HasFreeSlot
<1>9. CASE MainRequest
  BY <1>9 DEF MainRequest, GetSlots
<1>10. CASE MainCount
  BY <1>10, CountIs DEF MainCount, PutThreads
<1>11. CASE MainCountUnlocked
  BY <1>11 DEF MainCountUnlocked, DaemonExit, AbandonWorkers, Live
<1>12. CASE MainHookLock
  BY <1>12 DEF MainHookLock, AcquireAt
<1>13. CASE MainHookUnlock
  BY <1>13 DEF MainHookUnlock
<1>14. CASE MainGetNext
  BY <1>14 DEF MainGetNext
<1>15. CASE MainIdleLock
  BY <1>15 DEF MainIdleLock, AcquireAt
<1>16. CASE MainIdleRelease
  BY <1>16 DEF MainIdleRelease, GetSlots
<1>17. CASE MainIdleDec
  BY <1>17 DEF MainIdleDec, GetThreads
<1>18. CASE MainFork
  BY <1>18 DEF MainFork
<1>19. CASE MainForkFails
  BY <1>19 DEF MainForkFails
<1>20. CASE MainPostrun
  BY <1>20 DEF MainPostrun, AbandonWorkers, Live
<1>21. ASSUME NEW w \in Workers, WorkerHookLock(w) PROVE WaitInv'
  BY <1>21 DEF WorkerHookLock, WorkerAcquires, WorkerMoves
<1>22. ASSUME NEW w \in Workers, WorkerHookUnlock(w) PROVE WaitInv'
  BY <1>22 DEF WorkerHookUnlock, WorkerMoves
<1>23. ASSUME NEW w \in Workers, WorkerFinish(w) PROVE WaitInv'
  BY <1>23 DEF WorkerFinish, WorkerMoves
<1>24. ASSUME NEW w \in Workers, WorkerLock(w) PROVE WaitInv'
  BY <1>24 DEF WorkerLock, WorkerAcquires, WorkerMoves
<1>25. ASSUME NEW w \in Workers, WorkerRelease(w) PROVE WaitInv'
  BY <1>25 DEF WorkerRelease, WorkerMoves, GetSlots
<1>26. ASSUME NEW w \in Workers, WorkerDec(w) PROVE WaitInv'
  BY <1>26 DEF WorkerDec, WorkerMoves, GetThreads
<1>27. ASSUME NEW w \in Workers, WorkerExit(w) PROVE WaitInv'
  BY <1>27 DEF WorkerExit, Terminate
<1>28. ASSUME NEW w \in Workers, WorkerFails(w) PROVE WaitInv'
  BY <1>28 DEF WorkerFails, Terminate
<1>29. ASSUME NEW w \in Workers, WorkerCrash(w) PROVE WaitInv'
  BY <1>29 DEF WorkerCrash, Terminate, Live
<1>30. CASE Terminated
  BY <1>30 DEF Terminated, vars
<1>31. CASE MainTake
  BY <1>31, TakeIs DEF FreeSlots
<1>32. CASE MainInc
  BY <1>32 DEF MainInc, GetThreads
<1>33. CASE MainIdlePut
  BY <1>33, PutIs DEF MainIdlePut, PutSlots
<1>34. CASE MainIdleCount
  BY <1>34, PutIs DEF MainIdleCount, PutThreads
<1>35. ASSUME NEW w \in Workers, WorkerPut(w) PROVE WaitInv'
  BY <1>35, PutIs DEF WorkerPut, WorkerMoves, PutSlots
<1>36. ASSUME NEW w \in Workers, WorkerCount(w) PROVE WaitInv'
  BY <1>36, PutIs DEF WorkerCount, WorkerMoves, PutThreads
<1> QED
  BY <1>1, <1>2, <1>3, <1>4, <1>5, <1>6, <1>7, <1>8, <1>9, <1>10, <1>11, <1>12,
      <1>13, <1>14, <1>15, <1>16, <1>17, <1>18, <1>19, <1>20, <1>21, <1>22,
      <1>23, <1>24, <1>25, <1>26, <1>27, <1>28, <1>29, <1>30, <1>31, <1>32,
      <1>33, <1>34, <1>35, <1>36 DEF Next, MainNext, WorkerNext

\* The counter covers the taken slots.
LEMMA CountStep ==
  ASSUME IInv, Next
  PROVE  CountInv'
<1> USE DaemonAssumption DEF IInv, Types, faults, LockInv, SlotInv, CountInv,
    MainCritical, WorkerCritical, MainOwner, WorkerOwner, MainSteps,
    WorkerSteps, HasFreeSlot, AtDec, AtInc, ipc, daemon, worker
<1>0. slots' = slots => TakenSlots' = TakenSlots
  BY DEF TakenSlots
<1>1. CASE MainLock
  BY <1>1, TakenFinite, <1>0 DEF MainLock, AcquireAt
<1>2. CASE MainReap
  BY <1>2, TakenFinite, <1>0 DEF MainReap, Zombies, Children
<1>3. CASE MainCheckFree
  BY <1>3, TakenFinite, <1>0 DEF MainCheckFree
<1>4. CASE MainCheckFull
  BY <1>4, TakenFinite, <1>0 DEF MainCheckFull
<1>5. CASE MainWait
  BY <1>5, TakenFinite, <1>0 DEF MainWait, Zombies, Children
<1>6. CASE MainRelock
  BY <1>6, TakenFinite, <1>0 DEF MainRelock, AcquireAt
<1>7. CASE MainOutch1
  BY <1>7, TakenFinite, <1>0 DEF MainOutch1, Children
<1>8. CASE MainRecheck
  BY <1>8, TakenFinite, <1>0 DEF MainRecheck, DaemonExit, AbandonWorkers, Live,
      HasFreeSlot
<1>9. CASE MainRequest
  BY <1>9, TakenFinite, <1>0 DEF MainRequest, GetSlots
<1>10. CASE MainCount
  BY <1>10, CountIs, TakenFinite, <1>0 DEF MainCount, PutThreads
<1>11. CASE MainCountUnlocked
  BY <1>11, TakenFinite, <1>0 DEF MainCountUnlocked, DaemonExit,
      AbandonWorkers, Live
<1>12. CASE MainHookLock
  BY <1>12, TakenFinite, <1>0 DEF MainHookLock, AcquireAt
<1>13. CASE MainHookUnlock
  BY <1>13, TakenFinite, <1>0 DEF MainHookUnlock
<1>14. CASE MainGetNext
  BY <1>14, TakenFinite, <1>0 DEF MainGetNext
<1>15. CASE MainIdleLock
  BY <1>15, TakenFinite, <1>0 DEF MainIdleLock, AcquireAt
<1>16. CASE MainIdleRelease
  BY <1>16, TakenFinite, <1>0 DEF MainIdleRelease, GetSlots
<1>17. CASE MainIdleDec
  BY <1>17, TakenFinite, <1>0 DEF MainIdleDec, GetThreads
<1>18. CASE MainFork
  BY <1>18, TakenFinite, <1>0 DEF MainFork
<1>19. CASE MainForkFails
  BY <1>19, TakenFinite, <1>0 DEF MainForkFails
<1>20. CASE MainPostrun
  BY <1>20, TakenFinite, <1>0 DEF MainPostrun, AbandonWorkers, Live
<1>21. ASSUME NEW w \in Workers, WorkerHookLock(w) PROVE CountInv'
  BY <1>21, TakenFinite, <1>0 DEF WorkerHookLock, WorkerAcquires, WorkerMoves
<1>22. ASSUME NEW w \in Workers, WorkerHookUnlock(w) PROVE CountInv'
  BY <1>22, TakenFinite, <1>0 DEF WorkerHookUnlock, WorkerMoves
<1>23. ASSUME NEW w \in Workers, WorkerFinish(w) PROVE CountInv'
  BY <1>23, TakenFinite, <1>0 DEF WorkerFinish, WorkerMoves
<1>24. ASSUME NEW w \in Workers, WorkerLock(w) PROVE CountInv'
  BY <1>24, TakenFinite, <1>0 DEF WorkerLock, WorkerAcquires, WorkerMoves
<1>25. ASSUME NEW w \in Workers, WorkerRelease(w) PROVE CountInv'
  BY <1>25, TakenFinite, <1>0 DEF WorkerRelease, WorkerMoves, GetSlots
<1>26. ASSUME NEW w \in Workers, WorkerDec(w) PROVE CountInv'
  BY <1>26, TakenFinite, <1>0 DEF WorkerDec, WorkerMoves, GetThreads
<1>27. ASSUME NEW w \in Workers, WorkerExit(w) PROVE CountInv'
  BY <1>27, TakenFinite, <1>0 DEF WorkerExit, Terminate
<1>28. ASSUME NEW w \in Workers, WorkerFails(w) PROVE CountInv'
  BY <1>28, TakenFinite, <1>0 DEF WorkerFails, Terminate
<1>29. ASSUME NEW w \in Workers, WorkerCrash(w) PROVE CountInv'
  BY <1>29, TakenFinite, <1>0 DEF WorkerCrash, Terminate, Live
<1>30. CASE Terminated
  BY <1>30, <1>0 DEF Terminated, vars
<1>31. CASE MainTake
  <2>1. Cardinality(TakenSlots') = Cardinality(TakenSlots) + 1
    BY <1>31, TakeIs, TakenGrows
  <2> QED
    BY <1>31, <2>1, TakeIs, TakenFinite
<1>32. CASE MainInc
  BY <1>32, TakenFinite, <1>0 DEF MainInc, GetThreads
<1>33. CASE MainIdlePut
  <2>1. mslot \in TakenSlots /\ mpc = "idleput"
    BY <1>33 DEF MainIdlePut, TakenSlots
  <2>2. Cardinality(TakenSlots') = Cardinality(TakenSlots) - 1
    BY <1>33, <2>1, PutIs, TakenShrinks
  <2> QED
    BY <1>33, <2>2, TakenFinite DEF MainIdlePut, PutSlots
<1>34. CASE MainIdleCount
  BY <1>34, TakenFinite, <1>0, PutIs DEF MainIdleCount, PutThreads
<1>35. ASSUME NEW w \in Workers, WorkerPut(w) PROVE CountInv'
  <2>1. wslot[w] \in TakenSlots
    BY <1>35 DEF WorkerPut, WorkerMoves, TakenSlots
  <2>2. Cardinality(TakenSlots') = Cardinality(TakenSlots) - 1
    BY <1>35, <2>1, PutIs, TakenShrinks
  <2>3. ~AtDec /\ ~AtInc
    BY <1>35 DEF WorkerPut, WorkerMoves
  <2> QED
    BY <1>35, <2>2, <2>3, TakenFinite DEF WorkerPut, WorkerMoves, PutSlots
<1>36. ASSUME NEW w \in Workers, WorkerCount(w) PROVE CountInv'
  <2>1. threads' = threads - 1 /\ TakenSlots' = TakenSlots /\ UNCHANGED mpc
    BY <1>36, <1>0, PutIs DEF WorkerCount, WorkerMoves, PutThreads
  <2>2. AtDec /\ ~AtDec' /\ ~AtInc
    BY <1>36 DEF WorkerCount, WorkerMoves
  <2> QED
    BY <1>36, <2>1, <2>2, TakenFinite
<1> QED
  BY <1>1, <1>2, <1>3, <1>4, <1>5, <1>6, <1>7, <1>8, <1>9, <1>10, <1>11, <1>12,
      <1>13, <1>14, <1>15, <1>16, <1>17, <1>18, <1>19, <1>20, <1>21, <1>22,
      <1>23, <1>24, <1>25, <1>26, <1>27, <1>28, <1>29, <1>30, <1>31, <1>32,
      <1>33, <1>34, <1>35, <1>36 DEF Next, MainNext, WorkerNext

-----------------------------------------------------------------------------
(* Theorems.                                                               *)

\* The invariant holds initially.
LEMMA InitInv == Init => IInv
<1> SUFFICES ASSUME Init PROVE IInv
  OBVIOUS
<1>1. TakenSlots = {} /\ Cardinality({}) = 0
  BY FS_EmptySet DEF Init, Prerun, TakenSlots
<1>2. Types /\ LockInv /\ CopyInv /\ SlotInv /\ WaitInv
  BY DaemonAssumption DEF Init, Prerun, Types, LockInv, CopyInv, SlotInv,
    WaitInv, Procs, Blank,
    MainSteps, WorkerSteps, MainCritical, WorkerCritical, MainOwner,
    WorkerOwner, Slots, NoSlot
<1>3. CountInv
  BY <1>1, DaemonAssumption DEF Init, Prerun, CountInv, AtDec, AtInc
<1> QED
  BY <1>2, <1>3 DEF IInv

\* Every step, and every stutter, preserves it.
LEMMA NextInv == IInv /\ [Next]_vars => IInv'
<1> SUFFICES ASSUME IInv, [Next]_vars PROVE IInv'
  OBVIOUS
<1>1. CASE Next
  BY <1>1, TypesStep, LockStep, CopyStep, SlotStep, CountStep, WaitStep
  DEF IInv
<1>2. CASE UNCHANGED vars
  <2>1. TakenSlots' = TakenSlots
    BY <1>2 DEF vars, TakenSlots
  <2> QED
    BY <1>2, <2>1 DEF vars, IInv, Types, LockInv, CopyInv, SlotInv, CountInv,
      AtDec, AtInc,
      WaitInv
<1> QED
  BY <1>1, <1>2

\* One life of the daemon satisfies the invariant.
THEOREM Invariance == Spec => []IInv
BY InitInv, NextInv, PTL DEF Spec

\* What a process has read of the counter is in its range.
CountsBounded == \A p \in Procs : count[p] \in 0 .. MaxThreads

\* Every copy of the counter was the counter.
LEMMA CountsStep ==
  ASSUME IInv, threads \in 0 .. MaxThreads, CountsBounded, [Next]_vars
  PROVE  CountsBounded'
<1>1. count \in [Procs -> Int] /\ MaxThreads \in Nat
  BY DaemonAssumption DEF IInv, Types
<1>2. CASE UNCHANGED count
  BY <1>2 DEF CountsBounded
<1>3. ASSUME NEW p \in Procs, DropLocals(p) \/ GetThreads(p)
      PROVE  CountsBounded'
  BY <1>1, <1>3 DEF CountsBounded, DropLocals, GetThreads
<1>4. UNCHANGED count \/ \E p \in Procs : DropLocals(p) \/ GetThreads(p)
  BY DEF Procs, Next, MainNext, MainLock, MainReap, MainCheckFree,
       MainCheckFull, MainWait, MainRelock, MainOutch1, MainRecheck,
       MainRequest, MainTake, MainInc, MainCount, MainCountUnlocked,
       MainHookLock, MainHookUnlock, MainGetNext, MainIdleLock,
       MainIdleRelease, MainIdlePut, MainIdleDec, MainIdleCount, MainFork,
       MainForkFails, MainPostrun, AcquireAt, DaemonExit, GetSlots, PutSlots,
       PutThreads, WorkerNext, WorkerHookLock, WorkerHookUnlock, WorkerFinish,
       WorkerLock, WorkerRelease, WorkerPut, WorkerDec, WorkerCount,
       WorkerExit, WorkerFails, WorkerCrash, WorkerAcquires, WorkerMoves,
       Terminate, Terminated, ipc, locals, vars
<1> QED
  BY <1>2, <1>3, <1>4

\* The counter stays between 0 and max_threads and every variable in its type,
\* for every number of slots, workers and crashes.
THEOREM TypeCorrectness == Spec => []TypeOK
<1>1. IInv => threads \in 0 .. MaxThreads
  <2> SUFFICES ASSUME IInv PROVE threads \in 0 .. MaxThreads
    OBVIOUS
  <2>1. AtInc => Cardinality(TakenSlots) # 0
    <3>1. AtInc => mslot \in TakenSlots
      BY DEF IInv, SlotInv, MainOwner, AtInc, TakenSlots
    <3> QED
      BY <3>1, TakenFinite, FS_EmptySet
  <2>2. /\ threads \in Int /\ threads <= MaxThreads
        /\ Cardinality(TakenSlots) + (IF AtDec THEN 1 ELSE 0)
             <= threads + (IF AtInc THEN 1 ELSE 0)
    BY DEF IInv, Types, CountInv
  <2>3. 0 <= threads
    BY <2>1, <2>2, TakenFinite
  <2> QED
    BY <2>2, <2>3, DaemonAssumption
<1>2. IInv /\ CountsBounded => TypeOK
  BY <1>1, DaemonAssumption DEF IInv, Types, faults, TypeOK, CountsBounded
<1>3. Init => CountsBounded
  BY DaemonAssumption DEF Init, CountsBounded
<1>4. IInv /\ CountsBounded /\ [Next]_vars => CountsBounded'
  BY <1>1, CountsStep
<1> QED
  BY <1>1, <1>2, <1>3, <1>4, Invariance, InitInv, NextInv, PTL DEF Spec

\* Whatever life it is, the invariant gives each held slot to one process.
LEMMA InvExclusive == IInv => SlotsExclusive
<1> SUFFICES ASSUME IInv, NEW s \in HeldSlots,
                    NEW p \in Holders(s), NEW q \in Holders(s)
             PROVE  p = q /\ (Serving => slots[s])
  BY DEF SlotsExclusive, HeldSlots
<1> QED
  BY DaemonAssumption DEF IInv, SlotInv, Holders, WorkerHolds, MainHolds,
    MainOwner, WorkerOwner, Serving

\* No two processes ever own one slot, and an owned slot is marked taken.
THEOREM SlotsAreExclusive == Spec => []SlotsExclusive
BY InvExclusive, Invariance, PTL

\* After requestSlot() the daemon owns a slot.
LEMMA InvRequest == IInv => RequestSucceeds
BY DaemonAssumption DEF IInv, SlotInv, MainOwner, RequestSucceeds, Slots,
    NoSlot

\* requestSlot() never returns null: the Outch2 branch is dead in one life.
THEOREM RequestsSucceed == Spec => []RequestSucceeds
BY InvRequest, Invariance, PTL

\* A daemon that is not killed is not started again.
LEMMA OneLife ==
  ASSUME [Next]_vars
  PROVE  UNCHANGED <<kills, restarts, inherited>>
BY DEF Next, MainNext, MainLock, MainReap, MainCheckFree, MainCheckFull,
       MainWait, MainRelock, MainOutch1, MainRecheck, MainRequest, MainTake,
       MainInc, MainCount, MainCountUnlocked, MainHookLock, MainHookUnlock,
       MainGetNext, MainIdleLock, MainIdleRelease, MainIdlePut, MainIdleDec,
       MainIdleCount, MainFork, MainForkFails, MainPostrun, AcquireAt,
       WorkerNext, WorkerHookLock, WorkerHookUnlock, WorkerFinish, WorkerLock,
       WorkerRelease, WorkerPut, WorkerDec, WorkerCount, WorkerExit,
       WorkerFails, WorkerCrash, WorkerAcquires, WorkerMoves, Terminated,
       faults, vars

\* At most max_threads jobs run at once: the running workers map into the slots
\* one to one.
THEOREM ConcurrencyBounded == Spec => []MaxConcurrent
<1>1. IInv /\ restarts = 0 => MaxConcurrent
  <2> SUFFICES ASSUME IInv, restarts = 0 PROVE MaxConcurrent
    OBVIOUS
  <2> DEFINE f == [w \in Running |-> wslot[w]]
  <2>1. f \in Injection(Running, Slots)
    <3>1. f \in [Running -> Slots]
      BY DEF IInv, SlotInv, Running, WorkerOwner
    <3>2. \A v, w \in Running : f[v] = f[w] => v = w
      BY DEF IInv, SlotInv, Running, WorkerOwner
    <3> QED
      BY <3>1, <3>2 DEF Injection, IsInjective
  <2>2. Cardinality(Running) <= Cardinality(Slots)
    BY <2>1, SlotsCardinality, FS_Injection
  <2> QED
    BY <2>2, SlotsCardinality DEF MaxConcurrent
<1>2. Init => restarts = 0
  BY DEF Init
<1>3. restarts = 0 /\ [Next]_vars => (restarts = 0)'
  BY OneLife
<1> QED
  BY <1>1, <1>2, <1>3, Invariance, PTL DEF Spec

-----------------------------------------------------------------------------
(* What crashes cost.                                                       *)

\* Each thread that is counted without a held slot is between releaseSlot() and
\* decThreads(), or was left behind by a crash.
SpentInv ==
  Serving =>
    threads + (IF AtInc THEN 1 ELSE 0)
      <= Cardinality(HeldSlots) + crashes + (IF AtDec THEN 1 ELSE 0)

PoolInv == IInv /\ SpentInv

-----------------------------------------------------------------------------
(* What the steps do to the holders of slots.                              *)

\* The daemon has not ended.
Open == mpc \notin {"stopped", "dead"}

\* The step changes the holders of slot s, and of no other slot.
Changes(s, from, to) ==
  /\ s \in Slots /\ Holders(s) = from /\ Holders(s)' = to
  /\ \A t \in Slots : t # s => Holders(t)' = Holders(t)

\* Process p is where it still has to give slot s back; a worker of an earlier
\* life that was cut off owns nothing any more.
Owner(w) == wpc[w] \in WorkerOwner /\ w \notin gone

Owns(p, s) ==
  \/ p \in Workers /\ Owner(p) /\ wslot[p] = s
  \/ p = Main /\ mpc \in MainOwner /\ mslot = s

HoldersOwn ==
  \A s \in Slots : Holders(s) = {p \in Workers \cup {Main} : Owns(p, s)}

\* The holders of a slot are its owners.
LEMMA OwnersHold == HoldersOwn
BY DaemonAssumption
DEF HoldersOwn, Holders, WorkerHolds, MainHolds, Owns, Owner, WorkerOwner,
    MainOwner

\* An owned slot has one holder, and is marked taken.
LEMMA OneOwner ==
  ASSUME IInv, NEW s \in Slots, NEW p \in Workers \cup {Main}, Owns(p, s)
  PROVE  Holders(s) = {p} /\ slots[s]
<1>1. \A q \in Workers \cup {Main} : Owns(q, s) => q = p
  BY DaemonAssumption DEF IInv, SlotInv, Owns, Owner
<1>2. slots[s]
  BY DEF IInv, SlotInv, Owns, Owner
<1> QED
  BY <1>1, <1>2, OwnersHold DEF HoldersOwn

\* A held slot is marked taken.
LEMMA SlotsAreTaken ==
  ASSUME IInv
  PROVE  HeldSlots \subseteq TakenSlots
<1> SUFFICES ASSUME NEW s \in Slots, NEW p \in Holders(s) PROVE slots[s]
  BY DEF HeldSlots, TakenSlots
<1>1. p \in Workers \cup {Main} /\ Owns(p, s)
  BY OwnersHold DEF HoldersOwn
<1> QED
  BY <1>1, OneOwner

\* A step that changes what one process owns, and only that of slot s.
LEMMA OwnerChanges ==
  ASSUME NEW s \in Slots,
         NEW from \in SUBSET (Workers \cup {Main}),
         NEW to \in SUBSET (Workers \cup {Main}),
         \A p \in Workers \cup {Main} :
           /\ Owns(p, s) <=> p \in from
           /\ Owns(p, s)' <=> p \in to
           /\ \A t \in Slots : t # s => (Owns(p, t)' <=> Owns(p, t))
  PROVE  Changes(s, from, to)
<1>1. HoldersOwn'
  BY OwnersHold, PTL
<1>2. ASSUME NEW t \in Slots
      PROVE  /\ Holders(t) = {p \in Workers \cup {Main} : Owns(p, t)}
             /\ Holders(t)' = {p \in Workers \cup {Main} : Owns(p, t)'}
  BY <1>1, OwnersHold DEF HoldersOwn
<1>3. Holders(s) = from
  BY <1>2
<1>4. Holders(s)' = to
  BY <1>2
<1>5. ASSUME NEW t \in Slots, t # s PROVE Holders(t)' = Holders(t)
  BY <1>2, <1>5
<1> QED
  BY <1>3, <1>4, <1>5 DEF Changes

\* A step after which every process owns what it owned.
LEMMA OwnersStay ==
  ASSUME \A p \in Workers \cup {Main}, t \in Slots : Owns(p, t)' <=> Owns(p, t)
  PROVE  \A t \in Slots : Holders(t)' = Holders(t)
<1>1. HoldersOwn'
  BY OwnersHold, PTL
<1> SUFFICES ASSUME NEW t \in Slots PROVE Holders(t)' = Holders(t)
  OBVIOUS
<1>2. /\ Holders(t) = {p \in Workers \cup {Main} : Owns(p, t)}
      /\ Holders(t)' = {p \in Workers \cup {Main} : Owns(p, t)'}
  BY <1>1, OwnersHold DEF HoldersOwn
<1> QED
  BY <1>2

\* requestSlot() gives the daemon a slot that nobody holds and that was free.
LEMMA RequestEffect ==
  ASSUME IInv, IInv', MainTake
  PROVE  \E s \in Slots :
           /\ ~slots[s] /\ slots' = [slots EXCEPT ![s] = TRUE]
           /\ Changes(s, {}, {Main})
<1>1. /\ mpc = "take" /\ mpc' = "inc" /\ UNCHANGED <<wpc, wslot, gone>>
      /\ mslot' \in FreeSlots /\ slots' = [slots EXCEPT ![mslot'] = TRUE]
  BY TakeIs DEF worker
<1>2. PICK s \in FreeSlots : mslot' = s /\ slots' = [slots EXCEPT ![s] = TRUE]
  BY <1>1
<1>3. s \in Slots /\ ~slots[s]
  BY <1>2 DEF FreeSlots
<1>4. \A p \in Workers \cup {Main} : ~Owns(p, s)
  BY <1>3, OneOwner
<1>5. Changes(s, {}, {Main})
  BY <1>1, <1>2, <1>3, <1>4, OwnerChanges, DaemonAssumption
  DEF Owns, Owner, MainOwner
<1> QED
  BY <1>2, <1>3, <1>5

\* fork() hands the daemon's slot to the worker.
LEMMA ForkEffect ==
  ASSUME IInv, IInv', MainFork
  PROVE  \E s \in Slots, w \in Workers :
           Changes(s, {Main}, {w}) /\ UNCHANGED slots
<1>1. PICK w \in Workers :
        /\ wpc[w] = "none" /\ wpc' = [wpc EXCEPT ![w] = "run"]
        /\ wslot' = [wslot EXCEPT ![w] = mslot]
  BY DEF MainFork
<1>2. mpc = "fork" /\ mpc' = "lock" /\ UNCHANGED slots /\ mslot \in Slots
  BY DEF MainFork, ipc, IInv, SlotInv, MainOwner
<1>3. w \notin gone /\ UNCHANGED gone
  BY <1>1 DEF MainFork, IInv, LockInv
<1>4. \A p \in Workers \cup {Main} : Owns(p, mslot) <=> p = Main
  BY <1>2, DaemonAssumption DEF Owns, Owner, IInv, SlotInv, MainOwner
<1>5. \A p \in Workers \cup {Main}, t \in Slots :
        Owns(p, t)' <=> \/ p = w /\ t = mslot
                        \/ p # Main /\ Owns(p, t)
  BY <1>1, <1>2, <1>3, DaemonAssumption
  DEF Owns, Owner, IInv, Types, MainOwner, WorkerOwner
<1>6. \A p \in Workers \cup {Main}, t \in Slots :
        t # mslot /\ Owns(p, t) => p # Main
  BY DaemonAssumption DEF Owns
<1>7. Changes(mslot, {Main}, {w})
  BY <1>2, <1>4, <1>5, <1>6, OwnerChanges
<1> QED
  BY <1>2, <1>7

\* The daemon gives its slot back, or drops it when it cannot fork.
LEMMA MainGivesUp ==
  ASSUME IInv, IInv', MainIdlePut \/ MainForkFails
  PROVE  mslot \in Slots /\ Changes(mslot, {Main}, {})
<1>1. /\ mpc \in MainOwner /\ mpc' \notin MainOwner /\ mslot \in Slots
      /\ UNCHANGED <<wpc, wslot, gone>>
  BY DEF MainIdlePut, MainForkFails, MainOwner, IInv, SlotInv, worker
<1>2. \A p \in Workers \cup {Main}, t \in Slots :
        /\ Owns(p, mslot) <=> p = Main
        /\ Owns(p, t)' <=> p # Main /\ Owns(p, t)
        /\ t # mslot /\ Owns(p, t) => p # Main
  BY <1>1, DaemonAssumption DEF Owns, Owner, IInv, SlotInv
<1>3. Changes(mslot, {Main}, {})
  BY <1>1, <1>2, OwnerChanges
<1> QED
  BY <1>1, <1>3

\* A worker that owns a slot gives it back, or dies with it.
LEMMA WorkerGivesUp ==
  ASSUME IInv, IInv', NEW w \in Workers, Owner(w),
         WorkerPut(w) \/ WorkerCrash(w)
  PROVE  wslot[w] \in Slots /\ Changes(wslot[w], {w}, {})
<1>1. /\ wslot[w] \in Slots /\ UNCHANGED <<mpc, mslot>>
      /\ \A v \in Workers \ {w} :
           /\ wpc'[v] = wpc[v] /\ wslot'[v] = wslot[v]
           /\ v \in gone' <=> v \in gone
      /\ wpc'[w] \notin WorkerOwner
  BY DEF WorkerPut, WorkerMoves, WorkerCrash, Terminate, daemon, IInv,
         Types, SlotInv, WorkerOwner, Owner
<1>2. \A p \in Workers \cup {Main} : Owns(p, wslot[w]) <=> p = w
  <2>1. Owns(w, wslot[w])
    BY DEF Owns
  <2> QED
    BY <1>1, <2>1, OneOwner, OwnersHold DEF HoldersOwn
<1>3. \A p \in Workers \cup {Main}, t \in Slots :
        Owns(p, t)' <=> p # w /\ Owns(p, t)
  <2> SUFFICES ASSUME NEW p \in Workers \cup {Main}, NEW t \in Slots
               PROVE  Owns(p, t)' <=> p # w /\ Owns(p, t)
    OBVIOUS
  <2>1. CASE p = Main
    BY <1>1, <2>1, DaemonAssumption DEF Owns
  <2>2. CASE p = w
    BY <1>1, <2>2, DaemonAssumption DEF Owns, Owner
  <2>3. CASE p \in Workers \ {w}
    BY <1>1, <2>3, DaemonAssumption DEF Owns, Owner
  <2> QED
    BY <2>1, <2>2, <2>3
<1>4. \A p \in Workers \cup {Main}, t \in Slots :
        t # wslot[w] /\ Owns(p, t) => p # w
  BY DaemonAssumption DEF Owns
<1>5. Changes(wslot[w], {w}, {})
  BY <1>1, <1>2, <1>3, <1>4, OwnerChanges
<1> QED
  BY <1>1, <1>5

\* No other step changes what any process owns.
LEMMA OtherEffect ==
  ASSUME IInv, IInv', Open, Open', Next,
         ~MainTake, ~MainFork, ~MainIdlePut, ~MainForkFails,
         \A w \in Workers :
           WorkerPut(w) \/ WorkerCrash(w) => ~Owner(w)
  PROVE  UNCHANGED slots /\ \A s \in Slots : Holders(s)' = Holders(s)
<1> DEFINE Same == UNCHANGED slots
                   /\ \A p \in Workers \cup {Main}, s \in Slots :
                        Owns(p, s)' <=> Owns(p, s)
<1> USE DaemonAssumption DEF Owns, Owner, ipc, daemon, worker
<1>1. /\ wpc \in [Workers -> WorkerSteps]
      /\ wslot \in [Workers -> Slots \cup {NoSlot}]
      /\ \A w \in gone : wpc[w] \notin {"none", "zombie"}
      /\ mpc \in MainOwner => mslot \in Slots
      /\ NoSlot \notin Slots
  BY DEF IInv, Types, LockInv, SlotInv, Open, Slots, NoSlot
<1>2. CASE MainLock \/ MainRelock \/ MainIdleLock \/ MainHookLock
  <2>1. Same
    BY <1>2 DEF MainLock, MainRelock, MainIdleLock, MainHookLock, AcquireAt,
                MainOwner
  <2> QED
    BY <2>1, OwnersStay
<1>3. CASE MainReap \/ MainWait
  <2>1. Same
    BY <1>1, <1>3
    DEF MainReap, MainWait, Zombies, Children, MainOwner, WorkerOwner
  <2> QED
    BY <2>1, OwnersStay
<1>4. CASE MainCheckFree \/ MainCheckFull \/ MainOutch1 \/ MainRecheck
  <2>1. Same
    BY <1>4 DEF MainCheckFree, MainCheckFull, MainOutch1, MainRecheck,
                DaemonExit, MainOwner, Open
  <2> QED
    BY <2>1, OwnersStay
<1>5. CASE MainCount \/ MainCountUnlocked
  <2>1. Same
    BY <1>1, <1>5 DEF MainCount, MainCountUnlocked, DaemonExit, MainOwner, Open,
       PutThreads
  <2> QED
    BY <2>1, OwnersStay
<1>6. CASE \/ MainHookUnlock \/ MainGetNext \/ MainRequest \/ MainInc
           \/ MainIdleRelease \/ MainIdleDec \/ MainIdleCount
  <2>1. Same
    BY <1>1, <1>6 DEF MainHookUnlock, MainGetNext, MainRequest, MainInc,
       MainIdleRelease, MainIdleDec, MainIdleCount, MainOwner, GetSlots,
       GetThreads, PutThreads
  <2> QED
    BY <2>1, OwnersStay
<1>7. CASE MainPostrun
  BY <1>7 DEF MainPostrun, Open
<1>8. ASSUME NEW w \in Workers,
             WorkerHookLock(w) \/ WorkerHookUnlock(w) \/ WorkerFinish(w)
             \/ WorkerLock(w) \/ WorkerRelease(w) \/ WorkerDec(w)
             \/ WorkerCount(w)
      PROVE  Same
  BY <1>1, <1>8 DEF WorkerHookLock, WorkerHookUnlock, WorkerFinish, WorkerLock,
     WorkerRelease, WorkerDec, WorkerCount, WorkerAcquires, WorkerMoves,
     WorkerOwner, GetSlots, GetThreads, PutThreads
<1>9. ASSUME NEW w \in Workers,
             WorkerExit(w) \/ WorkerFails(w) \/ WorkerCrash(w)
      PROVE  Same
  <2>1. ~Owner(w)
    BY <1>9 DEF WorkerExit, WorkerFails, WorkerOwner
  <2> QED
    BY <1>1, <1>9, <2>1
    DEF WorkerExit, WorkerFails, WorkerCrash, Terminate, WorkerOwner
<1>10. ASSUME NEW w \in Workers, WorkerPut(w) PROVE FALSE
  BY <1>10 DEF WorkerPut, WorkerMoves, WorkerOwner
<1>11. CASE Terminated
  BY <1>11 DEF Terminated, Open
<1>12. ASSUME Same
       PROVE  UNCHANGED slots /\ \A s \in Slots : Holders(s)' = Holders(s)
  BY <1>12, OwnersStay
<1> QED
  BY <1>2, <1>3, <1>4, <1>5, <1>6, <1>7, <1>8, <1>9, <1>10, <1>11, <1>12
  DEF Next, MainNext, WorkerNext

-----------------------------------------------------------------------------
(* The steps keep the account.                                             *)

\* The held slots are finitely many.
LEMMA HeldFinite ==
  IsFiniteSet(HeldSlots) /\ Cardinality(HeldSlots) \in Nat
BY SlotsCardinality, FS_Subset, FS_CardinalityType DEF HeldSlots

\* A slot that gets a holder, changes its holder or loses it.
LEMMA HeldChanges ==
  ASSUME NEW s, NEW from, NEW to, Changes(s, from, to)
  PROVE  /\ from = {} /\ to # {} =>
              Cardinality(HeldSlots') = Cardinality(HeldSlots) + 1
         /\ from # {} /\ to # {} => HeldSlots' = HeldSlots
         /\ from # {} /\ to = {} =>
              Cardinality(HeldSlots') = Cardinality(HeldSlots) - 1
<1>1. ASSUME from = {}, to # {}
      PROVE  HeldSlots' = HeldSlots \cup {s} /\ s \notin HeldSlots
  BY <1>1 DEF Changes, HeldSlots
<1>2. ASSUME from # {}, to # {} PROVE HeldSlots' = HeldSlots
  BY <1>2 DEF Changes, HeldSlots
<1>3. ASSUME from # {}, to = {}
      PROVE  HeldSlots' = HeldSlots \ {s} /\ s \in HeldSlots
  BY <1>3 DEF Changes, HeldSlots
<1> QED
  BY <1>1, <1>2, <1>3, HeldFinite, FS_AddElement, FS_RemoveElement

\* Every step keeps what is counted within what is held or was lost.
LEMMA SpentStep ==
  ASSUME PoolInv, Next
  PROVE  SpentInv'
<1> SUFFICES ASSUME Serving' PROVE SpentInv'
  BY DEF SpentInv
<1> USE DaemonAssumption
<1>1. IInv /\ IInv' /\ SpentInv /\ threads \in Int /\ crashes \in Nat
  BY NextInv DEF PoolInv, IInv, Types
<1>2. Serving /\ Open /\ Open'
  BY DEF Serving, Open, Next, MainNext, MainLock, MainReap, MainCheckFree,
         MainCheckFull, MainWait, MainRelock, MainOutch1, MainRecheck,
         MainRequest, MainTake, MainInc, MainCount, MainCountUnlocked,
         MainHookLock, MainHookUnlock, MainGetNext, MainIdleLock,
         MainIdleRelease, MainIdlePut, MainIdleDec, MainIdleCount, MainFork,
         MainForkFails, MainPostrun, AcquireAt, DaemonExit, WorkerNext,
         WorkerHookLock, WorkerHookUnlock, WorkerFinish, WorkerLock,
         WorkerRelease, WorkerPut, WorkerDec, WorkerCount, WorkerExit,
         WorkerFails, WorkerCrash, WorkerAcquires, WorkerMoves, Terminated,
         daemon, vars
<1>3. /\ wpc \in [Workers -> WorkerSteps]
      /\ mpc \in MainCritical <=> mutex = Main
      /\ \A w \in Workers :
           wpc[w] \in WorkerCritical /\ w \notin gone <=> mutex = w
      /\ \A w \in gone : wpc[w] \notin {"none", "zombie"}
  BY <1>1, <1>2 DEF IInv, Types, LockInv
<1>4. threads + (IF AtInc THEN 1 ELSE 0)
        <= Cardinality(HeldSlots) + crashes + (IF AtDec THEN 1 ELSE 0)
  BY <1>1, <1>2 DEF SpentInv
<1>5. CASE MainTake
  <2>1. Cardinality(HeldSlots') = Cardinality(HeldSlots) + 1
    BY <1>1, <1>5, RequestEffect, HeldChanges
  <2>2. /\ ~AtInc /\ AtInc'
        /\ UNCHANGED <<threads, crashes, AtDec>>
    BY <1>1, <1>5, TakeIs DEF worker, faults, AtDec, AtInc
  <2> QED
    BY <1>1, <1>4, <2>1, <2>2, HeldFinite DEF SpentInv
<1>6. CASE MainFork
  <2>1. HeldSlots' = HeldSlots
    BY <1>1, <1>6, ForkEffect, HeldChanges
  <2>2. /\ ~AtInc /\ ~AtInc' /\ UNCHANGED <<threads, crashes>>
        /\ AtDec => AtDec'
    BY <1>3, <1>6 DEF MainFork, ipc, faults, AtDec, AtInc
  <2> QED
    BY <1>1, <1>4, <2>1, <2>2, HeldFinite DEF SpentInv
<1>7. CASE MainIdlePut
  <2>1. Cardinality(HeldSlots') = Cardinality(HeldSlots) - 1
    BY <1>1, <1>7, MainGivesUp, HeldChanges
  <2>2. /\ ~AtInc /\ ~AtInc'
        /\ UNCHANGED <<threads, crashes>> /\ ~AtDec /\ AtDec'
    BY <1>3, <1>7
    DEF MainIdlePut, PutSlots, faults, AtDec, AtInc, MainCritical,
        WorkerCritical
  <2> QED
    BY <1>1, <1>4, <2>1, <2>2, HeldFinite DEF SpentInv
<1>8. CASE MainForkFails
  BY <1>8 DEF MainForkFails, Serving
<1>9. ASSUME NEW w \in Workers, Owner(w),
             WorkerPut(w) \/ WorkerCrash(w)
      PROVE  SpentInv'
  <2>1. Cardinality(HeldSlots') = Cardinality(HeldSlots) - 1
    BY <1>1, <1>2, <1>9, WorkerGivesUp, HeldChanges
  <2>2. CASE WorkerPut(w)
    <3>1. /\ UNCHANGED <<threads, crashes, mpc, gone>> /\ w \notin gone
          /\ wpc[w] = "put" /\ wpc' = [wpc EXCEPT ![w] = "dec"]
      BY <2>2 DEF WorkerPut, WorkerMoves, PutSlots, daemon, faults
    <3>2. AtDec'
      BY <1>3, <3>1 DEF AtDec
    <3>3. ~AtDec
      BY <1>3, <3>1 DEF AtDec, MainCritical, WorkerCritical
    <3> QED
      BY <1>1, <1>4, <2>1, <3>1, <3>2, <3>3, HeldFinite DEF SpentInv, AtInc
  <2>3. CASE WorkerCrash(w)
    <3>1. /\ UNCHANGED <<threads, mpc>> /\ crashes' = crashes + 1
          /\ AtDec => AtDec'
      BY <1>3, <1>9, <2>3
      DEF WorkerCrash, Terminate, daemon, AtDec, Owner, WorkerOwner
    <3> QED
      BY <1>1, <1>4, <2>1, <3>1, HeldFinite DEF SpentInv, AtInc
  <2> QED
    BY <1>9, <2>2, <2>3
<1>10. ASSUME ~MainTake, ~MainFork, ~MainIdlePut, ~MainForkFails,
              \A w \in Workers :
                WorkerPut(w) \/ WorkerCrash(w) => ~Owner(w)
       PROVE  SpentInv'
  <2>1. \A s \in Slots : Holders(s)' = Holders(s)
    BY <1>1, <1>2, <1>10, OtherEffect
  <2>2. HeldSlots' = HeldSlots
    BY <2>1 DEF HeldSlots
  <2>3. CASE MainCount
    <3>1. /\ AtInc /\ ~AtInc' /\ threads' = threads + 1
          /\ UNCHANGED crashes
          /\ AtDec => AtDec'
      BY <1>1, <2>3, CountIs
      DEF MainCount, PutThreads, worker, faults, AtDec, AtInc
    <3> QED
      BY <1>1, <1>4, <2>2, <3>1, HeldFinite DEF SpentInv
  <2>4. CASE MainIdleCount
    <3>1. /\ ~AtInc /\ ~AtInc' /\ threads' = threads - 1
          /\ UNCHANGED crashes
      BY <1>1, <2>4, PutIs DEF MainIdleCount, faults, AtInc
    <3> QED
      BY <1>1, <1>4, <2>2, <3>1, HeldFinite DEF SpentInv
  <2>5. ASSUME NEW w \in Workers, WorkerCount(w) PROVE SpentInv'
    <3>1. UNCHANGED mpc /\ threads' = threads - 1 /\ UNCHANGED crashes
      BY <1>1, <2>5, PutIs DEF WorkerCount, WorkerMoves, daemon, faults
    <3>2. AtDec
      BY <2>5 DEF WorkerCount, WorkerMoves, AtDec
    <3> QED
      BY <1>1, <1>4, <2>2, <3>1, <3>2, HeldFinite DEF SpentInv, AtInc
  <2>6. ASSUME NEW w \in Workers, WorkerCrash(w) PROVE SpentInv'
    <3>1. UNCHANGED <<threads, mpc>> /\ crashes' = crashes + 1
      BY <2>6 DEF WorkerCrash, daemon
    <3> QED
      BY <1>1, <1>4, <2>2, <3>1, HeldFinite DEF SpentInv, AtInc
  <2>7. ASSUME UNCHANGED <<threads, crashes>>, AtInc' => AtInc,
               AtDec => AtDec'
        PROVE  SpentInv'
    BY <1>1, <1>4, <2>2, <2>7, HeldFinite DEF SpentInv
  <2>8. CASE MainLock \/ MainRelock \/ MainIdleLock \/ MainHookLock
    BY <2>7, <2>8 DEF MainLock, MainRelock, MainIdleLock, MainHookLock,
                      AcquireAt, worker, faults, AtDec, AtInc
  <2>9. CASE MainReap \/ MainWait
    BY <1>3, <2>7, <2>9
    DEF MainReap, MainWait, Zombies, Children, ipc, faults, AtDec, AtInc
  <2>10. CASE MainCheckFree \/ MainCheckFull \/ MainOutch1 \/ MainRecheck
    BY <2>7, <2>10 DEF MainCheckFree, MainCheckFull, MainOutch1, MainRecheck,
       DaemonExit, Serving, ipc, worker, faults, AtDec, AtInc
  <2>11. CASE \/ MainHookUnlock \/ MainGetNext \/ MainPostrun
              \/ MainCountUnlocked \/ MainRequest \/ MainInc
              \/ MainIdleRelease \/ MainIdleDec
    BY <2>7, <2>11 DEF MainHookUnlock, MainGetNext, MainPostrun,
       MainCountUnlocked, MainRequest, MainInc, MainIdleRelease, MainIdleDec,
       GetSlots, GetThreads, DaemonExit, Serving, ipc, worker, faults, AtDec,
       AtInc
  <2>12. ASSUME NEW w \in Workers,
                WorkerHookLock(w) \/ WorkerHookUnlock(w) \/ WorkerFinish(w)
                \/ WorkerLock(w) \/ WorkerRelease(w) \/ WorkerDec(w)
         PROVE  SpentInv'
    BY <1>3, <2>7, <2>12
    DEF WorkerHookLock, WorkerHookUnlock, WorkerFinish, WorkerLock,
        WorkerRelease, WorkerDec, GetSlots, GetThreads, WorkerAcquires,
        WorkerMoves, ipc, daemon, faults, AtDec, AtInc
  <2>13. ASSUME NEW w \in Workers, WorkerExit(w) \/ WorkerFails(w)
         PROVE  SpentInv'
    <3>1. AtDec => AtDec'
      BY <1>3, <2>13 DEF WorkerExit, WorkerFails, Terminate, daemon, AtDec
    <3>2. UNCHANGED <<threads, crashes, mpc>>
      BY <2>13 DEF WorkerExit, WorkerFails, ipc, daemon, faults
    <3> QED
      BY <2>7, <3>1, <3>2 DEF AtInc
  <2>14. ASSUME NEW w \in Workers, WorkerPut(w) PROVE FALSE
    BY <1>10, <2>14 DEF WorkerPut, WorkerMoves, WorkerOwner, Owner
  <2>15. CASE Terminated
    BY <1>2, <2>15 DEF Terminated, Open
  <2> QED
    BY <1>10, <2>3, <2>4, <2>5, <2>6, <2>8, <2>9, <2>10, <2>11, <2>12, <2>13,
       <2>14, <2>15 DEF Next, MainNext, WorkerNext
<1> QED
  BY <1>5, <1>6, <1>7, <1>8, <1>9, <1>10

\* The invariant with what crashes cost is preserved by every step and stutter.
LEMMA PoolInvStep == PoolInv /\ [Next]_vars => PoolInv'
<1>1. ASSUME PoolInv, UNCHANGED vars PROVE SpentInv'
  <2>1. UNCHANGED HeldSlots
    BY <1>1 DEF vars, HeldSlots, Holders, WorkerHolds, MainHolds
  <2> QED
    BY <1>1, <2>1 DEF vars, PoolInv, SpentInv, Serving, AtDec, AtInc
<1> QED
  BY <1>1, SpentStep, NextInv DEF PoolInv

\* One life of the daemon satisfies it.
THEOREM PoolInvariance == Spec => []PoolInv
<1>1. Init => PoolInv
  <2> SUFFICES ASSUME Init PROVE SpentInv
    BY InitInv DEF PoolInv
  <2> QED
    BY HeldFinite DEF Init, Prerun, SpentInv, AtInc
<1> QED
  BY <1>1, PoolInvStep, PTL DEF Spec

\* The invariant bounds what is counted when the semaphore is free.
LEMMA InvCrash == PoolInv => CrashCostsOneSlot
<1> SUFFICES ASSUME PoolInv, mutex = Free, Serving
             PROVE  /\ Cardinality(HeldSlots) <= threads
                    /\ threads <= Cardinality(HeldSlots) + crashes
  BY DEF CrashCostsOneSlot
<1>1. ~AtDec /\ ~AtInc
  BY DaemonAssumption
  DEF PoolInv, IInv, LockInv, AtDec, AtInc, MainCritical, WorkerCritical
<1>2. HeldSlots \subseteq TakenSlots
  BY SlotsAreTaken DEF PoolInv
<1>3. Cardinality(HeldSlots) <= Cardinality(TakenSlots)
  BY <1>2, TakenFinite, FS_Subset
<1>4. Cardinality(TakenSlots) <= threads /\ threads \in Int
  BY <1>1, TakenFinite DEF PoolInv, IInv, CountInv, Types
<1> QED
  BY <1>1, <1>3, <1>4, TakenFinite, HeldFinite
  DEF PoolInv, SpentInv, IInv, Types

\* With the semaphore free the counter is the number of held slots, but for what
\* crashed workers left counted: at most one unit each.
THEOREM CrashesCostOneSlot == Spec => []CrashCostsOneSlot
BY InvCrash, PoolInvariance, PTL

\* Outch1 is reached only after as many crashes as there are slots: nobody holds
\* a slot then, and the counter is at its limit.
THEOREM Outch1CostsAllSlots == Spec => []Outch1NeedsCrashes
<1>1. PoolInv => Outch1NeedsCrashes
  <2> SUFFICES ASSUME PoolInv, mpc = "recheck" PROVE crashes >= MaxThreads
    BY DEF Outch1NeedsCrashes
  <2>1. /\ \A w \in Workers : wpc[w] # "none" => w \in gone
        /\ threads >= MaxThreads /\ threads \in Int /\ crashes \in Nat
    BY DEF PoolInv, IInv, Types, LockInv, WaitInv
  <2>2. HeldSlots = {} /\ ~AtDec
    BY <2>1 DEF HeldSlots, Holders, WorkerHolds, MainHolds, AtDec
  <2>3. Cardinality(HeldSlots) = 0
    BY <2>2, FS_EmptySet
  <2> QED
    BY <2>1, <2>2, <2>3, DaemonAssumption DEF PoolInv, SpentInv, Serving, AtInc
<1> QED
  BY <1>1, PoolInvariance, PTL

-----------------------------------------------------------------------------
(* The daemon implements SlotPool.                                         *)

\* The refinement mapping of ImplementsPool.
PoolHolders == [s \in Slots |-> IF mpc \in {"stopped", "dead"} THEN {}
                                                             ELSE Holders(s)]
PoolLost    == {s \in TakenSlots : mpc \notin {"stopped", "dead"}
                                     /\ Holders(s) = {}}
PoolVars    == <<PoolHolders, PoolLost, mpc \notin {"stopped", "dead"}>>

\* A step in which a slot changes hands maps to a step of the pool.
LEMMA PoolChanges ==
  ASSUME IInv, Open, Open', NEW s, NEW from, NEW to, Changes(s, from, to)
  PROVE  /\ PoolHolders[s] = from
         /\ PoolHolders' = [PoolHolders EXCEPT ![s] = to]
BY DEF Changes, Open, PoolHolders

\* Every step of a daemon that goes on maps to a step of the pool or a stutter.
LEMMA PoolOpenStep ==
  ASSUME IInv, IInv', Open, Open', Next
  PROVE  Pool!Next \/ UNCHANGED PoolVars
<1> USE DEF Open
<1>1. slots \in [Slots -> BOOLEAN]
  BY DEF IInv, Types
<1>2. CASE MainTake
  <2>1. PICK s \in Slots : /\ ~slots[s] /\ slots' = [slots EXCEPT ![s] = TRUE]
                           /\ Changes(s, {}, {Main})
    BY <1>2, RequestEffect
  <2>2. s \notin PoolLost /\ PoolLost' = PoolLost
    BY <1>1, <2>1 DEF PoolLost, TakenSlots, Changes
  <2>3. Pool!Acquire(s)
    BY <2>1, <2>2, PoolChanges DEF Pool!Acquire, PoolHolders, PoolLost
  <2> QED
    BY <2>3 DEF Pool!Next
<1>3. CASE MainFork
  <2>1. PICK s \in Slots, w \in Workers :
          Changes(s, {Main}, {w}) /\ UNCHANGED slots
    BY <1>3, ForkEffect
  <2>2. PoolLost' = PoolLost
    BY <2>1 DEF PoolLost, TakenSlots, Changes
  <2>3. Pool!HandOver(s, w)
    BY <2>1, <2>2, PoolChanges DEF Pool!HandOver, PoolHolders, PoolLost
  <2> QED
    BY <2>3 DEF Pool!Next
<1>4. ASSUME NEW s \in Slots, NEW p \in Workers \cup {Main},
             Changes(s, {p}, {}), slots' = [slots EXCEPT ![s] = FALSE]
      PROVE  Pool!Next
  <2>1. PoolLost' = PoolLost
    BY <1>1, <1>4 DEF PoolLost, TakenSlots, Changes
  <2>2. Pool!Release(s, p)
    BY <1>4, <2>1, PoolChanges DEF Pool!Release, PoolHolders, PoolLost
  <2> QED
    BY <2>2 DEF Pool!Next
<1>5. ASSUME NEW s \in Slots, NEW p \in Workers \cup {Main},
             Changes(s, {p}, {}), UNCHANGED slots, slots[s]
      PROVE  Pool!Next
  <2>1. PoolLost' = PoolLost \cup {s}
    BY <1>1, <1>5 DEF PoolLost, TakenSlots, Changes
  <2>2. Pool!Lose(s, p)
    BY <1>5, <2>1, PoolChanges DEF Pool!Lose, PoolHolders, PoolLost
  <2> QED
    BY <2>2 DEF Pool!Next
<1>6. CASE MainIdlePut
  BY <1>4, <1>6, MainGivesUp, PutIs
<1>7. CASE MainForkFails
  <2>1. mslot \in Slots /\ slots[mslot] /\ UNCHANGED slots
    BY <1>7, MainGivesUp DEF MainForkFails, ipc, IInv, SlotInv, MainOwner
  <2> QED
    BY <1>5, <1>7, <2>1, MainGivesUp
<1>8. ASSUME NEW w \in Workers, Owner(w),
             WorkerPut(w) \/ WorkerCrash(w)
      PROVE  Pool!Next
  <2>1. wslot[w] \in Slots /\ Changes(wslot[w], {w}, {})
    BY <1>8, WorkerGivesUp
  <2>2. CASE WorkerPut(w)
    BY <1>4, <2>1, <2>2, PutIs
  <2>3. CASE WorkerCrash(w)
    <3>1. slots[wslot[w]]
      BY <1>8, <2>1, OneOwner DEF Owns
    <3> QED
      BY <1>5, <2>1, <2>3, <3>1 DEF WorkerCrash
  <2> QED
    BY <1>8, <2>2, <2>3
<1>9. ASSUME ~MainTake, ~MainFork, ~MainIdlePut, ~MainForkFails,
             \A w \in Workers :
               WorkerPut(w) \/ WorkerCrash(w) => ~Owner(w)
      PROVE  UNCHANGED PoolVars
  BY <1>9, OtherEffect DEF PoolVars, PoolHolders, PoolLost, TakenSlots
<1> QED
  BY <1>2, <1>3, <1>6, <1>7, <1>8, <1>9

\* A daemon that has ended does not start again in one life.
LEMMA EndIsEnd ==
  ASSUME ~Open, Next
  PROVE  ~Open'
BY DEF Open, Next, MainNext, MainLock, MainReap, MainCheckFree, MainCheckFull,
       MainWait, MainRelock, MainOutch1, MainRecheck, MainRequest, MainTake,
       MainInc, MainCount, MainCountUnlocked, MainHookLock, MainHookUnlock,
       MainGetNext, MainIdleLock, MainIdleRelease, MainIdlePut, MainIdleDec,
       MainIdleCount, MainFork, MainForkFails, MainPostrun, AcquireAt,
       WorkerNext, WorkerHookLock, WorkerHookUnlock, WorkerFinish, WorkerLock,
       WorkerRelease, WorkerPut, WorkerDec, WorkerCount, WorkerExit,
       WorkerFails, WorkerCrash, WorkerAcquires, WorkerMoves, Terminated,
       daemon, vars

\* handle() implements the slot pool: a slot has one holder, passes from the
\* daemon to its worker, and is given again only after it was given back.
THEOREM PoolIsImplemented == Spec => ImplementsPool
<1>1. Init => Pool!Init
  BY DEF Init, Prerun, Pool!Init, Holders, WorkerHolds, MainHolds, TakenSlots
<1>2. IInv /\ IInv' /\ [Next]_vars => [Pool!Next]_PoolVars
  <2> SUFFICES ASSUME IInv, IInv', [Next]_vars
               PROVE  Pool!Next \/ UNCHANGED PoolVars
    OBVIOUS
  <2>1. CASE UNCHANGED vars
    BY <2>1 DEF vars, PoolVars, PoolHolders, PoolLost, TakenSlots, Holders,
                WorkerHolds, MainHolds
  <2>2. CASE Next /\ Open /\ Open'
    BY <2>2, PoolOpenStep
  <2>3. CASE Next /\ Open /\ ~Open'
    <3>1. Pool!Close
      BY <2>3 DEF Pool!Close, Open
    <3> QED
      BY <3>1 DEF Pool!Next
  <2>4. CASE Next /\ ~Open
    <3>1. ~Open'
      BY <2>4, EndIsEnd
    <3> QED
      BY <2>4, <3>1 DEF Open, PoolVars, PoolHolders, PoolLost
  <2> QED
    BY <2>1, <2>2, <2>3, <2>4
<1> QED
  BY <1>1, <1>2, Invariance, PTL
  DEF Spec, ImplementsPool, Pool!Spec, Pool!pool, PoolVars, PoolHolders,
      PoolLost

-----------------------------------------------------------------------------
(* Several lives: the inductive invariant.                                 *)

\* A daemon that was never killed keeps the invariant of one life.
CleanInv == kills = 0 => PoolInv

\* The workers that still have to decrement a counter, and the daemon's own
\* increment that no worker stands for yet.
Work == {w \in Workers : AtWork(w)}

DaemonCounted == mpc \in {"getnext", "hook", "fork", "idlelock",
                          "idlerelease", "idleput", "idledec", "idlecount"}

\* Where the daemon may be without the semaphore after Outch1.
Unlocked == {"request", "take", "inc", "count"}

Counted == Cardinality(Work) + (IF DaemonCounted THEN 1 ELSE 0)

\* The counter of a running daemon misses no more workers than were inherited:
\* those it never counted and those that have decremented it all the same.
JobsInv ==
  /\ IsFiniteSet(Work)
  /\ ~Ended => Counted <= threads + inherited
  /\ Counted <= MaxThreads + inherited
  /\ mpc \in Unlocked => threads < MaxThreads

RTypes ==
  /\ threads \in Int /\ kills \in Nat /\ restarts \in Nat /\ inherited \in Nat
  /\ wpc \in [Workers -> WorkerSteps]
  /\ count \in [Procs -> Int]

\* Two processes are never between lock() and unlock() at once, so whoever is
\* about to write the counter back has read what is there.  The exception is
\* the daemon that goes on without the semaphore after Outch1; it ends as soon
\* as it has written.
RLockInv ==
  /\ \A w \in Workers : wpc[w] \in WorkerCritical /\ w \notin gone => mutex = w
  /\ mpc \in MainCritical => mutex = Main \/ mpc \in Unlocked
  /\ ~Ended => \A w \in Workers :
                 wpc[w] = "count" /\ w \notin gone => count[w] = threads
  /\ mpc \in {"count", "idlecount"} /\ mutex = Main => count[Main] = threads

RestartInv == RTypes /\ CleanInv /\ RLockInv /\ JobsInv

-----------------------------------------------------------------------------
(* A daemon that was never killed.                                         *)

\* What _prerun() finds after a daemon that ended by itself is as good as new.
LEMMA RestartClean ==
  ASSUME RTypes, IsFiniteSet(Work), PoolInv, Restart
  PROVE  PoolInv'
<1> USE DaemonAssumption
<1>1. /\ Ended /\ mutex = Free /\ mpc' = "lock" /\ threads' = 0
      /\ slots' = [s \in Slots |-> FALSE]
      /\ restarts' = restarts + 1
      /\ inherited' = inherited + Cardinality(Work)
      /\ UNCHANGED <<mutex, table, count, mslot, wpc, wslot, orphans, gone,
                     crashes, kills>>
  BY DEF Restart, locals, worker, Work
<1>2. \A w \in Workers : wpc[w] # "none" => w \in gone
  BY <1>1 DEF PoolInv, IInv, LockInv, Ended
<1>3. TakenSlots' = {} /\ HeldSlots' = {}
  BY <1>1, <1>2 DEF TakenSlots, HeldSlots, Holders, WorkerHolds, MainHolds
<1>4. Cardinality(TakenSlots') = 0 /\ Cardinality(HeldSlots') = 0
  BY <1>3, FS_EmptySet
<1>5. ~AtDec' /\ ~AtInc'
  BY <1>1, <1>2 DEF AtDec, AtInc
<1>6. Types'
  <2>1. Types /\ Cardinality(Work) \in Nat
    BY FS_CardinalityType DEF PoolInv, IInv
  <2> QED
    BY <1>1, <2>1 DEF Types, MainSteps
<1>7. LockInv'
  BY <1>1, <1>2
  DEF PoolInv, IInv, Types, LockInv, MainCritical, WorkerCritical, Ended
<1>8. SlotInv'
  BY <1>1, <1>2
  DEF PoolInv, IInv, Types, LockInv, SlotInv, MainOwner, WorkerOwner
<1>9. CountInv' /\ WaitInv' /\ SpentInv'
  BY <1>1, <1>4, <1>5
  DEF PoolInv, IInv, Types, CountInv, WaitInv, SpentInv
<1>10. CopyInv'
  BY <1>1, <1>2 DEF CopyInv
<1> QED
  BY <1>6, <1>7, <1>8, <1>9, <1>10 DEF PoolInv, IInv

\* The lives that follow one another without a kill keep the invariant.
LEMMA CleanStep ==
  ASSUME RTypes, IsFiniteSet(Work), CleanInv, [RNext]_vars
  PROVE  CleanInv' /\ kills' \in Nat /\ restarts' \in Nat
<1>1. CASE [Next]_vars
  BY <1>1, PoolInvStep, OneLife DEF CleanInv, RTypes
<1>2. CASE Kill
  BY <1>2 DEF Kill, CleanInv, RTypes
<1>3. CASE Restart
  <2>1. UNCHANGED kills /\ restarts' = restarts + 1
    BY <1>3 DEF Restart
  <2> QED
    BY <1>3, <2>1, RestartClean DEF CleanInv, RTypes
<1> QED
  BY <1>1, <1>2, <1>3 DEF RNext

-----------------------------------------------------------------------------
(* Jobs beside orphans.                                                    *)

\* A step that counts nothing down and puts no worker to work.
LEMMA JobsQuiet ==
  ASSUME RTypes, JobsInv, Work' \subseteq Work,
         UNCHANGED <<threads, inherited>>,
         DaemonCounted' => DaemonCounted, ~Ended' => ~Ended,
         mpc' \in Unlocked =>
           mpc \in Unlocked \/ threads < MaxThreads
  PROVE  JobsInv'
<1>1. /\ IsFiniteSet(Work') /\ Cardinality(Work') <= Cardinality(Work)
      /\ Cardinality(Work') \in Nat /\ Cardinality(Work) \in Nat
  BY FS_Subset, FS_CardinalityType DEF JobsInv
<1>2. Counted' <= Counted /\ Counted' \in Nat /\ Counted \in Nat
  BY <1>1 DEF Counted
<1> QED
  BY <1>1, <1>2, DaemonAssumption DEF JobsInv, RTypes

\* fork(): the worker takes over what the daemon has counted.
LEMMA JobsFork ==
  ASSUME RTypes, JobsInv, MainFork
  PROVE  JobsInv'
<1>1. /\ mpc = "fork" /\ mpc' = "lock" /\ UNCHANGED <<threads, inherited>>
      /\ \E w \in Workers : wpc[w] = "none" /\ wpc' = [wpc EXCEPT ![w] = "run"]
  BY DEF MainFork, ipc, faults
<1>2. PICK w \in Workers : w \notin Work /\ Work' = Work \cup {w}
  BY <1>1 DEF Work, AtWork, RTypes
<1>3. /\ IsFiniteSet(Work') /\ Cardinality(Work) \in Nat
      /\ Cardinality(Work') = Cardinality(Work) + 1
  BY <1>2, FS_AddElement, FS_CardinalityType DEF JobsInv
<1> QED
  BY <1>1, <1>3, DaemonAssumption
  DEF JobsInv, Counted, DaemonCounted, Unlocked, Ended, RTypes

\* decThreads() by a worker, of whichever life.
LEMMA JobsDec ==
  ASSUME RTypes, RLockInv, JobsInv, NEW w \in Workers, WorkerCount(w)
  PROVE  JobsInv'
<1>1. /\ wpc[w] = "count" /\ wpc' = [wpc EXCEPT ![w] = "exit"]
      /\ ~Ended => threads' = threads - 1
      /\ UNCHANGED <<mpc, inherited>>
  BY DEF WorkerCount, WorkerMoves, PutThreads, RLockInv, daemon, faults
<1>2. w \in Work /\ Work' = Work \ {w}
  BY <1>1 DEF Work, AtWork, RTypes
<1>3. /\ IsFiniteSet(Work') /\ Cardinality(Work) \in Nat
      /\ Cardinality(Work') = Cardinality(Work) - 1
  BY <1>2, FS_RemoveElement, FS_CardinalityType DEF JobsInv
<1> QED
  BY <1>1, <1>3, DaemonAssumption
  DEF JobsInv, Counted, DaemonCounted, Unlocked, Ended, RTypes

\* incThreads() and decThreads() by the daemon.
LEMMA JobsCount ==
  ASSUME RTypes, RLockInv, JobsInv, MainCount \/ MainIdleCount
  PROVE  JobsInv'
<1>1. UNCHANGED <<wpc, inherited>>
  BY DEF MainCount, MainIdleCount, worker, faults
<1>2. Work' = Work
  BY <1>1 DEF Work, AtWork
<1>3. Cardinality(Work) \in Nat
  BY FS_CardinalityType DEF JobsInv
<1>4. CASE MainCount
  <2>1. threads' = threads + 1 /\ mpc = "count"
        /\ mpc' \in {"postrun", "getnext"}
    BY <1>4 DEF MainCount, PutThreads, RLockInv
  <2> QED
    BY <1>1, <1>2, <1>3, <2>1, DaemonAssumption
    DEF JobsInv, Counted, DaemonCounted, Unlocked, Ended, RTypes
<1>5. CASE MainIdleCount
  <2>1. threads' = threads - 1 /\ mpc = "idlecount" /\ mpc' = "lock"
    BY <1>5 DEF MainIdleCount, PutThreads, RLockInv, MainCritical, Unlocked
  <2> QED
    BY <1>1, <1>2, <1>3, <2>1, DaemonAssumption
    DEF JobsInv, Counted, DaemonCounted, Unlocked, Ended, RTypes
<1> QED
  BY <1>4, <1>5

\* The end of a daemon counts nothing and leaves its workers at work.
LEMMA JobsEnd ==
  ASSUME RTypes, JobsInv, MainCountUnlocked \/ MainPostrun \/ Kill
  PROVE  JobsInv'
<1>1. Ended' /\ AbandonWorkers /\ UNCHANGED inherited
  BY DEF MainCountUnlocked, MainPostrun, Kill, DaemonExit, Ended, faults
<1>2. Work' = Work
  BY <1>1 DEF AbandonWorkers, Work, AtWork, RTypes
<1>3. Cardinality(Work) \in Nat
  BY FS_CardinalityType DEF JobsInv
<1> QED
  BY <1>1, <1>2, <1>3, DaemonAssumption
  DEF JobsInv, Counted, DaemonCounted, Unlocked, Ended, RTypes

\* The next daemon inherits all who are at work.
LEMMA JobsRestart ==
  ASSUME RTypes, JobsInv, Restart
  PROVE  JobsInv'
<1>1. /\ mpc' = "lock" /\ threads' = 0 /\ UNCHANGED wpc
      /\ inherited' = inherited + Cardinality(Work)
  BY DEF Restart, worker, Work
<1>2. Work' = Work
  BY <1>1 DEF Work, AtWork
<1>3. Cardinality(Work) \in Nat
  BY FS_CardinalityType DEF JobsInv
<1> QED
  BY <1>1, <1>2, <1>3, DaemonAssumption
  DEF JobsInv, Counted, DaemonCounted, Unlocked, Ended, RTypes

\* Every step keeps the types that the argument needs.
LEMMA RTypesStep ==
  ASSUME RTypes, IsFiniteSet(Work), CleanInv, [RNext]_vars
  PROVE  RTypes'
<1>1. kills' \in Nat /\ restarts' \in Nat
  BY CleanStep
<1>2. /\ threads \in Int /\ inherited \in Nat
      /\ wpc \in [Workers -> WorkerSteps] /\ count \in [Procs -> Int]
  BY DEF RTypes
<1>3. \A p \in Procs : DropLocals(p) \/ GetThreads(p)
                         => count' \in [Procs -> Int]
  BY <1>2 DEF DropLocals, GetThreads
<1>4. count' \in [Procs -> Int]
  <2>1. UNCHANGED count \/ \E p \in Procs : DropLocals(p) \/ GetThreads(p)
    BY DEF Procs, RNext, Kill, Restart, Next, MainNext, MainLock, MainReap,
       MainCheckFree, MainCheckFull, MainWait, MainRelock, MainOutch1,
       MainRecheck, MainRequest, MainTake, MainInc, MainCount,
       MainCountUnlocked, MainHookLock, MainHookUnlock, MainGetNext,
       MainIdleLock, MainIdleRelease, MainIdlePut, MainIdleDec, MainIdleCount,
       MainFork, MainForkFails, MainPostrun, AcquireAt, DaemonExit, GetSlots,
       PutSlots, PutThreads, WorkerNext, WorkerHookLock, WorkerHookUnlock,
       WorkerFinish, WorkerLock, WorkerRelease, WorkerPut, WorkerDec,
       WorkerCount, WorkerExit, WorkerFails, WorkerCrash, WorkerAcquires,
       WorkerMoves, Terminate, Terminated, ipc, locals, vars
  <2> QED
    BY <1>2, <1>3, <2>1
<1>5. threads' \in Int /\ inherited' \in Nat
  <2>1. UNCHANGED threads \/ threads' = 0
        \/ \E p \in Procs : threads' = count[p] + 1 \/ threads' = count[p] - 1
    BY DEF Procs, RNext, Kill, Restart, Next, MainNext, MainLock, MainReap,
       MainCheckFree, MainCheckFull, MainWait, MainRelock, MainOutch1,
       MainRecheck, MainRequest, MainTake, MainInc, MainCount,
       MainCountUnlocked, MainHookLock, MainHookUnlock, MainGetNext,
       MainIdleLock, MainIdleRelease, MainIdlePut, MainIdleDec, MainIdleCount,
       MainFork, MainForkFails, MainPostrun, AcquireAt, GetSlots, GetThreads,
       PutSlots, PutThreads, WorkerNext, WorkerHookLock, WorkerHookUnlock,
       WorkerFinish, WorkerLock, WorkerRelease, WorkerPut, WorkerDec,
       WorkerCount, WorkerExit, WorkerFails, WorkerCrash, WorkerAcquires,
       WorkerMoves, Terminated, ipc, vars
  <2>2. UNCHANGED inherited \/ inherited' = inherited + Cardinality(Work)
    BY DEF RNext, Kill, Restart, Work, Next, MainNext, MainLock, MainReap,
       MainCheckFree, MainCheckFull, MainWait, MainRelock, MainOutch1,
       MainRecheck, MainRequest, MainTake, MainInc, MainCount,
       MainCountUnlocked, MainHookLock, MainHookUnlock, MainGetNext,
       MainIdleLock, MainIdleRelease, MainIdlePut, MainIdleDec, MainIdleCount,
       MainFork, MainForkFails, MainPostrun, AcquireAt, WorkerNext,
       WorkerHookLock, WorkerHookUnlock, WorkerFinish, WorkerLock,
       WorkerRelease, WorkerPut, WorkerDec, WorkerCount, WorkerExit,
       WorkerFails, WorkerCrash, WorkerAcquires, WorkerMoves, Terminated,
       faults, vars
  <2>3. Cardinality(Work) \in Nat /\ \A p \in Procs : count[p] \in Int
    BY <1>2, FS_CardinalityType
  <2> QED
    BY <1>2, <2>1, <2>2, <2>3
<1>6. wpc' \in [Workers -> WorkerSteps]
  <2>1. CASE \E w \in Workers : WorkerNext(w) \/ WorkerCrash(w)
    BY <1>2, <2>1 DEF WorkerNext, WorkerHookLock, WorkerHookUnlock,
       WorkerFinish, WorkerLock, WorkerRelease, WorkerPut, WorkerDec,
       WorkerCount, WorkerExit, WorkerFails, WorkerCrash, WorkerAcquires,
       WorkerMoves, Terminate, WorkerSteps
  <2>2. CASE MainReap \/ MainWait \/ MainFork \/ MainPostrun \/ AbandonWorkers
    BY <1>2, <2>2 DEF MainReap, MainWait, MainFork, MainPostrun,
       AbandonWorkers, Zombies, Children, WorkerSteps
  <2>3. \/ \E w \in Workers : WorkerNext(w) \/ WorkerCrash(w)
        \/ MainReap \/ MainWait \/ MainFork \/ MainPostrun \/ AbandonWorkers
        \/ UNCHANGED wpc
    BY DEF RNext, Kill, Restart, Next, MainNext, MainLock, MainCheckFree,
       MainCheckFull, MainRelock, MainOutch1, MainRecheck, MainRequest,
       MainTake, MainInc, MainCount, MainCountUnlocked, MainHookLock,
       MainHookUnlock, MainGetNext, MainIdleLock, MainIdleRelease, MainIdlePut,
       MainIdleDec, MainIdleCount, MainForkFails, AcquireAt, DaemonExit,
       Terminated, worker, vars
  <2> QED
    BY <1>2, <2>1, <2>2, <2>3
<1> QED
  BY <1>1, <1>4, <1>5, <1>6 DEF RTypes

\* The semaphore keeps excluding, whichever life a process belongs to.
LEMMA RLockStep ==
  ASSUME RTypes, RLockInv, [RNext]_vars
  PROVE  RLockInv'
<1> USE DaemonAssumption DEF RTypes, RLockInv, MainCritical, WorkerCritical,
    WorkerSteps, Unlocked, Ended, Procs, ipc, locals, daemon, worker, faults
<1>1. CASE MainLock \/ MainRelock \/ MainHookLock \/ MainIdleLock
  BY <1>1 DEF MainLock, MainRelock, MainHookLock, MainIdleLock, AcquireAt
<1>2. CASE MainReap \/ MainWait \/ MainFork
  BY <1>2 DEF MainReap, MainWait, MainFork, Zombies, Children
<1>3. CASE MainCheckFree \/ MainCheckFull \/ MainOutch1
  BY <1>3 DEF MainCheckFree, MainCheckFull, MainOutch1
<1>4. CASE MainRecheck
  BY <1>4 DEF MainRecheck, DaemonExit, AbandonWorkers, DropLocals
<1>5. CASE MainRequest \/ MainInc \/ MainIdleRelease \/ MainIdleDec
  BY <1>5 DEF MainRequest, MainInc, MainIdleRelease, MainIdleDec, GetSlots,
     GetThreads
<1>6. CASE MainTake \/ MainIdlePut
  BY <1>6 DEF MainTake, MainIdlePut, PutSlots, DropLocals
<1>7. CASE MainCount \/ MainIdleCount
  BY <1>7 DEF MainCount, MainIdleCount, PutThreads, DropLocals
<1>8. CASE MainCountUnlocked \/ MainPostrun \/ Kill
  BY <1>8 DEF MainCountUnlocked, MainPostrun, Kill, DaemonExit,
     AbandonWorkers, DropLocals, Live
<1>9. CASE MainHookUnlock \/ MainGetNext \/ MainForkFails
  BY <1>9 DEF MainHookUnlock, MainGetNext, MainForkFails
<1>10. ASSUME NEW w \in Workers, WorkerHookLock(w) \/ WorkerLock(w)
       PROVE  RLockInv'
  BY <1>10 DEF WorkerHookLock, WorkerLock, WorkerAcquires, WorkerMoves
<1>11. ASSUME NEW w \in Workers, WorkerHookUnlock(w) \/ WorkerFinish(w)
       PROVE  RLockInv'
  BY <1>11 DEF WorkerHookUnlock, WorkerFinish, WorkerMoves
<1>12. ASSUME NEW w \in Workers, WorkerRelease(w) \/ WorkerDec(w)
       PROVE  RLockInv'
  BY <1>12 DEF WorkerRelease, WorkerDec, WorkerMoves, GetSlots, GetThreads
<1>13. ASSUME NEW w \in Workers, WorkerPut(w) PROVE RLockInv'
  BY <1>13 DEF WorkerPut, WorkerMoves, PutSlots, DropLocals
<1>14. ASSUME NEW w \in Workers, WorkerCount(w) PROVE RLockInv'
  BY <1>14 DEF WorkerCount, WorkerMoves, PutThreads, DropLocals
<1>15. ASSUME NEW w \in Workers,
              WorkerExit(w) \/ WorkerFails(w) \/ WorkerCrash(w)
       PROVE  RLockInv'
  BY <1>15 DEF WorkerExit, WorkerFails, WorkerCrash, Terminate, DropLocals
<1>16. CASE Restart \/ Terminated \/ UNCHANGED vars
  BY <1>16 DEF Restart, Terminated, vars
<1> QED
  BY <1>1, <1>2, <1>3, <1>4, <1>5, <1>6, <1>7, <1>8, <1>9, <1>10, <1>11,
     <1>12, <1>13, <1>14, <1>15, <1>16 DEF RNext, Next, MainNext, WorkerNext

\* Every step keeps the bound on the jobs.
LEMMA JobsStep ==
  ASSUME RTypes, RLockInv, JobsInv, [RNext]_vars
  PROVE  JobsInv'
<1>1. CASE \/ MainLock \/ MainCheckFree \/ MainCheckFull \/ MainRelock
           \/ MainOutch1 \/ MainRequest \/ MainTake \/ MainInc
           \/ MainHookLock \/ MainHookUnlock \/ MainGetNext
           \/ MainIdleLock \/ MainIdleRelease \/ MainIdlePut \/ MainIdleDec
           \/ MainForkFails \/ Terminated \/ UNCHANGED vars
  <2>1. UNCHANGED <<threads, wpc, inherited>>
    BY <1>1 DEF MainLock, MainCheckFree, MainCheckFull, MainRelock, MainOutch1,
       MainRequest, MainTake, MainInc, MainHookLock, MainHookUnlock,
       MainGetNext, MainIdleLock, MainIdleRelease, MainIdlePut, MainIdleDec,
       MainForkFails, GetSlots, GetThreads, PutSlots, AcquireAt, Terminated, ipc, worker,
       faults, vars
  <2>2. /\ DaemonCounted' => DaemonCounted
        /\ ~Ended' => ~Ended
        /\ mpc' \in Unlocked =>
             mpc \in Unlocked \/ threads < MaxThreads
    BY <1>1 DEF MainLock, MainCheckFree, MainCheckFull, MainRelock, MainOutch1,
       MainRequest, MainTake, MainInc, MainHookLock, MainHookUnlock,
       MainGetNext, MainIdleLock, MainIdleRelease, MainIdlePut, MainIdleDec,
       MainForkFails, GetSlots, GetThreads, PutSlots, AcquireAt, Terminated, HasFreeSlot,
       DaemonCounted, Unlocked, Ended, vars
  <2> QED
    BY <2>1, <2>2, JobsQuiet DEF Work, AtWork
<1>2. CASE MainReap \/ MainWait
  <2>1. Work' \subseteq Work
    BY <1>2 DEF MainReap, MainWait, Zombies, Children, Work, AtWork, RTypes
  <2> QED
    BY <1>2, <2>1, JobsQuiet
    DEF MainReap, MainWait, ipc, faults, DaemonCounted, Unlocked, Ended
<1>3. CASE MainRecheck
  <2>1. Work' \subseteq Work
    BY <1>3 DEF MainRecheck, DaemonExit, AbandonWorkers, worker, Work, AtWork,
                RTypes
  <2> QED
    BY <1>3, <2>1, JobsQuiet DEF MainRecheck, DaemonExit, HasFreeSlot, ipc,
       faults, DaemonCounted, Unlocked, Ended
<1>4. CASE MainFork \/ MainCount \/ MainIdleCount
  BY <1>4, JobsFork, JobsCount
<1>5. CASE MainCountUnlocked \/ MainPostrun \/ Kill
  BY <1>5, JobsEnd
<1>6. ASSUME NEW w \in Workers,
             \/ WorkerHookLock(w) \/ WorkerHookUnlock(w) \/ WorkerFinish(w)
             \/ WorkerLock(w) \/ WorkerRelease(w) \/ WorkerPut(w)
             \/ WorkerDec(w) \/ WorkerExit(w) \/ WorkerFails(w)
             \/ WorkerCrash(w)
      PROVE  JobsInv'
  <2>1. Work' \subseteq Work
    BY <1>6 DEF WorkerHookLock, WorkerHookUnlock, WorkerFinish, WorkerLock,
       WorkerRelease, WorkerPut, WorkerDec, WorkerExit, WorkerFails,
       WorkerCrash, WorkerAcquires, WorkerMoves, Terminate, Work, AtWork,
       RTypes
  <2>2. UNCHANGED <<threads, inherited, mpc>>
    BY <1>6 DEF WorkerHookLock, WorkerHookUnlock, WorkerFinish, WorkerLock,
       WorkerRelease, WorkerPut, WorkerDec, GetSlots, GetThreads, PutSlots,
       WorkerExit, WorkerFails, WorkerCrash, WorkerAcquires, WorkerMoves, ipc,
       daemon, faults
  <2> QED
    BY <2>1, <2>2, JobsQuiet DEF DaemonCounted, Unlocked, Ended
<1>7. ASSUME NEW w \in Workers, WorkerCount(w) PROVE JobsInv'
  BY <1>7, JobsDec
<1>8. CASE Restart
  BY <1>8, JobsRestart
<1> QED
  BY <1>1, <1>2, <1>3, <1>4, <1>5, <1>6, <1>7, <1>8
  DEF RNext, Next, MainNext, WorkerNext

-----------------------------------------------------------------------------
(* The theorems.                                                           *)

\* Every state of every life satisfies the invariant.
THEOREM RestartInvariance == RSpec => []RestartInv
<1>1. Init => RestartInv
  <2> SUFFICES ASSUME Init PROVE RestartInv
    OBVIOUS
  <2>1. RTypes /\ RLockInv
    BY DEF Init, Prerun, RTypes, RLockInv, WorkerSteps, WorkerCritical,
           MainCritical, Unlocked
  <2>2. PoolInv
    BY InitInv, HeldFinite DEF Init, Prerun, PoolInv, SpentInv, AtInc
  <2>3. Work = {} /\ ~DaemonCounted
    BY DEF Init, Work, AtWork, DaemonCounted
  <2>4. JobsInv
    BY <2>3, FS_EmptySet, DaemonAssumption
    DEF Init, Prerun, JobsInv, Counted, Unlocked
  <2> QED
    BY <2>1, <2>2, <2>4 DEF RestartInv, CleanInv
<1>2. RestartInv /\ [RNext]_vars => RestartInv'
  BY RTypesStep, CleanStep, RLockStep, JobsStep DEF RestartInv, JobsInv
<1> QED
  BY <1>1, <1>2, PTL DEF RSpec

\* A daemon that ended by itself may be started again while its workers still
\* run: slots, requests and the counter are as in a first life.
THEOREM RestartsAreClean == RSpec => []CleanRestart
<1>1. RestartInv => CleanRestart
  BY InvExclusive, InvRequest, InvCrash
  DEF RestartInv, CleanInv, PoolInv, CleanRestart
<1> QED
  BY <1>1, RestartInvariance, PTL

\* Whoever is killed and started again: each worker left at work costs at most
\* one job above max_threads.
THEOREM OrphansCostOneJob == RSpec => []JobsBesideOrphans
<1>1. RestartInv => JobsBesideOrphans
  <2> SUFFICES ASSUME RestartInv PROVE JobsBesideOrphans
    OBVIOUS
  <2>1. Running \subseteq Work
    BY DEF Running, Work, AtWork
  <2>2. /\ Cardinality(Running) <= Cardinality(Work)
        /\ Cardinality(Running) \in Nat /\ Cardinality(Work) \in Nat
    BY <2>1, FS_Subset, FS_CardinalityType DEF RestartInv, JobsInv
  <2> QED
    BY <2>2, DaemonAssumption
    DEF RestartInv, RTypes, JobsInv, Counted, JobsBesideOrphans
<1> QED
  BY <1>1, RestartInvariance, PTL
=============================================================================
