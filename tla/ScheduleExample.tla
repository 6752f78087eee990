--------------------------- MODULE ScheduleExample ---------------------------
(***************************************************************************)
(* The example daemon MTTest: getNext() stops handing out jobs once the    *)
(* shared variable `num' passes a limit, and every run() increments it     *)
(* under the daemon's semaphore.  Each step refines the step of            *)
(* ScheduleDaemon it is conjoined with.                                    *)
(***************************************************************************)
EXTENDS ScheduleDaemon

CONSTANT Limit    \* getNext() hands out no job once num > Limit

ASSUME ExampleAssumption == Limit \in Nat \ {0}

VARIABLES
  num,      (* shared: _INDEX_DATA['num'], 0 while unset                   *)
  answer,   (* what getNext() decided: "ask" before it has looked          *)
  wnum,     (* each worker's local copy of num                             *)
  counted,  (* workers whose run() has incremented num                     *)
  runs      (* history: how many run() calls incremented num               *)

evars == <<vars, num, answer, wnum, counted, runs>>

EInit ==
  /\ Init
  /\ num = 0 /\ answer = "ask" /\ runs = 0 /\ counted = {}
  /\ wnum = [w \in Workers |-> 0]

\* getNext(): lock and read num ...
EMainHookLock ==
  /\ answer = "ask" /\ MainHookLock
  /\ UNCHANGED <<num, answer, wnum, counted, runs>>

\* Faulty: the limit is compared with the count before this job.
EMainHookUnlockLate ==
  /\ MainHookUnlock
  /\ answer' = IF num > Limit + 1 THEN "stop" ELSE "go"
  /\ UNCHANGED <<num, wnum, counted, runs>>

\* ... compare it with the limit, and unlock ...
EMainHookUnlock ==
  /\ MainHookUnlock
  /\ answer' = IF num > Limit THEN "stop" ELSE "go"
  /\ UNCHANGED <<num, wnum, counted, runs>>

\* ... then null above the limit; below it rand(0, 3) may say null too.
EMainGetNext ==
  /\ answer # "ask" /\ MainGetNext
  /\ answer = "stop" => mpc' = "idlelock"
  /\ answer' = "ask"
  /\ UNCHANGED <<num, wnum, counted, runs>>

\* The rest of handle().
EMainOther ==
  /\ mpc # "getnext" /\ mpc # "hook" /\ MainNext
  /\ UNCHANGED <<num, answer, wnum, counted, runs>>

\* Faulty: run() reads num without the lock.
EWorkerHookLockUnlocked(w) ==
  /\ w \notin counted
  /\ WorkerMoves(w, "run", "runhook") /\ UNCHANGED ipc
  /\ wnum' = [wnum EXCEPT ![w] = num]
  /\ UNCHANGED <<num, answer, counted, runs>>

\* run(): lock and read num ...
EWorkerHookLock(w) ==
  /\ w \notin counted /\ WorkerHookLock(w)
  /\ wnum' = [wnum EXCEPT ![w] = num]
  /\ UNCHANGED <<num, answer, counted, runs>>

\* ... write it back and unlock.
EWorkerHookUnlock(w) ==
  /\ WorkerHookUnlock(w)
  /\ num' = wnum[w] + 1
  /\ counted' = counted \cup {w} /\ runs' = runs + 1
  /\ UNCHANGED <<answer, wnum>>

EWorkerFinish(w) ==
  /\ w \in counted /\ WorkerFinish(w)
  /\ UNCHANGED <<num, answer, wnum, counted, runs>>

\* The rest of a worker's life; its locals go with it.
EWorkerOther(w) ==
  /\ \/ WorkerLock(w) \/ WorkerRelease(w) \/ WorkerPut(w) \/ WorkerDec(w)
     \/ WorkerCount(w) \/ WorkerExit(w) \/ WorkerFails(w) \/ WorkerCrash(w)
  /\ IF wpc'[w] \in {"none", "zombie"}
       THEN counted' = counted \ {w} /\ wnum' = [wnum EXCEPT ![w] = 0]
       ELSE UNCHANGED <<counted, wnum>>
  /\ UNCHANGED <<num, answer, runs>>

ENext ==
  \/ EMainHookLock \/ EMainHookUnlock \/ EMainGetNext \/ EMainOther
  \/ \E w \in Workers :
       \/ EWorkerHookLock(w) \/ EWorkerHookUnlock(w) \/ EWorkerFinish(w)
       \/ EWorkerOther(w)
  \/ Terminated /\ UNCHANGED evars

ESpec == EInit /\ [][ENext]_evars

-----------------------------------------------------------------------------
(* Properties.                                                             *)

\* No increment is lost between run() calls that overlap.
CountsEveryRun == num = runs

\* getNext() decides on a count that jobs already handed out will still raise:
\* the limit is overshot by at most max_threads, and only by jobs in flight.
OvershootBounded ==
  /\ num <= Limit + MaxThreads
  /\ num + Cardinality({w \in Running : w \notin counted})
       <= Limit + MaxThreads
=============================================================================
