--------------------------- MODULE ScheduleDaemon ---------------------------
(***************************************************************************)
(* One life of Hermes_Schedule_Daemon_Abstract::handle(): a daemon process *)
(* takes a slot in shared memory, forks a worker to run a job in it, and   *)
(* the worker gives the slot back.  The slot table and the thread counter  *)
(* are two shared variables guarded by one System V semaphore.             *)
(*                                                                         *)
(* A step of the model lies between two points where another process can   *)
(* look: acquiring the semaphore, one read or one write of shared memory,  *)
(* a wait, a fork or an exit.  The unlock() that follows an access is part *)
(* of its step: the semaphore guards nothing in between.                   *)
(***************************************************************************)
EXTENDS Integers, FiniteSets

CONSTANTS
  MaxThreads,   (* $max_threads                                            *)
  Workers,      (* process ids the system can give to forked workers       *)
  Main,         (* the daemon process, as holder of the semaphore          *)
  Free,         (* holder of the semaphore when nobody holds it            *)
  MaxCrashes    (* bound: how many workers may die without cleaning up     *)

ASSUME DaemonAssumption ==
  /\ MaxThreads \in Nat \ {0}
  /\ MaxCrashes \in Nat
  /\ Main \notin Workers
  /\ Free \notin Workers
  /\ Free # Main

Slots  == 0 .. MaxThreads - 1
NoSlot == -1                   \* requestSlot() returning null

VARIABLES
  mutex,     (* who holds the semaphore                                    *)
  threads,   (* shared: _INDEX_THREADS                                     *)
  slots,     (* shared: _INDEX_SLOTS, TRUE for a slot in use               *)
  table,     (* each process's local $slots, between shm_get and shm_put   *)
  count,     (* its local $threads, between getThreads() and shm_put       *)
  mpc,       (* where the daemon process is in handle()                    *)
  mslot,     (* its local $slot                                            *)
  wpc,       (* where each worker is; "none" for an unused process id      *)
  wslot,     (* the $slot each worker was forked with                      *)
  orphans,   (* workers whose parent daemon is gone                        *)
  gone,      (* orphans whose semaphore _postrun() removed                 *)
  crashes,   (* workers that died so far                                   *)
  kills,     (* times the daemon was killed: 0 but in ScheduleRestart      *)
  restarts,  (* times it was started again: 0 but in ScheduleRestart       *)
  inherited  (* history: workers not through with their jobs at a restart  *)

ipc     == <<mutex, threads, slots, table, count>>
locals  == <<table, count>>
daemon  == <<mpc, mslot>>
worker  == <<wpc, wslot, orphans, gone>>
faults  == <<crashes, kills, restarts, inherited>>
vars    == <<mutex, threads, slots, table, count, mpc, mslot, wpc, wslot,
             orphans, gone, crashes, kills, restarts, inherited>>

-----------------------------------------------------------------------------
(* Helpers.                                                                *)

MainSteps == {"lock", "reap", "check", "wait", "relock", "recheck", "request",
              "take", "inc", "count", "getnext", "hook", "fork", "idlelock",
              "idlerelease", "idleput", "idledec", "idlecount", "postrun",
              "stopped", "dead"}

WorkerSteps == {"none", "run", "runhook", "lock", "release", "put", "dec",
                "count", "exit", "zombie"}

Live(w)     == wpc[w] \notin {"none", "zombie"}
Running     == {w \in Workers : wpc[w] \in {"run", "runhook"}}
Children    == {w \in Workers : wpc[w] # "none" /\ w \notin orphans}
Zombies     == {w \in Children : wpc[w] = "zombie"}
FreeSlots   == {s \in Slots : ~slots[s]}
TakenSlots  == {s \in Slots : slots[s]}
\* Faulty: one thread too many.
HasFreeSlotOffByOne == threads <= MaxThreads

HasFreeSlot == threads < MaxThreads

\* The process that must give slot s back: the daemon from requestSlot() to
\* fork, then the worker until its releaseSlot() has written the table.
MainHolds(s) ==
  mslot = s /\ mpc \in {"inc", "count", "getnext", "hook", "fork", "idlelock",
                        "idlerelease", "idleput"}
WorkerHolds(w, s) ==
  /\ wslot[w] = s
  /\ wpc[w] \in {"run", "runhook", "lock", "release", "put"}
  /\ w \notin gone
Holders(s) == {w \in Workers : WorkerHolds(w, s)}
                \cup (IF MainHolds(s) THEN {Main} ELSE {})
HeldSlots  == {s \in Slots : Holders(s) # {}}

\* shm_get_var() of the slot table, or of the counter, into a local of p ...
Procs == Workers \cup {Main}
Blank == [s \in Slots |-> FALSE]

GetSlots(p) ==
  table' = [table EXCEPT ![p] = slots] /\ UNCHANGED <<slots, threads, count>>
GetThreads(p) ==
  count' = [count EXCEPT ![p] = threads] /\ UNCHANGED <<slots, threads, table>>

\* ... which ends with the function, after shm_put_var().
DropLocals(p) ==
  table' = [table EXCEPT ![p] = Blank] /\ count' = [count EXCEPT ![p] = 0]

PutSlots(p, to) == slots' = to /\ UNCHANGED threads /\ DropLocals(p)
PutThreads(p, to) == threads' = to /\ UNCHANGED slots /\ DropLocals(p)

\* exit() or death of w: its parent finds a zombie, init reaps an orphan, and
\* the kernel undoes a semaphore the process still held (SEM_UNDO).
Terminate(w) ==
  /\ wpc' = [wpc EXCEPT ![w] = IF w \in orphans THEN "none" ELSE "zombie"]
  /\ wslot' = [wslot EXCEPT ![w] = NoSlot]
  /\ orphans' = orphans \ {w}
  /\ gone' = gone \ {w}
  /\ DropLocals(w)

\* The daemon process ends: live workers become orphans and init reaps the
\* zombies it left.
AbandonWorkers ==
  /\ wpc' = [w \in Workers |-> IF wpc[w] = "zombie" THEN "none" ELSE wpc[w]]
  /\ orphans' = {w \in Workers : Live(w)}

-----------------------------------------------------------------------------
(* The daemon process.                                                     *)

\* What _prerun() leaves in shared memory.
Prerun == mutex = Free /\ threads = 0 /\ slots = [s \in Slots |-> FALSE]

Init ==
  /\ Prerun
  /\ table = [p \in Procs |-> Blank] /\ count = [p \in Procs |-> 0]
  /\ mpc = "lock" /\ mslot = NoSlot
  /\ wpc = [w \in Workers |-> "none"]
  /\ wslot = [w \in Workers |-> NoSlot]
  /\ orphans = {} /\ gone = {}
  /\ crashes = 0 /\ kills = 0 /\ restarts = 0 /\ inherited = 0

\* $this->lock() by the daemon at one of its three call sites.
AcquireAt(from, to) ==
  /\ mpc = from /\ mutex = Free
  /\ mutex' = Main /\ mpc' = to
  /\ UNCHANGED <<threads, slots, locals, mslot, worker, faults>>

MainLock     == AcquireAt("lock", "reap")
MainRelock   == AcquireAt("relock", "check")

\* Faulty: the slot of a round without a job is given back without lock().
MainIdleLockForgotten ==
  /\ mpc = "idlelock" /\ mpc' = "idlerelease"
  /\ UNCHANGED <<ipc, mslot, worker, faults>>

MainIdleLock == AcquireAt("idlelock", "idlerelease")

\* pcntl_wait(WNOHANG) until no child is left to collect.
MainReap ==
  /\ mpc = "reap" /\ mpc' = "check"
  /\ wpc' = [w \in Workers |-> IF w \in Zombies THEN "none" ELSE wpc[w]]
  /\ UNCHANGED <<ipc, mslot, wslot, orphans, gone, faults>>

MainCheckFree ==
  /\ mpc = "check" /\ HasFreeSlot /\ mpc' = "request"
  /\ UNCHANGED <<ipc, mslot, worker, faults>>

\* Faulty: waits for a child with the semaphore in hand.
MainCheckFullLocked ==
  /\ mpc = "check" /\ ~HasFreeSlot /\ mpc' = "wait"
  /\ UNCHANGED <<ipc, mslot, worker, faults>>

MainCheckFull ==
  /\ mpc = "check" /\ ~HasFreeSlot
  /\ mutex' = Free /\ mpc' = "wait"
  /\ UNCHANGED <<threads, slots, locals, mslot, worker, faults>>

\* The blocking pcntl_wait() collects one child ...
MainWait ==
  /\ mpc = "wait" /\ mpc' = "relock"
  /\ \E w \in Zombies : wpc' = [wpc EXCEPT ![w] = "none"]
  /\ UNCHANGED <<ipc, mslot, wslot, orphans, gone, faults>>

\* ... or fails because the daemon has none ('Outch1'); `continue' goes back
\* to the inner loop's condition without taking the semaphore again.
MainOutch1 ==
  /\ mpc = "wait" /\ Children = {} /\ mpc' = "recheck"
  /\ UNCHANGED <<ipc, mslot, worker, faults>>

\* exit(-1): no _postrun(), so the shared segment and the semaphore survive.
DaemonExit ==
  /\ mpc' = "dead" /\ mslot' = NoSlot
  /\ AbandonWorkers /\ DropLocals(Main)
  /\ UNCHANGED <<wslot, gone>>

\* hasFreeSlot() without the lock: still full, and releasing a semaphore that
\* is not held fails; or no longer full, and requestSlot() runs unlocked.
MainRecheck ==
  /\ mpc = "recheck"
  /\ \/ ~HasFreeSlot /\ DaemonExit
     \/ HasFreeSlot /\ mpc' = "request" /\ UNCHANGED <<locals, mslot, worker>>
  /\ UNCHANGED <<mutex, threads, slots, faults>>

\* requestSlot(): the table is read ...
MainRequest ==
  /\ mpc = "request" /\ mpc' = "take"
  /\ GetSlots(Main)
  /\ UNCHANGED <<mutex, mslot, worker, faults>>

\* ... and written back with its lowest free slot taken, if there is one.
MainTake ==
  /\ mpc = "take" /\ mpc' = "inc"
  /\ LET free == {s \in Slots : ~table[Main][s]}
     IN  \/ \E s \in free :
              /\ \A t \in free : s <= t
              /\ mslot' = s
              /\ PutSlots(Main, [table[Main] EXCEPT ![s] = TRUE])
         \/ free = {} /\ mslot' = NoSlot /\ PutSlots(Main, table[Main])
  /\ UNCHANGED <<mutex, worker, faults>>

\* incThreads(): the counter is read ...
MainInc ==
  /\ mpc = "inc" /\ mpc' = "count"
  /\ GetThreads(Main)
  /\ UNCHANGED <<mutex, mslot, worker, faults>>

\* ... and written, and unlock(); a null slot ('Outch2') ends the loop.
MainCount ==
  /\ mpc = "count" /\ mutex = Main
  /\ PutThreads(Main, count[Main] + 1) /\ mutex' = Free
  /\ mpc' = IF mslot = NoSlot THEN "postrun" ELSE "getnext"
  /\ UNCHANGED <<mslot, worker, faults>>

\* The same after an unlocked request: unlock() fails and the daemon exits.
MainCountUnlocked ==
  /\ mpc = "count" /\ mutex # Main
  /\ threads' = count[Main] + 1
  /\ DaemonExit
  /\ UNCHANGED <<mutex, slots, faults>>

\* getNext() may take the lock around its own shared data and drop it again.
MainHookLock == AcquireAt("getnext", "hook")

MainHookUnlock ==
  /\ mpc = "hook" /\ mutex' = Free /\ mpc' = "getnext"
  /\ UNCHANGED <<threads, slots, locals, mslot, worker, faults>>

\* getNext() returns a job, or nothing.
MainGetNext ==
  /\ mpc = "getnext" /\ mpc' \in {"fork", "idlelock"}
  /\ UNCHANGED <<ipc, mslot, worker, faults>>

\* No job, releaseSlot(): the table is read ...
MainIdleRelease ==
  /\ mpc = "idlerelease" /\ mpc' = "idleput"
  /\ GetSlots(Main)
  /\ UNCHANGED <<mutex, mslot, worker, faults>>

\* Faulty: the table is written back as it was.
MainIdlePutForgotten ==
  /\ mpc = "idleput" /\ mpc' = "idledec"
  /\ PutSlots(Main, table[Main])
  /\ UNCHANGED <<mutex, mslot, worker, faults>>

\* ... and written back with the slot free.
MainIdlePut ==
  /\ mpc = "idleput" /\ mpc' = "idledec"
  /\ PutSlots(Main, [table[Main] EXCEPT ![mslot] = FALSE])
  /\ UNCHANGED <<mutex, mslot, worker, faults>>

\* decThreads(): the counter is read ...
MainIdleDec ==
  /\ mpc = "idledec" /\ mpc' = "idlecount"
  /\ GetThreads(Main)
  /\ UNCHANGED <<mutex, mslot, worker, faults>>

\* Faulty: only the slot is given back when there is no job.
MainIdleCountForgotten ==
  /\ mpc = "idlecount" /\ mpc' = "lock"
  /\ PutThreads(Main, count[Main]) /\ mutex' = Free /\ mslot' = NoSlot
  /\ UNCHANGED <<worker, faults>>

\* ... and written, and unlock(), then sleep and the next iteration.
MainIdleCount ==
  /\ mpc = "idlecount" /\ mpc' = "lock"
  /\ PutThreads(Main, count[Main] - 1) /\ mutex' = Free /\ mslot' = NoSlot
  /\ UNCHANGED <<worker, faults>>

\* Faulty: the parent gives the slot back too.
MainForkReleases ==
  /\ mpc = "fork" /\ mpc' = "lock"
  /\ \E w \in Workers :
       /\ wpc[w] = "none"
       /\ wpc' = [wpc EXCEPT ![w] = "run"]
       /\ wslot' = [wslot EXCEPT ![w] = mslot]
  /\ slots' = [slots EXCEPT ![mslot] = FALSE]
  /\ threads' = threads - 1 /\ mslot' = NoSlot
  /\ UNCHANGED <<mutex, locals, orphans, gone, faults>>

MainFork ==
  /\ mpc = "fork" /\ mpc' = "lock"
  /\ \E w \in Workers :
       /\ wpc[w] = "none"
       /\ wpc' = [wpc EXCEPT ![w] = "run"]
       /\ wslot' = [wslot EXCEPT ![w] = mslot]
  /\ mslot' = NoSlot
  /\ UNCHANGED <<ipc, orphans, gone, faults>>

\* pcntl_fork() == -1 ends the loop; the slot is not given back.
MainForkFails ==
  /\ mpc = "fork" /\ mpc' = "postrun" /\ mslot' = NoSlot
  /\ UNCHANGED <<ipc, worker, faults>>

\* Faulty: the semaphore outlives the daemon.
MainPostrunKeepsIpc ==
  /\ mpc = "postrun" /\ mpc' = "stopped" /\ mslot' = NoSlot
  /\ AbandonWorkers
  /\ UNCHANGED <<ipc, wslot, gone, faults>>

\* _postrun() removes the segment and the semaphore under the workers.
MainPostrun ==
  /\ mpc = "postrun" /\ mpc' = "stopped" /\ mslot' = NoSlot
  /\ mutex' = Free
  /\ AbandonWorkers
  /\ gone' = {w \in Workers : Live(w)}
  /\ UNCHANGED <<threads, slots, locals, wslot, faults>>

MainNext ==
  \/ MainLock \/ MainReap \/ MainCheckFree \/ MainCheckFull \/ MainWait
  \/ MainRelock \/ MainOutch1 \/ MainRecheck \/ MainRequest \/ MainTake
  \/ MainInc \/ MainCount \/ MainCountUnlocked \/ MainHookLock
  \/ MainHookUnlock \/ MainGetNext \/ MainIdleLock \/ MainIdleRelease
  \/ MainIdlePut \/ MainIdleDec \/ MainIdleCount \/ MainFork
  \/ MainForkFails \/ MainPostrun

-----------------------------------------------------------------------------
(* A worker.                                                               *)

\* A step of w that leaves the daemon and the process table alone.
WorkerMoves(w, from, to) ==
  /\ wpc[w] = from /\ w \notin gone
  /\ wpc' = [wpc EXCEPT ![w] = to]
  /\ UNCHANGED <<daemon, wslot, orphans, gone, faults>>

WorkerAcquires(w, from, to) ==
  /\ mutex = Free /\ mutex' = w
  /\ WorkerMoves(w, from, to)
  /\ UNCHANGED <<threads, slots, locals>>

WorkerHookLock(w) == WorkerAcquires(w, "run", "runhook")

\* Faulty: the worker gives its slot back without lock().
WorkerLockForgotten(w) == WorkerMoves(w, "lock", "release") /\ UNCHANGED ipc

WorkerLock(w) == WorkerAcquires(w, "lock", "release")

WorkerHookUnlock(w) ==
  /\ WorkerMoves(w, "runhook", "run")
  /\ mutex' = Free /\ UNCHANGED <<threads, slots, locals>>

\* run($next, $slot) returns.
WorkerFinish(w) == WorkerMoves(w, "run", "lock") /\ UNCHANGED ipc

\* releaseSlot(): the table is read ...
WorkerRelease(w) ==
  /\ WorkerMoves(w, "release", "put")
  /\ GetSlots(w) /\ UNCHANGED mutex

\* Faulty: the table is written back as it was.
WorkerPutForgotten(w) ==
  /\ WorkerMoves(w, "put", "dec")
  /\ PutSlots(w, table[w]) /\ UNCHANGED mutex

\* ... and written back with the slot free.
WorkerPut(w) ==
  /\ WorkerMoves(w, "put", "dec")
  /\ PutSlots(w, [table[w] EXCEPT ![wslot[w]] = FALSE]) /\ UNCHANGED mutex

\* decThreads(): the counter is read ...
WorkerDec(w) ==
  /\ WorkerMoves(w, "dec", "count")
  /\ GetThreads(w) /\ UNCHANGED mutex

\* Faulty: the worker exits without decThreads().
WorkerCountForgotten(w) ==
  /\ WorkerMoves(w, "count", "exit")
  /\ PutThreads(w, count[w]) /\ mutex' = Free

\* ... and written, and unlock().
WorkerCount(w) ==
  /\ WorkerMoves(w, "count", "exit")
  /\ PutThreads(w, count[w] - 1) /\ mutex' = Free

WorkerExit(w) ==
  /\ wpc[w] = "exit"
  /\ Terminate(w)
  /\ UNCHANGED <<mutex, threads, slots, daemon, faults>>

\* After _postrun() the next lock() or unlock() of a worker fails: exit(-1).
\* Whatever it writes before goes to the removed segment.
WorkerFails(w) ==
  /\ w \in gone
  /\ wpc[w] \in {"run", "runhook", "lock", "release", "put", "dec", "count"}
  /\ Terminate(w)
  /\ UNCHANGED <<mutex, threads, slots, daemon, faults>>

\* A fatal error or a signal ends the worker wherever it is.
WorkerCrash(w) ==
  /\ crashes < MaxCrashes /\ crashes' = crashes + 1
  /\ Live(w) /\ Terminate(w)
  /\ mutex' = IF mutex = w THEN Free ELSE mutex
  /\ UNCHANGED <<threads, slots, daemon, kills, restarts, inherited>>

WorkerNext(w) ==
  \/ WorkerHookLock(w) \/ WorkerHookUnlock(w) \/ WorkerFinish(w)
  \/ WorkerLock(w) \/ WorkerRelease(w) \/ WorkerPut(w) \/ WorkerDec(w)
  \/ WorkerCount(w) \/ WorkerExit(w) \/ WorkerFails(w)

\* Nothing is left to do once the daemon and its workers are gone.
Terminated ==
  /\ mpc \in {"stopped", "dead"}
  /\ \A w \in Workers : wpc[w] = "none"
  /\ UNCHANGED vars

Next ==
  \/ MainNext
  \/ \E w \in Workers : WorkerNext(w) \/ WorkerCrash(w)
  \/ Terminated

Spec == Init /\ [][Next]_vars
-----------------------------------------------------------------------------
(* Properties.                                                             *)

\* The daemon is in its main loop.
Serving == mpc \notin {"postrun", "stopped", "dead"}

\* The types of the variables.  In one life of the daemon the counter stays
\* between 0 and max_threads, whatever crashes.
TypeOK ==
  /\ mutex \in Workers \cup {Main, Free}
  /\ threads \in 0 .. MaxThreads
  /\ slots \in [Slots -> BOOLEAN]
  /\ table \in [Procs -> [Slots -> BOOLEAN]]
  /\ count \in [Procs -> 0 .. MaxThreads]
  /\ mpc \in MainSteps
  /\ mslot \in Slots \cup {NoSlot}
  /\ wpc \in [Workers -> WorkerSteps]
  /\ wslot \in [Workers -> Slots \cup {NoSlot}]
  /\ orphans \subseteq Workers /\ gone \subseteq orphans
  /\ crashes \in 0 .. MaxCrashes
  /\ kills \in Nat /\ restarts \in Nat /\ inherited \in Nat

\* No two processes hold the same slot, and a held slot is marked taken
\* (requestSlot() and releaseSlot() around fork and exit).
SlotsExclusive ==
  \A s \in HeldSlots :
    /\ \A p, q \in Holders(s) : p = q
    /\ Serving => slots[s]

\* At most max_threads jobs run at any time ("max concurrent threads").
MaxConcurrent == Cardinality(Running) <= MaxThreads

\* A request made under the lock after hasFreeSlot() finds a slot: the branch
\* reported as Outch2 is never taken.
RequestSucceeds == mpc \in {"inc", "count"} => mslot # NoSlot

\* Whenever the semaphore is free the counter is exactly the number of held
\* slots as long as no worker has crashed, and each crash costs at most one
\* unit of capacity afterwards (incThreads() against decThreads()).
CrashCostsOneSlot ==
  mutex = Free /\ Serving =>
    LET held == Cardinality(HeldSlots)
    IN  held <= threads /\ threads <= held + crashes

\* The daemon waits for children it does not have (Outch1) only after as many
\* crashes as it has slots.
Outch1NeedsCrashes == mpc = "recheck" => crashes >= MaxThreads

\* The branch reported as 'Outch1, this souldn't happen' is never taken.
NoOutch1 == mpc # "recheck"

\* Every process keeps running, whoever queues for the semaphore gets it, and
\* getNext() and run() return however often they use the semaphore.
MainHook      == MainHookLock \/ MainHookUnlock
WorkerHook(w) == WorkerHookLock(w) \/ WorkerHookUnlock(w)

Fairness ==
  /\ WF_vars(MainHookUnlock) /\ SF_vars(MainNext /\ ~MainHook)
  /\ \A w \in Workers :
       WF_vars(WorkerHookUnlock(w)) /\ SF_vars(WorkerNext(w) /\ ~WorkerHook(w))

FairSpec == Spec /\ Fairness

\* A daemon that waits for a slot gets one, unless as many workers crash as it
\* has slots: no wake-up is missed between hasFreeSlot() and pcntl_wait().
DaemonResumes == mpc = "wait" ~> (mpc = "getnext" \/ crashes >= MaxThreads)

\* Every slot that is taken becomes free again, unless a crash or the end of
\* the daemon lost it.
SlotsRecycled ==
  \A s \in Slots : slots[s] ~> (~slots[s] \/ crashes > 0 \/ ~Serving)

\* The slot table as the pool of SlotPool: the holders are the processes that
\* still have to call releaseSlot(), a taken slot without a holder is lost.
Pool == INSTANCE SlotPool WITH
  Daemon  <- Main,
  holders <- [s \in Slots |-> IF mpc \in {"stopped", "dead"} THEN {}
                                                             ELSE Holders(s)],
  lost    <- {s \in TakenSlots : mpc \notin {"stopped", "dead"}
                                  /\ Holders(s) = {}},
  open    <- mpc \notin {"stopped", "dead"}

\* handle() implements the slot pool.
ImplementsPool == Pool!Spec
=============================================================================
