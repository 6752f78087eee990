--------------------------- MODULE ScheduleRestart ---------------------------
(***************************************************************************)
(* Several lives of the schedule daemon.  It may be killed anywhere and is *)
(* started again while workers of an earlier life still run: _prerun()     *)
(* resets the shared variables the orphans go on using.                    *)
(***************************************************************************)
EXTENDS ScheduleDaemon

CONSTANTS
  MaxKills,     (* bound: how often the daemon is killed                   *)
  MaxRestarts   (* bound: how often it is started again                    *)

ASSUME RestartAssumption == MaxKills \in Nat /\ MaxRestarts \in Nat

Ended == mpc \in {"stopped", "dead"}

\* A signal ends the daemon process; _postrun() does not run, and the kernel
\* undoes the semaphore it may hold.
Kill ==
  /\ ~Ended /\ kills < MaxKills /\ kills' = kills + 1
  /\ DaemonExit
  /\ mutex' = IF mutex = Main THEN Free ELSE mutex
  /\ UNCHANGED <<threads, slots, crashes, restarts, inherited>>

\* A worker that has not been through decThreads().
AtWork(w) ==
  wpc[w] \in {"run", "runhook", "lock", "release", "put", "dec", "count"}

\* A new daemon process runs _prerun().  It does so while the semaphore is
\* free: what sem_get() makes of a semaphore an orphan holds is left out.
Restart ==
  /\ Ended /\ mutex = Free /\ restarts < MaxRestarts
  /\ restarts' = restarts + 1
  /\ inherited' = inherited + Cardinality({w \in Workers : AtWork(w)})
  /\ threads' = 0 /\ slots' = [s \in Slots |-> FALSE]
  /\ mpc' = "lock"
  /\ UNCHANGED <<mutex, locals, mslot, worker, crashes, kills>>

RNext == Next \/ Kill \/ Restart

RSpec == Init /\ [][RNext]_vars

-----------------------------------------------------------------------------
(* Properties.                                                             *)

\* Restarting a daemon that ended by itself is safe even with its workers
\* still running: either it had none left or _postrun() cut them off, so they
\* neither share a slot with a new worker nor touch the new counter.
CleanRestart ==
  kills = 0 =>
    /\ SlotsExclusive
    /\ RequestSucceeds
    /\ CrashCostsOneSlot

\* Every worker that an earlier daemon left at work costs at most one job above
\* max_threads: it runs beside the new jobs, or it has decremented the counter
\* of the new daemon, but not both, and no later step doubles the damage.
JobsBesideOrphans == Cardinality(Running) <= MaxThreads + inherited
=============================================================================
