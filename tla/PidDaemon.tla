------------------------------ MODULE PidDaemon ------------------------------
(***************************************************************************)
(* The PID-file daemon: processes that start it, one after the other or at *)
(* once, the file that is to keep a second one from running, and signals.  *)
(* All are started by root, who may signal every process and write every   *)
(* file.                                                                   *)
(***************************************************************************)
EXTENDS Integers, FiniteSets

CONSTANT DmStarts  (* bound: calls of start(), numbered from 1               *)

ASSUME DmAssumption == DmStarts \in Nat

VARIABLE dm
(* dm.file: what the PID file holds: an id, or that it is empty or absent;   *)
(* the child of start n has the id n, and all ids have as many digits;       *)
(* dm.inode: how many files there were before this one, as one that is open  *)
(* may be unlinked; dm.opened: start -> the file it opened;                  *)
(* dm.at: start -> where it is; dm.taken: ids of daemons that are gone which *)
(* the system gave to other processes; history: dm.raced: a start looked     *)
(* while another had looked and not written yet; dm.wrong: a start was       *)
(* refused although no daemon lived and none was ever killed                 *)

DmAbsent == -1
DmEmpty == 0

DmAll == 1 .. DmStarts

\* A child that has not ended; a parent is not in the file and does nothing.
DmLives(s, n) == s.at[n] \in {"forked", "opened", "running"}

DmRunning(s) == {n \in DmAll : s.at[n] = "running"}

DmInit ==
  dm = [file |-> DmAbsent, inode |-> 0, opened |-> [n \in DmAll |-> 0],
        at |-> [n \in DmAll |-> "none"], taken |-> {}, raced |-> FALSE, wrong |-> FALSE]

\* _isDaemonRunning(): what it may answer.  With an empty file PHP 4 signals its
\* own group, which succeeds; PHP 5 refuses the argument.
DmIsDaemonRunning(s) ==
  IF s.file = DmAbsent THEN {FALSE}
  ELSE IF s.file = DmEmpty THEN BOOLEAN
  ELSE {DmLives(s, s.file) \/ s.file \in s.taken}

DmUnlink(s) ==
  IF s.file = DmAbsent THEN s ELSE [s EXCEPT !.file = DmAbsent, !.inode = @ + 1]

\* Faulty: the parent and one that is refused unlink the file as well.
DmReleaseAlways(s, n, child) == [DmUnlink(s) EXCEPT !.at[n] = "gone"]

\* releaseDaemon(): a child unlinks the file, whoever wrote it.
DmReleaseDaemon(s, n, child) ==
  [(IF child THEN DmUnlink(s) ELSE s) EXCEPT !.at[n] = "gone"]

\* start(), up to the check.
DmCheck(n) ==
  /\ dm.at[n] = "none"
  /\ n > 1 => dm.at[n - 1] # "none"
  /\ \E yes \in DmIsDaemonRunning(dm) :
       dm' = IF yes
             THEN [DmReleaseDaemon(dm, n, FALSE) EXCEPT
                     !.wrong = @ \/ \A m \in DmAll : /\ ~ DmLives(dm, m)
                                                     /\ dm.at[m] # "killed"]
             ELSE [dm EXCEPT !.at[n] = "checked",
                     !.raced = @ \/ \E m \in DmAll : dm.at[m] \in {"checked", "forked", "opened"}]

\* _fork(): the parent ends and releases nothing; without a child so does start().
DmFork(n) ==
  /\ dm.at[n] = "checked"
  /\ \/ dm' = [dm EXCEPT !.at[n] = "forked"]
     \/ dm' = DmReleaseDaemon(dm, n, FALSE)

\* _setIdentity(), posix_setsid(), fopen(): the file is there and empty.  Each of
\* them may fail: the child ends, and as a child.
DmOpen(n) ==
  /\ dm.at[n] = "forked"
  /\ \/ dm' = [dm EXCEPT !.file = DmEmpty, !.opened[n] = dm.inode, !.at[n] = "opened"]
     \/ dm' = DmReleaseDaemon(dm, n, TRUE)

\* fputs(): the id; into a file that is not there any more if another has unlinked
\* the one that was opened.
DmPut(n) ==
  /\ dm.at[n] = "opened"
  /\ dm' = [dm EXCEPT !.file = IF dm.opened[n] = dm.inode THEN n ELSE @,
                     !.opened[n] = 0, !.at[n] = "running"]

\* SIGTERM, or stop() called by _doTask().
DmStop(n) ==
  /\ dm.at[n] = "running"
  /\ dm' = DmReleaseDaemon(dm, n, TRUE)

\* SIGKILL, or SIGTERM before sigHandler() is in place.
DmKill(n) ==
  /\ DmLives(dm, n)
  /\ dm' = [dm EXCEPT !.at[n] = "killed"]

\* The system gives the id of a daemon that is gone to another process, which ends.
DmTaken(n) ==
  /\ dm.at[n] \in {"gone", "killed"}
  /\ dm' = [dm EXCEPT !.taken = IF n \in @ THEN @ \ {n} ELSE @ \cup {n}]

DmNext ==
  \E n \in DmAll : \/ DmCheck(n) \/ DmFork(n) \/ DmOpen(n) \/ DmPut(n)
                   \/ DmStop(n) \/ DmKill(n) \/ DmTaken(n)

\* Property: two daemons run only if one start looked at the file while another
\* was between its look and its fputs() (_isDaemonRunning() and fopen() are apart).
DmOneDaemon == Cardinality(DmRunning(dm)) > 1 => dm.raced

\* Property: without such a race the file names the daemon that runs, also after
\* starts that were refused or failed (releaseDaemon() unlinks whatever is there).
DmFileNames == ~ dm.raced => \A n \in DmRunning(dm) : dm.file = n

\* Property: a start is refused for no daemon only after one was killed: by then
\* another process may have its id, or the file is empty.
DmRefused == ~ dm.wrong

DmGuarded == DmOneDaemon /\ DmFileNames /\ DmRefused
================================================================================
