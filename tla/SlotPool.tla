------------------------------ MODULE SlotPool ------------------------------
(***************************************************************************)
(* What the slot table of the schedule daemon promises, without semaphore, *)
(* counter or process states: a slot has at most one holder, it passes     *)
(* from the daemon to the worker forked for it, and it is handed out again *)
(* only after its holder gave it back.  The holder of a slot may be lost,  *)
(* and then the slot is lost with it.                                      *)
(***************************************************************************)
CONSTANTS
  Slots,     (* the slots the daemon was started with                      *)
  Daemon,    (* the process that hands slots out                           *)
  Workers    (* the processes that run jobs in them                        *)

VARIABLES
  holders,   (* the processes that hold each slot                          *)
  lost,      (* slots whose holder is gone and that nobody gives back      *)
  open       (* FALSE once the daemon has ended                            *)

pool == <<holders, lost, open>>

Init ==
  /\ holders = [s \in Slots |-> {}]
  /\ lost = {}
  /\ open = TRUE

\* The daemon takes a slot that is neither held nor lost.
Acquire(s) ==
  /\ open /\ holders[s] = {} /\ s \notin lost
  /\ holders' = [holders EXCEPT ![s] = {Daemon}]
  /\ UNCHANGED <<lost, open>>

\* It passes the slot to the worker it forked.
HandOver(s, w) ==
  /\ holders[s] = {Daemon}
  /\ holders' = [holders EXCEPT ![s] = {w}]
  /\ UNCHANGED <<lost, open>>

\* The only holder gives the slot back.
Release(s, p) ==
  /\ holders[s] = {p}
  /\ holders' = [holders EXCEPT ![s] = {}]
  /\ UNCHANGED <<lost, open>>

\* The only holder is gone.
Lose(s, p) ==
  /\ holders[s] = {p}
  /\ holders' = [holders EXCEPT ![s] = {}]
  /\ lost' = lost \cup {s}
  /\ UNCHANGED open

\* The daemon ends and the table with it.
Close ==
  /\ open /\ open' = FALSE
  /\ holders' = [s \in Slots |-> {}]
  /\ lost' = {}

Next ==
  \/ \E s \in Slots :
       \/ Acquire(s)
       \/ \E w \in Workers : HandOver(s, w)
       \/ \E p \in Workers \cup {Daemon} : Release(s, p) \/ Lose(s, p)
  \/ Close

Spec == Init /\ [][Next]_pool
=============================================================================
