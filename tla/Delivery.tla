------------------------------ MODULE Delivery -------------------------------
(***************************************************************************)
(* What dropr promises a program that hands it messages: a message that    *)
(* was accepted stays in the client's spool until it is in the peer's      *)
(* queue, it is reported as sent only after that, and it never leaves the  *)
(* peer's queue other than by being processed.                             *)
(***************************************************************************)
CONSTANT Messages

VARIABLE stage   (* how far each message got *)

Stages == {"new", "spooled", "queued", "sent"}

DInit == stage = [m \in Messages |-> "new"]

Advance(m, from, to) ==
  stage[m] = from /\ stage' = [stage EXCEPT ![m] = to]

Accept(m)  == Advance(m, "new", "spooled")
Deliver(m) == Advance(m, "spooled", "queued")
Confirm(m) == Advance(m, "queued", "sent")

DNext == \E m \in Messages : Accept(m) \/ Deliver(m) \/ Confirm(m)

DSpec == DInit /\ [][DNext]_stage
=============================================================================
