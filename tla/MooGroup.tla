------------------------------- MODULE MooGroup -------------------------------
(***************************************************************************)
(* Group: a handler that is called when all instances fired an event.      *)
(***************************************************************************)
EXTENDS Integers, FiniteSets

CONSTANTS GrInstances,   (* numbers of the instances                        *)
          GrMaxHandlers  (* bound: handlers added for the event             *)

ASSUME GrAssumption == GrInstances # {} /\ GrMaxHandlers \in Nat

VARIABLE gr
(* gr.handlers: how many are added, each with a listener to every instance;  *)
(* gr.checker; gr.firing: the instance that fires, if any; gr.left: how many *)
(* of its listeners are still to be called; history: gr.since: the instances *)
(* that fired since the group did; gr.early: it fired without one of them    *)

GrInit == gr = [handlers |-> 0, checker |-> {}, firing |-> {}, left |-> 0,
                since |-> {}, early |-> FALSE]

\* check(): the handlers are called and the round begins anew.
GrCheck(s) ==
  LET checked == [s EXCEPT !.checker = @ \cup s.firing]
  IN IF checked.checker # GrInstances THEN checked
     ELSE [checked EXCEPT !.checker = {}, !.since = {}, !.early = @ \/ s.since # GrInstances]

GrAddEvent == /\ gr.handlers < GrMaxHandlers /\ gr.left = 0
              /\ gr' = [gr EXCEPT !.handlers = @ + 1]

\* An instance fires the event: its listeners check one after another, and all but
\* the first may begin the next round.  Nothing comes between them.
GrFires ==
  /\ gr.handlers > 0 /\ gr.left = 0
  /\ \E i \in GrInstances :
       gr' = [gr EXCEPT !.since = @ \cup {i}, !.firing = {i}, !.left = gr.handlers]

GrListener ==
  /\ gr.left > 0
  /\ gr' = [GrCheck(gr) EXCEPT !.left = @ - 1,
                               !.firing = IF gr.left = 1 THEN {} ELSE @]

GrNext == GrAddEvent \/ GrFires \/ GrListener

-----------------------------------------------------------------------------
(* Properties.                                                             *)

\* A group never waits when all fired, and one with a single handler never calls it
\* before.
GrRound ==
  /\ gr.left = 0 => gr.since # GrInstances
  /\ gr.early => gr.handlers > 1
===============================================================================
