-------------------------------- MODULE MooTips --------------------------------
(***************************************************************************)
(* Tips: one box for all elements that have a tip, shown and hidden by a   *)
(* timer.  The mouse goes from element to element; some are inside others. *)
(***************************************************************************)
EXTENDS Integers, FiniteSets

CONSTANTS TiElements, (* numbers of elements                                *)
          TiInside    (* <<inner, outer>>: which are inside which           *)

ASSUME TiAssumption ==
  /\ TiElements \subseteq Nat \ {0}
  /\ TiInside \subseteq {p \in TiElements \X TiElements : p[1] > p[2]}

VARIABLE ti
(* ti.timeout: the option; ti.there: the elements of the page; ti.over: the  *)
(* innermost one under the mouse, 0 for none; ti.text: whose tip the box     *)
(* holds; ti.visible; ti.timer: what the timer will call; history: ti.left:  *)
(* end() was called since start(); ti.expired: the box timed out since       *)

TiInit ==
  \E timeout \in BOOLEAN :
    ti = [timeout |-> timeout, there |-> TiElements, over |-> 0, text |-> 0,
          visible |-> FALSE, timer |-> "none", left |-> FALSE, expired |-> FALSE]

\* All elements that an element is in, and itself.
TiAround(e) == {f \in TiElements : f = e \/ <<e, f>> \in TiInside}

\* start() of each element entered, the outermost last; end() of those left, which
\* comes before.
TiOutermost(E) == CHOOSE e \in E : \A f \in E : e <= f
TiStart(s, e) == [s EXCEPT !.text = e, !.timer = "show", !.left = FALSE, !.expired = FALSE]
TiEnd(s)      == [s EXCEPT !.timer = "hide", !.left = TRUE]

TiMove ==
  \E e \in {0} \cup ti.there :
    LET entered == TiAround(e) \ TiAround(ti.over)
        gone    == TiAround(ti.over) \ TiAround(e)
        ended   == IF gone = {} THEN ti ELSE TiEnd(ti)
    IN /\ e # ti.over
       /\ ti' = [(IF entered = {} THEN ended ELSE TiStart(ended, TiOutermost(entered))) EXCEPT !.over = e]

\* An element that is taken out by the page ends its tip, whosever it is.
TiTrash ==
  \E e \in ti.there :
    /\ \A f \in ti.there : <<f, e>> \notin TiInside
    /\ LET ended == [TiEnd(ti) EXCEPT !.there = @ \ {e}]
       IN ti' = [ended EXCEPT !.over = IF @ = e THEN 0 ELSE @]

\* show() and hide(), when the timer has run.
TiShow == /\ ti.timer = "show"
          /\ ti' = [ti EXCEPT !.visible = TRUE, !.timer = IF ti.timeout THEN "timeout" ELSE "none"]
TiHide == /\ ti.timer \in {"hide", "timeout"}
          /\ ti' = [ti EXCEPT !.visible = FALSE, !.timer = "none", !.expired = ti.timer = "timeout"]

TiNext == TiMove \/ TiTrash \/ TiShow \/ TiHide

-----------------------------------------------------------------------------
(* Properties.                                                             *)

\* When the timer has run, a box that is shown holds the tip of an element under the
\* mouse; and one is shown while the mouse is over an element, unless it timed out,
\* or the mouse came back from an element inside, or another was taken out since.
TiRight ==
  ti.timer \in {"none", "timeout"} =>
    /\ ti.visible => ti.text \in TiAround(ti.over)
    /\ ti.over # 0 /\ ~ti.visible => ti.left \/ ti.expired
================================================================================
