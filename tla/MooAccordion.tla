----------------------------- MODULE MooAccordion -----------------------------
(***************************************************************************)
(* Accordion, an Fx.Elements whose sections are opened by their togglers.  *)
(* A section is as high as 0, halfway 1, or 2.                             *)
(***************************************************************************)
EXTENDS Integers, Sequences

CONSTANTS AcSections,  (* sections at first                                 *)
          AcMaxAdded   (* bound: sections added later                       *)

ASSUME AcAssumption == AcSections \in Nat \ {0} /\ AcMaxAdded \in Nat

VARIABLE ac
(* ac.always: alwaysHide, and with it wait; ac.h: the heights; ac.to: where  *)
(* the effect that runs, or ran, brings the sections it knows; ac.running:   *)
(* this.timer; ac.previous: 0 for -1; ac.active: the sections whose last     *)
(* event was onActive; ac.cut: history, the last effect was stopped          *)

AcInit ==
  \E always \in BOOLEAN, show \in {0, 1} :
    ac = [always |-> always, h |-> [i \in 1 .. AcSections |-> IF i = show THEN 2 ELSE 0],
          to |-> <<>>, running |-> FALSE, previous |-> show,
          active |-> {i \in 1 .. AcSections : i = show}, cut |-> FALSE]

\* display()
AcHides(s, index, i) == i # index \/ (s.always /\ s.h[i] > 0)
AcDisplay(s, index) ==
  LET active == {i \in DOMAIN s.h : ~AcHides(s, index, i)}
  IN IF (s.running /\ s.always) \/ (index = s.previous /\ ~s.always) THEN s
     ELSE [s EXCEPT !.previous = index, !.active = active, !.running = TRUE, !.cut = FALSE,
                    !.to = [i \in DOMAIN s.h |-> IF i \in active THEN 2 ELSE 0]]

\* A click on a toggler, or the page; the option display does it at first.
AcClick == \E index \in DOMAIN ac.h : ac' = AcDisplay(ac, index)

\* addSection(): closed, and not part of what runs.
AcAddSection ==
  /\ Len(ac.h) < AcSections + AcMaxAdded
  /\ ac' = [ac EXCEPT !.h = Append(@, 0)]

AcStop == /\ ac.running
          /\ ac' = [ac EXCEPT !.running = FALSE, !.cut = TRUE]

\* A frame draws a section on its way, the last one where it was to go.
AcReached(s, i, last) ==
  IF i \notin DOMAIN s.to THEN s.h[i]
  ELSE IF last \/ s.h[i] = s.to[i] THEN s.to[i] ELSE 1
AcFrame ==
  \E last \in BOOLEAN :
    /\ ac.running
    /\ ac' = [ac EXCEPT !.h = [i \in DOMAIN @ |-> AcReached(ac, i, last)], !.running = ~last]

AcNext == AcClick \/ AcAddSection \/ AcStop \/ AcFrame

-----------------------------------------------------------------------------
(* Properties.                                                             *)

\* When nothing runs and the last effect was not stopped, the one section that was
\* told it is active is open and all others are closed; none may be only with
\* alwaysHide, or before the first.
AcOneOpen ==
  /\ ac.active \subseteq {ac.previous}
  /\ ~ac.running /\ ~ac.cut =>
       /\ \A i \in DOMAIN ac.h : ac.h[i] = IF i \in ac.active THEN 2 ELSE 0
       /\ ~ac.always /\ ac.previous # 0 => ac.active = {ac.previous}
===============================================================================
