---------------------------- MODULE WidgetProofs ----------------------------
(***************************************************************************)
(* The widgets of the pages, one after the other: dragging, the slides,    *)
(* the image menu, the accordion, the box of tips, the group, the effects, *)
(* Dojo's events with their listeners, and the requests of MooTools.  Each *)
(* has an inductive invariant, one lemma for each action that keeps it,    *)
(* and a lemma that draws from it what the module of the widget promises.  *)
(* Where an action is made of several methods, a lemma per method says     *)
(* what it does to the fields.                                             *)
(***************************************************************************)
EXTENDS MooDrag, NoobSlide, ImageMenu, MooAccordion, MooTips, MooGroup, MooFx,
        MooAjax, DojoConnect, FiniteSetTheorems, SequenceTheorems,
        WellFoundedInduction, TLAPS

-----------------------------------------------------------------------------
(* Dragging: the invariant.                                                *)

DrHandlers == {"check", "drag", "stop", "moveGhost", "move", "end"}

DrIs(s) ==
  /\ DOMAIN s = {"kind", "opt", "listen", "lost", "held", "at", "from", "grip", "out",
                 "over", "told", "step", "change", "ended", "heard", "order",
                 "active", "last", "ghosts", "presses"}
  /\ s.kind \in DrKinds /\ s.listen \in SUBSET DrHandlers
  /\ s.lost \in BOOLEAN /\ s.held \in BOOLEAN /\ s.out \in BOOLEAN
  /\ s.at \in Int /\ s.from \in Int /\ s.grip \in Int /\ s.last \in Int
  /\ s.over \in 0 .. 2 /\ s.told \in [DrZones -> Int]
  /\ s.step \in Int /\ s.change \in Int /\ s.ended \in Int /\ s.heard \in Int \X Int
  /\ s.order \in [1 .. DrItems -> 1 .. DrItems] /\ s.active \in 0 .. DrItems
  /\ s.ghosts \in Int /\ s.presses \in Int
  /\ s.opt \in [lo : Int, hi : Int, grid : Int, snap : Int, steps : Int, offset : Int]

\* The options of each kind, as far as the invariant needs them.
DrOptInv(s) ==
  /\ s.kind = "move" => s.opt.lo \in {0, 1} /\ s.opt.hi = 4 /\ s.opt.grid \in {0, 2}
  /\ s.kind = "slider" => /\ s.opt.offset \in {0, 1} /\ s.opt.steps \in {2, 4}
                          /\ s.opt.lo = -s.opt.offset
                          /\ s.opt.hi = DrMax + s.opt.offset /\ s.opt.grid = 0
  /\ s.kind = "sortables" => s.opt.lo = 0 /\ s.opt.hi = 4

\* What the page was told is what change and ended say; only a slider has steps.
DrHeardInv(s) ==
  /\ s.heard = <<s.change, s.ended>>
  /\ s.kind # "slider" => s.change = s.step /\ s.ended = s.step

DrPlaceInv(s) ==
  /\ (s.opt.lo <= 0 /\ s.opt.offset = 0) => s.at >= s.opt.lo /\ s.at <= s.opt.hi
  /\ (s.kind = "slider" /\ s.opt.offset = 0 /\ s.step # -1)
       => DrToStep(s, s.at) = s.step

DrOverInv(s) ==
  /\ s.out => s.over = 0
  /\ s.kind # "move" => s.over = 0

DrOrderInv(s) ==
  /\ \A i, j \in 1 .. DrItems : s.order[i] = s.order[j] => i = j
  /\ (s.kind = "sortables" /\ s.listen # {}) => s.active \in 1 .. DrItems

\* Before a release is lost the document is listened to while the button is down;
\* then a list has its ghost, and the droppable that is over has been told so.
DrHoldInv(s) ==
  ~s.lost =>
    /\ s.held <=> s.listen # {}
    /\ IF s.kind = "sortables"
         THEN /\ s.listen \in {{}, {"moveGhost", "move", "end"}}
              /\ s.ghosts = IF s.held THEN 1 ELSE 0
              /\ \A z \in DrZones : s.told[z] = 0
         ELSE /\ s.listen \in {{}, {"check", "stop"}, {"drag", "stop"}}
              /\ s.ghosts = 0
              /\ \A z \in DrZones : s.told[z] = IF s.held /\ z = s.over THEN 1 ELSE 0
    /\ ~s.held => s.change = s.step /\ s.ended = s.step

DrInvOf(s) ==
  /\ DrIs(s) /\ DrOptInv(s) /\ DrOverInv(s)
  /\ DrHeardInv(s) /\ DrPlaceInv(s) /\ DrOrderInv(s) /\ DrHoldInv(s)

DrInv == DrInvOf(dr)

-----------------------------------------------------------------------------
(* Dragging: the methods of the slider.                                    *)

\* All fields but those that say where the slider stands and what it told.
DrKeeps(s, t) ==
  /\ t.kind = s.kind /\ t.opt = s.opt /\ t.listen = s.listen /\ t.lost = s.lost
  /\ t.held = s.held /\ t.at = s.at /\ t.from = s.from /\ t.grip = s.grip
  /\ t.out = s.out /\ t.over = s.over /\ t.told = s.told /\ t.order = s.order
  /\ t.active = s.active /\ t.last = s.last /\ t.ghosts = s.ghosts
  /\ t.presses = s.presses

\* Places on the way of a slider have whole steps.
LEMMA DrToStepInt ==
  ASSUME NEW s, DrIs(s), DrOptInv(s), s.kind = "slider", NEW p \in Int
  PROVE  DrToStep(s, p) \in Int
<1>1. CASE s.opt.offset = 0 /\ s.opt.steps = 2
  BY <1>1 DEF DrToStep, DrWay, DrMax
<1>2. CASE s.opt.offset = 0 /\ s.opt.steps = 4
  BY <1>2 DEF DrToStep, DrWay, DrMax
<1>3. CASE s.opt.offset = 1 /\ s.opt.steps = 2
  BY <1>3 DEF DrToStep, DrWay, DrMax
<1>4. CASE s.opt.offset = 1 /\ s.opt.steps = 4
  BY <1>4 DEF DrToStep, DrWay, DrMax
<1> QED
  BY <1>1, <1>2, <1>3, <1>4 DEF DrOptInv

\* The step of a place does not depend on where the slider is.
LEMMA DrStepsOfOpt ==
  ASSUME NEW s, NEW t, t.opt = s.opt, NEW p
  PROVE  DrToStep(t, p) = DrToStep(s, p)
BY DEF DrToStep, DrWay

\* set() without offset puts the knob where it stands at the step that was set.
LEMMA DrSetIsStep ==
  ASSUME NEW s, DrIs(s), DrOptInv(s), s.kind = "slider", s.opt.offset = 0,
         NEW n \in 0 .. s.opt.steps
  PROVE  /\ DrToPosition(s, n) \in 0 .. 4
         /\ DrToStep(s, DrToPosition(s, n)) = n
<1>1. CASE s.opt.steps = 2
  BY <1>1 DEF DrToStep, DrToPosition, DrWay, DrMax
<1>2. CASE s.opt.steps = 4
  BY <1>2 DEF DrToStep, DrToPosition, DrWay, DrMax
<1> QED
  BY <1>1, <1>2 DEF DrOptInv

\* set() puts the knob somewhere.
LEMMA DrToPositionInt ==
  ASSUME NEW s, DrIs(s), DrOptInv(s), s.kind = "slider", NEW n \in Int
  PROVE  DrToPosition(s, n) \in Int
<1>1. CASE s.opt.offset = 0 /\ s.opt.steps = 2
  BY <1>1 DEF DrToPosition, DrWay, DrMax
<1>2. CASE s.opt.offset = 0 /\ s.opt.steps = 4
  BY <1>2 DEF DrToPosition, DrWay, DrMax
<1>3. CASE s.opt.offset = 1 /\ s.opt.steps = 2
  BY <1>3 DEF DrToPosition, DrWay, DrMax
<1>4. CASE s.opt.offset = 1 /\ s.opt.steps = 4
  BY <1>4 DEF DrToPosition, DrWay, DrMax
<1> QED
  BY <1>1, <1>2, <1>3, <1>4 DEF DrOptInv

\* checkStep()
LEMMA DrCheckStepEffect ==
  ASSUME NEW s, DrIs(s), s.heard = <<s.change, s.ended>>,
         NEW t, t = DrCheckStep(s)
  PROVE  /\ DrIs(t) /\ DrKeeps(s, t) /\ t.step = s.step /\ t.change = s.step
         /\ t.ended = s.ended /\ t.heard = <<t.change, t.ended>>
<1>1. CASE s.change = s.step
  BY <1>1 DEF DrCheckStep, DrKeeps
<1>2. CASE s.change # s.step
  <2>1. PICK h : h = [s.heard EXCEPT ![1] = s.step]
    OBVIOUS
  <2>2. h = <<s.step, s.ended>>
    BY <2>1
  <2>3. t = [s EXCEPT !.change = s.step, !.heard = h]
    BY <1>2, <2>1 DEF DrCheckStep
  <2>4. h \in Int \X Int /\ s.step \in Int
    BY <2>2 DEF DrIs
  <2>5. DrIs(t)
    BY <2>3, <2>4 DEF DrIs
  <2> QED
    BY <2>2, <2>3, <2>5 DEF DrIs, DrKeeps
<1> QED
  BY <1>1, <1>2

\* end()
LEMMA DrEndEffect ==
  ASSUME NEW s, DrIs(s), s.heard = <<s.change, s.ended>>,
         NEW t, t = DrEnd(s)
  PROVE  /\ DrIs(t) /\ DrKeeps(s, t) /\ t.step = s.step /\ t.change = s.change
         /\ t.ended = s.step /\ t.heard = <<t.change, t.ended>>
<1>1. CASE s.ended = s.step
  BY <1>1 DEF DrEnd, DrKeeps
<1>2. CASE s.ended # s.step
  <2>1. PICK h : h = [s.heard EXCEPT ![2] = s.step]
    OBVIOUS
  <2>2. h = <<s.change, s.step>>
    BY <2>1
  <2>3. t = [s EXCEPT !.ended = s.step, !.heard = h]
    BY <1>2, <2>1 DEF DrEnd
  <2>4. h \in Int \X Int /\ s.step \in Int
    BY <2>2 DEF DrIs
  <2>5. DrIs(t)
    BY <2>3, <2>4 DEF DrIs
  <2> QED
    BY <2>2, <2>3, <2>5 DEF DrIs, DrKeeps
<1> QED
  BY <1>1, <1>2

\* What the page was told is in step with the slider.
DrInStep(s) == s.heard = <<s.change, s.ended>>

\* draggedKnob(): a slider has the step of its place and tells so.
LEMMA DrDraggedKnobEffect ==
  ASSUME NEW s, DrIs(s), DrOptInv(s), DrInStep(s), NEW t, t = DrDraggedKnob(s)
  PROVE  /\ DrIs(t) /\ DrKeeps(s, t) /\ DrInStep(t) /\ t.ended = s.ended
         /\ IF s.kind = "slider" THEN t.step = DrToStep(s, s.at) /\ t.change = t.step
                                 ELSE t = s
<1>1. CASE s.kind # "slider"
  BY <1>1 DEF DrDraggedKnob, DrKeeps
<1>2. CASE s.kind = "slider"
  <2>1. PICK n : n = DrToStep(s, s.at)
    OBVIOUS
  <2>2. n \in Int
    BY <1>2, <2>1, DrToStepInt DEF DrIs
  <2>3. PICK u : u = [s EXCEPT !.step = n]
    OBVIOUS
  <2>4. DrIs(u) /\ DrKeeps(s, u) /\ u.heard = <<u.change, u.ended>>
        /\ u.step = n /\ u.ended = s.ended
    BY <2>2, <2>3 DEF DrIs, DrKeeps, DrInStep
  <2>5. t = DrCheckStep(u)
    BY <1>2, <2>1, <2>3 DEF DrDraggedKnob
  <2>6. /\ DrIs(t) /\ DrKeeps(u, t) /\ t.step = u.step /\ t.change = u.step
        /\ t.ended = u.ended /\ t.heard = <<t.change, t.ended>>
    BY <2>4, <2>5, DrCheckStepEffect
  <2>7. DrKeeps(s, t)
    BY <2>4, <2>6 DEF DrKeeps
  <2> QED
    BY <1>2, <2>1, <2>4, <2>6, <2>7 DEF DrInStep
<1> QED
  BY <1>1, <1>2

-----------------------------------------------------------------------------
(* Dragging: presses.                                                      *)

\* The fields that a press leaves as they are, and those that start() does.
DrRest(s, u) ==
  /\ u.kind = s.kind /\ u.opt = s.opt /\ u.lost = s.lost
  /\ u.at = s.at /\ u.out = s.out /\ u.told = s.told
  /\ u.step = s.step /\ u.change = s.change /\ u.ended = s.ended
  /\ u.heard = s.heard /\ u.order = s.order /\ u.active = s.active
  /\ u.ghosts = s.ghosts

DrPressed(s, u) == DrRest(s, u) /\ u.listen = s.listen /\ u.over = s.over

\* The button goes down.
LEMMA DrPressEffect ==
  ASSUME NEW s, DrIs(s), NEW u, u = [s EXCEPT !.held = TRUE, !.presses = @ + 1]
  PROVE  DrIs(u) /\ u.held /\ DrPressed(s, u)
<1>1. s.presses + 1 \in Int
  BY SMTT(30) DEF DrIs
<1>2. DrIs(u)
  BY <1>1 DEF DrIs
<1> QED
  BY <1>1, <1>2 DEF DrIs, DrPressed, DrRest

\* start() before the knob is looked at.
DrGrips(u, x, g, L, v) ==
  v = [u EXCEPT !.from = x, !.grip = g, !.over = 0, !.listen = L]

\* Nothing is over, and the other fields are as they were.
DrGripped(u, L, v) ==
  DrIs(v) /\ (v.held <=> u.held) /\ v.over = 0 /\ v.listen = L /\ DrRest(u, v)

\* It leaves the other fields as they are.
LEMMA DrGripEffect ==
  ASSUME NEW u, DrIs(u), NEW x \in Int, NEW g \in Int,
         NEW L \in SUBSET DrHandlers,
         NEW v, DrGrips(u, x, g, L, v)
  PROVE  DrGripped(u, L, v)
<1>1. 0 \in 0 .. 2
  OBVIOUS
<1>2. DrIs(v)
  BY <1>1, SMTT(30) DEF DrIs, DrGrips
<1> QED
  BY <1>2 DEF DrIs, DrGrips, DrGripped, DrRest

\* A press begins to listen; nothing is over yet.
LEMMA DrDragStartStep ==
  ASSUME NEW s, DrInvOf(s), s.kind # "sortables", ~s.held, NEW x \in Int,
         NEW u, DrIs(u), u.held, DrPressed(s, u),
         NEW t, t = DrDragStart(u, x)
  PROVE  DrInvOf(t)
<1>1. DrIs(s) /\ DrOptInv(s) /\ DrInStep(s)
  BY DEF DrInvOf, DrHeardInv, DrInStep
<1>2. u.at \in Int /\ u.listen \in SUBSET DrHandlers
  BY DEF DrIs
<1>3. x - u.at \in Int /\ u.listen \cup {"check", "stop"} \in SUBSET DrHandlers
  BY <1>2 DEF DrHandlers
<1>4. PICK g \in Int, L \in SUBSET DrHandlers :
         g = x - u.at /\ L = u.listen \cup {"check", "stop"}
  BY <1>3
<1>5. PICK v : DrGrips(u, x, g, L, v)
  BY DEF DrGrips
<1>6. /\ DrIs(v) /\ v.held /\ v.over = 0 /\ v.listen = s.listen \cup {"check", "stop"}
      /\ v.kind = s.kind /\ v.opt = s.opt /\ v.lost = s.lost /\ v.at = s.at
      /\ v.out = s.out /\ v.told = s.told /\ v.step = s.step /\ v.change = s.change
      /\ v.ended = s.ended /\ v.heard = s.heard /\ v.order = s.order
      /\ v.active = s.active /\ v.ghosts = s.ghosts
  <2>1. DrGripped(u, L, v)
    BY <1>4, <1>5, DrGripEffect, ZenonT(30)
  <2> QED
    BY <1>4, <2>1 DEF DrGripped, DrPressed, DrRest
<1>7. t = DrDraggedKnob(v)
  BY <1>5, <1>4 DEF DrDragStart, DrGrips
<1>8. DrOptInv(v) /\ DrInStep(v)
  BY <1>1, <1>6 DEF DrOptInv, DrInStep
<1>9. /\ DrIs(t) /\ DrKeeps(v, t) /\ DrInStep(t) /\ t.ended = v.ended
      /\ IF v.kind = "slider" THEN t.step = DrToStep(v, v.at) /\ t.change = t.step
                              ELSE t = v
  BY <1>6, <1>7, <1>8, DrDraggedKnobEffect
<1>10. DrOptInv(t) /\ DrOverInv(t)
  BY <1>6, <1>8, <1>9 DEF DrOptInv, DrOverInv, DrKeeps
<1>11. DrHeardInv(t)
  BY <1>6, <1>9 DEF DrInvOf, DrHeardInv, DrInStep, DrKeeps
<1>12. DrPlaceInv(t)
  <2>1. t.kind = s.kind /\ t.opt = s.opt /\ t.at = s.at
    BY <1>6, <1>9 DEF DrKeeps
  <2>2. DrPlaceInv(s)
    BY DEF DrInvOf
  <2>3. (t.opt.lo <= 0 /\ t.opt.offset = 0) => t.at >= t.opt.lo /\ t.at <= t.opt.hi
    BY <2>1, <2>2 DEF DrPlaceInv
  <2>4. t.kind = "slider" => DrToStep(t, t.at) = t.step
    BY <1>6, <1>9, <2>1, DrStepsOfOpt
  <2> QED
    BY <2>3, <2>4 DEF DrPlaceInv
<1>13. DrOrderInv(t)
  BY <1>6, <1>9 DEF DrInvOf, DrOrderInv, DrKeeps
<1>14. DrHoldInv(t)
  <2> SUFFICES ASSUME ~t.lost PROVE DrHoldInv(t)
    BY DEF DrHoldInv
  <2>1. /\ t.kind = s.kind /\ t.held /\ t.over = 0 /\ t.told = s.told
        /\ t.listen = s.listen \cup {"check", "stop"} /\ t.ghosts = s.ghosts
        /\ ~s.lost
    BY <1>6, <1>9 DEF DrKeeps
  <2>2. s.listen = {} /\ s.ghosts = 0 /\ \A z \in DrZones : s.told[z] = 0
    BY <2>1 DEF DrInvOf, DrHoldInv
  <2> QED
    BY <2>1, <2>2 DEF DrHoldInv, DrZones
<1> QED
  BY <1>9, <1>10, <1>11, <1>12, <1>13, <1>14 DEF DrInvOf

\* A press on an item of the list.
LEMMA DrSortStartStep ==
  ASSUME NEW s, DrInvOf(s), s.kind = "sortables", ~s.held, NEW i \in 1 .. DrItems,
         NEW u, DrIs(u), u.held, DrPressed(s, u),
         NEW t, t = DrSortStart(u, i)
  PROVE  DrInvOf(t)
<1>1. /\ u.ghosts + 1 \in Int /\ i \in 0 .. DrItems
      /\ u.listen \cup {"moveGhost", "move", "end"} \in SUBSET DrHandlers
  BY DEF DrIs, DrHandlers, DrItems
<1>2. t = [u EXCEPT !.active = i, !.ghosts = u.ghosts + 1,
                    !.listen = u.listen \cup {"moveGhost", "move", "end"}]
  BY DEF DrSortStart, DrIs
<1>3. DrIs(t)
  BY <1>1, <1>2, ZenonT(30) DEF DrIs
<1>4. /\ t.held = u.held /\ t.active = i /\ t.ghosts = u.ghosts + 1
      /\ t.listen = u.listen \cup {"moveGhost", "move", "end"}
      /\ t.kind = u.kind /\ t.opt = u.opt /\ t.lost = u.lost /\ t.at = u.at
      /\ t.out = u.out /\ t.over = u.over /\ t.told = u.told /\ t.step = u.step
      /\ t.change = u.change /\ t.ended = u.ended /\ t.heard = u.heard
      /\ t.order = u.order
  BY <1>2 DEF DrIs
<1>5. /\ DrIs(t) /\ t.held /\ t.active = i /\ t.ghosts = s.ghosts + 1
      /\ t.listen = s.listen \cup {"moveGhost", "move", "end"}
      /\ t.kind = s.kind /\ t.opt = s.opt /\ t.lost = s.lost /\ t.at = s.at
      /\ t.out = s.out /\ t.over = s.over /\ t.told = s.told /\ t.step = s.step
      /\ t.change = s.change /\ t.ended = s.ended /\ t.heard = s.heard
      /\ t.order = s.order
  BY <1>3, <1>4 DEF DrPressed, DrRest
<1>6. DrOptInv(t) /\ DrOverInv(t) /\ DrHeardInv(t) /\ DrOrderInv(t)
  BY <1>5 DEF DrInvOf, DrOptInv, DrOverInv, DrHeardInv, DrOrderInv
<1>7. DrPlaceInv(t)
  BY <1>5 DEF DrInvOf, DrPlaceInv
<1>8. DrHoldInv(t)
  BY <1>5 DEF DrInvOf, DrHoldInv
<1> QED
  BY <1>5, <1>6, <1>7, <1>8 DEF DrInvOf

-----------------------------------------------------------------------------
(* Dragging: moves.                                                        *)

\* What drag() draws is a number, within limits that lie around zero.
LEMMA DrValueIn ==
  ASSUME NEW s, DrIs(s), DrOptInv(s), s.kind # "sortables", NEW x \in Int
  PROVE  /\ DrValue(s, x) \in Int
         /\ (s.opt.lo <= 0 /\ s.opt.offset = 0)
              => DrValue(s, x) >= s.opt.lo /\ DrValue(s, x) <= s.opt.hi
<1>1. /\ s.opt.lo \in Int /\ s.opt.hi \in Int /\ s.opt.grid \in {0, 2}
      /\ x - s.grip \in Int /\ s.opt.offset \in Int
      /\ s.opt.lo <= 0 /\ s.opt.offset = 0 => s.opt.lo = 0 /\ s.opt.hi = 4
  <2>1. /\ s.opt \in [lo : Int, hi : Int, grid : Int, snap : Int, steps : Int, offset : Int]
        /\ s.grip \in Int /\ s.kind \in {"move", "slider"}
    BY DEF DrIs, DrKinds
  <2>2. s.opt.lo \in Int /\ s.opt.hi \in Int /\ s.opt.offset \in Int
    BY <2>1
  <2>3. CASE s.kind = "move"
    BY <2>1, <2>2, <2>3 DEF DrOptInv
  <2>4. CASE s.kind = "slider"
    BY <2>1, <2>2, <2>4 DEF DrOptInv, DrMax
  <2> QED
    BY <2>1, <2>3, <2>4
<1>2. PICK v \in Int : v = DrLimit(x - s.grip, s.opt.lo, s.opt.hi)
  BY <1>1 DEF DrLimit
<1>3. s.opt.lo <= 0 /\ s.opt.offset = 0 => v >= 0 /\ v <= 4
  BY <1>1, <1>2 DEF DrLimit
<1>4. CASE s.opt.grid = 0
  BY <1>1, <1>2, <1>3, <1>4 DEF DrValue
<1>5. CASE s.opt.grid = 2
  <2>1. DrRem(v, 2) \in Int /\ (v >= 0 => DrRem(v, 2) \in 0 .. 1 /\ DrRem(v, 2) <= v)
    BY DEF DrRem
  <2>2. DrValue(s, x) = v - DrRem(v, 2)
    BY <1>2, <1>5 DEF DrValue
  <2>3. PICK r \in Int : r = DrRem(v, 2)
    BY <2>1
  <2> QED
    BY <1>1, <1>3, <2>1, <2>2, <2>3
<1> QED
  BY <1>1, <1>4, <1>5

\* The fields that a move of the mouse leaves as they are.
DrStays(s, t) ==
  /\ t.kind = s.kind /\ t.opt = s.opt /\ t.listen = s.listen /\ t.lost = s.lost
  /\ (t.held <=> s.held) /\ t.order = s.order /\ t.active = s.active
  /\ t.ghosts = s.ghosts

\* What the slider told stays as well.
DrSilent(s, t) ==
  /\ t.step = s.step /\ t.change = s.change /\ t.ended = s.ended
  /\ t.heard = s.heard

\* 'over' and 'leave', of a droppable or of none.
LEMMA DrTellEffect ==
  ASSUME NEW s, DrIs(s), NEW z \in 0 .. 2, NEW n \in {-1, 1},
         NEW t, t = DrTell(s, z, n)
  PROVE  /\ DrIs(t) /\ DrStays(s, t) /\ DrSilent(s, t)
         /\ t.at = s.at /\ (t.out <=> s.out) /\ t.over = s.over
         /\ \A y \in DrZones : t.told[y] = s.told[y] + (IF y = z THEN n ELSE 0)
<1>1. \A y \in DrZones : s.told[y] \in Int
  BY DEF DrIs
<1>2. CASE z = 0
  <2>1. t = s
    BY <1>2 DEF DrTell
  <2>2. \A y \in DrZones : y # z
    BY <1>2 DEF DrZones
  <2> QED
    BY <1>1, <2>1, <2>2 DEF DrStays, DrSilent
<1>3. CASE z # 0
  <2>1. z \in DrZones
    BY <1>3 DEF DrZones
  <2>2. z \in DrZones /\ s.told[z] + n \in Int
    BY <1>1, <2>1
  <2>3. PICK q \in [DrZones -> Int] : q = [s.told EXCEPT ![z] = s.told[z] + n]
    BY <2>2 DEF DrIs
  <2>4. t = [s EXCEPT !.told = q]
    BY <1>3, <2>3 DEF DrTell
  <2>5. DrIs(t)
    BY <2>4 DEF DrIs
  <2>6. DrStays(s, t) /\ DrSilent(s, t) /\ t.at = s.at /\ (t.out <=> s.out)
        /\ t.over = s.over /\ t.told = q
    BY <2>4 DEF DrIs, DrStays, DrSilent
  <2>7. \A y \in DrZones : q[y] = s.told[y] + (IF y = z THEN n ELSE 0)
    <3>1. \A y \in DrZones : q[y] = IF y = z THEN s.told[z] + n ELSE s.told[y]
      BY <2>3 DEF DrIs
    <3> QED
      BY <1>1, <3>1
  <2> QED
    BY <2>5, <2>6, <2>7
<1> QED
  BY <1>2, <1>3

\* drag() draws.
DrDraws(s, x, t) == t = [s EXCEPT !.out = DrOut(s, x), !.at = DrValue(s, x)]

\* It draws within the limits.
LEMMA DrDrawsEffect ==
  ASSUME NEW s, DrIs(s), DrOptInv(s), s.kind # "sortables", NEW x \in Int,
         NEW t, DrDraws(s, x, t)
  PROVE  /\ DrIs(t) /\ DrStays(s, t) /\ DrSilent(s, t) /\ t.at = DrValue(s, x)
         /\ t.over = s.over /\ t.told = s.told
<1>1. PICK v \in Int : v = DrValue(s, x)
  BY DrValueIn
<1>2. PICK b \in BOOLEAN : b = DrOut(s, x)
  BY DEF DrOut
<1>3. t = [s EXCEPT !.out = b, !.at = v]
  BY <1>1, <1>2 DEF DrDraws
<1>4. DrIs(t)
  BY <1>3 DEF DrIs
<1>5. /\ DrStays(s, t) /\ DrSilent(s, t) /\ t.at = v
      /\ t.over = s.over /\ t.told = s.told
  BY <1>3 DEF DrIs, DrStays, DrSilent
<1> QED
  BY <1>1, <1>4, <1>5

\* One droppable at most lies under the mouse, as far as it is told.
LEMMA DrUnderZone == ASSUME NEW x \in Int PROVE DrUnder(x) \in 0 .. 2
<1>1. 2 * (1 - 1) = 0 /\ 2 * 1 + 1 = 3 /\ 2 * (2 - 1) = 2 /\ 2 * 2 + 1 = 5
  OBVIOUS
<1>2. PICK Z \in SUBSET DrZones : Z = {z \in DrZones : 2 * (z - 1) < x /\ x < 2 * z + 1}
  OBVIOUS
<1>3. CASE Z = {}
  BY <1>2, <1>3 DEF DrUnder
<1>4. CASE Z # {}
  <2>1. \E z \in Z : \A y \in Z : y <= z
    <3>1. CASE 2 \in Z
      BY <3>1 DEF DrZones
    <3>2. CASE 2 \notin Z
      <4>1. Z = {1}
        BY <1>2, <1>4, <3>2 DEF DrZones
      <4> QED
        BY <4>1
    <3> QED
      BY <3>1, <3>2
  <2>2. DrUnder(x) = CHOOSE z \in Z : \A y \in Z : y <= z
    BY <1>2, <1>4 DEF DrUnder
  <2>3. DrUnder(x) \in Z
    BY <2>1, <2>2
  <2>4. DrUnder(x) \in DrZones
    BY <2>3
  <2> QED
    BY <2>4 DEF DrZones
<1> QED
  BY <1>3, <1>4

\* drag() over droppables: the one left and the one entered are told.
LEMMA DrOverEffect ==
  ASSUME NEW s, DrIs(s), DrOptInv(s), s.kind = "move", NEW x \in Int,
         s.out => s.over = 0, NEW t, t = DrDragMove(s, x)
  PROVE  /\ DrIs(t) /\ DrStays(s, t) /\ DrSilent(s, t) /\ t.at = DrValue(s, x)
         /\ t.out => t.over = 0
         /\ \A y \in DrZones :
              t.told[y] = s.told[y] + (IF y = t.over THEN 1 ELSE 0)
                                    - (IF y = s.over THEN 1 ELSE 0)
<1>1. PICK u : DrDraws(s, x, u)
  BY DEF DrDraws
<1>2. /\ DrIs(u) /\ DrStays(s, u) /\ DrSilent(s, u) /\ u.at = DrValue(s, x)
      /\ u.over = s.over /\ u.told = s.told
  BY <1>1, DrDrawsEffect
<1>3. PICK z \in 0 .. 2 : z = IF u.out THEN 0 ELSE DrUnder(x)
  BY DrUnderZone
<1>4. t = IF z = s.over THEN u
          ELSE [DrTell(DrTell(u, s.over, -1), z, 1) EXCEPT !.over = z]
  BY <1>1, <1>3 DEF DrDragMove, DrDraws
<1>5. s.over \in 0 .. 2 /\ \A y \in DrZones : s.told[y] \in Int
  BY DEF DrIs
<1>6. CASE z = s.over
  <2>1. t = u /\ (t.out => t.over = 0)
    BY <1>2, <1>3, <1>4, <1>6
  <2>2. \A y \in DrZones :
          t.told[y] = s.told[y] + (IF y = t.over THEN 1 ELSE 0)
                                - (IF y = s.over THEN 1 ELSE 0)
    BY <1>2, <1>5, <2>1
  <2> QED
    BY <1>2, <2>1, <2>2
<1>7. CASE z # s.over
  <2>1. PICK v : v = DrTell(u, s.over, -1)
    OBVIOUS
  <2>2. /\ DrIs(v) /\ DrStays(u, v) /\ DrSilent(u, v)
        /\ v.at = u.at /\ (v.out <=> u.out) /\ v.over = u.over
        /\ \A y \in DrZones : v.told[y] = u.told[y] + (IF y = s.over THEN -1 ELSE 0)
    BY <1>2, <1>5, <2>1, DrTellEffect
  <2>3. PICK w : w = DrTell(v, z, 1)
    OBVIOUS
  <2>4. /\ DrIs(w) /\ DrStays(v, w) /\ DrSilent(v, w)
        /\ w.at = v.at /\ (w.out <=> v.out) /\ w.over = v.over
        /\ \A y \in DrZones : w.told[y] = v.told[y] + (IF y = z THEN 1 ELSE 0)
    BY <1>3, <2>2, <2>3, DrTellEffect
  <2>5. t = [w EXCEPT !.over = z]
    BY <1>4, <1>7, <2>1, <2>3
  <2>6. DrIs(t)
    BY <1>3, <2>4, <2>5, ZenonT(30) DEF DrIs
  <2>7. /\ DrStays(w, t) /\ DrSilent(w, t) /\ t.at = w.at /\ (t.out <=> w.out)
        /\ t.over = z /\ t.told = w.told
    BY <2>4, <2>5 DEF DrIs, DrStays, DrSilent
  <2>8. DrStays(s, t) /\ DrSilent(s, t)
    BY <1>2, <2>2, <2>4, <2>7 DEF DrStays, DrSilent
  <2>9. t.at = DrValue(s, x)
    BY <1>2, <2>2, <2>4, <2>7
  <2>10. t.out => t.over = 0
    BY <1>3, <2>2, <2>4, <2>7
  <2>11. \A y \in DrZones :
           t.told[y] = s.told[y] + (IF y = t.over THEN 1 ELSE 0)
                                 - (IF y = s.over THEN 1 ELSE 0)
    <3> SUFFICES ASSUME NEW y \in DrZones
                 PROVE  t.told[y] = s.told[y] + (IF y = t.over THEN 1 ELSE 0)
                                              - (IF y = s.over THEN 1 ELSE 0)
      OBVIOUS
    <3>1. v.told[y] = s.told[y] + (IF y = s.over THEN -1 ELSE 0)
      BY <1>2, <2>2
    <3>2. t.told[y] = v.told[y] + (IF y = z THEN 1 ELSE 0)
      BY <2>4, <2>7
    <3>3. s.told[y] \in Int
      BY <1>5
    <3> QED
      BY <2>7, <3>1, <3>2, <3>3
  <2> QED
    BY <2>6, <2>8, <2>9, <2>10, <2>11
<1> QED
  BY <1>6, <1>7

\* drag() of a knob.
LEMMA DrKnobEffect ==
  ASSUME NEW s, DrIs(s), DrOptInv(s), s.kind = "slider", NEW x \in Int, DrInStep(s),
         NEW t, t = DrDragMove(s, x)
  PROVE  /\ DrIs(t) /\ DrStays(s, t) /\ DrInStep(t) /\ t.at = DrValue(s, x)
         /\ t.over = s.over /\ t.told = s.told
         /\ t.step = DrToStep(t, t.at)
<1>1. PICK u : DrDraws(s, x, u)
  BY DEF DrDraws
<1>2. /\ DrIs(u) /\ DrStays(s, u) /\ DrSilent(s, u) /\ u.at = DrValue(s, x)
      /\ u.over = s.over /\ u.told = s.told
  BY <1>1, DrDrawsEffect
<1>3. t = DrDraggedKnob(u)
  BY <1>1 DEF DrDragMove, DrDraws
<1>4. DrOptInv(u) /\ DrInStep(u) /\ u.kind = "slider"
  BY <1>2 DEF DrOptInv, DrInStep, DrStays, DrSilent
<1>5. /\ DrIs(t) /\ DrKeeps(u, t) /\ DrInStep(t) /\ t.ended = u.ended
      /\ IF u.kind = "slider" THEN t.step = DrToStep(u, u.at) /\ t.change = t.step
                              ELSE t = u
  BY <1>2, <1>3, <1>4, DrDraggedKnobEffect
<1>6. DrStays(s, t) /\ t.at = DrValue(s, x) /\ t.over = s.over /\ t.told = s.told
  BY <1>2, <1>5 DEF DrStays, DrKeeps
<1>7. t.opt = u.opt /\ t.at = u.at
  BY <1>5 DEF DrKeeps
<1>8. t.step = DrToStep(t, t.at)
  BY <1>4, <1>5, <1>7, DrStepsOfOpt
<1> QED
  BY <1>5, <1>6, <1>8

\* A move while the document is listened to.
LEMMA DrDragMoveStep ==
  ASSUME NEW s, DrInvOf(s), s.kind # "sortables", s.listen # {}, NEW x \in Int,
         NEW t, t = DrDragMove(s, x)
  PROVE  DrInvOf(t) /\ t.kind = s.kind /\ t.listen = s.listen
<1>1. /\ DrIs(s) /\ DrOptInv(s) /\ DrOverInv(s) /\ DrHeardInv(s)
      /\ s.kind \in {"move", "slider"}
  BY DEF DrInvOf, DrIs, DrKinds
<1>2. /\ DrIs(t) /\ DrStays(s, t) /\ DrOverInv(t) /\ DrHeardInv(t)
      /\ t.at = DrValue(s, x)
      /\ t.kind = "slider" => t.step = DrToStep(t, t.at)
      /\ \A y \in DrZones :
           t.told[y] = s.told[y] + (IF y = t.over THEN 1 ELSE 0)
                                 - (IF y = s.over THEN 1 ELSE 0)
  <2>1. CASE s.kind = "move"
    <3>1. /\ DrIs(t) /\ DrStays(s, t) /\ DrSilent(s, t) /\ t.at = DrValue(s, x)
          /\ t.out => t.over = 0
          /\ \A y \in DrZones :
               t.told[y] = s.told[y] + (IF y = t.over THEN 1 ELSE 0)
                                     - (IF y = s.over THEN 1 ELSE 0)
      BY <1>1, <2>1, DrOverEffect DEF DrOverInv
    <3>2. t.kind = "move"
      BY <2>1, <3>1 DEF DrStays
    <3>3. DrHeardInv(t)
      BY <1>1, <2>1, <3>1, <3>2 DEF DrHeardInv, DrSilent
    <3>4. DrOverInv(t)
      BY <3>1, <3>2 DEF DrOverInv
    <3> QED
      BY <3>1, <3>2, <3>3, <3>4
  <2>2. CASE s.kind = "slider"
    <3>1. DrInStep(s)
      BY <1>1 DEF DrInStep, DrHeardInv
    <3>2. /\ DrIs(t) /\ DrStays(s, t) /\ DrInStep(t) /\ t.at = DrValue(s, x)
          /\ t.over = s.over /\ t.told = s.told
          /\ t.step = DrToStep(t, t.at)
      BY <1>1, <2>2, <3>1, DrKnobEffect
    <3>3. t.kind = "slider"
      BY <2>2, <3>2 DEF DrStays
    <3>4. DrOverInv(t) /\ DrHeardInv(t)
      BY <1>1, <2>2, <3>2, <3>3 DEF DrOverInv, DrHeardInv, DrInStep
    <3>5. \A y \in DrZones :
            t.told[y] = s.told[y] + (IF y = t.over THEN 1 ELSE 0)
                                  - (IF y = s.over THEN 1 ELSE 0)
      <4>1. \A y \in DrZones : s.told[y] \in Int
        BY <1>1 DEF DrIs
      <4> QED
        BY <3>2, <4>1
    <3> QED
      BY <3>2, <3>4, <3>5
  <2> QED
    BY <1>1, <2>1, <2>2
<1>3. /\ t.kind = s.kind /\ t.opt = s.opt /\ t.listen = s.listen /\ t.lost = s.lost
      /\ (t.held <=> s.held) /\ t.order = s.order /\ t.active = s.active
      /\ t.ghosts = s.ghosts
  BY <1>2 DEF DrStays
<1>4. DrOptInv(t)
  BY <1>1, <1>3 DEF DrOptInv
<1>5. DrPlaceInv(t)
  <2>1. (t.opt.lo <= 0 /\ t.opt.offset = 0) => t.at >= t.opt.lo /\ t.at <= t.opt.hi
    BY <1>1, <1>2, <1>3, DrValueIn
  <2> QED
    BY <1>2, <2>1 DEF DrPlaceInv
<1>6. DrOrderInv(t)
  BY <1>3 DEF DrInvOf, DrOrderInv
<1>7. DrHoldInv(t)
  <2> SUFFICES ASSUME ~t.lost PROVE DrHoldInv(t)
    BY DEF DrHoldInv
  <2>1. /\ s.held /\ s.ghosts = 0 /\ s.listen \in {{}, {"check", "stop"}, {"drag", "stop"}}
        /\ \A z \in DrZones : s.told[z] = IF z = s.over THEN 1 ELSE 0
    BY <1>3 DEF DrInvOf, DrHoldInv
  <2>2. \A z \in DrZones : t.told[z] = IF z = t.over THEN 1 ELSE 0
    BY <1>2, <2>1
  <2> QED
    BY <1>3, <2>1, <2>2 DEF DrHoldInv
<1> QED
  BY <1>2, <1>3, <1>4, <1>5, <1>6, <1>7 DEF DrInvOf

\* check() past the snap listens to drag instead.
LEMMA DrCheckMoveStep ==
  ASSUME NEW s, DrInvOf(s), s.kind # "sortables", "check" \in s.listen, NEW x \in Int,
         NEW t, t = DrCheck(s, x)
  PROVE  DrInvOf(t) /\ t.kind = s.kind /\ t.listen # {}
<1>1. DrIs(s)
  BY DEF DrInvOf
<1>2. CASE t = s
  BY <1>2
<1>3. CASE t # s
  <2>1. PICK L : L = (s.listen \ {"check"}) \cup {"drag"}
    OBVIOUS
  <2>2. PICK u : u = [s EXCEPT !.listen = L]
    OBVIOUS
  <2>3. t = DrDragMove(u, x)
    BY <1>3, <2>1, <2>2 DEF DrCheck
  <2>4. s.listen \in SUBSET DrHandlers
    BY <1>1 DEF DrIs
  <2>5. L \in SUBSET DrHandlers /\ L # {}
        /\ (s.listen \in {{}, {"check", "stop"}, {"drag", "stop"}} => L = {"drag", "stop"})
    BY <2>1, <2>4 DEF DrHandlers
  <2>6. DrIs(u)
    BY <1>1, <2>2, <2>5 DEF DrIs
  <2>7. DrRest(s, u) /\ u.listen = L /\ (u.held <=> s.held) /\ u.over = s.over
    BY <1>1, <2>2 DEF DrIs, DrRest
  <2>8. DrOptInv(u) /\ DrOverInv(u) /\ DrHeardInv(u)
    BY <2>7 DEF DrInvOf, DrRest, DrOptInv, DrOverInv, DrHeardInv
  <2>9. DrPlaceInv(u)
    <3>1. u.kind = s.kind /\ u.opt = s.opt /\ u.at = s.at /\ u.step = s.step
      BY <2>7 DEF DrRest
    <3>2. DrToStep(u, u.at) = DrToStep(s, s.at)
      BY <3>1, DrStepsOfOpt
    <3> QED
      BY <3>1, <3>2 DEF DrInvOf, DrPlaceInv
  <2>10. DrOrderInv(u)
    BY <2>7 DEF DrInvOf, DrRest, DrOrderInv
  <2>11. DrHoldInv(u)
    BY <2>5, <2>7 DEF DrInvOf, DrRest, DrHoldInv
  <2>12. DrInvOf(u) /\ u.kind # "sortables" /\ u.listen # {}
    BY <2>5, <2>6, <2>7, <2>8, <2>9, <2>10, <2>11 DEF DrInvOf, DrRest
  <2>13. DrInvOf(t) /\ t.kind = u.kind /\ t.listen = u.listen
    BY <2>3, <2>12, DrDragMoveStep
  <2> QED
    BY <2>7, <2>12, <2>13 DEF DrRest
<1> QED
  BY <1>2, <1>3

-----------------------------------------------------------------------------
(* Dragging: the slider is set or its bar clicked.                         *)

\* checkStep() and end() one after the other tell the page the step.
LEMMA DrTellsStep ==
  ASSUME NEW s, DrIs(s), DrInStep(s), NEW n \in Int,
         NEW t, t = DrEnd(DrCheckStep([s EXCEPT !.step = n]))
  PROVE  /\ DrIs(t) /\ DrKeeps(s, t) /\ DrInStep(t)
         /\ t.step = n /\ t.change = n /\ t.ended = n
<1>1. PICK u : u = [s EXCEPT !.step = n]
  OBVIOUS
<1>2. DrIs(u) /\ DrKeeps(s, u) /\ u.heard = <<u.change, u.ended>> /\ u.step = n
  BY <1>1 DEF DrIs, DrKeeps, DrInStep
<1>3. PICK v : v = DrCheckStep(u)
  OBVIOUS
<1>4. /\ DrIs(v) /\ DrKeeps(u, v) /\ v.step = u.step /\ v.change = u.step
      /\ v.ended = u.ended /\ v.heard = <<v.change, v.ended>>
  BY <1>2, <1>3, DrCheckStepEffect
<1>5. t = DrEnd(v)
  BY <1>1, <1>3
<1>6. /\ DrIs(t) /\ DrKeeps(v, t) /\ t.step = v.step /\ t.change = v.change
      /\ t.ended = v.step /\ t.heard = <<t.change, t.ended>>
  BY <1>4, <1>5, DrEndEffect
<1>7. DrKeeps(s, t)
  BY <1>2, <1>4, <1>6 DEF DrKeeps
<1> QED
  BY <1>2, <1>4, <1>6, <1>7 DEF DrInStep

\* The fields but those of the place and what the slider told.
DrSeated(s, t) ==
  /\ t.kind = s.kind /\ t.opt = s.opt /\ t.listen = s.listen /\ t.lost = s.lost
  /\ (t.out <=> s.out) /\ t.over = s.over /\ t.told = s.told /\ t.order = s.order
  /\ t.active = s.active /\ t.ghosts = s.ghosts

\* A slider that stands somewhere, told its step, with the button up.
LEMMA DrSeatedStep ==
  ASSUME NEW s, DrInvOf(s), s.kind = "slider", ~s.lost => ~s.held,
         NEW u, DrIs(u), DrSeated(s, u), DrInStep(u),
         u.change = u.step, u.ended = u.step, NEW p \in Int,
         s.opt.offset = 0 => p \in 0 .. 4 /\ DrToStep(s, p) = u.step,
         NEW t, t = [u EXCEPT !.at = p, !.held = FALSE]
  PROVE  DrInvOf(t)
<1>1. DrIs(t)
  BY DEF DrIs
<1>2. DrSeated(u, t) /\ t.at = p /\ ~t.held /\ t.step = u.step
      /\ t.change = u.change /\ t.ended = u.ended /\ t.heard = u.heard
  BY DEF DrIs, DrSeated
<1>3. DrSeated(s, t)
  BY <1>2 DEF DrSeated
<1>4. DrOptInv(t) /\ DrOverInv(t) /\ DrOrderInv(t)
  BY <1>3 DEF DrInvOf, DrSeated, DrOptInv, DrOverInv, DrOrderInv
<1>5. DrHeardInv(t)
  BY <1>2, <1>3 DEF DrInStep, DrSeated, DrHeardInv
<1>6. DrPlaceInv(t)
  <2>1. t.opt.lo = -t.opt.offset /\ t.opt.hi = 4 + t.opt.offset
    BY <1>3, <1>4 DEF DrSeated, DrOptInv, DrMax
  <2>2. t.opt = s.opt
    BY <1>3 DEF DrSeated
  <2>3. DrToStep(t, p) = DrToStep(s, p)
    BY <2>2, DrStepsOfOpt
  <2>4. DrToStep(t, t.at) = DrToStep(s, p)
    BY <1>2, <2>3
  <2> QED
    BY <1>2, <2>1, <2>4, <2>2 DEF DrPlaceInv
<1>7. DrHoldInv(t)
  <2> SUFFICES ASSUME ~t.lost PROVE DrHoldInv(t)
    BY DEF DrHoldInv
  <2>1. ~s.lost
    BY <1>3 DEF DrSeated
  <2>2. s.listen = {} /\ s.ghosts = 0 /\ \A z \in DrZones : s.told[z] = 0
    BY <2>1 DEF DrInvOf, DrHoldInv
  <2> QED
    BY <1>2, <1>3, <2>2 DEF DrHoldInv, DrSeated
<1> QED
  BY <1>1, <1>4, <1>5, <1>6, <1>7 DEF DrInvOf

\* A click beside the knob: it stands there, and the page is told its step.
LEMMA DrClickedStep ==
  ASSUME NEW s, DrInvOf(s), s.kind = "slider", ~s.held, NEW x \in Int,
         NEW u, DrIs(u), DrPressed(s, u),
         NEW t, t = [DrClickedElement(u, x) EXCEPT !.held = FALSE]
  PROVE  DrInvOf(t)
<1>1. /\ DrOptInv(s) /\ DrInStep(s) /\ s.opt.lo \in Int /\ s.opt.hi \in Int
      /\ s.opt.offset = 0 => s.opt.lo = 0 /\ s.opt.hi = 4
  <2>1. DrOptInv(s) /\ DrInStep(s) /\ DrIs(s)
    BY DEF DrInvOf, DrHeardInv, DrInStep
  <2>2. s.opt.offset \in {0, 1} /\ s.opt.lo = -s.opt.offset /\ s.opt.hi = 4 + s.opt.offset
    BY <2>1 DEF DrOptInv, DrMax
  <2> QED
    BY <2>1, <2>2
<1>2. PICK p \in Int : p = DrLimit(x, s.opt.lo, s.opt.hi)
  BY <1>1 DEF DrLimit
<1>3. s.opt.offset = 0 => p \in 0 .. 4
  BY <1>1, <1>2 DEF DrLimit
<1>4. DrOptInv(u) /\ u.kind = "slider" /\ DrInStep(u) /\ u.opt = s.opt
  BY <1>1 DEF DrOptInv, DrInStep, DrPressed, DrRest
<1>5. PICK n \in Int : n = DrToStep(u, p)
  BY <1>4, DrToStepInt
<1>6. PICK v : v = DrEnd(DrCheckStep([u EXCEPT !.step = n]))
  OBVIOUS
<1>7. /\ DrIs(v) /\ DrKeeps(u, v) /\ DrInStep(v)
      /\ v.step = n /\ v.change = n /\ v.ended = n
  BY <1>4, <1>6, DrTellsStep
<1>8. t = [v EXCEPT !.at = p, !.held = FALSE]
  BY <1>2, <1>4, <1>5, <1>6 DEF DrClickedElement
<1>9. DrSeated(s, v)
  BY <1>7 DEF DrKeeps, DrPressed, DrRest, DrSeated
<1>10. DrToStep(s, p) = n
  BY <1>4, <1>5, DrStepsOfOpt
<1>11. /\ s.opt.offset = 0 => p \in 0 .. 4 /\ DrToStep(s, p) = v.step
       /\ v.change = v.step /\ v.ended = v.step
  BY <1>3, <1>7, <1>10
<1> QED
  BY <1>7, <1>8, <1>9, <1>11, DrSeatedStep, ZenonT(30)

\* set()
LEMMA DrSliderSetStep ==
  ASSUME NEW s, DrInvOf(s), s.kind = "slider", s.listen = {}, NEW m \in Int,
         NEW t, t = DrSliderSet(s, m)
  PROVE  DrInvOf(t)
<1>1. DrIs(s) /\ DrOptInv(s) /\ DrInStep(s) /\ s.opt.steps \in {2, 4}
  BY DEF DrInvOf, DrHeardInv, DrInStep, DrOptInv
<1>2. PICK n \in 0 .. s.opt.steps : n = DrLimit(m, 0, s.opt.steps)
  BY <1>1 DEF DrLimit
<1>3. n \in Int
  BY <1>1, <1>2
<1>4. PICK p \in Int : p = DrToPosition(s, n)
  BY <1>1, <1>3, DrToPositionInt
<1>5. s.opt.offset = 0 => p \in 0 .. 4 /\ DrToStep(s, p) = n
  BY <1>1, <1>2, <1>4, DrSetIsStep
<1>6. PICK u : u = DrEnd(DrCheckStep([s EXCEPT !.step = n]))
  OBVIOUS
<1>7. /\ DrIs(u) /\ DrKeeps(s, u) /\ DrInStep(u)
      /\ u.step = n /\ u.change = n /\ u.ended = n
  BY <1>1, <1>3, <1>6, DrTellsStep
<1>8. t = [u EXCEPT !.at = p]
  BY <1>2, <1>4, <1>6 DEF DrSliderSet
<1>9. DrIs(t)
  BY <1>7, <1>8 DEF DrIs
<1>10. /\ DrSeated(s, t) /\ t.at = p /\ (t.held <=> s.held) /\ t.step = n
       /\ t.change = n /\ t.ended = n /\ t.heard = u.heard
  BY <1>7, <1>8 DEF DrIs, DrSeated, DrKeeps
<1>11. DrOptInv(t) /\ DrOverInv(t) /\ DrOrderInv(t)
  BY <1>10 DEF DrInvOf, DrSeated, DrOptInv, DrOverInv, DrOrderInv
<1>12. DrHeardInv(t)
  BY <1>7, <1>10 DEF DrInStep, DrSeated, DrHeardInv
<1>13. DrPlaceInv(t)
  <2>1. t.opt.lo = -t.opt.offset /\ t.opt.hi = 4 + t.opt.offset /\ t.opt = s.opt
    BY <1>10, <1>11 DEF DrSeated, DrOptInv, DrMax
  <2>2. DrToStep(t, t.at) = DrToStep(s, p)
    BY <1>10, <2>1, DrStepsOfOpt
  <2> QED
    BY <1>5, <1>10, <2>1, <2>2 DEF DrPlaceInv
<1>14. DrHoldInv(t)
  <2> SUFFICES ASSUME ~t.lost PROVE DrHoldInv(t)
    BY DEF DrHoldInv
  <2>1. ~s.lost
    BY <1>10 DEF DrSeated
  <2>2. ~s.held /\ s.listen = {} /\ s.ghosts = 0 /\ \A z \in DrZones : s.told[z] = 0
    BY <2>1 DEF DrInvOf, DrHoldInv
  <2> QED
    BY <1>10, <2>2 DEF DrHoldInv, DrSeated
<1> QED
  BY <1>9, <1>11, <1>12, <1>13, <1>14 DEF DrInvOf

-----------------------------------------------------------------------------
(* Dragging: releases.                                                     *)

\* The fields that a release leaves as they are.
DrDropped(s, t) ==
  /\ t.kind = s.kind /\ t.opt = s.opt /\ t.lost = s.lost /\ t.at = s.at
  /\ (t.out <=> s.out) /\ t.over = s.over /\ t.order = s.order
  /\ t.active = s.active /\ t.ghosts = s.ghosts

\* stop() before the knob is looked at.
DrLeaves(s, v) == v = IF s.over # 0 /\ ~s.out THEN DrTell(s, s.over, -1) ELSE s
DrHearsNot(v, u) == u = [v EXCEPT !.listen = @ \ {"check", "drag", "stop"}]

\* In it the droppable is left, and nothing listens.
LEMMA DrDropEffect ==
  ASSUME NEW s, DrIs(s), s.out => s.over = 0,
         NEW v, DrLeaves(s, v), NEW u, DrHearsNot(v, u)
  PROVE  /\ DrIs(u) /\ DrSilent(s, u) /\ DrDropped(s, u)
         /\ u.listen = s.listen \ {"check", "drag", "stop"}
         /\ \A y \in DrZones : u.told[y] = s.told[y] - (IF y = s.over THEN 1 ELSE 0)
<1>1. s.over \in 0 .. 2 /\ \A y \in DrZones : s.told[y] \in Int
  BY DEF DrIs
<1>2. /\ DrIs(v) /\ DrStays(s, v) /\ DrSilent(s, v)
      /\ v.at = s.at /\ (v.out <=> s.out) /\ v.over = s.over
      /\ \A y \in DrZones : v.told[y] = s.told[y] + (IF y = s.over THEN -1 ELSE 0)
  <2>1. CASE s.over # 0 /\ ~s.out
    <3>1. v = DrTell(s, s.over, -1)
      BY <2>1 DEF DrLeaves
    <3> QED
      BY <1>1, <3>1, DrTellEffect
  <2>2. CASE ~(s.over # 0 /\ ~s.out)
    <3>1. v = s /\ s.over = 0
      BY <2>2 DEF DrLeaves
    <3>2. \A y \in DrZones : y # s.over
      BY <3>1 DEF DrZones
    <3> QED
      BY <1>1, <3>1, <3>2 DEF DrStays, DrSilent
  <2> QED
    BY <2>1, <2>2
<1>3. PICK L \in SUBSET DrHandlers : L = v.listen \ {"check", "drag", "stop"}
  BY <1>2 DEF DrIs
<1>4. u = [v EXCEPT !.listen = L]
  BY <1>3 DEF DrHearsNot
<1>5. DrIs(u)
  BY <1>2, <1>4 DEF DrIs
<1>6. DrSilent(v, u) /\ DrDropped(v, u) /\ u.listen = L /\ u.told = v.told
  BY <1>2, <1>4 DEF DrIs, DrSilent, DrDropped
<1>7. DrSilent(s, u) /\ DrDropped(s, u) /\ u.listen = s.listen \ {"check", "drag", "stop"}
  BY <1>2, <1>3, <1>6 DEF DrStays, DrSilent, DrDropped
<1>8. \A y \in DrZones : u.told[y] = s.told[y] - (IF y = s.over THEN 1 ELSE 0)
  BY <1>1, <1>2, <1>6
<1> QED
  BY <1>5, <1>7, <1>8

\* stop(): a slider tells where it came to rest.
LEMMA DrStopEffect ==
  ASSUME NEW s, DrIs(s), DrOptInv(s), DrHeardInv(s), s.out => s.over = 0,
         NEW t, t = DrDragStop(s)
  PROVE  /\ DrIs(t) /\ DrDropped(s, t) /\ DrHeardInv(t)
         /\ t.listen = s.listen \ {"check", "drag", "stop"}
         /\ \A y \in DrZones : t.told[y] = s.told[y] - (IF y = s.over THEN 1 ELSE 0)
         /\ t.change = t.step /\ t.ended = t.step
         /\ t.kind = "slider" => t.step = DrToStep(t, t.at)
<1>1. PICK v : DrLeaves(s, v)
  BY DEF DrLeaves
<1>2. PICK u : DrHearsNot(v, u)
  BY DEF DrHearsNot
<1>3. /\ DrIs(u) /\ DrSilent(s, u) /\ DrDropped(s, u)
      /\ u.listen = s.listen \ {"check", "drag", "stop"}
      /\ \A y \in DrZones : u.told[y] = s.told[y] - (IF y = s.over THEN 1 ELSE 0)
  BY <1>1, <1>2, DrDropEffect
<1>4. t = IF s.kind = "slider" THEN DrEnd(DrDraggedKnob(u)) ELSE u
  BY <1>1, <1>2 DEF DrDragStop, DrLeaves, DrHearsNot
<1>5. DrOptInv(u) /\ DrInStep(u) /\ u.kind = s.kind
  BY <1>3 DEF DrHeardInv, DrOptInv, DrInStep, DrDropped, DrSilent
<1>6. CASE s.kind # "slider"
  <2>1. t = u
    BY <1>4, <1>6
  <2>2. t.change = t.step /\ t.ended = t.step /\ DrHeardInv(t)
    BY <1>3, <1>5, <1>6, <2>1 DEF DrHeardInv, DrSilent
  <2> QED
    BY <1>3, <1>5, <1>6, <2>1, <2>2
<1>7. CASE s.kind = "slider"
  <2>1. PICK w : w = DrDraggedKnob(u)
    OBVIOUS
  <2>2. /\ DrIs(w) /\ DrKeeps(u, w) /\ DrInStep(w)
        /\ w.step = DrToStep(u, u.at) /\ w.change = w.step
    BY <1>3, <1>5, <1>7, <2>1, DrDraggedKnobEffect
  <2>3. t = DrEnd(w)
    BY <1>4, <1>7, <2>1
  <2>4. /\ DrIs(t) /\ DrKeeps(w, t) /\ t.step = w.step /\ t.change = w.change
        /\ t.ended = w.step /\ t.heard = <<t.change, t.ended>>
    BY <2>2, <2>3, DrEndEffect DEF DrInStep
  <2>5. DrKeeps(u, t)
    BY <2>2, <2>4 DEF DrKeeps
  <2>6. DrDropped(s, t) /\ t.listen = u.listen /\ t.told = u.told /\ t.kind = "slider"
    BY <1>3, <1>7, <2>5 DEF DrDropped, DrKeeps
  <2>7. DrHeardInv(t)
    BY <2>4, <2>6 DEF DrHeardInv
  <2>8. t.step = DrToStep(t, t.at)
    <3>1. t.opt = u.opt /\ t.at = u.at
      BY <2>5 DEF DrKeeps
    <3> QED
      BY <2>2, <2>4, <3>1, DrStepsOfOpt
  <2> QED
    BY <1>3, <2>2, <2>4, <2>6, <2>7, <2>8
<1> QED
  BY <1>6, <1>7

\* The button goes up: the place and the order stay, and nothing is held.
DrLet(s, t) ==
  /\ t.kind = s.kind /\ t.opt = s.opt /\ t.lost = s.lost /\ t.at = s.at
  /\ t.over = s.over /\ t.order = s.order /\ t.active = s.active
  /\ t.ghosts = s.ghosts /\ t.listen = s.listen /\ t.told = s.told
  /\ t.step = s.step /\ t.change = s.change /\ t.ended = s.ended
  /\ t.heard = s.heard /\ (t.out <=> s.out) /\ ~t.held

\* The button goes up.
LEMMA DrLetEffect ==
  ASSUME NEW s, DrIs(s), NEW t, t = [s EXCEPT !.held = FALSE]
  PROVE  DrIs(t) /\ DrLet(s, t)
<1>1. DrIs(t)
  BY DEF DrIs
<1> QED
  BY <1>1 DEF DrIs, DrLet

\* A release that is heard ends the drag.
LEMMA DrDragStopStep ==
  ASSUME NEW s, DrInvOf(s), s.kind # "sortables", s.listen # {},
         NEW t, t = [DrDragStop(s) EXCEPT !.held = FALSE]
  PROVE  DrInvOf(t)
<1>1. DrIs(s) /\ DrOptInv(s) /\ DrHeardInv(s) /\ DrOverInv(s)
  BY DEF DrInvOf
<1>2. PICK u : u = DrDragStop(s)
  OBVIOUS
<1>3. /\ DrIs(u) /\ DrDropped(s, u) /\ DrHeardInv(u)
      /\ u.listen = s.listen \ {"check", "drag", "stop"}
      /\ \A y \in DrZones : u.told[y] = s.told[y] - (IF y = s.over THEN 1 ELSE 0)
      /\ u.change = u.step /\ u.ended = u.step
      /\ u.kind = "slider" => u.step = DrToStep(u, u.at)
  BY <1>1, <1>2, DrStopEffect DEF DrOverInv
<1>4. DrIs(t) /\ DrLet(u, t)
  BY <1>2, <1>3, DrLetEffect
<1>5. /\ t.kind = s.kind /\ t.opt = s.opt /\ t.lost = s.lost /\ t.at = s.at
      /\ (t.out <=> s.out) /\ t.over = s.over /\ t.order = s.order
      /\ t.active = s.active /\ t.ghosts = s.ghosts
  BY <1>3, <1>4 DEF DrDropped, DrLet
<1>6. DrOptInv(t) /\ DrOverInv(t) /\ DrHeardInv(t)
  BY <1>1, <1>3, <1>4, <1>5 DEF DrOptInv, DrOverInv, DrHeardInv, DrLet
<1>7. DrOrderInv(t)
  BY <1>5 DEF DrInvOf, DrOrderInv
<1>8. DrPlaceInv(t)
  <2>1. t.kind = "slider" => DrToStep(t, t.at) = t.step
    <3>1. t.opt = u.opt /\ t.at = u.at /\ t.step = u.step /\ t.kind = u.kind
      BY <1>4 DEF DrLet
    <3>2. DrToStep(t, u.at) = DrToStep(u, u.at)
      BY <3>1, DrStepsOfOpt, ZenonT(30)
    <3> QED
      BY <1>3, <3>1, <3>2
  <2> QED
    BY <1>5, <2>1 DEF DrInvOf, DrPlaceInv
<1>9. DrHoldInv(t)
  <2> SUFFICES ASSUME ~t.lost PROVE DrHoldInv(t)
    BY DEF DrHoldInv
  <2>1. /\ s.ghosts = 0 /\ s.listen \in {{}, {"check", "stop"}, {"drag", "stop"}}
        /\ \A z \in DrZones : s.told[z] = IF z = s.over THEN 1 ELSE 0
    BY <1>5 DEF DrInvOf, DrHoldInv
  <2>2. u.listen = {} /\ \A z \in DrZones : u.told[z] = 0
    BY <1>3, <2>1
  <2>3. ~t.held /\ t.listen = {} /\ t.change = t.step /\ t.ended = t.step
        /\ \A z \in DrZones : t.told[z] = 0
    BY <1>3, <1>4, <2>2 DEF DrLet
  <2> QED
    BY <1>5, <2>1, <2>3 DEF DrHoldInv
<1> QED
  BY <1>4, <1>6, <1>7, <1>8, <1>9 DEF DrInvOf

\* A release that is heard ends the sorting.
LEMMA DrSortEndStep ==
  ASSUME NEW s, DrInvOf(s), s.kind = "sortables", s.listen # {},
         NEW t, t = [DrSortEnd(s) EXCEPT !.held = FALSE]
  PROVE  DrInvOf(t)
<1>1. DrIs(s) /\ DrHeardInv(s)
  BY DEF DrInvOf
<1>2. PICK L \in SUBSET DrHandlers : L = s.listen \ {"move", "end", "moveGhost"}
  BY <1>1 DEF DrIs
<1>3. s.ghosts \in Int
  BY <1>1 DEF DrIs
<1>4. PICK g \in Int : g = s.ghosts - 1
  BY <1>3
<1>5. PICK u : u = [s EXCEPT !.last = DrNull, !.ghosts = g, !.listen = L]
  OBVIOUS
<1>6. DrNull \in Int
  BY DEF DrNull
<1>7. DrIs(u)
  BY <1>1, <1>5, <1>6 DEF DrIs
<1>8. DrSilent(s, u) /\ u.told = s.told /\ u.listen = L /\ u.ghosts = g
      /\ u.kind = s.kind /\ u.opt = s.opt /\ u.lost = s.lost /\ u.at = s.at
      /\ (u.out <=> s.out) /\ u.over = s.over /\ u.order = s.order
      /\ u.active = s.active
  BY <1>1, <1>5 DEF DrIs, DrSilent
<1>9. t = [u EXCEPT !.held = FALSE]
  BY <1>2, <1>4, <1>5 DEF DrSortEnd
<1>10. DrIs(t) /\ DrLet(u, t)
  BY <1>7, <1>9, DrLetEffect
<1>11. /\ t.kind = s.kind /\ t.opt = s.opt /\ t.lost = s.lost /\ t.at = s.at
       /\ (t.out <=> s.out) /\ t.over = s.over /\ t.order = s.order
       /\ t.active = s.active /\ t.ghosts = g /\ t.listen = L /\ t.told = s.told
       /\ t.step = s.step /\ t.change = s.change /\ t.ended = s.ended
       /\ t.heard = s.heard /\ ~t.held
  BY <1>8, <1>10 DEF DrSilent, DrLet
<1>12. DrOptInv(t) /\ DrOverInv(t) /\ DrHeardInv(t)
  BY <1>11 DEF DrInvOf, DrOptInv, DrOverInv, DrHeardInv
<1>13. L = {} \/ s.listen \notin {{}, {"moveGhost", "move", "end"}}
  BY <1>2
<1>14. DrOrderInv(t)
  BY <1>2, <1>11 DEF DrInvOf, DrOrderInv
<1>15. DrPlaceInv(t)
  BY <1>11 DEF DrInvOf, DrPlaceInv
<1>16. DrHoldInv(t)
  <2> SUFFICES ASSUME ~t.lost PROVE DrHoldInv(t)
    BY DEF DrHoldInv
  <2>1. /\ s.listen = {"moveGhost", "move", "end"} /\ s.ghosts = 1
        /\ \A z \in DrZones : s.told[z] = 0
    BY <1>11 DEF DrInvOf, DrHoldInv
  <2>2. t.change = t.step /\ t.ended = t.step /\ L = {} /\ g = 0
    BY <1>4, <1>11, <1>12, <1>13, <2>1 DEF DrHeardInv
  <2> QED
    BY <1>11, <2>1, <2>2 DEF DrHoldInv
<1> QED
  BY <1>10, <1>12, <1>14, <1>15, <1>16 DEF DrInvOf

\* A release that is not heard.
LEMMA DrReleaseOutsideStep ==
  ASSUME NEW s, DrInvOf(s), NEW t, t = [s EXCEPT !.held = FALSE, !.lost = TRUE]
  PROVE  DrInvOf(t)
<1>1. DrIs(s)
  BY DEF DrInvOf
<1>2. DrIs(t)
  BY <1>1 DEF DrIs
<1>3. /\ t.kind = s.kind /\ t.opt = s.opt /\ t.lost /\ t.at = s.at
      /\ (t.out <=> s.out) /\ t.over = s.over /\ t.order = s.order
      /\ t.active = s.active /\ t.listen = s.listen
      /\ t.step = s.step /\ t.change = s.change /\ t.ended = s.ended
      /\ t.heard = s.heard
  BY <1>1 DEF DrIs
<1>4. DrOptInv(t) /\ DrOverInv(t) /\ DrHeardInv(t) /\ DrOrderInv(t) /\ DrHoldInv(t)
  BY <1>3 DEF DrInvOf, DrOptInv, DrOverInv, DrHeardInv, DrOrderInv, DrHoldInv
<1>5. DrPlaceInv(t)
  <2>1. t.opt = s.opt
    BY <1>3
  <2>2. DrToStep(t, s.at) = DrToStep(s, s.at)
    BY <2>1, DrStepsOfOpt
  <2> QED
    BY <1>3, <2>2 DEF DrInvOf, DrPlaceInv
<1> QED
  BY <1>2, <1>4, <1>5 DEF DrInvOf

-----------------------------------------------------------------------------
(* Dragging: the list.                                                     *)

\* The orders of the list: each item once.
DrOrders ==
  {q \in [1 .. DrItems -> 1 .. DrItems] :
     \A i, j \in 1 .. DrItems : q[i] = q[j] => i = j}

\* Each item has a place in it.
LEMMA DrOrderFull ==
  ASSUME NEW q \in DrOrders, NEW a \in 1 .. DrItems
  PROVE  \E i \in 1 .. DrItems : q[i] = a
<1>1. q \in [1 .. 3 -> 1 .. 3] /\ \A i, j \in 1 .. 3 : q[i] = q[j] => i = j
  BY DEF DrOrders, DrItems
<1>2. q[1] \in 1 .. 3 /\ q[2] \in 1 .. 3 /\ q[3] \in 1 .. 3
  BY <1>1
<1>3. q[1] # q[2] /\ q[1] # q[3] /\ q[2] # q[3]
  BY <1>1
<1>4. a = q[1] \/ a = q[2] \/ a = q[3]
  BY <1>2, <1>3 DEF DrItems
<1> QED
  BY <1>4 DEF DrItems

\* Two items that change places leave it one.
LEMMA DrSwapOrders ==
  ASSUME NEW q \in DrOrders, NEW i \in 1 .. DrItems, NEW j \in 1 .. DrItems
  PROVE  DrSwap(q, i, j) \in DrOrders
<1>1. q \in [1 .. DrItems -> 1 .. DrItems]
      /\ \A k, l \in 1 .. DrItems : q[k] = q[l] => k = l
  BY DEF DrOrders
<1>2. PICK r : r = DrSwap(q, i, j)
  OBVIOUS
<1>3. r \in [1 .. DrItems -> 1 .. DrItems]
  BY <1>1, <1>2 DEF DrSwap
<1>4. \A k \in 1 .. DrItems :
        r[k] = IF k = j THEN q[i] ELSE IF k = i THEN q[j] ELSE q[k]
  BY <1>1, <1>2 DEF DrSwap
<1>5. \A k, l \in 1 .. DrItems : r[k] = r[l] => k = l
  BY <1>1, <1>4
<1> QED
  BY <1>2, <1>3, <1>5 DEF DrOrders

\* move()
LEMMA DrSortMoveStep ==
  ASSUME NEW s, DrInvOf(s), s.kind = "sortables", s.listen # {}, NEW y \in Int,
         NEW t, t = DrSortMove(s, y)
  PROVE  DrInvOf(t)
<1>1. DrIs(s) /\ s.order \in DrOrders /\ s.active \in 1 .. DrItems
  BY DEF DrInvOf, DrIs, DrOrderInv, DrOrders
<1>2. PICK i \in 1 .. DrItems : i = DrIndex(s)
  <2>1. DOMAIN s.order = 1 .. DrItems
    BY <1>1 DEF DrOrders
  <2>2. \E i \in 1 .. DrItems : s.order[i] = s.active
    BY <1>1, DrOrderFull
  <2> QED
    BY <2>1, <2>2 DEF DrIndex
<1>3. \E q \in DrOrders : t = [s EXCEPT !.last = y, !.order = q]
  <2>1. PICK last : last = IF s.last \in {DrNull, 0} THEN y ELSE s.last
    OBVIOUS
  <2>2. CASE i > 1 /\ last > y /\ y < 2 * (i - 1)
    <3>1. i - 1 \in 1 .. DrItems
      BY <1>2, <2>2 DEF DrItems
    <3>2. PICK q \in DrOrders : q = DrSwap(s.order, i - 1, i)
      BY <1>1, <1>2, <3>1, DrSwapOrders
    <3>3. t = [[s EXCEPT !.last = y] EXCEPT !.order = DrSwap(@, i - 1, i)]
      BY <1>2, <2>1, <2>2 DEF DrSortMove
    <3>4. t = [s EXCEPT !.last = y, !.order = q]
      BY <1>1, <3>2, <3>3 DEF DrIs
    <3> QED
      BY <3>2, <3>4
  <2>3. CASE i < DrItems /\ last <= y /\ y > 2 * i
                         /\ ~(i > 1 /\ last > y /\ y < 2 * (i - 1))
    <3>1. i + 1 \in 1 .. DrItems
      BY <1>2, <2>3 DEF DrItems
    <3>2. PICK q \in DrOrders : q = DrSwap(s.order, i, i + 1)
      BY <1>1, <1>2, <3>1, DrSwapOrders
    <3>3. t = [[s EXCEPT !.last = y] EXCEPT !.order = DrSwap(@, i, i + 1)]
      BY <1>2, <2>1, <2>3 DEF DrSortMove
    <3>4. t = [s EXCEPT !.last = y, !.order = q]
      BY <1>1, <3>2, <3>3 DEF DrIs
    <3> QED
      BY <3>2, <3>4
  <2>4. CASE ~(i > 1 /\ last > y /\ y < 2 * (i - 1)) /\ ~(i < DrItems /\ last <= y /\ y > 2 * i)
    <3>1. t = [s EXCEPT !.last = y]
      BY <1>2, <2>1, <2>4 DEF DrSortMove
    <3>2. t = [s EXCEPT !.last = y, !.order = s.order]
      BY <1>1, <3>1 DEF DrIs
    <3> QED
      BY <1>1, <3>2
  <2> QED
    BY <2>2, <2>3, <2>4
<1>4. PICK q \in DrOrders : t = [s EXCEPT !.last = y, !.order = q]
  BY <1>3
<1>5. q \in [1 .. DrItems -> 1 .. DrItems]
      /\ \A k, l \in 1 .. DrItems : q[k] = q[l] => k = l
  BY <1>4 DEF DrOrders
<1>6. DrIs(t)
  BY <1>1, <1>4, <1>5, SMTT(30) DEF DrIs
<1>7. /\ DrSilent(s, t) /\ t.told = s.told /\ t.listen = s.listen
      /\ t.ghosts = s.ghosts /\ t.kind = s.kind /\ t.opt = s.opt
      /\ t.lost = s.lost /\ t.at = s.at /\ (t.held <=> s.held)
      /\ (t.out <=> s.out) /\ t.over = s.over /\ t.order = q
      /\ t.active = s.active
  BY <1>1, <1>4 DEF DrIs, DrSilent
<1>8. DrOptInv(t) /\ DrOverInv(t) /\ DrHeardInv(t)
  BY <1>7 DEF DrInvOf, DrSilent, DrOptInv, DrOverInv, DrHeardInv
<1>9. DrOrderInv(t)
  BY <1>5, <1>7 DEF DrInvOf, DrOrderInv
<1>10. DrPlaceInv(t)
  BY <1>7 DEF DrInvOf, DrPlaceInv
<1>11. DrHoldInv(t)
  BY <1>7 DEF DrInvOf, DrSilent, DrHoldInv
<1> QED
  BY <1>6, <1>8, <1>9, <1>10, <1>11 DEF DrInvOf

-----------------------------------------------------------------------------
(* Dragging: every step.                                                   *)

\* The handlers that are called for a move keep the invariant, check() and then
\* drag() too when both listen.
LEMMA DrMoveStep == ASSUME DrInv, DrMove, DrPlaces \subseteq Int PROVE DrInv'
<1>1. PICK x \in DrPlaces :
        dr' = IF dr.kind = "sortables" THEN DrSortMove(dr, x)
              ELSE IF "drag" \in dr.listen THEN DrDragMove(DrChecked(dr, x), x)
              ELSE DrChecked(dr, x)
  BY DEF DrMove
<1>2. x \in Int /\ dr.listen # {} /\ DrInvOf(dr)
  BY <1>1 DEF DrMove, DrInv
<1>3. CASE dr.kind = "sortables"
  <2>1. dr' = DrSortMove(dr, x)
    BY <1>1, <1>3
  <2> QED
    BY <1>2, <1>3, <2>1, DrSortMoveStep DEF DrInv
<1>4. CASE dr.kind # "sortables"
  <2>1. PICK u : u = DrChecked(dr, x)
    OBVIOUS
  <2>2. DrInvOf(u) /\ u.kind = dr.kind /\ u.listen # {}
    <3>1. CASE "check" \in dr.listen
      BY <1>2, <1>4, <2>1, <3>1, DrCheckMoveStep DEF DrChecked
    <3>2. CASE "check" \notin dr.listen
      BY <1>2, <2>1, <3>2 DEF DrChecked
    <3> QED
      BY <3>1, <3>2
  <2>3. CASE "drag" \in dr.listen
    <3>1. dr' = DrDragMove(u, x)
      BY <1>1, <1>4, <2>1, <2>3
    <3> QED
      BY <1>2, <1>4, <2>2, <3>1, DrDragMoveStep DEF DrInv
  <2>4. CASE "drag" \notin dr.listen
    <3>1. dr' = u
      BY <1>1, <1>4, <2>1, <2>4
    <3> QED
      BY <2>2, <3>1 DEF DrInv
  <2> QED
    BY <2>3, <2>4
<1> QED
  BY <1>3, <1>4

\* A press grips an element or an item, or clicks beside the knob.
LEMMA DrPressStep == ASSUME DrInv, DrPress, DrPlaces \subseteq Int PROVE DrInv'
<1>1. PICK u : u = [dr EXCEPT !.held = TRUE, !.presses = @ + 1]
  OBVIOUS
<1>2. DrInvOf(dr) /\ DrIs(dr) /\ ~dr.held
  BY DEF DrInv, DrInvOf, DrPress
<1>3. DrIs(u) /\ u.held /\ DrPressed(dr, u)
  BY <1>1, <1>2, DrPressEffect
<1>4. \/ dr.kind = "sortables" /\ \E i \in 1 .. DrItems : dr' = DrSortStart(u, i)
      \/ dr.kind # "sortables" /\ \E x \in DrPlaces : dr' = DrDragStart(u, x)
      \/ dr.kind = "slider" /\ \E x \in DrPlaces :
            dr' = [DrClickedElement(u, x) EXCEPT !.held = FALSE]
  BY <1>1 DEF DrPress
<1>5. CASE dr.kind = "sortables" /\ \E i \in 1 .. DrItems : dr' = DrSortStart(u, i)
  BY <1>2, <1>3, <1>5, DrSortStartStep DEF DrInv
<1>6. CASE dr.kind # "sortables" /\ \E x \in DrPlaces : dr' = DrDragStart(u, x)
  BY <1>2, <1>3, <1>6, DrDragStartStep DEF DrInv
<1>7. CASE dr.kind = "slider" /\ \E x \in DrPlaces :
             dr' = [DrClickedElement(u, x) EXCEPT !.held = FALSE]
  BY <1>2, <1>3, <1>7, DrClickedStep DEF DrInv
<1> QED
  BY <1>4, <1>5, <1>6, <1>7

\* Every step of the mouse and of the page keeps the invariant.
LEMMA DrNextInv == ASSUME DrInv, DrNext, DrPlaces \subseteq Int PROVE DrInv'
<1>1. DrInvOf(dr)
  BY DEF DrInv
<1>2. CASE DrPress
  BY <1>2, DrPressStep
<1>3. CASE DrMove
  BY <1>3, DrMoveStep
<1>4. CASE DrRelease
  <2>1. CASE dr.kind = "sortables"
    <3>1. dr' = [DrSortEnd(dr) EXCEPT !.held = FALSE] /\ dr.listen # {}
      BY <1>4, <2>1 DEF DrRelease
    <3> QED
      BY <1>1, <2>1, <3>1, DrSortEndStep DEF DrInv
  <2>2. CASE dr.kind # "sortables"
    <3>1. dr' = [DrDragStop(dr) EXCEPT !.held = FALSE] /\ dr.listen # {}
      BY <1>4, <2>2 DEF DrRelease
    <3> QED
      BY <1>1, <2>2, <3>1, DrDragStopStep DEF DrInv
  <2> QED
    BY <2>1, <2>2
<1>5. CASE DrReleaseOutside
  BY <1>1, <1>5, DrReleaseOutsideStep DEF DrReleaseOutside, DrInv
<1>6. CASE DrPageSet
  <2>1. PICK n \in -1 .. dr.opt.steps + 1 : dr' = DrSliderSet(dr, n)
    BY <1>6 DEF DrPageSet
  <2>2. n \in Int
    OBVIOUS
  <2> QED
    BY <1>1, <1>6, <2>1, <2>2, DrSliderSetStep DEF DrPageSet, DrInv
<1> QED
  BY <1>2, <1>3, <1>4, <1>5, <1>6 DEF DrNext

\* The page begins with nothing held.
LEMMA DrInitInv == ASSUME DrInit PROVE DrInv
<1>1. PICK k \in DrKinds : \E o \in DrOptions(k) :
        dr = [kind |-> k, opt |-> o, listen |-> {}, lost |-> FALSE, held |-> FALSE,
              at |-> IF k = "slider" THEN -o.offset ELSE 2,
              from |-> 0, grip |-> 0, out |-> FALSE,
              over |-> 0, told |-> [z \in DrZones |-> 0],
              step |-> -1, change |-> -1, ended |-> -1, heard |-> <<-1, -1>>,
              order |-> [i \in 1 .. DrItems |-> i], active |-> 0, last |-> DrNull,
              ghosts |-> 0, presses |-> 0]
  BY DEF DrInit
<1>2. PICK o \in DrOptions(k) :
        dr = [kind |-> k, opt |-> o, listen |-> {}, lost |-> FALSE, held |-> FALSE,
              at |-> IF k = "slider" THEN -o.offset ELSE 2,
              from |-> 0, grip |-> 0, out |-> FALSE,
              over |-> 0, told |-> [z \in DrZones |-> 0],
              step |-> -1, change |-> -1, ended |-> -1, heard |-> <<-1, -1>>,
              order |-> [i \in 1 .. DrItems |-> i], active |-> 0, last |-> DrNull,
              ghosts |-> 0, presses |-> 0]
  BY <1>1
<1>3. /\ o \in [lo : Int, hi : Int, grid : Int, snap : Int, steps : Int, offset : Int]
      /\ k = "move" => o.lo \in {0, 1} /\ o.hi = 4 /\ o.grid \in {0, 2} /\ o.offset = 0
      /\ k = "slider" => /\ o.offset \in {0, 1} /\ o.steps \in {2, 4}
                         /\ o.lo = -o.offset /\ o.hi = DrMax + o.offset /\ o.grid = 0
      /\ k = "sortables" => o.lo = 0 /\ o.hi = 4 /\ o.offset = 0
  <2>1. CASE k = "move"
    BY <1>2, <2>1 DEF DrOptions
  <2>2. CASE k = "slider"
    BY <1>2, <2>2 DEF DrOptions, DrMax
  <2>3. CASE k = "sortables"
    BY <1>2, <2>3 DEF DrOptions
  <2> QED
    BY <1>2, <2>1, <2>2, <2>3 DEF DrKinds
<1>4. PICK p \in Int : p = IF k = "slider" THEN -o.offset ELSE 2
  BY <1>3
<1>5. /\ dr.kind = k /\ dr.opt = o /\ dr.listen = {} /\ ~dr.lost /\ ~dr.held
      /\ dr.at = p /\ dr.over = 0 /\ dr.told = [z \in DrZones |-> 0]
      /\ dr.step = -1 /\ dr.change = -1 /\ dr.ended = -1 /\ dr.heard = <<-1, -1>>
      /\ dr.order = [i \in 1 .. DrItems |-> i] /\ dr.ghosts = 0 /\ ~dr.out
  BY <1>2, <1>4
<1>6. DrIs(dr)
  BY <1>2, <1>3, <1>4 DEF DrIs, DrNull, DrItems
<1>7. DrOptInv(dr) /\ DrOverInv(dr) /\ DrHeardInv(dr) /\ DrOrderInv(dr) /\ DrHoldInv(dr)
  BY <1>3, <1>5 DEF DrOptInv, DrOverInv, DrHeardInv, DrOrderInv, DrHoldInv, DrKinds
<1>8. DrPlaceInv(dr)
  BY <1>2, <1>3, <1>4, <1>5 DEF DrPlaceInv, DrMax, DrKinds
<1> QED
  BY <1>6, <1>7, <1>8 DEF DrInv, DrInvOf

\* The property follows from the invariant.
LEMMA DrInvLetsGo == ASSUME DrInv PROVE DrLetsGo
<1>1. DrInvOf(dr)
  BY DEF DrInv
<1>2. (~dr.held /\ ~dr.lost) =>
        /\ dr.listen = {} /\ dr.ghosts = 0
        /\ \A z \in DrZones : dr.told[z] = 0
        /\ dr.heard = <<dr.step, dr.step>>
  BY <1>1 DEF DrInvOf, DrHoldInv, DrHeardInv
<1>3. dr.order \in DrOrders
  BY <1>1 DEF DrInvOf, DrIs, DrOrderInv, DrOrders
<1>4. IsInjective(dr.order)
  BY <1>3 DEF DrOrders, IsInjective
<1>5. ToSet(dr.order) = 1 .. DrItems
  <2>1. DOMAIN dr.order = 1 .. DrItems /\ \A i \in 1 .. DrItems : dr.order[i] \in 1 .. DrItems
    BY <1>3 DEF DrOrders
  <2>2. \A a \in 1 .. DrItems : \E i \in 1 .. DrItems : dr.order[i] = a
    BY <1>3, DrOrderFull
  <2> QED
    BY <2>1, <2>2 DEF ToSet
<1>6. DrPlaceInv(dr)
  BY <1>1 DEF DrInvOf
<1> QED
  BY <1>2, <1>4, <1>5, <1>6 DEF DrLetsGo, DrPlaceInv

-----------------------------------------------------------------------------
(* The slides.                                                             *)

NsFields == {"fx", "pend", "log", "autoPlay", "index", "previous", "next", "auto",
             "live", "timers", "pos", "to", "want"}

NsIs(s) ==
  /\ DOMAIN s = NsFields /\ s.autoPlay \in BOOLEAN
  /\ DOMAIN s.fx = {"e"} /\ DOMAIN s.fx["e"] = {"wait", "run", "ripe", "chain"}
  /\ s.fx["e"].wait = FALSE
  /\ s.index \in NsIndex /\ s.timers \in Nat /\ s.auto \in Nat

\* One interval at most, the one that stop() can clear.
NsOneInterval(s) == DOMAIN s.live \subseteq {s.auto}

\* It walks the way that the user was promised.
NsPromised(s) ==
  /\ DOMAIN s.live = {} => s.want = "none"
  /\ \A t \in DOMAIN s.live : s.live[t] = s.want /\ s.want \in NsCall

\* The neighbours are those of the current item, to which the box slides.
NsAtItem(s) ==
  /\ s.to = s.index
  /\ s.previous # -1 => s.previous = NsBefore(s.index) /\ s.next = NsAfter(s.index)
  /\ s.fx["e"].run = 0 => s.pos = s.index

NsInvOf(s) == NsIs(s) /\ NsOneInterval(s) /\ NsPromised(s) /\ NsAtItem(s)

NsInv == NsInvOf(ns)

\* What a change of the interval leaves.
NsSteady(s, t) ==
  /\ t.fx = s.fx /\ (t.autoPlay <=> s.autoPlay) /\ t.index = s.index
  /\ t.previous = s.previous /\ t.next = s.next /\ t.pos = s.pos /\ t.to = s.to
  /\ t.want = s.want

\* stop() leaves no interval when there is one at most.
LEMMA NsStopEffect ==
  ASSUME NEW s, NsIs(s), NsOneInterval(s), NEW t, t = NsStop(s)
  PROVE  NsIs(t) /\ NsSteady(s, t) /\ DOMAIN t.live = {}
<1>1. PICK L : L = [u \in DOMAIN s.live \ {s.auto} |-> s.live[u]]
  OBVIOUS
<1>2. DOMAIN L = {}
  BY <1>1 DEF NsOneInterval
<1>3. t = [s EXCEPT !.live = L]
  BY <1>1 DEF NsStop
<1> QED
  BY <1>2, <1>3 DEF NsIs, NsSteady, NsFields

\* A new interval is the only one when none was left.
LEMMA NsSetIntervalEffect ==
  ASSUME NEW s, NsIs(s), DOMAIN s.live = {}, NEW dir, NEW t, t = NsSetInterval(s, dir)
  PROVE  /\ NsIs(t) /\ NsSteady(s, t) /\ DOMAIN t.live = {t.auto}
         /\ t.live[t.auto] = dir
<1>1. PICK n \in Nat : n = s.timers + 1
  BY DEF NsIs
<1>2. PICK L : L = [u \in DOMAIN s.live \cup {n} |-> IF u = n THEN dir ELSE s.live[u]]
  OBVIOUS
<1>3. DOMAIN L = {n} /\ L[n] = dir
  BY <1>2
<1>4. t = [s EXCEPT !.timers = n, !.auto = n, !.live = L]
  BY <1>1, <1>2 DEF NsSetInterval
<1> QED
  BY <1>3, <1>4 DEF NsIs, NsSteady, NsFields

\* The effect is started again, wherever it is.
LEMMA NsStartEffect ==
  ASSUME NEW s, NsIs(s), NEW t, t = MooStart(s, "e", 1)
  PROVE  /\ NsIs(t) /\ t.fx["e"].run = 1 /\ t.live = s.live /\ t.auto = s.auto
         /\ t.want = s.want /\ (t.autoPlay <=> s.autoPlay) /\ t.index = s.index
<1>1. PICK e : e = [s.fx["e"] EXCEPT !.run = 0, !.ripe = FALSE]
  OBVIOUS
<1>2. PICK F : F = [s.fx EXCEPT !["e"] = e]
  OBVIOUS
<1>3. PICK u : u = MooStop(s, "e", FALSE)
  OBVIOUS
<1>4. /\ NsIs(u) /\ u.live = s.live /\ u.auto = s.auto
      /\ u.want = s.want /\ (u.autoPlay <=> s.autoPlay) /\ u.index = s.index
  <2>1. CASE s.fx["e"].run = 0
    BY <1>3, <2>1 DEF MooStop
  <2>2. CASE s.fx["e"].run # 0
    <3>1. PICK v : v = [s EXCEPT !.fx = F]
      OBVIOUS
    <3>2. DOMAIN F = {"e"} /\ F["e"] = e /\ DOMAIN e = {"wait", "run", "ripe", "chain"}
          /\ e.wait = FALSE
      BY <1>1, <1>2 DEF NsIs
    <3>3. [s EXCEPT !.fx["e"] = [@ EXCEPT !.run = 0, !.ripe = FALSE]] = v
      BY <1>1, <1>2, <3>1
    <3>4. PICK l : l = Append(v.log, <<"onCancel", "e", s.fx["e"].run>>)
      OBVIOUS
    <3>5. u = [v EXCEPT !.log = l]
      BY <1>3, <2>2, <3>3, <3>4 DEF MooStop, MooFire
    <3>6. u = [s EXCEPT !.fx = F, !.log = l]
      BY <3>1, <3>5 DEF NsIs, NsFields
    <3> QED
      BY <3>2, <3>6 DEF NsIs, NsFields
  <2> QED
    BY <2>1, <2>2
<1>5. PICK g : g = [u.fx["e"] EXCEPT !.run = 1]
  OBVIOUS
<1>6. PICK G : G = [u.fx EXCEPT !["e"] = g]
  OBVIOUS
<1>7. DOMAIN G = {"e"} /\ G["e"] = g /\ DOMAIN g = {"wait", "run", "ripe", "chain"}
      /\ g.wait = FALSE /\ g.run = 1
  BY <1>4, <1>5, <1>6 DEF NsIs
<1>8. PICK v : v = [u EXCEPT !.fx = G]
  OBVIOUS
<1>9. [u EXCEPT !.fx["e"].run = 1] = v
  BY <1>5, <1>6, <1>8
<1>10. t = MooFire(v, "onStart", "e", 1)
  BY <1>3, <1>9 DEF MooStart, MooIgnored, NsIs
<1>11. PICK l : l = Append(v.log, <<"onStart", "e", 1>>)
  OBVIOUS
<1>12. t = [v EXCEPT !.log = l]
  BY <1>10, <1>11 DEF MooFire
<1>13. t = [u EXCEPT !.fx = G, !.log = l]
  BY <1>4, <1>8, <1>12 DEF NsIs, NsFields
<1> QED
  BY <1>4, <1>7, <1>13 DEF NsIs, NsFields

\* The neighbours of an item.
LEMMA NsNeighbours ==
  ASSUME NEW i \in NsIndex, NsItems \in Nat \ {0}
  PROVE  /\ NsBefore(i) \in NsIndex /\ NsAfter(i) \in NsIndex
         /\ NsBefore(i) = (i + NsItems - 1) % NsItems
         /\ NsAfter(i) = (i + 1) % NsItems
<1>1. i \in 0 .. NsItems - 1 /\ NsItems \in Nat /\ NsItems > 0
  BY DEF NsIndex
<1>2. NsBefore(i) \in NsIndex /\ NsAfter(i) \in NsIndex
  BY <1>1 DEF NsBefore, NsAfter, NsIndex
<1>3. NsBefore(i) = (i + NsItems - 1) % NsItems
  <2>1. \/ NsBefore(i) = i + NsItems - 1 
        \/ NsBefore(i) + NsItems = i + NsItems - 1
    BY <1>1 DEF NsBefore
  <2> QED
    BY <1>1, <1>2, <2>1 DEF NsIndex
<1>4. NsAfter(i) = (i + 1) % NsItems
  <2>1. \/ NsAfter(i) = i + 1
        \/ NsAfter(i) + NsItems = i + 1
    BY <1>1 DEF NsAfter
  <2> QED
    BY <1>1, <1>2, <2>1 DEF NsIndex
<1> QED
  BY <1>2, <1>3, <1>4

\* walk() once the item is current: the box slides to it; by hand the interval is
\* cleared, and a box that plays by itself sets a new one.
LEMMA NsWalkEffect ==
  ASSUME NEW s, NsIs(s), NsOneInterval(s), NEW manual \in BOOLEAN,
         NEW t, t = NsWalk(s, manual)
  PROVE  /\ NsIs(t) /\ NsAtItem(t) /\ t.want = s.want
         /\ ~manual => t.live = s.live /\ t.auto = s.auto
         /\ manual /\ ~s.autoPlay => DOMAIN t.live = {}
         /\ manual /\ s.autoPlay => DOMAIN t.live = {t.auto} /\ t.live[t.auto] = "next"
<1>1. PICK u : u = IF manual THEN NsStop(s) ELSE s
  OBVIOUS
<1>2. NsIs(u) /\ NsSteady(s, u) /\ NsOneInterval(u)
      /\ IF manual THEN DOMAIN u.live = {} ELSE u.live = s.live /\ u.auto = s.auto
  <2>1. CASE manual
    <3>1. NsIs(u) /\ NsSteady(s, u) /\ DOMAIN u.live = {}
      BY <1>1, <2>1, NsStopEffect
    <3> QED
      BY <2>1, <3>1 DEF NsOneInterval
  <2>2. CASE ~manual
    BY <1>1, <2>2 DEF NsSteady
  <2> QED
    BY <2>1, <2>2
<1>3. PICK v : v = MooStart(u, "e", 1)
  OBVIOUS
<1>4. /\ NsIs(v) /\ v.fx["e"].run = 1 /\ v.live = u.live /\ v.auto = u.auto
      /\ v.want = u.want /\ (v.autoPlay <=> u.autoPlay) /\ v.index = u.index
  BY <1>2, <1>3, NsStartEffect
<1>5. PICK b : b = NsBefore(s.index)
  OBVIOUS
<1>6. PICK a : a = NsAfter(s.index)
  OBVIOUS
<1>7. PICK w : w = [v EXCEPT !.previous = b, !.next = a, !.to = s.index, !.log = <<>>]
  OBVIOUS
<1>8. v.index = s.index
  BY <1>2, <1>4 DEF NsSteady
<1>9. NsIs(w)
  BY <1>4, <1>7 DEF NsIs, NsFields
<1>10. w.live = u.live /\ w.auto = u.auto /\ w.want = s.want
       /\ (w.autoPlay <=> s.autoPlay) /\ w.index = s.index
       /\ w.previous = b /\ w.next = a /\ w.to = s.index /\ w.fx["e"].run = 1
  BY <1>2, <1>4, <1>7, <1>8 DEF NsIs, NsFields, NsSteady
<1>11. NsAtItem(w)
  BY <1>5, <1>6, <1>10 DEF NsAtItem
<1>12. t = IF manual /\ s.autoPlay THEN NsSetInterval(NsStop(w), "next") ELSE w
  BY <1>1, <1>3, <1>5, <1>6, <1>7 DEF NsWalk
<1>13. CASE ~(manual /\ s.autoPlay)
  <2>1. t = w
    BY <1>12, <1>13
  <2> QED
    BY <1>2, <1>9, <1>10, <1>11, <1>13, <2>1
<1>14. CASE manual /\ s.autoPlay
  <2>1. PICK x : x = NsStop(w)
    OBVIOUS
  <2>2. NsOneInterval(w)
    BY <1>2, <1>10, <1>14 DEF NsOneInterval
  <2>3. NsIs(x) /\ NsSteady(w, x) /\ DOMAIN x.live = {}
    BY <1>9, <2>1, <2>2, NsStopEffect
  <2>4. t = NsSetInterval(x, "next")
    BY <1>12, <1>14, <2>1
  <2>5. /\ NsIs(t) /\ NsSteady(x, t) /\ DOMAIN t.live = {t.auto}
        /\ t.live[t.auto] = "next"
    BY <2>3, <2>4, NsSetIntervalEffect
  <2>6. NsAtItem(t) /\ t.want = s.want
    BY <1>10, <1>11, <2>3, <2>5 DEF NsAtItem, NsSteady
  <2> QED
    BY <1>14, <2>5, <2>6
<1> QED
  BY <1>13, <1>14

\* The page promises another way.
LEMMA NsWantEffect ==
  ASSUME NEW s, NsIs(s), NEW d, NEW t, t = [s EXCEPT !.want = d]
  PROVE  /\ NsIs(t) /\ t.live = s.live /\ t.auto = s.auto /\ t.want = d
         /\ NsAtItem(s) => NsAtItem(t)
<1>1. NsIs(t)
  BY DEF NsIs, NsFields
<1> QED
  BY <1>1 DEF NsIs, NsFields, NsAtItem

\* Another item becomes the current one.
LEMMA NsIndexEffect ==
  ASSUME NEW s, NsIs(s), NEW i \in NsIndex, NEW t, t = [s EXCEPT !.index = i]
  PROVE  /\ NsIs(t) /\ t.live = s.live /\ t.auto = s.auto /\ t.want = s.want
         /\ (t.autoPlay <=> s.autoPlay)
<1>1. NsIs(t)
  BY DEF NsIs, NsFields
<1> QED
  BY <1>1 DEF NsIs, NsFields

\* A walk by hand to an item.
NsByHand(s, i, t) ==
  t = [NsWalk([s EXCEPT !.index = i], TRUE) EXCEPT
         !.want = IF s.autoPlay THEN "next" ELSE "none"]

\* It leaves the interval of a box that plays by itself, or none.
LEMMA NsManualStep ==
  ASSUME NEW s, NsInvOf(s), NEW i \in NsIndex,
         NEW t, NsByHand(s, i, t)
  PROVE  NsInvOf(t)
<1>1. PICK u : u = [s EXCEPT !.index = i]
  OBVIOUS
<1>2. NsIs(u) /\ NsOneInterval(u) /\ (u.autoPlay <=> s.autoPlay)
  BY <1>1, NsIndexEffect DEF NsInvOf, NsOneInterval
<1>3. PICK v : v = NsWalk(u, TRUE)
  OBVIOUS
<1>4. /\ NsIs(v) /\ NsAtItem(v)
      /\ ~u.autoPlay => DOMAIN v.live = {}
      /\ u.autoPlay => DOMAIN v.live = {v.auto} /\ v.live[v.auto] = "next"
  BY <1>2, <1>3, NsWalkEffect
<1>5. PICK d : d = IF s.autoPlay THEN "next" ELSE "none"
  OBVIOUS
<1>6. t = [v EXCEPT !.want = d]
  BY <1>1, <1>3, <1>5 DEF NsByHand
<1>7. NsIs(t) /\ NsAtItem(t) /\ t.live = v.live /\ t.auto = v.auto /\ t.want = d
  BY <1>4, <1>6, NsWantEffect
<1>8. CASE s.autoPlay
  <2>1. DOMAIN t.live = {t.auto} /\ t.live[t.auto] = "next" /\ t.want = "next"
    BY <1>2, <1>4, <1>5, <1>7, <1>8
  <2> QED
    BY <1>7, <2>1 DEF NsInvOf, NsOneInterval, NsPromised, NsCall
<1>9. CASE ~s.autoPlay
  <2>1. DOMAIN t.live = {} /\ t.want = "none"
    BY <1>2, <1>4, <1>5, <1>7, <1>9
  <2> QED
    BY <1>7, <2>1 DEF NsInvOf, NsOneInterval, NsPromised
<1> QED
  BY <1>8, <1>9

\* The item towards which a box walks.
LEMMA NsTowardsIndex ==
  ASSUME NEW i \in NsIndex, NEW dir, NsItems \in Nat \ {0}
  PROVE  NsTowards(dir, i) \in NsIndex
BY NsNeighbours DEF NsTowards

\* The interval ticks.
LEMMA NsTickStep ==
  ASSUME NEW s, NsInvOf(s), NEW dir, NsItems \in Nat \ {0},
         NEW t, t = NsMove(s, dir, FALSE)
  PROVE  NsInvOf(t)
<1>1. s.index \in NsIndex
  BY DEF NsInvOf, NsIs
<1>2. PICK i \in NsIndex : i = NsTowards(dir, s.index)
  BY <1>1, NsTowardsIndex
<1>3. PICK u : u = [s EXCEPT !.index = i]
  OBVIOUS
<1>4. NsIs(u) /\ u.live = s.live /\ u.auto = s.auto /\ u.want = s.want /\ NsOneInterval(u)
  BY <1>3, NsIndexEffect DEF NsInvOf, NsOneInterval
<1>5. t = NsWalk(u, FALSE)
  BY <1>2, <1>3 DEF NsMove
<1>6. NsIs(t) /\ NsAtItem(t) /\ t.want = u.want /\ t.live = u.live /\ t.auto = u.auto
  BY <1>4, <1>5, NsWalkEffect
<1> QED
  BY <1>4, <1>6 DEF NsInvOf, NsOneInterval, NsPromised

\* play()
LEMMA NsPlayStep ==
  ASSUME NEW s, NsInvOf(s), NEW dir \in NsCall, NsItems \in Nat \ {0},
         NEW t, t = NsPlay(s, dir)
  PROVE  NsInvOf(t)
<1>1. PICK u : u = NsStop(s)
  OBVIOUS
<1>2. NsIs(u) /\ NsSteady(s, u) /\ DOMAIN u.live = {}
  BY <1>1, NsStopEffect DEF NsInvOf
<1>3. u.index \in NsIndex
  BY <1>2 DEF NsIs
<1>4. PICK i \in NsIndex : i = NsTowards(dir, u.index)
  BY <1>3, NsTowardsIndex
<1>5. PICK v : v = [u EXCEPT !.index = i]
  OBVIOUS
<1>6. NsIs(v) /\ v.live = u.live /\ NsOneInterval(v)
  BY <1>2, <1>5, NsIndexEffect DEF NsOneInterval
<1>7. PICK w : w = NsWalk(v, FALSE)
  OBVIOUS
<1>8. NsIs(w) /\ NsAtItem(w) /\ DOMAIN w.live = {}
  BY <1>2, <1>6, <1>7, NsWalkEffect
<1>9. PICK x : x = NsSetInterval(w, dir)
  OBVIOUS
<1>10. NsIs(x) /\ NsSteady(w, x) /\ DOMAIN x.live = {x.auto} /\ x.live[x.auto] = dir
  BY <1>8, <1>9, NsSetIntervalEffect
<1>11. NsAtItem(x)
  BY <1>8, <1>10 DEF NsAtItem, NsSteady
<1>12. t = [x EXCEPT !.want = dir]
  BY <1>1, <1>4, <1>5, <1>7, <1>9 DEF NsPlay, NsMove
<1>13. NsIs(t) /\ NsAtItem(t) /\ t.live = x.live /\ t.auto = x.auto /\ t.want = dir
  BY <1>10, <1>11, <1>12, NsWantEffect
<1> QED
  BY <1>10, <1>13 DEF NsInvOf, NsOneInterval, NsPromised

\* stop()
LEMMA NsStopStep ==
  ASSUME NEW s, NsInvOf(s), NEW t, t = [NsStop(s) EXCEPT !.want = "none"]
  PROVE  NsInvOf(t)
<1>1. PICK u : u = NsStop(s)
  OBVIOUS
<1>2. NsIs(u) /\ NsSteady(s, u) /\ DOMAIN u.live = {}
  BY <1>1, NsStopEffect DEF NsInvOf
<1>3. NsAtItem(u)
  BY <1>2 DEF NsInvOf, NsAtItem, NsSteady
<1>4. NsIs(t) /\ NsAtItem(t) /\ t.live = u.live /\ t.want = "none"
  BY <1>1, <1>2, <1>3, NsWantEffect
<1> QED
  BY <1>2, <1>4 DEF NsInvOf, NsOneInterval, NsPromised

\* A frame of the effect, or its last one.
LEMMA NsFrameStep ==
  ASSUME NsInvOf(ns), NsFrame
  PROVE  NsInvOf(ns')
<1>1. NsIs(ns) /\ NsAtItem(ns) /\ ns.fx["e"].run # 0
  BY DEF NsInvOf, NsFrame
<1>2. CASE ns' = [ns EXCEPT !.pos = -1]
  <2>1. NsIs(ns')
    BY <1>1, <1>2 DEF NsIs, NsFields
  <2>2. /\ ns'.fx = ns.fx /\ ns'.live = ns.live /\ ns'.auto = ns.auto
        /\ ns'.want = ns.want /\ ns'.to = ns.to /\ ns'.index = ns.index
        /\ ns'.previous = ns.previous /\ ns'.next = ns.next
    BY <1>1, <1>2 DEF NsIs, NsFields
  <2> QED
    BY <1>1, <2>1, <2>2 DEF NsInvOf, NsOneInterval, NsPromised, NsAtItem
<1>3. CASE ns' = [MooStop(ns, "e", TRUE) EXCEPT !.pos = ns.to]
  <2>1. PICK e : e = [ns.fx["e"] EXCEPT !.run = 0, !.ripe = FALSE]
    OBVIOUS
  <2>2. PICK F : F = [ns.fx EXCEPT !["e"] = e]
    OBVIOUS
  <2>3. DOMAIN F = {"e"} /\ F["e"] = e /\ DOMAIN e = {"wait", "run", "ripe", "chain"}
        /\ e.wait = FALSE
    BY <1>1, <2>1, <2>2 DEF NsIs
  <2>4. PICK v : v = [ns EXCEPT !.fx = F]
    OBVIOUS
  <2>5. [ns EXCEPT !.fx["e"] = [@ EXCEPT !.run = 0, !.ripe = FALSE]] = v
    BY <2>1, <2>2, <2>4
  <2>6. ns' = [v EXCEPT !.pos = ns.to]
    BY <1>1, <1>3, <2>5 DEF MooStop
  <2>7. ns' = [ns EXCEPT !.fx = F, !.pos = ns.to]
    BY <1>1, <2>4, <2>6 DEF NsIs, NsFields
  <2>8. NsIs(ns')
    BY <1>1, <2>3, <2>7 DEF NsIs, NsFields
  <2>9. /\ ns'.live = ns.live /\ ns'.auto = ns.auto /\ ns'.pos = ns.to
        /\ ns'.want = ns.want /\ ns'.to = ns.to /\ ns'.index = ns.index
        /\ ns'.previous = ns.previous /\ ns'.next = ns.next
    BY <1>1, <2>7 DEF NsIs, NsFields
  <2> QED
    BY <1>1, <2>8, <2>9 DEF NsInvOf, NsOneInterval, NsPromised, NsAtItem
<1> QED
  BY <1>2, <1>3 DEF NsFrame

\* Buttons, handles, ticks and frames keep it.
LEMMA NsNextInv ==
  ASSUME NsInv, NsNext, NsItems \in Nat \ {0}
  PROVE  NsInv'
<1>1. NsInvOf(ns) /\ ns.index \in NsIndex
  BY DEF NsInv, NsInvOf, NsIs
<1>2. CASE NsButtonMove
  <2>1. PICK dir \in NsCall :
          ns' = [NsMove(ns, dir, TRUE) EXCEPT
                   !.want = IF ns.autoPlay THEN "next" ELSE "none"]
    BY <1>2 DEF NsButtonMove
  <2>2. PICK i \in NsIndex : i = NsTowards(dir, ns.index)
    BY <1>1, NsTowardsIndex
  <2>3. NsByHand(ns, i, ns')
    BY <2>1, <2>2 DEF NsMove, NsByHand
  <2> QED
    BY <1>1, <2>3, NsManualStep DEF NsInv
<1>3. CASE NsButtonPlay
  BY <1>1, <1>3, NsPlayStep DEF NsButtonPlay, NsInv
<1>4. CASE NsButtonStop
  BY <1>1, <1>4, NsStopStep DEF NsButtonStop, NsInv
<1>5. CASE NsHandleClick
  <2>1. PICK i \in NsIndex : ns' = NsHandle(ns, i)
    BY <1>5 DEF NsHandleClick
  <2>2. CASE i = ns.index
    <3>1. ns' = ns
      BY <2>1, <2>2 DEF NsHandle
    <3> QED
      BY <3>1 DEF NsInv
  <2>3. CASE i # ns.index
    <3>1. NsByHand(ns, i, ns')
      BY <2>1, <2>3 DEF NsHandle, NsByHand
    <3> QED
      BY <1>1, <3>1, NsManualStep DEF NsInv
  <2> QED
    BY <2>2, <2>3
<1>6. CASE NsTick
  BY <1>1, <1>6, NsTickStep DEF NsTick, NsInv
<1>7. CASE NsFrame
  BY <1>1, <1>7, NsFrameStep DEF NsInv
<1> QED
  BY <1>2, <1>3, <1>4, <1>5, <1>6, <1>7 DEF NsNext

\* The box begins at rest.
LEMMA NsInitInv == ASSUME NsInit PROVE NsInv
<1>1. PICK start \in NsIndex, b \in BOOLEAN :
        LET s == [fx |-> [e |-> MooEffect(FALSE)], pend |-> <<>>, log |-> <<>>,
                  autoPlay |-> b, index |-> start, previous |-> -1, next |-> -1,
                  auto |-> 0, live |-> [t \in {} |-> "next"], timers |-> 0,
                  pos |-> start, to |-> start, want |-> IF b THEN "next" ELSE "none"]
        IN ns = IF b THEN NsSetInterval(NsStop(s), "next") ELSE s
  BY DEF NsInit
<1>2. PICK F : F = [e |-> MooEffect(FALSE)]
  OBVIOUS
<1>3. DOMAIN F = {"e"} /\ DOMAIN F["e"] = {"wait", "run", "ripe", "chain"}
      /\ F["e"].wait = FALSE /\ F["e"].run = 0
  BY <1>2 DEF MooEffect
<1>4. PICK L : L = [t \in {} |-> "next"]
  OBVIOUS
<1>5. DOMAIN L = {}
  BY <1>4
<1>6. PICK d : d = IF b THEN "next" ELSE "none"
  OBVIOUS
<1>7. PICK s : s = [fx |-> F, pend |-> <<>>, log |-> <<>>,
                    autoPlay |-> b, index |-> start, previous |-> -1, next |-> -1,
                    auto |-> 0, live |-> L, timers |-> 0,
                    pos |-> start, to |-> start, want |-> d]
  OBVIOUS
<1>8. ns = IF b THEN NsSetInterval(NsStop(s), "next") ELSE s
  BY <1>1, <1>2, <1>4, <1>6, <1>7
<1>9. NsIs(s)
  BY <1>3, <1>7 DEF NsIs, NsFields
<1>10. NsAtItem(s) /\ DOMAIN s.live = {} /\ s.want = d
  BY <1>3, <1>5, <1>7 DEF NsAtItem
<1>11. CASE ~b
  BY <1>6, <1>8, <1>9, <1>10, <1>11 DEF NsInv, NsInvOf, NsOneInterval, NsPromised
<1>12. CASE b
  <2>1. PICK u : u = NsStop(s)
    OBVIOUS
  <2>2. NsIs(u) /\ NsSteady(s, u) /\ DOMAIN u.live = {}
    BY <1>9, <1>10, <2>1, NsStopEffect DEF NsOneInterval
  <2>3. ns = NsSetInterval(u, "next")
    BY <1>8, <1>12, <2>1
  <2>4. /\ NsIs(ns) /\ NsSteady(u, ns) /\ DOMAIN ns.live = {ns.auto}
        /\ ns.live[ns.auto] = "next"
    BY <2>2, <2>3, NsSetIntervalEffect
  <2>5. NsAtItem(ns) /\ ns.want = "next"
    BY <1>6, <1>10, <1>12, <2>2, <2>4 DEF NsAtItem, NsSteady
  <2> QED
    BY <2>4, <2>5 DEF NsInv, NsInvOf, NsOneInterval, NsPromised, NsCall
<1> QED
  BY <1>11, <1>12

\* It is what is promised of the show.
LEMMA NsInvShow == ASSUME NsInv, NsItems \in Nat \ {0} PROVE NsOneShow
<1>1. NsInvOf(ns)
  BY DEF NsInv
<1>2. {ns.live[t] : t \in DOMAIN ns.live} = {ns.want} \ {"none"}
  <2>1. CASE DOMAIN ns.live = {}
    BY <1>1, <2>1 DEF NsInvOf, NsPromised
  <2>2. CASE DOMAIN ns.live # {}
    <3>1. ns.want \in NsCall /\ \A t \in DOMAIN ns.live : ns.live[t] = ns.want
      BY <1>1, <2>2 DEF NsInvOf, NsPromised
    <3>2. ns.want # "none"
      BY <3>1 DEF NsCall
    <3>3. {ns.live[t] : t \in DOMAIN ns.live} = {ns.want}
      BY <2>2, <3>1
    <3> QED
      BY <3>2, <3>3
  <2> QED
    BY <2>1, <2>2
<1>3. ns.index \in NsIndex
  BY <1>1 DEF NsInvOf, NsIs
<1>4. ns.previous # -1 => /\ ns.previous = (ns.index + NsItems - 1) % NsItems
                          /\ ns.next = (ns.index + 1) % NsItems
  BY <1>1, <1>3, NsNeighbours DEF NsInvOf, NsAtItem
<1> QED
  BY <1>1, <1>2, <1>3, <1>4 DEF NsInvOf, NsOneInterval, NsAtItem, NsOneShow

-----------------------------------------------------------------------------
(* The image menu: the invariant.                                          *)

ImFields == {"selected", "width", "menu", "toOpen", "toClose", "shown", "height",
             "fxs", "pend", "clicks", "broken"}

ImEffects == [on : ImIds, to : {0, 1}, calls : BOOLEAN, ripe : BOOLEAN]

ImIs(s) ==
  /\ DOMAIN s = ImFields
  /\ s.selected \in {-1} \cup ImIds /\ s.toClose \in {-1} \cup ImIds
  /\ DOMAIN s.height = ImIds /\ s.pend \in Nat /\ s.clicks \in Nat
  /\ s.fxs \in Seq(ImEffects)
  /\ DOMAIN s.width = ImIds /\ DOMAIN s.menu \subseteq ImIds

\* The last effect on thumbnails c opens them; if there is none they are open.
ImNone(q, c) == \A n \in 1 .. Len(q) : q[n].on # c
ImLast(q, c) ==
  \A n \in 1 .. Len(q) :
    q[n].on = c /\ (\A m \in n + 1 .. Len(q) : q[m].on # c) => q[n].to = 1
ImOpens(q, h, c) == ImLast(q, c) /\ (ImNone(q, c) => h[c] = 1)

\* A call of nextThumbs() is still to come.
ImCalls(s) == s.pend > 0 \/ \E n \in 1 .. Len(s.fxs) : s.fxs[n].calls

\* The thumbnails shown are those that will be closed, and whose they are is the
\* selected item unless a call is still to come.
ImThumbs(s) ==
  /\ ~s.broken /\ s.toOpen = s.selected
  /\ s.shown = {s.toClose} \ {-1}
  /\ s.toClose = -1 => s.selected = -1
  /\ ~ImCalls(s) => /\ s.toClose = s.selected
                    /\ s.toClose # -1 => ImOpens(s.fxs, s.height, s.toClose)

\* The width that an item is bound for, all the same or one wide.
ImTo(s, i) == IF i \in DOMAIN s.menu THEN s.menu[i] ELSE s.width[i]
ImOneWide(s, k) ==
  ImTo(s, k) = "open" /\ \A i \in ImIds \ {k} : ImTo(s, i) = "small"
ImWidths(s) ==
  (\A i \in ImIds : ImTo(s, i) = "item") \/ \E k \in ImIds : ImOneWide(s, k)

ImInvOf(s) == ImIs(s) /\ ImThumbs(s) /\ ImWidths(s)

ImInv == ImInvOf(im)

\* An effect that opens thumbnails is their last when it has just been started.
LEMMA ImStartOpens ==
  ASSUME NEW q \in Seq(ImEffects), NEW e \in ImEffects, e.to = 1, NEW h,
         NEW r, r = Append(q, e)
  PROVE  ImOpens(r, h, e.on)
<1>1. /\ Len(r) = Len(q) + 1 /\ Len(q) \in Nat /\ r[Len(r)] = e
      /\ \A n \in 1 .. Len(q) : r[n] = q[n]
  OBVIOUS
<1>2. ImLast(r, e.on)
  <2> SUFFICES ASSUME NEW n \in 1 .. Len(r), r[n].on = e.on,
                      \A m \in n + 1 .. Len(r) : r[m].on # e.on
               PROVE  r[n].to = 1
    BY DEF ImLast
  <2>1. n = Len(r)
    BY <1>1
  <2> QED
    BY <1>1, <2>1
<1>3. ~ImNone(r, e.on)
  <2>1. Len(r) \in 1 .. Len(r)
    BY <1>1
  <2> QED
    BY <1>1, <2>1 DEF ImNone
<1> QED
  BY <1>2, <1>3 DEF ImOpens

\* When the first effect ends the others still open what they did.
LEMMA ImFinishOpens ==
  ASSUME NEW q \in Seq(ImEffects), q # <<>>, NEW c \in ImIds, NEW h, DOMAIN h = ImIds,
         ImOpens(q, h, c), NEW g, g = [h EXCEPT ![q[1].on] = q[1].to],
         NEW r, r = Tail(q)
  PROVE  ImOpens(r, g, c)
<1>1. /\ Len(q) \in Nat /\ Len(q) > 0 /\ Len(r) = Len(q) - 1
      /\ \A n \in 1 .. Len(r) : r[n] = q[n + 1] /\ n + 1 \in 1 .. Len(q)
      /\ q[1] \in ImEffects
  OBVIOUS
<1>2. g[c] = IF c = q[1].on THEN q[1].to ELSE h[c]
  OBVIOUS
<1>3. ImLast(r, c)
  <2> SUFFICES ASSUME NEW n \in 1 .. Len(r), r[n].on = c,
                      \A m \in n + 1 .. Len(r) : r[m].on # c
               PROVE  r[n].to = 1
    BY DEF ImLast
  <2>1. \A m \in (n + 1) + 1 .. Len(q) : q[m].on # c
    <3> SUFFICES ASSUME NEW m \in (n + 1) + 1 .. Len(q) PROVE q[m].on # c
      OBVIOUS
    <3>1. m - 1 \in n + 1 .. Len(r) /\ m - 1 \in 1 .. Len(r) /\ (m - 1) + 1 = m
      BY <1>1
    <3> QED
      BY <1>1, <3>1
  <2> QED
    BY <1>1, <2>1 DEF ImOpens, ImLast
<1>4. ImNone(r, c) => g[c] = 1
  <2> SUFFICES ASSUME ImNone(r, c) PROVE g[c] = 1
    OBVIOUS
  <2>1. \A m \in 1 + 1 .. Len(q) : q[m].on # c
    <3> SUFFICES ASSUME NEW m \in 1 + 1 .. Len(q) PROVE q[m].on # c
      OBVIOUS
    <3>1. m - 1 \in 1 .. Len(r) /\ (m - 1) + 1 = m
      BY <1>1
    <3> QED
      BY <1>1, <3>1 DEF ImNone
  <2>2. 1 \in 1 .. Len(q)
    BY <1>1
  <2>3. CASE c = q[1].on
    BY <1>2, <2>1, <2>2, <2>3 DEF ImOpens, ImLast
  <2>4. CASE c # q[1].on
    <3>1. ImNone(q, c)
      <4> SUFFICES ASSUME NEW m \in 1 .. Len(q) PROVE q[m].on # c
        BY DEF ImNone
      <4>1. m = 1 \/ m \in 1 + 1 .. Len(q)
        BY <1>1
      <4> QED
        BY <2>1, <2>4, <4>1
    <3> QED
      BY <1>2, <2>4, <3>1 DEF ImOpens
  <2> QED
    BY <2>3, <2>4
<1> QED
  BY <1>3, <1>4 DEF ImOpens

-----------------------------------------------------------------------------
(* The image menu: its thumbnails.                                         *)

\* The fields of the menu.
ImSameMenu(s, t) == t.menu = s.menu /\ t.width = s.width

\* Widths do not depend on the thumbnails.
LEMMA ImWidthsKept ==
  ASSUME NEW s, NEW t, ImSameMenu(s, t), ImWidths(s)
  PROVE  ImWidths(t)
BY DEF ImSameMenu, ImWidths, ImOneWide, ImTo

\* An effect is started.
LEMMA ImStartEffect ==
  ASSUME NEW s, ImIs(s), NEW e \in ImEffects, NEW t, t = ImStart(s, e)
  PROVE  /\ ImIs(t) /\ ImSameMenu(s, t) /\ t.fxs = Append(s.fxs, e)
         /\ t.selected = s.selected /\ t.toOpen = s.toOpen /\ t.toClose = s.toClose
         /\ t.shown = s.shown /\ t.height = s.height /\ t.pend = s.pend
         /\ (t.broken <=> s.broken)
<1>1. s.fxs \in Seq(ImEffects)
  BY DEF ImIs
<1>2. PICK r \in Seq(ImEffects) : r = Append(s.fxs, e)
  BY <1>1, AppendProperties
<1>3. t = [s EXCEPT !.fxs = r]
  BY <1>2 DEF ImStart
<1> QED
  BY <1>2, <1>3 DEF ImIs, ImFields, ImSameMenu

\* A new last effect that calls makes a call to come.
LEMMA ImCallsAppended ==
  ASSUME NEW s, ImIs(s), NEW e \in ImEffects, e.calls, NEW t, t.fxs = Append(s.fxs, e)
  PROVE  ImCalls(t)
<1>1. s.fxs \in Seq(ImEffects)
  BY DEF ImIs
<1>2. Len(t.fxs) \in 1 .. Len(t.fxs) /\ t.fxs[Len(t.fxs)] = e
  BY <1>1
<1> QED
  BY <1>2 DEF ImCalls

\* A click.
LEMMA ImClickStep ==
  ASSUME NEW s, ImInvOf(s), NEW i \in ImIds, NEW t, t = ImSelect(s, i)
  PROVE  ImInvOf(t)
<1>1. ImIs(s) /\ ImThumbs(s) /\ s.clicks + 1 \in Nat
  BY DEF ImInvOf, ImIs
<1>2. PICK k \in {-1} \cup ImIds : k = IF s.selected = i THEN -1 ELSE i
  OBVIOUS
<1>3. PICK n \in Nat : n = s.clicks + 1
  BY <1>1
<1>4. PICK u : u = [s EXCEPT !.selected = k, !.clicks = n, !.toOpen = k]
  OBVIOUS
<1>5. /\ ImIs(u) /\ ImSameMenu(s, u) /\ u.fxs = s.fxs /\ u.selected = k
      /\ u.toOpen = k /\ u.toClose = s.toClose /\ u.shown = s.shown
      /\ u.height = s.height /\ u.pend = s.pend /\ (u.broken <=> s.broken)
  BY <1>1, <1>4 DEF ImIs, ImFields, ImSameMenu
<1>6. [[s EXCEPT !.selected = k, !.clicks = n] EXCEPT !.toOpen = k] = u
  BY <1>1, <1>4 DEF ImIs, ImFields
<1>7. t = IF u.toClose # -1 THEN ImStart(u, ImEffect(u.toClose, 0, TRUE))
          ELSE IF u.selected = -1 THEN [u EXCEPT !.broken = TRUE]
          ELSE ImStart([u EXCEPT !.shown = @ \cup {u.selected}, !.toClose = u.selected],
                       ImEffect(u.selected, 1, TRUE))
  <2>1. PICK v : v = [s EXCEPT !.selected = k, !.clicks = n]
    OBVIOUS
  <2>2. t = ImOpenThumbs(v) /\ v.selected = k /\ [v EXCEPT !.toOpen = v.selected] = u
    BY <1>1, <1>2, <1>3, <1>6, <2>1 DEF ImSelect, ImIs, ImFields
  <2> QED
    BY <2>2 DEF ImOpenThumbs
<1>8. CASE u.toClose # -1
  <2>1. PICK e : e = ImEffect(u.toClose, 0, TRUE)
    OBVIOUS
  <2>2. e \in ImEffects /\ e.calls
    BY <1>5, <1>8, <2>1 DEF ImIs, ImEffect, ImEffects
  <2>3. t = ImStart(u, e)
    BY <1>7, <1>8, <2>1
  <2>4. /\ ImIs(t) /\ ImSameMenu(u, t) /\ t.fxs = Append(u.fxs, e)
        /\ t.selected = u.selected /\ t.toOpen = u.toOpen /\ t.toClose = u.toClose
        /\ t.shown = u.shown /\ t.height = u.height /\ t.pend = u.pend
        /\ (t.broken <=> u.broken)
    BY <1>5, <2>2, <2>3, ImStartEffect
  <2>5. ImCalls(t)
    BY <1>5, <2>2, <2>4, ImCallsAppended
  <2>6. ImThumbs(t)
    BY <1>1, <1>5, <1>8, <2>4, <2>5 DEF ImThumbs
  <2>7. ImWidths(t)
    <3>1. ImSameMenu(s, t)
      BY <1>5, <2>4 DEF ImSameMenu
    <3> QED
      BY <3>1, ImWidthsKept DEF ImInvOf
  <2> QED
    BY <2>4, <2>6, <2>7 DEF ImInvOf
<1>9. CASE u.toClose = -1
  <2>1. k = i /\ k # -1
    <3>1. s.selected = -1
      BY <1>1, <1>5, <1>9 DEF ImThumbs
    <3> QED
      BY <1>2, <3>1 DEF ImIds
  <2>2. s.shown = {}
    BY <1>1, <1>5, <1>9 DEF ImThumbs
  <2>3. PICK v : v = [u EXCEPT !.shown = u.shown \cup {k}, !.toClose = k]
    OBVIOUS
  <2>4. /\ ImIs(v) /\ ImSameMenu(u, v) /\ v.fxs = u.fxs
        /\ v.selected = k /\ v.toOpen = k /\ v.toClose = k
        /\ v.shown = {k} /\ v.height = u.height /\ v.pend = u.pend
        /\ (v.broken <=> u.broken)
    BY <1>5, <2>2, <2>3 DEF ImIs, ImFields, ImSameMenu
  <2>5. PICK e : e = ImEffect(k, 1, TRUE)
    OBVIOUS
  <2>6. e \in ImEffects /\ e.calls
    BY <2>1, <2>5 DEF ImEffect, ImEffects
  <2>7. t = ImStart(v, e)
    BY <1>5, <1>7, <1>9, <2>1, <2>3, <2>5
  <2>8. /\ ImIs(t) /\ ImSameMenu(v, t) /\ t.fxs = Append(v.fxs, e)
        /\ t.selected = v.selected /\ t.toOpen = v.toOpen /\ t.toClose = v.toClose
        /\ t.shown = v.shown /\ t.height = v.height /\ t.pend = v.pend
        /\ (t.broken <=> v.broken)
    BY <2>4, <2>6, <2>7, ImStartEffect
  <2>9. ImCalls(t)
    BY <2>4, <2>6, <2>8, ImCallsAppended
  <2>10. ImThumbs(t)
    BY <1>1, <1>5, <2>1, <2>4, <2>8, <2>9 DEF ImThumbs
  <2>11. ImWidths(t)
    <3>1. ImSameMenu(s, t)
      BY <1>5, <2>4, <2>8 DEF ImSameMenu
    <3> QED
      BY <3>1, ImWidthsKept DEF ImInvOf
  <2> QED
    BY <2>8, <2>10, <2>11 DEF ImInvOf
<1> QED
  BY <1>8, <1>9

\* nextThumbs(), delayed: the thumbnails are those of the selected item.
LEMMA ImDelayedStep ==
  ASSUME NEW s, ImInvOf(s), s.pend > 0,
         NEW t, t = ImNextThumbs([s EXCEPT !.pend = @ - 1])
  PROVE  ImInvOf(t)
<1>1. ImIs(s) /\ ImThumbs(s)
  BY DEF ImInvOf
<1>2. s.pend \in Nat
  BY <1>1 DEF ImIs
<1>3. PICK n \in Nat : n = s.pend - 1
  BY <1>2
<1>4. PICK u : u = [s EXCEPT !.pend = n]
  OBVIOUS
<1>5. /\ ImIs(u) /\ ImSameMenu(s, u) /\ u.fxs = s.fxs /\ u.selected = s.selected
      /\ u.toOpen = s.toOpen /\ u.toClose = s.toClose /\ u.shown = s.shown
      /\ u.height = s.height /\ (u.broken <=> s.broken)
  BY <1>1, <1>4 DEF ImIs, ImFields, ImSameMenu
<1>6. PICK v : v = [u EXCEPT !.shown = u.shown \ {u.toClose}, !.toClose = -1]
  OBVIOUS
<1>7. t = IF u.toClose = -1 THEN u ELSE IF u.toOpen = -1 THEN v
          ELSE ImStart([v EXCEPT !.shown = @ \cup {u.toOpen}, !.toClose = u.toOpen],
                       ImEffect(u.toOpen, 1, FALSE))
  <2>1. t = ImNextThumbs(u)
    BY <1>3, <1>4
  <2> QED
    BY <1>6, <2>1 DEF ImNextThumbs
<1>8. /\ ImIs(v) /\ ImSameMenu(u, v) /\ v.fxs = u.fxs /\ v.selected = u.selected
      /\ v.toOpen = u.toOpen /\ v.toClose = -1 /\ v.shown = {}
      /\ v.height = u.height /\ (v.broken <=> u.broken)
  <2>1. u.shown \ {u.toClose} = {}
    BY <1>1, <1>5 DEF ImThumbs
  <2> QED
    BY <1>5, <1>6, <2>1 DEF ImIs, ImFields, ImSameMenu
<1>9. CASE u.toClose = -1
  <2>1. t = u
    BY <1>7, <1>9
  <2>2. ImThumbs(t)
    BY <1>1, <1>5, <1>9, <2>1 DEF ImThumbs
  <2> QED
    BY <1>5, <2>1, <2>2, ImWidthsKept DEF ImInvOf
<1>10. CASE u.toClose # -1 /\ u.toOpen = -1
  <2>1. t = v
    BY <1>7, <1>10
  <2>2. ImThumbs(t)
    BY <1>1, <1>5, <1>8, <1>10, <2>1 DEF ImThumbs
  <2>3. ImSameMenu(s, t)
    BY <1>5, <1>8, <2>1 DEF ImSameMenu
  <2> QED
    BY <1>8, <2>1, <2>2, <2>3, ImWidthsKept DEF ImInvOf
<1>11. CASE u.toClose # -1 /\ u.toOpen # -1
  <2>1. PICK k \in ImIds : k = u.toOpen
    BY <1>1, <1>5, <1>11 DEF ImThumbs, ImIs
  <2>2. PICK w : w = [v EXCEPT !.shown = v.shown \cup {k}, !.toClose = k]
    OBVIOUS
  <2>3. /\ ImIs(w) /\ ImSameMenu(v, w) /\ w.fxs = v.fxs /\ w.selected = v.selected
        /\ w.toOpen = v.toOpen /\ w.toClose = k /\ w.shown = {k}
        /\ w.height = v.height /\ (w.broken <=> v.broken)
    BY <1>8, <2>2 DEF ImIs, ImFields, ImSameMenu
  <2>4. PICK e : e = ImEffect(k, 1, FALSE)
    OBVIOUS
  <2>5. e \in ImEffects /\ e.on = k /\ e.to = 1
    BY <2>4 DEF ImEffect, ImEffects
  <2>6. t = ImStart(w, e)
    BY <1>7, <1>11, <2>1, <2>2, <2>4
  <2>7. /\ ImIs(t) /\ ImSameMenu(w, t) /\ t.fxs = Append(w.fxs, e)
        /\ t.selected = w.selected /\ t.toOpen = w.toOpen /\ t.toClose = w.toClose
        /\ t.shown = w.shown /\ t.height = w.height /\ t.pend = w.pend
        /\ (t.broken <=> w.broken)
    BY <2>3, <2>5, <2>6, ImStartEffect, ZenonT(30)
  <2>8. ImOpens(t.fxs, t.height, k)
    <3>1. w.fxs \in Seq(ImEffects)
      BY <2>3 DEF ImIs
    <3> QED
      BY <2>5, <2>7, <3>1, ImStartOpens
  <2>9. ImThumbs(t)
    <3>1. t.toClose = k /\ t.selected = k /\ t.toOpen = k /\ t.shown = {k} /\ ~t.broken
      BY <1>1, <1>5, <1>8, <2>1, <2>3, <2>7 DEF ImThumbs
    <3>2. k # -1
      BY <1>11, <2>1
    <3> QED
      BY <2>8, <3>1, <3>2 DEF ImThumbs
  <2>10. ImSameMenu(s, t)
    BY <1>5, <1>8, <2>3, <2>7 DEF ImSameMenu
  <2> QED
    BY <2>7, <2>9, <2>10, ImWidthsKept DEF ImInvOf
<1> QED
  BY <1>9, <1>10, <1>11

\* The fields that the frames of thumbnails leave as they are.
ImSameThumbs(s, t) ==
  /\ t.selected = s.selected /\ t.toOpen = s.toOpen /\ t.toClose = s.toClose
  /\ t.shown = s.shown /\ (t.broken <=> s.broken)

\* The thumbnails but for what the effects still do.
LEMMA ImThumbsKept ==
  ASSUME NEW s, NEW t, ImThumbs(s), ImSameThumbs(s, t),
         ~ImCalls(t) => ~ImCalls(s),
         ~ImCalls(t) /\ s.toClose # -1 /\ ImOpens(s.fxs, s.height, s.toClose) =>
           ImOpens(t.fxs, t.height, s.toClose)
  PROVE  ImThumbs(t)
BY DEF ImThumbs, ImSameThumbs

\* An effect on thumbnails is over.
LEMMA ImThumbFinishStep == ASSUME ImInv, ImThumbFinish PROVE ImInv'
<1>1. ImIs(im) /\ ImThumbs(im) /\ ImWidths(im) /\ im.fxs # <<>>
  BY DEF ImInv, ImInvOf, ImThumbFinish
<1>2. im.fxs \in Seq(ImEffects)
  BY <1>1 DEF ImIs
<1>3. PICK e \in ImEffects : e = im.fxs[1]
  BY <1>1, <1>2
<1>4. Head(im.fxs) = e /\ e.on \in ImIds
  BY <1>1, <1>2, <1>3 DEF ImEffects
<1>5. PICK r \in Seq(ImEffects) : r = Tail(im.fxs)
  BY <1>1, <1>2, HeadTailProperties
<1>6. PICK g : g = [im.height EXCEPT ![e.on] = e.to]
  OBVIOUS
<1>7. DOMAIN g = ImIds
  BY <1>1, <1>6 DEF ImIs
<1>8. PICK n \in Nat : n = (IF e.calls THEN im.pend + 1 ELSE im.pend)
  <2>1. im.pend \in Nat
    BY <1>1 DEF ImIs
  <2> QED
    BY <2>1
<1>9. im' = [im EXCEPT !.fxs = r, !.height = g, !.pend = n]
  BY <1>3, <1>4, <1>5, <1>6, <1>8 DEF ImThumbFinish
<1>10. /\ ImIs(im') /\ ImSameMenu(im, im') /\ ImSameThumbs(im, im')
       /\ im'.fxs = r /\ im'.height = g /\ im'.pend = n
  BY <1>1, <1>5, <1>7, <1>8, <1>9 DEF ImIs, ImFields, ImSameMenu, ImSameThumbs
<1>11. ~ImCalls(im') => ~ImCalls(im)
  <2> SUFFICES ASSUME ~ImCalls(im') PROVE ~ImCalls(im)
    OBVIOUS
  <2>1. n = 0 /\ ~e.calls /\ im.pend = 0
    <3>1. im.pend \in Nat
      BY <1>1 DEF ImIs
    <3>2. n = 0
      BY <1>8, <1>10 DEF ImCalls
    <3> QED
      BY <1>8, <3>1, <3>2
  <2>2. \A m \in 1 .. Len(r) : ~r[m].calls
    BY <1>10 DEF ImCalls
  <2>3. \A m \in 1 .. Len(im.fxs) :
          m # 1 => m - 1 \in 1 .. Len(r) /\ im.fxs[m] = r[m - 1]
    <3>1. Len(im.fxs) \in Nat /\ Len(r) = Len(im.fxs) - 1
      BY <1>1, <1>2, <1>5, HeadTailProperties
    <3>2. \A i \in 1 .. Len(r) : r[i] = im.fxs[i + 1]
      BY <1>1, <1>2, <1>5, HeadTailProperties
    <3> SUFFICES ASSUME NEW m \in 1 .. Len(im.fxs), m # 1
                 PROVE  m - 1 \in 1 .. Len(r) /\ im.fxs[m] = r[m - 1]
      OBVIOUS
    <3>3. m - 1 \in 1 .. Len(r) /\ (m - 1) + 1 = m
      BY <3>1
    <3> QED
      BY <3>2, <3>3
  <2>4. \A m \in 1 .. Len(im.fxs) : ~im.fxs[m].calls
    BY <1>3, <2>1, <2>2, <2>3
  <2> QED
    BY <2>1, <2>4 DEF ImCalls
<1>12. im.toClose # -1 /\ ImOpens(im.fxs, im.height, im.toClose) =>
         ImOpens(im'.fxs, im'.height, im.toClose)
  <2> SUFFICES ASSUME im.toClose # -1, ImOpens(im.fxs, im.height, im.toClose)
               PROVE  ImOpens(r, g, im.toClose)
    BY <1>10
  <2>1. im.toClose \in ImIds /\ DOMAIN im.height = ImIds
    BY <1>1 DEF ImIs
  <2>2. g = [im.height EXCEPT ![im.fxs[1].on] = im.fxs[1].to]
    BY <1>3, <1>6
  <2> QED
    BY <1>1, <1>2, <1>5, <2>1, <2>2, ImFinishOpens
<1>13. ImThumbs(im')
  BY <1>1, <1>10, <1>11, <1>12, ImThumbsKept
<1> QED
  BY <1>1, <1>10, <1>13, ImWidthsKept DEF ImInv, ImInvOf

\* A frame of an effect on thumbnails.
LEMMA ImThumbFrameStep == ASSUME ImInv, ImThumbFrame PROVE ImInv'
<1>1. ImIs(im) /\ ImThumbs(im) /\ ImWidths(im)
  BY DEF ImInv, ImInvOf
<1>2. im.fxs \in Seq(ImEffects) /\ DOMAIN im.height = ImIds
  BY <1>1 DEF ImIs
<1>3. PICK n \in DOMAIN im.fxs : im' = [im EXCEPT !.height[im.fxs[n].on] = 2]
  BY DEF ImThumbFrame
<1>4. n \in 1 .. Len(im.fxs)
  BY <1>2, <1>3
<1>5. PICK g : g = [im.height EXCEPT ![im.fxs[n].on] = 2]
  OBVIOUS
<1>6. im' = [im EXCEPT !.height = g]
  BY <1>3, <1>5
<1>7. DOMAIN g = ImIds /\ \A c \in ImIds : im.fxs[n].on # c => g[c] = im.height[c]
  BY <1>2, <1>5
<1>8. /\ ImIs(im') /\ ImSameMenu(im, im') /\ ImSameThumbs(im, im')
      /\ im'.fxs = im.fxs /\ im'.height = g /\ im'.pend = im.pend
  BY <1>1, <1>6, <1>7 DEF ImIs, ImFields, ImSameMenu, ImSameThumbs
<1>9. ~ImCalls(im') => ~ImCalls(im)
  BY <1>8 DEF ImCalls
<1>10. im.toClose # -1 /\ ImOpens(im.fxs, im.height, im.toClose) =>
         ImOpens(im'.fxs, im'.height, im.toClose)
  <2>1. im.toClose # -1 => im.toClose \in ImIds
    BY <1>1 DEF ImIs
  <2> QED
    BY <1>4, <1>7, <1>8, <2>1 DEF ImOpens, ImNone
<1>11. ImThumbs(im')
  BY <1>1, <1>8, <1>9, <1>10, ImThumbsKept
<1> QED
  BY <1>1, <1>8, <1>11, ImWidthsKept DEF ImInv, ImInvOf

\* 10 ms go by.
LEMMA ImThumbRipeStep == ASSUME ImInv, ImThumbRipe PROVE ImInv'
<1>1. ImIs(im) /\ ImThumbs(im) /\ ImWidths(im)
  BY DEF ImInv, ImInvOf
<1>2. im.fxs \in Seq(ImEffects)
  BY <1>1 DEF ImIs
<1>3. PICK r : r = [n \in DOMAIN im.fxs |-> [im.fxs[n] EXCEPT !.ripe = TRUE]]
  OBVIOUS
<1>4. DOMAIN im.fxs = 1 .. Len(im.fxs) /\ Len(im.fxs) \in Nat
      /\ \A n \in 1 .. Len(im.fxs) : im.fxs[n] \in ImEffects
  BY <1>2
<1>5. \A n \in 1 .. Len(im.fxs) :
        /\ r[n] \in ImEffects /\ r[n].on = im.fxs[n].on
        /\ r[n].to = im.fxs[n].to /\ r[n].calls = im.fxs[n].calls
  <2> SUFFICES ASSUME NEW n \in 1 .. Len(im.fxs)
               PROVE  /\ r[n] \in ImEffects /\ r[n].on = im.fxs[n].on
                      /\ r[n].to = im.fxs[n].to /\ r[n].calls = im.fxs[n].calls
    OBVIOUS
  <2>1. r[n] = [im.fxs[n] EXCEPT !.ripe = TRUE] /\ im.fxs[n] \in ImEffects
    BY <1>3, <1>4
  <2> QED
    BY <2>1 DEF ImEffects
<1>6. r \in Seq(ImEffects) /\ Len(r) = Len(im.fxs)
  <2>1. r \in [1 .. Len(im.fxs) -> ImEffects]
    BY <1>3, <1>4, <1>5
  <2> QED
    BY <1>4, <2>1
<1>7. im' = [im EXCEPT !.fxs = r]
  BY <1>3 DEF ImThumbRipe
<1>8. /\ ImIs(im') /\ ImSameMenu(im, im') /\ ImSameThumbs(im, im')
      /\ im'.fxs = r /\ im'.height = im.height /\ im'.pend = im.pend
  BY <1>1, <1>6, <1>7 DEF ImIs, ImFields, ImSameMenu, ImSameThumbs
<1>9. ~ImCalls(im') => ~ImCalls(im)
  BY <1>5, <1>6, <1>8 DEF ImCalls
<1>10. im.toClose # -1 /\ ImOpens(im.fxs, im.height, im.toClose) =>
         ImOpens(im'.fxs, im'.height, im.toClose)
  <2> SUFFICES ASSUME im.toClose # -1, ImOpens(im.fxs, im.height, im.toClose)
               PROVE  ImOpens(r, im.height, im.toClose)
    BY <1>8
  <2>1. ImNone(r, im.toClose) => ImNone(im.fxs, im.toClose)
    BY <1>5, <1>6 DEF ImNone
  <2>2. ImLast(r, im.toClose)
    <3> SUFFICES ASSUME NEW n \in 1 .. Len(r), r[n].on = im.toClose,
                        \A m \in n + 1 .. Len(r) : r[m].on # im.toClose
                 PROVE  r[n].to = 1
      BY DEF ImLast
    <3>1. \A m \in n + 1 .. Len(im.fxs) : m \in 1 .. Len(im.fxs)
      BY <1>4
    <3>2. \A m \in n + 1 .. Len(im.fxs) : im.fxs[m].on # im.toClose
      BY <1>5, <1>6, <3>1
    <3> QED
      BY <1>5, <1>6, <3>2 DEF ImOpens, ImLast
  <2> QED
    BY <2>1, <2>2 DEF ImOpens
<1>11. ImThumbs(im')
  BY <1>1, <1>8, <1>9, <1>10, ImThumbsKept
<1> QED
  BY <1>1, <1>8, <1>11, ImWidthsKept DEF ImInv, ImInvOf

-----------------------------------------------------------------------------
(* The image menu: its pictures.                                           *)

\* A change of the widths or of their targets leaves the thumbnails alone.
LEMMA ImMenuEffect ==
  ASSUME NEW s, ImInvOf(s), NEW m, NEW w, DOMAIN m \subseteq ImIds, DOMAIN w = ImIds,
         NEW t, t = [s EXCEPT !.menu = m, !.width = w], ImWidths(t)
  PROVE  ImInvOf(t)
<1>1. ImIs(s) /\ ImThumbs(s)
  BY DEF ImInvOf
<1>2. ImIs(t) /\ ImSameThumbs(s, t)
      /\ t.fxs = s.fxs /\ t.height = s.height /\ t.pend = s.pend
  BY <1>1 DEF ImIs, ImFields, ImSameThumbs
<1>3. ~ImCalls(t) => ~ImCalls(s)
  BY <1>2 DEF ImCalls
<1>4. ImThumbs(t)
  BY <1>1, <1>2, <1>3, ImThumbsKept
<1> QED
  BY <1>2, <1>4 DEF ImInvOf

\* show(): one is wide whatever the effect before had reached.
LEMMA ImShowStep ==
  ASSUME NEW s, ImInvOf(s), NEW i \in ImIds, NEW t, t = [s EXCEPT !.menu = ImShow(s, i)]
  PROVE  ImInvOf(t)
<1>1. ImIs(s)
  BY DEF ImInvOf
<1>2. PICK m : m = ImShow(s, i)
  OBVIOUS
<1>3. /\ DOMAIN m = {i} \cup {k \in ImIds : s.width[k] # "small"}
      /\ \A j \in DOMAIN m : m[j] = IF j = i THEN "open" ELSE "small"
  BY <1>2 DEF ImShow
<1>4. t = [s EXCEPT !.menu = m, !.width = s.width]
  BY <1>1, <1>2 DEF ImIs, ImFields
<1>5. t.menu = m /\ t.width = s.width
  BY <1>1, <1>4 DEF ImIs, ImFields
<1>6. ImOneWide(t, i)
  BY <1>3, <1>5 DEF ImOneWide, ImTo
<1>7. ImWidths(t) /\ DOMAIN m \subseteq ImIds /\ DOMAIN s.width = ImIds
  BY <1>1, <1>3, <1>6 DEF ImWidths, ImIs
<1> QED
  BY <1>4, <1>7, ImMenuEffect

\* hide()
LEMMA ImMouseOutStep == ASSUME ImInv, ImMouseOut PROVE ImInv'
<1>1. ImInvOf(im) /\ ImIs(im) /\ im' = [im EXCEPT !.menu = ImHide(im)]
  BY DEF ImInv, ImInvOf, ImMouseOut
<1>2. CASE im.selected = -1
  <2>1. PICK m : m = [j \in ImIds |-> "item"]
    OBVIOUS
  <2>2. im' = [im EXCEPT !.menu = m, !.width = im.width]
    BY <1>1, <1>2, <2>1 DEF ImHide, ImIs, ImFields
  <2>3. im'.menu = m /\ DOMAIN m = ImIds /\ \A j \in ImIds : m[j] = "item"
    BY <1>1, <2>1, <2>2 DEF ImIs, ImFields
  <2>4. ImWidths(im')
    BY <2>3 DEF ImWidths, ImTo
  <2>5. DOMAIN m \subseteq ImIds /\ DOMAIN im.width = ImIds
    BY <1>1, <2>3 DEF ImIs
  <2> QED
    BY <1>1, <2>2, <2>4, <2>5, ImMenuEffect DEF ImInv
<1>3. CASE im.selected # -1
  <2>1. im.selected \in ImIds
    BY <1>1, <1>3 DEF ImIs
  <2>2. im' = [im EXCEPT !.menu = ImShow(im, im.selected)]
    BY <1>1, <1>3 DEF ImHide
  <2> QED
    BY <1>1, <2>1, <2>2, ImShowStep DEF ImInv
<1> QED
  BY <1>2, <1>3

\* A frame of the menu draws on the way to the same widths.
LEMMA ImMenuFrameStep == ASSUME ImInv, ImMenuFrame PROVE ImInv'
<1>1. ImInvOf(im) /\ ImIs(im) /\ ImWidths(im)
  BY DEF ImInv, ImInvOf
<1>2. DOMAIN im.menu \subseteq ImIds /\ DOMAIN im.width = ImIds
  BY <1>1 DEF ImIs
<1>3. CASE im' = [im EXCEPT !.width = [i \in ImIds |-> IF i \in DOMAIN im.menu
                                                       THEN "between" ELSE @[i]]]
  <2>1. PICK w : w = [i \in ImIds |-> IF i \in DOMAIN im.menu THEN "between"
                                      ELSE im.width[i]]
    OBVIOUS
  <2>2. DOMAIN w = ImIds /\ \A i \in ImIds : i \notin DOMAIN im.menu => w[i] = im.width[i]
    BY <1>2, <2>1
  <2>3. im' = [im EXCEPT !.menu = im.menu, !.width = w]
    BY <1>1, <1>3, <2>1 DEF ImIs, ImFields
  <2>4. im'.menu = im.menu /\ im'.width = w
    BY <1>1, <2>3 DEF ImIs, ImFields
  <2>5. \A i \in ImIds : ImTo(im', i) = ImTo(im, i)
    BY <2>2, <2>4 DEF ImTo
  <2>6. ImWidths(im')
    BY <1>1, <2>5 DEF ImWidths, ImOneWide
  <2> QED
    BY <1>1, <1>2, <2>2, <2>3, <2>6, ImMenuEffect DEF ImInv
<1>4. CASE im' = [im EXCEPT !.width = ImBound(im), !.menu = [i \in {} |-> "item"]]
  <2>1. PICK w : w = ImBound(im)
    OBVIOUS
  <2>2. DOMAIN w = ImIds /\ \A i \in ImIds : w[i] = ImTo(im, i)
    BY <1>2, <2>1 DEF ImBound, ImTo
  <2>3. PICK m : m = [i \in {} |-> "item"]
    OBVIOUS
  <2>4. DOMAIN m = {}
    BY <2>3
  <2>5. im' = [im EXCEPT !.menu = m, !.width = w]
    BY <1>1, <1>4, <2>1, <2>3 DEF ImIs, ImFields
  <2>6. im'.menu = m /\ im'.width = w
    BY <1>1, <2>5 DEF ImIs, ImFields
  <2>7. \A i \in ImIds : ImTo(im', i) = ImTo(im, i)
    BY <2>2, <2>4, <2>6 DEF ImTo
  <2>8. ImWidths(im')
    BY <1>1, <2>7 DEF ImWidths, ImOneWide
  <2> QED
    BY <1>1, <2>2, <2>4, <2>5, <2>8, ImMenuEffect DEF ImInv
<1> QED
  BY <1>3, <1>4 DEF ImMenuFrame

-----------------------------------------------------------------------------
\* Mouse, clicks, effects and delayed calls keep the invariant.
LEMMA ImNextInv == ASSUME ImInv, ImNext PROVE ImInv'
<1>1. ImInvOf(im)
  BY DEF ImInv
<1>2. CASE ImMouseOver
  BY <1>1, <1>2, ImShowStep DEF ImMouseOver, ImInv
<1>3. CASE ImClick
  BY <1>1, <1>3, ImClickStep DEF ImClick, ImInv
<1>4. CASE ImDelayed
  BY <1>1, <1>4, ImDelayedStep DEF ImDelayed, ImInv
<1> QED
  BY <1>2, <1>3, <1>4, ImMouseOutStep, ImMenuFrameStep, ImThumbFinishStep,
     ImThumbFrameStep, ImThumbRipeStep DEF ImNext

\* At first nothing is selected.
LEMMA ImInitInv == ASSUME ImInit PROVE ImInv
<1>1. DOMAIN im = ImFields
  BY DEF ImInit, ImFields
<1>2. /\ im.selected = -1 /\ im.toOpen = -1 /\ im.toClose = -1 /\ im.shown = {}
      /\ im.fxs = <<>> /\ im.pend = 0 /\ im.clicks = 0 /\ im.broken = FALSE
      /\ im.width = [i \in ImIds |-> "item"] /\ im.height = [i \in ImIds |-> 0]
      /\ DOMAIN im.menu = {}
  BY DEF ImInit
<1>3. im.fxs \in Seq(ImEffects)
  BY <1>2
<1>4. ImIs(im)
  BY <1>1, <1>2, <1>3 DEF ImIs
<1>5. ImThumbs(im)
  BY <1>2 DEF ImThumbs
<1>6. ImWidths(im)
  BY <1>2 DEF ImWidths, ImTo
<1> QED
  BY <1>4, <1>5, <1>6 DEF ImInv, ImInvOf

\* What is promised of the gallery.
LEMMA ImInvGallery == ASSUME ImInv PROVE ImOneGallery
<1>1. ImIs(im) /\ ImThumbs(im) /\ ImWidths(im)
  BY DEF ImInv, ImInvOf
<1>2. (im.fxs = <<>> /\ im.pend = 0) =>
        /\ im.shown = {im.selected} \ {-1}
        /\ \A i \in im.shown : im.height[i] = 1
        /\ im.toClose = im.selected
  <2> SUFFICES ASSUME im.fxs = <<>>, im.pend = 0
               PROVE  /\ im.shown = {im.selected} \ {-1}
                      /\ \A i \in im.shown : im.height[i] = 1
                      /\ im.toClose = im.selected
    OBVIOUS
  <2>1. 1 .. Len(im.fxs) = {}
    OBVIOUS
  <2>2. ~ImCalls(im) /\ ImNone(im.fxs, im.toClose)
    BY <2>1 DEF ImCalls, ImNone
  <2> QED
    BY <1>1, <2>2 DEF ImThumbs, ImOpens
<1>3. PICK to : to = ImBound(im)
  OBVIOUS
<1>4. \A i \in ImIds : to[i] = ImTo(im, i)
  BY <1>1, <1>3 DEF ImIs, ImBound, ImTo
<1>5. PICK open : open = {i \in ImIds : to[i] = "open"}
  OBVIOUS
<1>6. \/ \A i \in ImIds : to[i] = "item"
      \/ Cardinality(open) = 1 /\ \A i \in ImIds \ open : to[i] = "small"
  <2>1. CASE \A i \in ImIds : ImTo(im, i) = "item"
    BY <1>4, <2>1
  <2>2. ASSUME NEW k \in ImIds, ImOneWide(im, k)
        PROVE  Cardinality(open) = 1 /\ \A i \in ImIds \ open : to[i] = "small"
    <3>1. open = {k}
      BY <1>4, <1>5, <2>2 DEF ImOneWide
    <3>2. Cardinality(open) = 1
      BY <3>1, FS_Singleton
    <3> QED
      BY <1>4, <2>2, <3>1, <3>2 DEF ImOneWide
  <2> QED
    BY <1>1, <2>1, <2>2 DEF ImWidths
<1> QED
  BY <1>1, <1>2, <1>3, <1>5, <1>6 DEF ImOneGallery, ImThumbs

-----------------------------------------------------------------------------
(* The accordion.                                                          *)

AcFields == {"always", "h", "to", "running", "previous", "active", "cut"}

\* How high a section is that an effect has brought where it was to go.
AcHigh(s, i) == IF i \in s.active THEN 2 ELSE 0

AcInvOf(s) ==
  /\ DOMAIN s = AcFields
  /\ s.always \in BOOLEAN /\ s.running \in BOOLEAN /\ s.cut \in BOOLEAN
  /\ s.h \in Seq(0 .. 2) /\ s.active \subseteq {s.previous}
  /\ s.active \subseteq DOMAIN s.h
  /\ ~s.always /\ s.previous # 0 => s.active = {s.previous}
  /\ s.running => /\ \A i \in DOMAIN s.to : s.to[i] = AcHigh(s, i)
                  /\ \A i \in DOMAIN s.h \ DOMAIN s.to : s.h[i] = AcHigh(s, i)
  /\ ~s.running /\ ~s.cut => \A i \in DOMAIN s.h : s.h[i] = AcHigh(s, i)

AcInv == AcInvOf(ac)

\* display()
LEMMA AcDisplayStep ==
  ASSUME NEW s, AcInvOf(s), NEW index \in DOMAIN s.h, NEW t, t = AcDisplay(s, index)
  PROVE  AcInvOf(t)
<1>1. CASE t = s
  BY <1>1
<1>2. CASE t # s
  <2>1. PICK A : A = {i \in DOMAIN s.h : ~AcHides(s, index, i)}
    OBVIOUS
  <2>2. A \subseteq {index} /\ (~s.always => A = {index}) /\ A \subseteq DOMAIN s.h
    BY <2>1 DEF AcHides
  <2>3. PICK T : T = [i \in DOMAIN s.h |-> IF i \in A THEN 2 ELSE 0]
    OBVIOUS
  <2>4. t = [s EXCEPT !.previous = index, !.active = A, !.running = TRUE,
                      !.cut = FALSE, !.to = T]
    BY <1>2, <2>1, <2>3 DEF AcDisplay
  <2>5. /\ DOMAIN t = AcFields /\ t.always = s.always /\ t.running /\ t.cut = FALSE
        /\ t.running \in BOOLEAN /\ t.h = s.h /\ t.active = A /\ t.previous = index
        /\ t.to = T
    BY <2>4 DEF AcInvOf, AcFields
  <2>6. DOMAIN T = DOMAIN s.h /\ \A i \in DOMAIN T : T[i] = AcHigh(t, i)
    BY <2>3, <2>5 DEF AcHigh
  <2> QED
    BY <2>2, <2>5, <2>6 DEF AcInvOf
<1> QED
  BY <1>1, <1>2

\* A section that is added is closed and nobody is told of it.
LEMMA AcAddStep == ASSUME AcInv, AcAddSection PROVE AcInv'
<1>1. AcInvOf(ac) /\ ac.h \in Seq(0 .. 2)
  BY DEF AcInv, AcInvOf
<1>2. 0 \in 0 .. 2
  OBVIOUS
<1>3. PICK g \in Seq(0 .. 2) : g = Append(ac.h, 0)
  BY <1>1, <1>2, AppendProperties
<1>4. ac' = [ac EXCEPT !.h = g]
  BY <1>3 DEF AcAddSection
<1>5. /\ DOMAIN ac' = AcFields /\ ac'.always = ac.always /\ ac'.running = ac.running
      /\ ac'.cut = ac.cut /\ ac'.h = g /\ ac'.active = ac.active
      /\ ac'.previous = ac.previous /\ ac'.to = ac.to
  BY <1>1, <1>4 DEF AcInvOf, AcFields
<1>6. PICK n \in Nat : n = Len(ac.h) + 1
  BY <1>1
<1>7. /\ DOMAIN g = 1 .. n /\ DOMAIN ac.h = 1 .. n - 1 /\ g[n] = 0
      /\ \A i \in 1 .. n - 1 : g[i] = ac.h[i]
  BY <1>1, <1>3, <1>6
<1>8. n \notin ac.active
  <2>1. ac.active \subseteq 1 .. n - 1
    BY <1>1, <1>7 DEF AcInvOf
  <2> QED
    BY <2>1
<1>9. \A i \in DOMAIN g : i = n \/ i \in DOMAIN ac.h
  BY <1>7
<1>10. \A i : AcHigh(ac', i) = AcHigh(ac, i)
  BY <1>5 DEF AcHigh
<1>11. g[n] = AcHigh(ac, n)
  BY <1>7, <1>8 DEF AcHigh
<1>12. \A i \in DOMAIN g : g[i] = AcHigh(ac, i) \/ (i \in DOMAIN ac.h /\ g[i] = ac.h[i])
  BY <1>7, <1>9, <1>11
<1>13. ac'.running => /\ \A i \in DOMAIN ac'.to : ac'.to[i] = AcHigh(ac', i)
                      /\ \A i \in DOMAIN ac'.h \ DOMAIN ac'.to : ac'.h[i] = AcHigh(ac', i)
  BY <1>1, <1>5, <1>10, <1>12 DEF AcInvOf
<1>14. ~ac'.running /\ ~ac'.cut => \A i \in DOMAIN ac'.h : ac'.h[i] = AcHigh(ac', i)
  BY <1>1, <1>5, <1>10, <1>12 DEF AcInvOf
<1>15. DOMAIN ac.h \subseteq DOMAIN g
  BY <1>7
<1> QED
  BY <1>1, <1>5, <1>13, <1>14, <1>15 DEF AcInv, AcInvOf

\* A frame of the effect, or its last one.
LEMMA AcFrameStep == ASSUME AcInv, AcFrame PROVE AcInv'
<1>1. AcInvOf(ac) /\ ac.h \in Seq(0 .. 2) /\ ac.running
  BY DEF AcInv, AcInvOf, AcFrame
<1>2. PICK last \in BOOLEAN :
        ac' = [ac EXCEPT !.h = [i \in DOMAIN @ |-> AcReached(ac, i, last)],
                         !.running = ~last]
  BY DEF AcFrame
<1>3. PICK g : g = [i \in DOMAIN ac.h |-> AcReached(ac, i, last)]
  OBVIOUS
<1>4. ac' = [ac EXCEPT !.h = g, !.running = ~last]
  BY <1>2, <1>3
<1>5. /\ DOMAIN ac' = AcFields /\ ac'.always = ac.always /\ ac'.running = ~last
      /\ ac'.cut = ac.cut /\ ac'.h = g /\ ac'.active = ac.active
      /\ ac'.previous = ac.previous /\ ac'.to = ac.to
  BY <1>1, <1>4 DEF AcInvOf, AcFields
<1>6. DOMAIN g = DOMAIN ac.h /\ \A i \in DOMAIN g : g[i] = AcReached(ac, i, last)
  BY <1>3
<1>7. \A i : AcHigh(ac', i) = AcHigh(ac, i) /\ AcHigh(ac, i) \in 0 .. 2
  BY <1>5 DEF AcHigh
<1>8. \A i \in DOMAIN g : i \notin DOMAIN ac.to => g[i] = AcHigh(ac, i)
  BY <1>1, <1>6 DEF AcInvOf, AcReached
<1>9. \A i \in DOMAIN g : i \in DOMAIN ac.to => g[i] \in {1, AcHigh(ac, i)}
  BY <1>1, <1>6 DEF AcInvOf, AcReached
<1>10. last => \A i \in DOMAIN g : i \in DOMAIN ac.to => g[i] = AcHigh(ac, i)
  BY <1>1, <1>6 DEF AcInvOf, AcReached
<1>11. g \in Seq(0 .. 2)
  <2>1. DOMAIN ac.h = 1 .. Len(ac.h) /\ Len(ac.h) \in Nat
    BY <1>1
  <2>2. \A i \in DOMAIN g : g[i] \in 0 .. 2
    BY <1>7, <1>8, <1>9
  <2>3. g \in [1 .. Len(ac.h) -> 0 .. 2]
    BY <1>3, <1>6, <2>1, <2>2
  <2> QED
    BY <2>1, <2>3
<1>12. ac'.running => /\ \A i \in DOMAIN ac'.to : ac'.to[i] = AcHigh(ac', i)
                      /\ \A i \in DOMAIN ac'.h \ DOMAIN ac'.to : ac'.h[i] = AcHigh(ac', i)
  BY <1>1, <1>5, <1>7, <1>8 DEF AcInvOf
<1>13. ~ac'.running => \A i \in DOMAIN ac'.h : ac'.h[i] = AcHigh(ac', i)
  BY <1>5, <1>7, <1>8, <1>10
<1> QED
  BY <1>1, <1>5, <1>6, <1>11, <1>12, <1>13 DEF AcInv, AcInvOf

\* An effect that is stopped leaves the sections where they are.
LEMMA AcStopStep == ASSUME AcInv, AcStop PROVE AcInv'
<1>1. /\ DOMAIN ac' = AcFields /\ ac'.always = ac.always /\ ac'.running = FALSE
      /\ ac'.cut = TRUE /\ ac'.h = ac.h /\ ac'.active = ac.active
      /\ ac'.previous = ac.previous
  BY DEF AcInv, AcInvOf, AcStop, AcFields
<1> QED
  BY <1>1 DEF AcInv, AcInvOf

\* Every step keeps it.
LEMMA AcNextInv == ASSUME AcInv, AcNext PROVE AcInv'
<1>1. CASE AcClick
  BY <1>1, AcDisplayStep DEF AcInv, AcClick
<1> QED
  BY <1>1, AcAddStep, AcFrameStep, AcStopStep DEF AcNext

\* At first the first section is open, or none.
LEMMA AcInitInv == ASSUME AcInit PROVE AcInv
<1>1. PICK always \in BOOLEAN, show \in {0, 1} :
        ac = [always |-> always,
              h |-> [i \in 1 .. AcSections |-> IF i = show THEN 2 ELSE 0],
              to |-> <<>>, running |-> FALSE, previous |-> show,
              active |-> {i \in 1 .. AcSections : i = show}, cut |-> FALSE]
  BY DEF AcInit
<1>2. PICK g : g = [i \in 1 .. AcSections |-> IF i = show THEN 2 ELSE 0]
  OBVIOUS
<1>3. PICK A : A = {i \in 1 .. AcSections : i = show}
  OBVIOUS
<1>4. /\ DOMAIN ac = AcFields /\ ac.always = always /\ ac.h = g /\ ac.active = A
      /\ ac.running = FALSE /\ ac.cut = FALSE /\ ac.previous = show
  BY <1>1, <1>2, <1>3 DEF AcFields
<1>5. g \in Seq(0 .. 2) /\ DOMAIN g = 1 .. AcSections
  <2>1. g \in [1 .. AcSections -> 0 .. 2] /\ AcSections \in Nat
    BY <1>2, AcAssumption
  <2> QED
    BY <2>1
<1>6. A \subseteq {show} /\ (show # 0 => A = {show}) /\ A \subseteq DOMAIN g
  BY <1>3, <1>5, AcAssumption
<1>7. \A i \in DOMAIN g : g[i] = AcHigh(ac, i)
  BY <1>2, <1>3, <1>4, <1>5 DEF AcHigh
<1> QED
  BY <1>4, <1>5, <1>6, <1>7 DEF AcInv, AcInvOf

\* What is promised of it.
LEMMA AcInvOpen == ASSUME AcInv PROVE AcOneOpen
BY DEF AcInv, AcInvOf, AcOneOpen, AcHigh

-----------------------------------------------------------------------------
(* The box of tips.                                                        *)

TiFields == {"timeout", "there", "over", "text", "visible", "timer", "left", "expired"}

TiInvOf(s) ==
  /\ DOMAIN s = TiFields
  /\ s.timeout \in BOOLEAN /\ s.visible \in BOOLEAN /\ s.left \in BOOLEAN
  /\ s.expired \in BOOLEAN
  /\ s.there \subseteq TiElements
  /\ s.timer \in {"none", "show", "hide", "timeout"}
  /\ s.timer = "show" \/ (s.visible /\ s.timer # "hide") => s.text \in TiAround(s.over)
  /\ s.timer = "hide" => s.left
  /\ s.timer = "timeout" => s.visible
  /\ s.timer = "none" /\ s.over # 0 /\ ~s.visible => s.left \/ s.expired

TiInv == TiInvOf(ti)

\* Elements that lie around one have an outermost.
LEMMA TiOutermostIn ==
  ASSUME NEW E \in SUBSET TiElements, E # {}
  PROVE  TiOutermost(E) \in E
<1>1. E \subseteq Nat
  BY TiAssumption
<1>2. PICK R : R = {s \in Nat \X Nat : s[1] < s[2]}
  OBVIOUS
<1>3. IsWellFoundedOn(R, Nat)
  BY <1>2, NatLessThanWellFounded DEF OpToRel
<1>4. PICK e \in E : \A f \in E : ~(<<f, e>> \in R)
  BY <1>1, <1>3, WFMin
<1>5. \A f \in E : e <= f
  <2> SUFFICES ASSUME NEW f \in E, ~(e <= f) PROVE FALSE
    OBVIOUS
  <2>1. <<f, e>> \in Nat \X Nat /\ f < e
    BY <1>1
  <2> QED
    BY <1>2, <1>4, <2>1
<1> QED
  BY <1>5 DEF TiOutermost

\* The mouse goes to another element: the tips it left end, and the outermost one it
\* came to starts.
LEMMA TiMoveStep == ASSUME TiInv, TiMove PROVE TiInv'
<1>1. PICK e \in {0} \cup ti.there :
        LET entered == TiAround(e) \ TiAround(ti.over)
            gone    == TiAround(ti.over) \ TiAround(e)
            ended   == IF gone = {} THEN ti ELSE TiEnd(ti)
        IN /\ e # ti.over
           /\ ti' = [(IF entered = {} THEN ended
                      ELSE TiStart(ended, TiOutermost(entered))) EXCEPT !.over = e]
  BY DEF TiMove
<1>2. PICK E : E = TiAround(e) \ TiAround(ti.over)
  OBVIOUS
<1>3. PICK G : G = TiAround(ti.over) \ TiAround(e)
  OBVIOUS
<1>4. PICK u : u = IF G = {} THEN ti ELSE TiEnd(ti)
  OBVIOUS
<1>5. TiInvOf(ti)
  BY DEF TiInv
<1>6. /\ DOMAIN u = TiFields /\ u.timeout = ti.timeout /\ u.there = ti.there
      /\ u.over = ti.over /\ u.text = ti.text /\ u.visible = ti.visible
      /\ u.expired = ti.expired
      /\ IF G = {} THEN u = ti ELSE u.timer = "hide" /\ u.left = TRUE
  <2>1. CASE G = {}
    BY <1>4, <1>5, <2>1 DEF TiInvOf
  <2>2. CASE G # {}
    <3>1. u = [ti EXCEPT !.timer = "hide", !.left = TRUE]
      BY <1>4, <2>2 DEF TiEnd
    <3> QED
      BY <1>5, <2>2, <3>1 DEF TiInvOf, TiFields
  <2> QED
    BY <2>1, <2>2
<1>7. CASE E # {}
  <2>1. PICK f \in E : f = TiOutermost(E)
    <3>1. E \subseteq TiElements
      BY <1>2 DEF TiAround
    <3> QED
      BY <1>7, <3>1, TiOutermostIn
  <2>2. PICK v : v = TiStart(u, f)
    OBVIOUS
  <2>3. ti' = [v EXCEPT !.over = e]
    BY <1>1, <1>2, <1>3, <1>4, <1>7, <2>1, <2>2
  <2>4. v = [u EXCEPT !.text = f, !.timer = "show", !.left = FALSE, !.expired = FALSE]
    BY <2>2 DEF TiStart
  <2>5. /\ DOMAIN v = TiFields /\ v.timeout = u.timeout /\ v.there = u.there
        /\ v.visible = u.visible /\ v.text = f /\ v.timer = "show"
        /\ v.left = FALSE /\ v.expired = FALSE
    BY <1>6, <2>4 DEF TiFields
  <2>6. /\ DOMAIN ti' = TiFields /\ ti'.timeout = u.timeout /\ ti'.there = u.there
        /\ ti'.visible = u.visible /\ ti'.text = f /\ ti'.timer = "show"
        /\ ti'.left = FALSE /\ ti'.expired = FALSE /\ ti'.over = e
    BY <2>3, <2>5 DEF TiFields
  <2>7. f \in TiAround(e)
    BY <1>2, <2>1
  <2> QED
    BY <1>5, <1>6, <2>6, <2>7 DEF TiInv, TiInvOf
<1>8. CASE E = {}
  <2>1. ti' = [u EXCEPT !.over = e]
    BY <1>1, <1>2, <1>3, <1>4, <1>8
  <2>2. /\ DOMAIN ti' = TiFields /\ ti'.timeout = u.timeout /\ ti'.there = u.there
        /\ ti'.visible = u.visible /\ ti'.text = u.text /\ ti'.timer = u.timer
        /\ ti'.left = u.left /\ ti'.expired = u.expired /\ ti'.over = e
    BY <1>6, <2>1 DEF TiFields
  <2>3. CASE G # {}
    BY <1>5, <1>6, <2>2, <2>3 DEF TiInv, TiInvOf
  <2>4. CASE G = {}
    <3>1. TiAround(e) = TiAround(ti.over)
      BY <1>2, <1>3, <1>8, <2>4 DEF TiAround
    <3>2. e # 0 => ti.over # 0
      <4> SUFFICES ASSUME e # 0, ti.over = 0 PROVE FALSE
        OBVIOUS
      <4>1. e \in TiElements
        BY <1>5 DEF TiInvOf
      <4>2. e \in TiAround(0)
        BY <3>1, <4>1 DEF TiAround
      <4> QED
        BY <4>2, TiAssumption DEF TiAround
    <3> QED
      BY <1>5, <1>6, <2>2, <2>4, <3>1, <3>2 DEF TiInv, TiInvOf
  <2> QED
    BY <2>3, <2>4
<1> QED
  BY <1>7, <1>8

\* The page takes an element out.
LEMMA TiTrashStep == ASSUME TiInv, TiTrash PROVE TiInv'
<1>1. PICK e \in ti.there :
        ti' = [[TiEnd(ti) EXCEPT !.there = @ \ {e}] EXCEPT !.over = IF @ = e THEN 0 ELSE @]
  BY DEF TiTrash
<1>2. PICK T : T = ti.there \ {e}
  OBVIOUS
<1>3. PICK n : n = IF ti.over = e THEN 0 ELSE ti.over
  OBVIOUS
<1>4. DOMAIN ti = TiFields /\ T \subseteq TiElements
  BY <1>2 DEF TiInv, TiInvOf
<1>5. ti' = [ti EXCEPT !.timer = "hide", !.left = TRUE, !.there = T, !.over = n]
  BY <1>1, <1>2, <1>3, <1>4 DEF TiEnd, TiFields
<1>6. /\ DOMAIN ti' = TiFields /\ ti'.timeout = ti.timeout /\ ti'.there = T
      /\ ti'.visible = ti.visible /\ ti'.text = ti.text /\ ti'.timer = "hide"
      /\ ti'.left = TRUE /\ ti'.expired = ti.expired
  BY <1>4, <1>5 DEF TiFields
<1> QED
  BY <1>4, <1>6 DEF TiInv, TiInvOf

\* The timer shows the box or hides it.
LEMMA TiTimerStep == ASSUME TiInv, TiShow \/ TiHide PROVE TiInv'
<1>1. TiInvOf(ti) /\ DOMAIN ti = TiFields
  BY DEF TiInv, TiInvOf
<1>2. CASE TiShow
  <2>1. PICK n \in {"timeout", "none"} : n = IF ti.timeout THEN "timeout" ELSE "none"
    OBVIOUS
  <2>2. ti' = [ti EXCEPT !.visible = TRUE, !.timer = n] /\ ti.timer = "show"
    BY <1>2, <2>1 DEF TiShow
  <2>3. /\ DOMAIN ti' = TiFields /\ ti'.timeout = ti.timeout /\ ti'.there = ti.there
        /\ ti'.visible = TRUE /\ ti'.text = ti.text /\ ti'.timer = n
        /\ ti'.left = ti.left /\ ti'.expired = ti.expired /\ ti'.over = ti.over
    BY <1>1, <2>2 DEF TiFields
  <2> QED
    BY <1>1, <2>1, <2>2, <2>3 DEF TiInv, TiInvOf
<1>3. CASE TiHide
  <2>1. PICK b \in BOOLEAN : b = (ti.timer = "timeout")
    OBVIOUS
  <2>2. ti' = [ti EXCEPT !.visible = FALSE, !.timer = "none", !.expired = b]
        /\ ti.timer \in {"hide", "timeout"}
    BY <1>3, <2>1 DEF TiHide
  <2>3. /\ DOMAIN ti' = TiFields /\ ti'.timeout = ti.timeout /\ ti'.there = ti.there
        /\ ti'.visible = FALSE /\ ti'.text = ti.text /\ ti'.timer = "none"
        /\ ti'.left = ti.left /\ ti'.expired = b /\ ti'.over = ti.over
    BY <1>1, <2>2 DEF TiFields
  <2> QED
    BY <1>1, <2>1, <2>2, <2>3 DEF TiInv, TiInvOf
<1> QED
  BY <1>2, <1>3

\* Every step keeps it.
LEMMA TiNextInv == ASSUME TiInv, TiNext PROVE TiInv'
BY TiMoveStep, TiTrashStep, TiTimerStep DEF TiNext

\* At first the mouse is over nothing.
LEMMA TiInitInv == ASSUME TiInit PROVE TiInv
BY DEF TiInit, TiInv, TiInvOf, TiFields

\* What is promised of it.
LEMMA TiInvRight == ASSUME TiInv PROVE TiRight
BY DEF TiInv, TiInvOf, TiRight

-----------------------------------------------------------------------------
(* The group.                                                              *)

GrFields == {"handlers", "checker", "firing", "left", "since", "early"}

GrInvOf(s) ==
  /\ DOMAIN s = GrFields
  /\ s.handlers \in Nat /\ s.left \in Nat /\ s.left <= s.handlers /\ s.early \in BOOLEAN
  /\ s.checker \subseteq GrInstances /\ s.checker # GrInstances
  /\ s.firing \subseteq GrInstances /\ (s.left = 0 => s.firing = {})
  /\ s.since \subseteq s.checker \cup s.firing
  /\ s.handlers <= 1 => ~s.early /\ s.since = s.checker \cup s.firing

GrInv == GrInvOf(gr)

\* A handler is added.
LEMMA GrAddStep == ASSUME GrInv, GrAddEvent PROVE GrInv'
<1>1. GrInvOf(gr) /\ gr.handlers \in Nat /\ gr.left = 0 /\ DOMAIN gr = GrFields
  BY DEF GrInv, GrInvOf, GrAddEvent
<1>2. PICK n \in Nat : n = gr.handlers + 1
  BY <1>1
<1>3. gr' = [gr EXCEPT !.handlers = n]
  BY <1>2 DEF GrAddEvent
<1>4. /\ DOMAIN gr' = GrFields /\ gr'.handlers = n /\ gr'.left = gr.left
      /\ gr'.early = gr.early /\ gr'.checker = gr.checker
      /\ gr'.firing = gr.firing /\ gr'.since = gr.since
  BY <1>1, <1>3 DEF GrFields
<1>5. n <= 1 => gr.handlers <= 1
  BY <1>1, <1>2
<1> QED
  BY <1>1, <1>4, <1>5 DEF GrInv, GrInvOf

\* An instance fires.
LEMMA GrFiresStep == ASSUME GrInv, GrFires PROVE GrInv'
<1>1. /\ GrInvOf(gr) /\ gr.handlers \in Nat /\ gr.left = 0 /\ DOMAIN gr = GrFields
      /\ gr.handlers > 0 /\ gr.firing = {}
  BY DEF GrInv, GrInvOf, GrFires
<1>2. PICK i \in GrInstances :
        gr' = [gr EXCEPT !.since = @ \cup {i}, !.firing = {i}, !.left = gr.handlers]
  BY DEF GrFires
<1>3. /\ DOMAIN gr' = GrFields /\ gr'.handlers = gr.handlers /\ gr'.left = gr.handlers
      /\ gr'.early = gr.early /\ gr'.checker = gr.checker
      /\ gr'.firing = {i} /\ gr'.since = gr.since \cup {i}
  BY <1>1, <1>2 DEF GrFields
<1> QED
  BY <1>1, <1>3 DEF GrInv, GrInvOf

\* One of its listeners checks.
LEMMA GrListenerStep == ASSUME GrInv, GrListener PROVE GrInv'
<1>1. /\ GrInvOf(gr) /\ gr.handlers \in Nat /\ gr.left \in Nat /\ gr.left > 0
      /\ DOMAIN gr = GrFields /\ gr.left <= gr.handlers
  BY DEF GrInv, GrInvOf, GrListener
<1>2. PICK n \in Nat : n = gr.left - 1
  BY <1>1
<1>3. PICK F : F = IF gr.left = 1 THEN {} ELSE gr.firing
  OBVIOUS
<1>4. PICK C : C = gr.checker \cup gr.firing
  OBVIOUS
<1>5. PICK u : u = GrCheck(gr)
  OBVIOUS
<1>6. PICK v : v = [gr EXCEPT !.checker = C]
  OBVIOUS
<1>7. /\ DOMAIN v = GrFields /\ v.handlers = gr.handlers /\ v.left = gr.left
      /\ v.early = gr.early /\ v.checker = C /\ v.firing = gr.firing
      /\ v.since = gr.since
  BY <1>1, <1>6 DEF GrFields
<1>8. PICK b \in BOOLEAN : b = (gr.early \/ gr.since # GrInstances)
  OBVIOUS
<1>9. u = IF C # GrInstances THEN v
          ELSE [v EXCEPT !.checker = {}, !.since = {}, !.early = b]
  BY <1>4, <1>5, <1>6, <1>7, <1>8 DEF GrCheck
<1>10. gr' = [u EXCEPT !.left = n, !.firing = F]
  <2>1. u.left = gr.left /\ u.firing = gr.firing /\ DOMAIN u = GrFields
    <3>1. CASE C # GrInstances
      BY <1>7, <1>9, <3>1
    <3>2. CASE C = GrInstances
      BY <1>7, <1>9, <3>2 DEF GrFields
    <3> QED
      BY <3>1, <3>2
  <2> QED
    BY <1>2, <1>3, <1>5, <2>1 DEF GrListener, GrFields
<1>11. F \subseteq GrInstances /\ (n = 0 => F = {}) /\ n <= gr.handlers
       /\ F \subseteq gr.firing /\ (gr.handlers <= 1 => F = {})
  BY <1>1, <1>2, <1>3 DEF GrInvOf
<1>12. CASE C # GrInstances
  <2>1. /\ DOMAIN gr' = GrFields /\ gr'.handlers = gr.handlers /\ gr'.left = n
        /\ gr'.early = gr.early /\ gr'.checker = C
        /\ gr'.firing = F /\ gr'.since = gr.since
    BY <1>7, <1>9, <1>10, <1>12 DEF GrFields
  <2> QED
    BY <1>1, <1>4, <1>11, <1>12, <2>1 DEF GrInv, GrInvOf
<1>13. CASE C = GrInstances
  <2>1. u = [v EXCEPT !.checker = {}, !.since = {}, !.early = b]
    BY <1>9, <1>13
  <2>2. /\ DOMAIN u = GrFields /\ u.handlers = gr.handlers
        /\ u.early = b /\ u.checker = {} /\ u.since = {}
    BY <1>7, <2>1 DEF GrFields
  <2>3. /\ DOMAIN gr' = GrFields /\ gr'.handlers = gr.handlers /\ gr'.left = n
        /\ gr'.early = b /\ gr'.checker = {}
        /\ gr'.firing = F /\ gr'.since = {}
    BY <1>10, <2>2 DEF GrFields
  <2>4. gr.handlers <= 1 => b = FALSE
    BY <1>1, <1>4, <1>8, <1>13 DEF GrInvOf
  <2> QED
    BY <1>1, <1>11, <2>3, <2>4, GrAssumption DEF GrInv, GrInvOf
<1> QED
  BY <1>12, <1>13

\* Every step keeps it.
LEMMA GrNextInv == ASSUME GrInv, GrNext PROVE GrInv'
BY GrAddStep, GrFiresStep, GrListenerStep DEF GrNext

\* At first nothing fired.
LEMMA GrInitInv == ASSUME GrInit PROVE GrInv
BY GrAssumption DEF GrInit, GrInv, GrInvOf, GrFields

\* What is promised of it.
LEMMA GrInvRound == ASSUME GrInv PROVE GrRound
BY DEF GrInv, GrInvOf, GrRound

-----------------------------------------------------------------------------
(* The effects: the invariant.                                             *)

FxFields == {"kind", "fx", "pend", "log", "el", "now", "from", "to", "css", "wheel",
             "open", "starts", "links", "target", "touched"}
FxEvents == {"onStart", "onComplete", "onCancel", "link"} \X {"e"} \X Nat
FxCalls  == {"onComplete", "unwheel", "setOpen", "link"} \X {"e"} \X Nat

FxIs(s) ==
  /\ DOMAIN s = FxFields /\ s.kind \in FxKinds
  /\ DOMAIN s.fx = {"e"} /\ DOMAIN s.fx["e"] = {"wait", "run", "ripe", "chain"}
  /\ s.fx["e"].wait \in BOOLEAN /\ s.fx["e"].run \in Nat
  /\ s.fx["e"].ripe \in BOOLEAN /\ s.fx["e"].chain \in Seq(Nat)
  /\ s.log \in Seq(FxEvents) /\ s.pend \in Seq(FxCalls)
  /\ s.starts \in Nat /\ s.links \in Nat
  /\ s.wheel \in BOOLEAN /\ s.open \in BOOLEAN /\ s.touched \in BOOLEAN

\* The timer runs for the last start.
FxRunInv(s) ==
  /\ s.fx["e"].ripe => s.fx["e"].run # 0
  /\ s.fx["e"].run \in {0, s.starts}

\* Every start is answered once; nothing is answered that was not started.
FxAnswerOf(s, k) ==
  Cardinality(FxMarks(s.log, "onComplete", k)) + Cardinality(FxMarks(s.pend, "onComplete", k))
    + Cardinality(FxMarks(s.log, "onCancel", k)) + (IF s.fx["e"].run = k THEN 1 ELSE 0)

FxAnswerInv(s) ==
  /\ \A k \in 1 .. s.starts : FxAnswerOf(s, k) = 1
  /\ \A i \in DOMAIN s.log :
       s.log[i][1] \in {"onComplete", "onCancel"} => s.log[i][3] \in 1 .. s.starts
  /\ \A i \in DOMAIN s.pend : s.pend[i][1] = "onComplete" => s.pend[i][3] \in 1 .. s.starts

\* What is delayed: onComplete, then the effect's own handler, then a link.
FxLead(s) == Cardinality(FxPlaces(s.log, "link")) + 1 <= Cardinality(FxPlaces(s.log, "onComplete"))
FxPendInv(s) ==
  /\ \A i \in DOMAIN s.pend : i > 1 =>
       /\ s.pend[i][1] = "link" => s.pend[i - 1][1] # "link"
       /\ s.pend[i][1] \in {"unwheel", "setOpen"} => s.pend[i - 1][1] = "onComplete"
  /\ Cardinality(FxPlaces(s.log, "link")) <= Cardinality(FxPlaces(s.log, "onComplete"))
  /\ s.pend # <<>> /\ s.pend[1][1] # "onComplete" => FxLead(s)

FxAscends(q) == \A i, j \in FxPlaces(q, "link") : i < j => q[i][3] < q[j][3]
FxTaken(s) == s.links - Len(s.fx["e"].chain)
FxChainInv(s) ==
  LET c == s.fx["e"].chain IN
  /\ FxTaken(s) \in Nat
  /\ \A i \in DOMAIN c : c[i] = FxTaken(s) + i
  /\ FxAscends(s.log) /\ FxAscends(s.pend)
  /\ \A i \in FxPlaces(s.log, "link"), j \in FxPlaces(s.pend, "link") : s.log[i][3] < s.pend[j][3]
  /\ {s.log[i][3] : i \in FxPlaces(s.log, "link")}
       \cup {s.pend[j][3] : j \in FxPlaces(s.pend, "link")} = 1 .. FxTaken(s)

FxSlots(s) == FxClass[s.kind].slots
FxDrawInv(s) ==
  /\ DOMAIN s.el = FxSlots(s) /\ DOMAIN s.to \subseteq FxSlots(s) /\ s.target = s.to
  /\ s.kind = "slide" /\ s.starts > 0 => "margin" \in DOMAIN s.to
  /\ s.kind # "scroll" => s.wheel = FALSE
FxDone(s) == s.starts > 0 /\ s.fx["e"].run = 0 /\ FxMarks(s.log, "onCancel", s.starts) = {}
FxDoneInv(s) ==
  FxDone(s) =>
    /\ s.wheel => FxPlaces(s.pend, "unwheel") # {}
    /\ ~s.touched =>
         /\ s.now = s.target /\ \A p \in DOMAIN s.target : s.el[p] = s.target[p]
         /\ s.kind = "slide" => FxPlaces(s.pend, "setOpen") # {} \/ (s.open <=> s.el["margin"] = 0)

FxInvOf(s) == FxIs(s) /\ FxRunInv(s) /\ FxAnswerInv(s) /\ FxPendInv(s) /\ FxChainInv(s)
              /\ FxDrawInv(s) /\ FxDoneInv(s)
FxInv == FxInvOf(fx)

-----------------------------------------------------------------------------
(* Counting in the log and among what is delayed.                          *)

\* Places are finitely many.
LEMMA FxFinite ==
  ASSUME NEW X, NEW q \in Seq(X), NEW e, NEW k
  PROVE  /\ IsFiniteSet(FxMarks(q, e, k)) /\ IsFiniteSet(FxPlaces(q, e))
         /\ Cardinality(FxMarks(q, e, k)) \in Nat /\ Cardinality(FxPlaces(q, e)) \in Nat
<1>1. Len(q) \in Nat /\ DOMAIN q = 1 .. Len(q)
  BY LenProperties
<1>2. IsFiniteSet(1 .. Len(q))
  BY <1>1, FS_Interval
<1>3. FxMarks(q, e, k) \in SUBSET (1 .. Len(q)) /\ FxPlaces(q, e) \in SUBSET (1 .. Len(q))
  BY <1>1 DEF FxMarks, FxPlaces
<1> QED
  BY <1>2, <1>3, FS_Subset, FS_CardinalityType

\* One more at the end.
LEMMA FxAppended ==
  ASSUME NEW X, NEW q \in Seq(X), NEW x \in X, NEW t, t = Append(q, x)
  PROVE  /\ t \in Seq(X) /\ Len(q) \in Nat /\ Len(t) = Len(q) + 1
         /\ DOMAIN q = 1 .. Len(q) /\ DOMAIN t = 1 .. Len(q) + 1
         /\ \A i \in 1 .. Len(q) : t[i] = q[i]
         /\ t[Len(q) + 1] = x
BY AppendProperties, LenProperties

FxOneMore(q, x, t) ==
  /\ Len(q) \in Nat /\ DOMAIN q = 1 .. Len(q) /\ DOMAIN t = 1 .. Len(q) + 1
  /\ \A i \in 1 .. Len(q) : t[i] = q[i]
  /\ t[Len(q) + 1] = x

FxCounted(q, x, t) ==
  /\ Cardinality(FxMarks(t, x[1], x[3])) = Cardinality(FxMarks(q, x[1], x[3])) + 1
  /\ \A e, k : e # x[1] \/ k # x[3] => FxMarks(t, e, k) = FxMarks(q, e, k)
  /\ Cardinality(FxPlaces(t, x[1])) = Cardinality(FxPlaces(q, x[1])) + 1
  /\ \A e : e # x[1] => FxPlaces(t, e) = FxPlaces(q, e)

\* It is counted where it belongs.
LEMMA FxCountAppend ==
  ASSUME NEW X, NEW q \in Seq(X), NEW x \in X, NEW t, t = Append(q, x)
  PROVE  t \in Seq(X) /\ FxOneMore(q, x, t) /\ FxCounted(q, x, t)
<1> DEFINE n == Len(q) + 1
<1>1. /\ t \in Seq(X) /\ Len(q) \in Nat /\ DOMAIN q = 1 .. Len(q)
      /\ DOMAIN t = 1 .. Len(q) + 1 /\ \A i \in 1 .. Len(q) : t[i] = q[i]
      /\ t[Len(q) + 1] = x
  BY FxAppended
<1>2. \A e, k : n \notin FxMarks(q, e, k) /\ n \notin FxPlaces(q, e)
  BY <1>1 DEF FxMarks, FxPlaces
<1>3. \A e, k : IsFiniteSet(FxMarks(q, e, k)) /\ IsFiniteSet(FxPlaces(q, e))
  BY FxFinite
<1>4. FxMarks(t, x[1], x[3]) = FxMarks(q, x[1], x[3]) \cup {n}
  BY <1>1 DEF FxMarks
<1>5. \A e, k : e # x[1] \/ k # x[3] => FxMarks(t, e, k) = FxMarks(q, e, k)
  BY <1>1 DEF FxMarks
<1>6. FxPlaces(t, x[1]) = FxPlaces(q, x[1]) \cup {n}
  BY <1>1 DEF FxPlaces
<1>7. \A e : e # x[1] => FxPlaces(t, e) = FxPlaces(q, e)
  BY <1>1 DEF FxPlaces
<1> HIDE DEF n
<1>8. Cardinality(FxMarks(t, x[1], x[3])) = Cardinality(FxMarks(q, x[1], x[3])) + 1
  BY <1>2, <1>3, <1>4, FS_AddElement
<1>9. Cardinality(FxPlaces(t, x[1])) = Cardinality(FxPlaces(q, x[1])) + 1
  BY <1>2, <1>3, <1>6, FS_AddElement
<1> QED
  BY <1>1, <1>5, <1>7, <1>8, <1>9 DEF FxOneMore, FxCounted

\* One more event of the log.
LEMMA FxEvent ==
  ASSUME NEW q \in Seq(FxEvents), NEW x \in FxEvents, NEW t, t = Append(q, x)
  PROVE  t \in Seq(FxEvents) /\ FxOneMore(q, x, t) /\ FxCounted(q, x, t)
BY FxCountAppend

\* One more call that is delayed.
LEMMA FxDelays ==
  ASSUME NEW q \in Seq(FxCalls), NEW x \in FxCalls, NEW t, t = Append(q, x)
  PROVE  t \in Seq(FxCalls) /\ FxOneMore(q, x, t) /\ FxCounted(q, x, t)
BY FxCountAppend

\* The first is gone.
LEMMA FxTailed ==
  ASSUME NEW X, NEW q \in Seq(X), q # <<>>, NEW t, t = Tail(q)
  PROVE  /\ t \in Seq(X) /\ Len(q) \in Nat \ {0} /\ DOMAIN q = 1 .. Len(q)
         /\ DOMAIN t = 1 .. Len(q) - 1 /\ Head(q) = q[1] /\ q[1] \in X
         /\ \A i \in 1 .. Len(q) - 1 : t[i] = q[i + 1]
<1>1. Len(q) \in Nat /\ DOMAIN q = 1 .. Len(q) /\ Len(q) # 0
  BY LenProperties, EmptySeq
<1>2. t \in Seq(X) /\ Len(t) = Len(q) - 1 /\ \A i \in 1 .. Len(t) : t[i] = q[i + 1]
  BY HeadTailProperties
<1>3. DOMAIN t = 1 .. Len(t)
  BY <1>2, LenProperties
<1>4. Head(q) = q[1] /\ q[1] \in X
  BY <1>1, HeadTailProperties, ElementOfSeq
<1> QED
  BY <1>1, <1>2, <1>3, <1>4

FxUncounted(q, t) ==
  \A e, k : /\ q[1][1] = e /\ q[1][3] = k =>
                 Cardinality(FxMarks(t, e, k)) = Cardinality(FxMarks(q, e, k)) - 1
            /\ ~(q[1][1] = e /\ q[1][3] = k) =>
                 Cardinality(FxMarks(t, e, k)) = Cardinality(FxMarks(q, e, k))

\* It is counted no longer.
LEMMA FxCallGone ==
  ASSUME NEW q \in Seq(FxCalls), q # <<>>, NEW t, t = Tail(q)
  PROVE  FxUncounted(q, t)
<1> SUFFICES ASSUME NEW e, NEW k
             PROVE  /\ q[1][1] = e /\ q[1][3] = k =>
                          Cardinality(FxMarks(t, e, k)) = Cardinality(FxMarks(q, e, k)) - 1
                    /\ ~(q[1][1] = e /\ q[1][3] = k) =>
                          Cardinality(FxMarks(t, e, k)) = Cardinality(FxMarks(q, e, k))
  BY ZenonT(30) DEF FxUncounted
<1> DEFINE S == FxMarks(t, e, k)
           T == FxMarks(q, e, k) \ {1}
<1>1. /\ t \in Seq(FxCalls) /\ Len(q) \in Nat \ {0} /\ DOMAIN q = 1 .. Len(q)
      /\ DOMAIN t = 1 .. Len(q) - 1 /\ \A i \in 1 .. Len(q) - 1 : t[i] = q[i + 1]
  BY FxTailed
<1>2. IsFiniteSet(S) /\ IsFiniteSet(FxMarks(q, e, k))
  BY <1>1, FxFinite
<1>3. ExistsBijection(S, T)
  <2> DEFINE f == [i \in S |-> i + 1]
  <2>1. \A i \in S : i \in 1 .. Len(q) - 1 /\ i + 1 \in T
    BY <1>1 DEF FxMarks
  <2>2. f \in [S -> T]
    BY <2>1
  <2>3. \A i, j \in S : f[i] = f[j] => i = j
    BY <2>1
  <2>4. \A j \in T : \E i \in S : f[i] = j
    <3> SUFFICES ASSUME NEW j \in T PROVE \E i \in S : f[i] = j
      OBVIOUS
    <3>1. j \in 1 .. Len(q) /\ j # 1
      BY <1>1 DEF FxMarks
    <3>2. j - 1 \in 1 .. Len(q) - 1 /\ (j - 1) + 1 = j
      BY <1>1, <3>1
    <3>3. t[j - 1] = q[j]
      BY <1>1, <3>2
    <3>4. j - 1 \in S
      BY <1>1, <3>2, <3>3 DEF FxMarks
    <3> QED
      BY <3>2, <3>4
  <2> HIDE DEF f, S, T
  <2>5. f \in Bijection(S, T)
    BY <2>2, <2>3, <2>4 DEF Bijection, Injection, Surjection, IsInjective
  <2> QED
    BY <2>5 DEF ExistsBijection
<1>4. Cardinality(T) = Cardinality(S)
  BY <1>2, <1>3, FS_Bijection
<1>5. Cardinality(T) = IF 1 \in FxMarks(q, e, k) THEN Cardinality(FxMarks(q, e, k)) - 1
                       ELSE Cardinality(FxMarks(q, e, k))
  BY <1>2, FS_RemoveElement
<1>6. 1 \in FxMarks(q, e, k) <=> q[1][1] = e /\ q[1][3] = k
  BY <1>1 DEF FxMarks
<1> QED
  BY <1>4, <1>5, <1>6

-----------------------------------------------------------------------------
(* What changes together.                                                  *)

FxSameCore(s, t) ==
  /\ DOMAIN t = DOMAIN s /\ t.kind = s.kind /\ t.fx = s.fx /\ t.log = s.log
  /\ t.pend = s.pend /\ t.starts = s.starts /\ t.links = s.links

FxSameDraw(s, t) ==
  /\ t.kind = s.kind /\ t.el = s.el /\ t.now = s.now /\ t.from = s.from
  /\ t.to = s.to /\ t.target = s.target /\ t.wheel = s.wheel
  /\ t.open = s.open /\ t.touched = s.touched

\* Drawing leaves timer, log and calls as they are.
LEMMA FxDrawKeeps ==
  ASSUME NEW s, FxInvOf(s), NEW t, FxSameCore(s, t), FxDrawInv(t), FxDoneInv(t),
         t.wheel \in BOOLEAN, t.open \in BOOLEAN, t.touched \in BOOLEAN
  PROVE  FxInvOf(t)
<1>1. FxIs(t)
  BY DEF FxInvOf, FxIs, FxSameCore
<1>2. FxRunInv(t) /\ FxAnswerInv(t)
  BY DEF FxInvOf, FxRunInv, FxAnswerInv, FxAnswerOf, FxSameCore
<1>3. FxPendInv(t)
  BY DEF FxInvOf, FxPendInv, FxLead, FxSameCore
<1>4. FxChainInv(t)
  BY DEF FxInvOf, FxChainInv, FxTaken, FxSameCore
<1> QED
  BY <1>1, <1>2, <1>3, <1>4 DEF FxInvOf

-----------------------------------------------------------------------------
(* stop() and start().                                                     *)

FxSameLinks(q, t) ==
  /\ FxPlaces(t, "link") = FxPlaces(q, "link")
  /\ \A i \in FxPlaces(q, "link") : t[i] = q[i]
  /\ FxAscends(q) => FxAscends(t)

\* An event that is no link is logged.
LEMMA FxLogged ==
  ASSUME NEW q \in Seq(FxEvents), NEW x \in FxEvents, x[1] # "link", NEW t,
         t = Append(q, x)
  PROVE  FxSameLinks(q, t)
<1>1. FxOneMore(q, x, t) /\ FxCounted(q, x, t)
  BY FxEvent
<1>2. FxPlaces(t, "link") = FxPlaces(q, "link")
  BY <1>1 DEF FxCounted
<1>3. DOMAIN q = 1 .. Len(q) /\ \A i \in 1 .. Len(q) : t[i] = q[i]
  BY <1>1 DEF FxOneMore
<1>4. \A i \in FxPlaces(q, "link") : t[i] = q[i]
  BY <1>3 DEF FxPlaces
<1> QED
  BY <1>2, <1>4, ZenonT(30) DEF FxAscends, FxSameLinks

\* The chain is as before when neither it nor what waits changes.
LEMMA FxChainKept ==
  ASSUME NEW s, FxIs(s), FxChainInv(s), NEW x \in FxEvents, x[1] # "link",
         NEW t, t.log = Append(s.log, x), t.pend = s.pend, t.links = s.links,
         t.fx["e"].chain = s.fx["e"].chain
  PROVE  FxChainInv(t)
<1>1. s.log \in Seq(FxEvents)
  BY DEF FxIs
<1>2. /\ FxPlaces(t.log, "link") = FxPlaces(s.log, "link")
      /\ \A i \in FxPlaces(s.log, "link") : t.log[i] = s.log[i]
      /\ FxAscends(s.log) => FxAscends(t.log)
  <2>1. FxSameLinks(s.log, t.log)
    BY <1>1, FxLogged
  <2> QED
    BY <2>1 DEF FxSameLinks
<1>3. FxTaken(t) = FxTaken(s)
  BY DEF FxTaken
<1>4. {t.log[i][3] : i \in FxPlaces(t.log, "link")} = {s.log[i][3] : i \in FxPlaces(s.log, "link")}
  BY <1>2
<1>5. FxPlaces(t.pend, "link") = FxPlaces(s.pend, "link") /\ FxAscends(t.pend)
  <2>1. FxAscends(s.pend)
    BY DEF FxChainInv
  <2> QED
    BY <2>1
<1>6. \A i \in FxPlaces(t.log, "link"), j \in FxPlaces(t.pend, "link") :
        t.log[i][3] < t.pend[j][3]
  BY <1>2, <1>5 DEF FxChainInv
<1>7. {t.log[i][3] : i \in FxPlaces(t.log, "link")}
        \cup {t.pend[j][3] : j \in FxPlaces(t.pend, "link")} = 1 .. FxTaken(t)
  BY <1>3, <1>4, <1>5, ZenonT(30) DEF FxChainInv
<1>8. FxAscends(t.log)
  BY <1>2 DEF FxChainInv
<1>9. FxTaken(t) \in Nat /\ \A i \in DOMAIN t.fx["e"].chain : t.fx["e"].chain[i] = FxTaken(t) + i
  BY <1>3 DEF FxChainInv
<1> QED
  BY <1>5, <1>6, <1>7, <1>8, <1>9 DEF FxChainInv

FxStops(s, t) == t = MooStop(s, "e", FALSE)

\* stop() cancels what runs.
LEMMA FxStopStep ==
  ASSUME NEW s, FxInvOf(s), NEW t, FxStops(s, t)
  PROVE  /\ FxInvOf(t) /\ t.fx["e"].run = 0 /\ FxSameDraw(s, t)
         /\ t.starts = s.starts /\ t.links = s.links
<1>1. FxIs(s) /\ FxRunInv(s) /\ FxAnswerInv(s)
  BY DEF FxInvOf
<1>2. CASE s.fx["e"].run = 0
  <2>1. t = s
    BY <1>2 DEF MooStop, FxStops
  <2> QED
    BY <1>2, <2>1 DEF FxSameDraw
<1>3. CASE s.fx["e"].run # 0
  <2>1. PICK k : k = s.fx["e"].run
    OBVIOUS
  <2>2. k \in Nat /\ k # 0 /\ k = s.starts
    BY <1>1, <1>3, <2>1 DEF FxIs, FxRunInv
  <2>3. PICK x : x = <<"onCancel", "e", k>>
    OBVIOUS
  <2>4. x \in FxEvents /\ x[1] = "onCancel" /\ x[3] = k
    BY <2>2, <2>3 DEF FxEvents
  <2>5. /\ DOMAIN t = FxFields /\ DOMAIN t.fx = {"e"}
        /\ DOMAIN t.fx["e"] = {"wait", "run", "ripe", "chain"}
        /\ t.fx["e"].wait = s.fx["e"].wait /\ t.fx["e"].run = 0
        /\ t.fx["e"].ripe = FALSE /\ t.fx["e"].chain = s.fx["e"].chain
        /\ t.log = Append(s.log, x) /\ t.pend = s.pend /\ t.kind = s.kind
        /\ t.starts = s.starts /\ t.links = s.links /\ FxSameDraw(s, t)
    BY <1>1, <1>3, <2>1, <2>3 DEF FxIs, FxFields, FxSameDraw, FxStops, MooStop, MooFire
  <2>6. s.log \in Seq(FxEvents) /\ s.pend \in Seq(FxCalls)
    BY <1>1 DEF FxIs
  <2>7. /\ t.log \in Seq(FxEvents) /\ FxOneMore(s.log, x, t.log)
        /\ FxCounted(s.log, x, t.log)
    BY <2>4, <2>5, <2>6, FxEvent
  <2>8. FxIs(t)
    <3>1. t.wheel \in BOOLEAN /\ t.open \in BOOLEAN /\ t.touched \in BOOLEAN
      BY <1>1, <2>5 DEF FxIs, FxSameDraw
    <3>2. t.fx["e"].ripe \in BOOLEAN
      BY <2>5
    <3>3. t.fx["e"].run \in Nat /\ t.fx["e"].wait \in BOOLEAN
      BY <1>1, <2>5 DEF FxIs
    <3> QED
      BY <1>1, <2>5, <2>7, <3>1, <3>2, <3>3 DEF FxIs
  <2>9. FxRunInv(t)
    BY <2>5 DEF FxRunInv
  <2>10. FxAnswerInv(t)
    <3>1. ASSUME NEW j \in 1 .. s.starts PROVE FxAnswerOf(t, j) = 1
      <4>1. /\ FxMarks(t.log, "onComplete", j) = FxMarks(s.log, "onComplete", j)
            /\ j = k => Cardinality(FxMarks(t.log, "onCancel", j))
                          = Cardinality(FxMarks(s.log, "onCancel", j)) + 1
            /\ j # k => FxMarks(t.log, "onCancel", j) = FxMarks(s.log, "onCancel", j)
        BY <2>4, <2>7 DEF FxCounted
      <4>2. /\ Cardinality(FxMarks(s.log, "onComplete", j)) \in Nat
            /\ Cardinality(FxMarks(s.pend, "onComplete", j)) \in Nat
            /\ Cardinality(FxMarks(s.log, "onCancel", j)) \in Nat
        BY <2>6, FxFinite
      <4>3. FxAnswerOf(s, j) = 1
        BY <1>1 DEF FxAnswerInv
      <4>4. j \in Int /\ j # 0
        BY <1>1 DEF FxIs
      <4> QED
        BY <2>1, <2>5, <4>1, <4>2, <4>3, <4>4 DEF FxAnswerOf
    <3>2. \A i \in DOMAIN t.log : t.log[i][1] \in {"onComplete", "onCancel"}
                                    => t.log[i][3] \in 1 .. s.starts
      <4> SUFFICES ASSUME NEW i \in DOMAIN t.log,
                          t.log[i][1] \in {"onComplete", "onCancel"}
                   PROVE  t.log[i][3] \in 1 .. s.starts
        OBVIOUS
      <4>1. CASE i = Len(s.log) + 1
        BY <2>2, <2>4, <2>7, <4>1 DEF FxOneMore
      <4>2. CASE i \in 1 .. Len(s.log)
        BY <1>1, <2>7, <4>2 DEF FxAnswerInv, FxOneMore
      <4> QED
        BY <2>7, <4>1, <4>2 DEF FxOneMore
    <3> QED
      BY <1>1, <2>5, <3>1, <3>2 DEF FxAnswerInv
  <2>11. FxPendInv(t)
    <3>1. /\ FxPlaces(t.log, "link") = FxPlaces(s.log, "link")
          /\ FxPlaces(t.log, "onComplete") = FxPlaces(s.log, "onComplete")
      BY <2>4, <2>7 DEF FxCounted
    <3> QED
      BY <2>5, <3>1 DEF FxInvOf, FxPendInv, FxLead
  <2>12. FxChainInv(t)
    BY <1>1, <2>4, <2>5, FxChainKept DEF FxInvOf
  <2>13. FxDrawInv(t)
    BY <2>5 DEF FxInvOf, FxDrawInv, FxSameDraw, FxSlots
  <2>14. FxDoneInv(t)
    <3>1. Len(s.log) + 1 \in FxMarks(t.log, "onCancel", t.starts)
      BY <2>2, <2>4, <2>5, <2>7 DEF FxMarks, FxOneMore
    <3> QED
      BY <3>1 DEF FxDoneInv, FxDone
  <2> QED
    BY <2>5, <2>8, <2>9, <2>10, <2>11, <2>12, <2>13, <2>14 DEF FxInvOf
<1> QED
  BY <1>2, <1>3

\* A start that nothing hinders.
FxStarts(s, to, k, t) ==
  /\ t.fx["e"].wait = s.fx["e"].wait /\ t.fx["e"].run = k
  /\ t.fx["e"].ripe = s.fx["e"].ripe /\ t.fx["e"].chain = s.fx["e"].chain
  /\ t.log = Append(s.log, <<"onStart", "e", k>>) /\ t.pend = s.pend
  /\ t.kind = s.kind /\ t.el = s.el /\ t.to = to /\ t.target = to
  /\ DOMAIN t.from = DOMAIN to /\ (t.wheel <=> s.wheel \/ s.kind = "scroll")
  /\ t.starts = k /\ t.links = s.links

\* It is the one that runs, and not yet answered.
LEMMA FxStartStep ==
  ASSUME NEW s, FxInvOf(s), s.fx["e"].run = 0, NEW to, DOMAIN to \subseteq FxSlots(s),
         s.kind = "slide" => "margin" \in DOMAIN to,
         NEW t, DOMAIN t = FxFields, DOMAIN t.fx = {"e"},
         DOMAIN t.fx["e"] = {"wait", "run", "ripe", "chain"},
         t.wheel \in BOOLEAN, t.open \in BOOLEAN, t.touched \in BOOLEAN,
         FxStarts(s, to, s.starts + 1, t)
  PROVE  FxInvOf(t)
<1>1. FxIs(s) /\ FxRunInv(s) /\ FxAnswerInv(s)
  BY DEF FxInvOf
<1>2. PICK k : k = s.starts + 1
  OBVIOUS
<1>3. s.starts \in Nat /\ k \in Nat /\ k # 0
  BY <1>1, <1>2 DEF FxIs
<1>4. PICK x : x = <<"onStart", "e", k>>
  OBVIOUS
<1>5. x \in FxEvents /\ x[1] = "onStart" /\ x[3] = k
  BY <1>3, <1>4 DEF FxEvents
<1>6. s.log \in Seq(FxEvents) /\ s.pend \in Seq(FxCalls)
  BY <1>1 DEF FxIs
<1>7. /\ t.fx["e"].run = k /\ t.log = Append(s.log, x) /\ t.pend = s.pend
      /\ t.fx["e"].ripe = s.fx["e"].ripe /\ t.fx["e"].chain = s.fx["e"].chain
      /\ t.starts = k /\ t.links = s.links /\ t.kind = s.kind
  BY <1>2, <1>4 DEF FxStarts
<1>8. /\ t.log \in Seq(FxEvents) /\ FxOneMore(s.log, x, t.log)
      /\ FxCounted(s.log, x, t.log)
  BY <1>5, <1>6, <1>7, FxEvent
<1>9. FxIs(t)
  BY <1>1, <1>3, <1>7, <1>8 DEF FxIs, FxStarts
<1>10. FxRunInv(t)
  BY <1>1, <1>3, <1>7 DEF FxRunInv
<1>11. FxAnswerInv(t)
  <2>1. /\ \A i \in DOMAIN s.log : s.log[i][1] \in {"onComplete", "onCancel"}
                                    => s.log[i][3] \in 1 .. s.starts
        /\ \A i \in DOMAIN s.pend : s.pend[i][1] = "onComplete"
                                     => s.pend[i][3] \in 1 .. s.starts
    BY <1>1 DEF FxAnswerInv
  <2>2. 1 .. s.starts \subseteq 1 .. k /\ k \notin 1 .. s.starts
    BY <1>2, <1>3
  <2>3. \A j : /\ FxMarks(t.log, "onComplete", j) = FxMarks(s.log, "onComplete", j)
              /\ FxMarks(t.log, "onCancel", j) = FxMarks(s.log, "onCancel", j)
    BY <1>5, <1>8 DEF FxCounted
  <2>4. ASSUME NEW j \in 1 .. k PROVE FxAnswerOf(t, j) = 1
    <3>1. CASE j = k
      <4>1. /\ FxMarks(s.log, "onComplete", k) = {} /\ FxMarks(s.log, "onCancel", k) = {}
            /\ FxMarks(s.pend, "onComplete", k) = {}
        BY <2>1, <2>2 DEF FxMarks
      <4>2. Cardinality({}) = 0
        BY FS_EmptySet
      <4>3. /\ FxMarks(t.log, "onComplete", j) = {} /\ FxMarks(t.log, "onCancel", j) = {}
            /\ FxMarks(t.pend, "onComplete", j) = {}
        BY <1>7, <2>3, <3>1, <4>1
      <4>4. (IF t.fx["e"].run = j THEN 1 ELSE 0) = 1
        BY <1>7, <3>1
      <4> QED
        BY <4>2, <4>3, <4>4 DEF FxAnswerOf
    <3>2. CASE j # k
      <4>1. j \in 1 .. s.starts /\ j # 0
        BY <1>2, <1>3, <3>2
      <4>2. FxAnswerOf(s, j) = 1
        BY <1>1, <4>1 DEF FxAnswerInv
      <4> QED
        BY <1>7, <2>3, <3>2, <4>1, <4>2 DEF FxAnswerOf
    <3> QED
      BY <3>1, <3>2
  <2>5. \A i \in DOMAIN t.log : t.log[i][1] \in {"onComplete", "onCancel"}
                                  => t.log[i][3] \in 1 .. k
    <3> SUFFICES ASSUME NEW i \in DOMAIN t.log,
                        t.log[i][1] \in {"onComplete", "onCancel"}
                 PROVE  t.log[i][3] \in 1 .. k
      OBVIOUS
    <3>1. i # Len(s.log) + 1
      BY <1>5, <1>8 DEF FxOneMore
    <3>2. i \in 1 .. Len(s.log)
      BY <1>8, <3>1 DEF FxOneMore
    <3> QED
      BY <1>8, <2>1, <2>2, <3>2 DEF FxOneMore
  <2> QED
    BY <1>7, <2>1, <2>2, <2>4, <2>5 DEF FxAnswerInv
<1>12. FxPendInv(t)
  <2>1. /\ FxPlaces(t.log, "link") = FxPlaces(s.log, "link")
        /\ FxPlaces(t.log, "onComplete") = FxPlaces(s.log, "onComplete")
    BY <1>5, <1>8 DEF FxCounted
  <2> QED
    BY <1>7, <2>1 DEF FxInvOf, FxPendInv, FxLead
<1>13. FxChainInv(t)
  BY <1>1, <1>5, <1>7, FxChainKept DEF FxInvOf
<1>14. FxDrawInv(t)
  BY DEF FxInvOf, FxDrawInv, FxStarts, FxSlots
<1>15. FxDoneInv(t)
  BY <1>3, <1>7 DEF FxDoneInv, FxDone
<1> QED
  BY <1>9, <1>10, <1>11, <1>12, <1>13, <1>14, <1>15 DEF FxInvOf

\* start(), ignored or after what ran was cancelled.
LEMMA FxStartKeeps ==
  ASSUME NEW s, FxInvOf(s), NEW to, DOMAIN to \subseteq FxSlots(s),
         s.kind = "slide" => "margin" \in DOMAIN to, NEW t, t = FxStart(s, to)
  PROVE  FxInvOf(t)
<1>1. CASE MooIgnored(s, "e")
  BY <1>1 DEF FxStart
<1>2. CASE ~MooIgnored(s, "e")
  <2>1. PICK u : FxStops(s, u)
    BY DEF FxStops
  <2>2. /\ FxInvOf(u) /\ u.fx["e"].run = 0 /\ FxSameDraw(s, u)
        /\ u.starts = s.starts /\ u.links = s.links
    BY <2>1, FxStopStep
  <2>3. PICK k : k = s.starts + 1
    OBVIOUS
  <2>4. u = IF s.fx["e"].wait THEN s ELSE MooStop(s, "e", FALSE)
    BY <1>2, <2>1 DEF FxStops, MooStop, MooIgnored
  <2>5. PICK v : v = MooFire([u EXCEPT !.fx["e"].run = k], "onStart", "e", k)
    OBVIOUS
  <2>6. v = MooStart(s, "e", k)
    BY <1>2, <2>4, <2>5 DEF MooStart
  <2>7. /\ DOMAIN u = FxFields /\ DOMAIN u.fx = {"e"}
        /\ DOMAIN u.fx["e"] = {"wait", "run", "ripe", "chain"}
        /\ u.wheel \in BOOLEAN /\ u.open \in BOOLEAN /\ u.touched \in BOOLEAN
    BY <2>2 DEF FxInvOf, FxIs
  <2>8. /\ DOMAIN v = FxFields /\ DOMAIN v.fx = {"e"}
        /\ DOMAIN v.fx["e"] = {"wait", "run", "ripe", "chain"}
        /\ v.fx["e"].wait = u.fx["e"].wait /\ v.fx["e"].run = k
        /\ v.fx["e"].ripe = u.fx["e"].ripe /\ v.fx["e"].chain = u.fx["e"].chain
        /\ v.log = Append(u.log, <<"onStart", "e", k>>) /\ v.pend = u.pend
        /\ v.links = u.links /\ FxSameDraw(u, v)
    BY <2>5, <2>7 DEF FxFields, MooFire, FxSameDraw
  <2>9. t = [v EXCEPT !.from = [p \in DOMAIN to |-> s.el[p]], !.to = to,
                      !.css = IF FxClass[s.kind].css THEN DOMAIN to ELSE @,
                      !.now = IF FxClass[s.kind].css THEN FxNone ELSE @,
                      !.wheel = @ \/ s.kind = "scroll",
                      !.starts = k, !.touched = FALSE, !.target = to]
    BY <1>2, <2>3, <2>6 DEF FxStart
  <2>10. /\ DOMAIN t = FxFields /\ t.fx = v.fx /\ t.log = v.log /\ t.pend = v.pend
         /\ t.links = v.links /\ t.kind = v.kind /\ t.el = v.el /\ t.to = to
         /\ t.target = to /\ DOMAIN t.from = DOMAIN to /\ t.starts = k
         /\ t.open = v.open /\ t.touched = FALSE /\ t.wheel = (v.wheel \/ s.kind = "scroll")
    BY <2>8, <2>9 DEF FxFields
  <2>11. /\ t.wheel \in BOOLEAN /\ t.open \in BOOLEAN /\ t.touched \in BOOLEAN
         /\ (t.wheel <=> u.wheel \/ u.kind = "scroll")
    <3>1. v.wheel = u.wheel /\ v.open = u.open /\ u.kind = s.kind
      BY <2>2, <2>8 DEF FxSameDraw
    <3>2. t.touched \in BOOLEAN
      BY <2>10
    <3> QED
      BY <2>7, <2>10, <3>1, <3>2
  <2>12. FxStarts(u, to, u.starts + 1, t)
    BY <2>2, <2>3, <2>8, <2>10, <2>11 DEF FxStarts, FxSameDraw
  <2>13. DOMAIN to \subseteq FxSlots(u) /\ (u.kind = "slide" => "margin" \in DOMAIN to)
    BY <2>2 DEF FxSameDraw, FxSlots
  <2> QED
    BY <2>2, <2>8, <2>10, <2>11, <2>12, <2>13, FxStartStep
<1> QED
  BY <1>1, <1>2

-----------------------------------------------------------------------------
(* The last frame.                                                         *)

\* The handlers of onComplete, behind what waits.
FxHandled(kind, q, k, t) ==
  /\ t \in Seq(FxCalls) /\ Len(q) \in Nat /\ DOMAIN q = 1 .. Len(q)
  /\ \/ DOMAIN t = 1 .. Len(q) + 1
     \/ DOMAIN t = 1 .. Len(q) + 2 /\ t[Len(q) + 2][1] \in {"unwheel", "setOpen"}
  /\ \A i \in 1 .. Len(q) : t[i] = q[i]
  /\ t[Len(q) + 1] = <<"onComplete", "e", k>>
  /\ kind = "scroll" => FxPlaces(t, "unwheel") # {}
  /\ kind = "slide" => FxPlaces(t, "setOpen") # {}
  /\ Cardinality(FxMarks(t, "onComplete", k)) = Cardinality(FxMarks(q, "onComplete", k)) + 1
  /\ \A j : j # k => FxMarks(t, "onComplete", j) = FxMarks(q, "onComplete", j)
  /\ FxPlaces(t, "link") = FxPlaces(q, "link")

FxHandlers(kind, k) ==
  [i \in DOMAIN FxClass[kind].onComplete |-> <<FxClass[kind].onComplete[i], "e", k>>]

\* Two at once.
LEMMA FxTwo ==
  ASSUME NEW X, NEW q \in Seq(X), NEW a \in X, NEW b \in X
  PROVE  q \o <<a, b>> = Append(Append(q, a), b)
<1>1. <<a>> \in Seq(X) /\ <<b>> \in Seq(X)
  OBVIOUS
<1>2. Append(q, a) = q \o <<a>> /\ Append(q, a) \in Seq(X)
  BY AppendIsConcat, AppendProperties
<1>3. Append(Append(q, a), b) = (q \o <<a>>) \o <<b>>
  BY <1>2, AppendIsConcat
<1>4. (q \o <<a>>) \o <<b>> = q \o (<<a>> \o <<b>>)
  BY <1>1, ConcatAssociative
<1>5. <<a>> \o <<b>> = <<a, b>>
  <2>1. <<a>> \o <<b>> \in Seq(X) /\ <<a, b>> \in Seq(X) /\ Len(<<a, b>>) = 2
    BY <1>1, ConcatProperties
  <2>2. Len(<<a>> \o <<b>>) = 2
    BY <1>1, ConcatProperties
  <2>3. (<<a>> \o <<b>>)[1] = a /\ (<<a>> \o <<b>>)[2] = b
    BY <1>1, ConcatProperties
  <2>4. \A i \in 1 .. 2 : (<<a>> \o <<b>>)[i] = <<a, b>>[i]
    BY <2>3
  <2> QED
    BY <2>1, <2>2, <2>4, SeqEqual
<1> QED
  BY <1>3, <1>4, <1>5

\* One of the page, and one of Fx.Scroll and of Fx.Slide.
LEMMA FxHandlersWait ==
  ASSUME NEW kind \in FxKinds, NEW q \in Seq(FxCalls), NEW k \in Nat,
         NEW t, t = q \o FxHandlers(kind, k)
  PROVE  FxHandled(kind, q, k, t)
<1> DEFINE c == <<"onComplete", "e", k>>
           o == <<IF kind = "scroll" THEN "unwheel" ELSE "setOpen", "e", k>>
<1>1. c \in FxCalls /\ c[1] = "onComplete" /\ c[3] = k
  BY DEF FxCalls
<1>2. /\ o \in FxCalls /\ o[1] \in {"unwheel", "setOpen"}
      /\ kind = "scroll" => o[1] = "unwheel"
      /\ kind = "slide" => o[1] = "setOpen"
  BY DEF FxCalls
<1>3. PICK u : u = Append(q, c)
  OBVIOUS
<1>4. CASE kind \notin {"scroll", "slide"}
  <2>1. FxClass[kind].onComplete = <<"onComplete">>
    BY <1>4 DEF FxKinds, FxClass, FxStyleClass, FxStylesClass, FxElementsClass,
                FxScrollClass, FxSlideClass
  <2>2. FxHandlers(kind, k) = <<c>>
    BY <2>1 DEF FxHandlers
  <2>3. t = u
    BY <1>1, <1>3, <2>2, AppendIsConcat
  <2> HIDE DEF c
  <2>4. t \in Seq(FxCalls) /\ FxOneMore(q, c, t) /\ FxCounted(q, c, t)
    BY <1>1, <1>3, <2>3, FxDelays
  <2>5. t[Len(q) + 1] = <<"onComplete", "e", k>>
    BY <2>4 DEF FxOneMore, c
  <2> QED
    BY <1>1, <1>4, <2>4, <2>5 DEF FxHandled, FxOneMore, FxCounted
<1>5. CASE kind \in {"scroll", "slide"}
  <2>1. FxClass[kind].onComplete = <<"onComplete", o[1]>>
    BY <1>5 DEF FxKinds, FxClass, FxStyleClass, FxStylesClass, FxElementsClass,
                FxScrollClass, FxSlideClass
  <2>2. FxHandlers(kind, k) = <<c, o>>
    BY <2>1 DEF FxHandlers
  <2>3. t = q \o <<c, o>>
    BY <2>2
  <2> HIDE DEF c, o
  <2>4. t = Append(u, o)
    BY <1>1, <1>2, <1>3, <2>3, FxTwo
  <2>5. u \in Seq(FxCalls) /\ FxOneMore(q, c, u) /\ FxCounted(q, c, u)
    BY <1>1, <1>3, FxDelays
  <2>6. t \in Seq(FxCalls) /\ FxOneMore(u, o, t) /\ FxCounted(u, o, t)
    BY <1>2, <2>4, <2>5, FxDelays
  <2>7. /\ Len(q) \in Nat /\ DOMAIN q = 1 .. Len(q) /\ Len(u) = Len(q) + 1
        /\ DOMAIN t = 1 .. Len(q) + 2
        /\ \A i \in 1 .. Len(q) : t[i] = q[i]
        /\ t[Len(q) + 1] = c /\ t[Len(q) + 2] = o
    BY <2>5, <2>6 DEF FxOneMore
  <2>8. /\ kind = "scroll" => FxPlaces(t, "unwheel") # {}
        /\ kind = "slide" => FxPlaces(t, "setOpen") # {}
    <3>1. Len(q) + 2 \in DOMAIN t
      BY <2>7
    <3>2. Len(q) + 2 \in FxPlaces(t, o[1])
      BY <2>7, <3>1 DEF FxPlaces
    <3> QED
      BY <1>2, <3>2
  <2>9. /\ Cardinality(FxMarks(t, "onComplete", k)) = Cardinality(FxMarks(q, "onComplete", k)) + 1
        /\ \A j : j # k => FxMarks(t, "onComplete", j) = FxMarks(q, "onComplete", j)
        /\ FxPlaces(t, "link") = FxPlaces(q, "link")
    BY <1>1, <1>2, <2>5, <2>6, SMTT(30) DEF FxCounted
  <2>10. t[Len(q) + 1] = <<"onComplete", "e", k>>
    BY <2>7 DEF c
  <2> QED
    BY <1>2, <2>6, <2>7, <2>8, <2>9, <2>10 DEF FxHandled
<1> QED
  BY <1>4, <1>5

\* What the last frame leaves behind, before the chain goes on.
FxEnds(s, k, t) ==
  /\ t.fx["e"].wait = s.fx["e"].wait /\ t.fx["e"].run = 0 /\ t.fx["e"].ripe = FALSE
  /\ t.fx["e"].chain = s.fx["e"].chain /\ t.log = s.log
  /\ FxHandled(s.kind, s.pend, k, t.pend)
  /\ t.kind = s.kind /\ t.starts = s.starts /\ t.links = s.links /\ t.to = s.to
  /\ t.target = s.target /\ t.wheel = s.wheel
  /\ t.now = s.to /\ DOMAIN t.el = DOMAIN s.el /\ \A p \in DOMAIN s.to : t.el[p] = s.to[p]

FxNoLinkLast(q) == q # <<>> /\ q[Len(q)][1] # "link"

\* The start is answered, and the end is drawn.
LEMMA FxEndStep ==
  ASSUME NEW s, FxInvOf(s), NEW k, k = s.fx["e"].run, k # 0,
         NEW t, DOMAIN t = FxFields, DOMAIN t.fx = {"e"},
         DOMAIN t.fx["e"] = {"wait", "run", "ripe", "chain"},
         t.open \in BOOLEAN, t.touched \in BOOLEAN, FxEnds(s, k, t)
  PROVE  FxInvOf(t) /\ FxNoLinkLast(t.pend)
<1>1. FxIs(s) /\ FxRunInv(s) /\ FxAnswerInv(s) /\ FxPendInv(s) /\ FxChainInv(s)
      /\ FxDrawInv(s)
  BY DEF FxInvOf
<1>2. k \in Nat /\ k = s.starts /\ k \in 1 .. s.starts
  BY <1>1 DEF FxIs, FxRunInv
<1>3. PICK q : q = s.pend
  OBVIOUS
<1>4. PICK n : n = Len(q)
  OBVIOUS
<1>5. /\ t.pend \in Seq(FxCalls) /\ n \in Nat /\ DOMAIN q = 1 .. n
      /\ \/ DOMAIN t.pend = 1 .. n + 1
         \/ DOMAIN t.pend = 1 .. n + 2 /\ t.pend[n + 2][1] \in {"unwheel", "setOpen"}
      /\ \A i \in 1 .. n : t.pend[i] = q[i]
      /\ t.pend[n + 1] = <<"onComplete", "e", k>>
      /\ FxPlaces(t.pend, "link") = FxPlaces(q, "link")
  BY <1>3, <1>4 DEF FxEnds, FxHandled
<1>6. t.pend[n + 1][1] = "onComplete" /\ t.pend[n + 1][3] = k
  BY <1>5
<1>7. FxIs(t)
  <2>1. t.wheel \in BOOLEAN /\ t.fx["e"].ripe \in BOOLEAN /\ t.fx["e"].wait \in BOOLEAN
    <3>1. t.wheel = s.wheel /\ s.wheel \in BOOLEAN
      BY <1>1 DEF FxIs, FxEnds
    <3>2. t.fx["e"].wait = s.fx["e"].wait /\ s.fx["e"].wait \in BOOLEAN
      BY <1>1 DEF FxIs, FxEnds
    <3>3. t.fx["e"].ripe = FALSE
      BY DEF FxEnds
    <3> QED
      BY <3>1, <3>2, <3>3
  <2>2. t.fx["e"].run \in Nat /\ t.fx["e"].chain \in Seq(Nat)
    BY <1>1 DEF FxIs, FxEnds
  <2>3. t.log \in Seq(FxEvents) /\ t.starts \in Nat /\ t.links \in Nat /\ t.kind \in FxKinds
    BY <1>1 DEF FxIs, FxEnds
  <2> QED
    BY <1>5, <2>1, <2>2, <2>3 DEF FxIs
<1>8. FxRunInv(t)
  BY DEF FxRunInv, FxEnds
<1>9. FxAnswerInv(t)
  <2>1. ASSUME NEW j \in 1 .. s.starts PROVE FxAnswerOf(t, j) = 1
    <3>1. FxAnswerOf(s, j) = 1
      BY <1>1 DEF FxAnswerInv
    <3>2. /\ Cardinality(FxMarks(s.log, "onComplete", j)) \in Nat
          /\ Cardinality(FxMarks(s.pend, "onComplete", j)) \in Nat
          /\ Cardinality(FxMarks(s.log, "onCancel", j)) \in Nat
      BY <1>1, FxFinite DEF FxIs
    <3>3. t.log = s.log /\ t.fx["e"].run = 0 /\ j # 0
      BY <1>1 DEF FxEnds, FxIs
    <3>4. CASE j = k
      <4>1. Cardinality(FxMarks(t.pend, "onComplete", j))
              = Cardinality(FxMarks(s.pend, "onComplete", j)) + 1
        BY <3>4 DEF FxEnds, FxHandled
      <4> QED
        BY <3>1, <3>2, <3>3, <3>4, <4>1 DEF FxAnswerOf
    <3>5. CASE j # k
      <4>1. FxMarks(t.pend, "onComplete", j) = FxMarks(s.pend, "onComplete", j)
        BY <3>5 DEF FxEnds, FxHandled
      <4> QED
        BY <3>1, <3>3, <3>5, <4>1 DEF FxAnswerOf
    <3> QED
      BY <3>4, <3>5
  <2>2. \A i \in DOMAIN t.pend : t.pend[i][1] = "onComplete" => t.pend[i][3] \in 1 .. s.starts
    <3> SUFFICES ASSUME NEW i \in DOMAIN t.pend, t.pend[i][1] = "onComplete"
                 PROVE  t.pend[i][3] \in 1 .. s.starts
      OBVIOUS
    <3>1. CASE i \in 1 .. n
      BY <1>1, <1>3, <1>5, <3>1 DEF FxAnswerInv
    <3>2. CASE i = n + 1
      BY <1>2, <1>6, <3>2
    <3> QED
      BY <1>5, <3>1, <3>2
  <2> QED
    BY <1>1, <2>1, <2>2 DEF FxAnswerInv, FxEnds
<1>10. FxPendInv(t)
  <2>1. ASSUME NEW i \in DOMAIN t.pend, i > 1
        PROVE  /\ t.pend[i][1] = "link" => t.pend[i - 1][1] # "link"
               /\ t.pend[i][1] \in {"unwheel", "setOpen"} => t.pend[i - 1][1] = "onComplete"
    <3>1. CASE i \in 1 .. n
      <4>1. i - 1 \in 1 .. n
        BY <1>5, <2>1, <3>1
      <4> QED
        BY <1>1, <1>3, <1>5, <2>1, <3>1, <4>1 DEF FxPendInv
    <3>2. CASE i = n + 1
      BY <1>6, <3>2
    <3>3. CASE i = n + 2 /\ t.pend[n + 2][1] \in {"unwheel", "setOpen"}
      BY <1>5, <1>6, <3>3
    <3> QED
      BY <1>5, <3>1, <3>2, <3>3
  <2>2. t.pend[1][1] # "onComplete" => s.pend # <<>> /\ s.pend[1][1] # "onComplete"
    <3>1. n = 0 => t.pend[1][1] = "onComplete"
      BY <1>6
    <3>2. n # 0 => s.pend # <<>> /\ t.pend[1] = s.pend[1]
      BY <1>3, <1>4, <1>5
    <3> QED
      BY <3>1, <3>2
  <2> QED
    BY <1>1, <2>1, <2>2 DEF FxPendInv, FxLead, FxEnds
<1>11. FxChainInv(t)
  <2>1. \A j \in FxPlaces(q, "link") : t.pend[j] = q[j]
    BY <1>5 DEF FxPlaces
  <2>2. t.log = s.log /\ t.links = s.links /\ t.fx["e"].chain = s.fx["e"].chain
    BY DEF FxEnds
  <2>3. FxTaken(t) = FxTaken(s)
    BY <2>2 DEF FxTaken
  <2>4. {t.pend[j][3] : j \in FxPlaces(t.pend, "link")} = {q[j][3] : j \in FxPlaces(q, "link")}
    BY <1>5, <2>1
  <2>5. FxAscends(t.pend)
    BY <1>1, <1>3, <1>5, <2>1 DEF FxChainInv, FxAscends
  <2>6. \A i \in FxPlaces(t.log, "link"), j \in FxPlaces(t.pend, "link") :
          t.log[i][3] < t.pend[j][3]
    BY <1>1, <1>3, <1>5, <2>1, <2>2 DEF FxChainInv
  <2>7. FxTaken(t) \in Nat /\ \A i \in DOMAIN t.fx["e"].chain : t.fx["e"].chain[i] = FxTaken(t) + i
    BY <1>1, <2>2, <2>3 DEF FxChainInv
  <2>8. FxAscends(t.log)
    BY <1>1, <2>2 DEF FxChainInv
  <2>9. {t.log[i][3] : i \in FxPlaces(t.log, "link")}
          \cup {t.pend[j][3] : j \in FxPlaces(t.pend, "link")} = 1 .. FxTaken(t)
    BY <1>1, <1>3, <2>2, <2>3, <2>4 DEF FxChainInv
  <2> QED
    BY <2>5, <2>6, <2>7, <2>8, <2>9 DEF FxChainInv
<1>12. FxDrawInv(t)
  BY <1>1 DEF FxDrawInv, FxEnds, FxSlots
<1>13. FxDoneInv(t)
  <2>1. t.wheel => FxPlaces(t.pend, "unwheel") # {}
    BY <1>1 DEF FxDrawInv, FxEnds, FxHandled
  <2>2. t.kind = "slide" => FxPlaces(t.pend, "setOpen") # {}
    BY DEF FxEnds, FxHandled
  <2>3. t.now = t.target /\ \A p \in DOMAIN t.target : t.el[p] = t.target[p]
    BY <1>1 DEF FxDrawInv, FxEnds
  <2> QED
    BY <2>1, <2>2, <2>3 DEF FxDoneInv
<1>14. FxNoLinkLast(t.pend)
  <2>1. Len(t.pend) \in {n + 1, n + 2} /\ DOMAIN t.pend = 1 .. Len(t.pend)
        /\ (Len(t.pend) = n + 2 => t.pend[n + 2][1] \in {"unwheel", "setOpen"})
    <3>1. Len(t.pend) \in Nat /\ DOMAIN t.pend = 1 .. Len(t.pend)
      BY <1>5, LenProperties
    <3> QED
      BY <1>5, <3>1
  <2> QED
    BY <1>5, <1>6, <2>1 DEF FxNoLinkLast
<1> QED
  BY <1>7, <1>8, <1>9, <1>10, <1>11, <1>12, <1>13, <1>14 DEF FxInvOf

FxCallsChain(s, t) == t = MooCallChain(s, "e")

\* callChain() behind the handlers.
LEMMA FxLinkStep ==
  ASSUME NEW s, FxInvOf(s), FxNoLinkLast(s.pend), NEW t, FxCallsChain(s, t)
  PROVE  FxInvOf(t)
<1>1. FxIs(s) /\ FxRunInv(s) /\ FxAnswerInv(s) /\ FxPendInv(s) /\ FxChainInv(s)
  BY DEF FxInvOf
<1>2. PICK c : c = s.fx["e"].chain
  OBVIOUS
<1>3. c \in Seq(Nat) /\ s.pend \in Seq(FxCalls) /\ s.log \in Seq(FxEvents)
  BY <1>1, <1>2 DEF FxIs
<1>4. CASE c = <<>>
  BY <1>2, <1>4 DEF FxCallsChain, MooCallChain
<1>5. CASE c # <<>>
  <2>1. /\ Tail(c) \in Seq(Nat) /\ Len(c) \in Nat \ {0} /\ DOMAIN c = 1 .. Len(c)
        /\ DOMAIN Tail(c) = 1 .. Len(c) - 1 /\ Head(c) = c[1] /\ c[1] \in Nat
        /\ \A i \in 1 .. Len(c) - 1 : Tail(c)[i] = c[i + 1]
    BY <1>3, <1>5, FxTailed
  <2>2. PICK x : x = <<"link", "e", Head(c)>>
    OBVIOUS
  <2>3. x \in FxCalls /\ x[1] = "link" /\ x[3] = c[1]
    BY <2>1, <2>2 DEF FxCalls
  <2>4. /\ DOMAIN t = FxFields /\ DOMAIN t.fx = {"e"}
        /\ DOMAIN t.fx["e"] = {"wait", "run", "ripe", "chain"}
        /\ t.fx["e"].wait = s.fx["e"].wait /\ t.fx["e"].run = s.fx["e"].run
        /\ t.fx["e"].ripe = s.fx["e"].ripe /\ t.fx["e"].chain = Tail(c)
        /\ t.log = s.log /\ t.pend = s.pend \o <<x>> /\ t.kind = s.kind
        /\ t.starts = s.starts /\ t.links = s.links /\ FxSameDraw(s, t)
    BY <1>1, <1>2, <1>5, <2>2 DEF FxIs, FxFields, FxSameDraw, FxCallsChain, MooCallChain, MooDelay
  <2>5. t.pend = Append(s.pend, x)
    BY <1>3, <2>3, <2>4, AppendIsConcat
  <2>6. /\ t.pend \in Seq(FxCalls) /\ FxOneMore(s.pend, x, t.pend)
        /\ FxCounted(s.pend, x, t.pend)
    BY <1>3, <2>3, <2>5, FxDelays
  <2>7. PICK n : n = Len(s.pend)
    OBVIOUS
  <2>8. /\ n \in Nat /\ DOMAIN s.pend = 1 .. n /\ DOMAIN t.pend = 1 .. n + 1
        /\ \A i \in 1 .. n : t.pend[i] = s.pend[i]
        /\ t.pend[n + 1] = x
    BY <2>6, <2>7 DEF FxOneMore
  <2>9. n # 0 /\ s.pend[n][1] # "link"
    BY <1>3, <2>7, EmptySeq DEF FxNoLinkLast
  <2>10. FxIs(t)
    <3>1. t.wheel \in BOOLEAN /\ t.open \in BOOLEAN /\ t.touched \in BOOLEAN
      BY <1>1, <2>4 DEF FxIs, FxSameDraw
    <3> QED
      BY <1>1, <2>1, <2>4, <2>6, <3>1 DEF FxIs
  <2>11. FxRunInv(t)
    BY <1>1, <2>4 DEF FxRunInv
  <2>12. FxAnswerInv(t)
    <3>1. \A j : FxMarks(t.pend, "onComplete", j) = FxMarks(s.pend, "onComplete", j)
      BY <2>3, <2>6 DEF FxCounted
    <3>2. \A j : FxAnswerOf(t, j) = FxAnswerOf(s, j)
      BY <2>4, <3>1 DEF FxAnswerOf
    <3>3. \A i \in DOMAIN t.pend : t.pend[i][1] = "onComplete" => t.pend[i][3] \in 1 .. s.starts
      BY <1>1, <2>3, <2>8 DEF FxAnswerInv
    <3> QED
      BY <1>1, <2>4, <3>2, <3>3 DEF FxAnswerInv
  <2>13. FxPendInv(t)
    <3>1. ASSUME NEW i \in DOMAIN t.pend, i > 1
          PROVE  /\ t.pend[i][1] = "link" => t.pend[i - 1][1] # "link"
                 /\ t.pend[i][1] \in {"unwheel", "setOpen"} => t.pend[i - 1][1] = "onComplete"
      <4>1. CASE i \in 1 .. n
        <5>1. i - 1 \in 1 .. n
          BY <2>8, <3>1, <4>1
        <5> QED
          BY <1>1, <2>8, <3>1, <4>1, <5>1 DEF FxPendInv
      <4>2. CASE i = n + 1
        <5>1. i - 1 = n /\ n \in 1 .. n
          BY <2>8, <2>9, <4>2
        <5> QED
          BY <2>3, <2>8, <2>9, <4>2, <5>1
      <4> QED
        BY <2>8, <4>1, <4>2
    <3>2. t.pend[1] = s.pend[1]
      <4>1. 1 \in 1 .. n
        BY <2>8, <2>9
      <4> QED
        BY <2>8, <4>1
    <3>3. s.pend # <<>>
      BY DEF FxNoLinkLast
    <3> QED
      <4>1. Cardinality(FxPlaces(t.log, "link")) <= Cardinality(FxPlaces(t.log, "onComplete"))
        BY <1>1, <2>4 DEF FxPendInv
      <4>2. t.pend[1][1] # "onComplete" => FxLead(t)
        BY <1>1, <2>4, <3>2, <3>3 DEF FxPendInv, FxLead
      <4> QED
        BY <3>1, <4>1, <4>2 DEF FxPendInv
  <2>14. FxChainInv(t)
    <3>1. PICK k : k = FxTaken(s)
      OBVIOUS
    <3>2. k \in Nat /\ x[3] = k + 1 /\ s.links \in Nat
      <4>1. k \in Nat /\ c[1] = k + 1
        BY <1>1, <1>2, <2>1, <3>1 DEF FxChainInv
      <4>2. s.links \in Nat
        BY <1>1 DEF FxIs
      <4> QED
        BY <2>3, <4>1, <4>2
    <3>3. Len(Tail(c)) = Len(c) - 1
      BY <1>3, <1>5, HeadTailProperties
    <3>4. FxTaken(t) = k + 1
      BY <1>2, <2>1, <2>4, <3>1, <3>2, <3>3 DEF FxTaken
    <3>5. \A i \in DOMAIN t.fx["e"].chain : t.fx["e"].chain[i] = FxTaken(t) + i
      <4>1. \A i \in DOMAIN c : c[i] = k + i
        BY <1>1, <1>2, <3>1 DEF FxChainInv
      <4>2. \A i \in 1 .. Len(c) - 1 : i + 1 \in DOMAIN c /\ k + (i + 1) = (k + 1) + i
        BY <2>1, <3>2
      <4>3. \A i \in 1 .. Len(c) - 1 : Tail(c)[i] = (k + 1) + i
        BY <2>1, <4>1, <4>2
      <4> QED
        BY <2>1, <2>4, <3>4, <4>3
    <3>6. FxPlaces(t.pend, "link") = FxPlaces(s.pend, "link") \cup {n + 1}
      BY <2>3, <2>8 DEF FxPlaces
    <3>7. \A j \in FxPlaces(s.pend, "link") : j \in 1 .. n /\ t.pend[j] = s.pend[j]
      BY <2>8 DEF FxPlaces
    <3>8. \A i \in FxPlaces(s.log, "link") : s.log[i][3] \in 1 .. k
      BY <1>1, <3>1 DEF FxChainInv
    <3>9. \A j \in FxPlaces(s.pend, "link") : s.pend[j][3] \in 1 .. k
      BY <1>1, <3>1 DEF FxChainInv
    <3>10. FxAscends(t.pend)
      <4>1. \A i, j \in FxPlaces(s.pend, "link") : i < j => t.pend[i][3] < t.pend[j][3]
        BY <1>1, <3>7 DEF FxChainInv, FxAscends
      <4>2. \A i \in FxPlaces(s.pend, "link") : i < n + 1 /\ t.pend[i][3] < t.pend[n + 1][3]
        <5> SUFFICES ASSUME NEW i \in FxPlaces(s.pend, "link")
                     PROVE  i < n + 1 /\ t.pend[i][3] < t.pend[n + 1][3]
          OBVIOUS
        <5>1. i \in 1 .. n /\ t.pend[i] = s.pend[i] /\ s.pend[i][3] \in 1 .. k
          BY <3>7, <3>9
        <5>2. t.pend[i][3] \in 1 .. k
          BY <5>1
        <5>3. t.pend[n + 1][3] = k + 1
          BY <2>8, <3>2
        <5> QED
          BY <2>8, <3>2, <5>1, <5>2, <5>3
      <4>3. ASSUME NEW i \in FxPlaces(t.pend, "link"), NEW j \in FxPlaces(t.pend, "link"), i < j
            PROVE  t.pend[i][3] < t.pend[j][3]
        <5>1. i # n + 1
          <6>1. j \in 1 .. n + 1
            BY <2>8, <3>6, <3>7
          <6> QED
            BY <2>8, <4>3, <6>1
        <5>2. CASE j = n + 1
          BY <3>6, <4>2, <5>1, <5>2
        <5>3. CASE j # n + 1
          BY <3>6, <4>1, <4>3, <5>1, <5>3
        <5> QED
          BY <5>2, <5>3
      <4> QED
        BY <4>3 DEF FxAscends
    <3>11. \A i \in FxPlaces(t.log, "link"), j \in FxPlaces(t.pend, "link") :
             t.log[i][3] < t.pend[j][3]
      <4> SUFFICES ASSUME NEW i \in FxPlaces(s.log, "link"), NEW j \in FxPlaces(t.pend, "link")
                   PROVE  s.log[i][3] < t.pend[j][3]
        BY <2>4
      <4>1. CASE j = n + 1
        <5>1. s.log[i][3] \in 1 .. k /\ t.pend[j][3] = k + 1
          BY <2>8, <3>2, <3>8, <4>1
        <5> QED
          BY <3>2, <5>1
      <4>2. CASE j \in FxPlaces(s.pend, "link")
        BY <1>1, <3>7, <4>2 DEF FxChainInv
      <4> QED
        BY <3>6, <4>1, <4>2
    <3>12. {t.pend[j][3] : j \in FxPlaces(t.pend, "link")}
             = {s.pend[j][3] : j \in FxPlaces(s.pend, "link")} \cup {k + 1}
      BY <2>8, <3>2, <3>6, <3>7
    <3>13. 1 .. k + 1 = (1 .. k) \cup {k + 1}
      BY <3>2
    <3>14. {t.log[i][3] : i \in FxPlaces(t.log, "link")}
             \cup {t.pend[j][3] : j \in FxPlaces(t.pend, "link")} = 1 .. FxTaken(t)
      <4>1. {s.log[i][3] : i \in FxPlaces(s.log, "link")}
              \cup {s.pend[j][3] : j \in FxPlaces(s.pend, "link")} = 1 .. k
        BY <1>1, <3>1 DEF FxChainInv
      <4>2. PICK A : A = {s.log[i][3] : i \in FxPlaces(s.log, "link")}
        OBVIOUS
      <4>3. PICK B : B = {s.pend[j][3] : j \in FxPlaces(s.pend, "link")}
        OBVIOUS
      <4>4. A \cup B = 1 .. k
        BY <4>1, <4>2, <4>3
      <4>5. A \cup (B \cup {k + 1}) = 1 .. k + 1
        BY <3>13, <4>4
      <4>6. A = {t.log[i][3] : i \in FxPlaces(t.log, "link")}
        BY <2>4, <4>2
      <4>7. B \cup {k + 1} = {t.pend[j][3] : j \in FxPlaces(t.pend, "link")}
        BY <3>12, <4>3
      <4> QED
        BY <3>4, <4>5, <4>6, <4>7
    <3>15. FxAscends(t.log) /\ FxTaken(t) \in Nat
      BY <1>1, <2>4, <3>2, <3>4 DEF FxChainInv
    <3> QED
      BY <3>5, <3>10, <3>11, <3>14, <3>15 DEF FxChainInv
  <2>15. FxDrawInv(t)
    BY <2>4 DEF FxInvOf, FxDrawInv, FxSameDraw, FxSlots
  <2>16. FxDoneInv(t)
    <3>1. /\ FxPlaces(t.pend, "unwheel") = FxPlaces(s.pend, "unwheel")
          /\ FxPlaces(t.pend, "setOpen") = FxPlaces(s.pend, "setOpen")
      BY <2>3, <2>6 DEF FxCounted
    <3> QED
      BY <2>4, <3>1 DEF FxInvOf, FxDoneInv, FxDone, FxSameDraw
  <2> QED
    BY <2>10, <2>11, <2>12, <2>13, <2>14, <2>15, <2>16 DEF FxInvOf
<1> QED
  BY <1>4, <1>5

\* The last step() ends the effect and goes on with the chain.
LEMMA FxFinishPart ==
  ASSUME NEW s, FxInvOf(s), s.fx["e"].run # 0, NEW t, t = FxFinish(s)
  PROVE  FxInvOf(t)
<1>1. FxIs(s) /\ FxDrawInv(s)
  BY DEF FxInvOf
<1>2. PICK k : k = s.fx["e"].run
  OBVIOUS
<1>3. PICK d : d = FxSet(s, s.to)
  OBVIOUS
<1>4. /\ DOMAIN d = FxFields /\ FxSameCore(s, d) /\ d.to = s.to /\ d.target = s.target
      /\ d.wheel = s.wheel /\ d.open = s.open /\ d.touched = s.touched /\ d.now = s.to
      /\ DOMAIN d.el = DOMAIN s.el
      /\ \A p \in DOMAIN s.to : d.el[p] = s.to[p]
  <2>1. DOMAIN s = FxFields
    BY <1>1 DEF FxIs
  <2>2. DOMAIN s.to \subseteq DOMAIN s.el
    BY <1>1 DEF FxDrawInv
  <2> QED
    BY <1>3, <2>1, <2>2 DEF FxSet, FxIncrease, FxFields, FxSameCore
<1>5. PICK h : h = FxHandlers(d.kind, k)
  OBVIOUS
<1>6. PICK u : u = MooDelay(MooStop(d, "e", TRUE), h)
  OBVIOUS
<1>7. FxCallsChain(u, t)
  BY <1>2, <1>3, <1>4, <1>5, <1>6 DEF FxFinish, MooFinish, FxCallsChain, FxHandlers, FxSameCore
<1>8. /\ DOMAIN u = FxFields /\ DOMAIN u.fx = {"e"}
      /\ DOMAIN u.fx["e"] = {"wait", "run", "ripe", "chain"}
      /\ u.fx["e"].wait = s.fx["e"].wait /\ u.fx["e"].run = 0 /\ u.fx["e"].ripe = FALSE
      /\ u.fx["e"].chain = s.fx["e"].chain /\ u.log = s.log /\ u.pend = s.pend \o h
      /\ u.kind = s.kind /\ u.starts = s.starts /\ u.links = s.links /\ u.to = s.to
      /\ u.target = s.target /\ u.wheel = s.wheel /\ u.open = s.open
      /\ u.touched = s.touched /\ u.now = s.to /\ u.el = d.el
  <2>1. d.fx = s.fx /\ d.kind = s.kind /\ d.log = s.log /\ d.pend = s.pend
        /\ d.starts = s.starts /\ d.links = s.links
    BY <1>4 DEF FxSameCore
  <2>2. DOMAIN d.fx = {"e"} /\ DOMAIN d.fx["e"] = {"wait", "run", "ripe", "chain"}
        /\ d.fx["e"].run # 0
    BY <1>1, <2>1 DEF FxIs
  <2> QED
    BY <1>4, <1>6, <2>1, <2>2 DEF FxFields, MooDelay, MooStop
<1>9. k \in Nat /\ s.kind \in FxKinds /\ s.pend \in Seq(FxCalls)
  BY <1>1, <1>2 DEF FxIs
<1>10. FxHandled(s.kind, s.pend, k, u.pend)
  BY <1>4, <1>5, <1>8, <1>9, FxHandlersWait DEF FxSameCore
<1>11. FxEnds(s, k, u)
  BY <1>4, <1>8, <1>10 DEF FxEnds
<1>12. u.open \in BOOLEAN /\ u.touched \in BOOLEAN
  BY <1>1, <1>8 DEF FxIs
<1>13. FxInvOf(u) /\ FxNoLinkLast(u.pend)
  BY <1>2, <1>8, <1>11, <1>12, FxEndStep
<1> QED
  BY <1>7, <1>13, FxLinkStep

-----------------------------------------------------------------------------
(* The delayed calls.                                                      *)

FxMovesUp(q, t, e) ==
  /\ \A i \in FxPlaces(t, e) : i \in Nat \ {0} /\ i + 1 \in FxPlaces(q, e) /\ t[i] = q[i + 1]
  /\ \A i \in FxPlaces(q, e) : i # 1 => i - 1 \in FxPlaces(t, e) /\ t[i - 1] = q[i]
  /\ 1 \in FxPlaces(q, e) <=> q[1][1] = e

\* Where the others stand when the first is gone.
LEMMA FxTailPlaces ==
  ASSUME NEW q \in Seq(FxCalls), q # <<>>, NEW t, t = Tail(q), NEW e
  PROVE  FxMovesUp(q, t, e)
<1>1. /\ Len(q) \in Nat \ {0} /\ DOMAIN q = 1 .. Len(q)
      /\ DOMAIN t = 1 .. Len(q) - 1 /\ \A i \in 1 .. Len(q) - 1 : t[i] = q[i + 1]
  BY FxTailed
<1>2. ASSUME NEW i \in FxPlaces(t, e)
      PROVE  i \in Nat \ {0} /\ i + 1 \in FxPlaces(q, e) /\ t[i] = q[i + 1]
  <2>1. i \in 1 .. Len(q) - 1 /\ t[i][1] = e
    BY <1>1 DEF FxPlaces
  <2>2. i + 1 \in DOMAIN q /\ t[i] = q[i + 1] /\ i \in Nat \ {0}
    BY <1>1, <2>1
  <2> QED
    BY <2>1, <2>2 DEF FxPlaces
<1>3. ASSUME NEW i \in FxPlaces(q, e), i # 1
      PROVE  i - 1 \in FxPlaces(t, e) /\ t[i - 1] = q[i]
  <2>1. i \in 1 .. Len(q) /\ q[i][1] = e
    BY <1>1 DEF FxPlaces
  <2>2. i - 1 \in DOMAIN t /\ (i - 1) + 1 = i
    BY <1>1, <1>3, <2>1
  <2>3. t[i - 1] = q[i]
    BY <1>1, <2>2
  <2> QED
    BY <2>1, <2>2, <2>3 DEF FxPlaces
<1>4. 1 \in FxPlaces(q, e) <=> q[1][1] = e
  BY <1>1 DEF FxPlaces
<1> QED
  BY <1>2, <1>3, <1>4 DEF FxMovesUp

FxNumbers(q) == {q[i][3] : i \in FxPlaces(q, "link")}

FxLinksAfter(q, t) ==
  /\ FxAscends(q) => FxAscends(t)
  /\ q[1][1] # "link" => FxNumbers(t) = FxNumbers(q)
  /\ q[1][1] = "link" => /\ FxNumbers(q) = {q[1][3]} \cup FxNumbers(t)
                         /\ q[1][3] \in FxNumbers(q)
                         /\ FxAscends(q) => \A n \in FxNumbers(t) : q[1][3] < n
  /\ FxNumbers(t) \subseteq FxNumbers(q)

\* The links that still wait.
LEMMA FxTailNumbers ==
  ASSUME NEW q \in Seq(FxCalls), q # <<>>, NEW t, t = Tail(q)
  PROVE  FxLinksAfter(q, t)
<1>1. FxMovesUp(q, t, "link")
  BY FxTailPlaces
<1>2. ASSUME FxAscends(q) PROVE FxAscends(t)
  <2> SUFFICES ASSUME NEW i \in FxPlaces(t, "link"), NEW j \in FxPlaces(t, "link"), i < j
               PROVE  t[i][3] < t[j][3]
    BY DEF FxAscends
  <2>1. i \in Nat /\ i + 1 \in FxPlaces(q, "link") /\ t[i] = q[i + 1]
    BY <1>1 DEF FxMovesUp
  <2>2. j \in Nat /\ j + 1 \in FxPlaces(q, "link") /\ t[j] = q[j + 1]
    BY <1>1 DEF FxMovesUp
  <2>3. i + 1 < j + 1
    BY <2>1, <2>2
  <2>4. q[i + 1][3] < q[j + 1][3]
    BY <1>2, <2>1, <2>2, <2>3 DEF FxAscends
  <2> QED
    BY <2>1, <2>2, <2>4
<1>3. FxNumbers(t) \subseteq FxNumbers(q)
  <2> SUFFICES ASSUME NEW i \in FxPlaces(t, "link") PROVE t[i][3] \in FxNumbers(q)
    BY DEF FxNumbers
  <2>1. i + 1 \in FxPlaces(q, "link") /\ t[i] = q[i + 1]
    BY <1>1 DEF FxMovesUp
  <2> QED
    BY <2>1 DEF FxNumbers
<1>4. ASSUME NEW n \in FxNumbers(q) PROVE n \in FxNumbers(t) \/ (q[1][1] = "link" /\ n = q[1][3])
  <2>1. PICK i \in FxPlaces(q, "link") : n = q[i][3]
    BY DEF FxNumbers
  <2>2. CASE i = 1
    BY <1>1, <2>1, <2>2 DEF FxMovesUp
  <2>3. CASE i # 1
    <3>1. i - 1 \in FxPlaces(t, "link") /\ t[i - 1] = q[i]
      BY <1>1, <2>1, <2>3 DEF FxMovesUp
    <3> QED
      BY <2>1, <3>1 DEF FxNumbers
  <2> QED
    BY <2>2, <2>3
<1>5. q[1][1] = "link" => q[1][3] \in FxNumbers(q)
  BY <1>1 DEF FxNumbers, FxMovesUp
<1>6. ASSUME FxAscends(q), q[1][1] = "link", NEW n \in FxNumbers(t) PROVE q[1][3] < n
  <2>1. PICK i \in FxPlaces(t, "link") : n = t[i][3]
    BY DEF FxNumbers
  <2>2. i \in Nat \ {0} /\ i + 1 \in FxPlaces(q, "link") /\ t[i] = q[i + 1]
    BY <1>1 DEF FxMovesUp
  <2>3. 1 \in FxPlaces(q, "link") /\ 1 < i + 1
    BY <1>1, <1>6, <2>2 DEF FxMovesUp
  <2> QED
    BY <1>6, <2>1, <2>2, <2>3 DEF FxAscends
<1> QED
  BY <1>2, <1>3, <1>4, <1>5, <1>6 DEF FxLinksAfter

\* What taking the first of the delayed calls leaves behind: the page is told, a
\* scroll stops listening, a slide sees where it is.
FxTakes(s, t) ==
  /\ DOMAIN t = FxFields /\ t.kind = s.kind /\ t.fx = s.fx /\ t.pend = Tail(s.pend)
  /\ t.starts = s.starts /\ t.links = s.links /\ t.el = s.el /\ t.now = s.now
  /\ t.to = s.to /\ t.target = s.target /\ t.touched = s.touched
  /\ \/ /\ s.pend[1][1] \in {"onComplete", "link"}
        /\ t.log = Append(s.log, <<s.pend[1][1], "e", s.pend[1][3]>>)
        /\ t.wheel = s.wheel /\ t.open = s.open
     \/ s.pend[1][1] = "unwheel" /\ t.log = s.log /\ t.wheel = FALSE /\ t.open = s.open
     \/ /\ s.pend[1][1] = "setOpen" /\ t.log = s.log /\ t.wheel = s.wheel
        /\ t.open = (s.now["margin"] = 0)

\* What it leaves in the log.
FxTells(s, t) ==
  \/ s.pend[1][1] \in {"unwheel", "setOpen"} /\ t.log = s.log
  \/ \E x \in FxEvents :
       /\ x[1] \in {"onComplete", "link"} /\ x[1] = s.pend[1][1] /\ x[3] = s.pend[1][3]
       /\ FxOneMore(s.log, x, t.log) /\ FxCounted(s.log, x, t.log)

\* The call was for a start or for a link.
LEMMA FxTaking ==
  ASSUME NEW s, FxIs(s), s.pend # <<>>, NEW t, FxTakes(s, t)
  PROVE  /\ s.pend \in Seq(FxCalls) /\ s.pend[1] \in FxCalls /\ s.pend[1][3] \in Nat
         /\ t.pend \in Seq(FxCalls) /\ t.log \in Seq(FxEvents) /\ FxTells(s, t)
<1>1. s.pend \in Seq(FxCalls) /\ s.log \in Seq(FxEvents)
  BY DEF FxIs
<1>2. t.pend \in Seq(FxCalls) /\ s.pend[1] \in FxCalls
  BY <1>1, FxTailed DEF FxTakes
<1>3. s.pend[1][3] \in Nat
  BY <1>2 DEF FxCalls
<1>4. CASE s.pend[1][1] \in {"onComplete", "link"}
  <2>1. PICK x : x = <<s.pend[1][1], "e", s.pend[1][3]>>
    OBVIOUS
  <2>2. x \in FxEvents /\ x[1] = s.pend[1][1] /\ x[3] = s.pend[1][3]
    BY <1>3, <1>4, <2>1 DEF FxEvents
  <2>3. t.log = Append(s.log, x)
    BY <1>4, <2>1 DEF FxTakes
  <2>4. t.log \in Seq(FxEvents) /\ FxOneMore(s.log, x, t.log) /\ FxCounted(s.log, x, t.log)
    BY <1>1, <2>2, <2>3, FxEvent
  <2> QED
    BY <1>1, <1>2, <1>3, <1>4, <2>2, <2>4 DEF FxTells
<1>5. CASE s.pend[1][1] \notin {"onComplete", "link"}
  BY <1>1, <1>2, <1>3, <1>5 DEF FxTakes, FxTells
<1> QED
  BY <1>4, <1>5

\* A start whose onComplete waited has got it.
LEMMA FxTakeAnswers ==
  ASSUME NEW s, FxIs(s), FxAnswerInv(s), s.pend # <<>>, NEW t, FxTakes(s, t)
  PROVE  FxAnswerInv(t)
<1>1. /\ s.pend \in Seq(FxCalls) /\ FxTells(s, t) /\ t.pend = Tail(s.pend)
      /\ t.starts = s.starts /\ t.fx = s.fx
  BY FxTaking DEF FxTakes
<1>2. PICK c : c = s.pend[1]
  OBVIOUS
<1>3. PICK n : n = Len(s.log)
  OBVIOUS
<1>4. 1 \in DOMAIN s.pend
  BY <1>1, FxTailed
<1>5. ASSUME NEW j \in 1 .. s.starts PROVE FxAnswerOf(t, j) = 1
  <2>1. /\ c[1] = "onComplete" /\ c[3] = j =>
             Cardinality(FxMarks(t.pend, "onComplete", j))
               = Cardinality(FxMarks(s.pend, "onComplete", j)) - 1
        /\ ~(c[1] = "onComplete" /\ c[3] = j) =>
             Cardinality(FxMarks(t.pend, "onComplete", j))
               = Cardinality(FxMarks(s.pend, "onComplete", j))
    <3>1. FxUncounted(s.pend, t.pend)
      BY <1>1, FxCallGone
    <3> QED
      BY <1>2, <3>1 DEF FxUncounted
  <2>2. /\ c[1] = "onComplete" /\ c[3] = j =>
             Cardinality(FxMarks(t.log, "onComplete", j))
               = Cardinality(FxMarks(s.log, "onComplete", j)) + 1
        /\ ~(c[1] = "onComplete" /\ c[3] = j) =>
             FxMarks(t.log, "onComplete", j) = FxMarks(s.log, "onComplete", j)
        /\ FxMarks(t.log, "onCancel", j) = FxMarks(s.log, "onCancel", j)
    BY <1>1, <1>2 DEF FxTells, FxCounted
  <2>3. /\ Cardinality(FxMarks(s.log, "onComplete", j)) \in Nat
        /\ Cardinality(FxMarks(s.pend, "onComplete", j)) \in Nat
        /\ Cardinality(FxMarks(s.log, "onCancel", j)) \in Nat
    BY FxFinite DEF FxIs
  <2>4. FxAnswerOf(s, j) = 1
    BY DEF FxAnswerInv
  <2>5. CASE c[1] = "onComplete" /\ c[3] = j
    BY <1>1, <2>1, <2>2, <2>3, <2>4, <2>5 DEF FxAnswerOf
  <2>6. CASE ~(c[1] = "onComplete" /\ c[3] = j)
    BY <1>1, <2>1, <2>2, <2>4, <2>6 DEF FxAnswerOf
  <2> QED
    BY <2>5, <2>6
<1>6. \A i \in DOMAIN t.log : t.log[i][1] \in {"onComplete", "onCancel"}
                                => t.log[i][3] \in 1 .. s.starts
  <2>1. CASE t.log = s.log
    BY <2>1 DEF FxAnswerInv
  <2>2. CASE \E x \in FxEvents :
               /\ x[1] \in {"onComplete", "link"} /\ x[1] = s.pend[1][1]
               /\ x[3] = s.pend[1][3] /\ FxOneMore(s.log, x, t.log)
    <3>1. PICK x \in FxEvents :
            /\ x[1] \in {"onComplete", "link"} /\ x[1] = s.pend[1][1]
            /\ x[3] = s.pend[1][3] /\ FxOneMore(s.log, x, t.log)
      BY <2>2
    <3>2. x[1] = "onComplete" => x[3] \in 1 .. s.starts
      BY <1>4, <3>1 DEF FxAnswerInv
    <3>3. /\ n \in Nat /\ DOMAIN s.log = 1 .. n /\ DOMAIN t.log = 1 .. n + 1
          /\ \A i \in 1 .. n : t.log[i] = s.log[i]
          /\ t.log[n + 1] = x
      BY <1>3, <3>1 DEF FxOneMore
    <3>4. ASSUME NEW i \in DOMAIN t.log, t.log[i][1] \in {"onComplete", "onCancel"}
          PROVE  t.log[i][3] \in 1 .. s.starts
      <4>1. CASE i = n + 1
        BY <3>1, <3>2, <3>3, <3>4, <4>1
      <4>2. CASE i \in 1 .. n
        BY <3>3, <3>4, <4>2 DEF FxAnswerInv
      <4> QED
        BY <3>3, <4>1, <4>2
    <3> QED
      BY <3>4
  <2> QED
    BY <1>1, <2>1, <2>2 DEF FxTells
<1>7. \A i \in DOMAIN t.pend : t.pend[i][1] = "onComplete" => t.pend[i][3] \in 1 .. s.starts
  <2>1. /\ Len(s.pend) \in Nat \ {0} /\ DOMAIN s.pend = 1 .. Len(s.pend)
        /\ DOMAIN t.pend = 1 .. Len(s.pend) - 1
        /\ \A i \in 1 .. Len(s.pend) - 1 : t.pend[i] = s.pend[i + 1]
    BY <1>1, FxTailed
  <2>2. \A i \in DOMAIN t.pend : i + 1 \in DOMAIN s.pend /\ t.pend[i] = s.pend[i + 1]
    BY <2>1
  <2> QED
    BY <2>2 DEF FxAnswerInv
<1> QED
  BY <1>1, <1>5, <1>6, <1>7 DEF FxAnswerInv

\* The order of the delayed calls remains.
LEMMA FxTakeOrder ==
  ASSUME NEW s, FxIs(s), FxPendInv(s), s.pend # <<>>, NEW t, FxTakes(s, t)
  PROVE  FxPendInv(t)
<1>1. /\ s.pend \in Seq(FxCalls) /\ s.pend[1] \in FxCalls /\ t.pend \in Seq(FxCalls)
      /\ FxTells(s, t) /\ t.pend = Tail(s.pend)
  BY FxTaking DEF FxTakes
<1>2. PICK n : n = Len(s.pend)
  OBVIOUS
<1>3. /\ n \in Nat \ {0} /\ DOMAIN s.pend = 1 .. n /\ DOMAIN t.pend = 1 .. n - 1
      /\ \A i \in 1 .. n - 1 : t.pend[i] = s.pend[i + 1]
  BY <1>1, <1>2, FxTailed
<1>4. ASSUME NEW i \in DOMAIN t.pend, i > 1
      PROVE  /\ t.pend[i][1] = "link" => t.pend[i - 1][1] # "link"
             /\ t.pend[i][1] \in {"unwheel", "setOpen"} => t.pend[i - 1][1] = "onComplete"
  <2>1. /\ i + 1 \in DOMAIN s.pend /\ i + 1 > 1 /\ (i + 1) - 1 = i
        /\ i - 1 \in 1 .. n - 1 /\ (i - 1) + 1 = i
    BY <1>3, <1>4
  <2>2. t.pend[i] = s.pend[i + 1] /\ t.pend[i - 1] = s.pend[i]
    BY <1>3, <2>1
  <2>3. /\ s.pend[i + 1][1] = "link" => s.pend[(i + 1) - 1][1] # "link"
        /\ s.pend[i + 1][1] \in {"unwheel", "setOpen"} => s.pend[(i + 1) - 1][1] = "onComplete"
    BY <2>1 DEF FxPendInv
  <2> QED
    BY <2>1, <2>2, <2>3
<1>5. /\ Cardinality(FxPlaces(s.log, "link")) \in Nat
      /\ Cardinality(FxPlaces(s.log, "onComplete")) \in Nat
  BY FxFinite DEF FxIs
<1>6. /\ Cardinality(FxPlaces(s.log, "link")) <= Cardinality(FxPlaces(s.log, "onComplete"))
      /\ s.pend[1][1] # "onComplete" =>
           Cardinality(FxPlaces(s.log, "link")) + 1 <= Cardinality(FxPlaces(s.log, "onComplete"))
  BY DEF FxPendInv, FxLead
<1>7. CASE s.pend[1][1] = "onComplete"
  <2>1. /\ Cardinality(FxPlaces(t.log, "onComplete")) = Cardinality(FxPlaces(s.log, "onComplete")) + 1
        /\ FxPlaces(t.log, "link") = FxPlaces(s.log, "link")
    BY <1>1, <1>7 DEF FxTells, FxCounted
  <2> QED
    BY <1>4, <1>5, <1>6, <2>1 DEF FxPendInv, FxLead
<1>8. CASE s.pend[1][1] \in {"unwheel", "setOpen"}
  <2>1. t.log = s.log
    BY <1>1, <1>8 DEF FxTells
  <2> QED
    BY <1>4, <1>6, <1>8, <2>1 DEF FxPendInv, FxLead
<1>9. CASE s.pend[1][1] = "link"
  <2>1. /\ Cardinality(FxPlaces(t.log, "link")) = Cardinality(FxPlaces(s.log, "link")) + 1
        /\ FxPlaces(t.log, "onComplete") = FxPlaces(s.log, "onComplete")
    BY <1>1, <1>9 DEF FxTells, FxCounted
  <2>2. ASSUME t.pend # <<>> PROVE t.pend[1][1] = "onComplete"
    <3>1. n # 1
      <4>1. t.pend = <<>> \/ Len(t.pend) # 0
        BY <1>1, EmptySeq
      <4>2. DOMAIN t.pend = 1 .. Len(t.pend) /\ Len(t.pend) \in Nat
        BY <1>1, LenProperties
      <4> QED
        BY <1>3, <2>2, <4>1, <4>2
    <3>2. 1 \in 1 .. n - 1 /\ 2 \in DOMAIN s.pend
      BY <1>3, <3>1
    <3>3. t.pend[1] = s.pend[2]
      BY <1>3, <3>2
    <3>4. /\ s.pend[2][1] = "link" => s.pend[1][1] # "link"
          /\ s.pend[2][1] \in {"unwheel", "setOpen"} => s.pend[1][1] = "onComplete"
      <4>1. \A i \in DOMAIN s.pend : i = 2 =>
              /\ s.pend[i][1] = "link" => s.pend[i - 1][1] # "link"
              /\ s.pend[i][1] \in {"unwheel", "setOpen"} => s.pend[i - 1][1] = "onComplete"
        BY <1>3 DEF FxPendInv
      <4> QED
        BY <3>2, <4>1
    <3>5. s.pend[2] \in FxCalls
      BY <1>1, <1>3, <3>2, ElementOfSeq
    <3>6. s.pend[2][1] \in {"onComplete", "unwheel", "setOpen", "link"}
      BY <3>5 DEF FxCalls
    <3> QED
      BY <1>9, <3>3, <3>4, <3>6
  <2> QED
    BY <1>4, <1>5, <1>6, <1>9, <2>1, <2>2 DEF FxPendInv, FxLead
<1>10. s.pend[1][1] \in {"onComplete", "unwheel", "setOpen", "link"}
  BY <1>1 DEF FxCalls
<1> QED
  BY <1>7, <1>8, <1>9, <1>10

\* The links remain in order.
LEMMA FxTakeChain ==
  ASSUME NEW s, FxIs(s), FxChainInv(s), s.pend # <<>>, NEW t, FxTakes(s, t)
  PROVE  FxChainInv(t)
<1>1. /\ s.pend \in Seq(FxCalls) /\ s.pend[1][3] \in Nat /\ FxTells(s, t)
      /\ t.pend = Tail(s.pend) /\ t.links = s.links /\ t.fx = s.fx
  BY FxTaking DEF FxTakes
<1>2. PICK c : c = s.pend[1]
  OBVIOUS
<1>3. PICK k : k = FxTaken(s)
  OBVIOUS
<1>4. FxTaken(t) = k
  BY <1>1, <1>3 DEF FxTaken
<1>5. /\ k \in Nat /\ FxAscends(s.log) /\ FxAscends(s.pend)
      /\ FxNumbers(s.log) \cup FxNumbers(s.pend) = 1 .. k
      /\ \A a \in FxNumbers(s.log), b \in FxNumbers(s.pend) : a < b
  BY <1>3 DEF FxChainInv, FxNumbers
<1>6. /\ FxAscends(t.pend) /\ FxNumbers(t.pend) \subseteq FxNumbers(s.pend)
      /\ c[1] # "link" => FxNumbers(t.pend) = FxNumbers(s.pend)
      /\ c[1] = "link" => /\ FxNumbers(s.pend) = {c[3]} \cup FxNumbers(t.pend)
                          /\ c[3] \in FxNumbers(s.pend)
                          /\ \A b \in FxNumbers(t.pend) : c[3] < b
  <2>1. FxLinksAfter(s.pend, t.pend)
    BY <1>1, FxTailNumbers
  <2> QED
    BY <1>2, <1>5, <2>1 DEF FxLinksAfter
<1>7. /\ FxAscends(t.log)
      /\ FxNumbers(t.log) = IF c[1] = "link" THEN FxNumbers(s.log) \cup {c[3]}
                            ELSE FxNumbers(s.log)
  <2>1. CASE t.log = s.log /\ c[1] # "link"
    BY <1>5, <2>1
  <2>2. ASSUME NEW x \in FxEvents, x[1] = c[1], x[3] = c[3],
               FxOneMore(s.log, x, t.log), FxCounted(s.log, x, t.log)
        PROVE  /\ FxAscends(t.log)
               /\ FxNumbers(t.log) = IF c[1] = "link" THEN FxNumbers(s.log) \cup {c[3]}
                                     ELSE FxNumbers(s.log)
    <3>1. PICK n : n = Len(s.log)
      OBVIOUS
    <3>2. /\ n \in Nat /\ DOMAIN s.log = 1 .. n /\ DOMAIN t.log = 1 .. n + 1
          /\ \A i \in 1 .. n : t.log[i] = s.log[i]
          /\ t.log[n + 1] = x
      BY <2>2, <3>1 DEF FxOneMore
    <3>3. \A i \in FxPlaces(s.log, "link") : i \in 1 .. n /\ t.log[i] = s.log[i]
      BY <3>2 DEF FxPlaces
    <3>4. CASE c[1] # "link"
      <4>1. FxPlaces(t.log, "link") = FxPlaces(s.log, "link")
        BY <2>2, <3>4 DEF FxCounted
      <4> QED
        BY <1>5, <3>3, <3>4, <4>1 DEF FxAscends, FxNumbers
    <3>5. CASE c[1] = "link"
      <4>1. FxPlaces(t.log, "link") = FxPlaces(s.log, "link") \cup {n + 1}
        BY <2>2, <3>2, <3>5 DEF FxPlaces
      <4>2. FxNumbers(t.log) = FxNumbers(s.log) \cup {c[3]}
        BY <2>2, <3>2, <3>3, <4>1 DEF FxNumbers
      <4>3. \A i \in FxPlaces(s.log, "link") : i < n + 1 /\ t.log[i][3] < t.log[n + 1][3]
        <5> SUFFICES ASSUME NEW i \in FxPlaces(s.log, "link")
                     PROVE  i < n + 1 /\ t.log[i][3] < t.log[n + 1][3]
          OBVIOUS
        <5>1. i \in 1 .. n /\ t.log[i] = s.log[i]
          BY <3>3
        <5>2. s.log[i][3] \in FxNumbers(s.log) /\ c[3] \in FxNumbers(s.pend)
          BY <1>6, <3>5 DEF FxNumbers
        <5>3. s.log[i][3] < c[3]
          BY <1>5, <5>2
        <5> QED
          BY <2>2, <3>2, <5>1, <5>3
      <4>4. ASSUME NEW i \in FxPlaces(t.log, "link"), NEW j \in FxPlaces(t.log, "link"), i < j
            PROVE  t.log[i][3] < t.log[j][3]
        <5>1. i # n + 1
          <6>1. j \in 1 .. n + 1
            BY <3>2, <3>3, <4>1
          <6> QED
            BY <3>2, <4>4, <6>1
        <5>2. CASE j = n + 1
          BY <4>1, <4>3, <5>1, <5>2
        <5>3. CASE j # n + 1
          <6>1. i \in FxPlaces(s.log, "link") /\ j \in FxPlaces(s.log, "link")
            BY <4>1, <5>1, <5>3
          <6>2. s.log[i][3] < s.log[j][3]
            BY <1>5, <4>4, <6>1 DEF FxAscends
          <6> QED
            BY <3>3, <6>1, <6>2
        <5> QED
          BY <5>2, <5>3
      <4> QED
        BY <3>5, <4>2, <4>4 DEF FxAscends
    <3> QED
      BY <3>4, <3>5
  <2> QED
    BY <1>1, <1>2, <2>1, <2>2 DEF FxTells
<1>8. FxNumbers(t.log) \cup FxNumbers(t.pend) = 1 .. k
  BY <1>5, <1>6, <1>7
<1>9. \A a \in FxNumbers(t.log), b \in FxNumbers(t.pend) : a < b
  BY <1>5, <1>6, <1>7
<1>10. \A i \in FxPlaces(t.log, "link"), j \in FxPlaces(t.pend, "link") :
         t.log[i][3] < t.pend[j][3]
  BY <1>9 DEF FxNumbers
<1>11. \A i \in DOMAIN t.fx["e"].chain : t.fx["e"].chain[i] = FxTaken(t) + i
  BY <1>1, <1>3, <1>4 DEF FxChainInv
<1> QED
  BY <1>4, <1>5, <1>6, <1>7, <1>8, <1>10, <1>11 DEF FxChainInv, FxNumbers

\* Nothing is missed by an effect that is over.
LEMMA FxTakeDone ==
  ASSUME NEW s, FxIs(s), FxDrawInv(s), FxDoneInv(s), s.pend # <<>>, NEW t, FxTakes(s, t)
  PROVE  FxDoneInv(t)
<1> SUFFICES ASSUME FxDone(t) PROVE
      /\ t.wheel => FxPlaces(t.pend, "unwheel") # {}
      /\ ~t.touched =>
           /\ t.now = t.target /\ \A p \in DOMAIN t.target : t.el[p] = t.target[p]
           /\ t.kind = "slide" => FxPlaces(t.pend, "setOpen") # {} \/ (t.open <=> t.el["margin"] = 0)
  BY DEF FxDoneInv
<1>1. /\ s.pend \in Seq(FxCalls) /\ FxTells(s, t) /\ t.pend = Tail(s.pend)
      /\ t.starts = s.starts /\ t.fx = s.fx
  BY FxTaking DEF FxTakes
<1>2. FxMarks(t.log, "onCancel", s.starts) = FxMarks(s.log, "onCancel", s.starts)
  BY <1>1 DEF FxTells, FxCounted
<1>3. FxDone(s)
  BY <1>1, <1>2 DEF FxDone
<1>4. ASSUME NEW e, e # s.pend[1][1], FxPlaces(s.pend, e) # {} PROVE FxPlaces(t.pend, e) # {}
  <2>1. FxMovesUp(s.pend, t.pend, e)
    BY <1>1, FxTailPlaces
  <2>2. PICK i \in FxPlaces(s.pend, e) : TRUE
    BY <1>4
  <2>3. i # 1
    BY <1>4, <2>1, <2>2 DEF FxMovesUp
  <2> QED
    BY <2>1, <2>2, <2>3 DEF FxMovesUp
<1>5. t.wheel => FxPlaces(t.pend, "unwheel") # {}
  BY <1>3, <1>4 DEF FxDoneInv, FxTakes
<1>6. ASSUME ~t.touched
      PROVE  t.now = t.target /\ \A p \in DOMAIN t.target : t.el[p] = t.target[p]
  BY <1>3, <1>6 DEF FxDoneInv, FxTakes
<1>7. ASSUME ~t.touched, t.kind = "slide"
      PROVE  FxPlaces(t.pend, "setOpen") # {} \/ (t.open <=> t.el["margin"] = 0)
  <2>1. FxPlaces(s.pend, "setOpen") # {} \/ (s.open <=> s.el["margin"] = 0)
    BY <1>3, <1>7 DEF FxDoneInv, FxTakes
  <2>2. t.el = s.el
    BY DEF FxTakes
  <2>3. CASE s.pend[1][1] = "setOpen"
    <3>1. t.open = (s.now["margin"] = 0)
      BY <2>3 DEF FxTakes
    <3>2. /\ s.now = s.target /\ \A p \in DOMAIN s.target : s.el[p] = s.target[p]
          /\ s.starts > 0 /\ s.kind = "slide"
      BY <1>3, <1>7 DEF FxDoneInv, FxDone, FxTakes
    <3>3. "margin" \in DOMAIN s.target
      BY <3>2 DEF FxDrawInv
    <3> QED
      BY <2>2, <3>1, <3>2, <3>3
  <2>4. CASE s.pend[1][1] # "setOpen"
    <3>1. t.open = s.open
      BY <2>4 DEF FxTakes
    <3> QED
      BY <1>4, <2>1, <2>2, <2>4, <3>1
  <2> QED
    BY <2>3, <2>4
<1> QED
  BY <1>5, <1>6, <1>7

\* Any of them.
LEMMA FxTakeStep ==
  ASSUME NEW s, FxInvOf(s), s.pend # <<>>, NEW t, FxTakes(s, t)
  PROVE  FxInvOf(t)
<1>1. FxIs(s) /\ FxRunInv(s) /\ FxAnswerInv(s) /\ FxPendInv(s) /\ FxChainInv(s)
      /\ FxDrawInv(s) /\ FxDoneInv(s)
  BY DEF FxInvOf
<1>2. t.pend \in Seq(FxCalls) /\ t.log \in Seq(FxEvents)
  BY <1>1, FxTaking
<1>3. t.wheel \in BOOLEAN /\ t.open \in BOOLEAN /\ t.touched \in BOOLEAN
  <2>1. s.wheel \in BOOLEAN /\ s.open \in BOOLEAN /\ s.touched \in BOOLEAN
    BY <1>1 DEF FxIs
  <2>2. (s.now["margin"] = 0) \in BOOLEAN
    OBVIOUS
  <2> QED
    BY <2>1, <2>2 DEF FxTakes
<1>4. FxIs(t)
  BY <1>1, <1>2, <1>3 DEF FxIs, FxTakes
<1>5. FxRunInv(t)
  BY <1>1 DEF FxRunInv, FxTakes
<1>6. FxDrawInv(t)
  <2>1. t.wheel = s.wheel \/ t.wheel = FALSE
    BY DEF FxTakes
  <2> QED
    BY <1>1, <2>1 DEF FxDrawInv, FxSlots, FxTakes
<1> QED
  BY <1>1, <1>4, <1>5, <1>6, FxTakeAnswers, FxTakeOrder, FxTakeChain, FxTakeDone DEF FxInvOf

-----------------------------------------------------------------------------
(* Every step.                                                             *)

\* What the page asks for are slots of the effect.
LEMMA FxArgsSlots ==
  ASSUME NEW s, s.kind \in FxKinds, NEW to \in FxArgs(s)
  PROVE  DOMAIN to \subseteq FxSlots(s) /\ (s.kind = "slide" => "margin" \in DOMAIN to)
<1>1. CASE s.kind = "style"
  BY <1>1 DEF FxArgs, FxStyleArgs, FxSlots, FxClass, FxStyleClass
<1>2. CASE s.kind = "styles"
  BY <1>2 DEF FxArgs, FxStylesArgs, FxSlots, FxClass, FxStylesClass
<1>3. CASE s.kind = "elements"
  BY <1>3 DEF FxArgs, FxElementsArgs, FxSlots, FxClass, FxElementsClass
<1>4. CASE s.kind = "scroll"
  BY <1>4 DEF FxArgs, FxScrollArgs, FxSlots, FxClass, FxScrollClass
<1>5. CASE s.kind = "slide"
  BY <1>5 DEF FxArgs, FxSlideArgs, FxToggle, FxSlideIn, FxSlideOut, FxSlots, FxClass, FxSlideClass
<1> QED
  BY <1>1, <1>2, <1>3, <1>4, <1>5 DEF FxKinds, FxClass

\* Only the slots of an effect that has not ended, or that the page has set, change.
FxDraws(s, t) ==
  /\ FxSameCore(s, t) /\ t.to = s.to /\ t.target = s.target /\ t.wheel = s.wheel
  /\ DOMAIN t.el = DOMAIN s.el /\ t.open \in BOOLEAN /\ t.touched \in BOOLEAN
  /\ s.fx["e"].run # 0 \/ t.touched

\* That breaks nothing.
LEMMA FxDrawStep ==
  ASSUME NEW s, FxInvOf(s), NEW t, FxDraws(s, t)
  PROVE  FxInvOf(t)
<1>1. FxSameCore(s, t) /\ t.wheel \in BOOLEAN /\ t.open \in BOOLEAN /\ t.touched \in BOOLEAN
  BY DEF FxDraws, FxInvOf, FxIs
<1>2. FxDrawInv(t)
  BY DEF FxInvOf, FxDrawInv, FxDraws, FxSameCore, FxSlots
<1>3. FxDoneInv(t)
  BY DEF FxInvOf, FxDoneInv, FxDone, FxDraws, FxSameCore
<1> QED
  BY <1>1, <1>2, <1>3, FxDrawKeeps

\* A start of the page.
LEMMA FxPageStartStep ==
  ASSUME FxInv, FxPageStart
  PROVE  FxInv'
<1>1. PICK to \in FxArgs(fx) : fx' = FxStart(fx, to)
  BY DEF FxPageStart
<1>2. DOMAIN to \subseteq FxSlots(fx) /\ (fx.kind = "slide" => "margin" \in DOMAIN to)
  BY FxArgsSlots DEF FxInv, FxInvOf, FxIs
<1>3. FxInvOf(fx')
  BY <1>1, <1>2, FxStartKeeps DEF FxInv
<1> QED
  BY <1>3 DEF FxInv

\* What the page sets.
LEMMA FxSetKeeps ==
  ASSUME NEW s, FxInvOf(s), NEW to, NEW b \in BOOLEAN, NEW t,
         \/ t = [[FxSet(s, to) EXCEPT !.open = b] EXCEPT !.touched = TRUE]
         \/ t = [FxSet(s, to) EXCEPT !.touched = TRUE]
  PROVE  FxInvOf(t)
<1>1. DOMAIN s = FxFields /\ s.open \in BOOLEAN
  BY DEF FxInvOf, FxIs
<1>2. PICK d : d = FxSet(s, to)
  OBVIOUS
<1>3. /\ DOMAIN d = FxFields /\ FxSameCore(s, d) /\ d.to = s.to /\ d.target = s.target
      /\ d.wheel = s.wheel /\ DOMAIN d.el = DOMAIN s.el /\ d.open = s.open
  BY <1>1, <1>2 DEF FxSet, FxIncrease, FxFields, FxSameCore
<1>4. /\ FxSameCore(s, t) /\ t.to = s.to /\ t.target = s.target
      /\ t.wheel = s.wheel /\ DOMAIN t.el = DOMAIN s.el /\ t.touched = TRUE
      /\ t.open = b \/ t.open = s.open
  <2>1. CASE t = [[d EXCEPT !.open = b] EXCEPT !.touched = TRUE]
    BY <1>1, <1>3, <2>1 DEF FxFields, FxSameCore
  <2>2. CASE t = [d EXCEPT !.touched = TRUE]
    BY <1>1, <1>3, <2>2 DEF FxFields, FxSameCore
  <2> QED
    BY <1>2, <2>1, <2>2
<1>5. t.open \in BOOLEAN
  BY <1>1, <1>4
<1>6. FxDraws(s, t)
  BY <1>4, <1>5 DEF FxDraws
<1> QED
  BY <1>6, FxDrawStep

\* set(), and hide() and show() of a slide.
LEMMA FxPageSetStep ==
  ASSUME FxInv, FxPageSet
  PROVE  FxInv'
<1>1. CASE fx.kind = "slide"
  <2>1. PICK b \in BOOLEAN : fx' = [FxHideShow(fx, b) EXCEPT !.touched = TRUE]
    BY <1>1 DEF FxPageSet
  <2>2. PICK to : to = IF b THEN FxSlideIn ELSE FxSlideOut
    OBVIOUS
  <2>3. fx' = [[FxSet(fx, to) EXCEPT !.open = b] EXCEPT !.touched = TRUE]
    BY <2>1, <2>2 DEF FxHideShow
  <2> QED
    BY <2>3, FxSetKeeps DEF FxInv
<1>2. CASE fx.kind # "slide"
  <2>1. PICK to \in FxArgs(fx) : fx' = [FxSet(fx, to) EXCEPT !.touched = TRUE]
    BY <1>2 DEF FxPageSet
  <2> QED
    BY <2>1, FxSetKeeps DEF FxInv
<1> QED
  BY <1>1, <1>2

\* A frame.
LEMMA FxTimerFrameStep ==
  ASSUME FxInv, FxTimerFrame
  PROVE  FxInv'
<1>1. fx' = FxFrame(fx) /\ fx.fx["e"].run # 0
  BY DEF FxTimerFrame, FxInv, FxInvOf, FxRunInv
<1>2. DOMAIN fx = FxFields /\ fx.open \in BOOLEAN /\ fx.touched \in BOOLEAN
  BY DEF FxInv, FxInvOf, FxIs
<1>3. CASE fx' = fx
  BY <1>3 DEF FxInv
<1>4. CASE fx' # fx
  <2>1. PICK now : fx' = FxIncrease([fx EXCEPT !.now = now])
    BY <1>1, <1>4 DEF FxFrame
  <2>2. /\ FxSameCore(fx, fx') /\ fx'.to = fx.to /\ fx'.target = fx.target
        /\ fx'.wheel = fx.wheel /\ DOMAIN fx'.el = DOMAIN fx.el
        /\ fx'.open = fx.open /\ fx'.touched = fx.touched
    BY <1>2, <2>1 DEF FxIncrease, FxFields, FxSameCore
  <2>3. fx'.open \in BOOLEAN /\ fx'.touched \in BOOLEAN
    BY <1>2, <2>2
  <2>4. FxDraws(fx, fx')
    BY <1>1, <2>2, <2>3 DEF FxDraws
  <2> QED
    BY <2>4, FxDrawStep DEF FxInv
<1> QED
  BY <1>3, <1>4

\* One more link.
LEMMA FxPageChainStep ==
  ASSUME FxInv, FxPageChain
  PROVE  FxInv'
<1>1. FxIs(fx) /\ FxRunInv(fx) /\ FxAnswerInv(fx) /\ FxPendInv(fx) /\ FxChainInv(fx)
      /\ FxDrawInv(fx) /\ FxDoneInv(fx)
  BY DEF FxInv, FxInvOf
<1>2. PICK c : c = fx.fx["e"].chain
  OBVIOUS
<1>3. PICK n : n = fx.links + 1
  OBVIOUS
<1>4. fx' = [[fx EXCEPT !.fx["e"].chain = Append(@, n)] EXCEPT !.links = n]
  BY <1>1, <1>3 DEF FxPageChain, MooChain, FxIs, FxFields
<1>5. /\ DOMAIN fx' = FxFields /\ DOMAIN fx'.fx = {"e"}
      /\ DOMAIN fx'.fx["e"] = {"wait", "run", "ripe", "chain"}
      /\ fx'.fx["e"].wait = fx.fx["e"].wait /\ fx'.fx["e"].run = fx.fx["e"].run
      /\ fx'.fx["e"].ripe = fx.fx["e"].ripe /\ fx'.fx["e"].chain = Append(c, n)
      /\ fx'.log = fx.log /\ fx'.pend = fx.pend /\ fx'.links = n
      /\ fx'.starts = fx.starts /\ FxSameDraw(fx, fx')
  BY <1>1, <1>2, <1>4 DEF FxIs, FxFields, FxSameDraw
<1>6. c \in Seq(Nat) /\ n \in Nat /\ fx.links \in Nat
  BY <1>1, <1>2, <1>3 DEF FxIs
<1>7. /\ Append(c, n) \in Seq(Nat) /\ Len(c) \in Nat /\ Len(Append(c, n)) = Len(c) + 1
      /\ DOMAIN c = 1 .. Len(c) /\ DOMAIN Append(c, n) = 1 .. Len(c) + 1
      /\ \A i \in 1 .. Len(c) : Append(c, n)[i] = c[i]
      /\ Append(c, n)[Len(c) + 1] = n
  BY <1>6, FxAppended
<1>8. FxIs(fx')
  <2>1. fx'.wheel \in BOOLEAN /\ fx'.open \in BOOLEAN /\ fx'.touched \in BOOLEAN
        /\ fx'.kind \in FxKinds
    BY <1>1, <1>5 DEF FxIs, FxSameDraw
  <2> QED
    BY <1>1, <1>5, <1>6, <1>7, <2>1 DEF FxIs
<1>9. FxRunInv(fx')
  BY <1>1, <1>5 DEF FxRunInv
<1>10. FxAnswerInv(fx')
  BY <1>1, <1>5 DEF FxAnswerInv, FxAnswerOf
<1>11. FxPendInv(fx')
  BY <1>1, <1>5 DEF FxPendInv, FxLead
<1>12. FxChainInv(fx')
  <2>1. FxTaken(fx) = fx.links - Len(c) /\ FxTaken(fx) \in Nat
    <3>1. FxTaken(fx) \in Nat
      BY <1>1 DEF FxChainInv
    <3> QED
      BY <1>2, <3>1 DEF FxTaken
  <2>2. FxTaken(fx') = FxTaken(fx)
    <3>1. FxTaken(fx') = (fx.links + 1) - (Len(c) + 1)
      BY <1>3, <1>5, <1>7 DEF FxTaken
    <3> QED
      BY <1>6, <1>7, <2>1, <3>1
  <2>3. \A i \in DOMAIN c : c[i] = FxTaken(fx) + i
    BY <1>1, <1>2 DEF FxChainInv
  <2>4. ASSUME NEW i \in DOMAIN Append(c, n) PROVE Append(c, n)[i] = FxTaken(fx) + i
    <3>1. CASE i = Len(c) + 1
      BY <1>3, <1>6, <1>7, <2>1, <3>1
    <3>2. CASE i \in 1 .. Len(c)
      BY <1>7, <2>3, <3>2
    <3> QED
      BY <1>7, <3>1, <3>2
  <2> QED
    BY <1>1, <1>5, <2>1, <2>2, <2>4 DEF FxChainInv
<1>13. FxDrawInv(fx')
  BY <1>1, <1>5 DEF FxDrawInv, FxSameDraw, FxSlots
<1>14. FxDoneInv(fx')
  BY <1>1, <1>5 DEF FxDoneInv, FxDone, FxSameDraw
<1> QED
  BY <1>8, <1>9, <1>10, <1>11, <1>12, <1>13, <1>14 DEF FxInv, FxInvOf

\* The clock goes on.
LEMMA FxTimerRipeStep ==
  ASSUME FxInv, FxTimerRipe
  PROVE  FxInv'
<1>1. FxIs(fx) /\ FxRunInv(fx) /\ FxAnswerInv(fx) /\ FxPendInv(fx) /\ FxChainInv(fx)
      /\ FxDrawInv(fx) /\ FxDoneInv(fx)
  BY DEF FxInv, FxInvOf
<1>2. fx' = [fx EXCEPT !.fx["e"].ripe = TRUE] /\ fx.fx["e"].run # 0
  BY DEF FxTimerRipe, MooCanRipen, MooRipen
<1>3. /\ DOMAIN fx' = FxFields /\ DOMAIN fx'.fx = {"e"}
      /\ DOMAIN fx'.fx["e"] = {"wait", "run", "ripe", "chain"}
      /\ fx'.fx["e"].wait = fx.fx["e"].wait /\ fx'.fx["e"].run = fx.fx["e"].run
      /\ fx'.fx["e"].ripe = TRUE /\ fx'.fx["e"].chain = fx.fx["e"].chain
      /\ fx'.log = fx.log /\ fx'.pend = fx.pend /\ fx'.links = fx.links
      /\ fx'.starts = fx.starts /\ FxSameDraw(fx, fx')
  BY <1>1, <1>2 DEF FxIs, FxFields, FxSameDraw
<1>4. FxIs(fx')
  <2>1. fx'.wheel \in BOOLEAN /\ fx'.open \in BOOLEAN /\ fx'.touched \in BOOLEAN
        /\ fx'.kind \in FxKinds /\ fx'.fx["e"].ripe \in BOOLEAN
    BY <1>1, <1>3 DEF FxIs, FxSameDraw
  <2> QED
    BY <1>1, <1>3, <2>1 DEF FxIs
<1>5. FxRunInv(fx')
  BY <1>1, <1>2, <1>3 DEF FxRunInv
<1>6. FxAnswerInv(fx')
  BY <1>1, <1>3 DEF FxAnswerInv, FxAnswerOf
<1>7. FxPendInv(fx')
  BY <1>1, <1>3 DEF FxPendInv, FxLead
<1>8. FxChainInv(fx')
  BY <1>1, <1>3 DEF FxChainInv, FxTaken
<1>9. FxDrawInv(fx')
  BY <1>1, <1>3 DEF FxDrawInv, FxSameDraw, FxSlots
<1>10. FxDoneInv(fx')
  BY <1>1, <1>3 DEF FxDoneInv, FxDone, FxSameDraw
<1> QED
  BY <1>4, <1>5, <1>6, <1>7, <1>8, <1>9, <1>10 DEF FxInv, FxInvOf

\* A delayed call.
LEMMA FxDelayedStep ==
  ASSUME FxInv, FxDelayed
  PROVE  FxInv'
<1>1. FxInvOf(fx) /\ FxIs(fx) /\ fx.pend # <<>>
  BY DEF FxDelayed, FxInv, FxInvOf
<1>2. PICK to \in FxArgs(fx) : fx' = FxCall(MooTake(fx), Head(fx.pend), to)
  BY DEF FxDelayed
<1>3. DOMAIN to \subseteq FxSlots(fx) /\ (fx.kind = "slide" => "margin" \in DOMAIN to)
  BY <1>1, FxArgsSlots DEF FxIs
<1>4. PICK c : c = Head(fx.pend)
  OBVIOUS
<1>5. fx.pend \in Seq(FxCalls) /\ DOMAIN fx = FxFields
  BY <1>1 DEF FxIs
<1>6. c = fx.pend[1] /\ c \in FxCalls
  BY <1>1, <1>4, <1>5, FxTailed
<1>7. PICK u : u = MooTake(fx)
  OBVIOUS
<1>8. /\ DOMAIN u = FxFields /\ u.kind = fx.kind /\ u.fx = fx.fx /\ u.pend = Tail(fx.pend)
      /\ u.starts = fx.starts /\ u.links = fx.links /\ u.el = fx.el /\ u.now = fx.now
      /\ u.to = fx.to /\ u.target = fx.target /\ u.touched = fx.touched
      /\ u.log = fx.log /\ u.wheel = fx.wheel /\ u.open = fx.open
  BY <1>5, <1>7 DEF MooTake, FxFields
<1>9. CASE c[1] = "onComplete"
  <2>1. fx' = MooFire(u, "onComplete", "e", c[3])
    BY <1>2, <1>4, <1>7, <1>9 DEF FxCall
  <2>2. FxTakes(fx, fx')
    BY <1>6, <1>8, <1>9, <2>1 DEF FxTakes, MooFire, FxFields
  <2> QED
    BY <1>1, <2>2, FxTakeStep DEF FxInv
<1>10. CASE c[1] = "unwheel"
  <2>1. fx' = [u EXCEPT !.wheel = FALSE]
    BY <1>2, <1>4, <1>7, <1>10 DEF FxCall
  <2>2. FxTakes(fx, fx')
    BY <1>6, <1>8, <1>10, <2>1 DEF FxTakes, FxFields
  <2> QED
    BY <1>1, <2>2, FxTakeStep DEF FxInv
<1>11. CASE c[1] = "setOpen"
  <2>1. fx' = [u EXCEPT !.open = (u.now.margin = 0)]
    BY <1>2, <1>4, <1>7, <1>11 DEF FxCall
  <2>2. FxTakes(fx, fx')
    BY <1>6, <1>8, <1>11, <2>1 DEF FxTakes, FxFields
  <2> QED
    BY <1>1, <2>2, FxTakeStep DEF FxInv
<1>12. CASE c[1] = "link"
  <2>1. PICK t : t = MooFire(u, "link", "e", c[3])
    OBVIOUS
  <2>2. FxTakes(fx, t)
    BY <1>6, <1>8, <1>12, <2>1 DEF FxTakes, MooFire, FxFields
  <2>3. FxInvOf(t) /\ t.kind = fx.kind
    BY <1>1, <2>2, FxTakeStep DEF FxTakes
  <2>4. fx' = t \/ fx' = FxStart(t, to)
    BY <1>2, <1>4, <1>7, <1>12, <2>1 DEF FxCall
  <2>5. DOMAIN to \subseteq FxSlots(t) /\ (t.kind = "slide" => "margin" \in DOMAIN to)
    BY <1>3, <2>3 DEF FxSlots
  <2>6. FxInvOf(fx')
    BY <2>3, <2>4, <2>5, FxStartKeeps
  <2> QED
    BY <2>6 DEF FxInv
<1> QED
  BY <1>6, <1>9, <1>10, <1>11, <1>12 DEF FxCalls

\* An effect nobody has started.
LEMMA FxInitInv == FxInit => FxInv
<1> SUFFICES ASSUME FxInit PROVE FxInvOf(fx)
  BY DEF FxInv
<1>1. PICK k \in FxKinds, w \in BOOLEAN :
        fx = [kind |-> k, fx |-> [e |-> MooEffect(w)], pend |-> <<>>, log |-> <<>>,
              el |-> [p \in FxClass[k].slots |-> IF p = "size" THEN FxSize ELSE 0],
              now |-> FxNone, from |-> FxNone, to |-> FxNone, css |-> {},
              wheel |-> FALSE, open |-> TRUE, starts |-> 0, links |-> 0,
              target |-> FxNone, touched |-> FALSE]
  BY DEF FxInit
<1>2. /\ DOMAIN fx = FxFields /\ fx.kind = k /\ DOMAIN fx.fx = {"e"}
      /\ fx.fx["e"] = MooEffect(w) /\ fx.pend = <<>> /\ fx.log = <<>>
      /\ DOMAIN fx.el = FxClass[k].slots /\ fx.to = FxNone /\ fx.target = FxNone
      /\ fx.wheel = FALSE /\ fx.open = TRUE /\ fx.touched = FALSE
      /\ fx.starts = 0 /\ fx.links = 0
  BY <1>1 DEF FxFields
<1>3. /\ DOMAIN fx.fx["e"] = {"wait", "run", "ripe", "chain"} /\ fx.fx["e"].wait = w
      /\ fx.fx["e"].run = 0 /\ fx.fx["e"].ripe = FALSE /\ fx.fx["e"].chain = <<>>
  BY <1>2 DEF MooEffect
<1>4. /\ <<>> \in Seq(Nat) /\ <<>> \in Seq(FxEvents) /\ <<>> \in Seq(FxCalls)
      /\ Len(<<>>) = 0 /\ DOMAIN <<>> = {}
  OBVIOUS
<1>5. FxIs(fx)
  <2>1. /\ fx.fx["e"].wait \in BOOLEAN /\ fx.fx["e"].ripe \in BOOLEAN
        /\ fx.wheel \in BOOLEAN /\ fx.open \in BOOLEAN /\ fx.touched \in BOOLEAN
    BY <1>2, <1>3
  <2>2. /\ fx.fx["e"].chain \in Seq(Nat) /\ fx.log \in Seq(FxEvents) /\ fx.pend \in Seq(FxCalls)
    BY <1>2, <1>3, <1>4
  <2> QED
    BY <1>2, <1>3, <2>1, <2>2 DEF FxIs
<1>6. \A e : FxPlaces(<<>>, e) = {}
  BY <1>4 DEF FxPlaces
<1>7. FxRunInv(fx)
  BY <1>3 DEF FxRunInv
<1>8. FxAnswerInv(fx)
  BY <1>2, <1>4 DEF FxAnswerInv
<1>9. FxPendInv(fx)
  <2>1. Cardinality({}) = 0
    BY FS_EmptySet
  <2>2. /\ Cardinality(FxPlaces(fx.log, "link")) = 0
        /\ Cardinality(FxPlaces(fx.log, "onComplete")) = 0
    BY <1>2, <1>6, <2>1
  <2>3. DOMAIN fx.pend = {}
    BY <1>2, <1>4
  <2> QED
    BY <1>2, <2>2, <2>3 DEF FxPendInv
<1>10. FxChainInv(fx)
  <2>1. FxTaken(fx) = 0
    <3>1. Len(fx.fx["e"].chain) = 0
      BY <1>3, <1>4
    <3> QED
      BY <1>2, <3>1 DEF FxTaken
  <2> QED
    BY <1>2, <1>3, <1>4, <1>6, <2>1 DEF FxChainInv, FxAscends
<1>11. FxDrawInv(fx)
  BY <1>2 DEF FxDrawInv, FxSlots, FxNone
<1>12. FxDoneInv(fx)
  BY <1>2 DEF FxDoneInv, FxDone
<1> QED
  BY <1>5, <1>7, <1>8, <1>9, <1>10, <1>11, <1>12 DEF FxInvOf

\* Every step keeps it.
LEMMA FxNextInv == FxInv /\ [FxNext]_fx => FxInv'
<1> SUFFICES ASSUME FxInv, [FxNext]_fx PROVE FxInv'
  OBVIOUS
<1>1. CASE FxPageStart
  BY <1>1, FxPageStartStep
<1>2. CASE FxPageStop
  <2>1. FxStops(fx, fx')
    BY <1>2 DEF FxPageStop, FxStops
  <2> QED
    BY <2>1, FxStopStep DEF FxInv
<1>3. CASE FxPageSet
  BY <1>3, FxPageSetStep
<1>4. CASE FxPageChain
  BY <1>4, FxPageChainStep
<1>5. CASE FxTimerFrame
  BY <1>5, FxTimerFrameStep
<1>6. CASE FxTimerFinish
  BY <1>6, FxFinishPart DEF FxTimerFinish, MooCanFinish, FxInv
<1>7. CASE FxTimerRipe
  BY <1>7, FxTimerRipeStep
<1>8. CASE FxDelayed
  BY <1>8, FxDelayedStep
<1>9. CASE UNCHANGED fx
  BY <1>9 DEF FxInv
<1> QED
  BY <1>1, <1>2, <1>3, <1>4, <1>5, <1>6, <1>7, <1>8, <1>9 DEF FxNext

-----------------------------------------------------------------------------
(* What follows.                                                           *)

FxJoins(q, r, t) ==
  /\ FxNumbers(t) = FxNumbers(q) \cup FxNumbers(r)
  /\ (FxAscends(q) /\ FxAscends(r) /\ \A a \in FxNumbers(q), b \in FxNumbers(r) : a < b)
       => FxAscends(t)

\* The links of one sequence behind those of another.
LEMMA FxJoined ==
  ASSUME NEW X, NEW q \in Seq(X), NEW r \in Seq(X), NEW t, t = q \o r
  PROVE  t \in Seq(X) /\ FxJoins(q, r, t)
<1>1. PICK m : m = Len(q)
  OBVIOUS
<1>2. PICK n : n = Len(r)
  OBVIOUS
<1>3. /\ t \in Seq(X) /\ m \in Nat /\ n \in Nat /\ DOMAIN q = 1 .. m /\ DOMAIN r = 1 .. n
      /\ DOMAIN t = 1 .. m + n
      /\ \A i \in 1 .. m + n : t[i] = IF i <= m THEN q[i] ELSE r[i - m]
  BY <1>1, <1>2, ConcatProperties, LenProperties
<1>4. ASSUME NEW i \in FxPlaces(q, "link")
      PROVE  i \in 1 .. m /\ i \in FxPlaces(t, "link") /\ t[i] = q[i]
  <2>1. i \in 1 .. m /\ q[i][1] = "link"
    BY <1>3 DEF FxPlaces
  <2>2. i \in 1 .. m + n /\ t[i] = q[i]
    BY <1>3, <2>1
  <2> QED
    BY <1>3, <2>1, <2>2 DEF FxPlaces
<1>5. ASSUME NEW j \in FxPlaces(r, "link")
      PROVE  \E i \in FxPlaces(t, "link") : t[i] = r[j]
  <2>1. j \in 1 .. n /\ r[j][1] = "link"
    BY <1>3 DEF FxPlaces
  <2>2. m + j \in 1 .. m + n /\ ~(m + j <= m) /\ (m + j) - m = j
    BY <1>3, <2>1
  <2>3. t[m + j] = r[j]
    BY <1>3, <2>2
  <2>4. m + j \in FxPlaces(t, "link")
    BY <1>3, <2>1, <2>2, <2>3 DEF FxPlaces
  <2> QED
    BY <2>3, <2>4
<1>6. ASSUME NEW i \in FxPlaces(t, "link")
      PROVE  /\ i \in 1 .. m + n
             /\ i <= m => i \in FxPlaces(q, "link") /\ t[i] = q[i]
             /\ ~(i <= m) => i - m \in FxPlaces(r, "link") /\ t[i] = r[i - m]
  <2>1. i \in 1 .. m + n /\ t[i][1] = "link"
    BY <1>3 DEF FxPlaces
  <2>2. CASE i <= m
    <3>1. i \in 1 .. m /\ t[i] = q[i]
      BY <1>3, <2>1, <2>2
    <3> QED
      BY <1>3, <2>1, <2>2, <3>1 DEF FxPlaces
  <2>3. CASE ~(i <= m)
    <3>1. i - m \in 1 .. n /\ t[i] = r[i - m]
      BY <1>3, <2>1, <2>3
    <3> QED
      BY <1>3, <2>1, <2>3, <3>1 DEF FxPlaces
  <2> QED
    BY <2>1, <2>2, <2>3
<1>7. FxNumbers(t) = FxNumbers(q) \cup FxNumbers(r)
  <2>1. ASSUME NEW a \in FxNumbers(t) PROVE a \in FxNumbers(q) \cup FxNumbers(r)
    <3>1. PICK i \in FxPlaces(t, "link") : a = t[i][3]
      BY DEF FxNumbers
    <3>2. CASE i <= m
      BY <1>6, <3>1, <3>2 DEF FxNumbers
    <3>3. CASE ~(i <= m)
      <4>1. i - m \in FxPlaces(r, "link") /\ t[i] = r[i - m]
        BY <1>6, <3>3
      <4> QED
        BY <3>1, <4>1 DEF FxNumbers
    <3> QED
      BY <3>2, <3>3
  <2>2. FxNumbers(q) \subseteq FxNumbers(t)
    BY <1>4 DEF FxNumbers
  <2>3. FxNumbers(r) \subseteq FxNumbers(t)
    <3> SUFFICES ASSUME NEW j \in FxPlaces(r, "link") PROVE r[j][3] \in FxNumbers(t)
      BY DEF FxNumbers
    <3>1. PICK i \in FxPlaces(t, "link") : t[i] = r[j]
      BY <1>5
    <3> QED
      BY <3>1 DEF FxNumbers
  <2> QED
    BY <2>1, <2>2, <2>3
<1>8. ASSUME FxAscends(q), FxAscends(r),
             \A a \in FxNumbers(q), b \in FxNumbers(r) : a < b
      PROVE  FxAscends(t)
  <2> SUFFICES ASSUME NEW i \in FxPlaces(t, "link"), NEW j \in FxPlaces(t, "link"), i < j
               PROVE  t[i][3] < t[j][3]
    BY DEF FxAscends
  <2>1. i \in 1 .. m + n /\ j \in 1 .. m + n
    BY <1>6
  <2>2. CASE j <= m
    <3>1. i <= m
      BY <1>3, <2>1, <2>2
    <3>2. /\ i \in FxPlaces(q, "link") /\ t[i] = q[i]
          /\ j \in FxPlaces(q, "link") /\ t[j] = q[j]
      BY <1>6, <2>2, <3>1
    <3> QED
      BY <1>8, <3>2 DEF FxAscends
  <2>3. CASE i <= m /\ ~(j <= m)
    <3>1. /\ i \in FxPlaces(q, "link") /\ t[i] = q[i]
          /\ j - m \in FxPlaces(r, "link") /\ t[j] = r[j - m]
      BY <1>6, <2>3
    <3>2. q[i][3] \in FxNumbers(q) /\ r[j - m][3] \in FxNumbers(r)
      BY <3>1 DEF FxNumbers
    <3> QED
      BY <1>8, <3>1, <3>2
  <2>4. CASE ~(i <= m)
    <3>1. ~(j <= m) /\ i - m < j - m
      BY <1>3, <2>1, <2>4
    <3>2. /\ i - m \in FxPlaces(r, "link") /\ t[i] = r[i - m]
          /\ j - m \in FxPlaces(r, "link") /\ t[j] = r[j - m]
      BY <1>6, <2>4, <3>1
    <3>3. r[i - m][3] < r[j - m][3]
      BY <1>8, <3>1, <3>2 DEF FxAscends
    <3> QED
      BY <3>2, <3>3
  <2> QED
    BY <1>3, <2>1, <2>2, <2>3, <2>4
<1> QED
  BY <1>3, <1>7, <1>8 DEF FxJoins

\* Every start is answered once.
LEMMA FxInvAnswered == FxInv => FxAnswered
BY DEF FxInv, FxInvOf, FxAnswerInv, FxAnswerOf, FxAnswered, FxCount, FxWaiting

\* The links are called in order.
LEMMA FxInvChained == FxInv => FxChained
<1> SUFFICES ASSUME FxInv PROVE FxChained
  OBVIOUS
<1>1. FxIs(fx) /\ FxPendInv(fx) /\ FxChainInv(fx)
  BY DEF FxInv, FxInvOf
<1>2. PICK c : c = fx.fx["e"].chain
  OBVIOUS
<1>3. PICK k : k = FxTaken(fx)
  OBVIOUS
<1>4. PICK n : n = Len(c)
  OBVIOUS
<1>5. /\ c \in Seq(Nat) /\ n \in Nat /\ DOMAIN c = 1 .. n /\ k \in Nat
      /\ fx.links \in Nat /\ k + n = fx.links /\ \A i \in 1 .. n : c[i] = k + i
  <2>1. c \in Seq(Nat) /\ fx.links \in Nat
    BY <1>1, <1>2 DEF FxIs
  <2>2. n \in Nat /\ DOMAIN c = 1 .. n
    BY <1>4, <2>1, LenProperties
  <2>3. k \in Nat /\ \A i \in DOMAIN c : c[i] = k + i
    BY <1>1, <1>2, <1>3 DEF FxChainInv
  <2>4. k = fx.links - n
    BY <1>2, <1>3, <1>4 DEF FxTaken
  <2>5. k + n = fx.links
    BY <2>1, <2>2, <2>4
  <2>6. \A i \in 1 .. n : c[i] = k + i
    BY <2>2, <2>3
  <2> QED
    BY <2>1, <2>2, <2>3, <2>5, <2>6
<1>6. PICK r : r = [i \in DOMAIN c |-> <<"link", "e", c[i]>>]
  OBVIOUS
<1> DEFINE X == FxEvents \cup FxCalls
<1>7. /\ r \in Seq(X) /\ DOMAIN r = 1 .. n
      /\ \A i \in 1 .. n : r[i][1] = "link" /\ r[i][3] = k + i
  <2>1. \A i \in 1 .. n : <<"link", "e", c[i]>> \in FxCalls
    BY <1>5 DEF FxCalls
  <2>2. r \in [1 .. n -> X]
    BY <1>5, <1>6, <2>1
  <2>3. r \in Seq(X)
    BY <1>5, <2>2
  <2>4. DOMAIN r = 1 .. n
    BY <1>5, <1>6
  <2>5. \A i \in 1 .. n : r[i][1] = "link" /\ r[i][3] = k + i
    BY <1>5, <1>6
  <2> QED
    BY <2>3, <2>4, <2>5
<1>8. fx.log \in Seq(X) /\ fx.pend \in Seq(X)
  BY <1>1 DEF FxIs
<1> HIDE DEF X
<1>9. PICK p : p = fx.log \o fx.pend
  OBVIOUS
<1>10. PICK l : l = p \o r
  OBVIOUS
<1>11. p \in Seq(X) /\ FxJoins(fx.log, fx.pend, p)
  BY <1>8, <1>9, FxJoined
<1>12. l \in Seq(X) /\ FxJoins(p, r, l)
  BY <1>7, <1>10, <1>11, FxJoined
<1>13. FxPlaces(r, "link") = 1 .. n
  BY <1>7 DEF FxPlaces
<1>14. FxNumbers(r) = {k + i : i \in 1 .. n} /\ FxAscends(r)
  <2>1. FxNumbers(r) = {k + i : i \in 1 .. n}
    BY <1>7, <1>13 DEF FxNumbers
  <2>2. FxAscends(r)
    BY <1>5, <1>7, <1>13 DEF FxAscends
  <2> QED
    BY <2>1, <2>2
<1>15. FxNumbers(p) = 1 .. k /\ FxAscends(p)
  <2>1. FxNumbers(fx.log) \cup FxNumbers(fx.pend) = 1 .. k /\ FxAscends(fx.log) /\ FxAscends(fx.pend)
    BY <1>1, <1>3 DEF FxChainInv, FxNumbers
  <2>2. \A a \in FxNumbers(fx.log), b \in FxNumbers(fx.pend) : a < b
    BY <1>1 DEF FxChainInv, FxNumbers
  <2> QED
    BY <1>11, <2>1, <2>2 DEF FxJoins
<1>16. FxNumbers(l) = 1 .. fx.links
  <2>1. (1 .. k) \cup {k + i : i \in 1 .. n} = 1 .. fx.links
    <3>1. ASSUME NEW a \in 1 .. fx.links PROVE a \in (1 .. k) \cup {k + i : i \in 1 .. n}
      <4>1. CASE a <= k
        BY <1>5, <4>1
      <4>2. CASE ~(a <= k)
        <5>1. a - k \in 1 .. n /\ k + (a - k) = a
          BY <1>5, <4>2
        <5> QED
          BY <5>1
      <4> QED
        BY <4>1, <4>2
    <3>2. ASSUME NEW a \in (1 .. k) \cup {k + i : i \in 1 .. n} PROVE a \in 1 .. fx.links
      BY <1>5
    <3> QED
      BY <3>1, <3>2
  <2> QED
    BY <1>12, <1>14, <1>15, <2>1 DEF FxJoins
<1>17. FxAscends(l)
  <2>1. \A a \in FxNumbers(p), b \in FxNumbers(r) : a < b
    BY <1>5, <1>14, <1>15
  <2> QED
    BY <1>12, <1>14, <1>15, <2>1 DEF FxJoins
<1>18. Cardinality(FxPlaces(fx.log, "link")) <= Cardinality(FxPlaces(fx.log, "onComplete"))
  BY <1>1 DEF FxPendInv
<1>19. l = fx.log \o fx.pend \o [i \in DOMAIN c |-> <<"link", "e", c[i]>>]
  BY <1>6, <1>9, <1>10
<1>20. {l[i][3] : i \in FxPlaces(l, "link")} = 1 .. fx.links
  BY <1>16 DEF FxNumbers
<1>21. \A i, j \in FxPlaces(l, "link") : i < j => l[i][3] < l[j][3]
  BY <1>17 DEF FxAscends
<1> QED
  BY <1>2, <1>18, <1>19, <1>20, <1>21 DEF FxChained

\* What ran to its end is where it was to be.
LEMMA FxInvSettled == FxInv => FxSettled
<1> SUFFICES ASSUME FxInv, fx.starts > 0, fx.pend = <<>>,
                    FxCount("onComplete", fx.starts) = 1, ~fx.touched
             PROVE  /\ \A p \in DOMAIN fx.target : fx.el[p] = fx.target[p]
                    /\ fx.kind = "slide" => (fx.open <=> fx.el["margin"] = 0)
                    /\ ~fx.wheel
  BY DEF FxSettled
<1>1. FxIs(fx) /\ FxRunInv(fx) /\ FxAnswerInv(fx) /\ FxDoneInv(fx)
  BY DEF FxInv, FxInvOf
<1>2. PICK k : k = fx.starts
  OBVIOUS
<1>3. k \in Nat /\ k # 0 /\ k \in 1 .. fx.starts
  BY <1>1, <1>2 DEF FxIs
<1>4. FxAnswerOf(fx, k) = 1
  BY <1>1, <1>3 DEF FxAnswerInv
<1>5. fx.log \in Seq(FxEvents) /\ fx.pend \in Seq(FxCalls)
  BY <1>1 DEF FxIs
<1>6. /\ Cardinality(FxMarks(fx.pend, "onComplete", k)) \in Nat
      /\ Cardinality(FxMarks(fx.log, "onCancel", k)) \in Nat
      /\ IsFiniteSet(FxMarks(fx.log, "onCancel", k))
  BY <1>5, FxFinite
<1>7. Cardinality(FxMarks(fx.log, "onComplete", k)) = 1
  BY <1>2 DEF FxCount
<1>8. Cardinality(FxMarks(fx.log, "onCancel", k)) = 0 /\ fx.fx["e"].run # k
  BY <1>4, <1>6, <1>7 DEF FxAnswerOf
<1>9. FxMarks(fx.log, "onCancel", k) = {}
  BY <1>6, <1>8, FS_EmptySet
<1>10. FxDone(fx)
  BY <1>1, <1>2, <1>8, <1>9 DEF FxDone, FxRunInv
<1>11. FxPlaces(fx.pend, "unwheel") = {} /\ FxPlaces(fx.pend, "setOpen") = {}
  <2>1. DOMAIN <<>> = {}
    OBVIOUS
  <2> QED
    BY <2>1 DEF FxPlaces
<1> QED
  BY <1>1, <1>10, <1>11 DEF FxDoneInv

\* The three together.
LEMMA FxInvOutcome == FxInv => FxOutcome
BY FxInvAnswered, FxInvChained, FxInvSettled DEF FxOutcome

-----------------------------------------------------------------------------
(* Events and their listeners: the invariant.                              *)

DcFrames == [copy : Seq(Nat), at : Nat, run : Nat, due : SUBSET Nat, called : Seq(Nat)]
DcGoodFrames == {f \in DcFrames : DcInOrder(f)}

DcIs(s) ==
  /\ DOMAIN s = {"kind", "at", "ls", "gone", "handle", "keydown", "refs", "stack",
                 "fires", "replaces", "on", "stale", "threw"}
  /\ s.kind \in DcKinds /\ s.handle \in Seq(Nat) /\ s.ls \in Seq(Seq(Nat))
  /\ s.at \in 0 .. Len(s.ls)
  /\ s.keydown \in BOOLEAN /\ s.refs \in Int /\ s.stale \in BOOLEAN /\ s.threw \in BOOLEAN
  /\ s.on \subseteq DOMAIN s.handle

\* What hangs on the event is in the order of the connects.
DcListInv(s) ==
  /\ \A i \in DOMAIN DcRow(s) : DcRow(s)[i] \in 0 .. Len(s.handle)
  /\ \A i, j \in DOMAIN DcRow(s) :
       i < j /\ DcRow(s)[i] # 0 /\ DcRow(s)[j] # 0 => DcRow(s)[i] < DcRow(s)[j]

\* Handles lead to what is connected, and nothing else hangs on the event.
DcOnInv(s) ==
  ~s.stale =>
    /\ \A l \in s.on : s.handle[l] \in DOMAIN DcRow(s) /\ DcRow(s)[s.handle[l]] = l
    /\ \A i \in DOMAIN DcRow(s) : DcRow(s)[i] # 0 => DcRow(s)[i] \in s.on
    /\ s.kind = "topic" =>
         \A l \in DOMAIN s.handle :
           s.handle[l] \in DOMAIN DcRow(s) /\ DcRow(s)[s.handle[l]] \in {0, l}

\* The stealth keydown listener counts the handles not yet spoilt.
DcHeld(s) == {l \in DOMAIN s.handle : s.handle[l] # 0}
DcKeysInv(s) ==
  s.kind = "ie" => s.refs = Cardinality(DcHeld(s)) /\ (s.keydown <=> s.refs > 0)

DcThrewInv(s) == s.threw => s.kind = "ie" /\ s.gone # {}
DcStackInv(s) == ~s.stale => s.stack \in Seq(DcGoodFrames)

\* The inductive invariant of an event with its listeners.
DcInvOf(s) == DcIs(s) /\ DcListInv(s) /\ DcOnInv(s) /\ DcKeysInv(s) /\ DcThrewInv(s)
              /\ DcStackInv(s)
DcInv == DcInvOf(dc)

-----------------------------------------------------------------------------
\* Where nothing was connected yet, nothing hangs on the event.
LEMMA DcInitInv == DcInit => DcInv
<1> SUFFICES ASSUME DcInit PROVE DcInvOf(dc)
  BY DEF DcInv
<1>1. PICK k \in DcKinds :
        dc = [kind |-> k, at |-> 0, ls |-> <<>>, gone |-> {}, handle |-> <<>>,
              keydown |-> FALSE, refs |-> 0, stack |-> <<>>, fires |-> 0,
              replaces |-> 0, on |-> {}, stale |-> FALSE, threw |-> FALSE]
  BY DEF DcInit
<1>2. dc.ls = <<>> /\ dc.handle = <<>> /\ dc.stack = <<>> /\ DcRow(dc) = <<>>
  BY <1>1 DEF DcRow
<1>3. DcIs(dc)
  BY <1>1 DEF DcIs
<1>4. DcHeld(dc) = {}
  BY <1>2 DEF DcHeld
<1>5. Cardinality({}) = 0
  BY FS_EmptySet
<1>6. dc.refs = 0 /\ dc.keydown = FALSE /\ dc.on = {}
  BY <1>1
<1>7. DcKeysInv(dc)
  BY <1>4, <1>5, <1>6 DEF DcKeysInv
<1>8. DOMAIN DcRow(dc) = {} /\ DOMAIN dc.handle = {}
  BY <1>2
<1>9. DcListInv(dc) /\ DcOnInv(dc)
  BY <1>6, <1>8 DEF DcListInv, DcOnInv
<1>10. DcThrewInv(dc) /\ DcStackInv(dc)
  BY <1>1 DEF DcThrewInv, DcStackInv
<1> QED
  BY <1>3, <1>7, <1>9, <1>10 DEF DcInvOf

\* The row of an event is a sequence, whether it has a dispatcher or not.
LEMMA DcRowIs ==
  ASSUME NEW s, DcIs(s)
  PROVE  DcRow(s) \in Seq(Nat) /\ Len(DcRow(s)) \in Nat
         /\ DOMAIN DcRow(s) = 1 .. Len(DcRow(s))
<1>1. DcRow(s) \in Seq(Nat)
  <2>1. CASE s.at = 0
    BY <2>1 DEF DcRow
  <2>2. CASE s.at # 0
    <3>1. s.ls \in Seq(Seq(Nat)) /\ s.at \in 1 .. Len(s.ls)
      BY <2>2 DEF DcIs
    <3>2. s.ls[s.at] \in Seq(Nat)
      BY <3>1
    <3> QED
      BY <2>2, <3>2 DEF DcRow
  <2> QED
    BY <2>1, <2>2
<1> QED
  BY <1>1

\* What a push does to a sequence.
LEMMA DcPushed ==
  ASSUME NEW S, NEW q \in Seq(S), NEW x \in S
  PROVE  /\ Append(q, x) \in Seq(S)
         /\ DOMAIN Append(q, x) = 1 .. Len(q) + 1
         /\ Len(Append(q, x)) = Len(q) + 1
         /\ Append(q, x)[Len(q) + 1] = x
         /\ \A i \in DOMAIN q : Append(q, x)[i] = q[i]
<1>1. Len(q) \in Nat /\ DOMAIN q = 1 .. Len(q)
  OBVIOUS
<1> QED
  BY <1>1, AppendProperties

-----------------------------------------------------------------------------
\* What stays as it is when listeners are added or removed.
DcSameRest(s, t) ==
  /\ DOMAIN t = DOMAIN s /\ t.kind = s.kind /\ t.stack = s.stack
  /\ t.on = s.on /\ t.stale = s.stale /\ t.threw = s.threw

DcIsAdded(s, t, l) ==
  /\ DcSameRest(s, t) /\ t.gone = s.gone /\ t.keydown = s.keydown /\ t.refs = s.refs
  /\ t.ls \in Seq(Seq(Nat)) /\ t.at \in 0 .. Len(t.ls)
  /\ DcRow(t) = Append(DcRow(s), l)
  /\ t.handle = Append(s.handle, Len(DcRow(s)) + 1)

\* add() puts the listener at the end of the row.
LEMMA DcListenerAdded ==
  ASSUME NEW s, DcIs(s), NEW l \in Nat
  PROVE  DcIsAdded(s, DcListenerAdd(s, l), l)
<1> DEFINE u == IF s.at # 0 THEN s
                ELSE [s EXCEPT !.ls = Append(@, <<>>), !.at = Len(s.ls) + 1]
           k == Len(u.ls[u.at]) + 1
           t == [u EXCEPT !.ls[u.at] = Append(@, l), !.handle = Append(@, k)]
<1>0. DcListenerAdd(s, l) = t
  BY DEF DcListenerAdd
<1>1. s.ls \in Seq(Seq(Nat)) /\ Len(s.ls) \in Nat /\ s.at \in 0 .. Len(s.ls)
  BY DEF DcIs
<1>2. DcSameRest(s, u) /\ u.gone = s.gone /\ u.keydown = s.keydown
        /\ u.refs = s.refs /\ u.handle = s.handle
  BY DEF DcIs, DcSameRest
<1>3. u.ls \in Seq(Seq(Nat)) /\ u.at \in 1 .. Len(u.ls) /\ u.ls[u.at] = DcRow(s)
  <2>1. CASE s.at # 0
    BY <1>1, <2>1 DEF DcRow
  <2>2. CASE s.at = 0
    <3>1. u.ls = Append(s.ls, <<>>) /\ u.at = Len(s.ls) + 1
      BY <2>2 DEF DcIs
    <3>2. <<>> \in Seq(Nat)
      OBVIOUS
    <3>3. /\ Append(s.ls, <<>>) \in Seq(Seq(Nat))
          /\ Len(Append(s.ls, <<>>)) = Len(s.ls) + 1
          /\ Append(s.ls, <<>>)[Len(s.ls) + 1] = <<>>
      BY <1>1, <3>2, DcPushed
    <3> QED
      BY <1>1, <2>2, <3>1, <3>3 DEF DcRow
  <2> QED
    BY <2>1, <2>2
<1> HIDE DEF u
<1>4. DOMAIN u = {"kind", "at", "ls", "gone", "handle", "keydown", "refs", "stack",
                  "fires", "replaces", "on", "stale", "threw"}
  BY <1>2 DEF DcSameRest, DcIs
<1>5. /\ t.ls = [u.ls EXCEPT ![u.at] = Append(@, l)] /\ t.at = u.at
      /\ t.handle = Append(u.handle, k)
      /\ DcSameRest(u, t) /\ t.gone = u.gone /\ t.keydown = u.keydown
      /\ t.refs = u.refs
  BY <1>4 DEF DcSameRest
<1>6. DcRow(s) \in Seq(Nat) /\ Append(DcRow(s), l) \in Seq(Nat)
  BY DcRowIs, DcPushed
<1>7. /\ t.ls \in Seq(Seq(Nat)) /\ Len(t.ls) = Len(u.ls)
      /\ t.ls[u.at] = Append(DcRow(s), l)
  BY <1>3, <1>5, <1>6
<1>8. DcRow(t) = Append(DcRow(s), l) /\ t.at \in 0 .. Len(t.ls)
  BY <1>3, <1>5, <1>7 DEF DcRow
<1> HIDE DEF t
<1>9. DcSameRest(s, t)
  BY <1>2, <1>5 DEF DcSameRest
<1> QED
  BY <1>0, <1>2, <1>3, <1>5, <1>7, <1>8, <1>9 DEF DcIsAdded

DcIsRemoved(s, t, h) ==
  /\ DcSameRest(s, t) /\ t.handle = s.handle
  /\ t.keydown = s.keydown /\ t.refs = s.refs
  /\ t.ls \in Seq(Seq(Nat)) /\ t.at \in 0 .. Len(t.ls)
  /\ s.gone \subseteq t.gone
  /\ DOMAIN DcRow(t) = DOMAIN DcRow(s)
  /\ \A i \in DOMAIN DcRow(s) : DcRow(t)[i] = IF i = h THEN 0 ELSE DcRow(s)[i]

\* remove() leaves a hole in the row and moves nothing.
LEMMA DcListenerRemoved ==
  ASSUME NEW s, DcIs(s), NEW h \in Nat
  PROVE  DcIsRemoved(s, DcListenerRemove(s, h), h)
<1>1. s.ls \in Seq(Seq(Nat)) /\ Len(s.ls) \in Nat /\ s.at \in 0 .. Len(s.ls)
  BY DEF DcIs
<1>2. DcRow(s) \in Seq(Nat) /\ DOMAIN DcRow(s) = 1 .. Len(DcRow(s))
  BY DcRowIs
<1>3. CASE s.at = 0 \/ h = 0 \/ h \notin DOMAIN s.ls[s.at]
  <2>1. DcListenerRemove(s, h) = s
    BY <1>3 DEF DcListenerRemove
  <2>2. \A i \in DOMAIN DcRow(s) : i # h
    BY <1>2, <1>3 DEF DcRow
  <2> QED
    BY <1>1, <2>1, <2>2 DEF DcIsRemoved, DcSameRest
<1>4. CASE s.at # 0 /\ h # 0 /\ h \in DOMAIN s.ls[s.at]
  <2> DEFINE g == IF s.kind = "ie" THEN s.gone \cup {s.ls[s.at][h]} ELSE s.gone
             t == [s EXCEPT !.ls[s.at][h] = 0, !.gone = g]
  <2>1. DcListenerRemove(s, h) = t
    BY <1>4 DEF DcListenerRemove, DcIs
  <2>2. s.gone \subseteq g
    OBVIOUS
  <2> HIDE DEF g
  <2>3. /\ t.ls = [s.ls EXCEPT ![s.at] = [@ EXCEPT ![h] = 0]] /\ t.at = s.at
        /\ t.gone = g /\ t.handle = s.handle /\ t.keydown = s.keydown
        /\ t.refs = s.refs /\ DcSameRest(s, t)
    BY DEF DcIs, DcSameRest
  <2> HIDE DEF t
  <2>4. DcRow(s) = s.ls[s.at] /\ s.at \in 1 .. Len(s.ls)
    BY <1>1, <1>4 DEF DcRow
  <2> DEFINE r == [DcRow(s) EXCEPT ![h] = 0]
  <2>5. r \in Seq(Nat) /\ DOMAIN r = DOMAIN DcRow(s)
          /\ \A i \in DOMAIN DcRow(s) : r[i] = IF i = h THEN 0 ELSE DcRow(s)[i]
    <3>1. h \in 1 .. Len(DcRow(s))
      BY <1>2, <1>4, <2>4
    <3>2. r \in Seq(Nat) /\ Len(r) = Len(DcRow(s))
      BY <1>2, <3>1, ExceptSeq
    <3>3. DOMAIN r = DOMAIN DcRow(s)
      OBVIOUS
    <3>4. \A i \in DOMAIN DcRow(s) : r[i] = IF i = h THEN 0 ELSE DcRow(s)[i]
      OBVIOUS
    <3> QED
      BY <3>2, <3>3, <3>4
  <2>6. t.ls = [s.ls EXCEPT ![s.at] = r]
    BY <2>3, <2>4
  <2> HIDE DEF r
  <2>7. t.ls \in Seq(Seq(Nat)) /\ Len(t.ls) = Len(s.ls) /\ t.ls[s.at] = r
    BY <1>1, <2>4, <2>5, <2>6
  <2>8. DcRow(t) = r
    BY <1>4, <2>3, <2>7 DEF DcRow
  <2> QED
    BY <1>1, <2>1, <2>2, <2>3, <2>5, <2>7, <2>8 DEF DcIsRemoved
<1> QED
  BY <1>3, <1>4

-----------------------------------------------------------------------------
DcIsConnected(s, t, l) ==
  /\ DOMAIN t = DOMAIN s /\ t.kind = s.kind /\ t.stack = s.stack
  /\ t.stale = s.stale /\ t.threw = s.threw /\ t.gone = s.gone
  /\ t.on = s.on \cup {l}
  /\ t.ls \in Seq(Seq(Nat)) /\ t.at \in 0 .. Len(t.ls)
  /\ DcRow(t) = Append(DcRow(s), l)
  /\ t.handle = Append(s.handle, Len(DcRow(s)) + 1)
  /\ s.kind # "ie" => t.keydown = s.keydown /\ t.refs = s.refs
  /\ s.kind = "ie" => t.keydown /\ t.keydown \in BOOLEAN
                      /\ t.refs = IF s.keydown THEN s.refs + 1 ELSE 1

\* connect(), of each kind, adds its listener and connects it.
LEMMA DcConnected ==
  ASSUME NEW s, DcIs(s)
  PROVE  DcIsConnected(s, DcConnect(s), Len(s.handle) + 1)
<1> DEFINE l == Len(s.handle) + 1
           a == IF s.kind = "ie" THEN DcEventAdd(s, l) ELSE DcListenerAdd(s, l)
           t == [a EXCEPT !.on = @ \cup {l}]
           n == IF s.keydown THEN s.refs + 1 ELSE 1
           v == [s EXCEPT !.keydown = TRUE, !.refs = n]
<1>1. DcConnect(s) = t
  BY DEF DcConnect
<1>2. l \in Nat
  BY DEF DcIs
<1> HIDE DEF l
<1>3. n \in Int
  BY DEF DcIs
<1> HIDE DEF n
<1>4. /\ DOMAIN v = DOMAIN s /\ v.kind = s.kind /\ v.stack = s.stack
      /\ v.on = s.on /\ v.stale = s.stale /\ v.threw = s.threw
      /\ v.gone = s.gone /\ v.ls = s.ls /\ v.at = s.at /\ v.handle = s.handle
      /\ v.keydown = TRUE /\ v.refs = n
  BY DEF DcIs
<1> HIDE DEF v
<1>5. DcRow(v) = DcRow(s)
  BY <1>4 DEF DcRow
<1>6. DcIs(v)
  BY <1>3, <1>4 DEF DcIs
<1>7. CASE s.kind = "ie"
  <2>1. a = DcListenerAdd(v, l)
    BY <1>7 DEF DcEventAdd, v, n
  <2>2. DcIsAdded(v, a, l)
    BY <1>2, <1>6, <2>1, DcListenerAdded
  <2> HIDE DEF a
  <2>3. DOMAIN a = {"kind", "at", "ls", "gone", "handle", "keydown", "refs", "stack",
                    "fires", "replaces", "on", "stale", "threw"}
    BY <1>6, <2>2 DEF DcIsAdded, DcSameRest, DcIs
  <2>4. /\ DOMAIN t = DOMAIN a /\ t.kind = a.kind /\ t.stack = a.stack
        /\ t.stale = a.stale /\ t.threw = a.threw
        /\ t.gone = a.gone /\ t.ls = a.ls /\ t.at = a.at /\ t.handle = a.handle
        /\ t.keydown = a.keydown /\ t.refs = a.refs /\ t.on = a.on \cup {l}
    BY <2>3
  <2> HIDE DEF t
  <2>5. DcRow(t) = DcRow(a)
    BY <2>4 DEF DcRow
  <2>6. DcIsConnected(s, t, l)
    BY <1>4, <1>5, <1>7, <2>2, <2>4, <2>5 DEF DcIsConnected, DcIsAdded, DcSameRest, n
  <2> QED
    BY <1>1, <2>6 DEF l
<1>8. CASE s.kind # "ie"
  <2>1. a = DcListenerAdd(s, l)
    BY <1>8
  <2>2. DcIsAdded(s, a, l)
    BY <1>2, <2>1, DcListenerAdded
  <2> HIDE DEF a
  <2>3. DOMAIN a = {"kind", "at", "ls", "gone", "handle", "keydown", "refs", "stack",
                    "fires", "replaces", "on", "stale", "threw"}
    BY <2>2 DEF DcIsAdded, DcSameRest, DcIs
  <2>4. /\ DOMAIN t = DOMAIN a /\ t.kind = a.kind /\ t.stack = a.stack
        /\ t.stale = a.stale /\ t.threw = a.threw
        /\ t.gone = a.gone /\ t.ls = a.ls /\ t.at = a.at /\ t.handle = a.handle
        /\ t.keydown = a.keydown /\ t.refs = a.refs /\ t.on = a.on \cup {l}
    BY <2>3
  <2> HIDE DEF t
  <2>5. DcRow(t) = DcRow(a)
    BY <2>4 DEF DcRow
  <2>6. DcIsConnected(s, t, l)
    BY <1>8, <2>2, <2>4, <2>5 DEF DcIsConnected, DcIsAdded, DcSameRest
  <2> QED
    BY <1>1, <2>6 DEF l
<1> QED
  BY <1>7, <1>8

DcIsDisconnected(s, t, l) ==
  /\ DOMAIN t = DOMAIN s /\ t.kind = s.kind /\ t.stack = s.stack
  /\ t.threw = s.threw /\ s.gone \subseteq t.gone
  /\ t.stale = (s.stale \/ (l \notin s.on /\ s.kind # "topic"))
  /\ t.on = s.on \ {l}
  /\ t.ls \in Seq(Seq(Nat)) /\ t.at \in 0 .. Len(t.ls)
  /\ DOMAIN DcRow(t) = DOMAIN DcRow(s)
  /\ \A i \in DOMAIN DcRow(s) :
       DcRow(t)[i] = IF i = s.handle[l] THEN 0 ELSE DcRow(s)[i]
  /\ t.handle = [s.handle EXCEPT ![l] = IF s.kind = "topic" THEN @ ELSE 0]
  /\ s.kind # "ie" => t.keydown = s.keydown /\ t.refs = s.refs
  /\ s.kind = "ie" => /\ t.refs = s.refs - 1
                      /\ t.keydown \in BOOLEAN
                      /\ t.keydown <=> s.keydown /\ s.refs - 1 > 0

\* disconnect(), of each kind, deletes the listener its handle indexes.
LEMMA DcDisconnected ==
  ASSUME NEW s, DcIs(s), NEW l \in DOMAIN s.handle
  PROVE  DcIsDisconnected(s, DcDisconnect(s, l), l)
<1> DEFINE h == s.handle[l]
           r == DcListenerRemove(s, h)
           a == IF s.kind = "ie" THEN DcEventRemove(s, h) ELSE r
           z == IF s.kind = "topic" THEN h ELSE 0
           b == s.stale \/ (l \notin s.on /\ s.kind # "topic")
           t == [a EXCEPT !.handle[l] = z, !.on = @ \ {l},
                          !.stale = @ \/ (l \notin s.on /\ s.kind # "topic")]
<1>1. DcDisconnect(s, l) = t
  BY DEF DcDisconnect
<1>2. h \in Nat
  BY DEF DcIs
<1>3. DcIsRemoved(s, r, h)
  BY <1>2, DcListenerRemoved
<1>4. a = IF s.kind = "ie"
            THEN [r EXCEPT !.refs = @ - 1, !.keydown = @ /\ r.refs - 1 > 0] ELSE r
  BY DEF DcEventRemove
<1> HIDE DEF r
<1>5. /\ DOMAIN r = {"kind", "at", "ls", "gone", "handle", "keydown", "refs", "stack",
                     "fires", "replaces", "on", "stale", "threw"}
      /\ r.keydown \in BOOLEAN /\ r.refs \in Int
  BY <1>3 DEF DcIsRemoved, DcSameRest, DcIs
<1> HIDE DEF a
<1>6. /\ DOMAIN a = DOMAIN r /\ a.kind = r.kind /\ a.stack = r.stack
      /\ a.stale = r.stale /\ a.threw = r.threw /\ a.on = r.on
      /\ a.gone = r.gone /\ a.ls = r.ls /\ a.at = r.at /\ a.handle = r.handle
  BY <1>4, <1>5
<1>7. s.kind # "ie" => a.keydown = r.keydown /\ a.refs = r.refs
  BY <1>4
<1>8. s.kind = "ie" => a.refs = r.refs - 1 /\ a.keydown = (r.keydown /\ r.refs - 1 > 0)
  BY <1>4, <1>5
<1>9. /\ DOMAIN t = DOMAIN a /\ t.kind = a.kind /\ t.stack = a.stack
      /\ t.threw = a.threw /\ t.gone = a.gone /\ t.ls = a.ls /\ t.at = a.at
      /\ t.keydown = a.keydown /\ t.refs = a.refs
      /\ t.on = a.on \ {l} /\ t.handle = [a.handle EXCEPT ![l] = z]
      /\ t.stale = (a.stale \/ (l \notin s.on /\ s.kind # "topic"))
  BY <1>5, <1>6
<1> HIDE DEF t
<1>10. DcRow(t) = DcRow(r)
  BY <1>6, <1>9 DEF DcRow
<1>11. t.handle = [s.handle EXCEPT ![l] = IF s.kind = "topic" THEN @ ELSE 0]
  BY <1>3, <1>6, <1>9 DEF DcIsRemoved
<1>12. s.kind # "ie" => t.keydown = s.keydown /\ t.refs = s.refs
  BY <1>3, <1>7, <1>9 DEF DcIsRemoved
<1>13. s.kind = "ie" => t.refs = s.refs - 1
                        /\ t.keydown = (s.keydown /\ s.refs - 1 > 0)
  BY <1>3, <1>8, <1>9 DEF DcIsRemoved
<1>14. s.kind = "ie" => /\ t.refs = s.refs - 1 /\ t.keydown \in BOOLEAN
                        /\ t.keydown <=> s.keydown /\ s.refs - 1 > 0
  BY <1>13
<1>15. /\ DOMAIN t = DOMAIN s /\ t.kind = s.kind /\ t.stack = s.stack
       /\ t.threw = s.threw /\ s.gone \subseteq t.gone /\ t.on = s.on \ {l}
       /\ t.stale = (s.stale \/ (l \notin s.on /\ s.kind # "topic"))
  BY <1>3, <1>6, <1>9 DEF DcIsRemoved, DcSameRest
<1>16. /\ t.ls \in Seq(Seq(Nat)) /\ t.at \in 0 .. Len(t.ls)
       /\ DOMAIN DcRow(t) = DOMAIN DcRow(s)
       /\ \A i \in DOMAIN DcRow(s) :
            DcRow(t)[i] = IF i = s.handle[l] THEN 0 ELSE DcRow(s)[i]
  BY <1>3, <1>6, <1>9, <1>10 DEF DcIsRemoved
<1>17. DcIsDisconnected(s, t, l)
  BY <1>11, <1>12, <1>14, <1>15, <1>16 DEF DcIsDisconnected
<1> QED
  BY <1>1, <1>17

-----------------------------------------------------------------------------
\* A handle more, and one less, for the stealth keydown listener to count.
LEMMA DcHeldFinite ==
  ASSUME NEW s, DcIs(s)
  PROVE  IsFiniteSet(DcHeld(s)) /\ Cardinality(DcHeld(s)) \in Nat
<1>1. DOMAIN s.handle = 1 .. Len(s.handle) /\ Len(s.handle) \in Nat
  BY DEF DcIs
<1>2. IsFiniteSet(1 .. Len(s.handle))
  <2>1. 1 \in Int /\ Len(s.handle) \in Int
    BY <1>1
  <2> QED
    BY <2>1, FS_Interval
<1>3. DcHeld(s) \subseteq 1 .. Len(s.handle)
  BY <1>1 DEF DcHeld
<1>4. IsFiniteSet(DcHeld(s))
  BY <1>2, <1>3, FS_Subset
<1> QED
  BY <1>4, FS_CardinalityType

\* Connecting, by the page or by a listener, keeps the invariant.
LEMMA DcConnectInv ==
  ASSUME NEW s, DcInvOf(s), NEW t, DcIsConnected(s, t, Len(s.handle) + 1)
  PROVE  DcInvOf(t)
<1> DEFINE l == Len(s.handle) + 1
           k == Len(DcRow(s)) + 1
<1>1. DcIs(s) /\ s.handle \in Seq(Nat) /\ Len(s.handle) \in Nat
        /\ DOMAIN s.handle = 1 .. Len(s.handle) /\ l \in Nat
  BY DEF DcInvOf, DcIs
<1>2. DcRow(s) \in Seq(Nat) /\ Len(DcRow(s)) \in Nat
        /\ DOMAIN DcRow(s) = 1 .. Len(DcRow(s)) /\ k \in Nat
  BY <1>1, DcRowIs
<1>3. DcRow(t) = Append(DcRow(s), l) /\ t.handle = Append(s.handle, k)
  BY DEF DcIsConnected
<1>4. /\ DOMAIN DcRow(t) = 1 .. k /\ DcRow(t)[k] = l
      /\ \A i \in DOMAIN DcRow(s) : DcRow(t)[i] = DcRow(s)[i]
  BY <1>1, <1>2, <1>3, DcPushed
<1>5. /\ t.handle \in Seq(Nat) /\ DOMAIN t.handle = 1 .. l /\ Len(t.handle) = l
      /\ t.handle[l] = k
      /\ \A m \in DOMAIN s.handle : t.handle[m] = s.handle[m]
  BY <1>1, <1>2, <1>3, DcPushed
<1>6. /\ DOMAIN t = DOMAIN s /\ t.kind = s.kind /\ t.stack = s.stack
      /\ t.stale = s.stale /\ t.threw = s.threw /\ t.gone = s.gone
      /\ t.on = s.on \cup {l} /\ t.ls \in Seq(Seq(Nat)) /\ t.at \in 0 .. Len(t.ls)
  BY DEF DcIsConnected
<1>7. DcIs(t)
  <2>1. t.keydown \in BOOLEAN
    BY <1>1 DEF DcIsConnected, DcIs
  <2>2. t.refs \in Int
    BY <1>1 DEF DcIsConnected, DcIs
  <2>3. t.on \subseteq DOMAIN t.handle
    BY <1>1, <1>5, <1>6 DEF DcIs
  <2> QED
    BY <1>1, <1>5, <1>6, <2>1, <2>2, <2>3 DEF DcIs
<1>8. DcListInv(t)
  <2>1. /\ \A i \in DOMAIN DcRow(s) : DcRow(s)[i] \in 0 .. Len(s.handle)
        /\ \A i, j \in DOMAIN DcRow(s) :
             i < j /\ DcRow(s)[i] # 0 /\ DcRow(s)[j] # 0 => DcRow(s)[i] < DcRow(s)[j]
    BY DEF DcInvOf, DcListInv
  <2>2. \A i \in DOMAIN DcRow(t) : i = k \/ i \in DOMAIN DcRow(s)
    BY <1>2, <1>4
  <2>3. ASSUME NEW i \in DOMAIN DcRow(t) PROVE DcRow(t)[i] \in 0 .. Len(t.handle)
    BY <1>1, <1>4, <1>5, <2>1, <2>2
  <2>4. ASSUME NEW i \in DOMAIN DcRow(t), NEW j \in DOMAIN DcRow(t), i < j,
               DcRow(t)[i] # 0, DcRow(t)[j] # 0
        PROVE  DcRow(t)[i] < DcRow(t)[j]
    <3>1. i \in DOMAIN DcRow(s)
      BY <1>2, <1>4, <2>4
    <3>2. CASE j = k
      BY <1>1, <1>4, <2>1, <3>1, <3>2
    <3>3. CASE j \in DOMAIN DcRow(s)
      BY <1>4, <2>1, <2>4, <3>1, <3>3
    <3> QED
      BY <2>2, <3>2, <3>3
  <2> QED
    BY <2>3, <2>4 DEF DcListInv
<1>9. DcOnInv(t)
  <2> SUFFICES ASSUME ~t.stale
               PROVE  /\ \A m \in t.on : t.handle[m] \in DOMAIN DcRow(t)
                                         /\ DcRow(t)[t.handle[m]] = m
                      /\ \A i \in DOMAIN DcRow(t) : DcRow(t)[i] # 0 => DcRow(t)[i] \in t.on
                      /\ t.kind = "topic" =>
                           \A m \in DOMAIN t.handle :
                             /\ t.handle[m] \in DOMAIN DcRow(t)
                             /\ DcRow(t)[t.handle[m]] \in {0, m}
    BY DEF DcOnInv
  <2>1. /\ \A m \in s.on : s.handle[m] \in DOMAIN DcRow(s) /\ DcRow(s)[s.handle[m]] = m
        /\ \A i \in DOMAIN DcRow(s) : DcRow(s)[i] # 0 => DcRow(s)[i] \in s.on
        /\ s.kind = "topic" =>
             \A m \in DOMAIN s.handle :
               s.handle[m] \in DOMAIN DcRow(s) /\ DcRow(s)[s.handle[m]] \in {0, m}
    BY <1>6 DEF DcInvOf, DcOnInv
  <2>2. \A i \in DOMAIN DcRow(s) : i \in DOMAIN DcRow(t)
    BY <1>2, <1>4
  <2>3. k \in DOMAIN DcRow(t)
    BY <1>2, <1>4
  <2>4. \A i \in DOMAIN DcRow(t) : i = k \/ i \in DOMAIN DcRow(s)
    BY <1>2, <1>4
  <2>5. \A m \in DOMAIN t.handle : m = l \/ m \in DOMAIN s.handle
    BY <1>1, <1>5
  <2>6. ASSUME NEW m \in t.on
        PROVE  t.handle[m] \in DOMAIN DcRow(t) /\ DcRow(t)[t.handle[m]] = m
    <3>1. CASE m = l
      BY <1>4, <1>5, <2>3, <3>1
    <3>2. CASE m \in s.on
      <4>1. m \in DOMAIN s.handle
        BY <1>1, <3>2 DEF DcIs
      <4> QED
        BY <1>4, <1>5, <2>1, <2>2, <3>2, <4>1
    <3> QED
      BY <1>6, <3>1, <3>2
  <2>7. ASSUME NEW i \in DOMAIN DcRow(t), DcRow(t)[i] # 0 PROVE DcRow(t)[i] \in t.on
    BY <1>4, <1>6, <2>1, <2>4, <2>7
  <2>8. ASSUME t.kind = "topic", NEW m \in DOMAIN t.handle
        PROVE  t.handle[m] \in DOMAIN DcRow(t) /\ DcRow(t)[t.handle[m]] \in {0, m}
    <3>1. CASE m = l
      BY <1>4, <1>5, <2>3, <3>1
    <3>2. CASE m \in DOMAIN s.handle
      BY <1>4, <1>5, <1>6, <2>1, <2>2, <2>8, <3>2
    <3> QED
      BY <2>5, <3>1, <3>2
  <2> QED
    BY <2>6, <2>7, <2>8
<1>10. DcKeysInv(t)
  <2> SUFFICES ASSUME s.kind = "ie"
               PROVE  t.refs = Cardinality(DcHeld(t)) /\ (t.keydown <=> t.refs > 0)
    BY <1>6 DEF DcKeysInv
  <2>1. s.refs = Cardinality(DcHeld(s)) /\ (s.keydown <=> s.refs > 0)
    BY DEF DcInvOf, DcKeysInv
  <2>2. IsFiniteSet(DcHeld(s)) /\ Cardinality(DcHeld(s)) \in Nat
    BY <1>1, DcHeldFinite
  <2>3. DcHeld(t) = DcHeld(s) \cup {l}
    <3>1. k # 0 /\ DOMAIN t.handle = DOMAIN s.handle \cup {l}
      BY <1>1, <1>2, <1>5
    <3> HIDE DEF k, l
    <3> QED
      BY <1>5, <3>1 DEF DcHeld
  <2>4. l \notin DcHeld(s)
    BY <1>1 DEF DcHeld
  <2> HIDE DEF l
  <2>5. Cardinality(DcHeld(t)) = Cardinality(DcHeld(s)) + 1
    BY <2>2, <2>3, <2>4, FS_AddElement
  <2>6. t.keydown /\ t.refs = IF s.keydown THEN s.refs + 1 ELSE 1
    BY DEF DcIsConnected
  <2>7. s.keydown \in BOOLEAN
    BY <1>1 DEF DcIs
  <2>8. t.refs = s.refs + 1
    BY <2>1, <2>2, <2>6, <2>7
  <2>9. t.refs > 0
    BY <2>1, <2>2, <2>8
  <2> QED
    BY <2>1, <2>5, <2>6, <2>8, <2>9
<1>11. DcThrewInv(t) /\ DcStackInv(t)
  BY <1>6 DEF DcInvOf, DcThrewInv, DcStackInv
<1> QED
  BY <1>7, <1>8, <1>9, <1>10, <1>11 DEF DcInvOf

\* Disconnecting keeps it: the handle of what is connected leads to its hole only.
LEMMA DcDisconnectInv ==
  ASSUME NEW s, DcInvOf(s), NEW l \in DOMAIN s.handle, s.handle[l] # 0,
         NEW t, DcIsDisconnected(s, t, l)
  PROVE  DcInvOf(t)
<1> DEFINE h == s.handle[l]
<1>1. DcIs(s) /\ s.handle \in Seq(Nat) /\ Len(s.handle) \in Nat
        /\ DOMAIN s.handle = 1 .. Len(s.handle)
  BY DEF DcInvOf, DcIs
<1>2. DcRow(s) \in Seq(Nat) /\ DOMAIN DcRow(s) = 1 .. Len(DcRow(s))
  BY <1>1, DcRowIs
<1>3. /\ DOMAIN DcRow(t) = DOMAIN DcRow(s)
      /\ \A i \in DOMAIN DcRow(s) : DcRow(t)[i] = IF i = h THEN 0 ELSE DcRow(s)[i]
  BY DEF DcIsDisconnected
<1>4. t.handle = [s.handle EXCEPT ![l] = IF s.kind = "topic" THEN @ ELSE 0]
  BY DEF DcIsDisconnected
<1>5. /\ t.handle \in Seq(Nat) /\ DOMAIN t.handle = DOMAIN s.handle
      /\ Len(t.handle) = Len(s.handle)
  BY <1>1, <1>4
<1>6. /\ \A m \in DOMAIN s.handle : m # l => t.handle[m] = s.handle[m]
      /\ t.handle[l] = IF s.kind = "topic" THEN h ELSE 0
  BY <1>4
<1>7. /\ DOMAIN t = DOMAIN s /\ t.kind = s.kind /\ t.stack = s.stack
      /\ t.threw = s.threw /\ s.gone \subseteq t.gone
      /\ t.stale = (s.stale \/ (l \notin s.on /\ s.kind # "topic"))
      /\ t.on = s.on \ {l} /\ t.ls \in Seq(Seq(Nat)) /\ t.at \in 0 .. Len(t.ls)
  BY DEF DcIsDisconnected
<1>8. DcIs(t)
  <2>1. t.keydown \in BOOLEAN
    BY <1>1 DEF DcIsDisconnected, DcIs
  <2>2. t.refs \in Int
    BY <1>1 DEF DcIsDisconnected, DcIs
  <2>3. t.stale \in BOOLEAN
    BY <1>1, <1>7 DEF DcIs
  <2>4. t.on \subseteq DOMAIN t.handle
    BY <1>1, <1>5, <1>7 DEF DcIs
  <2> QED
    BY <1>1, <1>5, <1>7, <2>1, <2>2, <2>3, <2>4 DEF DcIs
<1>9. /\ \A i \in DOMAIN DcRow(s) : DcRow(s)[i] \in 0 .. Len(s.handle)
      /\ \A i, j \in DOMAIN DcRow(s) :
           i < j /\ DcRow(s)[i] # 0 /\ DcRow(s)[j] # 0 => DcRow(s)[i] < DcRow(s)[j]
  BY DEF DcInvOf, DcListInv
<1>10. DcListInv(t)
  <2>1. ASSUME NEW i \in DOMAIN DcRow(t) PROVE DcRow(t)[i] \in 0 .. Len(t.handle)
    BY <1>1, <1>3, <1>5, <1>9
  <2>2. ASSUME NEW i \in DOMAIN DcRow(t), NEW j \in DOMAIN DcRow(t), i < j,
               DcRow(t)[i] # 0, DcRow(t)[j] # 0
        PROVE  DcRow(t)[i] < DcRow(t)[j]
    <3>1. DcRow(t)[i] = DcRow(s)[i] /\ DcRow(t)[j] = DcRow(s)[j]
      BY <1>3, <2>2
    <3> QED
      BY <1>3, <1>9, <2>2, <3>1
  <2> QED
    BY <2>1, <2>2 DEF DcListInv
<1>11. DcOnInv(t)
  <2> SUFFICES ASSUME ~t.stale
               PROVE  /\ \A m \in t.on : t.handle[m] \in DOMAIN DcRow(t)
                                         /\ DcRow(t)[t.handle[m]] = m
                      /\ \A i \in DOMAIN DcRow(t) : DcRow(t)[i] # 0 => DcRow(t)[i] \in t.on
                      /\ t.kind = "topic" =>
                           \A m \in DOMAIN t.handle :
                             /\ t.handle[m] \in DOMAIN DcRow(t)
                             /\ DcRow(t)[t.handle[m]] \in {0, m}
    BY DEF DcOnInv
  <2>0. ~s.stale /\ (l \in s.on \/ s.kind = "topic")
    BY <1>7
  <2>1. /\ \A m \in s.on : s.handle[m] \in DOMAIN DcRow(s) /\ DcRow(s)[s.handle[m]] = m
        /\ \A i \in DOMAIN DcRow(s) : DcRow(s)[i] # 0 => DcRow(s)[i] \in s.on
        /\ s.kind = "topic" =>
             \A m \in DOMAIN s.handle :
               s.handle[m] \in DOMAIN DcRow(s) /\ DcRow(s)[s.handle[m]] \in {0, m}
    BY <2>0 DEF DcInvOf, DcOnInv
  <2>2. h \in DOMAIN DcRow(s) /\ DcRow(s)[h] \in {0, l}
    BY <2>0, <2>1
  <2>3. \A m \in s.on : m \in DOMAIN s.handle /\ m \in Nat \ {0}
    BY <1>1 DEF DcIs
  <2>4. ASSUME NEW m \in t.on
        PROVE  t.handle[m] \in DOMAIN DcRow(t) /\ DcRow(t)[t.handle[m]] = m
    <3>1. m \in s.on /\ m # l /\ t.handle[m] = s.handle[m] /\ m # 0
      BY <1>6, <1>7, <2>3
    <3>2. s.handle[m] \in DOMAIN DcRow(s) /\ DcRow(s)[s.handle[m]] = m
      BY <2>1, <3>1
    <3>3. s.handle[m] # h
      BY <2>2, <3>1, <3>2
    <3> QED
      BY <1>3, <3>1, <3>2, <3>3
  <2>5. ASSUME NEW i \in DOMAIN DcRow(t), DcRow(t)[i] # 0 PROVE DcRow(t)[i] \in t.on
    <3>1. i \in DOMAIN DcRow(s) /\ i # h /\ DcRow(t)[i] = DcRow(s)[i] /\ DcRow(s)[i] # 0
      BY <1>3, <2>5
    <3>2. DcRow(s)[i] \in s.on
      BY <2>1, <3>1
    <3>3. DcRow(s)[i] # l
      <4> SUFFICES ASSUME DcRow(s)[i] = l PROVE FALSE
        OBVIOUS
      <4>1. DcRow(s)[h] = l /\ l # 0
        BY <2>1, <2>3, <3>2
      <4>2. i \in Nat /\ h \in Nat /\ l \in Nat
        BY <1>1, <1>2, <2>2, <3>1
      <4>3. CASE i < h
        <5>1. DcRow(s)[i] < DcRow(s)[h]
          BY <1>9, <2>2, <3>1, <4>1, <4>3
        <5> QED
          BY <4>1, <4>2, <5>1
      <4>4. CASE h < i
        <5>1. DcRow(s)[h] < DcRow(s)[i]
          BY <1>9, <2>2, <3>1, <4>1, <4>4
        <5> QED
          BY <4>1, <4>2, <5>1
      <4> QED
        BY <3>1, <4>2, <4>3, <4>4
    <3> QED
      BY <1>7, <3>1, <3>2, <3>3
  <2>6. ASSUME t.kind = "topic", NEW m \in DOMAIN t.handle
        PROVE  t.handle[m] \in DOMAIN DcRow(t) /\ DcRow(t)[t.handle[m]] \in {0, m}
    <3>1. t.handle[m] = s.handle[m] /\ m \in DOMAIN s.handle
      BY <1>5, <1>6, <1>7, <2>6
    <3>2. s.handle[m] \in DOMAIN DcRow(s) /\ DcRow(s)[s.handle[m]] \in {0, m}
      BY <1>7, <2>1, <2>6, <3>1
    <3> QED
      BY <1>3, <3>1, <3>2
  <2> QED
    BY <2>4, <2>5, <2>6
<1>12. DcKeysInv(t)
  <2> SUFFICES ASSUME s.kind = "ie"
               PROVE  t.refs = Cardinality(DcHeld(t)) /\ (t.keydown <=> t.refs > 0)
    BY <1>7 DEF DcKeysInv
  <2>1. s.refs = Cardinality(DcHeld(s)) /\ (s.keydown <=> s.refs > 0)
    BY DEF DcInvOf, DcKeysInv
  <2>2. IsFiniteSet(DcHeld(s)) /\ Cardinality(DcHeld(s)) \in Nat
    BY <1>1, DcHeldFinite
  <2>3. l \in DcHeld(s)
    BY DEF DcHeld
  <2>4. DcHeld(t) = DcHeld(s) \ {l}
    BY <1>5, <1>6 DEF DcHeld
  <2>5. Cardinality(DcHeld(t)) = Cardinality(DcHeld(s)) - 1
    BY <2>2, <2>3, <2>4, FS_RemoveElement
  <2>6. t.refs = s.refs - 1 /\ (t.keydown <=> s.keydown /\ s.refs - 1 > 0)
    BY DEF DcIsDisconnected
  <2>7. s.refs - 1 > 0 => s.refs > 0
    BY <2>1, <2>2
  <2> QED
    BY <2>1, <2>5, <2>6, <2>7
<1>13. DcThrewInv(t)
  BY <1>7 DEF DcInvOf, DcThrewInv
<1>14. DcStackInv(t)
  BY <1>7 DEF DcInvOf, DcStackInv
<1> QED
  BY <1>8, <1>10, <1>11, <1>12, <1>13, <1>14 DEF DcInvOf

-----------------------------------------------------------------------------
\* What only the dispatches under way decide keeps the rest of the invariant.
DcSameRow(s, t) ==
  /\ DOMAIN t = DOMAIN s /\ t.kind = s.kind /\ t.at = s.at /\ t.ls = s.ls
  /\ t.gone = s.gone /\ t.handle = s.handle /\ t.keydown = s.keydown
  /\ t.refs = s.refs /\ t.on = s.on /\ t.stale = s.stale

LEMMA DcSameInv ==
  ASSUME NEW s, DcInvOf(s), NEW t, DcSameRow(s, t), t.threw \in BOOLEAN,
         DcThrewInv(t), DcStackInv(t)
  PROVE  DcInvOf(t)
<1>1. DcRow(t) = DcRow(s) /\ DcHeld(t) = DcHeld(s)
  BY DEF DcSameRow, DcRow, DcHeld
<1>2. DcIs(t)
  BY DEF DcInvOf, DcSameRow, DcIs
<1>3. DcListInv(t)
  BY <1>1 DEF DcInvOf, DcSameRow, DcListInv
<1>4. DcOnInv(t)
  BY <1>1 DEF DcInvOf, DcSameRow, DcOnInv
<1>5. DcKeysInv(t)
  BY <1>1 DEF DcInvOf, DcSameRow, DcKeysInv
<1> QED
  BY <1>2, <1>3, <1>4, <1>5 DEF DcInvOf

\* The dispatch that begins will call what is connected, in order.
LEMMA DcNewFrame ==
  ASSUME NEW s, DcInvOf(s), ~s.stale
  PROVE  [copy |-> DcRow(s), at |-> 0, run |-> 0, due |-> s.on, called |-> <<>>]
           \in DcGoodFrames
<1> DEFINE f == [copy |-> DcRow(s), at |-> 0, run |-> 0, due |-> s.on, called |-> <<>>]
<1>1. DcIs(s) /\ DOMAIN s.handle = 1 .. Len(s.handle) /\ Len(s.handle) \in Nat
  BY DEF DcInvOf, DcIs
<1>2. DcRow(s) \in Seq(Nat) /\ DOMAIN DcRow(s) = 1 .. Len(DcRow(s))
  BY <1>1, DcRowIs
<1>3. s.on \subseteq DOMAIN s.handle
  BY <1>1 DEF DcIs
<1>4. s.on \in SUBSET Nat
  BY <1>1, <1>3
<1>5. f \in DcFrames
  BY <1>2, <1>4 DEF DcFrames
<1>6. f.copy = DcRow(s) /\ f.at = 0 /\ f.run = 0 /\ f.due = s.on
        /\ DOMAIN f.called = {} /\ DcBeen(f) = {}
  BY DEF DcBeen, ToSet
<1> HIDE DEF f
<1>7. DcLeft(f) = {i \in DOMAIN DcRow(s) : DcRow(s)[i] # 0}
  BY <1>2, <1>6 DEF DcLeft
<1>8. /\ \A l \in s.on : s.handle[l] \in DOMAIN DcRow(s) /\ DcRow(s)[s.handle[l]] = l
      /\ \A i \in DOMAIN DcRow(s) : DcRow(s)[i] # 0 => DcRow(s)[i] \in s.on
  BY DEF DcInvOf, DcOnInv
<1>9. DcRest(f) = s.on
  <2>1. ASSUME NEW l \in s.on PROVE l \in DcRest(f)
    <3>1. l # 0 /\ s.handle[l] \in DOMAIN DcRow(s) /\ DcRow(s)[s.handle[l]] = l
      BY <1>1, <1>3, <1>8
    <3>2. s.handle[l] \in DcLeft(f)
      BY <1>7, <3>1
    <3> QED
      BY <1>6, <3>1, <3>2 DEF DcRest
  <2>2. ASSUME NEW l \in DcRest(f) PROVE l \in s.on
    BY <1>6, <1>7, <1>8 DEF DcRest
  <2> QED
    BY <2>1, <2>2
<1>10. \A i, j \in DcLeft(f) : i < j => f.copy[i] < f.copy[j]
  BY <1>6, <1>7 DEF DcInvOf, DcListInv
<1>11. DcInOrder(f)
  BY <1>6, <1>9, <1>10 DEF DcInOrder
<1> QED
  BY <1>5, <1>11 DEF DcGoodFrames, f

\* Firing the event, from the page or from a listener.
LEMMA DcDispatchInv ==
  ASSUME NEW s, DcInvOf(s)
  PROVE  DcInvOf(DcDispatch(s))
<1> DEFINE f == [copy |-> DcRow(s), at |-> 0, run |-> 0, due |-> s.on, called |-> <<>>]
           t == [s EXCEPT !.fires = @ + 1, !.stack = <<f>> \o @]
<1>1. DcDispatch(s) = t
  BY DEF DcDispatch
<1>2. DcIs(s)
  BY DEF DcInvOf
<1> HIDE DEF f
<1>3. DcSameRow(s, t) /\ t.threw = s.threw /\ t.stack = <<f>> \o s.stack
  BY <1>2 DEF DcIs, DcSameRow
<1> HIDE DEF t
<1>4. DcStackInv(t)
  <2> SUFFICES ASSUME ~s.stale PROVE t.stack \in Seq(DcGoodFrames)
    BY <1>3 DEF DcStackInv, DcSameRow
  <2>1. f \in DcGoodFrames
    BY DcNewFrame DEF f
  <2>2. s.stack \in Seq(DcGoodFrames)
    BY DEF DcInvOf, DcStackInv
  <2>3. <<f>> \in Seq(DcGoodFrames)
    BY <2>1
  <2> QED
    BY <1>3, <2>2, <2>3, ConcatProperties
<1>5. DcThrewInv(t) /\ t.threw \in BOOLEAN
  BY <1>2, <1>3 DEF DcInvOf, DcThrewInv, DcSameRow, DcIs
<1> QED
  BY <1>1, <1>3, <1>4, <1>5, DcSameInv

\* Another function in the dispatcher's place: nothing hangs on the event.
LEMMA DcReplaceInv ==
  ASSUME NEW s, DcInvOf(s), s.kind # "topic",
         NEW t, t = [s EXCEPT !.at = 0, !.replaces = @ + 1, !.on = {}]
  PROVE  DcInvOf(t)
<1>1. DcIs(s)
  BY DEF DcInvOf
<1>2. /\ DOMAIN t = DOMAIN s /\ t.kind = s.kind /\ t.at = 0 /\ t.ls = s.ls
      /\ t.gone = s.gone /\ t.handle = s.handle /\ t.keydown = s.keydown
      /\ t.refs = s.refs /\ t.on = {} /\ t.stale = s.stale
      /\ t.threw = s.threw /\ t.stack = s.stack
  BY <1>1 DEF DcIs
<1>3. DcRow(t) = <<>> /\ DOMAIN DcRow(t) = {} /\ DcHeld(t) = DcHeld(s)
  BY <1>2 DEF DcRow, DcHeld
<1>4. DcIs(t)
  BY <1>1, <1>2 DEF DcIs
<1>5. DcListInv(t)
  BY <1>3 DEF DcListInv
<1>6. DcOnInv(t)
  BY <1>2, <1>3 DEF DcOnInv
<1>7. DcKeysInv(t)
  BY <1>2, <1>3 DEF DcInvOf, DcKeysInv
<1>8. DcThrewInv(t) /\ DcStackInv(t)
  BY <1>2 DEF DcInvOf, DcThrewInv, DcStackInv
<1> QED
  BY <1>4, <1>5, <1>6, <1>7, <1>8 DEF DcInvOf

-----------------------------------------------------------------------------
\* Calling the next listener of the copy moves it from the rest to the called.
LEMMA DcNextFrame ==
  ASSUME NEW f \in DcGoodFrames, NEW i \in DcLeft(f), \A j \in DcLeft(f) : i <= j
  PROVE  [f EXCEPT !.at = i, !.run = f.copy[i], !.called = Append(@, f.copy[i])]
           \in DcGoodFrames
<1> DEFINE l == f.copy[i]
           g == [f EXCEPT !.at = i, !.run = l, !.called = Append(@, l)]
<1>1. f \in DcFrames /\ DcInOrder(f)
  BY DEF DcGoodFrames
<1>2. f.copy \in Seq(Nat) /\ f.called \in Seq(Nat) /\ f.at \in Nat
  BY <1>1 DEF DcFrames
<1>3. i \in DOMAIN f.copy /\ i > f.at /\ l # 0 /\ DOMAIN f.copy = 1 .. Len(f.copy)
  BY <1>2 DEF DcLeft
<1>4. i \in Nat /\ l \in Nat
  BY <1>2, <1>3
<1> HIDE DEF l
<1>5. /\ Append(f.called, l) \in Seq(Nat)
      /\ DOMAIN Append(f.called, l) = 1 .. Len(f.called) + 1
      /\ Len(Append(f.called, l)) = Len(f.called) + 1
      /\ Append(f.called, l)[Len(f.called) + 1] = l
      /\ \A k \in DOMAIN f.called : Append(f.called, l)[k] = f.called[k]
  BY <1>2, <1>4, DcPushed
<1>6. Len(f.called) \in Nat /\ DOMAIN f.called = 1 .. Len(f.called)
  BY <1>2
<1>7. g \in DcFrames
  BY <1>1, <1>4, <1>5 DEF DcFrames
<1>8. /\ g.copy = f.copy /\ g.at = i /\ g.run = l /\ g.due = f.due
      /\ g.called = Append(f.called, l)
  BY <1>1 DEF DcFrames
<1> HIDE DEF g
<1>9. DcLeft(g) = DcLeft(f) \ {i}
  <2>1. ASSUME NEW j \in DcLeft(g) PROVE j \in DcLeft(f) \ {i}
    <3>1. j \in DOMAIN f.copy /\ j > i /\ f.copy[j] # 0
      BY <1>8 DEF DcLeft
    <3>2. j > f.at /\ j # i
      BY <1>2, <1>3, <1>4, <3>1
    <3> QED
      BY <3>1, <3>2 DEF DcLeft
  <2>2. ASSUME NEW j \in DcLeft(f) \ {i} PROVE j \in DcLeft(g)
    <3>1. j \in DOMAIN f.copy /\ f.copy[j] # 0 /\ i <= j /\ i # j
      BY DEF DcLeft
    <3>2. j > i
      BY <1>3, <1>4, <3>1
    <3> QED
      BY <1>8, <3>1, <3>2 DEF DcLeft
  <2> QED
    BY <2>1, <2>2
<1>10. DcBeen(g) = DcBeen(f) \cup {l}
  <2>1. Len(f.called) + 1 \in DOMAIN g.called
    BY <1>5, <1>6, <1>8
  <2>2. \A k \in DOMAIN f.called : k \in DOMAIN g.called
    BY <1>5, <1>6, <1>8
  <2>3. \A k \in DOMAIN g.called : k = Len(f.called) + 1 \/ k \in DOMAIN f.called
    BY <1>5, <1>6, <1>8
  <2>4. ASSUME NEW x \in DcBeen(g) PROVE x \in DcBeen(f) \cup {l}
    BY <1>5, <1>8, <2>3 DEF DcBeen, ToSet
  <2>5. ASSUME NEW x \in DcBeen(f) PROVE x \in DcBeen(g)
    BY <1>5, <1>8, <2>2 DEF DcBeen, ToSet
  <2>6. l \in DcBeen(g)
    BY <1>5, <1>8, <2>1 DEF DcBeen, ToSet
  <2> QED
    BY <2>4, <2>5, <2>6
<1>11. DcRest(f) = DcRest(g) \cup {l}
  BY <1>8, <1>9 DEF DcRest, l
<1>12. /\ DcBeen(f) \cup DcRest(f) = f.due
       /\ \A a, b \in DOMAIN f.called : a < b => f.called[a] < f.called[b]
       /\ \A a \in DcBeen(f), b \in DcRest(f) : a < b
       /\ \A a, b \in DcLeft(f) : a < b => f.copy[a] < f.copy[b]
  BY <1>1 DEF DcInOrder
<1>13. DcBeen(g) \cup DcRest(g) = g.due
  BY <1>8, <1>10, <1>11, <1>12
<1>14. ASSUME NEW a \in DOMAIN g.called, NEW b \in DOMAIN g.called, a < b
       PROVE  g.called[a] < g.called[b]
  <2>1. a \in DOMAIN f.called /\ g.called[a] = f.called[a]
    BY <1>5, <1>6, <1>8, <1>14
  <2>2. f.called[a] \in DcBeen(f) /\ l \in DcRest(f)
    BY <1>11, <2>1 DEF DcBeen, ToSet
  <2>3. CASE b = Len(f.called) + 1
    BY <1>5, <1>8, <1>12, <2>1, <2>2, <2>3
  <2>4. CASE b \in DOMAIN f.called
    BY <1>5, <1>8, <1>12, <1>14, <2>1, <2>4
  <2> QED
    BY <1>5, <1>6, <1>8, <2>3, <2>4
<1>15. ASSUME NEW a \in DcBeen(g), NEW b \in DcRest(g) PROVE a < b
  <2>1. CASE a \in DcBeen(f)
    BY <1>11, <1>12, <2>1
  <2>2. CASE a = l
    <3>1. PICK j \in DcLeft(g) : b = g.copy[j]
      BY DEF DcRest
    <3>2. j \in DcLeft(f) /\ j # i /\ i <= j /\ j \in DOMAIN f.copy
      BY <1>9 DEF DcLeft
    <3>3. i < j
      BY <1>3, <1>4, <3>2
    <3> QED
      BY <1>8, <1>12, <2>2, <3>1, <3>2, <3>3 DEF l
  <2> QED
    BY <1>10, <2>1, <2>2
<1>16. \A a, b \in DcLeft(g) : a < b => g.copy[a] < g.copy[b]
  BY <1>8, <1>9, <1>12
<1>17. g.run = Last(g.called)
  BY <1>5, <1>8 DEF Last
<1>18. DcInOrder(g)
  BY <1>13, <1>14, <1>15, <1>16, <1>17 DEF DcInOrder
<1>19. g \in DcGoodFrames
  BY <1>7, <1>18 DEF DcGoodFrames
<1> QED
  BY <1>19 DEF g, l

\* A frame that waits for its next call is as good as one whose listener runs.
LEMMA DcIdleFrame ==
  ASSUME NEW f \in DcGoodFrames
  PROVE  [f EXCEPT !.run = 0] \in DcGoodFrames
<1> DEFINE g == [f EXCEPT !.run = 0]
<1>1. f \in DcFrames /\ DcInOrder(f)
  BY DEF DcGoodFrames
<1>2. g \in DcFrames /\ g.copy = f.copy /\ g.at = f.at /\ g.run = 0 /\ g.due = f.due
        /\ g.called = f.called
  BY <1>1 DEF DcFrames
<1> HIDE DEF g
<1>3. DcLeft(g) = DcLeft(f) /\ DcBeen(g) = DcBeen(f)
  BY <1>2 DEF DcLeft, DcBeen
<1>4. DcRest(g) = DcRest(f)
  BY <1>2, <1>3 DEF DcRest
<1>5. DcInOrder(g)
  BY <1>1, <1>2, <1>3, <1>4 DEF DcInOrder
<1>6. g \in DcGoodFrames
  BY <1>2, <1>5 DEF DcGoodFrames
<1> QED
  BY <1>6 DEF g

\* A state that differs in its dispatches only, all of them good ones.
LEMMA DcStackStep ==
  ASSUME NEW s, DcInvOf(s), NEW q, ~s.stale => q \in Seq(DcGoodFrames)
  PROVE  DcInvOf([s EXCEPT !.stack = q])
<1> DEFINE t == [s EXCEPT !.stack = q]
<1>1. DcIs(s) /\ DcThrewInv(s)
  BY DEF DcInvOf
<1>2. DcSameRow(s, t) /\ t.threw = s.threw /\ t.stack = q
  BY <1>1 DEF DcIs, DcSameRow
<1> HIDE DEF t
<1>3. DcThrewInv(t) /\ t.threw \in BOOLEAN
  BY <1>1, <1>2 DEF DcThrewInv, DcSameRow, DcIs
<1>4. DcStackInv(t)
  BY <1>2 DEF DcStackInv, DcSameRow
<1>5. DcInvOf(t)
  BY <1>2, <1>3, <1>4, DcSameInv
<1> QED
  BY <1>5 DEF t

\* The head of the dispatches under way may be exchanged for a good one.
LEMMA DcNewHead ==
  ASSUME NEW s, DcInvOf(s), s.stack # <<>>, ~s.stale
  PROVE  /\ Head(s.stack) \in DcGoodFrames /\ Tail(s.stack) \in Seq(DcGoodFrames)
         /\ \A g \in DcGoodFrames : <<g>> \o Tail(s.stack) \in Seq(DcGoodFrames)
<1>1. s.stack \in Seq(DcGoodFrames)
  BY DEF DcInvOf, DcStackInv
<1>2. Head(s.stack) \in DcGoodFrames /\ Tail(s.stack) \in Seq(DcGoodFrames)
  BY <1>1, HeadTailProperties
<1>3. ASSUME NEW g \in DcGoodFrames
      PROVE  <<g>> \o Tail(s.stack) \in Seq(DcGoodFrames)
  <2>1. <<g>> \in Seq(DcGoodFrames)
    OBVIOUS
  <2> QED
    BY <1>2, <2>1, ConcatProperties
<1> QED
  BY <1>2, <1>3

\* The next listener is called, or found missing.
LEMMA DcCallInv ==
  ASSUME NEW s, DcInvOf(s), s.stack # <<>>, NEW i \in DcLeft(Head(s.stack)),
         \A j \in DcLeft(Head(s.stack)) : i <= j
  PROVE  DcInvOf(DcCall(s, i))
<1> DEFINE f == Head(s.stack)
           l == f.copy[i]
           g == [f EXCEPT !.at = i, !.run = l, !.called = Append(@, l)]
<1>1. CASE s.kind = "ie" /\ l \in s.gone
  <2> DEFINE t == [s EXCEPT !.stack = <<>>, !.threw = TRUE]
  <2>1. DcCall(s, i) = t
    BY <1>1 DEF DcCall
  <2>2. DcSameRow(s, t) /\ t.threw = TRUE /\ t.stack = <<>>
    BY DEF DcInvOf, DcIs, DcSameRow
  <2> HIDE DEF t
  <2>3. t.threw \in BOOLEAN
    BY <2>2
  <2>4. t.stack \in Seq(DcGoodFrames)
    BY <2>2
  <2>5. DcStackInv(t)
    BY <2>4 DEF DcStackInv
  <2>6. DcThrewInv(t)
    BY <1>1, <2>2 DEF DcThrewInv, DcSameRow
  <2> QED
    BY <2>1, <2>2, <2>3, <2>5, <2>6, DcSameInv
<1>2. CASE ~(s.kind = "ie" /\ l \in s.gone)
  <2>1. DcCall(s, i) = [s EXCEPT !.stack = <<g>> \o Tail(@)]
    BY <1>2 DEF DcCall
  <2>2. DcCall(s, i) = [s EXCEPT !.stack = <<g>> \o Tail(s.stack)]
    BY <2>1 DEF DcInvOf, DcIs
  <2>3. ASSUME ~s.stale PROVE <<g>> \o Tail(s.stack) \in Seq(DcGoodFrames)
    <3>1. f \in DcGoodFrames
      BY <2>3, DcNewHead
    <3>2. g \in DcGoodFrames
      BY <3>1, DcNextFrame
    <3> QED
      BY <2>3, <3>2, DcNewHead
  <2> HIDE DEF g
  <2> QED
    BY <2>2, <2>3, DcStackStep
<1> QED
  BY <1>1, <1>2

\* Every step of an event keeps its invariant.
LEMMA DcNextInv == DcInv /\ DcNext => DcInv'
<1> SUFFICES ASSUME DcInvOf(dc), DcNext PROVE DcInvOf(dc')
  BY DEF DcInv
<1>1. DcIs(dc)
  BY DEF DcInvOf
<1>2. CASE DcPageConnect
  BY <1>1, <1>2, DcConnected, DcConnectInv DEF DcPageConnect
<1>3. CASE DcPageDisconnect
  <2>1. PICK l \in DOMAIN dc.handle : dc.handle[l] # 0 /\ dc' = DcDisconnect(dc, l)
    BY <1>3 DEF DcPageDisconnect
  <2>2. DcIsDisconnected(dc, dc', l)
    BY <1>1, <2>1, DcDisconnected
  <2> QED
    BY <2>1, <2>2, DcDisconnectInv
<1>4. CASE DcPageFire
  BY <1>4, DcDispatchInv DEF DcPageFire
<1>5. CASE DcPageReplace
  BY <1>5, DcReplaceInv DEF DcPageReplace
<1>6. CASE DcCallNext
  BY <1>6, DcCallInv DEF DcCallNext
<1>7. CASE DcReturn
  <2> DEFINE f == Head(dc.stack)
             g == [f EXCEPT !.run = 0]
  <2>1. dc.stack # <<>>
    BY <1>7 DEF DcReturn
  <2>2. CASE dc' = [dc EXCEPT !.stack = <<g>> \o Tail(@)]
    <3>1. dc' = [dc EXCEPT !.stack = <<g>> \o Tail(dc.stack)]
      BY <1>1, <2>2 DEF DcIs
    <3>2. ASSUME ~dc.stale PROVE <<g>> \o Tail(dc.stack) \in Seq(DcGoodFrames)
      <4>1. f \in DcGoodFrames
        BY <2>1, <3>2, DcNewHead
      <4>2. g \in DcGoodFrames
        BY <4>1, DcIdleFrame
      <4> QED
        BY <2>1, <3>2, <4>2, DcNewHead
    <3> HIDE DEF g
    <3> QED
      BY <3>1, <3>2, DcStackStep
  <2>3. CASE dc' = [dc EXCEPT !.stack = Tail(@)]
    <3>1. dc' = [dc EXCEPT !.stack = Tail(dc.stack)]
      BY <1>1, <2>3 DEF DcIs
    <3>2. ~dc.stale => Tail(dc.stack) \in Seq(DcGoodFrames)
      BY <2>1, DcNewHead
    <3> QED
      BY <3>1, <3>2, DcStackStep
  <2> QED
    BY <1>7, <2>2, <2>3 DEF DcReturn
<1> QED
  BY <1>2, <1>3, <1>4, <1>5, <1>6, <1>7 DEF DcNext

\* The invariant says of every dispatch what DcDispatched promises.
LEMMA DcInvDispatched == DcInv => DcDispatched
<1> SUFFICES ASSUME DcInvOf(dc), ~dc.stale
             PROVE  /\ DcLive = dc.on
                    /\ \A i \in DOMAIN dc.stack : DcInOrder(dc.stack[i])
                    /\ dc.threw => dc.kind = "ie" /\ dc.gone # {}
                    /\ dc.kind = "ie" =>
                         /\ dc.refs = Cardinality({l \in DOMAIN dc.handle :
                                                     dc.handle[l] # 0})
                         /\ dc.keydown <=> dc.refs > 0
  BY DEF DcInv, DcDispatched
<1>1. DcIs(dc) /\ DOMAIN dc.handle = 1 .. Len(dc.handle) /\ Len(dc.handle) \in Nat
  BY DEF DcInvOf, DcIs
<1>2. DcLive = dc.on
  <2>1. /\ \A l \in dc.on : dc.handle[l] \in DOMAIN DcRow(dc)
                            /\ DcRow(dc)[dc.handle[l]] = l
        /\ \A i \in DOMAIN DcRow(dc) : DcRow(dc)[i] # 0 => DcRow(dc)[i] \in dc.on
    BY DEF DcInvOf, DcOnInv
  <2>2. \A l \in dc.on : l # 0
    BY <1>1 DEF DcIs
  <2>3. ASSUME NEW l \in dc.on PROVE l \in DcLive
    BY <2>1, <2>2 DEF DcLive, ToSet
  <2>4. ASSUME NEW l \in DcLive PROVE l \in dc.on
    BY <2>1 DEF DcLive, ToSet
  <2> QED
    BY <2>3, <2>4
<1>3. \A i \in DOMAIN dc.stack : DcInOrder(dc.stack[i])
  <2>1. dc.stack \in Seq(DcGoodFrames)
    BY DEF DcInvOf, DcStackInv
  <2>2. \A i \in DOMAIN dc.stack : dc.stack[i] \in DcGoodFrames
    BY <2>1
  <2> QED
    BY <2>2 DEF DcGoodFrames
<1>4. dc.threw => dc.kind = "ie" /\ dc.gone # {}
  BY DEF DcInvOf, DcThrewInv
<1>5. dc.kind = "ie" => dc.refs = Cardinality(DcHeld(dc)) /\ (dc.keydown <=> dc.refs > 0)
  BY DEF DcInvOf, DcKeysInv
<1> QED
  BY <1>2, <1>3, <1>4, <1>5 DEF DcHeld

-----------------------------------------------------------------------------
(* Requests: the invariant.                                               *)

AjEvents == {"onRequest", "onCancel", "onSuccess", "onFailure", "onComplete", "link"}

\* The frames of an answer, of which there is one at most, below all others.
AjOfAnswer == {"complete", "success", "failure"}
AjOfPage   == {"request", "cancel", "cancelInSend"}

AjFields == {"kind", "autoCancel", "running", "transport", "wire", "heard", "opened",
             "stack", "chain", "calls10", "calls20", "text", "sent", "links", "log",
             "nested", "broken"}

AjIs(s) ==
  /\ DOMAIN s = AjFields
  /\ s.kind \in AjKinds /\ s.autoCancel \in BOOLEAN
  /\ s.running \in BOOLEAN /\ s.opened \in BOOLEAN
  /\ s.wire \in Seq(Nat) /\ s.transport = Len(s.wire) /\ s.transport > 0
  /\ s.stack \in Seq(AjOfAnswer \cup AjOfPage)
  /\ s.chain \in Seq(Nat) /\ s.calls10 \in Seq(Nat) /\ s.calls20 \in Seq(Nat)
  /\ s.text \in Nat /\ s.sent \in Nat /\ s.links \in Nat
  /\ s.log \in Seq(AjEvents \X Nat)

AjBelow(q) == \A i \in DOMAIN q : q[i] \in AjOfAnswer => i = Len(q)

\* A transport that is open waits for the handlers of onRequest.  What runs beside a
\* risky frame was sent by its handlers.
AjStackInv(s) ==
  /\ AjBelow(s.stack)
  /\ s.opened => s.running /\ "request" \in AjFrames(s)
  /\ s.running /\ AjFrames(s) \cap AjRisky # {} => s.sent \in s.nested

\* Only the transport in use listens, to the request sent last; it carries it, or
\* will, unless the request is a nested one.
AjWireInv(s) ==
  /\ s.heard \subseteq {s.transport}
  /\ s.transport \in s.heard /\ s.wire[s.transport] # 0
       => s.running /\ s.wire[s.transport] = s.sent
  /\ s.running => s.sent > 0
  /\ s.running /\ s.sent \notin s.nested
       => s.transport \in s.heard /\ (s.opened \/ s.wire[s.transport] = s.sent)

\* Only what was sent is answered, and all of it, but for what runs and what is lost.
AjAnswerInv(s) ==
  LET done == AjSaid(s.log, AjAnswers(s.kind))
      past == 1 .. (IF s.running THEN s.sent - 1 ELSE s.sent)
  IN /\ AjRising(s.log, AjAnswers(s.kind))
     /\ done \subseteq past
     /\ past \subseteq done \cup s.broken \cup s.nested

AjDoneInv(s) ==
  LET success  == AjSaid(s.log, {"onSuccess"})
      complete == AjSaid(s.log, {"onComplete"})
  IN /\ s.kind = "Ajax" => AjOneByOne(s.log, "onComplete", s.calls20, success)
     /\ s.kind # "Ajax" => s.calls20 = <<>>
     /\ "complete" \in AjFrames(s) =>
          s.kind = "Json.Remote" /\ s.text \in complete /\ \A x \in success : x < s.text
     /\ s.kind = "Json.Remote" =>
          /\ AjRising(s.log, {"onSuccess"})
          /\ success \subseteq complete
          /\ complete \ success \subseteq
               s.broken \cup (IF "complete" \in AjFrames(s) THEN {s.text} ELSE {})

AjLinkInv(s) == AjOneByOne(s.log, "link", s.calls10 \o s.chain, 1 .. s.links)

\* n more successes than links that follow one.
AjCountInv(s, n) ==
  Cardinality(AjAt(s.log, {"link"})) + Len(s.calls10) + n
    <= Cardinality(AjAt(s.log, {"onSuccess"}))

\* A success whose handlers run has not called its link.
AjDue(s) == IF "success" \in AjFrames(s) THEN 1 ELSE 0

\* The inductive invariant of a request object.
AjInvOf(s) == AjIs(s) /\ AjStackInv(s) /\ AjWireInv(s) /\ AjAnswerInv(s) /\ AjDoneInv(s)
              /\ AjLinkInv(s) /\ AjCountInv(s, AjDue(s))
AjInv == AjInvOf(aj)

-----------------------------------------------------------------------------
(* Requests: what the log says.                                            *)

AjSameAt(log, g, E) ==
  /\ AjAt(g, E) = AjAt(log, E) /\ AjSaid(g, E) = AjSaid(log, E)
  /\ AjRising(log, E) => AjRising(g, E)

AjMoreAt(log, g, E, r) ==
  /\ Cardinality(AjAt(g, E)) = Cardinality(AjAt(log, E)) + 1
  /\ AjSaid(g, E) = AjSaid(log, E) \cup {r}
  /\ AjRising(log, E) /\ (\A x \in AjSaid(log, E) : x < r) => AjRising(g, E)

\* Places in a log are finitely many.
LEMMA AjAtFinite ==
  ASSUME NEW S, NEW log \in Seq(S), NEW E
  PROVE  IsFiniteSet(AjAt(log, E)) /\ Cardinality(AjAt(log, E)) \in Nat
<1>1. DOMAIN log = 1 .. Len(log) /\ Len(log) \in Int /\ 1 \in Int
  OBVIOUS
<1>2. IsFiniteSet(1 .. Len(log))
  BY <1>1, FS_Interval
<1>3. AjAt(log, E) \subseteq 1 .. Len(log)
  BY <1>1 DEF AjAt
<1>4. IsFiniteSet(AjAt(log, E))
  BY <1>2, <1>3, FS_Subset
<1> QED
  BY <1>4, FS_CardinalityType

\* What an event of another kind adds says nothing to E.
LEMMA AjLogOther ==
  ASSUME NEW log \in Seq(AjEvents \X Nat), NEW e \in AjEvents, NEW r \in Nat,
         NEW E, e \notin E
  PROVE  AjSameAt(log, Append(log, <<e, r>>), E)
<1> DEFINE g == Append(log, <<e, r>>)
           n == Len(log) + 1
<1>1. <<e, r>> \in AjEvents \X Nat
  OBVIOUS
<1>2. /\ DOMAIN g = 1 .. n /\ g[n] = <<e, r>>
      /\ \A i \in DOMAIN log : g[i] = log[i]
  BY <1>1, DcPushed
<1>3. DOMAIN log = 1 .. Len(log) /\ Len(log) \in Nat
  OBVIOUS
<1> HIDE DEF g
<1>4. /\ \A i \in DOMAIN log : i \in DOMAIN g
      /\ \A i \in DOMAIN g : i = n \/ i \in DOMAIN log
      /\ g[n][1] = e
  BY <1>2, <1>3
<1> HIDE DEF n
<1>5. AjAt(g, E) = AjAt(log, E)
  <2>1. ASSUME NEW i \in AjAt(g, E) PROVE i \in AjAt(log, E)
    BY <1>2, <1>4 DEF AjAt
  <2>2. ASSUME NEW i \in AjAt(log, E) PROVE i \in AjAt(g, E)
    BY <1>2, <1>4 DEF AjAt
  <2> QED
    BY <2>1, <2>2
<1>6. \A i \in AjAt(log, E) : g[i] = log[i]
  BY <1>2 DEF AjAt
<1>7. AjSaid(g, E) = AjSaid(log, E)
  BY <1>5, <1>6 DEF AjSaid
<1>8. AjRising(log, E) => AjRising(g, E)
  BY <1>5, <1>6 DEF AjRising
<1> QED
  BY <1>5, <1>7, <1>8 DEF AjSameAt, g

\* What an event of E adds comes last and says r.
LEMMA AjLogOne ==
  ASSUME NEW log \in Seq(AjEvents \X Nat), NEW e \in AjEvents, NEW r \in Nat,
         NEW E, e \in E
  PROVE  AjMoreAt(log, Append(log, <<e, r>>), E, r)
<1> DEFINE g == Append(log, <<e, r>>)
           n == Len(log) + 1
<1>1. <<e, r>> \in AjEvents \X Nat
  OBVIOUS
<1>2. /\ DOMAIN g = 1 .. n /\ g[n] = <<e, r>>
      /\ \A i \in DOMAIN log : g[i] = log[i]
  BY <1>1, DcPushed
<1>3. DOMAIN log = 1 .. Len(log) /\ Len(log) \in Nat
  OBVIOUS
<1> HIDE DEF g
<1>4. /\ \A i \in DOMAIN log : i \in DOMAIN g /\ i < n /\ ~(n < i) /\ ~(n < n)
      /\ \A i \in DOMAIN g : i = n \/ i \in DOMAIN log
      /\ n \in DOMAIN g /\ n \notin DOMAIN log /\ g[n][1] = e /\ g[n][2] = r
      /\ ~(n < n)
  BY <1>2, <1>3
<1> HIDE DEF n
<1>5. AjAt(g, E) = AjAt(log, E) \cup {n}
  <2>1. ASSUME NEW i \in AjAt(g, E) PROVE i \in AjAt(log, E) \cup {n}
    BY <1>2, <1>4 DEF AjAt
  <2>2. ASSUME NEW i \in AjAt(log, E) PROVE i \in AjAt(g, E)
    BY <1>2, <1>4 DEF AjAt
  <2>3. n \in AjAt(g, E)
    BY <1>4 DEF AjAt
  <2> QED
    BY <2>1, <2>2, <2>3
<1>6. \A i \in AjAt(log, E) : g[i] = log[i] /\ i \in DOMAIN log
  BY <1>2 DEF AjAt
<1>7. AjSaid(g, E) = AjSaid(log, E) \cup {r}
  <2>1. ASSUME NEW x \in AjSaid(g, E) PROVE x \in AjSaid(log, E) \cup {r}
    BY <1>4, <1>5, <1>6 DEF AjSaid
  <2>2. ASSUME NEW x \in AjSaid(log, E) PROVE x \in AjSaid(g, E)
    BY <1>5, <1>6 DEF AjSaid
  <2>3. r \in AjSaid(g, E)
    BY <1>4, <1>5 DEF AjSaid
  <2> QED
    BY <2>1, <2>2, <2>3
<1>8. ASSUME AjRising(log, E), \A x \in AjSaid(log, E) : x < r
      PROVE  AjRising(g, E)
  <2> SUFFICES ASSUME NEW i \in AjAt(g, E), NEW j \in AjAt(g, E), i < j
               PROVE  g[i][2] < g[j][2]
    BY DEF AjRising
  <2>1. i \in AjAt(log, E)
    BY <1>4, <1>5, <1>6
  <2>2. CASE j = n
    BY <1>4, <1>6, <1>8, <2>1, <2>2 DEF AjSaid
  <2>3. CASE j \in AjAt(log, E)
    BY <1>6, <1>8, <2>1, <2>3 DEF AjRising
  <2> QED
    BY <1>5, <2>2, <2>3
<1>9. Cardinality(AjAt(g, E)) = Cardinality(AjAt(log, E)) + 1
  <2>1. IsFiniteSet(AjAt(log, E))
    BY AjAtFinite
  <2>2. n \notin AjAt(log, E)
    BY <1>4 DEF AjAt
  <2> QED
    BY <1>5, <2>1, <2>2, FS_AddElement
<1> QED
  BY <1>7, <1>8, <1>9 DEF AjMoreAt, g

\* An event of another kind leaves what comes one by one.
LEMMA AjOneSame ==
  ASSUME NEW log, NEW g, NEW e, AjSameAt(log, g, {e}), NEW q, NEW S,
         AjOneByOne(log, e, q, S)
  PROVE  AjOneByOne(g, e, q, S)
BY DEF AjSameAt, AjOneByOne

\* A further call waits behind the others.
LEMMA AjOneAppend ==
  ASSUME NEW log, NEW e, NEW q \in Seq(Nat), NEW S, AjOneByOne(log, e, q, S),
         NEW x \in Nat, \A y \in S : y < x
  PROVE  AjOneByOne(log, e, Append(q, x), S \cup {x})
<1> DEFINE p == Append(q, x)
           n == Len(q) + 1
<1>1. DOMAIN p = 1 .. n /\ p[n] = x /\ \A i \in DOMAIN q : p[i] = q[i]
  BY DcPushed
<1>2. DOMAIN q = 1 .. Len(q) /\ Len(q) \in Nat
  OBVIOUS
<1> HIDE DEF p
<1>3. /\ \A i \in DOMAIN q : i \in DOMAIN p /\ ~(n < i)
      /\ \A i \in DOMAIN p : i = n \/ i \in DOMAIN q
      /\ n \in DOMAIN p /\ ~(n < n)
  BY <1>1, <1>2
<1> HIDE DEF n
<1>4. /\ AjSaid(log, {e}) \cup {q[i] : i \in DOMAIN q} = S
      /\ AjRising(log, {e})
      /\ \A i, j \in DOMAIN q : i < j => q[i] < q[j]
      /\ \A y \in AjSaid(log, {e}), i \in DOMAIN q : y < q[i]
  BY DEF AjOneByOne
<1>5. {p[i] : i \in DOMAIN p} = {q[i] : i \in DOMAIN q} \cup {x}
  <2>1. ASSUME NEW y \in {p[i] : i \in DOMAIN p}
        PROVE  y \in {q[i] : i \in DOMAIN q} \cup {x}
    BY <1>1, <1>3
  <2>2. ASSUME NEW y \in {q[i] : i \in DOMAIN q} PROVE y \in {p[i] : i \in DOMAIN p}
    BY <1>1, <1>3
  <2>3. x \in {p[i] : i \in DOMAIN p}
    BY <1>1, <1>3
  <2> QED
    BY <2>1, <2>2, <2>3
<1>6. \A i, j \in DOMAIN p : i < j => p[i] < p[j]
  <2> SUFFICES ASSUME NEW i \in DOMAIN p, NEW j \in DOMAIN p, i < j
               PROVE  p[i] < p[j]
    OBVIOUS
  <2>1. i \in DOMAIN q
    BY <1>3
  <2>2. CASE j = n
    BY <1>1, <1>4, <2>1, <2>2
  <2>3. CASE j \in DOMAIN q
    BY <1>1, <1>4, <2>1, <2>3
  <2> QED
    BY <1>3, <2>2, <2>3
<1>7. \A y \in AjSaid(log, {e}), i \in DOMAIN p : y < p[i]
  BY <1>1, <1>3, <1>4
<1>8. AjSaid(log, {e}) \cup {p[i] : i \in DOMAIN p} = S \cup {x}
  BY <1>4, <1>5
<1> QED
  BY <1>4, <1>6, <1>7, <1>8 DEF AjOneByOne, p

\* The first of the calls comes.
LEMMA AjOneTake ==
  ASSUME NEW log, NEW g, NEW e, NEW q \in Seq(Nat), NEW S, AjOneByOne(log, e, q, S),
         q # <<>>, AjMoreAt(log, g, {e}, Head(q))
  PROVE  AjOneByOne(g, e, Tail(q), S)
<1> DEFINE p == Tail(q)
           h == Head(q)
<1>1. /\ Len(p) = Len(q) - 1 /\ p \in Seq(Nat) /\ h = q[1]
      /\ \A i \in 1 .. Len(p) : p[i] = q[i + 1]
  BY HeadTailProperties
<1>2. Len(q) \in Nat /\ Len(q) > 0 /\ DOMAIN q = 1 .. Len(q)
  OBVIOUS
<1>3. DOMAIN p = 1 .. Len(q) - 1
  BY <1>1
<1> HIDE DEF p, h
<1>4. \A i \in DOMAIN p : i + 1 \in DOMAIN q /\ 1 < i + 1 /\ p[i] = q[i + 1]
  BY <1>1, <1>2, <1>3
<1>5. \A i \in DOMAIN q : i = 1 \/ (i - 1 \in DOMAIN p /\ p[i - 1] = q[i])
  BY <1>1, <1>2, <1>3
<1>6. 1 \in DOMAIN q
  BY <1>2
<1>7. /\ AjSaid(log, {e}) \cup {q[i] : i \in DOMAIN q} = S
      /\ AjRising(log, {e})
      /\ \A i, j \in DOMAIN q : i < j => q[i] < q[j]
      /\ \A y \in AjSaid(log, {e}), i \in DOMAIN q : y < q[i]
  BY DEF AjOneByOne
<1>8. /\ AjSaid(g, {e}) = AjSaid(log, {e}) \cup {h}
      /\ AjRising(log, {e}) /\ (\A x \in AjSaid(log, {e}) : x < h) => AjRising(g, {e})
  BY DEF AjMoreAt, h
<1>9. {q[i] : i \in DOMAIN q} = {p[i] : i \in DOMAIN p} \cup {h}
  <2>1. ASSUME NEW y \in {q[i] : i \in DOMAIN q}
        PROVE  y \in {p[i] : i \in DOMAIN p} \cup {h}
    <3>1. PICK i \in DOMAIN q : y = q[i]
      OBVIOUS
    <3>2. CASE i = 1
      BY <1>1, <3>1, <3>2
    <3>3. CASE i - 1 \in DOMAIN p /\ p[i - 1] = q[i]
      BY <3>1, <3>3
    <3> QED
      BY <1>5, <3>2, <3>3
  <2>2. ASSUME NEW y \in {p[i] : i \in DOMAIN p} PROVE y \in {q[i] : i \in DOMAIN q}
    BY <1>4
  <2>3. h \in {q[i] : i \in DOMAIN q}
    BY <1>1, <1>6
  <2> QED
    BY <2>1, <2>2, <2>3
<1>10. AjSaid(g, {e}) \cup {p[i] : i \in DOMAIN p} = S
  BY <1>7, <1>8, <1>9
<1>11. AjRising(g, {e})
  BY <1>1, <1>6, <1>7, <1>8
<1>12. \A i, j \in DOMAIN p : i < j => p[i] < p[j]
  <2> SUFFICES ASSUME NEW i \in DOMAIN p, NEW j \in DOMAIN p, i < j
               PROVE  p[i] < p[j]
    OBVIOUS
  <2>1. i + 1 < j + 1
    BY <1>1, <1>2, <1>3
  <2> QED
    BY <1>4, <1>7, <2>1
<1>13. \A y \in AjSaid(g, {e}), i \in DOMAIN p : y < p[i]
  BY <1>1, <1>4, <1>6, <1>7, <1>8
<1> QED
  BY <1>10, <1>11, <1>12, <1>13 DEF AjOneByOne, p

\* Three sequences in a row.
LEMMA AjThree ==
  ASSUME NEW a \in Seq(Nat), NEW b \in Seq(Nat), NEW c \in Seq(Nat)
  PROVE  (a \o b) \o c = a \o (b \o c)
BY ConcatAssociative

\* The head of one sequence moves to the end of another.
LEMMA AjMoved ==
  ASSUME NEW q \in Seq(Nat), NEW p \in Seq(Nat), p # <<>>
  PROVE  Append(q, Head(p)) \o Tail(p) = q \o p
<1> DEFINE h == <<Head(p)>>
           t == Tail(p)
<1>1. Head(p) \in Nat /\ t \in Seq(Nat) /\ p = h \o t
  BY HeadTailProperties
<1>2. h \in Seq(Nat)
  BY <1>1
<1>3. Append(q, Head(p)) = q \o h
  BY <1>1, AppendIsConcat
<1> HIDE DEF h, t
<1>4. (q \o h) \o t = q \o (h \o t)
  BY <1>1, <1>2, AjThree, SMTT(30)
<1>5. Append(q, Head(p)) \o t = q \o p
  BY <1>1, <1>3, <1>4
<1> QED
  BY <1>5 DEF t

\* The head and the tail of two sequences in a row.
LEMMA AjConcatTail ==
  ASSUME NEW q \in Seq(Nat), NEW p \in Seq(Nat), q # <<>>
  PROVE  /\ q \o p \in Seq(Nat) /\ q \o p # <<>>
         /\ Head(q \o p) = Head(q) /\ Tail(q \o p) = Tail(q) \o p
<1> DEFINE c == q \o p
<1>1. /\ c \in Seq(Nat) /\ Len(c) = Len(q) + Len(p)
      /\ \A i \in 1 .. Len(c) : c[i] = IF i <= Len(q) THEN q[i] ELSE p[i - Len(q)]
  BY ConcatProperties
<1>2. Len(q) \in Nat /\ Len(q) > 0 /\ Len(p) \in Nat
  OBVIOUS
<1> HIDE DEF c
<1>3. Len(c) > 0 /\ c[1] = q[1]
  BY <1>1, <1>2
<1>4. c # <<>>
  BY <1>3
<1>5. Head(c) = Head(q)
  BY <1>3, <1>4
<1>6. /\ Tail(c) \in Seq(Nat) /\ Len(Tail(c)) = Len(c) - 1
      /\ \A i \in 1 .. Len(Tail(c)) : Tail(c)[i] = c[i + 1]
  BY <1>1, <1>4, HeadTailProperties
<1> DEFINE t == Tail(q)
           d == t \o p
<1>7. /\ t \in Seq(Nat) /\ Len(t) = Len(q) - 1 /\ Len(t) \in Nat
      /\ \A i \in 1 .. Len(t) : t[i] = q[i + 1]
  BY HeadTailProperties
<1> HIDE DEF t
<1>8. /\ d \in Seq(Nat) /\ Len(d) = Len(t) + Len(p)
      /\ \A i \in 1 .. Len(d) : d[i] = IF i <= Len(t) THEN t[i] ELSE p[i - Len(t)]
  <2>1. t \in Seq(Nat)
    BY <1>7
  <2> QED
    BY <2>1, ConcatProperties
<1> HIDE DEF d
<1>9. Len(Tail(c)) = Len(d)
  BY <1>1, <1>2, <1>6, <1>7, <1>8
<1>10. ASSUME NEW i \in 1 .. Len(d) PROVE Tail(c)[i] = d[i]
  <2>1. i + 1 \in 1 .. Len(c) /\ Tail(c)[i] = c[i + 1] /\ i \in Nat
    BY <1>1, <1>2, <1>6, <1>7, <1>8, <1>9
  <2>2. CASE i <= Len(t)
    <3>1. i + 1 <= Len(q) /\ i \in 1 .. Len(t)
      BY <1>2, <1>7, <2>1, <2>2
    <3> QED
      BY <1>1, <1>7, <1>8, <2>1, <2>2, <3>1
  <2>3. CASE ~(i <= Len(t))
    <3>1. Len(t) = Len(q) - 1 /\ Len(t) \in Nat
      BY <1>7
    <3>2. i \in Int /\ Len(q) \in Int
      BY <1>2, <2>1
    <3>3. ~(i + 1 <= Len(q)) /\ i - Len(t) = (i + 1) - Len(q)
      BY <2>3, <3>1, <3>2
    <3>4. c[i + 1] = p[(i + 1) - Len(q)]
      BY <1>1, <2>1, <3>3
    <3>5. d[i] = p[i - Len(t)]
      BY <1>8, <2>3
    <3> QED
      BY <2>1, <3>3, <3>4, <3>5
  <2> QED
    BY <2>2, <2>3
<1>11. Tail(c) = d
  BY <1>6, <1>8, <1>9, <1>10, SeqEqual
<1> QED
  BY <1>1, <1>4, <1>5, <1>11 DEF c, d, t

\* Appending to the second of two sequences in a row.
LEMMA AjConcatAppend ==
  ASSUME NEW q \in Seq(Nat), NEW p \in Seq(Nat), NEW l \in Nat
  PROVE  q \o p \in Seq(Nat) /\ q \o Append(p, l) = Append(q \o p, l)
<1>1. <<l>> \in Seq(Nat)
  OBVIOUS
<1>2. q \o p \in Seq(Nat)
  BY ConcatProperties
<1>3. Append(p, l) = p \o <<l>>
  BY AppendIsConcat
<1>4. Append(q \o p, l) = (q \o p) \o <<l>>
  BY <1>2, AppendIsConcat
<1>5. (q \o p) \o <<l>> = q \o (p \o <<l>>)
  BY <1>1, ConcatAssociative
<1> QED
  BY <1>2, <1>3, <1>4, <1>5

-----------------------------------------------------------------------------
(* Requests: the parts of a step.                                          *)

AjIn(q) == {q[i] : i \in DOMAIN q}

\* A frame on top of the others.
LEMMA AjPushed ==
  ASSUME NEW q \in Seq(AjOfAnswer \cup AjOfPage), AjBelow(q),
         NEW f \in AjOfAnswer \cup AjOfPage, f \in AjOfAnswer => q = <<>>
  PROVE  /\ <<f>> \o q \in Seq(AjOfAnswer \cup AjOfPage) /\ AjBelow(<<f>> \o q)
         /\ AjIn(<<f>> \o q) = AjIn(q) \cup {f}
<1> DEFINE p == <<f>> \o q
<1>1. <<f>> \in Seq(AjOfAnswer \cup AjOfPage) /\ Len(<<f>>) = 1 /\ <<f>>[1] = f
        /\ Len(q) \in Nat /\ DOMAIN q = 1 .. Len(q)
  OBVIOUS
<1>2. p \in Seq(AjOfAnswer \cup AjOfPage) /\ Len(p) = 1 + Len(q)
        /\ \A i \in 1 .. Len(p) : p[i] = IF i <= 1 THEN <<f>>[i] ELSE q[i - 1]
  BY <1>1, ConcatProperties
<1>3. DOMAIN p = 1 .. Len(p) /\ Len(p) = Len(q) + 1
  BY <1>1, <1>2
<1> HIDE DEF p
<1>4. p[1] = f /\ \A i \in DOMAIN q : i + 1 \in DOMAIN p /\ p[i + 1] = q[i]
  BY <1>1, <1>2, <1>3
<1>5. \A i \in DOMAIN p : i = 1 \/ (i - 1 \in DOMAIN q /\ p[i] = q[i - 1])
  BY <1>1, <1>2, <1>3
<1>6. AjIn(p) = AjIn(q) \cup {f}
  <2>1. ASSUME NEW x \in AjIn(p) PROVE x \in AjIn(q) \cup {f}
    <3>1. PICK i \in DOMAIN p : x = p[i]
      BY DEF AjIn
    <3> QED
      BY <1>4, <1>5, <3>1 DEF AjIn
  <2>2. ASSUME NEW x \in AjIn(q) PROVE x \in AjIn(p)
    <3>1. PICK i \in DOMAIN q : x = q[i]
      BY DEF AjIn
    <3> QED
      BY <1>4, <3>1 DEF AjIn
  <2>3. f \in AjIn(p)
    <3>1. 1 \in DOMAIN p
      BY <1>1, <1>3
    <3> QED
      BY <1>4, <3>1 DEF AjIn
  <2> QED
    BY <2>1, <2>2, <2>3
<1>7. AjBelow(p)
  <2> SUFFICES ASSUME NEW i \in DOMAIN p, p[i] \in AjOfAnswer PROVE i = Len(p)
    BY DEF AjBelow
  <2>1. CASE i = 1
    <3>1. Len(q) = 0
      BY <1>4, <2>1
    <3> QED
      BY <1>3, <2>1, <3>1
  <2>2. CASE i - 1 \in DOMAIN q /\ p[i] = q[i - 1]
    <3>1. i - 1 = Len(q)
      BY <2>2 DEF AjBelow
    <3> QED
      BY <1>1, <1>3, <3>1
  <2> QED
    BY <1>5, <2>1, <2>2
<1> QED
  BY <1>2, <1>6, <1>7 DEF p

\* The frames below the top one.
LEMMA AjPopped ==
  ASSUME NEW q \in Seq(AjOfAnswer \cup AjOfPage), AjBelow(q), q # <<>>
  PROVE  /\ Tail(q) \in Seq(AjOfAnswer \cup AjOfPage) /\ AjBelow(Tail(q))
         /\ Head(q) \in AjOfAnswer \cup AjOfPage
         /\ AjIn(q) = AjIn(Tail(q)) \cup {Head(q)}
         /\ Head(q) \in AjOfAnswer => Tail(q) = <<>> /\ AjIn(Tail(q)) = {}
<1> DEFINE p == Tail(q)
<1>1. /\ p \in Seq(AjOfAnswer \cup AjOfPage) /\ Len(p) = Len(q) - 1
      /\ \A i \in 1 .. Len(p) : p[i] = q[i + 1]
      /\ Head(q) \in AjOfAnswer \cup AjOfPage
  BY HeadTailProperties
<1>2. DOMAIN p = 1 .. Len(p) /\ DOMAIN q = 1 .. Len(q) /\ Len(q) \in Nat
        /\ Len(q) > 0 /\ Head(q) = q[1]
  BY <1>1
<1> HIDE DEF p
<1>3. \A i \in DOMAIN p : i + 1 \in DOMAIN q /\ p[i] = q[i + 1]
  BY <1>1, <1>2
<1>4. \A i \in DOMAIN q : i = 1 \/ (i - 1 \in DOMAIN p /\ q[i] = p[i - 1])
  <2> SUFFICES ASSUME NEW i \in DOMAIN q, i # 1
               PROVE  i - 1 \in DOMAIN p /\ q[i] = p[i - 1]
    OBVIOUS
  <2>1. i - 1 \in 1 .. Len(p) /\ (i - 1) + 1 = i
    BY <1>1, <1>2
  <2> QED
    BY <1>1, <1>2, <2>1
<1>5. AjIn(q) = AjIn(p) \cup {Head(q)}
  <2>1. ASSUME NEW x \in AjIn(q) PROVE x \in AjIn(p) \cup {Head(q)}
    <3>1. PICK i \in DOMAIN q : x = q[i]
      BY DEF AjIn
    <3> QED
      BY <1>2, <1>4, <3>1 DEF AjIn
  <2>2. ASSUME NEW x \in AjIn(p) PROVE x \in AjIn(q)
    <3>1. PICK i \in DOMAIN p : x = p[i]
      BY DEF AjIn
    <3> QED
      BY <1>3, <3>1 DEF AjIn
  <2>3. Head(q) \in AjIn(q)
    <3>1. 1 \in DOMAIN q
      BY <1>2
    <3> QED
      BY <1>2, <3>1 DEF AjIn
  <2> QED
    BY <2>1, <2>2, <2>3
<1>6. AjBelow(p)
  <2> SUFFICES ASSUME NEW i \in DOMAIN p, p[i] \in AjOfAnswer PROVE i = Len(p)
    BY DEF AjBelow
  <2>1. i + 1 = Len(q)
    BY <1>3 DEF AjBelow
  <2> QED
    BY <1>1, <1>2, <2>1
<1>7. ASSUME Head(q) \in AjOfAnswer PROVE p = <<>> /\ AjIn(p) = {}
  <2>1. 1 = Len(q)
    BY <1>2, <1>7 DEF AjBelow
  <2>2. Len(p) = 0 /\ DOMAIN p = {}
    BY <1>1, <1>2, <2>1
  <2> QED
    BY <1>1, <2>2 DEF AjIn
<1> QED
  BY <1>1, <1>5, <1>6, <1>7 DEF p

\* What an event does to what the log says.
AjFired(log, g, e, r) ==
  /\ g \in Seq(AjEvents \X Nat)
  /\ \A E \in SUBSET AjEvents :
       IF e \in E THEN AjMoreAt(log, g, E, r) ELSE AjSameAt(log, g, E)

LEMMA AjLogged ==
  ASSUME NEW log \in Seq(AjEvents \X Nat), NEW e \in AjEvents, NEW r \in Nat
  PROVE  AjFired(log, Append(log, <<e, r>>), e, r)
<1>1. <<e, r>> \in AjEvents \X Nat
  OBVIOUS
<1>2. Append(log, <<e, r>>) \in Seq(AjEvents \X Nat)
  BY <1>1, DcPushed
<1>3. ASSUME NEW E \in SUBSET AjEvents, e \in E
      PROVE  AjMoreAt(log, Append(log, <<e, r>>), E, r)
  BY <1>3, AjLogOne
<1>4. ASSUME NEW E \in SUBSET AjEvents, e \notin E
      PROVE  AjSameAt(log, Append(log, <<e, r>>), E)
  BY <1>4, AjLogOther
<1> QED
  BY <1>2, <1>3, <1>4 DEF AjFired

\* The events an answer may be.
LEMMA AjAnswersAre ==
  ASSUME NEW k \in AjKinds
  PROVE  /\ AjAnswers(k) \in SUBSET AjEvents
         /\ "onFailure" \in AjAnswers(k) /\ "onCancel" \in AjAnswers(k)
         /\ "onRequest" \notin AjAnswers(k) /\ "link" \notin AjAnswers(k)
         /\ "onSuccess" \in AjAnswers(k) <=> k # "Json.Remote"
         /\ "onComplete" \in AjAnswers(k) <=> k = "Json.Remote"
BY DEF AjAnswers, AjEvents, AjKinds

\* The class and its option.
AjSameKind(s, t) ==
  DOMAIN t = DOMAIN s /\ t.kind = s.kind /\ t.autoCancel = s.autoCancel
\* The links and their calls.
AjSameLinks(s, t) == t.chain = s.chain /\ t.calls10 = s.calls10 /\ t.links = s.links
\* The response and what came of it.
AjSameText(s, t) == t.calls20 = s.calls20 /\ t.text = s.text /\ t.broken = s.broken
\* The request and its transport.
AjSameWire(s, t) ==
  /\ t.running = s.running /\ t.opened = s.opened /\ t.sent = s.sent
  /\ t.transport = s.transport /\ t.wire = s.wire /\ t.heard = s.heard
  /\ t.nested = s.nested

LEMMA AjLinkKept ==
  ASSUME NEW s, NEW t, AjSameLinks(s, t), AjLinkInv(s), AjSameAt(s.log, t.log, {"link"})
  PROVE  AjLinkInv(t)
BY AjOneSame DEF AjSameLinks, AjLinkInv

LEMMA AjCountKept ==
  ASSUME NEW s, NEW t, NEW n, t.calls10 = s.calls10, AjCountInv(s, n),
         AjSameAt(s.log, t.log, {"link"}), AjSameAt(s.log, t.log, {"onSuccess"})
  PROVE  AjCountInv(t, n)
BY DEF AjCountInv, AjSameAt

LEMMA AjDoneKept ==
  ASSUME NEW s, NEW t, t.kind = s.kind, t.calls20 = s.calls20, t.text = s.text,
         s.broken \subseteq t.broken, AjDoneInv(s),
         "complete" \in AjFrames(t) <=> "complete" \in AjFrames(s),
         AjSameAt(s.log, t.log, {"onComplete"}), AjSameAt(s.log, t.log, {"onSuccess"})
  PROVE  AjDoneInv(t)
<1>1. AjSaid(t.log, {"onSuccess"}) = AjSaid(s.log, {"onSuccess"})
        /\ AjSaid(t.log, {"onComplete"}) = AjSaid(s.log, {"onComplete"})
        /\ (AjRising(s.log, {"onSuccess"}) => AjRising(t.log, {"onSuccess"}))
  BY DEF AjSameAt
<1>2. \A S : AjOneByOne(s.log, "onComplete", s.calls20, S)
               => AjOneByOne(t.log, "onComplete", s.calls20, S)
  BY AjOneSame
<1> QED
  BY <1>1, <1>2 DEF AjDoneInv

\* What an event that answers nothing leaves of the rest.
LEMMA AjQuiet ==
  ASSUME NEW s, NEW t, NEW e \in {"onRequest", "onCancel", "onFailure"}, NEW r,
         AjFired(s.log, t.log, e, r), AjSameKind(s, t), AjSameLinks(s, t),
         AjSameText(s, t), AjDoneInv(s), AjLinkInv(s), NEW n, AjCountInv(s, n),
         "complete" \in AjFrames(t) <=> "complete" \in AjFrames(s)
  PROVE  AjDoneInv(t) /\ AjLinkInv(t) /\ AjCountInv(t, n)
<1>1. {"link"} \in SUBSET AjEvents /\ {"onSuccess"} \in SUBSET AjEvents
        /\ {"onComplete"} \in SUBSET AjEvents
  BY DEF AjEvents
<1>2. e \notin {"link"} /\ e \notin {"onSuccess"} /\ e \notin {"onComplete"}
  OBVIOUS
<1>3. /\ AjSameAt(s.log, t.log, {"link"}) /\ AjSameAt(s.log, t.log, {"onSuccess"})
      /\ AjSameAt(s.log, t.log, {"onComplete"})
  BY <1>1, <1>2 DEF AjFired
<1>4. AjDoneInv(t)
  BY <1>3, AjDoneKept DEF AjSameKind, AjSameText
<1>5. AjLinkInv(t)
  BY <1>3, AjLinkKept
<1>6. AjCountInv(t, n)
  BY <1>3, AjCountKept DEF AjSameLinks
<1> QED
  BY <1>4, <1>5, <1>6

\* The request that runs is answered by event e.
LEMMA AjAnswersRun ==
  ASSUME NEW s, AjIs(s), AjAnswerInv(s), s.running, s.sent > 0, NEW t, AjSameKind(s, t),
         NEW e \in AjAnswers(s.kind), AjFired(s.log, t.log, e, s.sent),
         t.running = FALSE, t.sent = s.sent, s.broken \subseteq t.broken,
         t.nested = s.nested
  PROVE  AjAnswerInv(t)
<1> DEFINE A == AjAnswers(s.kind)
           done == AjSaid(s.log, A)
<1>1. s.sent \in Nat /\ A \in SUBSET AjEvents
  BY AjAnswersAre DEF AjIs
<1>2. AjRising(s.log, A) /\ done \subseteq 1 .. s.sent - 1
        /\ 1 .. s.sent - 1 \subseteq done \cup s.broken \cup s.nested
  BY DEF AjAnswerInv
<1>3. AjMoreAt(s.log, t.log, A, s.sent)
  BY <1>1 DEF AjFired
<1>4. A = AjAnswers(t.kind)
  BY DEF AjSameKind
<1> HIDE DEF A, done
<1>5. \A x \in done : x < s.sent
  BY <1>1, <1>2
<1>6. AjRising(t.log, A) /\ AjSaid(t.log, A) = done \cup {s.sent}
  BY <1>2, <1>3, <1>5 DEF AjMoreAt, done
<1>7. 1 .. s.sent = (1 .. s.sent - 1) \cup {s.sent}
  BY <1>1
<1> QED
  BY <1>2, <1>4, <1>6, <1>7 DEF AjAnswerInv

\* Nothing is answered.
LEMMA AjAnswersSame ==
  ASSUME NEW s, AjIs(s), AjAnswerInv(s), NEW t, t.kind = s.kind,
         AjSameAt(s.log, t.log, AjAnswers(s.kind)), t.running = s.running, t.sent = s.sent,
         s.broken \subseteq t.broken, t.nested = s.nested
  PROVE  AjAnswerInv(t)
BY DEF AjAnswerInv, AjSameAt

-----------------------------------------------------------------------------
(* Requests: send() and cancel().                                          *)

\* cancel() answers the request that runs and takes a new transport.
LEMMA AjCancelInv ==
  ASSUME NEW s, AjInvOf(s), s.running, NEW f \in {"cancel", "cancelInSend"}
  PROVE  AjInvOf(AjCancel(s, f))
<1> DEFINE c == s.transport
           w == [s.wire EXCEPT ![c] = 0]
           g == Append(s.log, <<"onCancel", s.sent>>)
           u == [s EXCEPT !.running = FALSE, !.wire[c] = 0, !.heard = @ \ {c}]
           v == AjSetTransport(u)
           t == AjFire(v, "onCancel", s.sent, f)
<1>1. AjIs(s) /\ AjCancel(s, f) = t
  BY DEF AjInvOf, AjCancel
<1>2. /\ DOMAIN u = DOMAIN s /\ u.kind = s.kind /\ u.autoCancel = s.autoCancel
      /\ u.running = FALSE /\ u.transport = c /\ u.wire = w /\ u.opened = s.opened
      /\ u.heard = s.heard \ {c} /\ u.sent = s.sent /\ u.nested = s.nested
      /\ u.stack = s.stack /\ AjSameLinks(s, u) /\ AjSameText(s, u) /\ u.log = s.log
  BY <1>1 DEF AjIs, AjFields, AjSameLinks, AjSameText
<1> HIDE DEF u, g, w
<1>3. /\ DOMAIN v = DOMAIN s /\ v.kind = s.kind /\ v.autoCancel = s.autoCancel
      /\ v.running = FALSE /\ v.transport = c + 1 /\ v.wire = Append(w, 0)
      /\ v.opened = FALSE
      /\ v.heard = s.heard \ {c} /\ v.sent = s.sent /\ v.nested = s.nested
      /\ v.stack = s.stack /\ AjSameLinks(s, v) /\ AjSameText(s, v) /\ v.log = s.log
  BY <1>1, <1>2 DEF AjIs, AjFields, AjSetTransport, AjSameLinks, AjSameText
<1> HIDE DEF v
<1>4. /\ AjSameKind(s, t)
      /\ t.running = FALSE /\ t.transport = c + 1 /\ t.wire = Append(w, 0)
      /\ t.opened = FALSE
      /\ t.heard = s.heard \ {c} /\ t.sent = s.sent /\ t.nested = s.nested
      /\ t.stack = <<f>> \o s.stack /\ AjSameLinks(s, t) /\ AjSameText(s, t) /\ t.log = g
  BY <1>1, <1>3 DEF AjIs, AjFields, AjFire, AjLog, AjSameLinks, AjSameText, AjSameKind, g
<1> HIDE DEF t
<1>5. s.wire \in Seq(Nat) /\ c = Len(s.wire) /\ c \in 1 .. Len(s.wire)
        /\ s.log \in Seq(AjEvents \X Nat) /\ s.sent \in Nat /\ s.sent > 0
        /\ s.stack \in Seq(AjOfAnswer \cup AjOfPage) /\ AjBelow(s.stack)
  BY <1>1 DEF AjIs, AjInvOf, AjWireInv, AjStackInv
<1>6. w \in Seq(Nat) /\ Len(w) = c
  BY <1>5, ExceptSeq DEF w
<1>7. /\ Append(w, 0) \in Seq(Nat) /\ Len(Append(w, 0)) = c + 1
      /\ Append(w, 0)[c + 1] = 0
  BY <1>6, DcPushed
<1>8. AjFired(s.log, g, "onCancel", s.sent)
  BY <1>5, AjLogged DEF g, AjEvents
<1>9. /\ t.stack \in Seq(AjOfAnswer \cup AjOfPage) /\ AjBelow(t.stack)
      /\ AjFrames(t) = AjFrames(s) \cup {f}
  <2>1. f \in AjOfAnswer \cup AjOfPage /\ f \notin AjOfAnswer
    BY DEF AjOfAnswer, AjOfPage
  <2>2. /\ <<f>> \o s.stack \in Seq(AjOfAnswer \cup AjOfPage)
        /\ AjBelow(<<f>> \o s.stack) /\ AjIn(<<f>> \o s.stack) = AjIn(s.stack) \cup {f}
    BY <1>5, <2>1, AjPushed
  <2>3. AjFrames(t) = AjIn(t.stack) /\ AjFrames(s) = AjIn(s.stack)
    BY DEF AjFrames, AjIn
  <2> QED
    BY <1>4, <2>2, <2>3
<1>10. AjIs(t)
  <2>1. t.wire \in Seq(Nat) /\ t.transport = Len(t.wire) /\ t.transport > 0
    BY <1>4, <1>5, <1>7
  <2> QED
    BY <1>1, <1>4, <1>8, <1>9, <2>1
       DEF AjIs, AjSameKind, AjSameLinks, AjSameText, AjFired
<1>11. AjStackInv(t)
  BY <1>4, <1>9 DEF AjStackInv
<1>12. AjWireInv(t)
  <2>1. s.heard \subseteq {c}
    BY DEF AjInvOf, AjWireInv
  <2> QED
    BY <1>4, <2>1 DEF AjWireInv
<1>13. AjAnswerInv(t)
  <2>1. "onCancel" \in AjAnswers(s.kind)
    BY <1>1, AjAnswersAre DEF AjIs
  <2>2. s.broken \subseteq t.broken
    BY <1>4 DEF AjSameText
  <2> QED
    BY <1>1, <1>4, <1>5, <1>8, <2>1, <2>2, AjAnswersRun DEF AjInvOf
<1>14. AjDoneInv(t) /\ AjLinkInv(t) /\ AjCountInv(t, AjDue(s))
  BY <1>4, <1>8, <1>9, AjQuiet DEF AjInvOf
<1>15. AjDue(t) = AjDue(s)
  BY <1>9 DEF AjDue
<1> QED
  BY <1>1, <1>10, <1>11, <1>12, <1>13, <1>14, <1>15 DEF AjInvOf

\* send() from "running = true" on: what runs, if anything, is a nested request.
LEMMA AjOpenInv ==
  ASSUME NEW s, AjInvOf(s), s.running => s.sent \in s.nested
  PROVE  AjInvOf(AjOpen(s))
<1> DEFINE c == s.transport
           r == s.sent + 1
           w == [s.wire EXCEPT ![c] = 0]
           g == Append(s.log, <<"onRequest", r>>)
           n == IF AjFrames(s) \cap AjRisky = {} THEN s.nested ELSE s.nested \cup {r}
           u == [s EXCEPT !.running = TRUE, !.sent = r, !.wire[c] = 0, !.opened = TRUE,
                          !.heard = @ \cup {c},
                          !.nested = IF AjFrames(s) \cap AjRisky = {} THEN @ ELSE @ \cup {r}]
           t == AjFire(u, "onRequest", r, "request")
<1>1. AjIs(s) /\ AjOpen(s) = t
  BY DEF AjInvOf, AjOpen
<1>2. s.wire \in Seq(Nat) /\ c = Len(s.wire) /\ c \in 1 .. Len(s.wire)
        /\ s.log \in Seq(AjEvents \X Nat) /\ s.sent \in Nat /\ r \in Nat /\ r > 0
        /\ r - 1 = s.sent
        /\ s.stack \in Seq(AjOfAnswer \cup AjOfPage) /\ AjBelow(s.stack)
  <2>1. AjBelow(s.stack)
    BY DEF AjInvOf, AjStackInv
  <2>2. s.sent \in Nat /\ s.wire \in Seq(Nat) /\ c = Len(s.wire) /\ c > 0
          /\ s.log \in Seq(AjEvents \X Nat) /\ s.stack \in Seq(AjOfAnswer \cup AjOfPage)
    BY <1>1 DEF AjIs
  <2>3. Len(s.wire) \in Nat
    BY <2>2
  <2>4. r \in Nat /\ r > 0 /\ r - 1 = s.sent
    BY <2>2
  <2>5. c \in 1 .. Len(s.wire)
    BY <2>2, <2>3
  <2> QED
    BY <2>1, <2>2, <2>4, <2>5
<1> HIDE DEF r
<1>3. /\ DOMAIN u = DOMAIN s /\ u.kind = s.kind /\ u.autoCancel = s.autoCancel
      /\ u.running = TRUE /\ u.transport = c /\ u.wire = w /\ u.opened = TRUE
      /\ u.heard = s.heard \cup {c} /\ u.sent = r /\ u.nested = n
      /\ u.stack = s.stack /\ AjSameLinks(s, u) /\ AjSameText(s, u) /\ u.log = s.log
  BY <1>1 DEF AjIs, AjFields, AjSameLinks, AjSameText
<1> HIDE DEF u, g, w, n
<1>4. /\ AjSameKind(s, t)
      /\ t.running = TRUE /\ t.transport = c /\ t.wire = w /\ t.opened = TRUE
      /\ t.heard = s.heard \cup {c} /\ t.sent = r /\ t.nested = n
      /\ t.stack = <<"request">> \o s.stack
      /\ AjSameLinks(s, t) /\ AjSameText(s, t) /\ t.log = g
  BY <1>1, <1>3 DEF AjIs, AjFields, AjFire, AjLog, AjSameLinks, AjSameText, AjSameKind, g
<1> HIDE DEF t
<1>5. w \in Seq(Nat) /\ Len(w) = c /\ w[c] = 0
  BY <1>2, ExceptSeq DEF w
<1>6. AjFired(s.log, g, "onRequest", r)
  BY <1>2, AjLogged DEF g, AjEvents
<1>7. /\ t.stack \in Seq(AjOfAnswer \cup AjOfPage) /\ AjBelow(t.stack)
      /\ AjFrames(t) = AjFrames(s) \cup {"request"}
  <2>1. "request" \in AjOfAnswer \cup AjOfPage /\ "request" \notin AjOfAnswer
    BY DEF AjOfAnswer, AjOfPage
  <2>2. /\ <<"request">> \o s.stack \in Seq(AjOfAnswer \cup AjOfPage)
        /\ AjBelow(<<"request">> \o s.stack)
        /\ AjIn(<<"request">> \o s.stack) = AjIn(s.stack) \cup {"request"}
    BY <1>2, <2>1, AjPushed
  <2>3. AjFrames(t) = AjIn(t.stack) /\ AjFrames(s) = AjIn(s.stack)
    BY DEF AjFrames, AjIn
  <2> QED
    BY <1>4, <2>2, <2>3
<1>8. AjIs(t)
  BY <1>1, <1>2, <1>4, <1>5, <1>6, <1>7
     DEF AjIs, AjSameKind, AjSameLinks, AjSameText, AjFired
<1>9. AjStackInv(t)
  <2>1. "request" \notin AjRisky
    BY DEF AjRisky
  <2>2. AjFrames(t) \cap AjRisky = AjFrames(s) \cap AjRisky
    BY <1>7, <2>1
  <2>3. AjFrames(s) \cap AjRisky # {} => r \in n
    BY DEF n
  <2> QED
    BY <1>4, <1>7, <2>2, <2>3 DEF AjStackInv
<1>10. AjWireInv(t)
  <2>1. s.heard \subseteq {c}
    BY DEF AjInvOf, AjWireInv
  <2> QED
    BY <1>2, <1>4, <1>5, <2>1 DEF AjWireInv
<1>11. AjAnswerInv(t)
  <2> DEFINE A == AjAnswers(s.kind)
  <2>1. A \in SUBSET AjEvents /\ "onRequest" \notin A /\ A = AjAnswers(t.kind)
    BY <1>1, <1>4, AjAnswersAre DEF AjIs, AjSameKind
  <2>2. /\ AjRising(s.log, A)
        /\ AjSaid(s.log, A) \subseteq 1 .. (IF s.running THEN s.sent - 1 ELSE s.sent)
        /\ 1 .. (IF s.running THEN s.sent - 1 ELSE s.sent)
             \subseteq AjSaid(s.log, A) \cup s.broken \cup s.nested
    BY DEF AjInvOf, AjAnswerInv
  <2> HIDE DEF A
  <2>3. AjRising(g, A) /\ AjSaid(g, A) = AjSaid(s.log, A)
    BY <1>6, <2>1, <2>2 DEF AjFired, AjSameAt
  <2>4. AjSaid(s.log, A) \subseteq 1 .. s.sent
          /\ 1 .. s.sent \subseteq AjSaid(s.log, A) \cup s.broken \cup s.nested
    <3>1. CASE s.running
      <4>1. 1 .. s.sent = (1 .. s.sent - 1) \cup {s.sent}
        BY <1>1, <3>1 DEF AjInvOf, AjIs, AjWireInv
      <4> QED
        BY <2>2, <3>1, <4>1
    <3>2. CASE ~s.running
      BY <2>2, <3>2
    <3> QED
      BY <3>1, <3>2
  <2>5. s.nested \subseteq n /\ t.broken = s.broken
    BY <1>4 DEF n, AjSameText
  <2> QED
    BY <1>2, <1>4, <2>1, <2>3, <2>4, <2>5 DEF AjAnswerInv
<1>12. AjDoneInv(t) /\ AjLinkInv(t) /\ AjCountInv(t, AjDue(s))
  BY <1>4, <1>6, <1>7, AjQuiet DEF AjInvOf
<1>13. AjDue(t) = AjDue(s)
  BY <1>7 DEF AjDue
<1> QED
  BY <1>1, <1>8, <1>9, <1>10, <1>11, <1>12, <1>13 DEF AjInvOf

\* send() and cancel() of the page.
LEMMA AjSendKeeps == AjInvOf(aj) /\ AjPageSend => AjInvOf(aj')
<1> SUFFICES ASSUME AjInvOf(aj), AjPageSend PROVE AjInvOf(aj')
  OBVIOUS
<1>1. CASE aj.running
  BY <1>1, AjCancelInv DEF AjPageSend
<1>2. CASE ~aj.running
  BY <1>2, AjOpenInv DEF AjPageSend
<1> QED
  BY <1>1, <1>2

LEMMA AjCancelKeeps == AjInvOf(aj) /\ AjPageCancel => AjInvOf(aj')
BY AjCancelInv DEF AjPageCancel

-----------------------------------------------------------------------------
(* Requests: the handlers return.                                          *)

\* What is left below the top frame.
LEMMA AjTailIs ==
  ASSUME NEW s, AjInvOf(s), s.stack # <<>>, NEW t, t.stack = Tail(s.stack)
  PROVE  /\ t.stack \in Seq(AjOfAnswer \cup AjOfPage) /\ AjBelow(t.stack)
         /\ AjFrames(s) = AjFrames(t) \cup {Head(s.stack)}
         /\ Head(s.stack) \in AjOfAnswer => t.stack = <<>> /\ AjFrames(t) = {}
         /\ Head(s.stack) \in AjOfAnswer \cup AjOfPage
<1>1. s.stack \in Seq(AjOfAnswer \cup AjOfPage) /\ AjBelow(s.stack)
  BY DEF AjInvOf, AjIs, AjStackInv
<1>2. AjFrames(t) = AjIn(t.stack) /\ AjFrames(s) = AjIn(s.stack)
  BY DEF AjFrames, AjIn
<1> QED
  BY <1>1, <1>2, AjPopped

\* The log stays as it is.
LEMMA AjLogStays ==
  ASSUME NEW log, NEW E
  PROVE  AjSameAt(log, log, E)
BY DEF AjSameAt

\* Handlers of onCancel return.
LEMMA AjPopInv ==
  ASSUME NEW s, AjInvOf(s), s.stack # <<>>, Head(s.stack) \in {"cancel", "cancelInSend"}
  PROVE  /\ AjInvOf([s EXCEPT !.stack = Tail(@)])
         /\ AjSameWire(s, [s EXCEPT !.stack = Tail(@)])
<1> DEFINE t == [s EXCEPT !.stack = Tail(@)]
<1>1. AjIs(s)
  BY DEF AjInvOf
<1>2. /\ AjSameKind(s, t) /\ AjSameWire(s, t) /\ AjSameLinks(s, t) /\ AjSameText(s, t)
      /\ t.stack = Tail(s.stack) /\ t.log = s.log
  BY <1>1 DEF AjIs, AjFields, AjSameKind, AjSameWire, AjSameLinks, AjSameText
<1> HIDE DEF t
<1>3. /\ t.stack \in Seq(AjOfAnswer \cup AjOfPage) /\ AjBelow(t.stack)
      /\ AjFrames(s) = AjFrames(t) \cup {Head(s.stack)}
  BY <1>2, AjTailIs
<1>4. /\ "complete" \in AjFrames(t) <=> "complete" \in AjFrames(s)
      /\ "request" \in AjFrames(t) <=> "request" \in AjFrames(s)
      /\ "success" \in AjFrames(t) <=> "success" \in AjFrames(s)
      /\ AjFrames(t) \subseteq AjFrames(s)
  BY <1>3
<1>5. AjIs(t)
  BY <1>1, <1>2, <1>3 DEF AjIs, AjSameKind, AjSameWire, AjSameLinks, AjSameText
<1>6. AjStackInv(t)
  BY <1>2, <1>3, <1>4 DEF AjInvOf, AjStackInv, AjSameWire
<1>7. AjWireInv(t)
  BY <1>2 DEF AjInvOf, AjWireInv, AjSameWire
<1>8. AjAnswerInv(t)
  BY <1>2 DEF AjInvOf, AjAnswerInv, AjSameKind, AjSameWire, AjSameText
<1>9. AjDoneInv(t)
  BY <1>2, <1>4, AjLogStays, AjDoneKept DEF AjInvOf, AjSameKind, AjSameText
<1>10. AjLinkInv(t)
  BY <1>2, AjLogStays, AjLinkKept DEF AjInvOf
<1>11. AjCountInv(t, AjDue(t))
  <2>1. AjDue(t) = AjDue(s)
    BY <1>4 DEF AjDue
  <2> QED
    BY <1>2, <2>1 DEF AjInvOf, AjCountInv, AjSameLinks
<1>12. AjInvOf(t)
  BY <1>5, <1>6, <1>7, <1>8, <1>9, <1>10, <1>11 DEF AjInvOf
<1> QED
  BY <1>2, <1>12 DEF t

\* Handlers of onRequest return to a transport that is open: it is sent.
LEMMA AjRequestedInv ==
  ASSUME NEW s, AjInvOf(s), s.stack # <<>>, Head(s.stack) = "request", s.opened
  PROVE  AjInvOf([s EXCEPT !.stack = Tail(@), !.opened = FALSE,
                           !.wire[s.transport] = s.sent])
<1> DEFINE c == s.transport
           w == [s.wire EXCEPT ![c] = s.sent]
           t == [s EXCEPT !.stack = Tail(@), !.opened = FALSE, !.wire[c] = s.sent]
<1>1. AjIs(s) /\ s.running
  BY DEF AjInvOf, AjStackInv
<1>2. /\ AjSameKind(s, t) /\ AjSameLinks(s, t) /\ AjSameText(s, t)
      /\ t.stack = Tail(s.stack) /\ t.log = s.log
      /\ t.running = s.running /\ t.opened = FALSE /\ t.sent = s.sent
      /\ t.transport = c /\ t.wire = w /\ t.heard = s.heard /\ t.nested = s.nested
  BY <1>1 DEF AjIs, AjFields, AjSameKind, AjSameLinks, AjSameText
<1> HIDE DEF t, w
<1>3. /\ t.stack \in Seq(AjOfAnswer \cup AjOfPage) /\ AjBelow(t.stack)
      /\ AjFrames(s) = AjFrames(t) \cup {"request"}
  BY <1>2, AjTailIs
<1>4. /\ "complete" \in AjFrames(t) <=> "complete" \in AjFrames(s)
      /\ "success" \in AjFrames(t) <=> "success" \in AjFrames(s)
      /\ AjFrames(t) \subseteq AjFrames(s)
  BY <1>3
<1>5. s.wire \in Seq(Nat) /\ c = Len(s.wire) /\ s.sent \in Nat /\ c > 0
  BY <1>1 DEF AjIs
<1>6. c \in 1 .. Len(s.wire)
  BY <1>5
<1>7. w \in Seq(Nat) /\ Len(w) = c /\ w[c] = s.sent
  BY <1>5, <1>6, ExceptSeq DEF w
<1>8. AjIs(t)
  BY <1>1, <1>2, <1>3, <1>5, <1>7 DEF AjIs, AjSameKind, AjSameLinks, AjSameText
<1>9. AjStackInv(t)
  BY <1>2, <1>3, <1>4 DEF AjInvOf, AjStackInv
<1>10. AjWireInv(t)
  BY <1>1, <1>2, <1>7 DEF AjInvOf, AjWireInv
<1>11. AjAnswerInv(t)
  BY <1>2 DEF AjInvOf, AjAnswerInv, AjSameKind, AjSameText
<1>12. AjDoneInv(t)
  BY <1>2, <1>4, AjLogStays, AjDoneKept DEF AjInvOf, AjSameKind, AjSameText
<1>13. AjLinkInv(t)
  BY <1>2, AjLogStays, AjLinkKept DEF AjInvOf
<1>14. AjCountInv(t, AjDue(t))
  <2>1. AjDue(t) = AjDue(s)
    BY <1>4 DEF AjDue
  <2> QED
    BY <1>2, <2>1 DEF AjInvOf, AjCountInv, AjSameLinks
<1>15. AjInvOf(t)
  BY <1>8, <1>9, <1>10, <1>11, <1>12, <1>13, <1>14 DEF AjInvOf
<1> QED
  BY <1>15 DEF t

\* A smaller due is met as well.
LEMMA AjCountLess ==
  ASSUME NEW s, AjIs(s), AjCountInv(s, AjDue(s))
  PROVE  AjCountInv(s, 0)
<1>1. /\ Cardinality(AjAt(s.log, {"link"})) \in Nat /\ Len(s.calls10) \in Nat
      /\ Cardinality(AjAt(s.log, {"onSuccess"})) \in Nat
  BY AjAtFinite DEF AjIs
<1>2. AjDue(s) \in {0, 1}
  BY DEF AjDue
<1> QED
  BY <1>1, <1>2 DEF AjCountInv

\* They return to one that is not: every call ends.
LEMMA AjThrowInv ==
  ASSUME NEW s, AjInvOf(s), ~s.opened
  PROVE  AjInvOf(AjThrow(s))
<1> DEFINE t == AjThrow(s)
<1>1. AjIs(s)
  BY DEF AjInvOf
<1>2. /\ AjSameKind(s, t) /\ AjSameWire(s, t) /\ AjSameLinks(s, t)
      /\ t.calls20 = s.calls20 /\ t.text = s.text
      /\ t.broken = s.broken \cup (IF "complete" \in AjFrames(s) THEN {s.text} ELSE {})
      /\ t.stack = <<>> /\ t.log = s.log
  <2>1. /\ AjSameKind(s, t) /\ AjSameWire(s, t) /\ AjSameLinks(s, t)
        /\ t.calls20 = s.calls20 /\ t.text = s.text /\ t.stack = <<>> /\ t.log = s.log
        /\ t.broken = IF "complete" \in AjFrames(s) THEN s.broken \cup {s.text} ELSE s.broken
    BY <1>1 DEF AjThrow, AjIs, AjFields, AjSameKind, AjSameWire, AjSameLinks
  <2> HIDE DEF t
  <2> QED
    BY <2>1
<1> HIDE DEF t
<1>3. AjFrames(t) = {} /\ AjBelow(t.stack) /\ t.stack \in Seq(AjOfAnswer \cup AjOfPage)
  BY <1>2 DEF AjFrames, AjBelow
<1>4. AjIs(t)
  BY <1>1, <1>2, <1>3 DEF AjIs, AjSameKind, AjSameWire, AjSameLinks
<1>5. AjStackInv(t)
  BY <1>2, <1>3 DEF AjStackInv, AjSameWire
<1>6. AjWireInv(t)
  BY <1>2 DEF AjInvOf, AjWireInv, AjSameWire
<1>7. AjAnswerInv(t)
  <2>1. s.broken \subseteq t.broken
    BY <1>2
  <2> QED
    BY <1>1, <1>2, <2>1, AjLogStays, AjAnswersSame DEF AjInvOf, AjSameKind, AjSameWire
<1>8. AjDoneInv(t)
  BY <1>2, <1>3 DEF AjInvOf, AjDoneInv, AjSameKind
<1>9. AjLinkInv(t)
  BY <1>2, AjLogStays, AjLinkKept DEF AjInvOf
<1>10. AjCountInv(t, AjDue(t))
  <2>1. AjDue(t) = 0
    BY <1>3 DEF AjDue
  <2>2. AjCountInv(s, 0)
    BY <1>1, AjCountLess DEF AjInvOf
  <2> QED
    BY <1>2, <2>1, <2>2 DEF AjCountInv, AjSameLinks
<1>11. AjInvOf(t)
  BY <1>4, <1>5, <1>6, <1>7, <1>8, <1>9, <1>10 DEF AjInvOf
<1> QED
  BY <1>11 DEF t

\* Handlers of onComplete return to the onSuccess of a Json.Remote.
LEMMA AjCompletedInv ==
  ASSUME NEW s, AjInvOf(s), s.stack # <<>>, Head(s.stack) = "complete"
  PROVE  AjInvOf(AjFire([s EXCEPT !.stack = Tail(@)], "onSuccess", s.text, "success"))
<1> DEFINE u == [s EXCEPT !.stack = Tail(@)]
           g == Append(s.log, <<"onSuccess", s.text>>)
           t == AjFire(u, "onSuccess", s.text, "success")
<1>1. AjIs(s) /\ s.log \in Seq(AjEvents \X Nat) /\ s.text \in Nat /\ s.kind \in AjKinds
  BY DEF AjInvOf, AjIs
<1>2. /\ AjSameKind(s, u) /\ AjSameWire(s, u) /\ AjSameLinks(s, u) /\ AjSameText(s, u)
      /\ u.stack = Tail(s.stack) /\ u.log = s.log
  BY <1>1 DEF AjIs, AjFields, AjSameKind, AjSameWire, AjSameLinks, AjSameText
<1> HIDE DEF u, g
<1>3. "complete" \in AjOfAnswer /\ "complete" \in AjRisky /\ "success" \in AjRisky
        /\ "success" # "complete"
  BY DEF AjOfAnswer, AjRisky
<1>4. u.stack = <<>> /\ AjFrames(s) = {"complete"}
  BY <1>2, <1>3, AjTailIs
<1>5. /\ AjSameKind(s, t) /\ AjSameWire(s, t) /\ AjSameLinks(s, t) /\ AjSameText(s, t)
      /\ t.stack = <<"success">> \o <<>> /\ t.log = g
  BY <1>1, <1>2, <1>4
     DEF AjFire, AjLog, AjIs, AjFields, AjSameKind, AjSameWire, AjSameLinks, AjSameText, g
<1> HIDE DEF t
<1>6. AjFrames(t) = {"success"} /\ AjBelow(t.stack)
        /\ t.stack \in Seq(AjOfAnswer \cup AjOfPage)
  <2>1. "success" \in AjOfAnswer \cup AjOfPage
    BY DEF AjOfAnswer
  <2>2. <<>> \in Seq(AjOfAnswer \cup AjOfPage) /\ AjBelow(<<>>) /\ AjIn(<<>>) = {}
    BY DEF AjBelow, AjIn
  <2>3. AjFrames(t) = AjIn(t.stack)
    BY DEF AjFrames, AjIn
  <2> QED
    BY <1>5, <2>1, <2>2, <2>3, AjPushed
<1>7. AjFired(s.log, g, "onSuccess", s.text)
  BY <1>1, AjLogged DEF g, AjEvents
<1>8. s.kind = "Json.Remote" /\ s.text \in AjSaid(s.log, {"onComplete"})
        /\ \A x \in AjSaid(s.log, {"onSuccess"}) : x < s.text
  BY <1>4 DEF AjInvOf, AjDoneInv
<1>9. /\ AjMoreAt(s.log, g, {"onSuccess"}, s.text)
      /\ AjSameAt(s.log, g, {"onComplete"}) /\ AjSameAt(s.log, g, {"link"})
      /\ AjSameAt(s.log, g, AjAnswers(s.kind))
  <2>1. {"onSuccess"} \in SUBSET AjEvents /\ {"onComplete"} \in SUBSET AjEvents
          /\ {"link"} \in SUBSET AjEvents /\ AjAnswers(s.kind) \in SUBSET AjEvents
          /\ "onSuccess" \notin AjAnswers(s.kind)
    BY <1>1, <1>8, AjAnswersAre DEF AjEvents
  <2>2. "onSuccess" \in {"onSuccess"} /\ "onSuccess" \notin {"onComplete"}
          /\ "onSuccess" \notin {"link"}
    OBVIOUS
  <2> QED
    BY <1>7, <2>1, <2>2 DEF AjFired
<1>10. AjIs(t)
  BY <1>1, <1>5, <1>6, <1>7
     DEF AjIs, AjSameKind, AjSameWire, AjSameLinks, AjSameText, AjFired
<1>11. AjStackInv(t)
  <2>1. s.opened = FALSE
    BY <1>1, <1>4 DEF AjInvOf, AjStackInv, AjIs
  <2>2. s.running => s.sent \in s.nested
    BY <1>3, <1>4 DEF AjInvOf, AjStackInv
  <2> QED
    BY <1>5, <1>6, <2>1, <2>2 DEF AjStackInv, AjSameWire
<1>12. AjWireInv(t)
  BY <1>5 DEF AjInvOf, AjWireInv, AjSameWire
<1>13. AjAnswerInv(t)
  BY <1>1, <1>5, <1>9, AjAnswersSame DEF AjInvOf, AjSameKind, AjSameWire, AjSameText
<1>14. AjDoneInv(t)
  <2> DEFINE success  == AjSaid(s.log, {"onSuccess"})
             complete == AjSaid(s.log, {"onComplete"})
  <2>1. /\ AjRising(s.log, {"onSuccess"}) /\ success \subseteq complete
        /\ complete \ success \subseteq s.broken \cup {s.text}
        /\ s.calls20 = <<>>
    BY <1>4, <1>8 DEF AjInvOf, AjDoneInv
  <2>2. AjSaid(g, {"onSuccess"}) = success \cup {s.text} /\ AjRising(g, {"onSuccess"})
    BY <1>8, <1>9, <2>1 DEF AjMoreAt
  <2>3. AjSaid(g, {"onComplete"}) = complete
    BY <1>9 DEF AjSameAt
  <2> HIDE DEF success, complete
  <2>4. s.text \in complete
    BY <1>8 DEF complete
  <2> QED
    BY <1>3, <1>5, <1>6, <1>8, <2>1, <2>2, <2>3, <2>4 DEF AjDoneInv, AjSameKind, AjSameText
<1>15. AjLinkInv(t)
  BY <1>5, <1>9, AjLinkKept DEF AjInvOf
<1>16. AjCountInv(t, AjDue(t))
  <2>1. /\ Cardinality(AjAt(s.log, {"link"})) \in Nat /\ Len(s.calls10) \in Nat
        /\ Cardinality(AjAt(s.log, {"onSuccess"})) \in Nat
    BY <1>1, AjAtFinite DEF AjIs
  <2>2. Cardinality(AjAt(g, {"onSuccess"})) = Cardinality(AjAt(s.log, {"onSuccess"})) + 1
          /\ Cardinality(AjAt(g, {"link"})) = Cardinality(AjAt(s.log, {"link"}))
    BY <1>9 DEF AjMoreAt, AjSameAt
  <2>3. AjDue(t) = 1 /\ AjCountInv(s, 0)
    BY <1>1, <1>6, AjCountLess DEF AjDue, AjInvOf
  <2> QED
    BY <1>5, <2>1, <2>2, <2>3 DEF AjCountInv, AjSameLinks
<1>17. AjInvOf(t)
  BY <1>10, <1>11, <1>12, <1>13, <1>14, <1>15, <1>16 DEF AjInvOf
<1> QED
  BY <1>17 DEF t, u

\* Handlers of onSuccess and onFailure return: what runs was sent by them.
LEMMA AjAnsweredInv ==
  ASSUME NEW s, AjInvOf(s), s.stack # <<>>, Head(s.stack) \in {"success", "failure"},
         NEW t, t = [s EXCEPT !.stack = Tail(@)]
  PROVE  /\ AjInvOf(t) /\ t.stack = <<>>
         /\ t.running => t.sent \in t.nested
         /\ Head(s.stack) = "success" => AjCountInv(t, 1)
<1>1. AjIs(s)
  BY DEF AjInvOf
<1>2. /\ AjSameKind(s, t) /\ AjSameWire(s, t) /\ AjSameLinks(s, t) /\ AjSameText(s, t)
      /\ t.stack = Tail(s.stack) /\ t.log = s.log
  BY <1>1 DEF AjIs, AjFields, AjSameKind, AjSameWire, AjSameLinks, AjSameText
<1>3. Head(s.stack) \in AjOfAnswer /\ Head(s.stack) \in AjRisky
        /\ Head(s.stack) # "complete" /\ Head(s.stack) # "request"
  BY DEF AjOfAnswer, AjRisky
<1>4. /\ t.stack \in Seq(AjOfAnswer \cup AjOfPage) /\ AjBelow(t.stack)
      /\ t.stack = <<>> /\ AjFrames(t) = {} /\ AjFrames(s) = {Head(s.stack)}
  BY <1>2, <1>3, AjTailIs
<1>5. s.opened = FALSE
  BY <1>1, <1>3, <1>4 DEF AjInvOf, AjStackInv, AjIs
<1>6. s.running => s.sent \in s.nested
  BY <1>3, <1>4 DEF AjInvOf, AjStackInv
<1>7. AjIs(t)
  BY <1>1, <1>2, <1>4 DEF AjIs, AjSameKind, AjSameWire, AjSameLinks, AjSameText
<1>8. AjStackInv(t)
  BY <1>2, <1>4, <1>5 DEF AjStackInv, AjSameWire
<1>9. AjWireInv(t)
  BY <1>2 DEF AjInvOf, AjWireInv, AjSameWire
<1>10. AjAnswerInv(t)
  BY <1>2 DEF AjInvOf, AjAnswerInv, AjSameKind, AjSameWire, AjSameText
<1>11. AjDoneInv(t)
  <2>1. "complete" \notin AjFrames(s) /\ "complete" \notin AjFrames(t)
    BY <1>3, <1>4
  <2> QED
    BY <1>2, <2>1, AjLogStays, AjDoneKept DEF AjInvOf, AjSameKind, AjSameText
<1>12. AjLinkInv(t)
  BY <1>2, AjLogStays, AjLinkKept DEF AjInvOf
<1>13. AjCountInv(t, AjDue(t))
  <2>1. AjDue(t) = 0
    BY <1>4 DEF AjDue
  <2>2. AjCountInv(s, 0)
    BY <1>1, AjCountLess DEF AjInvOf
  <2> QED
    BY <1>2, <2>1, <2>2 DEF AjCountInv, AjSameLinks
<1>14. Head(s.stack) = "success" => AjCountInv(t, 1)
  <2>1. Head(s.stack) = "success" => AjDue(s) = 1
    BY <1>4 DEF AjDue
  <2> QED
    BY <1>2, <2>1 DEF AjInvOf, AjCountInv, AjSameLinks
<1>15. t.running => t.sent \in t.nested
  BY <1>2, <1>6 DEF AjSameWire
<1>16. AjInvOf(t)
  BY <1>7, <1>8, <1>9, <1>10, <1>11, <1>12, <1>13 DEF AjInvOf
<1> QED
  BY <1>4, <1>14, <1>15, <1>16

\* The first link waits no longer behind a success but 10 ms.
LEMMA AjCallChainInv ==
  ASSUME NEW s, AjInvOf(s), s.stack = <<>>, AjCountInv(s, 1)
  PROVE  AjInvOf(AjCallChain(s)) /\ AjSameWire(s, AjCallChain(s))
<1>1. AjIs(s)
  BY DEF AjInvOf
<1>2. CASE s.chain = <<>>
  <2>1. AjCallChain(s) = s
    BY <1>2 DEF AjCallChain
  <2> QED
    BY <2>1 DEF AjSameWire
<1>3. CASE s.chain # <<>>
  <2> DEFINE h == Head(s.chain)
             t == [s EXCEPT !.chain = Tail(@), !.calls10 = Append(@, h)]
  <2>1. AjCallChain(s) = t
    BY <1>3 DEF AjCallChain
  <2> HIDE DEF h
  <2>2. /\ AjSameKind(s, t) /\ AjSameWire(s, t) /\ AjSameText(s, t)
        /\ t.chain = Tail(s.chain) /\ t.calls10 = Append(s.calls10, h)
        /\ t.links = s.links /\ t.log = s.log /\ t.stack = s.stack
    BY <1>1 DEF AjIs, AjFields, AjSameKind, AjSameWire, AjSameText
  <2> HIDE DEF t
  <2>3. /\ s.chain \in Seq(Nat) /\ s.calls10 \in Seq(Nat)
        /\ h \in Nat /\ Tail(s.chain) \in Seq(Nat)
    BY <1>1, <1>3, HeadTailProperties DEF AjIs, h
  <2>4. t.calls10 \in Seq(Nat) /\ Len(t.calls10) = Len(s.calls10) + 1
    BY <2>2, <2>3, DcPushed
  <2>5. t.calls10 \o t.chain = s.calls10 \o s.chain
    BY <1>3, <2>2, <2>3, AjMoved DEF h
  <2>6. AjFrames(t) = AjFrames(s) /\ AjFrames(t) = {}
    BY <2>2 DEF AjFrames
  <2>7. AjIs(t)
    BY <1>1, <2>2, <2>3, <2>4 DEF AjIs, AjSameKind, AjSameWire, AjSameText
  <2>8. AjStackInv(t)
    BY <2>2, <2>6 DEF AjInvOf, AjStackInv, AjSameWire
  <2>9. AjWireInv(t)
    BY <2>2 DEF AjInvOf, AjWireInv, AjSameWire
  <2>10. AjAnswerInv(t)
    BY <2>2 DEF AjInvOf, AjAnswerInv, AjSameKind, AjSameWire, AjSameText
  <2>11. AjDoneInv(t)
    BY <2>2, <2>6, AjLogStays, AjDoneKept DEF AjInvOf, AjSameKind, AjSameText
  <2>12. AjLinkInv(t)
    BY <2>2, <2>5 DEF AjInvOf, AjLinkInv
  <2>13. AjCountInv(t, AjDue(t))
    <3>1. /\ Cardinality(AjAt(s.log, {"link"})) \in Nat /\ Len(s.calls10) \in Nat
          /\ Cardinality(AjAt(s.log, {"onSuccess"})) \in Nat
      BY <1>1, AjAtFinite DEF AjIs
    <3>2. AjDue(t) = 0
      BY <2>6 DEF AjDue
    <3> QED
      BY <2>2, <2>4, <3>1, <3>2 DEF AjCountInv
  <2> QED
    BY <2>1, <2>2, <2>7, <2>8, <2>9, <2>10, <2>11, <2>12, <2>13 DEF AjInvOf
<1> QED
  BY <1>2, <1>3

\* The transport that onStateChange() leaves behind listens no longer.
LEMMA AjDeafInv ==
  ASSUME NEW s, AjInvOf(s), s.running => s.sent \in s.nested
  PROVE  AjInvOf(AjDeafen(s))
<1> DEFINE t == AjDeafen(s)
<1>1. AjIs(s)
  BY DEF AjInvOf
<1>2. /\ AjSameKind(s, t) /\ AjSameLinks(s, t) /\ AjSameText(s, t)
      /\ t.running = s.running /\ t.opened = s.opened /\ t.sent = s.sent
      /\ t.transport = s.transport /\ t.wire = s.wire /\ t.nested = s.nested
      /\ t.heard = s.heard \ {s.transport} /\ t.stack = s.stack /\ t.log = s.log
  BY <1>1 DEF AjIs, AjFields, AjDeafen, AjSameKind, AjSameLinks, AjSameText
<1> HIDE DEF t
<1>3. AjFrames(t) = AjFrames(s)
  BY <1>2 DEF AjFrames
<1>4. AjIs(t)
  BY <1>1, <1>2 DEF AjIs, AjSameKind, AjSameLinks, AjSameText
<1>5. AjStackInv(t)
  BY <1>2, <1>3 DEF AjInvOf, AjStackInv
<1>6. AjWireInv(t)
  BY <1>2 DEF AjInvOf, AjWireInv
<1>7. AjAnswerInv(t)
  BY <1>2 DEF AjInvOf, AjAnswerInv, AjSameKind, AjSameText
<1>8. AjDoneInv(t)
  BY <1>2, <1>3, AjLogStays, AjDoneKept DEF AjInvOf, AjSameKind, AjSameText
<1>9. AjLinkInv(t)
  BY <1>2, AjLogStays, AjLinkKept DEF AjInvOf
<1>10. AjCountInv(t, AjDue(t))
  <2>1. AjDue(t) = AjDue(s)
    BY <1>3 DEF AjDue
  <2> QED
    BY <1>2, <2>1 DEF AjInvOf, AjCountInv, AjSameLinks
<1>11. AjInvOf(t)
  BY <1>4, <1>5, <1>6, <1>7, <1>8, <1>9, <1>10 DEF AjInvOf
<1> QED
  BY <1>11 DEF t

\* The handlers of the innermost call return.
LEMMA AjReturnKeeps == AjInvOf(aj) /\ AjReturn => AjInvOf(aj')
<1> SUFFICES ASSUME AjInvOf(aj), AjReturn PROVE AjInvOf(aj')
  OBVIOUS
<1> DEFINE f == Head(aj.stack)
           s == [aj EXCEPT !.stack = Tail(@)]
<1>1. /\ aj.stack # <<>>
      /\ aj' = IF f = "request" /\ ~aj.opened THEN AjThrow(aj) ELSE AjReturnTo(s, f)
  BY DEF AjReturn
<1>2. f \in AjOfAnswer \cup AjOfPage /\ f \in AjFrames(aj)
  <2>1. s.stack = Tail(aj.stack)
    BY DEF AjInvOf, AjIs, AjFields
  <2> HIDE DEF s
  <2> QED
    BY <1>1, <2>1, AjTailIs
<1>3. s.transport = aj.transport /\ s.sent = aj.sent /\ s.text = aj.text
  BY DEF AjInvOf, AjIs, AjFields
<1>4. CASE f = "request"
  <2>1. CASE ~aj.opened
    BY <1>1, <1>4, <2>1, AjThrowInv
  <2>2. CASE aj.opened
    <3> DEFINE t == [aj EXCEPT !.stack = Tail(@), !.opened = FALSE,
                               !.wire[aj.transport] = aj.sent]
    <3>1. aj' = [s EXCEPT !.opened = FALSE, !.wire[s.transport] = s.sent]
      BY <1>1, <1>4, <2>2 DEF AjReturnTo
    <3>2. [s EXCEPT !.opened = FALSE, !.wire[aj.transport] = aj.sent] = t
      BY DEF AjInvOf, AjIs, AjFields
    <3>3. aj' = t
      BY <1>3, <3>1, <3>2
    <3>4. AjInvOf(t)
      BY <1>1, <1>4, <2>2, AjRequestedInv
    <3> QED
      BY <3>3, <3>4
  <2> QED
    BY <2>1, <2>2
<1>5. CASE f \in {"cancel", "cancelInSend"}
  <2>1. AjInvOf(s) /\ AjSameWire(aj, s)
    BY <1>1, <1>5, AjPopInv
  <2>2. CASE f = "cancel"
    <3>1. aj' = s
      BY <1>1, <2>2 DEF AjReturnTo
    <3> QED
      BY <2>1, <3>1
  <2>3. CASE f = "cancelInSend"
    <3>1. aj' = AjOpen(s)
      BY <1>1, <2>3 DEF AjReturnTo
    <3>2. aj.running => aj.sent \in aj.nested
      BY <1>2, <2>3 DEF AjInvOf, AjStackInv, AjRisky
    <3>3. s.running => s.sent \in s.nested
      BY <2>1, <3>2 DEF AjSameWire
    <3> HIDE DEF s
    <3> QED
      BY <2>1, <3>1, <3>3, AjOpenInv
  <2> QED
    BY <1>5, <2>2, <2>3
<1>6. CASE f = "complete"
  <2>1. aj' = AjFire(s, "onSuccess", aj.text, "success")
    BY <1>1, <1>3, <1>6 DEF AjReturnTo
  <2> QED
    BY <1>1, <1>6, <2>1, AjCompletedInv
<1>7. CASE f \in {"success", "failure"}
  <2>1. /\ AjInvOf(s) /\ s.stack = <<>>
        /\ s.running => s.sent \in s.nested
        /\ f = "success" => AjCountInv(s, 1)
    BY <1>1, <1>7, AjAnsweredInv
  <2>2. CASE f = "success"
    <3>1. aj' = AjDeafen(AjCallChain(s))
      BY <1>1, <2>2 DEF AjReturnTo
    <3> HIDE DEF s, f
    <3>2. AjInvOf(AjCallChain(s)) /\ AjSameWire(s, AjCallChain(s))
      BY <2>1, <2>2, AjCallChainInv
    <3>3. AjCallChain(s).running => AjCallChain(s).sent \in AjCallChain(s).nested
      BY <2>1, <3>2 DEF AjSameWire
    <3> QED
      BY <3>1, <3>2, <3>3, AjDeafInv
  <2>3. CASE f = "failure"
    <3>1. aj' = AjDeafen(s)
      BY <1>1, <2>3 DEF AjReturnTo
    <3> HIDE DEF s, f
    <3> QED
      BY <2>1, <3>1, AjDeafInv
  <2> QED
    BY <1>7, <2>2, <2>3
<1> QED
  BY <1>2, <1>4, <1>5, <1>6, <1>7 DEF AjOfAnswer, AjOfPage

-----------------------------------------------------------------------------
(* Requests: an answer.                                                    *)

\* The answer to the request that runs has left its transport.
AjSettled(s, t) ==
  /\ AjSameKind(s, t) /\ AjSameLinks(s, t) /\ t.calls20 \in Seq(Nat)
  /\ t.running = FALSE /\ t.opened = FALSE /\ t.sent = s.sent
  /\ t.transport = s.transport /\ t.wire \in Seq(Nat) /\ Len(t.wire) = s.transport
  /\ t.wire[s.transport] = 0 /\ t.heard = s.heard /\ t.nested = s.nested
  /\ t.text \in Nat

\* The answer has come and no handler was called yet.
AjArrives(s, t) ==
  AjSettled(s, t) /\ t.stack = <<>> /\ t.log = s.log /\ t.calls20 = s.calls20
  /\ t.broken = s.broken

LEMMA AjSettledInv ==
  ASSUME NEW s, AjInvOf(s), NEW t, AjSettled(s, t),
         t.stack \in Seq(AjOfAnswer \cup AjOfPage), AjBelow(t.stack),
         t.log \in Seq(AjEvents \X Nat)
  PROVE  AjIs(t) /\ AjStackInv(t) /\ AjWireInv(t)
<1>1. AjIs(t)
  BY DEF AjInvOf, AjIs, AjSettled, AjSameKind, AjSameLinks
<1>2. AjStackInv(t)
  BY DEF AjStackInv, AjSettled
<1>3. AjWireInv(t)
  BY DEF AjInvOf, AjWireInv, AjSettled
<1> QED
  BY <1>1, <1>2, <1>3

\* One frame, of an answer.
LEMMA AjOneFrame ==
  ASSUME NEW f \in AjOfAnswer, NEW t, t.stack = <<f>> \o <<>>
  PROVE  /\ AjFrames(t) = {f} /\ AjBelow(t.stack)
         /\ t.stack \in Seq(AjOfAnswer \cup AjOfPage)
<1>1. <<>> \in Seq(AjOfAnswer \cup AjOfPage) /\ AjBelow(<<>>) /\ AjIn(<<>>) = {}
  BY DEF AjBelow, AjIn
<1>2. AjFrames(t) = AjIn(t.stack)
  BY DEF AjFrames, AjIn
<1>3. f \in AjOfAnswer \cup AjOfPage
  OBVIOUS
<1>4. /\ <<f>> \o <<>> \in Seq(AjOfAnswer \cup AjOfPage) /\ AjBelow(<<f>> \o <<>>)
      /\ AjIn(<<f>> \o <<>>) = AjIn(<<>>) \cup {f}
  BY <1>1, <1>3, AjPushed
<1> QED
  BY <1>1, <1>2, <1>4

\* An event whose handlers frame f calls.
LEMMA AjFireIs ==
  ASSUME NEW s, AjInvOf(s), NEW t, AjSettled(s, t), t.stack = <<>>,
         NEW e, NEW r, NEW f
  PROVE  LET z == AjFire(t, e, r, f)
         IN /\ AjSettled(s, z) /\ z.stack = <<f>> \o <<>> /\ z.log = Append(t.log, <<e, r>>)
            /\ z.calls20 = t.calls20 /\ z.text = t.text /\ z.broken = t.broken
<1> DEFINE z == AjFire(t, e, r, f)
<1>1. DOMAIN t = AjFields
  BY DEF AjInvOf, AjIs, AjSettled, AjSameKind
<1>2. /\ DOMAIN z = DOMAIN t /\ z.kind = t.kind /\ z.autoCancel = t.autoCancel
      /\ z.chain = t.chain /\ z.calls10 = t.calls10 /\ z.links = t.links
      /\ z.calls20 = t.calls20 /\ z.text = t.text /\ z.broken = t.broken
      /\ z.running = t.running /\ z.opened = t.opened /\ z.sent = t.sent
      /\ z.transport = t.transport /\ z.wire = t.wire /\ z.heard = t.heard
      /\ z.nested = t.nested /\ z.stack = <<f>> \o <<>>
      /\ z.log = Append(t.log, <<e, r>>)
  BY <1>1 DEF AjFire, AjLog, AjFields
<1> HIDE DEF z
<1>3. AjSettled(s, z)
  BY <1>2 DEF AjSettled, AjSameKind, AjSameLinks
<1> QED
  BY <1>2, <1>3 DEF z

\* onFailure.
LEMMA AjFailedInv ==
  ASSUME NEW s, AjInvOf(s), s.running, s.stack = <<>>, NEW t, AjArrives(s, t)
  PROVE  AjInvOf(AjFire(t, "onFailure", s.sent, "failure"))
<1> DEFINE g == Append(s.log, <<"onFailure", s.sent>>)
           z == AjFire(t, "onFailure", s.sent, "failure")
<1>1. AjIs(s) /\ s.log \in Seq(AjEvents \X Nat) /\ s.sent \in Nat /\ s.sent > 0
        /\ s.kind \in AjKinds
  BY DEF AjInvOf, AjIs, AjWireInv
<1>2. /\ AjSettled(s, z) /\ z.stack = <<"failure">> \o <<>> /\ z.log = g
      /\ z.calls20 = s.calls20 /\ z.broken = s.broken
  BY AjFireIs DEF AjArrives
<1> HIDE DEF z, g
<1>3. AjFired(s.log, g, "onFailure", s.sent)
  BY <1>1, AjLogged DEF g, AjEvents
<1>4. AjFrames(z) = {"failure"} /\ AjBelow(z.stack)
        /\ z.stack \in Seq(AjOfAnswer \cup AjOfPage)
  BY <1>2, AjOneFrame DEF AjOfAnswer
<1>5. AjIs(z) /\ AjStackInv(z) /\ AjWireInv(z)
  BY <1>2, <1>3, <1>4, AjSettledInv DEF AjFired
<1>6. AjAnswerInv(z)
  <2>1. "onFailure" \in AjAnswers(s.kind)
    BY <1>1, AjAnswersAre
  <2> QED
    BY <1>1, <1>2, <1>3, <2>1, AjAnswersRun DEF AjInvOf, AjSettled
<1>7. AjFrames(s) = {} /\ AjDue(s) = 0 /\ AjDue(z) = 0
  <2>1. AjFrames(s) = {}
    BY DEF AjFrames
  <2> QED
    BY <1>4, <2>1 DEF AjDue
<1>8. AjDoneInv(z)
  <2>1. AjSameAt(s.log, g, {"onSuccess"}) /\ AjSameAt(s.log, g, {"onComplete"})
    BY <1>3 DEF AjFired, AjEvents
  <2>2. /\ AjSaid(g, {"onSuccess"}) = AjSaid(s.log, {"onSuccess"})
        /\ AjSaid(g, {"onComplete"}) = AjSaid(s.log, {"onComplete"})
        /\ AjRising(s.log, {"onSuccess"}) => AjRising(g, {"onSuccess"})
    BY <2>1 DEF AjSameAt
  <2>3. \A S : AjOneByOne(s.log, "onComplete", s.calls20, S)
                 => AjOneByOne(g, "onComplete", s.calls20, S)
    BY <2>1, AjOneSame
  <2>4. "complete" \notin AjFrames(z) /\ "complete" \notin AjFrames(s)
    BY <1>4, <1>7
  <2>5. z.kind = s.kind
    BY <1>2 DEF AjSettled, AjSameKind
  <2> QED
    BY <1>2, <2>2, <2>3, <2>4, <2>5 DEF AjInvOf, AjDoneInv
<1>9. AjSameLinks(s, z) /\ AjSameAt(s.log, g, {"link"}) /\ AjSameAt(s.log, g, {"onSuccess"})
  BY <1>2, <1>3 DEF AjSettled, AjFired, AjEvents
<1>10. AjLinkInv(z)
  BY <1>2, <1>9, AjLinkKept DEF AjInvOf
<1>11. AjCountInv(z, AjDue(z))
  BY <1>2, <1>7, <1>9, AjCountKept DEF AjInvOf, AjSameLinks
<1>12. AjInvOf(z)
  BY <1>5, <1>6, <1>8, <1>10, <1>11 DEF AjInvOf
<1> QED
  BY <1>12 DEF z

\* A malformed text ends the turn.
LEMMA AjMalformedInv ==
  ASSUME NEW s, AjInvOf(s), s.running, s.stack = <<>>, NEW t, AjArrives(s, t)
  PROVE  AjInvOf([t EXCEPT !.broken = @ \cup {s.sent}])
<1> DEFINE z == [t EXCEPT !.broken = @ \cup {s.sent}]
<1>1. AjIs(s) /\ s.log \in Seq(AjEvents \X Nat) /\ s.sent \in Nat /\ s.sent > 0
  BY DEF AjInvOf, AjIs, AjWireInv
<1>2. /\ AjSettled(s, z) /\ z.stack = <<>> /\ z.log = s.log
      /\ z.calls20 = s.calls20 /\ z.broken = s.broken \cup {s.sent}
  <2>1. DOMAIN t = AjFields
    BY DEF AjInvOf, AjIs, AjArrives, AjSettled, AjSameKind
  <2>2. /\ DOMAIN z = DOMAIN t /\ z.kind = t.kind /\ z.autoCancel = t.autoCancel
        /\ z.chain = t.chain /\ z.calls10 = t.calls10 /\ z.links = t.links
        /\ z.calls20 = t.calls20 /\ z.text = t.text
        /\ z.running = t.running /\ z.opened = t.opened /\ z.sent = t.sent
        /\ z.transport = t.transport /\ z.wire = t.wire /\ z.heard = t.heard
        /\ z.nested = t.nested /\ z.stack = t.stack /\ z.log = t.log
        /\ z.broken = t.broken \cup {s.sent}
    BY <2>1 DEF AjFields
  <2> HIDE DEF z
  <2> QED
    BY <2>2 DEF AjArrives, AjSettled, AjSameKind, AjSameLinks
<1> HIDE DEF z
<1>3. AjFrames(s) = {} /\ AjFrames(z) = {} /\ AjBelow(z.stack)
        /\ z.stack \in Seq(AjOfAnswer \cup AjOfPage)
  BY <1>2 DEF AjFrames, AjBelow
<1>4. AjIs(z) /\ AjStackInv(z) /\ AjWireInv(z)
  BY <1>1, <1>2, <1>3, AjSettledInv
<1>5. AjAnswerInv(z)
  <2>1. 1 .. s.sent = (1 .. s.sent - 1) \cup {s.sent}
    BY <1>1
  <2>2. z.kind = s.kind /\ z.running = FALSE /\ z.sent = s.sent /\ z.nested = s.nested
    BY <1>2 DEF AjSettled, AjSameKind
  <2> QED
    BY <1>2, <2>1, <2>2 DEF AjInvOf, AjAnswerInv
<1>6. AjDoneInv(z)
  <2>1. z.kind = s.kind
    BY <1>2 DEF AjSettled, AjSameKind
  <2> QED
    BY <1>2, <1>3, <2>1 DEF AjInvOf, AjDoneInv
<1>7. AjSameLinks(s, z) /\ AjDue(s) = 0 /\ AjDue(z) = 0
  BY <1>2, <1>3 DEF AjSettled, AjDue
<1>8. AjLinkInv(z)
  BY <1>2, <1>7, AjLogStays, AjLinkKept DEF AjInvOf
<1>9. AjCountInv(z, AjDue(z))
  BY <1>2, <1>7 DEF AjInvOf, AjCountInv, AjSameLinks
<1>10. AjInvOf(z)
  BY <1>4, <1>5, <1>6, <1>8, <1>9 DEF AjInvOf
<1> QED
  BY <1>10 DEF z

\* What was answered before is less than what is answered now.
LEMMA AjBefore ==
  ASSUME NEW s, AjInvOf(s), s.running
  PROVE  /\ \A x \in AjSaid(s.log, AjAnswers(s.kind)) : x < s.sent
         /\ \A x \in AjSaid(s.log, {"onSuccess"}) : x < s.sent
<1>1. s.sent \in Nat /\ s.kind \in AjKinds
  BY DEF AjInvOf, AjIs
<1>2. \A x \in AjSaid(s.log, AjAnswers(s.kind)) : x < s.sent
  BY <1>1 DEF AjInvOf, AjAnswerInv
<1>3. AjSaid(s.log, {"onSuccess"}) \subseteq AjSaid(s.log, AjAnswers(s.kind))
  <2>1. CASE s.kind = "Json.Remote"
    <3>1. AjSaid(s.log, {"onSuccess"}) \subseteq AjSaid(s.log, {"onComplete"})
      BY <2>1 DEF AjInvOf, AjDoneInv
    <3>2. AjSaid(s.log, {"onComplete"}) \subseteq AjSaid(s.log, AjAnswers(s.kind))
      BY <1>1, <2>1, AjAnswersAre DEF AjSaid, AjAt
    <3> QED
      BY <3>1, <3>2
  <2>2. CASE s.kind # "Json.Remote"
    BY <1>1, <2>2, AjAnswersAre DEF AjSaid, AjAt
  <2> QED
    BY <2>1, <2>2
<1> QED
  BY <1>2, <1>3

\* onComplete of a Json.Remote comes first.
LEMMA AjJsonInv ==
  ASSUME NEW s, AjInvOf(s), s.running, s.stack = <<>>, s.kind = "Json.Remote",
         NEW t, AjArrives(s, t), t.text = s.sent
  PROVE  AjInvOf(AjFire(t, "onComplete", s.sent, "complete"))
<1> DEFINE g == Append(s.log, <<"onComplete", s.sent>>)
           z == AjFire(t, "onComplete", s.sent, "complete")
<1>1. AjIs(s) /\ s.log \in Seq(AjEvents \X Nat) /\ s.sent \in Nat /\ s.sent > 0
        /\ s.kind \in AjKinds
  BY DEF AjInvOf, AjIs, AjWireInv
<1>2. /\ AjSettled(s, z) /\ z.stack = <<"complete">> \o <<>> /\ z.log = g
      /\ z.calls20 = s.calls20 /\ z.broken = s.broken /\ z.text = s.sent
  BY AjFireIs DEF AjArrives
<1> HIDE DEF z, g
<1>3. AjFired(s.log, g, "onComplete", s.sent)
  BY <1>1, AjLogged DEF g, AjEvents
<1>4. AjFrames(z) = {"complete"} /\ AjBelow(z.stack)
        /\ z.stack \in Seq(AjOfAnswer \cup AjOfPage)
  BY <1>2, AjOneFrame DEF AjOfAnswer
<1>5. AjIs(z) /\ AjStackInv(z) /\ AjWireInv(z)
  BY <1>2, <1>3, <1>4, AjSettledInv DEF AjFired
<1>6. AjAnswerInv(z)
  <2>1. "onComplete" \in AjAnswers(s.kind)
    BY <1>1, AjAnswersAre
  <2> QED
    BY <1>1, <1>2, <1>3, <2>1, AjAnswersRun DEF AjInvOf, AjSettled
<1>7. AjFrames(s) = {} /\ AjDue(s) = 0 /\ AjDue(z) = 0
  <2>1. AjFrames(s) = {}
    BY DEF AjFrames
  <2> QED
    BY <1>4, <2>1 DEF AjDue
<1>8. /\ AjMoreAt(s.log, g, {"onComplete"}, s.sent)
      /\ AjSameAt(s.log, g, {"onSuccess"}) /\ AjSameAt(s.log, g, {"link"})
  BY <1>3 DEF AjFired, AjEvents
<1>9. AjDoneInv(z)
  <2> DEFINE success  == AjSaid(s.log, {"onSuccess"})
             complete == AjSaid(s.log, {"onComplete"})
  <2>1. /\ AjRising(s.log, {"onSuccess"}) /\ success \subseteq complete
        /\ complete \ success \subseteq s.broken
        /\ s.calls20 = <<>>
    BY <1>7 DEF AjInvOf, AjDoneInv
  <2>2. AjSaid(g, {"onSuccess"}) = success /\ AjRising(g, {"onSuccess"})
    BY <1>8, <2>1 DEF AjSameAt
  <2>3. AjSaid(g, {"onComplete"}) = complete \cup {s.sent}
    BY <1>8 DEF AjMoreAt
  <2>4. \A x \in success : x < s.sent
    BY AjBefore
  <2>5. z.kind = "Json.Remote"
    BY <1>2 DEF AjSettled, AjSameKind
  <2> HIDE DEF success, complete
  <2> QED
    BY <1>2, <1>4, <2>1, <2>2, <2>3, <2>4, <2>5 DEF AjDoneInv
<1>10. AjSameLinks(s, z)
  BY <1>2 DEF AjSettled
<1>11. AjLinkInv(z)
  BY <1>2, <1>8, <1>10, AjLinkKept DEF AjInvOf
<1>12. AjCountInv(z, AjDue(z))
  BY <1>2, <1>7, <1>8, <1>10, AjCountKept DEF AjInvOf, AjSameLinks
<1>13. AjInvOf(z)
  BY <1>5, <1>6, <1>9, <1>11, <1>12 DEF AjInvOf
<1> QED
  BY <1>13 DEF z

\* onSuccess of an XHR or an Ajax, which completes in 20 ms.
LEMMA AjSucceededInv ==
  ASSUME NEW s, AjInvOf(s), s.running, s.stack = <<>>, s.kind # "Json.Remote",
         NEW t, AjSettled(s, t), t.stack = <<>>, t.log = s.log, t.broken = s.broken,
         t.calls20 = IF s.kind = "Ajax" THEN Append(s.calls20, s.sent) ELSE s.calls20
  PROVE  AjInvOf(AjFire(t, "onSuccess", s.sent, "success"))
<1> DEFINE g == Append(s.log, <<"onSuccess", s.sent>>)
           z == AjFire(t, "onSuccess", s.sent, "success")
<1>1. AjIs(s) /\ s.log \in Seq(AjEvents \X Nat) /\ s.sent \in Nat /\ s.sent > 0
        /\ s.kind \in AjKinds /\ s.calls20 \in Seq(Nat)
  BY DEF AjInvOf, AjIs, AjWireInv
<1>2. /\ AjSettled(s, z) /\ z.stack = <<"success">> \o <<>> /\ z.log = g
      /\ z.calls20 = t.calls20 /\ z.broken = s.broken
  BY AjFireIs
<1> HIDE DEF z, g
<1>3. AjFired(s.log, g, "onSuccess", s.sent)
  BY <1>1, AjLogged DEF g, AjEvents
<1>4. AjFrames(z) = {"success"} /\ AjBelow(z.stack)
        /\ z.stack \in Seq(AjOfAnswer \cup AjOfPage)
  BY <1>2, AjOneFrame DEF AjOfAnswer
<1>5. AjIs(z) /\ AjStackInv(z) /\ AjWireInv(z)
  BY <1>2, <1>3, <1>4, AjSettledInv DEF AjFired
<1>6. AjAnswerInv(z)
  <2>1. "onSuccess" \in AjAnswers(s.kind)
    BY <1>1, AjAnswersAre
  <2> QED
    BY <1>1, <1>2, <1>3, <2>1, AjAnswersRun DEF AjInvOf, AjSettled
<1>7. AjFrames(s) = {} /\ AjDue(s) = 0 /\ AjDue(z) = 1
  <2>1. AjFrames(s) = {}
    BY DEF AjFrames
  <2> QED
    BY <1>4, <2>1 DEF AjDue
<1>8. /\ AjMoreAt(s.log, g, {"onSuccess"}, s.sent)
      /\ AjSameAt(s.log, g, {"onComplete"}) /\ AjSameAt(s.log, g, {"link"})
  BY <1>3 DEF AjFired, AjEvents
<1>9. AjDoneInv(z)
  <2> DEFINE success == AjSaid(s.log, {"onSuccess"})
  <2>1. AjSaid(g, {"onSuccess"}) = success \cup {s.sent}
    BY <1>8 DEF AjMoreAt
  <2>2. s.kind = "Ajax" =>
          AjOneByOne(g, "onComplete", Append(s.calls20, s.sent), success \cup {s.sent})
    <3> SUFFICES ASSUME s.kind = "Ajax"
                 PROVE  AjOneByOne(g, "onComplete", Append(s.calls20, s.sent),
                                   success \cup {s.sent})
      OBVIOUS
    <3>1. AjOneByOne(s.log, "onComplete", s.calls20, success)
      BY DEF AjInvOf, AjDoneInv
    <3>2. \A x \in success : x < s.sent
      BY AjBefore
    <3> HIDE DEF success
    <3>3. AjOneByOne(s.log, "onComplete", Append(s.calls20, s.sent), success \cup {s.sent})
      BY <1>1, <3>1, <3>2, AjOneAppend
    <3> QED
      BY <1>8, <3>3, AjOneSame
  <2>3. s.kind # "Ajax" => s.calls20 = <<>>
    BY DEF AjInvOf, AjDoneInv
  <2>4. z.kind = s.kind
    BY <1>2 DEF AjSettled, AjSameKind
  <2>5. "complete" \notin AjFrames(z)
    BY <1>4
  <2> HIDE DEF success
  <2> QED
    BY <1>2, <2>1, <2>2, <2>3, <2>4, <2>5 DEF AjDoneInv
<1>10. AjSameLinks(s, z)
  BY <1>2 DEF AjSettled
<1>11. AjLinkInv(z)
  BY <1>2, <1>8, <1>10, AjLinkKept DEF AjInvOf
<1>12. AjCountInv(z, AjDue(z))
  <2>1. /\ Cardinality(AjAt(s.log, {"link"})) \in Nat /\ Len(s.calls10) \in Nat
        /\ Cardinality(AjAt(s.log, {"onSuccess"})) \in Nat
    BY <1>1, AjAtFinite DEF AjIs
  <2>2. Cardinality(AjAt(g, {"onSuccess"})) = Cardinality(AjAt(s.log, {"onSuccess"})) + 1
          /\ Cardinality(AjAt(g, {"link"})) = Cardinality(AjAt(s.log, {"link"}))
    BY <1>8 DEF AjMoreAt, AjSameAt
  <2> QED
    BY <1>2, <1>7, <1>10, <2>1, <2>2 DEF AjInvOf, AjCountInv, AjSameLinks
<1>13. AjInvOf(z)
  BY <1>5, <1>6, <1>9, <1>11, <1>12 DEF AjInvOf
<1> QED
  BY <1>13 DEF z

\* An answer that arrives is heard, or lost with the transport made deaf.
LEMMA AjAnswerKeeps == AjInvOf(aj) /\ AjAnswer => AjInvOf(aj')
<1> SUFFICES ASSUME AjInvOf(aj), aj.stack = <<>>, NEW c \in DOMAIN aj.wire,
                    NEW how \in {"success", "failure", "malformed"}, aj.wire[c] # 0,
                    how = "malformed" => aj.kind = "Json.Remote",
                    aj' = IF c \in aj.heard /\ aj.running
                            THEN AjOnStateChange([aj EXCEPT !.wire[c] = 0],
                                                 aj.wire[c], how)
                            ELSE [aj EXCEPT !.wire[c] = 0]
             PROVE  AjInvOf(aj')
  BY DEF AjAnswer
<1> DEFINE w == [aj.wire EXCEPT ![c] = 0]
           s == [aj EXCEPT !.wire[c] = 0]
<1>1. AjIs(aj)
  BY DEF AjInvOf
<1>2. aj.wire \in Seq(Nat) /\ c \in 1 .. Len(aj.wire) /\ aj.transport = Len(aj.wire)
        /\ aj.transport \in 1 .. Len(aj.wire)
  BY <1>1 DEF AjIs
<1>3. /\ w \in Seq(Nat) /\ Len(w) = aj.transport /\ w[c] = 0
      /\ \A i \in 1 .. Len(aj.wire) : w[i] = IF i = c THEN 0 ELSE aj.wire[i]
  BY <1>2, ExceptSeq
<1>4. /\ AjSameKind(aj, s) /\ AjSameLinks(aj, s) /\ AjSameText(aj, s)
      /\ s.running = aj.running /\ s.opened = aj.opened /\ s.sent = aj.sent
      /\ s.transport = aj.transport /\ s.wire = w /\ s.heard = aj.heard
      /\ s.nested = aj.nested /\ s.stack = <<>> /\ s.log = aj.log
  BY <1>1 DEF AjIs, AjFields, AjSameKind, AjSameLinks, AjSameText
<1>5. CASE ~(c \in aj.heard /\ aj.running)
  <2>1. aj' = s
    BY <1>5
  <2> HIDE DEF w, s
  <2>2. AjIs(s)
    BY <1>1, <1>2, <1>3, <1>4 DEF AjIs, AjSameKind, AjSameLinks, AjSameText
  <2>3. AjFrames(s) = AjFrames(aj)
    BY <1>4 DEF AjFrames
  <2>4. AjStackInv(s)
    BY <1>4, <2>3 DEF AjInvOf, AjStackInv
  <2>5. AjWireInv(s)
    BY <1>2, <1>3, <1>4, <1>5 DEF AjInvOf, AjWireInv
  <2>6. AjAnswerInv(s)
    BY <1>4 DEF AjInvOf, AjAnswerInv, AjSameKind, AjSameText
  <2>7. AjDoneInv(s)
    BY <1>4, <2>3, AjLogStays, AjDoneKept DEF AjInvOf, AjSameKind, AjSameText
  <2>8. AjLinkInv(s)
    BY <1>4, AjLogStays, AjLinkKept DEF AjInvOf
  <2>9. AjCountInv(s, AjDue(s))
    BY <1>4, <2>3 DEF AjInvOf, AjCountInv, AjSameLinks, AjDue
  <2> QED
    BY <2>1, <2>2, <2>4, <2>5, <2>6, <2>7, <2>8, <2>9 DEF AjInvOf
<1>6. CASE c \in aj.heard /\ aj.running
  <2> DEFINE r == aj.sent
             u == [s EXCEPT !.running = FALSE]
             v == [u EXCEPT !.text = r]
  <2>1. c = aj.transport /\ aj.wire[c] = r
    BY <1>6 DEF AjInvOf, AjWireInv
  <2>2. aj' = AjOnStateChange(s, r, how)
    BY <1>6, <2>1
  <2>3. aj.opened = FALSE
    <3>1. AjFrames(aj) = {}
      BY DEF AjFrames
    <3> QED
      BY <1>1, <3>1 DEF AjInvOf, AjStackInv, AjIs
  <2> HIDE DEF w, s
  <2>4. DOMAIN s = AjFields
    BY <1>1, <1>4 DEF AjIs, AjSameKind
  <2>5. /\ DOMAIN u = DOMAIN s /\ u.kind = s.kind /\ u.autoCancel = s.autoCancel
        /\ u.chain = s.chain /\ u.calls10 = s.calls10 /\ u.links = s.links
        /\ u.calls20 = s.calls20 /\ u.text = s.text /\ u.broken = s.broken
        /\ u.running = FALSE /\ u.opened = s.opened /\ u.sent = s.sent
        /\ u.transport = s.transport /\ u.wire = s.wire /\ u.heard = s.heard
        /\ u.nested = s.nested /\ u.stack = s.stack /\ u.log = s.log
    BY <2>4 DEF AjFields
  <2>6. aj.text \in Nat /\ r \in Nat /\ aj.calls20 \in Seq(Nat) /\ aj.kind \in AjKinds
    BY <1>1 DEF AjIs
  <2>7. AjArrives(aj, u)
    BY <1>3, <1>4, <2>1, <2>3, <2>5, <2>6
       DEF AjArrives, AjSettled, AjSameKind, AjSameLinks, AjSameText
  <2>8. /\ DOMAIN v = DOMAIN u /\ v.kind = u.kind /\ v.autoCancel = u.autoCancel
        /\ v.chain = u.chain /\ v.calls10 = u.calls10 /\ v.links = u.links
        /\ v.calls20 = u.calls20 /\ v.text = r /\ v.broken = u.broken
        /\ v.running = u.running /\ v.opened = u.opened /\ v.sent = u.sent
        /\ v.transport = u.transport /\ v.wire = u.wire /\ v.heard = u.heard
        /\ v.nested = u.nested /\ v.stack = u.stack /\ v.log = u.log
    BY <2>4, <2>5 DEF AjFields
  <2>9. aj' = IF how = "failure" THEN AjFire(u, "onFailure", r, "failure")
              ELSE IF how = "malformed" THEN [v EXCEPT !.broken = @ \cup {r}]
              ELSE AjOnSuccess(v)
    BY <2>2 DEF AjOnStateChange
  <2> HIDE DEF u, v
  <2>10. AjArrives(aj, v) /\ v.text = aj.sent /\ v.kind = aj.kind
    BY <2>6, <2>7, <2>8 DEF AjArrives, AjSettled, AjSameKind, AjSameLinks
  <2>11. CASE how = "failure"
    BY <1>6, <2>7, <2>9, <2>11, AjFailedInv
  <2>12. CASE how = "malformed"
    BY <1>6, <2>9, <2>10, <2>12, AjMalformedInv
  <2>13. CASE how = "success"
    <3>1. aj' = AjOnSuccess(v)
      BY <2>9, <2>13
    <3>2. CASE aj.kind = "Json.Remote"
      <4>1. aj' = AjFire(v, "onComplete", aj.sent, "complete")
        BY <2>10, <3>1, <3>2 DEF AjOnSuccess
      <4> QED
        BY <1>6, <2>10, <3>2, <4>1, AjJsonInv
    <3>3. CASE aj.kind # "Json.Remote"
      <4> DEFINE z == IF v.kind = "Ajax" THEN [v EXCEPT !.calls20 = Append(@, v.text)]
                      ELSE v
      <4>1. aj' = AjFire(z, "onSuccess", v.text, "success")
        BY <2>10, <3>1, <3>3 DEF AjOnSuccess
      <4>2. /\ DOMAIN z = DOMAIN v /\ z.kind = v.kind /\ z.autoCancel = v.autoCancel
            /\ z.chain = v.chain /\ z.calls10 = v.calls10 /\ z.links = v.links
            /\ z.calls20 = IF v.kind = "Ajax" THEN Append(v.calls20, v.text) ELSE v.calls20
            /\ z.text = v.text /\ z.broken = v.broken
            /\ z.running = v.running /\ z.opened = v.opened /\ z.sent = v.sent
            /\ z.transport = v.transport /\ z.wire = v.wire /\ z.heard = v.heard
            /\ z.nested = v.nested /\ z.stack = v.stack /\ z.log = v.log
        BY <2>4, <2>5, <2>8 DEF AjFields
      <4> HIDE DEF z
      <4>3. z.calls20 \in Seq(Nat)
        BY <2>6, <2>10, <4>2 DEF AjArrives
      <4>4. AjSettled(aj, z)
        BY <2>10, <4>2, <4>3 DEF AjArrives, AjSettled, AjSameKind, AjSameLinks
      <4>5. /\ z.stack = <<>> /\ z.log = aj.log /\ z.broken = aj.broken
            /\ z.calls20 = IF aj.kind = "Ajax" THEN Append(aj.calls20, aj.sent)
                           ELSE aj.calls20
        BY <2>10, <4>2 DEF AjArrives
      <4>6. AjInvOf(AjFire(z, "onSuccess", aj.sent, "success"))
        BY <1>6, <3>3, <4>4, <4>5, AjSucceededInv
      <4> QED
        BY <2>10, <4>1, <4>6
    <3> QED
      BY <3>2, <3>3
  <2> QED
    BY <2>11, <2>12, <2>13
<1> QED
  BY <1>5, <1>6

-----------------------------------------------------------------------------
(* Requests: the delayed calls.                                            *)

\* A link is called 10 ms after its success.
LEMMA AjLinkKeeps == AjInvOf(aj) /\ AjLink => AjInvOf(aj')
<1> SUFFICES ASSUME AjInvOf(aj), AjLink PROVE AjInvOf(aj')
  OBVIOUS
<1> DEFINE h == Head(aj.calls10)
           g == Append(aj.log, <<"link", h>>)
           q == aj.calls10 \o aj.chain
           u == [aj EXCEPT !.calls10 = Tail(@)]
           t == AjLog(u, "link", h)
<1>1. AjIs(aj) /\ aj.calls10 \in Seq(Nat) /\ aj.chain \in Seq(Nat)
        /\ aj.log \in Seq(AjEvents \X Nat) /\ aj.kind \in AjKinds
  BY DEF AjInvOf, AjIs
<1>2. aj.calls10 # <<>> /\ aj' = t
  BY DEF AjLink
<1>3. /\ h \in Nat /\ Tail(aj.calls10) \in Seq(Nat)
      /\ Len(Tail(aj.calls10)) = Len(aj.calls10) - 1
  BY <1>1, <1>2, HeadTailProperties
<1>4. q \in Seq(Nat) /\ q # <<>> /\ Head(q) = h /\ Tail(q) = Tail(aj.calls10) \o aj.chain
  BY <1>1, <1>2, AjConcatTail
<1> HIDE DEF h, q, g
<1>5. /\ AjSameKind(aj, t) /\ AjSameWire(aj, t) /\ AjSameText(aj, t)
      /\ t.chain = aj.chain /\ t.links = aj.links /\ t.stack = aj.stack
      /\ t.calls10 = Tail(aj.calls10) /\ t.log = g
  BY <1>1 DEF AjIs, AjFields, AjLog, AjSameKind, AjSameWire, AjSameText, g
<1> HIDE DEF t
<1>6. AjFired(aj.log, g, "link", h)
  BY <1>1, <1>3, AjLogged DEF g, AjEvents
<1>7. /\ AjMoreAt(aj.log, g, {"link"}, h) /\ AjSameAt(aj.log, g, {"onSuccess"})
      /\ AjSameAt(aj.log, g, {"onComplete"}) /\ AjSameAt(aj.log, g, AjAnswers(aj.kind))
  BY <1>1, <1>6, AjAnswersAre DEF AjFired, AjEvents
<1>8. AjFrames(t) = AjFrames(aj)
  BY <1>5 DEF AjFrames
<1>9. AjIs(t)
  BY <1>1, <1>3, <1>5, <1>6 DEF AjIs, AjSameKind, AjSameWire, AjSameText, AjFired
<1>10. AjStackInv(t)
  BY <1>5, <1>8 DEF AjInvOf, AjStackInv, AjSameWire
<1>11. AjWireInv(t)
  BY <1>5 DEF AjInvOf, AjWireInv, AjSameWire
<1>12. AjAnswerInv(t)
  BY <1>1, <1>5, <1>7, AjAnswersSame DEF AjInvOf, AjSameKind, AjSameWire, AjSameText
<1>13. AjDoneInv(t)
  BY <1>5, <1>7, <1>8, AjDoneKept DEF AjInvOf, AjSameKind, AjSameText
<1>14. AjLinkInv(t)
  <2>1. AjOneByOne(aj.log, "link", q, 1 .. aj.links)
    BY DEF AjInvOf, AjLinkInv, q
  <2>2. AjOneByOne(g, "link", Tail(q), 1 .. aj.links)
    BY <1>4, <1>7, <2>1, AjOneTake
  <2> QED
    BY <1>4, <1>5, <2>2 DEF AjLinkInv
<1>15. AjCountInv(t, AjDue(t))
  <2>1. /\ Cardinality(AjAt(aj.log, {"link"})) \in Nat /\ Len(aj.calls10) \in Nat
        /\ Cardinality(AjAt(aj.log, {"onSuccess"})) \in Nat
    BY <1>1, AjAtFinite
  <2>2. Cardinality(AjAt(g, {"link"})) = Cardinality(AjAt(aj.log, {"link"})) + 1
          /\ Cardinality(AjAt(g, {"onSuccess"})) = Cardinality(AjAt(aj.log, {"onSuccess"}))
    BY <1>7 DEF AjMoreAt, AjSameAt
  <2>3. AjDue(t) = AjDue(aj) /\ AjDue(aj) \in Nat
    BY <1>8 DEF AjDue
  <2> QED
    BY <1>3, <1>5, <2>1, <2>2, <2>3 DEF AjInvOf, AjCountInv
<1>16. AjInvOf(t)
  BY <1>9, <1>10, <1>11, <1>12, <1>13, <1>14, <1>15 DEF AjInvOf
<1> QED
  BY <1>2, <1>16

\* A success of an Ajax completes 20 ms later.
LEMMA AjCompleteKeeps == AjInvOf(aj) /\ AjComplete => AjInvOf(aj')
<1> SUFFICES ASSUME AjInvOf(aj), AjComplete PROVE AjInvOf(aj')
  OBVIOUS
<1> DEFINE h == Head(aj.calls20)
           g == Append(aj.log, <<"onComplete", h>>)
           good == AjSaid(aj.log, {"onSuccess"})
           u == [aj EXCEPT !.calls20 = Tail(@)]
           t == AjLog(u, "onComplete", h)
<1>1. AjIs(aj) /\ aj.calls20 \in Seq(Nat) /\ aj.log \in Seq(AjEvents \X Nat)
        /\ aj.kind \in AjKinds
  BY DEF AjInvOf, AjIs
<1>2. aj.calls20 # <<>> /\ aj' = t /\ aj.stack = <<>>
  BY DEF AjComplete
<1>3. h \in Nat /\ Tail(aj.calls20) \in Seq(Nat)
  BY <1>1, <1>2, HeadTailProperties
<1>4. aj.kind = "Ajax"
  BY <1>2 DEF AjInvOf, AjDoneInv
<1> HIDE DEF h, g
<1>5. /\ AjSameKind(aj, t) /\ AjSameWire(aj, t) /\ AjSameLinks(aj, t)
      /\ t.text = aj.text /\ t.broken = aj.broken /\ t.stack = aj.stack
      /\ t.calls20 = Tail(aj.calls20) /\ t.log = g
  BY <1>1 DEF AjIs, AjFields, AjLog, AjSameKind, AjSameWire, AjSameLinks, g
<1> HIDE DEF t
<1>6. AjFired(aj.log, g, "onComplete", h)
  BY <1>1, <1>3, AjLogged DEF g, AjEvents
<1>7. /\ AjMoreAt(aj.log, g, {"onComplete"}, h) /\ AjSameAt(aj.log, g, {"onSuccess"})
      /\ AjSameAt(aj.log, g, {"link"}) /\ AjSameAt(aj.log, g, AjAnswers(aj.kind))
  BY <1>1, <1>4, <1>6, AjAnswersAre DEF AjFired, AjEvents
<1>8. AjFrames(aj) = {} /\ AjFrames(t) = {}
  BY <1>2, <1>5 DEF AjFrames
<1>9. AjIs(t)
  BY <1>1, <1>3, <1>5, <1>6 DEF AjIs, AjSameKind, AjSameWire, AjSameLinks, AjFired
<1>10. AjStackInv(t)
  BY <1>5, <1>8 DEF AjInvOf, AjStackInv, AjSameWire
<1>11. AjWireInv(t)
  BY <1>5 DEF AjInvOf, AjWireInv, AjSameWire
<1>12. AjAnswerInv(t)
  BY <1>1, <1>5, <1>7, AjAnswersSame DEF AjInvOf, AjSameKind, AjSameWire
<1>13. AjDoneInv(t)
  <2>1. AjOneByOne(aj.log, "onComplete", aj.calls20, good)
    BY <1>4 DEF AjInvOf, AjDoneInv
  <2>2. AjSaid(g, {"onSuccess"}) = good
    BY <1>7 DEF AjSameAt
  <2> HIDE DEF good
  <2>3. AjOneByOne(g, "onComplete", Tail(aj.calls20), good)
    BY <1>1, <1>2, <1>7, <2>1, AjOneTake DEF h
  <2> QED
    BY <1>4, <1>5, <1>8, <2>2, <2>3 DEF AjDoneInv, AjSameKind
<1>14. AjLinkInv(t)
  BY <1>5, <1>7, AjLinkKept DEF AjInvOf
<1>15. AjCountInv(t, AjDue(t))
  <2>1. AjDue(t) = AjDue(aj)
    BY <1>8 DEF AjDue
  <2> QED
    BY <1>5, <1>7, <2>1, AjCountKept DEF AjInvOf, AjSameLinks
<1>16. AjInvOf(t)
  BY <1>9, <1>10, <1>11, <1>12, <1>13, <1>14, <1>15 DEF AjInvOf
<1> QED
  BY <1>2, <1>16

\* chain() puts a link behind the others.
LEMMA AjChainKeeps == AjInvOf(aj) /\ AjPageChain => AjInvOf(aj')
<1> SUFFICES ASSUME AjInvOf(aj), AjPageChain PROVE AjInvOf(aj')
  OBVIOUS
<1> DEFINE l == aj.links + 1
           q == aj.calls10 \o aj.chain
           t == [aj EXCEPT !.links = @ + 1, !.chain = Append(@, l)]
<1>1. AjIs(aj) /\ aj.calls10 \in Seq(Nat) /\ aj.chain \in Seq(Nat) /\ aj.links \in Nat
        /\ l \in Nat
  BY DEF AjInvOf, AjIs
<1>2. Append(aj.chain, l) \in Seq(Nat) /\ aj' = t
  BY <1>1 DEF AjPageChain
<1>3. q \in Seq(Nat) /\ aj.calls10 \o Append(aj.chain, l) = Append(q, l)
  BY <1>1, AjConcatAppend
<1>4. (\A y \in 1 .. aj.links : y < l) /\ (1 .. aj.links) \cup {l} = 1 .. l
  BY <1>1
<1>5. t.links = l
  BY <1>1 DEF AjIs, AjFields
<1> HIDE DEF l
<1>6. /\ AjSameKind(aj, t) /\ AjSameWire(aj, t) /\ AjSameText(aj, t)
      /\ t.calls10 = aj.calls10 /\ t.chain = Append(aj.chain, l)
      /\ t.stack = aj.stack /\ t.log = aj.log
  BY <1>1 DEF AjIs, AjFields, AjSameKind, AjSameWire, AjSameText
<1> HIDE DEF t, q
<1>7. AjFrames(t) = AjFrames(aj)
  BY <1>6 DEF AjFrames
<1>8. AjIs(t)
  BY <1>1, <1>2, <1>5, <1>6 DEF AjIs, AjSameKind, AjSameWire, AjSameText
<1>9. AjStackInv(t)
  BY <1>6, <1>7 DEF AjInvOf, AjStackInv, AjSameWire
<1>10. AjWireInv(t)
  BY <1>6 DEF AjInvOf, AjWireInv, AjSameWire
<1>11. AjAnswerInv(t)
  BY <1>6 DEF AjInvOf, AjAnswerInv, AjSameKind, AjSameWire, AjSameText
<1>12. AjDoneInv(t)
  BY <1>6, <1>7, AjLogStays, AjDoneKept DEF AjInvOf, AjSameKind, AjSameText
<1>13. AjLinkInv(t)
  <2>1. AjOneByOne(aj.log, "link", q, 1 .. aj.links)
    BY DEF AjInvOf, AjLinkInv, q
  <2>2. AjOneByOne(aj.log, "link", Append(q, l), (1 .. aj.links) \cup {l})
    BY <1>1, <1>3, <1>4, <2>1, AjOneAppend
  <2> QED
    BY <1>3, <1>4, <1>5, <1>6, <2>2 DEF AjLinkInv
<1>14. AjCountInv(t, AjDue(t))
  <2>1. AjDue(t) = AjDue(aj)
    BY <1>7 DEF AjDue
  <2> QED
    BY <1>6, <2>1 DEF AjInvOf, AjCountInv
<1>15. AjInvOf(t)
  BY <1>8, <1>9, <1>10, <1>11, <1>12, <1>13, <1>14 DEF AjInvOf
<1> QED
  BY <1>2, <1>15

\* Every step of a request object keeps its invariant.
LEMMA AjNextInv == AjInv /\ AjNext => AjInv'
<1> SUFFICES ASSUME AjInvOf(aj), AjNext PROVE AjInvOf(aj')
  BY DEF AjInv
<1> QED
  BY AjSendKeeps, AjCancelKeeps, AjChainKeeps, AjReturnKeeps, AjAnswerKeeps, AjLinkKeeps,
     AjCompleteKeeps DEF AjNext

\* A new request object has nothing to answer.
LEMMA AjInitInv == AjInit => AjInv
<1> SUFFICES ASSUME AjInit PROVE AjInvOf(aj)
  BY DEF AjInv
<1>1. PICK k \in AjKinds, c \in BOOLEAN :
        aj = [kind |-> k, autoCancel |-> c, running |-> FALSE, transport |-> 1,
              wire |-> <<0>>, heard |-> {}, opened |-> FALSE, stack |-> <<>>,
              chain |-> <<>>, calls10 |-> <<>>, calls20 |-> <<>>, text |-> 0,
              sent |-> 0, links |-> 0, log |-> <<>>, nested |-> {}, broken |-> {}]
  BY DEF AjInit
<1>2. aj.running = FALSE /\ aj.opened = FALSE /\ aj.transport = 1 /\ aj.wire = <<0>>
        /\ aj.heard = {} /\ aj.sent = 0 /\ aj.stack = <<>>
  BY <1>1
<1>3. aj.chain = <<>> /\ aj.calls10 = <<>> /\ aj.calls20 = <<>> /\ aj.links = 0
        /\ aj.log = <<>>
  BY <1>1
<1>4. AjIs(aj)
  <2>1. <<0>> \in Seq(Nat) /\ Len(<<0>>) = 1
    OBVIOUS
  <2> QED
    BY <1>1, <2>1 DEF AjIs, AjFields
<1>5. AjFrames(aj) = {} /\ AjBelow(aj.stack) /\ AjDue(aj) = 0
  <2>1. AjFrames(aj) = {} /\ AjBelow(aj.stack)
    BY <1>2 DEF AjFrames, AjBelow
  <2> QED
    BY <2>1 DEF AjDue
<1>6. AjStackInv(aj) /\ AjWireInv(aj)
  BY <1>2, <1>5 DEF AjStackInv, AjWireInv
<1>7. DOMAIN aj.log = {} /\ DOMAIN (<<>> \o <<>>) = {}
  BY <1>3
<1>8. \A E : AjAt(aj.log, E) = {} /\ AjSaid(aj.log, E) = {} /\ AjRising(aj.log, E)
  BY <1>7 DEF AjAt, AjSaid, AjRising
<1>9. AjAnswerInv(aj)
  <2>1. 1 .. 0 = {}
    OBVIOUS
  <2>2. AjSaid(aj.log, AjAnswers(aj.kind)) = {} /\ AjRising(aj.log, AjAnswers(aj.kind))
    BY <1>8
  <2> QED
    BY <1>2, <2>1, <2>2 DEF AjAnswerInv
<1>10. AjDoneInv(aj)
  BY <1>3, <1>5, <1>8 DEF AjDoneInv, AjOneByOne
<1>11. AjLinkInv(aj)
  <2>1. 1 .. 0 = {}
    OBVIOUS
  <2> QED
    BY <1>3, <1>7, <1>8, <2>1 DEF AjLinkInv, AjOneByOne
<1>12. AjCountInv(aj, AjDue(aj))
  <2>1. Cardinality({}) = 0 /\ Len(aj.calls10) = 0
    BY <1>3, FS_EmptySet
  <2>2. AjAt(aj.log, {"link"}) = {} /\ AjAt(aj.log, {"onSuccess"}) = {}
    BY <1>8
  <2>3. Cardinality(AjAt(aj.log, {"link"})) = 0
          /\ Cardinality(AjAt(aj.log, {"onSuccess"})) = 0
    BY <2>1, <2>2
  <2>4. 0 + 0 + 0 <= 0
    OBVIOUS
  <2> QED
    BY <1>5, <2>1, <2>3, <2>4 DEF AjCountInv
<1> QED
  BY <1>4, <1>6, <1>9, <1>10, <1>11, <1>12 DEF AjInvOf

\* The invariant says what AjOneAnswer promises.
LEMMA AjInvAnswer == AjInv => AjOneAnswer
<1> SUFFICES ASSUME AjInvOf(aj) PROVE AjOneAnswer
  BY DEF AjInv
<1> DEFINE done == AjSaid(aj.log, AjAnswers(aj.kind))
           past == 1 .. (IF aj.running THEN aj.sent - 1 ELSE aj.sent)
<1>1. AjIs(aj) /\ aj.sent \in Nat
  BY DEF AjInvOf, AjIs
<1>2. /\ AjRising(aj.log, AjAnswers(aj.kind)) /\ done \subseteq past
      /\ past \subseteq done \cup aj.broken \cup aj.nested
  BY DEF AjInvOf, AjAnswerInv
<1>3. AjOnWire \subseteq (IF aj.running THEN {aj.sent} ELSE {})
  BY DEF AjInvOf, AjWireInv, AjOnWire
<1> HIDE DEF done
<1>4. done \cap AjOnWire = {}
  BY <1>1, <1>2, <1>3
<1>5. (1 .. aj.sent) \ (done \cup aj.broken \cup aj.nested)
        \subseteq (IF aj.running THEN {aj.sent} ELSE {})
  BY <1>1, <1>2
<1>6. (aj.running /\ aj.stack = <<>> /\ aj.sent \notin aj.nested) => AjOnWire = {aj.sent}
  <2> SUFFICES ASSUME aj.running, aj.stack = <<>>, aj.sent \notin aj.nested
               PROVE  aj.sent \in AjOnWire
    BY <1>3
  <2>1. AjFrames(aj) = {}
    BY DEF AjFrames
  <2>2. ~aj.opened
    BY <2>1 DEF AjInvOf, AjStackInv
  <2>3. aj.transport \in aj.heard /\ aj.wire[aj.transport] = aj.sent /\ aj.sent # 0
    BY <2>2 DEF AjInvOf, AjWireInv
  <2> QED
    BY <2>3 DEF AjOnWire
<1>7. AjAnswered
  BY <1>2, <1>4, <1>5, <1>6 DEF AjAnswered, done
<1>8. AjCompleted
  BY DEF AjInvOf, AjDoneInv, AjCompleted
<1>9. AjLinked
  <2>1. AjCountInv(aj, 0)
    BY <1>1, AjCountLess DEF AjInvOf
  <2>2. Cardinality(AjAt(aj.log, {"link"})) \in Nat /\ Len(aj.calls10) \in Nat
    BY <1>1, AjAtFinite DEF AjIs
  <2> QED
    BY <2>1, <2>2 DEF AjInvOf, AjLinkInv, AjCountInv, AjLinked
<1> QED
  BY <1>7, <1>8, <1>9 DEF AjOneAnswer
=============================================================================
