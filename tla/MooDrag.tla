------------------------------- MODULE MooDrag -------------------------------
(***************************************************************************)
(* What MooTools lets a mouse move: a Drag.Move over droppable elements, a *)
(* Slider (a Drag.Base under its knob), and the items of a Sortables list. *)
(* Each listens to the document from the press of the button on, and lets  *)
(* go when the button is released; a release outside of the window is not  *)
(* heard.  Places are numbers along one axis.                              *)
(***************************************************************************)
EXTENDS Integers, Sequences, FiniteSets, SequencesExt

CONSTANTS DrPlaces,     (* where the mouse can be                           *)
          DrMaxPresses  (* bound: presses of the button                     *)

ASSUME DrAssumption == DrPlaces \subseteq Int /\ DrMaxPresses \in Nat

VARIABLE dr
(* dr.kind; dr.opt: the options (limits, grid, steps, offset);               *)
(* dr.listen: the handlers attached to the document; dr.lost: history, a     *)
(* release was not heard; dr.held: the button is down;                       *)
(* dr.at: style of the element or of the knob; dr.from, dr.grip: mouse.start *)
(* and mouse.pos; dr.out; dr.over: this.overed, 0 for none;                  *)
(* dr.told: per droppable, how many 'over' it got more than 'leave', 'drop'; *)
(* dr.step, dr.change, dr.ended: of the Slider; dr.heard: what its last      *)
(* onChange and onComplete said; dr.order, dr.active, dr.last: the list, its *)
(* item being moved and this.previous (DrNull for null); dr.ghosts: clones shown;*)
(* dr.presses: how many so far                                               *)

DrKinds == {"move", "slider", "sortables"}

\* Two droppables, three list items of height 2, a slider of 4.
DrZones == 1 .. 2
DrMax   == 4
DrItems == 3
DrNull  == -99

DrOptions(kind) ==
  CASE kind = "move" ->
         {[lo |-> l, hi |-> 4, grid |-> g, snap |-> 1, steps |-> 0, offset |-> 0] :
            l \in {0, 1}, g \in {0, 2}}
    [] kind = "slider" ->
         {[lo |-> -o, hi |-> DrMax + 2 * o - o, grid |-> 0, snap |-> 0,
           steps |-> n, offset |-> o] : n \in {2, 4}, o \in {0, 1}}
    [] OTHER -> {[lo |-> 0, hi |-> 4, grid |-> 0, snap |-> 0, steps |-> 0,
                  offset |-> 0]}

DrInit ==
  \E k \in DrKinds : \E o \in DrOptions(k) :
    dr = [kind |-> k, opt |-> o, listen |-> {}, lost |-> FALSE, held |-> FALSE,
          at |-> IF k = "slider" THEN -o.offset ELSE 2,
          from |-> 0, grip |-> 0, out |-> FALSE,
          over |-> 0, told |-> [z \in DrZones |-> 0],
          step |-> -1, change |-> -1, ended |-> -1, heard |-> <<-1, -1>>,
          order |-> [i \in 1 .. DrItems |-> i], active |-> 0, last |-> DrNull,
          ghosts |-> 0, presses |-> 0]

-----------------------------------------------------------------------------
(* The Slider over its knob.                                               *)

\* max is the way the knob has: the offset lengthens it at both ends.
DrWay(s) == DrMax + 2 * s.opt.offset

DrLimit(v, lo, hi) == IF v < lo THEN lo ELSE IF v > hi THEN hi ELSE v

\* Math.round() rounds halves up.
DrToStep(s, p) == (2 * (p + s.opt.offset) * s.opt.steps + DrWay(s)) \div (2 * DrWay(s))

\* toPosition() does not take the offset off again.
DrToPosition(s, n) == (DrWay(s) * n) \div s.opt.steps

\* checkStep() and end() tell the page what they have not told it yet.
DrCheckStep(s) ==
  IF s.change = s.step THEN s
  ELSE [s EXCEPT !.change = s.step, !.heard[1] = s.step]
DrEnd(s) ==
  IF s.ended = s.step THEN s
  ELSE [s EXCEPT !.ended = s.step, !.heard[2] = s.step]

DrSliderSet(s, n) ==
  [DrEnd(DrCheckStep([s EXCEPT !.step = DrLimit(n, 0, s.opt.steps)]))
     EXCEPT !.at = DrToPosition(s, DrLimit(n, 0, s.opt.steps))]

DrClickedElement(s, x) ==
  LET p == DrLimit(x, s.opt.lo, s.opt.hi)
  IN [DrEnd(DrCheckStep([s EXCEPT !.step = DrToStep(s, p)])) EXCEPT !.at = p]

DrDraggedKnob(s) ==
  IF s.kind # "slider" THEN s
  ELSE DrCheckStep([s EXCEPT !.step = DrToStep(s, s.at)])

-----------------------------------------------------------------------------
(* Drag.Base and Drag.Move.                                                *)

\* start(): nothing moves before the mouse is farther away than snap.
DrDragStart(s, x) ==
  DrDraggedKnob([s EXCEPT !.from = x, !.grip = x - s.at, !.over = 0,
                          !.listen = @ \cup {"check", "stop"}])

\* JavaScript's remainder has the sign of the dividend.
DrRem(v, g) == IF v >= 0 THEN v % g ELSE -((-v) % g)

\* The value drag() draws: limited, then brought back onto the grid.
DrValue(s, x) ==
  LET v == DrLimit(x - s.grip, s.opt.lo, s.opt.hi)
  IN IF s.opt.grid = 0 THEN v ELSE v - DrRem(v, s.opt.grid)

DrOut(s, x) == x - s.grip \notin s.opt.lo .. s.opt.hi

\* The last droppable that lies under the mouse (checkAgainst).
DrUnder(x) ==
  LET Z == {z \in DrZones : 2 * (z - 1) < x /\ x < 2 * z + 1}
  IN IF Z = {} THEN 0 ELSE CHOOSE z \in Z : \A y \in Z : y <= z

DrTell(s, z, n) == IF z = 0 THEN s ELSE [s EXCEPT !.told[z] = @ + n]

DrDragMove(s, x) ==
  LET t == [s EXCEPT !.out = DrOut(s, x), !.at = DrValue(s, x)]
      z == IF t.out THEN 0 ELSE DrUnder(x)
  IN IF s.kind = "slider" THEN DrDraggedKnob(t)
     ELSE IF z = s.over THEN t
     ELSE [DrTell(DrTell(t, s.over, -1), z, 1) EXCEPT !.over = z]

\* check(): past the snap the mouse drags.
DrCheck(s, x) ==
  IF (x - s.from > s.opt.snap) \/ (s.from - x > s.opt.snap)
    THEN DrDragMove([s EXCEPT !.listen = (@ \ {"check"}) \cup {"drag"}], x)
    ELSE s

\* The listener check() of the document, as long as it is attached.
DrChecked(s, x) == IF "check" \in s.listen THEN DrCheck(s, x) ELSE s

\* Faulty: a press that never moved goes on being checked.
DrDragStopChecked(s) ==
  LET t == IF s.over # 0 /\ ~s.out THEN DrTell(s, s.over, -1) ELSE s
      u == [t EXCEPT !.listen = @ \ {"drag", "stop"}]
  IN IF s.kind = "slider" THEN DrEnd(DrDraggedKnob(u)) ELSE u

\* stop(): the element is dropped on what it is over, if it is not out.
DrDragStop(s) ==
  LET t == IF s.over # 0 /\ ~s.out THEN DrTell(s, s.over, -1) ELSE s
      u == [t EXCEPT !.listen = @ \ {"check", "drag", "stop"}]
  IN IF s.kind = "slider" THEN DrEnd(DrDraggedKnob(u)) ELSE u

-----------------------------------------------------------------------------
(* Sortables.                                                              *)

DrIndex(s) == CHOOSE i \in DOMAIN s.order : s.order[i] = s.active

DrSortStart(s, item) ==
  [s EXCEPT !.active = item, !.ghosts = @ + 1,
            !.listen = @ \cup {"moveGhost", "move", "end"}]

DrSwap(q, i, j) == [q EXCEPT ![i] = q[j], ![j] = q[i]]

\* move(): the item changes places with a neighbour whose near edge is passed.
DrSortMove(s, y) ==
  LET last == IF s.last \in {DrNull, 0} THEN y ELSE s.last
      i    == DrIndex(s)
      t    == [s EXCEPT !.last = y]
  IN CASE i > 1 /\ last > y /\ y < 2 * (i - 1) ->
            [t EXCEPT !.order = DrSwap(@, i - 1, i)]
       [] i < DrItems /\ last <= y /\ y > 2 * i ->
            [t EXCEPT !.order = DrSwap(@, i, i + 1)]
       [] OTHER -> t

\* end(): the ghost in the trash is removed with it.
DrSortEnd(s) ==
  [s EXCEPT !.last = DrNull, !.ghosts = @ - 1,
            !.listen = @ \ {"move", "end", "moveGhost"}]

-----------------------------------------------------------------------------
(* What the mouse and the page do.                                         *)

DrPress ==
  /\ ~dr.held /\ dr.presses < DrMaxPresses
  /\ LET s == [dr EXCEPT !.held = TRUE, !.presses = @ + 1]
     IN \/ dr.kind = "sortables" /\ \E i \in 1 .. DrItems : dr' = DrSortStart(s, i)
        \/ dr.kind # "sortables" /\ \E x \in DrPlaces : dr' = DrDragStart(s, x)
        \/ dr.kind = "slider" /\ \E x \in DrPlaces :
              dr' = [DrClickedElement(s, x) EXCEPT !.held = FALSE]

\* Handlers are called in the order they were attached; drag comes after check.
DrMove ==
  /\ dr.listen # {}
  /\ \E x \in DrPlaces :
       dr' = IF dr.kind = "sortables" THEN DrSortMove(dr, x)
             ELSE IF "drag" \in dr.listen THEN DrDragMove(DrChecked(dr, x), x)
             ELSE DrChecked(dr, x)

DrRelease ==
  /\ dr.listen # {}
  /\ dr' = [IF dr.kind = "sortables" THEN DrSortEnd(dr) ELSE DrDragStop(dr)
              EXCEPT !.held = FALSE]

\* The button is released where the document does not hear it.
DrReleaseOutside ==
  /\ dr.held
  /\ dr' = [dr EXCEPT !.held = FALSE, !.lost = TRUE]

DrPageSet ==
  /\ dr.kind = "slider" /\ dr.listen = {}
  /\ \E n \in -1 .. dr.opt.steps + 1 : dr' = DrSliderSet(dr, n)

DrNext == DrPress \/ DrMove \/ DrRelease \/ DrReleaseOutside \/ DrPageSet

-----------------------------------------------------------------------------
\* Once every release was heard, nothing listens to the document any more, each
\* droppable that was told it is under the mouse was told that it no longer is,
\* no ghost is left, and the page knows the step the slider came to rest on.
\* Always the list holds each item once, the element stays within limits that
\* lie around zero although the grid moves it after they were applied, and a
\* knob without offset stands at the step the slider has (set() takes one with
\* an offset beyond its limit).
DrLetsGo ==
  /\ (~dr.held /\ ~dr.lost) =>
       /\ dr.listen = {} /\ dr.ghosts = 0
       /\ \A z \in DrZones : dr.told[z] = 0
       /\ dr.heard = <<dr.step, dr.step>>
  /\ IsInjective(dr.order) /\ ToSet(dr.order) = 1 .. DrItems
  /\ (dr.opt.lo <= 0 /\ dr.opt.offset = 0)
       => dr.at >= dr.opt.lo /\ dr.at <= dr.opt.hi
  /\ (dr.kind = "slider" /\ dr.opt.offset = 0 /\ dr.step # -1)
       => DrToStep(dr, dr.at) = dr.step
=============================================================================
