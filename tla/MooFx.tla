-------------------------------- MODULE MooFx --------------------------------
(***************************************************************************)
(* One MooTools effect on a page: Fx.Style, Fx.Styles, Fx.Elements,        *)
(* Fx.Scroll or Fx.Slide over Fx.Base.  The page starts it, stops it, sets *)
(* it and chains further starts to it; the timer draws its frames.  What   *)
(* it changes is a function from slots (properties of elements, the two    *)
(* scroll offsets, the margin and the size of a slide) to small numbers.   *)
(***************************************************************************)
EXTENDS MooBase, FiniteSets

CONSTANTS FxMaxStarts,  (* bound: accepted start() calls                    *)
          FxMaxLinks    (* bound: links chained                             *)

ASSUME FxAssumption == FxMaxStarts \in Nat /\ FxMaxLinks \in Nat

VARIABLE fx
(* fx.kind, fx.fx, fx.pend, fx.log: the effect and its page (see MooBase)    *)
(* fx.el: the slots as drawn; fx.now: those this.now holds;                  *)
(* fx.from, fx.to: of the last start; fx.css: the slots this.css knows;      *)
(* fx.wheel: the mousewheel listener of Fx.Scroll is attached;               *)
(* fx.open: Fx.Slide.open; fx.starts, fx.links: how many so far;             *)
(* fx.target: history, the slots the last start was to reach;                *)
(* fx.touched: history, set() was called since the last start                *)

\* The classes: the slots each changes, whether it finds the units and parsers of
\* its slots in this.css, and the handlers of onComplete, the page's and its own.
FxStyleClass ==    \* one property of an element
  [slots |-> {"width"}, css |-> TRUE, onComplete |-> <<"onComplete">>]
FxStylesClass ==   \* some of its properties
  [slots |-> {"width", "height"}, css |-> TRUE, onComplete |-> <<"onComplete">>]
FxElementsClass == \* properties of some elements
  [slots |-> {"a.width", "b.height"}, css |-> TRUE, onComplete |-> <<"onComplete">>]
FxScrollClass ==   \* how far an element is scrolled; the mousewheel stops it
  [slots |-> {"x", "y"}, css |-> FALSE, onComplete |-> <<"onComplete", "unwheel">>]
FxSlideClass ==    \* the margin of an element and the size of the wrapper around it
  [slots |-> {"margin", "size"}, css |-> FALSE, onComplete |-> <<"onComplete", "setOpen">>]

FxClass == [style |-> FxStyleClass, styles |-> FxStylesClass, elements |-> FxElementsClass,
            scroll |-> FxScrollClass, slide |-> FxSlideClass]
FxKinds == DOMAIN FxClass

\* The element's height or width, and how far the element scrolls.
FxSize      == 2
FxScrollMax == 2

FxNone == [p \in {} |-> 0]

FxInit ==
  \E k \in FxKinds, w \in BOOLEAN :
    fx = [kind |-> k, fx |-> [e |-> MooEffect(w)], pend |-> <<>>, log |-> <<>>,
          el |-> [p \in FxClass[k].slots |-> IF p = "size" THEN FxSize ELSE 0],
          now |-> FxNone, from |-> FxNone, to |-> FxNone, css |-> {},
          wheel |-> FALSE, open |-> TRUE, starts |-> 0, links |-> 0,
          target |-> FxNone, touched |-> FALSE]

-----------------------------------------------------------------------------
(* The arguments the page passes, by kind of effect.                       *)

\* Fx.Style: the one property.
FxStyleArgs(s) == {[width |-> v] : v \in {0, 2}}

\* Fx.Styles: any of the properties.
FxStylesArgs(s) == {[width |-> 2], [width |-> 0, height |-> 2]}

\* Fx.Elements: properties of some of the elements.
FxElementsArgs(s) ==
  {[p \in {"a.width"} |-> 2],
   [p \in {"a.width", "b.height"} |-> IF p = "a.width" THEN 0 ELSE 2]}

FxLimit(v, lo, hi) == IF v < lo THEN lo ELSE IF v > hi THEN hi ELSE v

\* scrollTo(x, y): a number is limited, false stays where it is, 'full' is the end.
FxKeep == -9
FxFull == 9
FxScrollEnd(cur, v) ==
  IF v = FxKeep THEN cur
  ELSE IF v = FxFull THEN FxScrollMax ELSE FxLimit(v, 0, FxScrollMax)

\* toTop(), toBottom(), toLeft(), toRight(), and scrollTo() beyond both ends.
FxScrollArgs(s) ==
  {[x |-> FxScrollEnd(s.el.x, a[1]), y |-> FxScrollEnd(s.el.y, a[2])] :
     a \in {<<FxKeep, 0>>, <<FxKeep, FxFull>>, <<0, FxKeep>>, <<FxFull, FxKeep>>,
            <<3, -1>>}}

\* slideIn(), slideOut(), and toggle() which is one of them.
FxSlideIn  == [margin |-> 0, size |-> FxSize]
FxSlideOut == [margin |-> -FxSize, size |-> 0]
FxToggle(s) == IF s.el.size = 0 THEN FxSlideIn ELSE FxSlideOut
FxSlideArgs(s) == {FxSlideIn, FxSlideOut, FxToggle(s)}

FxArgs(s) ==
  CASE s.kind = "style"    -> FxStyleArgs(s)
    [] s.kind = "styles"   -> FxStylesArgs(s)
    [] s.kind = "elements" -> FxElementsArgs(s)
    [] s.kind = "scroll"   -> FxScrollArgs(s)
    [] s.kind = "slide"    -> FxSlideArgs(s)

-----------------------------------------------------------------------------
(* Drawing.                                                                *)

\* increase(): every slot of this.now is drawn.
FxIncrease(s) ==
  [s EXCEPT !.el = [p \in DOMAIN s.el |-> IF p \in DOMAIN s.now THEN s.now[p] ELSE s.el[p]]]

\* set(): this.css is built anew from what is set; Fx.Slide and Fx.Scroll have
\* no this.css.
FxSet(s, to) ==
  FxIncrease([s EXCEPT !.now = to,
                       !.css = IF FxClass[s.kind].css THEN DOMAIN to ELSE @])

\* compute() halfway.
FxCompute(from, to) == from + (to - from) \div 2

\* setNow() draws from..to through this.css: a slot it does not know throws
\* (in which case increase() is not reached).
FxFrame(s) ==
  IF FxClass[s.kind].css /\ ~(DOMAIN s.from \subseteq s.css) THEN s
  ELSE FxIncrease([s EXCEPT
         !.now = [p \in DOMAIN s.from |-> FxCompute(s.from[p], s.to[p])]])

\* A slide that was stopped is neither open nor closed: hide() and show() say.
FxHideShow(s, show) ==
  [FxSet(s, IF show THEN FxSlideIn ELSE FxSlideOut) EXCEPT !.open = show]

-----------------------------------------------------------------------------
(* Starting, stopping and the delayed calls.                               *)

\* start() of every kind: nothing is parsed when the call will be ignored.
\* Fx.Scroll listens to the wheel from onStart on.
FxStart(s, to) ==
  IF MooIgnored(s, "e") THEN s
  ELSE LET k == s.starts + 1
           t == MooStart(s, "e", k)
       IN [t EXCEPT !.from = [p \in DOMAIN to |-> s.el[p]], !.to = to,
                    !.css = IF FxClass[s.kind].css THEN DOMAIN to ELSE @,
                    !.now = IF FxClass[s.kind].css THEN FxNone ELSE @,
                    !.wheel = @ \/ s.kind = "scroll",
                    !.starts = k, !.touched = FALSE,
                    !.target = to]

\* Faulty: the last step() does not draw the end.
FxFinishUndrawn(s) == MooFinish(s, "e", FxClass[s.kind].onComplete)

\* The last step(): stop(true), set(to), onComplete in 10 ms, then the chain.
FxFinish(s) ==
  LET t == FxSet(s, s.to) IN MooFinish(t, "e", FxClass[t.kind].onComplete)

\* A delayed call: a link starts the effect anew, or does something else when
\* the bound on starts is reached.
FxCall(s, call, to) ==
  CASE call[1] = "onComplete" -> MooFire(s, "onComplete", "e", call[3])
    [] call[1] = "unwheel"    -> [s EXCEPT !.wheel = FALSE]
    [] call[1] = "setOpen"    -> [s EXCEPT !.open = (s.now.margin = 0)]
    [] call[1] = "link"       ->
         LET t == MooFire(s, "link", "e", call[3])
         IN IF s.starts < FxMaxStarts THEN FxStart(t, to) ELSE t

FxPageStart ==
  /\ fx.starts < FxMaxStarts
  /\ \E to \in FxArgs(fx) : fx' = FxStart(fx, to)

\* Also what the mousewheel listener of Fx.Scroll calls.
FxPageStop == fx' = MooStop(fx, "e", FALSE)

FxPageSet ==
  /\ \/ fx.kind = "slide" /\ \E b \in BOOLEAN :
          fx' = [FxHideShow(fx, b) EXCEPT !.touched = TRUE]
     \/ fx.kind \notin {"slide", "scroll"} /\ \E to \in FxArgs(fx) :
          fx' = [FxSet(fx, to) EXCEPT !.touched = TRUE]

FxPageChain ==
  /\ fx.links < FxMaxLinks
  /\ fx' = [MooChain(fx, "e", fx.links + 1) EXCEPT !.links = @ + 1]

FxTimerFrame ==
  /\ fx.fx.e.ripe
  /\ fx' = FxFrame(fx)

FxTimerFinish ==
  /\ MooCanFinish(fx, "e")
  /\ fx' = FxFinish(fx)

FxTimerRipe ==
  /\ MooCanRipen(fx, "e")
  /\ fx' = MooRipen(fx, "e")

FxDelayed ==
  /\ fx.pend # <<>>
  /\ \E to \in FxArgs(fx) : fx' = FxCall(MooTake(fx), Head(fx.pend), to)

FxNext ==
  \/ FxPageStart \/ FxPageStop \/ FxPageSet \/ FxPageChain
  \/ FxTimerFrame \/ FxTimerFinish \/ FxTimerRipe \/ FxDelayed

-----------------------------------------------------------------------------
(* Properties.                                                             *)

\* Where an event or a call of one kind stands, of one start or link or of any.
FxMarks(q, e, k) == {i \in DOMAIN q : q[i][1] = e /\ q[i][3] = k}
FxPlaces(q, e) == {i \in DOMAIN q : q[i][1] = e}

\* How often an event was fired for a start, and how often it waits.
FxCount(e, k)   == Cardinality(FxMarks(fx.log, e, k))
FxWaiting(e, k) == Cardinality(FxMarks(fx.pend, e, k))

\* Every start that was not ignored is answered exactly once: it runs, or its
\* onComplete waits or was fired, or its onCancel was fired.
FxAnswered ==
  \A k \in 1 .. fx.starts :
    FxCount("onComplete", k) + FxWaiting("onComplete", k) + FxCount("onCancel", k)
      + (IF fx.fx.e.run = k THEN 1 ELSE 0) = 1

\* The links of the chain are called in order, none twice and none lost, and
\* each after the onComplete it was chained to: a cancelled effect calls none.
FxChained ==
  LET chain == fx.fx.e.chain
      links == fx.log \o fx.pend \o [i \in DOMAIN chain |-> <<"link", "e", chain[i]>>]
      at    == FxPlaces(links, "link")
  IN /\ {links[i][3] : i \in at} = 1 .. fx.links
     /\ \A i, j \in at : i < j => links[i][3] < links[j][3]
     /\ Cardinality(FxPlaces(fx.log, "link")) <= Cardinality(FxPlaces(fx.log, "onComplete"))

\* When the last start has run to its end and nothing set the slots since, they
\* are where it was to bring them, a slide knows whether it is open, and a
\* scroll does not listen to the wheel any more.
FxSettled ==
  LET k == fx.starts
  IN (k > 0 /\ fx.pend = <<>> /\ FxCount("onComplete", k) = 1 /\ ~fx.touched)
       => /\ \A p \in DOMAIN fx.target : fx.el[p] = fx.target[p]
          /\ fx.kind = "slide" => (fx.open <=> fx.el.margin = 0)
          /\ ~fx.wheel

\* FxAnswered, FxChained and FxSettled, whatever the page does meanwhile.
FxOutcome == FxAnswered /\ FxChained /\ FxSettled
=============================================================================
