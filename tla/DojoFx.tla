-------------------------------- MODULE DojoFx --------------------------------
(***************************************************************************)
(* dojo._Animation: animations fade one node out and in.  Those that play  *)
(* hang on one runner, whose interval is set while any does; play() may be  *)
(* delayed; an animation that reaches its end may repeat and fires onEnd.   *)
(* The page listens to onEnd alone; its listeners call what the page calls, *)
(* all of them in the turn of the frame that is the last.  Times and        *)
(* opacities are levels: an animation is at 0 .. DfEnd of its way, the node  *)
(* at 0 .. 2 * DfEnd.                                                      *)
(***************************************************************************)
EXTENDS Integers, FiniteSets, Sequences

CONSTANTS DfMaxPlays,   (* bound: calls of play() and the like              *)
          DfMaxRepeats  (* bound: the repeat argument; -1 is without end    *)

ASSUME DfAssumption == DfMaxPlays \in Nat /\ DfMaxRepeats \in Nat

VARIABLE df
(* df.a: animation -> active, paused, timer: its fields, timer for "has one"; *)
(*   at: _percent; start: the start of the curve; delay: plays are delayed;  *)
(*   pending: plays whose delay goes on; repeat, again: repeat and           *)
(*   _startRepeatCount; last: history, the event fired last; from: history,  *)
(*   who began its run, "repeat", a "handler" of its own onEnd, or "other";  *)
(*   caught: history, paused in a turn of the runner that has yet to call it *)
(* df.ctr, df.timer: ctr and whether the interval is set; df.turn: whom the   *)
(* runner has yet to call in this turn; df.ends: the animations whose onEnd  *)
(* is being fired, the innermost first; df.opacity, df.by: the node's, and   *)
(* the animation that set it last; df.plays: calls so far                  *)

DfOut == 1
DfIn  == 2
DfAnims == {DfOut, DfIn}
DfEnd == 2
DfOpaque == 2 * DfEnd

\* fadeOut() and fadeIn(): the end of the curve.
DfTarget(a) == IF a = DfIn THEN DfOpaque ELSE 0

\* An animation as made: args are mixed in.
DfAnimation(delay, repeat) ==
  [active |-> FALSE, paused |-> FALSE, timer |-> FALSE, at |-> 0,
   start |-> 0, delay |-> delay, pending |-> 0, repeat |-> repeat, again |-> 0,
   last |-> "none", from |-> "other", caught |-> FALSE]

DfInit ==
  \E delay \in [DfAnims -> BOOLEAN], repeat \in [DfAnims -> -1 .. DfMaxRepeats] :
    df = [a |-> [x \in DfAnims |-> DfAnimation(delay[x], repeat[x])],
          ctr |-> 0, timer |-> FALSE, turn |-> {}, ends |-> <<>>,
          opacity |-> DfOpaque, by |-> 0, plays |-> 0]

DfPlaying(s, x) == s.a[x].active /\ ~s.a[x].paused

\* x fires onEnd: its listeners are being called.
DfEnding(s, x) == \E i \in 1 .. Len(s.ends) : s.ends[i] = x

-----------------------------------------------------------------------------
(* The runner.                                                             *)

DfStartTimer(s, x) ==
  [s EXCEPT !.a[x].timer = TRUE, !.ctr = IF s.a[x].timer THEN @ ELSE @ + 1,
            !.timer = TRUE]

\* Faulty: ctr goes down for an animation without a timer, too.
DfStopTimerAlways(s, x) ==
  [s EXCEPT !.a[x].timer = FALSE, !.ctr = IF @ <= 1 THEN 0 ELSE @ - 1,
            !.timer = @ /\ s.ctr > 1]

DfStopTimer(s, x) ==
  LET left == IF s.a[x].timer THEN s.ctr - 1 ELSE s.ctr
  IN [s EXCEPT !.a[x].timer = FALSE, !.ctr = IF left <= 0 THEN 0 ELSE left,
               !.timer = @ /\ left > 0]

-----------------------------------------------------------------------------
(* The curve.                                                              *)

\* PropLine.getValue() and _Line.getValue()
DfValue(s, x, p) ==
  s.a[x].start + ((DfTarget(x) - s.a[x].start) * p) \div DfEnd

\* beforeBegin: animateProperty() makes a curve that starts where the node is.
DfBeforeBegin(s, x) == [s EXCEPT !.a[x].start = s.opacity]

\* onAnimate: the node takes the value.
DfAnimate(s, x, p) ==
  [s EXCEPT !.opacity = DfValue(s, x, p), !.by = x, !.a[x].last = "onAnimate"]

-----------------------------------------------------------------------------
(* _cycle() and _play().                                                   *)

\* Short of the end: the next frame is waited for.
DfCycleOn(s, x, p) ==
  DfStartTimer(DfAnimate([s EXCEPT !.a[x].at = p], x, p), x)

\* _play(): the time runs from now, less what a paused one has behind it; that
\* is where the frame that follows at once finds the animation.
DfPlayNow(s, x, from) ==
  LET q == s.a[x]
      begins == q.at = 0
  IN [s EXCEPT !.a[x] = [q EXCEPT !.at = IF q.paused THEN @ ELSE 0, !.active = TRUE, !.paused = FALSE,
        !.again = IF begins /\ q.again = 0 THEN q.repeat ELSE @,
        !.last = "onPlay", !.from = from]]

\* play() before _play() or its delay.
DfStarted(s, x, gotoStart) ==
  DfBeforeBegin(
    IF gotoStart
      THEN [DfStopTimer(s, x) EXCEPT !.a[x].active = FALSE, !.a[x].paused = FALSE,
                                     !.a[x].at = 0]
      ELSE s, x)

\* play(null, true): the first frame of a run from the start is not its last.
DfPlayAgain(s, x) ==
  LET t == DfStarted(s, x, TRUE)
  IN IF s.a[x].delay THEN [t EXCEPT !.a[x].pending = @ + 1]
     ELSE DfCycleOn(DfPlayNow(t, x, "repeat"), x, 0)

\* The end: the animation plays again if it repeats, or gets its repeats back.
DfRepeat(s, x) ==
  LET q == s.a[x]
  IN IF q.repeat > 0
       THEN DfPlayAgain([s EXCEPT !.a[x].repeat = @ - 1], x)
     ELSE IF q.repeat = -1 THEN DfPlayAgain(s, x)
     ELSE IF q.again # 0
       THEN [s EXCEPT !.a[x].repeat = q.again, !.a[x].again = 0]
     ELSE s

\* The last frame, up to where onEnd is fired.
DfCycleEnd(s, x) ==
  LET shown == DfAnimate([s EXCEPT !.a[x].at = DfEnd], x, DfEnd)
      over  == DfRepeat([shown EXCEPT !.a[x].active = FALSE], x)
  IN [over EXCEPT !.a[x].at = 0, !.a[x].last = "onEnd", !.ends = <<x>> \o @]

DfCycle(s, x, p) ==
  IF ~s.a[x].active THEN s
  ELSE IF p < DfEnd THEN DfCycleOn(s, x, p) ELSE DfCycleEnd(s, x)

\* _play() with the frame it shows at once.
DfRun(s, x) ==
  LET t == DfPlayNow(s, x, IF DfEnding(s, x) THEN "handler" ELSE "other")
  IN DfCycle(t, x, t.a[x].at)

DfPlay(s, x, delay, gotoStart) ==
  IF ~gotoStart /\ DfPlaying(s, x) THEN s
  ELSE LET t == DfStarted(s, x, gotoStart)
       IN IF delay \/ s.a[x].delay THEN [t EXCEPT !.a[x].pending = @ + 1]
          ELSE DfRun(t, x)

-----------------------------------------------------------------------------
(* What the page and the clock do.                                         *)

\* The page calls between two turns, and while onEnd is fired.
DfCall(s) ==
  /\ df.plays < DfMaxPlays /\ (df.turn = {} \/ df.ends # <<>>)
  /\ df' = [s EXCEPT !.plays = @ + 1]

\* play(), and dojo.anim(), which makes an animation and plays it.
DfPagePlays ==
  \E x \in DfAnims, delay, gotoStart \in BOOLEAN : DfCall(DfPlay(df, x, delay, gotoStart))

\* pause()
DfPause ==
  \E x \in DfAnims :
    LET s == DfStopTimer(df, x)
    IN DfCall(IF ~s.a[x].active THEN s
              ELSE [s EXCEPT !.a[x].paused = TRUE, !.a[x].last = "onPause",
                             !.a[x].caught = x \in df.turn])

\* gotoPercent()
DfGotoPercent ==
  \E x \in DfAnims, p \in 0 .. DfEnd, andPlay \in BOOLEAN :
    LET s == [DfStopTimer(df, x) EXCEPT !.a[x].active = TRUE, !.a[x].paused = TRUE,
                !.a[x].at = p, !.a[x].caught = x \in df.turn]
    IN DfCall(IF andPlay THEN DfPlay(s, x, FALSE, FALSE) ELSE s)

\* stop(): one without a timer is left alone.
DfStop ==
  \E x \in DfAnims, gotoEnd \in BOOLEAN :
    LET s == DfStopTimer(df, x)
    IN DfCall(IF ~df.a[x].timer THEN df
              ELSE [s EXCEPT !.a[x].active = FALSE, !.a[x].paused = FALSE,
                             !.a[x].at = IF gotoEnd THEN DfEnd ELSE @,
                             !.a[x].last = "onStop"])

\* The listeners of onEnd have been called; the rest of that _cycle().
DfEndOver ==
  /\ df.ends # <<>>
  /\ df' = [DfStopTimer(df, Head(df.ends)) EXCEPT !.ends = Tail(@)]

\* The delay of a play is over.
DfDelayOver ==
  \E x \in DfAnims :
    /\ df.turn = {} /\ df.ends = <<>> /\ df.a[x].pending > 0
    /\ df' = DfRun([df EXCEPT !.a[x].pending = @ - 1], x)

\* The interval: run()'s dispatcher copies the list of those that hang on it.
DfInterval ==
  /\ df.timer /\ df.turn = {} /\ df.ends = <<>>
  /\ df' = [df EXCEPT !.turn = {x \in DfAnims : df.a[x].timer}]

\* It calls one _cycle() of the copy, whatever hangs on the runner by then; the
\* time is whatever the clock says.
DfFrame ==
  \E x \in df.turn, p \in 0 .. DfEnd :
    /\ df.ends = <<>>
    /\ df' = DfCycle([df EXCEPT !.turn = @ \ {x}], x, p)

DfNext ==
  \/ DfPagePlays \/ DfPause \/ DfGotoPercent \/ DfStop
  \/ DfEndOver \/ DfDelayOver \/ DfInterval \/ DfFrame

-----------------------------------------------------------------------------
(* Properties.                                                             *)

\* The interval is set exactly while an animation hangs on the runner, and ctr
\* counts them: one that leaves never stops another's clock (dojo.js:8109-8131).
DfCounted ==
  /\ df.ctr = Cardinality({x \in DfAnims : df.a[x].timer})
  /\ df.timer <=> df.ctr > 0

\* Nothing that is stopped hangs on the runner, but for the turn in which it
\* ends; and what is paused does only if a listener of another's onEnd paused
\* it in a turn whose copied list still called it (dojo.js:2112-2118, 8060-8062).
DfOnlyPlayingRun ==
  \A x \in DfAnims :
    df.a[x].timer =>
      /\ df.a[x].active \/ DfEnding(df, x)
      /\ df.a[x].paused => df.a[x].caught

\* An animation that is playing without a timer is in a run that its last frame
\* began, by repeat or by a listener of its own onEnd; that frame's _stopTimer()
\* then took the timer of the new run (dojo.js:8083-8096).
DfFrozenByItsEnd ==
  \A x \in DfAnims : DfPlaying(df, x) /\ ~df.a[x].timer => df.a[x].from # "other"

\* While the last word on the node was of an animation that came to its end, the
\* node is where that animation leads (dojo.js:8069-8096).
DfReached ==
  \A x \in DfAnims : df.by = x /\ df.a[x].last = "onEnd" => df.opacity = DfTarget(x)

DfSound == DfCounted /\ DfOnlyPlayingRun /\ DfFrozenByItsEnd /\ DfReached

\* "The number of times to loop the animation" (dojo.js:7884): a run that repeat
\* began has the interval that leads it to its end.
DfLoops ==
  \A x \in DfAnims :
    DfPlaying(df, x) /\ df.a[x].from = "repeat" => df.a[x].timer
===============================================================================
