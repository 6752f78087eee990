------------------------------- MODULE MooBase -------------------------------
(***************************************************************************)
(* What the MooTools effects share: Chain, Events and Fx.Base.  A page is a *)
(* record s with                                                           *)
(*   s.fx    effect -> its timer, its wait option and its chain;           *)
(*   s.pend  the delayed calls (10 ms each, hence first in, first out);    *)
(*   s.log   the events fired so far, as <<event, effect, start>>.         *)
(* A method is an operator from a page to the page it leaves behind.       *)
(***************************************************************************)
EXTENDS Integers, Sequences

\* new Fx.Base(): no timer runs.  run is the number of the start() in progress;
\* ripe says that the 10 ms of every call delayed before it have gone by.
MooEffect(wait) == [wait |-> wait, run |-> 0, ripe |-> FALSE, chain |-> <<>>]

\* fireEvent(type, args) of a handler that only the log stands for.
MooFire(s, e, f, k) == [s EXCEPT !.log = Append(@, <<e, f, k>>)]

\* fireEvent(type, args, 10) and delay(10): setTimeout().
MooDelay(s, calls) == [s EXCEPT !.pend = @ \o calls]

MooChain(s, f, fn) == [s EXCEPT !.fx[f].chain = Append(@, fn)]

\* callChain() takes the first link at once and calls it 10 ms later.
MooCallChain(s, f) ==
  IF s.fx[f].chain = <<>> THEN s
  ELSE [MooDelay(s, <<<<"link", f, Head(s.fx[f].chain)>>>>)
          EXCEPT !.fx[f].chain = Tail(@)]

MooClearChain(s, f) == [s EXCEPT !.fx[f].chain = <<>>]

\* stop(end)
MooStop(s, f, end) ==
  LET k == s.fx[f].run
      t == [s EXCEPT !.fx[f] = [@ EXCEPT !.run = 0, !.ripe = FALSE]]
  IN IF k = 0 THEN s ELSE IF end THEN t ELSE MooFire(t, "onCancel", f, k)

\* start() is ignored while the timer of an effect that waits is running.
MooIgnored(s, f) == s.fx[f].wait /\ s.fx[f].run # 0

MooStart(s, f, k) ==
  IF MooIgnored(s, f) THEN s
  ELSE LET t == IF s.fx[f].wait THEN s ELSE MooStop(s, f, FALSE)
       IN MooFire([t EXCEPT !.fx[f].run = k], "onStart", f, k)

\* The else branch of step(): the timer goes first, then the delayed calls of
\* the handlers of onComplete, then the chain.
MooFinish(s, f, handlers) ==
  LET k == s.fx[f].run
  IN MooCallChain(
       MooDelay(MooStop(s, f, TRUE),
                [i \in DOMAIN handlers |-> <<handlers[i], f, k>>]), f)

\* The clock reaches what was delayed before the effect f is over: every effect
\* lasts longer than 10 ms.
MooRipen(s, f) == [s EXCEPT !.fx[f].ripe = TRUE]
MooCanRipen(s, f) == s.fx[f].run # 0 /\ ~s.fx[f].ripe /\ s.pend = <<>>
MooCanFinish(s, f) == s.fx[f].run # 0 /\ s.fx[f].ripe

\* The browser takes the oldest delayed call.
MooTake(s) == [s EXCEPT !.pend = Tail(@)]
=============================================================================
