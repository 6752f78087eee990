------------------------------- MODULE DojoXhr -------------------------------
(***************************************************************************)
(* dojo.xhr over dojo.Deferred: requests are kept in a list that one       *)
(* interval looks through; one that is answered or timed out leaves the    *)
(* list and fires its Deferred, which calls the handlers in a chain.  A    *)
(* handler may send a further request and return its Deferred, on which    *)
(* its own chain then waits.  The script runs on a stack of frames, one    *)
(* step of a loop at a time; the rest of the world waits until it is empty. *)
(***************************************************************************)
EXTENDS Integers, Sequences, FiniteSets, SequencesExt

CONSTANT XhMaxRequests  (* bound: requests sent                             *)

ASSUME XhAssumption == XhMaxRequests \in Nat

VARIABLE xh
(* xh.req: request -> its Deferred and its xhr:                              *)
(*   fired, res, paused, chain, canceled: of the Deferred; ready: readyState *)
(*   (0 none or aborted, 1 open, 4 done), ok: _isDocumentOk; timed: has a    *)
(*   timeout; expired: it is over; called: history, handlers called;         *)
(*   end: history, how it ended; byPage: history, the page cancelled it or   *)
(*   one that waited for it; by: history, the requests whose handlers sent   *)
(*   it, or sent one that did                                                *)
(* xh.flight: _inFlight; xh.interval: _inFlightIntvl is set; xh.stack        *)

\* Results: a value, kinds of errors, and the Deferred of request k.
XhNone  == -1
XhValue == 0
XhBad     == 1
XhTimeout == 2
XhCancel  == 3
XhThrown  == 4
XhErrors == 1 .. 4
XhOf(k) == 10 + k
XhIsDeferred(r) == r > 10
XhFired(r) == IF r \in XhErrors THEN 1 ELSE 0

XhInit == xh = [req |-> <<>>, flight |-> <<>>, interval |-> FALSE, stack |-> <<>>]

XhPush(s, f) == [s EXCEPT !.stack = <<f>> \o @]
XhPop(s)     == [s EXCEPT !.stack = Tail(@)]
XhTop        == Head(xh.stack)

-----------------------------------------------------------------------------
(* Deferred.                                                               *)

\* _fire() starts with the result the Deferred has now.
XhFire(s, d) ==
  XhPush(s, [op |-> "fire", d |-> d, res |-> s.req[d].res, fired |-> s.req[d].fired,
             cb |-> 0])

\* _resback()
XhResback(s, d, r) ==
  XhFire([s EXCEPT !.req[d].fired = XhFired(r), !.req[d].res = r], d)

\* callback() and errback(): "already called!" otherwise.
XhCallback(s, d, r, end) ==
  IF s.req[d].fired # -1 THEN s
  ELSE XhResback([s EXCEPT !.req[d].end = end], d, r)

\* Faulty: what is added to a Deferred that has fired is not called.
XhAddBothLate(s, d, fn) == [s EXCEPT !.req[d].chain = Append(@, fn)]

\* addCallbacks(): a Deferred that has fired calls what is added.
XhAddBoth(s, d, fn) ==
  LET t == [s EXCEPT !.req[d].chain = Append(@, fn)]
  IN IF t.req[d].fired >= 0 THEN XhFire(t, d) ELSE t

\* cancel(): the canceller aborts the xhr; one that has fired passes the call on
\* to the Deferred it waits for, if any.
XhDoCancel(s, d, page) ==
  LET q == s.req[d]
  IN IF q.fired = -1
       THEN XhCallback([s EXCEPT !.req[d].canceled = TRUE, !.req[d].ready = 0,
                                 !.req[d].byPage = @ \/ page], d, XhCancel, "cancel")
     ELSE IF q.fired = 0 /\ XhIsDeferred(q.res)
       THEN XhPush(s, [op |-> "cancel", d |-> q.res - 10, page |-> page])
     ELSE s

-----------------------------------------------------------------------------
(* The list of requests.                                                   *)

\* _ioWatch(): the interval is set unless it is, and all are looked at at once.
XhWatch == [op |-> "watch", i |-> 1]
XhIoWatch(s, d) ==
  XhPush([s EXCEPT !.flight = Append(@, d), !.interval = TRUE], XhWatch)

\* xhr(): the chain of _ioSetArgs; a synchronous request is done when it is sent.
XhSend(s, timed, sync, ok, by) ==
  LET d == Len(s.req) + 1
  IN XhIoWatch([s EXCEPT !.req = Append(@,
       [fired |-> -1, res |-> XhNone, paused |-> 0,
        chain |-> <<<<"io", 0>>, <<"load", 0>>, <<"error", 0>>, <<"handle", 0>>>>,
        canceled |-> FALSE, ready |-> IF sync THEN 4 ELSE 1, ok |-> ok,
        timed |-> timed, expired |-> FALSE, called |-> <<>>, end |-> "none",
        byPage |-> FALSE, by |-> by])], d)

\* One turn of the loop of _watchInFlight().
XhLook(s, i) ==
  LET d == s.flight[i]
      q == s.req[d]
      stay == [s EXCEPT !.stack[1].i = i + 1]
      gone == [s EXCEPT !.flight = RemoveAt(@, i)]
  IN IF q.canceled \/ q.ready = 0 THEN gone
     ELSE IF q.ready = 4
       THEN XhCallback(gone, d, IF q.ok THEN XhValue ELSE XhBad, "answer")
     ELSE IF q.timed /\ q.expired
       THEN XhCallback(XhPush(gone, [op |-> "cancel", d |-> d, page |-> FALSE]),
                       d, XhTimeout, "timeout")
     ELSE stay

\* The end of the loop: nothing to look through stops the interval.
XhLookDone(s) == [XhPop(s) EXCEPT !.interval = @ /\ s.flight # <<>>]

-----------------------------------------------------------------------------
(* One turn of the loop of _fire().                                        *)

\* Which handlers the result that came before calls; "io" hands it on.
XhCalls(h, fired) ==
  CASE h = "load" -> fired = 0 [] h = "error" -> fired = 1 [] OTHER -> TRUE

\* The Deferred d goes on with the result of the one it waited for.
XhResume(s, d, r) ==
  LET t == [s EXCEPT !.req[d].fired = XhFired(r), !.req[d].res = r,
                     !.req[d].paused = @ - 1]
  IN IF t.req[d].paused = 0 THEN XhFire(t, d) ELSE t

XhFireNext(s, f) ==
  LET h == Head(s.req[f.d].chain)
      t == [s EXCEPT !.req[f.d].chain = Tail(@)]
  IN IF h[1] = "resume" THEN XhResume(t, h[2], f.res)
     ELSE IF h[1] = "io" \/ ~XhCalls(h[1], f.fired) THEN t
     ELSE XhPush([t EXCEPT !.req[f.d].called = Append(@, h[1])],
                 [op |-> "user", d |-> f.d, made |-> 0])

\* The chain is empty or waits: the result is kept, and a Deferred returned by a
\* handler is asked to go on with this one.
XhFireDone(s, f) ==
  LET t == [XhPop(s) EXCEPT !.req[f.d].fired = f.fired, !.req[f.d].res = f.res]
  IN IF f.cb # 0 /\ t.req[f.d].paused > 0
       THEN XhAddBoth(t, f.cb, <<"resume", f.d>>) ELSE t

\* A handler returns r into the loop below it; "undefined" leaves the result.
XhReturn(s, r) ==
  LET u == Head(s.stack)
      t == XhPop(s)
      k == u.made
  IN IF r = XhNone THEN t
     ELSE IF r \in XhErrors THEN [t EXCEPT !.stack[1].res = r, !.stack[1].fired = 1]
     ELSE [t EXCEPT !.stack[1].res = r, !.stack[1].fired = 0, !.stack[1].cb = k,
                    !.req[u.d].paused = @ + 1]

-----------------------------------------------------------------------------
(* What happens.                                                           *)

XhPageSend ==
  /\ xh.stack = <<>> /\ Len(xh.req) < XhMaxRequests
  /\ \E timed, sync, ok \in BOOLEAN : xh' = XhSend(xh, timed, sync, ok, {})

XhPageCancel ==
  /\ xh.stack = <<>>
  /\ \E d \in DOMAIN xh.req : xh' = XhDoCancel(xh, d, TRUE)

\* The answer arrives, or the time is over.
XhServerAnswer ==
  /\ xh.stack = <<>>
  /\ \E d \in DOMAIN xh.req :
       /\ xh.req[d].ready = 1
       /\ xh' = [xh EXCEPT !.req[d].ready = 4]

XhExpire ==
  /\ xh.stack = <<>>
  /\ \E d \in DOMAIN xh.req : xh' = [xh EXCEPT !.req[d].expired = xh.req[d].timed]

XhTick == xh.stack = <<>> /\ xh.interval /\ xh' = XhPush(xh, XhWatch)

XhStepWatch ==
  /\ xh.stack # <<>> /\ XhTop.op = "watch"
  /\ xh' = IF XhTop.i <= Len(xh.flight) THEN XhLook(xh, XhTop.i) ELSE XhLookDone(xh)

XhStepCancel ==
  /\ xh.stack # <<>> /\ XhTop.op = "cancel"
  /\ xh' = XhDoCancel(XhPop(xh), XhTop.d, XhTop.page)

XhStepFire ==
  /\ xh.stack # <<>> /\ XhTop.op = "fire"
  /\ xh' = IF xh.req[XhTop.d].chain # <<>> /\ xh.req[XhTop.d].paused = 0
             THEN XhFireNext(xh, XhTop) ELSE XhFireDone(xh, XhTop)

\* A handler sends a request of its own, at most one.
XhUserSend ==
  /\ xh.stack # <<>> /\ XhTop.op = "user" /\ XhTop.made = 0
  /\ Len(xh.req) < XhMaxRequests
  /\ \E sync, ok \in BOOLEAN :
       xh' = XhSend([xh EXCEPT !.stack[1].made = Len(xh.req) + 1], FALSE, sync, ok,
                    xh.req[XhTop.d].by \cup {XhTop.d})

XhUserReturn ==
  /\ xh.stack # <<>> /\ XhTop.op = "user"
  /\ \E r \in {XhNone, XhThrown} \cup (IF XhTop.made = 0 THEN {} ELSE {XhOf(XhTop.made)}) :
       xh' = XhReturn(xh, r)

XhNext ==
  \/ XhPageSend \/ XhPageCancel \/ XhServerAnswer \/ XhExpire \/ XhTick
  \/ XhStepWatch \/ XhStepCancel \/ XhStepFire \/ XhUserSend \/ XhUserReturn

-----------------------------------------------------------------------------
XhCalled(q, h) == \E i \in DOMAIN q.called : q.called[i] = h

\* A request without an outcome is in the list once, and the interval looks at it.
XhAwaited(d) ==
  /\ \E i \in DOMAIN xh.flight : \A j \in DOMAIN xh.flight : xh.flight[j] = d <=> j = i
  /\ xh.interval

\* All handlers had their turn, or the request waits for one without an outcome.
XhThrough(q) ==
  /\ q.paused = 0 /\ q.chain = <<>>
  /\ Len(q.called) > 1 /\ q.called[Len(q.called)] = "handle"
XhWaits(q) ==
  /\ q.paused = 1 /\ XhIsDeferred(q.res)
  /\ LET w == xh.req[q.res - 10] IN w.fired = -1 \/ w.paused = 1

\* Between two runs of the script: a request is awaited until it has an outcome;
\* then it has called "handle" last, and load or error before it, unless it waits
\* for another; no handler was called twice, load only after an answer that was
\* ok.  Only what the page cancelled is cancelled, and what a handler of a request
\* that timed out has sent, or sent indirectly: cancel() follows the errback.
XhOutcome ==
  xh.stack = <<>> =>
    \A d \in DOMAIN xh.req :
      LET q == xh.req[d]
      IN /\ IF q.fired = -1 THEN XhAwaited(d) ELSE XhThrough(q) \/ XhWaits(q)
         /\ \A i, j \in DOMAIN q.called : q.called[i] = q.called[j] => i = j
         /\ XhCalled(q, "load") => q.ok /\ q.end = "answer"
         /\ q.canceled => q.byPage \/ \E e \in q.by : xh.req[e].end = "timeout"
=============================================================================
