------------------------------- MODULE MooAjax -------------------------------
(***************************************************************************)
(* One MooTools request object: XHR, Ajax or Json.Remote.  It sends one    *)
(* request at a time over its transport; a send while one runs is ignored, *)
(* or cancels it (autoCancel).  Any handler may send, cancel and chain in  *)
(* its turn: aj.stack holds the calls that wait for their handlers to      *)
(* return, and only with none left does the browser do anything else.      *)
(***************************************************************************)
EXTENDS Integers, Sequences, FiniteSets

CONSTANTS AjMaxSends,  (* bound: requests sent                              *)
          AjMaxLinks   (* bound: links chained                              *)

ASSUME AjAssumption == AjMaxSends \in Nat /\ AjMaxLinks \in Nat

VARIABLE aj
(* aj.kind: the class; aj.autoCancel: the option;                            *)
(* aj.running: this.running; aj.transport: the number of this.transport;     *)
(* aj.wire: transport -> the request it carries, 0 for none;                 *)
(* aj.heard: transports whose onreadystatechange is onStateChange;           *)
(* aj.opened: this.transport is opened and not sent;                         *)
(* aj.stack: the calls whose handlers run, the innermost first: "request" of *)
(* send(), "cancel" of the page's cancel(), "cancelInSend" of send()'s own,  *)
(* "complete" and "success" of onSuccess(), "failure" of onFailure();        *)
(* aj.chain: links; aj.calls10, aj.calls20: calls delayed by 10 and 20 ms;   *)
(* aj.text: the request whose answer is this.response;                       *)
(* aj.sent, aj.links: how many so far; aj.log: the events fired, as          *)
(* <<event, request>>; aj.nested: history, requests sent by a handler that   *)
(* runs for an answer or within another send(); aj.broken: history, requests *)
(* whose answer an exception cut short                                       *)

AjKinds == {"XHR", "Ajax", "Json.Remote"}

AjInit ==
  \E k \in AjKinds, c \in BOOLEAN :
    aj = [kind |-> k, autoCancel |-> c, running |-> FALSE, transport |-> 1,
          wire |-> <<0>>, heard |-> {}, opened |-> FALSE, stack |-> <<>>,
          chain |-> <<>>, calls10 |-> <<>>, calls20 |-> <<>>, text |-> 0,
          sent |-> 0, links |-> 0, log |-> <<>>, nested |-> {}, broken |-> {}]

AjFrames(s) == {s.stack[i] : i \in DOMAIN s.stack}

AjLog(s, e, r) == [s EXCEPT !.log = Append(@, <<e, r>>)]

\* fireEvent(): the handlers of e are called by frame f.
AjFire(s, e, r, f) == [AjLog(s, e, r) EXCEPT !.stack = <<f>> \o @]

\* setTransport()
AjSetTransport(s) ==
  [s EXCEPT !.transport = @ + 1, !.wire = Append(@, 0), !.opened = FALSE]

\* Faulty: the request is neither aborted nor made deaf.
AjCancelHeard(s, f) ==
  AjFire(AjSetTransport([s EXCEPT !.running = FALSE]), "onCancel", s.sent, f)

\* cancel() of a running request: abort() calls onreadystatechange with
\* readyState 4, which finds that nothing is running.
AjCancel(s, f) ==
  LET t == s.transport
      u == [s EXCEPT !.running = FALSE, !.wire[t] = 0, !.heard = @ \ {t}]
  IN AjFire(AjSetTransport(u), "onCancel", s.sent, f)

\* The frames under which a request that is sent may be lost: onStateChange() makes
\* the transport deaf after them, and the outer send() opens it once more.
AjRisky == {"complete", "success", "failure", "cancelInSend"}

\* send() from "running = true" up to its handlers: open() drops what the transport
\* carried.
AjOpen(s) ==
  LET t == s.transport
      r == s.sent + 1
      u == [s EXCEPT !.running = TRUE, !.sent = r, !.wire[t] = 0, !.opened = TRUE,
                     !.heard = @ \cup {t},
                     !.nested = IF AjFrames(s) \cap AjRisky = {} THEN @ ELSE @ \cup {r}]
  IN AjFire(u, "onRequest", r, "request")

\* callChain(): the first link in 10 ms.
AjCallChain(s) ==
  IF s.chain = <<>> THEN s
  ELSE [s EXCEPT !.chain = Tail(@), !.calls10 = Append(@, Head(s.chain))]

\* onSuccess(): Ajax and Json.Remote listen to their own onSuccess first.  Ajax fires
\* onComplete in 20 ms, Json.Remote at once.
AjOnSuccess(s) ==
  IF s.kind = "Json.Remote" THEN AjFire(s, "onComplete", s.text, "complete")
  ELSE LET u == IF s.kind = "Ajax" THEN [s EXCEPT !.calls20 = Append(@, s.text)] ELSE s
       IN AjFire(u, "onSuccess", s.text, "success")

\* onStateChange() when the transport is done with request r: Json.evaluate()
\* throws on a malformed text, before any handler of the page.
AjOnStateChange(s, r, how) ==
  LET u == [s EXCEPT !.running = FALSE]
      v == [u EXCEPT !.text = r]
  IN IF how = "failure" THEN AjFire(u, "onFailure", r, "failure")
     ELSE IF how = "malformed" THEN [v EXCEPT !.broken = @ \cup {r}]
     ELSE AjOnSuccess(v)

\* The transport calls nothing any more.
AjDeafen(s) == [s EXCEPT !.heard = @ \ {s.transport}]

\* send() of a transport that is not open throws: every call on the stack ends.
AjThrow(s) ==
  [s EXCEPT !.stack = <<>>,
            !.broken = IF "complete" \in AjFrames(s) THEN @ \cup {s.text} ELSE @]

\* The handlers of frame f have returned to what called them.
AjReturnTo(s, f) ==
  CASE f = "request" -> [s EXCEPT !.opened = FALSE, !.wire[s.transport] = s.sent]
    [] f = "cancelInSend" -> AjOpen(s)
    [] f = "complete" -> AjFire(s, "onSuccess", s.text, "success")
    [] f = "success" -> AjDeafen(AjCallChain(s))
    [] f = "failure" -> AjDeafen(s)
    [] OTHER -> s

-----------------------------------------------------------------------------
\* What the page may do in a handler or at any other time.  A send while one
\* runs is ignored without autoCancel.
AjPageSend ==
  /\ aj.sent + Cardinality({i \in DOMAIN aj.stack : aj.stack[i] = "cancelInSend"})
       < AjMaxSends
  /\ aj.autoCancel \/ ~aj.running
  /\ aj' = IF aj.running THEN AjCancel(aj, "cancelInSend") ELSE AjOpen(aj)

AjPageCancel == aj.running /\ aj' = AjCancel(aj, "cancel")

AjPageChain ==
  /\ aj.links < AjMaxLinks
  /\ aj' = [aj EXCEPT !.links = @ + 1, !.chain = Append(@, aj.links + 1)]

AjReturn ==
  /\ aj.stack # <<>>
  /\ LET f == Head(aj.stack)
     IN aj' = IF f = "request" /\ ~aj.opened THEN AjThrow(aj)
              ELSE AjReturnTo([aj EXCEPT !.stack = Tail(@)], f)

\* The answer to what transport t carries arrives.
AjAnswer ==
  /\ aj.stack = <<>>
  /\ \E t \in DOMAIN aj.wire, how \in {"success", "failure", "malformed"} :
       /\ aj.wire[t] # 0
       /\ how = "malformed" => aj.kind = "Json.Remote"
       /\ LET s == [aj EXCEPT !.wire[t] = 0]
          IN aj' = IF t \in aj.heard /\ aj.running
                     THEN AjOnStateChange(s, aj.wire[t], how) ELSE s

AjLink ==
  /\ aj.stack = <<>> /\ aj.calls10 # <<>>
  /\ aj' = AjLog([aj EXCEPT !.calls10 = Tail(@)], "link", Head(aj.calls10))

AjComplete ==
  /\ aj.stack = <<>> /\ aj.calls20 # <<>>
  /\ aj' = AjLog([aj EXCEPT !.calls20 = Tail(@)], "onComplete", Head(aj.calls20))

AjNext ==
  \/ AjPageSend \/ AjPageCancel \/ AjPageChain \/ AjReturn \/ AjAnswer \/ AjLink
  \/ AjComplete

-----------------------------------------------------------------------------
\* Where the log has an event of E, and the requests or links it names there.
AjAt(log, E)   == {i \in DOMAIN log : log[i][1] \in E}
AjSaid(log, E) == {log[i][2] : i \in AjAt(log, E)}
AjRising(log, E) ==
  \A i, j \in AjAt(log, E) : i < j => log[i][2] < log[j][2]

\* The events e of the log and then the calls of q are the members of S, once each
\* and in order.
AjOneByOne(log, e, q, S) ==
  /\ AjSaid(log, {e}) \cup {q[i] : i \in DOMAIN q} = S
  /\ AjRising(log, {e})
  /\ \A i, j \in DOMAIN q : i < j => q[i] < q[j]
  /\ \A x \in AjSaid(log, {e}), i \in DOMAIN q : x < q[i]

\* The first event of an answer.
AjAnswers(kind) ==
  {IF kind = "Json.Remote" THEN "onComplete" ELSE "onSuccess", "onFailure", "onCancel"}

AjOnWire == {aj.wire[t] : t \in aj.heard} \ {0}

\* Every request is answered once, by a success, onFailure or onCancel, in the
\* order of the sends, or it is the one on its way, which then is heard once the
\* handlers are done.  Lost are at most requests that a handler sends for an answer
\* or within another send(), and answers that are no JSON.
AjAnswered ==
  LET done == AjSaid(aj.log, AjAnswers(aj.kind))
  IN /\ AjRising(aj.log, AjAnswers(aj.kind))
     /\ done \cap AjOnWire = {}
     /\ (1 .. aj.sent) \ (done \cup aj.broken \cup aj.nested)
          \subseteq (IF aj.running THEN {aj.sent} ELSE {})
     /\ (aj.running /\ aj.stack = <<>> /\ aj.sent \notin aj.nested) => AjOnWire = {aj.sent}

\* Each success of an Ajax completes once and in order.  Each onComplete of a
\* Json.Remote is followed by its onSuccess, in order, unless an exception of its
\* handlers cuts it short.
AjCompleted ==
  LET success  == AjSaid(aj.log, {"onSuccess"})
      complete == AjSaid(aj.log, {"onComplete"})
  IN /\ aj.kind = "Ajax" => AjOneByOne(aj.log, "onComplete", aj.calls20, success)
     /\ aj.kind = "Json.Remote" =>
          /\ AjRising(aj.log, {"onSuccess"})
          /\ success \subseteq complete
          /\ complete \ success \subseteq
               aj.broken \cup (IF "complete" \in AjFrames(aj) THEN {aj.text} ELSE {})

\* Links run in the order they are chained, each for a success of its own.
AjLinked ==
  /\ AjOneByOne(aj.log, "link", aj.calls10 \o aj.chain, 1 .. aj.links)
  /\ Cardinality(AjAt(aj.log, {"link"})) + Len(aj.calls10)
       <= Cardinality(AjAt(aj.log, {"onSuccess"}))

\* Every request is answered, completed and linked as it should.
AjOneAnswer == AjAnswered /\ AjCompleted /\ AjLinked
=============================================================================
