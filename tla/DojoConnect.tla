----------------------------- MODULE DojoConnect -----------------------------
(***************************************************************************)
(* dojo.connect and its relatives on one event: a method of an object, a   *)
(* topic, or the onkeypress of a node in Internet Explorer.  Listeners hang *)
(* on a dispatcher that took the place of the event's function.  While it  *)
(* calls one, that listener may connect, disconnect, fire the event again, *)
(* or put another function in the dispatcher's place.                      *)
(***************************************************************************)
EXTENDS Integers, Sequences, FiniteSets, SequencesExt

CONSTANTS DcMaxConnects,  (* bound: connects                                *)
          DcMaxFires,     (* bound: firings                                 *)
          DcMaxReplaces   (* bound: assignments to the event's function     *)

ASSUME DcAssumption ==
  DcMaxConnects \in Nat /\ DcMaxFires \in Nat /\ DcMaxReplaces \in Nat

VARIABLE dc
(* dc.kind: what the event belongs to; dc.at: the dispatcher at source[event] *)
(* (0 for another function); dc.ls: dispatcher -> its listeners in order, 0   *)
(* for one that was deleted; dc.gone: listeners deleted from the table that   *)
(* Internet Explorer's dispatchers call through;                             *)
(* dc.handle: listener -> its handle, 0 after disconnect;                    *)
(* dc.keydown, dc.refs: the stealth keydown listener and its count;          *)
(* dc.stack: the dispatches under way, innermost first: the copy of the       *)
(* listeners, the place in it of the one called last, the one running (0 for *)
(* none), and history: those connected when the copy was made, those called; *)
(* dc.fires, dc.replaces: how many so far;                                   *)
(* dc.on: history, what is connected by contract; dc.stale: history, a handle *)
(* was used after the function it was got from was replaced;                 *)
(* dc.threw: history, a dispatch called a listener that was gone             *)

DcKinds == {"method", "topic", "ie"}

DcInit ==
  \E k \in DcKinds :
    dc = [kind |-> k, at |-> 0, ls |-> <<>>, gone |-> {}, handle |-> <<>>,
          keydown |-> FALSE, refs |-> 0, stack |-> <<>>, fires |-> 0,
          replaces |-> 0, on |-> {}, stale |-> FALSE, threw |-> FALSE]

\* The page acts, or the listener that is running does.
DcFree == dc.stack # <<>> => Head(dc.stack).run # 0

-----------------------------------------------------------------------------
\* add(): a function without listeners is replaced by a new dispatcher, which
\* keeps it as its target.  The handle is the index of the listener, plus one.
DcListenerAdd(s, l) ==
  LET t == IF s.at # 0 THEN s
           ELSE [s EXCEPT !.ls = Append(@, <<>>), !.at = Len(s.ls) + 1]
  IN [t EXCEPT !.ls[t.at] = Append(@, l), !.handle = Append(@, Len(t.ls[t.at]) + 1)]

\* Faulty: the listeners behind the one removed move up.
DcListenerRemoveShift(s, h) ==
  IF s.at = 0 \/ h = 0 \/ h \notin DOMAIN s.ls[s.at] THEN s
  ELSE [s EXCEPT !.ls[s.at] = RemoveAt(@, h)]

\* remove(): whatever dispatcher is there now loses what the handle indexes.
DcListenerRemove(s, h) ==
  IF s.at = 0 \/ h = 0 \/ h \notin DOMAIN s.ls[s.at] THEN s
  ELSE [s EXCEPT !.ls[s.at][h] = 0,
                 !.gone = IF s.kind = "ie" THEN @ \cup {s.ls[s.at][h]} ELSE @]

\* A keypress listener in Internet Explorer needs one keydown listener that
\* makes up the keypresses the browser does not send.
DcEventAdd(s, l) ==
  DcListenerAdd([s EXCEPT !.keydown = TRUE, !.refs = IF s.keydown THEN @ + 1 ELSE 1],
                l)

DcEventRemove(s, h) ==
  LET t == DcListenerRemove(s, h)
  IN [t EXCEPT !.refs = @ - 1, !.keydown = @ /\ t.refs - 1 > 0]

\* connect() and subscribe()
DcConnect(s) ==
  LET l == Len(s.handle) + 1
  IN [IF s.kind = "ie" THEN DcEventAdd(s, l) ELSE DcListenerAdd(s, l)
        EXCEPT !.on = @ \cup {l}]

\* disconnect() spoils its handle; unsubscribe() leaves it as it is.
DcDisconnect(s, l) ==
  LET h == s.handle[l]
      t == IF s.kind = "ie" THEN DcEventRemove(s, h) ELSE DcListenerRemove(s, h)
  IN [t EXCEPT !.handle[l] = IF s.kind = "topic" THEN h ELSE 0,
               !.on = @ \ {l},
               !.stale = @ \/ (l \notin s.on /\ s.kind # "topic")]

\* What hangs on the event.
DcRow(s) == IF s.at = 0 THEN <<>> ELSE s.ls[s.at]

\* A dispatch calls its target and then what a copy of the listeners holds.
DcDispatch(s) ==
  [s EXCEPT !.fires = @ + 1,
            !.stack = <<[copy |-> DcRow(s), at |-> 0, run |-> 0,
                         due |-> s.on, called |-> <<>>]>> \o @]

\* Where for (i in lls) has still to go: a listener that was deleted left a hole.
DcLeft(f) == {i \in DOMAIN f.copy : i > f.at /\ f.copy[i] # 0}

\* The listener at a place of the copy.  Internet Explorer's is looked up in the
\* table first: a missing one throws, through every dispatch under way.
DcCall(s, i) ==
  LET f == Head(s.stack)
      l == f.copy[i]
  IN IF s.kind = "ie" /\ l \in s.gone
       THEN [s EXCEPT !.stack = <<>>, !.threw = TRUE]
       ELSE [s EXCEPT !.stack = <<[f EXCEPT !.at = i, !.run = l,
                                           !.called = Append(@, l)]>> \o Tail(@)]

-----------------------------------------------------------------------------
DcPageConnect ==
  /\ DcFree /\ Len(dc.handle) < DcMaxConnects
  /\ dc' = DcConnect(dc)

DcPageDisconnect ==
  /\ DcFree
  /\ \E l \in DOMAIN dc.handle :
       /\ dc.handle[l] # 0
       /\ dc' = DcDisconnect(dc, l)

\* publish() without subscribers, and a method nobody connected to, do nothing.
DcPageFire ==
  /\ DcFree /\ dc.fires < DcMaxFires
  /\ dc' = DcDispatch(dc)

\* obj[event] = function: the dispatcher is lost with all its listeners.  Topics
\* are not assigned to.
DcPageReplace ==
  /\ DcFree /\ dc.kind # "topic" /\ dc.replaces < DcMaxReplaces
  /\ dc' = [dc EXCEPT !.at = 0, !.replaces = @ + 1, !.on = {}]

DcCallNext ==
  /\ dc.stack # <<>> /\ Head(dc.stack).run = 0
  /\ \E i \in DcLeft(Head(dc.stack)) :
       /\ \A j \in DcLeft(Head(dc.stack)) : i <= j
       /\ dc' = DcCall(dc, i)

DcReturn ==
  /\ dc.stack # <<>>
  /\ LET f == Head(dc.stack)
     IN \/ f.run # 0 /\ dc' = [dc EXCEPT !.stack = <<[f EXCEPT !.run = 0]>> \o Tail(@)]
        \/ f.run = 0 /\ DcLeft(f) = {} /\ dc' = [dc EXCEPT !.stack = Tail(@)]

DcNext ==
  \/ DcPageConnect \/ DcPageDisconnect \/ DcPageFire \/ DcPageReplace
  \/ DcCallNext \/ DcReturn

-----------------------------------------------------------------------------
\* What a dispatch has called and what it will call.
DcBeen(f) == ToSet(f.called)
DcRest(f) == {f.copy[i] : i \in DcLeft(f)}

\* They are what was connected when it began, once each, in the order of the connects.
DcInOrder(f) ==
  /\ DcBeen(f) \cup DcRest(f) = f.due
  /\ \A i, j \in DOMAIN f.called : i < j => f.called[i] < f.called[j]
  /\ \A l \in DcBeen(f), m \in DcRest(f) : l < m
  /\ \A i, j \in DcLeft(f) : i < j => f.copy[i] < f.copy[j]
  /\ f.run # 0 => f.run = Last(f.called)

DcLive == ToSet(DcRow(dc)) \ {0}

\* As long as no handle is used that belongs to a function since replaced: what
\* hangs on the event is what was connected and not disconnected; every dispatch
\* calls what was connected when it began, once each and in the order of the
\* connects, whatever the listeners connect, disconnect and fire meanwhile; and a
\* dispatch only fails in Internet Explorer, after a disconnect.  The stealth
\* keydown listener is there exactly as long as a keypress listener needs it.
DcDispatched ==
  ~dc.stale =>
    /\ DcLive = dc.on
    /\ \A i \in DOMAIN dc.stack : DcInOrder(dc.stack[i])
    /\ dc.threw => dc.kind = "ie" /\ dc.gone # {}
    /\ dc.kind = "ie" =>
         /\ dc.refs = Cardinality({l \in DOMAIN dc.handle : dc.handle[l] # 0})
         /\ dc.keydown <=> dc.refs > 0
=============================================================================
