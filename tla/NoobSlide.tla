------------------------------ MODULE NoobSlide ------------------------------
(***************************************************************************)
(* noobSlide (_class.js): a box of items in a row, walked by buttons, by   *)
(* handles (one per item) and by an interval; the box slides under an      *)
(* Fx.Style that does not wait.                                            *)
(***************************************************************************)
EXTENDS MooBase, FiniteSets

CONSTANTS NsItems,     (* how many items                                    *)
          NsMaxTimers  (* bound: intervals ever set                         *)

ASSUME NsAssumption == NsItems \in Nat \ {0} /\ NsMaxTimers \in Nat

VARIABLE ns
(* ns.fx, ns.pend, ns.log: see MooBase; ns.autoPlay: the option;             *)
(* ns.index, ns.previous, ns.next: currentIndex, previousIndex, nextIndex    *)
(* (-1 before the first walk);                                               *)
(* ns.auto: the interval that _auto names, 0 at first; ns.live: intervals    *)
(* the browser still calls -> their direction; ns.timers: how many were set; *)
(* ns.pos: the item the box shows, -1 between two; ns.to: the one the effect *)
(* moves it to; ns.want: history, the direction the user was last promised   *)

NsCall  == {"previous", "next"}
NsIndex == 0 .. NsItems - 1

\* The wrap of previous() and next(), and of previousIndex and nextIndex.
NsBefore(i) == IF i > 0 THEN i - 1 ELSE i + (NsItems - 1)
NsAfter(i)  == IF i < NsItems - 1 THEN i + 1 ELSE i + (1 - NsItems)
NsTowards(dir, i) == IF dir = "next" THEN NsAfter(i) ELSE NsBefore(i)

\* $clear(_auto); the name is kept.
NsStop(s) == [s EXCEPT !.live = [t \in DOMAIN @ \ {s.auto} |-> @[t]]]

NsSetInterval(s, dir) ==
  LET n == s.timers + 1
  IN [s EXCEPT !.timers = n, !.auto = n,
               !.live = [t \in DOMAIN @ \cup {n} |-> IF t = n THEN dir ELSE @[t]]]

\* The end of walk() once currentIndex is set; play() with wait.
NsWalk(s, manual) ==
  LET t == IF manual THEN NsStop(s) ELSE s
      u == [MooStart(t, "e", 1) EXCEPT
              !.previous = NsBefore(s.index), !.next = NsAfter(s.index),
              !.to = s.index, !.log = <<>>]
  IN IF manual /\ s.autoPlay THEN NsSetInterval(NsStop(u), "next") ELSE u

\* walk(item, manual) from a handle: nothing happens on the current item.
NsHandle(s, i) ==
  IF i = s.index THEN s
  ELSE [NsWalk([s EXCEPT !.index = i], TRUE) EXCEPT
          !.want = IF s.autoPlay THEN "next" ELSE "none"]

\* previous(manual) and next(manual)
NsMove(s, dir, manual) == NsWalk([s EXCEPT !.index = NsTowards(dir, @)], manual)

\* Faulty: a playback that is under way goes on beside the new one.
NsPlayOn(s, dir) == [NsSetInterval(NsMove(s, dir, FALSE), dir) EXCEPT !.want = dir]

\* play(delay, direction, false)
NsPlay(s, dir) ==
  [NsSetInterval(NsMove(NsStop(s), dir, FALSE), dir) EXCEPT !.want = dir]

NsInit ==
  \E start \in NsIndex, auto \in BOOLEAN :
    LET s == [fx |-> [e |-> MooEffect(FALSE)], pend |-> <<>>, log |-> <<>>,
              autoPlay |-> auto, index |-> start, previous |-> -1, next |-> -1,
              auto |-> 0, live |-> [t \in {} |-> "next"], timers |-> 0,
              pos |-> start, to |-> start, want |-> IF auto THEN "next" ELSE "none"]
    IN ns = IF auto THEN NsSetInterval(NsStop(s), "next") ELSE s

-----------------------------------------------------------------------------
NsButtonMove ==
  /\ ns.timers < NsMaxTimers
  /\ \E dir \in NsCall :
       ns' = [NsMove(ns, dir, TRUE) EXCEPT
                !.want = IF ns.autoPlay THEN "next" ELSE "none"]

NsButtonPlay ==
  /\ ns.timers < NsMaxTimers
  /\ \E dir \in NsCall : ns' = NsPlay(ns, dir)

NsButtonStop == ns' = [NsStop(ns) EXCEPT !.want = "none"]

NsHandleClick ==
  /\ ns.timers < NsMaxTimers
  /\ \E i \in NsIndex : ns' = NsHandle(ns, i)

NsTick == \E t \in DOMAIN ns.live : ns' = NsMove(ns, ns.live[t], FALSE)

NsFrame ==
  /\ ns.fx["e"].run # 0
  /\ \/ ns' = [ns EXCEPT !.pos = -1]
     \/ ns' = [MooStop(ns, "e", TRUE) EXCEPT !.pos = ns.to]

NsNext ==
  \/ NsButtonMove \/ NsButtonPlay \/ NsButtonStop \/ NsHandleClick
  \/ NsTick \/ NsFrame

-----------------------------------------------------------------------------
\* However buttons, handles and ticks mix, at most one interval is ever alive,
\* it is the one stop() can clear, and it walks the way the user was last
\* promised (the other way, or none, after playback or stop; next again after a
\* walk by hand of a box that plays by itself).  The neighbours are those of the
\* current item, and the box comes to rest on it.
NsOneShow ==
  /\ {ns.live[t] : t \in DOMAIN ns.live} = {ns.want} \ {"none"}
  /\ DOMAIN ns.live \subseteq {ns.auto}
  /\ ns.index \in NsIndex /\ ns.to = ns.index
  /\ ns.previous # -1 =>
       /\ ns.previous = (ns.index + NsItems - 1) % NsItems
       /\ ns.next = (ns.index + 1) % NsItems
  /\ ns.fx["e"].run = 0 => ns.pos = ns.index
=============================================================================
