------------------------------ MODULE ImageMenu ------------------------------
(***************************************************************************)
(* The gallery page: ImageMenu (a row of items of which the one under the  *)
(* mouse, or else the selected one, is wide) and openThumbs/nextThumbs of  *)
(* images.js, which slide the thumbnails of the selected item down after   *)
(* those of the item before have slid up.  Every openThumbs() makes new    *)
(* effects, so that quick clicks leave several of them running.            *)
(***************************************************************************)
EXTENDS MooBase, FiniteSets

CONSTANTS ImItems,      (* how many items                                   *)
          ImMaxClicks   (* bound: clicks                                    *)

ASSUME ImAssumption == ImItems \in Nat \ {0} /\ ImMaxClicks \in Nat

VARIABLE im
(* im.selected: options.selected; im.width: item -> "item", "open", "small"  *)
(* or "between"; im.menu: targets of the menu's effect, item -> width, empty *)
(* when its timer is idle;                                                   *)
(* im.toOpen, im.toClose: thumbToOpen, thumbToClose;                         *)
(* im.shown: thumbnails displayed; im.height: their heights, 0, 1 (full) or  *)
(* 2 (between); im.fxs: the running effects of thumbnails in the order of    *)
(* their starts; im.pend: delayed nextThumbs() calls;                        *)
(* im.clicks: how many so far; im.broken: thumbs[-1] was asked for its style *)

ImIds == 0 .. ImItems - 1

ImInit ==
  im = [selected |-> -1, width |-> [i \in ImIds |-> "item"],
        menu |-> [i \in {} |-> "item"], toOpen |-> -1, toClose |-> -1, shown |-> {},
        height |-> [i \in ImIds |-> 0], fxs |-> <<>>, pend |-> 0, clicks |-> 0,
        broken |-> FALSE]

-----------------------------------------------------------------------------
(* The menu.                                                               *)

\* show(): items that are small already are left out of the effect.
ImShow(s, i) ==
  [j \in {i} \cup {k \in ImIds : s.width[k] # "small"} |->
     IF j = i THEN "open" ELSE "small"]

\* hide()
ImHide(s) ==
  IF s.selected = -1 THEN [j \in ImIds |-> "item"] ELSE ImShow(s, s.selected)

\* What the widths are bound for.
ImBound(s) == [i \in ImIds |-> IF i \in DOMAIN s.menu THEN s.menu[i] ELSE s.width[i]]

-----------------------------------------------------------------------------
(* The thumbnails.                                                         *)

ImEffect(i, to, calls) == [on |-> i, to |-> to, calls |-> calls, ripe |-> FALSE]
ImStart(s, e) == [s EXCEPT !.fxs = Append(@, e)]

\* openThumbs(selected, open)
ImOpenThumbs(s) ==
  LET t == [s EXCEPT !.toOpen = s.selected]
  IN IF t.toClose # -1 THEN ImStart(t, ImEffect(t.toClose, 0, TRUE))
     ELSE IF t.selected = -1 THEN [t EXCEPT !.broken = TRUE]
     ELSE ImStart([t EXCEPT !.shown = @ \cup {t.selected}, !.toClose = t.selected],
                  ImEffect(t.selected, 1, TRUE))

\* nextThumbs()
ImNextThumbs(s) ==
  LET t == [s EXCEPT !.shown = @ \ {s.toClose}, !.toClose = -1]
  IN IF s.toClose = -1 THEN s
     ELSE IF s.toOpen = -1 THEN t
     ELSE ImStart([t EXCEPT !.shown = @ \cup {s.toOpen}, !.toClose = s.toOpen],
                  ImEffect(s.toOpen, 1, FALSE))

\* select(), with openThumbs as onClick.
ImSelect(s, i) ==
  ImOpenThumbs([s EXCEPT !.selected = IF @ = i THEN -1 ELSE i, !.clicks = @ + 1])

-----------------------------------------------------------------------------
ImMouseOver == \E i \in ImIds : im' = [im EXCEPT !.menu = ImShow(im, i)]
ImMouseOut  == im' = [im EXCEPT !.menu = ImHide(im)]

ImClick ==
  /\ im.clicks < ImMaxClicks /\ ~im.broken
  /\ \E i \in ImIds : im' = ImSelect(im, i)

\* The menu's effect draws a frame, or its last one.
ImMenuFrame ==
  /\ im.menu # [i \in {} |-> "item"]
  /\ \/ im' = [im EXCEPT !.width = [i \in ImIds |-> IF i \in DOMAIN im.menu THEN "between"
                                                     ELSE @[i]]]
     \/ im' = [im EXCEPT !.width = ImBound(im), !.menu = [i \in {} |-> "item"]]

\* Effects of thumbnails all last 400 ms: the first one started ends first, and
\* not before the calls delayed by 10 ms when it was started.
ImThumbFinish ==
  /\ im.fxs # <<>> /\ Head(im.fxs).ripe
  /\ LET e == Head(im.fxs)
     IN im' = [im EXCEPT !.fxs = Tail(@), !.height[e.on] = e.to,
                         !.pend = IF e.calls THEN @ + 1 ELSE @]

ImThumbFrame ==
  \E n \in DOMAIN im.fxs :
    /\ im.fxs[n].ripe
    /\ im' = [im EXCEPT !.height[im.fxs[n].on] = 2]

ImThumbRipe ==
  /\ im.pend = 0
  /\ \E n \in DOMAIN im.fxs : ~im.fxs[n].ripe
  /\ im' = [im EXCEPT !.fxs = [n \in DOMAIN @ |-> [@[n] EXCEPT !.ripe = TRUE]]]

ImDelayed == im.pend > 0 /\ im' = ImNextThumbs([im EXCEPT !.pend = @ - 1])

ImNext ==
  \/ ImMouseOver \/ ImMouseOut \/ ImClick \/ ImMenuFrame
  \/ ImThumbFinish \/ ImThumbFrame \/ ImThumbRipe \/ ImDelayed

-----------------------------------------------------------------------------
\* No matter how quickly items are clicked, openThumbs() never asks for the
\* thumbnails of no item, and once the effects it has left behind have all ended
\* the thumbnails shown are those of the selected item, fully open, and none
\* when no item is selected.  The widths the menu is bound for are those of one
\* wide item and small ones, or all the same.
ImOneGallery ==
  /\ ~im.broken
  /\ (im.fxs = <<>> /\ im.pend = 0) =>
       /\ im.shown = {im.selected} \ {-1}
       /\ \A i \in im.shown : im.height[i] = 1
       /\ im.toClose = im.selected
  /\ LET to == ImBound(im)
         open == {i \in ImIds : to[i] = "open"}
     IN \/ \A i \in ImIds : to[i] = "item"
        \/ Cardinality(open) = 1 /\ \A i \in ImIds \ open : to[i] = "small"
=============================================================================
