------------------------------ MODULE Lightbox ------------------------------
(***************************************************************************)
(* lightbox.js over the MooTools effects: a click opens the box on an      *)
(* image; the image is loaded, the box is resized in height and in width,  *)
(* the image is faded in and the caption slides out, each step started by  *)
(* nextEffect() from the end of the one before; close() fades the overlay  *)
(* out and lets go of the listeners when that is done.                     *)
(***************************************************************************)
EXTENDS MooBase, FiniteSets

CONSTANTS LbHeight, LbWidth, (* the sizes of the images                     *)
          LbAnimateCaption,  (* the option                                  *)
          LbMaxOpens,        (* bound: how often the box is opened          *)
          LbMaxMoves         (* bound: images asked for while it is open    *)

ASSUME LbAssumption ==
  /\ LbHeight \in Seq(Nat \ {0}) /\ LbWidth \in Seq(Nat \ {0})
  /\ Len(LbHeight) = Len(LbWidth)
  /\ LbAnimateCaption \in BOOLEAN /\ LbMaxOpens \in Nat /\ LbMaxMoves \in Nat

VARIABLE lb
(* lb.fx, lb.pend, lb.log: see MooBase; lb.step: this.step;                  *)
(* lb.active: activeImage; lb.preload: the loading image that counts, or 0;  *)
(* lb.loads: image objects that still load -> onload is nextEffect;          *)
(* lb.shown, lb.bottom: the box and its caption are displayed;               *)
(* lb.opacity: of the overlay (0, 1 or between); lb.to: targets of effects;  *)
(* lb.listening: keydown, scroll and resize are listened to;                 *)
(* lb.height, lb.width: the box, 0 when it has the size of no image;         *)
(* lb.picture: the image faded in, 0 when it is hidden;                      *)
(* lb.moves, lb.opens: how many so far;                                      *)
(* lb.raced: history, the box was opened, moved or closed at a time the code *)
(* is not made for: opened before it was gone, moved or closed when hidden   *)

LbImages == DOMAIN LbHeight

LbInit ==
  lb = [fx |-> [f \in {"overlay", "resize", "image", "bottom"} |-> MooEffect(TRUE)],
        pend |-> <<>>, log |-> <<>>, step |-> 0, active |-> 1, preload |-> 0,
        loads |-> [n \in {} |-> TRUE], shown |-> FALSE, bottom |-> FALSE,
        opacity |-> 0, to |-> [h |-> 0, w |-> 0, o |-> 0], listening |-> FALSE,
        height |-> 0, width |-> 0, picture |-> 0, moves |-> 0, opens |-> 0,
        raced |-> FALSE]

-----------------------------------------------------------------------------
(* The methods.                                                            *)

\* setup(open): embedded objects are hidden, the listeners attached (a second
\* time has no effect) or removed, and the walk of the steps starts anew.
LbSetup(s, open) == [s EXCEPT !.listening = open, !.step = 0]

\* changeImage(): refused while the steps of an image are under way.
LbChangeImage(s, i) ==
  IF s.step # 0 \/ i \notin LbImages THEN s
  ELSE LET n == s.moves + 1
       IN [s EXCEPT !.step = 1, !.active = i, !.bottom = FALSE, !.picture = 0,
                    !.preload = n, !.moves = n,
                    !.loads = [k \in DOMAIN @ \cup {n} |-> k = n \/ @[k]]]

\* open(): the images are positioned, the overlay fades in.
LbOpen(s, i) ==
  LET t == [LbSetup(s, TRUE) EXCEPT
              !.shown = TRUE, !.opens = @ + 1,
              !.raced = @ \/ s.listening,
              !.to.o = IF MooIgnored(s, "overlay") THEN @ ELSE 1]
  IN LbChangeImage(MooStart(t, "overlay", 1), i)

\* nextEffect(): the step is taken, and steps with nothing to do are skipped.
LbFadeIn(s) == [MooStart(s, "image", 1) EXCEPT !.bottom = TRUE]

LbResizeWidth(s) ==
  IF s.width # LbWidth[s.active]
    THEN [MooStart(s, "resize", 1) EXCEPT
            !.to = IF MooIgnored(s, "resize") THEN @
                   ELSE [@ EXCEPT !.h = 0, !.w = LbWidth[s.active]]]
    ELSE LbFadeIn([s EXCEPT !.step = @ + 1])

LbResizeHeight(s) ==
  IF s.height # LbHeight[s.active]
    THEN [MooStart(s, "resize", 1) EXCEPT
            !.to = IF MooIgnored(s, "resize") THEN @
                   ELSE [@ EXCEPT !.h = LbHeight[s.active], !.w = 0]]
    ELSE LbResizeWidth([s EXCEPT !.step = @ + 1])

LbCaption(s) ==
  IF LbAnimateCaption THEN MooStart(s, "bottom", 1) ELSE [s EXCEPT !.step = 0]

LbNextEffect(s) ==
  LET t == [s EXCEPT !.step = @ + 1]
  IN CASE s.step = 1 -> LbResizeHeight(t)
       [] s.step = 2 -> LbResizeWidth(t)
       [] s.step = 3 -> LbFadeIn(t)
       [] s.step = 4 -> LbCaption(t)
       [] s.step = 5 -> [t EXCEPT !.step = 0]
       [] OTHER -> t

\* Faulty: the resize goes on.
LbStoppedFewer(s) ==
  MooStop(MooStop(MooStop(s, "overlay", FALSE), "image", FALSE), "bottom", FALSE)

\* close(): the load is forgotten, every effect is stopped where it is, and the
\* overlay fades out; setup(false) is chained to its end.
LbStopped(s) ==
  MooStop(MooStop(MooStop(MooStop(s, "overlay", FALSE), "resize", FALSE),
                  "image", FALSE), "bottom", FALSE)

LbClose(s) ==
  IF s.step < 0 THEN s
  ELSE LET t == [LbStopped(s) EXCEPT
                   !.step = -1, !.shown = FALSE, !.bottom = FALSE,
                   !.raced = @ \/ ~s.shown, !.preload = 0,
                   !.loads = [k \in DOMAIN @ |-> @[k] /\ k # s.preload],
                   !.to.o = 0]
       IN MooStart(MooChain(t, "overlay", "setup(false)"), "overlay", 1)

\* The last frame of an effect; those of the resize, the image and the bottom
\* have nextEffect as onComplete.
LbFinish(s, f) ==
  LET t == MooFinish(s, f, IF f = "overlay" THEN <<>> ELSE <<"nextEffect">>)
  IN CASE f = "overlay" -> [t EXCEPT !.opacity = s.to.o]
       [] f = "resize"  -> [t EXCEPT !.height = IF s.to.h # 0 THEN s.to.h ELSE @,
                                     !.width  = IF s.to.w # 0 THEN s.to.w ELSE @]
       [] f = "image"   -> [t EXCEPT !.picture = s.active]
       [] OTHER -> t

LbCall(s, call) ==
  IF call[1] = "nextEffect" THEN LbNextEffect(s) ELSE LbSetup(s, FALSE)

\* Nothing listens to onStart and onCancel.
LbLet(s) == lb' = [s EXCEPT !.log = <<>>]

-----------------------------------------------------------------------------
(* What happens on the page.                                               *)

\* A link of the page, with the mouse or with the Enter key.
LbPageOpen ==
  /\ lb.opens < LbMaxOpens /\ lb.moves < LbMaxMoves
  /\ \E i \in LbImages : LbLet(LbOpen(lb, i))

\* previous() and next(): keys, or the links under the image.
LbPageMove ==
  /\ lb.listening \/ lb.bottom
  /\ lb.moves < LbMaxMoves
  /\ \E d \in {-1, 1} :
       LET t == LbChangeImage(lb, lb.active + d)
       IN LbLet([t EXCEPT !.raced = @ \/ (t # lb /\ ~lb.shown)])

\* Keys, the overlay and the button.
LbPageClose ==
  /\ lb.listening \/ lb.opacity # 0 \/ lb.bottom
  /\ LbLet(LbClose(lb))

\* An image has loaded: close() has emptied the onload of the one it forgot.
LbImageLoads ==
  \E n \in DOMAIN lb.loads :
    LET t == [lb EXCEPT !.loads = [k \in DOMAIN @ \ {n} |-> @[k]]]
    IN LbLet(IF lb.loads[n] THEN LbNextEffect(t) ELSE t)

\* A frame of the overlay or of the box; those of the others change nothing
\* that is read.
LbFrame ==
  \/ /\ lb.fx["overlay"].ripe
     /\ LbLet([lb EXCEPT !.opacity = 2])
  \/ /\ lb.fx["resize"].ripe
     /\ LbLet([lb EXCEPT !.height = IF lb.to.h # 0 THEN 0 ELSE @,
                         !.width  = IF lb.to.w # 0 THEN 0 ELSE @])

LbEffectFinish ==
  \E f \in DOMAIN lb.fx : MooCanFinish(lb, f) /\ LbLet(LbFinish(lb, f))

LbEffectRipe ==
  \E f \in DOMAIN lb.fx : MooCanRipen(lb, f) /\ LbLet(MooRipen(lb, f))

LbDelayed ==
  /\ lb.pend # <<>>
  /\ LbLet(LbCall(MooTake(lb), Head(lb.pend)))

LbNext ==
  \/ LbPageOpen \/ LbPageMove \/ LbPageClose \/ LbImageLoads
  \/ LbFrame \/ LbEffectFinish \/ LbEffectRipe \/ LbDelayed

-----------------------------------------------------------------------------
(* Properties.                                                             *)

\* What will call nextEffect(): loading images, effects and delayed calls.
LbOutstanding ==
  Cardinality({n \in DOMAIN lb.loads : lb.loads[n]})
  + Cardinality({f \in {"resize", "image", "bottom"} : lb.fx[f].run # 0})
  + Cardinality({i \in DOMAIN lb.pend : lb.pend[i][1] = "nextEffect"})

\* An open box hears the keyboard; exactly one thing will take its next step
\* while an image is on its way and none does once it is there, and then the
\* box has the size of the image asked for and shows it.  A box that is gone
\* hears nothing and can be opened.  That is so unless it was opened before it
\* was gone, or moved or closed by a key while it was fading out.
LbWalk ==
  ~lb.raced =>
    /\ lb.shown =>
         /\ lb.listening /\ lb.step \in 0 .. 5
         /\ LbOutstanding = (IF lb.step = 0 THEN 0 ELSE 1)
         /\ (lb.step = 0) =>
              /\ lb.picture = lb.active /\ lb.bottom
              /\ lb.height = LbHeight[lb.active] /\ lb.width = LbWidth[lb.active]
    /\ (~lb.shown /\ lb.fx["overlay"].run = 0 /\ lb.pend = <<>>) =>
         /\ ~lb.listening /\ lb.step = 0 /\ lb.opacity = 0
         /\ LbOutstanding = 0 /\ lb.fx["overlay"].chain = <<>>
=============================================================================
