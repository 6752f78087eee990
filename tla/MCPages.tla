-------------------------------- MODULE MCPages --------------------------------
(* The scripts of the pages, and two programs of the server that stand alone, *)
(* on small instances: one at a time.                                         *)
EXTENDS MooFx, Lightbox, NoobSlide, ImageMenu, MooAjax, MooDrag,
        MooAccordion, MooTips, MooGroup, DojoConnect, DojoXhr, DojoFx,
        DojoLoader, DojoQuery, JsGantt, DTree, Trumpet, Leecher, PidDaemon

VARIABLE page   (* which one it is: the variables of the others stay empty     *)

PlacesDr == -1 .. 6
DaysGn == {25}
HeightLb == <<1, 2>>
WidthLb == <<1, 1>>
InsideTi == {<<3, 1>>}

RunsLe(p, u) == [list |-> 1, paging |-> p, content |-> 2, upload |-> u]

\* One article of several pages, with p paging runs and u uploaders.
PagedLe(further, p, u) ==
  [listed |-> {"a1"}, comma |-> {"a1"}, pages |-> [f \in {"a1"} |-> further],
   title |-> [v \in {"a1"} \cup ToSet(further) |-> "A"], runs |-> RunsLe(p, u)]

\* Two articles of one page with the same title; those with a comma are taken
\* for articles of several.
SinglesLe(comma) ==
  [listed |-> {"b", "c"}, comma |-> comma, pages |-> <<>>,
   title |-> [v \in {"b", "c"} |-> "B"], runs |-> RunsLe(1, 2)]

SitesLe == {PagedLe(<<"a2">>, 2, 1), PagedLe(<<"a2">>, 1, 2),
            PagedLe(<<"a2", "a3">>, 1, 2), SinglesLe({}), SinglesLe({"c"})}

Init ==
  /\ page \in {"fx", "lightbox", "slides", "menu", "ajax", "drag",
              "accordion", "tips", "group", "connect", "xhr", "animation",
              "loader", "query", "gantt", "tree", "trumpet", "leecher", "daemon"}
  /\ IF page = "fx" THEN FxInit ELSE fx = <<>>
  /\ IF page = "lightbox" THEN LbInit ELSE lb = <<>>
  /\ IF page = "slides" THEN NsInit ELSE ns = <<>>
  /\ IF page = "menu" THEN ImInit ELSE im = <<>>
  /\ IF page = "ajax" THEN AjInit ELSE aj = <<>>
  /\ IF page = "drag" THEN DrInit ELSE dr = <<>>
  /\ IF page = "accordion" THEN AcInit ELSE ac = <<>>
  /\ IF page = "tips" THEN TiInit ELSE ti = <<>>
  /\ IF page = "group" THEN GrInit ELSE gr = <<>>
  /\ IF page = "connect" THEN DcInit ELSE dc = <<>>
  /\ IF page = "xhr" THEN XhInit ELSE xh = <<>>
  /\ IF page = "animation" THEN DfInit ELSE df = <<>>
  /\ IF page = "loader" THEN LdInit ELSE ld = <<>>
  /\ IF page = "query" THEN DqInit ELSE dq = <<>>
  /\ IF page = "gantt" THEN GnInit ELSE gn = <<>>
  /\ IF page = "tree" THEN DtInit ELSE dt = <<>>
  /\ IF page = "trumpet" THEN TpInit ELSE tp = <<>>
  /\ IF page = "leecher" THEN LeInit ELSE le = <<>>
  /\ IF page = "daemon" THEN DmInit ELSE dm = <<>>

PgFxStep == /\ page = "fx" /\ FxNext
            /\ UNCHANGED <<page, lb, ns, im, aj, dr, ac, ti, gr, dc, xh, df, ld, dq, gn, dt, tp, le, dm>>
PgLbStep == /\ page = "lightbox" /\ LbNext
            /\ UNCHANGED <<page, fx, ns, im, aj, dr, ac, ti, gr, dc, xh, df, ld, dq, gn, dt, tp, le, dm>>
PgNsStep == /\ page = "slides" /\ NsNext
            /\ UNCHANGED <<page, fx, lb, im, aj, dr, ac, ti, gr, dc, xh, df, ld, dq, gn, dt, tp, le, dm>>
PgImStep == /\ page = "menu" /\ ImNext
            /\ UNCHANGED <<page, fx, lb, ns, aj, dr, ac, ti, gr, dc, xh, df, ld, dq, gn, dt, tp, le, dm>>
PgAjStep == /\ page = "ajax" /\ AjNext
            /\ UNCHANGED <<page, fx, lb, ns, im, dr, ac, ti, gr, dc, xh, df, ld, dq, gn, dt, tp, le, dm>>
PgDrStep == /\ page = "drag" /\ DrNext
            /\ UNCHANGED <<page, fx, lb, ns, im, aj, ac, ti, gr, dc, xh, df, ld, dq, gn, dt, tp, le, dm>>
PgAcStep == /\ page = "accordion" /\ AcNext
            /\ UNCHANGED <<page, fx, lb, ns, im, aj, dr, ti, gr, dc, xh, df, ld, dq, gn, dt, tp, le, dm>>
PgTiStep == /\ page = "tips" /\ TiNext
            /\ UNCHANGED <<page, fx, lb, ns, im, aj, dr, ac, gr, dc, xh, df, ld, dq, gn, dt, tp, le, dm>>
PgGrStep == /\ page = "group" /\ GrNext
            /\ UNCHANGED <<page, fx, lb, ns, im, aj, dr, ac, ti, dc, xh, df, ld, dq, gn, dt, tp, le, dm>>
PgDcStep == /\ page = "connect" /\ DcNext
            /\ UNCHANGED <<page, fx, lb, ns, im, aj, dr, ac, ti, gr, xh, df, ld, dq, gn, dt, tp, le, dm>>
PgXhStep == /\ page = "xhr" /\ XhNext
            /\ UNCHANGED <<page, fx, lb, ns, im, aj, dr, ac, ti, gr, dc, df, ld, dq, gn, dt, tp, le, dm>>
PgDfStep == /\ page = "animation" /\ DfNext
            /\ UNCHANGED <<page, fx, lb, ns, im, aj, dr, ac, ti, gr, dc, xh, ld, dq, gn, dt, tp, le, dm>>
PgLdStep == /\ page = "loader" /\ LdNext
            /\ UNCHANGED <<page, fx, lb, ns, im, aj, dr, ac, ti, gr, dc, xh, df, dq, gn, dt, tp, le, dm>>
PgDqStep == /\ page = "query" /\ DqNext
            /\ UNCHANGED <<page, fx, lb, ns, im, aj, dr, ac, ti, gr, dc, xh, df, ld, gn, dt, tp, le, dm>>
PgGnStep == /\ page = "gantt" /\ GnNext
            /\ UNCHANGED <<page, fx, lb, ns, im, aj, dr, ac, ti, gr, dc, xh, df, ld, dq, dt, tp, le, dm>>
PgDtStep == /\ page = "tree" /\ DtNext
            /\ UNCHANGED <<page, fx, lb, ns, im, aj, dr, ac, ti, gr, dc, xh, df, ld, dq, gn, tp, le, dm>>
PgTpStep == /\ page = "trumpet" /\ TpNext
            /\ UNCHANGED <<page, fx, lb, ns, im, aj, dr, ac, ti, gr, dc, xh, df, ld, dq, gn, dt, le, dm>>
PgLeStep == /\ page = "leecher" /\ LeNext
            /\ UNCHANGED <<page, fx, lb, ns, im, aj, dr, ac, ti, gr, dc, xh, df, ld, dq, gn, dt, tp, dm>>
PgDmStep == /\ page = "daemon" /\ DmNext
            /\ UNCHANGED <<page, fx, lb, ns, im, aj, dr, ac, ti, gr, dc, xh, df, ld, dq, gn, dt, tp, le>>

Next == \/ PgFxStep \/ PgLbStep \/ PgNsStep \/ PgImStep \/ PgAjStep \/ PgDrStep
        \/ PgAcStep \/ PgTiStep \/ PgGrStep \/ PgDcStep \/ PgXhStep \/ PgDfStep
        \/ PgLdStep \/ PgDqStep \/ PgGnStep \/ PgDtStep \/ PgTpStep
        \/ PgLeStep \/ PgDmStep

Spec == Init /\ [][Next]_<<page, fx, lb, ns, im, aj, dr, ac, ti, gr, dc, xh, df, ld, dq, gn, dt, tp, le, dm>>

\* Property: an effect is answered, chained and ended as it should (MooFx).
PageFx == page = "fx" => FxOutcome

\* Property: the light box walks through its effects (Lightbox).
PageLb == page = "lightbox" => LbWalk

\* Property: every request that was sent has one answer (MooAjax).
PageAj == page = "ajax" => AjOneAnswer

\* Property: what is dragged is let go (MooDrag).
PageDr == page = "drag" => DrLetsGo

\* Property: listeners are called when the event is (DojoConnect).
PageDc == page = "connect" => DcDispatched

\* Property: every request ends once, whatever its handlers do (DojoXhr).
PageXh == page = "xhr" => XhOutcome

\* Property: animations share one interval and end where they should (DojoFx).
PageDf == page = "animation" => DfSound

\* Property: handlers, modules and addresses of the loader are right (DojoLoader),
\* and a query finds what its selector means (DojoQuery).
PageDj ==
  /\ page = "loader" => LdSound
  /\ page = "query" => DqRight

\* Property: the chart shows its tasks (JsGantt), and the menu beside it shows what
\* is open and remembers it (DTree).
PageQg ==
  /\ page = "gantt" => GnChart
  /\ page = "tree" => DtMenu

\* Property: articles are uploaded whole and once, but for the races of the cron
\* jobs that the property names (Leecher).
PageLe == page = "leecher" => LeUploads

\* Property: one daemon runs and its file names it, but for starts at once (PidDaemon).
PageDm == page = "daemon" => DmGuarded

\* Property: circle, field and list belong together (Trumpet).
PageTp == page = "trumpet" => TpShout

\* Property: the smaller parts of a page: slides show one item at a time (NoobSlide),
\* a menu opens one gallery (ImageMenu), an accordion one section (MooAccordion), the
\* box of tips one tip (MooTips), and a group waits for all (MooGroup).
PageParts ==
  /\ page = "slides" => NsOneShow
  /\ page = "menu" => ImOneGallery
  /\ page = "accordion" => AcOneOpen
  /\ page = "tips" => TiRight
  /\ page = "group" => GrRound
================================================================================
