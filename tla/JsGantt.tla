-------------------------------- MODULE JsGantt --------------------------------
(***************************************************************************)
(* jsgantt.js, the chart of the Gantt plugin: the tasks of an XML file are  *)
(* put in a list, processRows() gives groups the dates and the progress of  *)
(* what they hold, Draw() makes rows and columns of the list, and clicks    *)
(* close and open groups and change the format.  Days are numbers; day 0 is *)
(* Sunday, 1 February 2009.                                                *)
(***************************************************************************)
EXTENDS Integers, Sequences, FiniteSets, SequencesExt

CONSTANTS GnDays,      (* the days on which tasks start and end             *)
          GnToday,     (* today                                             *)
          GnMaxClicks  (* bound: clicks                                     *)

ASSUME GnAssumption ==
  GnDays \subseteq 0 .. 80 /\ GnToday \in 0 .. 80 /\ GnMaxClicks \in Nat

VARIABLE gn
(* gn.file: the tasks of the XML file, gn.parser: which of the two reads it; *)
(* gn.list: vTaskList, a sequence of tasks with all their fields;            *)
(* gn.format; gn.min, gn.max, gn.cols: the first and the last day of the     *)
(* chart and the first days of its columns; gn.bars: the bars under them;    *)
(* gn.shown: rows displayed;                                                 *)
(* gn.text: what the button of a group says; gn.latin: the browser took the  *)
(* script for windows-1252, where the byte 0x96 is the dash of Draw();       *)
(* gn.shapes: the dependencies the                                           *)
(* Graphics object has drawn, gn.lines: those of them that the page displays; *)
(* gn.threw: the last DrawDependencies() threw; gn.clicks: how many so far;  *)
(* gn.touched: history, groups clicked since they got their last child       *)

GnInvalid == 999
GnFormats == {"day", "week", "month"}

-----------------------------------------------------------------------------
(* Dates.                                                                  *)

GnFirsts == {-62, -31, 0, 28, 59, 89, 120}  (* December to June             *)
GnWeekday(d) == d % 7
GnIsFirst(d) == d \in GnFirsts
GnBefore(d, ok(_)) == CHOOSE x \in d - 31 .. d :
                        ok(x) /\ \A y \in x + 1 .. d : ~ok(y)
GnAfter(d, ok(_)) == CHOOSE x \in d .. d + 31 :
                        ok(x) /\ \A y \in d .. x - 1 : ~ok(y)

\* An invalid date is neither before nor after another.
GnLess(a, b) == a # GnInvalid /\ b # GnInvalid /\ a < b

\* The loops of processRows(), getMinDate() and getMaxDate(): the first date
\* counts whatever it is.
GnEarliest(q) == FoldLeft(LAMBDA m, x : IF GnLess(x, m) THEN x ELSE m, Head(q), q)
GnLatest(q)   == FoldLeft(LAMBDA m, x : IF GnLess(m, x) THEN x ELSE m, Head(q), q)

\* getMinDate(): back to a Sunday, or to the first of the month.
GnMinDate(L, format) ==
  LET d == GnEarliest([i \in DOMAIN L |-> L[i].start])
      Sunday(x) == GnWeekday(x) = 0
  IN CASE d = GnInvalid    -> d
       [] format = "day"   -> GnBefore(d - 1, Sunday)
       [] format = "week"  -> GnBefore(d - 7, Sunday)
       [] format = "month" -> GnBefore(d, GnIsFirst)

\* getMaxDate(): on to a weekend; for months, to the day before the next Sunday
\* or Monday.
GnMaxDate(L, format) ==
  LET d == GnLatest([i \in DOMAIN L |-> L[i].end])
      Weekend(x) == GnWeekday(x) \in {0, 6}
      Early(x)   == GnWeekday(x) \in {0, 1}
  IN CASE d = GnInvalid    -> d
       [] format = "day"   -> GnAfter(d + 1, Weekend)
       [] format = "week"  -> GnAfter(d + 11, Weekend)
       [] format = "month" -> GnAfter(d, Early) - 1

\* The first days of the columns Draw() makes.
GnColumns(min, max, format) ==
  IF GnInvalid \in {min, max} THEN {}
  ELSE CASE format = "day"   -> min .. max
         [] format = "week"  -> {d \in min .. max : GnWeekday(d) = GnWeekday(min)}
         [] format = "month" -> {d \in min .. max : GnIsFirst(d)}

-----------------------------------------------------------------------------
(* Tasks.                                                                  *)

\* new TaskItem(): a group has no dates of its own yet.
GnTask(id, parent, group, open, start, end, comp, depend) ==
  [id |-> id, parent |-> parent, group |-> group, open |-> open,
   start |-> IF group THEN GnToday ELSE start, end |-> IF group THEN GnToday ELSE end,
   comp |-> comp, depend |-> depend, level |-> 0, visible |-> TRUE]

GnNone == -1  (* no dependency: 'x'                                         *)

\* AddXMLTask() skips a task without an id, ChromeXMLParse() does not.
GnAddXMLTask(file)     == SelectSeq(file, LAMBDA t : t.id # 0)
GnChromeXMLParse(file) == file
GnParseXML(file, parser) ==
  IF parser = "chrome" THEN GnChromeXMLParse(file) ELSE GnAddXMLTask(file)

GnIds(L)       == {L[i].id : i \in DOMAIN L}
GnOf(L, id)    == L[CHOOSE i \in DOMAIN L : L[i].id = id]
GnKids(L, id)  == SelectSeq(L, LAMBDA t : t.parent = id)
GnGroups(L)    == {id \in GnIds(L) : GnOf(L, id).group}

\* The group id and the groups below it whose children the recursive calls
\* come to.
GnBelow(L, id) ==
  FoldLeft(LAMBDA S, n : S \cup {g \in GnGroups(L) : GnOf(L, g).parent \in S},
           {id}, [n \in DOMAIN L |-> n])

\* setLevel(): the tasks that are reached from the root, level by level.
GnLevels(L) ==
  FoldLeft(LAMBDA f, n :
             [id \in GnIds(L) |->
                LET t == GnOf(L, id)
                IN CASE t.parent = 0 -> 1
                     [] t.parent \in GnGroups(L) /\ f[t.parent] > 0 -> f[t.parent] + 1
                     [] OTHER -> 0],
           [id \in GnIds(L) |-> 0], [n \in DOMAIN L |-> n])

\* What a group takes over from its children: the earliest start, the latest end,
\* the average progress, rounded up; without children it is today's.
GnTakeOver(L, g) ==
  LET kids == GnKids(L, g)
      sum  == FoldLeft(LAMBDA n, k : n + k.comp, 0, kids)
  IN [i \in DOMAIN L |->
        IF L[i].id # g THEN L[i]
        ELSE IF kids = <<>>
          THEN [L[i] EXCEPT !.start = GnToday, !.end = GnToday, !.comp = 0]
        ELSE [L[i] EXCEPT !.start = GnEarliest([k \in DOMAIN kids |-> kids[k].start]),
                          !.end   = GnLatest([k \in DOMAIN kids |-> kids[k].end]),
                          !.comp  = -((-sum) \div Len(kids))]]

\* processRows(list, 0, -1, 1): a group takes over after the groups in it have.
GnProcessRows(L) ==
  LET level  == GnLevels(L)
      groups == SetToSortSeq({g \in GnGroups(L) : level[g] > 0},
                             LAMBDA g, h : level[g] > level[h])
  IN FoldLeft(GnTakeOver,
              [i \in DOMAIN L |-> [L[i] EXCEPT !.level =
                 IF level[L[i].id] = 0 THEN @ ELSE level[L[i].id]]],
              groups)

-----------------------------------------------------------------------------
(* The chart.                                                              *)

\* The rows Draw() displays and the buttons it gives to groups.
GnRows(L)    == {t.id : t \in {u \in ToSet(L) : u.visible}}
GnButtons(L) == [g \in GnGroups(L) |-> IF GnOf(L, g).open THEN "&ndash;" ELSE "+"]

\* The text that folder() gives to the button of a group it opens, and that show()
\* asks for: the byte 0x96 of the script, as the browser decodes it.
GnByte(s) == IF s.latin THEN "&ndash;" ELSE "0x96"

\* The bar of a task: from how many days after the first to how many; there is
\* none if a date is invalid.
GnBars(L, min) ==
  {<<t.id, t.start - min, t.end - min>> :
     t \in {u \in ToSet(L) : GnInvalid \notin {u.start, u.end, min}}}

\* Draw(): the page is made anew from the list; what the Graphics object drew on the
\* old one is gone with it.
GnDraw(s) ==
  LET L   == GnProcessRows(s.list)
      min == GnMinDate(L, s.format)
      max == GnMaxDate(L, s.format)
  IN [s EXCEPT !.list = L, !.min = min, !.max = max,
               !.cols = GnColumns(min, max, s.format),
               !.bars = GnBars(L, min), !.shown = GnRows(L), !.text = GnButtons(L),
               !.lines = {}]

\* Graphics.clear(): the plots of every shape are hidden, and never used again.
GnClear(s) == [s EXCEPT !.shapes = {}, !.lines = @ \ s.shapes]

\* drawDependency(): the lines of a dependency become shapes and plots.
GnDrawLines(s, lines) == [s EXCEPT !.shapes = @ \cup lines, !.lines = @ \cup lines]

\* DrawDependencies(): a line from the task one depends on, if both are
\* visible; one that depends on a task not in the list throws.
GnDrawDependencies(s) ==
  LET asks  == SelectSeq(s.list, LAMBDA t : t.depend # GnNone /\ t.visible)
      Bad(i) == asks[i].depend \notin GnIds(s.list)
      ok    == {i \in DOMAIN asks : \A j \in 1 .. i : ~Bad(j)}
  IN GnDrawLines(GnClear([s EXCEPT !.threw = \E i \in DOMAIN asks : Bad(i)]),
                 {<<asks[i].depend, asks[i].id>> :
                    i \in {j \in ok : GnOf(s.list, asks[j].depend).visible}})

\* setVisible() and the display of the row, for the children of some groups.
GnSetVisible(s, parents, v) ==
  LET ids == {t.id : t \in {u \in ToSet(s.list) : u.parent \in parents}}
  IN [s EXCEPT !.list = [i \in DOMAIN @ |-> IF @[i].id \in ids
                                              THEN [@[i] EXCEPT !.visible = v] ELSE @[i]],
               !.shown = IF v THEN @ \cup ids ELSE @ \ ids]

\* hide(): all the children, and all that is below them.
GnHide(s, id) == GnSetVisible(s, GnBelow(s.list, id), FALSE)

\* Faulty: the children of closed groups are shown, too.
GnShowAll(s, id) == GnSetVisible(s, GnBelow(s.list, id), TRUE)

\* show(): the children of the group clicked on, whose button still says "+", and
\* of any group below it whose button says what folder() writes.
GnShow(s, id) ==
  GnSetVisible(s, {g \in GnBelow(s.list, id) :
                     s.text[g] = IF g = id THEN "+" ELSE GnByte(s)}, TRUE)

GnSetOpen(s, id, v) ==
  [s EXCEPT !.list = [i \in DOMAIN @ |-> IF @[i].id = id
                                           THEN [@[i] EXCEPT !.open = v] ELSE @[i]]]

\* folder()
GnFolder(s, id) ==
  IF GnOf(s.list, id).open
    THEN [GnHide(GnSetOpen(s, id, FALSE), id) EXCEPT !.text[id] = "+"]
    ELSE [GnShow(GnSetOpen(s, id, TRUE), id) EXCEPT !.text[id] = GnByte(s)]

-----------------------------------------------------------------------------
(* The page.  Groups 1, 2 in it and 3 in 2, a task 4 in 3 or in 2, a task 5  *)
(* that may have no id or an unknown parent; the list may be upside down.  *)

GnFiles ==
  {<<GnTask(1, 0, TRUE, TRUE, 0, 0, 0, GnNone),
     GnTask(2, 1, TRUE, open[2], 0, 0, 0, GnNone),
     GnTask(3, 2, TRUE, open[3], 0, 0, 0, GnNone),
     GnTask(4, parent, FALSE, TRUE, day, IF day = GnInvalid THEN day ELSE day + 3, 60, 5),
     GnTask(five[1], five[2], FALSE, TRUE, 10, 12, 31, GnNone)>> :
     open \in [2 .. 3 -> BOOLEAN], parent \in {2, 3}, five \in {<<5, 1>>, <<0, 1>>, <<5, 9>>},
     day \in GnDays \cup {GnInvalid}}

GnInit ==
  \E file \in GnFiles, parser \in {"xml", "chrome"}, latin \in BOOLEAN :
    gn = [file |-> IF parser = "xml" THEN file ELSE Reverse(file), parser |-> parser,
          list |-> <<>>, format |-> "day", min |-> 0, max |-> 0, cols |-> {}, bars |-> {},
          shown |-> {}, text |-> <<>>, latin |-> latin, shapes |-> {}, lines |-> {}, threw |-> FALSE,
          clicks |-> 0, touched |-> {}]

\* parseXML(), then Draw() and DrawDependencies().
GnLoad ==
  /\ gn.list = <<>>
  /\ gn' = GnDrawDependencies(GnDraw(
             [gn EXCEPT !.list = GnParseXML(gn.file, gn.parser), !.file = <<>>]))

\* The button of a group whose row is displayed.
GnClick ==
  /\ gn.list # <<>> /\ gn.clicks < GnMaxClicks
  /\ \E g \in GnGroups(gn.list) \cap gn.shown :
       gn' = GnDrawDependencies(GnFolder([gn EXCEPT !.clicks = @ + 1,
                                                    !.touched = @ \cup {g}], g))

\* changeFormat()
GnChangeFormat ==
  /\ gn.list # <<>>
  /\ \E f \in GnFormats \ {gn.format} :
       gn' = GnDrawDependencies(GnDraw([gn EXCEPT !.format = f]))

\* "You should be able to add items to the chart in realtime via javascript and
\* issuing g.Draw() command."
GnAddTaskItem ==
  /\ gn.list # <<>> /\ 6 \notin GnIds(gn.list) /\ gn.clicks < GnMaxClicks
  /\ \E parent \in {1, 3}, depend \in {GnNone, 4} :
       gn' = GnDraw([gn EXCEPT
               !.list = Append(@, GnTask(6, parent, FALSE, TRUE, 20, 28, 100, depend)),
               !.touched = @ \ {parent}, !.clicks = @ + 1])

GnNext == GnLoad \/ GnClick \/ GnChangeFormat \/ GnAddTaskItem

-----------------------------------------------------------------------------
(* Properties.                                                             *)

GnAncestors(id) ==
  {g \in GnGroups(gn.list) \ {id} : id \in GnBelow(gn.list, g)
                                    \/ \E t \in ToSet(gn.list) :
                                         t.id = id /\ t.parent \in GnBelow(gn.list, g)}

\* The rows displayed are the tasks that are visible, and every button says
\* whether its group is open.  A row that is hidden has a closed group above it, or
\* one whose button is as Draw() left it, on a page where the browser does not take
\* the byte of show() for that dash: only an open group that was not clicked open
\* since the chart was drawn can lose the rows below it so.
\* A row displayed has its own group open, unless that group was drawn closed
\* (pOpen) or given the row later and not clicked since; a closed group farther
\* up does not hide it, as show() goes on below groups that are closed.
GnFolders ==
  gn.list # <<>> =>
    /\ gn.shown = GnRows(gn.list)
    /\ \A g \in DOMAIN gn.text : gn.text[g] = "+" <=> ~GnOf(gn.list, g).open
    /\ \A t \in ToSet(gn.list) :
         IF t.visible
           THEN t.parent \in gn.touched => GnOf(gn.list, t.parent).open
           ELSE \E g \in GnAncestors(t.id) :
                  ~GnOf(gn.list, g).open \/ (~gn.latin /\ gn.text[g] = "&ndash;")

\* A group spans exactly the tasks it holds, however deep, with today for an
\* empty group, as long as their dates are valid; its progress lies between
\* those of its children.
GnSpans ==
  \A g \in GnGroups(gn.list) :
    LET t     == GnOf(gn.list, g)
        ends  == {u \in ToSet(gn.list) :
                    u.parent \in GnBelow(gn.list, g) /\ (~u.group \/ GnKids(gn.list, u.id) = <<>>)}
        comps == {u.comp : u \in ToSet(GnKids(gn.list, g))}
    IN /\ ends # {} /\ (\A u \in ends : u.start # GnInvalid) =>
            /\ t.start \in {u.start : u \in ends} /\ \A u \in ends : t.start <= u.start
            /\ t.end \in {u.end : u \in ends} /\ \A u \in ends : u.end <= t.end
       /\ comps # {} => (\E c \in comps : c <= t.comp) /\ (\E c \in comps : t.comp <= c)

\* Every bar lies under the columns of the chart: they begin on a Sunday or on
\* the first of a month and leave no day out.  Months end too early when the last
\* task ends on a first that is a Sunday or a Monday: getMaxDate() looks at the
\* weekday where it means the date.
GnCovered ==
  \A bar \in gn.bars : \A n \in {bar[2], bar[3]} :
    LET d == gn.min + n
    IN \/ \E c \in gn.cols :
            c <= d /\ d - c < (CASE gn.format = "day" -> 1 [] gn.format = "week" -> 7
                                 [] gn.format = "month" -> 31)
       \/ gn.format = "month" /\ GnIsFirst(d) /\ GnWeekday(d) \in {0, 1}

\* Lines join visible rows, and all of them that depend on one another, unless
\* a task depends on one that is not there.  Draw() alone, which the documentation
\* asks for after a task is added, leaves the page without its lines until the
\* next click.
GnLines ==
  gn.list # <<>> =>
    LET due == {<<t.depend, t.id>> : t \in {u \in ToSet(gn.list) :
                  u.depend \in GnIds(gn.list) /\ u.visible
                    /\ GnOf(gn.list, u.depend).visible}}
    IN /\ gn.lines \subseteq gn.shapes \cap due
       /\ due \subseteq gn.lines
            \/ gn.threw \/ (gn.lines = {} /\ 6 \in GnIds(gn.list))

GnChart == GnFolders /\ GnSpans /\ GnCovered /\ GnLines
================================================================================
