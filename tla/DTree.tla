-------------------------------- MODULE DTree --------------------------------
(***************************************************************************)
(* dtree.js, the tree of a menu (FusionCharts' Menu.html): toString() makes *)
(* the page of a list of nodes, clicks open, close and select nodes, and    *)
(* two cookies remember what was open and selected when the page is loaded  *)
(* again.  Nodes are their places in the list; the base node has none of    *)
(* the buttons.                                                            *)
(***************************************************************************)
EXTENDS Integers, Sequences, FiniteSets, SequencesExt

CONSTANT DtMaxClicks   (* bound: clicks and calls of the page               *)

ASSUME DtAssumption == DtMaxClicks \in Nat

VARIABLE dt
(* dt.config; dt.nodes: aNodes as added; dt.loaded: toString() has run;      *)
(* dt.hc: the nodes with children; dt.p: the parents of the nodes that are on *)
(* the page (0 above the base);                                             *)
(* dt.io: the nodes that are open (_io); dt.display: the folders whose        *)
(* children are displayed; dt.minus: those whose join icon says minus;       *)
(* dt.selected: selectedNode (0: none); dt.nodeSel: nodes drawn as selected;  *)
(* dt.co, dt.cs: the cookies, the ids of open nodes and the selected id;     *)
(* dt.clicks: how many so far; dt.unsaved: history, nodes openTo() opened    *)
(* since dt.co was set; dt.cleared: history, nor was it since it was cleared; *)
(* dt.last: history, the node o() was last called for, until nodes are opened *)
(* otherwise                                                               *)

DtRoot == -1

\* new Node(): id, parent id, open when added, has a link.
DtNode(id, pid, open, url) == [id |-> id, pid |-> pid, open |-> open, url |-> url]

\* Two lists: one with an open node and an id given twice as in Menu.html, one
\* whose folder has the id 0.
DtLists ==
  {<<DtNode(9, DtRoot, FALSE, FALSE),
     DtNode(1, 9, TRUE, TRUE), DtNode(11, 1, FALSE, TRUE),
     DtNode(2, 9, FALSE, FALSE), DtNode(21, 2, FALSE, TRUE), DtNode(211, 21, FALSE, TRUE),
     DtNode(51, 2, FALSE, TRUE), DtNode(51, 2, FALSE, TRUE), DtNode(52, 2, FALSE, TRUE)>>,
   <<DtNode(8, DtRoot, FALSE, TRUE),
     DtNode(0, 8, FALSE, TRUE), DtNode(3, 0, FALSE, TRUE), DtNode(31, 3, FALSE, TRUE),
     DtNode(4, 8, FALSE, TRUE), DtNode(41, 4, FALSE, FALSE)>>}

DtNodes(s) == DOMAIN s.nodes

\* setCS(): has children; is the last of its siblings, or has the last one's id.
DtSiblings(s, n) == {m \in DtNodes(s) : s.nodes[m].pid = s.nodes[n].pid}
DtHasKids(s, n)  == \E m \in DtNodes(s) : s.nodes[m].pid = s.nodes[n].id
DtIsLast(s, n)   ==
  \E m \in DtSiblings(s, n) : /\ s.nodes[m].id = s.nodes[n].id
                              /\ \A k \in DtSiblings(s, n) : k <= m

DtBase(s, n)   == s.nodes[n].pid = DtRoot
DtFolder(s, n) == n \in s.hc /\ ~DtBase(s, n)

\* addNode(): the nodes it comes to from the root; it leaves a level after the
\* node it takes for the last.
DtReached(s, n, above) ==
  /\ DtBase(s, n) \/ \E m \in above : s.nodes[n].pid = s.nodes[m].id
  /\ ~\E m \in DtSiblings(s, n) : m < n /\ DtIsLast(s, m)
DtAddNodes(s) ==
  LET R == FoldLeft(LAMBDA S, i : {n \in DtNodes(s) : DtReached(s, n, S)}, {},
                    [i \in DtNodes(s) |-> i])
  IN [s EXCEPT !.hc = {n \in DtNodes(s) : DtHasKids(s, n)},
               !.p  = [n \in R |-> IF DtBase(s, n) THEN 0
                                   ELSE CHOOSE m \in R : s.nodes[m].id = s.nodes[n].pid]]
DtRendered(s) == DOMAIN s.p

\* node(): with no link for a folder when folderLinks is off.
DtLink(s, n) == s.nodes[n].url /\ (s.config.folderLinks \/ n \notin s.hc)

-----------------------------------------------------------------------------
(* Cookies.                                                                *)

DtNoId == -2

\* Faulty: a closed node stays in the cookie.
DtUpdateCookieAdds(s) ==
  IF ~s.config.useCookies THEN s
  ELSE [s EXCEPT !.co = @ \cup {s.nodes[n].id : n \in {m \in s.io : ~DtBase(s, m)}},
                 !.unsaved = {}, !.cleared = FALSE]

\* The ids of the nodes that are open, the base left out.
DtUpdateCookie(s) ==
  IF ~s.config.useCookies THEN s
  ELSE [s EXCEPT !.co = {s.nodes[n].id : n \in {m \in s.io : ~DtBase(s, m)}},
                 !.unsaved = {}, !.cleared = FALSE]

\* isOpen(): an empty cookie splits into one empty string, which equals 0.
DtIsOpen(s, id) == id \in s.co \/ (s.co = {} /\ id = 0)

DtClearCookie(s) == [s EXCEPT !.co = {}, !.cs = DtNoId, !.cleared = TRUE]

-----------------------------------------------------------------------------
(* The page.                                                               *)

\* toString(): what is open and selected, of the list and of the cookies; the
\* first node with the id of the cookie is selected.
DtToString(t) ==
  LET s    == DtAddNodes(t)
      R    == DtRendered(s)
      io   == {n \in DtNodes(s) :
                 s.nodes[n].open \/ (n \in R /\ s.config.useCookies /\ n \in s.hc
                                       /\ DtIsOpen(s, s.nodes[n].id))}
      same == {n \in R : s.config.useCookies /\ s.nodes[n].id = s.cs}
      sel  == IF same = {} THEN 0 ELSE CHOOSE n \in same : \A m \in same : n <= m
      open == {n \in io \cap R : DtFolder(s, n)}
  IN [s EXCEPT !.loaded = TRUE, !.io = io, !.display = open, !.minus = open,
               !.selected = sel, !.nodeSel = {n \in {sel} \cap R : DtLink(s, n)},
               !.unsaved = {}, !.cleared = FALSE, !.last = 0]

\* nodeStatus(): a folder is displayed as open or as closed.
DtNodeStatus(s, N, status) ==
  [s EXCEPT !.display = IF status THEN @ \cup N ELSE @ \ N,
            !.minus   = IF status THEN @ \cup N ELSE @ \ N]
DtSetOpen(s, N, status) ==
  [DtNodeStatus(s, N, status) EXCEPT !.io = IF status THEN @ \cup N ELSE @ \ N]

\* s(): not for a folder without link.
DtSelect(s, n) ==
  IF (n \in s.hc /\ ~s.config.folderLinks) \/ s.selected = n THEN s
  ELSE [s EXCEPT !.nodeSel = (@ \ {s.selected}) \cup {n}, !.selected = n,
                 !.cs = IF s.config.useCookies THEN s.nodes[n].id ELSE @]

\* closeAllChildren(): the folders below a node, level by level.
DtBelow(s, N) ==
  FoldLeft(LAMBDA S, i : S \cup {m \in DtNodes(s) :
             m \in s.hc /\ \E n \in S : s.nodes[m].pid = s.nodes[n].id},
           N, [i \in DtNodes(s) |-> i])

\* closeLevel(): the folders beside a node and all below them.
DtCloseLevel(s, n) ==
  LET beside == {m \in DtSiblings(s, n) : s.nodes[m].id # s.nodes[n].id /\ m \in s.hc}
  IN DtSetOpen(s, DtBelow(s, beside), FALSE)

\* o()
DtToggle(s, n) ==
  LET toggled == DtSetOpen(s, {n}, n \notin s.io)
  IN [DtUpdateCookie(IF s.config.closeSameLevel THEN DtCloseLevel(toggled, n) ELSE toggled)
        EXCEPT !.last = n]

\* oAll()
DtAll(s, status) ==
  [DtUpdateCookie(DtSetOpen(s, {n \in DtRendered(s) : DtFolder(s, n)}, status))
     EXCEPT !.last = 0]

\* openTo(): the node and all above it up to the base; it does not set the cookie of
\* what is open.
DtPath(s, n) ==
  FoldLeft(LAMBDA S, i : S \cup {s.p[m] : m \in {k \in S : ~DtBase(s, k)}},
           {n}, [i \in DtNodes(s) |-> i])
DtOpenTo(s, n, select) ==
  LET path   == {m \in DtPath(s, n) : ~DtBase(s, m)}
      opened == [DtNodeStatus(s, path \cap s.hc, TRUE)
                   EXCEPT !.io = @ \cup path, !.unsaved = @ \cup (path \ s.io), !.last = 0]
  IN IF DtBase(s, n) THEN s
     ELSE IF select THEN DtSelect(opened, n) ELSE opened

-----------------------------------------------------------------------------
(* What the reader and the page do.                                        *)

DtInit ==
  \E L \in DtLists, links \in BOOLEAN, one \in BOOLEAN, cookies \in BOOLEAN :
    dt = [config |-> [folderLinks |-> links, closeSameLevel |-> one, useCookies |-> cookies],
          nodes |-> L, hc |-> {}, p |-> <<>>, loaded |-> FALSE, io |-> {}, display |-> {}, minus |-> {},
          selected |-> 0, nodeSel |-> {}, co |-> {}, cs |-> DtNoId,
          clicks |-> 0, unsaved |-> {}, cleared |-> FALSE, last |-> 0]

\* The page is loaded, for the first time or again.
DtLoad == dt' = DtToString(dt)

\* A node is seen when all the folders above it are displayed.
DtSeen(s, n) == \A m \in DtPath(s, n) \ {n} : DtBase(s, m) \/ m \in s.display

DtAct(next) == /\ dt.loaded /\ dt.clicks < DtMaxClicks
               /\ dt' = [next EXCEPT !.clicks = @ + 1]

DtClickJoin ==
  \E n \in DtRendered(dt) :
    DtFolder(dt, n) /\ DtSeen(dt, n) /\ DtAct(DtToggle(dt, n))

DtClickLink ==
  \E n \in DtRendered(dt) :
    DtLink(dt, n) /\ DtSeen(dt, n) /\ DtAct(DtSelect(dt, n))

DtOpenCloseAll == \E status \in BOOLEAN : DtAct(DtAll(dt, status))

DtPageOpensTo ==
  \E n \in DtRendered(dt), select \in BOOLEAN :
    (select => DtLink(dt, n)) /\ DtAct(DtOpenTo(dt, n, select))

DtPageClears == DtAct(DtClearCookie(dt))

DtNext == \/ DtLoad \/ DtClickJoin \/ DtClickLink \/ DtOpenCloseAll
          \/ DtPageOpensTo \/ DtPageClears

-----------------------------------------------------------------------------
(* Properties.                                                             *)

\* The page shows what the tree knows: a folder's children and its minus when it is
\* open, and no node as selected but the selected one.
DtShows ==
  dt.loaded =>
    /\ dt.display = {n \in DtRendered(dt) : DtFolder(dt, n) /\ n \in dt.io}
    /\ dt.minus = dt.display
    /\ dt.nodeSel \subseteq {dt.selected}

\* With closeSameLevel a click leaves no other folder open on its level, and none
\* below those it closed.
DtOneOpen ==
  dt.config.closeSameLevel /\ dt.last # 0 =>
    \A n \in DtSiblings(dt, dt.last) \ {dt.last} : DtBelow(dt, {n}) \cap dt.display = {}

\* The page loaded again, as long as its cookies are there, shows what it shows now:
\* the same id is selected (not the same node, where an id was given twice), and the
\* same folders are open, except that those added open are open again, those openTo()
\* opened since are closed, and one with the id 0 is open when none was.
DtRemembers ==
  dt.loaded /\ dt.config.useCookies =>
    LET again == DtToString(dt)
        IdOf(s) == IF s.selected = 0 THEN DtNoId ELSE s.nodes[s.selected].id
        Odd(n) == \/ dt.nodes[n].open \/ n \in dt.unsaved
                  \/ dt.nodes[n].id = 0 /\ dt.co = {}
    IN /\ dt.cs # DtNoId => IdOf(again) = IdOf(dt)
       /\ ~dt.cleared => \A n \in DtRendered(dt) :
            (n \in dt.display) # (n \in again.display) => Odd(n)

DtMenu == DtShows /\ DtOneOpen /\ DtRemembers
================================================================================
