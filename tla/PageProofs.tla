------------------------------ MODULE PageProofs ------------------------------
(***************************************************************************)
(* Programs that MCPages runs side by side, for every bound: the PID-file  *)
(* daemon, the trumpet page, Dojo's animations, the light box, the leecher *)
(* with the invariant of LeecherProofs, and widgets, effects, events and   *)
(* requests with those of WidgetProofs.  A program is on its own, as no    *)
(* step changes the page; each has an invariant whose preservation is one  *)
(* lemma per action.                                                       *)
(***************************************************************************)
EXTENDS MCPages, LeecherProofs, WidgetProofs

-----------------------------------------------------------------------------
(* The pages run apart from each other.                                     *)

pages == <<page, fx, lb, ns, im, aj, dr, ac, ti, gr, dc, xh, df, ld, dq, gn,
           dt, tp, le, dm>>

\* A step of the daemon's page is one of the daemon, and no step changes pages.
LEMMA DmPage ==
  ASSUME [Next]_pages
  PROVE  /\ page' = "daemon" => page = "daemon"
         /\ page = "daemon" => DmNext \/ UNCHANGED dm
BY DEF Next, pages, PgFxStep, PgLbStep, PgNsStep, PgImStep, PgAjStep, PgDrStep,
       PgAcStep, PgTiStep, PgGrStep, PgDcStep, PgXhStep, PgDfStep, PgLdStep,
       PgDqStep, PgGnStep, PgDtStep, PgTpStep, PgLeStep, PgDmStep

-----------------------------------------------------------------------------
(* The PID-file daemon.                                                     *)

DmSteps == {"none", "checked", "forked", "opened", "running", "gone", "killed"}

DmTypes ==
  dm \in [file : {DmAbsent, DmEmpty} \cup DmAll, inode : Nat,
          opened : [DmAll -> Nat], at : [DmAll -> DmSteps],
          taken : SUBSET DmAll, raced : BOOLEAN, wrong : BOOLEAN]

\* Between its look at the file and its fputs().
DmBusy(n) == dm.at[n] \in {"checked", "forked", "opened"}

\* Without a race there is one start under way, or one daemon, whose id is in the
\* file; the file that a start has opened is still there.
DmAlone ==
  ~ dm.raced =>
    /\ \A m, n \in DmAll : DmBusy(m) /\ DmBusy(n) => m = n
    /\ \A m, n \in DmAll : dm.at[m] = "running" => ~ DmBusy(n)
    /\ \A n \in DmAll : dm.at[n] = "running" => dm.file = n
    /\ \A n \in DmAll : dm.at[n] = "opened" => dm.opened[n] = dm.inode

\* An id in the file is that of a daemon that has not been stopped; an empty file
\* is that of a start that will write to it, unless somebody was killed.
DmFileInv ==
  /\ dm.file \in DmAll => dm.at[dm.file] \in {"running", "killed"}
  /\ dm.file = DmEmpty =>
       \E n \in DmAll : \/ dm.at[n] = "killed"
                        \/ dm.at[n] = "opened" /\ dm.opened[n] = dm.inode

DmInv == DmTypes /\ DmAlone /\ DmFileInv /\ ~ dm.wrong

\* start() up to the check: it is refused only while somebody lives or was
\* killed, and goes on only when nobody runs.
LEMMA DmCheckStep ==
  ASSUME DmInv, NEW n \in DmAll, DmCheck(n)
  PROVE  DmInv'
<1> USE DmAssumption DEF DmTypes, DmAll, DmAbsent, DmEmpty
<1>1. DmTypes /\ DmAlone /\ DmFileInv /\ ~ dm.wrong /\ dm.at[n] = "none"
  BY DEF DmInv, DmCheck
<1>2. PICK yes \in DmIsDaemonRunning(dm) :
        dm' = IF yes
              THEN [DmReleaseDaemon(dm, n, FALSE) EXCEPT
                      !.wrong = @ \/ \A m \in DmAll : /\ ~ DmLives(dm, m)
                                                      /\ dm.at[m] # "killed"]
              ELSE [dm EXCEPT !.at[n] = "checked",
                      !.raced = @ \/ \E m \in DmAll : DmBusy(m)]
  BY DEF DmCheck, DmBusy
<1>3. CASE yes
  <2>1. \E m \in DmAll : DmLives(dm, m) \/ dm.at[m] = "killed"
    BY <1>1, <1>2, <1>3
    DEF DmIsDaemonRunning, DmFileInv, DmLives, DmAbsent, DmEmpty
  <2>2. dm' = [dm EXCEPT !.at = [dm.at EXCEPT ![n] = "gone"]]
    BY <1>1, <1>2, <1>3, <2>1 DEF DmReleaseDaemon
  <2>3. /\ dm'.at = [dm.at EXCEPT ![n] = "gone"] /\ dm'.file = dm.file
        /\ dm'.inode = dm.inode /\ dm'.opened = dm.opened
        /\ dm'.raced = dm.raced /\ dm'.wrong = dm.wrong
    BY <1>1, <2>2
  <2>4. DmTypes'
    BY <1>1, <2>2 DEF DmSteps
  <2>5. DmAlone'
    BY <1>1, <2>3, SMTT(30) DEF DmAlone, DmBusy
  <2>6. DmFileInv'
    BY <1>1, <2>3, ZenonT(40) DEF DmFileInv
  <2> QED
    BY <1>1, <2>3, <2>4, <2>5, <2>6 DEF DmInv
<1>4. CASE ~ yes
  <2>1. ~ dm.raced => \A m \in DmAll : dm.at[m] # "running"
    <3> SUFFICES ASSUME ~ dm.raced, NEW m \in DmAll, dm.at[m] = "running"
                 PROVE  FALSE
      OBVIOUS
    <3>1. dm.file = m
      BY <1>1 DEF DmAlone
    <3>2. DmLives(dm, m)
      BY DEF DmLives
    <3>3. dm.file # DmAbsent /\ dm.file # DmEmpty
      BY <3>1
    <3>4. DmIsDaemonRunning(dm)
            = {DmLives(dm, dm.file) \/ dm.file \in dm.taken}
      BY <3>3, Zenon DEF DmIsDaemonRunning
    <3> QED
      BY <1>2, <1>4, <3>1, <3>2, <3>4
  <2>2. dm' = [dm EXCEPT !.at = [dm.at EXCEPT ![n] = "checked"],
                         !.raced = dm.raced \/ \E m \in DmAll : DmBusy(m)]
    BY <1>1, <1>2, <1>4
  <2>3. /\ dm'.at = [dm.at EXCEPT ![n] = "checked"] /\ dm'.file = dm.file
        /\ dm'.inode = dm.inode /\ dm'.opened = dm.opened
        /\ dm'.wrong = dm.wrong
        /\ ~ dm'.raced => ~ dm.raced /\ \A m \in DmAll : ~ DmBusy(m)
    BY <1>1, <2>2
  <2>4. DmTypes'
    BY <1>1, <2>2 DEF DmSteps
  <2>5. DmAlone'
    BY <1>1, <2>1, <2>3, SMTT(30) DEF DmAlone, DmBusy
  <2>6. DmFileInv'
    BY <1>1, <2>3 DEF DmFileInv
  <2> QED
    BY <1>1, <2>3, <2>4, <2>5, <2>6 DEF DmInv
<1> QED
  BY <1>3, <1>4

\* What only moves a start that is not a daemon to where it is gone or waits for
\* its fopen().
LEMMA DmForkStep ==
  ASSUME DmInv, NEW n \in DmAll, DmFork(n)
  PROVE  DmInv'
<1> USE DmAssumption DEF DmTypes, DmAll, DmAbsent, DmEmpty
<1>1. DmTypes /\ DmAlone /\ DmFileInv /\ ~ dm.wrong /\ dm.at[n] = "checked"
  BY DEF DmInv, DmFork
<1>2. PICK to \in {"forked", "gone"} :
        dm' = [dm EXCEPT !.at = [dm.at EXCEPT ![n] = to]]
  BY <1>1 DEF DmFork, DmReleaseDaemon
<1>3. /\ dm'.at = [dm.at EXCEPT ![n] = to] /\ dm'.file = dm.file
      /\ dm'.inode = dm.inode /\ dm'.opened = dm.opened
      /\ dm'.raced = dm.raced /\ dm'.wrong = dm.wrong
  BY <1>1, <1>2
<1>4. DmTypes'
  BY <1>1, <1>2 DEF DmSteps
<1>5. DmAlone'
  BY <1>1, <1>3, SMTT(30) DEF DmAlone, DmBusy
<1>6. DmFileInv'
  BY <1>1, <1>3, ZenonT(40) DEF DmFileInv
<1> QED
  BY <1>1, <1>3, <1>4, <1>5, <1>6 DEF DmInv

\* What releaseDaemon() does in a child: the file is gone, whoever wrote it.
DmReleased(n) ==
  \E i \in Nat :
    dm' = [file |-> DmAbsent, inode |-> i, opened |-> dm.opened,
           at |-> [dm.at EXCEPT ![n] = "gone"], taken |-> dm.taken,
           raced |-> dm.raced, wrong |-> dm.wrong]

\* releaseDaemon() in a child does this, whether its file is there or not.
LEMMA DmReleaseEffect ==
  ASSUME DmTypes, NEW n \in DmAll, dm' = DmReleaseDaemon(dm, n, TRUE)
  PROVE  DmReleased(n)
<1> USE DmAssumption DEF DmTypes, DmAll, DmAbsent, DmEmpty
<1>1. CASE dm.file = DmAbsent
  <2>1. dm' = [dm EXCEPT !.at = [dm.at EXCEPT ![n] = "gone"]]
    BY <1>1 DEF DmReleaseDaemon, DmUnlink
  <2> QED
    BY <1>1, <2>1 DEF DmReleased
<1>2. CASE dm.file # DmAbsent
  <2>1. dm' = [dm EXCEPT !.file = DmAbsent, !.inode = dm.inode + 1,
                         !.at = [dm.at EXCEPT ![n] = "gone"]]
    BY <1>2 DEF DmReleaseDaemon, DmUnlink
  <2>2. dm.inode + 1 \in Nat
    OBVIOUS
  <2> QED
    BY <2>1, <2>2 DEF DmReleased
<1> QED
  BY <1>1, <1>2

\* A child or a daemon that ends by itself.
LEMMA DmEndStep ==
  ASSUME DmInv, NEW n \in DmAll, dm.at[n] \in {"forked", "running"},
         DmReleased(n)
  PROVE  DmInv'
<1> USE DmAssumption DEF DmTypes, DmAll, DmAbsent, DmEmpty
<1>1. DmTypes /\ DmAlone /\ DmFileInv /\ ~ dm.wrong
  BY DEF DmInv
<1>2. PICK i \in Nat :
        dm' = [file |-> DmAbsent, inode |-> i, opened |-> dm.opened,
               at |-> [dm.at EXCEPT ![n] = "gone"], taken |-> dm.taken,
               raced |-> dm.raced, wrong |-> dm.wrong]
  BY DEF DmReleased
<1>3. /\ dm'.at = [dm.at EXCEPT ![n] = "gone"] /\ dm'.file = DmAbsent
      /\ dm'.opened = dm.opened /\ dm'.raced = dm.raced /\ dm'.wrong = dm.wrong
  BY <1>1, <1>2
<1>4. DmTypes'
  BY <1>1, <1>2 DEF DmSteps
<1>5. DmAlone'
  <2>1. ~ dm.raced => \A m \in DmAll \ {n} : ~ DmBusy(m) /\ dm.at[m] # "running"
    BY <1>1 DEF DmAlone, DmBusy
  <2> QED
    BY <1>1, <1>3, <2>1, SMTT(30) DEF DmAlone, DmBusy
<1>6. DmFileInv'
  BY <1>1, <1>3 DEF DmFileInv, DmAll, DmAbsent, DmEmpty
<1> QED
  BY <1>1, <1>3, <1>4, <1>5, <1>6 DEF DmInv

\* fopen() empties the file, or makes it.
LEMMA DmOpenStep ==
  ASSUME DmInv, NEW n \in DmAll, DmOpen(n)
  PROVE  DmInv'
<1> USE DmAssumption DEF DmTypes, DmAll, DmAbsent, DmEmpty
<1>1. DmTypes /\ DmAlone /\ DmFileInv /\ ~ dm.wrong /\ dm.at[n] = "forked"
  BY DEF DmInv, DmOpen
<1>2. CASE dm' = [dm EXCEPT !.file = DmEmpty, !.opened[n] = dm.inode,
                            !.at[n] = "opened"]
  <2>1. /\ dm'.at = [dm.at EXCEPT ![n] = "opened"] /\ dm'.file = DmEmpty
        /\ dm'.opened = [dm.opened EXCEPT ![n] = dm.inode]
        /\ dm'.inode = dm.inode /\ dm'.raced = dm.raced
        /\ dm'.wrong = dm.wrong
    BY <1>1, <1>2
  <2>2. DmTypes'
    BY <1>1, <1>2 DEF DmSteps
  <2>3. DmAlone'
    BY <1>1, <2>1, SMTT(30) DEF DmAlone, DmBusy
  <2>4. DmFileInv'
    BY <1>1, <2>1 DEF DmFileInv, DmAll, DmEmpty
  <2> QED
    BY <1>1, <2>1, <2>2, <2>3, <2>4 DEF DmInv
<1> QED
  BY <1>1, <1>2, DmReleaseEffect, DmEndStep DEF DmOpen

\* fputs() makes the start a daemon, and names it unless the file is another's.
LEMMA DmPutStep ==
  ASSUME DmInv, NEW n \in DmAll, DmPut(n)
  PROVE  DmInv'
<1> USE DmAssumption DEF DmTypes, DmAll, DmAbsent, DmEmpty
<1>1. DmTypes /\ DmAlone /\ DmFileInv /\ ~ dm.wrong /\ dm.at[n] = "opened"
  BY DEF DmInv, DmPut
<1>2. dm' = [dm EXCEPT
               !.file = IF dm.opened[n] = dm.inode THEN n ELSE dm.file,
               !.opened = [dm.opened EXCEPT ![n] = 0],
               !.at = [dm.at EXCEPT ![n] = "running"]]
  BY <1>1 DEF DmPut
<1>3. /\ dm'.at = [dm.at EXCEPT ![n] = "running"]
      /\ dm'.file = IF dm.opened[n] = dm.inode THEN n ELSE dm.file
      /\ dm'.opened = [dm.opened EXCEPT ![n] = 0]
      /\ dm'.inode = dm.inode /\ dm'.raced = dm.raced /\ dm'.wrong = dm.wrong
  BY <1>1, <1>2
<1>4. DmTypes'
  BY <1>1, <1>2 DEF DmSteps
<1>5. DmAlone'
  <2>1. ~ dm.raced => \A m \in DmAll \ {n} : ~ DmBusy(m) /\ dm.at[m] # "running"
    BY <1>1 DEF DmAlone, DmBusy
  <2> QED
    BY <1>1, <1>3, <2>1 DEF DmAlone, DmBusy
<1>6. DmFileInv'
  <2>1. CASE dm.opened[n] = dm.inode
    BY <1>1, <1>3, <2>1 DEF DmFileInv
  <2>2. CASE dm.opened[n] # dm.inode
    BY <1>1, <1>3, <2>2 DEF DmFileInv
  <2> QED
    BY <2>1, <2>2
<1> QED
  BY <1>1, <1>3, <1>4, <1>5, <1>6 DEF DmInv

\* A kill leaves the file as it is.
LEMMA DmKillStep ==
  ASSUME DmInv, NEW n \in DmAll, DmKill(n)
  PROVE  DmInv'
<1> USE DmAssumption DEF DmTypes, DmAll, DmAbsent, DmEmpty
<1>1. DmTypes /\ DmAlone /\ DmFileInv /\ ~ dm.wrong /\ DmLives(dm, n)
  BY DEF DmInv, DmKill
<1>2. dm' = [dm EXCEPT !.at = [dm.at EXCEPT ![n] = "killed"]]
  BY <1>1 DEF DmKill
<1>3. /\ dm'.at = [dm.at EXCEPT ![n] = "killed"] /\ dm'.file = dm.file
      /\ dm'.inode = dm.inode /\ dm'.opened = dm.opened
      /\ dm'.raced = dm.raced /\ dm'.wrong = dm.wrong
  BY <1>1, <1>2
<1>4. DmTypes'
  BY <1>1, <1>2 DEF DmSteps
<1>5. DmAlone'
  BY <1>1, <1>3, SMTT(30) DEF DmAlone, DmBusy
<1>6. DmFileInv'
  BY <1>1, <1>3, ZenonT(40) DEF DmFileInv
<1> QED
  BY <1>1, <1>3, <1>4, <1>5, <1>6 DEF DmInv

\* An id that is given to another process.
LEMMA DmTakenStep ==
  ASSUME DmInv, NEW n \in DmAll, DmTaken(n)
  PROVE  DmInv'
<1> USE DmAssumption DEF DmTypes, DmAll, DmAbsent, DmEmpty
<1>1. DmTypes /\ DmAlone /\ DmFileInv /\ ~ dm.wrong
  BY DEF DmInv
<1>2. PICK t \in SUBSET DmAll : dm' = [dm EXCEPT !.taken = t]
  BY <1>1 DEF DmTaken
<1>3. /\ dm'.at = dm.at /\ dm'.file = dm.file /\ dm'.inode = dm.inode
      /\ dm'.opened = dm.opened /\ dm'.raced = dm.raced
      /\ dm'.wrong = dm.wrong
  BY <1>1, <1>2
<1>4. DmTypes'
  BY <1>1, <1>2
<1> QED
  BY <1>1, <1>3, <1>4 DEF DmInv, DmAlone, DmBusy, DmFileInv

\* The invariant says what is promised.
LEMMA DmInvGuarded == DmInv => DmGuarded
<1> SUFFICES ASSUME DmInv PROVE DmGuarded
  OBVIOUS
<1>1. DmTypes /\ DmAlone /\ ~ dm.wrong
  BY DEF DmInv
<1>2. ASSUME ~ dm.raced PROVE ~ (Cardinality(DmRunning(dm)) > 1)
  <2>1. \A m, n \in DmRunning(dm) : m = n
    BY <1>1, <1>2 DEF DmAlone, DmRunning
  <2>2. CASE DmRunning(dm) = {}
    BY <2>2, FS_EmptySet
  <2>3. ASSUME NEW n \in DmRunning(dm) PROVE Cardinality(DmRunning(dm)) = 1
    <3>1. DmRunning(dm) = {n}
      BY <2>1, <2>3
    <3> QED
      BY <3>1, FS_Singleton
  <2> QED
    BY <2>2, <2>3
<1>3. DmOneDaemon /\ DmRefused
  BY <1>1, <1>2 DEF DmOneDaemon, DmRefused
<1>4. DmFileNames
  BY <1>1 DEF DmFileNames, DmAlone, DmRunning
<1> QED
  BY <1>3, <1>4 DEF DmGuarded

\* One daemon runs and its id is in its file, unless a start looked at the file
\* while another was between its own look and its fputs(); nobody is refused for
\* no daemon unless one was killed.  For every number of starts.
THEOREM OneDaemonRuns == Spec => []PageDm
<1>1. Init => (page = "daemon" => DmInv)
  <2> SUFFICES ASSUME Init, page = "daemon" PROVE DmInv
    OBVIOUS
  <2>1. dm = [file |-> DmAbsent, inode |-> 0, opened |-> [n \in DmAll |-> 0],
              at |-> [n \in DmAll |-> "none"], taken |-> {}, raced |-> FALSE,
              wrong |-> FALSE]
    BY DEF Init, DmInit
  <2> QED
    BY <2>1 DEF DmInv, DmTypes, DmAlone, DmFileInv, DmBusy, DmSteps, DmAll,
                DmAbsent, DmEmpty
<1>2. (page = "daemon" => DmInv) /\ [Next]_pages => (page = "daemon" => DmInv)'
  <2> SUFFICES ASSUME page = "daemon" => DmInv, [Next]_pages, page' = "daemon"
               PROVE  DmInv'
    OBVIOUS
  <2>1. DmInv /\ (DmNext \/ UNCHANGED dm)
    BY DmPage
  <2>2. CASE UNCHANGED dm
    BY <2>1, <2>2 DEF DmInv, DmTypes, DmAlone, DmFileInv, DmBusy
  <2>3. CASE DmNext
    <3>1. ASSUME NEW n \in DmAll, DmStop(n) PROVE DmInv'
      BY <2>1, <3>1, DmReleaseEffect, DmEndStep DEF DmInv, DmStop
    <3> QED
      BY <2>1, <2>3, <3>1, DmCheckStep, DmForkStep, DmOpenStep, DmPutStep,
         DmKillStep, DmTakenStep DEF DmNext
  <2> QED
    BY <2>1, <2>2, <2>3
<1> QED
  BY <1>1, <1>2, DmInvGuarded, PTL DEF Spec, PageDm, pages

-----------------------------------------------------------------------------
(* The page of a shout.                                                     *)

\* A step of the trumpet page is one of the trumpet, and no step changes pages.
LEMMA TpPage ==
  ASSUME [Next]_pages
  PROVE  /\ page' = "trumpet" => page = "trumpet"
         /\ page = "trumpet" => TpNext \/ UNCHANGED tp
BY DEF Next, pages, PgFxStep, PgLbStep, PgNsStep, PgImStep, PgAjStep, PgDrStep,
       PgAcStep, PgTiStep, PgGrStep, PgDcStep, PgXhStep, PgDfStep, PgLdStep,
       PgDqStep, PgGnStep, PgDtStep, PgTpStep, PgLeStep, PgDmStep

\* The fields of the page.
TpIsPage(s) ==
  DOMAIN s = {"level", "button", "place", "circle", "shoutTo", "field", "geo",
              "loads", "posts", "list", "clicks", "asked", "posted", "last",
              "clicked", "typed", "cut", "unmarked", "late", "lost"}

\* Every address asked for has a number of its own; while none was overtaken or
\* lost, the one asked for last is still under way or is the place.
TpGeoInv(s) ==
  /\ s.clicks \in Nat /\ s.place \in 0 .. 4
  /\ \A g \in s.geo : g[1] \in 1 .. s.clicks /\ g[2] \in 1 .. 4
  /\ \A g, h \in s.geo : g[1] = h[1] => g = h
  /\ ~ s.lost => \/ s.geo = {} /\ s.place = s.clicked
                 \/ \E g \in s.geo : /\ g[2] = s.clicked
                                     /\ \A h \in s.geo : h[1] <= g[1]

\* The same of the lists.
TpLoadsInv(s) ==
  /\ s.asked \in Nat
  /\ \A a \in s.loads : a[1] \in 1 .. s.asked
  /\ \A a, b \in s.loads : a[1] = b[1] => a = b
  /\ \A a \in s.loads : a[1] = s.asked => <<a[2], a[3]>> = s.last
  /\ ~ s.late => \/ s.loads = {} /\ s.list = s.last
                 \/ \E a \in s.loads : a[1] = s.asked

TpInv == TpIsPage(tp) /\ TpAgrees /\ TpGeoInv(tp) /\ TpLoadsInv(tp)

\* What load() leaves alone, and what it adds.
TpAsked(s, t) ==
  \E r, k : /\ t.asked = s.asked + 1 /\ t.last = <<r, k>>
            /\ t.loads = s.loads \cup {<<s.asked + 1, r, k>>}

TpNotAsked(s, t) == t.asked = s.asked /\ t.last = s.last /\ t.loads = s.loads

\* A list asked for is the newest.
LEMMA TpLoadsKept ==
  ASSUME NEW s, NEW t, TpLoadsInv(s), TpAsked(s, t) \/ TpNotAsked(s, t),
         t.late = s.late, t.list = s.list
  PROVE  TpLoadsInv(t)
<1>1. CASE TpNotAsked(s, t)
  BY <1>1 DEF TpLoadsInv, TpNotAsked
<1>2. CASE TpAsked(s, t)
  <2>1. PICK r, k : /\ t.asked = s.asked + 1 /\ t.last = <<r, k>>
                    /\ t.loads = s.loads \cup {<<s.asked + 1, r, k>>}
    BY <1>2 DEF TpAsked
  <2>2. PICK a : /\ a \in t.loads /\ a[1] = t.asked
                 /\ <<a[2], a[3]>> = t.last /\ t.loads = s.loads \cup {a}
    BY <2>1
  <2>3. /\ s.asked \in Nat /\ t.asked = s.asked + 1
        /\ \A b, c \in s.loads : b[1] = c[1] => b = c
        /\ \A b \in s.loads : b[1] \in 1 .. s.asked
    BY <2>1 DEF TpLoadsInv
  <2> QED
    BY <2>2, <2>3 DEF TpLoadsInv
<1> QED
  BY <1>1, <1>2

\* What neither _parsePlace() nor getRegionName() touches.
TpUntouched(s, t) ==
  /\ t.level = s.level /\ t.button = s.button
  /\ t.geo = s.geo /\ t.clicks = s.clicks /\ t.clicked = s.clicked
  /\ t.late = s.late /\ t.list = s.list
  /\ t.lost = s.lost /\ t.unmarked = s.unmarked

\* _parsePlace() draws the circle and names the regions; the field and the list
\* follow them when nothing throws.
LEMMA TpParsed ==
  ASSUME NEW s, TpIsPage(s), NEW t, t = TpParsePlace(s)
  PROVE  /\ TpIsPage(t) /\ TpUntouched(s, t) /\ t.place = s.place
         /\ t.circle = <<s.place, s.level>>
         /\ t.shoutTo = TpRegions(TpPlaces[s.place], s.level)
         /\ ~ t.cut => t.field = t.shoutTo
         /\ TpAsked(s, t) \/ TpNotAsked(s, t)
<1> DEFINE throws == TpThrows(TpPlaces[s.place], s.level)
           words  == TpRegions(TpPlaces[s.place], s.level)
           circle == <<s.place, s.level>>
<1>1. CASE throws
  <2>1. t = [s EXCEPT !.circle = circle, !.shoutTo = words, !.cut = throws]
    BY <1>1 DEF TpParsePlace, TpDrawCircle
  <2> HIDE DEF words, circle, throws
  <2>2. TpIsPage(t) /\ TpNotAsked(s, t)
    BY <2>1 DEF TpIsPage, TpNotAsked
  <2>3. t.cut /\ t.circle = circle /\ t.shoutTo = words /\ t.place = s.place
    BY <1>1, <2>1 DEF TpIsPage
  <2>4. TpUntouched(s, t)
    BY <2>1 DEF TpIsPage, TpUntouched
  <2> QED
    BY <2>2, <2>3, <2>4 DEF words, circle
<1>2. CASE ~ throws
  <2>1. t = TpLoad([[s EXCEPT !.circle = circle, !.shoutTo = words, !.cut = throws]
                      EXCEPT !.field = words, !.typed = FALSE], words, 0)
    BY <1>2 DEF TpParsePlace, TpDrawCircle, TpIsPage
  <2> HIDE DEF words, circle, throws
  <2>2. TpIsPage(t)
    BY <2>1 DEF TpIsPage, TpLoad
  <2>3. /\ t.circle = circle /\ t.shoutTo = words /\ t.field = words
        /\ t.place = s.place
    BY <2>1 DEF TpIsPage, TpLoad
  <2>4. TpUntouched(s, t)
    BY <2>1 DEF TpIsPage, TpUntouched, TpLoad
  <2>5. /\ t.asked = s.asked + 1 /\ t.last = <<words, 0>>
        /\ t.loads = s.loads \cup {<<s.asked + 1, words, 0>>}
    BY <2>1 DEF TpIsPage, TpLoad
  <2>6. TpAsked(s, t)
    BY <2>5 DEF TpAsked
  <2> QED
    BY <2>2, <2>3, <2>4, <2>6 DEF words, circle
<1> QED
  BY <1>1, <1>2

\* getRegionName() does so when a place is known, and draws the circle when not.
LEMMA TpNamed ==
  ASSUME NEW s, TpIsPage(s), NEW p, NEW t, t = TpGetRegionName(s, p)
  PROVE  /\ TpIsPage(t) /\ TpUntouched(s, t)
         /\ t.place = (IF p # 0 THEN p ELSE s.place)
         /\ t.circle = <<t.place, t.level>>
         /\ t.place # 0 => /\ t.shoutTo = TpRegions(TpPlaces[t.place], t.level)
                           /\ ~ t.cut => t.field = t.shoutTo
         /\ TpAsked(s, t) \/ TpNotAsked(s, t)
<1>1. CASE p = 0 /\ s.place = 0
  <2>1. t = [s EXCEPT !.circle = <<s.place, s.level>>]
    BY <1>1 DEF TpGetRegionName, TpDrawCircle
  <2> QED
    BY <1>1, <2>1 DEF TpIsPage, TpUntouched, TpNotAsked
<1>2. CASE p = 0 /\ s.place # 0
  <2>1. t = TpParsePlace(s)
    BY <1>2 DEF TpGetRegionName
  <2> QED
    BY <1>2, <2>1, TpParsed DEF TpUntouched
<1>3. CASE p # 0
  <2>1. PICK u : u = [s EXCEPT !.place = p]
    OBVIOUS
  <2>2. /\ TpIsPage(u) /\ u.place = p /\ TpUntouched(s, u)
        /\ u.asked = s.asked /\ u.last = s.last /\ u.loads = s.loads
    BY <2>1 DEF TpIsPage, TpUntouched
  <2>3. t = TpParsePlace(u)
    BY <1>3, <2>1 DEF TpGetRegionName
  <2>4. /\ TpIsPage(t) /\ TpUntouched(u, t) /\ t.place = u.place
        /\ t.circle = <<u.place, u.level>>
        /\ t.shoutTo = TpRegions(TpPlaces[u.place], u.level)
        /\ ~ t.cut => t.field = t.shoutTo
        /\ TpAsked(u, t) \/ TpNotAsked(u, t)
    BY <2>2, <2>3, TpParsed
  <2>5. TpAsked(s, t) \/ TpNotAsked(s, t)
    BY <2>2, <2>4 DEF TpAsked, TpNotAsked
  <2> QED
    BY <1>3, <2>2, <2>4, <2>5 DEF TpUntouched
<1> QED
  BY <1>1, <1>2, <1>3

\* What circle, button and field depend on.
TpSameShout(s, t) ==
  /\ t.level = s.level /\ t.button = s.button /\ t.place = s.place
  /\ t.circle = s.circle /\ t.shoutTo = s.shoutTo /\ t.cut = s.cut
  /\ t.unmarked = s.unmarked

TpSameGeo(s, t) ==
  /\ t.clicks = s.clicks /\ t.geo = s.geo /\ t.clicked = s.clicked
  /\ t.lost = s.lost

\* A click on the map asks for the newest address.
LEMMA TpGetAddressStep ==
  ASSUME TpInv, TpGetAddress
  PROVE  TpInv'
<1>1. TpIsPage(tp) /\ TpAgrees /\ TpGeoInv(tp) /\ TpLoadsInv(tp)
  BY DEF TpInv
<1>2. PICK p \in 1 .. 4 :
        tp' = [tp EXCEPT !.clicks = tp.clicks + 1,
                         !.geo = tp.geo \cup {<<tp.clicks + 1, p>>}, !.clicked = p]
  <2>1. DOMAIN TpPlaces = 1 .. 4
    BY DEF TpPlaces
  <2> QED
    BY <2>1 DEF TpGetAddress
<1>3. /\ TpIsPage(tp') /\ TpSameShout(tp, tp') /\ TpNotAsked(tp, tp')
      /\ tp'.field = tp.field /\ tp'.typed = tp.typed
      /\ tp'.late = tp.late /\ tp'.list = tp.list
  BY <1>1, <1>2 DEF TpIsPage, TpSameShout, TpNotAsked
<1>4. TpAgrees'
  BY <1>1, <1>3 DEF TpAgrees, TpSameShout
<1>5. TpGeoInv(tp')
  <2> DEFINE g == <<tp.clicks + 1, p>>
  <2>1. g[1] = tp.clicks + 1 /\ g[2] = p
    OBVIOUS
  <2>2. /\ tp'.clicks = tp.clicks + 1 /\ tp'.geo = tp.geo \cup {g}
        /\ tp'.clicked = p /\ tp'.place = tp.place /\ tp'.lost = tp.lost
    BY <1>1, <1>2 DEF TpIsPage
  <2> HIDE DEF g
  <2> QED
    BY <1>1, <2>1, <2>2 DEF TpGeoInv
<1> QED
  BY <1>1, <1>3, <1>4, <1>5, TpLoadsKept DEF TpInv

\* The geocoder answers: with the place clicked last, or with that of an address
\* that was overtaken, or not at all.
LEMMA TpGeocodedStep ==
  ASSUME TpInv, TpGeocoded
  PROVE  TpInv'
<1>1. TpIsPage(tp) /\ TpAgrees /\ TpGeoInv(tp) /\ TpLoadsInv(tp)
  BY DEF TpInv
<1>2. PICK g \in tp.geo, ok \in BOOLEAN :
        tp' = [TpGetRegionName([tp EXCEPT !.geo = tp.geo \ {g}],
                               IF ok THEN g[2] ELSE 0)
                 EXCEPT !.lost = @ \/ ~ ok \/ \E h \in tp.geo : h[1] < g[1]]
  BY DEF TpGeocoded
<1>3. PICK s : s = [tp EXCEPT !.geo = tp.geo \ {g}]
  OBVIOUS
<1>4. /\ TpIsPage(s) /\ s.geo = tp.geo \ {g} /\ TpSameShout(tp, s)
      /\ TpNotAsked(tp, s) /\ s.late = tp.late /\ s.list = tp.list
      /\ s.clicks = tp.clicks /\ s.clicked = tp.clicked /\ s.lost = tp.lost
      /\ s.field = tp.field /\ s.typed = tp.typed
  BY <1>1, <1>3 DEF TpIsPage, TpSameShout, TpNotAsked
<1>5. PICK p, t : p = (IF ok THEN g[2] ELSE 0) /\ t = TpGetRegionName(s, p)
  OBVIOUS
<1>6. /\ TpIsPage(t) /\ TpUntouched(s, t)
      /\ t.place = (IF p # 0 THEN p ELSE s.place)
      /\ t.circle = <<t.place, t.level>>
      /\ t.place # 0 => /\ t.shoutTo = TpRegions(TpPlaces[t.place], t.level)
                        /\ ~ t.cut => t.field = t.shoutTo
      /\ TpAsked(s, t) \/ TpNotAsked(s, t)
  BY <1>4, <1>5, TpNamed
<1>7. tp' = [t EXCEPT !.lost = @ \/ ~ ok \/ \E h \in tp.geo : h[1] < g[1]]
  BY <1>2, <1>3, <1>5
<1>8. /\ TpIsPage(tp') /\ TpSameShout(t, tp') /\ TpNotAsked(t, tp')
      /\ tp'.field = t.field /\ tp'.typed = t.typed
      /\ tp'.late = t.late /\ tp'.list = t.list
      /\ tp'.geo = t.geo /\ tp'.clicks = t.clicks /\ tp'.clicked = t.clicked
      /\ ~ tp'.lost => ~ t.lost /\ ok /\ \A h \in tp.geo : ~ (h[1] < g[1])
  BY <1>6, <1>7 DEF TpIsPage, TpSameShout, TpNotAsked
<1>9. TpAgrees'
  BY <1>1, <1>4, <1>6, <1>8 DEF TpAgrees, TpSameShout, TpUntouched
<1>10. TpGeoInv(tp')
  <2>1. /\ tp'.geo = tp.geo \ {g} /\ tp'.clicks = tp.clicks
        /\ tp'.clicked = tp.clicked
        /\ tp'.place = (IF ok THEN g[2] ELSE tp.place)
        /\ ~ tp'.lost => ~ tp.lost /\ ok /\ \A h \in tp.geo : ~ (h[1] < g[1])
    BY <1>1, <1>4, <1>5, <1>6, <1>8 DEF TpUntouched, TpGeoInv, TpSameShout
  <2>2. /\ g[1] \in 1 .. tp.clicks /\ g[2] \in 1 .. 4 /\ tp.clicks \in Nat
        /\ \A h \in tp.geo : h[1] \in 1 .. tp.clicks
    BY <1>1 DEF TpGeoInv
  <2>3. ASSUME ~ tp'.lost
        PROVE  \/ tp'.geo = {} /\ tp'.place = tp'.clicked
               \/ \E h \in tp'.geo : /\ h[2] = tp'.clicked
                                     /\ \A k \in tp'.geo : k[1] <= h[1]
    <3>1. PICK h \in tp.geo : h[2] = tp.clicked /\ \A k \in tp.geo : k[1] <= h[1]
      BY <1>1, <2>1, <2>3 DEF TpGeoInv
    <3>2. CASE h = g
      <4>1. \A k \in tp.geo : k[1] = g[1]
        BY <2>1, <2>2, <2>3, <3>1, <3>2
      <4>2. tp'.geo = {}
        BY <1>1, <2>1, <4>1 DEF TpGeoInv
      <4> QED
        BY <2>1, <2>3, <3>1, <3>2, <4>2
    <3>3. CASE h # g
      BY <2>1, <3>1, <3>3
    <3> QED
      BY <3>2, <3>3
  <2> QED
    BY <1>1, <2>1, <2>2, <2>3 DEF TpGeoInv
<1>11. TpLoadsInv(t)
  BY <1>1, <1>4, <1>6, TpLoadsKept DEF TpNotAsked, TpAsked, TpUntouched
<1>12. TpLoadsInv(tp')
  BY <1>8, <1>11, TpLoadsKept
<1> QED
  BY <1>8, <1>9, <1>10, <1>12 DEF TpInv

\* Another size is drawn around the place that is known.
LEMMA TpSetSpeakerSizeStep ==
  ASSUME TpInv, TpSetSpeakerSize
  PROVE  TpInv'
<1>1. TpIsPage(tp) /\ TpAgrees /\ TpGeoInv(tp) /\ TpLoadsInv(tp)
  BY DEF TpInv
<1>2. PICK level, s, t :
        /\ level \in TpLevels
        /\ s = [tp EXCEPT !.level = level, !.cut = FALSE]
        /\ t = TpGetRegionName(s, 0)
        /\ tp' = [t EXCEPT !.clicks = @ + 1, !.unmarked = t.cut,
                           !.button = IF t.cut THEN @ ELSE level]
  BY DEF TpSetSpeakerSize
<1>3. /\ TpIsPage(s) /\ TpSameGeo(tp, s) /\ TpNotAsked(tp, s)
      /\ s.late = tp.late /\ s.list = tp.list /\ s.place = tp.place
      /\ s.level = level
  BY <1>1, <1>2 DEF TpIsPage, TpSameGeo, TpNotAsked
<1>4. /\ TpIsPage(t) /\ TpUntouched(s, t) /\ t.place = s.place
      /\ t.circle = <<t.place, t.level>>
      /\ t.place # 0 => /\ t.shoutTo = TpRegions(TpPlaces[t.place], t.level)
                        /\ ~ t.cut => t.field = t.shoutTo
      /\ TpAsked(s, t) \/ TpNotAsked(s, t)
  BY <1>2, <1>3, TpNamed
<1>5. /\ TpIsPage(tp') /\ TpNotAsked(t, tp')
      /\ tp'.level = t.level /\ tp'.place = t.place /\ tp'.circle = t.circle
      /\ tp'.shoutTo = t.shoutTo /\ tp'.field = t.field /\ tp'.cut = t.cut
      /\ tp'.unmarked = t.cut /\ tp'.button = IF t.cut THEN t.button ELSE level
      /\ tp'.late = t.late /\ tp'.list = t.list /\ tp'.lost = t.lost
      /\ tp'.clicks = t.clicks + 1 /\ tp'.geo = t.geo /\ tp'.clicked = t.clicked
  BY <1>2, <1>4 DEF TpIsPage, TpNotAsked
<1>6. TpAgrees'
  BY <1>3, <1>4, <1>5 DEF TpAgrees, TpUntouched
<1>7. TpGeoInv(tp')
  BY <1>1, <1>3, <1>4, <1>5 DEF TpGeoInv, TpSameGeo, TpUntouched
<1>8. TpLoadsInv(t)
  BY <1>1, <1>3, <1>4, TpLoadsKept DEF TpNotAsked, TpAsked, TpUntouched
<1>9. TpLoadsInv(tp')
  BY <1>5, <1>8, TpLoadsKept
<1> QED
  BY <1>5, <1>6, <1>7, <1>9 DEF TpInv

\* Posts, and what is typed, change neither place nor circle.
LEMMA TpPostSteps ==
  ASSUME TpInv, TpSubmitForm \/ TpPosted \/ TpType \/ TpClickItem
  PROVE  TpInv'
<1>1. TpIsPage(tp) /\ TpAgrees /\ TpGeoInv(tp) /\ TpLoadsInv(tp)
  BY DEF TpInv
<1>2. /\ TpIsPage(tp') /\ TpSameShout(tp, tp') /\ TpSameGeo(tp, tp')
      /\ (tp'.field = tp.field /\ tp'.typed = tp.typed) \/ tp'.typed
      /\ tp'.late = tp.late /\ tp'.list = tp.list
      /\ TpAsked(tp, tp') \/ TpNotAsked(tp, tp')
  <2> USE <1>1 DEF TpIsPage, TpSameShout, TpSameGeo
  <2>1. CASE TpSubmitForm
    BY <2>1 DEF TpSubmitForm, TpNotAsked
  <2>2. CASE TpType
    BY <2>2 DEF TpType, TpNotAsked
  <2>3. CASE TpPosted
    <3>1. PICK p, s : /\ p \in tp.posts
                      /\ s = [tp EXCEPT !.posts = tp.posts \ {p}]
                      /\ tp' \in {s, TpLoad(s, tp.field, 0)}
      BY <2>3 DEF TpPosted
    <3>2. CASE tp' = s
      BY <3>1, <3>2 DEF TpNotAsked
    <3>3. CASE tp' = TpLoad(s, tp.field, 0)
      <4>1. TpAsked(tp, tp')
        BY <3>1, <3>3 DEF TpLoad, TpAsked
      <4> QED
        BY <3>1, <3>3, <4>1 DEF TpLoad
    <3> QED
      BY <3>1, <3>2, <3>3
  <2>4. CASE TpClickItem
    <3>1. tp' = TpLoad(tp, tp.list[1], 1)
      BY <2>4 DEF TpClickItem
    <3>2. TpAsked(tp, tp')
      BY <3>1 DEF TpLoad, TpAsked
    <3> QED
      BY <3>1, <3>2 DEF TpLoad
  <2> QED
    BY <2>1, <2>2, <2>3, <2>4
<1>3. TpAgrees'
  BY <1>1, <1>2 DEF TpAgrees, TpSameShout
<1>4. TpGeoInv(tp')
  BY <1>1, <1>2 DEF TpGeoInv, TpSameShout, TpSameGeo
<1>5. TpLoadsInv(tp')
  BY <1>1, <1>2, TpLoadsKept
<1> QED
  BY <1>2, <1>3, <1>4, <1>5 DEF TpInv

\* A list comes, or not: it is shown, and an older one under way will be late.
LEMMA TpLoadAnsweredStep ==
  ASSUME TpInv, TpLoadAnswered
  PROVE  TpInv'
<1>1. TpIsPage(tp) /\ TpAgrees /\ TpGeoInv(tp) /\ TpLoadsInv(tp)
  BY DEF TpInv
<1>2. PICK a \in tp.loads, ok \in BOOLEAN :
        tp' = [tp EXCEPT !.loads = tp.loads \ {a},
                 !.list = IF ok THEN <<a[2], a[3]>> ELSE @,
                 !.late = \/ @ /\ a[1] # tp.asked
                          \/ ~ ok
                          \/ \E b \in tp.loads : b[1] < a[1]]
  BY DEF TpLoadAnswered
<1>3. /\ TpIsPage(tp') /\ TpSameShout(tp, tp') /\ TpSameGeo(tp, tp')
      /\ tp'.field = tp.field /\ tp'.typed = tp.typed
      /\ tp'.loads = tp.loads \ {a}
      /\ tp'.asked = tp.asked /\ tp'.last = tp.last
      /\ ~ tp'.late => /\ ok
                       /\ ~ tp.late \/ a[1] = tp.asked
                       /\ \A b \in tp.loads : ~ (b[1] < a[1])
      /\ ok => tp'.list = <<a[2], a[3]>>
  BY <1>1, <1>2 DEF TpIsPage, TpSameShout, TpSameGeo
<1>4. TpAgrees'
  BY <1>1, <1>3 DEF TpAgrees, TpSameShout
<1>5. TpGeoInv(tp')
  BY <1>1, <1>3 DEF TpGeoInv, TpSameShout, TpSameGeo
<1>6. ASSUME ~ tp'.late
      PROVE  \/ tp'.loads = {} /\ tp'.list = tp'.last
             \/ \E b \in tp'.loads : b[1] = tp'.asked
  <2>1. CASE a[1] = tp.asked
    <3>1. \A b \in tp.loads : b[1] = a[1]
      BY <1>1, <1>3, <1>6, <2>1 DEF TpLoadsInv
    <3>2. tp'.loads = {}
      BY <1>1, <1>3, <3>1 DEF TpLoadsInv
    <3>3. <<a[2], a[3]>> = tp.last
      BY <1>1, <2>1 DEF TpLoadsInv
    <3> QED
      BY <1>3, <1>6, <3>2, <3>3
  <2>2. CASE a[1] # tp.asked
    <3>1. PICK b \in tp.loads : b[1] = tp.asked
      BY <1>1, <1>3, <1>6, <2>2 DEF TpLoadsInv
    <3> QED
      BY <1>3, <2>2, <3>1
  <2> QED
    BY <2>1, <2>2
<1>7. TpLoadsInv(tp')
  BY <1>1, <1>3, <1>6 DEF TpLoadsInv
<1> QED
  BY <1>3, <1>4, <1>5, <1>7 DEF TpInv

\* The invariant says what the page promises.
LEMMA TpInvShout == TpInv => TpShout
BY DEF TpInv, TpShout, TpSettled, TpGeoInv, TpLoadsInv

\* The page as it is loaded, with the first list under way.
LEMMA TpInitInv == TpInit => TpInv
<1> SUFFICES ASSUME TpInit PROVE TpInv
  OBVIOUS
<1>1. /\ TpIsPage(tp) /\ tp.circle = <<tp.place, tp.level>>
      /\ tp.button = tp.level /\ tp.place = 0
  BY DEF TpInit, TpIsPage
<1>2. tp.geo = {} /\ tp.clicks = 0 /\ tp.clicked = 0
  BY DEF TpInit
<1>3. /\ tp.asked = 1 /\ tp.loads = {<<1, <<"CN">>, 0>>}
      /\ tp.last = <<<<"CN">>, 0>>
  BY DEF TpInit
<1>4. TpLoadsInv(tp)
  BY <1>3 DEF TpLoadsInv
<1> QED
  BY <1>1, <1>2, <1>4 DEF TpInv, TpAgrees, TpGeoInv

\* Circle, button and shoutTo belong to one place and size, and so does the field,
\* unless _parsePlace() threw or the user typed.  At rest the place is the one
\* clicked last and the list the one asked for last, unless an answer failed or was
\* overtaken by another.  For every number of clicks and lists.
THEOREM ShoutIsRight == Spec => []PageTp
<1>1. Init => (page = "trumpet" => TpInv)
  BY TpInitInv DEF Init
<1>2. (page = "trumpet" => TpInv) /\ [Next]_pages => (page = "trumpet" => TpInv)'
  <2> SUFFICES ASSUME page = "trumpet" => TpInv, [Next]_pages, page' = "trumpet"
               PROVE  TpInv'
    OBVIOUS
  <2>1. TpInv /\ (TpNext \/ UNCHANGED tp)
    BY TpPage
  <2>2. CASE UNCHANGED tp
    BY <2>1, <2>2 DEF TpInv, TpIsPage, TpAgrees, TpGeoInv, TpLoadsInv
  <2>3. CASE TpNext
    BY <2>1, <2>3, TpGetAddressStep, TpGeocodedStep, TpSetSpeakerSizeStep,
       TpPostSteps, TpLoadAnsweredStep DEF TpNext
  <2> QED
    BY <2>1, <2>2, <2>3
<1> QED
  BY <1>1, <1>2, TpInvShout, PTL DEF Spec, PageTp, pages

-----------------------------------------------------------------------------
(* Dojo's animations.                                                      *)

\* The fields of the page and of an animation, as far as their types matter.
DfIsAnimation(q) ==
  /\ DOMAIN q = {"active", "paused", "timer", "at", "start", "delay", "pending",
                 "repeat", "again", "last", "from", "caught"}
  /\ q.active \in BOOLEAN /\ q.paused \in BOOLEAN /\ q.timer \in BOOLEAN
  /\ q.caught \in BOOLEAN /\ q.at \in 0 .. DfEnd /\ q.start \in Int

DfIsPage(s) ==
  /\ DOMAIN s = {"a", "ctr", "timer", "turn", "ends", "opacity", "by", "plays"}
  /\ s.timer \in BOOLEAN /\ s.opacity \in Int
  /\ s.turn \subseteq DfAnims /\ s.ends \in Seq(DfAnims)
  /\ DOMAIN s.a = DfAnims /\ \A x \in DfAnims : DfIsAnimation(s.a[x])

\* The runner counts the animations that hang on it.
DfHangs(s, x) == IF s.a[x].timer THEN 1 ELSE 0

DfCounts(s) ==
  s.ctr = DfHangs(s, DfOut) + DfHangs(s, DfIn) /\ (s.timer <=> s.ctr > 0)

\* An animation on the runner is active or fires onEnd; one that is paused and
\* on it, or still to be called in this turn, was paused in the turn; and one
\* that plays, though not for its last frame, is on it and has not come to its
\* end.  ending: it fires onEnd; due: this turn has yet to call it.
DfFit(q, ending, due) ==
  /\ q.timer => q.active \/ ending
  /\ q.paused /\ (q.timer \/ due) => q.caught
  /\ q.active /\ ~ q.paused /\ q.from = "other" => q.timer /\ ~ ending

\* While its end was the last word the node shows it.
DfAtEnd(s, x) ==
  s.by = x /\ s.a[x].last = "onEnd" => s.opacity = DfTarget(x)

DfAllWell(s, x) == DfFit(s.a[x], DfEnding(s, x), x \in s.turn) /\ DfAtEnd(s, x)

DfInv == DfIsPage(df) /\ DfCounts(df) /\ \A x \in DfAnims : DfAllWell(df, x)

\* What a step of the animation x leaves alone.
DfOthers(s, t, x) == \A y \in DfAnims \ {x} : t.a[y] = s.a[y]
DfSameNode(s, t) == t.opacity = s.opacity /\ t.by = s.by
DfSameTurn(s, t) == t.turn = s.turn /\ t.ends = s.ends

\* An animation off and on the runner.
DfOff(q) == [q EXCEPT !.timer = FALSE]
DfHung(q) == [q EXCEPT !.timer = TRUE]
DfOn(q, p) == [q EXCEPT !.at = p, !.last = "onAnimate", !.timer = TRUE]

\* _stopTimer() takes an animation off the runner and changes nothing else.
LEMMA DfStopTimerEffect ==
  ASSUME NEW s, NEW x \in DfAnims, DfIsPage(s), DfCounts(s),
         NEW t, t = DfStopTimer(s, x)
  PROVE  /\ DfIsPage(t) /\ DfCounts(t) /\ DfOthers(s, t, x) /\ DfSameNode(s, t)
         /\ DfSameTurn(s, t) /\ t.a[x] = DfOff(s.a[x])
<1> USE DEF DfAnims, DfOut, DfIn
<1>1. /\ t.a = [s.a EXCEPT ![x] = [s.a[x] EXCEPT !.timer = FALSE]]
      /\ DOMAIN t = DOMAIN s /\ DfSameNode(s, t) /\ DfSameTurn(s, t)
  BY DEF DfStopTimer, DfIsPage, DfSameNode, DfSameTurn
<1>2. \A y \in DfAnims : t.a[y] = IF y = x THEN [s.a[x] EXCEPT !.timer = FALSE]
                                  ELSE s.a[y]
  BY <1>1 DEF DfIsPage
<1>3. DfIsAnimation([s.a[x] EXCEPT !.timer = FALSE])
  BY DEF DfIsPage, DfIsAnimation
<1>4. t.timer = (s.timer /\ (IF s.a[x].timer THEN s.ctr - 1 ELSE s.ctr) > 0)
  BY DEF DfStopTimer, DfIsPage
<1>5. DfIsPage(t)
  BY <1>1, <1>2, <1>3, <1>4 DEF DfIsPage, DfSameNode, DfSameTurn
<1>6. ~ t.a[x].timer
  BY <1>2 DEF DfIsPage, DfIsAnimation
<1>7. t.ctr = LET left == IF s.a[x].timer THEN s.ctr - 1 ELSE s.ctr
              IN IF left <= 0 THEN 0 ELSE left
  BY DEF DfStopTimer, DfIsPage
<1>8. DfCounts(t)
  <2>1. ASSUME NEW y \in DfAnims, y # x
        PROVE  /\ s.ctr = DfHangs(s, x) + DfHangs(s, y)
               /\ t.ctr = DfHangs(t, x) + DfHangs(t, y)
               /\ t.timer <=> t.ctr > 0
    <3>1. s.ctr = DfHangs(s, x) + DfHangs(s, y) /\ (s.timer <=> s.ctr > 0)
      BY <2>1 DEF DfCounts, DfHangs
    <3>2. DfHangs(t, y) = DfHangs(s, y) /\ DfHangs(t, x) = 0
      BY <1>2, <1>6, <2>1 DEF DfHangs
    <3>3. DfHangs(s, y) \in {0, 1}
      BY DEF DfHangs
    <3>4. t.ctr = DfHangs(s, y)
      BY <1>7, <3>1, <3>3 DEF DfHangs
    <3>5. (IF s.a[x].timer THEN s.ctr - 1 ELSE s.ctr) = DfHangs(s, y)
      BY <3>1, <3>3 DEF DfHangs
    <3>6. t.timer <=> s.timer /\ DfHangs(s, y) > 0
      BY <1>4, <3>5
    <3> QED
      BY <3>1, <3>2, <3>3, <3>4, <3>6 DEF DfHangs
  <2> QED
    BY <2>1 DEF DfCounts, DfHangs
<1> QED
  BY <1>1, <1>2, <1>5, <1>8 DEF DfOff, DfOthers

\* _startTimer() puts it on the runner.
LEMMA DfStartTimerEffect ==
  ASSUME NEW s, NEW x \in DfAnims, DfIsPage(s), DfCounts(s),
         NEW t, t = DfStartTimer(s, x)
  PROVE  /\ DfIsPage(t) /\ DfCounts(t) /\ DfOthers(s, t, x) /\ DfSameNode(s, t)
         /\ DfSameTurn(s, t) /\ t.a[x] = DfHung(s.a[x])
<1> USE DEF DfAnims, DfOut, DfIn, DfHung
<1>1. /\ t.a = [s.a EXCEPT ![x] = DfHung(s.a[x])]
      /\ DOMAIN t = DOMAIN s /\ DfSameNode(s, t) /\ DfSameTurn(s, t) /\ t.timer
      /\ t.ctr = IF s.a[x].timer THEN s.ctr ELSE s.ctr + 1
  BY DEF DfStartTimer, DfIsPage, DfSameNode, DfSameTurn
<1>2. \A y \in DfAnims : t.a[y] = IF y = x THEN DfHung(s.a[x]) ELSE s.a[y]
  BY <1>1 DEF DfIsPage
<1>3. DfIsAnimation(DfHung(s.a[x]))
  BY DEF DfIsPage, DfIsAnimation
<1>4. t.timer \in BOOLEAN
  BY DEF DfStartTimer, DfIsPage
<1>5. DfIsPage(t)
  BY <1>1, <1>2, <1>3, <1>4 DEF DfIsPage, DfSameNode, DfSameTurn
<1>6. t.a[x].timer
  BY <1>2 DEF DfIsPage, DfIsAnimation
<1>7. DfCounts(t)
  BY <1>1, <1>2, <1>6 DEF DfCounts, DfHangs
<1> QED
  BY <1>1, <1>2, <1>5, <1>7 DEF DfOthers

\* A change of one animation alone.
DfWith(s, x, q) == [s EXCEPT !.a[x] = q]

\* It keeps page and counter right when the animation keeps its timer.
LEMMA DfOneChanged ==
  ASSUME NEW s, NEW x \in DfAnims, DfIsPage(s), DfCounts(s), NEW q,
         DfIsAnimation(q), q.timer = s.a[x].timer, NEW t, t = DfWith(s, x, q)
  PROVE  /\ DfIsPage(t) /\ DfCounts(t) /\ DfOthers(s, t, x) /\ DfSameNode(s, t)
         /\ DfSameTurn(s, t) /\ t.a[x] = q
<1> USE DEF DfAnims, DfOut, DfIn
<1>1. /\ t.a = [s.a EXCEPT ![x] = q] /\ DfSameNode(s, t) /\ DfSameTurn(s, t)
      /\ DOMAIN t = DOMAIN s /\ t.ctr = s.ctr /\ t.timer = s.timer
  BY DEF DfIsPage, DfSameNode, DfSameTurn, DfWith
<1>2. \A y \in DfAnims : t.a[y] = IF y = x THEN q ELSE s.a[y]
  BY <1>1 DEF DfIsPage
<1>3. DfIsPage(t)
  BY <1>1, <1>2 DEF DfIsPage, DfSameNode, DfSameTurn
<1>4. DfCounts(t)
  BY <1>1, <1>2 DEF DfCounts, DfHangs
<1> QED
  BY <1>1, <1>2, <1>3, <1>4 DEF DfOthers

\* A value of the curve.
LEMMA DfValueIs ==
  ASSUME NEW s, NEW x \in DfAnims, DfIsPage(s), NEW p \in 0 .. DfEnd
  PROVE  DfValue(s, x, p) \in Int
<1>1. s.a[x].start \in Int /\ DfTarget(x) \in Int /\ p \in Int
  BY DEF DfIsPage, DfIsAnimation, DfTarget, DfOpaque, DfEnd
<1>2. \A m, n \in Int : m + (n * p) \div DfEnd \in Int
  BY <1>1 DEF DfEnd
<1>3. DfTarget(x) - s.a[x].start \in Int
  BY <1>1
<1> QED
  BY <1>1, <1>2, <1>3 DEF DfValue

\* A frame of an animation that is not over: its value is on the node.
LEMMA DfCycleOnEffect ==
  ASSUME NEW s, NEW x \in DfAnims, DfIsPage(s), DfCounts(s),
         NEW p \in 0 .. DfEnd, NEW t, t = DfCycleOn(s, x, p)
  PROVE  /\ DfIsPage(t) /\ DfCounts(t) /\ DfOthers(s, t, x) /\ DfSameTurn(s, t)
         /\ t.by = x /\ t.opacity = DfValue(s, x, p)
         /\ t.a[x] = DfOn(s.a[x], p)
<1>1. PICK q, w : q = [s.a[x] EXCEPT !.at = p] /\ w = DfWith(s, x, q)
  OBVIOUS
<1>2. DfIsAnimation(q) /\ q.timer = s.a[x].timer
  BY <1>1 DEF DfIsPage, DfIsAnimation
<1>3. w = DfWith(s, x, q)
  BY <1>1
<1>4. /\ DfIsPage(w) /\ DfCounts(w) /\ DfOthers(s, w, x) /\ DfSameNode(s, w)
      /\ DfSameTurn(s, w) /\ w.a[x] = q
  BY <1>2, <1>3, DfOneChanged
<1>5. DfValue(w, x, p) = DfValue(s, x, p)
  BY <1>1, <1>4 DEF DfValue, DfIsPage, DfIsAnimation
<1>6. PICK u : u = DfAnimate(w, x, p)
  OBVIOUS
<1>7. PICK r : r = [s.a[x] EXCEPT !.at = p, !.last = "onAnimate"]
  OBVIOUS
<1>8. /\ u.a = [w.a EXCEPT ![x] = [w.a[x] EXCEPT !.last = "onAnimate"]]
      /\ u.opacity = DfValue(s, x, p) /\ u.by = x /\ DfSameTurn(w, u)
      /\ DOMAIN u = DOMAIN w /\ u.ctr = w.ctr /\ u.timer = w.timer
  BY <1>4, <1>5, <1>6 DEF DfAnimate, DfIsPage, DfSameTurn
<1>9. r = [w.a[x] EXCEPT !.last = "onAnimate"]
  BY <1>1, <1>4, <1>7
<1>10. \A y \in DfAnims : u.a[y] = IF y = x THEN r ELSE w.a[y]
  BY <1>4, <1>8, <1>9 DEF DfIsPage
<1>11. DfIsAnimation(r) /\ r.timer = s.a[x].timer
  BY <1>7 DEF DfIsPage, DfIsAnimation
<1>12. DfValue(s, x, p) \in Int
  BY DfValueIs
<1>13. DfIsPage(u)
  BY <1>4, <1>8, <1>10, <1>11, <1>12 DEF DfIsPage, DfSameTurn
<1>14. \A y \in DfAnims : DfHangs(u, y) = DfHangs(s, y)
  BY <1>4, <1>10, <1>11 DEF DfHangs, DfOthers
<1>15. DfCounts(w) /\ \A y \in DfAnims : DfHangs(w, y) = DfHangs(s, y)
  BY <1>2, <1>3, <1>4 DEF DfHangs, DfOthers
<1>16. DfCounts(u)
  BY <1>8, <1>14, <1>15 DEF DfCounts, DfAnims
<1>17. t = DfStartTimer(u, x)
  BY <1>1, <1>6 DEF DfCycleOn, DfWith, DfIsPage
<1>18. /\ DfIsPage(t) /\ DfCounts(t) /\ DfOthers(u, t, x) /\ DfSameNode(u, t)
       /\ DfSameTurn(u, t) /\ t.a[x] = DfHung(u.a[x])
  BY <1>13, <1>16, <1>17, DfStartTimerEffect
<1>19. t.a[x] = DfOn(s.a[x], p)
  BY <1>7, <1>10, <1>18 DEF DfOn, DfHung
<1> QED
  BY <1>4, <1>8, <1>10, <1>18, <1>19 DEF DfSameNode, DfSameTurn, DfOthers

\* What play() does before _play() or its delay.
LEMMA DfStartedEffect ==
  ASSUME NEW s, NEW x \in DfAnims, DfIsPage(s), DfCounts(s),
         NEW g \in BOOLEAN, NEW t, t = DfStarted(s, x, g)
  PROVE  /\ DfIsPage(t) /\ DfCounts(t) /\ DfOthers(s, t, x) /\ DfSameNode(s, t)
         /\ DfSameTurn(s, t) /\ t.a[x].start = s.opacity
         /\ t.a[x].last = s.a[x].last /\ t.a[x].from = s.a[x].from
         /\ t.a[x].caught = s.a[x].caught
         /\ g => /\ ~ t.a[x].timer /\ ~ t.a[x].active /\ ~ t.a[x].paused
                 /\ t.a[x].at = 0
         /\ ~ g => /\ t.a[x].timer = s.a[x].timer
                   /\ t.a[x].active = s.a[x].active
                   /\ t.a[x].paused = s.a[x].paused
<1>1. CASE ~ g
  <2>1. PICK q : q = [s.a[x] EXCEPT !.start = s.opacity]
    OBVIOUS
  <2>2. t = DfWith(s, x, q)
    BY <1>1, <2>1 DEF DfStarted, DfBeforeBegin, DfWith
  <2>3. /\ DfIsAnimation(q) /\ q.timer = s.a[x].timer /\ q.last = s.a[x].last
        /\ q.from = s.a[x].from /\ q.caught = s.a[x].caught
        /\ q.active = s.a[x].active /\ q.paused = s.a[x].paused
        /\ q.start = s.opacity
    BY <2>1 DEF DfIsPage, DfIsAnimation
  <2> QED
    BY <1>1, <2>2, <2>3, DfOneChanged
<1>2. CASE g
  <2>1. PICK u : u = DfStopTimer(s, x)
    OBVIOUS
  <2>2. /\ DfIsPage(u) /\ DfCounts(u) /\ DfOthers(s, u, x) /\ DfSameNode(s, u)
        /\ DfSameTurn(s, u) /\ u.a[x] = DfOff(s.a[x])
    BY <2>1, DfStopTimerEffect
  <2>3. PICK q : q = [u.a[x] EXCEPT !.active = FALSE, !.paused = FALSE, !.at = 0,
                                    !.start = u.opacity]
    OBVIOUS
  <2>4. /\ DfIsAnimation(q) /\ q.timer = u.a[x].timer /\ q.last = u.a[x].last
        /\ q.from = u.a[x].from /\ q.caught = u.a[x].caught
        /\ ~ q.active /\ ~ q.paused /\ q.at = 0 /\ q.start = u.opacity
    BY <2>2, <2>3 DEF DfIsPage, DfIsAnimation, DfEnd, DfOff
  <2>5. t = DfWith(u, x, q)
    <3>1. t = DfBeforeBegin([u EXCEPT !.a[x].active = FALSE, !.a[x].paused = FALSE,
                                      !.a[x].at = 0], x)
      BY <1>2, <2>1 DEF DfStarted
    <3>2. PICK r, w : /\ r = [u.a[x] EXCEPT !.active = FALSE, !.paused = FALSE,
                                          !.at = 0]
                      /\ w = DfWith(u, x, r)
      OBVIOUS
    <3>3. t = DfBeforeBegin(w, x) /\ w.opacity = u.opacity /\ w.a[x] = r
      BY <2>2, <3>1, <3>2 DEF DfIsPage, DfWith
    <3>4. t = DfWith(w, x, q)
      BY <2>3, <3>2, <3>3 DEF DfBeforeBegin, DfWith
    <3> QED
      BY <2>2, <3>2, <3>4 DEF DfWith, DfIsPage
  <2>6. /\ DfIsPage(t) /\ DfCounts(t) /\ DfOthers(u, t, x) /\ DfSameNode(u, t)
        /\ DfSameTurn(u, t) /\ t.a[x] = q
    BY <2>2, <2>4, <2>5, DfOneChanged
  <2>7. /\ ~ u.a[x].timer /\ u.a[x].last = s.a[x].last
        /\ u.a[x].from = s.a[x].from /\ u.a[x].caught = s.a[x].caught
    BY <2>2 DEF DfIsPage, DfIsAnimation, DfOff
  <2> QED
    BY <1>2, <2>2, <2>4, <2>6, <2>7 DEF DfOthers, DfSameNode, DfSameTurn
<1> QED
  BY <1>1, <1>2

\* _play() makes an animation play, off or on the runner as before.
LEMMA DfPlayNowEffect ==
  ASSUME NEW s, NEW x \in DfAnims, DfIsPage(s), DfCounts(s), NEW from,
         NEW t, t = DfPlayNow(s, x, from)
  PROVE  /\ DfIsPage(t) /\ DfCounts(t) /\ DfOthers(s, t, x) /\ DfSameNode(s, t)
         /\ DfSameTurn(s, t) /\ t.a[x].active /\ ~ t.a[x].paused
         /\ t.a[x].from = from /\ t.a[x].start = s.a[x].start
         /\ t.a[x].timer = s.a[x].timer
<1>1. PICK q : q = [s.a[x] EXCEPT
                      !.at = IF s.a[x].paused THEN @ ELSE 0, !.active = TRUE,
                      !.paused = FALSE,
                      !.again = IF s.a[x].at = 0 /\ s.a[x].again = 0
                                THEN s.a[x].repeat ELSE @,
                      !.last = "onPlay", !.from = from]
  OBVIOUS
<1>2. /\ DfIsAnimation(q) /\ q.timer = s.a[x].timer /\ q.from = from
      /\ q.active /\ ~ q.paused /\ q.start = s.a[x].start
  BY <1>1 DEF DfIsPage, DfIsAnimation, DfEnd
<1>3. t = DfWith(s, x, q)
  BY <1>1 DEF DfPlayNow, DfWith
<1> QED
  BY <1>2, <1>3, DfOneChanged

\* A page of which all but x is well: x is in the midst of a step.
DfWellBut(s, x) ==
  /\ DfIsPage(s) /\ DfCounts(s)
  /\ \A y \in DfAnims \ {x} : DfAllWell(s, y)

\* The others stay well when x alone is changed or shown.
LEMMA DfOthersWell ==
  ASSUME NEW s, NEW x \in DfAnims, NEW t, DfWellBut(s, x),
         DfIsPage(t), DfCounts(t), DfOthers(s, t, x), DfSameTurn(s, t),
         DfSameNode(s, t) \/ t.by = x
  PROVE  DfWellBut(t, x)
<1>1. \A y \in DfAnims : DfEnding(t, y) = DfEnding(s, y)
  BY DEF DfEnding, DfSameTurn
<1>2. ASSUME NEW y \in DfAnims \ {x}
      PROVE  DfAllWell(t, y)
  <2>1. DfFit(s.a[y], DfEnding(s, y), y \in s.turn) /\ DfAtEnd(s, y)
    BY DEF DfWellBut, DfAllWell
  <2>2. t.a[y] = s.a[y] /\ t.turn = s.turn
    BY DEF DfOthers, DfSameTurn
  <2>3. DfFit(t.a[y], DfEnding(t, y), y \in t.turn)
    BY <1>1, <2>1, <2>2
  <2>4. DfAtEnd(t, y)
    BY <2>1, <2>2 DEF DfAtEnd, DfSameNode
  <2> QED
    BY <2>3, <2>4 DEF DfAllWell
<1> QED
  BY <1>2 DEF DfWellBut

\* What a frame does not change of its animation.
LEMMA DfOnFields ==
  ASSUME NEW q, DfIsAnimation(q), NEW p, NEW r, r = DfOn(q, p)
  PROVE  /\ r.timer /\ r.last = "onAnimate"
         /\ r.active = q.active /\ r.paused = q.paused
         /\ r.caught = q.caught /\ r.from = q.from
<1>1. /\ r.timer = TRUE /\ r.active = q.active /\ r.paused = q.paused
      /\ r.caught = q.caught
  BY DEF DfOn, DfIsAnimation
<1>2. r.last = "onAnimate" /\ r.from = q.from
  BY DEF DfOn, DfIsAnimation
<1> QED
  BY <1>1, <1>2

\* A frame short of the end leaves all well.
LEMMA DfCycleOnWell ==
  ASSUME NEW s, NEW x \in DfAnims, DfWellBut(s, x), s.a[x].active,
         s.a[x].paused => s.a[x].caught,
         ~ s.a[x].paused /\ s.a[x].from = "other" => ~ DfEnding(s, x),
         NEW p \in 0 .. DfEnd, NEW t, t = DfCycleOn(s, x, p)
  PROVE  DfWellBut(t, x) /\ DfAllWell(t, x)
<1>1. /\ DfIsPage(t) /\ DfCounts(t) /\ DfOthers(s, t, x) /\ DfSameTurn(s, t)
      /\ t.by = x /\ t.a[x] = DfOn(s.a[x], p)
  BY DfCycleOnEffect DEF DfWellBut
<1>2. DfWellBut(t, x)
  BY <1>1, DfOthersWell
<1>3. /\ t.a[x].timer /\ t.a[x].last = "onAnimate"
      /\ t.a[x].active = s.a[x].active /\ t.a[x].paused = s.a[x].paused
      /\ t.a[x].caught = s.a[x].caught /\ t.a[x].from = s.a[x].from
  <2>1. DfIsAnimation(s.a[x])
    BY DEF DfWellBut, DfIsPage
  <2>2. PICK q, r : q = s.a[x] /\ r = t.a[x]
    OBVIOUS
  <2>3. DfIsAnimation(q) /\ r = DfOn(q, p)
    BY <1>1, <2>1, <2>2
  <2>4. /\ r.timer /\ r.last = "onAnimate"
        /\ r.active = q.active /\ r.paused = q.paused
        /\ r.caught = q.caught /\ r.from = q.from
    BY <2>3, DfOnFields
  <2> QED
    BY <2>2, <2>4
<1>4. DfEnding(t, x) = DfEnding(s, x)
  BY <1>1 DEF DfEnding, DfSameTurn
<1> QED
  BY <1>2, <1>3, <1>4 DEF DfAllWell, DfFit, DfAtEnd

\* The last frame shows the end; an animation that has come to it.
DfShows(s, x) == s.by = x /\ s.opacity = DfTarget(x)

DfOver(q, due) ==
  /\ q.paused /\ (q.timer \/ due) => q.caught
  /\ q.active /\ ~ q.paused => q.from # "other"

\* play(null, true) plays it again, from where it ended.
LEMMA DfPlayAgainWell ==
  ASSUME NEW s, NEW x \in DfAnims, DfWellBut(s, x), DfShows(s, x),
         NEW t, t = DfPlayAgain(s, x)
  PROVE  DfWellBut(t, x) /\ DfShows(t, x) /\ DfOver(t.a[x], x \in t.turn)
<1>1. PICK u : u = DfStarted(s, x, TRUE)
  OBVIOUS
<1>2. DfIsPage(s) /\ DfCounts(s)
  BY DEF DfWellBut
<1>3. /\ DfIsPage(u) /\ DfCounts(u) /\ DfOthers(s, u, x) /\ DfSameNode(s, u)
      /\ DfSameTurn(s, u) /\ u.a[x].start = s.opacity
      /\ ~ u.a[x].timer /\ ~ u.a[x].active /\ ~ u.a[x].paused
  BY <1>1, <1>2, DfStartedEffect
<1>4. DfWellBut(u, x) /\ DfShows(u, x)
  BY <1>3, DfOthersWell DEF DfShows, DfSameNode
<1>5. CASE s.a[x].delay
  <2>1. PICK q : q = [u.a[x] EXCEPT !.pending = @ + 1]
    OBVIOUS
  <2>2. t = DfWith(u, x, q)
    BY <1>1, <1>5, <2>1 DEF DfPlayAgain, DfWith
  <2>3. /\ DfIsAnimation(q) /\ q.timer = u.a[x].timer
        /\ ~ q.active /\ ~ q.paused
    BY <1>3, <2>1 DEF DfIsPage, DfIsAnimation
  <2>4. /\ DfIsPage(t) /\ DfCounts(t) /\ DfOthers(u, t, x) /\ DfSameNode(u, t)
        /\ DfSameTurn(u, t) /\ t.a[x] = q
    BY <1>3, <2>2, <2>3, DfOneChanged
  <2> QED
    BY <1>4, <2>3, <2>4, DfOthersWell DEF DfShows, DfSameNode, DfOver
<1>6. CASE ~ s.a[x].delay
  <2>1. PICK v : v = DfPlayNow(u, x, "repeat")
    OBVIOUS
  <2>2. /\ DfIsPage(v) /\ DfCounts(v) /\ DfOthers(u, v, x) /\ DfSameNode(u, v)
        /\ DfSameTurn(u, v) /\ v.a[x].active /\ ~ v.a[x].paused
        /\ v.a[x].from = "repeat" /\ v.a[x].start = u.a[x].start
    BY <1>3, <2>1, DfPlayNowEffect
  <2>3. DfWellBut(v, x)
    BY <1>4, <2>2, DfOthersWell
  <2>4. t = DfCycleOn(v, x, 0) /\ 0 \in 0 .. DfEnd
    BY <1>1, <1>6, <2>1 DEF DfPlayAgain, DfEnd
  <2>5. /\ DfIsPage(t) /\ DfCounts(t) /\ DfOthers(v, t, x) /\ DfSameTurn(v, t)
        /\ t.by = x /\ t.opacity = DfValue(v, x, 0)
        /\ t.a[x] = DfOn(v.a[x], 0)
    BY <2>2, <2>4, DfCycleOnEffect
  <2>6. DfWellBut(t, x)
    BY <2>3, <2>5, DfOthersWell
  <2>7. t.a[x].from = "repeat" /\ ~ t.a[x].paused
    BY <2>2, <2>5 DEF DfOn, DfIsPage, DfIsAnimation
  <2>8. t.opacity = s.opacity
    <3>1. s.opacity \in Int /\ DfTarget(x) \in Int
      BY <1>2 DEF DfIsPage, DfTarget, DfOpaque, DfEnd
    <3>2. (DfTarget(x) - s.opacity) * 0 = 0
      BY <3>1
    <3>3. t.opacity = s.opacity + ((DfTarget(x) - s.opacity) * 0) \div DfEnd
      BY <1>3, <2>2, <2>5 DEF DfValue
    <3> QED
      BY <3>1, <3>2, <3>3 DEF DfEnd
  <2> QED
    BY <2>5, <2>6, <2>7, <2>8 DEF DfShows, DfOver
<1> QED
  BY <1>5, <1>6

\* The end of an animation that repeats plays it again.
LEMMA DfRepeatWell ==
  ASSUME NEW s, NEW x \in DfAnims, DfWellBut(s, x), DfShows(s, x),
         DfOver(s.a[x], x \in s.turn), NEW t, t = DfRepeat(s, x)
  PROVE  DfWellBut(t, x) /\ DfShows(t, x) /\ DfOver(t.a[x], x \in t.turn)
<1>1. DfIsAnimation(s.a[x]) /\ DfIsPage(s) /\ DfCounts(s)
  BY DEF DfWellBut, DfIsPage
<1>2. CASE s.a[x].repeat > 0
  <2>1. PICK q, u : /\ q = [s.a[x] EXCEPT !.repeat = @ - 1]
                    /\ u = DfWith(s, x, q)
    OBVIOUS
  <2>2. DfIsAnimation(q) /\ q.timer = s.a[x].timer
    BY <1>1, <2>1 DEF DfIsAnimation
  <2>3. /\ DfIsPage(u) /\ DfCounts(u) /\ DfOthers(s, u, x) /\ DfSameNode(s, u)
        /\ DfSameTurn(s, u)
    BY <1>1, <2>1, <2>2, DfOneChanged
  <2>4. DfWellBut(u, x) /\ DfShows(u, x)
    BY <2>3, DfOthersWell DEF DfShows, DfSameNode
  <2>5. t = DfPlayAgain(u, x)
    BY <1>2, <2>1 DEF DfRepeat, DfWith
  <2> QED
    BY <2>4, <2>5, DfPlayAgainWell
<1>3. CASE ~ (s.a[x].repeat > 0) /\ s.a[x].repeat = -1
  <2>1. t = DfPlayAgain(s, x)
    BY <1>3 DEF DfRepeat
  <2> QED
    BY <2>1, DfPlayAgainWell
<1>4. CASE ~ (s.a[x].repeat > 0) /\ s.a[x].repeat # -1 /\ s.a[x].again # 0
  <2>1. PICK q : q = [s.a[x] EXCEPT !.repeat = s.a[x].again, !.again = 0]
    OBVIOUS
  <2>2. /\ DfIsAnimation(q) /\ q.timer = s.a[x].timer /\ q.from = s.a[x].from
        /\ q.active = s.a[x].active /\ q.paused = s.a[x].paused
        /\ q.caught = s.a[x].caught
    BY <1>1, <1>4, <2>1 DEF DfIsAnimation
  <2>3. t = DfWith(s, x, q)
    <3>1. t = [s EXCEPT !.a[x].repeat = s.a[x].again, !.a[x].again = 0]
      BY <1>4 DEF DfRepeat
    <3>2. PICK r, w : /\ r = [s.a[x] EXCEPT !.repeat = s.a[x].again]
                      /\ w = DfWith(s, x, r)
      OBVIOUS
    <3>3. t = [w EXCEPT !.a[x].again = 0] /\ w.a[x] = r
      BY <1>1, <3>1, <3>2 DEF DfWith, DfIsPage
    <3>4. t = DfWith(w, x, q)
      BY <2>1, <3>2, <3>3 DEF DfWith
    <3> QED
      BY <1>1, <3>2, <3>4 DEF DfWith, DfIsPage
  <2>4. /\ DfIsPage(t) /\ DfCounts(t) /\ DfOthers(s, t, x) /\ DfSameNode(s, t)
        /\ DfSameTurn(s, t) /\ t.a[x] = q
    BY <1>1, <2>2, <2>3, DfOneChanged
  <2>5. DfWellBut(t, x)
    BY <2>4, DfOthersWell
  <2> QED
    BY <2>2, <2>4, <2>5 DEF DfShows, DfSameNode, DfSameTurn, DfOver
<1>5. CASE ~ (s.a[x].repeat > 0) /\ s.a[x].repeat # -1 /\ s.a[x].again = 0
  BY <1>5 DEF DfRepeat
<1> QED
  BY <1>2, <1>3, <1>4, <1>5

\* The listeners of x's onEnd are called: no other's begin or are over.
LEMMA DfEndingNow ==
  ASSUME NEW s, NEW x \in DfAnims, DfIsPage(s), NEW t, t.ends = <<x>> \o s.ends
  PROVE  /\ t.ends \in Seq(DfAnims) /\ DfEnding(t, x)
         /\ \A y \in DfAnims \ {x} : DfEnding(t, y) <=> DfEnding(s, y)
<1>1. s.ends \in Seq(DfAnims) /\ <<x>> \in Seq(DfAnims)
  BY DEF DfIsPage
<1>2. /\ t.ends \in Seq(DfAnims) /\ Len(t.ends) = Len(s.ends) + 1
      /\ t.ends[1] = x
      /\ \A i \in 1 .. Len(s.ends) : t.ends[i + 1] = s.ends[i]
  BY <1>1
<1>3. Len(s.ends) \in Nat
  BY <1>1
<1>4. DfEnding(t, x)
  BY <1>2, <1>3 DEF DfEnding
<1>5. ASSUME NEW y \in DfAnims \ {x}
      PROVE  DfEnding(t, y) <=> DfEnding(s, y)
  <2>1. ASSUME DfEnding(s, y) PROVE DfEnding(t, y)
    <3>1. PICK i \in 1 .. Len(s.ends) : s.ends[i] = y
      BY <2>1 DEF DfEnding
    <3>2. i + 1 \in 1 .. Len(t.ends) /\ t.ends[i + 1] = y
      BY <1>2, <1>3, <3>1
    <3> QED
      BY <3>2 DEF DfEnding
  <2>2. ASSUME DfEnding(t, y) PROVE DfEnding(s, y)
    <3>1. PICK i \in 1 .. Len(t.ends) : t.ends[i] = y
      BY <2>2 DEF DfEnding
    <3>2. i # 1
      BY <1>2, <1>5, <3>1
    <3>3. PICK j : j = i - 1
      OBVIOUS
    <3>4. j \in 1 .. Len(s.ends) /\ i = j + 1
      BY <1>2, <1>3, <3>1, <3>2, <3>3
    <3>5. t.ends[j + 1] = s.ends[j]
      BY <1>2, <3>4
    <3>6. s.ends[j] = y
      BY <3>1, <3>4, <3>5
    <3> QED
      BY <3>4, <3>6 DEF DfEnding
  <2> QED
    BY <2>1, <2>2
<1> QED
  BY <1>2, <1>4, <1>5

\* They have been called.
LEMMA DfEndingOver ==
  ASSUME NEW s, DfIsPage(s), s.ends # <<>>, NEW x, x = Head(s.ends),
         NEW t, t.ends = Tail(s.ends)
  PROVE  /\ x \in DfAnims /\ t.ends \in Seq(DfAnims) /\ DfEnding(s, x)
         /\ \A y \in DfAnims \ {x} : DfEnding(t, y) <=> DfEnding(s, y)
<1>1. s.ends \in Seq(DfAnims)
  BY DEF DfIsPage
<1>2. Len(s.ends) \in Nat \ {0}
  BY <1>1
<1>3. /\ x = s.ends[1] /\ x \in DfAnims /\ t.ends \in Seq(DfAnims)
      /\ Len(t.ends) = Len(s.ends) - 1
      /\ \A i \in 1 .. Len(t.ends) : t.ends[i] = s.ends[i + 1]
  BY <1>1, <1>2
<1>4. DfEnding(s, x)
  BY <1>2, <1>3 DEF DfEnding
<1>5. ASSUME NEW y \in DfAnims \ {x}
      PROVE  DfEnding(t, y) <=> DfEnding(s, y)
  <2>1. ASSUME DfEnding(t, y) PROVE DfEnding(s, y)
    <3>1. PICK i \in 1 .. Len(t.ends) : t.ends[i] = y
      BY <2>1 DEF DfEnding
    <3>2. i + 1 \in 1 .. Len(s.ends) /\ s.ends[i + 1] = y
      BY <1>2, <1>3, <3>1
    <3> QED
      BY <3>2 DEF DfEnding
  <2>2. ASSUME DfEnding(s, y) PROVE DfEnding(t, y)
    <3>1. PICK i \in 1 .. Len(s.ends) : s.ends[i] = y
      BY <2>2 DEF DfEnding
    <3>2. i # 1
      BY <1>3, <1>5, <3>1
    <3>3. PICK j : j = i - 1
      OBVIOUS
    <3>4. j \in 1 .. Len(t.ends) /\ i = j + 1
      BY <1>2, <1>3, <3>1, <3>2, <3>3
    <3>5. t.ends[j] = y
      BY <1>3, <3>1, <3>4
    <3> QED
      BY <3>4, <3>5 DEF DfEnding
  <2> QED
    BY <2>1, <2>2
<1> QED
  BY <1>3, <1>4, <1>5

\* The last frame of an animation, up to its onEnd, leaves all well.
LEMMA DfCycleEndWell ==
  ASSUME NEW s, NEW x \in DfAnims, DfWellBut(s, x),
         s.a[x].paused => s.a[x].caught, NEW t, t = DfCycleEnd(s, x)
  PROVE  DfWellBut(t, x) /\ DfAllWell(t, x)
<1>1. DfIsPage(s) /\ DfCounts(s) /\ DfIsAnimation(s.a[x])
  BY DEF DfWellBut, DfIsPage
<1>2. PICK u, v, over : /\ u = DfAnimate([s EXCEPT !.a[x].at = DfEnd], x, DfEnd)
                        /\ v = [u EXCEPT !.a[x].active = FALSE]
                        /\ over = DfRepeat(v, x)
  OBVIOUS
<1>3. t = [over EXCEPT !.a[x].at = 0, !.a[x].last = "onEnd", !.ends = <<x>> \o @]
  BY <1>2 DEF DfCycleEnd
<1>4. PICK q : q = [s.a[x] EXCEPT !.at = DfEnd, !.last = "onAnimate", !.active = FALSE]
  OBVIOUS
<1>5. /\ v.a = [s.a EXCEPT ![x] = q] /\ DfShows(v, x) /\ DfSameTurn(s, v)
      /\ DOMAIN v = DOMAIN s /\ v.ctr = s.ctr /\ v.timer = s.timer
      /\ DfTarget(x) \in Int
  <2>1. PICK w, r : w = [s EXCEPT !.a[x].at = DfEnd] /\ r = [s.a[x] EXCEPT !.at = DfEnd]
    OBVIOUS
  <2>2. /\ w.a = [s.a EXCEPT ![x] = r] /\ DfSameTurn(s, w) /\ DOMAIN w = DOMAIN s
        /\ w.ctr = s.ctr /\ w.timer = s.timer /\ w.a[x] = r
    BY <1>1, <2>1 DEF DfIsPage, DfSameTurn
  <2>3. w.a[x].start = s.a[x].start
    BY <1>1, <2>1, <2>2 DEF DfIsAnimation
  <2>4. u = DfAnimate(w, x, DfEnd)
    BY <1>2, <2>1
  <2>5. PICK k : k = [r EXCEPT !.last = "onAnimate"]
    OBVIOUS
  <2>6. /\ u.a = [s.a EXCEPT ![x] = k] /\ DfSameTurn(s, u) /\ DOMAIN u = DOMAIN s
        /\ u.ctr = s.ctr /\ u.timer = s.timer /\ u.a[x] = k /\ u.by = x
        /\ u.opacity = DfValue(w, x, DfEnd)
    BY <1>1, <2>2, <2>4, <2>5 DEF DfAnimate, DfIsPage, DfSameTurn
  <2>7. u.opacity = DfTarget(x) /\ DfTarget(x) \in Int
    <3>1. u.opacity = s.a[x].start + ((DfTarget(x) - s.a[x].start) * DfEnd) \div DfEnd
      BY <2>3, <2>6 DEF DfValue
    <3>2. s.a[x].start \in Int /\ DfTarget(x) \in Int
      BY <1>1 DEF DfIsAnimation, DfTarget, DfOpaque, DfEnd
    <3> QED
      BY <3>1, <3>2 DEF DfEnd
  <2>8. [k EXCEPT !.active = FALSE] = q
    BY <1>4, <2>1, <2>5
  <2> QED
    BY <1>1, <1>2, <2>6, <2>7, <2>8 DEF DfIsPage, DfSameTurn, DfShows
<1>6. v.a[x] = q /\ \A y \in DfAnims \ {x} : v.a[y] = s.a[y]
  BY <1>1, <1>5 DEF DfIsPage
<1>7. /\ DfIsAnimation(q) /\ q.timer = s.a[x].timer /\ ~ q.active
      /\ q.paused = s.a[x].paused /\ q.caught = s.a[x].caught
  BY <1>1, <1>4 DEF DfIsAnimation, DfEnd
<1>8. DfIsPage(v)
  BY <1>1, <1>5, <1>6, <1>7 DEF DfIsPage, DfShows, DfSameTurn
<1>9. DfCounts(v) /\ DfOthers(s, v, x)
  <2>1. \A y \in DfAnims : DfHangs(v, y) = DfHangs(s, y)
    BY <1>6, <1>7 DEF DfHangs
  <2> QED
    BY <1>1, <1>5, <1>6, <2>1 DEF DfCounts, DfOthers, DfAnims
<1>10. v.by = x
  BY <1>5 DEF DfShows
<1>11. DfWellBut(v, x)
  BY <1>5, <1>8, <1>9, <1>10, DfOthersWell
<1>12. DfOver(v.a[x], x \in v.turn)
  BY <1>6, <1>7 DEF DfOver
<1>13. DfWellBut(over, x) /\ DfShows(over, x) /\ DfOver(over.a[x], x \in over.turn)
  BY <1>2, <1>5, <1>11, <1>12, DfRepeatWell
<1>14. PICK r, fired : /\ r = [over.a[x] EXCEPT !.at = 0, !.last = "onEnd"]
                       /\ fired = DfWith(over, x, r)
  OBVIOUS
<1>15. /\ DfIsAnimation(r) /\ r.timer = over.a[x].timer /\ r.last = "onEnd"
       /\ r.active = over.a[x].active /\ r.paused = over.a[x].paused
       /\ r.from = over.a[x].from /\ r.caught = over.a[x].caught
  BY <1>13, <1>14 DEF DfWellBut, DfIsPage, DfIsAnimation, DfEnd
<1>16. /\ DfIsPage(fired) /\ DfCounts(fired) /\ DfOthers(over, fired, x)
       /\ DfSameNode(over, fired) /\ DfSameTurn(over, fired) /\ fired.a[x] = r
  <2>1. fired = DfWith(over, x, r) /\ DfIsPage(over) /\ DfCounts(over)
    BY <1>13, <1>14 DEF DfWellBut
  <2> QED
    BY <1>15, <2>1, DfOneChanged
<1>17. DfWellBut(fired, x) /\ DfShows(fired, x) /\ DfOver(r, x \in fired.turn)
  BY <1>13, <1>15, <1>16, DfOthersWell DEF DfShows, DfSameNode, DfSameTurn, DfOver
<1>18. t = [fired EXCEPT !.ends = <<x>> \o fired.ends]
  <2>1. PICK k, w : k = [over.a[x] EXCEPT !.at = 0] /\ w = DfWith(over, x, k)
    OBVIOUS
  <2>2. w.a[x] = k /\ DfIsPage(over)
    BY <1>13, <2>1 DEF DfWith, DfWellBut, DfIsPage
  <2>3. [w EXCEPT !.a[x].last = "onEnd"] = DfWith(w, x, r)
    BY <1>14, <2>1, <2>2 DEF DfWith
  <2>4. fired = [w EXCEPT !.a[x].last = "onEnd"]
    BY <1>14, <2>1, <2>2, <2>3 DEF DfWith, DfIsPage
  <2>5. t = [[w EXCEPT !.a[x].last = "onEnd"] EXCEPT !.ends = <<x>> \o @]
    BY <1>3, <2>1 DEF DfWith
  <2> QED
    BY <2>4, <2>5
<1>19. /\ t.a = fired.a /\ t.opacity = fired.opacity /\ t.by = fired.by
       /\ t.ctr = fired.ctr /\ t.timer = fired.timer /\ t.turn = fired.turn
       /\ DOMAIN t = DOMAIN fired /\ t.ends = <<x>> \o fired.ends
  BY <1>16, <1>18 DEF DfIsPage
<1>20. /\ t.ends \in Seq(DfAnims) /\ DfEnding(t, x)
       /\ \A y \in DfAnims \ {x} : DfEnding(t, y) <=> DfEnding(fired, y)
  BY <1>16, <1>19, DfEndingNow
<1>21. DfIsPage(t) /\ DfCounts(t)
  BY <1>16, <1>19, <1>20 DEF DfIsPage, DfCounts, DfHangs
<1>22. ASSUME NEW y \in DfAnims \ {x} PROVE DfAllWell(t, y)
  <2>1. DfAllWell(fired, y)
    BY <1>17 DEF DfWellBut
  <2> QED
    BY <1>19, <1>20, <2>1 DEF DfAllWell, DfFit, DfAtEnd
<1>23. DfFit(t.a[x], DfEnding(t, x), x \in t.turn)
  BY <1>16, <1>17, <1>19, <1>20 DEF DfFit, DfOver
<1>24. DfAtEnd(t, x)
  BY <1>17, <1>19 DEF DfAtEnd, DfShows
<1> QED
  BY <1>21, <1>22, <1>23, <1>24 DEF DfWellBut, DfAllWell

\* A frame of an active animation.
LEMMA DfCycleWell ==
  ASSUME NEW s, NEW x \in DfAnims, DfWellBut(s, x), s.a[x].active,
         s.a[x].paused => s.a[x].caught,
         ~ s.a[x].paused /\ s.a[x].from = "other" => ~ DfEnding(s, x),
         NEW p \in 0 .. DfEnd, NEW t, t = DfCycle(s, x, p)
  PROVE  DfWellBut(t, x) /\ DfAllWell(t, x)
<1>1. CASE p < DfEnd
  <2>1. t = DfCycleOn(s, x, p)
    BY <1>1 DEF DfCycle
  <2> QED
    BY <2>1, DfCycleOnWell
<1>2. CASE ~ (p < DfEnd)
  <2>1. t = DfCycleEnd(s, x)
    BY <1>2 DEF DfCycle
  <2> QED
    BY <2>1, DfCycleEndWell
<1> QED
  BY <1>1, <1>2

\* _play() leaves all well, whatever became of the animation before.
LEMMA DfRunWell ==
  ASSUME NEW s, NEW x \in DfAnims, DfWellBut(s, x), NEW t, t = DfRun(s, x)
  PROVE  DfWellBut(t, x) /\ DfAllWell(t, x)
<1>1. PICK from, u : /\ from = IF DfEnding(s, x) THEN "handler" ELSE "other"
                     /\ u = DfPlayNow(s, x, from)
  OBVIOUS
<1>2. /\ DfIsPage(u) /\ DfCounts(u) /\ DfOthers(s, u, x) /\ DfSameNode(s, u)
      /\ DfSameTurn(s, u) /\ u.a[x].active /\ ~ u.a[x].paused
      /\ u.a[x].from = from
  BY <1>1, DfPlayNowEffect DEF DfWellBut
<1>3. DfWellBut(u, x)
  BY <1>2, DfOthersWell
<1>4. DfEnding(u, x) = DfEnding(s, x)
  BY <1>2 DEF DfEnding, DfSameTurn
<1>5. u.a[x].from = "other" => ~ DfEnding(u, x)
  BY <1>1, <1>2, <1>4
<1>6. PICK p : p = u.a[x].at
  OBVIOUS
<1>7. p \in 0 .. DfEnd
  BY <1>2, <1>6 DEF DfIsPage, DfIsAnimation
<1>8. t = DfCycle(u, x, p)
  BY <1>1, <1>6 DEF DfRun
<1> QED
  BY <1>2, <1>3, <1>5, <1>7, <1>8, DfCycleWell

\* play() leaves all well.
LEMMA DfPlayWell ==
  ASSUME NEW s, NEW x \in DfAnims, DfWellBut(s, x), DfAllWell(s, x),
         NEW delay \in BOOLEAN, NEW g \in BOOLEAN,
         NEW t, t = DfPlay(s, x, delay, g)
  PROVE  DfWellBut(t, x) /\ DfAllWell(t, x)
<1>1. CASE ~ g /\ DfPlaying(s, x)
  BY <1>1 DEF DfPlay
<1>2. CASE g \/ ~ DfPlaying(s, x)
  <2>1. PICK u : u = DfStarted(s, x, g)
    OBVIOUS
  <2>2. /\ DfIsPage(u) /\ DfCounts(u) /\ DfOthers(s, u, x) /\ DfSameNode(s, u)
        /\ DfSameTurn(s, u) /\ u.a[x].last = s.a[x].last
        /\ u.a[x].from = s.a[x].from /\ u.a[x].caught = s.a[x].caught
        /\ g => /\ ~ u.a[x].timer /\ ~ u.a[x].active /\ ~ u.a[x].paused
                /\ u.a[x].at = 0
        /\ ~ g => /\ u.a[x].timer = s.a[x].timer
                  /\ u.a[x].active = s.a[x].active
                  /\ u.a[x].paused = s.a[x].paused
    BY <2>1, DfStartedEffect DEF DfWellBut
  <2>3. DfWellBut(u, x)
    BY <2>2, DfOthersWell
  <2>4. CASE delay \/ s.a[x].delay
    <3>1. PICK q : q = [u.a[x] EXCEPT !.pending = @ + 1]
      OBVIOUS
    <3>2. t = DfWith(u, x, q)
      BY <1>2, <2>1, <2>4, <3>1 DEF DfPlay, DfWith
    <3>3. /\ DfIsAnimation(q) /\ q.timer = u.a[x].timer /\ q.last = u.a[x].last
          /\ q.from = u.a[x].from /\ q.caught = u.a[x].caught
          /\ q.active = u.a[x].active /\ q.paused = u.a[x].paused
      BY <2>2, <3>1 DEF DfIsPage, DfIsAnimation
    <3>4. /\ DfIsPage(t) /\ DfCounts(t) /\ DfOthers(u, t, x) /\ DfSameNode(u, t)
          /\ DfSameTurn(u, t) /\ t.a[x] = q
      BY <2>2, <3>2, <3>3, DfOneChanged
    <3>5. DfWellBut(t, x)
      BY <2>3, <3>4, DfOthersWell
    <3>6. DfSameNode(s, t) /\ DfSameTurn(s, t) /\ DfEnding(t, x) = DfEnding(s, x)
      BY <2>2, <3>4 DEF DfSameNode, DfSameTurn, DfEnding
    <3>7. DfAtEnd(t, x)
      BY <2>2, <3>3, <3>4, <3>6 DEF DfAllWell, DfAtEnd, DfSameNode
    <3>8. DfFit(t.a[x], DfEnding(t, x), x \in t.turn)
      <4>1. CASE g
        BY <2>2, <3>3, <3>4, <4>1 DEF DfFit
      <4>2. CASE ~ g
        BY <1>2, <2>2, <3>3, <3>4, <3>6, <4>2
        DEF DfAllWell, DfFit, DfSameTurn, DfPlaying
      <4> QED
        BY <4>1, <4>2
    <3> QED
      BY <3>5, <3>7, <3>8 DEF DfAllWell
  <2>5. CASE ~ (delay \/ s.a[x].delay)
    <3>1. t = DfRun(u, x)
      BY <1>2, <2>1, <2>5 DEF DfPlay
    <3> QED
      BY <2>3, <3>1, DfRunWell
  <2> QED
    BY <2>4, <2>5
<1> QED
  BY <1>1, <1>2

\* The count of calls is nobody's business.
LEMMA DfCallWell ==
  ASSUME NEW s, NEW x \in DfAnims, DfWellBut(s, x), DfAllWell(s, x), DfCall(s)
  PROVE  DfInv'
<1>1. df' = [s EXCEPT !.plays = s.plays + 1]
  BY DEF DfCall
<1>2. /\ DOMAIN df' = DOMAIN s /\ df'.a = s.a /\ df'.timer = s.timer
      /\ df'.ctr = s.ctr /\ df'.opacity = s.opacity /\ df'.by = s.by
      /\ df'.turn = s.turn /\ df'.ends = s.ends
  BY <1>1 DEF DfWellBut, DfIsPage
<1>3. DfIsPage(df') /\ DfCounts(df')
  BY <1>2 DEF DfWellBut, DfIsPage, DfCounts, DfHangs
<1>4. \A y \in DfAnims : DfAllWell(s, y)
  BY DEF DfWellBut
<1>5. \A y \in DfAnims : DfAllWell(df', y)
  BY <1>2, <1>4 DEF DfAllWell, DfFit, DfAtEnd, DfEnding
<1> QED
  BY <1>3, <1>5 DEF DfInv

\* What the fields of an animation off the runner are.
LEMMA DfOffFields ==
  ASSUME DfIsPage(df), DfCounts(df), NEW x \in DfAnims,
         NEW u, u = DfStopTimer(df, x)
  PROVE  /\ DfIsPage(u) /\ DfCounts(u) /\ DfIsAnimation(u.a[x])
         /\ DfOthers(df, u, x) /\ DfSameNode(df, u) /\ DfSameTurn(df, u)
         /\ u.a[x].active = df.a[x].active /\ u.a[x].paused = df.a[x].paused
         /\ u.a[x].last = df.a[x].last /\ u.a[x].from = df.a[x].from
         /\ u.a[x].caught = df.a[x].caught /\ ~ u.a[x].timer
<1>1. /\ DfIsPage(u) /\ DfCounts(u) /\ DfOthers(df, u, x) /\ DfSameNode(df, u)
      /\ DfSameTurn(df, u) /\ u.a[x] = DfOff(df.a[x])
  BY DfStopTimerEffect
<1>2. DfIsAnimation(u.a[x]) /\ DfIsAnimation(df.a[x])
  BY <1>1 DEF DfIsPage
<1>3. PICK q, r : q = df.a[x] /\ r = u.a[x]
  OBVIOUS
<1>4. r = DfOff(q) /\ DfIsAnimation(q)
  BY <1>1, <1>2, <1>3
<1>5. /\ r.active = q.active /\ r.paused = q.paused /\ r.caught = q.caught
      /\ ~ r.timer
  BY <1>4 DEF DfOff, DfIsAnimation
<1>6. r.last = q.last /\ r.from = q.from
  BY <1>4 DEF DfOff, DfIsAnimation
<1> QED
  BY <1>1, <1>2, <1>3, <1>5, <1>6

\* An animation that is taken off the runner and stopped or paused.
LEMMA DfRestWell ==
  ASSUME DfInv, NEW x \in DfAnims, NEW u, u = DfStopTimer(df, x), NEW q,
         DfIsAnimation(q), q.timer = u.a[x].timer, ~ (q.active /\ ~ q.paused),
         q.paused /\ x \in df.turn => q.caught,
         q.last \in {u.a[x].last, "onPause", "onStop"},
         NEW t, t = DfWith(u, x, q)
  PROVE  DfWellBut(t, x) /\ DfAllWell(t, x)
<1>1. DfIsPage(df) /\ DfCounts(df) /\ \A y \in DfAnims : DfAllWell(df, y)
  BY DEF DfInv
<1>2. /\ DfIsPage(u) /\ DfCounts(u) /\ DfOthers(df, u, x) /\ DfSameNode(df, u)
      /\ DfSameTurn(df, u) /\ ~ u.a[x].timer /\ u.a[x].last = df.a[x].last
  BY <1>1, DfOffFields
<1>3. /\ DfIsPage(t) /\ DfCounts(t) /\ DfOthers(u, t, x) /\ DfSameNode(u, t)
      /\ DfSameTurn(u, t) /\ t.a[x] = q
  BY <1>2, DfOneChanged
<1>4. DfOthers(df, t, x) /\ DfSameNode(df, t) /\ DfSameTurn(df, t)
  BY <1>2, <1>3 DEF DfOthers, DfSameNode, DfSameTurn
<1>5. DfWellBut(df, x)
  BY <1>1 DEF DfWellBut
<1>6. DfWellBut(t, x)
  BY <1>3, <1>4, <1>5, DfOthersWell
<1>7. DfAtEnd(t, x)
  BY <1>1, <1>2, <1>3, <1>4 DEF DfAllWell, DfAtEnd, DfSameNode
<1>8. DfFit(t.a[x], DfEnding(t, x), x \in t.turn)
  BY <1>2, <1>3, <1>4 DEF DfFit, DfSameTurn
<1> QED
  BY <1>6, <1>7, <1>8 DEF DfAllWell

\* One that does not play leaves the runner.
LEMMA DfOffWell ==
  ASSUME DfInv, NEW x \in DfAnims, NEW u, u = DfStopTimer(df, x),
         ~ DfPlaying(df, x)
  PROVE  DfWellBut(u, x) /\ DfAllWell(u, x)
<1>1. /\ DfIsPage(df) /\ DfCounts(df) /\ DfWellBut(df, x) /\ DfAllWell(df, x)
  BY DEF DfInv, DfWellBut
<1>2. /\ DfIsPage(u) /\ DfCounts(u) /\ DfOthers(df, u, x) /\ DfSameNode(df, u)
      /\ DfSameTurn(df, u) /\ ~ u.a[x].timer /\ u.a[x].last = df.a[x].last
      /\ u.a[x].active = df.a[x].active /\ u.a[x].paused = df.a[x].paused
      /\ u.a[x].caught = df.a[x].caught
  BY <1>1, DfOffFields
<1>3. DfWellBut(u, x)
  BY <1>1, <1>2, DfOthersWell
<1>4. DfAtEnd(u, x)
  BY <1>1, <1>2 DEF DfAllWell, DfAtEnd, DfSameNode
<1>5. DfFit(u.a[x], DfEnding(u, x), x \in u.turn)
  BY <1>1, <1>2 DEF DfAllWell, DfFit, DfSameTurn, DfPlaying
<1> QED
  BY <1>3, <1>4, <1>5 DEF DfAllWell

\* play() and pause().
LEMMA DfPageSteps ==
  ASSUME DfInv, DfPagePlays \/ DfPause
  PROVE  DfInv'
<1>1. DfIsPage(df) /\ DfCounts(df) /\ \A y \in DfAnims : DfAllWell(df, y)
  BY DEF DfInv
<1>2. CASE DfPagePlays
  <2>1. PICK x \in DfAnims, delay \in BOOLEAN, g \in BOOLEAN :
          DfCall(DfPlay(df, x, delay, g))
    BY <1>2 DEF DfPagePlays
  <2>2. PICK t : t = DfPlay(df, x, delay, g)
    OBVIOUS
  <2>3. DfWellBut(t, x) /\ DfAllWell(t, x)
    BY <1>1, <2>2, DfPlayWell DEF DfWellBut
  <2> QED
    BY <2>1, <2>2, <2>3, DfCallWell
<1>3. CASE DfPause
  <2>1. PICK x \in DfAnims :
          LET s == DfStopTimer(df, x)
          IN DfCall(IF ~ s.a[x].active THEN s
                    ELSE [s EXCEPT !.a[x].paused = TRUE, !.a[x].last = "onPause",
                                   !.a[x].caught = x \in df.turn])
    BY <1>3, Zenon DEF DfPause
  <2>turn. (x \in df.turn) \in BOOLEAN
    OBVIOUS
<2>due. PICK c \in BOOLEAN : c = (x \in df.turn)
    BY <2>turn, Zenon
  <2>2. PICK u : u = DfStopTimer(df, x)
    OBVIOUS
  <2>3. DfCall(IF ~ u.a[x].active THEN u
               ELSE [u EXCEPT !.a[x].paused = TRUE, !.a[x].last = "onPause",
                              !.a[x].caught = c])
    BY <2>due, <2>1, <2>2
  <2>4. /\ u = DfStopTimer(df, x) /\ c \in BOOLEAN /\ (x \in df.turn => c)
    BY <2>due, <2>2, Zenon
  <2>5. DfIsPage(u) /\ DfIsAnimation(u.a[x]) /\ u.a[x].active = df.a[x].active
    BY <1>1, <2>4, DfOffFields
  <2>6. CASE u.a[x].active
    <3>1. PICK q, t : /\ q = [u.a[x] EXCEPT !.paused = TRUE, !.last = "onPause",
                                            !.caught = c]
                      /\ t = DfWith(u, x, q)
      OBVIOUS
    <3>2. /\ DfIsAnimation(q) /\ q.timer = u.a[x].timer /\ q.paused
          /\ q.last = "onPause" /\ q.caught = c
      BY <2>4, <2>5, <3>1 DEF DfIsAnimation
    <3>3. DfWellBut(t, x) /\ DfAllWell(t, x)
      BY <2>4, <3>1, <3>2, DfRestWell
    <3>4. t = [u EXCEPT !.a[x].paused = TRUE, !.a[x].last = "onPause",
                        !.a[x].caught = c]
      <4>1. PICK r, w : /\ r = [u.a[x] EXCEPT !.paused = TRUE, !.last = "onPause"]
                        /\ w = [u EXCEPT !.a[x].paused = TRUE, !.a[x].last = "onPause"]
        OBVIOUS
      <4>2. w = DfWith(u, x, r) /\ w.a[x] = r
        BY <2>5, <4>1 DEF DfWith, DfIsPage
      <4>3. q = [r EXCEPT !.caught = c]
        BY <3>1, <4>1
      <4>4. DfWith(w, x, q) = [w EXCEPT !.a[x].caught = c]
        BY <4>2, <4>3 DEF DfWith
      <4>5. t = DfWith(w, x, q)
        BY <2>5, <3>1, <4>2 DEF DfWith, DfIsPage
      <4> QED
        BY <4>1, <4>4, <4>5
    <3> QED
      BY <2>3, <2>6, <3>3, <3>4, DfCallWell
  <2>7. CASE ~ u.a[x].active
    BY <2>3, <2>4, <2>5, <2>7, DfOffWell, DfCallWell DEF DfPlaying
  <2> QED
    BY <2>6, <2>7
<1> QED
  BY <1>2, <1>3

\* gotoPercent(), with and without play.
LEMMA DfGotoPercentStep ==
  ASSUME DfInv, DfGotoPercent
  PROVE  DfInv'
<1>1. DfIsPage(df) /\ DfCounts(df)
  BY DEF DfInv
<1>2. PICK x \in DfAnims, p \in 0 .. DfEnd, play \in BOOLEAN :
         LET s == [DfStopTimer(df, x) EXCEPT !.a[x].active = TRUE,
                     !.a[x].paused = TRUE, !.a[x].at = p,
                     !.a[x].caught = x \in df.turn]
         IN DfCall(IF play THEN DfPlay(s, x, FALSE, FALSE) ELSE s)
  BY Zenon DEF DfGotoPercent
<1>turn. (x \in df.turn) \in BOOLEAN
  OBVIOUS
<1>due. PICK c \in BOOLEAN : c = (x \in df.turn)
  BY <1>turn, Zenon
<1>3. PICK u : u = DfStopTimer(df, x)
  OBVIOUS
<1>4. PICK s : s = [u EXCEPT !.a[x].active = TRUE, !.a[x].paused = TRUE,
                              !.a[x].at = p, !.a[x].caught = c]
  OBVIOUS
<1>5. DfCall(IF play THEN DfPlay(s, x, FALSE, FALSE) ELSE s)
  BY <1>due, <1>2, <1>3, <1>4
<1>6. /\ u = DfStopTimer(df, x) /\ c \in BOOLEAN /\ (x \in df.turn => c)
  BY <1>due, <1>3, Zenon
<1>7. DfIsPage(u) /\ DfIsAnimation(u.a[x])
  BY <1>1, <1>6, DfOffFields
<1>8. PICK q : q = [u.a[x] EXCEPT !.active = TRUE, !.paused = TRUE, !.at = p,
                                  !.caught = c]
  OBVIOUS
<1>9. /\ DfIsAnimation(q) /\ q.timer = u.a[x].timer /\ q.paused
      /\ q.last = u.a[x].last /\ q.caught = c
  BY <1>6, <1>7, <1>8 DEF DfIsAnimation
<1>10. s = DfWith(u, x, q)
  <2>1. PICK r, w : /\ r = [u.a[x] EXCEPT !.active = TRUE, !.paused = TRUE]
                    /\ w = [u EXCEPT !.a[x].active = TRUE, !.a[x].paused = TRUE]
    OBVIOUS
  <2>2. w = DfWith(u, x, r) /\ w.a[x] = r
    BY <1>7, <2>1 DEF DfWith, DfIsPage
  <2>3. PICK k, v : k = [r EXCEPT !.at = p] /\ v = [w EXCEPT !.a[x].at = p]
    OBVIOUS
  <2>4. v = DfWith(w, x, k) /\ v.a[x] = k
    BY <1>7, <2>2, <2>3 DEF DfWith, DfIsPage
  <2>5. s = [v EXCEPT !.a[x].caught = c] /\ q = [k EXCEPT !.caught = c]
    BY <1>4, <1>8, <2>1, <2>3
  <2>6. s = DfWith(v, x, q)
    BY <2>4, <2>5 DEF DfWith
  <2> QED
    BY <1>7, <2>2, <2>4, <2>6 DEF DfWith, DfIsPage
<1>11. DfWellBut(s, x) /\ DfAllWell(s, x)
  BY <1>6, <1>9, <1>10, DfRestWell
<1>12. CASE ~ play
  BY <1>5, <1>11, <1>12, DfCallWell
<1>13. CASE play
  <2>1. PICK t : t = DfPlay(s, x, FALSE, FALSE)
    OBVIOUS
  <2>2. DfWellBut(t, x) /\ DfAllWell(t, x)
    BY <1>11, <2>1, DfPlayWell
  <2> QED
    BY <1>5, <1>13, <2>1, <2>2, DfCallWell
<1> QED
  BY <1>12, <1>13

\* stop()
LEMMA DfStopStep ==
  ASSUME DfInv, DfStop
  PROVE  DfInv'
<1>1. DfIsPage(df) /\ DfCounts(df) /\ \A y \in DfAnims : DfAllWell(df, y)
  BY DEF DfInv
<1>2. PICK x \in DfAnims, toEnd \in BOOLEAN :
        LET u == DfStopTimer(df, x)
        IN DfCall(IF ~ df.a[x].timer THEN df
                  ELSE [u EXCEPT !.a[x].active = FALSE, !.a[x].paused = FALSE,
                                 !.a[x].at = IF toEnd THEN DfEnd ELSE @,
                                 !.a[x].last = "onStop"])
  BY Zenon DEF DfStop
<1>3. PICK u : u = DfStopTimer(df, x)
  OBVIOUS
<1>4. /\ u = DfStopTimer(df, x)
      /\ DfCall(IF ~ df.a[x].timer THEN df
                ELSE [u EXCEPT !.a[x].active = FALSE, !.a[x].paused = FALSE,
                               !.a[x].at = IF toEnd THEN DfEnd ELSE @,
                               !.a[x].last = "onStop"])
  BY <1>2, <1>3
<1>5. CASE ~ df.a[x].timer
  BY <1>1, <1>4, <1>5, DfCallWell DEF DfWellBut
<1>6. CASE df.a[x].timer
  <2>1. DfIsPage(u) /\ DfIsAnimation(u.a[x])
    BY <1>1, <1>4, DfOffFields
  <2>2. PICK s : s = [u EXCEPT !.a[x].active = FALSE, !.a[x].paused = FALSE,
                               !.a[x].at = IF toEnd THEN DfEnd ELSE @,
                               !.a[x].last = "onStop"]
    OBVIOUS
  <2>3. PICK q : q = [u.a[x] EXCEPT !.active = FALSE, !.paused = FALSE,
                                    !.at = IF toEnd THEN DfEnd ELSE @,
                                    !.last = "onStop"]
    OBVIOUS
  <2>4. /\ DfIsAnimation(q) /\ q.timer = u.a[x].timer /\ ~ q.active
        /\ ~ q.paused /\ q.last = "onStop"
    BY <2>1, <2>3 DEF DfIsAnimation, DfEnd
  <2>5. s = DfWith(u, x, q)
    <3>1. PICK r, w : /\ r = [u.a[x] EXCEPT !.active = FALSE, !.paused = FALSE]
                      /\ w = [u EXCEPT !.a[x].active = FALSE, !.a[x].paused = FALSE]
      OBVIOUS
    <3>2. w = DfWith(u, x, r) /\ w.a[x] = r
      BY <2>1, <3>1 DEF DfWith, DfIsPage
    <3>3. PICK at : at = IF toEnd THEN DfEnd ELSE u.a[x].at
      OBVIOUS
    <3>4. r.at = u.a[x].at
      BY <2>1, <3>1 DEF DfIsAnimation
    <3>5. PICK k, v : k = [r EXCEPT !.at = at] /\ v = [w EXCEPT !.a[x].at = at]
      OBVIOUS
    <3>6. v = DfWith(w, x, k) /\ v.a[x] = k
      BY <2>1, <3>1, <3>2, <3>5 DEF DfWith, DfIsPage
    <3>7. s = [v EXCEPT !.a[x].last = "onStop"]
      BY <2>2, <3>1, <3>2, <3>3, <3>4, <3>5
    <3>8. q = [k EXCEPT !.last = "onStop"]
      BY <2>3, <3>1, <3>3, <3>4, <3>5
    <3>9. s = DfWith(v, x, q)
      BY <3>6, <3>7, <3>8 DEF DfWith
    <3> QED
      BY <2>1, <3>2, <3>6, <3>9 DEF DfWith, DfIsPage
  <2>6. DfWellBut(s, x) /\ DfAllWell(s, x)
    BY <1>4, <2>4, <2>5, DfRestWell
  <2> QED
    BY <1>4, <1>6, <2>2, <2>6, DfCallWell
<1> QED
  BY <1>5, <1>6

\* The rest of the last frame: the animation leaves the runner.
LEMMA DfEndOverStep ==
  ASSUME DfInv, DfEndOver
  PROVE  DfInv'
<1>1. DfIsPage(df) /\ DfCounts(df) /\ \A y \in DfAnims : DfAllWell(df, y)
  BY DEF DfInv
<1>2. PICK x, u, t : x = Head(df.ends) /\ u = DfStopTimer(df, x) /\ t = df'
  OBVIOUS
<1>3. df.ends # <<>> /\ t = [u EXCEPT !.ends = Tail(u.ends)]
  BY <1>2 DEF DfEndOver
<1>4. x \in DfAnims /\ df.ends \in Seq(DfAnims) /\ DfIsPage(df)
  BY <1>1, <1>2, <1>3 DEF DfIsPage
<1>5. /\ DfIsPage(u) /\ DfCounts(u) /\ DfOthers(df, u, x) /\ DfSameNode(df, u)
      /\ DfSameTurn(df, u)
      /\ u.a[x].active = df.a[x].active /\ u.a[x].paused = df.a[x].paused
      /\ u.a[x].last = df.a[x].last /\ u.a[x].from = df.a[x].from
      /\ u.a[x].caught = df.a[x].caught /\ ~ u.a[x].timer
  BY <1>1, <1>2, <1>4, DfOffFields
<1>6. /\ DOMAIN t = DOMAIN u /\ t.a = u.a /\ t.ctr = u.ctr /\ t.timer = u.timer
      /\ t.turn = u.turn /\ t.opacity = u.opacity /\ t.by = u.by
      /\ t.ends = Tail(df.ends)
  BY <1>3, <1>5 DEF DfIsPage, DfSameTurn
<1>7. /\ t.ends \in Seq(DfAnims) /\ DfEnding(df, x)
      /\ \A y \in DfAnims \ {x} : DfEnding(t, y) <=> DfEnding(df, y)
  BY <1>2, <1>3, <1>4, <1>6, DfEndingOver
<1>8. DfIsPage(t) /\ DfCounts(t)
  BY <1>5, <1>6, <1>7 DEF DfIsPage, DfCounts, DfHangs
<1>9. ASSUME NEW y \in DfAnims PROVE DfAtEnd(t, y)
  <2>1. DfAtEnd(df, y) /\ t.a[y].last = df.a[y].last
    BY <1>1, <1>5, <1>6 DEF DfAllWell, DfOthers
  <2> QED
    BY <1>5, <1>6, <2>1 DEF DfAtEnd, DfSameNode
<1>10. ASSUME NEW y \in DfAnims \ {x}
       PROVE  DfFit(t.a[y], DfEnding(t, y), y \in t.turn)
  <2>1. DfFit(df.a[y], DfEnding(df, y), y \in df.turn)
    BY <1>1 DEF DfAllWell
  <2>2. t.a[y] = df.a[y] /\ t.turn = df.turn
    BY <1>5, <1>6 DEF DfOthers, DfSameTurn
  <2> QED
    BY <1>7, <2>1, <2>2 DEF DfFit
<1>11. DfFit(t.a[x], DfEnding(t, x), x \in t.turn)
  <2>1. DfFit(df.a[x], DfEnding(df, x), x \in df.turn)
    BY <1>1, <1>4 DEF DfAllWell
  <2>2. t.a[x] = u.a[x] /\ t.turn = df.turn
    BY <1>5, <1>6 DEF DfSameTurn
  <2> QED
    BY <1>5, <1>7, <2>1, <2>2 DEF DfFit
<1>12. \A y \in DfAnims : DfAllWell(t, y)
  BY <1>9, <1>10, <1>11 DEF DfAllWell
<1> QED
  BY <1>2, <1>8, <1>12 DEF DfInv

\* What the clock does.
LEMMA DfClockSteps ==
  ASSUME DfInv, DfDelayOver \/ DfInterval \/ DfFrame
  PROVE  DfInv'
<1>1. /\ DfIsPage(df) /\ DfCounts(df)
      /\ \A y \in DfAnims : DfAllWell(df, y) /\ DfWellBut(df, y)
  BY DEF DfInv, DfWellBut
<1>2. CASE DfDelayOver
  <2>1. PICK x \in DfAnims : df' = DfRun([df EXCEPT !.a[x].pending = @ - 1], x)
    BY <1>2 DEF DfDelayOver
  <2>2. PICK q, u : /\ q = [df.a[x] EXCEPT !.pending = @ - 1]
                    /\ u = DfWith(df, x, q)
    OBVIOUS
  <2>3. DfIsAnimation(q) /\ q.timer = df.a[x].timer
    BY <1>1, <2>2 DEF DfIsPage, DfIsAnimation
  <2>4. /\ DfIsPage(u) /\ DfCounts(u) /\ DfOthers(df, u, x) /\ DfSameNode(df, u)
        /\ DfSameTurn(df, u)
    BY <1>1, <2>2, <2>3, DfOneChanged
  <2>5. DfWellBut(u, x)
    BY <1>1, <2>4, DfOthersWell
  <2>6. PICK t : t = DfRun(u, x)
    OBVIOUS
  <2>7. df' = t
    BY <2>1, <2>2, <2>6 DEF DfWith
  <2>8. DfWellBut(t, x) /\ DfAllWell(t, x)
    BY <2>5, <2>6, DfRunWell
  <2> QED
    BY <2>7, <2>8 DEF DfInv, DfWellBut
<1>3. CASE DfInterval
  <2>1. PICK t : t = df'
    OBVIOUS
  <2>2. t = [df EXCEPT !.turn = {x \in DfAnims : df.a[x].timer}]
    BY <1>3, <2>1 DEF DfInterval
  <2>3. /\ DOMAIN t = DOMAIN df /\ t.a = df.a /\ t.ctr = df.ctr /\ t.timer = df.timer
        /\ t.ends = df.ends /\ t.opacity = df.opacity /\ t.by = df.by
        /\ t.turn = {x \in DfAnims : df.a[x].timer}
    BY <1>1, <2>2 DEF DfIsPage
  <2>4. DfIsPage(t) /\ DfCounts(t)
    BY <1>1, <2>3 DEF DfIsPage, DfCounts, DfHangs
  <2>5. ASSUME NEW y \in DfAnims PROVE DfAllWell(t, y)
    <3>1. DfFit(df.a[y], DfEnding(df, y), y \in df.turn) /\ DfAtEnd(df, y)
      BY <1>1 DEF DfAllWell
    <3>2. DfEnding(t, y) = DfEnding(df, y) /\ (y \in t.turn <=> df.a[y].timer)
      BY <2>3 DEF DfEnding
    <3> QED
      BY <2>3, <3>1, <3>2 DEF DfAllWell, DfFit, DfAtEnd
  <2> QED
    BY <2>1, <2>4, <2>5 DEF DfInv
<1>4. CASE DfFrame
  <2>1. PICK x \in df.turn, p \in 0 .. DfEnd :
          df' = DfCycle([df EXCEPT !.turn = @ \ {x}], x, p)
    BY <1>4 DEF DfFrame
  <2>2. PICK u, t : u = [df EXCEPT !.turn = @ \ {x}] /\ t = DfCycle(u, x, p)
    OBVIOUS
  <2>3. x \in DfAnims /\ df' = t
    BY <1>1, <2>1, <2>2 DEF DfIsPage
  <2>4. /\ DOMAIN u = DOMAIN df /\ u.a = df.a /\ u.ctr = df.ctr /\ u.timer = df.timer
        /\ u.ends = df.ends /\ u.opacity = df.opacity /\ u.by = df.by
        /\ u.turn = df.turn \ {x}
    BY <1>1, <2>2 DEF DfIsPage
  <2>5. DfIsPage(u) /\ DfCounts(u)
    BY <1>1, <2>4 DEF DfIsPage, DfCounts, DfHangs
  <2>6. ASSUME NEW y \in DfAnims PROVE DfAllWell(u, y)
    <3>1. DfFit(df.a[y], DfEnding(df, y), y \in df.turn) /\ DfAtEnd(df, y)
      BY <1>1 DEF DfAllWell
    <3>2. DfEnding(u, y) = DfEnding(df, y)
      BY <2>4 DEF DfEnding
    <3> QED
      BY <2>4, <3>1, <3>2 DEF DfAllWell, DfFit, DfAtEnd
  <2>7. DfWellBut(u, x)
    BY <2>5, <2>6 DEF DfWellBut
  <2>8. CASE ~ u.a[x].active
    <3>1. t = u
      BY <2>2, <2>8 DEF DfCycle
    <3> QED
      BY <2>3, <2>5, <2>6, <3>1 DEF DfInv
  <2>9. CASE u.a[x].active
    <3>1. DfFit(df.a[x], DfEnding(df, x), TRUE) /\ DfEnding(u, x) = DfEnding(df, x)
      BY <1>1, <2>1, <2>3, <2>4 DEF DfAllWell, DfEnding, DfFit
    <3>2. /\ u.a[x].paused => u.a[x].caught
          /\ ~ u.a[x].paused /\ u.a[x].from = "other" => ~ DfEnding(u, x)
      BY <2>4, <2>9, <3>1 DEF DfFit
    <3>3. DfWellBut(t, x) /\ DfAllWell(t, x)
      BY <2>2, <2>3, <2>7, <2>9, <3>2, DfCycleWell
    <3> QED
      BY <2>3, <3>3 DEF DfInv, DfWellBut
  <2> QED
    BY <2>8, <2>9
<1> QED
  BY <1>2, <1>3, <1>4

\* The invariant says what is promised.
LEMMA DfInvSound == DfInv => DfSound
<1> SUFFICES ASSUME DfInv PROVE DfSound
  OBVIOUS
<1>1. /\ DfIsPage(df) /\ DfCounts(df)
      /\ \A x \in DfAnims : /\ DfFit(df.a[x], DfEnding(df, x), x \in df.turn)
                            /\ DfAtEnd(df, x)
  BY DEF DfInv, DfAllWell
<1>2. Cardinality({x \in DfAnims : df.a[x].timer})
        = DfHangs(df, DfOut) + DfHangs(df, DfIn)
  <2> DEFINE H == {x \in DfAnims : df.a[x].timer}
  <2>1. H \subseteq DfAnims /\ DfOut # DfIn
    BY DEF DfOut, DfIn
  <2>2. CASE H = {}
    BY <2>2, FS_EmptySet DEF DfHangs, DfAnims
  <2>3. \A x \in DfAnims : DfHangs(df, x) = IF x \in H THEN 1 ELSE 0
    BY DEF DfHangs
  <2>4. DfOut \in DfAnims /\ DfIn \in DfAnims
    BY DEF DfAnims
  <2>5. \A x : Cardinality({x}) = 1 /\ IsFiniteSet({x})
    BY FS_Singleton
  <2> HIDE DEF H
  <2>6. CASE H = {DfOut}
    <3>1. DfHangs(df, DfOut) = 1 /\ DfHangs(df, DfIn) = 0
      BY <2>1, <2>6, <2>3, <2>4
    <3>2. Cardinality(H) = 1
      BY <2>6, <2>5
    <3> QED
      BY <3>1, <3>2 DEF H
  <2>7. CASE H = {DfIn}
    <3>1. DfHangs(df, DfOut) = 0 /\ DfHangs(df, DfIn) = 1
      BY <2>1, <2>7, <2>3, <2>4
    <3>2. Cardinality(H) = 1
      BY <2>7, <2>5
    <3> QED
      BY <3>1, <3>2 DEF H
  <2>8. CASE H = {DfOut, DfIn}
    <3>1. H = {DfOut} \cup {DfIn} /\ DfIn \notin {DfOut}
      BY <2>1, <2>8
    <3>2. Cardinality({DfOut} \cup {DfIn}) = Cardinality({DfOut}) + 1
      BY <2>5, <3>1, FS_AddElement
    <3>3. DfHangs(df, DfOut) = 1 /\ DfHangs(df, DfIn) = 1
      BY <2>8, <2>3, <2>4
    <3> QED
      BY <2>5, <3>1, <3>2, <3>3 DEF H
  <2> QED
    BY <2>1, <2>2, <2>6, <2>7, <2>8 DEF DfAnims, H
<1>3. DfCounted
  BY <1>1, <1>2 DEF DfCounted, DfCounts
<1>4. DfOnlyPlayingRun /\ DfFrozenByItsEnd
  BY <1>1 DEF DfOnlyPlayingRun, DfFrozenByItsEnd, DfFit, DfPlaying
<1>5. DfReached
  BY <1>1 DEF DfReached, DfAtEnd
<1> QED
  BY <1>3, <1>4, <1>5 DEF DfSound

\* As the page is made, nothing plays.
LEMMA DfInitInv == DfInit => DfInv
<1> SUFFICES ASSUME DfInit PROVE DfInv
  OBVIOUS
<1>1. PICK delay \in [DfAnims -> BOOLEAN], repeat \in [DfAnims -> -1 .. DfMaxRepeats] :
        df = [a |-> [x \in DfAnims |-> DfAnimation(delay[x], repeat[x])],
              ctr |-> 0, timer |-> FALSE, turn |-> {}, ends |-> <<>>,
              opacity |-> DfOpaque, by |-> 0, plays |-> 0]
  BY DEF DfInit
<1>2. \A x \in DfAnims : /\ DfIsAnimation(df.a[x]) /\ ~ df.a[x].timer
                         /\ ~ df.a[x].active /\ ~ df.a[x].paused
                         /\ df.a[x].last = "none"
  <2> SUFFICES ASSUME NEW x \in DfAnims
               PROVE  /\ DfIsAnimation(df.a[x]) /\ ~ df.a[x].timer
                      /\ ~ df.a[x].active /\ ~ df.a[x].paused
                      /\ df.a[x].last = "none"
    OBVIOUS
  <2>1. PICK d, r : d = delay[x] /\ r = repeat[x]
    OBVIOUS
  <2>2. df.a[x] = DfAnimation(d, r)
    BY <1>1, <2>1
  <2>3. DfIsAnimation(DfAnimation(d, r))
    BY DEF DfAnimation, DfIsAnimation, DfEnd
  <2>4. /\ ~ DfAnimation(d, r).timer /\ ~ DfAnimation(d, r).active
        /\ ~ DfAnimation(d, r).paused /\ DfAnimation(d, r).last = "none"
    BY DEF DfAnimation
  <2> QED
    BY <2>2, <2>3, <2>4
<1>3. /\ DOMAIN df = {"a", "ctr", "timer", "turn", "ends", "opacity", "by", "plays"}
      /\ df.timer \in BOOLEAN /\ ~ df.timer /\ df.opacity \in Int
      /\ df.turn \subseteq DfAnims /\ df.ends \in Seq(DfAnims)
      /\ DOMAIN df.a = DfAnims /\ df.ctr = 0
  BY <1>1 DEF DfOpaque, DfEnd
<1> QED
  BY <1>2, <1>3 DEF DfInv, DfIsPage, DfCounts, DfHangs, DfAnims, DfAllWell,
                    DfFit, DfAtEnd

\* Nothing changes.
LEMMA DfUnchanged == DfInv /\ UNCHANGED df => DfInv'
BY DEF DfInv, DfIsPage, DfCounts, DfHangs, DfAllWell, DfFit, DfAtEnd, DfEnding

\* Every step.
LEMMA DfNextInv == DfInv /\ DfNext => DfInv'
BY DfPageSteps, DfGotoPercentStep, DfStopStep, DfEndOverStep, DfClockSteps DEF DfNext


\* A step of the animations' page is one of theirs, and no step changes pages.
LEMMA DfPage ==
  ASSUME [Next]_pages
  PROVE  /\ page' = "animation" => page = "animation"
         /\ page = "animation" => DfNext \/ UNCHANGED df
BY DEF Next, pages, PgFxStep, PgLbStep, PgNsStep, PgImStep, PgAjStep, PgDrStep,
       PgAcStep, PgTiStep, PgGrStep, PgDcStep, PgXhStep, PgDfStep, PgLdStep,
       PgDqStep, PgGnStep, PgDtStep, PgTpStep, PgLeStep, PgDmStep

\* The runner counts the animations that hang on it; one that is stopped leaves
\* it, one that is paused does unless a listener of another's end paused it in a
\* turn that still called it; one is left playing behind it only in a run that
\* its own last frame began; and the node is where the animation that ended last
\* leads.  For every number of calls, of the page or of listeners, and repeats.
THEOREM AnimationsAreSound == Spec => []PageDf
<1>1. Init => (page = "animation" => DfInv)
  BY DfInitInv DEF Init
<1>2. (page = "animation" => DfInv) /\ [Next]_pages
        => (page = "animation" => DfInv)'
  BY DfPage, DfUnchanged, DfNextInv
<1> QED
  BY <1>1, <1>2, DfInvSound, PTL DEF Spec, PageDf, pages

-----------------------------------------------------------------------------
(* The light box.                                                           *)

\* A step of the light box's page is one of the light box.
LEMMA LbPage ==
  ASSUME [Next]_pages
  PROVE  /\ page' = "lightbox" => page = "lightbox"
         /\ page = "lightbox" => LbNext \/ UNCHANGED lb
BY DEF Next, pages, PgFxStep, PgLbStep, PgNsStep, PgImStep, PgAjStep, PgDrStep,
       PgAcStep, PgTiStep, PgGrStep, PgDcStep, PgXhStep, PgDfStep, PgLdStep,
       PgDqStep, PgGnStep, PgDtStep, PgTpStep, PgLeStep, PgDmStep

LbEffects == {"overlay", "resize", "image", "bottom"}
LbSteps   == LbEffects \ {"overlay"}

\* The fields of the page and of an effect, as far as their types matter: every
\* effect waits, only the overlay's end is linked to anything.
LbIsEffect(q) ==
  /\ DOMAIN q = {"wait", "run", "ripe", "chain"}
  /\ q.wait = TRUE /\ q.run \in {0, 1} /\ q.ripe \in BOOLEAN
  /\ q.ripe => q.run = 1

LbIsPage(s) ==
  /\ DOMAIN s = {"fx", "pend", "log", "step", "active", "preload", "loads",
                 "shown", "bottom", "opacity", "to", "listening", "height",
                 "width", "picture", "moves", "opens", "raced"}
  /\ DOMAIN s.fx = LbEffects /\ \A f \in LbEffects : LbIsEffect(s.fx[f])
  /\ \A f \in LbSteps : s.fx[f].chain = <<>>
  /\ DOMAIN s.to = {"h", "w", "o"}
  /\ s.raced \in BOOLEAN /\ s.moves \in Nat /\ DOMAIN s.loads \subseteq 1 .. s.moves

\* The images whose onload takes the next step.
LbLoading(s) == {n \in DOMAIN s.loads : s.loads[n]}

\* No effect of a step runs.
LbQuiet(s) == \A f \in LbSteps : s.fx[f].run = 0

\* Nothing takes a next step.
LbRests(s) == LbLoading(s) = {} /\ LbQuiet(s) /\ s.pend = <<>>

\* Only the effect f, or what its end has delayed, takes the next step.
LbWorks(s, f) ==
  /\ LbLoading(s) = {} /\ \A g \in LbSteps \ {f} : s.fx[g].run = 0
  /\ \/ s.fx[f].run = 1 /\ s.pend = <<>>
     \/ s.fx[f].run = 0 /\ s.pend = <<<<"nextEffect", f, 1>>>>

LbHigh(s) == s.height = LbHeight[s.active]
LbWide(s) == s.width = LbWidth[s.active]
LbShows(s) == LbHigh(s) /\ LbWide(s) /\ s.picture = s.active /\ s.bottom

\* An open box: what each step of the walk waits for, and what is done by then.
LbStepInv(s) ==
  /\ s.step = 0 => LbRests(s) /\ LbShows(s)
  /\ s.step = 1 => LbLoading(s) = {s.preload} /\ LbQuiet(s) /\ s.pend = <<>>
  /\ s.step = 2 => /\ LbWorks(s, "resize") /\ s.to.w = 0
                   /\ IF s.fx["resize"].run = 1 THEN s.to.h = LbHeight[s.active]
                                                ELSE LbHigh(s)
  /\ s.step = 3 => /\ LbWorks(s, "resize") /\ s.to.h = 0 /\ LbHigh(s)
                   /\ IF s.fx["resize"].run = 1 THEN s.to.w = LbWidth[s.active]
                                                ELSE LbWide(s)
  /\ s.step = 4 => /\ LbWorks(s, "image") /\ LbHigh(s) /\ LbWide(s) /\ s.bottom
                   /\ s.fx["image"].run = 0 => s.picture = s.active
  /\ s.step = 5 => LbWorks(s, "bottom") /\ LbShows(s)

LbOpened(s) ==
  /\ s.shown /\ s.listening /\ s.step \in 0 .. 5 /\ s.active \in LbImages
  /\ s.fx["overlay"].chain = <<>> /\ LbStepInv(s)

\* A closed box: the overlay fades, and setup(false) follows its end; a step of
\* the walk that was on its way comes before that, and comes to nothing.
LbStray(s) == \E f \in LbSteps : s.pend = <<<<"nextEffect", f, 1>>>>

LbFades(s) ==
  /\ s.listening /\ s.step \in {-1, 0} /\ s.to.o = 0
  /\ s.fx["overlay"].run = 1 /\ s.fx["overlay"].chain = <<"setup(false)">>
  /\ \/ s.pend = <<>>
     \/ LbStray(s) /\ s.step = -1 /\ ~s.fx["overlay"].ripe

LbFaded(s) ==
  /\ s.listening /\ s.step \in {-1, 0} /\ s.opacity = 0
  /\ s.fx["overlay"].run = 0 /\ s.fx["overlay"].chain = <<>>
  /\ s.pend = <<<<"link", "overlay", "setup(false)">>>>

LbGone(s) ==
  /\ ~s.listening /\ s.step = 0 /\ s.opacity = 0
  /\ s.fx["overlay"].run = 0 /\ s.fx["overlay"].chain = <<>> /\ s.pend = <<>>

LbClosed(s) ==
  /\ ~s.shown /\ ~s.bottom /\ LbLoading(s) = {} /\ LbQuiet(s)
  /\ LbFades(s) \/ LbFaded(s) \/ LbGone(s)

LbInvOf(s) == LbIsPage(s) /\ (~s.raced => LbOpened(s) \/ LbClosed(s))

LbInv == LbInvOf(lb)

-----------------------------------------------------------------------------
(* What the methods of the effects do to one of them.                      *)

\* The fields that the methods of MooBase leave as they are.
LbKept(s, t) ==
  /\ t.step = s.step /\ t.active = s.active /\ t.preload = s.preload
  /\ t.loads = s.loads /\ t.shown = s.shown /\ t.bottom = s.bottom
  /\ t.opacity = s.opacity /\ t.to = s.to /\ t.listening = s.listening
  /\ t.height = s.height /\ t.width = s.width /\ t.picture = s.picture
  /\ t.moves = s.moves /\ t.opens = s.opens /\ t.raced = s.raced

\* The effect f comes to run and to be ripe or not; the others stay as they are.
LbMoves(s, t, f, run, ripe) ==
  /\ LbIsPage(t) /\ LbKept(s, t)
  /\ t.fx[f].run = run /\ t.fx[f].ripe = ripe
  /\ \A g \in LbEffects \ {f} : t.fx[g] = s.fx[g]

\* An effect of a page is replaced.
LEMMA LbEffectSet ==
  ASSUME NEW s, LbIsPage(s), NEW f \in LbEffects, NEW q, LbIsEffect(q),
         q.chain = s.fx[f].chain \/ f = "overlay",
         NEW t, DOMAIN t = DOMAIN s, LbKept(s, t), t.fx = [s.fx EXCEPT ![f] = q]
  PROVE  LbMoves(s, t, f, q.run, q.ripe) /\ t.fx[f] = q
<1>1. DOMAIN t.fx = LbEffects /\ t.fx[f] = q /\ \A g \in LbEffects \ {f} : t.fx[g] = s.fx[g]
  BY DEF LbIsPage
<1>2. \A g \in LbEffects : LbIsEffect(t.fx[g])
  BY <1>1 DEF LbIsPage
<1>3. \A g \in LbSteps : t.fx[g].chain = <<>>
  BY <1>1 DEF LbIsPage, LbSteps
<1>4. /\ DOMAIN t.to = {"h", "w", "o"} /\ t.raced \in BOOLEAN /\ t.moves \in Nat
      /\ DOMAIN t.loads \subseteq 1 .. t.moves
  BY DEF LbIsPage, LbKept
<1>5. LbIsPage(t)
  BY <1>1, <1>2, <1>3, <1>4 DEF LbIsPage
<1> QED
  BY <1>1, <1>5 DEF LbMoves

\* start()
LEMMA LbStartEffect ==
  ASSUME NEW s, LbIsPage(s), NEW f \in LbEffects, NEW t, t = MooStart(s, f, 1)
  PROVE  /\ LbMoves(s, t, f, 1, s.fx[f].ripe) /\ t.pend = s.pend
         /\ t.fx[f].chain = s.fx[f].chain
<1>1. LbIsEffect(s.fx[f])
  BY DEF LbIsPage
<1>2. CASE s.fx[f].run # 0
  <2>1. t = s
    BY <1>1, <1>2 DEF MooStart, MooIgnored, LbIsEffect
  <2> QED
    BY <1>1, <1>2, <2>1 DEF LbMoves, LbKept, LbIsEffect
<1>3. CASE s.fx[f].run = 0
  <2>1. t = [[s EXCEPT !.fx[f].run = 1] EXCEPT !.log = Append(@, <<"onStart", f, 1>>)]
    BY <1>1, <1>3 DEF MooStart, MooIgnored, MooFire, LbIsEffect
  <2>2. PICK q : q = [s.fx[f] EXCEPT !.run = 1]
    OBVIOUS
  <2>3. LbIsEffect(q) /\ q.run = 1 /\ q.ripe = s.fx[f].ripe /\ q.chain = s.fx[f].chain
    BY <1>1, <2>2 DEF LbIsEffect
  <2>4. /\ DOMAIN t = DOMAIN s /\ LbKept(s, t) /\ t.pend = s.pend
        /\ t.fx = [s.fx EXCEPT ![f] = q]
    BY <2>1, <2>2 DEF LbIsPage, LbKept
  <2> QED
    BY <2>3, <2>4, LbEffectSet
<1> QED
  BY <1>2, <1>3

\* stop()
LEMMA LbStopEffect ==
  ASSUME NEW s, LbIsPage(s), NEW f \in LbEffects, NEW e \in BOOLEAN,
         NEW t, t = MooStop(s, f, e)
  PROVE  /\ LbMoves(s, t, f, 0, FALSE) /\ t.pend = s.pend
         /\ t.fx[f].chain = s.fx[f].chain
<1>1. LbIsEffect(s.fx[f])
  BY DEF LbIsPage
<1>2. CASE s.fx[f].run = 0
  <2>1. t = s
    BY <1>2 DEF MooStop
  <2>2. s.fx[f].ripe = FALSE
    BY <1>1, <1>2 DEF LbIsEffect
  <2> QED
    BY <1>2, <2>1, <2>2 DEF LbMoves, LbKept
<1>3. CASE s.fx[f].run # 0
  <2>1. PICK q : q = [s.fx[f] EXCEPT !.run = 0, !.ripe = FALSE]
    OBVIOUS
  <2>2. LbIsEffect(q) /\ q.run = 0 /\ q.ripe = FALSE /\ q.chain = s.fx[f].chain
    BY <1>1, <2>1 DEF LbIsEffect
  <2>8. LbIsEffect(q) /\ q.chain = s.fx[f].chain
    BY <2>2
  <2>3. PICK r : r = [s EXCEPT !.fx[f] = q]
    OBVIOUS
  <2>4. /\ DOMAIN r = DOMAIN s /\ LbKept(s, r) /\ r.pend = s.pend
        /\ r.fx = [s.fx EXCEPT ![f] = q]
    BY <2>1, <2>3 DEF LbIsPage, LbKept
  <2>5. t = r \/ t = [r EXCEPT !.log = Append(@, <<"onCancel", f, s.fx[f].run>>)]
    <3>1. t = IF e THEN r ELSE MooFire(r, "onCancel", f, s.fx[f].run)
      BY <1>3, <2>1, <2>3 DEF MooStop
    <3> QED
      BY <3>1 DEF MooFire
  <2>6. /\ DOMAIN t = DOMAIN s /\ LbKept(s, t) /\ t.pend = s.pend
        /\ t.fx = [s.fx EXCEPT ![f] = q]
    BY <2>4, <2>5 DEF LbIsPage, LbKept
  <2>7. LbMoves(s, t, f, q.run, q.ripe) /\ t.fx[f] = q
    <3>1. DOMAIN t = DOMAIN s
      BY <2>6
    <3>2. LbKept(s, t)
      BY <2>6
    <3>3. t.fx = [s.fx EXCEPT ![f] = q]
      BY <2>6
    <3>4. LbIsPage(s) /\ f \in LbEffects
      OBVIOUS
    <3>5. LbMoves(s, t, f, q.run, q.ripe)
      BY <2>8, <3>1, <3>2, <3>3, <3>4, LbEffectSet
    <3>6. t.fx[f] = q
      BY <3>3 DEF LbIsPage
    <3> QED
      BY <3>5, <3>6
  <2> QED
    BY <2>2, <2>6, <2>7 DEF LbMoves
<1> QED
  BY <1>2, <1>3

-----------------------------------------------------------------------------
(* The walk of the steps.                                                  *)

\* An open box on the way between two steps.
LbOnWay(s) ==
  /\ s.shown /\ s.listening /\ s.active \in LbImages /\ LbRests(s)
  /\ s.fx["overlay"].chain = <<>>

\* An effect is started on the way: it takes the next step.
LEMMA LbStartWorks ==
  ASSUME NEW s, LbIsPage(s), NEW f \in LbSteps, NEW t, LbMoves(s, t, f, 1, s.fx[f].ripe),
         t.pend = s.pend, LbOnWay(s)
  PROVE  /\ LbWorks(t, f) /\ t.fx[f].run = 1 /\ t.shown /\ t.listening
         /\ t.active \in LbImages /\ t.fx["overlay"].chain = <<>>
<1>1. LbLoading(t) = {} /\ t.pend = <<>>
  BY DEF LbOnWay, LbRests, LbMoves, LbKept, LbLoading
<1>2. \A g \in LbEffects \ {f} : t.fx[g] = s.fx[g]
  BY DEF LbMoves
<1>3. \A g \in LbSteps \ {f} : t.fx[g].run = 0
  BY <1>2 DEF LbOnWay, LbRests, LbQuiet, LbSteps
<1>4. t.fx["overlay"].chain = <<>>
  BY <1>2 DEF LbOnWay, LbSteps, LbEffects
<1> QED
  BY <1>1, <1>3, <1>4 DEF LbWorks, LbMoves, LbKept, LbOnWay

\* A page of which some fields change that no effect has.
LEMMA LbFieldsSet ==
  ASSUME NEW s, LbIsPage(s), NEW t, DOMAIN t = DOMAIN s, t.fx = s.fx,
         DOMAIN t.to = {"h", "w", "o"}, t.raced \in BOOLEAN,
         t.moves \in Nat, DOMAIN t.loads \subseteq 1 .. t.moves
  PROVE  LbIsPage(t)
BY DEF LbIsPage

\* The image is faded in.
LEMMA LbFadeInEffect ==
  ASSUME NEW s, LbIsPage(s), NEW t, t = LbFadeIn(s)
  PROVE  /\ LbIsPage(t) /\ t.raced = s.raced
         /\ LbOnWay(s) /\ s.step = 4 /\ LbHigh(s) /\ LbWide(s) => LbOpened(t)
<1>1. PICK u : u = MooStart(s, "image", 1)
  OBVIOUS
<1>2. LbMoves(s, u, "image", 1, s.fx["image"].ripe) /\ u.pend = s.pend
  BY <1>1, LbStartEffect DEF LbEffects
<1>3. t = [u EXCEPT !.bottom = TRUE]
  BY <1>1 DEF LbFadeIn
<1>4. LbIsPage(u) /\ LbKept(s, u)
  BY <1>2 DEF LbMoves
<1>5. /\ DOMAIN t = DOMAIN u /\ t.fx = u.fx /\ t.to = u.to /\ t.raced = u.raced
      /\ t.moves = u.moves /\ t.loads = u.loads /\ t.pend = u.pend /\ t.bottom
      /\ t.step = u.step /\ t.active = u.active /\ t.height = u.height
      /\ t.width = u.width /\ t.shown = u.shown /\ t.listening = u.listening
  BY <1>3, <1>4 DEF LbIsPage
<1>6. LbIsPage(t)
  BY <1>4, <1>5, LbFieldsSet DEF LbIsPage
<1>7. ASSUME LbOnWay(s), s.step = 4, LbHigh(s), LbWide(s)
      PROVE  LbOpened(t)
  <2>1. /\ LbWorks(u, "image") /\ u.fx["image"].run = 1 /\ u.shown /\ u.listening
        /\ u.active \in LbImages /\ u.fx["overlay"].chain = <<>>
    BY <1>2, <1>7, LbStartWorks DEF LbSteps, LbEffects
  <2>2. LbWorks(t, "image")
    BY <1>5, <2>1 DEF LbWorks, LbLoading
  <2>3. t.step = 4 /\ LbHigh(t) /\ LbWide(t)
    BY <1>4, <1>5, <1>7 DEF LbKept, LbHigh, LbWide
  <2> QED
    BY <1>5, <2>1, <2>2, <2>3 DEF LbOpened, LbStepInv
<1> QED
  BY <1>4, <1>5, <1>6, <1>7 DEF LbKept

\* The box is resized in width, or is right and the image is faded in.
LEMMA LbResizeWidthEffect ==
  ASSUME NEW s, LbIsPage(s), NEW t, t = LbResizeWidth(s)
  PROVE  /\ LbIsPage(t) /\ t.raced = s.raced
         /\ LbOnWay(s) /\ s.step = 3 /\ LbHigh(s) => LbOpened(t)
<1>1. CASE s.width # LbWidth[s.active]
  <2>1. PICK u : u = MooStart(s, "resize", 1)
    OBVIOUS
  <2>2. LbMoves(s, u, "resize", 1, s.fx["resize"].ripe) /\ u.pend = s.pend
    BY <2>1, LbStartEffect DEF LbEffects
  <2>3. t = [u EXCEPT !.to = IF MooIgnored(s, "resize") THEN @
                             ELSE [@ EXCEPT !.h = 0, !.w = LbWidth[s.active]]]
    BY <1>1, <2>1 DEF LbResizeWidth
  <2>4. LbIsPage(u) /\ LbKept(s, u)
    BY <2>2 DEF LbMoves
  <2>5. /\ DOMAIN t = DOMAIN u /\ t.fx = u.fx /\ t.raced = u.raced
        /\ t.moves = u.moves /\ t.loads = u.loads /\ t.pend = u.pend
        /\ t.step = u.step /\ t.active = u.active /\ t.height = u.height
        /\ t.width = u.width /\ t.shown = u.shown /\ t.listening = u.listening
    BY <2>3, <2>4 DEF LbIsPage
  <2>6. DOMAIN t.to = {"h", "w", "o"}
    BY <2>3, <2>4 DEF LbIsPage
  <2>7. LbIsPage(t)
    BY <2>4, <2>5, <2>6, LbFieldsSet DEF LbIsPage
  <2>8. ASSUME LbOnWay(s), s.step = 3, LbHigh(s)
        PROVE  LbOpened(t)
    <3>1. /\ LbWorks(u, "resize") /\ u.fx["resize"].run = 1 /\ u.shown /\ u.listening
          /\ u.active \in LbImages /\ u.fx["overlay"].chain = <<>>
      BY <2>2, <2>8, LbStartWorks DEF LbSteps, LbEffects
    <3>2. LbWorks(t, "resize")
      BY <2>5, <3>1 DEF LbWorks, LbLoading
    <3>3. t.step = 3 /\ LbHigh(t)
      BY <2>4, <2>5, <2>8 DEF LbKept, LbHigh
    <3>4. ~ MooIgnored(s, "resize")
      BY <2>8 DEF LbOnWay, LbRests, LbQuiet, MooIgnored, LbSteps, LbEffects
    <3>5. t.to.h = 0 /\ t.to.w = LbWidth[t.active]
      <4>1. t.to = [u.to EXCEPT !.h = 0, !.w = LbWidth[s.active]]
        BY <2>3, <2>4, <3>4 DEF LbIsPage
      <4>2. DOMAIN u.to = {"h", "w", "o"} /\ t.active = s.active
        BY <2>4, <2>5 DEF LbIsPage, LbKept
      <4> QED
        BY <4>1, <4>2
    <3> QED
      BY <2>5, <3>1, <3>2, <3>3, <3>5 DEF LbOpened, LbStepInv
  <2> QED
    BY <2>4, <2>5, <2>7, <2>8 DEF LbKept
<1>2. CASE s.width = LbWidth[s.active]
  <2>1. PICK u : u = [s EXCEPT !.step = @ + 1]
    OBVIOUS
  <2>2. t = LbFadeIn(u)
    BY <1>2, <2>1 DEF LbResizeWidth
  <2>3. /\ DOMAIN u = DOMAIN s /\ u.fx = s.fx /\ u.to = s.to /\ u.raced = s.raced
        /\ u.moves = s.moves /\ u.loads = s.loads /\ u.pend = s.pend
        /\ u.step = s.step + 1 /\ u.active = s.active /\ u.height = s.height
        /\ u.width = s.width /\ u.shown = s.shown /\ u.listening = s.listening
    BY <2>1 DEF LbIsPage
  <2>4. LbIsPage(u)
    BY <2>3, LbFieldsSet DEF LbIsPage
  <2>5. ASSUME LbOnWay(s), s.step = 3, LbHigh(s)
        PROVE  LbOnWay(u) /\ u.step = 4 /\ LbHigh(u) /\ LbWide(u)
    BY <1>2, <2>3, <2>5 DEF LbOnWay, LbRests, LbQuiet, LbLoading, LbHigh, LbWide
  <2> QED
    BY <2>2, <2>3, <2>4, <2>5, LbFadeInEffect
<1> QED
  BY <1>1, <1>2

\* The box is resized in height, or is right and resized in width.
LEMMA LbResizeHeightEffect ==
  ASSUME NEW s, LbIsPage(s), NEW t, t = LbResizeHeight(s)
  PROVE  /\ LbIsPage(t) /\ t.raced = s.raced
         /\ LbOnWay(s) /\ s.step = 2 => LbOpened(t)
<1>1. CASE s.height # LbHeight[s.active]
  <2>1. PICK u : u = MooStart(s, "resize", 1)
    OBVIOUS
  <2>2. LbMoves(s, u, "resize", 1, s.fx["resize"].ripe) /\ u.pend = s.pend
    BY <2>1, LbStartEffect DEF LbEffects
  <2>3. t = [u EXCEPT !.to = IF MooIgnored(s, "resize") THEN @
                             ELSE [@ EXCEPT !.h = LbHeight[s.active], !.w = 0]]
    BY <1>1, <2>1 DEF LbResizeHeight
  <2>4. LbIsPage(u) /\ LbKept(s, u)
    BY <2>2 DEF LbMoves
  <2>5. /\ DOMAIN t = DOMAIN u /\ t.fx = u.fx /\ t.raced = u.raced
        /\ t.moves = u.moves /\ t.loads = u.loads /\ t.pend = u.pend
        /\ t.step = u.step /\ t.active = u.active /\ t.height = u.height
        /\ t.width = u.width /\ t.shown = u.shown /\ t.listening = u.listening
    BY <2>3, <2>4 DEF LbIsPage
  <2>6. DOMAIN t.to = {"h", "w", "o"}
    BY <2>3, <2>4 DEF LbIsPage
  <2>7. LbIsPage(t)
    BY <2>4, <2>5, <2>6, LbFieldsSet DEF LbIsPage
  <2>8. ASSUME LbOnWay(s), s.step = 2
        PROVE  LbOpened(t)
    <3>1. /\ LbWorks(u, "resize") /\ u.fx["resize"].run = 1 /\ u.shown /\ u.listening
          /\ u.active \in LbImages /\ u.fx["overlay"].chain = <<>>
      BY <2>2, <2>8, LbStartWorks DEF LbSteps, LbEffects
    <3>2. LbWorks(t, "resize")
      BY <2>5, <3>1 DEF LbWorks, LbLoading
    <3>3. t.step = 2
      BY <2>4, <2>5, <2>8 DEF LbKept
    <3>4. ~ MooIgnored(s, "resize")
      BY <2>8 DEF LbOnWay, LbRests, LbQuiet, MooIgnored, LbSteps, LbEffects
    <3>5. t.to.w = 0 /\ t.to.h = LbHeight[t.active]
      <4>1. t.to = [u.to EXCEPT !.h = LbHeight[s.active], !.w = 0]
        BY <2>3, <2>4, <3>4 DEF LbIsPage
      <4>2. DOMAIN u.to = {"h", "w", "o"} /\ t.active = s.active
        BY <2>4, <2>5 DEF LbIsPage, LbKept
      <4> QED
        BY <4>1, <4>2
    <3> QED
      BY <2>5, <3>1, <3>2, <3>3, <3>5 DEF LbOpened, LbStepInv
  <2> QED
    BY <2>4, <2>5, <2>7, <2>8 DEF LbKept
<1>2. CASE s.height = LbHeight[s.active]
  <2>1. PICK u : u = [s EXCEPT !.step = @ + 1]
    OBVIOUS
  <2>2. t = LbResizeWidth(u)
    BY <1>2, <2>1 DEF LbResizeHeight
  <2>3. /\ DOMAIN u = DOMAIN s /\ u.fx = s.fx /\ u.to = s.to /\ u.raced = s.raced
        /\ u.moves = s.moves /\ u.loads = s.loads /\ u.pend = s.pend
        /\ u.step = s.step + 1 /\ u.active = s.active /\ u.height = s.height
        /\ u.width = s.width /\ u.shown = s.shown /\ u.listening = s.listening
    BY <2>1 DEF LbIsPage
  <2>4. LbIsPage(u)
    BY <2>3, LbFieldsSet DEF LbIsPage
  <2>5. ASSUME LbOnWay(s), s.step = 2
        PROVE  LbOnWay(u) /\ u.step = 3 /\ LbHigh(u)
    BY <1>2, <2>3, <2>5 DEF LbOnWay, LbRests, LbQuiet, LbLoading, LbHigh
  <2> QED
    BY <2>2, <2>3, <2>4, <2>5, LbResizeWidthEffect
<1> QED
  BY <1>1, <1>2

\* What is done before the next step of the walk is taken.
LbReady(s) ==
  /\ LbOnWay(s) /\ s.step \in 1 .. 5
  /\ s.step >= 2 => LbHigh(s)
  /\ s.step >= 3 => LbWide(s)
  /\ s.step >= 4 => s.picture = s.active /\ s.bottom

\* The next step is taken.
LEMMA LbNextEffectEffect ==
  ASSUME NEW s, LbIsPage(s), NEW t, t = LbNextEffect(s)
  PROVE  /\ LbIsPage(t) /\ t.raced = s.raced
         /\ LbReady(s) => LbOpened(t)
         /\ s.step = -1 => t = [s EXCEPT !.step = 0]
<1>1. PICK u : u = [s EXCEPT !.step = @ + 1]
  OBVIOUS
<1>2. /\ DOMAIN u = DOMAIN s /\ u.fx = s.fx /\ u.to = s.to /\ u.raced = s.raced
      /\ u.moves = s.moves /\ u.loads = s.loads /\ u.pend = s.pend
      /\ u.step = s.step + 1 /\ u.active = s.active /\ u.height = s.height
      /\ u.width = s.width /\ u.shown = s.shown /\ u.listening = s.listening
      /\ u.picture = s.picture /\ u.bottom = s.bottom
  BY <1>1 DEF LbIsPage
<1>3. LbIsPage(u)
  BY <1>2, LbFieldsSet DEF LbIsPage
<1>4. ASSUME LbReady(s)
      PROVE  /\ LbOnWay(u) /\ u.step = s.step + 1
             /\ u.step >= 3 => LbHigh(u)
             /\ u.step >= 4 => LbWide(u)
             /\ u.step >= 5 => u.picture = u.active /\ u.bottom
  BY <1>2, <1>4 DEF LbReady, LbOnWay, LbRests, LbQuiet, LbLoading, LbHigh, LbWide
<1>5. CASE s.step = 1
  <2>1. t = LbResizeHeight(u)
    BY <1>1, <1>5 DEF LbNextEffect
  <2> QED
    BY <1>2, <1>3, <1>4, <1>5, <2>1, LbResizeHeightEffect
<1>6. CASE s.step = 2
  <2>1. t = LbResizeWidth(u)
    BY <1>1, <1>6 DEF LbNextEffect
  <2> QED
    BY <1>2, <1>3, <1>4, <1>6, <2>1, LbResizeWidthEffect
<1>7. CASE s.step = 3
  <2>1. t = LbFadeIn(u)
    BY <1>1, <1>7 DEF LbNextEffect
  <2> QED
    BY <1>2, <1>3, <1>4, <1>7, <2>1, LbFadeInEffect
<1>8. CASE s.step = 4
  <2>1. t = LbCaption(u)
    BY <1>1, <1>8 DEF LbNextEffect
  <2>2. CASE LbAnimateCaption
    <3>1. t = MooStart(u, "bottom", 1)
      BY <2>1, <2>2 DEF LbCaption
    <3>2. LbMoves(u, t, "bottom", 1, u.fx["bottom"].ripe) /\ t.pend = u.pend
      BY <1>3, <3>1, LbStartEffect DEF LbEffects
    <3>3. LbIsPage(t) /\ LbKept(u, t)
      BY <3>2 DEF LbMoves
    <3>4. ASSUME LbReady(s) PROVE LbOpened(t)
      <4>1. LbOnWay(u) /\ u.step = 5 /\ LbShows(u)
        BY <1>2, <1>4, <1>8, <3>4 DEF LbShows
      <4>2. /\ LbWorks(t, "bottom") /\ t.shown /\ t.listening
            /\ t.active \in LbImages /\ t.fx["overlay"].chain = <<>>
        BY <1>3, <3>2, <4>1, LbStartWorks DEF LbSteps, LbEffects
      <4>3. t.step = 5 /\ LbShows(t)
        BY <3>3, <4>1 DEF LbKept, LbShows, LbHigh, LbWide
      <4> QED
        BY <4>2, <4>3 DEF LbOpened, LbStepInv
    <3> QED
      BY <1>2, <1>8, <3>3, <3>4 DEF LbKept
  <2>3. CASE ~ LbAnimateCaption
    <3>1. t = [u EXCEPT !.step = 0]
      BY <2>1, <2>3 DEF LbCaption
    <3>2. /\ DOMAIN t = DOMAIN u /\ t.fx = u.fx /\ t.to = u.to /\ t.raced = u.raced
          /\ t.moves = u.moves /\ t.loads = u.loads /\ t.pend = u.pend
          /\ t.step = 0 /\ t.active = u.active /\ t.height = u.height
          /\ t.width = u.width /\ t.shown = u.shown /\ t.listening = u.listening
          /\ t.picture = u.picture /\ t.bottom = u.bottom
      BY <1>3, <3>1 DEF LbIsPage
    <3>3. LbIsPage(t)
      BY <1>3, <3>2, LbFieldsSet DEF LbIsPage
    <3>4. ASSUME LbReady(s) PROVE LbOpened(t)
      <4>1. LbOnWay(u) /\ u.step = 5 /\ LbShows(u)
        BY <1>2, <1>4, <1>8, <3>4 DEF LbShows
      <4>2. LbRests(t) /\ LbShows(t)
        BY <3>2, <4>1 DEF LbOnWay, LbRests, LbQuiet, LbLoading, LbShows, LbHigh, LbWide
      <4> QED
        BY <3>2, <4>1, <4>2 DEF LbOpened, LbStepInv, LbOnWay
    <3> QED
      BY <1>2, <1>8, <3>2, <3>3, <3>4
  <2> QED
    BY <2>2, <2>3, LbAssumption
<1>9. CASE s.step = 5
  <2>1. t = [u EXCEPT !.step = 0]
    BY <1>1, <1>9 DEF LbNextEffect
  <2>2. /\ DOMAIN t = DOMAIN u /\ t.fx = u.fx /\ t.to = u.to /\ t.raced = u.raced
        /\ t.moves = u.moves /\ t.loads = u.loads /\ t.pend = u.pend
        /\ t.step = 0 /\ t.active = u.active /\ t.height = u.height
        /\ t.width = u.width /\ t.shown = u.shown /\ t.listening = u.listening
        /\ t.picture = u.picture /\ t.bottom = u.bottom
    BY <1>3, <2>1 DEF LbIsPage
  <2>3. LbIsPage(t)
    BY <1>3, <2>2, LbFieldsSet DEF LbIsPage
  <2>4. ASSUME LbReady(s) PROVE LbOpened(t)
    <3>1. LbOnWay(u) /\ u.step = 6 /\ LbShows(u)
      BY <1>2, <1>4, <1>9, <2>4 DEF LbShows
    <3>2. LbRests(t) /\ LbShows(t)
      BY <2>2, <3>1 DEF LbOnWay, LbRests, LbQuiet, LbLoading, LbShows, LbHigh, LbWide
    <3> QED
      BY <2>2, <3>1, <3>2 DEF LbOpened, LbStepInv, LbOnWay
  <2> QED
    BY <1>2, <1>9, <2>2, <2>3, <2>4
<1>10. CASE s.step \notin 1 .. 5
  <2>1. t = u
    BY <1>1, <1>10 DEF LbNextEffect
  <2> QED
    BY <1>1, <1>2, <1>3, <1>10, <2>1 DEF LbReady
<1> QED
  BY <1>5, <1>6, <1>7, <1>8, <1>9, <1>10

-----------------------------------------------------------------------------
(* One lemma per action.                                                   *)

\* The log is not part of it.
LEMMA LbSameInv ==
  ASSUME NEW s, LbInvOf(s), NEW t, DOMAIN t = DOMAIN s, t.fx = s.fx,
         t.pend = s.pend, LbKept(s, t)
  PROVE  LbInvOf(t)
<1>3. LbIsPage(t)
  BY LbFieldsSet DEF LbInvOf, LbIsPage, LbKept
<1>4. /\ LbLoading(t) = LbLoading(s) /\ (LbQuiet(t) <=> LbQuiet(s))
      /\ (LbHigh(t) <=> LbHigh(s)) /\ (LbWide(t) <=> LbWide(s))
      /\ (LbShows(t) <=> LbShows(s))
  BY DEF LbKept, LbLoading, LbQuiet, LbHigh, LbWide, LbShows
<1>5. (LbRests(t) <=> LbRests(s)) /\ \A f : LbWorks(t, f) <=> LbWorks(s, f)
  BY <1>4 DEF LbRests, LbWorks
<1>6. ASSUME LbOpened(s) PROVE LbOpened(t)
  <2>1. LbStepInv(t)
    BY <1>4, <1>5, <1>6 DEF LbOpened, LbStepInv, LbKept
  <2> QED
    BY <1>6, <2>1 DEF LbOpened, LbKept
<1>7. ASSUME LbClosed(s) PROVE LbClosed(t)
  <2>1. /\ LbFades(s) => LbFades(t)
        /\ LbFaded(s) => LbFaded(t)
        /\ LbGone(s) => LbGone(t)
    BY DEF LbFades, LbFaded, LbGone, LbStray, LbKept
  <2> QED
    BY <1>4, <1>7, <2>1 DEF LbClosed, LbKept
<1> QED
  BY <1>3, <1>6, <1>7 DEF LbInvOf, LbKept

\* Each action ends with an empty log.
LEMMA LbUnlogged ==
  ASSUME NEW s, LbInvOf(s), LbLet(s)
  PROVE  LbInv'
<1>1. lb' = [s EXCEPT !.log = <<>>]
  BY DEF LbLet
<1>2. /\ DOMAIN lb' = DOMAIN s /\ lb'.fx = s.fx /\ lb'.pend = s.pend
      /\ LbKept(s, lb')
  BY <1>1 DEF LbInvOf, LbIsPage, LbKept
<1>3. LbInvOf(lb')
  BY <1>2, LbSameInv
<1> QED
  BY <1>3 DEF LbInv

\* changeImage(): refused, or the image starts to load.
LEMMA LbChangeEffect ==
  ASSUME NEW s, LbIsPage(s), NEW i, NEW t, t = LbChangeImage(s, i)
  PROVE  /\ LbIsPage(t) /\ t.raced = s.raced
         /\ \/ t = s /\ (s.step # 0 \/ i \notin LbImages)
            \/ /\ s.step = 0 /\ i \in LbImages
               /\ /\ s.shown /\ s.listening /\ LbRests(s)
                  /\ s.fx["overlay"].chain = <<>>
                  => LbOpened(t)
<1>1. CASE s.step # 0 \/ i \notin LbImages
  <2>1. t = s
    BY <1>1 DEF LbChangeImage
  <2> QED
    BY <1>1, <2>1
<1>2. CASE s.step = 0 /\ i \in LbImages
  <2>1. PICK n : n = s.moves + 1
    OBVIOUS
  <2>2. n \in Nat \ {0} /\ n \notin DOMAIN s.loads /\ DOMAIN s.loads \subseteq 1 .. n
    BY <2>1 DEF LbIsPage
  <2>3. PICK l : l = [k \in DOMAIN s.loads \cup {n} |-> k = n \/ s.loads[k]]
    OBVIOUS
  <2>4. t = [s EXCEPT !.step = 1, !.active = i, !.bottom = FALSE, !.picture = 0,
                      !.preload = n, !.moves = n, !.loads = l]
    BY <1>2, <2>1, <2>3 DEF LbChangeImage, LbIsPage
  <2>5. /\ DOMAIN t = DOMAIN s /\ t.fx = s.fx /\ t.to = s.to /\ t.raced = s.raced
        /\ t.pend = s.pend /\ t.step = 1 /\ t.active = i /\ t.preload = n
        /\ t.moves = n /\ t.loads = l /\ t.shown = s.shown
        /\ t.listening = s.listening
    BY <2>4 DEF LbIsPage
  <2>6. DOMAIN l \subseteq 1 .. n
    BY <2>2, <2>3
  <2>7. LbIsPage(t)
    BY <2>2, <2>5, <2>6, LbFieldsSet DEF LbIsPage
  <2>8. ASSUME s.shown, s.listening, LbRests(s), s.fx["overlay"].chain = <<>>
        PROVE  LbOpened(t)
    <3>1. \A k \in DOMAIN s.loads : ~ s.loads[k]
      BY <2>8 DEF LbRests, LbLoading
    <3>2. \A k \in DOMAIN l : l[k] <=> k = n
      BY <2>3, <3>1
    <3>3. n \in DOMAIN l
      BY <2>3
    <3>4. LbLoading(t) = {n}
      BY <2>5, <3>2, <3>3 DEF LbLoading
    <3>5. LbQuiet(t) /\ t.pend = <<>>
      BY <2>5, <2>8 DEF LbRests, LbQuiet
    <3> QED
      BY <1>2, <2>5, <2>8, <3>4, <3>5 DEF LbOpened, LbStepInv
  <2> QED
    BY <1>2, <2>5, <2>7, <2>8
<1> QED
  BY <1>1, <1>2

\* open()
LEMMA LbOpenStep ==
  ASSUME LbInv, LbPageOpen
  PROVE  LbInv'
<1>1. PICK i \in LbImages : LbLet(LbOpen(lb, i))
  BY DEF LbPageOpen
<1>2. PICK u : u = [LbSetup(lb, TRUE) EXCEPT
                      !.shown = TRUE, !.opens = @ + 1, !.raced = @ \/ lb.listening,
                      !.to.o = IF MooIgnored(lb, "overlay") THEN @ ELSE 1]
  OBVIOUS
<1>3. PICK v : v = MooStart(u, "overlay", 1)
  OBVIOUS
<1>4. PICK t : t = LbChangeImage(v, i)
  OBVIOUS
<1>5. t = LbOpen(lb, i)
  BY <1>2, <1>3, <1>4 DEF LbOpen
<1>6. LbIsPage(lb) /\ (~lb.raced => LbOpened(lb) \/ LbClosed(lb))
  BY DEF LbInv, LbInvOf
<1>7. /\ DOMAIN u = DOMAIN lb /\ u.fx = lb.fx /\ u.pend = lb.pend
      /\ u.loads = lb.loads /\ u.moves = lb.moves /\ u.shown /\ u.listening
      /\ u.step = 0 /\ u.raced = (lb.raced \/ lb.listening)
  BY <1>2, <1>6 DEF LbSetup, LbIsPage
<1>8. DOMAIN u.to = {"h", "w", "o"}
  BY <1>2, <1>6 DEF LbSetup, LbIsPage
<1>9. LbIsPage(u)
  BY <1>6, <1>7, <1>8, LbFieldsSet DEF LbIsPage
<1>10. /\ LbMoves(u, v, "overlay", 1, u.fx["overlay"].ripe) /\ v.pend = u.pend
       /\ v.fx["overlay"].chain = u.fx["overlay"].chain
  BY <1>3, <1>9, LbStartEffect DEF LbEffects
<1>11. LbIsPage(v) /\ LbKept(u, v) /\ \A g \in LbSteps : v.fx[g] = lb.fx[g]
  BY <1>7, <1>10 DEF LbMoves, LbSteps
<1>12. LbIsPage(t) /\ t.raced = (lb.raced \/ lb.listening)
  BY <1>4, <1>7, <1>11, LbChangeEffect DEF LbKept
<1>13. ASSUME ~ t.raced PROVE LbOpened(t)
  <2>1. LbClosed(lb) /\ LbGone(lb)
    BY <1>6, <1>12, <1>13 DEF LbOpened, LbClosed, LbFades, LbFaded
  <2>2. LbRests(v) /\ v.fx["overlay"].chain = <<>>
    BY <1>7, <1>10, <1>11, <2>1
    DEF LbClosed, LbGone, LbRests, LbQuiet, LbLoading, LbKept
  <2>3. v.shown /\ v.listening /\ v.step = 0
    BY <1>7, <1>11 DEF LbKept
  <2> QED
    BY <1>4, <1>11, <2>2, <2>3, LbChangeEffect
<1>14. LbInvOf(t)
  BY <1>12, <1>13 DEF LbInvOf
<1> QED
  BY <1>1, <1>5, <1>14, LbUnlogged

\* previous() and next()
LEMMA LbMoveStep ==
  ASSUME LbInv, LbPageMove
  PROVE  LbInv'
<1>1. PICK d \in {-1, 1} :
        LET t == LbChangeImage(lb, lb.active + d)
        IN LbLet([t EXCEPT !.raced = @ \/ (t # lb /\ ~lb.shown)])
  BY DEF LbPageMove
<1>2. PICK u : u = LbChangeImage(lb, lb.active + d)
  OBVIOUS
<1>3. PICK t : t = [u EXCEPT !.raced = @ \/ (u # lb /\ ~lb.shown)]
  OBVIOUS
<1>4. LbLet(t)
  BY <1>1, <1>2, <1>3
<1>5. LbIsPage(lb) /\ (~lb.raced => LbOpened(lb) \/ LbClosed(lb))
  BY DEF LbInv, LbInvOf
<1>6. LbIsPage(u) /\ u.raced = lb.raced
  BY <1>2, <1>5, LbChangeEffect
<1>7. /\ DOMAIN t = DOMAIN u /\ t.fx = u.fx /\ t.to = u.to /\ t.moves = u.moves
      /\ t.loads = u.loads /\ t.raced = (u.raced \/ (u # lb /\ ~lb.shown))
  BY <1>3, <1>6 DEF LbIsPage
<1>8. LbIsPage(t)
  BY <1>6, <1>7, LbFieldsSet DEF LbIsPage
<1>9. ASSUME ~ t.raced PROVE LbInvOf(t)
  <2>1. DOMAIN t = DOMAIN u /\ t.fx = u.fx /\ t.pend = u.pend /\ LbKept(u, t)
    BY <1>3, <1>6, <1>7, <1>9 DEF LbIsPage, LbKept
  <2>2. CASE u = lb
    BY <2>1, <2>2, LbSameInv DEF LbInv
  <2>3. CASE u # lb
    <3>1. lb.shown /\ LbOpened(lb)
      BY <1>5, <1>6, <1>7, <1>9, <2>3 DEF LbClosed
    <3>2. lb.step = 0
      BY <1>2, <1>5, <2>3, LbChangeEffect
    <3>3. LbRests(lb) /\ lb.listening /\ lb.fx["overlay"].chain = <<>>
      BY <3>1, <3>2 DEF LbOpened, LbStepInv
    <3>4. LbOpened(u)
      BY <1>2, <1>5, <2>3, <3>1, <3>3, LbChangeEffect
    <3> QED
      BY <1>6, <2>1, <3>4, LbSameInv DEF LbInvOf
  <2> QED
    BY <2>2, <2>3
<1> QED
  BY <1>4, <1>8, <1>9, LbUnlogged DEF LbInvOf

\* An image has loaded.
LEMMA LbLoadStep ==
  ASSUME LbInv, LbImageLoads
  PROVE  LbInv'
<1>1. PICK n \in DOMAIN lb.loads :
        LET t == [lb EXCEPT !.loads = [k \in DOMAIN @ \ {n} |-> @[k]]]
        IN LbLet(IF lb.loads[n] THEN LbNextEffect(t) ELSE t)
  BY DEF LbImageLoads
<1>2. PICK l : l = [k \in DOMAIN lb.loads \ {n} |-> lb.loads[k]]
  OBVIOUS
<1>3. PICK u : u = [lb EXCEPT !.loads = l]
  OBVIOUS
<1>4. LbIsPage(lb) /\ (~lb.raced => LbOpened(lb) \/ LbClosed(lb))
  BY DEF LbInv, LbInvOf
<1>5. u = [lb EXCEPT !.loads = [k \in DOMAIN @ \ {n} |-> @[k]]]
  BY <1>2, <1>3, <1>4 DEF LbIsPage
<1>6. LbLet(IF lb.loads[n] THEN LbNextEffect(u) ELSE u)
  BY <1>1, <1>5
<1>7. /\ DOMAIN u = DOMAIN lb /\ u.fx = lb.fx /\ u.to = lb.to /\ u.raced = lb.raced
      /\ u.moves = lb.moves /\ u.loads = l /\ u.pend = lb.pend
      /\ u.step = lb.step /\ u.active = lb.active /\ u.height = lb.height
      /\ u.width = lb.width /\ u.shown = lb.shown /\ u.listening = lb.listening
      /\ u.picture = lb.picture /\ u.bottom = lb.bottom /\ u.preload = lb.preload
      /\ u.opacity = lb.opacity
  BY <1>3, <1>4 DEF LbIsPage
<1>8. LbIsPage(u)
  BY <1>2, <1>4, <1>7, LbFieldsSet DEF LbIsPage
<1>9. LbLoading(u) = LbLoading(lb) \ {n}
  BY <1>2, <1>7 DEF LbLoading
<1>10. CASE lb.loads[n]
  <2>1. PICK t : t = LbNextEffect(u)
    OBVIOUS
  <2>2. LbIsPage(t) /\ t.raced = u.raced
    BY <1>8, <2>1, LbNextEffectEffect
  <2>3. ASSUME ~ t.raced PROVE LbOpened(t)
    <3>1. n \in LbLoading(lb)
      BY <1>10 DEF LbLoading
    <3>2. LbOpened(lb)
      BY <1>4, <1>7, <2>2, <2>3, <3>1 DEF LbClosed
    <3>3. lb.step = 1 /\ LbLoading(lb) = {lb.preload} /\ LbQuiet(lb) /\ lb.pend = <<>>
      BY <3>1, <3>2 DEF LbOpened, LbStepInv, LbRests, LbWorks
    <3>4. LbRests(u)
      BY <1>7, <1>9, <3>1, <3>3 DEF LbRests, LbQuiet
    <3>5. LbReady(u)
      BY <1>7, <3>2, <3>3, <3>4 DEF LbReady, LbOnWay, LbOpened
    <3> QED
      BY <1>8, <2>1, <3>5, LbNextEffectEffect
  <2>4. LbInvOf(t) /\ LbLet(t)
    BY <1>6, <1>10, <2>1, <2>2, <2>3 DEF LbInvOf
  <2> QED
    BY <2>4, LbUnlogged
<1>11. CASE ~ lb.loads[n]
  <2>1. LbLoading(u) = LbLoading(lb)
    BY <1>9, <1>11 DEF LbLoading
  <2>2. /\ (LbQuiet(u) <=> LbQuiet(lb)) /\ (LbRests(u) <=> LbRests(lb))
        /\ (LbHigh(u) <=> LbHigh(lb)) /\ (LbWide(u) <=> LbWide(lb))
        /\ (LbShows(u) <=> LbShows(lb)) /\ \A f : LbWorks(u, f) <=> LbWorks(lb, f)
    BY <1>7, <2>1 DEF LbQuiet, LbRests, LbHigh, LbWide, LbShows, LbWorks
  <2>3. LbOpened(lb) => LbOpened(u)
    BY <1>7, <2>1, <2>2 DEF LbOpened, LbStepInv
  <2>4. LbClosed(lb) => LbClosed(u)
    BY <1>7, <2>1, <2>2 DEF LbClosed, LbFades, LbFaded, LbGone, LbStray
  <2>5. LbInvOf(u) /\ LbLet(u)
    BY <1>4, <1>6, <1>7, <1>8, <1>11, <2>3, <2>4 DEF LbInvOf
  <2> QED
    BY <2>5, LbUnlogged
<1> QED
  BY <1>10, <1>11

\* close(): what it stops is still, and of the others only the overlay runs.
LEMMA LbStoppedEffect ==
  ASSUME NEW s, LbIsPage(s), NEW t, t = LbStopped(s)
  PROVE  /\ LbIsPage(t) /\ LbKept(s, t) /\ LbQuiet(t) /\ t.pend = s.pend
         /\ t.fx["overlay"].run = 0
         /\ t.fx["overlay"].chain = s.fx["overlay"].chain
<1>1. PICK a : a = MooStop(s, "overlay", FALSE)
  OBVIOUS
<1>2. PICK b : b = MooStop(a, "resize", FALSE)
  OBVIOUS
<1>3. PICK c : c = MooStop(b, "image", FALSE)
  OBVIOUS
<1>4. t = MooStop(c, "bottom", FALSE)
  BY <1>1, <1>2, <1>3 DEF LbStopped
<1>5. /\ LbMoves(s, a, "overlay", 0, FALSE) /\ a.pend = s.pend
      /\ a.fx["overlay"].chain = s.fx["overlay"].chain
  <2>1. "overlay" \in LbEffects /\ FALSE \in BOOLEAN
    BY DEF LbEffects
  <2> QED
    BY <1>1, <2>1, LbStopEffect
<1>6. LbMoves(a, b, "resize", 0, FALSE) /\ b.pend = a.pend
  <2>1. "resize" \in LbEffects /\ FALSE \in BOOLEAN /\ LbIsPage(a)
    BY <1>5 DEF LbEffects, LbMoves
  <2> QED
    BY <1>2, <2>1, LbStopEffect
<1>7. LbMoves(b, c, "image", 0, FALSE) /\ c.pend = b.pend
  <2>1. "image" \in LbEffects /\ FALSE \in BOOLEAN /\ LbIsPage(b)
    BY <1>6 DEF LbEffects, LbMoves
  <2> QED
    BY <1>3, <2>1, LbStopEffect
<1>8. LbMoves(c, t, "bottom", 0, FALSE) /\ t.pend = c.pend
  <2>1. "bottom" \in LbEffects /\ FALSE \in BOOLEAN /\ LbIsPage(c)
    BY <1>7 DEF LbEffects, LbMoves
  <2> QED
    BY <1>4, <2>1, LbStopEffect, ZenonT(40)
<1>9. /\ LbKept(s, a) /\ LbKept(a, b) /\ LbKept(b, c) /\ LbKept(c, t) /\ LbIsPage(t)
  BY <1>5, <1>6, <1>7, <1>8 DEF LbMoves
<1>10. LbKept(s, t)
  BY <1>9 DEF LbKept
<1>11. /\ t.fx["overlay"] = a.fx["overlay"] /\ t.fx["resize"] = b.fx["resize"]
       /\ t.fx["image"] = c.fx["image"]
  BY <1>6, <1>7, <1>8 DEF LbMoves, LbEffects
<1>12. /\ t.fx["overlay"].run = 0 /\ t.fx["resize"].run = 0
       /\ t.fx["image"].run = 0 /\ t.fx["bottom"].run = 0
  BY <1>5, <1>6, <1>7, <1>8, <1>11 DEF LbMoves
<1> QED
  BY <1>5, <1>6, <1>7, <1>8, <1>9, <1>10, <1>11, <1>12
  DEF LbQuiet, LbSteps, LbEffects

\* close()
LEMMA LbCloseStep ==
  ASSUME LbInv, LbPageClose
  PROVE  LbInv'
<1>1. LbLet(LbClose(lb))
  BY DEF LbPageClose
<1>2. LbIsPage(lb) /\ (~lb.raced => LbOpened(lb) \/ LbClosed(lb))
  BY DEF LbInv, LbInvOf
<1>3. CASE lb.step < 0
  BY <1>1, <1>3, LbUnlogged DEF LbClose, LbInv
<1>4. CASE ~ (lb.step < 0)
  <2>1. PICK u : u = LbStopped(lb)
    OBVIOUS
  <2>2. PICK l : l = [k \in DOMAIN u.loads |-> u.loads[k] /\ k # lb.preload]
    OBVIOUS
  <2>3. PICK v : v = [u EXCEPT !.step = -1, !.shown = FALSE, !.bottom = FALSE,
                               !.raced = @ \/ ~lb.shown, !.preload = 0,
                               !.loads = l, !.to.o = 0]
    OBVIOUS
  <2>4. PICK w : w = MooChain(v, "overlay", "setup(false)")
    OBVIOUS
  <2>5. PICK t : t = MooStart(w, "overlay", 1)
    OBVIOUS
  <2>6. /\ LbIsPage(u) /\ LbKept(lb, u) /\ LbQuiet(u) /\ u.pend = lb.pend
        /\ u.fx["overlay"].run = 0
        /\ u.fx["overlay"].chain = lb.fx["overlay"].chain
    BY <1>2, <2>1, LbStoppedEffect
  <2>7. v = [u EXCEPT !.step = -1, !.shown = FALSE, !.bottom = FALSE,
                      !.raced = @ \/ ~lb.shown, !.preload = 0,
                      !.loads = [k \in DOMAIN @ |-> @[k] /\ k # lb.preload],
                      !.to.o = 0]
    BY <2>2, <2>3, <2>6 DEF LbIsPage
  <2>8. t = LbClose(lb)
    BY <1>4, <2>1, <2>4, <2>5, <2>7 DEF LbClose
  <2>9. /\ DOMAIN v = DOMAIN u /\ v.fx = u.fx /\ v.pend = u.pend /\ v.loads = l
        /\ v.moves = u.moves /\ v.step = -1 /\ v.shown = FALSE /\ v.bottom = FALSE
        /\ v.listening = u.listening /\ v.raced = (u.raced \/ ~lb.shown)
    BY <2>3, <2>6 DEF LbIsPage
  <2>10. DOMAIN v.to = {"h", "w", "o"} /\ v.to.o = 0
    BY <2>3, <2>6 DEF LbIsPage
  <2>11. DOMAIN l = DOMAIN u.loads
    BY <2>2
  <2>12. LbIsPage(v)
    BY <2>6, <2>9, <2>10, <2>11, LbFieldsSet DEF LbIsPage
  <2>13. PICK q : q = [v.fx["overlay"] EXCEPT !.chain = Append(@, "setup(false)")]
    OBVIOUS
  <2>14. /\ LbIsEffect(q) /\ q.run = 0 /\ q.ripe = FALSE
         /\ q.chain = Append(v.fx["overlay"].chain, "setup(false)")
    <3>1. LbIsEffect(v.fx["overlay"])
      BY <2>12 DEF LbIsPage, LbEffects
    <3> QED
      BY <2>6, <2>9, <2>13, <3>1, SMTT(30) DEF LbIsEffect
  <2>15. /\ DOMAIN w = DOMAIN v /\ LbKept(v, w) /\ w.pend = v.pend
         /\ w.fx = [v.fx EXCEPT !["overlay"] = q]
    BY <2>4, <2>12, <2>13 DEF MooChain, LbIsPage, LbKept
  <2>16. LbMoves(v, w, "overlay", q.run, q.ripe) /\ w.fx["overlay"] = q
    <3>1. "overlay" \in LbEffects /\ LbIsEffect(q)
      BY <2>14 DEF LbEffects
    <3>2. DOMAIN w = DOMAIN v /\ LbKept(v, w) /\ w.fx = [v.fx EXCEPT !["overlay"] = q]
      BY <2>15
    <3>3. q.chain = v.fx["overlay"].chain \/ "overlay" = "overlay"
      OBVIOUS
    <3>4. LbMoves(v, w, "overlay", q.run, q.ripe)
      BY <2>12, <3>1, <3>2, <3>3, LbEffectSet
    <3>5. w.fx["overlay"] = q
      BY <2>12, <3>1, <3>2 DEF LbIsPage
    <3> QED
      BY <3>4, <3>5
  <2>17. LbIsPage(w) /\ w.fx["overlay"].run = 0
    BY <2>14, <2>16 DEF LbMoves
  <2>18. /\ LbMoves(w, t, "overlay", 1, w.fx["overlay"].ripe) /\ t.pend = w.pend
         /\ t.fx["overlay"].chain = w.fx["overlay"].chain
    BY <2>5, <2>17, LbStartEffect DEF LbEffects
  <2>19. /\ LbIsPage(t) /\ LbKept(w, t) /\ t.fx["overlay"].run = 1
         /\ ~ t.fx["overlay"].ripe /\ t.pend = lb.pend
         /\ t.fx["overlay"].chain = Append(lb.fx["overlay"].chain, "setup(false)")
    BY <2>6, <2>9, <2>14, <2>15, <2>16, <2>18 DEF LbMoves
  <2>20. LbQuiet(t)
    BY <2>6, <2>9, <2>16, <2>18 DEF LbMoves, LbQuiet, LbSteps
  <2>21. /\ t.step = -1 /\ ~ t.shown /\ ~ t.bottom /\ t.to.o = 0 /\ t.loads = l
         /\ t.listening = lb.listening /\ t.raced = (lb.raced \/ ~lb.shown)
    BY <2>6, <2>9, <2>10, <2>15, <2>19 DEF LbKept
  <2>22. ASSUME ~ t.raced PROVE LbClosed(t)
    <3>1. LbOpened(lb) /\ lb.listening /\ lb.fx["overlay"].chain = <<>>
      BY <1>2, <2>21, <2>22 DEF LbClosed, LbOpened
    <3>2. LbLoading(lb) \subseteq {lb.preload}
      BY <3>1 DEF LbOpened, LbStepInv, LbRests, LbWorks
    <3>3. LbLoading(t) = {}
      BY <2>2, <2>6, <2>21, <3>2 DEF LbKept, LbLoading
    <3>4. t.pend = <<>> \/ LbStray(t)
      BY <2>19, <3>1
      DEF LbOpened, LbStepInv, LbRests, LbWorks, LbStray, LbSteps, LbEffects
    <3>5. t.fx["overlay"].chain = <<"setup(false)">>
      BY <2>19, <3>1
    <3>6. LbFades(t)
      BY <2>19, <2>21, <3>1, <3>4, <3>5 DEF LbFades
    <3> QED
      BY <2>20, <2>21, <3>3, <3>6 DEF LbClosed
  <2>23. LbInvOf(t)
    BY <2>19, <2>22 DEF LbInvOf
  <2> QED
    BY <1>1, <2>8, <2>23, LbUnlogged
<1> QED
  BY <1>3, <1>4

\* A frame of an effect that runs.
LEMMA LbFrameStep ==
  ASSUME LbInv, LbFrame
  PROVE  LbInv'
<1>1. LbIsPage(lb) /\ (~lb.raced => LbOpened(lb) \/ LbClosed(lb))
  BY DEF LbInv, LbInvOf
<1>2. LbIsEffect(lb.fx["overlay"]) /\ LbIsEffect(lb.fx["resize"])
  BY <1>1 DEF LbIsPage, LbEffects
<1>3. ASSUME lb.fx["overlay"].ripe, LbLet([lb EXCEPT !.opacity = 2])
      PROVE  LbInv'
  <2>1. PICK t : t = [lb EXCEPT !.opacity = 2]
    OBVIOUS
  <2>2. /\ DOMAIN t = DOMAIN lb /\ t.fx = lb.fx /\ t.to = lb.to /\ t.raced = lb.raced
        /\ t.moves = lb.moves /\ t.loads = lb.loads /\ t.pend = lb.pend
        /\ t.step = lb.step /\ t.active = lb.active /\ t.height = lb.height
        /\ t.width = lb.width /\ t.shown = lb.shown /\ t.listening = lb.listening
        /\ t.picture = lb.picture /\ t.bottom = lb.bottom /\ t.preload = lb.preload
    BY <1>1, <2>1 DEF LbIsPage
  <2>3. LbIsPage(t)
    BY <1>1, <2>2, LbFieldsSet DEF LbIsPage
  <2>4. /\ LbLoading(t) = LbLoading(lb)
        /\ (LbQuiet(t) <=> LbQuiet(lb)) /\ (LbRests(t) <=> LbRests(lb))
        /\ (LbHigh(t) <=> LbHigh(lb)) /\ (LbWide(t) <=> LbWide(lb))
        /\ (LbShows(t) <=> LbShows(lb)) /\ \A f : LbWorks(t, f) <=> LbWorks(lb, f)
    BY <2>2 DEF LbLoading, LbQuiet, LbRests, LbHigh, LbWide, LbShows, LbWorks
  <2>5. LbOpened(lb) => LbOpened(t)
    BY <2>2, <2>4 DEF LbOpened, LbStepInv
  <2>6. lb.fx["overlay"].run = 1
    BY <1>2, <1>3 DEF LbIsEffect
  <2>7. LbClosed(lb) => LbFades(t)
    BY <2>2, <2>6 DEF LbClosed, LbFades, LbFaded, LbGone, LbStray
  <2>8. LbClosed(lb) => LbClosed(t)
    BY <2>2, <2>4, <2>7 DEF LbClosed
  <2> QED
    BY <1>1, <1>3, <2>1, <2>2, <2>3, <2>5, <2>8, LbUnlogged DEF LbInvOf
<1>4. ASSUME lb.fx["resize"].ripe,
             LbLet([lb EXCEPT !.height = IF lb.to.h # 0 THEN 0 ELSE @,
                              !.width  = IF lb.to.w # 0 THEN 0 ELSE @])
      PROVE  LbInv'
  <2>1. PICK t : t = [lb EXCEPT !.height = IF lb.to.h # 0 THEN 0 ELSE @,
                                !.width  = IF lb.to.w # 0 THEN 0 ELSE @]
    OBVIOUS
  <2>2. /\ DOMAIN t = DOMAIN lb /\ t.fx = lb.fx /\ t.to = lb.to /\ t.raced = lb.raced
        /\ t.moves = lb.moves /\ t.loads = lb.loads /\ t.pend = lb.pend
        /\ t.step = lb.step /\ t.active = lb.active
        /\ t.shown = lb.shown /\ t.listening = lb.listening
    BY <1>1, <2>1 DEF LbIsPage
  <2>3. LbIsPage(t)
    BY <1>1, <2>2, LbFieldsSet DEF LbIsPage
  <2>4. lb.to.h = 0 => t.height = lb.height
    BY <1>1, <2>1 DEF LbIsPage
  <2>5. lb.fx["resize"].run = 1
    BY <1>2, <1>4 DEF LbIsEffect
  <2>6. ASSUME ~ t.raced PROVE LbOpened(t)
    <3>1. LbOpened(lb)
      BY <1>1, <2>2, <2>5, <2>6 DEF LbClosed, LbQuiet, LbSteps, LbEffects
    <3>2. lb.step \in {2, 3}
      BY <2>5, <3>1
      DEF LbOpened, LbStepInv, LbRests, LbQuiet, LbWorks, LbSteps, LbEffects
    <3>3. LbWorks(lb, "resize") => LbWorks(t, "resize")
      BY <2>2 DEF LbWorks, LbLoading
    <3>4. LbStepInv(t)
      BY <2>2, <2>4, <2>5, <3>1, <3>2, <3>3 DEF LbOpened, LbStepInv, LbHigh
    <3> QED
      BY <2>2, <3>1, <3>4 DEF LbOpened
  <2> QED
    BY <1>4, <2>1, <2>3, <2>6, LbUnlogged DEF LbInvOf
<1> QED
  BY <1>3, <1>4 DEF LbFrame

\* The clock passes what was delayed before the effect's end.
LEMMA LbRipeStep ==
  ASSUME LbInv, LbEffectRipe
  PROVE  LbInv'
<1>1. LbIsPage(lb) /\ (~lb.raced => LbOpened(lb) \/ LbClosed(lb))
  BY DEF LbInv, LbInvOf
<1>2. PICK f \in LbEffects : MooCanRipen(lb, f) /\ LbLet(MooRipen(lb, f))
  BY <1>1 DEF LbEffectRipe, LbIsPage
<1>3. PICK t : t = MooRipen(lb, f)
  OBVIOUS
<1>4. PICK q : q = [lb.fx[f] EXCEPT !.ripe = TRUE]
  OBVIOUS
<1>5. LbIsEffect(lb.fx[f]) /\ lb.fx[f].run # 0 /\ lb.pend = <<>>
  BY <1>1, <1>2 DEF LbIsPage, MooCanRipen
<1>6. LbIsEffect(q) /\ q.run = lb.fx[f].run /\ q.chain = lb.fx[f].chain
  BY <1>4, <1>5 DEF LbIsEffect
<1>7. /\ DOMAIN t = DOMAIN lb /\ LbKept(lb, t) /\ t.pend = lb.pend
      /\ t.fx = [lb.fx EXCEPT ![f] = q]
  BY <1>1, <1>3, <1>4 DEF MooRipen, LbIsPage, LbKept
<1>8. LbMoves(lb, t, f, q.run, q.ripe) /\ t.fx[f] = q
  <2>1. LbIsEffect(q) /\ q.chain = lb.fx[f].chain
    BY <1>6
  <2>2. DOMAIN t = DOMAIN lb /\ LbKept(lb, t) /\ t.fx = [lb.fx EXCEPT ![f] = q]
    BY <1>7
  <2>3. LbMoves(lb, t, f, q.run, q.ripe)
    BY <1>1, <2>1, <2>2, LbEffectSet
  <2>4. t.fx[f] = q
    BY <1>1, <2>2 DEF LbIsPage
  <2> QED
    BY <2>3, <2>4
<1>9. /\ LbIsPage(t)
      /\ \A g \in LbEffects : /\ t.fx[g].run = lb.fx[g].run
                              /\ t.fx[g].chain = lb.fx[g].chain
  BY <1>6, <1>8 DEF LbMoves
<1>10. /\ LbLoading(t) = LbLoading(lb)
       /\ (LbQuiet(t) <=> LbQuiet(lb)) /\ (LbRests(t) <=> LbRests(lb))
       /\ (LbHigh(t) <=> LbHigh(lb)) /\ (LbWide(t) <=> LbWide(lb))
       /\ (LbShows(t) <=> LbShows(lb))
       /\ \A g \in LbEffects : LbWorks(t, g) <=> LbWorks(lb, g)
  BY <1>7, <1>9 DEF LbKept, LbLoading, LbQuiet, LbRests, LbHigh, LbWide, LbShows,
                    LbWorks, LbSteps
<1>11. LbOpened(lb) => LbOpened(t)
  <2>1. LbStepInv(lb) => LbStepInv(t)
    BY <1>7, <1>9, <1>10 DEF LbKept, LbStepInv, LbEffects
  <2> QED
    BY <1>7, <1>9, <2>1 DEF LbOpened, LbKept, LbEffects
<1>12. LbClosed(lb) => LbClosed(t)
  <2>1. LbFades(lb) => LbFades(t)
    BY <1>5, <1>7, <1>9 DEF LbFades, LbKept, LbEffects
  <2>2. (LbFaded(lb) => LbFaded(t)) /\ (LbGone(lb) => LbGone(t))
    BY <1>7, <1>9 DEF LbFaded, LbGone, LbKept, LbEffects
  <2> QED
    BY <1>7, <1>10, <2>1, <2>2 DEF LbClosed, LbKept
<1>13. LbInvOf(t)
  BY <1>1, <1>7, <1>9, <1>11, <1>12 DEF LbInvOf, LbKept
<1> QED
  BY <1>2, <1>3, <1>13, LbUnlogged

\* What the end of an effect delays, for the handlers h.
LbCalls(h, f, k) == [i \in DOMAIN h |-> <<h[i], f, k>>]

\* It is added to what waits.
LEMMA LbDelays ==
  ASSUME NEW f, NEW k, NEW c
  PROVE  /\ <<>> \o LbCalls(<<>>, f, k) = <<>>
         /\ <<c>> \o LbCalls(<<>>, f, k) = <<c>>
         /\ <<>> \o LbCalls(<<c>>, f, k) = <<<<c, f, k>>>>
<1>1. LbCalls(<<>>, f, k) = <<>>
  BY DEF LbCalls
<1>2. LbCalls(<<c>>, f, k) = <<<<c, f, k>>>>
  BY DEF LbCalls
<1>3. <<c>> \o <<>> = <<c>>
  OBVIOUS
<1>4. <<>> \o <<<<c, f, k>>>> = <<<<c, f, k>>>>
  OBVIOUS
<1>5. <<>> \o <<>> = <<>>
  OBVIOUS
<1> QED
  BY <1>1, <1>2, <1>3, <1>4, <1>5

\* The last frame of an effect: it is over, and what it delayed waits.
LEMMA LbFinishEffect ==
  ASSUME NEW s, LbIsPage(s), NEW f \in LbEffects, NEW h, NEW t, t = MooFinish(s, f, h)
  PROVE  /\ LbMoves(s, t, f, 0, FALSE)
         /\ s.fx[f].chain = <<>> =>
              /\ t.pend = s.pend \o LbCalls(h, f, s.fx[f].run)
              /\ t.fx[f].chain = <<>>
         /\ s.fx[f].chain # <<>> =>
              /\ t.pend = (s.pend \o LbCalls(h, f, s.fx[f].run))
                            \o <<<<"link", f, Head(s.fx[f].chain)>>>>
              /\ t.fx[f].chain = Tail(s.fx[f].chain)
<1> DEFINE d == LbCalls(h, f, s.fx[f].run)
<1>0. d = [i \in DOMAIN h |-> <<h[i], f, s.fx[f].run>>]
  BY DEF LbCalls
<1> HIDE DEF d
<1>1. PICK u : u = MooStop(s, f, TRUE)
  OBVIOUS
<1>2. PICK v : v = [u EXCEPT !.pend = @ \o d]
  OBVIOUS
<1>3. t = MooCallChain(v, f)
  BY <1>0, <1>1, <1>2 DEF MooFinish, MooDelay
<1>4. TRUE \in BOOLEAN
  OBVIOUS
<1>5. /\ LbMoves(s, u, f, 0, FALSE) /\ u.pend = s.pend
      /\ u.fx[f].chain = s.fx[f].chain
  BY <1>1, <1>4, LbStopEffect
<1>6. LbIsPage(u) /\ LbKept(s, u)
  BY <1>5 DEF LbMoves
<1>7. /\ DOMAIN v = DOMAIN u /\ v.fx = u.fx /\ LbKept(u, v) /\ v.pend = s.pend \o d
  BY <1>2, <1>5, <1>6 DEF LbIsPage, LbKept
<1>8. LbIsPage(v)
  BY <1>6, <1>7, LbFieldsSet DEF LbIsPage, LbKept
<1>9. CASE s.fx[f].chain = <<>>
  <2>1. t = v
    BY <1>3, <1>5, <1>7, <1>9 DEF MooCallChain
  <2>2. LbMoves(s, t, f, 0, FALSE)
    BY <1>5, <1>6, <1>7, <1>8, <2>1 DEF LbMoves, LbKept
  <2> QED
    BY <1>5, <1>7, <1>9, <2>1, <2>2 DEF d
<1>10. CASE s.fx[f].chain # <<>>
  <2>1. f = "overlay"
    BY <1>10 DEF LbIsPage, LbSteps
  <2>2. PICK w : w = [v EXCEPT !.pend = @ \o <<<<"link", f, Head(v.fx[f].chain)>>>>]
    OBVIOUS
  <2>3. t = [w EXCEPT !.fx[f].chain = Tail(v.fx[f].chain)]
    <3>1. t = [w EXCEPT !.fx[f].chain = Tail(@)]
      BY <1>3, <1>5, <1>7, <1>10, <2>2 DEF MooCallChain, MooDelay
    <3>2. w.fx = v.fx /\ DOMAIN w = DOMAIN v
      BY <1>8, <2>2 DEF LbIsPage
    <3> QED
      BY <1>8, <3>1, <3>2 DEF LbIsPage
  <2>4. PICK q : q = [v.fx[f] EXCEPT !.chain = Tail(v.fx[f].chain)]
    OBVIOUS
  <2>5. LbIsEffect(v.fx[f]) /\ v.fx[f].run = 0 /\ v.fx[f].ripe = FALSE
    BY <1>5, <1>7, <1>8 DEF LbIsPage, LbMoves
  <2>6. /\ LbIsEffect(q) /\ q.run = 0 /\ q.ripe = FALSE
        /\ q.chain = Tail(s.fx[f].chain)
    BY <1>5, <1>7, <2>4, <2>5 DEF LbIsEffect
  <2>7. /\ DOMAIN t = DOMAIN v /\ LbKept(v, t) /\ t.fx = [v.fx EXCEPT ![f] = q]
        /\ t.pend = (s.pend \o d) \o <<<<"link", f, Head(s.fx[f].chain)>>>>
    <3>1. /\ DOMAIN w = DOMAIN v /\ LbKept(v, w) /\ w.fx = v.fx
          /\ w.pend = (s.pend \o d) \o <<<<"link", f, Head(s.fx[f].chain)>>>>
      BY <1>5, <1>7, <1>8, <2>2 DEF LbIsPage, LbKept
    <3>2. /\ DOMAIN t = DOMAIN w /\ LbKept(w, t) /\ t.pend = w.pend
          /\ t.fx = [v.fx EXCEPT ![f] = q]
      BY <1>8, <2>3, <2>4, <3>1 DEF LbIsPage, LbKept
    <3> QED
      BY <3>1, <3>2 DEF LbKept
  <2>8. LbMoves(v, t, f, q.run, q.ripe)
    <3>1. LbIsEffect(q) /\ (q.chain = v.fx[f].chain \/ f = "overlay")
      BY <2>1, <2>6
    <3>2. DOMAIN t = DOMAIN v /\ LbKept(v, t) /\ t.fx = [v.fx EXCEPT ![f] = q]
      BY <2>7
    <3>3. f \in LbEffects
      OBVIOUS
    <3> QED
      BY <1>8, <3>1, <3>2, <3>3, LbEffectSet
  <2>9. t.fx[f] = q
    BY <1>8, <2>7 DEF LbIsPage
  <2>10. LbMoves(s, t, f, 0, FALSE)
    BY <1>5, <1>7, <2>6, <2>8, <2>9 DEF LbMoves, LbKept
  <2> QED
    BY <1>10, <2>6, <2>7, <2>9, <2>10 DEF d
<1> QED
  BY <1>9, <1>10

\* The last frame of an effect of the walk.
LEMMA LbStepFinished ==
  ASSUME LbInv, NEW f \in LbSteps, MooCanFinish(lb, f), NEW t, t = LbFinish(lb, f)
  PROVE  LbInvOf(t)
<1>1. LbIsPage(lb) /\ (~lb.raced => LbOpened(lb) \/ LbClosed(lb))
  BY DEF LbInv, LbInvOf
<1>2. LbIsEffect(lb.fx[f]) /\ lb.fx[f].run = 1 /\ lb.fx[f].chain = <<>> /\ f # "overlay"
  BY <1>1 DEF LbIsPage, LbIsEffect, LbSteps, MooCanFinish
<1>3. PICK h : h = <<"nextEffect">>
  OBVIOUS
<1>4. PICK d : d = LbCalls(h, f, lb.fx[f].run)
  OBVIOUS
<1>5. PICK u : u = MooFinish(lb, f, h)
  OBVIOUS
<1>6. f \in LbEffects
  BY DEF LbSteps
<1>7. LbMoves(lb, u, f, 0, FALSE) /\ u.pend = lb.pend \o d /\ u.fx[f].chain = <<>>
  <2>1. LbMoves(lb, u, f, 0, FALSE)
    BY <1>1, <1>5, <1>6, LbFinishEffect
  <2>2. u.pend = lb.pend \o LbCalls(h, f, lb.fx[f].run) /\ u.fx[f].chain = <<>>
    <3>1. lb.fx[f].chain = <<>> =>
            /\ u.pend = lb.pend \o LbCalls(h, f, lb.fx[f].run)
            /\ u.fx[f].chain = <<>>
      BY <1>1, <1>5, <1>6, LbFinishEffect, ZenonT(40)
    <3> QED
      BY <1>2, <3>1
  <2> QED
    BY <1>4, <2>1, <2>2
<1>8. LbIsPage(u) /\ LbKept(lb, u) /\ u.fx[f].run = 0
      /\ \A g \in LbEffects \ {f} : u.fx[g] = lb.fx[g]
  BY <1>7 DEF LbMoves
<1>9. t = CASE f = "resize" -> [u EXCEPT !.height = IF lb.to.h # 0 THEN lb.to.h ELSE @,
                                         !.width  = IF lb.to.w # 0 THEN lb.to.w ELSE @]
            [] f = "image"  -> [u EXCEPT !.picture = lb.active]
            [] OTHER -> u
  BY <1>2, <1>3, <1>5 DEF LbFinish, LbSteps, LbEffects
<1>10. /\ DOMAIN t = DOMAIN u /\ t.fx = u.fx /\ t.to = u.to /\ t.raced = u.raced
       /\ t.moves = u.moves /\ t.loads = u.loads /\ t.pend = u.pend
       /\ t.step = u.step /\ t.active = u.active /\ t.bottom = u.bottom
       /\ t.shown = u.shown /\ t.listening = u.listening
  BY <1>8, <1>9 DEF LbIsPage, LbSteps, LbEffects
<1>11. LbIsPage(t)
  BY <1>8, <1>10, LbFieldsSet DEF LbIsPage
<1>12. ASSUME ~ t.raced PROVE LbOpened(t)
  <2>1. LbOpened(lb)
    BY <1>1, <1>2, <1>8, <1>10, <1>12 DEF LbClosed, LbQuiet, LbKept
  <2>2. /\ lb.step \in 2 .. 5 /\ LbWorks(lb, f) /\ lb.pend = <<>>
        /\ lb.step \in {2, 3} => f = "resize"
        /\ lb.step = 4 => f = "image"
        /\ lb.step = 5 => f = "bottom"
    BY <1>2, <2>1
    DEF LbOpened, LbStepInv, LbRests, LbQuiet, LbWorks, LbSteps, LbEffects
  <2>3. t.pend = <<<<"nextEffect", f, 1>>>>
    <3>1. t.pend = <<>> \o LbCalls(<<"nextEffect">>, f, 1)
      BY <1>2, <1>3, <1>4, <1>7, <1>10, <2>2
    <3> QED
      BY <3>1, LbDelays
  <2>4. LbWorks(t, f) /\ t.fx[f].run = 0
    BY <1>8, <1>10, <2>2, <2>3 DEF LbWorks, LbLoading, LbKept, LbSteps
  <2>5. /\ LbHeight[lb.active] \in Nat \ {0} /\ LbWidth[lb.active] \in Nat \ {0}
    BY <2>1, LbAssumption DEF LbOpened, LbImages
  <2>6. LbStepInv(t)
    <3>1. CASE lb.step \in {2, 3}
      <4>1. /\ t.height = IF lb.to.h # 0 THEN lb.to.h ELSE lb.height
            /\ t.width = IF lb.to.w # 0 THEN lb.to.w ELSE lb.width
        BY <1>8, <1>9, <2>2, <3>1 DEF LbIsPage, LbKept
      <4> QED
        BY <1>2, <1>8, <1>10, <2>1, <2>2, <2>4, <2>5, <3>1, <4>1
        DEF LbOpened, LbStepInv, LbKept, LbHigh, LbWide
    <3>2. CASE lb.step = 4
      <4>1. t.picture = lb.active /\ t.height = lb.height /\ t.width = lb.width
        BY <1>8, <1>9, <2>2, <3>2 DEF LbIsPage, LbKept
      <4> QED
        BY <1>8, <1>10, <2>1, <2>2, <2>4, <3>2, <4>1
        DEF LbOpened, LbStepInv, LbKept, LbHigh, LbWide
    <3>3. CASE lb.step = 5
      <4>1. /\ t.picture = lb.picture /\ t.height = lb.height /\ t.width = lb.width
        BY <1>8, <1>9, <2>2, <3>3 DEF LbKept
      <4> QED
        BY <1>8, <1>10, <2>1, <2>2, <2>4, <3>3, <4>1
        DEF LbOpened, LbStepInv, LbKept, LbHigh, LbWide, LbShows
    <3> QED
      BY <2>2, <3>1, <3>2, <3>3
  <2>7. t.fx["overlay"].chain = <<>>
    BY <1>2, <1>8, <1>10, <2>1 DEF LbOpened, LbEffects
  <2> QED
    BY <1>8, <1>10, <2>1, <2>6, <2>7 DEF LbOpened, LbKept
<1> QED
  BY <1>11, <1>12 DEF LbInvOf

\* The overlay has faded.
LEMMA LbOverlayFinished ==
  ASSUME LbInv, MooCanFinish(lb, "overlay"), NEW t, t = LbFinish(lb, "overlay")
  PROVE  LbInvOf(t)
<1>1. LbIsPage(lb) /\ (~lb.raced => LbOpened(lb) \/ LbClosed(lb))
  BY DEF LbInv, LbInvOf
<1>2. LbIsEffect(lb.fx["overlay"]) /\ lb.fx["overlay"].run = 1 /\ lb.fx["overlay"].ripe
  BY <1>1 DEF LbIsPage, LbIsEffect, LbEffects, MooCanFinish
<1>3. PICK h : h = <<>>
  OBVIOUS
<1>4. PICK d : d = LbCalls(h, "overlay", lb.fx["overlay"].run)
  OBVIOUS
<1>5. PICK u : u = MooFinish(lb, "overlay", h)
  OBVIOUS
<1>6. /\ LbMoves(lb, u, "overlay", 0, FALSE)
      /\ lb.fx["overlay"].chain = <<>> =>
           u.pend = lb.pend \o d /\ u.fx["overlay"].chain = <<>>
      /\ lb.fx["overlay"].chain # <<>> =>
           /\ u.pend = (lb.pend \o d)
                         \o <<<<"link", "overlay", Head(lb.fx["overlay"].chain)>>>>
           /\ u.fx["overlay"].chain = Tail(lb.fx["overlay"].chain)
  <2>1. "overlay" \in LbEffects
    BY DEF LbEffects
  <2> QED
    BY <1>1, <1>4, <1>5, <2>1, LbFinishEffect, ZenonT(40)
<1>7. LbIsPage(u) /\ LbKept(lb, u) /\ u.fx["overlay"].run = 0
      /\ \A g \in LbSteps : u.fx[g] = lb.fx[g]
  BY <1>6 DEF LbMoves, LbSteps
<1>8. t = [u EXCEPT !.opacity = lb.to.o]
  BY <1>3, <1>5 DEF LbFinish
<1>9. /\ DOMAIN t = DOMAIN u /\ t.fx = u.fx /\ t.to = u.to /\ t.raced = u.raced
      /\ t.moves = u.moves /\ t.loads = u.loads /\ t.pend = u.pend
      /\ t.step = u.step /\ t.active = u.active /\ t.bottom = u.bottom
      /\ t.shown = u.shown /\ t.listening = u.listening /\ t.height = u.height
      /\ t.width = u.width /\ t.picture = u.picture /\ t.preload = u.preload
      /\ t.opacity = lb.to.o
  BY <1>7, <1>8 DEF LbIsPage
<1>10. LbIsPage(t)
  BY <1>7, <1>9, LbFieldsSet DEF LbIsPage
<1>11. /\ LbLoading(t) = LbLoading(lb) /\ (LbQuiet(t) <=> LbQuiet(lb))
       /\ (LbHigh(t) <=> LbHigh(lb)) /\ (LbWide(t) <=> LbWide(lb))
       /\ (LbShows(t) <=> LbShows(lb))
  BY <1>7, <1>9 DEF LbKept, LbLoading, LbQuiet, LbHigh, LbWide, LbShows
<1>12. ASSUME LbOpened(lb) PROVE LbOpened(t)
  <2>1. lb.pend = <<>> \/ \E c : lb.pend = <<c>>
    BY <1>12 DEF LbOpened, LbStepInv, LbRests, LbWorks
  <2>2. u.pend = lb.pend \o d /\ u.fx["overlay"].chain = <<>>
    BY <1>6, <1>12 DEF LbOpened
  <2>3. t.pend = lb.pend
    <3>1. d = LbCalls(<<>>, "overlay", lb.fx["overlay"].run)
      BY <1>3, <1>4
    <3>2. CASE lb.pend = <<>>
      <4>1. <<>> \o LbCalls(<<>>, "overlay", lb.fx["overlay"].run) = <<>>
        BY LbDelays
      <4> QED
        BY <1>9, <2>2, <3>1, <3>2, <4>1
    <3>3. CASE \E c : lb.pend = <<c>>
      <4>1. PICK c : lb.pend = <<c>>
        BY <3>3
      <4>2. <<c>> \o LbCalls(<<>>, "overlay", lb.fx["overlay"].run) = <<c>>
        BY LbDelays
      <4> QED
        BY <1>9, <2>2, <3>1, <4>1, <4>2
    <3> QED
      BY <2>1, <3>2, <3>3
  <2>4. /\ (LbRests(t) <=> LbRests(lb))
        /\ \A g \in LbSteps : LbWorks(t, g) <=> LbWorks(lb, g)
    BY <1>7, <1>9, <1>11, <2>3 DEF LbRests, LbWorks
  <2>5. LbStepInv(t)
    BY <1>7, <1>9, <1>11, <1>12, <2>3, <2>4
    DEF LbOpened, LbStepInv, LbKept, LbSteps, LbEffects
  <2> QED
    BY <1>7, <1>9, <1>12, <2>2, <2>5 DEF LbOpened, LbKept
<1>13. ASSUME LbClosed(lb) PROVE LbClosed(t)
  <2>1. LbFades(lb) /\ lb.pend = <<>> /\ lb.fx["overlay"].chain = <<"setup(false)">>
    BY <1>2, <1>13 DEF LbClosed, LbFades, LbFaded, LbGone
  <2>2. lb.pend \o d = <<>>
    <3>1. <<>> \o LbCalls(<<>>, "overlay", lb.fx["overlay"].run) = <<>>
      BY LbDelays
    <3> QED
      BY <1>3, <1>4, <2>1, <3>1
  <2>3. /\ u.pend = <<>> \o <<<<"link", "overlay", Head(<<"setup(false)">>)>>>>
        /\ u.fx["overlay"].chain = Tail(<<"setup(false)">>)
    BY <1>6, <2>1, <2>2
  <2>4. u.pend = <<<<"link", "overlay", "setup(false)">>>> /\ u.fx["overlay"].chain = <<>>
    BY <2>3
  <2>5. LbFaded(t)
    BY <1>7, <1>9, <2>1, <2>4 DEF LbFades, LbFaded, LbKept
  <2> QED
    BY <1>7, <1>9, <1>11, <1>13, <2>5 DEF LbClosed, LbKept
<1> QED
  BY <1>1, <1>7, <1>9, <1>10, <1>12, <1>13 DEF LbInvOf, LbKept

\* The last frame of an effect.
LEMMA LbFinishStep ==
  ASSUME LbInv, LbEffectFinish
  PROVE  LbInv'
<1>1. PICK f \in LbEffects : MooCanFinish(lb, f) /\ LbLet(LbFinish(lb, f))
  BY DEF LbInv, LbInvOf, LbEffectFinish, LbIsPage
<1>2. LbInvOf(LbFinish(lb, f))
  BY <1>1, LbStepFinished, LbOverlayFinished DEF LbSteps
<1> QED
  BY <1>1, <1>2, LbUnlogged

\* A delayed call.
LEMMA LbDelayedStep ==
  ASSUME LbInv, LbDelayed
  PROVE  LbInv'
<1>1. PICK u : u = MooTake(lb)
  OBVIOUS
<1>2. PICK c : c = Head(lb.pend)
  OBVIOUS
<1>3. LbLet(LbCall(u, c)) /\ lb.pend # <<>>
  BY <1>1, <1>2 DEF LbDelayed
<1>4. LbIsPage(lb) /\ (~lb.raced => LbOpened(lb) \/ LbClosed(lb))
  BY DEF LbInv, LbInvOf
<1>5. DOMAIN u = DOMAIN lb /\ u.fx = lb.fx /\ LbKept(lb, u) /\ u.pend = Tail(lb.pend)
  BY <1>1, <1>4 DEF MooTake, LbIsPage, LbKept
<1>6. LbIsPage(u)
  BY <1>4, <1>5, LbFieldsSet DEF LbIsPage, LbKept
<1>7. /\ LbLoading(u) = LbLoading(lb) /\ (LbQuiet(u) <=> LbQuiet(lb))
      /\ (LbHigh(u) <=> LbHigh(lb)) /\ (LbWide(u) <=> LbWide(lb))
      /\ (LbShows(u) <=> LbShows(lb))
  BY <1>5 DEF LbKept, LbLoading, LbQuiet, LbHigh, LbWide, LbShows
<1>8. ASSUME LbOpened(lb)
      PROVE  c[1] = "nextEffect" /\ LbReady(u)
  <2>1. PICK f \in LbSteps :
          /\ lb.pend = <<<<"nextEffect", f, 1>>>> /\ LbWorks(lb, f)
          /\ lb.fx[f].run = 0 /\ lb.step \in 2 .. 5
          /\ lb.step \in {2, 3} => f = "resize"
          /\ lb.step = 4 => f = "image"
          /\ lb.step = 5 => f = "bottom"
    BY <1>3, <1>8 DEF LbOpened, LbStepInv, LbRests, LbWorks, LbSteps, LbEffects
  <2>2. c = <<"nextEffect", f, 1>> /\ u.pend = <<>>
    BY <1>2, <1>5, <2>1
  <2>3. LbQuiet(lb) /\ LbLoading(lb) = {}
    BY <2>1 DEF LbWorks, LbQuiet
  <2>4. LbRests(u)
    BY <1>7, <2>2, <2>3 DEF LbRests
  <2>5. LbOnWay(u)
    BY <1>5, <1>8, <2>4 DEF LbOnWay, LbOpened, LbKept
  <2>6. /\ u.step \in 2 .. 5 /\ LbHigh(u)
        /\ u.step >= 3 => LbWide(u)
        /\ u.step >= 4 => u.picture = u.active /\ u.bottom
    BY <1>5, <1>7, <1>8, <2>1 DEF LbOpened, LbStepInv, LbKept, LbShows
  <2> QED
    BY <2>2, <2>5, <2>6 DEF LbReady
<1>9. CASE c[1] = "nextEffect"
  <2>1. PICK t : t = LbNextEffect(u)
    OBVIOUS
  <2>2. LbIsPage(t) /\ t.raced = u.raced
    BY <1>6, <2>1, LbNextEffectEffect
  <2>3. ASSUME LbOpened(lb) PROVE LbOpened(t)
    BY <1>6, <1>8, <2>1, <2>3, LbNextEffectEffect
  <2>4. ASSUME LbClosed(lb) PROVE LbClosed(t)
    <3>1. LbFades(lb) /\ LbStray(lb)
      <4>1. ~ LbFaded(lb)
        BY <1>2, <1>9 DEF LbFaded
      <4> QED
        BY <1>3, <2>4, <4>1 DEF LbClosed, LbFades, LbGone
    <3>2. lb.step = -1 /\ u.pend = <<>>
      BY <1>3, <1>5, <3>1 DEF LbFades, LbStray
    <3>3. t = [u EXCEPT !.step = 0]
      BY <1>5, <1>6, <2>1, <3>2, LbNextEffectEffect DEF LbKept
    <3>4. /\ t.fx = u.fx /\ t.to = u.to /\ t.loads = u.loads /\ t.pend = u.pend
          /\ t.step = 0 /\ t.bottom = u.bottom /\ t.shown = u.shown
          /\ t.listening = u.listening
      BY <1>6, <3>3 DEF LbIsPage
    <3>5. LbFades(t)
      BY <1>5, <3>1, <3>2, <3>4 DEF LbFades, LbKept
    <3> QED
      BY <1>5, <2>4, <3>4, <3>5 DEF LbClosed, LbKept, LbLoading, LbQuiet
  <2>5. LbInvOf(t) /\ LbLet(t)
    BY <1>3, <1>4, <1>5, <1>9, <2>1, <2>2, <2>3, <2>4 DEF LbInvOf, LbCall, LbKept
  <2> QED
    BY <2>5, LbUnlogged
<1>10. CASE c[1] # "nextEffect"
  <2>1. PICK t : t = LbSetup(u, FALSE)
    OBVIOUS
  <2>2. t = [u EXCEPT !.listening = FALSE, !.step = 0]
    BY <2>1 DEF LbSetup
  <2>3. /\ DOMAIN t = DOMAIN u /\ t.fx = u.fx /\ t.to = u.to /\ t.raced = u.raced
        /\ t.moves = u.moves /\ t.loads = u.loads /\ t.pend = u.pend
        /\ t.step = 0 /\ t.bottom = u.bottom /\ t.shown = u.shown
        /\ t.opacity = u.opacity /\ t.listening = FALSE
    BY <1>6, <2>2 DEF LbIsPage
  <2>4. LbIsPage(t)
    BY <1>6, <2>3, LbFieldsSet DEF LbIsPage
  <2>5. ~ LbOpened(lb)
    BY <1>8, <1>10
  <2>6. ASSUME LbClosed(lb) PROVE LbClosed(t)
    <3>1. LbFaded(lb)
      <4>1. ~ LbStray(lb)
        BY <1>2, <1>10 DEF LbStray
      <4> QED
        BY <1>3, <2>6, <4>1 DEF LbClosed, LbFades, LbGone
    <3>2. u.pend = <<>>
      BY <1>5, <3>1 DEF LbFaded
    <3>3. LbGone(t)
      BY <1>5, <2>3, <3>1, <3>2 DEF LbFaded, LbGone, LbKept
    <3> QED
      BY <1>5, <2>3, <2>6, <3>3 DEF LbClosed, LbKept, LbLoading, LbQuiet
  <2>7. LbInvOf(t) /\ LbLet(t)
    BY <1>3, <1>4, <1>5, <1>10, <2>1, <2>3, <2>4, <2>5, <2>6
    DEF LbInvOf, LbCall, LbKept
  <2> QED
    BY <2>7, LbUnlogged
<1> QED
  BY <1>9, <1>10

-----------------------------------------------------------------------------
(* The invariant holds at first, is kept and gives what is promised.       *)

\* What would take the next step, where one thing will or nothing does.
LEMMA LbOutstandingIs ==
  ASSUME LbIsPage(lb)
  PROVE  /\ LbRests(lb) => LbOutstanding = 0
         /\ \A n : LbLoading(lb) = {n} /\ LbQuiet(lb) /\ lb.pend = <<>>
                     => LbOutstanding = 1
         /\ \A f \in LbSteps : LbWorks(lb, f) => LbOutstanding = 1
<1> DEFINE R == {f \in {"resize", "image", "bottom"} : lb.fx[f].run # 0}
           P == {i \in DOMAIN lb.pend : lb.pend[i][1] = "nextEffect"}
<1>1. LbOutstanding = Cardinality(LbLoading(lb)) + Cardinality(R) + Cardinality(P)
  BY DEF LbOutstanding, LbLoading
<1>2. Cardinality({}) = 0 /\ \A x : Cardinality({x}) = 1
  BY FS_EmptySet, FS_Singleton
<1>3. LbQuiet(lb) => R = {}
  BY DEF LbQuiet, LbSteps, LbEffects
<1>4. lb.pend = <<>> => P = {}
  OBVIOUS
<1>5. ASSUME LbRests(lb) PROVE LbOutstanding = 0
  <2>1. LbLoading(lb) = {} /\ R = {} /\ P = {}
    BY <1>3, <1>4, <1>5 DEF LbRests
  <2> HIDE DEF R, P
  <2> QED
    BY <1>1, <1>2, <2>1
<1>6. ASSUME NEW n, LbLoading(lb) = {n}, LbQuiet(lb), lb.pend = <<>>
      PROVE  LbOutstanding = 1
  <2>1. R = {} /\ P = {} /\ Cardinality(LbLoading(lb)) = 1
    BY <1>2, <1>3, <1>4, <1>6
  <2> HIDE DEF R, P
  <2> QED
    BY <1>1, <1>2, <2>1
<1>7. ASSUME NEW f \in LbSteps, LbWorks(lb, f)
      PROVE  LbOutstanding = 1
  <2>1. Cardinality(LbLoading(lb)) = 0
    BY <1>2, <1>7 DEF LbWorks
  <2>2. CASE lb.fx[f].run = 1 /\ lb.pend = <<>>
    <3>1. R = {f} /\ P = {}
      BY <1>4, <1>7, <2>2 DEF LbWorks, LbSteps, LbEffects
    <3>2. Cardinality(R) = 1 /\ Cardinality(P) = 0
      BY <1>2, <3>1
    <3> HIDE DEF R, P
    <3> QED
      BY <1>1, <2>1, <3>2
  <2>3. CASE lb.fx[f].run = 0 /\ lb.pend = <<<<"nextEffect", f, 1>>>>
    <3>1. R = {}
      BY <1>7, <2>3 DEF LbWorks, LbSteps, LbEffects
    <3>2. P = {1}
      BY <2>3
    <3>3. Cardinality(R) = 0 /\ Cardinality(P) = 1
      BY <1>2, <3>1, <3>2
    <3> HIDE DEF R, P
    <3> QED
      BY <1>1, <2>1, <3>3
  <2> QED
    BY <1>7, <2>2, <2>3 DEF LbWorks
<1> QED
  BY <1>5, <1>6, <1>7

\* The invariant gives what is promised.
LEMMA LbInvWalk == LbInv => LbWalk
<1> SUFFICES ASSUME LbInv, ~lb.raced PROVE
      /\ lb.shown =>
           /\ lb.listening /\ lb.step \in 0 .. 5
           /\ LbOutstanding = (IF lb.step = 0 THEN 0 ELSE 1)
           /\ (lb.step = 0) =>
                /\ lb.picture = lb.active /\ lb.bottom
                /\ lb.height = LbHeight[lb.active] /\ lb.width = LbWidth[lb.active]
      /\ (~lb.shown /\ lb.fx["overlay"].run = 0 /\ lb.pend = <<>>) =>
           /\ ~lb.listening /\ lb.step = 0 /\ lb.opacity = 0
           /\ LbOutstanding = 0 /\ lb.fx["overlay"].chain = <<>>
  BY DEF LbWalk
<1>1. LbIsPage(lb) /\ (LbOpened(lb) \/ LbClosed(lb))
  BY DEF LbInv, LbInvOf
<1>2. ASSUME LbOpened(lb)
      PROVE  /\ lb.shown /\ lb.listening /\ lb.step \in 0 .. 5
             /\ LbOutstanding = (IF lb.step = 0 THEN 0 ELSE 1)
             /\ lb.step = 0 => LbShows(lb)
  <2>1. lb.shown /\ lb.listening /\ lb.step \in 0 .. 5 /\ LbStepInv(lb)
    BY <1>2 DEF LbOpened
  <2>2. /\ lb.step = 0 => LbRests(lb) /\ LbShows(lb)
        /\ lb.step = 1 =>
             LbLoading(lb) = {lb.preload} /\ LbQuiet(lb) /\ lb.pend = <<>>
        /\ lb.step > 1 => \E f \in LbSteps : LbWorks(lb, f)
    BY <2>1 DEF LbStepInv, LbSteps, LbEffects
  <2>3. CASE lb.step = 0
    BY <1>1, <2>1, <2>2, <2>3, LbOutstandingIs
  <2>4. CASE lb.step = 1
    BY <1>1, <2>1, <2>2, <2>4, LbOutstandingIs
  <2>5. CASE lb.step > 1
    <3>1. PICK f \in LbSteps : LbWorks(lb, f)
      BY <2>2, <2>5
    <3>2. LbOutstanding = 1
      BY <1>1, <3>1, LbOutstandingIs
    <3> QED
      BY <2>1, <2>5, <3>2
  <2> QED
    BY <2>1, <2>3, <2>4, <2>5
<1>3. ASSUME LbClosed(lb)
      PROVE  /\ ~lb.shown
             /\ lb.fx["overlay"].run = 0 /\ lb.pend = <<>> =>
                  LbGone(lb) /\ LbOutstanding = 0
  <2>1. lb.fx["overlay"].run = 0 /\ lb.pend = <<>> => LbGone(lb) /\ LbRests(lb)
    BY <1>3 DEF LbClosed, LbFades, LbFaded, LbRests
  <2> QED
    BY <1>1, <1>3, <2>1, LbOutstandingIs DEF LbClosed
<1> QED
  BY <1>1, <1>2, <1>3 DEF LbShows, LbHigh, LbWide, LbGone

\* At first there is no box.
LEMMA LbInitInv == LbInit => LbInv
<1> SUFFICES ASSUME LbInit PROVE LbInv
  OBVIOUS
<1>1. /\ DOMAIN lb = {"fx", "pend", "log", "step", "active", "preload", "loads",
                      "shown", "bottom", "opacity", "to", "listening", "height",
                      "width", "picture", "moves", "opens", "raced"}
      /\ lb.fx = [f \in LbEffects |-> MooEffect(TRUE)] /\ lb.pend = <<>>
      /\ lb.step = 0 /\ lb.loads = [n \in {} |-> TRUE] /\ ~lb.shown /\ ~lb.bottom
      /\ lb.opacity = 0 /\ lb.to = [h |-> 0, w |-> 0, o |-> 0] /\ ~lb.listening
      /\ lb.moves = 0 /\ lb.raced = FALSE
  BY DEF LbInit, LbEffects
<1>2. /\ LbIsEffect(MooEffect(TRUE)) /\ MooEffect(TRUE).run = 0
      /\ MooEffect(TRUE).chain = <<>>
  BY DEF LbIsEffect, MooEffect
<1>3. \A f \in LbEffects : lb.fx[f] = MooEffect(TRUE)
  BY <1>1
<1>4. DOMAIN lb.loads = {}
  BY <1>1
<1>5. LbIsPage(lb)
  <2>1. DOMAIN lb.fx = LbEffects /\ \A f \in LbEffects : LbIsEffect(lb.fx[f])
    BY <1>1, <1>2, <1>3
  <2>2. \A f \in LbSteps : lb.fx[f].chain = <<>>
    BY <1>2, <1>3 DEF LbSteps
  <2>3. DOMAIN lb.to = {"h", "w", "o"}
    BY <1>1
  <2>4. lb.raced \in BOOLEAN /\ lb.moves \in Nat
    <3>1. lb.raced = FALSE /\ lb.moves = 0
      BY DEF LbInit
    <3>2. lb.raced \in BOOLEAN
      BY <3>1
    <3>3. lb.moves \in Nat
      BY <3>1
    <3> QED
      BY <3>2, <3>3
  <2>5. DOMAIN lb.loads \subseteq 1 .. lb.moves
    BY <1>4
  <2>6. DOMAIN lb = {"fx", "pend", "log", "step", "active", "preload", "loads",
                     "shown", "bottom", "opacity", "to", "listening", "height",
                     "width", "picture", "moves", "opens", "raced"}
    BY <1>1
  <2> QED
    BY <2>1, <2>2, <2>3, <2>4, <2>5, <2>6 DEF LbIsPage
<1>6. LbLoading(lb) = {} /\ LbQuiet(lb)
  BY <1>2, <1>3, <1>4 DEF LbLoading, LbQuiet, LbSteps
<1>7. LbGone(lb)
  BY <1>1, <1>2, <1>3 DEF LbGone, LbEffects
<1> QED
  BY <1>1, <1>5, <1>6, <1>7 DEF LbInv, LbInvOf, LbClosed

\* Every action keeps it.
LEMMA LbNextInv ==
  ASSUME LbInv, LbNext
  PROVE  LbInv'
BY LbOpenStep, LbMoveStep, LbCloseStep, LbLoadStep, LbFrameStep, LbFinishStep,
   LbRipeStep, LbDelayedStep DEF LbNext

\* An open box hears the keyboard and exactly one thing takes its next step until
\* the image asked for is shown in its size; a box that is gone hears nothing and
\* can be opened.  That is so unless it was opened before it was gone, or moved or
\* closed by a key while it faded out.  For all pictures, all their sizes and every
\* number of opens and moves.
THEOREM BoxWalks == Spec => []PageLb
<1>1. Init => (page = "lightbox" => LbInv)
  BY LbInitInv DEF Init
<1>2. (page = "lightbox" => LbInv) /\ [Next]_pages => (page = "lightbox" => LbInv)'
  <2> SUFFICES ASSUME page = "lightbox" => LbInv, [Next]_pages,
                      page' = "lightbox"
               PROVE  LbInv'
    OBVIOUS
  <2>1. LbInv /\ (LbNext \/ UNCHANGED lb)
    BY LbPage
  <2>2. CASE UNCHANGED lb
    BY <2>1, <2>2 DEF LbInv
  <2>3. CASE LbNext
    BY <2>1, <2>3, LbNextInv
  <2> QED
    BY <2>1, <2>2, <2>3
<1> QED
  BY <1>1, <1>2, LbInvWalk, PTL DEF Spec, PageLb, pages

-----------------------------------------------------------------------------
(* The leecher.                                                             *)

\* A step of the leecher's page is one of the leecher, and no step changes pages.
LEMMA LePage ==
  ASSUME [Next]_pages
  PROVE  /\ page' = "leecher" => page = "leecher"
         /\ page = "leecher" => LeNext \/ UNCHANGED le
BY DEF Next, pages, PgFxStep, PgLbStep, PgNsStep, PgImStep, PgAjStep, PgDrStep,
       PgAcStep, PgTiStep, PgGrStep, PgDcStep, PgXhStep, PgDfStep, PgLdStep,
       PgDqStep, PgGnStep, PgDtStep, PgTpStep, PgLeStep, PgDmStep

\* The uploader posts no part of an article but one that a paging job had in
\* work, posts none twice that nobody wrote again, marks as sent what was posted,
\* and leaves no article half sent.  For every number of runs and LIMIT, and every
\* site on which the further pages of an article bear its title, are named by one
\* paginator and are in no list (LeIsSite).
THEOREM ArticlesAreUploaded == Spec => []PageLe
<1>1. Init => (page = "leecher" => LeInv)
  BY LeInitInv DEF Init
<1>2. (page = "leecher" => LeInv) /\ [Next]_pages => (page = "leecher" => LeInv)'
  <2> SUFFICES ASSUME page = "leecher" => LeInv, [Next]_pages, page' = "leecher"
               PROVE  LeInv'
    OBVIOUS
  <2>1. LeInv /\ (LeNext \/ UNCHANGED le)
    BY LePage
  <2>2. CASE UNCHANGED le
    BY <2>1, <2>2 DEF LeInv
  <2>3. CASE LeNext
    BY <2>1, <2>3, LeNextInv
  <2> QED
    BY <2>1, <2>2, <2>3
<1> QED
  BY <1>1, <1>2, LeInvUploads, PTL DEF Spec, PageLe, pages

-----------------------------------------------------------------------------
(* The widgets.                                                            *)

\* A step of the page of dragging is one of dragging, and no step changes pages.
LEMMA DrPage ==
  ASSUME [Next]_pages
  PROVE  /\ page' = "drag" => page = "drag"
         /\ page = "drag" => DrNext \/ UNCHANGED dr
BY DEF Next, pages, PgFxStep, PgLbStep, PgNsStep, PgImStep, PgAjStep, PgDrStep,
       PgAcStep, PgTiStep, PgGrStep, PgDcStep, PgXhStep, PgDfStep, PgLdStep,
       PgDqStep, PgGnStep, PgDtStep, PgTpStep, PgLeStep, PgDmStep

\* A step of the page of the slides is one of the slides, and no step changes pages.
LEMMA NsPage ==
  ASSUME [Next]_pages
  PROVE  /\ page' = "slides" => page = "slides"
         /\ page = "slides" => NsNext \/ UNCHANGED ns
BY DEF Next, pages, PgFxStep, PgLbStep, PgNsStep, PgImStep, PgAjStep, PgDrStep,
       PgAcStep, PgTiStep, PgGrStep, PgDcStep, PgXhStep, PgDfStep, PgLdStep,
       PgDqStep, PgGnStep, PgDtStep, PgTpStep, PgLeStep, PgDmStep

\* A step of the page of the menu is one of the menu, and no step changes pages.
LEMMA ImPage ==
  ASSUME [Next]_pages
  PROVE  /\ page' = "menu" => page = "menu"
         /\ page = "menu" => ImNext \/ UNCHANGED im
BY DEF Next, pages, PgFxStep, PgLbStep, PgNsStep, PgImStep, PgAjStep, PgDrStep,
       PgAcStep, PgTiStep, PgGrStep, PgDcStep, PgXhStep, PgDfStep, PgLdStep,
       PgDqStep, PgGnStep, PgDtStep, PgTpStep, PgLeStep, PgDmStep

\* A step of the page of the accordion is one of the accordion, and no step changes pages.
LEMMA AcPage ==
  ASSUME [Next]_pages
  PROVE  /\ page' = "accordion" => page = "accordion"
         /\ page = "accordion" => AcNext \/ UNCHANGED ac
BY DEF Next, pages, PgFxStep, PgLbStep, PgNsStep, PgImStep, PgAjStep, PgDrStep,
       PgAcStep, PgTiStep, PgGrStep, PgDcStep, PgXhStep, PgDfStep, PgLdStep,
       PgDqStep, PgGnStep, PgDtStep, PgTpStep, PgLeStep, PgDmStep

\* A step of the page of the tips is one of the tips, and no step changes pages.
LEMMA TiPage ==
  ASSUME [Next]_pages
  PROVE  /\ page' = "tips" => page = "tips"
         /\ page = "tips" => TiNext \/ UNCHANGED ti
BY DEF Next, pages, PgFxStep, PgLbStep, PgNsStep, PgImStep, PgAjStep, PgDrStep,
       PgAcStep, PgTiStep, PgGrStep, PgDcStep, PgXhStep, PgDfStep, PgLdStep,
       PgDqStep, PgGnStep, PgDtStep, PgTpStep, PgLeStep, PgDmStep

\* A step of the page of the group is one of the group, and no step changes pages.
LEMMA GrPage ==
  ASSUME [Next]_pages
  PROVE  /\ page' = "group" => page = "group"
         /\ page = "group" => GrNext \/ UNCHANGED gr
BY DEF Next, pages, PgFxStep, PgLbStep, PgNsStep, PgImStep, PgAjStep, PgDrStep,
       PgAcStep, PgTiStep, PgGrStep, PgDcStep, PgXhStep, PgDfStep, PgLdStep,
       PgDqStep, PgGnStep, PgDtStep, PgTpStep, PgLeStep, PgDmStep

\* A step of the page of the effect is one of the effect, and no step changes pages.
LEMMA FxPage ==
  ASSUME [Next]_pages
  PROVE  /\ page' = "fx" => page = "fx"
         /\ page = "fx" => FxNext \/ UNCHANGED fx
BY DEF Next, pages, PgFxStep, PgLbStep, PgNsStep, PgImStep, PgAjStep, PgDrStep,
       PgAcStep, PgTiStep, PgGrStep, PgDcStep, PgXhStep, PgDfStep, PgLdStep,
       PgDqStep, PgGnStep, PgDtStep, PgTpStep, PgLeStep, PgDmStep

\* A step of the page of connects is one of the event, and no step changes pages.
LEMMA DcPage ==
  ASSUME [Next]_pages
  PROVE  /\ page' = "connect" => page = "connect"
         /\ page = "connect" => DcNext \/ UNCHANGED dc
BY DEF Next, pages, PgFxStep, PgLbStep, PgNsStep, PgImStep, PgAjStep, PgDrStep,
       PgAcStep, PgTiStep, PgGrStep, PgDcStep, PgXhStep, PgDfStep, PgLdStep,
       PgDqStep, PgGnStep, PgDtStep, PgTpStep, PgLeStep, PgDmStep

\* A step of the page of requests is one of the request, and no step changes pages.
LEMMA AjPage ==
  ASSUME [Next]_pages
  PROVE  /\ page' = "ajax" => page = "ajax"
         /\ page = "ajax" => AjNext \/ UNCHANGED aj
BY DEF Next, pages, PgFxStep, PgLbStep, PgNsStep, PgImStep, PgAjStep, PgDrStep,
       PgAcStep, PgTiStep, PgGrStep, PgDcStep, PgXhStep, PgDfStep, PgLdStep,
       PgDqStep, PgGnStep, PgDtStep, PgTpStep, PgLeStep, PgDmStep

\* The invariant of an effect.
LEMMA FxInvariance == Spec => [](page = "fx" => FxInv)
<1>1. Init => (page = "fx" => FxInv)
  BY FxInitInv DEF Init
<1>2. (page = "fx" => FxInv) /\ [Next]_pages => (page = "fx" => FxInv)'
  <2> SUFFICES ASSUME page = "fx" => FxInv, [Next]_pages, page' = "fx"
               PROVE  FxInv'
    OBVIOUS
  <2>1. FxInv /\ (FxNext \/ UNCHANGED fx)
    BY FxPage
  <2> QED
    BY <2>1, FxNextInv
<1> QED
  BY <1>1, <1>2, PTL DEF Spec, pages

\* The invariant of an event with its listeners.
LEMMA ConnectInvariance == Spec => [](page = "connect" => DcInv)
<1>1. Init => (page = "connect" => DcInv)
  BY DcInitInv DEF Init
<1>2. (page = "connect" => DcInv) /\ [Next]_pages => (page = "connect" => DcInv)'
  <2> SUFFICES ASSUME page = "connect" => DcInv, [Next]_pages, page' = "connect"
               PROVE  DcInv'
    OBVIOUS
  <2>1. DcInv /\ (DcNext \/ UNCHANGED dc)
    BY DcPage
  <2>2. CASE UNCHANGED dc
    BY <2>1, <2>2 DEF DcInv
  <2>3. CASE DcNext
    BY <2>1, <2>3, DcNextInv
  <2> QED
    BY <2>1, <2>2, <2>3
<1> QED
  BY <1>1, <1>2, PTL DEF Spec, pages

\* The invariant of a request object.
LEMMA AjaxInvariance == Spec => [](page = "ajax" => AjInv)
<1>1. Init => (page = "ajax" => AjInv)
  BY AjInitInv DEF Init
<1>2. (page = "ajax" => AjInv) /\ [Next]_pages => (page = "ajax" => AjInv)'
  <2> SUFFICES ASSUME page = "ajax" => AjInv, [Next]_pages, page' = "ajax"
               PROVE  AjInv'
    OBVIOUS
  <2>1. AjInv /\ (AjNext \/ UNCHANGED aj)
    BY AjPage
  <2>2. CASE UNCHANGED aj
    BY <2>1, <2>2 DEF AjInv
  <2>3. CASE AjNext
    BY <2>1, <2>3, AjNextInv
  <2> QED
    BY <2>1, <2>2, <2>3
<1> QED
  BY <1>1, <1>2, PTL DEF Spec, pages

\* The invariant of dragging.
LEMMA DragInvariance == Spec => [](page = "drag" => DrInv)
<1>1. Init => (page = "drag" => DrInv)
  BY DrInitInv DEF Init
<1>2. (page = "drag" => DrInv) /\ [Next]_pages => (page = "drag" => DrInv)'
  <2> SUFFICES ASSUME page = "drag" => DrInv, [Next]_pages, page' = "drag"
               PROVE  DrInv'
    OBVIOUS
  <2>1. DrInv /\ (DrNext \/ UNCHANGED dr)
    BY DrPage
  <2>2. CASE UNCHANGED dr
    BY <2>1, <2>2 DEF DrInv
  <2>3. CASE DrNext
    BY <2>1, <2>3, DrNextInv, DrAssumption
  <2> QED
    BY <2>1, <2>2, <2>3
<1> QED
  BY <1>1, <1>2, PTL DEF Spec, pages

\* The invariant of the slides.
LEMMA SlidesInvariance == Spec => [](page = "slides" => NsInv)
<1>1. Init => (page = "slides" => NsInv)
  BY NsInitInv DEF Init
<1>2. (page = "slides" => NsInv) /\ [Next]_pages => (page = "slides" => NsInv)'
  <2> SUFFICES ASSUME page = "slides" => NsInv, [Next]_pages, page' = "slides"
               PROVE  NsInv'
    OBVIOUS
  <2>1. NsInv /\ (NsNext \/ UNCHANGED ns)
    BY NsPage
  <2>2. CASE UNCHANGED ns
    BY <2>1, <2>2 DEF NsInv
  <2>3. CASE NsNext
    BY <2>1, <2>3, NsNextInv, NsAssumption
  <2> QED
    BY <2>1, <2>2, <2>3
<1> QED
  BY <1>1, <1>2, PTL DEF Spec, pages

\* The invariant of the image menu.
LEMMA MenuInvariance == Spec => [](page = "menu" => ImInv)
<1>1. Init => (page = "menu" => ImInv)
  BY ImInitInv DEF Init
<1>2. (page = "menu" => ImInv) /\ [Next]_pages => (page = "menu" => ImInv)'
  <2> SUFFICES ASSUME page = "menu" => ImInv, [Next]_pages, page' = "menu"
               PROVE  ImInv'
    OBVIOUS
  <2>1. ImInv /\ (ImNext \/ UNCHANGED im)
    BY ImPage
  <2>2. CASE UNCHANGED im
    BY <2>1, <2>2 DEF ImInv
  <2>3. CASE ImNext
    BY <2>1, <2>3, ImNextInv
  <2> QED
    BY <2>1, <2>2, <2>3
<1> QED
  BY <1>1, <1>2, PTL DEF Spec, pages

\* The invariant of the accordion.
LEMMA AccordionInvariance == Spec => [](page = "accordion" => AcInv)
<1>1. Init => (page = "accordion" => AcInv)
  BY AcInitInv DEF Init
<1>2. (page = "accordion" => AcInv) /\ [Next]_pages => (page = "accordion" => AcInv)'
  <2> SUFFICES ASSUME page = "accordion" => AcInv, [Next]_pages, page' = "accordion"
               PROVE  AcInv'
    OBVIOUS
  <2>1. AcInv /\ (AcNext \/ UNCHANGED ac)
    BY AcPage
  <2>2. CASE UNCHANGED ac
    BY <2>1, <2>2 DEF AcInv
  <2>3. CASE AcNext
    BY <2>1, <2>3, AcNextInv
  <2> QED
    BY <2>1, <2>2, <2>3
<1> QED
  BY <1>1, <1>2, PTL DEF Spec, pages

\* The invariant of the box of tips.
LEMMA TipsInvariance == Spec => [](page = "tips" => TiInv)
<1>1. Init => (page = "tips" => TiInv)
  BY TiInitInv DEF Init
<1>2. (page = "tips" => TiInv) /\ [Next]_pages => (page = "tips" => TiInv)'
  <2> SUFFICES ASSUME page = "tips" => TiInv, [Next]_pages, page' = "tips"
               PROVE  TiInv'
    OBVIOUS
  <2>1. TiInv /\ (TiNext \/ UNCHANGED ti)
    BY TiPage
  <2>2. CASE UNCHANGED ti
    BY <2>1, <2>2 DEF TiInv
  <2>3. CASE TiNext
    BY <2>1, <2>3, TiNextInv
  <2> QED
    BY <2>1, <2>2, <2>3
<1> QED
  BY <1>1, <1>2, PTL DEF Spec, pages

\* The invariant of the group.
LEMMA GroupInvariance == Spec => [](page = "group" => GrInv)
<1>1. Init => (page = "group" => GrInv)
  BY GrInitInv DEF Init
<1>2. (page = "group" => GrInv) /\ [Next]_pages => (page = "group" => GrInv)'
  <2> SUFFICES ASSUME page = "group" => GrInv, [Next]_pages, page' = "group"
               PROVE  GrInv'
    OBVIOUS
  <2>1. GrInv /\ (GrNext \/ UNCHANGED gr)
    BY GrPage
  <2>2. CASE UNCHANGED gr
    BY <2>1, <2>2 DEF GrInv
  <2>3. CASE GrNext
    BY <2>1, <2>3, GrNextInv
  <2> QED
    BY <2>1, <2>2, <2>3
<1> QED
  BY <1>1, <1>2, PTL DEF Spec, pages

\* Every start of an effect is answered once: it runs, or its onComplete waits or
\* was fired, or its onCancel was.  Its links are called in order, none twice and none
\* lost, each after an onComplete.  What ran to its end is where it was to be, the slide
\* knows whether it is open, and the scroll listens to the wheel no longer.  For every
\* kind of effect and every number of starts, stops and links.
THEOREM EffectsEnd == Spec => []PageFx
<1>1. (page = "fx" => FxInv) => PageFx
  BY FxInvOutcome DEF PageFx
<1> QED
  BY <1>1, FxInvariance, PTL

\* As long as no handle is used that belongs to a function since replaced, what hangs
\* on an event is what was connected and not disconnected, and every dispatch calls
\* what was connected when it began, once each and in the order of the connects,
\* whatever its listeners connect, disconnect and fire meanwhile.  The stealth
\* keydown listener is there as long as a keypress listener needs it.  For every
\* number of connects and firings, one within the other to any depth.
THEOREM ListenersAreCalled == Spec => []PageDc
<1>1. (page = "connect" => DcInv) => PageDc
  BY DcInvDispatched DEF PageDc
<1> QED
  BY <1>1, ConnectInvariance, PTL

\* Every request sent has one answer, a success, onFailure or onCancel, in the order
\* of the sends, or it is the one on its way, whatever the handlers send, cancel and
\* chain, one within the other to any depth.  Excepted are the requests that can be
\* lost, those a handler sends for an answer or within another send(), and answers
\* that are no JSON, which end the turn.  Completions and links come in order, none
\* twice.  For every number of sends and links.
THEOREM RequestsAreAnswered == Spec => []PageAj
<1>1. (page = "ajax" => AjInv) => PageAj
  BY AjInvAnswer DEF PageAj
<1> QED
  BY <1>1, AjaxInvariance, PTL

\* Once every release was heard nothing listens to the document, no ghost is left,
\* each droppable that was told the mouse is over it was told that it left, and the
\* page knows the step the slider rests on; a list holds each item once, and
\* elements stay within limits that lie around zero.  For all places of the mouse
\* and every number of presses.
THEOREM DragLetsGo == Spec => []PageDr
<1>1. (page = "drag" => DrInv) => PageDr
  BY DrInvLetsGo DEF PageDr
<1> QED
  BY <1>1, DragInvariance, PTL

\* The slides have one interval, the menu opens the gallery selected last, the
\* accordion the section told it is active, the box of tips shows one that the mouse
\* is over, and a group does not wait when all have fired.  For every number of items,
\* clicks, sections, instances and handlers, and elements inside each other anyhow.
THEOREM PartsAreSound == Spec => []PageParts
<1>1. (page = "slides" => NsInv) => (page = "slides" => NsOneShow)
  BY NsInvShow, NsAssumption
<1>2. (page = "menu" => ImInv) => (page = "menu" => ImOneGallery)
  BY ImInvGallery
<1>3. (page = "accordion" => AcInv) => (page = "accordion" => AcOneOpen)
  BY AcInvOpen
<1>4. (page = "tips" => TiInv) => (page = "tips" => TiRight)
  BY TiInvRight
<1>5. (page = "group" => GrInv) => (page = "group" => GrRound)
  BY GrInvRound
<1>6. /\ page = "slides" => NsInv
      /\ page = "menu" => ImInv
      /\ page = "accordion" => AcInv
      /\ page = "tips" => TiInv
      /\ page = "group" => GrInv
      => PageParts
  BY <1>1, <1>2, <1>3, <1>4, <1>5 DEF PageParts
<1> QED
  BY <1>6, SlidesInvariance, MenuInvariance, AccordionInvariance, TipsInvariance,
     GroupInvariance, PTL
=============================================================================
