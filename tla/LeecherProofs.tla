---------------------------- MODULE LeecherProofs ----------------------------
(***************************************************************************)
(* What the leecher uploads, for every site, number of runs and LIMIT of   *)
(* the queries: every step of a job keeps an invariant that says which     *)
(* rows are there when a page has its article, who holds the pages of an   *)
(* article, and what was posted of it.                                     *)
(***************************************************************************)
EXTENDS Leecher, FiniteSetTheorems, TLAPS

-----------------------------------------------------------------------------
(* The inductive invariant.                                                *)

\* Further pages of the article that begins with p.
LeFurther(s, p) == ToSet(s.site.pages[p])

\* What a site is like, said of the articles.
LeArticles(s) ==
  /\ \A u \in LeUrls(s) :
       /\ LeFirst(s, u) \in LeUrls(s) /\ LeFirst(s, LeFirst(s, u)) = LeFirst(s, u)
       /\ s.site.title[LeFirst(s, u)] = s.site.title[u]
       /\ LeFirst(s, u) # u => /\ LeFirst(s, u) \in DOMAIN s.site.pages
                               /\ u \in LeFurther(s, LeFirst(s, u))
  /\ \A p \in DOMAIN s.site.pages :
       /\ p \in LeUrls(s) /\ LeFirst(s, p) = p /\ p \in s.site.comma
       /\ s.site.pages[p] \in Seq(LeUrls(s))
       /\ \A v \in LeFurther(s, p) :
            v \in LeUrls(s) /\ LeFirst(s, v) = p /\ v # p /\ v \notin s.site.listed
  /\ "0" \notin LeUrls(s) /\ "" \notin LeUrls(s) /\ IsFiniteSet(LeUrls(s))
  /\ s.site.listed \subseteq LeUrls(s)

\* Every page is of one article.
LEMMA LeSitesHaveArticles ==
  ASSUME NEW s, s.site \in LeSites
  PROVE  LeArticles(s)
<1> DEFINE D == DOMAIN s.site.pages
<1>1. LeIsSite(s.site)
  BY LeAssumption
<1>2. /\ IsFiniteSet(LeUrls(s)) /\ "" \notin LeUrls(s) /\ "0" \notin LeUrls(s)
      /\ s.site.listed \subseteq LeUrls(s) /\ D \subseteq LeUrls(s)
      /\ D \subseteq s.site.comma
      /\ \A p \in D : /\ s.site.pages[p] \in Seq(LeUrls(s) \ (s.site.listed \cup D))
                      /\ \A v \in LeFurther(s, p) :
                           /\ s.site.title[v] = s.site.title[p]
                           /\ \A q \in D : v \in LeFurther(s, q) => q = p
  BY <1>1 DEF LeIsSite, LeUrls, LeFurther
<1>3. ASSUME NEW p \in D, NEW v \in LeFurther(s, p)
      PROVE  v \in LeUrls(s) /\ v \notin s.site.listed /\ v \notin D
  <2>1. PICK i \in DOMAIN s.site.pages[p] : v = s.site.pages[p][i]
    BY <1>3 DEF LeFurther, ToSet
  <2>2. s.site.pages[p] \in Seq(LeUrls(s) \ (s.site.listed \cup D))
    BY <1>2
  <2> QED
    BY <2>1, <2>2
<1>4. ASSUME NEW p \in D, NEW v \in LeFurther(s, p)
      PROVE  LeFirst(s, v) = p
  <2>1. \E q \in D : v \in LeFurther(s, q)
    BY <1>4
  <2>2. LeFirst(s, v) = CHOOSE q \in D : v \in LeFurther(s, q)
    BY <2>1 DEF LeFirst, LeFurther
  <2>3. LeFirst(s, v) \in D /\ v \in LeFurther(s, LeFirst(s, v))
    BY <2>1, <2>2
  <2> QED
    BY <1>2, <1>4, <2>3
<1>5. ASSUME NEW u, ~ \E q \in D : u \in LeFurther(s, q)
      PROVE  LeFirst(s, u) = u
  BY <1>5 DEF LeFirst, LeFurther
<1>6. ASSUME NEW p \in D
      PROVE  LeFirst(s, p) = p /\ s.site.pages[p] \in Seq(LeUrls(s))
  <2>1. ~ \E q \in D : p \in LeFurther(s, q)
    BY <1>3
  <2>2. s.site.pages[p] \in Seq(LeUrls(s) \ (s.site.listed \cup D))
    BY <1>2
  <2>3. s.site.pages[p] \in Seq(LeUrls(s))
    BY <2>2
  <2> QED
    BY <1>5, <2>1, <2>3
<1>7. ASSUME NEW u \in LeUrls(s)
      PROVE  /\ LeFirst(s, u) \in LeUrls(s)
             /\ LeFirst(s, LeFirst(s, u)) = LeFirst(s, u)
             /\ s.site.title[LeFirst(s, u)] = s.site.title[u]
             /\ LeFirst(s, u) # u => /\ LeFirst(s, u) \in D
                                     /\ u \in LeFurther(s, LeFirst(s, u))
  <2>1. CASE \E q \in D : u \in LeFurther(s, q)
    BY <1>2, <1>4, <1>6, <2>1
  <2>2. CASE ~ \E q \in D : u \in LeFurther(s, q)
    BY <1>5, <2>2
  <2> QED
    BY <2>1, <2>2
<1>8. \A p \in D : /\ p \in LeUrls(s) /\ LeFirst(s, p) = p /\ p \in s.site.comma
                  /\ s.site.pages[p] \in Seq(LeUrls(s))
                  /\ \A v \in LeFurther(s, p) :
                       /\ v \in LeUrls(s) /\ LeFirst(s, v) = p /\ v # p
                       /\ v \notin s.site.listed
  <2> TAKE p \in D
  <2>1. p \in LeUrls(s) /\ p \in s.site.comma
    BY <1>2
  <2> QED
    BY <1>3, <1>4, <1>6, <2>1
<1> QED
  BY <1>2, <1>7, <1>8 DEF LeArticles

\* The fields of the table, of a row and of a run.
LeIsTable(s) ==
  /\ DOMAIN s = {"site", "rows", "jobs", "posted", "torn", "again", "odd"}
  /\ s.site \in LeSites
  /\ DOMAIN s.rows = LeUrls(s) /\ DOMAIN s.jobs = LeRuns(s.site)
  /\ DOMAIN s.posted = LeUrls(s) /\ \A u \in LeUrls(s) : s.posted[u] \in 0 .. 2
  /\ \A u \in LeUrls(s) : /\ DOMAIN s.rows[u] = {"type", "parent", "titled"}
                          /\ s.rows[u].titled \in BOOLEAN
  /\ \A j \in LeRuns(s.site) :
       /\ DOMAIN s.jobs[j] = {"at", "todo", "item", "left", "read", "early", "parts"}
       /\ s.jobs[j].early \in BOOLEAN

\* A row that has been a page to fetch stays one that is fetched or uploaded.
LeUsable(s, u) == s.rows[u].type \notin {"none", "paging"}

\* A row's parent is its article, once its paginator was read; the first page
\* gets its parent, and may be fetched, after the others are there.
LeRowInv(s, u) ==
  /\ s.rows[u].type = "none" => s.rows[u].parent = "0"
  /\ s.rows[u].type \in {"got", "sent"} => s.rows[u].titled
  /\ s.rows[u].titled => LeUsable(s, u)
  /\ s.rows[u].parent \in {"0", LeFirst(s, u)}
  /\ u \in DOMAIN s.site.pages =>
       /\ LeUsable(s, u) <=> s.rows[u].parent = u
       /\ LeUsable(s, u) => \A v \in LeFurther(s, u) : s.rows[v].type # "none"
  /\ LeFirst(s, u) # u =>
       /\ s.rows[u].type # "none" => s.rows[u].parent = LeFirst(s, u)
       /\ s.rows[u].type # "paging"
  /\ LeFirst(s, u) = u /\ u \notin DOMAIN s.site.pages => s.rows[u].parent = "0"

\* A paging run has still to insert the pages that are not there.
LePagingInv(s, b) ==
  b.at = "save" =>
    /\ b.item \in DOMAIN s.site.pages /\ b.left \in Seq(LeUrls(s))
    /\ ToSet(b.left) \subseteq LeFurther(s, b.item)
    /\ \A v \in LeFurther(s, b.item) : v \in ToSet(b.left) \/ s.rows[v].type # "none"

\* An uploader that did not read its article early has counted all of it, and
\* what it posts is what it counted.
LeUploadInv(s, b) ==
  /\ b.at \in {"not started", "next", "count", "post", "mark"}
  /\ \A u \in b.todo :
       /\ u \in LeUrls(s) /\ s.rows[u].titled /\ u # b.item
       /\ LeArticle(s, u) = {u} /\ LeFirst(s, u) \notin s.again => s.posted[u] = 0
  /\ b.at = "not started" => b.todo = {}
  /\ b.at \in {"not started", "next"} => ~ b.early /\ b.item = ""
  /\ b.at \in {"count", "post", "mark"} => b.item \in LeUrls(s)
  /\ b.at = "count" =>
       /\ s.rows[b.item].parent # "0"
       /\ ~ b.early => b.read = LeArticle(s, b.item)
  /\ b.at \in {"post", "mark"} =>
       /\ b.parts # {} /\ b.parts \subseteq LeArticle(s, b.item)
       /\ \A v \in b.parts : s.rows[v].titled
       /\ ~ b.early => b.parts = LeArticle(s, b.item)
  /\ b.at = "mark" =>
       /\ \A v \in b.parts : s.posted[v] > 0
       /\ b.parts # LeArticle(s, b.item) => LeFirst(s, b.item) \in s.torn
  /\ b.at = "post" /\ LeFirst(s, b.item) \notin s.again =>
       \A v \in b.parts : s.posted[v] = 0

LeJobInv(s, j) ==
  /\ j[1] = "list" => s.jobs[j].todo \subseteq s.site.listed
  /\ j[1] = "paging" => LePagingInv(s, s.jobs[j])
  /\ j[1] = "content" =>
       \A u \in s.jobs[j].todo : u \in LeUrls(s) /\ LeUsable(s, u)
  /\ j[1] = "upload" => LeUploadInv(s, s.jobs[j])

\* Nobody but one uploader has an article that nothing may upload twice.
LeOneHolds(s) ==
  \A j, k \in LeUploaders(s) : j # k =>
      LeHeld(s, j) \cap LeHeld(s, k) \subseteq s.again

\* A page of one was posted once, and is sent or is being marked.
LeMarks(s, j, u) == s.jobs[j].at = "mark" /\ u \in s.jobs[j].parts

LeOnce(s) ==
  \A u \in LeUrls(s) : s.posted[u] > 0 /\ LeFirst(s, u) \notin s.again =>
    /\ s.posted[u] = 1
    /\ s.rows[u].type = "sent" \/ \E j \in LeUploaders(s) : LeMarks(s, j, u)

\* A sent page was posted, or what it takes its title for.
LeSentWasPosted(s) ==
  \A u \in LeUrls(s) :
    s.rows[u].type = "sent" /\ s.posted[u] = 0 =>
      \E v \in LeUrls(s) :
        /\ s.posted[v] > 0 /\ s.site.title[v] = s.site.title[u]
        /\ LeFirst(s, v) # LeFirst(s, u) \/ LeFirst(s, u) \in s.torn

\* Nothing else has the title of u's article.
LeAlone(s, u) ==
  \A v \in LeUrls(s) : s.site.title[v] = s.site.title[u] =>
      LeFirst(s, v) = LeFirst(s, u)

\* With one page of an article all are sent.
LeSentWhole(s) ==
  \A u \in LeUrls(s) :
    s.rows[u].type = "sent" /\ LeAlone(s, u) /\ LeFirst(s, u) \notin s.torn \cup s.again =>
      \A v \in LeArticle(s, u) : s.rows[v].type = "sent"

LeInvOf(s) ==
  /\ LeIsTable(s) /\ s.odd = {}
  /\ \A u \in LeUrls(s) : LeRowInv(s, u)
  /\ \A j \in LeRuns(s.site) : LeJobInv(s, j)
  /\ LeOneHolds(s) /\ LeOnce(s) /\ LeSentWasPosted(s) /\ LeSentWhole(s)

LeInv == LeInvOf(le)

\* The invariant gives what is promised.
LEMMA LeInvUploads == LeInv => LeUploads
<1> SUFFICES ASSUME LeInv PROVE LeUploads
  OBVIOUS
<1>1. /\ LeIsTable(le) /\ le.odd = {} /\ LeOnce(le) /\ LeSentWasPosted(le)
      /\ LeSentWhole(le)
  BY DEF LeInv, LeInvOf
<1>2. LeArticles(le)
  BY <1>1, LeSitesHaveArticles DEF LeIsTable
<1>3. LeWhole /\ LeTwice /\ LeSentMeansPosted
  BY <1>1 DEF LeWhole, LeTwice, LeSentMeansPosted, LeOnce, LeSentWasPosted
<1>4. LeNotStuck
  <2> SUFFICES ASSUME NEW p \in LeUrls(le), NEW u \in LeArticle(le, p),
                      NEW v \in LeArticle(le, p), le.rows[u].type = "sent",
                      le.rows[v].type # "sent",
                      LeFirst(le, p) \notin le.torn \cup le.again
               PROVE  \E w \in LeUrls(le) : /\ LeFirst(le, w) # LeFirst(le, p)
                                            /\ le.site.title[w] = le.site.title[p]
    BY DEF LeNotStuck
  <2>1. /\ u \in LeUrls(le) /\ LeFirst(le, u) = LeFirst(le, p)
        /\ v \in LeArticle(le, u)
    BY DEF LeArticle
  <2>2. ~ LeAlone(le, u)
    BY <1>1, <2>1 DEF LeSentWhole
  <2>3. le.site.title[u] = le.site.title[p]
    BY <1>2, <2>1 DEF LeArticles
  <2> QED
    BY <2>1, <2>2, <2>3 DEF LeAlone
<1> QED
  BY <1>3, <1>4 DEF LeUploads

-----------------------------------------------------------------------------
(* The parts of the invariant, as tables change.                           *)

\* What depends on the site alone.
LEMMA LeSameSite ==
  ASSUME NEW s, NEW t, t.site = s.site
  PROVE  /\ LeUrls(t) = LeUrls(s) /\ LeUploaders(t) = LeUploaders(s)
         /\ \A u : /\ LeFirst(t, u) = LeFirst(s, u)
                   /\ LeArticle(t, u) = LeArticle(s, u)
                   /\ LeFurther(t, u) = LeFurther(s, u)
                   /\ LeAlone(t, u) <=> LeAlone(s, u)
<1>1. LeUrls(t) = LeUrls(s) /\ LeUploaders(t) = LeUploaders(s)
  BY DEF LeUrls, LeUploaders
<1>2. \A u : LeFirst(t, u) = LeFirst(s, u) /\ LeFurther(t, u) = LeFurther(s, u)
  BY DEF LeFirst, LeFurther
<1> QED
  BY <1>1, <1>2 DEF LeArticle, LeAlone

\* The rows as a step may leave them that posts and marks nothing: none goes
\* back, none becomes sent, and one that was posted is written with a note.
LeWritten(s, t) ==
  /\ t.site = s.site /\ t.posted = s.posted /\ t.torn = s.torn /\ t.odd = s.odd
  /\ s.again \subseteq t.again
  /\ \A u \in LeUrls(s) :
       /\ s.rows[u].type # "none" => t.rows[u].type # "none"
       /\ LeUsable(s, u) => LeUsable(t, u)
       /\ s.rows[u].titled => t.rows[u].titled
       /\ s.rows[u].parent # "0" => t.rows[u].parent = s.rows[u].parent
       /\ t.rows[u].type = "sent" => s.rows[u].type = "sent"
       /\ s.rows[u].type = "sent" /\ t.rows[u].type # "sent" /\ s.posted[u] > 0 =>
            LeFirst(s, u) \in t.again

\* A run whose step leaves the others where they are.
LeRunStep(s, t, j) ==
  /\ LeIsTable(t) /\ j \in LeRuns(s.site)
  /\ \A k \in LeRuns(s.site) : k # j => t.jobs[k] = s.jobs[k]

\* The others' part of the invariant after such a step.
LEMMA LeOtherRuns ==
  ASSUME NEW s, NEW t, NEW j, LeInvOf(s), LeRunStep(s, t, j), LeWritten(s, t),
         NEW k \in LeRuns(s.site), k # j
  PROVE  LeJobInv(t, k)
<1> DEFINE b == s.jobs[k]
<1>1. t.jobs[k] = b /\ LeJobInv(s, k) /\ t.site = s.site
  BY DEF LeRunStep, LeInvOf, LeWritten
<1>2. /\ LeUrls(t) = LeUrls(s)
      /\ \A u : /\ LeFirst(t, u) = LeFirst(s, u)
                /\ LeArticle(t, u) = LeArticle(s, u)
                /\ LeFurther(t, u) = LeFurther(s, u)
  BY <1>1, LeSameSite
<1>3. \A u \in LeUrls(s) : LeUsable(s, u) => LeUsable(t, u)
  BY DEF LeWritten
<1>4. ASSUME k[1] = "paging" PROVE LePagingInv(t, b)
  <2>1. LePagingInv(s, b)
    BY <1>1, <1>4 DEF LeJobInv
  <2>2. LeArticles(s)
    BY LeSitesHaveArticles DEF LeInvOf, LeIsTable
  <2>3. \A p \in DOMAIN s.site.pages : LeFurther(s, p) \subseteq LeUrls(s)
    BY <2>2 DEF LeArticles
  <2>4. \A u \in LeUrls(s) : s.rows[u].type # "none" => t.rows[u].type # "none"
    BY DEF LeWritten
  <2> QED
    BY <1>1, <1>2, <2>1, <2>3, <2>4 DEF LePagingInv
<1>5. ASSUME k[1] = "upload" PROVE LeUploadInv(t, b)
  <2>1. LeUploadInv(s, b)
    BY <1>1, <1>5 DEF LeJobInv
  <2>2. /\ t.posted = s.posted /\ t.torn = s.torn /\ s.again \subseteq t.again
        /\ \A u \in LeUrls(s) :
             /\ s.rows[u].titled => t.rows[u].titled
             /\ s.rows[u].parent # "0" => t.rows[u].parent = s.rows[u].parent
    BY DEF LeWritten
  <2>3. \A u : LeArticle(s, u) \subseteq LeUrls(s)
    BY DEF LeArticle
  <2> QED
    BY <1>2, <1>3, <2>1, <2>2, <2>3 DEF LeUploadInv
<1> QED
  BY <1>1, <1>2, <1>3, <1>4, <1>5 DEF LeJobInv

\* A step that posts and marks nothing.
LEMMA LeQuietStep ==
  ASSUME NEW s, NEW t, NEW j, LeInvOf(s), LeRunStep(s, t, j), LeWritten(s, t),
         \A u \in LeUrls(s) : LeRowInv(t, u), LeJobInv(t, j),
         j \in LeUploaders(s) =>
           /\ s.jobs[j].at # "mark"
           /\ \A k \in LeUploaders(s) :
                k # j => LeHeld(t, j) \cap LeHeld(s, k) \subseteq t.again
  PROVE  LeInvOf(t)
<1>1. /\ t.site = s.site /\ t.posted = s.posted /\ t.torn = s.torn /\ t.odd = s.odd
      /\ s.again \subseteq t.again
  BY DEF LeWritten
<1>2. /\ LeUrls(t) = LeUrls(s) /\ LeUploaders(t) = LeUploaders(s)
      /\ \A u : /\ LeFirst(t, u) = LeFirst(s, u)
                /\ LeArticle(t, u) = LeArticle(s, u)
                /\ LeAlone(t, u) <=> LeAlone(s, u)
  BY <1>1, LeSameSite
<1>3. LeIsTable(t) /\ \A k \in LeRuns(s.site) : k # j => t.jobs[k] = s.jobs[k]
  BY DEF LeRunStep
<1>4. LeUploaders(s) \subseteq LeRuns(s.site)
  BY DEF LeUploaders
<1>5. \A k \in LeUploaders(s) : k # j => LeHeld(t, k) = LeHeld(s, k)
  BY <1>2, <1>3, <1>4 DEF LeHeld
<1>6. LeOneHolds(t)
  <2> SUFFICES ASSUME NEW k \in LeUploaders(s), NEW m \in LeUploaders(s), k # m
               PROVE  LeHeld(t, k) \cap LeHeld(t, m) \subseteq t.again
    BY <1>2 DEF LeOneHolds
  <2>1. LeHeld(s, k) \cap LeHeld(s, m) \subseteq s.again
    BY DEF LeInvOf, LeOneHolds
  <2> QED
    BY <1>1, <1>5, <2>1
<1>7. LeOnce(t)
  <2> SUFFICES ASSUME NEW u \in LeUrls(s), t.posted[u] > 0,
                      LeFirst(s, u) \notin t.again
               PROVE  /\ t.posted[u] = 1
                      /\ \/ t.rows[u].type = "sent"
                         \/ \E k \in LeUploaders(s) : LeMarks(t, k, u)
    BY <1>2 DEF LeOnce
  <2>1. /\ s.posted[u] = 1
        /\ s.rows[u].type = "sent" \/ \E k \in LeUploaders(s) : LeMarks(s, k, u)
    BY <1>1 DEF LeInvOf, LeOnce
  <2>2. s.rows[u].type = "sent" => t.rows[u].type = "sent"
    BY <1>1 DEF LeWritten
  <2>3. \A k \in LeUploaders(s) : LeMarks(s, k, u) => LeMarks(t, k, u)
    BY <1>3, <1>4 DEF LeMarks
  <2> QED
    BY <1>1, <2>1, <2>2, <2>3
<1>8. \A u \in LeUrls(s) : t.rows[u].type = "sent" => s.rows[u].type = "sent"
  BY DEF LeWritten
<1>9. LeSentWasPosted(t)
  BY <1>1, <1>2, <1>8 DEF LeInvOf, LeSentWasPosted
<1>10. LeSentWhole(t)
  <2> SUFFICES ASSUME NEW u \in LeUrls(s), t.rows[u].type = "sent", LeAlone(s, u),
                      LeFirst(s, u) \notin s.torn, LeFirst(s, u) \notin t.again,
                      NEW v \in LeArticle(s, u)
               PROVE  t.rows[v].type = "sent"
    BY <1>1, <1>2 DEF LeSentWhole
  <2>1. s.rows[v].type = "sent"
    BY <1>1, <1>8 DEF LeInvOf, LeSentWhole
  <2>2. v \in LeUrls(s) /\ LeFirst(s, v) = LeFirst(s, u)
    BY DEF LeArticle
  <2>3. s.site.title[v] = s.site.title[u]
    <3>1. LeArticles(s)
      BY LeSitesHaveArticles DEF LeInvOf, LeIsTable
    <3> QED
      BY <2>2, <3>1 DEF LeArticles
  <2>4. s.posted[v] # 0
    BY <2>1, <2>2, <2>3 DEF LeInvOf, LeSentWasPosted, LeAlone
  <2>5. s.posted[v] > 0
    BY <2>2, <2>4 DEF LeInvOf, LeIsTable
  <2> QED
    BY <2>1, <2>2, <2>5 DEF LeWritten
<1>11. \A k \in LeRuns(s.site) : LeJobInv(t, k)
  BY LeOtherRuns
<1> QED
  BY <1>1, <1>2, <1>3, <1>6, <1>7, <1>9, <1>10, <1>11 DEF LeInvOf

\* A run that is left alone holds what it held.
LEMMA LeHeldSame ==
  ASSUME NEW s, NEW t, NEW k, t.site = s.site, t.jobs[k] = s.jobs[k]
  PROVE  LeHeld(t, k) = LeHeld(s, k)
<1>1. \A u : LeFirst(t, u) = LeFirst(s, u)
  BY LeSameSite
<1> QED
  BY <1>1 DEF LeHeld

\* A post of run j that arrives: its parts are posted once more.
LeArrives(s, t, j) ==
  LET b == s.jobs[j]
      whole == b.parts = LeArticle(s, b.item)
  IN /\ t.site = s.site /\ t.rows = s.rows
     /\ \A u \in LeUrls(s) : IF u \in b.parts /\ s.posted[u] < 2
                             THEN t.posted[u] = s.posted[u] + 1
                             ELSE t.posted[u] = s.posted[u]
     /\ s.torn \subseteq t.torn /\ t.odd = s.odd
     /\ ~ whole => LeFirst(s, b.item) \in t.torn

\* It is the first post of its pages, or something may have uploaded them twice.
LEMMA LeArrivedInv ==
  ASSUME NEW s, NEW t, NEW j, LeInvOf(s), LeRunStep(s, t, j), LeArrives(s, t, j),
         j \in LeUploaders(s), s.jobs[j].at = "post", s.again \subseteq t.again,
         LeHeld(t, j) \subseteq LeHeld(s, j), LeJobInv(t, j),
         \/ t.jobs[j].at = "mark" /\ t.jobs[j].parts = s.jobs[j].parts
         \/ LeFirst(s, s.jobs[j].item) \in t.again
  PROVE  LeInvOf(t)
<1> DEFINE b == s.jobs[j]
           p == LeFirst(s, b.item)
<1>1. /\ t.site = s.site /\ t.rows = s.rows /\ s.torn \subseteq t.torn
      /\ t.odd = s.odd
      /\ \A u \in LeUrls(s) : IF u \in b.parts /\ s.posted[u] < 2
                              THEN t.posted[u] = s.posted[u] + 1
                              ELSE t.posted[u] = s.posted[u]
  BY DEF LeArrives
<1>2. /\ LeUrls(t) = LeUrls(s) /\ LeUploaders(t) = LeUploaders(s)
      /\ \A u : /\ LeFirst(t, u) = LeFirst(s, u)
                /\ LeArticle(t, u) = LeArticle(s, u)
                /\ LeFurther(t, u) = LeFurther(s, u)
                /\ LeAlone(t, u) <=> LeAlone(s, u)
  BY <1>1, LeSameSite
<1>3. LeIsTable(t) /\ \A k \in LeRuns(s.site) : k # j => t.jobs[k] = s.jobs[k]
  BY DEF LeRunStep
<1>4. LeUploaders(s) \subseteq LeRuns(s.site) /\ \A k \in LeUploaders(s) : k[1] = "upload"
  BY DEF LeUploaders
<1>5. \A k \in LeUploaders(s) : k # j => LeHeld(t, k) = LeHeld(s, k)
  BY <1>1, <1>3, <1>4, LeHeldSame
<1>6. \A u \in LeUrls(s) : /\ s.posted[u] \in 0 .. 2 /\ t.posted[u] \in 0 .. 2
                           /\ t.posted[u] >= s.posted[u]
  BY <1>1, <1>2, <1>3 DEF LeInvOf, LeIsTable
<1>7. LeUploadInv(s, b) /\ LeArticles(s)
  BY <1>4, LeSitesHaveArticles DEF LeInvOf, LeJobInv, LeIsTable
<1>8. /\ \A v \in b.parts : v \in LeUrls(s) /\ LeFirst(s, v) = p
      /\ b.item # "" /\ p \in LeHeld(s, j)
  BY <1>7 DEF LeUploadInv, LeArticle, LeArticles, LeHeld
<1>9. ASSUME p \notin t.again
      PROVE  \A v \in b.parts : s.posted[v] = 0 /\ t.posted[v] = 1
  <2>1. p \notin s.again
    BY <1>9
  <2>2. \A v \in b.parts : s.posted[v] = 0
    BY <1>7, <2>1 DEF LeUploadInv
  <2>3. ASSUME NEW v \in b.parts PROVE t.posted[v] = s.posted[v] + 1
    <3>1. v \in LeUrls(s)
      BY <1>8, <2>3
    <3>2. s.posted[v] = 0
      BY <2>2, <2>3
    <3> QED
      BY <1>1, <2>3, <3>1, <3>2
  <2> QED
    BY <2>2, <2>3
<1>10. \A u \in LeUrls(s) : LeRowInv(t, u)
  BY <1>1, <1>2 DEF LeInvOf, LeRowInv, LeUsable
<1>11. ASSUME NEW k \in LeRuns(s.site), k # j PROVE LeJobInv(t, k)
  <2>1. t.jobs[k] = s.jobs[k] /\ LeJobInv(s, k)
    BY <1>3, <1>11 DEF LeInvOf
  <2>2. ASSUME k[1] = "upload" PROVE LeUploadInv(t, s.jobs[k])
    <3> DEFINE c == s.jobs[k]
    <3>1. LeUploadInv(s, c) /\ k \in LeUploaders(s)
      BY <2>1, <2>2 DEF LeJobInv, LeUploaders
    <3>2. \A v \in c.parts : c.at \in {"post", "mark"} =>
            /\ v \in LeUrls(s) /\ t.posted[v] >= s.posted[v]
            /\ s.posted[v] \in 0 .. 2 /\ t.posted[v] \in 0 .. 2
      BY <1>6, <3>1 DEF LeUploadInv, LeArticle
    <3>3. ASSUME c.at = "post", LeFirst(s, c.item) \notin t.again,
                 NEW v \in c.parts
          PROVE  t.posted[v] = 0
      <4>1. v \in LeUrls(s) /\ LeFirst(s, v) = LeFirst(s, c.item)
        BY <3>1, <3>3 DEF LeUploadInv, LeArticle
      <4>2. s.posted[v] = 0
        BY <3>1, <3>3 DEF LeUploadInv
      <4>3. LeFirst(s, c.item) \in LeHeld(s, k)
        BY <1>7, <3>1, <3>3 DEF LeUploadInv, LeHeld, LeArticles
      <4>4. p # LeFirst(s, c.item)
        BY <1>8, <1>11, <3>1, <3>3, <4>3 DEF LeInvOf, LeOneHolds
      <4> QED
        BY <1>1, <1>8, <4>1, <4>2, <4>4
    <3>4. ASSUME c.at = "mark", NEW v \in c.parts
          PROVE  t.posted[v] > 0
      <4>1. t.posted[v] >= s.posted[v] /\ s.posted[v] \in 0 .. 2 /\ t.posted[v] \in 0 .. 2
        BY <3>2, <3>4
      <4>2. s.posted[v] > 0
        BY <3>1, <3>4 DEF LeUploadInv
      <4> QED
        BY <4>1, <4>2
    <3>5. ASSUME NEW u \in c.todo, LeArticle(s, u) = {u},
                 LeFirst(s, u) \notin t.again
          PROVE  t.posted[u] = 0
      <4>1. u \in LeUrls(s) /\ s.posted[u] = 0
        BY <3>1, <3>5 DEF LeUploadInv
      <4>2. LeFirst(s, u) \in LeHeld(s, k)
        BY <3>5 DEF LeHeld
      <4>3. p # LeFirst(s, u)
        BY <1>8, <1>11, <3>1, <3>5, <4>2 DEF LeInvOf, LeOneHolds
      <4> QED
        BY <1>1, <1>8, <4>1, <4>3
    <3> QED
      BY <1>1, <1>2, <3>1, <3>3, <3>4, <3>5 DEF LeUploadInv
  <2> QED
    BY <1>1, <1>2, <2>1, <2>2 DEF LeJobInv, LePagingInv, LeUsable
<1>12. LeOneHolds(t)
  <2> SUFFICES ASSUME NEW k \in LeUploaders(s), NEW m \in LeUploaders(s), k # m
               PROVE  LeHeld(t, k) \cap LeHeld(t, m) \subseteq t.again
    BY <1>2 DEF LeOneHolds
  <2>1. LeHeld(s, k) \cap LeHeld(s, m) \subseteq s.again
    BY DEF LeInvOf, LeOneHolds
  <2> QED
    BY <1>5, <2>1
<1>13. LeOnce(t)
  <2> SUFFICES ASSUME NEW u \in LeUrls(s), t.posted[u] > 0,
                      LeFirst(s, u) \notin t.again
               PROVE  /\ t.posted[u] = 1
                      /\ \/ t.rows[u].type = "sent"
                         \/ \E k \in LeUploaders(s) : LeMarks(t, k, u)
    BY <1>2 DEF LeOnce
  <2>1. CASE u \in b.parts
    <3>1. p \notin t.again /\ t.posted[u] = 1
      BY <1>8, <1>9, <2>1
    <3> QED
      BY <2>1, <3>1 DEF LeMarks
  <2>2. CASE u \notin b.parts
    <3>1. t.posted[u] = s.posted[u]
      BY <1>1, <2>2
    <3>2. /\ s.posted[u] = 1
          /\ s.rows[u].type = "sent" \/ \E k \in LeUploaders(s) : LeMarks(s, k, u)
      BY <3>1 DEF LeInvOf, LeOnce
    <3>3. \A k \in LeUploaders(s) : LeMarks(s, k, u) => LeMarks(t, k, u)
      BY <1>3, <1>4, <2>2 DEF LeMarks
    <3> QED
      BY <1>1, <3>1, <3>2, <3>3
  <2> QED
    BY <2>1, <2>2
<1>14. LeSentWasPosted(t)
  <2> SUFFICES ASSUME NEW u \in LeUrls(s), s.rows[u].type = "sent", t.posted[u] = 0
               PROVE  \E v \in LeUrls(s) :
                        /\ t.posted[v] > 0 /\ s.site.title[v] = s.site.title[u]
                        /\ LeFirst(s, v) # LeFirst(s, u) \/ LeFirst(s, u) \in t.torn
    BY <1>1, <1>2 DEF LeSentWasPosted
  <2>1. s.posted[u] = 0
    BY <1>6
  <2>2. PICK v \in LeUrls(s) :
          /\ s.posted[v] > 0 /\ s.site.title[v] = s.site.title[u]
          /\ LeFirst(s, v) # LeFirst(s, u) \/ LeFirst(s, u) \in s.torn
    BY <2>1 DEF LeInvOf, LeSentWasPosted
  <2>3. /\ s.posted[v] \in 0 .. 2 /\ t.posted[v] \in 0 .. 2
        /\ t.posted[v] >= s.posted[v] /\ s.posted[v] > 0
    BY <1>6, <2>2
  <2>4. t.posted[v] > 0
    BY <2>3
  <2> QED
    BY <1>1, <2>2, <2>4
<1>15. LeSentWhole(t)
  BY <1>1, <1>2 DEF LeInvOf, LeSentWhole
<1> QED
  BY <1>1, <1>2, <1>3, <1>10, <1>11, <1>12, <1>13, <1>14, <1>15 DEF LeInvOf

\* update(): the rows with the title of the item are sent, and the run goes on.
LeMarked(s, t, j) ==
  /\ t.site = s.site /\ t.posted = s.posted /\ t.torn = s.torn /\ t.odd = s.odd
  /\ t.again = s.again
  /\ \A u \in LeUrls(s) :
       /\ t.rows[u].parent = s.rows[u].parent /\ t.rows[u].titled = s.rows[u].titled
       /\ t.rows[u].type =
            IF s.rows[u].titled
                 /\ s.site.title[u] = s.site.title[s.jobs[j].item]
            THEN "sent" ELSE s.rows[u].type

\* With the parts that were posted, all that has their title is sent.
LEMMA LeMarkedInv ==
  ASSUME NEW s, NEW t, NEW j, LeInvOf(s), LeRunStep(s, t, j), LeMarked(s, t, j),
         j \in LeUploaders(s), s.jobs[j].at = "mark",
         LeHeld(t, j) \subseteq LeHeld(s, j), LeJobInv(t, j)
  PROVE  LeInvOf(t)
<1> DEFINE b == s.jobs[j]
           p == LeFirst(s, b.item)
<1>1. /\ t.site = s.site /\ t.posted = s.posted /\ t.torn = s.torn /\ t.odd = s.odd
      /\ t.again = s.again
      /\ \A u \in LeUrls(s) :
           /\ t.rows[u].parent = s.rows[u].parent
           /\ t.rows[u].titled = s.rows[u].titled
           /\ t.rows[u].type =
                IF s.rows[u].titled /\ s.site.title[u] = s.site.title[b.item]
                THEN "sent" ELSE s.rows[u].type
  BY DEF LeMarked
<1>2. /\ LeUrls(t) = LeUrls(s) /\ LeUploaders(t) = LeUploaders(s)
      /\ \A u : /\ LeFirst(t, u) = LeFirst(s, u)
                /\ LeArticle(t, u) = LeArticle(s, u)
                /\ LeFurther(t, u) = LeFurther(s, u)
                /\ LeAlone(t, u) <=> LeAlone(s, u)
  BY <1>1, LeSameSite
<1>3. LeIsTable(t) /\ \A k \in LeRuns(s.site) : k # j => t.jobs[k] = s.jobs[k]
  BY DEF LeRunStep
<1>4. LeUploaders(s) \subseteq LeRuns(s.site) /\ \A k \in LeUploaders(s) : k[1] = "upload"
  BY DEF LeUploaders
<1>5. \A k \in LeUploaders(s) : k # j => LeHeld(t, k) = LeHeld(s, k)
  BY <1>1, <1>3, <1>4, LeHeldSame
<1>6. LeUploadInv(s, b) /\ LeArticles(s)
  BY <1>4, LeSitesHaveArticles DEF LeInvOf, LeJobInv, LeIsTable
<1>7. /\ b.parts # {} /\ b.item \in LeUrls(s)
      /\ \A v \in b.parts : /\ v \in LeUrls(s) /\ LeFirst(s, v) = p
                            /\ s.posted[v] > 0 /\ s.rows[v].titled
                            /\ s.site.title[v] = s.site.title[b.item]
      /\ b.parts # LeArticle(s, b.item) => p \in s.torn
  <2>1. /\ b.parts # {} /\ b.item \in LeUrls(s)
        /\ b.parts \subseteq LeArticle(s, b.item)
        /\ \A v \in b.parts : s.posted[v] > 0 /\ s.rows[v].titled
        /\ b.parts # LeArticle(s, b.item) => p \in s.torn
    BY <1>6 DEF LeUploadInv
  <2>2. \A v \in b.parts : v \in LeUrls(s) /\ LeFirst(s, v) = p
    BY <2>1 DEF LeArticle
  <2>3. \A v \in LeUrls(s) : s.site.title[LeFirst(s, v)] = s.site.title[v]
    BY <1>6 DEF LeArticles
  <2>4. \A v \in b.parts : s.site.title[v] = s.site.title[b.item]
    BY <2>1, <2>2, <2>3
  <2> QED
    BY <2>1, <2>2, <2>4
<1>8. \A u \in LeUrls(s) : /\ LeRowInv(s, u)
                           /\ LeUsable(t, u) <=> LeUsable(s, u)
                           /\ t.rows[u].type = "none" <=> s.rows[u].type = "none"
                           /\ t.rows[u].type = "paging" <=> s.rows[u].type = "paging"
  BY <1>1 DEF LeInvOf, LeRowInv, LeUsable
<1>9. \A v \in b.parts : t.rows[v].type = "sent"
  BY <1>1, <1>7
<1>10. \A u \in LeUrls(s) : LeRowInv(t, u)
  <2> SUFFICES ASSUME NEW u \in LeUrls(s) PROVE LeRowInv(t, u)
    OBVIOUS
  <2>1. u \in DOMAIN s.site.pages => LeFurther(s, u) \subseteq LeUrls(s)
    BY <1>6 DEF LeArticles
  <2>2. t.rows[u].type \in {"got", "sent"} => t.rows[u].titled
    BY <1>1, <1>8 DEF LeRowInv
  <2> QED
    BY <1>1, <1>2, <1>8, <2>1, <2>2 DEF LeRowInv
<1>11. ASSUME NEW k \in LeRuns(s.site), k # j PROVE LeJobInv(t, k)
  <2>1. t.jobs[k] = s.jobs[k] /\ LeJobInv(s, k)
    BY <1>3, <1>11 DEF LeInvOf
  <2>2. ASSUME k[1] = "upload" PROVE LeUploadInv(t, s.jobs[k])
    <3>1. LeUploadInv(s, s.jobs[k])
      BY <2>1, <2>2 DEF LeJobInv
    <3>2. \A u : LeArticle(s, u) \subseteq LeUrls(s)
      BY DEF LeArticle
    <3>3. /\ \A u \in LeUrls(s) :
               /\ t.rows[u].parent = s.rows[u].parent
               /\ t.rows[u].titled = s.rows[u].titled
               /\ LeUsable(t, u) <=> LeUsable(s, u)
          /\ t.posted = s.posted /\ t.torn = s.torn /\ t.again = s.again
      BY <1>1, <1>8
    <3> QED
      BY <1>2, <3>1, <3>2, <3>3 DEF LeUploadInv
  <2>3. k[1] = "paging" => LePagingInv(t, s.jobs[k])
    <3>1. \A q \in DOMAIN s.site.pages : LeFurther(s, q) \subseteq LeUrls(s)
      BY <1>6 DEF LeArticles
    <3> QED
      BY <1>1, <1>2, <1>8, <2>1, <3>1 DEF LeJobInv, LePagingInv
  <2> QED
    BY <1>1, <1>2, <1>8, <2>1, <2>2, <2>3 DEF LeJobInv
<1>12. LeOneHolds(t)
  <2> SUFFICES ASSUME NEW k \in LeUploaders(s), NEW m \in LeUploaders(s), k # m
               PROVE  LeHeld(t, k) \cap LeHeld(t, m) \subseteq t.again
    BY <1>2 DEF LeOneHolds
  <2>1. LeHeld(s, k) \cap LeHeld(s, m) \subseteq s.again
    BY DEF LeInvOf, LeOneHolds
  <2> QED
    BY <1>1, <1>5, <2>1
<1>13. LeOnce(t)
  <2> SUFFICES ASSUME NEW u \in LeUrls(s), s.posted[u] > 0,
                      LeFirst(s, u) \notin s.again
               PROVE  /\ s.posted[u] = 1
                      /\ \/ t.rows[u].type = "sent"
                         \/ \E k \in LeUploaders(s) : LeMarks(t, k, u)
    BY <1>1, <1>2 DEF LeOnce
  <2>1. /\ s.posted[u] = 1
        /\ s.rows[u].type = "sent" \/ \E k \in LeUploaders(s) : LeMarks(s, k, u)
    BY DEF LeInvOf, LeOnce
  <2>2. \A k \in LeUploaders(s) : k # j /\ LeMarks(s, k, u) => LeMarks(t, k, u)
    BY <1>3, <1>4 DEF LeMarks
  <2>3. LeMarks(s, j, u) => t.rows[u].type = "sent"
    BY <1>9 DEF LeMarks
  <2> QED
    BY <1>1, <2>1, <2>2, <2>3
<1>14. LeSentWasPosted(t)
  <2> SUFFICES ASSUME NEW u \in LeUrls(s), t.rows[u].type = "sent", s.posted[u] = 0
               PROVE  \E v \in LeUrls(s) :
                        /\ s.posted[v] > 0 /\ s.site.title[v] = s.site.title[u]
                        /\ LeFirst(s, v) # LeFirst(s, u) \/ LeFirst(s, u) \in s.torn
    BY <1>1, <1>2 DEF LeSentWasPosted
  <2>1. CASE s.rows[u].type = "sent"
    BY <2>1 DEF LeInvOf, LeSentWasPosted
  <2>2. CASE s.rows[u].type # "sent"
    <3>1. s.site.title[u] = s.site.title[b.item]
      BY <1>1, <2>2
    <3>2. PICK v \in b.parts : TRUE
      BY <1>7
    <3>3. CASE p = LeFirst(s, u)
      <4>1. u \in LeArticle(s, b.item) /\ u \notin b.parts
        BY <1>7, <3>3 DEF LeArticle
      <4> QED
        BY <1>7, <3>1, <3>2, <3>3, <4>1
    <3> QED
      BY <1>7, <3>1, <3>2, <3>3
  <2> QED
    BY <2>1, <2>2
<1>15. LeSentWhole(t)
  <2> SUFFICES ASSUME NEW u \in LeUrls(s), t.rows[u].type = "sent", LeAlone(s, u),
                      LeFirst(s, u) \notin s.torn \cup s.again,
                      NEW v \in LeArticle(s, u)
               PROVE  t.rows[v].type = "sent"
    BY <1>1, <1>2 DEF LeSentWhole
  <2>1. v \in LeUrls(s)
    BY DEF LeArticle
  <2>2. CASE s.rows[u].type = "sent"
    <3>1. s.rows[v].type = "sent"
      BY <2>2 DEF LeInvOf, LeSentWhole
    <3> QED
      BY <1>1, <2>1, <3>1
  <2>3. CASE s.rows[u].type # "sent"
    <3>1. s.site.title[u] = s.site.title[b.item]
      BY <1>1, <2>3
    <3>2. LeFirst(s, u) = p
      BY <1>7, <3>1 DEF LeAlone
    <3>3. v \in b.parts
      BY <1>7, <3>2 DEF LeArticle
    <3> QED
      BY <1>9, <3>3
  <2> QED
    BY <2>2, <2>3
<1> QED
  BY <1>1, <1>2, <1>3, <1>10, <1>11, <1>12, <1>13, <1>14, <1>15 DEF LeInvOf

-----------------------------------------------------------------------------
(* One lemma per action: the uploader.                                     *)

\* The runs of a kind are those that the site allows.
LEMMA LeRunExists ==
  ASSUME NEW s, s.site \in LeSites, NEW k \in LeKinds, NEW i \in 1 .. s.site.runs[k]
  PROVE  /\ <<k, i>> \in LeRuns(s.site)
         /\ <<k, i>> \in LeUploaders(s) <=> k = "upload"
<1>1. <<k, i>> \in LeRuns(s.site)
  BY DEF LeRuns
<1> QED
  BY <1>1 DEF LeUploaders

\* The fields of a run.
LeIsRun(b) ==
  /\ DOMAIN b = {"at", "todo", "item", "left", "read", "early", "parts"}
  /\ b.early \in BOOLEAN

\* Run j goes on to b and nothing else happens, but for a note.
LeMoves(s, t, j, b) ==
  /\ DOMAIN t = DOMAIN s /\ t.site = s.site /\ t.rows = s.rows
  /\ t.posted = s.posted /\ t.torn = s.torn /\ t.odd = s.odd
  /\ s.again \subseteq t.again
  /\ t.jobs = [s.jobs EXCEPT ![j] = b]

\* The run's own part of the invariant is all that matters.
LEMMA LeMovesInv ==
  ASSUME NEW s, NEW t, NEW j \in LeRuns(s.site), NEW b, LeInvOf(s), LeIsRun(b),
         LeMoves(s, t, j, b),
         j[1] = "list" => b.todo \subseteq s.site.listed,
         j[1] = "paging" => LePagingInv(s, b),
         j[1] = "content" => \A u \in b.todo : u \in LeUrls(s) /\ LeUsable(s, u),
         j[1] = "upload" =>
           /\ s.jobs[j].at # "mark" /\ LeUploadInv(t, b)
           /\ \A k \in LeUploaders(s) :
                k # j => LeHeld(t, j) \cap LeHeld(s, k) \subseteq t.again
  PROVE  LeInvOf(t)
<1>1. /\ DOMAIN t = DOMAIN s /\ t.site = s.site /\ t.rows = s.rows
      /\ t.posted = s.posted /\ t.torn = s.torn /\ t.odd = s.odd
      /\ s.again \subseteq t.again /\ t.jobs = [s.jobs EXCEPT ![j] = b]
  BY DEF LeMoves
<1>2. LeIsTable(s) /\ LeUrls(t) = LeUrls(s)
  BY <1>1 DEF LeInvOf, LeUrls
<1>3. /\ DOMAIN t.jobs = LeRuns(s.site) /\ t.jobs[j] = b
      /\ \A k \in LeRuns(s.site) : k # j => t.jobs[k] = s.jobs[k]
  BY <1>1, <1>2 DEF LeIsTable
<1>4. LeIsTable(t)
  BY <1>1, <1>2, <1>3 DEF LeIsTable, LeIsRun
<1>5. LeRunStep(s, t, j)
  BY <1>3, <1>4 DEF LeRunStep
<1>6. LeWritten(s, t)
  BY <1>1 DEF LeWritten, LeUsable
<1>7. \A u : LeFirst(t, u) = LeFirst(s, u) /\ LeFurther(t, u) = LeFurther(s, u)
  BY <1>1, LeSameSite
<1>8. \A u \in LeUrls(s) : LeRowInv(t, u)
  BY <1>1, <1>7 DEF LeInvOf, LeRowInv, LeUsable
<1>9. LeJobInv(t, j)
  BY <1>1, <1>2, <1>3, <1>7 DEF LeJobInv, LePagingInv, LeUsable
<1>10. j \in LeUploaders(s) => j[1] = "upload"
  BY DEF LeUploaders
<1> QED
  BY <1>5, <1>6, <1>8, <1>9, <1>10, LeQuietStep

\* The list job reads the list.
LEMMA LeListStep ==
  ASSUME LeInv, NEW i \in 1 .. le.site.runs["list"], LeList(i)
  PROVE  LeInv'
<1> DEFINE j == <<"list", i>>
<1>1. LeInvOf(le) /\ LeIsTable(le)
  BY DEF LeInv, LeInvOf
<1>2. j \in LeRuns(le.site)
  BY <1>1, LeRunExists DEF LeIsTable, LeKinds
<1>3. PICK b : b = [le.jobs[j] EXCEPT !.at = "next", !.todo = le.site.listed]
  OBVIOUS
<1>4. LeIsRun(b) /\ b.todo = le.site.listed
  BY <1>1, <1>2, <1>3 DEF LeIsTable, LeIsRun
<1>5. le' = [le EXCEPT !.jobs[j] = b]
  BY <1>3 DEF LeList
<1>6. LeMoves(le, le', j, b)
  BY <1>1, <1>5 DEF LeMoves, LeIsTable
<1>7. j[1] = "list"
  OBVIOUS
<1>8. LeInvOf(le')
  BY <1>1, <1>2, <1>4, <1>6, <1>7, LeMovesInv
<1> QED
  BY <1>8 DEF LeInv

\* The query of a paging or content job.
LEMMA LeWorkStep ==
  ASSUME LeInv, NEW k \in {"paging", "content"}, NEW i \in 1 .. le.site.runs[k],
         LeWork(k, i)
  PROVE  LeInv'
<1> DEFINE j == <<k, i>>
<1>1. LeInvOf(le) /\ LeIsTable(le)
  BY DEF LeInv, LeInvOf
<1>2. j \in LeRuns(le.site)
  BY <1>1, LeRunExists DEF LeIsTable, LeKinds
<1>3. PICK c \in LeSelect(le, k) :
        le' = [le EXCEPT !.jobs[j] = [@ EXCEPT !.at = "next", !.todo = c]]
  BY DEF LeWork
<1>4. PICK b : b = [le.jobs[j] EXCEPT !.at = "next", !.todo = c]
  OBVIOUS
<1>5. LeIsRun(b) /\ b.todo = c /\ b.at = "next"
  BY <1>1, <1>2, <1>4 DEF LeIsTable, LeIsRun
<1>6. le' = [le EXCEPT !.jobs[j] = b]
  BY <1>3, <1>4
<1>7. LeMoves(le, le', j, b)
  BY <1>1, <1>6 DEF LeMoves, LeIsTable
<1>8. \A u \in c : u \in LeUrls(le) /\ le.rows[u].type = k
  BY DEF LeSelect, LeOfType
<1>9. /\ j[1] = k /\ LePagingInv(le, b)
      /\ k = "content" => \A u \in b.todo : u \in LeUrls(le) /\ LeUsable(le, u)
  BY <1>5, <1>8 DEF LePagingInv, LeUsable
<1>10. LeInvOf(le')
  BY <1>1, <1>2, <1>5, <1>7, <1>9, LeMovesInv
<1> QED
  BY <1>10 DEF LeInv

\* The links of a paginator are the further pages.
LEMMA LePaginateStep ==
  ASSUME LeInv, NEW i \in 1 .. le.site.runs["paging"], LePaginate(i)
  PROVE  LeInv'
<1> DEFINE j == <<"paging", i>>
<1>1. LeInvOf(le) /\ LeIsTable(le)
  BY DEF LeInv, LeInvOf
<1>2. j \in LeRuns(le.site)
  BY <1>1, LeRunExists DEF LeIsTable, LeKinds
<1>3. PICK u \in DOMAIN le.site.pages :
        le' = [le EXCEPT !.jobs[j] =
                 [le.jobs[j] EXCEPT !.at = "save", !.item = u,
                                    !.todo = le.jobs[j].todo \ {u},
                                    !.left = le.site.pages[u]]]
  BY DEF LePaginate
<1>4. PICK b : b = [le.jobs[j] EXCEPT !.at = "save", !.item = u,
                                      !.todo = le.jobs[j].todo \ {u},
                                      !.left = le.site.pages[u]]
  OBVIOUS
<1>5. LeIsRun(b) /\ b.item = u /\ b.left = le.site.pages[u]
  BY <1>1, <1>2, <1>4 DEF LeIsTable, LeIsRun
<1>6. le' = [le EXCEPT !.jobs[j] = b]
  BY <1>3, <1>4
<1>7. LeMoves(le, le', j, b)
  BY <1>1, <1>6 DEF LeMoves, LeIsTable
<1>8. le.site.pages[u] \in Seq(LeUrls(le))
  BY <1>1, LeSitesHaveArticles DEF LeArticles, LeIsTable
<1>9. LePagingInv(le, b) /\ j[1] = "paging"
  BY <1>5, <1>8 DEF LePagingInv, LeFurther
<1>10. LeInvOf(le')
  BY <1>1, <1>2, <1>5, <1>7, <1>9, LeMovesInv
<1> QED
  BY <1>10 DEF LeInv

\* What the rows of one article look like.
LEMMA LeParents ==
  ASSUME NEW s, LeInvOf(s), NEW u \in LeUrls(s)
  PROVE  /\ s.rows[u].parent = "0" /\ LeUsable(s, u) => LeArticle(s, u) = {u}
         /\ s.rows[u].parent # "0" =>
              {v \in LeUrls(s) : s.rows[v].parent = s.rows[u].parent}
                \subseteq LeArticle(s, u)
         /\ s.rows[u].parent # "0"
              /\ s.rows[s.rows[u].parent].parent = s.rows[u].parent =>
              {v \in LeUrls(s) : s.rows[v].parent = s.rows[u].parent}
                = LeArticle(s, u)
<1> DEFINE p == LeFirst(s, u)
<1>1. LeArticles(s) /\ \A v \in LeUrls(s) : LeRowInv(s, v)
  BY LeSitesHaveArticles DEF LeInvOf, LeIsTable
<1>2. p \in LeUrls(s) /\ LeFirst(s, p) = p /\ "0" \notin LeUrls(s)
  BY <1>1 DEF LeArticles
<1>3. \A v \in LeUrls(s) : s.rows[v].parent \in {"0", LeFirst(s, v)}
  BY <1>1 DEF LeRowInv
<1>4. ASSUME s.rows[u].parent = "0", LeUsable(s, u) PROVE LeArticle(s, u) = {u}
  <2>1. u \notin DOMAIN s.site.pages /\ p = u
    BY <1>1, <1>2, <1>4 DEF LeRowInv, LeUsable
  <2>2. \A v \in LeUrls(s) : LeFirst(s, v) = u => v = u
    BY <1>1, <2>1, ZenonT(40) DEF LeArticles
  <2> QED
    BY <2>1, <2>2 DEF LeArticle
<1>5. ASSUME s.rows[u].parent # "0"
      PROVE  /\ s.rows[u].parent = p
             /\ {v \in LeUrls(s) : s.rows[v].parent = p} \subseteq LeArticle(s, u)
  <2>1. s.rows[u].parent = p
    BY <1>3, <1>5
  <2>2. p # "0"
    BY <1>2
  <2> QED
    BY <1>3, <2>1, <2>2 DEF LeArticle
<1>6. ASSUME s.rows[u].parent # "0", s.rows[p].parent = p
      PROVE  \A v \in LeArticle(s, u) : s.rows[v].parent = p
  <2>1. LeRowInv(s, p) /\ s.rows[p].parent # "0"
    BY <1>1, <1>2, <1>6
  <2>2. p \in DOMAIN s.site.pages
    BY <1>2, <2>1 DEF LeRowInv
  <2>3. \A v \in LeFurther(s, p) : s.rows[v].type # "none"
    BY <1>6, <2>1, <2>2 DEF LeRowInv
  <2> SUFFICES ASSUME NEW v \in LeUrls(s), LeFirst(s, v) = p, v # p
               PROVE  s.rows[v].parent = p
    BY <1>6 DEF LeArticle
  <2>4. v \in LeFurther(s, p)
    BY <1>1 DEF LeArticles
  <2> QED
    BY <1>1, <2>3, <2>4 DEF LeRowInv
<1>7. LeArticle(s, u) \subseteq LeUrls(s)
  BY DEF LeArticle
<1>8. ASSUME s.rows[u].parent # "0",
             s.rows[s.rows[u].parent].parent = s.rows[u].parent
      PROVE  {v \in LeUrls(s) : s.rows[v].parent = s.rows[u].parent}
               = LeArticle(s, u)
  <2>1. s.rows[u].parent = p /\ s.rows[p].parent = p
    BY <1>5, <1>8
  <2> QED
    BY <1>5, <1>6, <1>7, <1>8, <2>1
<1> QED
  BY <1>4, <1>5, <1>8

\* A page that was posted and is 'got' is being marked, or may be posted twice.
LEMMA LeGotPosted ==
  ASSUME NEW s, LeInvOf(s), NEW v \in LeUrls(s), s.rows[v].type = "got",
         s.posted[v] # 0, LeFirst(s, v) \notin s.again
  PROVE  \E k \in LeUploaders(s) :
           s.jobs[k].at = "mark" /\ LeFirst(s, v) \in LeHeld(s, k)
<1>1. s.posted[v] > 0
  <2>1. s.posted[v] \in 0 .. 2
    BY DEF LeInvOf, LeIsTable
  <2> QED
    BY <2>1
<1>2. PICK k \in LeUploaders(s) : LeMarks(s, k, v)
  BY <1>1 DEF LeInvOf, LeOnce
<1>3. LeUploadInv(s, s.jobs[k]) /\ LeArticles(s)
  BY LeSitesHaveArticles DEF LeInvOf, LeJobInv, LeIsTable, LeUploaders
<1>4. s.jobs[k].at = "mark" /\ v \in LeArticle(s, s.jobs[k].item)
  BY <1>2, <1>3 DEF LeMarks, LeUploadInv
<1>5. s.jobs[k].item # "" /\ LeFirst(s, v) = LeFirst(s, s.jobs[k].item)
  BY <1>3, <1>4 DEF LeArticle, LeUploadInv, LeArticles
<1> QED
  BY <1>4, <1>5 DEF LeHeld

\* The query of an uploader.
LEMMA LeUploadStep ==
  ASSUME LeInv, NEW i \in 1 .. le.site.runs["upload"], LeUpload(i)
  PROVE  LeInv'
<1> DEFINE j == <<"upload", i>>
<1>1. LeInvOf(le) /\ LeIsTable(le)
  BY DEF LeInv, LeInvOf
<1>2. j \in LeRuns(le.site) /\ j \in LeUploaders(le)
  BY <1>1, LeRunExists DEF LeIsTable, LeKinds
<1>3. LeUploadInv(le, le.jobs[j]) /\ le.jobs[j].at = "not started"
  BY <1>1, <1>2 DEF LeInvOf, LeJobInv, LeUpload, LeMayStart
<1>4. PICK c \in LeSelect(le, "got") :
        le' = [le EXCEPT
                 !.jobs[j] = [@ EXCEPT !.at = "next", !.todo = c],
                 !.again = @ \cup ({LeFirst(le, u) : u \in c}
                                   \cap UNION {LeHeld(le, k) : k \in LeUploaders(le)})]
  BY DEF LeUpload
<1>5. PICK b : b = [le.jobs[j] EXCEPT !.at = "next", !.todo = c]
  OBVIOUS
<1>6. /\ LeIsRun(b) /\ b.todo = c /\ b.at = "next" /\ ~ b.early /\ b.item = ""
  BY <1>1, <1>2, <1>3, <1>5, ZenonT(40) DEF LeIsTable, LeIsRun, LeUploadInv
<1>7. le'.again = le.again \cup ({LeFirst(le, u) : u \in c}
                                \cap UNION {LeHeld(le, k) : k \in LeUploaders(le)})
  BY <1>1, <1>4 DEF LeIsTable
<1>8. LeMoves(le, le', j, b)
  BY <1>1, <1>4, <1>5 DEF LeMoves, LeIsTable
<1>9. \A u \in c : u \in LeUrls(le) /\ le.rows[u].type = "got"
  BY DEF LeSelect, LeOfType
<1>10. /\ le'.jobs[j] = b /\ le'.rows = le.rows /\ le'.posted = le.posted
       /\ LeUrls(le') = LeUrls(le) /\ le'.torn = le.torn
       /\ \A u : /\ LeFirst(le', u) = LeFirst(le, u)
                 /\ LeArticle(le', u) = LeArticle(le, u)
  <2>1. le'.site = le.site
    BY <1>8 DEF LeMoves
  <2> QED
    BY <1>1, <1>2, <1>8, <2>1, LeSameSite DEF LeMoves, LeIsTable
<1>11. LeHeld(le', j) = {LeFirst(le, u) : u \in c}
  BY <1>6, <1>10 DEF LeHeld
<1>12. \A k \in LeUploaders(le) : LeHeld(le', j) \cap LeHeld(le, k) \subseteq le'.again
  BY <1>7, <1>11
<1>13. ASSUME NEW u \in c, LeFirst(le, u) \notin le'.again PROVE le.posted[u] = 0
  <2>1. u \in LeUrls(le) /\ le.rows[u].type = "got" /\ LeFirst(le, u) \notin le.again
    BY <1>7, <1>9, <1>13
  <2>2. \A k \in LeUploaders(le) : LeFirst(le, u) \notin LeHeld(le, k)
    BY <1>7, <1>13
  <2> QED
    BY <1>1, <2>1, <2>2, LeGotPosted
<1>14. \A u \in c : u \in LeUrls(le) /\ le.rows[u].titled /\ u # ""
  <2>1. "" \notin LeUrls(le)
    BY <1>1, LeSitesHaveArticles DEF LeArticles, LeIsTable
  <2> QED
    BY <1>1, <1>9, <2>1 DEF LeInvOf, LeRowInv
<1>15. LeUploadInv(le', b)
  BY <1>6, <1>10, <1>13, <1>14 DEF LeUploadInv
<1>16. j[1] = "upload"
  OBVIOUS
<1>17. LeInvOf(le')
  BY <1>1, <1>2, <1>3, <1>6, <1>8, <1>12, <1>15, <1>16, LeMovesInv
<1> QED
  BY <1>17 DEF LeInv

\* An uploader's part of the invariant where only runs have changed.
LEMMA LeUploadSame ==
  ASSUME NEW s, NEW t, NEW b, LeUploadInv(s, b),
         t.site = s.site, t.rows = s.rows, t.posted = s.posted, t.torn = s.torn,
         t.again = s.again
  PROVE  LeUploadInv(t, b)
<1>1. LeUrls(t) = LeUrls(s) /\ \A u : LeUsable(t, u) <=> LeUsable(s, u)
  BY LeSameSite DEF LeUsable
<1>2. \A u : LeFirst(t, u) = LeFirst(s, u) /\ LeArticle(t, u) = LeArticle(s, u)
  BY LeSameSite
<1> QED
  BY <1>1, <1>2 DEF LeUploadInv

\* The next row of an uploader.
LEMMA LeNextRowStep ==
  ASSUME LeInv, NEW i \in 1 .. le.site.runs["upload"], LeNextRow(i)
  PROVE  LeInv'
<1> DEFINE j == <<"upload", i>>
<1>1. LeInvOf(le) /\ LeIsTable(le)
  BY DEF LeInv, LeInvOf
<1>2. j \in LeRuns(le.site) /\ j \in LeUploaders(le) /\ j[1] = "upload"
  BY <1>1, LeRunExists DEF LeIsTable, LeKinds
<1>3. PICK a : a = le.jobs[j]
  OBVIOUS
<1>4. LeUploadInv(le, a) /\ a.at = "next" /\ LeIsRun(a)
  BY <1>1, <1>2, <1>3 DEF LeInvOf, LeJobInv, LeNextRow, LeIsTable, LeIsRun
<1>5. PICK u \in a.todo :
        LET q == le.rows[u].parent
            row == [a EXCEPT !.todo = a.todo \ {u}, !.item = u]
        IN le' = [le EXCEPT !.jobs[j] =
             IF q = "0"
             THEN [row EXCEPT !.parts = {u}, !.at = "post"]
             ELSE [row EXCEPT !.at = "count", !.early = le.rows[q].parent # q,
                              !.read = {v \in LeUrls(le) : le.rows[v].parent = q}]]
  BY <1>3 DEF LeNextRow
<1>6. PICK q : q = le.rows[u].parent
  OBVIOUS
<1>7. PICK row : row = [a EXCEPT !.todo = a.todo \ {u}, !.item = u]
  OBVIOUS
<1>8. /\ LeIsRun(row) /\ row.todo = a.todo \ {u} /\ row.item = u /\ ~ row.early
  BY <1>4, <1>7 DEF LeIsRun, LeUploadInv
<1>9. PICK b : b = IF q = "0"
                   THEN [row EXCEPT !.parts = {u}, !.at = "post"]
                   ELSE [row EXCEPT !.at = "count", !.early = le.rows[q].parent # q,
                           !.read = {v \in LeUrls(le) : le.rows[v].parent = q}]
  OBVIOUS
<1>10. le' = [le EXCEPT !.jobs[j] = b]
  BY <1>5, <1>6, <1>7, <1>9
<1>11. /\ u \in LeUrls(le) /\ le.rows[u].titled /\ LeUsable(le, u)
       /\ LeArticle(le, u) = {u} /\ LeFirst(le, u) \notin le.again =>
                le.posted[u] = 0
  BY <1>1, <1>4 DEF LeUploadInv, LeInvOf, LeRowInv
<1>12. /\ LeIsRun(b) /\ b.todo = a.todo \ {u} /\ b.item = u
       /\ q = "0" => b.at = "post" /\ b.parts = {u} /\ ~ b.early
       /\ q # "0" => /\ b.at = "count" /\ b.early = (le.rows[q].parent # q)
                     /\ b.read = {v \in LeUrls(le) : le.rows[v].parent = q}
  <2>1. CASE q = "0"
    BY <1>8, <1>9, <2>1 DEF LeIsRun
  <2>2. CASE q # "0"
    BY <1>8, <1>9, <2>2 DEF LeIsRun
  <2> QED
    BY <2>1, <2>2
<1>13. LeMoves(le, le', j, b)
  BY <1>1, <1>10 DEF LeMoves, LeIsTable
<1>14. /\ le'.jobs[j] = b /\ le'.rows = le.rows /\ le'.posted = le.posted
       /\ le'.again = le.again
       /\ LeUrls(le') = LeUrls(le) /\ le'.torn = le.torn
       /\ \A v : /\ LeFirst(le', v) = LeFirst(le, v)
                 /\ LeArticle(le', v) = LeArticle(le, v)
  <2>1. le'.site = le.site /\ le'.again = le.again
    BY <1>1, <1>10 DEF LeIsTable
  <2> QED
    BY <1>1, <1>2, <1>13, <2>1, LeSameSite DEF LeMoves, LeIsTable
<1>15. u # "" /\ u \in LeArticle(le, u)
  <2>1. "" \notin LeUrls(le)
    BY <1>1, LeSitesHaveArticles DEF LeArticles, LeIsTable
  <2> QED
    BY <1>11, <2>1 DEF LeArticle
<1>16. LeHeld(le', j) \subseteq LeHeld(le, j)
  <2>1. le'.jobs[j].todo = a.todo \ {u} /\ le'.jobs[j].item = u
    BY <1>12, <1>14
  <2>2. LeFirst(le', u) = LeFirst(le, u) /\ \A v : LeFirst(le', v) = LeFirst(le, v)
    BY <1>14
  <2>3. {LeFirst(le, v) : v \in a.todo} \subseteq LeHeld(le, j)
    BY <1>3 DEF LeHeld
  <2> QED
    BY <1>15, <2>1, <2>2, <2>3 DEF LeHeld
<1>17. \A k \in LeUploaders(le) :
         k # j => LeHeld(le', j) \cap LeHeld(le, k) \subseteq le'.again
  <2>1. \A k \in LeUploaders(le) :
          k # j => LeHeld(le, j) \cap LeHeld(le, k) \subseteq le.again
    BY <1>1, <1>2 DEF LeInvOf, LeOneHolds
  <2> QED
    BY <1>14, <1>16, <2>1
<1>18. LeUploadInv(le, b)
  <2>1. \A v \in b.todo :
          /\ v \in LeUrls(le) /\ le.rows[v].titled /\ v # b.item
          /\ LeArticle(le, v) = {v} /\ LeFirst(le, v) \notin le.again =>
               le.posted[v] = 0
    BY <1>4, <1>12 DEF LeUploadInv
  <2>2. CASE q = "0"
    <3>1. LeArticle(le, u) = {u}
      BY <1>1, <1>6, <1>11, <2>2, LeParents
    <3>2. b.at = "post" /\ b.parts = {u} /\ ~ b.early /\ b.item = u
      BY <1>12, <2>2
    <3> QED
      BY <1>11, <2>1, <3>1, <3>2 DEF LeUploadInv
  <2>3. CASE q # "0"
    <3>1. ~ b.early => b.read = LeArticle(le, u)
      BY <1>1, <1>6, <1>11, <1>12, <2>3, LeParents
    <3>2. le.rows[u].parent # "0" /\ b.at = "count" /\ b.item = u
      BY <1>6, <1>12, <2>3
    <3> QED
      BY <1>11, <2>1, <3>1, <3>2 DEF LeUploadInv
  <2> QED
    BY <2>2, <2>3
<1>19. le.jobs[j].at # "mark" /\ LeUploadInv(le', b)
  <2>1. le'.site = le.site
    BY <1>13 DEF LeMoves
  <2> QED
    BY <1>3, <1>4, <1>14, <1>18, <2>1, LeUploadSame
<1>20. LeInvOf(le')
  BY <1>1, <1>2, <1>12, <1>13, <1>17, <1>19, LeMovesInv
<1> QED
  BY <1>20 DEF LeInv

\* A run that is done with its row holds no more than it did.
LEMMA LeDoneHolds ==
  ASSUME NEW s, NEW t, NEW j, t.site = s.site,
         t.jobs[j] = [LeIdle("next") EXCEPT !.todo = s.jobs[j].todo]
  PROVE  LeHeld(t, j) \subseteq LeHeld(s, j)
<1>1. \A u : LeFirst(t, u) = LeFirst(s, u)
  BY LeSameSite
<1>2. t.jobs[j].item = "" /\ t.jobs[j].todo = s.jobs[j].todo
  BY DEF LeIdle
<1> QED
  BY <1>1, <1>2 DEF LeHeld

\* A run that gives its row up, as it was counted or as no answer came, goes on.
LEMMA LeGivesUp ==
  ASSUME NEW s, NEW t, NEW j \in LeUploaders(s), LeInvOf(s), s.jobs[j].at # "mark",
         s.jobs[j].at # "not started", t = LeDone(s, j)
  PROVE  LeInvOf(t)
<1>1. LeIsTable(s) /\ j \in LeRuns(s.site) /\ j[1] = "upload"
  BY DEF LeInvOf, LeUploaders
<1>2. PICK b : b = [LeIdle("next") EXCEPT !.todo = s.jobs[j].todo]
  OBVIOUS
<1>3. LeIsRun(b) /\ b.at = "next" /\ b.todo = s.jobs[j].todo /\ b.item = "" /\ ~ b.early
  BY <1>2 DEF LeIdle, LeIsRun
<1>4. t = [s EXCEPT !.jobs[j] = b]
  BY <1>2 DEF LeDone
<1>5. LeMoves(s, t, j, b) /\ t.again = s.again /\ t.jobs[j] = b
  BY <1>1, <1>4 DEF LeMoves, LeIsTable
<1>6. LeHeld(t, j) \subseteq LeHeld(s, j)
  <2>1. t.site = s.site
    BY <1>5 DEF LeMoves
  <2> QED
    BY <1>2, <1>5, <2>1, LeDoneHolds
<1>7. \A k \in LeUploaders(s) : k # j =>
          LeHeld(s, j) \cap LeHeld(s, k) \subseteq s.again
  BY DEF LeInvOf, LeOneHolds
<1>8. LeUploadInv(t, b)
  <2>1. LeUploadInv(s, s.jobs[j])
    BY <1>1 DEF LeInvOf, LeJobInv
  <2>2. "" \notin LeUrls(s)
    BY <1>1, LeSitesHaveArticles DEF LeArticles, LeIsTable
  <2>3. \A u \in b.todo :
          /\ u \in LeUrls(s) /\ s.rows[u].titled /\ u # b.item
          /\ LeArticle(s, u) = {u} /\ LeFirst(s, u) \notin s.again =>
                   s.posted[u] = 0
    BY <1>3, <2>1, <2>2 DEF LeUploadInv
  <2>4. LeUploadInv(s, b)
    BY <1>3, <2>3 DEF LeUploadInv
  <2> QED
    BY <1>5, <2>4, LeUploadSame DEF LeMoves
<1> QED
  BY <1>1, <1>3, <1>5, <1>6, <1>7, <1>8, LeMovesInv

\* The second count.
LEMMA LeCountStep ==
  ASSUME LeInv, NEW i \in 1 .. le.site.runs["upload"], LeCount(i)
  PROVE  LeInv'
<1> DEFINE j == <<"upload", i>>
<1>1. LeInvOf(le) /\ LeIsTable(le)
  BY DEF LeInv, LeInvOf
<1>2. j \in LeRuns(le.site) /\ j \in LeUploaders(le) /\ j[1] = "upload"
  BY <1>1, LeRunExists DEF LeIsTable, LeKinds
<1>3. PICK a : a = le.jobs[j]
  OBVIOUS
<1>4. LeUploadInv(le, a) /\ a.at = "count" /\ LeIsRun(a)
  BY <1>1, <1>2, <1>3 DEF LeInvOf, LeJobInv, LeCount, LeIsTable, LeIsRun
<1>5. PICK p : p = le.rows[a.item].parent
  OBVIOUS
<1>6. PICK got : got = {v \in LeOfType(le, "got") : le.rows[v].parent = p}
  OBVIOUS
<1>7. le' = IF got # {} /\ LeAllGot(a.read, got)
            THEN [le EXCEPT !.jobs[j].at = "post", !.jobs[j].parts = got]
            ELSE [le EXCEPT !.jobs[j] = [LeIdle("next") EXCEPT !.todo = le.jobs[j].todo]]
  BY <1>3, <1>5, <1>6 DEF LeCount
<1>8. CASE ~ (got # {} /\ LeAllGot(a.read, got))
  <2>1. le' = LeDone(le, j)
    BY <1>7, <1>8 DEF LeDone
  <2>2. LeInvOf(le')
    BY <1>1, <1>2, <1>3, <1>4, <2>1, LeGivesUp
  <2> QED
    BY <2>2 DEF LeInv
<1>9. CASE got # {} /\ LeAllGot(a.read, got)
  <2>1. PICK b : b = [a EXCEPT !.at = "post", !.parts = got]
    OBVIOUS
  <2>2. /\ LeIsRun(b) /\ b.at = "post" /\ b.parts = got /\ b.item = a.item
        /\ b.todo = a.todo /\ b.early = a.early
    BY <1>4, <2>1 DEF LeIsRun
  <2>3. le' = [le EXCEPT !.jobs[j].at = "post", !.jobs[j].parts = got]
    BY <1>7, <1>9
  <2>4. le' = [le EXCEPT !.jobs[j] = b]
    BY <1>1, <1>2, <1>3, <2>1, <2>3 DEF LeIsTable
  <2>5. LeMoves(le, le', j, b) /\ le'.again = le.again /\ le'.jobs[j] = b
    BY <1>1, <1>2, <2>4 DEF LeMoves, LeIsTable
  <2>6. /\ a.item \in LeUrls(le) /\ p # "0"
        /\ ~ a.early => a.read = LeArticle(le, a.item)
    BY <1>4, <1>5 DEF LeUploadInv
  <2>7. got \subseteq LeArticle(le, a.item)
    BY <1>1, <1>5, <1>6, <2>6, LeParents DEF LeOfType
  <2>8. \A v \in got : v \in LeUrls(le) /\ le.rows[v].type = "got"
    BY <1>6 DEF LeOfType
  <2>9. \A v \in got : le.rows[v].titled
    BY <1>1, <2>8 DEF LeInvOf, LeRowInv
  <2>10. ASSUME ~ a.early PROVE got = LeArticle(le, a.item)
    <3>1. IsFiniteSet(LeArticle(le, a.item))
      BY <1>1, LeSitesHaveArticles, FS_Subset DEF LeArticle, LeArticles, LeIsTable
    <3>2. Cardinality(got) = Cardinality(LeArticle(le, a.item))
      BY <1>9, <2>6, <2>10 DEF LeAllGot
    <3> QED
      BY <2>7, <3>1, <3>2, FS_Subset
  <2>11. LeFirst(le, a.item) \in LeHeld(le, j)
    <3>1. "" \notin LeUrls(le)
      BY <1>1, LeSitesHaveArticles DEF LeArticles, LeIsTable
    <3> QED
      BY <1>3, <2>6, <3>1 DEF LeHeld
  <2>12. ASSUME LeFirst(le, a.item) \notin le.again, NEW v \in got
         PROVE  le.posted[v] = 0
    <3>1. LeFirst(le, v) = LeFirst(le, a.item)
      BY <2>7, <2>12 DEF LeArticle
    <3>2. \A k \in LeUploaders(le) :
            le.jobs[k].at = "mark" => LeFirst(le, v) \notin LeHeld(le, k)
      BY <1>1, <1>2, <1>3, <1>4, <2>11, <2>12, <3>1 DEF LeInvOf, LeOneHolds
    <3>3. v \in LeUrls(le) /\ le.rows[v].type = "got"
      BY <2>8, <2>12
    <3> QED
      BY <1>1, <2>12, <3>1, <3>2, <3>3, LeGotPosted
  <2>13. LeUploadInv(le, b)
    <3>1. \A v \in b.todo :
            /\ v \in LeUrls(le) /\ le.rows[v].titled /\ v # b.item
            /\ LeArticle(le, v) = {v} /\ LeFirst(le, v) \notin le.again =>
                 le.posted[v] = 0
      BY <1>4, <2>2 DEF LeUploadInv
    <3> QED
      BY <1>9, <2>2, <2>6, <2>7, <2>9, <2>10, <2>12, <3>1 DEF LeUploadInv
  <2>14. LeUploadInv(le', b)
    BY <2>5, <2>13, LeUploadSame DEF LeMoves
  <2>15. LeHeld(le', j) = LeHeld(le, j)
    <3>1. le'.site = le.site
      BY <2>5 DEF LeMoves
    <3>2. \A u : LeFirst(le', u) = LeFirst(le, u)
      BY <3>1, LeSameSite
    <3>3. le'.jobs[j].todo = le.jobs[j].todo /\ le'.jobs[j].item = le.jobs[j].item
      BY <1>3, <2>2, <2>5
    <3> QED
      BY <3>2, <3>3 DEF LeHeld
  <2>16. \A k \in LeUploaders(le) :
           k # j => LeHeld(le', j) \cap LeHeld(le, k) \subseteq le'.again
    BY <1>1, <1>2, <2>5, <2>15 DEF LeInvOf, LeOneHolds
  <2>17. le.jobs[j].at # "mark"
    BY <1>3, <1>4
  <2>18. LeInvOf(le')
    BY <1>1, <1>2, <2>2, <2>5, <2>14, <2>16, <2>17, LeMovesInv, ZenonT(40)
  <2> QED
    BY <2>18 DEF LeInv
<1> QED
  BY <1>8, <1>9

\* What a post that arrives changes.
LEMMA LeArrivedEffect ==
  ASSUME NEW s, NEW t, NEW j \in LeUploaders(s), LeInvOf(s), s.jobs[j].at = "post",
         t = LeArrived(s, j)
  PROVE  /\ LeIsTable(t) /\ LeArrives(s, t, j) /\ t.jobs = s.jobs /\ t.again = s.again
<1>1. LeIsTable(s) /\ s.odd = {} /\ j \in LeRuns(s.site)
  BY DEF LeInvOf, LeUploaders
<1>2. PICK b : b = s.jobs[j]
  OBVIOUS
<1>3. LeUploadInv(s, b) /\ b.at = "post" /\ LeArticles(s) /\ b.early \in BOOLEAN
  BY <1>1, <1>2, LeSitesHaveArticles
  DEF LeInvOf, LeJobInv, LeIsTable, LeUploaders
<1>4. PICK p : p = LeFirst(s, b.item)
  OBVIOUS
<1>5. LeArticle(s, p) = LeArticle(s, b.item)
  <2>1. b.item \in LeUrls(s)
    BY <1>3 DEF LeUploadInv
  <2>2. LeFirst(s, p) = LeFirst(s, b.item)
    BY <1>3, <1>4, <2>1 DEF LeArticles
  <2> QED
    BY <2>2 DEF LeArticle
<1>6. PICK part \in BOOLEAN : part <=> b.parts # LeArticle(s, p)
  OBVIOUS
<1>7. part => b.early
  BY <1>3, <1>5, <1>6 DEF LeUploadInv
<1>8. PICK posted : posted = [u \in LeUrls(s) |->
                               IF u \in b.parts /\ s.posted[u] < 2
                               THEN s.posted[u] + 1 ELSE s.posted[u]]
  OBVIOUS
<1>9. t = [s EXCEPT !.posted = posted,
                    !.torn = IF part /\ b.early THEN @ \cup {p} ELSE @,
                    !.odd = IF part /\ ~ b.early THEN @ \cup {p} ELSE @]
  BY <1>2, <1>4, <1>6, <1>8 DEF LeArrived
<1>10. /\ DOMAIN t = DOMAIN s /\ t.site = s.site /\ t.rows = s.rows /\ t.jobs = s.jobs
       /\ t.again = s.again /\ t.posted = posted /\ t.odd = s.odd
       /\ s.torn \subseteq t.torn
       /\ part => p \in t.torn
  BY <1>1, <1>7, <1>9 DEF LeIsTable
<1>11. \A u \in LeUrls(s) : posted[u] \in 0 .. 2
  BY <1>1, <1>8 DEF LeIsTable
<1>12. DOMAIN posted = LeUrls(s) /\ LeUrls(t) = LeUrls(s)
  BY <1>8, <1>10 DEF LeUrls
<1>13. LeIsTable(t)
  BY <1>1, <1>10, <1>11, <1>12 DEF LeIsTable
<1>14. LeArrives(s, t, j)
  <2>1. \A u \in LeUrls(s) : IF u \in b.parts /\ s.posted[u] < 2
                            THEN t.posted[u] = s.posted[u] + 1
                            ELSE t.posted[u] = s.posted[u]
    BY <1>8, <1>10
  <2>2. ~ (s.jobs[j].parts = LeArticle(s, s.jobs[j].item)) =>
          LeFirst(s, s.jobs[j].item) \in t.torn
    BY <1>2, <1>4, <1>5, <1>6, <1>10
  <2> QED
    BY <1>2, <1>10, <2>1, <2>2 DEF LeArrives
<1> QED
  BY <1>10, <1>13, <1>14

\* What has been read and not posted, after a post of another article or of its own.
LEMMA LeTodoArrives ==
  ASSUME NEW s, NEW t, NEW j \in LeUploaders(s), LeInvOf(s), s.jobs[j].at = "post",
         LeArrives(s, t, j), s.again \subseteq t.again
  PROVE  \A u \in s.jobs[j].todo :
           /\ u \in LeUrls(t) /\ t.rows[u].titled /\ u # s.jobs[j].item
           /\ LeArticle(t, u) = {u} /\ LeFirst(t, u) \notin t.again =>
                    t.posted[u] = 0
<1> TAKE u \in s.jobs[j].todo
<1>1. LeUploadInv(s, s.jobs[j]) /\ t.site = s.site /\ t.rows = s.rows
  BY DEF LeInvOf, LeJobInv, LeUploaders, LeArrives
<1>2. /\ LeUrls(t) = LeUrls(s)
      /\ LeArticle(t, u) = LeArticle(s, u) /\ LeFirst(t, u) = LeFirst(s, u)
  BY <1>1, LeSameSite
<1>3. u \in LeUrls(s) /\ s.rows[u].titled /\ u # s.jobs[j].item
  BY <1>1 DEF LeUploadInv
<1>4. ASSUME LeArticle(s, u) = {u}, LeFirst(s, u) \notin t.again
      PROVE  t.posted[u] = 0
  <2>1. s.posted[u] = 0
    BY <1>1, <1>4 DEF LeUploadInv
  <2>2. /\ s.jobs[j].item \in LeUrls(s)
        /\ s.jobs[j].parts \subseteq LeArticle(s, s.jobs[j].item)
    BY <1>1 DEF LeUploadInv
  <2>3. u \notin s.jobs[j].parts
    BY <1>3, <1>4, <2>2 DEF LeArticle
  <2> QED
    BY <1>3, <2>1, <2>3 DEF LeArrives
<1> QED
  BY <1>1, <1>2, <1>3, <1>4

\* A count of posts that goes up is no longer 0.
LEMMA LeOneMore ==
  ASSUME NEW x \in 0 .. 2, NEW y \in 0 .. 2,
         x < 2 => y = x + 1, ~ (x < 2) => y = x
  PROVE  y > 0
OBVIOUS

\* A post has arrived: run j marks the rows next, or gives up without an 'ok'.
LEMMA LePostArrives ==
  ASSUME NEW s, NEW r, NEW t, NEW j \in LeUploaders(s), NEW b, LeInvOf(s),
         s.jobs[j].at = "post", r = LeArrived(s, j), LeMoves(r, t, j, b), LeIsRun(b),
         b.todo = s.jobs[j].todo,
         \/ /\ b.at = "mark" /\ b.item = s.jobs[j].item
            /\ b.parts = s.jobs[j].parts /\ b.early = s.jobs[j].early
         \/ /\ b.at = "next" /\ b.item = "" /\ ~ b.early
            /\ LeFirst(s, s.jobs[j].item) \in t.again
  PROVE  LeInvOf(t)
<1>1. LeIsTable(r) /\ LeArrives(s, r, j) /\ r.jobs = s.jobs /\ r.again = s.again
  BY LeArrivedEffect
<1>2. j \in LeRuns(s.site) /\ j[1] = "upload" /\ r.site = s.site
  BY <1>1 DEF LeUploaders, LeArrives
<1>3. LeUploadInv(s, s.jobs[j])
  BY <1>2 DEF LeInvOf, LeJobInv
<1>4. /\ DOMAIN t = DOMAIN r /\ t.site = s.site /\ t.rows = r.rows
      /\ t.posted = r.posted /\ t.torn = r.torn /\ t.odd = r.odd
      /\ s.again \subseteq t.again /\ t.jobs = [r.jobs EXCEPT ![j] = b]
  BY <1>1, <1>2 DEF LeMoves
<1>5. /\ DOMAIN t.jobs = LeRuns(s.site) /\ t.jobs[j] = b
      /\ \A k \in LeRuns(s.site) : k # j => t.jobs[k] = s.jobs[k]
  BY <1>1, <1>2, <1>4, ZenonT(40) DEF LeIsTable
<1>6. /\ LeUrls(t) = LeUrls(s) /\ LeUrls(t) = LeUrls(r)
      /\ \A u : /\ LeFirst(t, u) = LeFirst(s, u)
                /\ LeArticle(t, u) = LeArticle(s, u)
  <2>1. LeUrls(t) = LeUrls(r)
    BY <1>2, <1>4 DEF LeUrls
  <2>2. t.site = s.site
    BY <1>4
  <2> QED
    BY <2>1, <2>2, LeSameSite
<1>7. LeIsTable(t)
  <2>1. \A k \in LeRuns(s.site) : LeIsRun(t.jobs[k])
    <3>1. \A k \in LeRuns(s.site) : LeIsRun(s.jobs[k])
      BY <1>1, <1>2 DEF LeIsTable, LeIsRun
    <3> QED
      BY <1>5, <3>1
  <2>2. /\ DOMAIN t = {"site", "rows", "jobs", "posted", "torn", "again", "odd"}
        /\ t.site \in LeSites /\ DOMAIN t.jobs = LeRuns(t.site)
    BY <1>1, <1>2, <1>4, <1>5 DEF LeIsTable
  <2>3. /\ DOMAIN t.rows = LeUrls(t) /\ DOMAIN t.posted = LeUrls(t)
        /\ \A u \in LeUrls(t) : /\ t.posted[u] \in 0 .. 2
                                /\ DOMAIN t.rows[u] = {"type", "parent", "titled"}
                                /\ t.rows[u].titled \in BOOLEAN
    <3>1. LeUrls(t) = LeUrls(r) /\ t.rows = r.rows /\ t.posted = r.posted
      BY <1>4, <1>6
    <3> QED
      BY <1>1, <3>1 DEF LeIsTable
  <2> QED
    BY <1>4, <2>1, <2>2, <2>3 DEF LeIsTable, LeIsRun
<1>8. LeArrives(s, t, j)
  BY <1>1, <1>4 DEF LeArrives
<1>9. LeRunStep(s, t, j)
  BY <1>2, <1>5, <1>7 DEF LeRunStep
<1>10. \A u \in s.jobs[j].todo :
         /\ u \in LeUrls(t) /\ t.rows[u].titled /\ u # s.jobs[j].item
         /\ LeArticle(t, u) = {u} /\ LeFirst(t, u) \notin t.again =>
                  t.posted[u] = 0
  BY <1>4, <1>8, LeTodoArrives, ZenonT(40)
<1>11. "" \notin LeUrls(t)
  BY <1>7, LeSitesHaveArticles DEF LeArticles, LeIsTable
<1>12. CASE b.at = "next"
  <2>1. LeHeld(t, j) \subseteq LeHeld(s, j)
    BY <1>5, <1>6, <1>12 DEF LeHeld
  <2>2. LeUploadInv(t, b)
    BY <1>10, <1>11, <1>12 DEF LeUploadInv
  <2>3. LeJobInv(t, j)
    BY <1>2, <1>5, <2>2 DEF LeJobInv
  <2> QED
    BY <1>4, <1>8, <1>9, <1>12, <2>1, <2>3, LeArrivedInv
<1>13. CASE b.at = "mark"
  <2>1. /\ b.item = s.jobs[j].item /\ b.parts = s.jobs[j].parts
        /\ b.early = s.jobs[j].early
    BY <1>13
  <2>2. LeHeld(t, j) \subseteq LeHeld(s, j)
    BY <1>5, <1>6, <2>1, ZenonT(40) DEF LeHeld
  <2>3. /\ b.item \in LeUrls(t) /\ b.parts # {}
        /\ b.parts \subseteq LeArticle(t, b.item)
        /\ \A v \in b.parts : t.rows[v].titled
        /\ ~ b.early => b.parts = LeArticle(t, b.item)
    BY <1>3, <1>6, <1>8, <2>1, ZenonT(40) DEF LeUploadInv, LeArrives
  <2>4. b.parts # LeArticle(t, b.item) => LeFirst(t, b.item) \in t.torn
    BY <1>6, <1>8, <2>1 DEF LeArrives
  <2>5. ASSUME NEW v \in b.parts PROVE t.posted[v] > 0
    <3>1. v \in LeUrls(s) /\ v \in s.jobs[j].parts
      BY <1>6, <2>1, <2>3, <2>5 DEF LeArticle
    <3>2. s.posted[v] \in 0 .. 2 /\ t.posted[v] \in 0 .. 2
      BY <1>6, <1>7, <3>1 DEF LeInvOf, LeIsTable
    <3>3. s.posted[v] < 2 => t.posted[v] = s.posted[v] + 1
      BY <1>8, <3>1 DEF LeArrives
    <3>4. ~ (s.posted[v] < 2) => t.posted[v] = s.posted[v]
      BY <1>8, <3>1 DEF LeArrives
    <3> QED
      BY <3>2, <3>3, <3>4, LeOneMore
  <2>6. LeUploadInv(t, b)
    BY <1>10, <1>13, <2>1, <2>3, <2>4, <2>5 DEF LeUploadInv
  <2>7. LeJobInv(t, j)
    BY <1>2, <1>5, <2>6 DEF LeJobInv
  <2> QED
    BY <1>4, <1>5, <1>8, <1>9, <1>13, <2>1, <2>2, <2>7, LeArrivedInv
<1> QED
  BY <1>12, <1>13

\* A post: it is answered, or not, or does not arrive.
LEMMA LePostStep ==
  ASSUME LeInv, NEW i \in 1 .. le.site.runs["upload"], LePost(i)
  PROVE  LeInv'
<1> DEFINE j == <<"upload", i>>
<1>1. LeInvOf(le) /\ LeIsTable(le)
  BY DEF LeInv, LeInvOf
<1>2. j \in LeRuns(le.site) /\ j \in LeUploaders(le) /\ le.jobs[j].at = "post"
  BY <1>1, LeRunExists DEF LeIsTable, LeKinds, LePost
<1>3. PICK a : a = le.jobs[j]
  OBVIOUS
<1>4. LeIsRun(a)
  BY <1>1, <1>2, <1>3 DEF LeIsTable, LeIsRun
<1>5. PICK r : r = LeArrived(le, j)
  OBVIOUS
<1>6. LeIsTable(r) /\ r.jobs = le.jobs /\ r.site = le.site
  BY <1>1, <1>2, <1>5, LeArrivedEffect DEF LeArrives
<1>7. CASE le' = [LeArrived(le, j) EXCEPT !.jobs[j].at = "mark"]
  <2>1. PICK b : b = [a EXCEPT !.at = "mark"]
    OBVIOUS
  <2>2. /\ LeIsRun(b) /\ b.at = "mark" /\ b.item = a.item /\ b.todo = a.todo
        /\ b.parts = a.parts /\ b.early = a.early
    BY <1>4, <2>1 DEF LeIsRun
  <2>3. le' = [r EXCEPT !.jobs[j] = b]
    BY <1>2, <1>3, <1>5, <1>6, <1>7, <2>1 DEF LeIsTable
  <2>4. LeMoves(r, le', j, b)
    BY <1>6, <2>3 DEF LeMoves, LeIsTable
  <2>5. LeInvOf(le')
    BY <1>1, <1>2, <1>3, <1>5, <2>2, <2>4, LePostArrives
  <2> QED
    BY <2>5 DEF LeInv
<1>8. CASE le' = [LeDone(LeArrived(le, j), j) EXCEPT
                    !.again = @ \cup {LeFirst(le, le.jobs[j].item)}]
  <2>1. PICK b : b = [LeIdle("next") EXCEPT !.todo = le.jobs[j].todo]
    OBVIOUS
  <2>2. /\ LeIsRun(b) /\ b.at = "next" /\ b.item = "" /\ b.todo = le.jobs[j].todo
        /\ ~ b.early
    BY <2>1 DEF LeIdle, LeIsRun
  <2>3. PICK d : d = LeDone(r, j)
    OBVIOUS
  <2>4. d = [r EXCEPT !.jobs[j] = b]
    BY <1>6, <2>1, <2>3 DEF LeDone
  <2>5. le' = [d EXCEPT !.again = @ \cup {LeFirst(le, le.jobs[j].item)}]
    BY <1>5, <1>8, <2>3
  <2>6. /\ LeMoves(r, le', j, b)
        /\ LeFirst(le, le.jobs[j].item) \in le'.again
    BY <1>6, <2>4, <2>5 DEF LeMoves, LeIsTable
  <2>7. LeInvOf(le')
    BY <1>1, <1>2, <1>5, <2>2, <2>6, LePostArrives
  <2> QED
    BY <2>7 DEF LeInv
<1>9. CASE le' = LeDone(le, j)
  <2>1. LeInvOf(le')
    BY <1>1, <1>2, <1>9, LeGivesUp
  <2> QED
    BY <2>1 DEF LeInv
<1> QED
  BY <1>7, <1>8, <1>9 DEF LePost

\* update() and on to the next row.
LEMMA LeMarkStep ==
  ASSUME LeInv, NEW i \in 1 .. le.site.runs["upload"], LeMark(i)
  PROVE  LeInv'
<1> DEFINE j == <<"upload", i>>
<1>1. LeInvOf(le) /\ LeIsTable(le)
  BY DEF LeInv, LeInvOf
<1>2. /\ j \in LeRuns(le.site) /\ j \in LeUploaders(le) /\ j[1] = "upload"
      /\ le.jobs[j].at = "mark"
  BY <1>1, LeRunExists DEF LeIsTable, LeKinds, LeMark
<1>3. PICK title : title = le.site.title[le.jobs[j].item]
  OBVIOUS
<1>4. PICK r : r = LeUpdate(le, title)
  OBVIOUS
<1>5. PICK rows : rows = [u \in LeUrls(le) |->
                           IF le.rows[u].titled /\ le.site.title[u] = title
                           THEN [le.rows[u] EXCEPT !.type = "sent"] ELSE le.rows[u]]
  OBVIOUS
<1>6. r = [le EXCEPT !.rows = rows]
  BY <1>4, <1>5 DEF LeUpdate
<1>7. ASSUME NEW u \in LeUrls(le)
      PROVE  /\ DOMAIN rows[u] = {"type", "parent", "titled"}
             /\ rows[u].parent = le.rows[u].parent /\ rows[u].titled = le.rows[u].titled
             /\ rows[u].type = IF le.rows[u].titled /\ le.site.title[u] = title
                               THEN "sent" ELSE le.rows[u].type
  <2>1. DOMAIN le.rows[u] = {"type", "parent", "titled"}
    BY <1>1, <1>7 DEF LeIsTable
  <2>2. CASE le.rows[u].titled /\ le.site.title[u] = title
    <3>1. rows[u] = [le.rows[u] EXCEPT !.type = "sent"]
      BY <1>5, <1>7, <2>2
    <3> QED
      BY <2>1, <2>2, <3>1
  <2>3. CASE ~ (le.rows[u].titled /\ le.site.title[u] = title)
    <3>1. rows[u] = le.rows[u]
      BY <1>5, <1>7, <2>3
    <3> QED
      BY <2>1, <2>3, <3>1
  <2> QED
    BY <2>2, <2>3
<1>8. PICK b : b = [LeIdle("next") EXCEPT !.todo = le.jobs[j].todo]
  OBVIOUS
<1>9. /\ LeIsRun(b) /\ b.at = "next" /\ b.item = "" /\ b.todo = le.jobs[j].todo
      /\ ~ b.early
  BY <1>8 DEF LeIdle, LeIsRun
<1>10. /\ DOMAIN r = DOMAIN le /\ r.site = le.site /\ r.rows = rows /\ r.jobs = le.jobs
       /\ r.posted = le.posted /\ r.torn = le.torn /\ r.odd = le.odd
       /\ r.again = le.again
  BY <1>1, <1>6 DEF LeIsTable
<1>11. le' = [r EXCEPT !.jobs[j] = b]
  <2>1. le' = LeDone(r, j)
    BY <1>3, <1>4 DEF LeMark
  <2> QED
    BY <1>8, <1>10, <2>1 DEF LeDone
<1>12. PICK t : t = le'
  OBVIOUS
<1>13. /\ DOMAIN t = DOMAIN le /\ t.site = le.site /\ t.rows = rows
       /\ t.posted = le.posted /\ t.torn = le.torn /\ t.odd = le.odd
       /\ t.again = le.again /\ t.jobs = [le.jobs EXCEPT ![j] = b]
  BY <1>1, <1>10, <1>11, <1>12 DEF LeIsTable
<1>14. /\ DOMAIN t.jobs = LeRuns(le.site) /\ t.jobs[j] = b
       /\ \A k \in LeRuns(le.site) : k # j => t.jobs[k] = le.jobs[k]
  BY <1>1, <1>2, <1>13 DEF LeIsTable
<1>15. LeMarked(le, t, j)
  BY <1>3, <1>7, <1>13 DEF LeMarked
<1>16. /\ LeUrls(t) = LeUrls(le)
       /\ \A u : LeFirst(t, u) = LeFirst(le, u) /\ LeArticle(t, u) = LeArticle(le, u)
  BY <1>13, LeSameSite
<1>17. LeIsTable(t)
  <2>1. /\ DOMAIN t = {"site", "rows", "jobs", "posted", "torn", "again", "odd"}
        /\ t.site \in LeSites /\ DOMAIN t.jobs = LeRuns(t.site)
        /\ DOMAIN t.posted = LeUrls(t) /\ \A u \in LeUrls(t) : t.posted[u] \in 0 .. 2
    BY <1>1, <1>13, <1>14, <1>16 DEF LeIsTable
  <2>2. /\ DOMAIN t.rows = LeUrls(t)
        /\ \A u \in LeUrls(t) : /\ DOMAIN t.rows[u] = {"type", "parent", "titled"}
                                /\ t.rows[u].titled \in BOOLEAN
    BY <1>1, <1>5, <1>7, <1>13, <1>16 DEF LeIsTable
  <2>3. \A k \in LeRuns(le.site) : LeIsRun(t.jobs[k])
    BY <1>1, <1>9, <1>14 DEF LeIsTable, LeIsRun
  <2> QED
    BY <1>13, <2>1, <2>2, <2>3 DEF LeIsTable, LeIsRun
<1>18. LeRunStep(le, t, j)
  BY <1>2, <1>14, <1>17 DEF LeRunStep
<1>19. LeHeld(t, j) \subseteq LeHeld(le, j)
  BY <1>8, <1>13, <1>14, LeDoneHolds
<1>20. LeUploadInv(t, b)
  <2>1. LeUploadInv(le, le.jobs[j])
    BY <1>1, <1>2 DEF LeInvOf, LeJobInv
  <2>2. "" \notin LeUrls(le)
    BY <1>1, LeSitesHaveArticles DEF LeArticles, LeIsTable
  <2>3. \A u \in b.todo :
          /\ u \in LeUrls(t) /\ t.rows[u].titled /\ u # b.item
          /\ LeArticle(t, u) = {u} /\ LeFirst(t, u) \notin t.again =>
                   t.posted[u] = 0
    <3> TAKE u \in b.todo
    <3>1. /\ u \in LeUrls(le) /\ le.rows[u].titled
          /\ LeArticle(le, u) = {u} /\ LeFirst(le, u) \notin le.again =>
               le.posted[u] = 0
      BY <1>9, <2>1 DEF LeUploadInv
    <3>2. t.rows[u].titled /\ u # b.item
      BY <1>7, <1>9, <1>13, <2>2, <3>1, ZenonT(40)
    <3> QED
      BY <1>13, <1>16, <3>1, <3>2
  <2> QED
    BY <1>9, <2>3 DEF LeUploadInv
<1>21. LeJobInv(t, j)
  BY <1>2, <1>14, <1>20 DEF LeJobInv
<1>22. LeInvOf(t)
  BY <1>1, <1>2, <1>15, <1>18, <1>19, <1>21, LeMarkedInv
<1> QED
  BY <1>12, <1>22 DEF LeInv

-----------------------------------------------------------------------------
(* The other jobs.                                                         *)

\* A job that is no uploader writes row u as q and goes on to b.
LeWrites(s, t, j, b, u, q) ==
  /\ DOMAIN t = DOMAIN s /\ t.site = s.site
  /\ t.posted = s.posted /\ t.torn = s.torn /\ t.odd = s.odd
  /\ s.again \subseteq t.again
  /\ t.jobs = [s.jobs EXCEPT ![j] = b]
  /\ t.rows = [s.rows EXCEPT ![u] = q]

\* What the row must be, and the job, is all that matters.
LEMMA LeWritesInv ==
  ASSUME NEW s, NEW t, NEW j \in LeRuns(s.site), NEW b, NEW u \in LeUrls(s), NEW q,
         LeInvOf(s), LeIsRun(b), LeWrites(s, t, j, b, u, q), j[1] # "upload",
         DOMAIN q = {"type", "parent", "titled"}, q.titled \in BOOLEAN,
         q.type \notin {"none", "sent"}, LeRowInv(t, u),
         LeUsable(s, u) => LeUsable(t, u), s.rows[u].titled => q.titled,
         s.rows[u].parent # "0" => q.parent = s.rows[u].parent,
         s.rows[u].type = "sent" /\ s.posted[u] > 0 => LeFirst(s, u) \in t.again,
         LeJobInv(t, j)
  PROVE  LeInvOf(t)
<1>1. /\ DOMAIN t = DOMAIN s /\ t.site = s.site
      /\ t.posted = s.posted /\ t.torn = s.torn /\ t.odd = s.odd
      /\ s.again \subseteq t.again
      /\ t.jobs = [s.jobs EXCEPT ![j] = b] /\ t.rows = [s.rows EXCEPT ![u] = q]
  BY DEF LeWrites
<1>2. LeIsTable(s) /\ LeUrls(t) = LeUrls(s)
  BY <1>1 DEF LeInvOf, LeUrls
<1>3. /\ DOMAIN t.jobs = LeRuns(s.site) /\ t.jobs[j] = b
      /\ \A k \in LeRuns(s.site) : k # j => t.jobs[k] = s.jobs[k]
  BY <1>1, <1>2 DEF LeIsTable
<1>4. /\ DOMAIN t.rows = LeUrls(s) /\ t.rows[u] = q
      /\ \A v \in LeUrls(s) : v # u => t.rows[v] = s.rows[v]
  BY <1>1, <1>2 DEF LeIsTable
<1>5. LeIsTable(t)
  <2>1. /\ DOMAIN t = {"site", "rows", "jobs", "posted", "torn", "again", "odd"}
        /\ t.site \in LeSites /\ DOMAIN t.jobs = LeRuns(t.site)
        /\ DOMAIN t.posted = LeUrls(t) /\ \A v \in LeUrls(t) : t.posted[v] \in 0 .. 2
    BY <1>1, <1>2, <1>3 DEF LeIsTable
  <2>2. /\ DOMAIN t.rows = LeUrls(t)
        /\ \A v \in LeUrls(t) : /\ DOMAIN t.rows[v] = {"type", "parent", "titled"}
                                /\ t.rows[v].titled \in BOOLEAN
    BY <1>2, <1>4 DEF LeIsTable
  <2>3. \A k \in LeRuns(s.site) : LeIsRun(t.jobs[k])
    BY <1>2, <1>3 DEF LeIsTable, LeIsRun
  <2> QED
    BY <1>1, <2>1, <2>2, <2>3 DEF LeIsTable, LeIsRun
<1>6. LeRunStep(s, t, j)
  BY <1>3, <1>5 DEF LeRunStep
<1>7. LeWritten(s, t)
  <2>1. ASSUME NEW v \in LeUrls(s), v # u
        PROVE  t.rows[v] = s.rows[v] /\ LeUsable(t, v) = LeUsable(s, v)
    BY <1>4, <2>1 DEF LeUsable
  <2>2. \A v \in LeUrls(s) :
          /\ s.rows[v].type # "none" => t.rows[v].type # "none"
          /\ LeUsable(s, v) => LeUsable(t, v)
          /\ s.rows[v].titled => t.rows[v].titled
          /\ s.rows[v].parent # "0" => t.rows[v].parent = s.rows[v].parent
    BY <1>4, <2>1
  <2>3. \A v \in LeUrls(s) :
          /\ t.rows[v].type = "sent" => s.rows[v].type = "sent"
          /\ s.rows[v].type = "sent" /\ t.rows[v].type # "sent" /\ s.posted[v] > 0 =>
               LeFirst(s, v) \in t.again
    BY <1>4
  <2> QED
    BY <1>1, <2>2, <2>3 DEF LeWritten
<1>8. ASSUME NEW v \in LeUrls(s) PROVE LeRowInv(t, v)
  <2>1. CASE v = u
    BY <2>1
  <2>2. CASE v # u
    <3>1. LeRowInv(s, v) /\ t.rows[v] = s.rows[v]
      BY <1>4, <1>8, <2>2 DEF LeInvOf
    <3>2. LeFirst(t, v) = LeFirst(s, v) /\ LeFurther(t, v) = LeFurther(s, v)
      BY <1>1, LeSameSite
    <3>3. v \in DOMAIN s.site.pages => LeFurther(s, v) \subseteq LeUrls(s)
      BY <1>2, LeSitesHaveArticles DEF LeArticles, LeIsTable
    <3>4. \A w \in LeUrls(s) : s.rows[w].type # "none" => t.rows[w].type # "none"
      BY <1>4
    <3> QED
      BY <1>1, <3>1, <3>2, <3>3, <3>4 DEF LeRowInv, LeUsable
  <2> QED
    BY <2>1, <2>2
<1>9. j \notin LeUploaders(s)
  BY DEF LeUploaders
<1> QED
  BY <1>6, <1>7, <1>8, <1>9, LeQuietStep

\* A row that was posted is written with a note.
LEMMA LeRewrittenWrites ==
  ASSUME NEW s, NEW r, NEW t, NEW j, NEW b, NEW u, NEW q, LeIsTable(s),
         LeWrites(s, r, j, b, u, q), r.again = s.again, t = LeRewritten(r, u)
  PROVE  /\ LeWrites(s, t, j, b, u, q)
         /\ s.posted[u] > 0 => LeFirst(s, u) \in t.again
<1>1. /\ DOMAIN r = DOMAIN s /\ r.site = s.site /\ r.posted = s.posted
      /\ r.torn = s.torn /\ r.odd = s.odd /\ r.again = s.again
      /\ r.jobs = [s.jobs EXCEPT ![j] = b] /\ r.rows = [s.rows EXCEPT ![u] = q]
      /\ DOMAIN r = {"site", "rows", "jobs", "posted", "torn", "again", "odd"}
  BY DEF LeIsTable, LeWrites
<1>2. LeFirst(r, u) = LeFirst(s, u)
  BY <1>1, LeSameSite
<1>3. CASE s.posted[u] > 0
  <2>1. t = [r EXCEPT !.again = r.again \cup {LeFirst(s, u)}]
    BY <1>1, <1>2, <1>3 DEF LeRewritten
  <2>2. /\ DOMAIN t = DOMAIN r /\ t.site = r.site /\ t.posted = r.posted
        /\ t.torn = r.torn /\ t.odd = r.odd /\ t.jobs = r.jobs /\ t.rows = r.rows
        /\ t.again = r.again \cup {LeFirst(s, u)}
    BY <1>1, <2>1
  <2> QED
    BY <1>1, <2>2 DEF LeWrites
<1>4. CASE ~ (s.posted[u] > 0)
  <2>1. t = r
    BY <1>1, <1>4 DEF LeRewritten
  <2> QED
    BY <1>1, <1>4, <2>1 DEF LeWrites
<1> QED
  BY <1>3, <1>4

\* The links that are left after the first.
LEMMA LeHeadAndTail ==
  ASSUME NEW S, NEW q \in Seq(S), q # <<>>
  PROVE  Tail(q) \in Seq(S) /\ ToSet(q) = ToSet(Tail(q)) \cup {Head(q)}
<1>1. /\ Len(q) \in Nat /\ Len(q) > 0 /\ Tail(q) \in Seq(S)
      /\ DOMAIN q = 1 .. Len(q) /\ DOMAIN Tail(q) = 1 .. (Len(q) - 1)
      /\ Head(q) = q[1] /\ \A k \in 1 .. (Len(q) - 1) : Tail(q)[k] = q[k + 1]
  OBVIOUS
<1>2. ASSUME NEW k \in 1 .. Len(q) PROVE q[k] \in ToSet(Tail(q)) \cup {Head(q)}
  <2>1. CASE k = 1
    BY <1>1, <2>1
  <2>2. CASE k # 1
    <3>1. k - 1 \in 1 .. (Len(q) - 1) /\ Tail(q)[k - 1] = q[k]
      BY <1>1, <2>2
    <3> QED
      BY <1>1, <3>1 DEF ToSet
  <2> QED
    BY <2>1, <2>2
<1>3. ASSUME NEW k \in 1 .. (Len(q) - 1) PROVE Tail(q)[k] \in ToSet(q)
  <2>1. k + 1 \in 1 .. Len(q) /\ Tail(q)[k] = q[k + 1]
    BY <1>1
  <2> QED
    BY <1>1, <2>1 DEF ToSet
<1>4. Head(q) \in ToSet(q)
  <2>1. 1 \in 1 .. Len(q)
    BY <1>1
  <2> QED
    BY <1>1, <2>1 DEF ToSet
<1> QED
  BY <1>1, <1>2, <1>3, <1>4 DEF ToSet

\* Nothing is left of no links.
LEMMA LeNoneLeft == ToSet(<<>>) = {}
BY DEF ToSet

\* A link of the list page is inserted.
LEMMA LeListedStep ==
  ASSUME LeInv, NEW i \in 1 .. le.site.runs["list"], LeListed(i)
  PROVE  LeInv'
<1> DEFINE j == <<"list", i>>
<1>1. LeInvOf(le) /\ LeIsTable(le) /\ LeArticles(le)
  BY LeSitesHaveArticles DEF LeInv, LeInvOf, LeIsTable
<1>2. j \in LeRuns(le.site) /\ j[1] = "list"
  BY <1>1, LeRunExists DEF LeIsTable, LeKinds
<1>3. PICK u \in le.jobs[j].todo :
        le' = LeInsert([le EXCEPT !.jobs[j].todo = @ \ {u}], u,
                       IF u \in le.site.comma THEN "paging" ELSE "content", "0")
  BY DEF LeListed
<1>4. PICK b : b = [le.jobs[j] EXCEPT !.todo = le.jobs[j].todo \ {u}]
  OBVIOUS
<1>5. LeIsRun(b) /\ b.todo = le.jobs[j].todo \ {u}
  BY <1>1, <1>2, <1>4 DEF LeIsTable, LeIsRun
<1>6. PICK r : r = [le EXCEPT !.jobs[j].todo = @ \ {u}]
  OBVIOUS
<1>7. r = [le EXCEPT !.jobs[j] = b]
  BY <1>1, <1>2, <1>4, <1>6 DEF LeIsTable
<1>8. PICK ty \in {"paging", "content"} :
        ty = IF u \in le.site.comma THEN "paging" ELSE "content"
  OBVIOUS
<1>9. le' = LeInsert(r, u, ty, "0")
  BY <1>3, <1>6, <1>8
<1>10. LeMoves(le, r, j, b) /\ r.rows = le.rows
  BY <1>1, <1>7 DEF LeMoves, LeIsTable
<1>11. b.todo \subseteq le.site.listed /\ u \in le.site.listed /\ u \in LeUrls(le)
  BY <1>1, <1>2, <1>5 DEF LeInvOf, LeJobInv, LeArticles
<1>12. CASE le.rows[u].type # "none"
  <2>1. le' = r
    BY <1>9, <1>10, <1>12 DEF LeInsert
  <2>2. LeInvOf(le')
    BY <1>1, <1>2, <1>5, <1>10, <1>11, <2>1, LeMovesInv
  <2> QED
    BY <2>2 DEF LeInv
<1>13. CASE le.rows[u].type = "none"
  <2>1. PICK q : q = [le.rows[u] EXCEPT !.type = ty, !.parent = "0"]
    OBVIOUS
  <2>2. LeRowInv(le, u)
    BY <1>1, <1>11 DEF LeInvOf
  <2>3. /\ DOMAIN q = {"type", "parent", "titled"} /\ q.type = ty /\ q.parent = "0"
        /\ ~ q.titled /\ q.titled \in BOOLEAN /\ ~ le.rows[u].titled
        /\ le.rows[u].parent = "0" /\ ~ LeUsable(le, u)
    BY <1>1, <1>11, <1>13, <2>1, <2>2 DEF LeIsTable, LeRowInv, LeUsable
  <2>4. le' = [r EXCEPT !.rows[u].type = ty, !.rows[u].parent = "0"]
    BY <1>9, <1>10, <1>13 DEF LeInsert
  <2>5. LeWrites(le, le', j, b, u, q)
    BY <1>1, <1>10, <1>11, <2>1, <2>4 DEF LeWrites, LeMoves, LeIsTable
  <2>6. PICK t : t = le'
    OBVIOUS
  <2>7. t.site = le.site /\ t.rows[u] = q /\ t.jobs[j] = b
    BY <1>1, <1>2, <1>11, <2>5, <2>6 DEF LeWrites, LeIsTable
  <2>8. LeFirst(t, u) = LeFirst(le, u)
    BY <2>7, LeSameSite
  <2>9. LeFirst(le, u) = u
    BY <1>1, <1>11 DEF LeArticles
  <2>10. u \in DOMAIN le.site.pages => ty = "paging" /\ u # "0"
    BY <1>1, <1>8, ZenonT(40) DEF LeArticles
  <2>11. LeRowInv(t, u)
    BY <2>3, <2>7, <2>8, <2>9, <2>10 DEF LeRowInv, LeUsable
  <2>12. LeJobInv(t, j)
    BY <1>2, <1>11, <2>7 DEF LeJobInv
  <2>13. LeUsable(t, u) \/ ~ LeUsable(le, u)
    BY <2>3
  <2>14. LeInvOf(t)
    BY <1>1, <1>2, <1>5, <1>8, <1>11, <1>13, <2>3, <2>5, <2>6, <2>11, <2>12, <2>13,
       LeWritesInv
  <2> QED
    BY <2>6, <2>14 DEF LeInv
<1> QED
  BY <1>12, <1>13

\* A page of an article is inserted, or its first page at last.
LEMMA LeSavePagesStep ==
  ASSUME LeInv, NEW i \in 1 .. le.site.runs["paging"], LeSavePages(i)
  PROVE  LeInv'
<1> DEFINE j == <<"paging", i>>
<1>1. LeInvOf(le) /\ LeIsTable(le) /\ LeArticles(le)
  BY LeSitesHaveArticles DEF LeInv, LeInvOf, LeIsTable
<1>2. j \in LeRuns(le.site) /\ j[1] = "paging"
  BY <1>1, LeRunExists DEF LeIsTable, LeKinds
<1>3. PICK a : a = le.jobs[j]
  OBVIOUS
<1>4. LeIsRun(a) /\ a.at = "save" /\ LePagingInv(le, a)
  BY <1>1, <1>2, <1>3 DEF LeInvOf, LeJobInv, LeSavePages, LeIsTable, LeIsRun
<1>5. PICK p : p = a.item
  OBVIOUS
<1>6. /\ p \in DOMAIN le.site.pages /\ p \in LeUrls(le) /\ LeFirst(le, p) = p
      /\ a.left \in Seq(LeUrls(le)) /\ ToSet(a.left) \subseteq LeFurther(le, p)
      /\ \A v \in LeFurther(le, p) : v \in ToSet(a.left) \/ le.rows[v].type # "none"
  BY <1>1, <1>4, <1>5 DEF LePagingInv, LeArticles
<1>7. CASE a.left # <<>>
  <2>1. PICK u : u = Head(a.left)
    OBVIOUS
  <2>2. PICK left : left = Tail(a.left)
    OBVIOUS
  <2>3. left \in Seq(LeUrls(le)) /\ ToSet(a.left) = ToSet(left) \cup {u}
    BY <1>6, <1>7, <2>1, <2>2, LeHeadAndTail
  <2>4. PICK b : b = [a EXCEPT !.left = left]
    OBVIOUS
  <2>5. /\ LeIsRun(b) /\ b.left = left /\ b.item = p /\ b.at = "save"
    BY <1>4, <1>5, <2>4 DEF LeIsRun
  <2>6. PICK r : r = [le EXCEPT !.jobs[j].left = Tail(@)]
    OBVIOUS
  <2>7. r = [le EXCEPT !.jobs[j] = b]
    BY <1>1, <1>2, <1>3, <2>2, <2>4, <2>6 DEF LeIsTable
  <2>8. le' = LeInsert(r, u, "content", p)
    BY <1>3, <1>5, <1>7, <2>1, <2>6 DEF LeSavePages
  <2>9. LeMoves(le, r, j, b) /\ r.rows = le.rows
    BY <1>1, <2>7 DEF LeMoves, LeIsTable
  <2>10. /\ u \in LeFurther(le, p) /\ u \in LeUrls(le) /\ LeFirst(le, u) = p /\ u # p
         /\ u \notin DOMAIN le.site.pages
    <3>1. u \in LeFurther(le, p)
      BY <1>6, <2>3
    <3>2. u \in LeUrls(le) /\ LeFirst(le, u) = p /\ u # p
      BY <1>1, <1>6, <3>1 DEF LeArticles
    <3> QED
      BY <1>1, <3>1, <3>2 DEF LeArticles
  <2>11. ToSet(left) \subseteq LeFurther(le, p)
    BY <1>6, <2>3
  <2>12. CASE le.rows[u].type # "none"
    <3>1. le' = r
      BY <2>8, <2>9, <2>12 DEF LeInsert
    <3>2. LePagingInv(le, b)
      BY <1>6, <2>3, <2>5, <2>11, <2>12 DEF LePagingInv
    <3>3. LeInvOf(le')
      BY <1>1, <1>2, <2>5, <2>9, <3>1, <3>2, LeMovesInv
    <3> QED
      BY <3>3 DEF LeInv
  <2>13. CASE le.rows[u].type = "none"
    <3>1. PICK q : q = [le.rows[u] EXCEPT !.type = "content", !.parent = p]
      OBVIOUS
    <3>2. LeRowInv(le, u)
      BY <1>1, <2>10 DEF LeInvOf
    <3>3. /\ DOMAIN q = {"type", "parent", "titled"} /\ q.type = "content"
          /\ q.parent = p /\ ~ q.titled /\ q.titled \in BOOLEAN
          /\ ~ le.rows[u].titled
          /\ le.rows[u].parent = "0" /\ ~ LeUsable(le, u)
      BY <1>1, <2>10, <2>13, <3>1, <3>2 DEF LeIsTable, LeRowInv, LeUsable
    <3>4. le' = [r EXCEPT !.rows[u].type = "content", !.rows[u].parent = p]
      BY <2>8, <2>9, <2>13 DEF LeInsert
    <3>5. LeWrites(le, le', j, b, u, q)
      BY <1>1, <2>9, <2>10, <3>1, <3>4 DEF LeWrites, LeMoves, LeIsTable
    <3>6. PICK t : t = le'
      OBVIOUS
    <3>7. /\ t.site = le.site /\ t.rows[u] = q /\ t.jobs[j] = b
          /\ \A v \in LeUrls(le) : v # u => t.rows[v] = le.rows[v]
      BY <1>1, <1>2, <2>10, <3>5, <3>6 DEF LeWrites, LeIsTable
    <3>8. /\ LeUrls(t) = LeUrls(le) /\ LeFirst(t, u) = LeFirst(le, u)
          /\ LeFurther(t, p) = LeFurther(le, p)
      BY <3>7, LeSameSite
    <3>9. LeRowInv(t, u)
      BY <2>10, <3>3, <3>7, <3>8 DEF LeRowInv, LeUsable
    <3>10. LeFurther(le, p) \subseteq LeUrls(le)
      BY <1>1, <1>6 DEF LeArticles
    <3>11. LePagingInv(t, b)
      BY <1>6, <2>3, <2>5, <2>11, <3>3, <3>7, <3>8, <3>10 DEF LePagingInv
    <3>12. LeJobInv(t, j)
      BY <1>2, <3>7, <3>11 DEF LeJobInv
    <3>13. LeInvOf(t)
      BY <1>1, <1>2, <2>5, <2>10, <2>13, <3>3, <3>5, <3>6, <3>9, <3>12, LeWritesInv
    <3> QED
      BY <3>6, <3>13 DEF LeInv
  <2> QED
    BY <2>12, <2>13
<1>8. CASE a.left = <<>>
  <2>1. PICK b : b = [a EXCEPT !.at = "next", !.item = ""]
    OBVIOUS
  <2>2. LeIsRun(b) /\ b.at = "next"
    BY <1>4, <2>1 DEF LeIsRun
  <2>3. PICK r : r = [le EXCEPT !.rows[p].parent = p, !.rows[p].type = "content",
                                !.jobs[j].at = "next", !.jobs[j].item = ""]
    OBVIOUS
  <2>4. PICK q : q = [le.rows[p] EXCEPT !.parent = p, !.type = "content"]
    OBVIOUS
  <2>5. LeWrites(le, r, j, b, p, q) /\ r.again = le.again
    <3>1. /\ DOMAIN r = DOMAIN le /\ r.site = le.site /\ r.posted = le.posted
          /\ r.torn = le.torn /\ r.odd = le.odd /\ r.again = le.again
      BY <1>1, <2>3 DEF LeIsTable
    <3>2. r.rows = [le.rows EXCEPT ![p] = q]
      BY <1>1, <1>6, <2>3, <2>4 DEF LeIsTable
    <3>3. r.jobs = [le.jobs EXCEPT ![j] = b]
      BY <1>1, <1>2, <1>3, <2>1, <2>3 DEF LeIsTable
    <3> QED
      BY <3>1, <3>2, <3>3 DEF LeWrites
  <2>6. le' = LeRewritten(r, p)
    BY <1>3, <1>5, <1>8, <2>3 DEF LeSavePages
  <2>7. /\ LeWrites(le, le', j, b, p, q)
        /\ le.posted[p] > 0 => LeFirst(le, p) \in le'.again
    BY <1>1, <2>5, <2>6, LeRewrittenWrites
  <2>8. LeRowInv(le, p)
    BY <1>1, <1>6 DEF LeInvOf
  <2>9. /\ DOMAIN q = {"type", "parent", "titled"} /\ q.type = "content"
        /\ q.parent = p /\ q.titled = le.rows[p].titled /\ q.titled \in BOOLEAN
        /\ le.rows[p].parent \in {"0", p}
    BY <1>1, <1>6, <2>4, <2>8 DEF LeIsTable, LeRowInv
  <2>10. PICK t : t = le'
    OBVIOUS
  <2>11. /\ t.site = le.site /\ t.rows[p] = q /\ t.jobs[j] = b
         /\ \A v \in LeUrls(le) : v # p => t.rows[v] = le.rows[v]
    BY <1>1, <1>2, <1>6, <2>7, <2>10 DEF LeWrites, LeIsTable
  <2>12. LeFirst(t, p) = p /\ LeFurther(t, p) = LeFurther(le, p)
    BY <1>6, <2>11, LeSameSite
  <2>13. \A v \in LeFurther(le, p) : t.rows[v].type # "none"
    <3>1. \A v \in LeFurther(le, p) :
            v \in LeUrls(le) /\ v # p /\ le.rows[v].type # "none"
      BY <1>1, <1>6, <1>8, LeNoneLeft DEF LeArticles
    <3> QED
      BY <2>11, <3>1
  <2>14. LeRowInv(t, p)
    BY <1>6, <2>9, <2>11, <2>12, <2>13 DEF LeRowInv, LeUsable
  <2>15. LeUsable(t, p)
    BY <2>9, <2>11 DEF LeUsable
  <2>16. LeJobInv(t, j)
    BY <1>2, <2>2, <2>11 DEF LeJobInv, LePagingInv
  <2>17. LeInvOf(t)
    BY <1>1, <1>2, <1>6, <2>2, <2>7, <2>9, <2>10, <2>14, <2>15, <2>16, LeWritesInv
  <2> QED
    BY <2>10, <2>17 DEF LeInv
<1> QED
  BY <1>7, <1>8

\* The content of a page is fetched.
LEMMA LeContentStep ==
  ASSUME LeInv, NEW i \in 1 .. le.site.runs["content"], LeContent(i)
  PROVE  LeInv'
<1> DEFINE j == <<"content", i>>
<1>1. LeInvOf(le) /\ LeIsTable(le)
  BY DEF LeInv, LeInvOf
<1>2. j \in LeRuns(le.site) /\ j[1] = "content"
  BY <1>1, LeRunExists DEF LeIsTable, LeKinds
<1>3. PICK u \in le.jobs[j].todo :
        le' = LeRewritten([le EXCEPT !.jobs[j].todo = @ \ {u},
                                     !.rows[u].type = "got",
                                     !.rows[u].titled = TRUE], u)
  BY DEF LeContent
<1>4. \A v \in le.jobs[j].todo : v \in LeUrls(le) /\ LeUsable(le, v)
  BY <1>1, <1>2 DEF LeInvOf, LeJobInv
<1>5. PICK b : b = [le.jobs[j] EXCEPT !.todo = le.jobs[j].todo \ {u}]
  OBVIOUS
<1>6. LeIsRun(b) /\ b.todo = le.jobs[j].todo \ {u}
  BY <1>1, <1>2, <1>5 DEF LeIsTable, LeIsRun
<1>7. PICK q : q = [le.rows[u] EXCEPT !.type = "got", !.titled = TRUE]
  OBVIOUS
<1>8. PICK r : r = [le EXCEPT !.jobs[j].todo = @ \ {u}, !.rows[u].type = "got",
                              !.rows[u].titled = TRUE]
  OBVIOUS
<1>9. LeWrites(le, r, j, b, u, q) /\ r.again = le.again
  <2>1. /\ DOMAIN r = DOMAIN le /\ r.site = le.site /\ r.posted = le.posted
        /\ r.torn = le.torn /\ r.odd = le.odd /\ r.again = le.again
    BY <1>1, <1>8 DEF LeIsTable
  <2>2. r.rows = [le.rows EXCEPT ![u] = q]
    BY <1>1, <1>4, <1>7, <1>8 DEF LeIsTable
  <2>3. r.jobs = [le.jobs EXCEPT ![j] = b]
    BY <1>1, <1>2, <1>5, <1>8 DEF LeIsTable
  <2> QED
    BY <2>1, <2>2, <2>3 DEF LeWrites
<1>10. le' = LeRewritten(r, u)
  BY <1>3, <1>8
<1>11. /\ LeWrites(le, le', j, b, u, q)
       /\ le.posted[u] > 0 => LeFirst(le, u) \in le'.again
  BY <1>1, <1>9, <1>10, LeRewrittenWrites
<1>12. LeRowInv(le, u) /\ LeUsable(le, u) /\ u \in LeUrls(le)
  BY <1>1, <1>4 DEF LeInvOf
<1>13. /\ DOMAIN q = {"type", "parent", "titled"} /\ q.type = "got"
       /\ q.parent = le.rows[u].parent /\ q.titled
  BY <1>1, <1>7, <1>12 DEF LeIsTable
<1>14. PICK t : t = le'
  OBVIOUS
<1>15. /\ t.site = le.site /\ t.rows[u] = q /\ t.jobs[j] = b
       /\ \A v \in LeUrls(le) : v # u => t.rows[v] = le.rows[v]
  BY <1>1, <1>2, <1>12, <1>11, <1>14 DEF LeWrites, LeIsTable
<1>16. /\ LeUrls(t) = LeUrls(le) /\ LeFirst(t, u) = LeFirst(le, u)
       /\ LeFurther(t, u) = LeFurther(le, u)
  BY <1>15, LeSameSite
<1>17. LeUsable(t, u)
  BY <1>13, <1>15 DEF LeUsable
<1>18. LeRowInv(t, u)
  <2>1. /\ t.rows[u].type = "got" /\ t.rows[u].parent = le.rows[u].parent
        /\ t.rows[u].titled
    BY <1>13, <1>15
  <2>2. le.rows[u].type \notin {"none", "paging"}
    BY <1>12 DEF LeUsable
  <2>3. u \in DOMAIN le.site.pages =>
          /\ le.rows[u].parent = u
          /\ \A v \in LeFurther(le, u) : v \in LeUrls(le) /\ t.rows[v].type # "none"
    <3>1. u \in DOMAIN le.site.pages =>
            \A v \in LeFurther(le, u) : v \in LeUrls(le) /\ v # u
      BY <1>1, LeSitesHaveArticles DEF LeArticles, LeIsTable
    <3> QED
      BY <1>12, <1>15, <3>1 DEF LeRowInv
  <2> QED
    BY <1>12, <1>15, <1>16, <1>17, <2>1, <2>2, <2>3 DEF LeRowInv
<1>19. LeJobInv(t, j)
  <2>1. \A v \in b.todo : v \in LeUrls(t) /\ LeUsable(t, v)
    BY <1>4, <1>6, <1>15, <1>16 DEF LeUsable
  <2> QED
    BY <1>2, <1>15, <2>1 DEF LeJobInv
<1>20. LeInvOf(t)
  BY <1>1, <1>2, <1>6, <1>11, <1>12, <1>13, <1>14, <1>17, <1>18, <1>19, LeWritesInv
<1> QED
  BY <1>14, <1>20 DEF LeInv

-----------------------------------------------------------------------------
(* The invariant holds at first and is kept.                               *)

\* The empty table.
LEMMA LeInitInv == LeInit => LeInv
<1> SUFFICES ASSUME LeInit PROVE LeInv
  OBVIOUS
<1>1. PICK site \in LeSites :
        le = [site |-> site,
              rows |-> [u \in DOMAIN site.title |->
                          [type |-> "none", parent |-> "0", titled |-> FALSE]],
              jobs |-> [j \in LeRuns(site) |-> LeIdle("not started")],
              posted |-> [u \in DOMAIN site.title |-> 0],
              torn |-> {}, again |-> {}, odd |-> {}]
  BY DEF LeInit
<1>2. /\ DOMAIN le = {"site", "rows", "jobs", "posted", "torn", "again", "odd"}
      /\ le.site = site /\ le.odd = {} /\ LeUrls(le) = DOMAIN site.title
      /\ DOMAIN le.rows = DOMAIN site.title /\ DOMAIN le.jobs = LeRuns(site)
      /\ DOMAIN le.posted = DOMAIN site.title
  BY <1>1 DEF LeUrls
<1>3. \A u \in LeUrls(le) :
        /\ le.rows[u] = [type |-> "none", parent |-> "0", titled |-> FALSE]
        /\ le.posted[u] = 0
  BY <1>1, <1>2
<1>4. \A j \in LeRuns(le.site) :
        /\ LeIsRun(le.jobs[j]) /\ le.jobs[j].at = "not started"
        /\ le.jobs[j].todo = {} /\ le.jobs[j].item = "" /\ ~ le.jobs[j].early
  <2>1. PICK b : b = LeIdle("not started")
    OBVIOUS
  <2>2. /\ LeIsRun(b) /\ b.at = "not started" /\ b.todo = {} /\ b.item = ""
        /\ ~ b.early
    BY <2>1 DEF LeIsRun, LeIdle
  <2>3. \A j \in LeRuns(le.site) : le.jobs[j] = b
    BY <1>1, <1>2, <2>1
  <2> QED
    BY <2>2, <2>3
<1>5. LeArticles(le)
  BY <1>2, LeSitesHaveArticles
<1>6. LeIsTable(le)
  <2>1. \A j \in LeRuns(le.site) : LeIsRun(le.jobs[j])
    BY <1>4
  <2>2. \A u \in LeUrls(le) : /\ DOMAIN le.rows[u] = {"type", "parent", "titled"}
                             /\ le.rows[u].titled \in BOOLEAN /\ le.posted[u] \in 0 .. 2
    <3> TAKE u \in LeUrls(le)
    <3>1. PICK q : q = le.rows[u]
      OBVIOUS
    <3>2. q = [type |-> "none", parent |-> "0", titled |-> FALSE] /\ le.posted[u] = 0
      BY <1>3, <3>1
    <3> QED
      BY <3>1, <3>2
  <2> QED
    BY <1>2, <2>1, <2>2 DEF LeIsTable, LeIsRun
<1>7. ASSUME NEW u \in LeUrls(le) PROVE LeRowInv(le, u)
  <2>1. le.rows[u].type = "none" /\ le.rows[u].parent = "0" /\ ~ le.rows[u].titled
    BY <1>3, <1>7
  <2>2. u # "0" /\ (u \in DOMAIN le.site.pages => LeFirst(le, u) = u)
    BY <1>5 DEF LeArticles
  <2> QED
    BY <2>1, <2>2 DEF LeRowInv, LeUsable
<1>8. ASSUME NEW j \in LeRuns(le.site) PROVE LeJobInv(le, j)
  <2>1. /\ le.jobs[j].at = "not started" /\ le.jobs[j].todo = {}
        /\ le.jobs[j].item = "" /\ ~ le.jobs[j].early
    BY <1>4, <1>8
  <2> QED
    BY <2>1 DEF LeJobInv, LePagingInv, LeUploadInv
<1>9. LeOneHolds(le)
  <2>1. \A j \in LeUploaders(le) : LeHeld(le, j) = {}
    BY <1>4 DEF LeHeld, LeUploaders
  <2> QED
    BY <2>1 DEF LeOneHolds
<1>10. LeOnce(le) /\ LeSentWasPosted(le) /\ LeSentWhole(le)
  BY <1>3 DEF LeOnce, LeSentWasPosted, LeSentWhole
<1> QED
  BY <1>2, <1>6, <1>7, <1>8, <1>9, <1>10 DEF LeInv, LeInvOf

\* Every step of a job.
LEMMA LeNextInv ==
  ASSUME LeInv, LeNext
  PROVE  LeInv'
<1>1. ASSUME NEW i \in 1 .. le.site.runs["list"], LeList(i) \/ LeListed(i)
      PROVE  LeInv'
  BY <1>1, LeListStep, LeListedStep
<1>2. ASSUME NEW i \in 1 .. le.site.runs["paging"],
             LeWork("paging", i) \/ LePaginate(i) \/ LeSavePages(i)
      PROVE  LeInv'
  BY <1>2, LeWorkStep, LePaginateStep, LeSavePagesStep
<1>3. ASSUME NEW i \in 1 .. le.site.runs["content"],
             LeWork("content", i) \/ LeContent(i)
      PROVE  LeInv'
  BY <1>3, LeWorkStep, LeContentStep
<1>4. ASSUME NEW i \in 1 .. le.site.runs["upload"],
             \/ LeUpload(i) \/ LeNextRow(i) \/ LeCount(i) \/ LePost(i)
             \/ LeMark(i)
      PROVE  LeInv'
  BY <1>4, LeUploadStep, LeNextRowStep, LeCountStep, LePostStep, LeMarkStep
<1> QED
  BY <1>1, <1>2, <1>3, <1>4 DEF LeNext
=============================================================================
