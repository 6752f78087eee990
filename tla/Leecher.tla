------------------------------- MODULE Leecher -------------------------------
(***************************************************************************)
(* The leecher: cron jobs that find articles, split them into pages, fetch *)
(* the pages and upload them, over one table of items without transactions *)
(* or locks.  A step is one statement of SQL, or one post; jobs of the     *)
(* same kind overlap, as cron starts them every minute.  A run that dies,  *)
(* as the uploader's does when post() gets no answer, takes no more steps. *)
(***************************************************************************)
EXTENDS Integers, Sequences, FiniteSets, SequencesExt

CONSTANTS LeSites,   (* what there is to fetch, one of them for a behaviour  *)
          LeLimit    (* LIMIT of the queries                                 *)

LeKinds == {"list", "paging", "content", "upload"}

\* Every url has a title, that of its article.  Links that the paginator of a page
\* names lead to further pages of one article, which no list names; the address
\* of a page with a paginator has a comma.
LeIsSite(site) ==
  LET urls == DOMAIN site.title
      firsts == DOMAIN site.pages
  IN /\ site.runs \in [LeKinds -> Nat]
     /\ IsFiniteSet(urls) /\ "" \notin urls /\ "0" \notin urls
     /\ site.listed \subseteq urls /\ firsts \subseteq urls \cap site.comma
     /\ \A p \in firsts :
          /\ site.pages[p] \in Seq(urls \ (site.listed \cup firsts))
          /\ \A v \in ToSet(site.pages[p]) :
               /\ site.title[v] = site.title[p]
               /\ \A q \in firsts : v \in ToSet(site.pages[q]) => q = p

ASSUME LeAssumption ==
  /\ LeLimit \in Nat \ {0}
  /\ \A site \in LeSites : LeIsSite(site)

VARIABLE le
(* le.site: listed: the links of the list page; comma: those with a comma;   *)
(* pages: first page -> the further pages its paginator names;               *)
(* title: url -> the title of its page; runs, a bound: kind -> runs;         *)
(* le.rows: url -> its item: type, parent (the row's id is its url) and      *)
(* whether the title is set; type "none": there is no such row;              *)
(* le.jobs: <<kind, number>> -> a run: at, todo (rows it read), item (the    *)
(* row it is at), left (links to insert), read (rows of the first count),    *)
(* early (history: its paging was not saved to the end), parts (of a post);  *)
(* history: le.posted: url -> posts that hold it and arrived, up to 2;       *)
(* le.torn: articles of which a part was posted while a paging job had them  *)
(* in work; le.again: articles that something may have uploaded twice;       *)
(* le.odd: posts of a part of an article at any other time                   *)

LeUrls(s) == DOMAIN s.site.title

LeFirst(s, u) ==
  IF \E p \in DOMAIN s.site.pages : u \in ToSet(s.site.pages[p])
  THEN CHOOSE p \in DOMAIN s.site.pages : u \in ToSet(s.site.pages[p])
  ELSE u

LeArticle(s, u) == {v \in LeUrls(s) : LeFirst(s, v) = LeFirst(s, u)}

LeRuns(site) == UNION {{k} \X (1 .. site.runs[k]) : k \in LeKinds}

LeIdle(where) == [at |-> where, todo |-> {}, item |-> "", left |-> <<>>,
                  read |-> {}, early |-> FALSE, parts |-> {}]

LeInit ==
  \E site \in LeSites :
    le = [site |-> site,
          rows |-> [u \in DOMAIN site.title |->
                      [type |-> "none", parent |-> "0", titled |-> FALSE]],
          jobs |-> [j \in LeRuns(site) |-> LeIdle("not started")],
          posted |-> [u \in DOMAIN site.title |-> 0],
          torn |-> {}, again |-> {}, odd |-> {}]

LeOfType(s, t) == {u \in LeUrls(s) : s.rows[u].type = t}

\* SELECT ... WHERE type = t LIMIT n: no ORDER BY, any n of them.
LeSelect(s, t) ==
  {c \in SUBSET LeOfType(s, t) :
     \/ Cardinality(c) = LeLimit
     \/ Cardinality(c) < LeLimit /\ c = LeOfType(s, t)}

\* INSERT: the column url is unique, a second row of an url is refused.
LeInsert(s, u, t, parent) ==
  IF s.rows[u].type # "none" THEN s
  ELSE [s EXCEPT !.rows[u].type = t, !.rows[u].parent = parent]

\* History: a row that was posted is written again by a job that read it before.
LeRewritten(s, u) ==
  IF s.posted[u] > 0 THEN [s EXCEPT !.again = @ \cup {LeFirst(s, u)}] ELSE s

\* Runs of a kind start one after the other; one that reads no row does nothing.
LeMayStart(k, i) ==
  /\ le.jobs[<<k, i>>].at = "not started"
  /\ i > 1 => le.jobs[<<k, i - 1>>].at # "not started"

\* The list job: save_item() inserts the links of the list page one by one.
LeList(i) ==
  /\ LeMayStart("list", i)
  /\ le' = [le EXCEPT !.jobs[<<"list", i>>] =
                         [@ EXCEPT !.at = "next", !.todo = le.site.listed]]

LeListed(i) ==
  LET j == <<"list", i>>
  IN /\ le.jobs[j].at = "next"
     /\ \E u \in le.jobs[j].todo :
          le' = LeInsert([le EXCEPT !.jobs[j].todo = @ \ {u}], u,
                         IF u \in le.site.comma THEN "paging" ELSE "content", "0")

\* worker.php: the query of a paging or content job.
LeWork(k, i) ==
  /\ LeMayStart(k, i)
  /\ k \in {"paging", "content"}
  /\ \E c \in LeSelect(le, k) \ {{}} :
       le' = [le EXCEPT !.jobs[<<k, i>>] = [@ EXCEPT !.at = "next", !.todo = c]]

\* parsePaginator(): with links save.php is called.  Items without, and pages
\* that cannot be fetched, are what a run is left with: they stay as they are.
LePaginate(i) ==
  LET j == <<"paging", i>>
      b == le.jobs[j]
  IN /\ b.at = "next"
     /\ \E u \in b.todo \cap DOMAIN le.site.pages :
          le' = [le EXCEPT !.jobs[j] = [b EXCEPT !.at = "save", !.item = u,
                                          !.todo = b.todo \ {u},
                                          !.left = le.site.pages[u]]]

\* save_item() for a paging item: the pages one by one, the first page at last.
LeSavePages(i) ==
  LET j == <<"paging", i>>
      p == le.jobs[j].item
  IN /\ le.jobs[j].at = "save"
     /\ IF le.jobs[j].left # <<>>
        THEN le' = LeInsert([le EXCEPT !.jobs[j].left = Tail(@)],
                            Head(le.jobs[j].left), "content", p)
        ELSE le' = LeRewritten([le EXCEPT !.rows[p].parent = p,
                                          !.rows[p].type = "content",
                                          !.jobs[j].at = "next",
                                          !.jobs[j].item = ""], p)

\* parseContentPage() and save_item(): the UPDATE asks for the url only.
LeContent(i) ==
  LET j == <<"content", i>>
  IN /\ le.jobs[j].at = "next"
     /\ \E u \in le.jobs[j].todo :
          le' = LeRewritten([le EXCEPT !.jobs[j].todo = @ \ {u},
                                       !.rows[u].type = "got",
                                       !.rows[u].titled = TRUE], u)

LeUploaders(s) == {j \in LeRuns(s.site) : j[1] = "upload"}

\* Articles an uploader has read and may still post.
LeHeld(s, j) == {LeFirst(s, u) : u \in s.jobs[j].todo}
                \cup (IF s.jobs[j].item = "" THEN {} ELSE {LeFirst(s, s.jobs[j].item)})

\* uploader.php: the query.
LeUpload(i) ==
  /\ LeMayStart("upload", i)
  /\ \E c \in LeSelect(le, "got") \ {{}} :
       le' = [le EXCEPT
                !.jobs[<<"upload", i>>] = [@ EXCEPT !.at = "next", !.todo = c],
                !.again = @ \cup ({LeFirst(le, u) : u \in c}
                                  \cap UNION {LeHeld(le, j) : j \in LeUploaders(le)})]

\* The next row: an article of one page is posted as it was read, the rows of
\* a longer one are counted.
LeNextRow(i) ==
  LET j == <<"upload", i>>
      b == le.jobs[j]
  IN /\ b.at = "next"
     /\ \E u \in b.todo :
          LET p == le.rows[u].parent
              row == [b EXCEPT !.todo = b.todo \ {u}, !.item = u]
          IN le' = [le EXCEPT !.jobs[j] =
               IF p = "0"
               THEN [row EXCEPT !.parts = {u}, !.at = "post"]
               ELSE [row EXCEPT !.at = "count", !.early = le.rows[p].parent # p,
                                !.read = {v \in LeUrls(le) : le.rows[v].parent = p}]]

\* Faulty: what has been got is enough.
LeSomeGot(read, got) == got # {}

\* mysql_num_rows($r) == mysql_num_rows($rn)
LeAllGot(read, got) == Cardinality(read) = Cardinality(got)

\* The second count, of the rows that are 'got', decides; they are the content.
LeCount(i) ==
  LET j == <<"upload", i>>
      p == le.rows[le.jobs[j].item].parent
      got == {v \in LeOfType(le, "got") : le.rows[v].parent = p}
  IN /\ le.jobs[j].at = "count"
     /\ le' = IF got # {} /\ LeAllGot(le.jobs[j].read, got)
              THEN [le EXCEPT !.jobs[j].at = "post", !.jobs[j].parts = got]
              ELSE [le EXCEPT !.jobs[j] = [LeIdle("next") EXCEPT !.todo = le.jobs[j].todo]]

\* History: a post arrives.
LeArrived(s, j) ==
  LET b == s.jobs[j]
      p == LeFirst(s, b.item)
      part == b.parts # LeArticle(s, p)
  IN [s EXCEPT !.posted = [u \in LeUrls(s) |-> IF u \in b.parts /\ @[u] < 2
                                               THEN @[u] + 1 ELSE @[u]],
               !.torn = IF part /\ b.early THEN @ \cup {p} ELSE @,
               !.odd = IF part /\ ~b.early THEN @ \cup {p} ELSE @]

LeDone(s, j) == [s EXCEPT !.jobs[j] = [LeIdle("next") EXCEPT !.todo = s.jobs[j].todo]]

\* post(): 'ok', or another body, whether the article was stored or not.
LePost(i) ==
  LET j == <<"upload", i>>
  IN /\ le.jobs[j].at = "post"
     /\ \/ le' = [LeArrived(le, j) EXCEPT !.jobs[j].at = "mark"]
        \/ le' = [LeDone(LeArrived(le, j), j) EXCEPT
                    !.again = @ \cup {LeFirst(le, le.jobs[j].item)}]
        \/ le' = LeDone(le, j)

\* update(): every row with the title.
LeUpdate(s, title) ==
  [s EXCEPT !.rows = [u \in LeUrls(s) |->
     IF @[u].titled /\ s.site.title[u] = title
     THEN [@[u] EXCEPT !.type = "sent"] ELSE @[u]]]

LeMark(i) ==
  LET j == <<"upload", i>>
  IN /\ le.jobs[j].at = "mark"
     /\ le' = LeDone(LeUpdate(le, le.site.title[le.jobs[j].item]), j)

LeNext ==
  \/ \E i \in 1 .. le.site.runs["list"] : LeList(i) \/ LeListed(i)
  \/ \E i \in 1 .. le.site.runs["paging"] :
       LeWork("paging", i) \/ LePaginate(i) \/ LeSavePages(i)
  \/ \E i \in 1 .. le.site.runs["content"] : LeWork("content", i) \/ LeContent(i)
  \/ \E i \in 1 .. le.site.runs["upload"] :
       LeUpload(i) \/ LeNextRow(i) \/ LeCount(i) \/ LePost(i) \/ LeMark(i)

\* Property: an article is posted whole, unless its pages were counted while its
\* paging was not saved to the end (save_item() inserts page by page; the two
\* counts of uploader.php are not one).
LeWhole == le.odd = {}

\* Property: a page is posted twice only if two uploaders read its article as
\* 'got', an answer was lost, or a job that had read the page before it was
\* posted wrote it after (the UPDATEs of save_item() ask for the url only).
LeTwice == \A u \in LeUrls(le) : le.posted[u] = 2 => LeFirst(le, u) \in le.again

\* Property: an item that is 'sent' was posted, or another with its title was:
\* another article, or a part of its own (update() goes by the title).
LeSentMeansPosted ==
  \A u \in LeUrls(le) :
    le.rows[u].type = "sent" /\ le.posted[u] = 0 =>
      \E v \in LeUrls(le) :
        /\ le.posted[v] > 0 /\ le.site.title[v] = le.site.title[u]
        /\ LeFirst(le, v) # LeFirst(le, u) \/ LeFirst(le, u) \in le.torn

\* Property: no article is left with a part 'sent' and a part not, which no count
\* ever completes, but for those exceptions.
LeNotStuck ==
  \A p \in LeUrls(le) :
    /\ \E u, v \in LeArticle(le, p) : le.rows[u].type = "sent" /\ le.rows[v].type # "sent"
    => \/ LeFirst(le, p) \in le.torn \cup le.again
       \/ \E v \in LeUrls(le) : /\ LeFirst(le, v) # LeFirst(le, p)
                                /\ le.site.title[v] = le.site.title[p]

LeUploads == LeWhole /\ LeTwice /\ LeSentMeansPosted /\ LeNotStuck
================================================================================
