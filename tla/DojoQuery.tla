------------------------------- MODULE DojoQuery -------------------------------
(***************************************************************************)
(* dojo.query(): the elements of a document that a CSS selector names.  The *)
(* text of a selector is a sequence of tokens; it is answered by XPath or by *)
(* steps through the document, which remember what place a node had among    *)
(* its siblings while the page moves nodes about.                          *)
(***************************************************************************)
EXTENDS Integers, Sequences, FiniteSets, SequencesExt

CONSTANT DqMaxMoves   (* bound: changes to the document                     *)

ASSUME DqAssumption == DqMaxMoves \in Nat

VARIABLE dq
(* dq.kids: the children of each node, in order; dq.xpath: the browser has   *)
(* document.evaluate; dq.ci, dq.cl: __cachedIndex of the nodes and           *)
(* __cachedLength of their parents (0 and -1: none); dq.moves: how many      *)

DqDoc  == 0
DqNull == -1
DqElements == 1 .. 6
DqNodes == {DqDoc} \cup DqElements

DqTag == <<"DIV", "DIV", "P", "P", "SPAN", "P">>
DqId  == <<"", "a", "b", "", "", "x">>
DqClass == <<{}, {"c"}, {}, {"c", "e"}, {"c"}, {}>>
\* The attribute lang: words, and the parts of a word between dashes.
DqLang == <<<<>>, <<>>, <<>>, <<<<"en">>>>, <<<<"en", "us">>>>, <<<<"de">>, <<"en", "uk">>>>>>

DqInit ==
  \E xpath \in BOOLEAN :
    dq = [kids |-> [n \in DqNodes |-> CASE n = 0 -> <<1>> [] n = 1 -> <<2, 3>>
                                        [] n = 2 -> <<4, 5>> [] n = 3 -> <<6>>
                                        [] OTHER -> <<>>],
          xpath |-> xpath, ci |-> [n \in DqNodes |-> 0], cl |-> [n \in DqNodes |-> -1],
          moves |-> 0]

-----------------------------------------------------------------------------
(* The document.                                                           *)

DqIn(s, n)     == \E p \in DqNodes : n \in ToSet(s.kids[p])
DqParent(s, n) == CHOOSE p \in DqNodes : n \in ToSet(s.kids[p])
DqPlace(s, n)  == CHOOSE i \in DOMAIN s.kids[DqParent(s, n)] : s.kids[DqParent(s, n)][i] = n

\* getElementsByTagName("*"): what is below a node, in order.
DqBelow(s, root) ==
  LET below[n \in DqNodes] ==
        IF s.kids[n] = <<>> THEN <<>>
        ELSE FlattenSeq([i \in DOMAIN s.kids[n] |-> <<s.kids[n][i]>> \o below[s.kids[n][i]]])
  IN below[root]

\* _childElements() and _nextSiblings()
DqChildElements(s, n) == s.kids[n]
DqNextSiblings(s, n, single) ==
  IF n = DqDoc \/ ~DqIn(s, n) THEN <<>>
  ELSE LET L == s.kids[DqParent(s, n)]  i == DqPlace(s, n)
       IN SubSeq(L, i + 1, IF single /\ i < Len(L) THEN i + 1 ELSE Len(L))
DqById(s, id) ==
  LET found == {n \in DqElements : DqId[n] = id /\ DqIn(s, n)}
  IN IF found = {} THEN DqNull ELSE CHOOSE n \in found : TRUE

-----------------------------------------------------------------------------
(* getQueryParts(): a combinator is a part of its own, and one at the end      *)
(* applies to any element.                                                 *)

DqPart == [oper |-> "", tag |-> "", id |-> "", classes |-> {}, pseudos |-> <<>>, attrs |-> <<>>]
DqEndPart(p) == IF p.oper = "" /\ p.tag = "" THEN [p EXCEPT !.tag = "*"] ELSE p

DqToken(p, t) ==
  CASE t[1] = "tag"  -> [p EXCEPT !.tag = t[2]]
    [] t[1] = "oper" -> [p EXCEPT !.oper = t[2]]
    [] t[1] = "#"    -> [p EXCEPT !.id = t[2]]
    [] t[1] = "."    -> [p EXCEPT !.classes = @ \cup {t[2]}]
    [] t[1] = ":"    -> [p EXCEPT !.pseudos = Append(@, t[2])]
    [] t[1] = "["    -> [p EXCEPT !.attrs = Append(@, t[2])]

DqGetQueryParts(text) ==
  LET whole == IF Last(text)[1] = "oper" THEN text \o <<<<" ">>, <<"tag", "*">>>> ELSE text
      step(acc, t) == IF t[1] = " " THEN [parts |-> Append(acc.parts, DqEndPart(acc.cur)),
                                          cur |-> DqPart]
                      ELSE [acc EXCEPT !.cur = DqToken(@, t)]
  IN FoldLeft(step, [parts |-> <<>>, cur |-> DqPart], Append(whole, <<" ">>)).parts

DqHasLoops(p) == p.pseudos # <<>> \/ p.attrs # <<>> \/ p.classes # {}

-----------------------------------------------------------------------------
(* Filters.                                                                *)

\* attrs: [lang], [lang=v], [lang~=v] and [lang|=v].  "|=" compares the value with
\* a space before it, so that one that is the same does not match.
DqAttr(n, a) ==
  LET v == DqLang[n]
  IN CASE a[1] = "has" -> v # <<>>
       [] a[1] = "="   -> v = <<<<a[2]>>>>
       [] a[1] = "~="  -> <<a[2]>> \in ToSet(v)
       [] a[1] = "|="  -> v # <<>> /\ v[1][1] = a[2] /\ Len(v[1]) > 1

\* xPathAttrs: there "|=" looks at every word.
DqXPathAttr(n, a) ==
  IF a[1] = "|=" THEN \E i \in DOMAIN DqLang[n] : LET w == DqLang[n][i]
                                                 IN w[1] = a[2] /\ Len(w) > 1
  ELSE DqAttr(n, a)

\* nth-child(an+b): the remainder, and the bounds it holds within.
DqRem(i, a) == i % a
DqNth(a, b, i) ==
  CASE a > 0 -> LET lb == IF b >= a THEN b - DqRem(b, a) ELSE 0
                IN i >= lb /\ DqRem(i, a) = DqRem(b, a)
    [] a < 0 -> LET ub == IF b > 0 THEN b ELSE -1
                IN (ub < 0 \/ i <= ub) /\ DqRem(i, -a) = DqRem(b, -a)
    [] a = 0 -> i = b

\* Faulty: a node keeps the first index it got.
DqReindexOnce(s, n, p) ==
  IF s.ci[n] # 0 THEN s
  ELSE [s EXCEPT !.cl[p] = Len(s.kids[p]),
                 !.ci = [m \in DqNodes |-> IF m \in ToSet(s.kids[p])
                                             THEN DqPlace(s, m) ELSE @[m]]]

\* getNodeIndex(): the siblings are counted when their number has changed or the
\* node has no index yet.
DqReindex(s, n, p) ==
  IF (s.cl[p] # -1 /\ s.cl[p] # Len(s.kids[p])) \/ s.ci[n] = 0
    THEN [s EXCEPT !.cl[p] = Len(s.kids[p]),
                   !.ci = [m \in DqNodes |-> IF m \in ToSet(s.kids[p])
                                               THEN DqPlace(s, m) ELSE @[m]]]
    ELSE s

DqTagId(n, p) == (p.tag = "*" \/ DqTag[n] = p.tag) /\ (p.id = "" \/ DqId[n] = p.id)
DqClasses(n, p) == p.classes \subseteq DqClass[n]

\* pseudos, all but nth-child, whose outcome depends on the document alone.
DqPseudo(s, n, x) ==
  LET L == s.kids[DqParent(s, n)]
  IN CASE x[1] = "first-child" -> Head(L) = n
       [] x[1] = "last-child"  -> Last(L) = n
       [] x[1] = "empty"       -> s.kids[n] = <<>>
       [] x[1] = "not"         -> ~(DqTagId(n, x[2]) /\ DqClasses(n, x[2]))

\* getSimpleFilterFunc(): classes, pseudos (one nth-child at most) and attributes; the
\* first that fails ends it, and then an nth-child behind it counts nothing.
DqIsNth(x) == x[1] = "nth-child"
DqPlain(s, n, x) == ~DqIsNth(x) => DqPseudo(s, n, x)
DqCounts(s, n, p) ==
  /\ DqClasses(n, p)
  /\ \E i \in DOMAIN p.pseudos :
       DqIsNth(p.pseudos[i]) /\ \A j \in 1 .. i : DqPlain(s, n, p.pseudos[j])
DqFilterWith(u, n, p) ==
  [s |-> u,
   ok |-> /\ DqClasses(n, p)
          /\ \A i \in DOMAIN p.pseudos :
               LET x == p.pseudos[i]
               IN DqPlain(u, n, x) /\ (DqIsNth(x) => DqNth(x[2][1], x[2][2], u.ci[n]))
          /\ \A i \in DOMAIN p.attrs : DqAttr(n, p.attrs[i])]
DqSimpleFilter(s, n, p) ==
  DqFilterWith(IF DqCounts(s, n, p) THEN DqReindex(s, n, DqParent(s, n)) ELSE s, n, p)

\* What of some nodes passes, with the cache as it is after that.
DqKept(r, n, f) == [r EXCEPT !.s = f.s, !.out = IF f.ok THEN Append(@, n) ELSE @]
DqNone(s) == [s |-> s, out |-> <<>>, threw |-> FALSE]
DqFilter(s, L, p) ==
  FoldLeft(LAMBDA r, n : DqKept(r, n, DqSimpleFilter(r.s, n, p)), DqNone(s), L)

-----------------------------------------------------------------------------
(* Steps through the document.                                             *)

\* getElementsFunc(): an id alone is looked up in the whole document; what is not
\* there makes a list of null, or throws where its tag is looked at; under another
\* tag it makes no list at all.
DqFound(s, n, p) ==
  CASE p.tag = "*" -> [DqNone(s) EXCEPT !.out = <<n>>]
    [] p.tag # "*" /\ n # DqNull /\ DqTag[n] = p.tag -> [DqNone(s) EXCEPT !.out = <<n>>]
    [] OTHER -> [DqNone(s) EXCEPT !.threw = TRUE]
DqGetElements(s, n, p) ==
  IF p.oper # "" THEN DqNone(s)
  ELSE IF p.id # "" /\ ~DqHasLoops(p) THEN DqFound(s, DqById(s, p.id), p)
  ELSE DqFilter(s, SelectSeq(DqBelow(s, n), LAMBDA m : p.tag = "*" \/ DqTag[m] = p.tag), p)

\* Below an element: the children or siblings a combinator names, or anything.
DqStep(s, n, oper, p) ==
  IF oper = "" THEN DqGetElements(s, n, p)
  ELSE DqFilter(s, SelectSeq(CASE oper = ">" -> DqChildElements(s, n)
                               [] oper = "+" -> DqNextSiblings(s, n, TRUE)
                               [] oper = "~" -> DqNextSiblings(s, n, FALSE),
                             LAMBDA m : DqTagId(m, p)), p)

\* _filterDown(), for all elements of a list; null ends the list.
DqUntilNull(L) ==
  LET nulls == {i \in DOMAIN L : L[i] = DqNull}
  IN IF nulls = {} THEN L ELSE SubSeq(L, 1, (CHOOSE i \in nulls : \A j \in nulls : i <= j) - 1)
DqPlus(r, t) == [s |-> t.s, out |-> r.out \o t.out, threw |-> r.threw \/ t.threw]
DqFilterDown(r, oper, p) ==
  FoldLeft(LAMBDA acc, n : DqPlus(acc, DqStep(acc.s, n, oper, p)),
           [r EXCEPT !.out = <<>>], DqUntilNull(r.out))

\* The combinator before the i-th part, and the parts that are none.
DqOperBefore(parts, i) == IF i > 1 THEN parts[i - 1].oper ELSE ""
DqCompounds(parts) == {i \in DOMAIN parts : parts[i].oper = ""}

\* getStepQueryFunc(): the first list is gone through from its end; a query that begins
\* with "+" or "~" begins with nothing.
DqCandidates(s, root, p) ==
  IF p.oper = ">" THEN [DqNone(s) EXCEPT !.out = <<root>>] ELSE DqGetElements(s, root, p)
DqStepQuery(s, root, parts) ==
  LET upto[i \in 1 .. Len(parts)] ==
        IF i = 1 THEN [DqCandidates(s, root, parts[1]) EXCEPT !.out = Reverse(@)]
        ELSE IF i \notin DqCompounds(parts) THEN upto[i - 1]
        ELSE DqFilterDown(upto[i - 1], DqOperBefore(parts, i), parts[i])
  IN IF Len(parts) = 1 THEN DqCandidates(s, root, parts[1]) ELSE upto[Len(parts)]

-----------------------------------------------------------------------------
(* XPath, and what a selector means: both from set to set.                  *)

\* sat: the elements that satisfy each part.
DqAnswer(s, root, parts, sat) ==
  LET from(N, oper) ==
        CASE oper = ""  -> UNION {ToSet(DqBelow(s, n)) : n \in N}
          [] oper = ">" -> UNION {ToSet(s.kids[n]) : n \in N}
          [] oper = "+" -> UNION {ToSet(DqNextSiblings(s, n, TRUE)) : n \in N}
          [] oper = "~" -> UNION {ToSet(DqNextSiblings(s, n, FALSE)) : n \in N}
      upto[i \in 0 .. Len(parts)] ==
        IF i = 0 THEN {root}
        ELSE IF i \notin DqCompounds(parts) THEN upto[i - 1]
        ELSE from(upto[i - 1], DqOperBefore(parts, i)) \cap sat[i]
  IN upto[Len(parts)]

\* buildPath() and getXPathFunc(), which returns nodes in the order of the document.
DqXPath(s, root, parts) ==
  LET sat == [i \in DOMAIN parts |->
                {n \in DqElements : /\ DqTagId(n, parts[i]) /\ DqClasses(n, parts[i])
                                    /\ \A k \in DOMAIN parts[i].attrs :
                                         DqXPathAttr(n, parts[i].attrs[k])}]
      got == DqAnswer(s, root, parts, sat)
  IN [s |-> s, out |-> SelectSeq(DqBelow(s, DqDoc), LAMBDA n : n \in got), threw |-> FALSE]

\* _getQueryFunc: when the query goes to XPath.
DqHas(text, k, v) == \E i \in DOMAIN text : text[i][1] = k /\ (v # "" => text[i][2] = v)
DqWords(text) == Len(SelectSeq(text, LAMBDA t : t[1] = " ")) + 1
DqGoesToXPath(s, text) ==
  /\ s.xpath /\ ~DqHas(text, ":", "") /\ ~DqHas(text, "oper", "+")
  /\ \/ DqWords(text) > 2 /\ ~DqHas(text, "oper", ">")
     \/ DqWords(text) > 3
     \/ DqHas(text, "[", "")
     \/ DqWords(text) = 1 /\ DqHas(text, ".", "")

DqQueryFunc(s, root, q) ==
  IF DqGoesToXPath(s, q.text) THEN DqXPath(s, root, q.parts) ELSE DqStepQuery(s, root, q.parts)

\* _zip() keeps the first of each node.
DqZip(L) == LET firsts == SelectSeq([i \in 1 .. Len(L) |-> i],
                                    LAMBDA i : \A j \in 1 .. i - 1 : L[j] # L[i])
            IN [i \in DOMAIN firsts |-> L[firsts[i]]]

\* The parts between commas, one after another; _zip() throws when the first of
\* several is null.
DqZipped(r) ==
  IF r.threw \/ (Len(r.out) > 1 /\ Head(r.out) = DqNull)
    THEN [r EXCEPT !.threw = TRUE, !.out = <<>>]
    ELSE [r EXCEPT !.out = DqZip(DqUntilNull(@))]
DqRun(s, root, queries) ==
  DqZipped(FoldLeft(LAMBDA acc, q : DqPlus(acc, DqQueryFunc(acc.s, root, q)), DqNone(s), queries))

-----------------------------------------------------------------------------
(* The page: queries, and changes to the document.                          *)

DqT(t)    == <<"tag", t>>
DqOp(o)   == <<<<" ">>, <<"oper", o>>, <<" ">>>>
DqPs(x)   == <<":", x>>
DqNthc(a, b) == DqPs(<<"nth-child", <<a, b>>>>)

DqTexts ==
  <<<<<<DqT("P")>>>>, <<<<<<".", "c">>>>>>, <<<<DqT("DIV"), <<" ">>, DqT("P")>>>>,
   <<<<DqT("DIV"), <<" ">>, DqT("DIV"), <<" ">>, <<".", "c">>>>>>,
   <<<<DqT("DIV")>> \o DqOp(">") \o <<DqT("P")>>>>, <<<<<<"oper", ">">>, <<" ">>, DqT("*")>>>>,
   <<<<DqT("DIV")>> \o DqOp("+") \o <<DqT("*"), DqPs(<<"empty", 0>>)>>>>,
   <<<<<<"#", "a">>>> \o DqOp("~") \o <<DqT("P")>>>>,
   <<<<DqT("DIV")>> \o DqOp(">") \o <<DqT("DIV"), <<" ">>, <<".", "e">>>>>>,
   <<<<DqT("P"), <<" ">>, <<"oper", ">">>>>>>,
   <<<<<<"#", "x">>>>>>, <<<<DqT("DIV"), <<" ">>, <<"#", "x">>>>>>, <<<<DqT("P"), <<"#", "x">>>>>>,
   <<<<DqT("DIV"), <<" ">>, DqT("DIV"), <<" ">>, <<"#", "x">>>>>>,
   <<<<<<"#", "x">>>>, <<DqT("SPAN")>>>>, <<<<<<".", "c">>>>, <<DqT("P")>>>>,
   <<<<DqT("*"), <<"[", <<"has">>>>>>>>, <<<<DqT("*"), <<"[", <<"|=", "en">>>>>>>>,
   <<<<DqT("P"), <<"[", <<"=", "en">>>>, DqPs(<<"first-child", 0>>)>>>>,
   <<<<DqT("*"), <<"[", <<"~=", "de">>>>, DqPs(<<"last-child", 0>>)>>>>,
   <<<<DqT("P"), DqPs(<<"not", DqEndPart([DqPart EXCEPT !.classes = {"c"}])>>)>>>>,
   <<<<DqT("*"), DqNthc(2, 1)>>>>, <<<<DqT("*"), DqNthc(1, 2)>>>>, <<<<DqT("P"), DqNthc(-1, 1)>>>>,
   <<<<DqT("DIV")>> \o DqOp(">") \o <<<<".", "c">>, DqNthc(0, 2)>>>>>>

DqQueries ==
  [t \in DOMAIN DqTexts |->
     [i \in DOMAIN DqTexts[t] |-> [text  |-> DqTexts[t][i],
                                   parts |-> DqGetQueryParts(DqTexts[t][i])]]]

\* A query with nth-child fills the cache; others leave all as it is.
DqAsk ==
  \E t \in DOMAIN DqQueries, root \in {DqDoc, 2} : dq' = DqRun(dq, root, DqQueries[t]).s

DqChange(s) == /\ dq.moves < DqMaxMoves
               /\ dq' = [s EXCEPT !.moves = @ + 1]

\* Two siblings change places; a node is taken out, and put in somewhere.
DqSwap == \E p \in {1, 2} : Len(dq.kids[p]) > 1 /\ DqChange([dq EXCEPT !.kids[p] = Reverse(@)])
DqTake == \E n \in 3 .. 6 :
            /\ DqIn(dq, n)
            /\ DqChange([dq EXCEPT !.kids[DqParent(dq, n)] = SelectSeq(@, LAMBDA m : m # n)])
DqPut  == \E n \in 3 .. 6, p \in {1, 2} :
            /\ ~DqIn(dq, n)
            /\ DqChange([dq EXCEPT !.kids[p] = <<n>> \o @])

DqNext == DqAsk \/ DqSwap \/ DqTake \/ DqPut

-----------------------------------------------------------------------------
(* Properties.                                                             *)

\* What CSS says of one element.
DqCssNth(a, b, i) == \E k \in 0 .. 9 : i = a * k + b
DqCss(s, n, p) ==
  /\ DqTagId(n, p) /\ DqClasses(n, p)
  /\ \A i \in DOMAIN p.pseudos :
       LET x == p.pseudos[i]
       IN IF x[1] = "nth-child" THEN DqCssNth(x[2][1], x[2][2], DqPlace(s, n))
          ELSE DqPseudo(s, n, x)
  /\ \A i \in DOMAIN p.attrs :
       LET a == p.attrs[i]  v == DqLang[n]
       IN IF a[1] = "|=" THEN Len(v) = 1 /\ v[1][1] = a[2] ELSE DqAttr(n, a)

DqMeans(s, root, queries) ==
  UNION {LET parts == queries[i].parts
         IN DqAnswer(s, root, parts,
                     [k \in DOMAIN parts |-> {n \in DqElements :
                                                DqIn(s, n) /\ DqCss(s, n, parts[k])}])
         : i \in DOMAIN queries}

\* A node will be asked for a place the cache has for it, and that is not its own.
DqStale(s) ==
  \E n \in DqElements :
    /\ DqIn(s, n) /\ s.ci[n] \notin {0, DqPlace(s, n)}
    /\ s.cl[DqParent(s, n)] \in {-1, Len(s.kids[DqParent(s, n)])}

DqAnyToken(queries, is(_)) ==
  \E i \in DOMAIN queries : \E k \in DOMAIN queries[i].text : is(queries[i].text[k])

\* What is asked of an answer.
DqRightly(queries, r, means) ==
  LET ids   == DqAnyToken(queries, LAMBDA t : t[1] = "#")
      nth   == DqAnyToken(queries, LAMBDA t : t[1] = ":" /\ DqIsNth(t[2]))
      dash  == DqAnyToken(queries, LAMBDA t : t[1] = "[" /\ t[2][1] = "|=")
  IN /\ r.threw => ids
     /\ Cardinality(ToSet(r.out)) = Len(r.out)
     /\ ~(nth /\ DqStale(dq)) /\ ~dash /\ ~r.threw =>
          IF ids THEN means \subseteq ToSet(r.out) ELSE means = ToSet(r.out)

\* A query gets what its selector means, each node once, whichever way it is
\* answered: even after nodes were moved, unless a node kept a place in the cache
\* that is another's now.  By steps, an id is found outside the root and outside
\* what stands before it, and one that is not there, or not under its tag, may throw;
\* "|=" misses the value itself, and by XPath it finds it in any word.
DqRight ==
  \A t \in DOMAIN DqQueries, root \in {DqDoc, 2} :
    DqRightly(DqQueries[t], DqRun(dq, root, DqQueries[t]), DqMeans(dq, root, DqQueries[t]))
================================================================================
