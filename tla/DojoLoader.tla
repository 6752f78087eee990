------------------------------ MODULE DojoLoader ------------------------------
(***************************************************************************)
(* The loader of dojo.js: dojo.require() fetches a file by a synchronous    *)
(* request and evaluates it, dojo.addOnLoad() keeps handlers for the load   *)
(* event.  A script is a sequence of calls; scripts run on a stack, and an   *)
(* exception leaves all of them up to the nearest that catches it.          *)
(***************************************************************************)
EXTENDS Integers, Sequences, FiniteSets, SequencesExt, Functions, TLC

CONSTANTS LdMaxFails,    (* bound: requests that fail                        *)
          LdMaxScripts   (* bound: scripts of the page and unload events     *)

ASSUME LdAssumption == LdMaxFails \in Nat /\ LdMaxScripts \in Nat

VARIABLE ld
(* ld.code: what each script does; ld.ie: setTimeout is an object;           *)
(* ld.stack: the scripts that run, the first on top; ld.paths:               *)
(* _modulePrefixes; ld.modules: _loadedModules; ld.urls: _loadedUrls;        *)
(* ld.loaders, ld.unloaders: handlers kept; ld.postLoad, ld.notifying:       *)
(* _postLoad and _loadNotifying; ld.init: _loadInit() has run; ld.timers:    *)
(* timers that will call loaded(); ld.scripts, ld.fails: how many so far;    *)
(* ld.evals: history, the addresses evaluated (with multiplicity);           *)
(* ld.added, ld.called: history, handlers added and called;                  *)
(* ld.threw: history, an exception left a handler                            *)

-----------------------------------------------------------------------------
(* Addresses: sequences of segments.                                       *)

LdBaseUrl == <<"dojo">>

\* _getModuleSymbols(): the longest prefix that has a path of its own; a module with
\* no prefix lies beside dojo.
LdSymbols(paths, name) ==
  LET hits == {i \in DOMAIN name : LET p == SubSeq(name, 1, i)
                                   IN p \in DOMAIN paths /\ paths[p] # p}
      i    == CHOOSE k \in hits : \A j \in hits : j <= k
  IN IF hits # {} THEN paths[SubSeq(name, 1, i)] \o SubSeq(name, i + 1, Len(name))
     ELSE IF <<name[1]>> \in DOMAIN paths THEN name ELSE <<"..">> \o name

LdUri(paths, name) == LdBaseUrl \o LdSymbols(paths, name)

\* _Url(): "." and ".." are taken out from left to right, j stepping back.
LdSegment(u) ==
  LET j == u.j  segs == u.segs
  IN CASE j > Len(segs) -> u
       [] segs[j] = "." /\ j < Len(segs) -> [u EXCEPT !.segs = RemoveAt(segs, j)]
       [] segs[j] = ".." /\ j > 1 /\ segs[IF j > 1 THEN j - 1 ELSE 1] # ".." /\ j < Len(segs) ->
            [segs |-> RemoveAt(RemoveAt(segs, j), j - 1), j |-> j - 1]
       [] OTHER -> [u EXCEPT !.j = j + 1]
LdUrl(uri) ==
  FoldLeft(LAMBDA u, i : LdSegment(u), [segs |-> uri, j |-> 1],
           [i \in 1 .. 2 * Len(uri) |-> i]).segs

-----------------------------------------------------------------------------
(* Scripts.  A call is <<operation, argument>>.                            *)

LdApp  == <<"app">>
LdB    == <<"dojo", "b">>
LdLibB == <<"lib", "b">>   (* the same file, if the prefix is registered       *)

LdCodes ==
  {(LdApp :> <<<<"provide", LdApp>>, <<"require", LdB>>, <<"addOnLoad", <<"h1">>>>>>)
     @@ (LdB :> b) @@ (<<"h1">> :> h1) @@ (<<"h2">> :> h2) @@ (<<"h3">> :> <<>>) @@ (<<"bye">> :> <<>>)
     @@ (<<"page">> :> page)
     @@ (<<"later">> :> <<<<"addOnLoad", <<"h3">>>>, <<"quietly", LdLibB>>, <<"addOnUnload", <<"h3">>>>>>) :
     b    \in {<<<<"provide", LdB>>>>,
               <<<<"provide", LdB>>, <<"require", LdApp>>>>,
               <<<<"provide", LdB>>, <<"throw", <<>>>>>>},
     h1   \in {<<>>, <<<<"throw", <<>>>>>>},
     h2   \in {<<<<"addOnLoad", <<"h3">>>>>>, <<<<"require", LdApp>>, <<"addOnLoad", <<"h3">>>>>>},
     page \in {<<<<"register", <<"lib">>>>, <<"addOnLoad", <<"h2">>>>, <<"addOnUnload", <<"h1">>>>,
                 <<"addOnUnload", <<"bye">>>>, <<"require", LdApp>>, <<"addOnLoad", <<"h3">>>>>>,
               <<<<"addOnLoad", <<"h1">>>>, <<"quietly", LdApp>>, <<"addOnLoad", <<"h2">>>>>>}}

LdFrame(kind, name, rest) == [kind |-> kind, name |-> name, rest |-> rest, quiet |-> FALSE]

LdInit ==
  \E code \in LdCodes, ie \in BOOLEAN :
    ld = [code |-> code, ie |-> ie, stack |-> <<LdFrame("page", <<"page">>, code[<<"page">>])>>,
          paths |-> (<<"dojo">> :> <<".">>) @@ (<<"tests">> :> <<"tests">>),
          modules |-> {}, urls |-> {}, loaders |-> <<>>, unloaders |-> <<>>,
          postLoad |-> FALSE, notifying |-> FALSE, init |-> FALSE, timers |-> 0,
          scripts |-> 0, fails |-> 0, evals |-> <<>>, added |-> <<>>,
          called |-> <<>>, threw |-> FALSE]

LdPush(s, frame) == [s EXCEPT !.stack = <<frame>> \o @]
LdPop(s)         == [s EXCEPT !.stack = Tail(@)]
LdNextCall(s)    == [s EXCEPT !.stack[1].rest = Tail(@)]
LdTop(s)         == Head(s.stack)

\* An exception: _loadUriAndCheck() catches it and require() throws another one, until
\* a file that was required without the module check, or no script, is left.
LdThrow(s) ==
  LET files == {i \in DOMAIN s.stack : s.stack[i].quiet}
      n     == IF files = {} THEN Len(s.stack) ELSE CHOOSE i \in files : \A j \in files : i <= j
  IN [s EXCEPT !.stack = SubSeq(@, n + 1, Len(@)),
               !.threw = @ \/ \E i \in 1 .. n : s.stack[i].kind = "loaded"]

\* Faulty: the handlers that are called are kept.
LdLoadedAgain(s) ==
  LdPush([s EXCEPT !.notifying = TRUE, !.postLoad = TRUE],
         LdFrame("loaded", <<>>, s.loaders))

\* loaded(): the handlers kept so far will be called one by one.
LdLoaded(s) ==
  LdPush([s EXCEPT !.notifying = TRUE, !.postLoad = TRUE, !.loaders = <<>>],
         LdFrame("loaded", <<>>, s.loaders))
LdCallLoaded(s) == IF s.ie THEN [s EXCEPT !.timers = @ + 1] ELSE LdLoaded(s)

LdAddOnLoad(s, h) ==
  LET t == [s EXCEPT !.loaders = Append(@, h), !.added = Append(@, h)]
  IN IF t.postLoad /\ ~t.notifying THEN LdCallLoaded(t) ELSE t

\* require() gets what the file provided, or throws.
LdCheck(s, name, quiet) ==
  IF quiet \/ name \in s.modules THEN s ELSE LdThrow(s)

\* _getText(): there is no such file, or the request fails, or not.
LdFound(uri) == LdUrl(uri) \in {LdApp, LdB}

LdRequire(s, name, quiet, fetched) ==
  LET uri == LdUri(s.paths, name)
      t   == LdNextCall(s)
  IN CASE name \in s.modules -> t
       [] name \notin s.modules /\ uri \in s.urls -> LdCheck(t, name, quiet)
       [] name \notin s.modules /\ uri \notin s.urls /\ ~(fetched /\ LdFound(uri)) ->
            LET u == [t EXCEPT !.fails = @ + 1] IN IF quiet THEN u ELSE LdThrow(u)
       [] OTHER ->
            LdPush([t EXCEPT !.urls = @ \cup {uri}, !.evals = Append(@, LdUrl(uri))],
                   [LdFrame("file", name, s.code[LdUrl(uri)]) EXCEPT !.quiet = quiet])

-----------------------------------------------------------------------------
(* Steps of the script on top of the stack.                                *)

LdCalls(ops) == /\ ld.stack # <<>> /\ LdTop(ld).kind \in {"page", "file", "handler"}
                /\ LdTop(ld).rest # <<>> /\ Head(LdTop(ld).rest)[1] \in ops
LdArg == Head(LdTop(ld).rest)[2]

LdStepProvide ==
  /\ LdCalls({"provide"})
  /\ ld' = [LdNextCall(ld) EXCEPT !.modules = @ \cup {LdArg}]

LdStepRequire ==
  /\ LdCalls({"require", "quietly"})
  /\ \E fetched \in BOOLEAN :
       /\ fetched \/ ld.fails < LdMaxFails
       /\ ld' = LdRequire(ld, LdArg, Head(LdTop(ld).rest)[1] = "quietly", fetched)

LdStepRegister ==
  /\ LdCalls({"register"})
  /\ ld' = [LdNextCall(ld) EXCEPT !.paths = @ @@ (LdArg :> <<"..", "dojo">>)]

LdStepThrow == LdCalls({"throw"}) /\ ld' = LdThrow(ld)

LdStepAddOnLoad == LdCalls({"addOnLoad"}) /\ ld' = LdAddOnLoad(LdNextCall(ld), LdArg)

LdStepAddOnUnload ==
  /\ LdCalls({"addOnUnload"})
  /\ ld' = [LdNextCall(ld) EXCEPT !.unloaders = Append(@, LdArg)]

\* A script ends; that of a file goes back to require().
LdStepEnd ==
  /\ ld.stack # <<>> /\ LdTop(ld).kind \in {"page", "file", "handler"} /\ LdTop(ld).rest = <<>>
  /\ ld' = IF LdTop(ld).kind = "file"
             THEN LdCheck(LdPop(ld), LdTop(ld).name, LdTop(ld).quiet)
             ELSE LdPop(ld)

\* loaded() calls the next handler, or looks for those that came meanwhile.
LdStepLoaded ==
  /\ ld.stack # <<>> /\ LdTop(ld).kind = "loaded"
  /\ LET f == LdTop(ld)
     IN ld' = IF f.rest # <<>>
                THEN LdPush([LdNextCall(ld) EXCEPT !.called = Append(@, Head(f.rest)),
                                                   !.stack[1].name = <<"some">>],
                            LdFrame("handler", Head(f.rest), ld.code[Head(f.rest)]))
              ELSE LET done == [LdPop(ld) EXCEPT !.notifying = FALSE]
                   IN IF f.name = <<"some">> THEN LdCallLoaded(done) ELSE done

\* unloaded() takes the last handler first.
LdStepUnloaded ==
  /\ ld.stack # <<>> /\ LdTop(ld).kind = "unloaded"
  /\ ld' = IF ld.unloaders = <<>> THEN LdPop(ld)
           ELSE LET h == Last(ld.unloaders)
                IN LdPush([ld EXCEPT !.unloaders = Front(@)],
                          LdFrame("handler", h, ld.code[h]))

\* The load event, however the browser tells of it: only the first counts.
LdEvent ==
  /\ ld.stack = <<>> /\ ~ld.init
  /\ ld' = LET t == [ld EXCEPT !.init = TRUE] IN IF t.postLoad THEN t ELSE LdCallLoaded(t)

LdTimer ==
  /\ ld.stack = <<>> /\ ld.timers > 0
  /\ ld' = LdLoaded([ld EXCEPT !.timers = @ - 1])

\* Another script of the page; a beforeunload event, after which the page may stay.
LdScript ==
  /\ ld.stack = <<>> /\ ld.scripts < LdMaxScripts
  /\ ld' = LdPush([ld EXCEPT !.scripts = @ + 1], LdFrame("page", <<"later">>, ld.code[<<"later">>]))
LdBeforeUnload ==
  /\ ld.stack = <<>> /\ ld.init /\ ld.scripts < LdMaxScripts
  /\ ld' = LdPush([ld EXCEPT !.scripts = @ + 1], LdFrame("unloaded", <<>>, <<>>))

LdNext ==
  \/ LdStepProvide \/ LdStepRequire \/ LdStepRegister \/ LdStepThrow \/ LdStepAddOnLoad
  \/ LdStepAddOnUnload \/ LdStepEnd \/ LdStepLoaded \/ LdStepUnloaded
  \/ LdEvent \/ LdTimer \/ LdScript \/ LdBeforeUnload

-----------------------------------------------------------------------------
(* Properties.                                                             *)

\* Handlers are called in the order they were added, each as often as it was added
\* and not before the load event; when nothing runs and the event has come, none
\* is left.  After one of them threw, those behind it are lost, and those added later
\* are kept for ever, as _loadNotifying stays set (unless a timer calls loaded() again,
\* where setTimeout is an object).
LdHandlers ==
  /\ ~ld.threw => IsPrefix(ld.called, ld.added)
  /\ ld.called # <<>> => ld.init
  /\ ld.stack = <<>> /\ ld.init /\ ld.timers = 0 =>
       IF ld.threw THEN ld.loaders # <<>> => ld.notifying
       ELSE ld.called = ld.added /\ ~ld.notifying

\* A file is evaluated once for each address by which it is asked for, and not
\* again after it threw or while it is evaluated, whichever file asks.
LdModules ==
  /\ Len(SelectSeq(ld.evals, LAMBDA u : u = LdUrl(LdUri(ld.paths, LdB))))
       <= Cardinality({LdB, LdLibB})
  /\ Len(SelectSeq(ld.evals, LAMBDA u : u = LdUrl(LdUri(ld.paths, LdApp)))) <= 1

\* The address of a file has no "." and no ".." behind a name, and is the one the
\* usual reading of them from left to right gives.
LdReference(uri) ==
  FoldLeft(LAMBDA acc, x : CASE x = "." -> acc
                             [] x = ".." /\ acc # <<>> -> Front(acc)
                             [] OTHER -> Append(acc, x), <<>>, uri)
LdAddresses ==
  \A m \in {LdApp, LdB, LdLibB} : LdUrl(LdUri(ld.paths, m)) = LdReference(LdUri(ld.paths, m))

LdSound == LdHandlers /\ LdModules /\ LdAddresses
================================================================================
