----------------------------- MODULE DroprServer -----------------------------
(***************************************************************************)
(* The server half of dropr: upload requests are handled concurrently, one *)
(* PHP process each (dropr_Server_Transport_HttpUpload::handle), and move  *)
(* the messages they carry into a spool directory.  A consumer takes them  *)
(* from there, works on them and marks them processed.  Handlers and       *)
(* consumer share nothing but the two directories, without a lock.         *)
(***************************************************************************)
EXTENDS Integers, FiniteSets

CONSTANTS
  Ids,           (* message ids; a client repeats the id when it sends again *)
  Precedes(_, _),(* order in which scandir() lists two of them              *)
  Handlers,      (* PHP processes the web server runs at a time             *)
  Limits,        (* what consumers pass to getMessages(); 0 is no limit     *)
  MaxRequests,   (* bound: requests that reach the server                   *)
  MaxCrashes     (* bound: how often the consumer dies                      *)

ASSUME ServerAssumption ==
  /\ Limits \subseteq Nat /\ MaxRequests \in Nat /\ MaxCrashes \in Nat
  /\ \A i, j \in Ids : i = j \/ Precedes(i, j) \/ Precedes(j, i)

VARIABLES
  spool,      (* proc/: messages to be processed                             *)
  done,       (* done/: processed messages                                   *)
  hpc,        (* where each handler is                                       *)
  hreq,       (* the messages of its request                                 *)
  hleft,      (* those it has not put yet                                    *)
  hcur,       (* the one put() is at                                         *)
  hok,        (* those reported inqueue                                      *)
  conpc,      (* where the consumer is                                       *)
  todo,       (* the messages it got and has not marked yet                  *)
  limit,      (* the limit it was written with                               *)
  requests,   (* history: how many requests came in                          *)
  crashes,    (* history: how often the consumer died                        *)
  got,        (* history: how often a message came into proc/                *)
  processed,  (* history: how often the consumer worked on it                *)
  overlap     (* history: messages that two requests carried at a time       *)

handler  == <<hpc, hreq, hleft, hcur, hok>>
consumer == <<conpc, todo, limit, crashes, processed>>
svars    == <<spool, done, handler, consumer, requests, got, overlap>>

NoId == <<>>

SInit ==
  /\ spool = {} /\ done = {}
  /\ hpc = [h \in Handlers |-> "idle"]
  /\ hreq = [h \in Handlers |-> {}]
  /\ hleft = [h \in Handlers |-> {}]
  /\ hcur = [h \in Handlers |-> NoId]
  /\ hok = [h \in Handlers |-> {}]
  /\ conpc = "idle" /\ todo = {} /\ limit \in Limits
  /\ requests = 0 /\ crashes = 0
  /\ got = [i \in Ids |-> 0] /\ processed = [i \in Ids |-> 0]
  /\ overlap = {}

-----------------------------------------------------------------------------
(* A request.                                                              *)

Begin(h, S) ==
  /\ hpc[h] = "idle" /\ S # {}
  /\ requests < MaxRequests /\ requests' = requests + 1
  /\ hpc' = [hpc EXCEPT ![h] = "next"]
  /\ hreq' = [hreq EXCEPT ![h] = S]
  /\ hleft' = [hleft EXCEPT ![h] = S]
  /\ hok' = [hok EXCEPT ![h] = {}]
  /\ overlap' = overlap \cup (S \cap UNION {hreq[g] : g \in Handlers})
  /\ UNCHANGED <<spool, done, hcur, consumer, got>>

\* The handler is through with message i and goes on with the next one.
Through(h, i, queued) ==
  /\ hpc' = [hpc EXCEPT ![h] = "next"]
  /\ hleft' = [hleft EXCEPT ![h] = @ \ {i}]
  /\ hcur' = [hcur EXCEPT ![h] = NoId]
  /\ hok' = [hok EXCEPT ![h] = IF queued THEN @ \cup {i} ELSE @]

\* One of the two file_exists() of put(): a message found in the directory is
\* queued already, otherwise put() goes on at step "to".
LookIn(dir, h, i, to) ==
  /\ \/ i \in dir /\ Through(h, i, TRUE)
     \/ /\ i \notin dir
        /\ hpc' = [hpc EXCEPT ![h] = to]
        /\ hcur' = [hcur EXCEPT ![h] = i]
        /\ UNCHANGED <<hleft, hok>>
  /\ UNCHANGED <<spool, done, hreq, consumer, requests, got, overlap>>

\* The messages of one request do not depend on each other: the handler takes
\* them in any order.
CheckProc(h) ==
  hpc[h] = "next" /\ \E i \in hleft[h] : LookIn(spool, h, i, "second")

CheckDone(h) ==
  hpc[h] = "second" /\ LookIn(done, h, hcur[h], "move")

\* rename() of the uploaded file replaces a file of that name.
Move(h) ==
  /\ hpc[h] = "move"
  /\ spool' = spool \cup {hcur[h]}
  /\ got' = IF hcur[h] \in spool THEN got ELSE [got EXCEPT ![hcur[h]] = @ + 1]
  /\ Through(h, hcur[h], TRUE)
  /\ UNCHANGED <<done, hreq, consumer, requests, overlap>>

\* Faulty: the error of rename() is suppressed and not looked at.
MoveFailsUnnoticed(h) ==
  /\ hpc[h] = "move"
  /\ Through(h, hcur[h], TRUE)
  /\ UNCHANGED <<spool, done, hreq, consumer, requests, got, overlap>>

\* rename() fails: the exception is reported as inqueue = false.
MoveFails(h) ==
  /\ hpc[h] = "move"
  /\ Through(h, hcur[h], FALSE)
  /\ UNCHANGED <<spool, done, hreq, consumer, requests, got, overlap>>

\* Faulty: the two file_exists() in the other order.
PutSwapped(h) ==
  \/ hpc[h] = "next" /\ \E i \in hleft[h] : LookIn(done, h, i, "second")
  \/ hpc[h] = "second" /\ LookIn(spool, h, hcur[h], "move")
  \/ Move(h) \/ MoveFails(h)

\* dropr_Server_Storage_Filesystem::put().
Put(h) == CheckProc(h) \/ CheckDone(h) \/ Move(h) \/ MoveFails(h)

\* The message's file did not arrive.
Refuse(h) ==
  /\ hpc[h] = "next"
  /\ \E i \in hleft[h] : Through(h, i, FALSE)
  /\ UNCHANGED <<spool, done, hreq, consumer, requests, got, overlap>>

\* The process ends and leaves nothing but the files.
HandlerEnds(h) ==
  /\ hpc' = [hpc EXCEPT ![h] = "idle"]
  /\ hreq' = [hreq EXCEPT ![h] = {}]
  /\ hleft' = [hleft EXCEPT ![h] = {}]
  /\ hcur' = [hcur EXCEPT ![h] = NoId]
  /\ hok' = [hok EXCEPT ![h] = {}]
  /\ UNCHANGED <<spool, done, consumer, requests, got, overlap>>

\* The result, hok[h], is written back when all messages are through.
Reply(h) == hpc[h] = "next" /\ hleft[h] = {} /\ HandlerEnds(h)

HandlerDies(h) == hpc[h] # "idle" /\ HandlerEnds(h)

-----------------------------------------------------------------------------
(* The consumer.                                                           *)

First(S, k) == {i \in S : Cardinality({x \in S : Precedes(x, i)}) < k}

\* Faulty: the loop breaks one message earlier.
GetMessagesFewer ==
  IF limit = 0 THEN spool ELSE First(spool, limit - 2)

\* The file names $k counts start at 2, after "." and "..", and the loop
\* breaks at $k > $limit: a limit of n yields n - 1 messages.
GetMessages ==
  IF limit = 0 THEN spool ELSE First(spool, limit - 1)

List ==
  /\ conpc = "idle"
  /\ todo' = GetMessages
  /\ conpc' = IF todo' = {} THEN "idle" ELSE "work"
  /\ UNCHANGED <<spool, done, handler, limit, crashes, processed, requests,
                 got, overlap>>

Process ==
  /\ conpc = "work"
  /\ \E i \in First(todo, 1) : processed' = [processed EXCEPT ![i] = @ + 1]
  /\ conpc' = "mark"
  /\ UNCHANGED <<spool, done, handler, todo, limit, crashes, requests, got,
                 overlap>>

\* Faulty: the processed message is copied.
MarkCopies ==
  /\ conpc = "mark"
  /\ \E i \in First(todo, 1) : todo' = todo \ {i} /\ done' = done \cup {i}
  /\ conpc' = IF todo' = {} THEN "idle" ELSE "work"
  /\ UNCHANGED <<spool, handler, limit, crashes, processed, requests, got,
                 overlap>>

\* Faulty: the consumer's loop does not end after the last message.
MarkOnceMore ==
  /\ conpc = "mark"
  /\ \E i \in First(todo, 1) :
       /\ todo' = todo \ {i}
       /\ spool' = spool \ {i}
       /\ done' = done \cup (spool \cap {i})
  /\ conpc' = "work"
  /\ UNCHANGED <<handler, limit, crashes, processed, requests, got, overlap>>

\* setProcessed() renames the message into done/.
Mark ==
  /\ conpc = "mark"
  /\ \E i \in First(todo, 1) :
       /\ todo' = todo \ {i}
       /\ spool' = spool \ {i}
       /\ done' = done \cup (spool \cap {i})
  /\ conpc' = IF todo' = {} THEN "idle" ELSE "work"
  /\ UNCHANGED <<handler, limit, crashes, processed, requests, got, overlap>>

ConsumerDies ==
  /\ conpc # "idle"
  /\ crashes < MaxCrashes /\ crashes' = crashes + 1
  /\ conpc' = "idle" /\ todo' = {}
  /\ UNCHANGED <<spool, done, handler, limit, processed, requests, got,
                 overlap>>

-----------------------------------------------------------------------------
HandlerNext(h) == Put(h) \/ Refuse(h) \/ HandlerDies(h)

ConsumerNext == List \/ Process \/ Mark \/ ConsumerDies

SNext ==
  \/ \E h \in Handlers : HandlerNext(h) \/ Reply(h)
  \/ \E h \in Handlers : \E S \in SUBSET Ids : Begin(h, S)
  \/ ConsumerNext

SSpec == SInit /\ [][SNext]_svars

-----------------------------------------------------------------------------
(* Properties.                                                             *)

\* The types of the variables, and what each step of a handler knows.
STypeOK ==
  /\ spool \subseteq Ids /\ done \subseteq Ids /\ todo \subseteq Ids
  /\ \A h \in Handlers :
       /\ hpc[h] \in {"idle", "next", "second", "move"}
       /\ hreq[h] \subseteq Ids /\ hleft[h] \subseteq hreq[h]
       /\ hok[h] \subseteq hreq[h] \ hleft[h]
       /\ hcur[h] \in (IF hpc[h] \in {"second", "move"}
                      THEN hleft[h] ELSE {NoId})
  /\ limit \in Limits /\ conpc \in {"idle", "work", "mark"}
  /\ (conpc = "idle") = (todo = {})
  /\ requests \in 0 .. MaxRequests /\ crashes \in 0 .. MaxCrashes
  /\ overlap \subseteq Ids

\* A message comes into proc/ once, however often the client sends it and
\* whenever the consumer moves it to done/, unless two requests that carry it
\* are handled at the same time.
QueuedOnce == \A i \in Ids \ overlap : got[i] <= 1

\* A message is reported inqueue only if it is stored, and stays so: put()
\* that found the file must not see it vanish between proc/ and done/.
AckMeansStored == \A h \in Handlers : hok[h] \subseteq spool \cup done

\* The consumer works on a message once each time it came in, and once more
\* for each of its own deaths between the work and setProcessed().
ProcessedOncePerArrival ==
  \A i \in Ids : processed[i] <= got[i] + crashes

\* The consumer is run again and again.
SFairSpec ==
  SSpec /\ WF_svars(List) /\ WF_svars(Process) /\ WF_svars(Mark)

\* Every message in proc/ is processed in the end by a consumer that passes any
\* limit but the one that yields nothing.
ConsumerDrains ==
  limit # 1 => \A i \in Ids : i \in spool ~> i \in done
=============================================================================
