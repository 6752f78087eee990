-------------------------- MODULE DroprServerProofs --------------------------
(***************************************************************************)
(* Safety of the dropr server for every number of ids, handlers, requests  *)
(* and deaths of handlers and consumer.                                    *)
(***************************************************************************)
EXTENDS DroprServer, FiniteSetTheorems, TLAPS

-----------------------------------------------------------------------------
(* The inductive invariant.                                                *)

\* The types as functions, and that the directories hold finitely many files.
ServerTypes ==
  /\ STypeOK
  /\ hpc \in [Handlers -> {"idle", "next", "second", "move"}]
  /\ hreq \in [Handlers -> SUBSET Ids]
  /\ hleft \in [Handlers -> SUBSET Ids]
  /\ hok \in [Handlers -> SUBSET Ids]
  /\ hcur \in [Handlers -> Ids \cup {NoId}]
  /\ got \in [Ids -> Nat] /\ processed \in [Ids -> Nat]
  /\ IsFiniteSet(spool)

\* put() is past the check of proc/, or of both directories, with message i.
At(h, i, step) == hpc[h] = step /\ hcur[h] = i

\* As long as no two requests carry it at a time, a message in neither directory
\* never came in, and what a handler has seen of the directories is still so.
OnceInv ==
  \A i \in Ids \ overlap :
    /\ got[i] <= 1
    /\ i \notin spool \cup done => got[i] = 0
    /\ \A g, h \in Handlers : i \in hreq[g] /\ i \in hreq[h] => g = h
    /\ \A h \in Handlers : At(h, i, "second") => i \notin spool
    /\ \A h \in Handlers : At(h, i, "move") => i \notin spool \cup done

\* The message the consumer has worked on and not marked yet.
Current == IF conpc = "mark" THEN First(todo, 1) ELSE {}

\* Each message in proc/ that the consumer has not worked on is an arrival that
\* it has not used up.
UsedInv ==
  /\ todo \subseteq spool
  /\ \A i \in Ids :
       /\ processed[i] <= got[i] + crashes
       /\ i \in spool \ Current => processed[i] < got[i] + crashes

ServerInv == ServerTypes /\ AckMeansStored /\ OnceInv /\ UsedInv

-----------------------------------------------------------------------------
(* The directory order.                                                    *)

\* The first messages of a set are among its members.
LEMMA FirstMembers ==
  ASSUME NEW S, NEW k
  PROVE  First(S, k) \subseteq S
BY DEF First

\* At most one message is the first: of two, one is listed before the other.
LEMMA FirstIsOne ==
  ASSUME NEW S \in SUBSET Ids, IsFiniteSet(S),
         NEW i \in First(S, 1), NEW j \in First(S, 1)
  PROVE  i = j
<1>1. ASSUME NEW x \in S, NEW y \in S, Precedes(x, y), y \in First(S, 1)
      PROVE  FALSE
  <2> DEFINE P == {z \in S : Precedes(z, y)}
  <2>1. IsFiniteSet(P) /\ x \in P
    BY <1>1, FS_Subset
  <2>2. Cardinality(P) \in Nat /\ Cardinality(P) < 1
    BY <1>1, <2>1, FS_CardinalityType DEF First
  <2>3. Cardinality(P) = 0
    BY <2>2
  <2> QED
    BY <2>1, <2>3, FS_EmptySet
<1> QED
  BY <1>1, FirstMembers, ServerAssumption

-----------------------------------------------------------------------------
(* Each part of the invariant is preserved by every step.                  *)

\* The types survive every step.
LEMMA TypesStep ==
  ASSUME ServerInv, SNext
  PROVE  ServerTypes'
<1> USE ServerAssumption
    DEF ServerInv, ServerTypes, STypeOK, NoId, handler, consumer
<1>1. ASSUME NEW h \in Handlers, CheckProc(h) PROVE ServerTypes'
  <2>1. PICK i \in hleft[h] : LookIn(spool, h, i, "second")
    BY <1>1 DEF CheckProc
  <2>2. CASE Through(h, i, TRUE)
    BY <1>1, <2>1, <2>2, SMTT(30) DEF CheckProc, LookIn, Through
  <2>3. CASE ~Through(h, i, TRUE)
    <3>1. /\ hpc[h] = "next" /\ i \in Ids
          /\ hpc' = [hpc EXCEPT ![h] = "second"]
          /\ hcur' = [hcur EXCEPT ![h] = i]
          /\ UNCHANGED <<hleft, hok, spool, done, hreq, consumer>>
          /\ UNCHANGED <<requests, got, overlap>>
      BY <1>1, <2>1, <2>3 DEF CheckProc, LookIn
    <3>2. ASSUME NEW g \in Handlers
          PROVE  hcur'[g] \in IF hpc'[g] \in {"second", "move"}
                              THEN hleft'[g] ELSE {NoId}
      BY <2>1, <3>1
    <3> QED
      BY <3>1, <3>2
  <2> QED
    BY <2>2, <2>3
<1>2. ASSUME NEW h \in Handlers, CheckDone(h) PROVE ServerTypes'
  <2>1. hcur[h] \in hleft[h]
    BY <1>2 DEF CheckDone
  <2>2. CASE Through(h, hcur[h], TRUE)
    BY <1>2, <2>1, <2>2 DEF CheckDone, LookIn, Through
  <2>3. CASE ~Through(h, hcur[h], TRUE)
    BY <1>2, <2>1, <2>3 DEF CheckDone, LookIn
  <2> QED
    BY <2>2, <2>3
<1>3. ASSUME NEW h \in Handlers, Move(h) PROVE ServerTypes'
  <2>1. hcur[h] \in hleft[h] /\ hcur[h] \in Ids
    BY <1>3 DEF Move
  <2>2. IsFiniteSet(spool')
    BY <1>3, FS_AddElement DEF Move
  <2> QED
    BY <1>3, <2>1, <2>2, SMTT(30) DEF Move, Through
<1>4. ASSUME NEW h \in Handlers, MoveFails(h) PROVE ServerTypes'
  BY <1>4 DEF MoveFails, Through
<1>5. ASSUME NEW h \in Handlers, Refuse(h) PROVE ServerTypes'
  BY <1>5 DEF Refuse, Through
<1>6. ASSUME NEW h \in Handlers, HandlerDies(h) PROVE ServerTypes'
  BY <1>6 DEF HandlerDies, HandlerEnds
<1>7. ASSUME NEW h \in Handlers, Reply(h) PROVE ServerTypes'
  BY <1>7 DEF Reply, HandlerEnds
<1>8. ASSUME NEW h \in Handlers, NEW S \in SUBSET Ids, Begin(h, S)
      PROVE  ServerTypes'
  <2>1. /\ hpc' \in [Handlers -> {"idle", "next", "second", "move"}]
        /\ hreq' \in [Handlers -> SUBSET Ids]
        /\ hleft' \in [Handlers -> SUBSET Ids]
        /\ hok' \in [Handlers -> SUBSET Ids]
    BY <1>8 DEF Begin
  <2>2. ASSUME NEW g \in Handlers
        PROVE  /\ hleft'[g] \subseteq hreq'[g]
               /\ hok'[g] \subseteq hreq'[g] \ hleft'[g]
               /\ hpc'[g] \in {"second", "move"} => hcur'[g] \in hleft'[g]
    BY <1>8, <2>2 DEF Begin
  <2>3. overlap' \subseteq Ids /\ requests' \in 0..MaxRequests
    BY <1>8 DEF Begin
  <2> QED
    BY <1>8, <2>1, <2>2, <2>3 DEF Begin
<1>9. CASE List
  BY <1>9, FirstMembers DEF List, GetMessages
<1>10. CASE Process
  BY <1>10, FirstMembers DEF Process
<1>11. CASE Mark
  <2>1. PICK i \in First(todo, 1) :
          /\ todo' = todo \ {i} /\ spool' = spool \ {i}
          /\ done' = done \cup (spool \cap {i})
    BY <1>11 DEF Mark
  <2>2. IsFiniteSet(spool')
    BY <2>1, FS_RemoveElement
  <2> QED
    BY <1>11, <2>1, <2>2 DEF Mark
<1>12. CASE ConsumerDies
  BY <1>12, FirstMembers DEF ConsumerDies
<1> QED
  BY <1>1, <1>2, <1>3, <1>4, <1>5, <1>6, <1>7, <1>8, <1>9, <1>10, <1>11, <1>12
  DEF SNext, HandlerNext, ConsumerNext, Put

\* What was reported inqueue stays stored: nothing leaves both directories.
LEMMA AckStep ==
  ASSUME ServerInv, SNext
  PROVE  AckMeansStored'
<1> USE ServerAssumption
    DEF ServerInv, ServerTypes, STypeOK, AckMeansStored, handler, consumer
<1>1. ASSUME NEW h \in Handlers, CheckProc(h) PROVE AckMeansStored'
  BY <1>1 DEF CheckProc, LookIn, Through
<1>2. ASSUME NEW h \in Handlers, CheckDone(h) PROVE AckMeansStored'
  BY <1>2 DEF CheckDone, LookIn, Through
<1>3. ASSUME NEW h \in Handlers, Move(h) PROVE AckMeansStored'
  BY <1>3 DEF Move, Through
<1>4. ASSUME NEW h \in Handlers, MoveFails(h) PROVE AckMeansStored'
  BY <1>4 DEF MoveFails, Through
<1>5. ASSUME NEW h \in Handlers, Refuse(h) PROVE AckMeansStored'
  BY <1>5 DEF Refuse, Through
<1>6. ASSUME NEW h \in Handlers, HandlerDies(h) PROVE AckMeansStored'
  BY <1>6 DEF HandlerDies, HandlerEnds
<1>7. ASSUME NEW h \in Handlers, Reply(h) PROVE AckMeansStored'
  BY <1>7 DEF Reply, HandlerEnds
<1>8. ASSUME NEW h \in Handlers, NEW S \in SUBSET Ids, Begin(h, S)
      PROVE  AckMeansStored'
  BY <1>8 DEF Begin
<1>9. CASE List
  BY <1>9, FirstMembers DEF List, GetMessages
<1>10. CASE Process
  BY <1>10, FirstMembers DEF Process
<1>11. CASE Mark
  BY <1>11, FirstMembers DEF Mark
<1>12. CASE ConsumerDies
  BY <1>12, FirstMembers DEF ConsumerDies
<1> QED
  BY <1>1, <1>2, <1>3, <1>4, <1>5, <1>6, <1>7, <1>8, <1>9, <1>10, <1>11, <1>12
  DEF SNext, HandlerNext, ConsumerNext, Put

\* A step that leaves the files alone, and takes no handler past a check, does
\* not bring a second arrival nearer.
LEMMA OnceStable ==
  ASSUME OnceInv, UNCHANGED <<spool, done, hreq, got, overlap>>,
         \A g \in Handlers, x \in Ids :
           /\ At(g, x, "second")' => At(g, x, "second")
           /\ At(g, x, "move")' => At(g, x, "move")
  PROVE  OnceInv'
<1> SUFFICES ASSUME NEW i \in Ids \ overlap
             PROVE  /\ \A h \in Handlers : At(h, i, "second")' => i \notin spool
                    /\ \A h \in Handlers :
                         At(h, i, "move")' => i \notin spool \cup done
  BY DEF OnceInv
<1> QED
  BY DEF OnceInv

\* An arrival stays the only one without requests that overlap.
LEMMA OnceStep ==
  ASSUME ServerInv, SNext
  PROVE  OnceInv'
<1>1. ServerTypes /\ STypeOK /\ OnceInv
  BY DEF ServerInv, ServerTypes
<1>2. ASSUME NEW h \in Handlers, NEW i, NEW queued, Through(h, i, queued)
      PROVE  \A g \in Handlers, x \in Ids :
               /\ At(g, x, "second")' => At(g, x, "second")
               /\ At(g, x, "move")' => At(g, x, "move")
  BY <1>1, <1>2 DEF ServerTypes, Through, At
<1>3. ASSUME NEW h \in Handlers, CheckProc(h) PROVE OnceInv'
  <2>1. PICK i \in hleft[h] : LookIn(spool, h, i, "second")
    BY <1>3 DEF CheckProc
  <2>2. CASE Through(h, i, TRUE)
    BY <1>1, <1>2, <2>1, <2>2, OnceStable DEF LookIn
  <2>3. CASE ~Through(h, i, TRUE)
    <3>1. /\ i \notin spool /\ i \in Ids /\ hpc[h] = "next"
          /\ hpc' = [hpc EXCEPT ![h] = "second"]
          /\ hcur' = [hcur EXCEPT ![h] = i]
          /\ UNCHANGED <<spool, done, hreq, got, overlap>>
      BY <1>1, <1>3, <2>1, <2>3 DEF CheckProc, LookIn, ServerTypes
    <3> QED
      BY <1>1, <3>1 DEF ServerTypes, OnceInv, At
  <2> QED
    BY <2>2, <2>3
<1>4. ASSUME NEW h \in Handlers, CheckDone(h) PROVE OnceInv'
  <2>1. CASE Through(h, hcur[h], TRUE)
    BY <1>1, <1>2, <1>4, <2>1, OnceStable DEF CheckDone, LookIn
  <2>2. CASE ~Through(h, hcur[h], TRUE)
    <3>1. /\ hpc[h] = "second" /\ hcur[h] \in Ids \ done
          /\ hpc' = [hpc EXCEPT ![h] = "move"]
          /\ hcur' = [hcur EXCEPT ![h] = hcur[h]]
          /\ UNCHANGED <<spool, done, hreq, got, overlap>>
      BY <1>1, <1>4, <2>2 DEF CheckDone, LookIn, ServerTypes, STypeOK
    <3> QED
      BY <1>1, <3>1 DEF ServerTypes, OnceInv, At
  <2> QED
    BY <2>1, <2>2
<1>5. ASSUME NEW h \in Handlers, Move(h) PROVE OnceInv'
  BY <1>1, <1>5 DEF Move, Through, ServerTypes, STypeOK, OnceInv, At
<1>6. ASSUME NEW h \in Handlers, MoveFails(h) PROVE OnceInv'
  BY <1>1, <1>2, <1>6, OnceStable DEF MoveFails
<1>7. ASSUME NEW h \in Handlers, Refuse(h) PROVE OnceInv'
  BY <1>1, <1>2, <1>7, OnceStable DEF Refuse
<1>8. ASSUME NEW h \in Handlers, HandlerDies(h) \/ Reply(h) PROVE OnceInv'
  BY <1>1, <1>8 DEF HandlerDies, Reply, HandlerEnds, ServerTypes, OnceInv, At
<1>9. ASSUME NEW h \in Handlers, NEW S \in SUBSET Ids, Begin(h, S)
      PROVE  OnceInv'
  BY <1>1, <1>9 DEF Begin, consumer, ServerTypes, OnceInv, At
<1>10. CASE List \/ Process \/ ConsumerDies
  BY <1>1, <1>10, OnceStable
  DEF List, Process, ConsumerDies, handler, At
<1>11. CASE Mark
  BY <1>1, <1>11 DEF Mark, handler, OnceInv, At
<1> QED
  BY <1>3, <1>4, <1>5, <1>6, <1>7, <1>8, <1>9, <1>10, <1>11
  DEF SNext, HandlerNext, ConsumerNext, Put

\* The consumer uses up one arrival with each message it works on.
LEMMA UsedStep ==
  ASSUME ServerInv, SNext
  PROVE  UsedInv'
<1> USE DEF ServerInv, ServerTypes, STypeOK, UsedInv, consumer
<1>1. UNCHANGED <<conpc, todo>> => Current' = Current
  BY DEF Current
<1>2. UNCHANGED <<spool, consumer, got>> => UsedInv'
  BY <1>1
<1>3. IsFiniteSet(todo)
  BY FS_Subset
<1>4. ASSUME NEW h \in Handlers, Put(h) PROVE UsedInv'
  <2>1. CASE CheckProc(h)
    BY <1>2, <2>1 DEF CheckProc, LookIn
  <2>2. CASE CheckDone(h)
    BY <1>2, <2>2 DEF CheckDone, LookIn
  <2>3. CASE Move(h)
    <3>1. hcur[h] \in Ids
      BY <2>3 DEF Move
    <3>2. UNCHANGED <<consumer, Current>> /\ spool' = spool \cup {hcur[h]}
      BY <1>1, <2>3 DEF Move
    <3>3. CASE hcur[h] \in spool
      BY <2>3, <3>2, <3>3 DEF Move
    <3>4. CASE hcur[h] \notin spool
      <4>1. got' = [got EXCEPT ![hcur[h]] = @ + 1]
        BY <2>3, <3>4 DEF Move
      <4> QED
        BY <3>1, <3>2, <4>1
    <3> QED
      BY <3>3, <3>4
  <2>4. CASE MoveFails(h)
    BY <1>2, <2>4 DEF MoveFails
  <2> QED
    BY <1>4, <2>1, <2>2, <2>3, <2>4 DEF Put
<1>5. ASSUME NEW h \in Handlers, Refuse(h) \/ HandlerDies(h) \/ Reply(h)
      PROVE  UsedInv'
  BY <1>2, <1>5 DEF Refuse, HandlerDies, Reply, HandlerEnds
<1>6. ASSUME NEW h \in Handlers, NEW S \in SUBSET Ids, Begin(h, S)
      PROVE  UsedInv'
  BY <1>2, <1>6 DEF Begin
<1>7. CASE List
  <2>1. Current = {} /\ Current' = {}
    BY <1>7 DEF List, Current
  <2> QED
    BY <1>7, <2>1, FirstMembers DEF List, GetMessages
<1>8. CASE Process
  <2>1. PICK i \in First(todo, 1) : processed' = [processed EXCEPT ![i] = @ + 1]
    BY <1>8 DEF Process
  <2>2. i \in todo /\ Current = {} /\ Current' = {i}
    BY <1>3, <1>8, <2>1, FirstMembers, FirstIsOne DEF Process, Current
  <2> QED
    BY <1>8, <2>1, <2>2 DEF Process
<1>9. CASE Mark
  <2>1. PICK i \in First(todo, 1) :
          todo' = todo \ {i} /\ spool' = spool \ {i}
    BY <1>9 DEF Mark
  <2>2. Current = {i} /\ Current' = {}
    BY <1>3, <1>9, <2>1, FirstIsOne DEF Mark, Current
  <2> QED
    BY <1>9, <2>1, <2>2 DEF Mark
<1>10. CASE ConsumerDies
  <2>1. Current' = {}
    BY <1>10 DEF ConsumerDies, Current
  <2> QED
    BY <1>10, <2>1 DEF ConsumerDies
<1> QED
  BY <1>4, <1>5, <1>6, <1>7, <1>8, <1>9, <1>10
  DEF SNext, HandlerNext, ConsumerNext

-----------------------------------------------------------------------------
(* Theorems.                                                               *)

\* The invariant holds initially.
LEMMA ServerInitInv == SInit => ServerInv
BY ServerAssumption, FS_EmptySet
DEF SInit, ServerInv, ServerTypes, STypeOK, AckMeansStored, OnceInv, UsedInv,
    At, Current, NoId

\* Every step, and every stutter, preserves it.
LEMMA ServerNextInv == ServerInv /\ [SNext]_svars => ServerInv'
<1>1. ASSUME ServerInv, SNext PROVE ServerInv'
  BY <1>1, TypesStep, AckStep, OnceStep, UsedStep DEF ServerInv
<1>2. ASSUME ServerInv, UNCHANGED svars PROVE ServerInv'
  BY <1>2
  DEF svars, handler, consumer, ServerInv, ServerTypes, STypeOK,
      AckMeansStored, OnceInv, UsedInv, At, Current
<1> QED
  BY <1>1, <1>2

\* The server satisfies the invariant, whatever requests come in.
THEOREM ServerInvariance == SSpec => []ServerInv
BY ServerInitInv, ServerNextInv, PTL DEF SSpec

\* Every variable keeps its type, and every handler knows what its step needs.
THEOREM ServerTypeCorrectness == SSpec => []STypeOK
<1>1. ServerInv => STypeOK
  BY DEF ServerInv, ServerTypes
<1> QED
  BY <1>1, ServerInvariance, PTL

\* No handler ever reports a message inqueue that is in neither directory,
\* however the consumer moves it while put() looks for it.
THEOREM AcksAreStored == SSpec => []AckMeansStored
<1>1. ServerInv => AckMeansStored
  BY DEF ServerInv
<1> QED
  BY <1>1, ServerInvariance, PTL

\* A message that no two requests carry at a time comes into proc/ at most once:
\* proc/ and then done/ is the order of checks that lets none slip through.
THEOREM ArrivesOnce == SSpec => []QueuedOnce
<1>1. ServerInv => QueuedOnce
  BY DEF ServerInv, OnceInv, QueuedOnce
<1> QED
  BY <1>1, ServerInvariance, PTL

\* The consumer never works on a message more often than it came in plus once
\* for each of its own deaths.
THEOREM WorkMatchesArrivals == SSpec => []ProcessedOncePerArrival
<1>1. ServerInv => ProcessedOncePerArrival
  BY DEF ServerInv, UsedInv, ProcessedOncePerArrival
<1> QED
  BY <1>1, ServerInvariance, PTL
=============================================================================
