----------------------------- MODULE DroprProofs -----------------------------
(***************************************************************************)
(* Safety of dropr end to end, and that it implements Delivery, from the   *)
(* invariants of its two halves.                                           *)
(***************************************************************************)
EXTENDS Dropr, DroprClientProofs

SP == INSTANCE DroprServerProofs WITH Ids <- SpoolNames, Precedes <- Before

-----------------------------------------------------------------------------
(* The inductive invariant.                                                *)

\* What has come to the peers.
Stored == spool \cup done

\* Names of messages whose saveMessage() has renamed them.
MovedNames == {pname[m] : m \in Moved}

\* The queue process waits only while it sends, and for a handler that works
\* on nothing but its request.
WaitInv ==
  /\ waiting \in Handlers \cup {NoHandler}
  /\ abandoned \in [SpoolNames -> Nat]
  /\ waiting # NoHandler => cpc = "sending" /\ hreq[waiting] \subseteq group

\* What the client takes for delivered is stored.
StoredInv ==
  /\ acked \subseteq Stored
  /\ \A m \in confirmed : pname[m] \in Stored

\* The peers have and get nothing but messages that were saved.
OriginInv ==
  /\ Stored \subseteq MovedNames
  /\ \A h \in Handlers : hreq[h] \subseteq MovedNames

\* Handlers nobody waits for that are not through with name n.
Pending(n) == {h \in Handlers : n \in hleft[h] /\ h # waiting}

\* The handler waited for has not found n in proc/, and will not find it in
\* done/ unless the consumer moves it there before the second check.
Risky(n) ==
  /\ waiting # NoHandler /\ hcur[waiting] = n
  /\ \/ hpc[waiting] = "second" /\ n \notin done
     \/ hpc[waiting] = "move"

\* Every handler that may still bring n in a second time is paid for by a
\* request that was given up.
Paid(n) ==
  /\ got[n] + Cardinality(Pending(n)) + (IF Risky(n) THEN 1 ELSE 0)
       <= 1 + abandoned[n]
  /\ n \notin Stored =>
       got[n] = 0 /\ Cardinality(Pending(n)) <= abandoned[n]

PaidInv ==
  /\ IsFiniteSet({h \in Handlers : hleft[h] # {}})
  /\ \A n \in SpoolNames : Paid(n)

DroprInv ==
  /\ ClientInv /\ SP!ServerInv
  /\ WaitInv /\ StoredInv /\ OriginInv /\ PaidInv

-----------------------------------------------------------------------------
(* Every step is a step of the client, of the server, or of both.          *)

\* The names messages get have the form of a name.
LEMMA SpoolNamesAreNames == SpoolNames \subseteq Names
BY NameIsName DEF SpoolNames

\* The server's assumption holds for file names and their order.
LEMMA ServerAssumed == SP!ServerAssumption
BY DroprAssumption, SpoolNamesAreNames, BeforeIsOrder DEF SP!ServerAssumption

\* The server's steps are those that DroprServerProofs is about.
LEMMA ServerSteps ==
  /\ S!SInit => SP!SInit
  /\ \A h \in Handlers : S!HandlerNext(h) \/ S!Reply(h) => SP!SNext
  /\ \A h \in Handlers, G \in SUBSET SpoolNames : S!Begin(h, G) => SP!SNext
  /\ S!ConsumerNext => SP!SNext
<1> USE DEF S!consumer, SP!consumer, S!handler, SP!handler, S!NoId, SP!NoId
<1>1. S!SInit => SP!SInit
  BY DEF S!SInit, SP!SInit
<1>2. ASSUME NEW h \in Handlers PROVE S!HandlerNext(h) => SP!HandlerNext(h)
  BY DEF S!HandlerNext, S!Put, S!CheckProc, S!CheckDone, S!Move, S!MoveFails,
         S!Refuse, S!HandlerDies, S!HandlerEnds, S!LookIn, S!Through,
         SP!HandlerNext, SP!Put, SP!CheckProc, SP!CheckDone, SP!Move,
         SP!MoveFails, SP!Refuse, SP!HandlerDies, SP!HandlerEnds, SP!LookIn,
         SP!Through
<1>3. ASSUME NEW h \in Handlers PROVE S!Reply(h) => SP!Reply(h)
  BY DEF S!Reply, S!HandlerEnds, SP!Reply, SP!HandlerEnds
<1>4. ASSUME NEW h \in Handlers, NEW G \in SUBSET SpoolNames
      PROVE  S!Begin(h, G) => SP!Begin(h, G)
  BY DEF S!Begin, SP!Begin
<1>5. S!ConsumerNext => SP!ConsumerNext
  <2>1. ASSUME NEW G, NEW k PROVE S!First(G, k) = SP!First(G, k)
    BY DEF S!First, SP!First, S!Cardinality, SP!Cardinality
  <2>2. S!GetMessages = SP!GetMessages
    BY <2>1 DEF S!GetMessages, SP!GetMessages
  <2>3. S!List => SP!List
    BY <2>2 DEF S!List, SP!List
  <2>4. S!Process => SP!Process
    BY <2>1 DEF S!Process, SP!Process
  <2>5. S!Mark => SP!Mark
    BY <2>1 DEF S!Mark, SP!Mark
  <2>6. S!ConsumerDies => SP!ConsumerDies
    BY DEF S!ConsumerDies, SP!ConsumerDies
  <2> QED
    BY <2>3, <2>4, <2>5, <2>6 DEF S!ConsumerNext, SP!ConsumerNext
<1> QED
  BY <1>1, <1>2, <1>3, <1>4, <1>5 DEF SP!SNext

\* While a request is under way it carries names of messages in proc/.
LEMMA GroupNames ==
  ASSUME ClientInv, cpc = "sending"
  PROVE  group \subseteq MovedNames /\ group \subseteq SpoolNames
<1> SUFFICES ASSUME NEW n \in group
             PROVE  n \in MovedNames /\ n \in SpoolNames
  OBVIOUS
<1>1. n \in DOMAIN proc
  BY DEF ClientInv, MemoryInv
<1>2. proc[n] \in Moved /\ pname[proc[n]] = n
  BY <1>1 DEF ClientInv, NameInv
<1>3. proc[n] \in Messages /\ ppc[proc[n]] # "new"
  BY <1>2 DEF Moved
<1>4. \E t \in Stamps : n = NameOf(proc[n], t)
  BY <1>2, <1>3 DEF ClientInv, NameInv
<1> QED
  BY <1>2, <1>3, <1>4 DEF MovedNames, SpoolNames

\* The client's part of a step.
LEMMA ClientPart ==
  ASSUME DroprNext
  PROVE  AnyStep \/ UNCHANGED cvars
<1>1. CASE ClientStep
  BY <1>1 DEF ClientStep, AnyStep, CNext
<1>2. CASE RequestFails \/ DroprKilled
  BY <1>2 DEF RequestFails, DroprKilled, AnyStep, CNext
<1>3. ASSUME NEW h \in Handlers, Answer(h) PROVE AnyStep
  BY <1>3 DEF Answer, Result, AnyStep
<1>4. ASSUME NEW h \in Handlers, Upload(h) \/ LateAnswer(h)
      PROVE  UNCHANGED cvars
  BY <1>4 DEF Upload, LateAnswer
<1>5. CASE ServerStep
  BY <1>5 DEF ServerStep
<1> QED
  BY <1>1, <1>2, <1>3, <1>4, <1>5 DEF DroprNext

\* The server's part of a step.
LEMMA ServerPart ==
  ASSUME DroprInv, DroprNext
  PROVE  [SP!SNext]_(SP!svars)
<1>1. UNCHANGED server => UNCHANGED SP!svars
  BY DEF server, SP!svars, SP!handler, SP!consumer
<1>2. CASE ClientStep \/ RequestFails \/ DroprKilled
  BY <1>1, <1>2 DEF ClientStep, RequestFails, DroprKilled
<1>3. CASE ServerStep
  BY <1>3, ServerSteps DEF ServerStep
<1>4. ASSUME NEW h \in Handlers, Upload(h) PROVE SP!SNext
  BY <1>4, ServerSteps, GroupNames DEF Upload, DroprInv
<1>5. ASSUME NEW h \in Handlers, Answer(h) \/ LateAnswer(h) PROVE SP!SNext
  BY <1>5, ServerSteps DEF Answer, LateAnswer
<1> QED
  BY <1>2, <1>3, <1>4, <1>5 DEF DroprNext

\* The two halves keep their invariants.
LEMMA HalvesStep ==
  ASSUME DroprInv, DroprNext
  PROVE  ClientInv' /\ SP!ServerInv'
<1>1. SP!ServerAssumption
  BY ServerAssumed
<1>2. ClientInv'
  BY ClientPart, ClientNextInv DEF DroprInv
<1>3. SP!ServerInv /\ [SP!SNext]_(SP!svars) => SP!ServerInv'
  BY <1>1, SP!ServerNextInv
<1> QED
  BY <1>2, <1>3, ServerPart DEF DroprInv

-----------------------------------------------------------------------------
(* What a step of one half can change of what the other one relies on.     *)

\* A message keeps its name, and counts as sent only once it was acknowledged.
LEMMA ClientEffect ==
  ASSUME ClientInv, AnyStep \/ UNCHANGED cvars
  PROVE  /\ \A m \in Moved : m \in Moved' /\ pname'[m] = pname[m]
         /\ \A m \in confirmed' :
              m \in Moved /\ (m \notin confirmed => pname[m] \in acked)
         /\ acked' \subseteq acked \/ \E ok \in SUBSET group : Result(ok)
<1> DEFINE Kept == \A m \in Moved : m \in Moved' /\ pname'[m] = pname[m]
<1> USE DEF dirs, producer, queue
<1>1. ClientTypes /\ MemoryInv /\ NameInv /\ confirmed \subseteq Moved
  BY DEF ClientInv, NameInv
<1>2. ASSUME NEW m \in Messages, SaveOpen(m)
      PROVE  Kept /\ UNCHANGED <<acked, confirmed>>
  BY <1>1, <1>2 DEF SaveOpen, Moved, ClientTypes
<1>3. ASSUME NEW m \in Messages, SaveRename(m) \/ Check(m) \/ Notify(m) \/ PutDies(m)
      PROVE  Kept /\ UNCHANGED <<acked, confirmed>>
  BY <1>1, <1>3 DEF SaveRename, Check, Checked, Notify, PutDies, Moved, ClientTypes
<1>4. ASSUME UNCHANGED <<ppc, pname>> PROVE Kept
  BY <1>4 DEF Moved
<1>5. CASE Scan \/ Send \/ SendFails \/ CheckDone \/ BatchDone \/ WipeSent
  BY <1>1, <1>4, <1>5
  DEF Scan, Send, SendFails, CheckDone, BatchDone, WipeSent
<1>6. CASE WakeByToken \/ WakeByAlarm \/ LifeEnds \/ Killed
  BY <1>1, <1>4, <1>6 DEF WakeByToken, WakeByAlarm, LifeEnds, Killed, Fresh
<1>7. ASSUME NEW ok \in SUBSET group, Result(ok)
      PROVE  Kept /\ UNCHANGED confirmed
  BY <1>4, <1>7 DEF Result
<1>8. CASE CheckRename
  <2>1. PICK n \in acked :
          /\ n \in DOMAIN proc /\ acked' = acked \ {n}
          /\ confirmed' = confirmed \cup {proc[n]}
    BY <1>1, <1>8, CheckRenameEffect
  <2>2. proc[n] \in Moved /\ pname[proc[n]] = n
    BY <1>1, <2>1 DEF NameInv
  <2> QED
    BY <1>1, <1>4, <1>8, <2>1, <2>2 DEF CheckRename
<1>9. ASSUME NEW p \in Peers, BlacklistDue(p)
      PROVE  Kept /\ UNCHANGED <<acked, confirmed>>
  BY <1>4, <1>9 DEF BlacklistDue
<1>10. CASE UNCHANGED cvars
  BY <1>1, <1>4, <1>10 DEF cvars
<1> QED
  BY <1>1, <1>2, <1>3, <1>5, <1>6, <1>7, <1>8, <1>9, <1>10
  DEF AnyStep, CNext, Put, QueueStep

\* Files that came to a peer stay there, and those that come are of a request.
LEMMA ServerEffect ==
  ASSUME SP!ServerInv,
         S!ConsumerNext \/ \E h \in Handlers : S!HandlerNext(h) \/ S!Reply(h)
  PROVE  /\ Stored \subseteq Stored'
         /\ \A n \in Stored' :
              n \in Stored \/ \E h \in Handlers : n \in hreq[h]
         /\ \A h \in Handlers : hreq'[h] \subseteq hreq[h]
<1> USE DEF Stored, S!handler, S!consumer
<1>1. /\ hreq \in [Handlers -> SUBSET SpoolNames]
      /\ \A h \in Handlers : hpc[h] = "move" => hcur[h] \in hreq[h]
      /\ todo \subseteq spool
  BY DEF SP!ServerInv, SP!ServerTypes, SP!STypeOK, SP!UsedInv
<1>2. CASE S!List \/ S!Process \/ S!ConsumerDies
  BY <1>2 DEF S!List, S!Process, S!ConsumerDies
<1>3. CASE S!Mark
  BY <1>1, <1>3 DEF S!Mark, S!First
<1>4. ASSUME NEW h \in Handlers, S!CheckProc(h) \/ S!CheckDone(h)
      PROVE  UNCHANGED <<Stored, hreq>>
  BY <1>4 DEF S!CheckProc, S!CheckDone, S!LookIn
<1>5. ASSUME NEW h \in Handlers, S!MoveFails(h) \/ S!Refuse(h)
      PROVE  UNCHANGED <<Stored, hreq>>
  BY <1>5 DEF S!MoveFails, S!Refuse
<1>6. ASSUME NEW h \in Handlers, S!Move(h)
      PROVE  /\ Stored' = Stored \cup {hcur[h]} /\ hcur[h] \in hreq[h]
             /\ UNCHANGED hreq
  BY <1>1, <1>6 DEF S!Move
<1>7. ASSUME NEW h \in Handlers, S!HandlerDies(h) \/ S!Reply(h)
      PROVE  UNCHANGED Stored /\ hreq' = [hreq EXCEPT ![h] = {}]
  BY <1>7 DEF S!HandlerDies, S!Reply, S!HandlerEnds
<1> QED
  BY <1>1, <1>2, <1>3, <1>4, <1>5, <1>6, <1>7
  DEF S!ConsumerNext, S!HandlerNext, S!Put

\* The server's part of Upload.
LEMMA UploadEffect ==
  ASSUME SP!ServerInv, NEW h \in Handlers, Upload(h)
  PROVE  /\ UNCHANGED Stored
         /\ \A g \in Handlers : hreq'[g] = IF g = h THEN group ELSE hreq[g]
BY DEF Upload, S!Begin, S!consumer, Stored, SP!ServerInv, SP!ServerTypes

-----------------------------------------------------------------------------
(* Each part of the invariant is preserved by every step.                  *)

\* Nothing changes the request that the queue process waits for.
LEMMA WaitStep ==
  ASSUME DroprInv, DroprNext
  PROVE  WaitInv'
<1> USE DroprAssumption
<1>1. WaitInv /\ SP!ServerInv
  BY DEF DroprInv
<1>2. CASE ClientStep
  <2>1. cpc = "sending" => UNCHANGED <<cpc, group>>
    BY <1>2 DEF ClientStep, Put, SaveOpen, SaveRename, Check, Checked, Notify, PutDies,
                QueueStep, Scan, Send, CheckRename, CheckDone, BatchDone,
                WakeByToken, WakeByAlarm, LifeEnds, WipeSent, BlacklistDue,
                queue
  <2> QED
    BY <1>1, <1>2, <2>1 DEF ClientStep, server, WaitInv
<1>3. CASE ServerStep
  <2>1. \A h \in Handlers : hreq'[h] \subseteq hreq[h]
    BY <1>1, <1>3, ServerEffect DEF ServerStep
  <2> QED
    BY <1>1, <1>3, <2>1 DEF ServerStep, cvars, WaitInv
<1>4. CASE RequestFails \/ DroprKilled
  BY <1>1, <1>4 DEF RequestFails, DroprKilled, GiveUp, WaitInv
<1>5. ASSUME NEW h \in Handlers, Upload(h) PROVE WaitInv'
  BY <1>1, <1>5, UploadEffect DEF Upload, cvars, WaitInv
<1>6. ASSUME NEW h \in Handlers, Answer(h) PROVE WaitInv'
  BY <1>1, <1>6 DEF Answer, WaitInv
<1>7. ASSUME NEW h \in Handlers, LateAnswer(h) PROVE WaitInv'
  <2>1. \A g \in Handlers : hreq'[g] \subseteq hreq[g]
    BY <1>1, <1>7, ServerEffect DEF LateAnswer
  <2> QED
    BY <1>1, <1>7, <2>1 DEF LateAnswer, cvars, WaitInv
<1> QED
  BY <1>2, <1>3, <1>4, <1>5, <1>6, <1>7 DEF DroprNext

\* What is stored and what the requests carry, after any step.
LEMMA StepEffect ==
  ASSUME DroprInv, DroprNext
  PROVE  /\ Stored \subseteq Stored'
         /\ \A n \in Stored' :
              n \in Stored \/ \E h \in Handlers : n \in hreq[h]
         /\ \A h \in Handlers : hreq'[h] \subseteq hreq[h] \cup MovedNames
         /\ acked' \subseteq acked \cup Stored
<1>1. SP!ServerInv /\ ClientInv
  BY DEF DroprInv
<1>3. CASE ClientStep \/ RequestFails \/ DroprKilled
  <2>1. UNCHANGED <<Stored, hreq>>
    BY <1>3 DEF ClientStep, RequestFails, DroprKilled, server, Stored
  <2>2. acked' \subseteq acked
    BY <1>3, <1>1 DEF ClientStep, RequestFails, DroprKilled, Put, SaveOpen,
       SaveRename, Check, Checked, Notify, PutDies, QueueStep, Scan, Send, CheckRename,
       CheckDone, BatchDone, WakeByToken, WakeByAlarm, LifeEnds, WipeSent,
       BlacklistDue, SendFails, Killed, Fresh, queue
  <2> QED
    BY <2>1, <2>2
<1>4. CASE ServerStep
  BY <1>1, <1>4, ServerEffect DEF ServerStep, cvars
<1>5. ASSUME NEW h \in Handlers, Upload(h)
      PROVE  /\ UNCHANGED <<Stored, acked>>
             /\ \A g \in Handlers : hreq'[g] \subseteq hreq[g] \cup MovedNames
  BY <1>1, <1>5, UploadEffect, GroupNames DEF Upload, cvars
<1>6. ASSUME NEW h \in Handlers, LateAnswer(h)
      PROVE  /\ UNCHANGED <<Stored, acked>>
             /\ \A g \in Handlers : hreq'[g] \subseteq hreq[g]
  BY <1>1, <1>6, ServerEffect
  DEF LateAnswer, cvars, S!Reply, S!HandlerEnds, Stored
<1>7. ASSUME NEW h \in Handlers, Answer(h)
      PROVE  /\ UNCHANGED Stored /\ acked' \subseteq Stored
             /\ \A g \in Handlers : hreq'[g] \subseteq hreq[g]
  <2>1. hok[h] \subseteq Stored
    BY <1>1 DEF SP!ServerInv, SP!AckMeansStored, Stored
  <2> QED
    BY <1>1, <1>7, <2>1, ServerEffect
    DEF Answer, Result, S!Reply, S!HandlerEnds, Stored
<1> QED
  BY <1>3, <1>4, <1>5, <1>6, <1>7 DEF DroprNext

\* Acknowledged and sent messages stay stored.
LEMMA StoredStep ==
  ASSUME DroprInv, DroprNext
  PROVE  StoredInv'
<1>1. StoredInv /\ ClientInv
  BY DEF DroprInv
<1>2. Stored \subseteq Stored' /\ acked' \subseteq acked \cup Stored
  BY StepEffect
<1>3. /\ \A m \in Moved : pname'[m] = pname[m]
      /\ \A m \in confirmed' :
           m \in Moved /\ (m \notin confirmed => pname[m] \in acked)
  BY <1>1, ClientPart, ClientEffect
<1> QED
  BY <1>1, <1>2, <1>3 DEF StoredInv

\* Requests carry, and the peers get, saved messages only.
LEMMA OriginStep ==
  ASSUME DroprInv, DroprNext
  PROVE  OriginInv'
<1>1. OriginInv /\ ClientInv
  BY DEF DroprInv
<1>2. \A m \in Moved : m \in Moved' /\ pname'[m] = pname[m]
  BY <1>1, ClientPart, ClientEffect
<1>3. MovedNames \subseteq MovedNames'
  BY <1>2 DEF MovedNames
<1> QED
  BY <1>1, <1>3, StepEffect DEF OriginInv

-----------------------------------------------------------------------------
(* Arrivals are paid for.                                                  *)

\* The handlers that still have messages to put.
Unfinished == {h \in Handlers : hleft[h] # {}}

\* What pends is a finite number of handlers.
LEMMA PendingFinite ==
  ASSUME DroprInv, NEW n \in SpoolNames
  PROVE  /\ IsFiniteSet(Pending(n)) /\ Cardinality(Pending(n)) \in Nat
         /\ got[n] \in Nat /\ abandoned[n] \in Nat
<1>1. Pending(n) \subseteq Unfinished /\ IsFiniteSet(Unfinished)
  BY DEF Pending, Unfinished, DroprInv, PaidInv
<1> QED
  BY <1>1, FS_Subset, FS_CardinalityType
  DEF DroprInv, SP!ServerInv, SP!ServerTypes, WaitInv

\* A step that lets nothing in and leaves no further handler with message n
\* costs nothing.
LEMMA PaidQuiet ==
  ASSUME DroprInv, NEW n \in SpoolNames,
         Stored \subseteq Stored',
         got'[n] = got[n], abandoned'[n] = abandoned[n],
         Pending(n)' \subseteq Pending(n), Risky(n)' => Risky(n)
  PROVE  Paid(n)'
<1>1. Paid(n)
  BY DEF DroprInv, PaidInv
<1>2. /\ Cardinality(Pending(n)') <= Cardinality(Pending(n))
      /\ Cardinality(Pending(n)') \in Nat
  BY PendingFinite, FS_Subset, FS_CardinalityType
<1> QED
  BY <1>1, <1>2, PendingFinite DEF Paid

\* A handler that is through with message i keeps it from nobody.
LEMMA ThroughQuiet ==
  ASSUME SP!ServerInv, NEW h \in Handlers, NEW i, NEW queued,
         S!Through(h, i, queued), UNCHANGED <<done, waiting>>,
         NEW n \in SpoolNames
  PROVE  /\ Pending(n)' = IF n = i THEN Pending(n) \ {h} ELSE Pending(n)
         /\ Risky(n)' => Risky(n) /\ h # waiting
BY DEF S!Through, Pending, Risky, SP!ServerInv, SP!ServerTypes

\* Through() does not leave a handler with more messages.
LEMMA UnfinishedStep ==
  ASSUME DroprInv, DroprNext
  PROVE  IsFiniteSet(Unfinished')
<1>1. IsFiniteSet(Unfinished) /\ SP!ServerInv
  BY DEF DroprInv, PaidInv, Unfinished
<1>2. ASSUME Unfinished' \subseteq Unfinished PROVE IsFiniteSet(Unfinished')
  BY <1>1, <1>2, FS_Subset
<1>3. CASE UNCHANGED hleft
  BY <1>2, <1>3 DEF Unfinished
<1>4. ASSUME NEW h \in Handlers, Upload(h) PROVE IsFiniteSet(Unfinished')
  <2>1. Unfinished' \subseteq Unfinished \cup {h}
    BY <1>1, <1>4 DEF Upload, S!Begin, Unfinished, SP!ServerInv, SP!ServerTypes
  <2> QED
    BY <1>1, <2>1, FS_AddElement, FS_Subset
<1>5. ASSUME NEW h \in Handlers, S!HandlerNext(h) \/ S!Reply(h)
      PROVE  Unfinished' \subseteq Unfinished
  BY <1>1, <1>5
  DEF S!HandlerNext, S!Put, S!CheckProc, S!CheckDone, S!Move, S!MoveFails,
      S!Refuse, S!HandlerDies, S!Reply, S!HandlerEnds, S!LookIn, S!Through,
      Unfinished, SP!ServerInv, SP!ServerTypes
<1>6. CASE S!ConsumerNext
  BY <1>3, <1>6 DEF S!ConsumerNext, S!List, S!Process, S!Mark, S!ConsumerDies,
                    S!handler
<1>7. CASE ClientStep \/ RequestFails \/ DroprKilled
  BY <1>3, <1>7 DEF ClientStep, RequestFails, DroprKilled, server
<1> QED
  BY <1>2, <1>4, <1>5, <1>6, <1>7
  DEF DroprNext, ServerStep, Answer, LateAnswer

\* A step of put() in the request that is waited for, or in another one.
LEMMA PaidPut ==
  ASSUME DroprInv, NEW h \in Handlers, S!Put(h),
         UNCHANGED <<waiting, abandoned>>, NEW n \in SpoolNames
  PROVE  Paid(n)'
<1>1. /\ Paid(n) /\ WaitInv
      /\ hpc \in [Handlers -> {"idle", "next", "second", "move"}]
      /\ hcur \in [Handlers -> SpoolNames \cup {S!NoId}]
      /\ got \in [SpoolNames -> Nat]
      /\ hpc[h] = "move" => hcur[h] \in hleft[h] /\ hcur[h] \in SpoolNames
      /\ SP!ServerInv
  BY DEF DroprInv, PaidInv, SP!ServerInv, SP!ServerTypes, SP!STypeOK, S!NoId,
         SP!NoId
<1>2. Stored \subseteq Stored'
  BY <1>1, ServerEffect DEF S!HandlerNext
<1>3. CASE S!CheckProc(h)
  <2>1. PICK i \in hleft[h] : S!LookIn(spool, h, i, "second")
    BY <1>3 DEF S!CheckProc
  <2>2. CASE S!Through(h, i, TRUE)
    BY <1>1, <1>2, <2>1, <2>2, ThroughQuiet, PaidQuiet DEF S!LookIn
  <2>3. CASE ~S!Through(h, i, TRUE)
    <3>1. /\ i \notin spool
          /\ hpc' = [hpc EXCEPT ![h] = "second"]
          /\ hcur' = [hcur EXCEPT ![h] = i]
          /\ UNCHANGED <<hleft, got, spool, done>>
      BY <2>1, <2>3 DEF S!LookIn
    <3>2. Pending(n)' = Pending(n) /\ UNCHANGED Stored
      BY <3>1 DEF Pending, Stored
    <3>3. CASE Risky(n)' => Risky(n)
      BY <1>2, <3>1, <3>2, <3>3, PaidQuiet
    <3>4. CASE Risky(n)' /\ ~Risky(n)
      <4>1. n \notin Stored
        BY <1>1, <3>1, <3>4 DEF Risky, Stored, WaitInv
      <4> QED
        BY <1>1, <3>1, <3>2, <4>1, PendingFinite DEF Paid
    <3> QED
      BY <3>3, <3>4
  <2> QED
    BY <2>2, <2>3
<1>4. CASE S!CheckDone(h)
  <2>1. CASE S!Through(h, hcur[h], TRUE)
    BY <1>1, <1>2, <1>4, <2>1, ThroughQuiet, PaidQuiet
    DEF S!CheckDone, S!LookIn
  <2>2. CASE ~S!Through(h, hcur[h], TRUE)
    <3>1. /\ hcur[h] \notin done /\ hpc[h] = "second"
          /\ hpc' = [hpc EXCEPT ![h] = "move"]
          /\ hcur' = [hcur EXCEPT ![h] = hcur[h]]
          /\ UNCHANGED <<hleft, got, done>>
      BY <1>4, <2>2 DEF S!CheckDone, S!LookIn
    <3>2. Pending(n)' = Pending(n) /\ (Risky(n)' => Risky(n))
      BY <1>1, <3>1 DEF Pending, Risky, WaitInv
    <3> QED
      BY <1>2, <3>1, <3>2, PaidQuiet
  <2> QED
    BY <2>1, <2>2
<1>5. CASE S!Move(h)
  <2>1. /\ S!Through(h, hcur[h], TRUE) /\ UNCHANGED done /\ hpc[h] = "move"
        /\ hcur[h] \in Stored' /\ hcur[h] \in hleft[h]
        /\ got' = IF hcur[h] \in spool THEN got
                  ELSE [got EXCEPT ![hcur[h]] = @ + 1]
    BY <1>1, <1>5 DEF S!Move, Stored
  <2>2. CASE n # hcur[h]
    BY <1>1, <1>2, <2>1, <2>2, ThroughQuiet, PaidQuiet
  <2>3. CASE n = hcur[h]
    <3>1. got'[n] \in Nat /\ got'[n] <= got[n] + 1
      BY <1>1, <2>1, <2>3
    <3>2. /\ Pending(n)' = Pending(n) \ {h}
          /\ Risky(n)' => Risky(n) /\ h # waiting
      BY <1>1, <2>1, <2>3, ThroughQuiet
    <3>3. CASE h = waiting
      <4>1. Risky(n) /\ ~Risky(n)' /\ Pending(n)' = Pending(n)
        BY <1>1, <2>1, <2>3, <3>2, <3>3, DroprAssumption DEF Risky, Pending
      <4> QED
        BY <1>1, <2>1, <2>3, <3>1, <4>1, PendingFinite DEF Paid
    <3>4. CASE h # waiting
      <4>1. h \in Pending(n)
        BY <2>1, <2>3, <3>4 DEF Pending
      <4>2. Cardinality(Pending(n)') = Cardinality(Pending(n)) - 1
        BY <3>2, <4>1, PendingFinite, FS_RemoveElement, ZenonT(40)
      <4> QED
        BY <1>1, <2>1, <2>3, <3>1, <3>2, <4>2, PendingFinite DEF Paid
    <3> QED
      BY <3>3, <3>4
  <2> QED
    BY <2>2, <2>3
<1>6. CASE S!MoveFails(h)
  BY <1>1, <1>2, <1>6, ThroughQuiet, PaidQuiet DEF S!MoveFails
<1> QED
  BY <1>3, <1>4, <1>5, <1>6 DEF S!Put

\* The end of a handler, answered or not, brings nothing in.
LEMMA PaidEnds ==
  ASSUME DroprInv, NEW h \in Handlers, S!HandlerEnds(h),
         waiting' = waiting \/ (waiting = h /\ waiting' = NoHandler),
         UNCHANGED abandoned, NEW n \in SpoolNames
  PROVE  Paid(n)'
<1>1. /\ hpc \in [Handlers -> {"idle", "next", "second", "move"}]
      /\ hleft \in [Handlers -> SUBSET SpoolNames] /\ WaitInv
      /\ hcur \in [Handlers -> SpoolNames \cup {S!NoId}]
  BY DEF DroprInv, SP!ServerInv, SP!ServerTypes, S!NoId, SP!NoId
<1>2. /\ Pending(n)' \subseteq Pending(n) /\ (Risky(n)' => Risky(n))
      /\ UNCHANGED <<got, Stored>>
  BY <1>1, DroprAssumption DEF S!HandlerEnds, Pending, Risky, Stored, WaitInv
<1> QED
  BY <1>2, PaidQuiet

\* A request that is given up may bring in each of its messages once more.
LEMMA PaidGiveUp ==
  ASSUME DroprInv, GiveUp, UNCHANGED server, NEW n \in SpoolNames
  PROVE  Paid(n)'
<1>1. Paid(n) /\ WaitInv /\ SP!STypeOK
  BY DEF DroprInv, PaidInv, SP!ServerInv, SP!ServerTypes
<1>2. /\ UNCHANGED <<got, hleft, hpc, hcur, Stored>> /\ waiting' = NoHandler
      /\ abandoned'[n]
           = abandoned[n] + IF waiting # NoHandler /\ n \in group THEN 1 ELSE 0
  BY DEF GiveUp, server, Stored
<1>3. ~Risky(n)' /\ Pending(n)' \subseteq Pending(n) \cup {waiting}
  BY <1>2 DEF Risky, Pending
<1>4. CASE waiting # NoHandler /\ n \in hleft[waiting]
  <2>1. n \in group /\ waiting \notin Pending(n)
    BY <1>1, <1>4 DEF WaitInv, SP!STypeOK, Pending
  <2>2. /\ IsFiniteSet(Pending(n) \cup {waiting})
        /\ Cardinality(Pending(n) \cup {waiting}) = Cardinality(Pending(n)) + 1
    BY <2>1, PendingFinite, FS_AddElement
  <2>3. /\ Cardinality(Pending(n)') <= Cardinality(Pending(n)) + 1
        /\ Cardinality(Pending(n)') \in Nat
    BY <1>3, <2>2, FS_Subset, FS_CardinalityType
  <2>4. abandoned'[n] = abandoned[n] + 1
    BY <1>2, <1>4, <2>1
  <2> QED
    BY <1>1, <1>2, <1>3, <2>3, <2>4, PendingFinite DEF Paid
<1>5. CASE waiting = NoHandler \/ n \notin hleft[waiting]
  <2>1. Pending(n)' = Pending(n)
    BY <1>1, <1>2, <1>5, DroprAssumption DEF Pending, WaitInv
  <2>2. abandoned'[n] \in Nat /\ abandoned'[n] >= abandoned[n]
    BY <1>2, PendingFinite
  <2> QED
    BY <1>1, <1>2, <1>3, <2>1, <2>2, PendingFinite DEF Paid
<1> QED
  BY <1>4, <1>5

\* Arrivals stay paid for.
LEMMA PaidStep ==
  ASSUME DroprInv, DroprNext
  PROVE  PaidInv'
<1> SUFFICES ASSUME NEW n \in SpoolNames PROVE Paid(n)'
  BY UnfinishedStep DEF PaidInv, Unfinished
<1>1. SP!ServerInv /\ WaitInv /\ Stored \subseteq Stored'
  BY StepEffect DEF DroprInv
<1>2. CASE ClientStep
  BY <1>1, <1>2, PaidQuiet DEF ClientStep, server, Pending, Risky
<1>3. CASE ServerStep
  <2>1. UNCHANGED <<waiting, abandoned>>
    BY <1>3 DEF ServerStep
  <2>2. ASSUME NEW h \in Handlers, S!HandlerNext(h) PROVE Paid(n)'
    <3>1. CASE S!Put(h)
      BY <2>1, <3>1, PaidPut
    <3>2. CASE S!Refuse(h)
      BY <1>1, <2>1, <3>2, ThroughQuiet, PaidQuiet DEF S!Refuse
    <3>3. CASE S!HandlerDies(h)
      BY <2>1, <3>3, PaidEnds DEF S!HandlerDies
    <3> QED
      BY <2>2, <3>1, <3>2, <3>3 DEF S!HandlerNext
  <2>3. ASSUME S!ConsumerNext PROVE Paid(n)'
    <3>1. UNCHANGED <<hpc, hleft, hcur, got>> /\ done \subseteq done'
      BY <2>3 DEF S!ConsumerNext, S!List, S!Process, S!Mark, S!ConsumerDies,
                  S!handler
    <3>2. Pending(n)' = Pending(n) /\ (Risky(n)' => Risky(n))
      BY <2>1, <3>1 DEF Pending, Risky
    <3> QED
      BY <1>1, <2>1, <3>1, <3>2, PaidQuiet
  <2> QED
    BY <1>3, <2>2, <2>3 DEF ServerStep
<1>4. CASE RequestFails \/ DroprKilled
  BY <1>4, PaidGiveUp DEF RequestFails, DroprKilled
<1>5. ASSUME NEW h \in Handlers, Upload(h) PROVE Paid(n)'
  <2>1. /\ waiting = NoHandler /\ waiting' = h /\ UNCHANGED <<got, abandoned>>
        /\ hpc' = [hpc EXCEPT ![h] = "next"]
        /\ hleft' = [hleft EXCEPT ![h] = group]
    BY <1>5 DEF Upload, S!Begin
  <2>2. Pending(n)' \subseteq Pending(n) /\ ~Risky(n)'
    BY <1>1, <2>1, DroprAssumption
    DEF Pending, Risky, SP!ServerInv, SP!ServerTypes
  <2> QED
    BY <1>1, <2>1, <2>2, PaidQuiet
<1>6. ASSUME NEW h \in Handlers, Answer(h) PROVE Paid(n)'
  BY <1>6, PaidEnds DEF Answer, S!Reply
<1>7. ASSUME NEW h \in Handlers, LateAnswer(h) PROVE Paid(n)'
  BY <1>7, PaidEnds DEF LateAnswer, S!Reply
<1> QED
  BY <1>2, <1>3, <1>4, <1>5, <1>6, <1>7 DEF DroprNext

-----------------------------------------------------------------------------
(* Theorems.                                                               *)

\* The invariant holds initially.
LEMMA DroprInitInv == DroprInit => DroprInv
<1> SUFFICES ASSUME DroprInit PROVE DroprInv
  OBVIOUS
<1>1. ClientInv
  BY ClientInitInv DEF DroprInit
<1>2. SP!ServerInv
  <2>1. SP!ServerAssumption
    BY ServerAssumed
  <2>2. SP!SInit => SP!ServerInv
    BY <2>1, SP!ServerInitInv
  <2> QED
    BY <2>2, ServerSteps DEF DroprInit
<1>3. /\ spool = {} /\ done = {} /\ acked = {} /\ confirmed = {}
      /\ waiting = NoHandler /\ abandoned = [n \in SpoolNames |-> 0]
      /\ hreq = [h \in Handlers |-> {}] /\ hleft = [h \in Handlers |-> {}]
      /\ got = [n \in SpoolNames |-> 0]
  BY DEF DroprInit, CInit, S!SInit
<1>4. WaitInv /\ StoredInv /\ OriginInv
  BY <1>3 DEF WaitInv, StoredInv, OriginInv, Stored
<1>5. /\ {h \in Handlers : hleft[h] # {}} = {}
      /\ \A n \in SpoolNames : Pending(n) = {} /\ ~Risky(n)
      /\ IsFiniteSet({}) /\ Cardinality({}) = 0
  BY <1>3, FS_EmptySet DEF Pending, Risky
<1>6. PaidInv
  <2>1. ASSUME NEW n \in SpoolNames PROVE Paid(n)
    <3>1. Cardinality(Pending(n)) = 0 /\ ~Risky(n)
      BY <1>5
    <3> QED
      BY <1>3, <3>1 DEF Paid
  <2> QED
    BY <1>5, <2>1 DEF PaidInv
<1> QED
  BY <1>1, <1>2, <1>4, <1>6 DEF DroprInv

\* Every step, and every stutter, preserves it.
LEMMA DroprNextInv == DroprInv /\ [DroprNext]_dvars => DroprInv'
<1>1. ASSUME DroprInv, DroprNext PROVE DroprInv'
  BY <1>1, HalvesStep, WaitStep, StoredStep, OriginStep, PaidStep DEF DroprInv
<1>2. ASSUME DroprInv, UNCHANGED dvars PROVE DroprInv'
  <2>1. ClientInv'
    BY <1>2, ClientNextInv DEF DroprInv, dvars
  <2>2. UNCHANGED SP!svars
    BY <1>2 DEF dvars, server, SP!svars, SP!handler, SP!consumer
  <2>3. SP!ServerInv'
    <3>1. SP!ServerAssumption
      BY ServerAssumed
    <3>2. SP!ServerInv /\ [SP!SNext]_(SP!svars) => SP!ServerInv'
      BY <3>1, SP!ServerNextInv
    <3> QED
      BY <1>2, <2>2, <3>2 DEF DroprInv
  <2>4. WaitInv' /\ StoredInv' /\ OriginInv' /\ PaidInv'
    BY <1>2
    DEF dvars, cvars, server, DroprInv, WaitInv, StoredInv, OriginInv, PaidInv,
        Paid, Pending, Risky, Stored, MovedNames, Moved
  <2> QED
    BY <2>1, <2>3, <2>4 DEF DroprInv
<1> QED
  BY <1>1, <1>2

\* Client and server together satisfy the invariant.
THEOREM DroprInvariance == DroprSpec => []DroprInv
BY DroprInitInv, DroprNextInv, PTL DEF DroprSpec

\* What the client files as sent is stored at its peer, however requests fail
\* and whichever process dies.
THEOREM SentIsStored == DroprSpec => []SentMeansStored
<1>1. DroprInv => SentMeansStored
  BY DEF DroprInv, StoredInv, Stored, SentMeansStored
<1> QED
  BY <1>1, DroprInvariance, PTL

\* A message comes in more than once only for requests that were given up.
THEOREM DuplicatesArePaidFor == DroprSpec => []DuplicatesNeedAbandonment
<1>1. DroprInv => DuplicatesNeedAbandonment
  <2> SUFFICES ASSUME DroprInv, NEW n \in SpoolNames
               PROVE  got[n] <= 1 + abandoned[n]
    BY DEF DuplicatesNeedAbandonment
  <2> QED
    BY PendingFinite DEF DroprInv, PaidInv, Paid
<1> QED
  BY <1>1, DroprInvariance, PTL

-----------------------------------------------------------------------------
(* Client and server implement Delivery.                                   *)

\* A message whose file the peer has is one that was saved.
LEMMA QueuedIsMoved ==
  ASSUME DroprInv, ~ClockRaces, NEW m \in Messages, pname[m] \in Stored
  PROVE  m \in Moved
<1>1. PICK k \in Moved : pname[m] = pname[k]
  BY DEF DroprInv, OriginInv, MovedNames
<1>2. k \in Messages /\ ppc[k] # "new"
  BY DEF Moved
<1>3. pname[k] # NoName
  BY <1>2, SMTT(30) DEF DroprInv, ClientInv, NameInv, NoName, NameOf
<1>4. ppc[m] # "new"
  BY <1>1, <1>3 DEF DroprInv, ClientInv, NameInv
<1> QED
  BY <1>1, <1>2, <1>4 DEF DroprInv, ClientInv, UniqueInv

\* The stage of a message, from the history of its saves, and from what is
\* stored and sent.
LEMMA StageIs ==
  DroprInv /\ ~ClockRaces =>
    \A m \in Messages :
      Stage(m) = IF m \notin Moved THEN "new"
                 ELSE IF m \in confirmed THEN "sent"
                 ELSE IF pname[m] \in Stored THEN "queued" ELSE "spooled"
<1> SUFFICES ASSUME DroprInv, ~ClockRaces, NEW m \in Messages
             PROVE  Stage(m) = IF m \notin Moved THEN "new"
                               ELSE IF m \in confirmed THEN "sent"
                               ELSE IF pname[m] \in Stored THEN "queued"
                               ELSE "spooled"
  OBVIOUS
<1>1. confirmed \subseteq Moved /\ (pname[m] \in Stored => m \in Moved)
  BY QueuedIsMoved DEF DroprInv, ClientInv, NameInv
<1>2. m \in Moved \ confirmed => m \in Contents(proc)
  BY DEF DroprInv, ClientInv, UniqueInv, Contents
<1> QED
  BY <1>1, <1>2 DEF Stage, Stored

\* What brings one message, and no other, from one stage to another.
LEMMA AdvanceIs ==
  ASSUME NEW m \in Messages, NEW from, NEW to,
         Stage(m) = from, Stage(m)' = to,
         \A k \in Messages : k # m => Stage(k)' = Stage(k)
  PROVE  D!Advance(m, from, to)
BY DEF D!Advance

\* What leaves every message at its stage.
LEMMA SameStage ==
  ASSUME DroprInv, DroprInv', ~ClockRaces,
         UNCHANGED <<Moved, confirmed, Stored>>,
         \A m \in Moved : pname'[m] = pname[m]
  PROVE  UNCHANGED [m \in Messages |-> Stage(m)]
<1>1. (DroprInv /\ ~ClockRaces =>
        \A m \in Messages :
          Stage(m) = IF m \notin Moved THEN "new"
                     ELSE IF m \in confirmed THEN "sent"
                     ELSE IF pname[m] \in Stored THEN "queued" ELSE "spooled")'
  BY StageIs, PTL
<1>2. \A m \in Messages : Stage(m)' = Stage(m)
  BY <1>1, StageIs
<1> QED
  BY <1>2

\* The stages of the messages, as the refinement mapping has them.
Stages == [m \in Messages |-> Stage(m)]

\* A step that saves, delivers or confirms advances one message by one stage,
\* and every other step leaves all stages alone.
LEMMA StageStep ==
  ASSUME DroprInv, DroprInv', ~ClockRaces, DroprNext
  PROVE  D!DNext \/ UNCHANGED Stages
<1> DEFINE At(m) == IF m \notin Moved THEN "new"
                    ELSE IF m \in confirmed THEN "sent"
                    ELSE IF pname[m] \in Stored THEN "queued" ELSE "spooled"
<1>1. \A m \in Messages : Stage(m) = At(m) /\ Stage(m)' = At(m)'
  <2>1. (DroprInv /\ ~ClockRaces => \A m \in Messages : Stage(m) = At(m))'
    BY StageIs, PTL
  <2> QED
    BY <2>1, StageIs
<1>2. /\ ClientInv /\ ClientTypes /\ MemoryInv /\ NameInv /\ UniqueInv
      /\ confirmed \subseteq Moved /\ Moved \subseteq Messages
      /\ SP!ServerInv /\ StoredInv /\ OriginInv
  BY DEF DroprInv, ClientInv, NameInv, Moved
<1>3. \A m \in Moved : pname'[m] = pname[m]
  BY <1>2, ClientPart, ClientEffect
<1>4. ASSUME UNCHANGED <<Moved, confirmed, Stored>> PROVE UNCHANGED Stages
  BY <1>3, <1>4, SameStage DEF Stages
<1>5. ASSUME NEW m \in Messages, SaveRename(m), UNCHANGED Stored PROVE D!DNext
  <2>1. /\ Moved' = Moved \cup {m} /\ m \notin Moved
        /\ UNCHANGED <<confirmed, pname>>
    BY <1>2, <1>5 DEF SaveRename, Moved, ClientTypes
  <2>2. m \notin confirmed /\ pname[m] \notin Stored
    BY <1>2, <2>1, QueuedIsMoved
  <2>3. D!Advance(m, "new", "spooled")
    BY <1>1, <1>5, <2>1, <2>2, AdvanceIs
  <2> QED
    BY <2>3 DEF D!DNext, D!Accept
<1>6. ASSUME CheckRename, UNCHANGED Stored PROVE D!DNext
  <2>1. PICK n \in acked :
          n \in DOMAIN proc /\ confirmed' = confirmed \cup {proc[n]}
    BY <1>2, <1>6, CheckRenameEffect
  <2>2. /\ proc[n] \in Moved /\ proc[n] \notin confirmed /\ pname[proc[n]] = n
        /\ n \in Stored /\ UNCHANGED <<pname, Moved>>
    BY <1>2, <1>6, <2>1
    DEF CheckRename, producer, Moved, NameInv, UniqueInv, StoredInv
  <2>3. D!Advance(proc[n], "queued", "sent")
    BY <1>1, <1>2, <1>6, <2>1, <2>2, AdvanceIs
  <2> QED
    BY <1>2, <2>2, <2>3 DEF D!DNext, D!Confirm
<1>7. ASSUME NEW h \in Handlers, S!Move(h), UNCHANGED cvars
      PROVE  D!DNext \/ UNCHANGED Stages
  <2>1. /\ Stored' = Stored \cup {hcur[h]} /\ hcur[h] \in MovedNames
        /\ UNCHANGED <<pname, Moved, confirmed>>
    BY <1>2, <1>7 DEF S!Move, Stored, cvars, Moved, OriginInv,
                      SP!ServerInv, SP!ServerTypes, SP!STypeOK
  <2>2. PICK m \in Moved : pname[m] = hcur[h]
    BY <2>1 DEF MovedNames
  <2>3. CASE hcur[h] \in Stored
    BY <1>4, <2>1, <2>3
  <2>4. CASE hcur[h] \notin Stored
    <3>1. m \notin confirmed
      BY <1>2, <2>2, <2>4 DEF StoredInv
    <3>2. \A k \in Moved : k # m => pname[k] # hcur[h]
      BY <1>2, <2>2 DEF UniqueInv, Moved
    <3>3. D!Advance(m, "spooled", "queued")
      BY <1>1, <1>2, <2>1, <2>2, <2>4, <3>1, <3>2, AdvanceIs
    <3> QED
      BY <1>2, <3>3 DEF D!DNext, D!Deliver
  <2> QED
    BY <2>3, <2>4
<1>8. ASSUME UNCHANGED Stored, UNCHANGED ppc, UNCHANGED confirmed
      PROVE  UNCHANGED Stages
  BY <1>4, <1>8 DEF Moved
<1>9. CASE ClientStep
  <2>1. UNCHANGED Stored
    BY <1>9 DEF ClientStep, server, Stored
  <2>2. ASSUME NEW m \in Messages, SaveOpen(m) \/ Check(m) \/ Notify(m) \/ PutDies(m)
        PROVE  UNCHANGED <<Moved, confirmed>>
    BY <1>2, <2>2 DEF SaveOpen, Check, Checked, Notify, PutDies, Moved, ClientTypes
  <2>3. ASSUME Scan \/ Send \/ CheckDone \/ BatchDone \/ WakeByToken
               \/ WakeByAlarm \/ LifeEnds \/ WipeSent
        PROVE  UNCHANGED <<ppc, confirmed>>
    BY <2>3 DEF Scan, Send, CheckDone, BatchDone, WakeByToken, WakeByAlarm,
                LifeEnds, WipeSent, producer
  <2>4. ASSUME NEW p \in Peers, BlacklistDue(p)
        PROVE  UNCHANGED <<ppc, confirmed>>
    BY <2>4 DEF BlacklistDue, producer
  <2> QED
    BY <1>4, <1>5, <1>6, <1>8, <1>9, <2>1, <2>2, <2>3, <2>4
    DEF ClientStep, Put, QueueStep
<1>10. CASE RequestFails \/ DroprKilled
  BY <1>8, <1>10
  DEF RequestFails, DroprKilled, SendFails, Killed, producer, server, Stored
<1>11. CASE ServerStep
  <2>1. UNCHANGED cvars /\ UNCHANGED <<ppc, confirmed>>
    BY <1>11 DEF ServerStep, cvars
  <2>2. ASSUME NEW h \in Handlers, S!HandlerNext(h)
        PROVE  S!Move(h) \/ UNCHANGED Stored
    BY <2>2 DEF S!HandlerNext, S!Put, S!CheckProc, S!CheckDone, S!MoveFails,
                S!Refuse, S!HandlerDies, S!HandlerEnds, S!LookIn, Stored
  <2>3. ASSUME S!ConsumerNext PROVE UNCHANGED Stored
    BY <1>2, <2>3
    DEF S!ConsumerNext, S!List, S!Process, S!Mark, S!ConsumerDies, S!First,
        Stored, SP!ServerInv, SP!UsedInv
  <2> QED
    BY <1>7, <1>8, <1>11, <2>1, <2>2, <2>3 DEF ServerStep
<1>12. ASSUME NEW h \in Handlers, Upload(h) \/ Answer(h) \/ LateAnswer(h)
       PROVE  UNCHANGED Stages
  BY <1>8, <1>12 DEF Upload, Answer, LateAnswer, Result, S!Begin, S!Reply,
                     S!HandlerEnds, producer, cvars, Stored
<1> QED
  BY <1>9, <1>10, <1>11, <1>12 DEF DroprNext

\* Client and server implement Delivery, unless two saves get one time stamp.
THEOREM DeliveryIsImplemented == ~ClockRaces => (DroprSpec => KeepsPromise)
<1> SUFFICES ASSUME ~ClockRaces PROVE DroprSpec => KeepsPromise
  OBVIOUS
<1>1. DroprInit => D!DInit
  <2> SUFFICES ASSUME DroprInit PROVE \A m \in Messages : Stage(m) = "new"
    BY DEF D!DInit
  <2>1. DroprInv /\ Moved = {}
    BY DroprInitInv DEF DroprInit, CInit, Moved
  <2> QED
    BY <2>1, StageIs
<1>2. DroprInv /\ DroprInv' /\ [DroprNext]_dvars => [D!DNext]_Stages
  <2>1. ASSUME DroprInv, DroprInv', UNCHANGED dvars PROVE UNCHANGED Stages
    BY <2>1
    DEF dvars, cvars, server, Stages, Stage, Moved, Contents
  <2> QED
    BY <2>1, StageStep
<1> QED
  BY <1>1, <1>2, DroprInvariance, PTL
  DEF DroprSpec, KeepsPromise, D!DSpec, Stages
=============================================================================
