-------------------------- MODULE DroprClientProofs --------------------------
(***************************************************************************)
(* Safety of the dropr client for every number of messages and peers,      *)
(* every batch size and life span, and however often the queue process is  *)
(* killed.  What depends on the clock is proved for a clock that does not  *)
(* give one time stamp to two saves that do not overlap.                   *)
(***************************************************************************)
EXTENDS DroprClient, FiniteSetTheorems, TLAPS

-----------------------------------------------------------------------------
(* The inductive invariant.                                                *)

\* A directory maps names to messages.
Directory(d) == DOMAIN d \subseteq Names /\ d \in [DOMAIN d -> Messages]

\* The types, without the upper bound on the counter.
ClientTypes ==
  /\ Directory(inbox) /\ Directory(proc) /\ Directory(sent)
  /\ IsFiniteSet(DOMAIN proc)
  /\ ppc \in [Messages -> {"new", "open", "saved", "notify", "done", "died",
                           "mute"}]
  /\ pname \in [Messages -> Names \cup {NoName}]
  /\ tokens \in Nat /\ racing \in Nat
  /\ cpc \in {"loop", "next", "sending", "check", "sleep"}
  /\ black \in [Peers -> {"no", "yes", "due"}]
  /\ count \in Nat
  /\ kills \in 0 .. MaxKills
  /\ confirmed \subseteq Messages

\* What the queue process holds in memory at each step is still in proc/.
MemoryInv ==
  /\ acked \subseteq group \cap DOMAIN proc
  /\ batch \subseteq DOMAIN proc /\ batch \cap group = {}
  /\ cpc = "sending" => group \subseteq DOMAIN proc
  /\ cpc \in {"loop", "sleep"} => batch = {}
  /\ cpc \in {"loop", "sleep", "next"} => group = {}
  /\ cpc # "check" => acked = {}

\* Names that $msgCount will count before the loop condition is looked at again.
Uncounted == batch \cup (IF cpc = "sending" THEN group ELSE {})

\* One batch at most is counted beyond $maxMessagesPerLife.
CountInv == count + Cardinality(Uncounted) <= MaxPerLife + MaxPerSend - 1

\* Each program that has found room still adds a token; the last one to find it
\* saw fewer tokens than the limit.
RaceInv ==
  /\ IsFiniteSet(Notifying)
  /\ tokens + Cardinality(Notifying) <= TokenLimit - 1 + racing

\* A file has the name its program chose, until it is sent.
NameInv ==
  /\ \A n \in DOMAIN inbox :
       ppc[inbox[n]] \in {"open", "died"} /\ pname[inbox[n]] = n
  /\ \A m \in Messages : ppc[m] \in {"open", "died"} =>
       pname[m] \in DOMAIN inbox /\ inbox[pname[m]] = m
  /\ \A n \in DOMAIN proc : proc[n] \in Moved /\ pname[proc[n]] = n
  /\ \A n \in DOMAIN sent : sent[n] \in confirmed /\ pname[sent[n]] = n
  /\ \A m \in Messages : IF ppc[m] = "new" THEN pname[m] = NoName
       ELSE \E t \in Stamps : pname[m] = NameOf(m, t)
  /\ confirmed \subseteq Moved

\* Without clock races a name belongs to one message, which is either in proc/
\* under that name or sent.
UniqueInv ==
  /\ \A m, k \in Messages :
       ppc[m] # "new" /\ ppc[k] # "new" /\ pname[m] = pname[k] => m = k
  /\ \A m \in Moved \ confirmed : pname[m] \in DOMAIN proc /\ proc[pname[m]] = m
  /\ \A m \in confirmed : pname[m] \notin DOMAIN proc

ClientInv ==
  /\ ClientTypes /\ MemoryInv /\ CountInv /\ RaceInv /\ NameInv /\ NoLostWakeup
  /\ ~ClockRaces => UniqueInv

-----------------------------------------------------------------------------
(* The directory order.                                                    *)

\* File names are ordered strictly and totally.
LEMMA BeforeIsOrder ==
  /\ \A a \in Names : ~Before(a, a)
  /\ \A a, b \in Names : a = b \/ Before(a, b) \/ Before(b, a)
  /\ \A a, b, c \in Names : Before(a, b) /\ Before(b, c) => Before(a, c)
<1>1. \A a \in Names : /\ a = <<a[1], a[2], a[3]>>
                       /\ a[1] \in Int /\ a[2] \in Int /\ a[3] \in Peers
                       /\ PeerRank[a[3]] \in Int
  <2> TAKE a \in Names
  <2>1. /\ a = <<a[1], a[2], a[3]>>
        /\ a[1] \in 0 .. 9 /\ a[2] \in Stamps /\ a[3] \in Peers
    BY DEF Names
  <2>2. PeerRank[a[3]] \in Int /\ a[2] \in Int
    BY <2>1, ClientAssumption
  <2> QED
    BY <2>1, <2>2
<1>2. ASSUME NEW a \in Names, NEW b \in Names,
             a[1] = b[1], a[2] = b[2], PeerRank[a[3]] = PeerRank[b[3]]
      PROVE  a = b
  <2>1. a[3] = b[3]
    BY <1>1, <1>2, ClientAssumption
  <2>2. a = <<b[1], b[2], b[3]>>
    BY <1>1, <1>2, <2>1
  <2> QED
    BY <1>1, <2>2
<1>3. \A a \in Names : ~Before(a, a)
  BY <1>1 DEF Before
<1>4. \A a, b \in Names : a = b \/ Before(a, b) \/ Before(b, a)
  BY <1>1, <1>2 DEF Before
<1>5. \A a, b, c \in Names : Before(a, b) /\ Before(b, c) => Before(a, c)
  BY <1>1 DEF Before
<1> QED
  BY <1>3, <1>4, <1>5

\* The names a directory lists before n.
Earlier(S, n) == {x \in S : Before(x, n)}

\* A name listed before another has fewer names before it.
LEMMA EarlierShrinks ==
  ASSUME NEW S \in SUBSET Names, NEW n \in S, NEW x \in Earlier(S, n)
  PROVE  Earlier(S, x) \subseteq Earlier(S, n) /\ Earlier(S, x) # Earlier(S, n)
BY BeforeIsOrder DEF Earlier

\* There are finitely many of them in a directory.
LEMMA EarlierFinite ==
  ASSUME NEW S, IsFiniteSet(S), NEW n
  PROVE  /\ IsFiniteSet(Earlier(S, n)) /\ Cardinality(Earlier(S, n)) \in Nat
         /\ Earlier(S, n) \subseteq S
BY FS_Subset, FS_CardinalityType DEF Earlier

\* The first k names are at most k: they differ in how many come before them.
LEMMA FirstBounded ==
  ASSUME NEW S \in SUBSET Names, IsFiniteSet(S), NEW k \in Nat
  PROVE  /\ First(S, k) \subseteq S
         /\ IsFiniteSet(First(S, k)) /\ Cardinality(First(S, k)) <= k
<1> DEFINE rank == [n \in First(S, k) |-> Cardinality(Earlier(S, n))]
<1>1. First(S, k) \subseteq S
  BY DEF First
<1>2. rank \in [First(S, k) -> 0 .. k - 1]
  BY EarlierFinite DEF First, Earlier
<1>3. ASSUME NEW a \in First(S, k), NEW b \in First(S, k), rank[a] = rank[b]
      PROVE  a = b
  <2>1. ASSUME NEW x \in S, NEW n \in S, Before(x, n),
               Cardinality(Earlier(S, x)) = Cardinality(Earlier(S, n))
        PROVE  FALSE
    <3>1. x \in Earlier(S, n)
      BY <2>1 DEF Earlier
    <3> QED
      BY <2>1, <3>1, EarlierShrinks, EarlierFinite, FS_Subset
  <2> QED
    BY <1>1, <1>3, <2>1, BeforeIsOrder
<1>4. rank \in Injection(First(S, k), 0 .. k - 1)
  BY <1>2, <1>3 DEF Injection, IsInjective
<1>5. IsFiniteSet(0 .. k - 1) /\ Cardinality(0 .. k - 1) = k
  BY FS_Interval
<1> QED
  BY <1>1, <1>4, <1>5, FS_Injection

\* A directory that is not empty has a first name.
LEMMA FirstExists ==
  ASSUME NEW S \in SUBSET Names, IsFiniteSet(S), S # {}, NEW k \in Nat \ {0}
  PROVE  First(S, k) # {}
<1> DEFINE T == {Earlier(S, n) : n \in S}
<1>1. T \subseteq FiniteSubsetsOf(S) /\ T # {}
  BY EarlierFinite DEF FiniteSubsetsOf
<1>2. PICK t \in T : \A u \in T : <<u, t>> \notin StrictSubsetOrdering(S)
  BY <1>1, FS_StrictSubsetOrderingWellFounded, WFMin
<1>3. PICK n \in S : t = Earlier(S, n)
  OBVIOUS
<1>4. ASSUME NEW x \in Earlier(S, n) PROVE FALSE
  <2>1. x \in S /\ Earlier(S, x) \in T
    BY <1>4, EarlierFinite
  <2>2. <<Earlier(S, x), t>> \in StrictSubsetOrdering(S)
    BY <1>3, <1>4, EarlierShrinks, EarlierFinite DEF StrictSubsetOrdering
  <2> QED
    BY <1>2, <2>1, <2>2
<1>5. Cardinality(Earlier(S, n)) = 0
  BY <1>4, FS_EmptySet
<1>6. n \in First(S, k)
  BY <1>5 DEF First, Earlier
<1> QED
  BY <1>6

-----------------------------------------------------------------------------
(* Directories.                                                            *)

\* A rename into a directory adds or replaces one entry ...
LEMMA WithEntry ==
  ASSUME NEW d, Directory(d), NEW n \in Names, NEW m \in Messages
  PROVE  /\ Directory(With(d, n, m))
         /\ DOMAIN With(d, n, m) = DOMAIN d \cup {n}
         /\ With(d, n, m)[n] = m
         /\ \A x \in DOMAIN d : x # n => With(d, n, m)[x] = d[x]
BY DEF With, Directory

\* ... and one out of it removes the entry.
LEMMA WithoutEntry ==
  ASSUME NEW d, Directory(d), NEW n
  PROVE  /\ Directory(Without(d, n))
         /\ DOMAIN Without(d, n) = DOMAIN d \ {n}
         /\ \A x \in DOMAIN d : x # n => Without(d, n)[x] = d[x]
BY DEF Without, Directory

\* The name of a message has the form of a name.
LEMMA NameIsName ==
  ASSUME NEW m \in Messages, NEW t \in Stamps
  PROVE  NameOf(m, t) \in Names
BY ClientAssumption DEF NameOf, Names

\* fopen() makes one new file in in/ under a name that was not there.
LEMMA SaveOpenEffect ==
  ASSUME ClientTypes, NEW m \in Messages, SaveOpen(m)
  PROVE  \E n \in Names :
           /\ \E t \in Stamps : n = NameOf(m, t)
           /\ n \notin DOMAIN inbox
           /\ ~ClockRaces => n \notin {pname[k] : k \in Moved}
           /\ pname' = [pname EXCEPT ![m] = n]
           /\ Directory(inbox') /\ DOMAIN inbox' = DOMAIN inbox \cup {n}
           /\ inbox'[n] = m
           /\ \A x \in DOMAIN inbox : inbox'[x] = inbox[x]
<1>1. PICK t \in Stamps :
        LET n == NameOf(m, t) IN
          /\ n \notin DOMAIN inbox
          /\ ClockRaces \/ n \notin {pname[k] : k \in Moved}
          /\ inbox' = With(inbox, n, m)
          /\ pname' = [pname EXCEPT ![m] = n]
  BY DEF SaveOpen
<1>2. NameOf(m, t) \in Names /\ Directory(inbox)
  BY NameIsName DEF ClientTypes
<1>3. /\ Directory(inbox') /\ DOMAIN inbox' = DOMAIN inbox \cup {NameOf(m, t)}
      /\ inbox'[NameOf(m, t)] = m
      /\ \A x \in DOMAIN inbox : x # NameOf(m, t) => inbox'[x] = inbox[x]
  BY <1>1, <1>2, WithEntry
<1> QED
  BY <1>1, <1>2, <1>3

\* The rename of saveMessage() takes it to proc/ under the same name ...
LEMMA SaveRenameEffect ==
  ASSUME ClientTypes, NameInv, NEW m \in Messages, SaveRename(m)
  PROVE  /\ pname[m] \in Names
         /\ Directory(inbox') /\ DOMAIN inbox' = DOMAIN inbox \ {pname[m]}
         /\ \A x \in DOMAIN inbox' : inbox'[x] = inbox[x]
         /\ Directory(proc') /\ DOMAIN proc' = DOMAIN proc \cup {pname[m]}
         /\ proc'[pname[m]] = m
         /\ \A x \in DOMAIN proc : x # pname[m] => proc'[x] = proc[x]
<1>1. pname[m] \in Names /\ Directory(inbox) /\ Directory(proc)
  BY NameIsName DEF SaveRename, NameInv, ClientTypes
<1>2. inbox' = Without(inbox, pname[m]) /\ proc' = With(proc, pname[m], m)
  BY DEF SaveRename
<1>3. /\ Directory(inbox') /\ DOMAIN inbox' = DOMAIN inbox \ {pname[m]}
      /\ \A x \in DOMAIN inbox : x # pname[m] => inbox'[x] = inbox[x]
  BY <1>1, <1>2, WithoutEntry
<1>4. /\ Directory(proc') /\ DOMAIN proc' = DOMAIN proc \cup {pname[m]}
      /\ proc'[pname[m]] = m
      /\ \A x \in DOMAIN proc : x # pname[m] => proc'[x] = proc[x]
  <2>1. ASSUME NEW n \in Names
        PROVE  /\ Directory(With(proc, n, m))
               /\ DOMAIN With(proc, n, m) = DOMAIN proc \cup {n}
               /\ With(proc, n, m)[n] = m
               /\ \A x \in DOMAIN proc : x # n => With(proc, n, m)[x] = proc[x]
    BY <1>1, WithEntry
  <2> QED
    BY <1>1, <1>2, <2>1
<1>5. \A x \in DOMAIN inbox' : inbox'[x] = inbox[x]
  BY <1>3
<1> QED
  BY <1>1, <1>3, <1>4, <1>5, Zenon

\* ... and that of checkSentMessages() from there to sent/.
LEMMA CheckRenameEffect ==
  ASSUME ClientTypes, MemoryInv, CheckRename
  PROVE  \E n \in acked :
           /\ n \in DOMAIN proc /\ n \in Names /\ proc[n] \in Messages
           /\ acked' = acked \ {n} /\ confirmed' = confirmed \cup {proc[n]}
           /\ Directory(sent') /\ DOMAIN sent' = DOMAIN sent \cup {n}
           /\ sent'[n] = proc[n]
           /\ \A x \in DOMAIN sent : x # n => sent'[x] = sent[x]
           /\ Directory(proc') /\ DOMAIN proc' = DOMAIN proc \ {n}
           /\ \A x \in DOMAIN proc' : proc'[x] = proc[x]
<1>1. PICK n \in First(acked, 1) :
        /\ sent' = With(sent, n, proc[n]) /\ proc' = Without(proc, n)
        /\ acked' = acked \ {n} /\ confirmed' = confirmed \cup {proc[n]}
  BY DEF CheckRename
<1>2. n \in acked /\ n \in DOMAIN proc /\ Directory(sent) /\ Directory(proc)
  BY DEF First, MemoryInv, ClientTypes
<1>3. n \in Names /\ proc[n] \in Messages
  BY <1>2 DEF Directory
<1>4. /\ Directory(sent') /\ DOMAIN sent' = DOMAIN sent \cup {n}
      /\ sent'[n] = proc[n]
      /\ \A x \in DOMAIN sent : x # n => sent'[x] = sent[x]
  BY <1>1, <1>2, <1>3, WithEntry, ZenonT(40)
<1>5. /\ Directory(proc') /\ DOMAIN proc' = DOMAIN proc \ {n}
      /\ \A x \in DOMAIN proc : x # n => proc'[x] = proc[x]
  BY <1>1, <1>2, WithoutEntry
<1> QED
  BY <1>1, <1>2, <1>3, <1>4, <1>5

-----------------------------------------------------------------------------
(* Each part of the invariant is preserved by every step.                  *)

\* A step of the client.  That the peer is one that answers plays no part.
AnyStep == CNext \/ \E ok \in SUBSET group : Result(ok)

\* The types survive every step.
LEMMA TypesStep ==
  ASSUME ClientInv, AnyStep
  PROVE  ClientTypes'
<1> USE ClientAssumption DEF dirs, producer, queue
<1>1. ClientTypes /\ MemoryInv /\ NameInv
  BY DEF ClientInv
<1>2. ASSUME NEW m \in Messages, SaveOpen(m) PROVE ClientTypes'
  <2>1. PICK n \in Names :
          Directory(inbox') /\ pname' = [pname EXCEPT ![m] = n]
    BY <1>1, <1>2, SaveOpenEffect
  <2> QED
    BY <1>1, <1>2, <2>1 DEF SaveOpen, ClientTypes
<1>3. ASSUME NEW m \in Messages, SaveRename(m) PROVE ClientTypes'
  <2>1. /\ Directory(inbox') /\ Directory(proc')
        /\ DOMAIN proc' = DOMAIN proc \cup {pname[m]}
    BY <1>1, <1>3, SaveRenameEffect
  <2>2. IsFiniteSet(DOMAIN proc')
    BY <1>1, <2>1, FS_AddElement DEF ClientTypes
  <2> QED
    BY <1>1, <1>3, <2>1, <2>2 DEF SaveRename, ClientTypes
<1>4. ASSUME NEW m \in Messages, Notify(m) \/ PutDies(m) PROVE ClientTypes'
  BY <1>1, <1>4 DEF Notify, PutDies, ClientTypes
<1>13. ASSUME NEW m \in Messages, Check(m) PROVE ClientTypes'
  <2>1. Notifying' \subseteq Notifying \cup {m}
    BY <1>1, <1>13 DEF Check, Checked, Notifying, ClientTypes
  <2>2. IsFiniteSet(Notifying \cup {m})
    BY FS_AddElement DEF ClientInv, RaceInv
  <2>3. Cardinality(Notifying') \in Nat
    BY <2>1, <2>2, FS_Subset, FS_CardinalityType
  <2>4. racing' \in Nat
    BY <1>1, <1>13, <2>3 DEF Check, Checked, ClientTypes
  <2>5. ppc' \in [Messages -> {"new", "open", "saved", "notify", "done", "died",
                              "mute"}]
    BY <1>1, <1>13 DEF Check, Checked, ClientTypes
  <2> QED
    BY <1>1, <1>13, <2>4, <2>5 DEF Check, Checked, ClientTypes
<1>5. CASE Scan
  BY <1>1, <1>5 DEF Scan, ClientTypes
<1>6. CASE Send \/ CheckDone \/ BatchDone \/ WakeByToken \/ WakeByAlarm
  BY <1>1, <1>6
  DEF Send, CheckDone, BatchDone, WakeByToken, WakeByAlarm, ClientTypes
<1>7. ASSUME NEW ok \in SUBSET group, Result(ok) PROVE ClientTypes'
  <2>1. IsFiniteSet(group)
    BY <1>1, <1>7, FS_Subset DEF Result, MemoryInv, ClientTypes
  <2>2. Cardinality(group) \in Nat
    BY <2>1, FS_CardinalityType
  <2> QED
    BY <1>1, <1>7, <2>2 DEF Result, ClientTypes
<1>8. CASE SendFails
  BY <1>1, <1>8 DEF SendFails, ClientTypes
<1>9. CASE CheckRename
  <2>1. PICK n \in acked :
          /\ proc[n] \in Messages /\ confirmed' = confirmed \cup {proc[n]}
          /\ Directory(sent') /\ Directory(proc')
          /\ DOMAIN proc' = DOMAIN proc \ {n}
    BY <1>1, <1>9, CheckRenameEffect
  <2>2. IsFiniteSet(DOMAIN proc')
    BY <1>1, <2>1, FS_RemoveElement DEF ClientTypes
  <2> QED
    BY <1>1, <1>9, <2>1, <2>2 DEF CheckRename, ClientTypes
<1>10. ASSUME NEW p \in Peers, BlacklistDue(p) PROVE ClientTypes'
  BY <1>1, <1>10 DEF BlacklistDue, ClientTypes
<1>11. CASE LifeEnds \/ Killed
  BY <1>1, <1>11 DEF LifeEnds, Killed, Fresh, ClientTypes
<1>12. CASE WipeSent
  <2>1. PICK n \in DOMAIN sent : sent' = Without(sent, n)
    BY <1>12 DEF WipeSent
  <2>2. Directory(sent')
    BY <1>1, <2>1, WithoutEntry DEF ClientTypes
  <2> QED
    BY <1>1, <1>12, <2>2 DEF WipeSent, ClientTypes
<1> QED
  BY <1>2, <1>3, <1>4, <1>5, <1>6, <1>7, <1>8, <1>9, <1>10, <1>11, <1>12,
     <1>13
  DEF AnyStep, CNext, Put, QueueStep

\* The queue process holds what is in proc/: nobody else takes files from there.
LEMMA MemoryStep ==
  ASSUME ClientInv, AnyStep
  PROVE  MemoryInv'
<1> USE DEF dirs, producer, queue
<1>1. ClientTypes /\ MemoryInv /\ NameInv
  BY DEF ClientInv
<1>2. ASSUME NEW m \in Messages, SaveOpen(m) \/ Check(m) \/ Notify(m) \/ PutDies(m)
      PROVE  MemoryInv'
  BY <1>1, <1>2 DEF SaveOpen, Check, Checked, Notify, PutDies, MemoryInv
<1>3. ASSUME NEW m \in Messages, SaveRename(m) PROVE MemoryInv'
  <2>1. DOMAIN proc' = DOMAIN proc \cup {pname[m]}
    BY <1>1, <1>3, SaveRenameEffect
  <2> QED
    BY <1>1, <1>3, <2>1 DEF SaveRename, MemoryInv
<1>4. CASE Scan
  <2>1. batch' \subseteq DOMAIN proc
    BY <1>4 DEF Scan, First
  <2> QED
    BY <1>1, <1>4, <2>1 DEF Scan, MemoryInv
<1>5. CASE Send
  BY <1>1, <1>5 DEF Send, MemoryInv
<1>6. CASE CheckDone \/ BatchDone \/ WakeByToken \/ WakeByAlarm \/ SendFails
  BY <1>1, <1>6
  DEF CheckDone, BatchDone, WakeByToken, WakeByAlarm, SendFails, MemoryInv
<1>7. ASSUME NEW ok \in SUBSET group, Result(ok) PROVE MemoryInv'
  BY <1>1, <1>7 DEF Result, MemoryInv
<1>8. CASE CheckRename
  <2>1. PICK n \in acked :
          acked' = acked \ {n} /\ DOMAIN proc' = DOMAIN proc \ {n}
    BY <1>1, <1>8, CheckRenameEffect
  <2> QED
    BY <1>1, <1>8, <2>1 DEF CheckRename, MemoryInv
<1>9. ASSUME NEW p \in Peers, BlacklistDue(p) PROVE MemoryInv'
  BY <1>1, <1>9 DEF BlacklistDue, MemoryInv
<1>10. CASE LifeEnds \/ Killed
  BY <1>1, <1>10 DEF LifeEnds, Killed, Fresh, MemoryInv
<1>11. CASE WipeSent
  BY <1>1, <1>11 DEF WipeSent, MemoryInv
<1> QED
  BY <1>2, <1>3, <1>4, <1>5, <1>6, <1>7, <1>8, <1>9, <1>10, <1>11
  DEF AnyStep, CNext, Put, QueueStep

\* The counter overshoots its limit by less than one batch.
LEMMA CountStep ==
  ASSUME ClientInv, AnyStep
  PROVE  CountInv'
<1> USE ClientAssumption DEF dirs, producer, queue
<1>1. ClientTypes /\ MemoryInv /\ CountInv
  BY DEF ClientInv
<1>2. /\ IsFiniteSet(Uncounted) /\ IsFiniteSet(batch)
      /\ Cardinality(Uncounted) \in Nat /\ count \in Nat
      /\ DOMAIN proc \subseteq Names /\ IsFiniteSet(DOMAIN proc)
  <2>1. Uncounted \subseteq DOMAIN proc /\ batch \subseteq DOMAIN proc
    BY <1>1 DEF Uncounted, MemoryInv
  <2>2. IsFiniteSet(Uncounted) /\ IsFiniteSet(batch)
    BY <1>1, <2>1, FS_Subset DEF ClientTypes
  <2> QED
    BY <1>1, <2>2, FS_CardinalityType DEF ClientTypes, Directory
<1>3. ASSUME Uncounted' \subseteq Uncounted, count' = count PROVE CountInv'
  <2>1. Cardinality(Uncounted') <= Cardinality(Uncounted)
    BY <1>2, <1>3, FS_Subset
  <2>2. Cardinality(Uncounted') \in Nat
    BY <1>2, <1>3, FS_Subset, FS_CardinalityType
  <2> QED
    BY <1>1, <1>2, <1>3, <2>1, <2>2 DEF CountInv
<1>4. ASSUME NEW m \in Messages, Put(m) PROVE CountInv'
  BY <1>3, <1>4
  DEF Put, SaveOpen, SaveRename, Check, Checked, Notify, PutDies, Uncounted
<1>5. CASE Scan
  <2>1. PICK S \in SUBSET DOMAIN proc : batch' = First(S, MaxPerSend)
    BY <1>5 DEF Scan
  <2>2. S \in SUBSET Names /\ IsFiniteSet(S)
    BY <1>2, FS_Subset
  <2>3. IsFiniteSet(batch') /\ Cardinality(batch') <= MaxPerSend
    BY <2>1, <2>2, FirstBounded
  <2>4. Uncounted' = batch' /\ count' = count /\ count < MaxPerLife
    BY <1>5 DEF Scan, Uncounted
  <2> QED
    BY <1>2, <2>3, <2>4, FS_CardinalityType DEF CountInv
<1>6. CASE Send
  <2>1. group' \subseteq batch
    BY <1>6 DEF Send
  <2> QED
    BY <1>3, <1>6, <2>1 DEF Send, Uncounted
<1>7. CASE SendFails \/ CheckRename \/ CheckDone \/ BatchDone
  BY <1>3, <1>7 DEF SendFails, CheckRename, CheckDone, BatchDone, Uncounted
<1>8. CASE WakeByToken \/ WakeByAlarm \/ WipeSent
  BY <1>3, <1>8 DEF WakeByToken, WakeByAlarm, WipeSent, Uncounted
<1>9. ASSUME NEW p \in Peers, BlacklistDue(p) PROVE CountInv'
  BY <1>3, <1>9 DEF BlacklistDue, Uncounted
<1>10. ASSUME NEW ok \in SUBSET group, Result(ok) PROVE CountInv'
  <2>1. Uncounted = batch \cup group /\ batch \cap group = {}
    BY <1>1, <1>10 DEF Result, Uncounted, MemoryInv
  <2>2. IsFiniteSet(group)
    BY <1>2, <2>1, FS_Subset
  <2>3. /\ Cardinality(batch) \in Nat /\ Cardinality(group) \in Nat
        /\ Cardinality(Uncounted) = Cardinality(batch) + Cardinality(group)
    <3>1. Cardinality(batch) \in Nat /\ Cardinality(group) \in Nat
      BY <1>2, <2>2, FS_CardinalityType
    <3>2. Cardinality(batch \cap group) = 0
      BY <2>1, FS_EmptySet
    <3>3. Cardinality(batch \cup group)
            = Cardinality(batch) + Cardinality(group)
              - Cardinality(batch \cap group)
      BY <1>2, <2>2, FS_Union
    <3> QED
      BY <2>1, <3>1, <3>2, <3>3
  <2>4. Uncounted' = batch /\ count' = count + Cardinality(group)
    BY <1>10 DEF Result, Uncounted
  <2> QED
    BY <1>1, <1>2, <2>3, <2>4 DEF CountInv
<1>11. CASE LifeEnds \/ Killed
  <2>1. Uncounted' = {} /\ count' = 0
    BY <1>11 DEF LifeEnds, Killed, Fresh, Uncounted
  <2> QED
    BY <2>1, FS_EmptySet DEF CountInv
<1> QED
  BY <1>4, <1>5, <1>6, <1>7, <1>8, <1>9, <1>10, <1>11
  DEF AnyStep, CNext, QueueStep

\* The queue passes its limit only by programs that were between check and send.
LEMMA RaceStep ==
  ASSUME ClientInv, AnyStep
  PROVE  RaceInv'
<1> USE ClientAssumption DEF dirs, producer, queue
<1>1. ClientTypes /\ RaceInv
  BY DEF ClientInv
<1>2. Cardinality(Notifying) \in Nat
  BY <1>1, FS_CardinalityType DEF RaceInv
<1>3. ASSUME UNCHANGED <<ppc, racing>>, tokens' \in Nat, tokens' <= tokens
      PROVE  RaceInv'
  <2>1. Notifying' = Notifying
    BY <1>3 DEF Notifying
  <2> QED
    BY <1>1, <1>2, <1>3, <2>1 DEF RaceInv, ClientTypes
<1>4. ASSUME NEW m \in Messages, Notifying' = Notifying,
             UNCHANGED <<racing, tokens>>
      PROVE  RaceInv'
  BY <1>1, <1>4 DEF RaceInv
<1>5. ASSUME NEW m \in Messages, SaveOpen(m) \/ SaveRename(m) PROVE RaceInv'
  <2>1. Notifying' = Notifying
    BY <1>1, <1>5 DEF SaveOpen, SaveRename, Notifying, ClientTypes
  <2> QED
    BY <1>4, <1>5, <2>1 DEF SaveOpen, SaveRename
<1>6. ASSUME NEW m \in Messages, Check(m) PROVE RaceInv'
  <2>1. CASE tokens < TokenLimit
    <3>1. m \notin Notifying /\ Notifying' = Notifying \cup {m}
      BY <1>1, <1>6, <2>1 DEF Check, Checked, Notifying, ClientTypes
    <3>2. IsFiniteSet(Notifying') /\ Cardinality(Notifying') \in Nat
      BY <1>1, <3>1, FS_AddElement, FS_CardinalityType DEF RaceInv
    <3>3. UNCHANGED tokens /\ Cardinality(Notifying') <= racing'
          /\ racing' \in Nat
      BY <1>1, <1>6, <3>2 DEF Check, Checked, ClientTypes
    <3> QED
      BY <1>1, <2>1, <3>2, <3>3 DEF RaceInv, ClientTypes
  <2>2. CASE ~(tokens < TokenLimit)
    <3>1. Notifying' = Notifying
      BY <1>1, <1>6, <2>2 DEF Check, Checked, Notifying, ClientTypes
    <3>2. UNCHANGED tokens /\ racing' >= racing /\ racing' \in Nat
      BY <1>1, <1>2, <1>6, <3>1 DEF Check, Checked, ClientTypes
    <3> QED
      BY <1>1, <1>2, <3>1, <3>2 DEF RaceInv, ClientTypes
  <2> QED
    BY <2>1, <2>2
<1>7. ASSUME NEW m \in Notifying, Notifying' = Notifying \ {m},
             UNCHANGED racing, tokens' \in {tokens, tokens + 1}
      PROVE  RaceInv'
  <2>1. /\ IsFiniteSet(Notifying')
        /\ Cardinality(Notifying') = Cardinality(Notifying) - 1
    BY <1>1, <1>7, FS_RemoveElement DEF RaceInv
  <2> QED
    BY <1>1, <1>2, <1>7, <2>1 DEF RaceInv, ClientTypes
<1>8. ASSUME NEW m \in Messages, Notify(m) PROVE RaceInv'
  <2>1. m \in Notifying /\ Notifying' = Notifying \ {m}
    BY <1>1, <1>8 DEF Notify, Notifying, ClientTypes
  <2> QED
    BY <1>7, <1>8, <2>1 DEF Notify
<1>9. ASSUME NEW m \in Messages, PutDies(m) PROVE RaceInv'
  <2>1. UNCHANGED <<racing, tokens>>
    BY <1>9 DEF PutDies
  <2>2. CASE ppc[m] = "notify"
    <3>1. m \in Notifying /\ Notifying' = Notifying \ {m}
      BY <1>1, <1>9, <2>2 DEF PutDies, Notifying, ClientTypes
    <3> QED
      BY <1>7, <2>1, <3>1
  <2>3. CASE ppc[m] # "notify"
    <3>1. Notifying' = Notifying
      BY <1>1, <1>9, <2>3 DEF PutDies, Notifying, ClientTypes
    <3> QED
      BY <1>4, <2>1, <3>1
  <2> QED
    BY <2>2, <2>3
<1>10. CASE WakeByToken
  BY <1>1, <1>3, <1>10 DEF WakeByToken, ClientTypes
<1>11. ASSUME UNCHANGED <<producer, tokens>> PROVE RaceInv'
  BY <1>1, <1>3, <1>11 DEF ClientTypes
<1>12. CASE \/ Scan \/ Send \/ CheckRename \/ CheckDone \/ BatchDone
            \/ WakeByAlarm \/ LifeEnds \/ SendFails \/ Killed \/ WipeSent
  BY <1>11, <1>12 DEF Scan, Send, CheckRename, CheckDone, BatchDone,
     WakeByAlarm, LifeEnds, SendFails, Killed, WipeSent
<1>13. ASSUME NEW ok \in SUBSET group, Result(ok) PROVE RaceInv'
  BY <1>11, <1>13 DEF Result
<1>14. ASSUME NEW p \in Peers, BlacklistDue(p) PROVE RaceInv'
  BY <1>11, <1>14 DEF BlacklistDue
<1> QED
  BY <1>5, <1>6, <1>8, <1>9, <1>10, <1>12, <1>13, <1>14
  DEF AnyStep, CNext, Put, QueueStep

\* Files keep the names their programs chose.
LEMMA NameStep ==
  ASSUME ClientInv, AnyStep
  PROVE  NameInv'
<1> USE DEF dirs, producer, queue
<1>1. ClientTypes /\ MemoryInv /\ NameInv
  BY DEF ClientInv
<1>2. ASSUME NEW m \in Messages, SaveOpen(m) PROVE NameInv'
  <2>1. PICK n \in Names :
          /\ \E t \in Stamps : n = NameOf(m, t)
          /\ n \notin DOMAIN inbox
          /\ pname' = [pname EXCEPT ![m] = n]
          /\ DOMAIN inbox' = DOMAIN inbox \cup {n} /\ inbox'[n] = m
          /\ \A x \in DOMAIN inbox : inbox'[x] = inbox[x]
    BY <1>1, <1>2, SaveOpenEffect
  <2>2. /\ ppc[m] = "new" /\ ppc' = [ppc EXCEPT ![m] = "open"]
        /\ UNCHANGED <<proc, sent, confirmed>>
    BY <1>2 DEF SaveOpen
  <2>3. Moved' = Moved /\ m \notin Moved
    BY <1>1, <2>2 DEF Moved, ClientTypes
  <2> QED
    BY <1>1, <2>1, <2>2, <2>3 DEF NameInv, ClientTypes, Directory
<1>3. ASSUME NEW m \in Messages, SaveRename(m) PROVE NameInv'
  <2>1. /\ pname[m] \in Names
        /\ DOMAIN inbox' = DOMAIN inbox \ {pname[m]}
        /\ \A x \in DOMAIN inbox' : inbox'[x] = inbox[x]
        /\ DOMAIN proc' = DOMAIN proc \cup {pname[m]} /\ proc'[pname[m]] = m
        /\ \A x \in DOMAIN proc : x # pname[m] => proc'[x] = proc[x]
    BY <1>1, <1>3, SaveRenameEffect
  <2>2. /\ ppc[m] = "open" /\ ppc' = [ppc EXCEPT ![m] = "saved"]
        /\ UNCHANGED <<sent, pname, confirmed>>
    BY <1>3 DEF SaveRename
  <2>3. Moved' = Moved \cup {m}
    BY <1>1, <2>2 DEF Moved, ClientTypes
  <2> QED
    BY <1>1, <2>1, <2>2, <2>3 DEF NameInv, ClientTypes, Directory
<1>4. ASSUME NEW m \in Messages, Check(m) \/ Notify(m) \/ PutDies(m) PROVE NameInv'
  <2>1. /\ Moved' = Moved
        /\ \A k \in Messages :
             /\ ppc[k] \in {"open", "died"} <=> ppc'[k] \in {"open", "died"}
             /\ ppc[k] = "new" <=> ppc'[k] = "new"
    BY <1>1, <1>4 DEF Check, Checked, Notify, PutDies, Moved, ClientTypes
  <2>2. UNCHANGED <<inbox, proc, sent, pname, confirmed>>
    BY <1>4 DEF Check, Checked, Notify, PutDies
  <2> QED
    BY <1>1, <2>1, <2>2 DEF NameInv, ClientTypes, Directory
<1>5. ASSUME UNCHANGED <<inbox, proc, sent, ppc, pname, confirmed>>
      PROVE  NameInv'
  BY <1>1, <1>5 DEF NameInv, Moved
<1>6. CASE Scan \/ Send \/ SendFails \/ CheckDone \/ BatchDone
  BY <1>5, <1>6 DEF Scan, Send, SendFails, CheckDone, BatchDone
<1>7. CASE WakeByToken \/ WakeByAlarm \/ LifeEnds \/ Killed
  BY <1>5, <1>7 DEF WakeByToken, WakeByAlarm, LifeEnds, Killed
<1>8. ASSUME NEW ok \in SUBSET group, Result(ok) PROVE NameInv'
  BY <1>5, <1>8 DEF Result
<1>9. ASSUME NEW p \in Peers, BlacklistDue(p) PROVE NameInv'
  BY <1>5, <1>9 DEF BlacklistDue
<1>10. CASE CheckRename
  <2>1. PICK n \in acked :
          /\ n \in DOMAIN proc /\ confirmed' = confirmed \cup {proc[n]}
          /\ DOMAIN sent' = DOMAIN sent \cup {n} /\ sent'[n] = proc[n]
          /\ \A x \in DOMAIN sent : x # n => sent'[x] = sent[x]
          /\ DOMAIN proc' = DOMAIN proc \ {n}
          /\ \A x \in DOMAIN proc' : proc'[x] = proc[x]
    BY <1>1, <1>10, CheckRenameEffect
  <2>2. UNCHANGED <<inbox, ppc, pname, Moved>>
    BY <1>10 DEF CheckRename, Moved
  <2> QED
    BY <1>1, <2>1, <2>2 DEF NameInv
<1>11. CASE WipeSent
  <2>1. PICK n \in DOMAIN sent : sent' = Without(sent, n)
    BY <1>11 DEF WipeSent
  <2>2. /\ DOMAIN sent' = DOMAIN sent \ {n}
        /\ \A x \in DOMAIN sent' : sent'[x] = sent[x]
    BY <1>1, <2>1, WithoutEntry, ZenonT(40) DEF ClientTypes
  <2>3. UNCHANGED <<inbox, proc, ppc, pname, confirmed, Moved>>
    BY <1>11 DEF WipeSent, Moved
  <2> QED
    BY <1>1, <2>2, <2>3 DEF NameInv
<1> QED
  BY <1>2, <1>3, <1>4, <1>6, <1>7, <1>8, <1>9, <1>10, <1>11
  DEF AnyStep, CNext, Put, QueueStep

\* The process does not sleep through a token that a program has sent.
LEMMA WakeStep ==
  ASSUME ClientInv, AnyStep
  PROVE  NoLostWakeup'
<1> USE ClientAssumption DEF dirs, producer, queue
<1>1. ClientTypes /\ MemoryInv /\ NameInv /\ NoLostWakeup
  BY DEF ClientInv
<1>2. ASSUME NEW m \in Messages, SaveOpen(m) PROVE NoLostWakeup'
  <2>1. \A n \in DOMAIN proc : proc[n] # m
    BY <1>1, <1>2 DEF SaveOpen, NameInv, Moved
  <2> QED
    BY <1>1, <1>2, <2>1 DEF SaveOpen, NoLostWakeup, ClientTypes
<1>3. ASSUME NEW m \in Messages, SaveRename(m) PROVE NoLostWakeup'
  <2>1. /\ DOMAIN proc' = DOMAIN proc \cup {pname[m]} /\ proc'[pname[m]] = m
        /\ \A x \in DOMAIN proc : x # pname[m] => proc'[x] = proc[x]
    BY <1>1, <1>3, SaveRenameEffect
  <2>2. ppc[m] = "open" /\ ppc' = [ppc EXCEPT ![m] = "saved"]
    BY <1>3 DEF SaveRename
  <2> QED
    BY <1>1, <1>3, <2>1, <2>2 DEF SaveRename, NoLostWakeup, ClientTypes
<1>4. ASSUME NEW m \in Messages, Check(m) \/ Notify(m) PROVE NoLostWakeup'
  <2>1. CASE Check(m) /\ tokens < TokenLimit
    <3>1. ppc' = [ppc EXCEPT ![m] = "notify"] /\ ppc[m] = "saved"
          /\ UNCHANGED <<dirs, pname, tokens, queue>>
      BY <2>1 DEF Check, Checked
    <3> QED
      BY <1>1, <3>1 DEF NoLostWakeup, ClientTypes
  <2>2. CASE Check(m) /\ ~(tokens < TokenLimit)
    <3>1. tokens' # 0
      BY <1>1, <2>2 DEF Check, Checked, ClientTypes
    <3> QED
      BY <3>1 DEF NoLostWakeup
  <2>3. CASE Notify(m)
    <3>1. tokens' # 0
      BY <1>1, <2>3 DEF Notify, ClientTypes
    <3> QED
      BY <3>1 DEF NoLostWakeup
  <2> QED
    BY <1>4, <2>1, <2>2, <2>3
<1>5. ASSUME NEW m \in Messages, PutDies(m) PROVE NoLostWakeup'
  BY <1>1, <1>5 DEF PutDies, NoLostWakeup, ClientTypes
<1>6. CASE Scan
  <2> DEFINE black2 == [p \in Peers |-> IF black[p] = "due" THEN "no"
                                                           ELSE black[p]]
             open == {n \in DOMAIN proc : black2[Peer(n)] = "no"}
  <2>1. /\ black' = black2 /\ UNCHANGED <<proc, ppc>>
        /\ cpc' = "sleep" => First(open, MaxPerSend) = {}
    BY <1>6 DEF Scan
  <2>2. open \in SUBSET Names /\ IsFiniteSet(open)
    BY <1>1, FS_Subset DEF ClientTypes, Directory
  <2>3. cpc' = "sleep" => open = {}
    BY <2>1, <2>2, FirstExists
  <2> QED
    BY <2>1, <2>3 DEF NoLostWakeup
<1>7. CASE cpc' # "sleep"
  BY <1>7 DEF NoLostWakeup
<1>8. ASSUME NEW p \in Peers, BlacklistDue(p) PROVE NoLostWakeup'
  BY <1>1, <1>8 DEF BlacklistDue, NoLostWakeup, ClientTypes
<1>9. CASE WipeSent
  BY <1>1, <1>9 DEF WipeSent, NoLostWakeup
<1>10. ASSUME NEW ok \in SUBSET group, Result(ok) PROVE NoLostWakeup'
  BY <1>7, <1>10 DEF Result
<1>11. CASE Send \/ SendFails \/ CheckRename \/ CheckDone \/ BatchDone
  BY <1>7, <1>11 DEF Send, SendFails, CheckRename, CheckDone, BatchDone
<1>12. CASE WakeByToken \/ WakeByAlarm \/ LifeEnds \/ Killed
  BY <1>7, <1>12 DEF WakeByToken, WakeByAlarm, LifeEnds, Killed, Fresh
<1> QED
  BY <1>2, <1>3, <1>4, <1>5, <1>6, <1>8, <1>9, <1>10, <1>11, <1>12
  DEF AnyStep, CNext, Put, QueueStep

\* A name is never given to a second message, and a message stays under its
\* name until it is sent.
LEMMA UniqueStep ==
  ASSUME ClientInv, ~ClockRaces, AnyStep
  PROVE  UniqueInv'
<1> USE DEF dirs, producer, queue
<1>1. ClientTypes /\ MemoryInv /\ NameInv /\ UniqueInv
  BY DEF ClientInv
<1>2. ASSUME NEW m \in Messages, SaveOpen(m) PROVE UniqueInv'
  <2>1. PICK n \in Names :
          /\ n \notin DOMAIN inbox /\ n \notin {pname[k] : k \in Moved}
          /\ pname' = [pname EXCEPT ![m] = n]
    BY <1>1, <1>2, SaveOpenEffect
  <2>2. /\ ppc[m] = "new" /\ ppc' = [ppc EXCEPT ![m] = "open"]
        /\ UNCHANGED <<proc, confirmed>>
    BY <1>2 DEF SaveOpen
  <2>3. Moved' = Moved /\ m \notin Moved /\ m \notin confirmed
    BY <1>1, <2>2 DEF Moved, ClientTypes, NameInv
  <2>4. \A k \in Messages : ppc[k] # "new" => pname[k] # n
    BY <1>1, <2>1 DEF NameInv, Moved, ClientTypes
  <2>5. confirmed \subseteq Messages /\ Moved \subseteq Messages
    BY <1>1 DEF Moved, ClientTypes
  <2> QED
    BY <1>1, <2>1, <2>2, <2>3, <2>4, <2>5 DEF UniqueInv, ClientTypes
<1>3. ASSUME NEW m \in Messages, SaveRename(m) PROVE UniqueInv'
  <2>1. /\ DOMAIN proc' = DOMAIN proc \cup {pname[m]} /\ proc'[pname[m]] = m
        /\ \A x \in DOMAIN proc : x # pname[m] => proc'[x] = proc[x]
    BY <1>1, <1>3, SaveRenameEffect
  <2>2. /\ ppc[m] = "open" /\ ppc' = [ppc EXCEPT ![m] = "saved"]
        /\ UNCHANGED <<pname, confirmed>>
    BY <1>3 DEF SaveRename
  <2>3. Moved' = Moved \cup {m} /\ m \notin Moved /\ m \notin confirmed
    BY <1>1, <2>2 DEF Moved, ClientTypes, NameInv
  <2>4. \A k \in Moved : pname[k] # pname[m]
    BY <1>1, <2>2, <2>3 DEF UniqueInv, Moved
  <2>5. confirmed \subseteq Moved
    BY <1>1 DEF NameInv
  <2> QED
    BY <1>1, <2>1, <2>2, <2>3, <2>4, <2>5 DEF UniqueInv, ClientTypes
<1>4. ASSUME NEW m \in Messages, Check(m) \/ Notify(m) \/ PutDies(m) PROVE UniqueInv'
  <2>1. /\ Moved' = Moved
        /\ \A k \in Messages : ppc[k] = "new" <=> ppc'[k] = "new"
    BY <1>1, <1>4 DEF Check, Checked, Notify, PutDies, Moved, ClientTypes
  <2>2. UNCHANGED <<proc, pname, confirmed>>
    BY <1>4 DEF Check, Checked, Notify, PutDies
  <2> QED
    BY <1>1, <2>1, <2>2 DEF UniqueInv
<1>5. ASSUME UNCHANGED <<proc, ppc, pname, confirmed>> PROVE UniqueInv'
  BY <1>1, <1>5 DEF UniqueInv, Moved
<1>6. CASE Scan \/ Send \/ SendFails \/ CheckDone \/ BatchDone \/ WipeSent
  BY <1>5, <1>6 DEF Scan, Send, SendFails, CheckDone, BatchDone, WipeSent
<1>7. CASE WakeByToken \/ WakeByAlarm \/ LifeEnds \/ Killed
  BY <1>5, <1>7 DEF WakeByToken, WakeByAlarm, LifeEnds, Killed
<1>8. ASSUME NEW ok \in SUBSET group, Result(ok) PROVE UniqueInv'
  BY <1>5, <1>8 DEF Result
<1>9. ASSUME NEW p \in Peers, BlacklistDue(p) PROVE UniqueInv'
  BY <1>5, <1>9 DEF BlacklistDue
<1>10. CASE CheckRename
  <2>1. PICK n \in acked :
          /\ n \in DOMAIN proc /\ confirmed' = confirmed \cup {proc[n]}
          /\ DOMAIN proc' = DOMAIN proc \ {n}
          /\ \A x \in DOMAIN proc' : proc'[x] = proc[x]
    BY <1>1, <1>10, CheckRenameEffect
  <2>2. UNCHANGED <<ppc, pname, Moved>>
    BY <1>10 DEF CheckRename, Moved
  <2>3. proc[n] \in Moved /\ pname[proc[n]] = n
    BY <1>1, <2>1 DEF NameInv
  <2> QED
    BY <1>1, <2>1, <2>2, <2>3 DEF UniqueInv
<1> QED
  BY <1>2, <1>3, <1>4, <1>6, <1>7, <1>8, <1>9, <1>10
  DEF AnyStep, CNext, Put, QueueStep

-----------------------------------------------------------------------------
(* Theorems.                                                               *)

\* The invariant holds initially.
LEMMA ClientInitInv == CInit => ClientInv
<1> SUFFICES ASSUME CInit PROVE ClientInv
  OBVIOUS
<1>1. Uncounted = {} /\ Cardinality({}) = 0 /\ IsFiniteSet({})
  BY FS_EmptySet DEF CInit, Uncounted
<1>2. /\ DOMAIN inbox = {} /\ DOMAIN proc = {} /\ DOMAIN sent = {}
      /\ Directory(Empty) /\ Moved = {}
  BY DEF CInit, Empty, Directory, Moved
<1>3. ClientTypes
  BY <1>1, <1>2, ClientAssumption DEF CInit, ClientTypes
<1>4. CountInv
  BY <1>1, ClientAssumption DEF CInit, CountInv
<1>5. RaceInv
  <2>1. Notifying = {}
    BY DEF CInit, Notifying
  <2> QED
    BY <1>1, <2>1, ClientAssumption DEF CInit, RaceInv
<1> QED
  BY <1>2, <1>3, <1>4, <1>5
  DEF CInit, ClientInv, MemoryInv, NameInv, UniqueInv, NoLostWakeup

\* Every step, and every stutter, preserves it.
LEMMA ClientNextInv == ClientInv /\ (AnyStep \/ UNCHANGED cvars) => ClientInv'
<1>1. ASSUME ClientInv, AnyStep PROVE ClientInv'
  BY <1>1, TypesStep, MemoryStep, CountStep, RaceStep, NameStep, WakeStep, UniqueStep
  DEF ClientInv
<1>2. ASSUME ClientInv, UNCHANGED cvars PROVE ClientInv'
  BY <1>2
  DEF cvars, ClientInv, ClientTypes, MemoryInv, CountInv, Uncounted, RaceInv,
      Notifying, NameInv, UniqueInv, NoLostWakeup, Moved
<1> QED
  BY <1>1, <1>2

\* The client satisfies the invariant, whatever the peers answer.
THEOREM ClientInvariance == CSpec => []ClientInv
<1>1. ClientInv /\ [CNext]_cvars => ClientInv'
  BY ClientNextInv DEF AnyStep
<1> QED
  BY <1>1, ClientInitInv, PTL DEF CSpec

\* Every variable keeps its type; $msgCount passes $maxMessagesPerLife by less
\* than one batch, and the IPC queue its limit by less than the programs that
\* were between msg_stat_queue() and msg_send() at once.
THEOREM ClientTypeCorrectness == CSpec => []CTypeOK
<1>1. ClientInv => CTypeOK
  <2> SUFFICES ASSUME ClientInv PROVE CTypeOK
    OBVIOUS
  <2>1. ClientTypes /\ MemoryInv /\ CountInv /\ RaceInv
    BY DEF ClientInv
  <2>2. IsFiniteSet(Uncounted)
    BY <2>1, FS_Subset DEF Uncounted, MemoryInv, ClientTypes
  <2>3. Cardinality(Uncounted) \in Nat
    BY <2>2, FS_CardinalityType
  <2>4. count \in 0 .. MaxPerLife + MaxPerSend - 1
    BY <2>1, <2>3, ClientAssumption DEF CountInv, ClientTypes
  <2>5. \A dir \in {inbox, proc, sent} :
          DOMAIN dir \subseteq Names /\ Contents(dir) \subseteq Messages
    BY <2>1 DEF ClientTypes, Directory, Contents
  <2> QED
    BY <2>1, <2>4, <2>5 DEF ClientTypes, RaceInv, CTypeOK
<1> QED
  BY <1>1, ClientInvariance, PTL

\* The queue process never sleeps on a message whose token was sent, unless its
\* peer is blacklisted.
THEOREM NoWakeupIsLost == CSpec => []NoLostWakeup
<1>1. ClientInv => NoLostWakeup
  BY DEF ClientInv
<1> QED
  BY <1>1, ClientInvariance, PTL

\* Without clock races no message is lost between in/, proc/ and sent/.
THEOREM MessagesAreKept == ~ClockRaces => (CSpec => []MessagesKept)
<1> SUFFICES ASSUME ~ClockRaces PROVE CSpec => []MessagesKept
  OBVIOUS
<1>1. ClientInv => MessagesKept
  <2> SUFFICES ASSUME ClientInv, NEW m \in Moved \ confirmed
               PROVE  m \in Contents(proc)
    BY DEF MessagesKept
  <2>1. pname[m] \in DOMAIN proc /\ proc[pname[m]] = m
    BY DEF ClientInv, UniqueInv
  <2> QED
    BY <2>1 DEF Contents
<1> QED
  BY <1>1, ClientInvariance, PTL

\* Without clock races no rename of checkSentMessages() fails or replaces a file.
THEOREM RenamesAlwaysSucceed == ~ClockRaces => (CSpec => []RenamesSucceed)
<1> SUFFICES ASSUME ~ClockRaces PROVE CSpec => []RenamesSucceed
  OBVIOUS
<1>1. ClientInv => RenamesSucceed
  <2> SUFFICES ASSUME ClientInv PROVE RenamesSucceed
    OBVIOUS
  <2>1. MemoryInv /\ NameInv /\ UniqueInv
    BY DEF ClientInv
  <2>2. ASSUME NEW n \in DOMAIN proc, n \in DOMAIN sent PROVE FALSE
    <3>1. sent[n] \in confirmed /\ pname[sent[n]] = n
      BY <2>1, <2>2 DEF NameInv
    <3> QED
      BY <2>1, <3>1 DEF UniqueInv
  <2> QED
    BY <2>1, <2>2 DEF MemoryInv, RenamesSucceed
<1> QED
  BY <1>1, ClientInvariance, PTL
=============================================================================
