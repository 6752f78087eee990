-------------------------------- MODULE Dropr --------------------------------
(***************************************************************************)
(* dropr end to end: the queue process of DroprClient sends its messages   *)
(* to the handlers of DroprServer (dropr_Client_Peer_HttpUpload::send) and *)
(* waits for the answer.  It may give up, or be killed, while the request  *)
(* is being handled: the handler goes on, and the messages are sent again. *)
(* A file name contains its peer, so that one DroprServer stands for the   *)
(* servers of all peers.                                                   *)
(***************************************************************************)
EXTENDS DroprClient

CONSTANTS Handlers, Limits, MaxRequests, MaxCrashes

VARIABLES
  spool, done, hpc, hreq, hleft, hcur, hok, conpc, todo, limit,
  requests, crashes, got, processed, overlap,
  waiting,    (* the handler the queue process waits for, or NoHandler      *)
  abandoned   (* history: how many requests with a name were given up       *)

\* The names messages can get.
SpoolNames == {NameOf(m, t) : m \in Messages, t \in Stamps}

S == INSTANCE DroprServer WITH Ids <- SpoolNames, Precedes <- Before

server == <<spool, done, hpc, hreq, hleft, hcur, hok, conpc, todo, limit,
            requests, crashes, got, processed, overlap>>
dvars  == <<cvars, server, waiting, abandoned>>

NoHandler == "none"

ASSUME DroprAssumption ==
  /\ Limits \subseteq Nat /\ MaxRequests \in Nat /\ MaxCrashes \in Nat
  /\ NoHandler \notin Handlers

DroprInit ==
  /\ CInit /\ S!SInit
  /\ waiting = NoHandler
  /\ abandoned = [n \in SpoolNames |-> 0]

\* The queue process no longer waits for the answer it was to get.
GiveUp ==
  /\ waiting' = NoHandler
  /\ abandoned' = [n \in SpoolNames |->
       abandoned[n] + IF waiting # NoHandler /\ n \in group THEN 1 ELSE 0]

\* Faulty: one request is made to two of the peer's addresses.
UploadTwice(h) ==
  /\ cpc = "sending"
  /\ S!Begin(h, group)
  /\ waiting' = h
  /\ UNCHANGED <<cvars, abandoned>>

\* curl connects and the request is handled ...
Upload(h) ==
  /\ cpc = "sending" /\ waiting = NoHandler
  /\ S!Begin(h, group)
  /\ waiting' = h
  /\ UNCHANGED <<cvars, abandoned>>

\* Faulty: an entry in the answer is enough, whatever its inqueue says.
AnswerUnchecked(h) ==
  /\ waiting = h
  /\ S!Reply(h) /\ Result(hreq[h])
  /\ waiting' = NoHandler
  /\ UNCHANGED abandoned

\* ... and answered, and the queue process gets the answer,
Answer(h) ==
  /\ waiting = h
  /\ S!Reply(h) /\ Result(hok[h])
  /\ waiting' = NoHandler
  /\ UNCHANGED abandoned

\* which nobody waits for any more if it gave up.
LateAnswer(h) ==
  /\ waiting # h
  /\ S!Reply(h)
  /\ UNCHANGED <<cvars, waiting, abandoned>>

\* No connection, a timeout, an unreadable answer: the request may have been
\* handled, be handled now, or never reach the peer.
RequestFails == SendFails /\ GiveUp /\ UNCHANGED server

DroprKilled == Killed /\ GiveUp /\ UNCHANGED server

\* Steps of the client, and of the server, that the other half has no part in.
ClientStep ==
  /\ \/ \E m \in Messages : Put(m)
     \/ QueueStep \/ WipeSent
     \/ \E p \in Peers : BlacklistDue(p)
  /\ UNCHANGED <<server, waiting, abandoned>>

ServerStep ==
  /\ S!ConsumerNext \/ \E h \in Handlers : S!HandlerNext(h)
  /\ UNCHANGED <<cvars, waiting, abandoned>>

DroprNext ==
  \/ ClientStep \/ ServerStep \/ RequestFails \/ DroprKilled
  \/ \E h \in Handlers : Upload(h) \/ Answer(h) \/ LateAnswer(h)

DroprSpec == DroprInit /\ [][DroprNext]_dvars

-----------------------------------------------------------------------------
(* Properties.                                                             *)

\* A message that is, or ever was, in the client's sent/ is stored at its peer.
SentMeansStored == \A m \in confirmed : pname[m] \in spool \cup done

\* A message comes into the peer's queue a second time only if a request that
\* carried it was given up: by a timeout, or by the death of the queue process.
DuplicatesNeedAbandonment ==
  \A n \in SpoolNames : got[n] <= 1 + abandoned[n]

\* How far a message got, from the files on both sides.
Stage(m) ==
  IF m \in confirmed THEN "sent"
  ELSE IF pname[m] \in spool \cup done THEN "queued"
  ELSE IF m \in Moved /\ m \in Contents(proc) THEN "spooled"
  ELSE "new"

D == INSTANCE Delivery WITH stage <- [m \in Messages |-> Stage(m)]

\* Client and server together keep the promise of Delivery: no message is
\* lost between the spool directories of client and server, and none goes
\* back to an earlier stage, whichever process ends at whichever step.
KeepsPromise == D!DSpec
=============================================================================
