----------------------------- MODULE DroprClient -----------------------------
(***************************************************************************)
(* The client half of dropr: programs put messages into a spool directory  *)
(* (dropr_Client::putMessage), and one queue process sends them to their   *)
(* peers (client_queue.php), restarted by droprd whenever it ends.  What   *)
(* comes back from a peer is the environment's choice here; module Dropr   *)
(* connects it to the server.                                              *)
(***************************************************************************)
EXTENDS Integers, FiniteSets

CONSTANTS
  Messages,     (* the messages programs want to send                      *)
  Peers,        (* the addressees                                          *)
  PeerOf,       (* the peer of each message                                *)
  PrioOf,       (* its priority; one digit, so that names sort by number   *)
  Stamps,       (* the values getTimeStamp() can return                    *)
  PeerRank,     (* position of a peer's encoded key in the directory order *)
  MaxPerSend,   (* $maxMessagesPerSend                                     *)
  MaxPerLife,   (* $maxMessagesPerLife                                     *)
  TokenLimit,   (* tokens seen in the IPC queue at which none is added     *)
  ClockRaces,   (* may two saves that do not overlap use one time stamp?   *)
  MaxKills,     (* bound: how often the queue process is killed            *)
  Down          (* peers that never answer                                 *)

ASSUME ClientAssumption ==
  /\ PeerOf \in [Messages -> Peers]
  /\ PrioOf \in [Messages -> 0 .. 9]
  /\ Stamps \subseteq Nat
  /\ PeerRank \in [Peers -> Nat]
  /\ \A p, q \in Peers : PeerRank[p] = PeerRank[q] => p = q
  /\ MaxPerSend \in Nat \ {0} /\ MaxPerLife \in Nat \ {0}
  /\ TokenLimit \in Nat \ {0} /\ MaxKills \in Nat
  /\ ClockRaces \in BOOLEAN
  /\ Down \subseteq Peers

VARIABLES
  inbox,     (* in/:   file name -> message                                *)
  proc,      (* proc/: file name -> message                                *)
  sent,      (* sent/: file name -> message                                *)
  ppc,       (* where each message's putMessage() is                       *)
  pname,     (* the name it chose                                          *)
  racing,    (* history: most programs ever between check and msg_send()   *)
  tokens,    (* messages in the IPC queue                                  *)
  cpc,       (* where the queue process is in its loop                     *)
  batch,     (* file names of $queuedMessages not handed to a peer yet     *)
  group,     (* file names of $peerMessages, being sent                    *)
  acked,     (* those reported inqueue and not renamed yet                 *)
  black,     (* $peerKeyBlackList: "no", "yes", or "due" past the timeout  *)
  count,     (* $msgCount                                                  *)
  kills,     (* how often the queue process was killed                     *)
  confirmed  (* history: messages that ever were in sent/                  *)

dirs     == <<inbox, proc, sent>>
producer == <<ppc, pname, racing>>
queue    == <<cpc, batch, group, acked, black, count>>
cvars    == <<inbox, proc, sent, ppc, pname, racing, tokens, cpc, batch, group,
              acked, black, count, kills, confirmed>>

-----------------------------------------------------------------------------
(* File names and directories.                                             *)

\* A spool file is named priority_timestamp_peer_channel.
Names  == (0 .. 9) \X Stamps \X Peers
NoName == <<>>
NameOf(m, t) == <<PrioOf[m], t, PeerOf[m]>>
Peer(n)      == n[3]

\* scandir() lists names in ascending order.
Before(a, b) ==
  \/ a[1] < b[1]
  \/ a[1] = b[1] /\ a[2] < b[2]
  \/ a[1] = b[1] /\ a[2] = b[2] /\ PeerRank[a[3]] < PeerRank[b[3]]

First(S, k) == {n \in S : Cardinality({x \in S : Before(x, n)}) < k}

\* Messages whose file has been renamed into proc/.
Moved == {m \in Messages : ppc[m] \in {"saved", "notify", "done", "mute"}}

\* Messages whose program has found room in the IPC queue and not sent yet.
Notifying == {m \in Messages : ppc[m] = "notify"}

Without(dir, n) == [x \in DOMAIN dir \ {n} |-> dir[x]]
With(dir, n, m) == [x \in DOMAIN dir \cup {n} |-> IF x = n THEN m ELSE dir[x]]
Contents(dir)   == {dir[n] : n \in DOMAIN dir}

Empty == [n \in {} |-> n]

CInit ==
  /\ inbox = Empty /\ proc = Empty /\ sent = Empty
  /\ ppc = [m \in Messages |-> "new"]
  /\ pname = [m \in Messages |-> NoName]
  /\ tokens = 0 /\ racing = 0
  /\ cpc = "loop" /\ batch = {} /\ group = {} /\ acked = {}
  /\ black = [p \in Peers |-> "no"]
  /\ count = 0 /\ kills = 0 /\ confirmed = {}

-----------------------------------------------------------------------------
(* putMessage().                                                           *)

\* Faulty: fopen() without the exclusive flag.
SaveOpenShared(m) ==
  /\ ppc[m] = "new"
  /\ \E t \in Stamps :
       LET n == NameOf(m, t) IN
         /\ ClockRaces \/ n \notin {pname[k] : k \in Moved}
         /\ inbox' = With(inbox, n, m)
         /\ pname' = [pname EXCEPT ![m] = n]
  /\ ppc' = [ppc EXCEPT ![m] = "open"]
  /\ UNCHANGED <<proc, sent, racing, tokens, queue, kills, confirmed>>

\* fopen($inPath . $fName, 'x'): a name that exists in in/ is tried again with
\* a later time stamp.  A name that was moved out of in/ comes back only with
\* ClockRaces: a program reads the clock and is suspended, another one that
\* read the same microsecond saves, and then the first one opens the file.
SaveOpen(m) ==
  /\ ppc[m] = "new"
  /\ \E t \in Stamps :
       LET n == NameOf(m, t) IN
         /\ n \notin DOMAIN inbox
         /\ ClockRaces \/ n \notin {pname[k] : k \in Moved}
         /\ inbox' = With(inbox, n, m)
         /\ pname' = [pname EXCEPT ![m] = n]
  /\ ppc' = [ppc EXCEPT ![m] = "open"]
  /\ UNCHANGED <<proc, sent, racing, tokens, queue, kills, confirmed>>

\* The message is written and renamed into proc/.
SaveRename(m) ==
  /\ ppc[m] = "open"
  /\ inbox' = Without(inbox, pname[m])
  /\ proc' = With(proc, pname[m], m)
  /\ ppc' = [ppc EXCEPT ![m] = "saved"]
  /\ UNCHANGED <<sent, pname, racing, tokens, queue, kills, confirmed>>

\* putMessage() goes on to "notify" if it has found room, else it returns.
Checked(m, room) ==
  /\ ppc[m] = "saved"
  /\ ppc' = [ppc EXCEPT ![m] = IF room THEN "notify" ELSE "done"]
  /\ racing' = LET n == Cardinality(Notifying') IN IF n > racing THEN n ELSE racing
  /\ UNCHANGED <<dirs, pname, tokens, queue, kills, confirmed>>

\* Faulty: a token only for a message that finds the spool empty.
CheckIfAlone(m) ==
  Checked(m, tokens < TokenLimit /\ Contents(proc) \subseteq {m})

\* Faulty: one token too many.
CheckOffByOne(m) == Checked(m, tokens <= TokenLimit)

\* msg_stat_queue(): is there room in the IPC queue?
Check(m) == Checked(m, tokens < TokenLimit)

\* msg_send(), whatever other programs have sent since.
Notify(m) ==
  /\ ppc[m] = "notify"
  /\ tokens' = tokens + 1
  /\ ppc' = [ppc EXCEPT ![m] = "done"]
  /\ UNCHANGED <<dirs, pname, racing, queue, kills, confirmed>>

\* The program dies inside putMessage(), before or after the rename.
PutDies(m) ==
  /\ ppc[m] \in {"open", "saved", "notify"}
  /\ ppc' = [ppc EXCEPT ![m] = IF ppc[m] = "open" THEN "died" ELSE "mute"]
  /\ UNCHANGED <<dirs, pname, racing, tokens, queue, kills, confirmed>>

Put(m) ==
  SaveOpen(m) \/ SaveRename(m) \/ Check(m) \/ Notify(m) \/ PutDies(m)

-----------------------------------------------------------------------------
(* The queue process.                                                      *)

\* Faulty: the loop condition without $maxMessagesPerLife.
ScanForever ==
  LET black2 == [p \in Peers |-> IF black[p] = "due" THEN "no" ELSE black[p]]
      got    == First({n \in DOMAIN proc : black2[Peer(n)] = "no"}, MaxPerSend)
  IN  /\ cpc = "loop"
      /\ black' = black2 /\ batch' = got
      /\ cpc' = IF got = {} THEN "sleep" ELSE "next"
      /\ UNCHANGED <<dirs, producer, tokens, group, acked, count, kills,
                     confirmed>>

\* getQueuedMessages(): blacklist entries past their timeout are dropped, then
\* the first names of peers that are not blacklisted make the batch.  With an
\* empty batch the process goes to sleep.
Scan ==
  LET black2 == [p \in Peers |-> IF black[p] = "due" THEN "no" ELSE black[p]]
      open   == {n \in DOMAIN proc : black2[Peer(n)] = "no"}
      got    == First(open, MaxPerSend)
  IN  /\ cpc = "loop" /\ count < MaxPerLife
      /\ black' = black2 /\ batch' = got
      /\ cpc' = IF got = {} THEN "sleep" ELSE "next"
      /\ UNCHANGED <<dirs, producer, tokens, group, acked, count, kills,
                     confirmed>>

\* The next peer of the batch: its messages go out in one request.
Send ==
  /\ cpc = "next" /\ batch # {}
  /\ \E n \in First(batch, 1) :
       group' = {x \in batch : Peer(x) = Peer(n)}
  /\ batch' = batch \ group'
  /\ cpc' = "sending"
  /\ UNCHANGED <<dirs, producer, tokens, acked, black, count, kills,
                 confirmed>>

\* The peer answers which messages it has put into its queue.
Result(ok) ==
  /\ cpc = "sending" /\ ok \subseteq group
  /\ acked' = ok
  /\ count' = count + Cardinality(group)
  /\ cpc' = "check"
  /\ UNCHANGED <<dirs, producer, tokens, batch, group, black, kills,
                 confirmed>>

Answered   == \A n \in group : Peer(n) \notin Down
Accepts(p) == Answered /\ (\A n \in group : Peer(n) = p) /\ Result(group)

\* Faulty: a failed request leaves the peer in play.
SendFailsForgets ==
  /\ cpc = "sending"
  /\ group' = {} /\ cpc' = "next"
  /\ UNCHANGED <<dirs, producer, tokens, batch, acked, black, count, kills,
                 confirmed>>

\* An exception (connection, timeout, unreadable answer) blacklists the peer.
SendFails ==
  /\ cpc = "sending"
  /\ \E n \in group : black' = [black EXCEPT ![Peer(n)] = "yes"]
  /\ group' = {} /\ cpc' = "next"
  /\ UNCHANGED <<dirs, producer, tokens, batch, acked, count, kills,
                 confirmed>>

\* Faulty: a renamed message is looked at again.
CheckRenameAgain ==
  /\ cpc = "check"
  /\ \E n \in First(acked, 1) :
       /\ sent' = With(sent, n, proc[n])
       /\ proc' = Without(proc, n)
       /\ confirmed' = confirmed \cup {proc[n]}
  /\ UNCHANGED <<inbox, producer, tokens, cpc, batch, group, acked, black,
                 count, kills>>

\* checkSentMessages() renames the acknowledged messages one by one ...
CheckRename ==
  /\ cpc = "check"
  /\ \E n \in First(acked, 1) :
       /\ sent' = With(sent, n, proc[n])
       /\ proc' = Without(proc, n)
       /\ acked' = acked \ {n}
       /\ confirmed' = confirmed \cup {proc[n]}
  /\ UNCHANGED <<inbox, producer, tokens, cpc, batch, group, black, count,
                 kills>>

\* ... and the loop goes on with the next peer.
CheckDone ==
  /\ cpc = "check" /\ acked = {}
  /\ group' = {} /\ cpc' = "next"
  /\ UNCHANGED <<dirs, producer, tokens, batch, acked, black, count, kills,
                 confirmed>>

BatchDone ==
  /\ cpc = "next" /\ batch = {} /\ cpc' = "loop"
  /\ UNCHANGED <<dirs, producer, tokens, batch, group, acked, black, count,
                 kills, confirmed>>

\* msg_receive() returns with a token ...
WakeByToken ==
  /\ cpc = "sleep" /\ tokens > 0
  /\ tokens' = tokens - 1 /\ cpc' = "loop"
  /\ UNCHANGED <<dirs, producer, batch, group, acked, black, count, kills,
                 confirmed>>

\* ... or interrupted by the alarm after $sleepTimeout.
WakeByAlarm ==
  /\ cpc = "sleep" /\ cpc' = "loop"
  /\ UNCHANGED <<dirs, producer, tokens, batch, group, acked, black, count,
                 kills, confirmed>>

\* $peerTimeout passes for a blacklisted peer, while the process sleeps or
\* while a request, which may take as long, is under way.
BlacklistDue(p) ==
  /\ cpc \in {"sleep", "sending"} /\ black[p] = "yes"
  /\ black' = [black EXCEPT ![p] = "due"]
  /\ UNCHANGED <<dirs, producer, tokens, cpc, batch, group, acked, count,
                 kills, confirmed>>

\* droprd starts a new queue process: nothing in memory survives.
Fresh ==
  /\ cpc' = "loop" /\ batch' = {} /\ group' = {} /\ acked' = {}
  /\ black' = [p \in Peers |-> "no"] /\ count' = 0

\* The process ends by itself after $maxMessagesPerLife messages ...
LifeEnds ==
  /\ cpc = "loop" /\ count >= MaxPerLife
  /\ Fresh
  /\ UNCHANGED <<dirs, producer, tokens, kills, confirmed>>

\* ... or is killed: no handler is installed while the loop runs.
Killed ==
  /\ kills < MaxKills /\ kills' = kills + 1
  /\ Fresh
  /\ UNCHANGED <<dirs, producer, tokens, confirmed>>

\* wipeSentMessages() forgets a sent message.
WipeSent ==
  /\ \E n \in DOMAIN sent : sent' = Without(sent, n)
  /\ UNCHANGED <<inbox, proc, producer, tokens, queue, kills, confirmed>>

\* The steps of the queue process that do not depend on the peer.
QueueStep ==
  \/ Scan \/ Send \/ CheckRename \/ CheckDone \/ BatchDone \/ WakeByToken
  \/ WakeByAlarm \/ LifeEnds

CNext ==
  \/ \E m \in Messages : Put(m)
  \/ QueueStep \/ SendFails
  \/ \E ok \in SUBSET group : Answered /\ Result(ok)
  \/ \E p \in Peers : BlacklistDue(p)
  \/ Killed \/ WipeSent

CSpec == CInit /\ [][CNext]_cvars

-----------------------------------------------------------------------------
(* Properties.                                                             *)

\* The types of the variables.  Check and msg_send() are two calls without a
\* lock: the queue passes its limit by one token less than there ever were
\* programs between the two at once.
CTypeOK ==
  /\ \A dir \in {inbox, proc, sent} :
       DOMAIN dir \subseteq Names /\ Contents(dir) \subseteq Messages
  /\ ppc \in [Messages -> {"new", "open", "saved", "notify", "done", "died",
                           "mute"}]
  /\ pname \in [Messages -> Names \cup {NoName}]
  /\ tokens \in Nat
  /\ tokens + Cardinality(Notifying) <= TokenLimit - 1 + racing
  /\ cpc \in {"loop", "next", "sending", "check", "sleep"}
  /\ black \in [Peers -> {"no", "yes", "due"}]
  /\ count \in 0 .. MaxPerLife + MaxPerSend - 1
  /\ kills \in 0 .. MaxKills
  /\ confirmed \subseteq Messages

\* A message whose saveMessage() returned is in the spool until it is sent,
\* whoever saves at the same time and whenever the queue process is killed.
MessagesKept == \A m \in Moved : m \in Contents(proc) \cup confirmed

\* The identifier saveMessage() returns is that of one message.  It is not with
\* ClockRaces, and the second rename then destroys the first message.
IdentifiesMessage ==
  \A m, k \in Moved : pname[m] = pname[k] => m = k

\* Everything the process holds in memory is still in proc/, and a message is
\* in one place only: the rename of checkSentMessages() cannot fail.
RenamesSucceed ==
  /\ acked \subseteq group \cap DOMAIN proc
  /\ batch \subseteq DOMAIN proc /\ batch \cap group = {}
  /\ DOMAIN proc \cap DOMAIN sent = {}

\* The process sleeps without a token waiting for it only if every spooled
\* message is one whose peer is blacklisted, or whose program is about to
\* send the token or died before it could.
NoLostWakeup ==
  cpc = "sleep" /\ tokens = 0 =>
    \A n \in DOMAIN proc : black[Peer(n)] # "no" \/ ppc[proc[n]] # "done"

\* The process keeps running and time passes.  A peer that is asked again and
\* again takes all messages of a request at last, unless it never answers.
CFairSpec ==
  /\ CSpec
  /\ WF_cvars(QueueStep) /\ WF_cvars(SendFails)
  /\ \A p \in Peers : SF_cvars(Accepts(p)) /\ SF_cvars(BlacklistDue(p))

\* A message that was put is sent in the end if its peer ever answers, even if
\* a peer that never does has messages of a higher priority that fill a batch:
\* the blacklist makes room in time.
EventuallySent ==
  \A m \in Messages : PeerOf[m] \notin Down => (m \in Moved ~> m \in confirmed)
=============================================================================
