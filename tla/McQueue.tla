------------------------------ MODULE McQueue ------------------------------
(***************************************************************************)
(* The messages the mc server keeps in memory and the clients that fetch      *)
(* them: class CwxMcQueue (src/mq/mc/CwxMcQueue.{h,cpp}), the handler of a     *)
(* client's connection (src/mq/mc/CwxMcQueueHandler.cpp), and the start and    *)
(* stop of the hosts whose messages come in (CwxMcApp::startSync, stopSync).   *)
(*                                                                         *)
(* The threads of the hosts push, the thread of the clients pops and drops     *)
(* what is too old; each call holds the queue's lock and is a step.  What a     *)
(* host pushes has ascending sids (module McSync), with any time stamps: the    *)
(* clocks of the hosts are their own.                                       *)
(***************************************************************************)
EXTENDS Integers, FiniteSets, FiniteSetsExt

CONSTANTS
  Hosts,      \* the mq hosts
  Clients,    \* the connections of clients
  MaxId,      \* bound: host ids, one for each start of a host
  MaxItems,   \* bound: messages pushed
  HostSids,   \* the sids of a host
  MaxTime,    \* bound: time stamps and the clock of the mc
  KeepTime,       \* m_uiTimeout
  Sizes,      \* the sizes of an item
  MaxSize     \* m_ullMaxSize

ASSUME QueueAssumption ==
  /\ {MaxId, MaxItems, MaxTime, KeepTime, MaxSize} \subseteq Nat /\ HostSids \cup Sizes \subseteq Nat \ {0}

VARIABLES
  queue,    \* m_queue, a set ordered by operator <
  curSize,  \* m_ullCurSize
  dropped,  \* m_ullDiscardNum
  pushed,   \* how many messages were pushed
  taken,    \* how many were popped for a client
  hostId,   \* hostId[h]: m_uiHostId of the session of h, 0 for none
  curId,    \* m_uiCurHostId
  newest,   \* newest[h]: the last sid that the session of h has pushed
  clock,    \* getCurTime()
  client    \* client[c]: the handler of a client

queueVars == <<queue, curSize, dropped, pushed, taken, hostId, curId, newest, clock, client>>
itemVars  == <<queue, curSize, dropped, pushed, taken>>
hostVars  == <<hostId, curId, newest>>

\* operator < of two items, and the equality it leaves.
Before(i, j) ==
  \/ i.time < j.time
  \/ i.time = j.time /\ i.host < j.host
  \/ i.time = j.time /\ i.host = j.host /\ i.sid < j.sid

\* Every byte of the items once, and how many they are.
Bytes(items) == UNION {{i} \X (1..i.size) : i \in items}
Total(items) == Cardinality(Bytes(items))

Earlier(items, i) == {j \in items : Before(j, i)}

\* Nothing of items comes before i.
IsFirst(items, i) == i \in items /\ Earlier(items, i) = {}

(***************************************************************************)
(* The hosts.                                                              *)
(***************************************************************************)
\* Mutant: every host gets the same number.
FreshId_Same == 1
\* startSync: the next number that no running host has.
FreshId == Min({n \in (curId + 1)..MaxId : \A h \in Hosts : hostId[h] # n})

StartSync(h) ==
  /\ hostId[h] = 0 /\ curId < MaxId
  /\ curId' = FreshId /\ hostId' = [hostId EXCEPT ![h] = FreshId]
  /\ newest' = [newest EXCEPT ![h] = 0]
  /\ UNCHANGED <<itemVars, clock, client>>

\* stopSync: the host's thread is stopped, its messages stay queued.
StopSync(h) ==
  /\ hostId[h] # 0
  /\ hostId' = [hostId EXCEPT ![h] = 0]
  /\ UNCHANGED <<itemVars, curId, newest, clock, client>>

(***************************************************************************)
(* The queue.                                                              *)
(***************************************************************************)
\* A set keeps what it has when an item that is equal comes.
Inserted(i) ==
  IF \E j \in queue : ~Before(i, j) /\ ~Before(j, i) THEN queue ELSE queue \cup {i}

\* push() removes first items as long as the counter is above the limit.
Fitting(items, size) == {i \in items : size - Total(Earlier(items, i)) <= MaxSize}

Push(h, sid, time, size) ==
  /\ hostId[h] # 0 /\ newest[h] < sid /\ pushed < MaxItems
  /\ LET item == [time |-> time, host |-> hostId[h], sid |-> sid, size |-> size]
         all  == Inserted(item)
         rest == Fitting(all, curSize + size)
     IN /\ queue' = rest
        /\ curSize' = curSize + size - Total(all \ rest)
        /\ dropped' = dropped + Cardinality(all \ rest)
  /\ pushed' = pushed + 1
  /\ newest' = [newest EXCEPT ![h] = sid]
  /\ UNCHANGED <<taken, hostId, curId, clock, client>>

\* checkTimeout: what is older than the newest message, or than now when that
\* is less, by more than the time a message is kept.
Outdated_ByClock == {i \in queue : i.time + KeepTime < clock}
Outdated ==
  {i \in queue : i.time + KeepTime < Min({clock, Max({j.time : j \in queue})})}

CheckTimeout ==
  /\ Outdated # {}
  /\ queue' = queue \ Outdated
  /\ curSize' = curSize - Total(Outdated)
  /\ dropped' = dropped + Cardinality(Outdated)
  /\ UNCHANGED <<pushed, taken, hostVars, clock, client>>

ClockTick ==
  /\ clock < MaxTime /\ clock' = clock + 1
  /\ UNCHANGED <<itemVars, hostVars, client>>

\* pop() of the first item, for a client.
Pop ==
  /\ \E i \in queue :
       /\ IsFirst(queue, i)
       /\ queue' = queue \ {i} /\ curSize' = curSize - i.size
  /\ taken' = taken + 1
  /\ UNCHANGED <<dropped, pushed>>

(***************************************************************************)
(* The clients.  owed counts the fetches of a connection without an answer.   *)
(***************************************************************************)
Accepted == [waiting |-> FALSE, block |-> FALSE, redo |-> FALSE, owed |-> 0]
Closed   == [Accepted EXCEPT !.owed = -1]

Open(c) == client[c] # Closed

\* onConnCreated, CONN_CREATED in the thread of the clients.
Connect(c) ==
  /\ ~Open(c)
  /\ client' = [client EXCEPT ![c] = Accepted]
  /\ UNCHANGED <<itemVars, hostVars, clock>>

\* The client goes, or an answer cannot be sent.
Disconnect(c) ==
  /\ Open(c)
  /\ client' = [client EXCEPT ![c] = Closed]
  /\ UNCHANGED <<itemVars, hostVars, clock>>

Answer(k) == [k EXCEPT !.waiting = FALSE, !.owed = @ - 1]

\* sentMq: the first message, "No message", or nothing yet for a client that
\* blocks.  A message that was popped is lost when its answer cannot be sent.
SentMq(c, k, still) ==
  \/ /\ Pop
     /\ client' \in {[client EXCEPT ![c] = Answer(k)], [client EXCEPT ![c] = Closed]}
  \/ /\ queue = {} /\ ~k.block
     /\ client' \in {[client EXCEPT ![c] = Answer(k)], [client EXCEPT ![c] = Closed]}
     /\ UNCHANGED itemVars
  \/ /\ queue = {} /\ k.block
     /\ client' = [client EXCEPT ![c] = [k EXCEPT !.waiting = still, !.redo = TRUE]]
     /\ UNCHANGED itemVars

\* fetchMq (bound: two fetches without an answer). One that comes while the
\* connection waits is ignored.
Fetch(c, block) ==
  /\ Open(c) /\ ~client[c].waiting /\ client[c].owed <= 1
  /\ SentMq(c, [client[c] EXCEPT !.block = block, !.owed = @ + 1], TRUE)
  /\ UNCHANGED <<hostVars, clock>>

\* A fetch that cannot be parsed, names another queue or is not allowed is
\* answered with an error.
FetchRefused(c) ==
  /\ Open(c) /\ client[c].owed <= 1
  /\ client' = [client EXCEPT ![c] = Answer([client[c] EXCEPT !.owed = @ + 1])]
  /\ UNCHANGED <<itemVars, hostVars, clock>>

\* Mutant: the handler stays registered after it has sent.
OnRedo_Stays(c) ==
  /\ Open(c) /\ client[c].redo
  /\ SentMq(c, client[c], FALSE)
  /\ UNCHANGED <<hostVars, clock>>

\* onRedo clears m_bWaiting whatever sentMq returned.
OnRedo(c) ==
  /\ Open(c) /\ client[c].redo
  /\ SentMq(c, [client[c] EXCEPT !.redo = FALSE], FALSE)
  /\ UNCHANGED <<hostVars, clock>>

QueueInit ==
  /\ queue = {} /\ curSize = 0 /\ dropped = 0 /\ pushed = 0 /\ taken = 0
  /\ hostId = [h \in Hosts |-> 0] /\ curId = 0 /\ newest = [h \in Hosts |-> 0]
  /\ clock = 1
  /\ client = [c \in Clients |-> Closed]

QueueNext ==
  \/ \E h \in Hosts : StartSync(h) \/ StopSync(h)
  \/ \E h \in Hosts, sid \in HostSids, time \in 1..MaxTime, size \in Sizes :
       Push(h, sid, time, size)
  \/ CheckTimeout \/ ClockTick
  \/ \E c \in Clients :
       Connect(c) \/ Disconnect(c) \/ FetchRefused(c) \/ OnRedo(c)
       \/ \E block \in BOOLEAN : Fetch(c, block)

QueueSpec == QueueInit /\ [][QueueNext]_queueVars

\* The counter of bytes is that of the items in the queue and within the limit,
\* and every message pushed is queued, counted as discarded or popped: also
\* when hosts leave and come back and send again what they sent before.
QueueAccounted ==
  /\ curSize = Total(queue) /\ curSize <= MaxSize
  /\ pushed = Cardinality(queue) + dropped + taken

\* A step that takes messages out leaves only later ones, and none that is
\* kept long enough goes for its age: what is dropped for its age is older than
\* another message that stays by more than the time a message is kept.
OldestGoFirst ==
  [][/\ \A i \in queue \ queue', j \in queue' : Before(i, j)
     /\ pushed' = pushed /\ taken' = taken =>
          \A i \in queue \ queue' : \E j \in queue' : i.time + KeepTime < j.time
    ]_queueVars

\* A client never gets more answers than it has sent fetches, and one that is
\* waiting is tried again with the next turn.
AnsweredOnce ==
  \A c \in Clients : Open(c) =>
    /\ client[c].owed >= 0
    /\ client[c].redo => client[c].owed > 0
    /\ client[c].waiting => client[c].redo
=============================================================================
