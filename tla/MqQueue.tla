------------------------------ MODULE MqQueue ------------------------------
(***************************************************************************)
(* The queues of a master and their consumers: CwxMqQueue and                *)
(* CwxMqQueueMgr (src/mq/common/CwxMqQueueMgr.{h,cpp}) with the connections   *)
(* of CwxMqQueueHandler (src/mq/mq/CwxMqQueueHandler.{h,cpp}).               *)
(*                                                                         *)
(* A queue is a cursor on the binlog (module MqMaster), the messages being    *)
(* sent, the messages given back, and a position in a sid log, of which       *)
(* PositionLog says what a crash leaves.  One thread serves all queues; its   *)
(* steps are the handler calls.  The receiving thread runs in between.        *)
(*                                                                         *)
(* Clients neither delete nor leave a queue while one of its messages is on   *)
(* its way to them.                                                         *)
(***************************************************************************)
EXTENDS MqMaster, SequencesExt

CONSTANTS
  Conns,       \* the connections of consumers
  Queues,      \* the names of queues
  MaxOut,      \* bound: messages being sent on a connection at one time
  LogFlush,    \* m_uiFlushNum of the queues' sid logs
  DiskMayFail  \* may a read of the binlog, or a write of a sid log, fail?

ASSUME QueueAssumption ==
  /\ MaxOut \in Nat \ {0} /\ LogFlush \in Nat \ {0}
  /\ DiskMayFail \in BOOLEAN

VARIABLES
  queue,  \* queue[q]: the CwxMqQueue of that name and whether its log is valid
  pos,    \* pos[q]: the positions that a crash may leave, <<>> without a log
  conn,   \* conn[c]: the connection
  out     \* out[c]: the sids of the messages in its send queue, in order

queueVars == <<queue, pos, conn, out>>
vars      == <<masterVars, queueVars>>

NoQueue ==
  [st    |-> "none",   \* "none", or the state of the cursor
   at    |-> 0,        \* the sid of the cursor, or the one to seek
   flight |-> {},      \* m_uncommitMap
   back  |-> {},       \* m_memMsgMap
   valid |-> FALSE,    \* isValid() of the log
   start |-> 0,        \* (ghost) the sid the cursor was created with
   from  |-> 0,        \* (ghost) the sid it was at after it was placed
   sent  |-> {}]       \* (ghost) the messages that were sent in this run

\* CwxMqQueue::init: a cursor that is not placed yet.
NewQueue(s) ==
  [NoQueue EXCEPT !.st = "unseek", !.at = s, !.valid = TRUE, !.start = s, !.from = s]

\* A connection that has asked for nothing yet.
Idle == [name |-> "", block |-> FALSE, waiting |-> FALSE, redo |-> FALSE, owed |-> FALSE]

\* A connection whose last fetch asked for queue q.
Fetching(q, b) == [Idle EXCEPT !.name = q, !.block = b]

(***************************************************************************)
(* getNextBinlog().                                                        *)
(***************************************************************************)
Above(s) == {log[i] : i \in {j \in 1..Len(log) : log[j] > s}}

\* seek() places a cursor on the first record above its sid, if there is one.
Sought(k) ==
  IF k.st # "unseek" \/ Above(k.at) = {} THEN k
  ELSE [k EXCEPT !.st = "ready", !.at = Min(Above(k.at)), !.from = Min(Above(k.at))]

\* A message is handed out, and kept until it is sent.
Taken(k, s) == [ret |-> "message", sid |-> s, queue |-> [k EXCEPT !.flight = @ \cup {s}]]

Without(r, k) == [ret |-> r, sid |-> 0, queue |-> k]

\* fetchNextBinlog(): a cursor that is placed goes on to the next record, and
\* one that has just been placed does so, too.  A failed read breaks it.
FromBinlog(k) ==
  LET p == Sought(k) IN
  (IF p.st = "unseek" \/ (p.st = "ready" /\ Above(p.at) = {}) THEN {Without("empty", p)}
   ELSE IF p.st = "error" THEN {Without("failed", p)}
   ELSE {Taken([p EXCEPT !.at = Min(Above(p.at))], Min(Above(p.at)))})
  \cup (IF DiskMayFail /\ Above(k.at) # {} THEN {Without("failed", [k EXCEPT !.st = "error"])} ELSE {})

\* Mutant: the message is not taken off the list of those given back.
GetNext_Keeps(k) ==
  IF k.st = "none" THEN {Without("unknown", k)}
  ELSE IF ~k.valid THEN {Without("failed", k)}
  ELSE IF k.back # {} THEN {Taken(k, Min(k.back))}
  ELSE FromBinlog(k)

GetNext(k) ==
  IF k.st = "none" THEN {Without("unknown", k)}
  ELSE IF ~k.valid THEN {Without("failed", k)}
  ELSE IF k.back # {} THEN {Taken([k EXCEPT !.back = @ \ {Min(k.back)}], Min(k.back))}
  ELSE FromBinlog(k)

(***************************************************************************)
(* sentBinlog() and its callers.                                           *)
(***************************************************************************)
\* Mutant: after a try that found nothing the handler does not ask to be
\* called again.
Wait_Once(k, fromRedo) == [k EXCEPT !.waiting = ~fromRedo, !.redo = ~fromRedo, !.owed = TRUE]

\* A blocking fetch that found nothing is tried again with the next dispatch.
\* onRedo() itself clears m_bWaiting at its end.
Wait(k, fromRedo) == [k EXCEPT !.waiting = ~fromRedo, !.redo = TRUE, !.owed = TRUE]

\* Anything else is an answer.  A redo that was asked for earlier stays.
Answered(k, fromRedo) ==
  [k EXCEPT !.waiting = FALSE, !.redo = @ /\ ~fromRedo, !.owed = FALSE]

QueueOf(name) == IF name \in Queues THEN queue[name] ELSE NoQueue

\* Connection c, described by k, is served from its queue.
Serve(c, k, fromRedo) ==
  \E r \in GetNext(QueueOf(k.name)) :
    /\ queue' = [q \in Queues |-> IF q = k.name THEN r.queue ELSE queue[q]]
    /\ conn' = [conn EXCEPT ![c] =
                  IF r.ret = "empty" /\ k.block THEN Wait(k, fromRedo) ELSE Answered(k, fromRedo)]
    /\ out' = IF r.ret = "message" THEN [out EXCEPT ![c] = Append(@, r.sid)] ELSE out
    /\ UNCHANGED pos

\* A fetch is handled when the connection is not waiting.
MayFetch(c, q) ==
  /\ up /\ ~conn[c].waiting
  /\ Len(out[c]) < MaxOut
  /\ conn[c].name = q \/ out[c] = <<>>

\* fetchMq() from the queue of the connection, or from another one that exists.
Fetch(c, q, b) ==
  /\ MayFetch(c, q)
  /\ conn[c].name = q \/ queue[q].st # "none"
  /\ Serve(c, IF conn[c].name = q THEN [conn[c] EXCEPT !.block = b]
              ELSE [Fetching(q, b) EXCEPT !.redo = conn[c].redo], FALSE)

\* The first fetch from a queue that does not exist is refused.
FetchUnknown(c, q) ==
  /\ MayFetch(c, q)
  /\ conn[c].name # q /\ queue[q].st = "none"
  /\ conn' = [conn EXCEPT ![c].name = "", ![c].owed = FALSE]
  /\ UNCHANGED <<queue, pos, out>>

\* onRedo(), once in every dispatch.
Redo(c) ==
  /\ up /\ conn[c].redo
  /\ Serve(c, conn[c], TRUE)

(***************************************************************************)
(* endSendMsg().                                                           *)
(***************************************************************************)
\* Mutant: a message that was not sent is freed.
Done_Frees(k, S, ok) ==
  [k EXCEPT !.flight = @ \ S, !.sent = IF ok THEN @ \cup S ELSE @]

Done(k, S, ok) ==
  [k EXCEPT !.flight = @ \ S,
            !.back   = IF ok THEN @ ELSE @ \cup S,
            !.sent   = IF ok THEN @ \cup S ELSE @]

\* What a crash may leave after ss was logged: the lines become safe in their
\* order (module PositionLog), and LogFlush of them at most are not.
Logged(q, ss) ==
  LET lines == pos[q] \o ss
  IN  {SubSeq(lines, n, Len(lines)) : n \in {m \in 1..Len(lines) : Len(lines) - m < LogFlush}}

\* The sids of ss, messages from queue q, are done with one after the other,
\* each of them logged, sent or not.  When the log fails the queue stays as it
\* is then.  A queue that is gone or has no valid log takes nothing.
EndSendMsg(q, ss, ok) ==
  IF ~QueueOf(q).valid \/ ss = <<>> THEN UNCHANGED <<queue, pos>>
  ELSE \/ /\ queue' = [queue EXCEPT ![q] = Done(@, ToSet(ss), ok)]
          /\ \E t \in Logged(q, ss) : pos' = [pos EXCEPT ![q] = t]
       \/ /\ DiskMayFail
          /\ \E n \in 1..Len(ss) :
               LET done == SubSeq(ss, 1, n) IN
               /\ queue' = [queue EXCEPT ![q] = [Done(@, ToSet(done), ok) EXCEPT !.valid = FALSE]]
               /\ \E p \in ToSet(pos[q] \o done) : pos' = [pos EXCEPT ![q] = <<p>>]

\* onEndSendMsg(): the first message in the send queue has gone out.
OnEndSend(c) ==
  /\ up /\ out[c] # <<>>
  /\ EndSendMsg(conn[c].name, <<Head(out[c])>>, TRUE)
  /\ out' = [out EXCEPT ![c] = Tail(@)]
  /\ UNCHANGED conn

\* The connection closes, and another one may take its place: onFailSendMsg()
\* for all that was not sent.
Close(c) ==
  /\ up /\ conn[c] # Idle
  /\ EndSendMsg(conn[c].name, out[c], FALSE)
  /\ out' = [out EXCEPT ![c] = <<>>]
  /\ conn' = [conn EXCEPT ![c] = Idle]

(***************************************************************************)
(* Queues come and go.                                                     *)
(***************************************************************************)
\* createQueue(): from the newest message on, or from one that the client
\* names.
CreateQueue(q) ==
  /\ up /\ queue[q].st = "none"
  /\ \E s \in {Newest(log), 1} :
       /\ queue' = [queue EXCEPT ![q] = NewQueue(s)]
       /\ pos' = [pos EXCEPT ![q] = <<s>>]
  /\ UNCHANGED <<conn, out>>

DelQueue(q) ==
  /\ up /\ queue[q].st # "none"
  /\ \A c \in Conns : conn[c].name = q => out[c] = <<>>
  /\ queue' = [queue EXCEPT ![q] = NoQueue]
  /\ pos' = [pos EXCEPT ![q] = <<>>]
  /\ UNCHANGED <<conn, out>>

\* CwxMqQueueMgr::timeout() flushes the log of a queue.
QueueTimeout(q) ==
  /\ up /\ Len(pos[q]) > 1
  /\ pos' = [pos EXCEPT ![q] = <<Last(@)>>]
  /\ UNCHANGED <<queue, conn, out>>

(***************************************************************************)
(* Stop and start of the server.                                           *)
(***************************************************************************)
Disconnected ==
  /\ queue' = [q \in Queues |-> NoQueue]
  /\ conn' = [c \in Conns |-> Idle]
  /\ out' = [c \in Conns |-> <<>>]

\* One of the positions in left[q] is found again.
Leaves(left) ==
  pos' \in {f \in [Queues -> {<<>>} \cup {<<p>> : p \in UNION {left[q] : q \in Queues}}] :
              \A q \in Queues : IF left[q] = {} THEN f[q] = <<>>
                                 ELSE f[q] # <<>> /\ f[q][1] \in left[q]}

ServerDies ==
  /\ ProcessDies
  /\ Disconnected
  /\ Leaves([q \in Queues |-> ToSet(pos[q])])

\* Sid logs are not synced: older positions of this run may come back.
ServerMachineDies ==
  /\ MachineDies
  /\ Disconnected
  /\ Leaves([q \in Queues |-> IF pos[q] = <<>> THEN {}
                              ELSE ToSet(pos[q]) \cup queue[q].sent \cup {queue[q].start}])

\* CwxMqQueueMgr::init().
ServerStarts ==
  /\ Start
  /\ queue' = [q \in Queues |-> IF pos[q] = <<>> THEN NoQueue ELSE NewQueue(Last(pos[q]))]
  /\ UNCHANGED <<pos, conn, out>>

Init ==
  /\ MasterInit
  /\ queue = [q \in Queues |-> NoQueue]
  /\ pos = [q \in Queues |-> <<>>]
  /\ conn = [c \in Conns |-> Idle]
  /\ out = [c \in Conns |-> <<>>]

Consume ==
  \/ \E c \in Conns : Redo(c) \/ OnEndSend(c) \/ Close(c)
  \/ \E c \in Conns, q \in Queues : FetchUnknown(c, q) \/ \E b \in BOOLEAN : Fetch(c, q, b)
  \/ \E q \in Queues : CreateQueue(q) \/ DelQueue(q) \/ QueueTimeout(q)

Next ==
  \/ Recv /\ UNCHANGED queueVars
  \/ Dispatch /\ UNCHANGED queueVars
  \/ Consume /\ UNCHANGED masterVars
  \/ ServerDies \/ ServerMachineDies \/ ServerStarts

Spec == Init /\ [][Next]_vars

\* The queue thread calls the redo handlers in every round of its loop.
FairSpec == Spec /\ \A c \in Conns : WF_vars(Redo(c) /\ UNCHANGED masterVars)

(***************************************************************************)
(* Properties.                                                             *)
(***************************************************************************)
QueueType ==
  [st : {"none", "unseek", "ready", "error"}, at : Nat, flight : SUBSET Nat, back : SUBSET Nat,
   valid : BOOLEAN, start : Nat, from : Nat, sent : SUBSET Nat]

\* The type invariant; a log keeps LogFlush positions unsafe at most, a
\* fetch that is not answered will be tried again, and a redo that is left over
\* from an answered fetch sends one message more.
TypeOK ==
  /\ MasterTypeOK
  /\ \A q \in Queues : pos[q] \in Seq(Nat) /\ Len(pos[q]) <= LogFlush
  /\ \A c \in Conns : conn[c].waiting \/ conn[c].owed => conn[c].redo
  /\ \A c \in Conns : out[c] \in Seq(Nat) /\ Len(out[c]) <= MaxOut + 1
  /\ \A q \in Queues : (queue[q].st = "none") <=> (~up \/ pos[q] = <<>>)

\* Messages are new to everybody: neither a slave nor a queue has been at a sid
\* above the counter, whatever was lost in a crash.
SidsAreNew ==
  up => seen <= curSid /\ \A q \in Queues, i \in 1..LogFlush :
                            i <= Len(pos[q]) => pos[q][i] <= curSid

Sending(q) == {c \in Conns : conn[c].name = q}

\* A message of a queue is at one place: being sent on one connection, given
\* back, or sent.  What is in flight really is in a send queue, unless the log
\* of the queue has failed.
EachAtOnePlace ==
  \A q \in Queues :
    LET k == queue[q] IN
    /\ k.flight \cap k.back = {} /\ k.flight \cap k.sent = {} /\ k.back \cap k.sent = {}
    /\ k.valid => k.flight = UNION {ToSet(out[c]) : c \in Sending(q)}
    /\ \A c, d \in Sending(q) : \A i \in 1..Len(out[c]), j \in 1..Len(out[d]) :
         out[c][i] = out[d][j] => c = d /\ i = j

Handled(q) == queue[q].flight \cup queue[q].back \cup queue[q].sent

\* No message between the place where the cursor was put and the cursor is
\* forgotten, however connections break.
NothingForgotten ==
  \A q \in Queues : \A s \in Above(queue[q].from) : s <= queue[q].at => s \in Handled(q)

\* A queue passes on every message above the sid it was created with.
NothingPassedOver ==
  \A q \in Queues : \A s \in Above(queue[q].start) :
    queue[q].st = "ready" /\ s <= queue[q].at => s \in Handled(q)

HasMessage(k) ==
  /\ k.valid
  /\ \/ k.back # {}
     \/ k.st = "ready" /\ Above(k.at) # {}

\* A consumer whose fetch waits is answered when its queue has a message, or
\* another consumer takes it.
WaitersAreServed ==
  \A c \in Conns :
    (conn[c].owed /\ HasMessage(QueueOf(conn[c].name)))
      ~> (~conn[c].owed \/ ~HasMessage(QueueOf(conn[c].name)))
=============================================================================
