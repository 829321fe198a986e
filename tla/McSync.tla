------------------------------ MODULE McSync ------------------------------
(***************************************************************************)
(* How the mc server fetches the messages of one mq host: class               *)
(* CwxMcSyncSession and CwxMcSyncHandler (src/mq/mc/CwxMcSyncHandler.{h,cpp})   *)
(* driven by the host's thread (CwxMcApp::syncThreadMain).                    *)
(*                                                                         *)
(* The thread connects, reports the last sid it has stored since the process  *)
(* started (0 at first), puts the numbered messages of the connections in     *)
(* order, stores each and acknowledges it.  A limit on the bytes of a second  *)
(* delays acknowledgements, never what is stored.  The mq keeps the position  *)
(* under the name the mc reports, so that a mc that has just started goes on  *)
(* where its acknowledgements ended: here src/mq/mq/CwxMqDispHandler.cpp is    *)
(* modelled as far as a named source needs it; a session of the mq ends as     *)
(* soon as one of its connections does (module Replication has the details).  *)
(***************************************************************************)
EXTENDS Integers, Sequences, FiniteSets, SequencesExt, FiniteSetsExt

CONSTANTS
  NConn,          \* connections of a session (m_uiConnNum)
  MaxSid,         \* bound: sids 1..MaxSid
  ChunkMax,       \* bound: messages in a chunk
  MsgBytes,       \* the bytes of a message
  Limits,         \* the values of m_limit, bytes a second; 0 is no limit
  OldEnough,      \* CWX_MQ_DEF_TIMEOUT_SECOND: a session is not created again before
  MaxFaults,      \* bound: failures and deaths
  DieAfterStale   \* may the process die after a session began while
                  \* acknowledgements of the one before it still waited?

ASSUME SyncAssumption ==
  /\ {NConn, ChunkMax, MsgBytes} \subseteq Nat \ {0} /\ {MaxSid, OldEnough, MaxFaults} \subseteq Nat
  /\ Limits \subseteq Nat /\ DieAfterStale \in BOOLEAN

Conns == 1..NConn

VARIABLES
  sess,     \* the fields of CwxMcSyncSession
  conns,    \* m_conns: the connections the session has
  got,      \* m_msg: the messages that wait for their turn
  replies,  \* m_waitingReplyMsg
  stored,   \* what this process has stored and queued, in order: runs of sids,
            \* one for each message or the part of it that was stored
  ever,     \* the sids any process has stored
  toMc,     \* toMc[c]: what is on its way from the mq
  toMq,     \* toMq[c]: what is on its way to the mq
  top,      \* the newest sid of the mq
  mq,       \* the mq's session (CwxMqDispSession) and its position file
  mqConn,   \* the mq's handlers (CwxMqDispHandler)
  stale,    \* has this process begun a session with replies left over?
  syncFaults

syncVars == <<sess, conns, got, replies, stored, ever, stale, toMc, toMq, top, mq, mqConn, syncFaults>>
mcVars   == <<sess, conns, got, replies, stored, ever, stale>>
mqVars   == <<mq, mqConn>>

NoWires == [c \in Conns |-> <<>>]

Data(n, a, z, c) == [type |-> "data", seq |-> n, first |-> a, last |-> z, conn |-> c]
Report(s)   == [type |-> "report", sid |-> s]
NewConn     == [type |-> "newconn"]
Accept      == [type |-> "accept"]
Refusal     == [type |-> "err"]
Reply(n)    == [type |-> "reply", seq |-> n]

NoHandler == [in |-> FALSE, sentSeq |-> 0, lastSid |-> 0, redo |-> FALSE, shut |-> FALSE]
NoHandlers == [c \in Conns |-> NoHandler]

\* One of the failures the environment may cause.
Fault == syncFaults < MaxFaults /\ syncFaults' = syncFaults + 1

(***************************************************************************)
(* The mq.                                                                 *)
(***************************************************************************)
Publish ==
  /\ top < MaxSid /\ top' = top + 1
  /\ UNCHANGED <<mcVars, toMc, toMq, mqVars, syncFaults>>

\* syncSendBinLog on connection c of session m, after `before` was sent.
SendNext(c, m, handler, before) ==
  IF m.at = top
  THEN /\ mq' = m
       /\ mqConn' = [mqConn EXCEPT ![c] = [handler EXCEPT !.redo = TRUE]]
       /\ toMc' = [toMc EXCEPT ![c] = before]
  ELSE \E last \in (m.at + 1)..top :
         /\ last <= m.at + ChunkMax
         /\ mq' = [m EXCEPT !.at = last, !.seq = @ + 1]
         /\ mqConn' = [mqConn EXCEPT ![c] =
              [handler EXCEPT !.sentSeq = m.seq, !.lastSid = last]]
         /\ toMc' = [toMc EXCEPT ![c] = Append(before, Data(m.seq, m.at + 1, last, c))]

\* A message of type t has come in on a connection of the mq.
MqGets(c, t) ==
  /\ mq.open /\ ~mqConn[c].shut /\ toMq[c] # <<>> /\ Head(toMq[c]).type = t
  /\ toMq' = [toMq EXCEPT ![c] = Tail(@)]
  /\ UNCHANGED <<mcVars, top>>

\* The mq refuses: an error goes out and the session is closed.
MqCloses(c) ==
  /\ toMc' = [toMc EXCEPT ![c] = Append(@, Refusal)]
  /\ mq' = [mq EXCEPT !.open = FALSE] /\ mqConn' = NoHandlers

\* recvReport: a named source that reports no sid goes on at its position.
MqReport(c) ==
  /\ MqGets(c, "report")
  /\ LET sid == Head(toMq[c]).sid
         start == IF sid = 0 THEN mq.logged ELSE sid
     IN SendNext(c, [mq EXCEPT !.at = start, !.seq = 0],
                 [NoHandler EXCEPT !.in = TRUE], Append(toMc[c], Accept))
  /\ UNCHANGED syncFaults

\* The user or the password is wrong, or the position cannot be read.
MqRefuses(c) ==
  /\ MqGets(c, "report")
  /\ MqCloses(c) /\ Fault

\* recvNewConnection
MqNewConn(c) ==
  /\ MqGets(c, "newconn")
  /\ SendNext(c, mq, [NoHandler EXCEPT !.in = TRUE], toMc[c])
  /\ UNCHANGED syncFaults

\* recvReply: an acknowledgement that has the number sent last on the
\* connection moves the position to what was sent last on it.
MqReply(c) ==
  /\ MqGets(c, "reply") /\ mqConn[c].in
  /\ IF Head(toMq[c]).seq = mqConn[c].sentSeq
     THEN SendNext(c, [mq EXCEPT !.logged = mqConn[c].lastSid], mqConn[c], toMc[c])
     ELSE MqCloses(c)
  /\ UNCHANGED syncFaults

\* recvReply on a connection that belongs to no session yet: only it is closed.
MqReplyFails(c) ==
  /\ MqGets(c, "reply") /\ ~mqConn[c].in
  /\ toMc' = [toMc EXCEPT ![c] = Append(@, Refusal)]
  /\ mqConn' = [mqConn EXCEPT ![c].shut = TRUE]
  /\ UNCHANGED <<mq, syncFaults>>

\* onRedo of a connection that was told that there was nothing to send.
MqRedo(c) ==
  /\ mq.open /\ mqConn[c].redo /\ mq.at < top
  /\ SendNext(c, mq, [mqConn[c] EXCEPT !.redo = FALSE], toMc[c])
  /\ UNCHANGED <<mcVars, toMq, top, syncFaults>>

(***************************************************************************)
(* The mc.                                                                 *)
(***************************************************************************)
\* A handler fails or its peer is gone: onConnClosed, and the mq's session
\* with it.  The thread closes the session in the same turn.
Lost(c) ==
  /\ sess' = [sess EXCEPT !.need = TRUE]
  /\ conns' = conns \ {c}
  /\ toMc' = [toMc EXCEPT ![c] = <<>>] /\ toMq' = NoWires
  /\ mq' = [mq EXCEPT !.open = FALSE] /\ mqConn' = NoHandlers

ConnLost(c) ==
  /\ c \in conns
  /\ Lost(c) /\ Fault
  /\ UNCHANGED <<got, replies, stored, ever, stale, top>>

\* A message of type t has come in on a connection of the mc.
McGets(c, t) ==
  /\ c \in conns /\ toMc[c] # <<>> /\ Head(toMc[c]).type = t

\* recvMessage on a session that is to be closed, or of an error message;
\* dealSyncReportReply of a second session id.
ReceiveFails(c) ==
  /\ \/ \E t \in {"data", "accept"} : McGets(c, t) /\ sess.need
     \/ McGets(c, "err")
     \/ McGets(c, "accept") /\ sess.known
  /\ Lost(c)
  /\ UNCHANGED <<got, replies, stored, ever, stale, top, syncFaults>>

\* dealSyncReportReply: the other connections report the session id.
ReportReply(c) ==
  /\ McGets(c, "accept") /\ ~sess.need /\ ~sess.known
  /\ sess' = [sess EXCEPT !.known = TRUE]
  /\ toMc' = [toMc EXCEPT ![c] = Tail(@)]
  /\ toMq' = [d \in Conns |->
       IF mq.open /\ d \in conns \ {c} THEN Append(toMq[d], NewConn) ELSE toMq[d]]
  /\ UNCHANGED <<conns, got, replies, stored, ever, stale, top, mqVars, syncFaults>>

\* CwxMcSyncSession::recv: the messages whose turn has come with m's arrival.
Ready_AsTheyCome(m) == <<m>>  \* mutant
Ready(m) ==
  LET seqs == {x.seq : x \in got}
      last == CHOOSE n \in m.seq..Max(seqs \cup {m.seq}) :
                n + 1 \notin seqs /\ \A k \in m.seq+1..n : k \in seqs
  IN  IF m.seq = sess.next
      THEN [n \in 1..(last - m.seq + 1) |-> CHOOSE x \in got \cup {m} : x.seq = m.seq + n - 1]
      ELSE <<>>

\* The n-th number of a set; what a list has at the places of a set, in order.
Nth(S, n) == CHOOSE x \in S : Cardinality({y \in S : y <= x}) = n
Picked(list, S) == [n \in 1..Cardinality(S) |-> list[Nth(S, n)]]

\* The sids of a message, one by one, and how many there are in a list.
Run(a, z) == [first |-> a, last |-> z]
Size(m) == m.last - m.first + 1
SidCount(ms) == FoldLeft(LAMBDA n, m : n + Size(m), 0, ms)
SidsOf(runs) == UNION {runs[i].first..runs[i].last : i \in DOMAIN runs}

\* replyMsg: may an acknowledgement go out after so many bytes of a second?
Allowed(bytes) == sess.limit = 0 \/ bytes <= sess.limit

\* The bytes counted after n more messages; those beyond the limit count as one.
BytesAfter(n) ==
  IF sess.limit = 0 THEN sess.bytes ELSE Min({sess.limit + 1, sess.bytes + n * MsgBytes})

\* What the messages ms, and a part of the one after them, change: saveBinlog
\* stores and queues each sid, a whole message is acknowledged now or, beyond
\* the limit, later.
Save(ms, part) ==
  LET runs == [i \in DOMAIN ms |-> Run(ms[i].first, ms[i].last)] \o part
      Now(i) == Allowed(BytesAfter(SidCount(SubSeq(ms, 1, i))))
      Later(i) == [conn |-> ms[i].conn, seq |-> ms[i].seq, now |-> TRUE]
  IN [stored |-> stored \o runs,
      logSid |-> IF runs = <<>> THEN sess.logSid ELSE Last(runs).last,
      bytes |-> BytesAfter(SidCount(ms)),
      waiting |-> replies \o Picked([i \in DOMAIN ms |-> Later(i)], {i \in DOMAIN ms : ~Now(i)}),
      sent |-> [c \in Conns |-> Picked([i \in DOMAIN ms |-> Reply(ms[i].seq)],
                                      {i \in DOMAIN ms : Now(i) /\ ms[i].conn = c})]]

Keep(save) ==
  /\ stored' = save.stored
  /\ ever' = ever \cup SidsOf(save.stored)
  /\ replies' = save.waiting

\* recvMessage of data: everything that is ready is stored.
Receive(c) ==
  /\ McGets(c, "data") /\ ~sess.need
  /\ \E ready \in {Ready(Head(toMc[c]))} :
     \E save \in {Save(ready, <<>>)} :
       /\ Keep(save)
       /\ got' = (got \cup {Head(toMc[c])}) \ ToSet(ready)
       /\ sess' = [sess EXCEPT !.next = @ + Len(ready),
                               !.logSid = save.logSid, !.bytes = save.bytes]
       /\ toMq' = [d \in Conns |-> IF mq.open THEN toMq[d] \o save.sent[d] ELSE toMq[d]]
  /\ toMc' = [toMc EXCEPT ![c] = Tail(@)]
  /\ UNCHANGED <<conns, stale, top, mqVars, syncFaults>>

\* One of the messages that are ready cannot be unpacked or stored: those
\* before it, and the beginning of a chunk, stay stored; the connection fails.
ReceiveStops(c) ==
  /\ McGets(c, "data") /\ ~sess.need
  /\ LET m == Head(toMc[c])
         ready == Ready(m)
     IN \E n \in DOMAIN ready :
          \E p \in 0..Size(ready[n]) :
            LET part == IF p = 0 THEN <<>> ELSE <<Run(ready[n].first, ready[n].first + p - 1)>>
                save == Save(SubSeq(ready, 1, n - 1), part)
            IN /\ Keep(save)
               /\ got' = got \ ToSet(ready)
               /\ sess' = [sess EXCEPT !.need = TRUE, !.next = @ + Len(ready),
                                       !.logSid = save.logSid, !.bytes = save.bytes]
  /\ conns' = conns \ {c}
  /\ toMc' = [toMc EXCEPT ![c] = <<>>] /\ toMq' = NoWires
  /\ mq' = [mq EXCEPT !.open = FALSE] /\ mqConn' = NoHandlers
  /\ Fault
  /\ UNCHANGED <<stale, top>>

\* closeSession leaves the acknowledgements that wait.
Cleared == [sess EXCEPT !.closed = TRUE, !.need = FALSE, !.known = FALSE, !.next = 0]

CloseSession ==
  /\ sess.need
  /\ sess' = Cleared
  /\ conns' = {} /\ got' = {}
  /\ toMc' = NoWires /\ toMq' = NoWires
  /\ mq' = [mq EXCEPT !.open = FALSE] /\ mqConn' = NoHandlers
  /\ UNCHANGED <<replies, stored, ever, stale, top, syncFaults>>

\* isNeedCreate
NeedCreate == sess.closed /\ ~sess.need /\ sess.age > OldEnough

\* createSession: all connections, and the report of the last sid on the first.
CreateSession ==
  /\ NeedCreate
  /\ stale' = (stale \/ replies # <<>>)
  /\ sess' = [sess EXCEPT !.age = 0, !.closed = FALSE]
  /\ conns' = Conns
  /\ toMq' = [NoWires EXCEPT ![1] = <<Report(sess.logSid)>>]
  /\ mq' = [mq EXCEPT !.open = TRUE]
  /\ UNCHANGED <<got, replies, stored, ever, toMc, top, mqConn, syncFaults>>

\* The mq cannot be reached, or the report cannot be sent.
CreateSessionFails ==
  /\ NeedCreate /\ Fault
  /\ sess' = [Cleared EXCEPT !.age = 0]
  /\ UNCHANGED <<conns, got, replies, stored, ever, stale, toMc, toMq, top, mqVars>>

\* The next second.
Tick ==
  /\ sess' = [sess EXCEPT !.age = Min({@ + 1, OldEnough + 1}), !.bytes = 0]
  /\ replies' = [i \in DOMAIN replies |-> [replies[i] EXCEPT !.now = FALSE]]
  /\ UNCHANGED <<conns, got, stored, ever, stale, toMc, toMq, top, mqVars, syncFaults>>

\* Mutant: they are thrown away.
CheckSyncLimit_Dropped ==
  /\ ~sess.need /\ replies # <<>> /\ ~Head(replies).now
  /\ replies' = <<>>
  /\ UNCHANGED <<sess, conns, got, stored, ever, stale, toMc, toMq, top, mqVars, syncFaults>>

\* checkSyncLimit: the acknowledgements that waited go out, up to the first
\* one of this second; one whose connection the session does not have is dropped.
CheckSyncLimit ==
  /\ ~sess.need /\ replies # <<>> /\ ~Head(replies).now
  /\ LET due == {i \in DOMAIN replies : \A k \in 1..i : ~replies[k].now}
     IN /\ replies' = SubSeq(replies, Cardinality(due) + 1, Len(replies))
        /\ toMq' = [c \in Conns |->
             IF c \in conns /\ mq.open
             THEN toMq[c] \o Picked([i \in DOMAIN replies |-> Reply(replies[i].seq)],
                                   {i \in due : replies[i].conn = c})
             ELSE toMq[c]]
  /\ UNCHANGED <<sess, conns, got, stored, ever, stale, toMc, top, mqVars, syncFaults>>

\* putMsg fails on one of them: the ones after it go on waiting.
CheckSyncLimitFails ==
  /\ ~sess.need /\ replies # <<>> /\ ~Head(replies).now /\ Head(replies).conn \in conns
  /\ Fault
  /\ sess' = [sess EXCEPT !.need = TRUE]
  /\ replies' = Tail(replies)
  /\ UNCHANGED <<conns, got, stored, ever, stale, toMc, toMq, top, mqVars>>

\* EVENT_TYPE_SYNC_CHANGE: the host's line of the configuration has changed.
SyncChange ==
  /\ ~sess.need /\ Fault
  /\ \E l \in Limits : sess' = [sess EXCEPT !.limit = l, !.need = TRUE]
  /\ UNCHANGED <<conns, got, replies, stored, ever, stale, toMc, toMq, top, mqVars>>

\* The constructor of CwxMcSyncSession.
NewSession(l) ==
  [closed |-> TRUE, need |-> FALSE, known |-> FALSE, next |-> 0, logSid |-> 0,
   age |-> OldEnough + 1, bytes |-> 0, limit |-> l]

\* The process dies and is started again.
Restart ==
  /\ DieAfterStale \/ ~stale
  /\ stale' = FALSE /\ Fault
  /\ sess' = NewSession(sess.limit)
  /\ conns' = {} /\ got' = {} /\ replies' = <<>> /\ stored' = <<>>
  /\ toMc' = NoWires /\ toMq' = NoWires
  /\ mq' = [mq EXCEPT !.open = FALSE] /\ mqConn' = NoHandlers
  /\ UNCHANGED <<ever, top>>

SyncInit ==
  /\ \E l \in Limits : sess = NewSession(l)
  /\ conns = {} /\ got = {} /\ replies = <<>> /\ stored = <<>> /\ ever = {} /\ stale = FALSE
  /\ toMc = NoWires /\ toMq = NoWires
  /\ top = 0
  /\ mq = [open |-> FALSE, at |-> 0, seq |-> 0, logged |-> 0]
  /\ mqConn = NoHandlers
  /\ syncFaults = 0

McStep ==
  \/ \E c \in Conns : ReceiveFails(c) \/ ReportReply(c) \/ Receive(c)
  \/ CloseSession \/ CreateSession \/ CheckSyncLimit

MqStep == \E c \in Conns : MqReport(c) \/ MqNewConn(c) \/ MqReply(c) \/ MqReplyFails(c) \/ MqRedo(c)

SyncNext ==
  \/ McStep \/ MqStep \/ Tick \/ Publish
  \/ \E c \in Conns : ConnLost(c) \/ ReceiveStops(c) \/ MqRefuses(c)
  \/ CreateSessionFails \/ CheckSyncLimitFails \/ SyncChange \/ Restart

SyncSpec == SyncInit /\ [][SyncNext]_syncVars

\* Both programs serve a connection that has something for them, the thread
\* of the session closes and creates it and sends what waited, time passes.
SyncFairness ==
  /\ \A c \in Conns :
       /\ WF_syncVars(ReceiveFails(c) \/ ReportReply(c) \/ Receive(c))
       /\ WF_syncVars(MqReport(c) \/ MqNewConn(c) \/ MqReply(c) \/ MqReplyFails(c) \/ MqRedo(c))
  /\ WF_syncVars(CloseSession) /\ WF_syncVars(CreateSession)
  /\ WF_syncVars(CheckSyncLimit) /\ WF_syncVars(Tick)

\* What a process has stored and queued is a run of sids without a gap or a
\* repetition, and no message older than the newest one that was ever stored
\* is missing: whatever the order in which the connections deliver, the
\* failures in the middle of a chunk and the restarts.
AllInOrder ==
  /\ \A i \in 1..(Len(stored) - 1) : stored[i + 1].first = stored[i].last + 1
  /\ \A s \in ever : 1..s \subseteq ever

\* Every message of the mq is stored by the mc in the end: an acknowledgement
\* that is delayed, a session that is closed and a mc that starts again hold
\* none of them back.
AllArrive == \A s \in 1..MaxSid : (top >= s) ~> (s \in ever)
=============================================================================
