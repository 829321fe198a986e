---------------------------- MODULE Replication ----------------------------
(***************************************************************************)
(* Replication from a master to one slave: class CwxMqDispHandler and its   *)
(* sessions on the master (src/mq/mq/CwxMqDispHandler.{h,cpp}), class       *)
(* CwxMqMasterHandler and CwxMqSyncSession on the slave                     *)
(* (src/mq/mq/CwxMqMasterHandler.{h,cpp}).                                  *)
(*                                                                         *)
(* A session has several connections.  The slave reports the last sid it    *)
(* has on one of them, and the session id it is given on the others.  The   *)
(* master sends on each connection one numbered message at a time (a        *)
(* message of the log or a chunk of them) and the next one when that one    *)
(* is acknowledged.  The slave puts what it receives in order by number,    *)
(* appends it to its own binlog and acknowledges.                           *)
(*                                                                         *)
(* The master's binlog is 1..top, read with the contract of MessageLog.     *)
(* Connections may break at any time and the slave may restart.  Each side  *)
(* is one thread, so a step is one event of one side.                       *)
(***************************************************************************)
EXTENDS Integers, Sequences, FiniteSets, SequencesExt

CONSTANTS
  NConn,        \* m_uiSyncConnNum
  MaxSid,       \* bound: sids 1..MaxSid
  ChunkMax,     \* bound: messages in a chunk
  MaxSession,   \* bound: sessions the slave creates
  MaxFault,     \* bound: broken connections and restarts of the slave
  SaveMayFail   \* may an append to the slave's binlog return an error?

ASSUME BoundsAssumption ==
  /\ NConn \in Nat \ {0} /\ ChunkMax \in Nat \ {0} /\ MaxSession \in Nat \ {0}
  /\ MaxSid \in Nat /\ MaxFault \in Nat

ASSUME SwitchAssumption == SaveMayFail \in BOOLEAN

Conns == 1..NConn
Hosts == 1..MaxSession
Sids  == 1..MaxSid

VARIABLES
  top,      \* the newest sid of the master's binlog
  disp,     \* disp[h]: the master's session for host id h
  lastSeq,  \* lastSeq[h][i]: m_ullSentSeq of connection i, None if none sent
  redo,     \* the connections registered for the next turn of the channel
  slog,     \* the sids of the slave's binlog, which stand in it in ascending order
  host,     \* m_uiCurHostId
  session,  \* m_syncSession of the slave
  link,     \* link[h][i]: both ends of connection i of host id h
  toMaster, \* toMaster[h][i]: bytes on their way, in messages
  toSlave,
  faults    \* broken connections and restarts so far

masterVars == <<top, disp, lastSeq, redo>>
slaveVars  == <<slog, host, session>>
netVars    == <<link, toMaster, toSlave>>
vars       == <<masterVars, slaveVars, netVars, faults>>

None == -1

\* CwxMqDispSession.  sent[k] is what was sent with sequence number k - 1, the
\* sids from first to last: one message, or the messages of a chunk.
NoDisp ==
  [st |-> "none", start |-> 0, placed |-> FALSE, at |-> 0, next |-> FALSE,
   sent |-> <<>>, conns |-> {}]

\* CwxMqSyncSession: waiting holds the messages that wait for their turn.
NoSession == [open |-> FALSE, replied |-> FALSE, next |-> 0, waiting |-> {}, reported |-> {}]

NewSession == [NoSession EXCEPT !.open = TRUE]

NoLink == [m |-> "none", s |-> "none", cut |-> FALSE]

Report(s)  == [type |-> "report", val |-> s]
NewConn    == [type |-> "newconn", val |-> 0]
Reply_Next(k) == [type |-> "reply", val |-> k + 1]  \* mutant
Reply(k)   == [type |-> "reply", val |-> k]
Accept     == [type |-> "accept", val |-> 0]
Data(k)    == [type |-> "data", val |-> k]
Refusal    == [type |-> "err", val |-> 0]

SlaveMax == Max(slog \cup {0})

(***************************************************************************)
(* The master.                                                             *)
(***************************************************************************)
\* A message is stored on the master.
Publish ==
  /\ top < MaxSid
  /\ top' = top + 1
  /\ UNCHANGED <<disp, lastSeq, redo, slaveVars, netVars, faults>>

\* Mutants: the record the cursor was placed on is passed over; m_bNext is
\* not set after a record was sent.
FirstToSend_Skips(d) == d.at + 1
FirstToSend_Again(d) == d.at

\* syncSeekToBinlog: the record under the cursor, or the one after it when
\* that has been sent (m_bNext).
FirstToSend(d) == IF d.next THEN d.at + 1 ELSE d.at

\* Mutants: the sid is not compared; the newest message is waited for.
Placed_Always(d) ==
  IF d.placed THEN d ELSE [d EXCEPT !.placed = TRUE, !.at = d.start + 1]
Placed_OffByOne(d) ==
  IF d.placed \/ d.start + 1 >= top THEN d
  ELSE [d EXCEPT !.placed = TRUE, !.at = d.start + 1]

\* syncSeekToReportSid: a cursor that is not placed goes to the first message
\* above the reported sid, if there is one.
Placed(d) ==
  IF d.placed \/ d.start >= top THEN d
  ELSE [d EXCEPT !.placed = TRUE, !.at = d.start + 1, !.next = FALSE]

CanSend(d) == LET p == Placed(d) IN p.placed /\ FirstToSend(p) <= top

\* syncSendBinLog: send what the session has next, one message or a chunk,
\* with the session's next sequence number, or register for a redo.
SendNext(h, i, d, down) ==
  IF ~CanSend(d)
  THEN /\ redo' = redo \cup {<<h, i>>}
       /\ disp' = [disp EXCEPT ![h] = Placed(d)]
       /\ toSlave' = [toSlave EXCEPT ![h][i] = down]
       /\ UNCHANGED lastSeq
  ELSE LET p == Placed(d) IN
       \E last \in FirstToSend(p)..top :
         /\ last < FirstToSend(p) + ChunkMax
         /\ disp' = [disp EXCEPT ![h] =
              [p EXCEPT !.at = last, !.next = TRUE,
                        !.sent = Append(@, [first |-> FirstToSend(p), last |-> last])]]
         /\ lastSeq' = [lastSeq EXCEPT ![h][i] = Len(p.sent)]
         /\ toSlave' = [toSlave EXCEPT ![h][i] = Append(down, Data(Len(p.sent)))]
         /\ redo' = redo \ {<<h, i>>}

\* A message of type t has come in on a connection the master has open.
MasterGets(h, i, t) ==
  /\ link[h][i].m = "open"
  /\ toMaster[h][i] # <<>> /\ Head(toMaster[h][i]).type = t
  /\ toMaster' = [toMaster EXCEPT ![h][i] = Tail(@)]

Arg(h, i) == Head(toMaster[h][i]).val

\* recvReport: a new session starts behind the reported sid.
RecvReport(h, i) ==
  /\ MasterGets(h, i, "report")
  /\ SendNext(h, i,
       [NoDisp EXCEPT !.st = "open", !.start = Arg(h, i), !.conns = {i}],
       Append(toSlave[h][i], Accept))
  /\ UNCHANGED <<top, slaveVars, link, faults>>

\* recvNewConnection: one more connection of a session.
RecvNewConnection(h, i) ==
  /\ MasterGets(h, i, "newconn")
  /\ disp[h].st \in {"open", "closed"}
  /\ SendNext(h, i, [disp[h] EXCEPT !.conns = @ \cup {i}], toSlave[h][i])
  /\ UNCHANGED <<top, slaveVars, link, faults>>

\* The session is gone: an error reply, after which the connection is closed.
RefuseNewConnection(h, i) ==
  /\ MasterGets(h, i, "newconn")
  /\ disp[h].st = "gone"
  /\ toSlave' = [toSlave EXCEPT ![h][i] = Append(@, Refusal)]
  /\ link' = [link EXCEPT ![h][i].m = "closed"]
  /\ UNCHANGED <<masterVars, slaveVars, faults>>

\* recvReply: an acknowledgement must carry the number that was sent last on
\* the connection (RepliesMatch says that it does); the next one goes out.
RecvReply(h, i) ==
  /\ MasterGets(h, i, "reply")
  /\ Arg(h, i) = lastSeq[h][i]
  /\ SendNext(h, i, disp[h], toSlave[h][i])
  /\ UNCHANGED <<top, slaveVars, link, faults>>

\* onRedo of a connection that was told that there was nothing to send.
OnRedo(h, i) ==
  /\ <<h, i>> \in redo
  /\ CanSend(disp[h])
  /\ SendNext(h, i, disp[h], toSlave[h][i])
  /\ UNCHANGED <<top, slaveVars, link, toMaster, faults>>

\* onConnClosed: one connection closes, the whole session is to go.
MasterConnClosed(h, i) ==
  /\ link[h][i].m = "open"
  /\ link[h][i].cut \/ link[h][i].s \in {"closing", "closed"}
  /\ link' = [link EXCEPT ![h][i].m = "closed"]
  /\ redo' = redo \ {<<h, i>>}
  /\ disp' = IF i \in disp[h].conns
             THEN [disp EXCEPT ![h].st = "closed", ![h].conns = @ \ {i}]
             ELSE disp
  /\ toMaster' = [toMaster EXCEPT ![h][i] = <<>>]
  /\ UNCHANGED <<top, lastSeq, slaveVars, toSlave, faults>>

\* dealClosedSession: what is left of a closed session is removed.
DealClosedSession(h) ==
  /\ disp[h].st = "closed"
  /\ link' = [link EXCEPT ![h] = [i \in Conns |->
       IF i \in disp[h].conns THEN [link[h][i] EXCEPT !.m = "closed"] ELSE link[h][i]]]
  /\ redo' = redo \ {<<h, i>> : i \in Conns}
  /\ disp' = [disp EXCEPT ![h].st = "gone", ![h].conns = {}]
  /\ toMaster' = [toMaster EXCEPT ![h] = [i \in Conns |->
       IF i \in disp[h].conns THEN <<>> ELSE toMaster[h][i]]]
  /\ UNCHANGED <<top, lastSeq, slaveVars, toSlave, faults>>

(***************************************************************************)
(* The slave.                                                              *)
(***************************************************************************)
\* closeSession: its connections are asked to close.
Closing(h) ==
  [i \in Conns |-> IF link[h][i].s = "open" THEN [link[h][i] EXCEPT !.s = "closing"] ELSE link[h][i]]

CloseSession ==
  /\ session' = NoSession
  /\ link' = IF session.open THEN [link EXCEPT ![host] = Closing(host)] ELSE link

\* onTimeoutCheck without a session: createSession connects and reports the
\* largest sid of the slave's binlog on the first connection.
CreateSession ==
  /\ ~session.open
  /\ host < MaxSession
  /\ host' = host + 1
  /\ session' = NewSession
  /\ link' = [link EXCEPT ![host + 1] = [i \in Conns |-> [m |-> "open", s |-> "open", cut |-> FALSE]]]
  /\ toMaster' = [toMaster EXCEPT ![host + 1][1] = <<Report(SlaveMax)>>]
  /\ UNCHANGED <<masterVars, slog, toSlave, faults>>

\* A message of type t has come in for the slave's session.  What comes in on
\* the connections of an older session is dropped (m_uiHostId).
SlaveGets(i, t) ==
  /\ session.open /\ link[host][i].s = "open"
  /\ toSlave[host][i] # <<>> /\ Head(toSlave[host][i]).type = t
  /\ toSlave' = [toSlave EXCEPT ![host][i] = Tail(@)]

\* The connections in C report with the session's id.
Joining(C) ==
  toMaster' = [toMaster EXCEPT ![host] =
    [j \in Conns |-> IF j \in C THEN Append(toMaster[host][j], NewConn) ELSE toMaster[host][j]]]

\* dealSyncReportReply: the session is accepted; the other connections report.
RecvReportReply(i) ==
  /\ SlaveGets(i, "accept")
  /\ session' = [session EXCEPT !.replied = TRUE, !.reported = Conns]
  /\ Joining(Conns \ {i})
  /\ UNCHANGED <<masterVars, slog, host, link, faults>>

\* A report to a connection that has gone cannot be sent; those before it have
\* reported, and the session ends.
RecvReportReplyFails(i) ==
  /\ SlaveGets(i, "accept")
  /\ \E j \in Conns \ {i} : link[host][j].cut /\ Joining({k \in Conns \ {i} : k < j})
  /\ CloseSession
  /\ UNCHANGED <<masterVars, slog, host, faults>>

\* Sequence number k starts the run k, k + 1, ... of those that wait.
RunEnd(k, S) == CHOOSE m \in k..Max(S \cup {k}) :
  m + 1 \notin S /\ \A q \in k+1..m : q \in S

\* Mutants: the messages that wait are not looked at; one that has to wait is
\* dropped.
Ready_OnlyThis(k, i) == IF k = session.next THEN <<[seq |-> k, conn |-> i]>> ELSE <<>>
StillWaiting_Drops(k, i) == {w \in session.waiting : w.seq # session.next}

\* CwxMqSyncSession::recv for message k on connection i: the messages that can
\* be processed now, in order, and those that still wait.
Ready(k, i) ==
  LET waits == {w.seq : w \in session.waiting}
      conn(q) == IF q = k THEN i ELSE (CHOOSE w \in session.waiting : w.seq = q).conn
      end == RunEnd(k, waits)
  IN  IF k = session.next
      THEN [n \in 1..(end - k + 1) |-> [seq |-> k + n - 1, conn |-> conn(k + n - 1)]]
      ELSE <<>>

StillWaiting(k, i) ==
  LET done == {r.seq : r \in ToSet(Ready(k, i))}
  IN  {w \in session.waiting \cup {[seq |-> k, conn |-> i]} : w.seq \notin done}

\* The loop over the list takes one element off the front, moves to the new
\* front and then on by one: the second message is passed over.
Processed(list) ==
  IF Len(list) < 2 THEN list ELSE <<list[1]>> \o SubSeq(list, 3, Len(list))

\* What the messages of a list hold: saveBinlog gets each of their sids.
Chunk(m) == disp[host].sent[m.seq + 1]
SidsOf(list) == UNION {Chunk(list[n]).first..Chunk(list[n]).last : n \in 1..Len(list)}

\* The m-th number of a set.
Nth(S, m) == CHOOSE n \in S : Cardinality({x \in S : x <= n}) = m

\* What is acknowledged on connection i for the messages of a list.
Replies(list, i) ==
  LET mine == {n \in 1..Len(list) : list[n].conn = i}
  IN  [m \in 1..Cardinality(mine) |-> Reply(list[Nth(mine, m)].seq)]

\* Mutant: a message is acknowledged when it comes in.
Acknowledge_All(list, done) == [i \in Conns |-> toMaster[host][i] \o Replies(list, i)]

\* Each of the first done messages of the list is acknowledged on the
\* connection it came on.
Acknowledge(list, done) ==
  [i \in Conns |-> toMaster[host][i] \o Replies(SubSeq(list, 1, done), i)]

\* append() takes ascending sids above its largest one.
Accepted(list) ==
  \A n \in 1..Len(list) :
    /\ Chunk(list[n]).first > SlaveMax
    /\ \A m \in 1..n-1 : Chunk(list[m]).last < Chunk(list[n]).first

Progress(k, i) ==
  [session EXCEPT !.next = @ + Len(Ready(k, i)), !.waiting = StillWaiting(k, i)]

\* dealSyncData and dealSyncChunkData of every message whose turn has come.
RecvData(i) ==
  /\ SlaveGets(i, "data")
  /\ LET k    == Head(toSlave[host][i]).val
         list == Processed(Ready(k, i))
     IN  /\ i \in session.reported
         /\ Accepted(list)
         /\ slog' = slog \cup SidsOf(list)
         /\ toMaster' = [toMaster EXCEPT ![host] = Acknowledge(list, Len(list))]
         /\ session' = Progress(k, i)
  /\ UNCHANGED <<masterVars, host, link, faults>>

\* One of them cannot be stored, all of it or the rest of it, or cannot be
\* acknowledged.  The session is closed, unless that was the only message.
RecvDataFails(i) ==
  /\ SlaveGets(i, "data")
  /\ LET k     == Head(toSlave[host][i]).val
         ready == Ready(k, i)
         list  == Processed(ready)
     IN  \E n \in 1..Len(list) : \E last \in Chunk(list[n]).first - 1..Chunk(list[n]).last :
           /\ SaveMayFail \/ (link[host][list[n].conn].cut /\ last = Chunk(list[n]).last)
           /\ slog' = slog \cup SidsOf(SubSeq(list, 1, n - 1)) \cup Chunk(list[n]).first..last
           /\ toMaster' = [toMaster EXCEPT ![host] = Acknowledge(list, n - 1)]
           /\ IF Len(ready) = 1
              THEN session' = Progress(k, i) /\ UNCHANGED link
              ELSE CloseSession
  /\ UNCHANGED <<masterVars, host, faults>>

\* dealErrMsg: the master refuses.
RecvErr(i) ==
  /\ SlaveGets(i, "err")
  /\ CloseSession
  /\ UNCHANGED <<masterVars, slog, host, toMaster, faults>>

\* onConnClosed: whatever session there is now is closed, be the connection
\* one of its own or not.
SlaveConnClosed(h, i) ==
  /\ \/ link[h][i].s = "closing"
     \/ link[h][i].s = "open" /\ (link[h][i].cut \/ link[h][i].m = "closed")
  /\ LET l == IF session.open THEN [link EXCEPT ![host] = Closing(host)] ELSE link
     IN  link' = [l EXCEPT ![h][i].s = "closed"]
  /\ session' = NoSession
  /\ toSlave' = [toSlave EXCEPT ![h][i] = <<>>]
  /\ UNCHANGED <<masterVars, slog, host, toMaster, faults>>

(***************************************************************************)
(* Faults.                                                                 *)
(***************************************************************************)
\* A connection breaks: either side hears of it at some time.
Break(h, i) ==
  /\ faults < MaxFault
  /\ link[h][i].m = "open" /\ link[h][i].s = "open" /\ ~link[h][i].cut
  /\ link' = [link EXCEPT ![h][i].cut = TRUE]
  /\ faults' = faults + 1
  /\ UNCHANGED <<masterVars, slaveVars, toMaster, toSlave>>

\* The slave dies and starts again; its binlog may have lost its end.
SlaveRestarts ==
  /\ faults < MaxFault
  /\ faults' = faults + 1
  /\ \E last \in slog \cup {0} : slog' = {s \in slog : s <= last}
  /\ session' = NoSession
  /\ link' = [h \in Hosts |-> [i \in Conns |->
       IF link[h][i].s = "none" THEN NoLink ELSE [link[h][i] EXCEPT !.s = "closed"]]]
  /\ toSlave' = [h \in Hosts |-> [i \in Conns |-> <<>>]]
  /\ UNCHANGED <<masterVars, host, toMaster>>

Init ==
  /\ top = 0
  /\ disp = [h \in Hosts |-> NoDisp]
  /\ lastSeq = [h \in Hosts |-> [i \in Conns |-> None]]
  /\ redo = {}
  /\ slog = {} /\ host = 0 /\ session = NoSession
  /\ link = [h \in Hosts |-> [i \in Conns |-> NoLink]]
  /\ toMaster = [h \in Hosts |-> [i \in Conns |-> <<>>]]
  /\ toSlave = [h \in Hosts |-> [i \in Conns |-> <<>>]]
  /\ faults = 0

MasterStep ==
  \/ \E h \in Hosts, i \in Conns :
       \/ RecvReport(h, i) \/ RecvNewConnection(h, i) \/ RefuseNewConnection(h, i)
       \/ RecvReply(h, i) \/ OnRedo(h, i) \/ MasterConnClosed(h, i)
  \/ \E h \in Hosts : DealClosedSession(h)

SlaveStep ==
  \/ CreateSession
  \/ \E i \in Conns :
       \/ RecvReportReply(i) \/ RecvReportReplyFails(i)
       \/ RecvData(i) \/ RecvErr(i)
  \/ \E h \in Hosts, i \in Conns : SlaveConnClosed(h, i)

Fault ==
  \/ \E h \in Hosts, i \in Conns : Break(h, i)
  \/ \E i \in Conns : RecvDataFails(i)
  \/ SlaveRestarts

Next == Publish \/ MasterStep \/ SlaveStep \/ Fault

Spec == Init /\ [][Next]_vars

(***************************************************************************)
(* Properties.                                                             *)
(***************************************************************************)
Messages(t, vals) == [type : t, val : vals]

Disps == [st : {"none", "open", "closed", "gone"}, start : 0..MaxSid, placed : BOOLEAN,
          at : 0..MaxSid, next : BOOLEAN, sent : Seq([first : Sids, last : Sids]),
          conns : SUBSET Conns]
Sessions == [open : BOOLEAN, replied : BOOLEAN, next : Nat,
             waiting : SUBSET [seq : 0..MaxSid, conn : Conns], reported : SUBSET Conns]
Links == [m : {"none", "open", "closed"}, s : {"none", "open", "closing", "closed"},
          cut : BOOLEAN]

\* The type invariant.
TypeOK ==
  /\ top \in 0..MaxSid
  /\ disp \in [Hosts -> Disps]
  /\ lastSeq \in [Hosts -> [Conns -> Nat \cup {None}]]
  /\ redo \subseteq Hosts \X Conns
  /\ slog \subseteq Sids
  /\ host \in 0..MaxSession
  /\ session \in Sessions
  /\ link \in [Hosts -> [Conns -> Links]]
  /\ toMaster \in [Hosts -> [Conns -> Seq(Messages({"report", "newconn", "reply"}, 0..MaxSid))]]
  /\ toSlave \in [Hosts -> [Conns -> Seq(Messages({"accept", "data", "err"}, 0..MaxSid))]]
  /\ faults \in 0..MaxFault

\* What a session has sent, in the order of the sequence numbers, is the
\* master's log from the reported sid on, without a gap or a repetition,
\* whatever connections sent it and however often a connection waited.
StreamContiguous ==
  \A h \in Hosts : LET sent == disp[h].sent
                   IN \A k \in 1..Len(sent) :
                        /\ sent[k].first <= sent[k].last
                        /\ sent[k].first = (IF k = 1 THEN disp[h].start ELSE sent[k-1].last) + 1

\* The slave's binlog has every message of the master's up to its newest.
NoGap == slog = 1..SlaveMax

\* recvReply never meets a sequence number it does not expect: the
\* acknowledgement on its way is of what was sent last on the connection.
RepliesMatch ==
  \A h \in Hosts, i \in Conns : \A n \in 1..Len(toMaster[h][i]) :
    toMaster[h][i][n].type = "reply" =>
      n = Len(toMaster[h][i]) /\ toMaster[h][i][n].val = lastSeq[h][i]

\* What is acknowledged in the session that lasts is in the slave's binlog.
AckedIsStored ==
  session.open => \A i \in Conns : \A n \in 1..Len(toMaster[host][i]) :
    toMaster[host][i][n].type = "reply" =>
      LET chunk == disp[host].sent[toMaster[host][i][n].val + 1]
      IN  chunk.first..chunk.last \subseteq slog

Healthy == session.open /\ \A i \in Conns : link[host][i].m = "open" /\ link[host][i].s = "open"

\* While its connections hold, a session loses no message: each one from the
\* next expected one on is on its way or waits for its turn.
NothingLostInSession ==
  Healthy => \A k \in session.next..Len(disp[host].sent) - 1 :
    \/ k \in {w.seq : w \in session.waiting}
    \/ \E i \in Conns : Data(k) \in ToSet(toSlave[host][i])

\* The messages a session still has to process are above the slave's newest:
\* none is stored twice, and append() refuses none.
NeverRefused ==
  session.open => \A k \in session.next..Len(disp[host].sent) - 1 :
    disp[host].sent[k + 1].first > SlaveMax

\* The messages that wait for their turn are fewer than the connections.
WaitingBounded == session.open => Cardinality(session.waiting) < NConn

(***************************************************************************)
(* Liveness: both servers go on handling events, the reactor reports closed *)
(* connections, and the clock event reaches the slave every second.         *)
(***************************************************************************)
FairSpec == Spec /\ WF_vars(MasterStep) /\ WF_vars(SlaveStep)

\* Every message comes to the slave, however connections break on the way.
CatchesUp == \A s \in Sids : (top >= s) ~> (s \in slog)
=============================================================================
