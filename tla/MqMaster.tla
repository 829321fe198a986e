------------------------------ MODULE MqMaster ------------------------------
(***************************************************************************)
(* The receiving side of a master: CwxMqRecvHandler, the sid counter of      *)
(* CwxMqApp and its value after a restart (src/mq/mq/CwxMqRecvHandler.cpp,    *)
(* CwxMqApp.{h,cpp}).                                                        *)
(*                                                                         *)
(* The binlog is the sequence of its records, of which a beginning is on the  *)
(* disk; module BinLog has the files.  Only the receiving thread appends.     *)
(***************************************************************************)
EXTENDS Integers, Sequences, FiniteSets

CONSTANTS
  FlushNum,  \* m_uiFlushBinLogNum of the binlog
  SkipMax,   \* CWX_MQ_MAX_BINLOG_FLUSH_COUNT
  MaxRecv,   \* bound: messages in the binlog
  MaxSid,    \* bound: the largest sid
  MaxFail,   \* bound: appends that fail between two synced records
  FirstMayFail \* may the first commit of a run fail, or the server die before it?

\* CwxMqConfig limits flush_log_num to CWX_MQ_MAX_BINLOG_FLUSH_COUNT.
ASSUME FlushAssumption ==
  /\ FlushNum \in Nat \ {0} /\ SkipMax \in Nat /\ MaxRecv \in Nat /\ MaxSid \in Nat /\ MaxFail \in Nat
  /\ FlushNum + MaxFail <= SkipMax
  /\ FirstMayFail \in BOOLEAN

VARIABLES
  up,        \* is the server running?
  log,       \* the sids of the binlog's records
  synced,    \* how many of them are on the disk
  unflushed, \* m_uiUnFlushBinlog
  flushing,  \* is a commit under way?
  broken,    \* did a commit fail, so that nothing is appended any more?
  firstLog,  \* m_bFirstBinLog
  curSid,    \* m_uiCurSid
  failed,    \* sids used by failed appends above the last synced record
  seen       \* the largest sid that a slave or a source has got

logVars    == <<log, synced, unflushed, flushing, broken, failed>>
masterVars == <<up, logVars, firstLog, curSid, seen>>

Newest(s) == IF s = <<>> THEN 0 ELSE s[Len(s)]

NextSid == curSid + 1

\* startBinLogMgr(): the counter after a start with binlog s.
FirstSid(s) == Newest(s) + SkipMax + 1

\* Mutant: the first message after a start is not committed at once.
MustCommit_NotFirst(timeUp) == unflushed + 1 > FlushNum \/ timeUp

\* append() commits when there are too many records or the time is up, the
\* handler commits the first message after a start.
MustCommit(timeUp) == unflushed + 1 > FlushNum \/ timeUp \/ firstLog

\* A message is appended.  Readers can see it before it is committed.
RecvAppend ==
  /\ up /\ ~flushing /\ ~broken
  /\ Len(log) < MaxRecv /\ NextSid <= MaxSid
  /\ curSid' = NextSid
  /\ log' = Append(log, NextSid)
  /\ \E timeUp \in BOOLEAN :
       /\ flushing' = MustCommit(timeUp)
       /\ unflushed' = IF MustCommit(timeUp) THEN 0 ELSE unflushed + 1
  /\ UNCHANGED <<up, synced, broken, failed, firstLog, seen>>

\* The append fails; its sid is not used again.
RecvFails ==
  /\ up /\ ~flushing /\ ~broken
  /\ failed < MaxFail /\ NextSid <= MaxSid
  /\ curSid' = NextSid /\ failed' = failed + 1
  /\ UNCHANGED <<up, log, synced, unflushed, flushing, broken, firstLog, seen>>

\* onTimeoutCheck(): CwxBinLogMgr::timeout commits what has waited long enough.
TimeoutFlush ==
  /\ up /\ ~flushing /\ ~broken
  /\ unflushed > 0
  /\ unflushed' = 0 /\ flushing' = TRUE
  /\ UNCHANGED <<up, log, synced, broken, failed, firstLog, curSid, seen>>

\* The commit that is under way ends.
RecvCommit ==
  /\ up /\ flushing
  /\ flushing' = FALSE /\ firstLog' = FALSE
  /\ synced' = Len(log) /\ failed' = curSid - Newest(log)
  /\ UNCHANGED <<up, log, unflushed, broken, curSid, seen>>

\* It fails: the sender is told so, though the message stays, and the binlog
\* takes no more.
RecvCommitFails ==
  /\ up /\ flushing
  /\ FirstMayFail \/ ~firstLog
  /\ flushing' = FALSE /\ firstLog' = FALSE
  /\ broken' = TRUE
  /\ UNCHANGED <<up, log, synced, unflushed, failed, curSid, seen>>

\* The dispatch thread sends everything to a slave or a source.
Dispatch ==
  /\ up /\ seen # Newest(log) /\ log # <<>>
  /\ seen' = Newest(log)
  /\ UNCHANGED <<up, logVars, firstLog, curSid>>

Stop ==
  /\ up /\ up' = FALSE
  /\ FirstMayFail \/ ~(flushing /\ firstLog)
  /\ unflushed' = 0 /\ flushing' = FALSE /\ broken' = FALSE /\ failed' = 0
  /\ firstLog' = FALSE /\ curSid' = 0
  /\ UNCHANGED seen

\* The process dies; what it has written stays.
ProcessDies == Stop /\ UNCHANGED <<log, synced>>

\* The machine dies: some of the unsynced records are lost.
MachineDies ==
  /\ Stop
  /\ \E n \in synced..Len(log) : log' = SubSeq(log, 1, n) /\ synced' = n

\* initRunEnv() with startBinLogMgr().
Start ==
  /\ ~up /\ up' = TRUE
  /\ curSid' = FirstSid(log)
  /\ firstLog' = TRUE
  /\ UNCHANGED <<log, synced, unflushed, flushing, broken, failed, seen>>

MasterInit ==
  /\ up = FALSE
  /\ log = <<>> /\ synced = 0 /\ unflushed = 0 /\ flushing = FALSE /\ broken = FALSE
  /\ failed = 0 /\ firstLog = FALSE /\ curSid = 0 /\ seen = 0

Recv == RecvAppend \/ RecvFails \/ RecvCommit \/ RecvCommitFails \/ TimeoutFlush

MasterNext == Recv \/ Dispatch \/ ProcessDies \/ MachineDies \/ Start

MasterSpec == MasterInit /\ [][MasterNext]_masterVars

(***************************************************************************)
(* Properties.                                                             *)
(***************************************************************************)
MasterTypeOK ==
  /\ up \in BOOLEAN
  /\ log \in Seq(Nat) /\ Len(log) <= MaxRecv
  /\ synced \in 0..Len(log)
  /\ unflushed \in 0..FlushNum /\ failed \in 0..MaxFail
  /\ {flushing, broken, firstLog} \subseteq BOOLEAN
  /\ curSid \in Nat /\ seen \in Nat

\* A sid that was given to anybody is never given to another message, though
\* the message itself may be lost with the machine: while the server runs,
\* the counter is not below any sid that a slave or a source has got.
NeverReused == up => seen <= curSid
=============================================================================
