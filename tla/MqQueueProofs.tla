--------------------------- MODULE MqQueueProofs ---------------------------
(***************************************************************************)
(* Proofs about a master and its queues.  A sid that was given out is never   *)
(* used again (NeverReused of module MqMaster), when the first commit of each *)
(* run of the server succeeds before the server dies.  The queues do not      *)
(* disturb the receiving side, so that this holds when its messages are       *)
(* consumed; a message behind a cursor is at one place, and no queue is ahead  *)
(* of the sid counter.                                                       *)
(***************************************************************************)
EXTENDS MqQueue, SequenceTheorems, WellFoundedInduction, TLAPS

(***************************************************************************)
(* The master alone.                                                       *)
(***************************************************************************)
\* The sid of the newest record that is on the disk for certain.
SyncedSid == IF synced = 0 THEN 0 ELSE log[synced]

Ascending == \A i, j \in 1..Len(log) : i < j => log[i] < log[j]

\* A server that is down has no counters.
DownIsReset ==
  ~up => unflushed = 0 /\ ~flushing /\ ~broken /\ failed = 0

\* The first record of a run is committed at once.
FirstIsFlushed == firstLog => unflushed = 0 /\ ~broken

\* The counter is at the newest record but for the appends that failed.
CounterAtNewest ==
  up => /\ Newest(log) <= curSid
        /\ flushing \/ ~firstLog => curSid <= Newest(log) + failed

\* What holds of the binlog and the counter whatever fails.
LogInv == MasterTypeOK /\ Ascending /\ DownIsReset /\ FirstIsFlushed /\ CounterAtNewest

\* After the first commit the counter has left the synced records by no more
\* than the records and failures that are counted.
Counted ==
  up /\ ~firstLog =>
    /\ curSid <= SyncedSid + failed + (Len(log) - synced)
    /\ Len(log) - synced <= IF flushing \/ broken THEN FlushNum + 1 ELSE unflushed

\* A sid that somebody may have got: the counter is not below it.  Before the
\* first commit, and while the server is down, it is within the margin of the
\* next start above the synced records.
Known(s) ==
  /\ up => s <= curSid
  /\ ~up \/ (firstLog /\ ~flushing) => s <= SyncedSid + SkipMax + 1

SyncedInv == LogInv /\ Counted /\ Known(Newest(log))

MasterInv == SyncedInv /\ Known(seen)

(***************************************************************************)
(* The binlog as a sequence.                                                *)
(***************************************************************************)
LEMMA AppendSid ==
  ASSUME NEW q \in Seq(Nat), NEW e \in Nat
  PROVE  /\ Append(q, e) \in Seq(Nat)
         /\ Append(q, e) # <<>>
         /\ Len(Append(q, e)) = Len(q) + 1
         /\ \A i \in 1..Len(q) : Append(q, e)[i] = q[i]
         /\ Append(q, e)[Len(q) + 1] = e
         /\ Newest(Append(q, e)) = e
  BY DEF Newest

LEMMA PrefixFacts ==
  ASSUME NEW q \in Seq(Nat), NEW n \in 0..Len(q)
  PROVE  /\ SubSeq(q, 1, n) \in Seq(Nat)
         /\ Len(SubSeq(q, 1, n)) = n
         /\ \A i \in 1..n : SubSeq(q, 1, n)[i] = q[i]
         /\ Newest(SubSeq(q, 1, n)) = IF n = 0 THEN 0 ELSE q[n]
<1>1. n \in Nat /\ n <= Len(q) /\ \A i \in 1..n : q[i] \in Nat
  OBVIOUS
<1>2. /\ SubSeq(q, 1, n) \in Seq(Nat)
      /\ Len(SubSeq(q, 1, n)) = n
      /\ \A i \in 1..n : SubSeq(q, 1, n)[i] = q[i]
  BY <1>1, SubSeqProperties
<1>3. CASE n = 0
  BY <1>2, <1>3 DEF Newest
<1>4. CASE n # 0
  <2>1. SubSeq(q, 1, n) # <<>> /\ n \in 1..n
    BY <1>1, <1>2, <1>4
  <2> QED
    BY <1>2, <1>4, <2>1 DEF Newest
<1> QED
  BY <1>2, <1>3, <1>4

\* Sids are numbers, and a record that is kept has one that is not below the
\* newest synced one.
LEMMA SidFacts ==
  ASSUME MasterTypeOK, Ascending
  PROVE  /\ Newest(log) = (IF Len(log) = 0 THEN 0 ELSE log[Len(log)])
         /\ Newest(log) \in Nat /\ SyncedSid \in Nat
         /\ \A i \in 1..Len(log) : log[i] \in Nat /\ log[i] <= Newest(log)
         /\ \A n \in synced..Len(log) : SyncedSid <= IF n = 0 THEN 0 ELSE log[n]
         /\ SyncedSid <= Newest(log)
<1>1. log \in Seq(Nat) /\ Len(log) \in Nat /\ synced \in 0..Len(log)
  BY DEF MasterTypeOK
<1>2. \A i \in 1..Len(log) : log[i] \in Nat
  BY <1>1
<1>3. Newest(log) = (IF Len(log) = 0 THEN 0 ELSE log[Len(log)])
  BY <1>1 DEF Newest
<1>4. Newest(log) \in Nat /\ SyncedSid \in Nat
  BY <1>1, <1>2, <1>3 DEF SyncedSid
<1>5. \A i \in 1..Len(log) : log[i] <= Newest(log)
  BY <1>1, <1>2, <1>3 DEF Ascending
<1>6. \A n \in synced..Len(log) : SyncedSid <= IF n = 0 THEN 0 ELSE log[n]
  BY <1>1, <1>2 DEF Ascending, SyncedSid
<1>7. SyncedSid <= Newest(log)
  BY <1>1, <1>3, <1>6
<1> QED
  BY <1>2, <1>3, <1>4, <1>5, <1>6, <1>7

(***************************************************************************)
(* What holds of the binlog and the counter is inductive.                   *)
(***************************************************************************)
LEMMA InitInv == MasterInit => MasterInv
<1> SUFFICES ASSUME MasterInit PROVE MasterInv
  OBVIOUS
<1> USE FlushAssumption DEF MasterInit
<1>1. MasterTypeOK /\ Ascending
  <2>1. log \in Seq(Nat) /\ Len(log) = 0
    OBVIOUS
  <2>2. {flushing, broken, firstLog} \subseteq BOOLEAN /\ up \in BOOLEAN
    OBVIOUS
  <2>3. /\ Len(log) <= MaxRecv /\ synced \in 0..Len(log)
        /\ unflushed \in 0..FlushNum /\ failed \in 0..MaxFail
        /\ curSid \in Nat /\ seen \in Nat
    BY <2>1
  <2>4. Ascending
    BY <2>1 DEF Ascending
  <2> QED
    BY <2>1, <2>2, <2>3, <2>4 DEF MasterTypeOK
<1>2. Newest(log) = 0 /\ SyncedSid = 0
  BY DEF Newest, SyncedSid
<1> QED
  BY <1>1, <1>2 DEF MasterInv, SyncedInv, LogInv, DownIsReset, FirstIsFlushed, CounterAtNewest,
     Counted, Known

\* The numbers of a state, for the arithmetic of the steps.
LEMMA LogTypes ==
  ASSUME LogInv
  PROVE  /\ log \in Seq(Nat) /\ Len(log) \in Nat /\ synced \in 0..Len(log)
         /\ curSid \in Nat /\ seen \in Nat /\ failed \in 0..MaxFail /\ unflushed \in 0..FlushNum
         /\ up \in BOOLEAN /\ {flushing, broken, firstLog} \subseteq BOOLEAN
         /\ Newest(log) \in Nat /\ SyncedSid \in Nat /\ SyncedSid <= Newest(log)
         /\ Newest(log) = (IF Len(log) = 0 THEN 0 ELSE log[Len(log)])
         /\ \A i \in 1..Len(log) : log[i] \in Nat /\ log[i] <= Newest(log)
<1>1. /\ log \in Seq(Nat) /\ Len(log) \in Nat /\ synced \in 0..Len(log)
      /\ curSid \in Nat /\ seen \in Nat /\ failed \in 0..MaxFail /\ unflushed \in 0..FlushNum
      /\ up \in BOOLEAN /\ {flushing, broken, firstLog} \subseteq BOOLEAN
  BY DEF LogInv, MasterTypeOK
<1> QED
  BY <1>1, SidFacts DEF LogInv

LEMMA LogNumbers == LogInv => SyncedSid \in Nat /\ curSid \in Nat
  BY LogTypes

\* The parts of the invariant that are the log's own stay when the log does.
LEMMA SameLog ==
  ASSUME LogInv, UNCHANGED <<log, synced>>
  PROVE  Ascending' /\ SyncedSid' = SyncedSid /\ Newest(log)' = Newest(log)
  BY DEF LogInv, Ascending, SyncedSid

LEMMA AppendFacts ==
  ASSUME LogInv, RecvAppend
  PROVE  /\ log' \in Seq(Nat) /\ Len(log') = Len(log) + 1
         /\ \A i \in 1..Len(log) : log'[i] = log[i]
         /\ log'[Len(log) + 1] = curSid + 1
         /\ Newest(log)' = curSid + 1 /\ SyncedSid' = SyncedSid
         /\ flushing' \in BOOLEAN
         /\ flushing' => unflushed' = 0
         /\ ~flushing' => unflushed' = unflushed + 1 /\ unflushed + 1 <= FlushNum /\ ~firstLog
<1>0. /\ log \in Seq(Nat) /\ Len(log) \in Nat /\ synced \in 0..Len(log)
      /\ curSid \in Nat /\ unflushed \in 0..FlushNum /\ FlushNum \in Nat
  BY LogTypes, FlushAssumption
<1>1. PICK timeUp \in BOOLEAN :
        /\ flushing' = MustCommit(timeUp)
        /\ unflushed' = IF MustCommit(timeUp) THEN 0 ELSE unflushed + 1
  BY DEF RecvAppend
<1>2. log' = Append(log, curSid + 1) /\ synced' = synced
  BY DEF RecvAppend, NextSid
<1>3. /\ log' \in Seq(Nat) /\ Len(log') = Len(log) + 1
      /\ \A i \in 1..Len(log) : log'[i] = log[i]
      /\ log'[Len(log) + 1] = curSid + 1
      /\ Newest(log)' = curSid + 1
  BY <1>0, <1>2, AppendSid
<1>4. SyncedSid' = SyncedSid
  BY <1>0, <1>2, <1>3 DEF SyncedSid
<1>5. MustCommit(timeUp) \in BOOLEAN /\ (~MustCommit(timeUp) => unflushed + 1 <= FlushNum /\ ~firstLog)
  BY <1>0 DEF MustCommit
<1> QED
  BY <1>1, <1>3, <1>4, <1>5

LEMMA AppendLog == LogInv /\ RecvAppend => LogInv'
<1> SUFFICES ASSUME LogInv, RecvAppend PROVE LogInv'
  OBVIOUS
<1>0. /\ log \in Seq(Nat) /\ Len(log) \in Nat /\ synced \in 0..Len(log)
      /\ curSid \in Nat /\ seen \in Nat /\ failed \in 0..MaxFail /\ unflushed \in 0..FlushNum
      /\ Newest(log) \in Nat
      /\ \A i \in 1..Len(log) : log[i] \in Nat /\ log[i] <= Newest(log)
  BY LogTypes
<1>1. /\ up /\ ~flushing /\ ~broken /\ Len(log) < MaxRecv /\ curSid' = curSid + 1
      /\ UNCHANGED <<up, synced, broken, failed, firstLog, seen>>
  BY DEF RecvAppend, NextSid
<1>2. /\ log' \in Seq(Nat) /\ Len(log') = Len(log) + 1
      /\ \A i \in 1..Len(log) : log'[i] = log[i]
      /\ log'[Len(log) + 1] = curSid + 1
      /\ Newest(log)' = curSid + 1
      /\ flushing' \in BOOLEAN
      /\ flushing' => unflushed' = 0
      /\ ~flushing' => unflushed' = unflushed + 1 /\ unflushed + 1 <= FlushNum /\ ~firstLog
  BY AppendFacts
<1>3. MasterTypeOK'
  <2>1. {flushing', broken', firstLog'} \subseteq BOOLEAN /\ up' \in BOOLEAN
    BY <1>1, <1>2 DEF LogInv, MasterTypeOK
  <2>2. unflushed' \in 0..FlushNum
    BY <1>0, <1>2, FlushAssumption
  <2> QED
    BY <1>0, <1>1, <1>2, <2>1, <2>2, FlushAssumption DEF MasterTypeOK
<1>4. Ascending'
  <2> SUFFICES ASSUME NEW i \in 1..Len(log'), NEW j \in 1..Len(log'), i < j
               PROVE  log'[i] < log'[j]
    BY DEF Ascending
  <2>a. i \in 1..(Len(log) + 1) /\ j \in 1..(Len(log) + 1)
    BY <1>2
  <2>1. i \in 1..Len(log) /\ (j \in 1..Len(log) \/ j = Len(log) + 1)
    BY <1>0, <2>a, SMTT(20)
  <2>2. CASE j \in 1..Len(log)
    <3>1. log[i] < log[j]
      BY <1>0, <2>1, <2>2 DEF LogInv, Ascending
    <3> QED
      BY <1>2, <2>1, <2>2, <3>1
  <2>3. CASE j = Len(log) + 1
    <3>1. log[i] \in Nat /\ log[i] <= curSid
      BY <1>0, <1>1, <2>1 DEF LogInv, CounterAtNewest
    <3>2. log'[i] = log[i] /\ log'[j] = curSid + 1
      BY <1>2, <2>1, <2>3
    <3> QED
      BY <1>0, <3>1, <3>2
  <2> QED
    BY <2>1, <2>2, <2>3
<1>5. DownIsReset' /\ FirstIsFlushed'
  BY <1>0, <1>1, <1>2 DEF LogInv, DownIsReset, FirstIsFlushed
<1>6. CounterAtNewest'
  BY <1>0, <1>1, <1>2 DEF CounterAtNewest
<1> QED
  BY <1>3, <1>4, <1>5, <1>6 DEF LogInv

\* The steps that leave the records alone and the server running.
LEMMA QuietLog ==
  LogInv /\ (RecvFails \/ TimeoutFlush \/ Dispatch \/ RecvCommitFails) => LogInv'
<1> SUFFICES ASSUME LogInv, RecvFails \/ TimeoutFlush \/ Dispatch \/ RecvCommitFails PROVE LogInv'
  OBVIOUS
<1>0. /\ log \in Seq(Nat) /\ Len(log) \in Nat /\ synced \in 0..Len(log)
      /\ curSid \in Nat /\ seen \in Nat /\ failed \in 0..MaxFail /\ unflushed \in 0..FlushNum
      /\ up \in BOOLEAN /\ {flushing, broken, firstLog} \subseteq BOOLEAN
      /\ Newest(log) \in Nat /\ FlushNum \in Nat /\ MaxFail \in Nat
  BY LogTypes, FlushAssumption
<1>1. UNCHANGED <<up, log, synced>>
  BY DEF RecvFails, TimeoutFlush, Dispatch, logVars, RecvCommitFails
<1>2. Ascending' /\ Newest(log)' = Newest(log)
  BY <1>1, SameLog
<1>3. MasterTypeOK'
  <2>1. {flushing', broken', firstLog'} \subseteq BOOLEAN
    BY <1>0 DEF RecvFails, TimeoutFlush, Dispatch, logVars, RecvCommitFails
  <2>2. unflushed' \in 0..FlushNum /\ failed' \in 0..MaxFail /\ curSid' \in Nat
    BY <1>0 DEF RecvFails, NextSid, TimeoutFlush, Dispatch, logVars, RecvCommitFails
  <2>3. seen' \in Nat
    BY <1>0 DEF RecvFails, TimeoutFlush, Dispatch, RecvCommitFails
  <2> QED
    BY <1>1, <2>1, <2>2, <2>3 DEF LogInv, MasterTypeOK
<1>4. DownIsReset'
  BY <1>1 DEF LogInv, DownIsReset, RecvFails, TimeoutFlush, Dispatch, logVars, RecvCommitFails
<1>5. FirstIsFlushed'
  BY DEF LogInv, FirstIsFlushed, RecvFails, TimeoutFlush, Dispatch, logVars, RecvCommitFails
<1>6. CounterAtNewest'
  <2>1. CASE RecvFails
    BY <1>0, <1>1, <1>2, <2>1 DEF LogInv, CounterAtNewest, RecvFails, NextSid
  <2>2. CASE TimeoutFlush
    BY <1>0, <1>1, <1>2, <2>2 DEF LogInv, CounterAtNewest, FirstIsFlushed, TimeoutFlush
  <2>3. CASE Dispatch \/ RecvCommitFails
    BY <1>1, <1>2, <2>3 DEF LogInv, CounterAtNewest, Dispatch, logVars, RecvCommitFails
  <2> QED
    BY <2>1, <2>2, <2>3
<1> QED
  BY <1>2, <1>3, <1>4, <1>5, <1>6 DEF LogInv

\* The commit makes the newest record the synced one.
LEMMA CommitFacts ==
  ASSUME LogInv, RecvCommit
  PROVE  SyncedSid' = Newest(log) /\ Newest(log)' = Newest(log) /\ failed' \in 0..MaxFail
<1>1. /\ log \in Seq(Nat) /\ Len(log) \in Nat /\ curSid \in Nat /\ failed \in 0..MaxFail
      /\ Newest(log) \in Nat
      /\ Newest(log) = IF Len(log) = 0 THEN 0 ELSE log[Len(log)]
  BY LogTypes
<1>2. Newest(log) <= curSid /\ curSid <= Newest(log) + failed
  BY DEF RecvCommit, LogInv, CounterAtNewest
<1>3. log' = log /\ synced' = Len(log) /\ failed' = curSid - Newest(log)
  BY DEF RecvCommit
<1> QED
  BY <1>1, <1>2, <1>3, FlushAssumption DEF SyncedSid

LEMMA CommitLog == LogInv /\ RecvCommit => LogInv'
<1> SUFFICES ASSUME LogInv, RecvCommit PROVE LogInv'
  OBVIOUS
<1>1. /\ up /\ flushing /\ flushing' = FALSE /\ firstLog' = FALSE
      /\ synced' = Len(log) /\ failed' = curSid - Newest(log)
      /\ UNCHANGED <<up, log, unflushed, broken, curSid, seen>>
  BY DEF RecvCommit
<1>2. log \in Seq(Nat) /\ Len(log) \in Nat /\ curSid \in Nat /\ Newest(log) \in Nat
  BY LogTypes
<1>3. Newest(log)' = Newest(log) /\ failed' \in 0..MaxFail
  BY CommitFacts
<1>4. MasterTypeOK'
  <2>1. {flushing', broken', firstLog'} \subseteq BOOLEAN
    BY <1>1 DEF LogInv, MasterTypeOK
  <2>2. synced' \in 0..Len(log')
    BY <1>1, <1>2
  <2> QED
    BY <1>1, <1>3, <2>1, <2>2 DEF LogInv, MasterTypeOK
<1>5. Ascending' /\ DownIsReset' /\ FirstIsFlushed'
  BY <1>1 DEF LogInv, Ascending, DownIsReset, FirstIsFlushed
<1>6. CounterAtNewest'
  BY <1>1, <1>2, <1>3 DEF LogInv, CounterAtNewest
<1> QED
  BY <1>4, <1>5, <1>6 DEF LogInv

\* The process or the machine dies and leaves the first n records.
LEMMA DiesFacts ==
  ASSUME LogInv, NEW n \in synced..Len(log), log' = SubSeq(log, 1, n), synced' \in {synced, n}
  PROVE  /\ log' \in Seq(Nat) /\ Len(log') = n /\ n <= Len(log) /\ synced' \in 0..n
         /\ \A i \in 1..n : log'[i] = log[i]
         /\ Newest(log)' \in Nat /\ Newest(log)' <= Newest(log)
         /\ SyncedSid' \in Nat /\ SyncedSid <= SyncedSid'
<1>1. /\ log \in Seq(Nat) /\ Len(log) \in Nat /\ synced \in 0..Len(log)
      /\ n \in 0..Len(log) /\ synced <= n
      /\ \A i \in 1..Len(log) : log[i] \in Nat /\ log[i] <= Newest(log)
      /\ Newest(log) \in Nat /\ SyncedSid \in Nat
  BY LogTypes
<1>2. /\ log' \in Seq(Nat) /\ Len(log') = n
      /\ \A i \in 1..n : log'[i] = log[i]
      /\ Newest(log)' = IF n = 0 THEN 0 ELSE log[n]
  BY <1>1, PrefixFacts
<1>3. SyncedSid <= IF n = 0 THEN 0 ELSE log[n]
  BY SidFacts DEF LogInv
<1>4. SyncedSid' = SyncedSid \/ SyncedSid' = Newest(log)'
  BY <1>1, <1>2 DEF SyncedSid
<1>5. Newest(log)' \in Nat /\ Newest(log)' <= Newest(log)
  BY <1>1, <1>2
<1> QED
  BY <1>1, <1>2, <1>3, <1>4, <1>5

LEMMA DiesLog ==
  ASSUME LogInv, Stop, NEW n \in synced..Len(log), log' = SubSeq(log, 1, n),
         synced' \in {synced, n}
  PROVE  LogInv'
<1>1. /\ ~up' /\ unflushed' = 0 /\ ~flushing' /\ flushing' \in BOOLEAN
      /\ ~broken' /\ broken' \in BOOLEAN /\ failed' = 0
      /\ ~firstLog' /\ firstLog' \in BOOLEAN /\ curSid' = 0 /\ seen' = seen /\ up' \in BOOLEAN
  BY DEF Stop
<1>2. /\ log' \in Seq(Nat) /\ Len(log') = n /\ n <= Len(log) /\ synced' \in 0..n
      /\ \A i \in 1..n : log'[i] = log[i]
  BY DiesFacts
<1>3. log \in Seq(Nat) /\ Len(log) \in Nat /\ Len(log) <= MaxRecv /\ n \in Nat /\ seen \in Nat
  BY LogTypes DEF LogInv, MasterTypeOK
<1>4. MasterTypeOK'
  BY <1>1, <1>2, <1>3, FlushAssumption DEF MasterTypeOK
<1>5. Ascending'
  <2> SUFFICES ASSUME NEW i \in 1..Len(log'), NEW j \in 1..Len(log'), i < j
               PROVE  log'[i] < log'[j]
    BY DEF Ascending
  <2>1. i \in 1..n /\ j \in 1..n /\ i \in 1..Len(log) /\ j \in 1..Len(log)
    BY <1>2, <1>3
  <2>2. log[i] < log[j]
    BY <2>1 DEF LogInv, Ascending
  <2> QED
    BY <1>2, <2>1, <2>2
<1>6. DownIsReset' /\ FirstIsFlushed' /\ CounterAtNewest'
  BY <1>1 DEF DownIsReset, FirstIsFlushed, CounterAtNewest
<1> QED
  BY <1>4, <1>5, <1>6 DEF LogInv

\* Both ways to die are of that form.
LEMMA Dies ==
  ASSUME LogInv, ProcessDies \/ MachineDies
  PROVE  /\ Stop
         /\ \E n \in synced..Len(log) : log' = SubSeq(log, 1, n) /\ synced' \in {synced, n}
<1>1. CASE ProcessDies
  <2>1. log \in Seq(Nat) /\ Len(log) \in Nat /\ synced \in 0..Len(log)
    BY LogTypes
  <2>2. Len(log) \in synced..Len(log) /\ SubSeq(log, 1, Len(log)) = log
    BY <2>1
  <2> QED
    BY <1>1, <2>2 DEF ProcessDies
<1>2. CASE MachineDies
  BY <1>2 DEF MachineDies
<1> QED
  BY <1>1, <1>2

LEMMA StartLog == LogInv /\ Start => LogInv'
<1> SUFFICES ASSUME LogInv, Start PROVE LogInv'
  OBVIOUS
<1>1. /\ ~up /\ up' = TRUE /\ curSid' = Newest(log) + SkipMax + 1 /\ firstLog' = TRUE
      /\ UNCHANGED <<log, synced, unflushed, flushing, broken, failed, seen>>
  BY DEF Start, FirstSid
<1>2. Ascending' /\ Newest(log)' = Newest(log)
  BY <1>1, SameLog
<1>3. Newest(log) \in Nat
  BY LogTypes
<1>4. unflushed = 0 /\ ~flushing /\ ~broken
  BY <1>1 DEF LogInv, DownIsReset
<1>5. MasterTypeOK'
  BY <1>1, <1>3, FlushAssumption DEF LogInv, MasterTypeOK
<1>6. DownIsReset' /\ FirstIsFlushed' /\ CounterAtNewest'
  BY <1>1, <1>2, <1>3, <1>4, FlushAssumption DEF DownIsReset, FirstIsFlushed, CounterAtNewest
<1> QED
  BY <1>2, <1>5, <1>6 DEF LogInv

LEMMA LogStep == LogInv /\ [MasterNext]_masterVars => LogInv'
<1> SUFFICES ASSUME LogInv, [MasterNext]_masterVars PROVE LogInv'
  OBVIOUS
<1>1. CASE Recv \/ Dispatch
  BY <1>1, AppendLog, QuietLog, CommitLog DEF Recv
<1>2. CASE ProcessDies \/ MachineDies
  <2>1. PICK n \in synced..Len(log) : log' = SubSeq(log, 1, n) /\ synced' \in {synced, n}
    BY <1>2, Dies
  <2> QED
    BY <1>2, <2>1, Dies, DiesLog
<1>3. CASE Start
  BY <1>3, StartLog
<1>4. CASE UNCHANGED masterVars
  BY <1>4 DEF masterVars, logVars, LogInv, MasterTypeOK, Ascending, DownIsReset, FirstIsFlushed,
     CounterAtNewest
<1> QED
  BY <1>1, <1>2, <1>3, <1>4 DEF MasterNext

(***************************************************************************)
(* A sid that is known stays below the counter.                             *)
(***************************************************************************)
LEMMA CountedStep ==
  ASSUME ~FirstMayFail
  PROVE  SyncedInv /\ [MasterNext]_masterVars => Counted'
<1> SUFFICES ASSUME SyncedInv, [MasterNext]_masterVars, up', ~firstLog'
             PROVE  /\ curSid' <= SyncedSid' + failed' + (Len(log') - synced')
                    /\ Len(log') - synced' <=
                         IF flushing' \/ broken' THEN FlushNum + 1 ELSE unflushed'
  BY DEF Counted
<1>0. /\ log \in Seq(Nat) /\ Len(log) \in Nat /\ synced \in 0..Len(log)
      /\ curSid \in Nat /\ failed \in 0..MaxFail /\ unflushed \in 0..FlushNum
      /\ Newest(log) \in Nat /\ SyncedSid \in Nat /\ FlushNum \in Nat /\ MaxFail \in Nat
  BY LogTypes, FlushAssumption DEF SyncedInv
<1>c. up /\ ~firstLog => /\ curSid <= SyncedSid + failed + (Len(log) - synced)
                         /\ Len(log) - synced <=
                              IF flushing \/ broken THEN FlushNum + 1 ELSE unflushed
  BY DEF SyncedInv, Counted
<1>1. CASE RecvAppend
  <2>1. /\ Len(log') = Len(log) + 1 /\ SyncedSid' = SyncedSid
        /\ ~flushing' => unflushed' = unflushed + 1
    BY <1>1, AppendFacts DEF SyncedInv
  <2>2. /\ up /\ ~flushing /\ ~broken /\ curSid' = curSid + 1
        /\ UNCHANGED <<synced, broken, failed, firstLog>>
    BY <1>1 DEF RecvAppend, NextSid
  <2>3. /\ curSid <= SyncedSid + failed + (Len(log) - synced)
        /\ Len(log) - synced <= unflushed
    BY <1>c, <2>2
  <2>4. curSid' <= SyncedSid' + failed' + (Len(log') - synced')
    BY <1>0, <2>1, <2>2, <2>3
  <2>5. Len(log') - synced' <= IF flushing' \/ broken' THEN FlushNum + 1 ELSE unflushed'
    BY <1>0, <2>1, <2>2, <2>3
  <2> QED
    BY <2>4, <2>5
<1>2. CASE RecvFails \/ TimeoutFlush \/ Dispatch \/ RecvCommitFails
  <2>1. UNCHANGED <<up, log, synced>>
    BY <1>2 DEF RecvFails, TimeoutFlush, Dispatch, logVars, RecvCommitFails
  <2>2. SyncedSid' = SyncedSid
    BY <2>1, SameLog DEF SyncedInv
  <2>3. ~firstLog
    BY <1>2 DEF RecvFails, TimeoutFlush, Dispatch, RecvCommitFails
  <2>4. CASE RecvFails
    BY <1>0, <1>c, <2>1, <2>2, <2>3, <2>4 DEF RecvFails, NextSid
  <2>5. CASE TimeoutFlush
    BY <1>0, <1>c, <2>1, <2>2, <2>3, <2>5 DEF TimeoutFlush
  <2>6. CASE Dispatch
    BY <1>0, <1>c, <2>1, <2>2, <2>3, <2>6 DEF Dispatch, logVars
  <2>7. CASE RecvCommitFails
    BY <1>0, <1>c, <2>1, <2>2, <2>3, <2>7 DEF RecvCommitFails
  <2> QED
    BY <1>2, <2>4, <2>5, <2>6, <2>7
<1>3. CASE RecvCommit
  <2>1. SyncedSid' = Newest(log)
    BY <1>3, CommitFacts DEF SyncedInv
  <2>2. /\ log' = log /\ synced' = Len(log) /\ failed' = curSid - Newest(log)
        /\ curSid' = curSid /\ unflushed' = unflushed
    BY <1>3 DEF RecvCommit
  <2> QED
    BY <1>0, <2>1, <2>2
<1>4. CASE ProcessDies \/ MachineDies \/ Start
  BY <1>4 DEF ProcessDies, MachineDies, Stop, Start
<1>5. CASE UNCHANGED masterVars
  BY <1>5, <1>c DEF masterVars, logVars, SyncedSid
<1> QED
  BY <1>1, <1>2, <1>3, <1>4, <1>5 DEF MasterNext, Recv

\* When the server stops, a sid that is known is within the margin of the
\* synced records.
LEMMA WithinMargin ==
  ASSUME ~FirstMayFail, SyncedInv, Stop, NEW s \in Nat, Known(s)
  PROVE  s <= SyncedSid + SkipMax + 1
<1>1. /\ SyncedSid \in Nat /\ curSid \in Nat /\ failed \in 0..MaxFail /\ unflushed \in 0..FlushNum
      /\ Len(log) \in Nat /\ synced \in 0..Len(log)
  BY LogTypes DEF SyncedInv
<1>2. up /\ ~(flushing /\ firstLog)
  BY DEF Stop
<1>3. CASE firstLog
  BY <1>2, <1>3 DEF Known
<1>4. CASE ~firstLog
  <2>1. s <= curSid
    BY <1>2 DEF Known
  <2>2. /\ curSid <= SyncedSid + failed + (Len(log) - synced)
        /\ Len(log) - synced <= IF flushing \/ broken THEN FlushNum + 1 ELSE unflushed
    BY <1>2, <1>4 DEF SyncedInv, Counted
  <2>3. Len(log) - synced <= FlushNum + 1
    BY <1>1, <2>2, FlushAssumption
  <2> QED
    BY <1>1, <2>1, <2>2, <2>3, FlushAssumption
<1> QED
  BY <1>3, <1>4

\* The skip of the next start makes up for whatever the machine loses.
LEMMA KnownStep ==
  ASSUME ~FirstMayFail, SyncedInv, [MasterNext]_masterVars, NEW s \in Nat, Known(s)
  PROVE  Known(s)'
<1>0. /\ curSid \in Nat /\ Newest(log) \in Nat /\ SyncedSid \in Nat /\ SyncedSid <= Newest(log)
      /\ SkipMax \in Nat
  BY LogTypes, FlushAssumption DEF SyncedInv
<1>1. CASE RecvAppend
  <2>1. ~(firstLog' /\ ~flushing')
    BY <1>1, AppendFacts DEF SyncedInv, RecvAppend
  <2>2. up /\ up' /\ curSid' = curSid + 1
    BY <1>1 DEF RecvAppend, NextSid
  <2> QED
    BY <1>0, <2>1, <2>2 DEF Known
<1>2. CASE RecvFails \/ TimeoutFlush \/ Dispatch \/ RecvCommitFails
  <2>1. SyncedSid' = SyncedSid
    BY <1>2, SameLog DEF SyncedInv, RecvFails, TimeoutFlush, Dispatch, logVars, RecvCommitFails
  <2>2. UNCHANGED up /\ curSid <= curSid' /\ curSid' \in Nat /\ up
    BY <1>0, <1>2 DEF RecvFails, NextSid, TimeoutFlush, Dispatch, logVars, RecvCommitFails
  <2>3. firstLog' /\ ~flushing' => firstLog /\ ~flushing
    BY <1>2 DEF RecvFails, TimeoutFlush, Dispatch, logVars, RecvCommitFails
  <2> QED
    BY <1>0, <2>1, <2>2, <2>3 DEF Known
<1>3. CASE RecvCommit
  BY <1>3 DEF RecvCommit, Known
<1>4. CASE ProcessDies \/ MachineDies
  <2>1. PICK n \in synced..Len(log) : log' = SubSeq(log, 1, n) /\ synced' \in {synced, n}
    BY <1>4, Dies DEF SyncedInv
  <2>2. SyncedSid' \in Nat /\ SyncedSid <= SyncedSid'
    BY <2>1, DiesFacts DEF SyncedInv
  <2>3. s <= SyncedSid + SkipMax + 1
    BY <1>4, Dies, WithinMargin DEF SyncedInv
  <2>4. ~up'
    BY <1>4 DEF ProcessDies, MachineDies, Stop
  <2>5. ASSUME NEW a \in Nat, NEW b \in Nat, a <= b, s <= a + SkipMax + 1
        PROVE  s <= b + SkipMax + 1
    BY <1>0, <2>5
  <2>6. s <= SyncedSid' + SkipMax + 1
    BY <1>0, <2>2, <2>3, <2>5
  <2> QED
    BY <2>4, <2>6 DEF Known
<1>5. CASE Start
  <2>1. SyncedSid' = SyncedSid
    BY <1>5, SameLog DEF SyncedInv, Start
  <2>2. ~up /\ curSid' = Newest(log) + SkipMax + 1
    BY <1>5 DEF Start, FirstSid
  <2> QED
    BY <1>0, <2>1, <2>2 DEF Known
<1>6. CASE UNCHANGED masterVars
  BY <1>6 DEF masterVars, logVars, Known, SyncedSid
<1> QED
  BY <1>1, <1>2, <1>3, <1>4, <1>5, <1>6 DEF MasterNext, Recv

LEMMA SyncedStep ==
  ASSUME ~FirstMayFail
  PROVE  SyncedInv /\ [MasterNext]_masterVars => SyncedInv'
<1> SUFFICES ASSUME SyncedInv, [MasterNext]_masterVars PROVE SyncedInv'
  OBVIOUS
<1>1. LogInv' /\ Counted'
  BY LogStep, CountedStep DEF SyncedInv
<1>2. Newest(log) \in Nat
  BY LogTypes DEF SyncedInv
<1>3. Known(Newest(log))'
  <2>2. CASE RecvAppend
    <3>1. ~(firstLog' /\ ~flushing') /\ Newest(log)' = curSid + 1 /\ curSid' = curSid + 1 /\ up'
      BY <2>2, AppendFacts DEF SyncedInv, RecvAppend, NextSid
    <3>2. curSid \in Nat
      BY LogTypes DEF SyncedInv
    <3> QED
      BY <3>1, <3>2 DEF Known
  <2>3. CASE ~RecvAppend
    <3>1. Newest(log)' \in Nat /\ Newest(log)' <= Newest(log)
      <4>1. CASE ProcessDies \/ MachineDies
        <5>1. PICK n \in synced..Len(log) : log' = SubSeq(log, 1, n) /\ synced' \in {synced, n}
          BY <4>1, Dies DEF SyncedInv
        <5> QED
          BY <5>1, DiesFacts DEF SyncedInv
      <4>2. CASE ~(ProcessDies \/ MachineDies)
        <5>1. log' = log
          BY <2>3, <4>2 DEF MasterNext, Recv, RecvFails, TimeoutFlush, RecvCommit, RecvCommitFails,
             Dispatch, Start, masterVars, logVars
        <5> QED
          BY <1>2, <5>1
      <4> QED
        BY <4>1, <4>2
    <3>2. PICK n \in Nat : n = Newest(log)
      BY <1>2
    <3>3. Known(n)'
      BY <3>2, KnownStep DEF SyncedInv
    <3>4. SyncedSid' \in Nat /\ curSid' \in Nat
      <4>1. LogInv' => (SyncedSid \in Nat /\ curSid \in Nat)'
        BY LogNumbers, PTL
      <4> QED
        BY <1>1, <4>1
    <3>5. /\ up' => n <= curSid'
          /\ ~up' \/ (firstLog' /\ ~flushing') => n <= SyncedSid' + SkipMax + 1
      BY <3>3 DEF Known
    <3>6. /\ up' => Newest(log)' <= curSid'
          /\ ~up' \/ (firstLog' /\ ~flushing') => Newest(log)' <= SyncedSid' + SkipMax + 1
      BY <3>1, <3>2, <3>4, <3>5, FlushAssumption
    <3> QED
      BY <3>6 DEF Known
  <2> QED
    BY <2>2, <2>3
<1> QED
  BY <1>1, <1>3 DEF SyncedInv

(***************************************************************************)
(* Theorems.                                                               *)
(***************************************************************************)
LEMMA MasterInvStep ==
  ASSUME ~FirstMayFail
  PROVE  MasterInv /\ [MasterNext]_masterVars => MasterInv'
<1> SUFFICES ASSUME MasterInv, [MasterNext]_masterVars PROVE MasterInv'
  OBVIOUS
<1>1. SyncedInv'
  BY SyncedStep DEF MasterInv
<1>3. CASE ~Dispatch
  <2>1. seen' = seen
    BY <1>3 DEF MasterNext, Recv, RecvAppend, RecvFails, TimeoutFlush, RecvCommit, RecvCommitFails,
       ProcessDies, MachineDies, Stop, Start, masterVars
  <2>2. PICK n \in Nat : n = seen
    BY LogTypes DEF MasterInv, SyncedInv
  <2>3. Known(n)'
    BY <2>2, KnownStep DEF MasterInv
  <2>4. Known(seen)'
    BY <2>1, <2>2, <2>3 DEF Known
  <2> QED
    BY <1>1, <2>4 DEF MasterInv
<1>4. CASE Dispatch
  <2>1. seen' = Newest(log)'
    BY <1>4 DEF Dispatch, logVars, Newest
  <2> QED
    BY <1>1, <2>1 DEF MasterInv, SyncedInv, Known
<1> QED
  BY <1>3, <1>4

\* The state of a master has its type, and no message is given a sid that a
\* slave or a source has got, through any number of crashes of the process and
\* the machine, failing appends and failing commits, as long as the first
\* commit of each run comes to its end (CwxMqApp::startBinLogMgr and
\* CwxMqRecvHandler::onRecvMsg).
THEOREM SidsNeverReused ==
  ASSUME ~FirstMayFail
  PROVE  MasterSpec => [](MasterTypeOK /\ NeverReused)
<1>1. MasterInv => MasterTypeOK /\ NeverReused
  BY DEF MasterInv, SyncedInv, LogInv, Known, NeverReused
<1>2. MasterInv /\ [MasterNext]_masterVars => MasterInv'
  BY MasterInvStep
<1> QED
  BY <1>1, <1>2, InitInv, PTL DEF MasterSpec

(***************************************************************************)
(* The master with its queues.                                             *)
(***************************************************************************)
LEMMA MasterStep == [Next]_vars => [MasterNext]_masterVars
<1> SUFFICES ASSUME [Next]_vars PROVE [MasterNext]_masterVars
  OBVIOUS
<1>1. CASE Recv /\ UNCHANGED queueVars
  BY <1>1 DEF MasterNext
<1>2. CASE Dispatch /\ UNCHANGED queueVars
  BY <1>2 DEF MasterNext
<1>3. CASE Consume /\ UNCHANGED masterVars
  BY <1>3
<1>4. CASE ServerDies \/ ServerMachineDies \/ ServerStarts
  BY <1>4 DEF ServerDies, ServerMachineDies, ServerStarts, MasterNext
<1>5. CASE UNCHANGED vars
  BY <1>5 DEF vars
<1> QED
  BY <1>1, <1>2, <1>3, <1>4, <1>5 DEF Next

\* Every behaviour of a server with queues is, seen from the receiving side,
\* one of the master alone: fetching, confirming and giving back messages,
\* creating and deleting queues change neither the binlog nor the sid counter.
THEOREM QueuesKeepMaster == Spec => MasterSpec
<1>1. Init => MasterInit
  BY DEF Init
<1> QED
  BY <1>1, MasterStep, PTL DEF Spec, MasterSpec

\* So no message of such a server is given a sid that a slave or a source has
\* got (CwxMqApp::nextSid, CwxMqApp::startBinLogMgr).
THEOREM SidsNewWithQueues ==
  ASSUME ~FirstMayFail
  PROVE  Spec => []NeverReused
  BY QueuesKeepMaster, SidsNeverReused, PTL

(***************************************************************************)
(* The invariant.                                                          *)
(***************************************************************************)
Places(k) == k.flight \cup k.back \cup k.sent

\* What holds of a queue by itself: a message is at one place; nothing that
\* was handed out is above the cursor, so that the next message is a new one;
\* and the cursor stands where it was put or on a message of the binlog, so
\* that what arrives is above it.
QueueOK(k) ==
  /\ k \in QueueType
  /\ k.st = "none" => k = NoQueue
  /\ k.flight \cap k.back = {} /\ k.flight \cap k.sent = {} /\ k.back \cap k.sent = {}
  /\ \A s \in Places(k) : s <= k.at
  /\ \A s \in Above(k.from) : s <= k.at => s \in Places(k)
  /\ k.at = k.from \/ k.at <= Newest(log)

\* What the connections have of queue q in their send queues: f[c] are the
\* messages of connection c.  The messages of f are those of S, and none of
\* them is there twice.
Sends(q) == [c \in Conns |-> IF conn[c].name = q THEN out[c] ELSE <<>>]

Holds(f, S) == \A s \in Nat : s \in S <=> \E c \in Conns : \E i \in 1..Len(f[c]) : f[c][i] = s

Apart(f) ==
  \A c, d \in Conns : \A i \in 1..Len(f[c]), j \in 1..Len(f[d]) :
    f[c][i] = f[d][j] => c = d /\ i = j

CarriedOK(q) ==
  /\ queue[q].valid => Holds(Sends(q), queue[q].flight)
  /\ Apart(Sends(q))
  /\ queue[q].st = "none" => \A c \in Conns : Sends(q)[c] = <<>>

ConnType ==
  [name : Queues \cup {""}, block : BOOLEAN, waiting : BOOLEAN, redo : BOOLEAN, owed : BOOLEAN]

\* A redo that is left over has room for the message that it sends.
ConnOK(c) ==
  /\ conn[c] \in ConnType /\ out[c] \in Seq(Nat)
  /\ conn[c].waiting \/ conn[c].owed => conn[c].redo
  /\ Len(out[c]) <= IF conn[c].redo THEN MaxOut ELSE MaxOut + 1

LogOK(q) ==
  /\ pos[q] \in Seq(Nat) /\ Len(pos[q]) <= LogFlush
  /\ (queue[q].st = "none") <=> (~up \/ pos[q] = <<>>)

Shape ==
  /\ queue = [q \in Queues |-> queue[q]] /\ pos = [q \in Queues |-> pos[q]]
  /\ conn = [c \in Conns |-> conn[c]] /\ out = [c \in Conns |-> out[c]]

QueueInv ==
  /\ LogInv /\ Shape
  /\ \A q \in Queues : QueueOK(queue[q]) /\ CarriedOK(q) /\ LogOK(q)
  /\ \A c \in Conns : ConnOK(c)

(***************************************************************************)
(* Sets and sequences of sids.                                              *)
(***************************************************************************)
LEMMA MinIs ==
  ASSUME NEW S \in SUBSET Nat, S # {}
  PROVE  Min(S) \in S /\ \A s \in S : Min(S) <= s
<1> DEFINE R == {ss \in Nat \X Nat : ss[1] < ss[2]}
<1>1. IsWellFoundedOn(R, Nat)
  BY NatLessThanWellFounded DEF OpToRel
<1> HIDE DEF R
<1>2. PICK m \in S : \A s \in S : <<s, m>> \notin R
  BY <1>1, WFMin
<1>3. ASSUME NEW s \in S  PROVE m <= s
  <2>1. ~(s < m)
    BY <1>2 DEF R
  <2> QED
    BY <2>1
<1> QED
  BY <1>2, <1>3 DEF Min

LEMMA ToSetIs ==
  ASSUME NEW s \in Seq(Nat)
  PROVE  /\ ToSet(s) \in SUBSET Nat
         /\ \A x : x \in ToSet(s) <=> \E i \in 1..Len(s) : s[i] = x
  BY DEF ToSet

\* The beginning of a send queue holds nothing else.
LEMMA BeginningIs ==
  ASSUME NEW s \in Seq(Nat), NEW n \in 1..Len(s)
  PROVE  /\ SubSeq(s, 1, n) \in Seq(Nat) /\ SubSeq(s, 1, n) # <<>>
         /\ ToSet(SubSeq(s, 1, n)) \subseteq ToSet(s)
<1>1. n \in 0..Len(s) /\ Len(s) \in Nat
  OBVIOUS
<1>2. /\ SubSeq(s, 1, n) \in Seq(Nat) /\ Len(SubSeq(s, 1, n)) = n
      /\ \A i \in 1..n : SubSeq(s, 1, n)[i] = s[i]
  BY <1>1, PrefixFacts
<1>3. ASSUME NEW x \in ToSet(SubSeq(s, 1, n))  PROVE x \in ToSet(s)
  <2>1. PICK i \in 1..n : SubSeq(s, 1, n)[i] = x
    BY <1>2, <1>3, ToSetIs, ZenonT(40)
  <2> QED
    BY <1>1, <1>2, <2>1, ToSetIs
<1> QED
  BY <1>1, <1>2, <1>3

\* The end of a list of positions, from place n on.
LEMMA EndIs ==
  ASSUME NEW s \in Seq(Nat), NEW n \in 1..Len(s)
  PROVE  LET e == SubSeq(s, n, Len(s))
         IN  e \in Seq(Nat) /\ e # <<>> /\ Len(e) = Len(s) - n + 1 /\ ToSet(e) \subseteq ToSet(s)
<1> DEFINE e == SubSeq(s, n, Len(s))
<1>1. Len(s) \in Nat /\ n \in Nat /\ n <= Len(s)
  OBVIOUS
<1>2. \A i \in n..Len(s) : s[i] \in Nat
  BY <1>1
<1>3. /\ e \in Seq(Nat) /\ Len(e) = Len(s) - n + 1
      /\ \A i \in 1..(Len(s) - n + 1) : e[i] = s[n + i - 1]
  BY <1>1, <1>2, SubSeqProperties
<1> HIDE DEF e
<1>4. ASSUME NEW x \in ToSet(e)  PROVE x \in ToSet(s)
  <2>1. PICK i \in 1..Len(e) : e[i] = x
    BY <1>3, <1>4, ToSetIs
  <2>2. n + i - 1 \in 1..Len(s) /\ s[n + i - 1] = x
    BY <1>1, <1>3, <2>1, SMTT(20)
  <2> QED
    BY <2>2, ToSetIs
<1>5. e # <<>>
  BY <1>1, <1>3
<1> QED
  BY <1>3, <1>4, <1>5 DEF e

LEMMA LoggedIs ==
  ASSUME NEW q \in Queues, pos[q] \in Seq(Nat), NEW ss \in Seq(Nat), NEW t \in Logged(q, ss)
  PROVE  /\ t \in Seq(Nat) /\ t # <<>> /\ Len(t) <= LogFlush
         /\ ToSet(t) \subseteq ToSet(pos[q]) \cup ToSet(ss)
<1> DEFINE lines == pos[q] \o ss
<1>1. lines \in Seq(Nat) /\ Len(lines) = Len(pos[q]) + Len(ss)
  OBVIOUS
<1>2. PICK n \in 1..Len(lines) : Len(lines) - n < LogFlush /\ t = SubSeq(lines, n, Len(lines))
  BY DEF Logged
<1>3. ToSet(lines) \subseteq ToSet(pos[q]) \cup ToSet(ss)
  <2> SUFFICES ASSUME NEW x \in ToSet(lines)  PROVE x \in ToSet(pos[q]) \cup ToSet(ss)
    OBVIOUS
  <2>1. PICK i \in 1..Len(lines) : lines[i] = x
    BY <1>1, ToSetIs
  <2>2. CASE i <= Len(pos[q])
    <3>1. i \in 1..Len(pos[q]) /\ pos[q][i] = x
      BY <1>1, <2>1, <2>2
    <3> QED
      BY <3>1, ToSetIs
  <2>3. CASE i > Len(pos[q])
    <3>1. i - Len(pos[q]) \in 1..Len(ss) /\ ss[i - Len(pos[q])] = x
      BY <1>1, <2>1, <2>3
    <3> QED
      BY <3>1, ToSetIs
  <2> QED
    BY <1>1, <2>1, <2>2, <2>3
<1> HIDE DEF lines
<1>4. t \in Seq(Nat) /\ t # <<>> /\ Len(t) = Len(lines) - n + 1 /\ ToSet(t) \subseteq ToSet(lines)
  BY <1>1, <1>2, EndIs
<1>5. Len(t) <= LogFlush
  BY <1>1, <1>2, <1>4, QueueAssumption
<1> QED
  BY <1>3, <1>4, <1>5

LEMMA AboveIs ==
  ASSUME LogInv, NEW s \in Nat
  PROVE  /\ Above(s) \in SUBSET Nat
         /\ \A x : x \in Above(s) <=> (x > s /\ \E i \in 1..Len(log) : log[i] = x)
         /\ \A x \in Above(s) : x <= Newest(log)
         /\ Above(s) # {} => Min(Above(s)) \in Above(s) /\ \A x \in Above(s) : Min(Above(s)) <= x
<1>1. \A i \in 1..Len(log) : log[i] \in Nat /\ log[i] <= Newest(log)
  BY LogTypes
<1>2. /\ Above(s) \in SUBSET Nat
      /\ \A x : x \in Above(s) <=> (x > s /\ \E i \in 1..Len(log) : log[i] = x)
      /\ \A x \in Above(s) : x <= Newest(log)
  BY <1>1 DEF Above
<1> QED
  BY <1>2, MinIs

(***************************************************************************)
(* One queue: handing out and taking back.                                   *)
(***************************************************************************)
\* The message that is handed out was nowhere before, or was given back.
LEMMA TakenOK ==
  ASSUME LogInv, NEW k, QueueOK(k), k.st # "none",
         NEW s \in Nat, NEW b \in SUBSET Nat, NEW a \in Nat, NEW f \in Nat, NEW st \in {"ready", k.st},
         s \notin k.flight \cup k.sent \cup b, b \subseteq k.back, k.back \subseteq b \cup {s},
         s <= a, k.at <= a,
         \A x \in Above(f) : x <= a => x \in Places(k) \cup {s},
         a = f \/ a <= Newest(log)
  PROVE  QueueOK([k EXCEPT !.st = st, !.at = a, !.from = f, !.back = b, !.flight = @ \cup {s}])
<1> DEFINE t == [k EXCEPT !.st = st, !.at = a, !.from = f, !.back = b, !.flight = @ \cup {s}]
<1>1. k \in QueueType
  BY DEF QueueOK
<1>2. /\ t \in QueueType /\ t.st # "none" /\ t.at = a /\ t.from = f
      /\ t.flight = k.flight \cup {s} /\ t.back = b /\ t.sent = k.sent
  BY <1>1 DEF QueueType
<1>3. Places(t) = Places(k) \cup {s}
  BY <1>2 DEF Places
<1> HIDE DEF t
<1>4. t.flight \cap t.back = {} /\ t.flight \cap t.sent = {} /\ t.back \cap t.sent = {}
  BY <1>2 DEF QueueOK
<1>5. \A x \in Places(t) : x <= t.at
  <2>1. \A x \in Places(k) : x \in Nat /\ x <= k.at
    BY <1>1 DEF QueueOK, Places, QueueType
  <2>2. k.at \in Nat
    BY <1>1 DEF QueueType
  <2> QED
    BY <1>2, <1>3, <2>1, <2>2
<1>6. \A x \in Above(t.from) : x <= t.at => x \in Places(t)
  BY <1>2, <1>3
<1>7. t.at = t.from \/ t.at <= Newest(log)
  BY <1>2
<1>8. QueueOK(t)
  BY <1>2, <1>4, <1>5, <1>6, <1>7 DEF QueueOK
<1> QED
  BY <1>8 DEF t

\* A cursor may be placed, or break.
LEMMA CursorOK ==
  ASSUME LogInv, NEW k, QueueOK(k), k.st # "none"
  PROVE  /\ QueueOK(Sought(k))
         /\ QueueOK([k EXCEPT !.st = "error"])
         /\ Sought(k).st \in {"ready", k.st} /\ Sought(k).at \in Nat /\ k.at <= Sought(k).at
         /\ Sought(k).at = k.at \/ Sought(k).at <= Newest(log)
         /\ Sought(k) = [k EXCEPT !.st = Sought(k).st, !.at = Sought(k).at, !.from = Sought(k).from]
<1>1. k \in QueueType /\ k.at \in Nat /\ k.from \in Nat
  BY DEF QueueOK, QueueType
<1>2. QueueOK([k EXCEPT !.st = "error"])
  BY <1>1 DEF QueueOK, QueueType, Places
<1>3. CASE k.st # "unseek" \/ Above(k.at) = {}
  <2>1. Sought(k) = k
    BY <1>3 DEF Sought
  <2>2. k = [k EXCEPT !.st = k.st, !.at = k.at, !.from = k.from]
    BY <1>1 DEF QueueType
  <2> QED
    BY <1>1, <1>2, <2>1, <2>2
<1>4. CASE k.st = "unseek" /\ Above(k.at) # {}
  <2> DEFINE m == Min(Above(k.at))
  <2>1. m \in Nat /\ k.at < m /\ m <= Newest(log)
    BY <1>1, <1>4, AboveIs
  <2> HIDE DEF m
  <2>2. Sought(k) = [k EXCEPT !.st = "ready", !.at = m, !.from = m]
    BY <1>4 DEF Sought, m
  <2>3. /\ Sought(k) \in QueueType /\ Sought(k).st = "ready" /\ Sought(k).at = m
        /\ Sought(k).from = m /\ Sought(k).flight = k.flight /\ Sought(k).back = k.back
        /\ Sought(k).sent = k.sent
    BY <1>1, <2>1, <2>2 DEF QueueType
  <2>4. Places(Sought(k)) = Places(k)
    BY <2>3 DEF Places
  <2>5. \A x \in Places(k) : x \in Nat /\ x <= k.at
    BY <1>1 DEF QueueOK, Places, QueueType
  <2>6. \A x \in Places(k) : x <= m
    BY <1>1, <2>1, <2>5
  <2>7. \A x \in Above(m) : ~(x <= m)
    BY <2>1, AboveIs
  <2>8. QueueOK(Sought(k))
    BY <2>1, <2>3, <2>4, <2>6, <2>7 DEF QueueOK
  <2> QED
    BY <1>1, <1>2, <2>1, <2>2, <2>3, <2>8
<1> QED
  BY <1>3, <1>4

\* getNextBinlog() keeps what holds of a queue, and what it hands out is not in
\* flight yet.
LEMMA GetNextOK ==
  ASSUME LogInv, NEW k, QueueOK(k), NEW r \in GetNext(k)
  PROVE  /\ QueueOK(r.queue) /\ r.sid \in Nat
         /\ (r.queue.st = "none") <=> (k.st = "none")
         /\ r.queue.valid = k.valid /\ r.queue.start = k.start
         /\ r.queue.at = k.at \/ r.queue.at <= Newest(log)
         /\ r.queue.sent = k.sent /\ r.queue.back \subseteq k.back
         /\ r.ret = "message" => /\ k.valid /\ r.sid \notin k.flight
                                 /\ r.queue.flight = k.flight \cup {r.sid}
                                 /\ r.sid \in k.back \/ r.sid <= Newest(log)
         /\ r.ret # "message" => r.queue.flight = k.flight
<1>1. k \in QueueType /\ k.at \in Nat /\ k.from \in Nat /\ k.flight \in SUBSET Nat
      /\ k.back \in SUBSET Nat /\ k.sent \in SUBSET Nat
  BY DEF QueueOK, QueueType
<1>2. CASE k.st = "none" \/ ~k.valid
  <2>1. r = Without("unknown", k) \/ r = Without("failed", k)
    BY <1>2 DEF GetNext
  <2>2. ASSUME NEW a, r = Without(a, k)  PROVE r.ret = a /\ r.queue = k /\ r.sid = 0
    BY <2>2 DEF Without
  <2>3. r.ret # "message"
    BY <2>1, <2>2
  <2> QED
    BY <2>1, <2>2, <2>3
<1>3. CASE k.st # "none" /\ k.valid /\ k.back # {}
  <2> DEFINE m == Min(k.back)
             b == k.back \ {m}
             t == [k EXCEPT !.st = k.st, !.at = k.at, !.from = k.from, !.back = b, !.flight = @ \cup {m}]
  <2>1. m \in k.back /\ m \in Nat
    BY <1>1, <1>3, MinIs
  <2> HIDE DEF m
  <2>2. r = Taken([k EXCEPT !.back = @ \ {m}], m)
    BY <1>3 DEF GetNext, m
  <2>3. r.ret = "message" /\ r.sid = m /\ r.queue = t
    BY <1>1, <2>2 DEF Taken, QueueType
  <2>4. m \notin k.flight \cup k.sent \cup b /\ m <= k.at
    BY <2>1 DEF QueueOK, Places
  <2>5. QueueOK(t)
    <3>1. \A x \in Above(k.from) : x <= k.at => x \in Places(k) \cup {m}
      BY DEF QueueOK
    <3>2. k.at = k.from \/ k.at <= Newest(log)
      BY DEF QueueOK
    <3>3. b \in SUBSET Nat /\ b \subseteq k.back /\ k.back \subseteq b \cup {m} /\ k.at <= k.at
      BY <1>1
    <3> HIDE DEF b
    <3> QED
      BY <1>1, <1>3, <2>1, <2>4, <3>1, <3>2, <3>3, TakenOK
  <2>6. /\ t.st = k.st /\ t.valid = k.valid /\ t.start = k.start /\ t.at = k.at /\ t.sent = k.sent
        /\ t.back = b /\ t.flight = k.flight \cup {m}
    BY <1>1 DEF QueueType
  <2> HIDE DEF t
  <2> QED
    BY <1>3, <2>1, <2>3, <2>4, <2>5, <2>6
<1>4. CASE k.st # "none" /\ k.valid /\ k.back = {}
  <2> DEFINE p == Sought(k)
  <2>1. r \in FromBinlog(k)
    BY <1>4 DEF GetNext
  <2>2. /\ QueueOK(p) /\ QueueOK([k EXCEPT !.st = "error"])
        /\ p.st \in {"ready", k.st} /\ p.at \in Nat /\ k.at <= p.at
        /\ p.at = k.at \/ p.at <= Newest(log)
        /\ p = [k EXCEPT !.st = p.st, !.at = p.at, !.from = p.from]
    BY <1>4, CursorOK
  <2> HIDE DEF p
  <2>a. p \in QueueType /\ p.from \in Nat
    BY <2>2 DEF QueueOK, QueueType
  <2>b. /\ p.valid = k.valid /\ p.start = k.start /\ p.sent = k.sent /\ p.back = k.back
        /\ p.flight = k.flight
    BY <1>1, <2>2 DEF QueueType
  <2>3. CASE r = Without("empty", p) \/ r = Without("failed", p)
    <3>1. r.queue = p /\ r.sid = 0 /\ r.ret # "message"
      BY <2>3 DEF Without
    <3>2. QueueOK(r.queue) /\ r.sid \in Nat
      BY <2>2, <3>1
    <3>3. (r.queue.st = "none") <=> (k.st = "none")
      BY <1>4, <2>2, <3>1
    <3>4. r.queue.at = k.at \/ r.queue.at <= Newest(log)
      BY <2>2, <3>1
    <3>5. /\ r.queue.valid = k.valid /\ r.queue.start = k.start /\ r.queue.sent = k.sent
          /\ r.queue.back \subseteq k.back /\ r.queue.flight = k.flight
      BY <2>b, <3>1
    <3> QED
      BY <3>1, <3>2, <3>3, <3>4, <3>5
  <2>4. CASE r = Without("failed", [k EXCEPT !.st = "error"])
    <3> DEFINE t == [k EXCEPT !.st = "error"]
    <3>1. r.queue = t /\ r.sid = 0 /\ r.ret # "message"
      BY <2>4 DEF Without
    <3>2. /\ t.st = "error" /\ t.valid = k.valid /\ t.start = k.start /\ t.at = k.at
          /\ t.sent = k.sent /\ t.back = k.back /\ t.flight = k.flight
      BY <1>1 DEF QueueType
    <3>3. QueueOK(t)
      BY <2>2
    <3> HIDE DEF t
    <3>4. QueueOK(r.queue) /\ r.sid \in Nat
      BY <3>1, <3>3
    <3>5. (r.queue.st = "none") <=> (k.st = "none")
      BY <1>4, <3>1, <3>2
    <3>6. /\ r.queue.valid = k.valid /\ r.queue.start = k.start /\ r.queue.sent = k.sent
          /\ r.queue.back \subseteq k.back /\ r.queue.flight = k.flight /\ r.queue.at = k.at
      BY <3>1, <3>2
    <3> QED
      BY <3>1, <3>4, <3>5, <3>6
  <2>5. CASE Above(p.at) # {} /\ r = Taken([p EXCEPT !.at = Min(Above(p.at))], Min(Above(p.at)))
    <3> DEFINE m == Min(Above(p.at))
               t == [p EXCEPT !.st = p.st, !.at = m, !.from = p.from, !.back = p.back, !.flight = @ \cup {m}]
    <3>1. /\ m \in Above(p.at) /\ \A x \in Above(p.at) : m <= x
          /\ m \in Nat /\ p.at < m /\ m <= Newest(log)
      BY <2>2, <2>5, AboveIs
    <3> HIDE DEF m
    <3>2. r = Taken([p EXCEPT !.at = m], m)
      BY <2>5 DEF m
    <3>3. r.ret = "message" /\ r.sid = m /\ r.queue = t
      BY <2>a, <3>2 DEF Taken, QueueType
    <3>4. \A x \in Places(p) : x \in Nat /\ x <= p.at
      BY <2>2, <2>a DEF QueueOK, Places, QueueType
    <3>5. m \notin p.flight \cup p.sent \cup p.back
      BY <2>2, <3>1, <3>4 DEF Places
    <3>6. ASSUME NEW x \in Above(p.from), x <= m  PROVE x \in Places(p) \cup {m}
      <4>1. x \in Nat /\ \E i \in 1..Len(log) : log[i] = x
        BY <2>a, <3>6, AboveIs
      <4>2. CASE x <= p.at
        BY <2>2, <3>6, <4>2 DEF QueueOK
      <4>3. CASE x > p.at
        <5>1. x \in Above(p.at)
          BY <2>2, <4>1, <4>3, AboveIs
        <5> QED
          BY <3>1, <3>6, <4>1, <5>1
      <4> QED
        BY <2>2, <4>1, <4>2, <4>3
    <3>7. QueueOK(t)
      <4>1. p.st # "none"
        BY <1>4, <2>2
      <4>2. m <= m /\ p.at <= m /\ p.back \in SUBSET Nat /\ p.back \subseteq p.back \cup {m}
        BY <1>1, <2>2, <2>b, <3>1
      <4> QED
        BY <2>2, <2>a, <3>1, <3>5, <3>6, <4>1, <4>2, TakenOK
    <3>8. /\ t.st = p.st /\ t.valid = p.valid /\ t.start = p.start /\ t.at = m /\ t.sent = p.sent
          /\ t.back = p.back /\ t.flight = p.flight \cup {m}
      BY <2>a DEF QueueType
    <3> HIDE DEF t
    <3> QED
      BY <1>4, <2>2, <2>b, <3>1, <3>3, <3>5, <3>7, <3>8
  <2>6. \/ r = Without("empty", p) \/ r = Without("failed", p)
        \/ r = Without("failed", [k EXCEPT !.st = "error"])
        \/ Above(p.at) # {} /\ r = Taken([p EXCEPT !.at = Min(Above(p.at))], Min(Above(p.at)))
    <3>1. p.st \in {"ready", "error", "unseek"}
      BY <1>4, <2>2, <2>a DEF QueueType
    <3> QED
      BY <2>1, <3>1 DEF FromBinlog, p
  <2> QED
    BY <2>3, <2>4, <2>5, <2>6
<1> QED
  BY <1>2, <1>3, <1>4

\* endSendMsg() moves messages that are in flight.
LEMMA DoneOK ==
  ASSUME NEW k, NEW S, NEW ok, QueueOK(k), k.st # "none", S \subseteq k.flight
  PROVE  LET t == Done(k, S, ok)
         IN  /\ QueueOK(t) /\ Places(t) = Places(k) /\ t.flight = k.flight \ S
             /\ t.valid = k.valid /\ t.st = k.st /\ t.at = k.at /\ t.start = k.start
<1> DEFINE t == Done(k, S, ok)
<1>1. k \in QueueType
  BY DEF QueueOK
<1>2. /\ t \in QueueType /\ t.flight = k.flight \ S /\ t.valid = k.valid /\ t.st = k.st
      /\ t.at = k.at /\ t.start = k.start /\ t.from = k.from
      /\ \/ t.back = k.back /\ t.sent = k.sent \cup S
         \/ t.back = k.back \cup S /\ t.sent = k.sent
  BY <1>1 DEF QueueType, Done
<1> HIDE DEF t
<1>3. Places(t) = Places(k)
  BY <1>2 DEF Places
<1>4. t.flight \cap t.back = {} /\ t.flight \cap t.sent = {} /\ t.back \cap t.sent = {}
  BY <1>2 DEF QueueOK
<1>6. QueueOK(t)
  BY <1>2, <1>3, <1>4 DEF QueueOK
<1> QED
  BY <1>2, <1>3, <1>6 DEF t

\* The log of a queue fails.
Broken(k) == [k EXCEPT !.valid = FALSE]

LEMMA BrokenOK ==
  ASSUME NEW k, QueueOK(k), k.st # "none"
  PROVE  /\ QueueOK(Broken(k)) /\ Places(Broken(k)) = Places(k) /\ ~Broken(k).valid
         /\ Broken(k).st = k.st /\ Broken(k).at = k.at /\ Broken(k).start = k.start
<1>1. k \in QueueType
  BY DEF QueueOK
<1>2. /\ Broken(k) \in QueueType /\ ~Broken(k).valid
      /\ Broken(k).st = k.st /\ Broken(k).at = k.at /\ Broken(k).start = k.start
      /\ Broken(k).from = k.from /\ Broken(k).flight = k.flight /\ Broken(k).back = k.back
      /\ Broken(k).sent = k.sent
  BY <1>1 DEF QueueType, Broken
<1>3. Places(Broken(k)) = Places(k)
  BY <1>2 DEF Places
<1> QED
  BY <1>2, <1>3 DEF QueueOK

\* What arrives is above every cursor.
LEMMA QueueStays ==
  ASSUME LogInv, up, [MasterNext]_masterVars, up', NEW k, QueueOK(k)
  PROVE  QueueOK(k)'
<1>1. CASE log' = log
  BY <1>1 DEF QueueOK, Above, Newest
<1>2. CASE RecvAppend
  <2>1. /\ log' \in Seq(Nat) /\ Len(log') = Len(log) + 1
        /\ \A i \in 1..Len(log) : log'[i] = log[i]
        /\ log'[Len(log) + 1] = curSid + 1
        /\ Newest(log)' = curSid + 1
    BY <1>2, AppendFacts
  <2>2. /\ curSid \in Nat /\ Newest(log) \in Nat /\ Newest(log) <= curSid /\ Len(log) \in Nat
        /\ \A i \in 1..Len(log) : log[i] \in Nat
    BY LogTypes DEF LogInv, CounterAtNewest
  <2>3. k \in QueueType /\ k.at \in Nat /\ k.from \in Nat
    BY DEF QueueOK, QueueType
  <2>4. ASSUME NEW s \in Above(k.from)', s <= k.at  PROVE s \in Places(k)
    <3>1. PICK i \in 1..(Len(log) + 1) : s = log'[i] /\ log'[i] > k.from
      BY <2>1, <2>4 DEF Above
    <3>2. CASE i \in 1..Len(log)
      <4>1. s = log[i] /\ log[i] > k.from
        BY <2>1, <3>1, <3>2
      <4>2. s \in Above(k.from)
        BY <3>2, <4>1 DEF Above
      <4> QED
        BY <2>4, <4>2 DEF QueueOK
    <3>3. CASE i = Len(log) + 1
      <4>1. s = curSid + 1 /\ s > k.from
        BY <2>1, <3>1, <3>3
      <4>2. k.at = k.from \/ k.at <= Newest(log)
        BY DEF QueueOK
      <4> QED
        BY <2>2, <2>3, <2>4, <4>1, <4>2
    <3> QED
      BY <2>2, <3>1, <3>2, <3>3
  <2>5. k.at = k.from \/ k.at <= Newest(log)'
    BY <2>1, <2>2, <2>3 DEF QueueOK
  <2> QED
    BY <2>4, <2>5 DEF QueueOK
<1>3. RecvAppend \/ log' = log
  BY DEF MasterNext, Recv, RecvFails, TimeoutFlush, RecvCommit, RecvCommitFails,
     Dispatch, ProcessDies, MachineDies, Stop, Start, masterVars, logVars
<1> QED
  BY <1>1, <1>2, <1>3

LEMMA QueueSame ==
  ASSUME log' = log, NEW k, QueueOK(k)
  PROVE  QueueOK(k)'
  BY DEF QueueOK, Above, Newest

LEMMA NoQueueOK == LogInv => QueueOK(NoQueue)
<1> SUFFICES ASSUME LogInv PROVE QueueOK(NoQueue)
  OBVIOUS
<1>1. \A s \in Above(0) : ~(s <= 0) /\ s \in Nat
  BY AboveIs
<1>2. NoQueue \in QueueType
  BY DEF NoQueue, QueueType
<1>3. /\ NoQueue.flight = {} /\ NoQueue.back = {} /\ NoQueue.sent = {}
      /\ NoQueue.at = 0 /\ NoQueue.from = 0
  BY DEF NoQueue
<1> QED
  BY <1>1, <1>2, <1>3 DEF QueueOK, Places

LEMMA NewQueueOK ==
  ASSUME LogInv, NEW s \in Nat
  PROVE  /\ QueueOK(NewQueue(s)) /\ NewQueue(s).st = "unseek" /\ NewQueue(s).flight = {}
         /\ Places(NewQueue(s)) = {} /\ NewQueue(s).at = s /\ NewQueue(s).start = s
<1>1. /\ NewQueue(s) \in QueueType /\ NewQueue(s).st = "unseek"
      /\ NewQueue(s).flight = {} /\ NewQueue(s).back = {} /\ NewQueue(s).sent = {}
      /\ NewQueue(s).at = s /\ NewQueue(s).from = s /\ NewQueue(s).start = s
  BY DEF NewQueue, NoQueue, QueueType
<1>2. \A x \in Above(s) : ~(x <= s) /\ x \in Nat
  BY AboveIs
<1> QED
  BY <1>1, <1>2 DEF QueueOK, Places

(***************************************************************************)
(* What the connections hold.                                              *)
(***************************************************************************)
LEMMA HoldsAppend ==
  ASSUME NEW f \in [Conns -> Seq(Nat)], NEW S, Holds(f, S), Apart(f),
         NEW c \in Conns, NEW s \in Nat, s \notin S
  PROVE  LET g == [f EXCEPT ![c] = Append(@, s)]
         IN  Holds(g, S \cup {s}) /\ Apart(g)
<1> DEFINE g == [f EXCEPT ![c] = Append(@, s)]
<1>1. /\ \A d \in Conns : f[d] \in Seq(Nat) /\ Len(f[d]) \in Nat
      /\ \A d \in Conns : d # c => g[d] = f[d]
      /\ Len(g[c]) = Len(f[c]) + 1
      /\ \A i \in 1..Len(f[c]) : g[c][i] = f[c][i]
      /\ g[c][Len(f[c]) + 1] = s
  <2>1. g[c] = Append(f[c], s) /\ f[c] \in Seq(Nat)
    OBVIOUS
  <2> QED
    BY <2>1, AppendProperties
<1> HIDE DEF g
<1>2. \A d \in Conns : \A i \in 1..Len(g[d]) :
        \/ i \in 1..Len(f[d]) /\ g[d][i] = f[d][i]
        \/ d = c /\ i = Len(f[c]) + 1 /\ g[d][i] = s
  <2> SUFFICES ASSUME NEW d \in Conns, NEW i \in 1..Len(g[d])
               PROVE  \/ i \in 1..Len(f[d]) /\ g[d][i] = f[d][i]
                      \/ d = c /\ i = Len(f[c]) + 1 /\ g[d][i] = s
    OBVIOUS
  <2>1. CASE d # c
    BY <1>1, <2>1
  <2>2. CASE d = c
    <3>1. i \in 1..(Len(f[c]) + 1) /\ Len(f[c]) \in Nat
      BY <1>1, <2>2
    <3> QED
      BY <1>1, <2>2, <3>1
  <2> QED
    BY <2>1, <2>2
<1>3. \A d \in Conns : \A i \in 1..Len(f[d]) : i \in 1..Len(g[d]) /\ g[d][i] = f[d][i]
  <2> SUFFICES ASSUME NEW d \in Conns, NEW i \in 1..Len(f[d])
               PROVE  i \in 1..Len(g[d]) /\ g[d][i] = f[d][i]
    OBVIOUS
  <2>1. CASE d # c
    BY <1>1, <2>1
  <2>2. CASE d = c
    BY <1>1, <2>2
  <2> QED
    BY <2>1, <2>2
<1>4. \A d \in Conns : \A i \in 1..Len(f[d]) : f[d][i] # s
  BY DEF Holds
<1>5. Apart(g)
  <2> SUFFICES ASSUME NEW d \in Conns, NEW e \in Conns, NEW i \in 1..Len(g[d]),
                      NEW j \in 1..Len(g[e]), g[d][i] = g[e][j]
               PROVE  d = e /\ i = j
    BY DEF Apart
  <2>1. CASE i \in 1..Len(f[d]) /\ g[d][i] = f[d][i]
    <3>1. j \in 1..Len(f[e]) /\ g[e][j] = f[e][j]
      BY <1>2, <1>4, <2>1
    <3>2. f[d][i] = f[e][j]
      BY <2>1, <3>1
    <3> QED
      BY <2>1, <3>1, <3>2 DEF Apart
  <2>2. CASE d = c /\ i = Len(f[c]) + 1 /\ g[d][i] = s
    <3>1. e = c /\ j = Len(f[c]) + 1
      BY <1>2, <1>4, <2>2
    <3> QED
      BY <2>2, <3>1
  <2> QED
    BY <1>2, <2>1, <2>2
<1>6. ASSUME NEW x \in Nat
      PROVE  x \in S \cup {s} <=> \E d \in Conns : \E i \in 1..Len(g[d]) : g[d][i] = x
  <2>1. ASSUME x \in S  PROVE \E d \in Conns : \E i \in 1..Len(g[d]) : g[d][i] = x
    <3>1. PICK d \in Conns : \E i \in 1..Len(f[d]) : f[d][i] = x
      BY <2>1 DEF Holds
    <3> QED
      BY <1>3, <3>1
  <2>2. ASSUME x = s  PROVE \E d \in Conns : \E i \in 1..Len(g[d]) : g[d][i] = x
    <3>1. Len(f[c]) + 1 \in 1..Len(g[c])
      BY <1>1
    <3> QED
      BY <1>1, <2>2, <3>1
  <2>3. ASSUME NEW d \in Conns, NEW i \in 1..Len(g[d]), g[d][i] = x  PROVE x \in S \cup {s}
    BY <1>2, <2>3 DEF Holds
  <2> QED
    BY <2>1, <2>2, <2>3
<1> QED
  BY <1>5, <1>6 DEF g, Holds

LEMMA HoldsTail ==
  ASSUME NEW f \in [Conns -> Seq(Nat)], Apart(f), NEW c \in Conns, f[c] # <<>>
  PROVE  LET g == [f EXCEPT ![c] = Tail(@)]
         IN  Apart(g) /\ \A S : Holds(f, S) => Holds(g, S \ {Head(f[c])})
<1> DEFINE g == [f EXCEPT ![c] = Tail(@)]
<1>1. /\ \A d \in Conns : f[d] \in Seq(Nat) /\ Len(f[d]) \in Nat
      /\ \A d \in Conns : d # c => g[d] = f[d]
      /\ Len(g[c]) = Len(f[c]) - 1 /\ Len(f[c]) >= 1 /\ Head(f[c]) = f[c][1]
      /\ \A i \in 1..Len(g[c]) : g[c][i] = f[c][i + 1]
  <2>1. g[c] = Tail(f[c]) /\ f[c] \in Seq(Nat)
    OBVIOUS
  <2> QED
    BY <2>1, HeadTailProperties
<1> HIDE DEF g
<1>2. \A d \in Conns : \A i \in 1..Len(g[d]) : \E j \in 1..Len(f[d]) :
        /\ g[d][i] = f[d][j] /\ (d = c => j = i + 1 /\ j # 1) /\ (d # c => j = i)
  <2> SUFFICES ASSUME NEW d \in Conns, NEW i \in 1..Len(g[d])
               PROVE  \E j \in 1..Len(f[d]) :
                        /\ g[d][i] = f[d][j] /\ (d = c => j = i + 1 /\ j # 1) /\ (d # c => j = i)
    OBVIOUS
  <2>1. CASE d # c
    BY <1>1, <2>1
  <2>2. CASE d = c
    <3>1. i \in 1..(Len(f[c]) - 1) /\ Len(f[c]) \in Nat
      BY <1>1, <2>2
    <3>2. i + 1 \in 1..Len(f[c]) /\ i + 1 # 1
      BY <3>1
    <3> QED
      BY <1>1, <2>2, <3>2
  <2> QED
    BY <2>1, <2>2
<1>3. \A d \in Conns : \A j \in 1..Len(f[d]) :
        (d = c /\ j = 1) \/ \E i \in 1..Len(g[d]) : g[d][i] = f[d][j]
  <2> SUFFICES ASSUME NEW d \in Conns, NEW j \in 1..Len(f[d]), ~(d = c /\ j = 1)
               PROVE  \E i \in 1..Len(g[d]) : g[d][i] = f[d][j]
    OBVIOUS
  <2>1. CASE d # c
    BY <1>1, <2>1
  <2>2. CASE d = c
    <3>1. j - 1 \in 1..Len(g[c]) /\ (j - 1) + 1 = j
      BY <1>1, <2>2
    <3>2. g[c][j - 1] = f[c][j]
      BY <1>1, <3>1
    <3> QED
      BY <2>2, <3>1, <3>2
  <2> QED
    BY <2>1, <2>2
<1>4. Apart(g)
  <2> SUFFICES ASSUME NEW d \in Conns, NEW e \in Conns, NEW i \in 1..Len(g[d]),
                      NEW j \in 1..Len(g[e]), g[d][i] = g[e][j]
               PROVE  d = e /\ i = j
    BY DEF Apart
  <2>1. PICK a \in 1..Len(f[d]) :
          /\ g[d][i] = f[d][a] /\ (d = c => a = i + 1 /\ a # 1) /\ (d # c => a = i)
    BY <1>2
  <2>2. PICK b \in 1..Len(f[e]) :
          /\ g[e][j] = f[e][b] /\ (e = c => b = j + 1 /\ b # 1) /\ (e # c => b = j)
    BY <1>2
  <2>3. d = e /\ a = b
    <3>1. f[d][a] = f[e][b]
      BY <2>1, <2>2
    <3> QED
      BY <3>1, SMTT(20) DEF Apart
  <2> QED
    BY <1>1, <2>1, <2>2, <2>3, SMTT(20)
<1>5. ASSUME NEW S, Holds(f, S)  PROVE Holds(g, S \ {Head(f[c])})
  <2> SUFFICES ASSUME NEW x \in Nat
               PROVE  x \in S \ {Head(f[c])} <=> \E d \in Conns : \E i \in 1..Len(g[d]) : g[d][i] = x
    BY DEF Holds
  <2>1. ASSUME x \in S, x # Head(f[c])  PROVE \E d \in Conns : \E i \in 1..Len(g[d]) : g[d][i] = x
    <3>1. PICK d \in Conns : \E j \in 1..Len(f[d]) : f[d][j] = x
      BY <1>5, <2>1 DEF Holds
    <3>2. PICK j \in 1..Len(f[d]) : f[d][j] = x
      BY <3>1
    <3> QED
      BY <1>1, <1>3, <2>1, <3>2
  <2>2. ASSUME NEW d \in Conns, NEW i \in 1..Len(g[d]), g[d][i] = x  PROVE x \in S \ {Head(f[c])}
    <3>1. PICK a \in 1..Len(f[d]) :
            /\ g[d][i] = f[d][a] /\ (d = c => a = i + 1 /\ a # 1) /\ (d # c => a = i)
      BY <1>2
    <3>2. x \in S
      BY <1>5, <2>2, <3>1 DEF Holds
    <3>3. 1 \in 1..Len(f[c])
      BY <1>1
    <3>4. x # f[c][1]
      BY <2>2, <3>1, <3>3 DEF Apart
    <3> QED
      BY <1>1, <3>2, <3>4
  <2> QED
    BY <2>1, <2>2
<1> QED
  BY <1>4, <1>5 DEF g

LEMMA HoldsNothing ==
  ASSUME NEW f \in [Conns -> Seq(Nat)], Apart(f), NEW c \in Conns
  PROVE  LET g == [f EXCEPT ![c] = <<>>]
         IN  Apart(g) /\ \A S : Holds(f, S) => Holds(g, S \ ToSet(f[c]))
<1> DEFINE g == [f EXCEPT ![c] = <<>>]
<1>1. /\ \A d \in Conns : d # c => g[d] = f[d]
      /\ g[c] = <<>> /\ \A i : i \notin 1..Len(g[c])
      /\ f[c] \in Seq(Nat)
  OBVIOUS
<1> HIDE DEF g
<1>2. Apart(g)
  <2> SUFFICES ASSUME NEW d \in Conns, NEW e \in Conns, NEW i \in 1..Len(g[d]),
                      NEW j \in 1..Len(g[e]), g[d][i] = g[e][j]
               PROVE  d = e /\ i = j
    BY DEF Apart
  <2>1. d # c /\ e # c
    BY <1>1
  <2>2. g[d] = f[d] /\ g[e] = f[e]
    BY <1>1, <2>1
  <2> QED
    BY <2>2 DEF Apart
<1>3. ASSUME NEW S, Holds(f, S)  PROVE Holds(g, S \ ToSet(f[c]))
  <2> SUFFICES ASSUME NEW x \in Nat
               PROVE  x \in S \ ToSet(f[c]) <=> \E d \in Conns : \E i \in 1..Len(g[d]) : g[d][i] = x
    BY DEF Holds
  <2>1. ASSUME x \in S, x \notin ToSet(f[c])
        PROVE  \E d \in Conns : \E i \in 1..Len(g[d]) : g[d][i] = x
    <3>1. PICK d \in Conns : \E j \in 1..Len(f[d]) : f[d][j] = x
      BY <1>3, <2>1 DEF Holds
    <3>2. d # c
      BY <1>1, <2>1, <3>1, ToSetIs
    <3> QED
      BY <1>1, <3>1, <3>2
  <2>2. ASSUME NEW d \in Conns, NEW i \in 1..Len(g[d]), g[d][i] = x
        PROVE  x \in S \ ToSet(f[c])
    <3>1. d # c /\ i \in 1..Len(f[d]) /\ f[d][i] = x
      BY <1>1, <2>2
    <3>2. x \in S
      BY <1>3, <3>1 DEF Holds
    <3>3. x \notin ToSet(f[c])
      BY <1>1, <3>1, ToSetIs DEF Apart
    <3> QED
      BY <3>2, <3>3
  <2> QED
    BY <2>1, <2>2
<1> QED
  BY <1>2, <1>3 DEF g

(***************************************************************************)
(* Every step keeps the invariant.                                           *)
(***************************************************************************)
LEMMA InvFacts ==
  ASSUME QueueInv
  PROVE  /\ \A q \in Queues : /\ queue[q] \in QueueType /\ QueueOK(queue[q])
                              /\ Sends(q) \in [Conns -> Seq(Nat)]
                              /\ queue[q].valid => queue[q].st # "none"
         /\ \A c \in Conns : out[c] \in Seq(Nat) /\ conn[c] \in ConnType
<1>1. \A c \in Conns : out[c] \in Seq(Nat) /\ conn[c] \in ConnType
  BY DEF QueueInv, ConnOK
<1>2. \A q \in Queues : queue[q] \in QueueType /\ QueueOK(queue[q])
  BY DEF QueueInv, QueueOK
<1>3. \A q \in Queues : queue[q].valid => queue[q].st # "none"
  BY <1>2 DEF QueueOK, NoQueue
<1>4. ASSUME NEW q \in Queues  PROVE Sends(q) \in [Conns -> Seq(Nat)]
  BY <1>1 DEF Sends
<1> QED
  BY <1>1, <1>2, <1>3, <1>4

\* What a connection is like after it was served.
LEMMA ConnIs ==
  ASSUME NEW k \in ConnType, NEW fromRedo \in BOOLEAN
  PROVE  /\ Wait(k, fromRedo) \in ConnType /\ Wait(k, fromRedo).name = k.name
         /\ Wait(k, fromRedo).redo
         /\ Answered(k, fromRedo) \in ConnType /\ Answered(k, fromRedo).name = k.name
         /\ ~Answered(k, fromRedo).waiting /\ ~Answered(k, fromRedo).owed
         /\ fromRedo => ~Answered(k, fromRedo).redo
  BY DEF ConnType, Wait, Answered

\* What being served from its queue does to a connection and the queues.
LEMMA ServeInv ==
  ASSUME QueueInv, up, UNCHANGED masterVars,
         NEW c \in Conns, NEW k \in ConnType, NEW fromRedo \in BOOLEAN,
         Serve(c, k, fromRedo), k.name = conn[c].name \/ out[c] = <<>>,
         Len(out[c]) < IF fromRedo THEN MaxOut + 1 ELSE MaxOut
  PROVE  QueueInv'
<1> DEFINE m == k.name
<1>a. /\ \A q \in Queues : /\ queue[q] \in QueueType /\ QueueOK(queue[q])
                           /\ Sends(q) \in [Conns -> Seq(Nat)]
                           /\ queue[q].valid => queue[q].st # "none"
      /\ \A d \in Conns : out[d] \in Seq(Nat) /\ conn[d] \in ConnType
  BY InvFacts
<1>b. /\ LogInv /\ Shape
      /\ \A q \in Queues : QueueOK(queue[q]) /\ CarriedOK(q) /\ LogOK(q)
      /\ \A d \in Conns : ConnOK(d)
  BY DEF QueueInv
<1>1. PICK r \in GetNext(QueueOf(m)) :
        /\ queue' = [q \in Queues |-> IF q = m THEN r.queue ELSE queue[q]]
        /\ conn' = [conn EXCEPT ![c] =
                      IF r.ret = "empty" /\ k.block THEN Wait(k, fromRedo) ELSE Answered(k, fromRedo)]
        /\ out' = IF r.ret = "message" THEN [out EXCEPT ![c] = Append(@, r.sid)] ELSE out
        /\ UNCHANGED pos
  BY DEF Serve
<1>2. QueueOK(QueueOf(m)) /\ (m \notin Queues => ~QueueOf(m).valid)
  BY <1>a, <1>b, NoQueueOK DEF QueueOf, NoQueue
<1>3. /\ QueueOK(r.queue) /\ r.sid \in Nat
      /\ (r.queue.st = "none") <=> (QueueOf(m).st = "none")
      /\ r.queue.valid = QueueOf(m).valid
      /\ r.ret = "message" => /\ QueueOf(m).valid /\ r.sid \notin QueueOf(m).flight
                              /\ r.queue.flight = QueueOf(m).flight \cup {r.sid}
      /\ r.ret # "message" => r.queue.flight = QueueOf(m).flight
  BY <1>b, <1>2, GetNextOK
<1>4. log' = log /\ up' = up /\ LogInv'
  <2>1. log' = log /\ up' = up /\ [MasterNext]_masterVars
    BY DEF masterVars, logVars
  <2> QED
    BY <1>b, <2>1, LogStep
<1>5. conn = [d \in Conns |-> conn[d]] /\ out = [d \in Conns |-> out[d]]
  BY <1>b DEF Shape
<1>6. /\ \A d \in Conns : d # c => conn'[d] = conn[d] /\ out'[d] = out[d]
      /\ conn'[c] = IF r.ret = "empty" /\ k.block THEN Wait(k, fromRedo) ELSE Answered(k, fromRedo)
      /\ out'[c] = IF r.ret = "message" THEN Append(out[c], r.sid) ELSE out[c]
  BY <1>1, <1>5
<1>7. conn'[c] \in ConnType /\ conn'[c].name = m
  BY <1>6, ConnIs
<1>8. Shape'
  <2>1. queue' = [q \in Queues |-> queue'[q]]
    BY <1>1
  <2>2. pos' = [q \in Queues |-> pos'[q]]
    BY <1>1, <1>b DEF Shape
  <2>3. conn' = [d \in Conns |-> conn'[d]] /\ out' = [d \in Conns |-> out'[d]]
    BY <1>1, <1>5
  <2> QED
    BY <2>1, <2>2, <2>3 DEF Shape
<1>9. ASSUME NEW d \in Conns  PROVE ConnOK(d)'
  <2>1. CASE d # c
    BY <1>6, <1>b, <2>1 DEF ConnOK
  <2>2. CASE d = c
    <3>1. /\ out'[c] \in Seq(Nat) /\ Len(out[c]) \in Nat /\ MaxOut \in Nat
          /\ Len(out'[c]) = IF r.ret = "message" THEN Len(out[c]) + 1 ELSE Len(out[c])
      BY <1>3, <1>6, <1>a, QueueAssumption, AppendProperties
    <3>2. conn'[c].waiting \/ conn'[c].owed => conn'[c].redo
      BY <1>6, ConnIs
    <3>3. Len(out'[c]) <= IF conn'[c].redo THEN MaxOut ELSE MaxOut + 1
      <4>1. CASE r.ret = "empty" /\ k.block
        BY <3>1, <4>1
      <4>2. CASE ~(r.ret = "empty" /\ k.block)
        <5>1. fromRedo => ~conn'[c].redo
          BY <1>6, <4>2, ConnIs
        <5> QED
          BY <3>1, <5>1
      <4> QED
        BY <4>1, <4>2
    <3> QED
      BY <1>7, <2>2, <3>1, <3>2, <3>3 DEF ConnOK
  <2> QED
    BY <2>1, <2>2
<1>10. ASSUME NEW q \in Queues  PROVE QueueOK(queue[q])' /\ CarriedOK(q)' /\ LogOK(q)'
  <2>1. queue'[q] = IF q = m THEN r.queue ELSE queue[q]
    BY <1>1
  <2>2. q = m => QueueOf(m) = queue[q]
    BY DEF QueueOf
  <2>3. QueueOK(queue[q])'
    <3>1. PICK x : x = queue'[q]
      OBVIOUS
    <3>2. QueueOK(x)
      BY <1>3, <1>b, <2>1, <3>1
    <3> QED
      BY <1>4, <3>1, <3>2 DEF QueueOK, Above, Newest
  <2>4. (queue'[q].st = "none") <=> (queue[q].st = "none")
    BY <1>3, <2>1, <2>2
  <2>5. LogOK(q)'
    BY <1>1, <1>4, <1>b, <2>4 DEF LogOK
  <2>6. Sends(q)' = IF q = m /\ r.ret = "message" THEN [Sends(q) EXCEPT ![c] = Append(@, r.sid)]
                    ELSE Sends(q)
    <3>1. ASSUME NEW d \in Conns, d # c
          PROVE  (IF conn'[d].name = q THEN out'[d] ELSE <<>>) = Sends(q)[d]
      BY <1>6, <3>1 DEF Sends
    <3>2. Sends(q)[c] = IF q = m THEN out[c] ELSE <<>>
      BY DEF Sends
    <3>3. (IF conn'[c].name = q THEN out'[c] ELSE <<>>) =
            IF q = m /\ r.ret = "message" THEN Append(Sends(q)[c], r.sid) ELSE Sends(q)[c]
      BY <1>6, <1>7, <3>2
    <3> DEFINE g == IF q = m /\ r.ret = "message" THEN [Sends(q) EXCEPT ![c] = Append(@, r.sid)]
                    ELSE Sends(q)
    <3>4. g = [d \in Conns |-> g[d]]
      BY <1>a
    <3>5. ASSUME NEW d \in Conns
          PROVE  (IF conn'[d].name = q THEN out'[d] ELSE <<>>) = g[d]
      BY <1>a, <3>1, <3>3
    <3> HIDE DEF g
    <3>6. Sends(q)' = g
      BY <3>4, <3>5 DEF Sends
    <3> QED
      BY <3>6 DEF g
  <2>7. /\ queue[q].valid => Holds(Sends(q), queue[q].flight)
        /\ Apart(Sends(q))
        /\ queue[q].st = "none" => \A d \in Conns : Sends(q)[d] = <<>>
    BY <1>b DEF CarriedOK
  <2>8. CASE q = m /\ r.ret = "message"
    <3>1. queue[q].valid /\ r.sid \notin queue[q].flight /\ queue[q].st # "none"
      BY <1>3, <1>a, <2>2, <2>8
    <3>2. PICK f \in [Conns -> Seq(Nat)] : f = Sends(q)
      BY <1>a
    <3>3. PICK g : g = [f EXCEPT ![c] = Append(@, r.sid)]
      OBVIOUS
    <3>4. Holds(g, queue[q].flight \cup {r.sid}) /\ Apart(g)
      BY <1>3, <2>7, <3>1, <3>2, <3>3, HoldsAppend
    <3>5. Sends(q)' = g
      BY <2>6, <2>8, <3>2, <3>3
    <3>6. PICK S : S = queue[q].flight \cup {r.sid}
      OBVIOUS
    <3>7. queue'[q].flight = S
      BY <1>3, <2>1, <2>2, <2>8, <3>6
    <3>8. Holds(g, S)
      BY <3>4, <3>6
    <3>9. Holds(Sends(q), queue[q].flight)' /\ Apart(Sends(q))'
      BY <3>4, <3>5, <3>7, <3>8 DEF Holds, Apart
    <3> QED
      BY <2>3, <2>4, <2>5, <3>1, <3>9 DEF CarriedOK
  <2>9. CASE ~(q = m /\ r.ret = "message")
    <3>1. Sends(q)' = Sends(q)
      BY <2>6, <2>9
    <3>2. queue'[q].valid = queue[q].valid /\ queue'[q].flight = queue[q].flight
      BY <1>3, <2>1, <2>2, <2>9
    <3>3. Holds(Sends(q), queue[q].flight)' <=> Holds(Sends(q), queue[q].flight)
      BY <3>1, <3>2 DEF Holds
    <3>4. Apart(Sends(q))' <=> Apart(Sends(q))
      BY <3>1 DEF Apart
    <3> QED
      BY <2>3, <2>4, <2>5, <2>7, <3>1, <3>2, <3>3, <3>4 DEF CarriedOK
  <2> QED
    BY <2>8, <2>9
<1> QED
  BY <1>4, <1>8, <1>9, <1>10 DEF QueueInv

\* What endSendMsg() does to the queues, when the messages are in flight.
LEMMA EndSendIs ==
  ASSUME QueueInv, NEW name, NEW ss \in Seq(Nat), NEW ok, EndSendMsg(name, ss, ok),
         name \in Queues /\ queue[name].valid => ToSet(ss) \subseteq queue[name].flight
  PROVE  /\ queue' = [q \in Queues |-> queue'[q]] /\ pos' = [q \in Queues |-> pos'[q]]
         /\ \A q \in Queues :
              /\ QueueOK(queue'[q])
              /\ queue'[q].st = queue[q].st /\ Places(queue'[q]) = Places(queue[q])
              /\ queue'[q].at = queue[q].at /\ queue'[q].start = queue[q].start
              /\ queue'[q].valid => /\ queue[q].valid
                                    /\ queue'[q].flight = IF q = name THEN queue[q].flight \ ToSet(ss)
                                                          ELSE queue[q].flight
              /\ pos'[q] \in Seq(Nat) /\ Len(pos'[q]) <= LogFlush
              /\ (pos'[q] = <<>>) <=> (pos[q] = <<>>)
              /\ ToSet(pos'[q]) \subseteq ToSet(pos[q]) \cup Places(queue[q])
<1>a. /\ queue = [q \in Queues |-> queue[q]] /\ pos = [q \in Queues |-> pos[q]]
      /\ \A q \in Queues : /\ queue[q] \in QueueType /\ QueueOK(queue[q]) /\ LogOK(q)
                           /\ pos[q] \in Seq(Nat) /\ Len(pos[q]) <= LogFlush
                           /\ queue[q].valid => queue[q].st # "none"
  BY InvFacts DEF QueueInv, Shape, LogOK
<1>1. CASE ~QueueOf(name).valid \/ ss = <<>>
  <2>1. queue' = queue /\ pos' = pos
    BY <1>1 DEF EndSendMsg
  <2>2. ASSUME NEW q \in Queues, q = name, queue[q].valid  PROVE ToSet(ss) = {}
    <3>1. ss = <<>>
      BY <1>1, <2>2 DEF QueueOf
    <3> QED
      BY <3>1 DEF ToSet
  <2>3. \A q \in Queues : queue[q].valid =>
          queue[q].flight = IF q = name THEN queue[q].flight \ ToSet(ss) ELSE queue[q].flight
    BY <2>2
  <2> QED
    BY <1>a, <2>1, <2>3
<1>2. CASE QueueOf(name).valid /\ ss # <<>>
  <2>k. PICK k : k = queue[name]
    OBVIOUS
  <2>1. name \in Queues /\ k.valid
    BY <1>2, <2>k DEF QueueOf, NoQueue
  <2>2. QueueOK(k) /\ ToSet(ss) \subseteq k.flight /\ k \in QueueType /\ k.st # "none"
    BY <1>a, <2>k, <2>1
  <2>p. pos[name] \in Seq(Nat) /\ pos[name] # <<>>
    BY <1>a, <2>k, <2>1, <2>2 DEF LogOK
  <2>3. \A q \in Queues \ {name} : ToSet(pos[q]) \subseteq ToSet(pos[q]) \cup Places(queue[q])
    OBVIOUS
  <2>f. k.flight \subseteq Places(k)
    BY DEF Places
  <2>4. CASE \E t \in Logged(name, ss) :
               /\ queue' = [queue EXCEPT ![name] = Done(@, ToSet(ss), ok)]
               /\ pos' = [pos EXCEPT ![name] = t]
    <3>1. PICK t \in Logged(name, ss) :
            /\ queue' = [queue EXCEPT ![name] = Done(@, ToSet(ss), ok)]
            /\ pos' = [pos EXCEPT ![name] = t]
      BY <2>4
    <3>2. PICK S : S = ToSet(ss) /\ S \subseteq k.flight
      BY <2>2
    <3>3. PICK u : u = Done(k, S, ok)
      OBVIOUS
    <3>4. /\ QueueOK(u) /\ Places(u) = Places(k) /\ u.flight = k.flight \ ToSet(ss)
          /\ u.valid = k.valid /\ u.st = k.st /\ u.at = k.at /\ u.start = k.start
      BY <2>2, <3>2, <3>3, DoneOK
    <3>5. /\ t \in Seq(Nat) /\ t # <<>> /\ Len(t) <= LogFlush
          /\ ToSet(t) \subseteq ToSet(pos[name]) \cup ToSet(ss)
      BY <2>1, <2>p, LoggedIs
    <3>6. /\ queue' = [q \in Queues |-> queue'[q]] /\ pos' = [q \in Queues |-> pos'[q]]
          /\ queue'[name] = u /\ pos'[name] = t
          /\ \A q \in Queues : q # name => queue'[q] = queue[q] /\ pos'[q] = pos[q]
      BY <1>a, <2>k, <2>1, <3>1, <3>2, <3>3
    <3>7. ASSUME NEW q \in Queues, q = name
          PROVE  /\ QueueOK(queue'[q])
                 /\ queue'[q].st = queue[q].st /\ Places(queue'[q]) = Places(queue[q])
                 /\ queue'[q].at = queue[q].at /\ queue'[q].start = queue[q].start
                 /\ queue'[q].valid =>
                      /\ queue[q].valid
                      /\ queue'[q].flight = IF q = name THEN queue[q].flight \ ToSet(ss)
                                            ELSE queue[q].flight
                 /\ pos'[q] \in Seq(Nat) /\ Len(pos'[q]) <= LogFlush
                 /\ (pos'[q] = <<>>) <=> (pos[q] = <<>>)
                 /\ ToSet(pos'[q]) \subseteq ToSet(pos[q]) \cup Places(queue[q])
      BY <2>k, <2>1, <2>2, <2>p, <2>f, <3>4, <3>5, <3>6, <3>7
    <3> QED
      BY <1>a, <3>6, <3>7
  <2>5. CASE \E n \in 1..Len(ss) :
               LET done == SubSeq(ss, 1, n) IN
               /\ queue' = [queue EXCEPT ![name] = [Done(@, ToSet(done), ok) EXCEPT !.valid = FALSE]]
               /\ \E p \in ToSet(pos[name] \o done) : pos' = [pos EXCEPT ![name] = <<p>>]
    <3>1. PICK n \in 1..Len(ss) :
            LET done == SubSeq(ss, 1, n) IN
            /\ queue' = [queue EXCEPT ![name] = [Done(@, ToSet(done), ok) EXCEPT !.valid = FALSE]]
            /\ \E p \in ToSet(pos[name] \o done) : pos' = [pos EXCEPT ![name] = <<p>>]
      BY <2>5
    <3>2. PICK done : done = SubSeq(ss, 1, n)
      OBVIOUS
    <3>3. done \in Seq(Nat) /\ ToSet(done) \subseteq ToSet(ss)
      BY <3>2, BeginningIs
    <3>4. PICK p \in ToSet(pos[name] \o done) : pos' = [pos EXCEPT ![name] = <<p>>]
      BY <3>1, <3>2
    <3>5. p \in ToSet(pos[name]) \cup ToSet(done) /\ p \in Nat
      <4>1. (pos[name] \o done) \in Seq(Nat)
        BY <2>p, <3>3
      <4>2. PICK i \in 1..Len(pos[name] \o done) : (pos[name] \o done)[i] = p
        BY <4>1, ToSetIs
      <4>3. p \in Nat
        BY <4>1, ToSetIs
      <4>4. CASE i <= Len(pos[name])
        <5>1. i \in 1..Len(pos[name]) /\ pos[name][i] = p
          BY <2>p, <3>3, <4>2, <4>4
        <5> QED
          BY <2>p, <4>3, <5>1, ToSetIs
      <4>5. CASE i > Len(pos[name])
        <5>1. i - Len(pos[name]) \in 1..Len(done) /\ done[i - Len(pos[name])] = p
          BY <2>p, <3>3, <4>2, <4>5
        <5> QED
          BY <3>3, <4>3, <5>1, ToSetIs
      <4> QED
        BY <2>p, <4>2, <4>4, <4>5
    <3>6. PICK S : S = ToSet(done) /\ S \subseteq k.flight
      BY <2>2, <3>3
    <3>a. PICK w, u : w = Done(k, S, ok) /\ u = Broken(w)
      OBVIOUS
    <3>7. /\ QueueOK(u) /\ Places(u) = Places(k)
          /\ ~u.valid /\ u.st = k.st /\ u.at = k.at /\ u.start = k.start
      <4>1. /\ QueueOK(w) /\ Places(w) = Places(k)
            /\ w.st = k.st /\ w.at = k.at /\ w.start = k.start
        <5>1. QueueOK(k) /\ k.st # "none" /\ S \subseteq k.flight /\ w = Done(k, S, ok)
          BY <2>2, <3>6, <3>a
        <5> QED
          BY <5>1, DoneOK
      <4> QED
        BY <2>2, <3>a, <4>1, BrokenOK
    <3>8. /\ queue' = [q \in Queues |-> queue'[q]] /\ pos' = [q \in Queues |-> pos'[q]]
          /\ queue'[name] = u /\ pos'[name] = <<p>>
          /\ \A q \in Queues : q # name => queue'[q] = queue[q] /\ pos'[q] = pos[q]
      BY <1>a, <2>k, <2>1, <3>1, <3>2, <3>4, <3>a, <3>6 DEF Broken
    <3>9. /\ <<p>> \in Seq(Nat) /\ <<p>> # <<>> /\ Len(<<p>>) <= LogFlush
          /\ ToSet(<<p>>) \subseteq ToSet(pos[name]) \cup Places(k)
      <4>1. <<p>> \in Seq(Nat) /\ <<p>> # <<>> /\ Len(<<p>>) <= LogFlush
        BY <3>5, QueueAssumption
      <4>2. ToSet(<<p>>) = {p}
        BY DEF ToSet
      <4> QED
        BY <2>2, <2>f, <3>3, <3>5, <4>1, <4>2
    <3>10. ASSUME NEW q \in Queues, q = name
           PROVE  /\ QueueOK(queue'[q])
                  /\ queue'[q].st = queue[q].st /\ Places(queue'[q]) = Places(queue[q])
                  /\ queue'[q].at = queue[q].at /\ queue'[q].start = queue[q].start
                  /\ ~queue'[q].valid
                  /\ pos'[q] \in Seq(Nat) /\ Len(pos'[q]) <= LogFlush
                  /\ (pos'[q] = <<>>) <=> (pos[q] = <<>>)
                  /\ ToSet(pos'[q]) \subseteq ToSet(pos[q]) \cup Places(queue[q])
      BY <2>k, <2>p, <3>7, <3>8, <3>9, <3>10
    <3> QED
      BY <1>a, <3>8, <3>10
  <2> QED
    BY <1>2, <2>4, <2>5 DEF EndSendMsg
<1> QED
  BY <1>1, <1>2

\* A message that has gone out, or a connection that closes: connection c loses
\* the messages ss that are done with.
LEMMA GoesOut ==
  ASSUME QueueInv, UNCHANGED masterVars, NEW c \in Conns, OnEndSend(c)
  PROVE  QueueInv'
<1>n. PICK n, h : n = conn[c].name /\ h = Head(out[c])
  OBVIOUS
<1>a. /\ \A q \in Queues : /\ queue[q] \in QueueType /\ QueueOK(queue[q])
                           /\ Sends(q) \in [Conns -> Seq(Nat)]
                           /\ queue[q].valid => queue[q].st # "none"
      /\ \A d \in Conns : out[d] \in Seq(Nat) /\ conn[d] \in ConnType
  BY InvFacts
<1>b. /\ LogInv /\ Shape
      /\ \A q \in Queues : QueueOK(queue[q]) /\ CarriedOK(q) /\ LogOK(q)
      /\ \A d \in Conns : ConnOK(d)
  BY DEF QueueInv
<1>1. /\ EndSendMsg(n, <<h>>, TRUE) /\ out' = [out EXCEPT ![c] = Tail(@)] /\ conn' = conn
  BY <1>n DEF OnEndSend
<1>o. out[c] # <<>>
  BY DEF OnEndSend
<1>2. /\ h \in Nat /\ <<h>> \in Seq(Nat) /\ ToSet(<<h>>) = {h}
      /\ 1 \in 1..Len(out[c]) /\ out[c][1] = h
      /\ Tail(out[c]) \in Seq(Nat) /\ Len(Tail(out[c])) = Len(out[c]) - 1
  BY <1>a, <1>n, <1>o, HeadTailProperties DEF ToSet
<1>3. n \in Queues /\ queue[n].valid => ToSet(<<h>>) \subseteq queue[n].flight
  <2> SUFFICES ASSUME n \in Queues, queue[n].valid PROVE h \in queue[n].flight
    BY <1>2
  <2>1. Sends(n)[c] = out[c] /\ Holds(Sends(n), queue[n].flight)
    BY <1>b, <1>n DEF Sends, CarriedOK
  <2> QED
    BY <1>2, <2>1 DEF Holds
<1>4. log' = log /\ up' = up /\ LogInv'
  <2>1. log' = log /\ up' = up /\ [MasterNext]_masterVars
    BY DEF masterVars, logVars
  <2> QED
    BY <1>b, <2>1, LogStep
<1>5. /\ queue' = [q \in Queues |-> queue'[q]] /\ pos' = [q \in Queues |-> pos'[q]]
      /\ \A q \in Queues :
           /\ QueueOK(queue'[q])
           /\ queue'[q].st = queue[q].st
           /\ queue'[q].valid => /\ queue[q].valid
                                 /\ queue'[q].flight = IF q = n THEN queue[q].flight \ {h}
                                                       ELSE queue[q].flight
           /\ pos'[q] \in Seq(Nat) /\ Len(pos'[q]) <= LogFlush
           /\ (pos'[q] = <<>>) <=> (pos[q] = <<>>)
  <2> DEFINE ss == <<h>>
  <2>1. ss \in Seq(Nat)
    BY <1>2
  <2>s. ToSet(ss) = {h}
    BY <1>2
  <2>2. EndSendMsg(n, ss, TRUE) /\ (n \in Queues /\ queue[n].valid => ToSet(ss) \subseteq queue[n].flight)
    BY <1>1, <1>3
  <2> HIDE DEF ss
  <2>3. /\ queue' = [q \in Queues |-> queue'[q]] /\ pos' = [q \in Queues |-> pos'[q]]
        /\ \A q \in Queues :
             /\ QueueOK(queue'[q])
             /\ queue'[q].st = queue[q].st
             /\ queue'[q].valid => /\ queue[q].valid
                                   /\ queue'[q].flight = IF q = n THEN queue[q].flight \ ToSet(ss)
                                                         ELSE queue[q].flight
             /\ pos'[q] \in Seq(Nat) /\ Len(pos'[q]) <= LogFlush
             /\ (pos'[q] = <<>>) <=> (pos[q] = <<>>)
    BY <2>1, <2>2, EndSendIs, ZenonT(40)
  <2> QED
    BY <2>s, <2>3
<1>6. Shape' /\ \A d \in Conns : out'[d] = IF d = c THEN Tail(out[c]) ELSE out[d]
  BY <1>1, <1>5, <1>b DEF Shape
<1>7. ASSUME NEW d \in Conns  PROVE ConnOK(d)'
  <2>1. Len(out'[d]) <= Len(out[d]) /\ out'[d] \in Seq(Nat) /\ Len(out[d]) \in Nat /\ Len(out'[d]) \in Nat
    <3>1. CASE d = c
      <4>1. out'[d] = Tail(out[c])
        BY <1>6, <3>1
      <4>2. Len(out[c]) \in Nat /\ 1 <= Len(out[c])
        BY <1>2, <1>a
      <4>3. Len(out'[d]) = Len(out[d]) - 1
        BY <1>2, <3>1, <4>1
      <4> QED
        BY <1>2, <3>1, <4>1, <4>2, <4>3
    <3>2. CASE d # c
      BY <1>6, <1>a, <3>2
    <3> QED
      BY <3>1, <3>2
  <2>2. conn'[d] = conn[d]
    BY <1>1
  <2>3. Len(out[d]) <= IF conn[d].redo THEN MaxOut ELSE MaxOut + 1
    BY <1>b DEF ConnOK
  <2>4. Len(out'[d]) <= IF conn'[d].redo THEN MaxOut ELSE MaxOut + 1
    BY <2>1, <2>2, <2>3, QueueAssumption
  <2> QED
    BY <1>b, <2>1, <2>2, <2>4 DEF ConnOK
<1>8. ASSUME NEW q \in Queues  PROVE QueueOK(queue[q])' /\ CarriedOK(q)' /\ LogOK(q)'
  <2>1. QueueOK(queue[q])'
    <3>1. PICK x : x = queue'[q]
      OBVIOUS
    <3>2. QueueOK(x)
      BY <1>5, <3>1
    <3> QED
      BY <1>4, <3>1, <3>2 DEF QueueOK, Above, Newest
  <2>2. LogOK(q)'
    BY <1>4, <1>5, <1>b DEF LogOK
  <2>3. PICK f \in [Conns -> Seq(Nat)] : f = Sends(q)
    BY <1>a
  <2>4. PICK g : g = IF q = n THEN [f EXCEPT ![c] = Tail(@)] ELSE f
    OBVIOUS
  <2>5. Sends(q)' = g
    <3>1. ASSUME NEW d \in Conns
          PROVE  (IF conn'[d].name = q THEN out'[d] ELSE <<>>) = g[d]
      BY <1>1, <1>6, <1>n, <2>3, <2>4 DEF Sends
    <3>2. g = [d \in Conns |-> g[d]]
      BY <2>4
    <3> QED
      BY <3>1, <3>2 DEF Sends
  <2>6. Apart(f) /\ (queue[q].valid => Holds(f, queue[q].flight))
    BY <1>b, <2>3 DEF CarriedOK
  <2>7. Apart(g) /\ (queue[q].valid =>
                       Holds(g, IF q = n THEN queue[q].flight \ {h} ELSE queue[q].flight))
    <3>1. CASE q = n
      <4>1. f[c] = out[c]
        BY <1>n, <1>o, <2>3, <3>1 DEF Sends
      <4>2. /\ Apart([f EXCEPT ![c] = Tail(@)])
            /\ \A S : Holds(f, S) => Holds([f EXCEPT ![c] = Tail(@)], S \ {Head(f[c])})
        BY <1>o, <2>6, <4>1, HoldsTail
      <4> QED
        BY <1>n, <2>4, <2>6, <3>1, <4>1, <4>2
    <3>2. CASE q # n
      BY <2>4, <2>6, <3>2
    <3> QED
      BY <3>1, <3>2
  <2>8. Apart(Sends(q))'
    BY <2>5, <2>7 DEF Apart
  <2>9. queue'[q].valid => Holds(Sends(q), queue[q].flight)'
    <3> SUFFICES ASSUME queue'[q].valid PROVE Holds(Sends(q), queue[q].flight)'
      OBVIOUS
    <3>1. PICK S : S = IF q = n THEN queue[q].flight \ {h} ELSE queue[q].flight
      OBVIOUS
    <3>2. queue'[q].flight = S /\ Holds(g, S)
      BY <1>5, <2>7, <3>1
    <3> QED
      BY <2>5, <3>2 DEF Holds
  <2>10. queue'[q].st = "none" => \A d \in Conns : Sends(q)'[d] = <<>>
    <3> SUFFICES ASSUME queue'[q].st = "none" PROVE \A d \in Conns : Sends(q)'[d] = <<>>
      OBVIOUS
    <3>1. \A d \in Conns : f[d] = <<>>
      BY <1>5, <1>b, <2>3, ZenonT(40) DEF CarriedOK
    <3>2. q # n
      BY <1>n, <1>o, <2>3, <3>1 DEF Sends
    <3> QED
      BY <2>4, <2>5, <3>1, <3>2
  <2> QED
    BY <2>1, <2>2, <2>8, <2>9, <2>10 DEF CarriedOK
<1> QED
  BY <1>4, <1>6, <1>7, <1>8 DEF QueueInv

LEMMA CloseInv ==
  ASSUME QueueInv, UNCHANGED masterVars, NEW c \in Conns, Close(c)
  PROVE  QueueInv'
<1> DEFINE n == conn[c].name
           ss == out[c]
<1>a. /\ \A q \in Queues : /\ queue[q] \in QueueType /\ QueueOK(queue[q])
                           /\ Sends(q) \in [Conns -> Seq(Nat)]
                           /\ queue[q].valid => queue[q].st # "none"
      /\ \A d \in Conns : out[d] \in Seq(Nat) /\ conn[d] \in ConnType
  BY InvFacts
<1>b. /\ LogInv /\ Shape
      /\ \A q \in Queues : QueueOK(queue[q]) /\ CarriedOK(q) /\ LogOK(q)
      /\ \A d \in Conns : ConnOK(d)
  BY DEF QueueInv
<1>1. /\ EndSendMsg(n, ss, FALSE) /\ out' = [out EXCEPT ![c] = <<>>]
      /\ conn' = [conn EXCEPT ![c] = Idle]
  BY DEF Close
<1>2. ss \in Seq(Nat)
  BY <1>a
<1>3. n \in Queues /\ queue[n].valid => ToSet(ss) \subseteq queue[n].flight
  <2> SUFFICES ASSUME n \in Queues, queue[n].valid, NEW x \in ToSet(ss) PROVE x \in queue[n].flight
    OBVIOUS
  <2>1. Sends(n)[c] = out[c] /\ Holds(Sends(n), queue[n].flight)
    BY <1>b DEF Sends, CarriedOK
  <2>2. x \in Nat /\ \E i \in 1..Len(out[c]) : out[c][i] = x
    BY <1>2, ToSetIs
  <2> QED
    BY <2>1, <2>2 DEF Holds
<1>4. log' = log /\ up' = up /\ LogInv'
  <2>1. log' = log /\ up' = up /\ [MasterNext]_masterVars
    BY DEF masterVars, logVars
  <2> QED
    BY <1>b, <2>1, LogStep
<1>5. /\ queue' = [q \in Queues |-> queue'[q]] /\ pos' = [q \in Queues |-> pos'[q]]
      /\ \A q \in Queues :
           /\ QueueOK(queue'[q])
           /\ queue'[q].st = queue[q].st
           /\ queue'[q].valid => /\ queue[q].valid
                                 /\ queue'[q].flight = IF q = n THEN queue[q].flight \ ToSet(ss)
                                                       ELSE queue[q].flight
           /\ pos'[q] \in Seq(Nat) /\ Len(pos'[q]) <= LogFlush
           /\ (pos'[q] = <<>>) <=> (pos[q] = <<>>)
  <2> HIDE DEF n, ss
  <2> QED
    BY <1>1, <1>2, <1>3, EndSendIs, ZenonT(40)
<1>6. /\ Shape'
      /\ \A d \in Conns : out'[d] = (IF d = c THEN <<>> ELSE out[d])
                          /\ conn'[d] = IF d = c THEN Idle ELSE conn[d]
  BY <1>1, <1>5, <1>b DEF Shape
<1>7. ASSUME NEW d \in Conns  PROVE ConnOK(d)'
  <2>1. CASE d = c
    <3>1. Idle \in ConnType /\ ~Idle.waiting /\ ~Idle.owed /\ ~Idle.redo
      BY DEF Idle, ConnType
    <3>2. <<>> \in Seq(Nat) /\ Len(<<>>) <= MaxOut + 1
      BY QueueAssumption
    <3>3. conn'[c] = Idle /\ out'[c] = <<>>
      BY <1>6
    <3> QED
      BY <2>1, <3>1, <3>2, <3>3 DEF ConnOK
  <2>2. CASE d # c
    BY <1>6, <1>b, <2>2 DEF ConnOK
  <2> QED
    BY <2>1, <2>2
<1>8. ASSUME NEW q \in Queues  PROVE QueueOK(queue[q])' /\ CarriedOK(q)' /\ LogOK(q)'
  <2>1. QueueOK(queue[q])'
    <3>1. PICK x : x = queue'[q]
      OBVIOUS
    <3>2. QueueOK(x)
      BY <1>5, <3>1
    <3> QED
      BY <1>4, <3>1, <3>2 DEF QueueOK, Above, Newest
  <2>2. LogOK(q)'
    BY <1>4, <1>5, <1>b DEF LogOK
  <2>3. PICK f \in [Conns -> Seq(Nat)] : f = Sends(q)
    BY <1>a
  <2>4. PICK g : g = [f EXCEPT ![c] = <<>>]
    OBVIOUS
  <2>5. Sends(q)' = g
    <3>1. ASSUME NEW d \in Conns
          PROVE  (IF conn'[d].name = q THEN out'[d] ELSE <<>>) = g[d]
      BY <1>6, <2>3, <2>4 DEF Sends
    <3>2. g = [d \in Conns |-> g[d]]
      BY <2>4
    <3> QED
      BY <3>1, <3>2 DEF Sends
  <2>6. Apart(f) /\ (queue[q].valid => Holds(f, queue[q].flight))
    BY <1>b, <2>3 DEF CarriedOK
  <2>7. Apart(g) /\ \A S : Holds(f, S) => Holds(g, S \ ToSet(f[c]))
    BY <2>4, <2>6, HoldsNothing
  <2>8. Apart(Sends(q))'
    BY <2>5, <2>7 DEF Apart
  <2>9. queue'[q].valid => Holds(Sends(q), queue[q].flight)'
    <3> SUFFICES ASSUME queue'[q].valid PROVE Holds(Sends(q), queue[q].flight)'
      OBVIOUS
    <3>1. PICK S : S = IF q = n THEN queue[q].flight \ ToSet(ss) ELSE queue[q].flight
      OBVIOUS
    <3>2. q # n => ToSet(f[c]) = {}
      <4>1. q # n => f[c] = <<>>
        BY <2>3 DEF Sends
      <4> QED
        BY <4>1, ToSetIs
    <3>3. q = n => f[c] = ss
      BY <2>3 DEF Sends
    <3>4. S = queue[q].flight \ ToSet(f[c])
      BY <3>1, <3>2, <3>3
    <3>5. queue'[q].flight = S /\ queue[q].valid
      BY <1>5, <3>1
    <3>6. PICK F : F = queue[q].flight
      OBVIOUS
    <3>7. Holds(f, F)
      BY <2>6, <3>5, <3>6
    <3>8. Holds(g, S)
      BY <2>7, <3>4, <3>6, <3>7
    <3> QED
      BY <2>5, <3>5, <3>8 DEF Holds
  <2>10. queue'[q].st = "none" => \A d \in Conns : Sends(q)'[d] = <<>>
    <3> SUFFICES ASSUME queue'[q].st = "none" PROVE \A d \in Conns : Sends(q)'[d] = <<>>
      OBVIOUS
    <3>1. \A d \in Conns : f[d] = <<>>
      BY <1>5, <1>b, <2>3, ZenonT(40) DEF CarriedOK
    <3> QED
      BY <2>4, <2>5, <3>1
  <2> QED
    BY <2>1, <2>2, <2>8, <2>9, <2>10 DEF CarriedOK
<1> QED
  BY <1>4, <1>6, <1>7, <1>8 DEF QueueInv

\* Nobody has a message of the queue in its send queue.
LEMMA NothingHeld ==
  ASSUME NEW f, \A c \in Conns : f[c] = <<>>
  PROVE  Holds(f, {}) /\ Apart(f)
<1>1. \A c \in Conns : \A i : i \notin 1..Len(f[c])
  OBVIOUS
<1> QED
  BY <1>1 DEF Holds, Apart

\* Queue q becomes k with the log t.  Either it is the same queue, or nobody
\* has a message of it.
LEMMA OneQueue ==
  ASSUME QueueInv, UNCHANGED masterVars, conn' = conn, out' = out,
         NEW q \in Queues, NEW k, NEW t \in Seq(Nat),
         queue' = [queue EXCEPT ![q] = k], pos' = [pos EXCEPT ![q] = t],
         QueueOK(k), Len(t) <= LogFlush, (k.st = "none") <=> (~up \/ t = <<>>),
         k = queue[q] \/ (k.flight = {} /\ \A c \in Conns : Sends(q)[c] = <<>>)
  PROVE  QueueInv'
<1>b. /\ LogInv /\ Shape
      /\ \A p \in Queues : QueueOK(queue[p]) /\ CarriedOK(p) /\ LogOK(p)
      /\ \A d \in Conns : ConnOK(d)
  BY DEF QueueInv
<1>1. log' = log /\ up' = up /\ LogInv'
  <2>1. log' = log /\ up' = up /\ [MasterNext]_masterVars
    BY DEF masterVars, logVars
  <2> QED
    BY <1>b, <2>1, LogStep
<1>2. /\ queue'[q] = k /\ pos'[q] = t
      /\ \A p \in Queues : p # q => queue'[p] = queue[p] /\ pos'[p] = pos[p]
      /\ queue' = [p \in Queues |-> queue'[p]] /\ pos' = [p \in Queues |-> pos'[p]]
  BY <1>b DEF Shape
<1>3. Shape'
  BY <1>b, <1>2 DEF Shape
<1>4. ASSUME NEW d \in Conns  PROVE ConnOK(d)'
  BY <1>b DEF ConnOK
<1>5. ASSUME NEW p \in Queues  PROVE QueueOK(queue[p])' /\ CarriedOK(p)' /\ LogOK(p)'
  <2>1. Sends(p)' = Sends(p)
    BY DEF Sends
  <2>2. QueueOK(queue[p])'
    <3>1. PICK x : x = queue'[p]
      OBVIOUS
    <3>2. QueueOK(x)
      BY <1>2, <1>b, <3>1
    <3> QED
      BY <1>1, <3>1, <3>2 DEF QueueOK, Above, Newest
  <2>3. LogOK(p)'
    BY <1>1, <1>2, <1>b DEF LogOK
  <2>4. CarriedOK(p)'
    <3>1. CASE queue'[p] = queue[p]
      BY <1>b, <2>1, <3>1 DEF CarriedOK, Holds, Apart
    <3>2. CASE p = q /\ k.flight = {} /\ \A c \in Conns : Sends(q)[c] = <<>>
      <4>1. Holds(Sends(q), {}) /\ Apart(Sends(q))
        BY <3>2, NothingHeld
      <4>2. queue'[p].flight = {} /\ Sends(p)' = Sends(q)
        BY <1>2, <2>1, <3>2
      <4>3. Holds(Sends(p), queue[p].flight)' /\ Apart(Sends(p))'
        BY <4>1, <4>2 DEF Holds, Apart
      <4> QED
        BY <3>2, <4>2, <4>3 DEF CarriedOK
    <3> QED
      BY <1>2, <3>1, <3>2
  <2> QED
    BY <2>2, <2>3, <2>4
<1> QED
  BY <1>1, <1>3, <1>4, <1>5 DEF QueueInv

LEMMA CreateInv ==
  ASSUME QueueInv, UNCHANGED masterVars, NEW q \in Queues, CreateQueue(q)
  PROVE  QueueInv'
<1>1. PICK s \in {Newest(log), 1} :
        queue' = [queue EXCEPT ![q] = NewQueue(s)] /\ pos' = [pos EXCEPT ![q] = <<s>>]
  BY DEF CreateQueue
<1>2. LogInv /\ s \in Nat
  BY LogTypes DEF QueueInv
<1>3. up /\ queue[q].st = "none" /\ conn' = conn /\ out' = out
  BY DEF CreateQueue
<1>4. \A c \in Conns : Sends(q)[c] = <<>>
  BY <1>3 DEF QueueInv, CarriedOK
<1>5. PICK k, t : k = NewQueue(s) /\ t = <<s>>
  OBVIOUS
<1>6. QueueOK(k) /\ k.st = "unseek" /\ k.flight = {}
  BY <1>2, <1>5, NewQueueOK
<1>7. t \in Seq(Nat) /\ t # <<>> /\ Len(t) <= LogFlush
  BY <1>2, <1>5, QueueAssumption
<1>8. queue' = [queue EXCEPT ![q] = k] /\ pos' = [pos EXCEPT ![q] = t]
  BY <1>1, <1>5
<1>9. (k.st = "none") <=> (~up \/ t = <<>>)
  BY <1>3, <1>6, <1>7
<1> QED
  BY <1>3, <1>4, <1>6, <1>7, <1>8, <1>9, OneQueue

LEMMA DelInv ==
  ASSUME QueueInv, UNCHANGED masterVars, NEW q \in Queues, DelQueue(q)
  PROVE  QueueInv'
<1>1. LogInv
  BY DEF QueueInv
<1>2. /\ conn' = conn /\ out' = out
      /\ queue' = [queue EXCEPT ![q] = NoQueue] /\ pos' = [pos EXCEPT ![q] = <<>>]
      /\ \A c \in Conns : conn[c].name = q => out[c] = <<>>
  BY DEF DelQueue
<1>4. \A c \in Conns : Sends(q)[c] = <<>>
  BY <1>2 DEF Sends
<1>5. PICK k, t : k = NoQueue /\ t = <<>>
  OBVIOUS
<1>6. QueueOK(k) /\ k.st = "none" /\ k.flight = {}
  <2>1. QueueOK(NoQueue)
    BY <1>1, NoQueueOK
  <2> QED
    BY <1>5, <2>1 DEF NoQueue
<1>7. t \in Seq(Nat) /\ t = <<>> /\ Len(t) <= LogFlush
  BY <1>5, QueueAssumption
<1>8. queue' = [queue EXCEPT ![q] = k] /\ pos' = [pos EXCEPT ![q] = t]
  BY <1>2, <1>5
<1>9. (k.st = "none") <=> (~up \/ t = <<>>)
  BY <1>6, <1>7
<1> QED
  BY <1>2, <1>4, <1>6, <1>7, <1>8, <1>9, OneQueue

LEMMA TimeoutInv ==
  ASSUME QueueInv, UNCHANGED masterVars, NEW q \in Queues, QueueTimeout(q)
  PROVE  QueueInv'
<1>1. /\ conn' = conn /\ out' = out /\ queue' = queue
      /\ pos' = [pos EXCEPT ![q] = <<Last(pos[q])>>] /\ Len(pos[q]) > 1
  BY DEF QueueTimeout
<1>2. /\ Shape /\ LogInv
      /\ \A p \in Queues : QueueOK(queue[p]) /\ LogOK(p)
  BY DEF QueueInv
<1>3. pos[q] \in Seq(Nat) /\ pos[q] # <<>> /\ Last(pos[q]) \in Nat
  <2>1. pos[q] \in Seq(Nat) /\ Len(pos[q]) \in 1..Len(pos[q])
    BY <1>1, <1>2 DEF LogOK
  <2> QED
    BY <2>1 DEF Last
<1>5. PICK k, t : k = queue[q] /\ t = <<Last(pos[q])>>
  OBVIOUS
<1>6. QueueOK(k) /\ ((k.st = "none") <=> ~up)
  BY <1>2, <1>3, <1>5 DEF LogOK
<1>7. t \in Seq(Nat) /\ t # <<>> /\ Len(t) <= LogFlush
  BY <1>3, <1>5, QueueAssumption
<1>8. queue' = [queue EXCEPT ![q] = k] /\ pos' = [pos EXCEPT ![q] = t]
  <2>1. queue = [queue EXCEPT ![q] = k]
    BY <1>2, <1>5 DEF Shape
  <2> QED
    BY <1>1, <1>5, <2>1
<1>9. (k.st = "none") <=> (~up \/ t = <<>>)
  BY <1>6, <1>7
<1> QED
  BY <1>1, <1>5, <1>6, <1>7, <1>8, <1>9, OneQueue

LEMMA FetchInv ==
  ASSUME QueueInv, UNCHANGED masterVars, NEW c \in Conns, NEW q \in Queues, NEW b \in BOOLEAN,
         Fetch(c, q, b)
  PROVE  QueueInv'
<1>1. conn[c] \in ConnType
  BY InvFacts
<1>2. PICK k : k = IF conn[c].name = q THEN [conn[c] EXCEPT !.block = b]
                   ELSE [Fetching(q, b) EXCEPT !.redo = conn[c].redo]
  OBVIOUS
<1>3. k \in ConnType /\ k.name = q
  BY <1>1, <1>2 DEF ConnType, Fetching, Idle
<1>4. /\ up /\ Len(out[c]) < MaxOut /\ (conn[c].name = q \/ out[c] = <<>>)
      /\ Serve(c, k, FALSE)
  BY <1>2 DEF Fetch, MayFetch
<1> QED
  BY <1>3, <1>4, ServeInv

LEMMA RedoInv ==
  ASSUME QueueInv, UNCHANGED masterVars, NEW c \in Conns, Redo(c)
  PROVE  QueueInv'
<1>1. up /\ conn[c].redo /\ Serve(c, conn[c], TRUE)
  BY DEF Redo
<1>2. conn[c] \in ConnType /\ out[c] \in Seq(Nat)
  BY InvFacts
<1>3. Len(out[c]) < MaxOut + 1
  BY <1>1, <1>2, QueueAssumption DEF QueueInv, ConnOK
<1>4. PICK k : k = conn[c]
  OBVIOUS
<1>5. k \in ConnType /\ Serve(c, k, TRUE) /\ (k.name = conn[c].name \/ out[c] = <<>>)
  BY <1>1, <1>2, <1>4
<1> QED
  BY <1>1, <1>3, <1>5, ServeInv

LEMMA FetchUnknownInv ==
  ASSUME QueueInv, UNCHANGED masterVars, NEW c \in Conns, NEW q \in Queues, FetchUnknown(c, q)
  PROVE  QueueInv'
<1>b. /\ LogInv /\ Shape
      /\ \A p \in Queues : QueueOK(queue[p]) /\ CarriedOK(p) /\ LogOK(p)
      /\ \A d \in Conns : ConnOK(d)
  BY DEF QueueInv
<1>1. log' = log /\ up' = up /\ LogInv'
  <2>1. log' = log /\ up' = up /\ [MasterNext]_masterVars
    BY DEF masterVars, logVars
  <2> QED
    BY <1>b, <2>1, LogStep
<1>2. /\ queue' = queue /\ pos' = pos /\ out' = out
      /\ conn' = [conn EXCEPT ![c].name = "", ![c].owed = FALSE]
      /\ ~conn[c].waiting /\ out[c] = <<>>
  BY DEF FetchUnknown, MayFetch
<1>3. /\ \A d \in Conns : d # c => conn'[d] = conn[d]
      /\ conn'[c] = [conn[c] EXCEPT !.name = "", !.owed = FALSE]
      /\ conn' = [d \in Conns |-> conn'[d]]
  BY <1>2, <1>b DEF Shape
<1>4. conn[c] \in ConnType
  BY InvFacts
<1>5. /\ conn'[c] \in ConnType /\ ~conn'[c].waiting /\ ~conn'[c].owed
      /\ conn'[c].redo = conn[c].redo
  BY <1>2, <1>3, <1>4 DEF ConnType
<1>6. ASSUME NEW d \in Conns  PROVE ConnOK(d)'
  <2>1. CASE d = c
    BY <1>2, <1>5, <1>b, <2>1 DEF ConnOK
  <2>2. CASE d # c
    BY <1>2, <1>3, <1>b, <2>2 DEF ConnOK
  <2> QED
    BY <2>1, <2>2
<1>7. ASSUME NEW p \in Queues  PROVE QueueOK(queue[p])' /\ CarriedOK(p)' /\ LogOK(p)'
  <2>1. Sends(p)' = Sends(p)
    <3>1. ASSUME NEW d \in Conns
          PROVE  (IF conn'[d].name = p THEN out'[d] ELSE <<>>) = IF conn[d].name = p THEN out[d] ELSE <<>>
      BY <1>2, <1>3
    <3> QED
      BY <3>1 DEF Sends
  <2>2. QueueOK(queue[p])'
    BY <1>1, <1>2, <1>b DEF QueueOK, Above, Newest
  <2>3. CarriedOK(p)'
    <3>1. PICK f : f = Sends(p)
      OBVIOUS
    <3>2. /\ queue[p].valid => Holds(f, queue[p].flight)
          /\ Apart(f)
          /\ queue[p].st = "none" => \A d \in Conns : f[d] = <<>>
      BY <1>b, <3>1 DEF CarriedOK
    <3>3. Sends(p)' = f /\ queue'[p] = queue[p]
      BY <1>2, <2>1, <3>1
    <3> QED
      BY <3>2, <3>3 DEF CarriedOK, Holds, Apart
  <2>4. LogOK(p)'
    <3>1. up' = up
      BY <1>1
    <3> QED
      BY <1>2, <1>b, <3>1 DEF LogOK
  <2> QED
    BY <2>2, <2>3, <2>4
<1>8. Shape'
  BY <1>2, <1>3, <1>b DEF Shape
<1> QED
  BY <1>1, <1>6, <1>7, <1>8 DEF QueueInv

\* What a crash leaves of the positions.
LEMMA LeavesIs ==
  ASSUME NEW left, Leaves(left), \A q \in Queues : left[q] \subseteq Nat
  PROVE  /\ pos' = [q \in Queues |-> pos'[q]]
         /\ \A q \in Queues : /\ pos'[q] \in Seq(Nat) /\ Len(pos'[q]) <= LogFlush
                              /\ ToSet(pos'[q]) \subseteq left[q]
<1>1. /\ pos' \in [Queues -> {<<>>} \cup {<<p>> : p \in UNION {left[q] : q \in Queues}}]
      /\ \A q \in Queues : IF left[q] = {} THEN pos'[q] = <<>>
                            ELSE pos'[q] # <<>> /\ pos'[q][1] \in left[q]
  BY DEF Leaves
<1>2. ASSUME NEW q \in Queues
      PROVE  /\ pos'[q] \in Seq(Nat) /\ Len(pos'[q]) <= LogFlush
             /\ ToSet(pos'[q]) \subseteq left[q]
  <2>1. CASE pos'[q] = <<>>
    <3>1. <<>> \in Seq(Nat) /\ Len(<<>>) = 0 /\ ToSet(<<>>) = {}
      BY DEF ToSet
    <3> QED
      BY <2>1, <3>1, QueueAssumption
  <2>2. CASE pos'[q] # <<>>
    <3>1. PICK p : pos'[q] = <<p>>
      BY <1>1, <2>2
    <3>2. p \in left[q] /\ p \in Nat
      BY <1>1, <2>2, <3>1
    <3>3. <<p>> \in Seq(Nat) /\ Len(<<p>>) = 1 /\ ToSet(<<p>>) = {p}
      BY <3>2 DEF ToSet
    <3> QED
      BY <3>1, <3>2, <3>3, QueueAssumption
  <2> QED
    BY <2>1, <2>2
<1> QED
  BY <1>1, <1>2

LEMMA DiedInv ==
  ASSUME QueueInv, ProcessDies \/ MachineDies, Disconnected,
         NEW left, Leaves(left), \A q \in Queues : left[q] \subseteq Nat
  PROVE  QueueInv'
<1>1. LogInv' /\ up' = FALSE
  BY LogStep DEF QueueInv, MasterNext, ProcessDies, MachineDies, Stop
<1>2. QueueOK(NoQueue)'
  <2>1. LogInv' => QueueOK(NoQueue)'
    BY NoQueueOK, PTL
  <2> QED
    BY <1>1, <2>1
<1>3. /\ pos' = [q \in Queues |-> pos'[q]]
      /\ \A q \in Queues : pos'[q] \in Seq(Nat) /\ Len(pos'[q]) <= LogFlush
  BY LeavesIs
<1>4. /\ queue' = [q \in Queues |-> NoQueue]
      /\ conn' = [c \in Conns |-> Idle] /\ out' = [c \in Conns |-> <<>>]
  BY DEF Disconnected
<1>5. Shape'
  BY <1>3, <1>4 DEF Shape
<1>6. ASSUME NEW d \in Conns  PROVE ConnOK(d)'
  <2>1. Idle \in ConnType /\ ~Idle.waiting /\ ~Idle.owed /\ ~Idle.redo
    BY DEF Idle, ConnType
  <2>2. <<>> \in Seq(Nat) /\ Len(<<>>) <= MaxOut + 1
    BY QueueAssumption
  <2>3. conn'[d] = Idle /\ out'[d] = <<>>
    BY <1>4
  <2> QED
    BY <2>1, <2>2, <2>3 DEF ConnOK
<1>7. ASSUME NEW p \in Queues  PROVE QueueOK(queue[p])' /\ CarriedOK(p)' /\ LogOK(p)'
  <2>1. queue'[p] = NoQueue /\ NoQueue.st = "none" /\ ~NoQueue.valid
    BY <1>4 DEF NoQueue
  <2>2. QueueOK(queue[p])'
    BY <1>2, <2>1 DEF QueueOK, Above, Newest
  <2>3. \A c \in Conns : Sends(p)'[c] = <<>>
    BY <1>4 DEF Sends
  <2>4. Apart(Sends(p))'
    <3>1. PICK f : f = Sends(p)'
      OBVIOUS
    <3>2. Apart(f)
      BY <2>3, <3>1, NothingHeld
    <3> QED
      BY <3>1, <3>2 DEF Apart
  <2>5. LogOK(p)'
    BY <1>1, <1>3, <2>1 DEF LogOK
  <2> QED
    BY <2>1, <2>2, <2>3, <2>4, <2>5 DEF CarriedOK
<1> QED
  BY <1>1, <1>5, <1>6, <1>7 DEF QueueInv

\* A process that dies leaves lines of the log, and a machine perhaps an older
\* position of this run.
LeftBy(q) == IF pos[q] = <<>> THEN {} ELSE ToSet(pos[q]) \cup queue[q].sent \cup {queue[q].start}

LEMMA LeftIs ==
  ASSUME QueueInv, ServerDies \/ ServerMachineDies
  PROVE  /\ ProcessDies \/ MachineDies
         /\ Disconnected
         /\ \E left : /\ Leaves(left)
                      /\ \A q \in Queues : left[q] \subseteq Nat /\ left[q] \subseteq
                           ToSet(pos[q]) \cup queue[q].sent \cup {queue[q].start}
<1>1. \A q \in Queues : /\ queue[q].sent \in SUBSET Nat /\ queue[q].start \in Nat
                        /\ ToSet(pos[q]) \in SUBSET Nat
  <2>1. \A q \in Queues : queue[q] \in QueueType /\ pos[q] \in Seq(Nat)
    BY InvFacts DEF QueueInv, LogOK
  <2> QED
    BY <2>1, ToSetIs DEF QueueType
<1>2. CASE ServerDies
  <2>1. PICK left : left = [q \in Queues |-> ToSet(pos[q])]
    OBVIOUS
  <2>2. ProcessDies /\ Disconnected /\ Leaves(left)
    BY <1>2, <2>1 DEF ServerDies
  <2>3. \A q \in Queues : left[q] = ToSet(pos[q])
    BY <2>1
  <2> QED
    BY <1>1, <2>2, <2>3
<1>3. CASE ServerMachineDies
  <2>1. PICK left : left = [q \in Queues |-> LeftBy(q)]
    OBVIOUS
  <2>2. MachineDies /\ Disconnected /\ Leaves(left)
    BY <1>3, <2>1 DEF ServerMachineDies, LeftBy
  <2>3. \A q \in Queues : left[q] \subseteq ToSet(pos[q]) \cup queue[q].sent \cup {queue[q].start}
    BY <2>1 DEF LeftBy
  <2> QED
    BY <1>1, <2>2, <2>3
<1> QED
  BY <1>2, <1>3

LEMMA StartInv ==
  ASSUME QueueInv, ServerStarts
  PROVE  QueueInv'
<1>b. /\ LogInv /\ Shape
      /\ \A p \in Queues : QueueOK(queue[p]) /\ CarriedOK(p) /\ LogOK(p)
      /\ \A d \in Conns : ConnOK(d)
  BY DEF QueueInv
<1>1. /\ ~up /\ up' = TRUE /\ log' = log /\ LogInv'
      /\ pos' = pos /\ conn' = conn /\ out' = out
      /\ queue' = [q \in Queues |-> IF pos[q] = <<>> THEN NoQueue ELSE NewQueue(Last(pos[q]))]
  BY <1>b, LogStep DEF ServerStarts, Start, MasterNext
<1>2. Shape'
  BY <1>1, <1>b DEF Shape
<1>3. \A d \in Conns : ConnOK(d)'
  BY <1>1, <1>b DEF ConnOK
<1>4. ASSUME NEW p \in Queues  PROVE QueueOK(queue[p])' /\ CarriedOK(p)' /\ LogOK(p)'
  <2>1. PICK x : x = queue'[p]
    OBVIOUS
  <2>2. QueueOK(x) /\ x.flight = {} /\ ((x.st = "none") <=> (pos[p] = <<>>))
    <3>1. CASE pos[p] = <<>>
      <4>1. x = NoQueue
        BY <1>1, <2>1, <3>1
      <4>2. QueueOK(NoQueue) /\ NoQueue.flight = {} /\ NoQueue.st = "none"
        BY <1>b, NoQueueOK DEF NoQueue
      <4> QED
        BY <3>1, <4>1, <4>2
    <3>2. CASE pos[p] # <<>>
      <4>1. pos[p] \in Seq(Nat)
        BY <1>b DEF LogOK
      <4>2. Last(pos[p]) \in Nat
        BY <3>2, <4>1 DEF Last
      <4>3. PICK s \in Nat : s = Last(pos[p])
        BY <4>2
      <4>4. x = NewQueue(s)
        BY <1>1, <2>1, <3>2, <4>3
      <4> QED
        BY <1>b, <3>2, <4>4, NewQueueOK
    <3> QED
      BY <3>1, <3>2
  <2>3. QueueOK(queue[p])'
    BY <1>1, <2>1, <2>2 DEF QueueOK, Above, Newest
  <2>4. LogOK(p)'
    BY <1>1, <1>b, <2>1, <2>2 DEF LogOK
  <2>5. \A c \in Conns : Sends(p)[c] = <<>>
    BY <1>1, <1>b DEF LogOK, CarriedOK
  <2>6. Sends(p)' = Sends(p)
    BY <1>1 DEF Sends
  <2>7. CarriedOK(p)'
    <3>1. Holds(Sends(p), {}) /\ Apart(Sends(p))
      BY <2>5, NothingHeld
    <3>2. queue'[p].flight = {}
      BY <2>1, <2>2
    <3>3. Holds(Sends(p), queue[p].flight)' /\ Apart(Sends(p))'
      BY <2>6, <3>1, <3>2 DEF Holds, Apart
    <3> QED
      BY <2>5, <2>6, <3>3 DEF CarriedOK
  <2> QED
    BY <2>3, <2>4, <2>7
<1> QED
  BY <1>1, <1>2, <1>3, <1>4 DEF QueueInv

\* The receiving thread, or nothing, happens.
LEMMA ReceivingInv ==
  ASSUME QueueInv, UNCHANGED queueVars, Recv \/ Dispatch \/ UNCHANGED masterVars
  PROVE  QueueInv'
<1>b. /\ LogInv /\ Shape
      /\ \A p \in Queues : QueueOK(queue[p]) /\ CarriedOK(p) /\ LogOK(p)
      /\ \A d \in Conns : ConnOK(d)
  BY DEF QueueInv
<1>1. queue' = queue /\ pos' = pos /\ conn' = conn /\ out' = out
  BY DEF queueVars
<1>2. [MasterNext]_masterVars
  BY DEF MasterNext
<1>3. LogInv'
  BY <1>2, <1>b, LogStep
<1>4. up' = up /\ (up \/ log' = log)
  BY DEF Recv, RecvAppend, RecvFails, RecvCommit, RecvCommitFails, TimeoutFlush, Dispatch,
     masterVars, logVars
<1>5. ASSUME NEW p \in Queues  PROVE QueueOK(queue[p])' /\ CarriedOK(p)' /\ LogOK(p)'
  <2>1. QueueOK(queue[p])'
    <3>1. PICK x : x = queue[p] /\ QueueOK(x)
      BY <1>b
    <3>2. QueueOK(x)'
      <4>1. CASE log' = log
        BY <3>1, <4>1, QueueSame
      <4>2. CASE up
        BY <1>2, <1>4, <1>b, <3>1, <4>2, QueueStays
      <4> QED
        BY <1>4, <4>1, <4>2
    <3>3. queue'[p] = x
      BY <1>1, <3>1
    <3> QED
      BY <3>2, <3>3 DEF QueueOK, Above, Newest
  <2>2. Sends(p)' = Sends(p)
    BY <1>1 DEF Sends
  <2>3. CarriedOK(p)'
    BY <1>1, <1>b, <2>2 DEF CarriedOK, Holds, Apart
  <2>4. LogOK(p)'
    BY <1>1, <1>4, <1>b DEF LogOK
  <2> QED
    BY <2>1, <2>3, <2>4
<1>6. Shape' /\ \A d \in Conns : ConnOK(d)'
  BY <1>1, <1>b DEF Shape, ConnOK
<1> QED
  BY <1>3, <1>5, <1>6 DEF QueueInv

LEMMA QueueStep == QueueInv /\ [Next]_vars => QueueInv'
<1> SUFFICES ASSUME QueueInv, [Next]_vars PROVE QueueInv'
  OBVIOUS
<1>1. CASE (Recv \/ Dispatch) /\ UNCHANGED queueVars
  BY <1>1, ReceivingInv
<1>2. CASE UNCHANGED vars
  <2>1. UNCHANGED queueVars /\ UNCHANGED masterVars
    BY <1>2 DEF vars
  <2> QED
    BY <2>1, ReceivingInv
<1>3. CASE Consume /\ UNCHANGED masterVars
  <2>1. ASSUME NEW c \in Conns, Redo(c) \/ OnEndSend(c) \/ Close(c)  PROVE QueueInv'
    BY <1>3, <2>1, RedoInv, GoesOut, CloseInv
  <2>2. ASSUME NEW c \in Conns, NEW q \in Queues, NEW b \in BOOLEAN, Fetch(c, q, b)
        PROVE  QueueInv'
    BY <1>3, <2>2, FetchInv
  <2>3. ASSUME NEW c \in Conns, NEW q \in Queues, FetchUnknown(c, q)  PROVE QueueInv'
    BY <1>3, <2>3, FetchUnknownInv
  <2>4. ASSUME NEW q \in Queues, CreateQueue(q) \/ DelQueue(q) \/ QueueTimeout(q)
        PROVE  QueueInv'
    BY <1>3, <2>4, CreateInv, DelInv, TimeoutInv
  <2> QED
    BY <1>3, <2>1, <2>2, <2>3, <2>4 DEF Consume
<1>4. CASE ServerDies \/ ServerMachineDies
  BY <1>4, LeftIs, DiedInv
<1>5. CASE ServerStarts
  BY <1>5, StartInv
<1> QED
  BY <1>1, <1>2, <1>3, <1>4, <1>5 DEF Next

LEMMA QueueInit == Init => QueueInv
<1> SUFFICES ASSUME Init PROVE QueueInv
  OBVIOUS
<1>1. LogInv /\ up = FALSE
  BY InitInv DEF Init, MasterInit, MasterInv, SyncedInv
<1>2. /\ queue = [q \in Queues |-> NoQueue] /\ pos = [q \in Queues |-> <<>>]
      /\ conn = [c \in Conns |-> Idle] /\ out = [c \in Conns |-> <<>>]
  BY DEF Init
<1>3. ASSUME NEW d \in Conns  PROVE ConnOK(d)
  <2>1. Idle \in ConnType /\ ~Idle.waiting /\ ~Idle.owed /\ ~Idle.redo
    BY DEF Idle, ConnType
  <2>2. <<>> \in Seq(Nat) /\ Len(<<>>) <= MaxOut + 1
    BY QueueAssumption
  <2>3. conn[d] = Idle /\ out[d] = <<>>
    BY <1>2
  <2> QED
    BY <2>1, <2>2, <2>3 DEF ConnOK
<1>4. ASSUME NEW p \in Queues  PROVE QueueOK(queue[p]) /\ CarriedOK(p) /\ LogOK(p)
  <2>1. queue[p] = NoQueue /\ NoQueue.st = "none" /\ ~NoQueue.valid /\ pos[p] = <<>>
    BY <1>2 DEF NoQueue
  <2>2. QueueOK(NoQueue)
    BY <1>1, NoQueueOK
  <2>3. \A c \in Conns : Sends(p)[c] = <<>>
    BY <1>2 DEF Sends
  <2>4. Apart(Sends(p))
    BY <2>3, NothingHeld
  <2>5. LogOK(p)
    BY <1>1, <2>1, QueueAssumption DEF LogOK
  <2> QED
    BY <2>1, <2>2, <2>3, <2>4, <2>5 DEF CarriedOK
<1> QED
  BY <1>1, <1>2, <1>3, <1>4 DEF QueueInv, Shape

LEMMA QueueAlways == Spec => []QueueInv
  BY QueueInit, QueueStep, PTL DEF Spec

(***************************************************************************)
(* What follows for the properties.                                         *)
(***************************************************************************)
LEMMA TypeFollows == QueueInv => TypeOK
<1> SUFFICES ASSUME QueueInv PROVE TypeOK
  OBVIOUS
<1>1. /\ LogInv
      /\ \A q \in Queues : LogOK(q)
      /\ \A c \in Conns : ConnOK(c)
  BY DEF QueueInv
<1>2. ASSUME NEW c \in Conns
      PROVE  /\ conn[c].waiting \/ conn[c].owed => conn[c].redo
             /\ out[c] \in Seq(Nat) /\ Len(out[c]) <= MaxOut + 1
  <2>1. out[c] \in Seq(Nat) /\ Len(out[c]) \in Nat
    BY <1>1 DEF ConnOK
  <2>2. Len(out[c]) <= IF conn[c].redo THEN MaxOut ELSE MaxOut + 1
    BY <1>1 DEF ConnOK
  <2>3. Len(out[c]) <= MaxOut + 1
    BY <2>1, <2>2, QueueAssumption
  <2> QED
    BY <1>1, <2>1, <2>3 DEF ConnOK
<1>3. MasterTypeOK
  BY <1>1 DEF LogInv
<1> QED
  BY <1>1, <1>2, <1>3 DEF TypeOK, LogOK

LEMMA PlaceFollows == QueueInv => EachAtOnePlace
<1> SUFFICES ASSUME QueueInv, NEW q \in Queues
             PROVE  LET k == queue[q] IN
                    /\ k.flight \cap k.back = {} /\ k.flight \cap k.sent = {} /\ k.back \cap k.sent = {}
                    /\ k.valid => k.flight = UNION {ToSet(out[c]) : c \in Sending(q)}
                    /\ \A c, d \in Sending(q) : \A i \in 1..Len(out[c]), j \in 1..Len(out[d]) :
                         out[c][i] = out[d][j] => c = d /\ i = j
  BY DEF EachAtOnePlace
<1>1. /\ QueueOK(queue[q]) /\ CarriedOK(q) /\ queue[q] \in QueueType
      /\ \A c \in Conns : out[c] \in Seq(Nat)
  BY InvFacts DEF QueueInv
<1>2. \A c \in Sending(q) : c \in Conns /\ Sends(q)[c] = out[c]
  BY DEF Sending, Sends
<1>3. \A c, d \in Sending(q) : \A i \in 1..Len(out[c]), j \in 1..Len(out[d]) :
        out[c][i] = out[d][j] => c = d /\ i = j
  <2> SUFFICES ASSUME NEW c \in Sending(q), NEW d \in Sending(q), NEW i \in 1..Len(out[c]),
                      NEW j \in 1..Len(out[d]), out[c][i] = out[d][j]
               PROVE  c = d /\ i = j
    OBVIOUS
  <2>1. PICK f : f = Sends(q)
    OBVIOUS
  <2>2. Apart(f) /\ f[c] = out[c] /\ f[d] = out[d] /\ c \in Conns /\ d \in Conns
    BY <1>1, <1>2, <2>1 DEF CarriedOK
  <2> QED
    BY <2>2 DEF Apart
<1>4. ASSUME queue[q].valid  PROVE queue[q].flight = UNION {ToSet(out[c]) : c \in Sending(q)}
  <2>1. PICK f : f = Sends(q)
    OBVIOUS
  <2>2. Holds(f, queue[q].flight) /\ \A c \in Sending(q) : f[c] = out[c]
    BY <1>1, <1>2, <1>4, <2>1 DEF CarriedOK
  <2>3. queue[q].flight \in SUBSET Nat
    BY <1>1 DEF QueueType
  <2>4. ASSUME NEW s \in queue[q].flight  PROVE \E c \in Sending(q) : s \in ToSet(out[c])
    <3>1. PICK c \in Conns : \E i \in 1..Len(f[c]) : f[c][i] = s
      BY <2>2, <2>3, <2>4 DEF Holds
    <3>2. c \in Sending(q)
      <4>1. f[c] # <<>>
        BY <3>1
      <4> QED
        BY <2>1, <4>1 DEF Sends, Sending
    <3>3. out[c] \in Seq(Nat) /\ \E i \in 1..Len(out[c]) : out[c][i] = s
      BY <1>1, <2>2, <3>1, <3>2
    <3> QED
      BY <3>2, <3>3, ToSetIs
  <2>5. ASSUME NEW c \in Sending(q), NEW s \in ToSet(out[c])  PROVE s \in queue[q].flight
    <3>1. c \in Conns /\ out[c] \in Seq(Nat) /\ f[c] = out[c]
      BY <1>1, <1>2, <2>2
    <3>2. s \in Nat /\ \E i \in 1..Len(f[c]) : f[c][i] = s
      BY <2>5, <3>1, ToSetIs
    <3> QED
      BY <2>2, <3>1, <3>2 DEF Holds
  <2> QED
    BY <2>4, <2>5
<1>5. /\ queue[q].flight \cap queue[q].back = {} /\ queue[q].flight \cap queue[q].sent = {}
      /\ queue[q].back \cap queue[q].sent = {}
  BY <1>1 DEF QueueOK
<1> QED
  BY <1>3, <1>4, <1>5

LEMMA HandledFollows == QueueInv => NothingForgotten
  BY DEF QueueInv, QueueOK, NothingForgotten, Handled, Places

\* A queue and its log keep their shape, a fetch that waits is tried again, and
\* a send queue is never longer than one message above its limit
\* (CwxMqQueueHandler::fetchMq, onRedo).
THEOREM QueueTypes == Spec => []TypeOK
  BY QueueAlways, TypeFollows, PTL

\* A message of a queue is at one place, and what is in flight is in exactly
\* one send queue: no message is handed out twice at a time
\* (CwxMqQueue::getNextBinlog, CwxMqQueue::endSendMsg).
THEOREM AlwaysAtOnePlace == Spec => []EachAtOnePlace
  BY QueueAlways, PlaceFollows, PTL

\* However connections close and logs fail, a message that the cursor has
\* passed is being sent, given back or sent (CwxMqQueue::fetchNextBinlog).
THEOREM NothingEverForgotten == Spec => []NothingForgotten
  BY QueueAlways, HandledFollows, PTL

(***************************************************************************)
(* The queues and the sid counter.                                          *)
(***************************************************************************)
\* The sids that a log may make a queue start at again.
Reached(q) == ToSet(pos[q]) \cup Places(queue[q]) \cup {queue[q].start}

\* All of them are known, in the sense of MasterInv.
SidsBelow == Known(1) /\ \A q \in Queues : \A s \in Reached(q) : Known(s)

\* Where the sids that a queue reaches come from.
Origin(q, s) == s \in Reached(q) \/ s <= Newest(log) \/ s <= 1

LEMMA ReachedAre == QueueInv => \A q \in Queues : Reached(q) \in SUBSET Nat
<1> SUFFICES ASSUME QueueInv, NEW q \in Queues PROVE Reached(q) \in SUBSET Nat
  OBVIOUS
<1>1. queue[q] \in QueueType /\ pos[q] \in Seq(Nat)
  BY InvFacts DEF QueueInv, LogOK
<1> QED
  BY <1>1, ToSetIs DEF Reached, Places, QueueType

LEMMA ReachedSame ==
  ASSUME NEW q \in Queues, pos'[q] = pos[q], queue'[q] = queue[q], NEW s \in Reached(q)'
  PROVE  Origin(q, s)
<1>1. Reached(q)' = Reached(q)
  BY DEF Reached, Places
<1> QED
  BY <1>1 DEF Origin

LEMMA ReachedServe ==
  ASSUME QueueInv, NEW c, NEW k, NEW fromRedo, Serve(c, k, fromRedo),
         NEW q \in Queues, NEW s \in Reached(q)'
  PROVE  Origin(q, s)
<1>1. PICK r \in GetNext(QueueOf(k.name)) :
        /\ queue' = [p \in Queues |-> IF p = k.name THEN r.queue ELSE queue[p]]
        /\ pos' = pos
  BY DEF Serve
<1>2. CASE q # k.name
  BY <1>1, <1>2, ReachedSame
<1>3. CASE q = k.name
  <2>1. PICK t : t = queue[q] /\ QueueOK(t)
    BY InvFacts
  <2>2. r \in GetNext(t) /\ queue'[q] = r.queue /\ LogInv
    BY <1>1, <1>3, <2>1 DEF QueueOf, QueueInv
  <2>3. /\ r.queue.start = t.start /\ r.queue.sent = t.sent /\ r.queue.back \subseteq t.back
        /\ r.ret = "message" => /\ r.queue.flight = t.flight \cup {r.sid}
                                /\ r.sid \in t.back \/ r.sid <= Newest(log)
        /\ r.ret # "message" => r.queue.flight = t.flight
    BY <2>1, <2>2, GetNextOK
  <2>4. s \in ToSet(pos[q]) \/ s \in Places(r.queue) \/ s = r.queue.start
    BY <1>1, <2>2 DEF Reached, Places
  <2>5. ASSUME s \in Places(r.queue)  PROVE s \in Places(t) \/ s <= Newest(log)
    BY <2>3, <2>5 DEF Places
  <2> QED
    BY <2>1, <2>3, <2>4, <2>5 DEF Reached, Origin
<1> QED
  BY <1>2, <1>3

\* What a connection sends is in flight.
LEMMA SentIsInFlight ==
  ASSUME QueueInv, NEW c \in Conns, conn[c].name \in Queues, queue[conn[c].name].valid
  PROVE  ToSet(out[c]) \subseteq queue[conn[c].name].flight
<1>1. PICK n \in Queues : n = conn[c].name /\ queue[n].valid
  OBVIOUS
<1>2. PICK f : f = Sends(n)
  OBVIOUS
<1>3. f[c] = out[c] /\ Holds(f, queue[n].flight) /\ out[c] \in Seq(Nat)
  BY <1>1, <1>2, InvFacts DEF Sends, CarriedOK, QueueInv
<1>4. ASSUME NEW x \in ToSet(out[c])  PROVE x \in queue[n].flight
  BY <1>3, <1>4, ToSetIs DEF Holds
<1> QED
  BY <1>1, <1>4

LEMMA ReachedSent ==
  ASSUME QueueInv, NEW c \in Conns, OnEndSend(c) \/ Close(c),
         NEW q \in Queues, NEW s \in Reached(q)'
  PROVE  Origin(q, s)
<1>1. PICK name, ss, ok : /\ name = conn[c].name
                          /\ EndSendMsg(name, ss, ok)
                          /\ ss \in Seq(Nat) /\ ToSet(ss) \subseteq ToSet(out[c])
  <2>0. out[c] \in Seq(Nat)
    BY InvFacts
  <2>1. CASE OnEndSend(c)
    <3>1. EndSendMsg(conn[c].name, <<Head(out[c])>>, TRUE) /\ out[c] # <<>>
      BY <2>1 DEF OnEndSend
    <3>2. 1 \in 1..Len(out[c]) /\ Head(out[c]) = out[c][1] /\ Head(out[c]) \in Nat
      BY <2>0, <3>1, HeadTailProperties
    <3>3. <<Head(out[c])>> \in Seq(Nat) /\ ToSet(<<Head(out[c])>>) = {Head(out[c])}
      BY <3>2 DEF ToSet
    <3>4. Head(out[c]) \in ToSet(out[c])
      BY <2>0, <3>2, ToSetIs
    <3> QED
      BY <3>1, <3>3, <3>4
  <2>2. CASE Close(c)
    <3>1. EndSendMsg(conn[c].name, out[c], FALSE)
      BY <2>2 DEF Close
    <3> QED
      BY <2>0, <3>1
  <2> QED
    BY <2>1, <2>2
<1>2. name \in Queues /\ queue[name].valid => ToSet(ss) \subseteq queue[name].flight
  BY <1>1, SentIsInFlight
<1>3. /\ Places(queue'[q]) = Places(queue[q]) /\ queue'[q].start = queue[q].start
      /\ ToSet(pos'[q]) \subseteq ToSet(pos[q]) \cup Places(queue[q])
  <2>1. ss \in Seq(Nat) /\ EndSendMsg(name, ss, ok)
    BY <1>1
  <2> QED
    BY <1>2, <2>1, EndSendIs
<1>4. s \in ToSet(pos'[q]) \cup Places(queue'[q]) \cup {queue'[q].start}
  BY DEF Reached, Places
<1> QED
  BY <1>3, <1>4 DEF Reached, Origin

LEMMA ReachedChanged ==
  ASSUME QueueInv, NEW p \in Queues, CreateQueue(p) \/ DelQueue(p) \/ QueueTimeout(p),
         NEW q \in Queues, NEW s \in Reached(q)'
  PROVE  Origin(q, s)
<1>b. /\ LogInv /\ Shape
      /\ \A x \in Queues : LogOK(x)
  BY DEF QueueInv
<1>0. s \in ToSet(pos'[q]) \cup Places(queue'[q]) \cup {queue'[q].start}
  BY DEF Reached, Places
<1>1. CASE CreateQueue(p)
  <2>1. PICK e \in {Newest(log), 1} :
          queue' = [queue EXCEPT ![p] = NewQueue(e)] /\ pos' = [pos EXCEPT ![p] = <<e>>]
    BY <1>1 DEF CreateQueue
  <2>2. e \in Nat /\ Newest(log) \in Nat
    BY <1>b, LogTypes
  <2>3. CASE q = p
    <3>1. queue'[q] = NewQueue(e) /\ pos'[q] = <<e>>
      BY <1>b, <2>1, <2>3 DEF Shape
    <3>2. Places(NewQueue(e)) = {} /\ NewQueue(e).start = e
      BY <1>b, <2>2, NewQueueOK
    <3>3. ToSet(<<e>>) = {e}
      BY <2>2 DEF ToSet
    <3>4. s = e
      BY <1>0, <3>1, <3>2, <3>3
    <3> QED
      BY <2>2, <3>4 DEF Origin
  <2>4. CASE q # p
    BY <2>1, <2>4, <1>b, ReachedSame DEF Shape
  <2> QED
    BY <2>3, <2>4
<1>2. CASE DelQueue(p)
  <2>1. queue' = [queue EXCEPT ![p] = NoQueue] /\ pos' = [pos EXCEPT ![p] = <<>>]
    BY <1>2 DEF DelQueue
  <2>2. CASE q = p
    <3>1. queue'[q] = NoQueue /\ pos'[q] = <<>>
      BY <1>b, <2>1, <2>2 DEF Shape
    <3>2. Places(NoQueue) = {} /\ NoQueue.start = 0 /\ ToSet(<<>>) = {}
      BY DEF Places, NoQueue, ToSet
    <3>3. s = 0
      BY <1>0, <3>1, <3>2
    <3> QED
      BY <3>3 DEF Origin
  <2>3. CASE q # p
    BY <2>1, <2>3, <1>b, ReachedSame DEF Shape
  <2> QED
    BY <2>2, <2>3
<1>3. CASE QueueTimeout(p)
  <2>1. /\ queue' = queue /\ pos' = [pos EXCEPT ![p] = <<Last(pos[p])>>] /\ Len(pos[p]) > 1
    BY <1>3 DEF QueueTimeout
  <2>2. CASE q = p
    <3>1. pos[q] \in Seq(Nat) /\ Len(pos[q]) \in 1..Len(pos[q]) /\ pos'[q] = <<Last(pos[q])>>
      BY <1>b, <2>1, <2>2 DEF Shape, LogOK
    <3>2. Last(pos[q]) \in ToSet(pos[q])
      BY <3>1, ToSetIs DEF Last
    <3>3. ToSet(<<Last(pos[q])>>) = {Last(pos[q])}
      BY DEF ToSet
    <3>4. s \in Reached(q)
      BY <1>0, <2>1, <3>1, <3>2, <3>3 DEF Reached
    <3> QED
      BY <3>4 DEF Origin
  <2>3. CASE q # p
    BY <2>1, <2>3, <1>b, ReachedSame DEF Shape
  <2> QED
    BY <2>2, <2>3
<1> QED
  BY <1>1, <1>2, <1>3

LEMMA ReachedRestart ==
  ASSUME QueueInv, ServerDies \/ ServerMachineDies \/ ServerStarts,
         NEW q \in Queues, NEW s \in Reached(q)'
  PROVE  Origin(q, s)
<1>0. s \in ToSet(pos'[q]) \cup Places(queue'[q]) \cup {queue'[q].start}
  BY DEF Reached, Places
<1>n. Places(NoQueue) = {} /\ NoQueue.start = 0
  BY DEF Places, NoQueue
<1>1. CASE ServerDies \/ ServerMachineDies
  <2>1. Disconnected
    BY <1>1, LeftIs
  <2>2. PICK left : /\ Leaves(left)
                    /\ \A p \in Queues : left[p] \subseteq Nat /\ left[p] \subseteq
                         ToSet(pos[p]) \cup queue[p].sent \cup {queue[p].start}
    BY <1>1, LeftIs
  <2>3. ToSet(pos'[q]) \subseteq left[q]
    BY <2>2, LeavesIs
  <2>4. queue'[q] = NoQueue
    BY <2>1 DEF Disconnected
  <2>5. s = 0 \/ s \in ToSet(pos[q]) \cup queue[q].sent \cup {queue[q].start}
    BY <1>0, <1>n, <2>2, <2>3, <2>4
  <2> QED
    BY <2>5 DEF Origin, Reached, Places
<1>2. CASE ServerStarts
  <2>1. /\ pos' = pos
        /\ queue'[q] = IF pos[q] = <<>> THEN NoQueue ELSE NewQueue(Last(pos[q]))
    BY <1>2 DEF ServerStarts
  <2>2. CASE pos[q] = <<>>
    <3>1. s = 0 \/ s \in ToSet(pos[q])
      BY <1>0, <1>n, <2>1, <2>2
    <3> QED
      BY <3>1 DEF Origin, Reached
  <2>3. CASE pos[q] # <<>>
    <3>1. pos[q] \in Seq(Nat) /\ Len(pos[q]) \in 1..Len(pos[q]) /\ LogInv
      BY <2>3 DEF QueueInv, LogOK
    <3>2. Last(pos[q]) \in ToSet(pos[q]) /\ Last(pos[q]) \in Nat
      BY <3>1, ToSetIs DEF Last
    <3>3. PICK e \in Nat : e = Last(pos[q])
      BY <3>2
    <3>4. Places(NewQueue(e)) = {} /\ NewQueue(e).start = e
      BY <3>1, NewQueueOK
    <3>5. s \in ToSet(pos[q])
      BY <1>0, <2>1, <2>3, <3>2, <3>3, <3>4
    <3> QED
      BY <3>5 DEF Origin, Reached
  <2> QED
    BY <2>2, <2>3
<1> QED
  BY <1>1, <1>2

\* No step takes a queue to a sid that nothing had reached before.
LEMMA ReachedStep ==
  ASSUME QueueInv, [Next]_vars, NEW q \in Queues, NEW s \in Reached(q)'
  PROVE  Origin(q, s)
<1>1. CASE UNCHANGED queueVars \/ UNCHANGED vars
  BY <1>1, ReachedSame DEF queueVars, vars
<1>2. CASE Consume
  <2>1. ASSUME NEW c \in Conns, Redo(c)  PROVE Origin(q, s)
    BY <2>1, ReachedServe DEF Redo
  <2>2. ASSUME NEW c \in Conns, OnEndSend(c) \/ Close(c)  PROVE Origin(q, s)
    BY <2>2, ReachedSent
  <2>3. ASSUME NEW c \in Conns, NEW p \in Queues, NEW b \in BOOLEAN, Fetch(c, p, b)
        PROVE  Origin(q, s)
    BY <2>3, ReachedServe DEF Fetch
  <2>4. ASSUME NEW c \in Conns, NEW p \in Queues, FetchUnknown(c, p)  PROVE Origin(q, s)
    BY <2>4, ReachedSame DEF FetchUnknown
  <2>5. ASSUME NEW p \in Queues, CreateQueue(p) \/ DelQueue(p) \/ QueueTimeout(p)
        PROVE  Origin(q, s)
    BY <2>5, ReachedChanged
  <2> QED
    BY <1>2, <2>1, <2>2, <2>3, <2>4, <2>5 DEF Consume
<1>3. CASE ServerDies \/ ServerMachineDies \/ ServerStarts
  BY <1>3, ReachedRestart
<1> QED
  BY <1>1, <1>2, <1>3 DEF Next

\* Below a sid that is known, every one is.
LEMMA KnownBelow ==
  ASSUME LogInv, NEW s \in Nat, NEW t \in Nat, Known(t), s <= t
  PROVE  Known(s)
  BY LogTypes, FlushAssumption DEF Known

LEMMA SidsBelowStep ==
  ASSUME ~FirstMayFail
  PROVE  QueueInv /\ SyncedInv /\ SidsBelow /\ [Next]_vars => SidsBelow'
<1> SUFFICES ASSUME QueueInv, SyncedInv, SidsBelow, [Next]_vars PROVE SidsBelow'
  OBVIOUS
<1>1. [MasterNext]_masterVars /\ LogInv
  BY MasterStep DEF SyncedInv
<1>2. Known(1)'
  <2>1. PICK n \in Nat : n = 1
    OBVIOUS
  <2>2. Known(n)'
    BY <1>1, <2>1, KnownStep DEF SidsBelow
  <2> QED
    BY <2>1, <2>2 DEF Known
<1>3. QueueInv'
  BY QueueStep
<1>4. \A q \in Queues : Reached(q)' \subseteq Nat
  <2>1. QueueInv' => (\A q \in Queues : Reached(q) \in SUBSET Nat)'
    BY ReachedAre, PTL
  <2> QED
    BY <1>3, <2>1
<1>5. ASSUME NEW q \in Queues, NEW s \in Reached(q)'  PROVE Known(s)'
  <2>1. s \in Nat /\ Origin(q, s)
    BY <1>4, <1>5, ReachedStep
  <2>2. Known(s)
    <3>1. CASE s \in Reached(q)
      BY <3>1 DEF SidsBelow
    <3>2. CASE s <= Newest(log)
      <4>1. Newest(log) \in Nat /\ Known(Newest(log))
        BY LogTypes DEF SyncedInv
      <4> QED
        BY <1>1, <2>1, <3>2, <4>1, KnownBelow
    <3>3. CASE s <= 1
      BY <1>1, <2>1, <3>3, KnownBelow DEF SidsBelow
    <3> QED
      BY <2>1, <3>1, <3>2, <3>3 DEF Origin
  <2> QED
    BY <1>1, <2>1, <2>2, KnownStep
<1> QED
  BY <1>2, <1>5 DEF SidsBelow

LEMMA SidsNewFollows == QueueInv /\ MasterInv /\ SidsBelow => SidsAreNew
<1> SUFFICES ASSUME QueueInv, MasterInv, SidsBelow, up PROVE SidsAreNew
  BY DEF SidsAreNew
<1>1. seen <= curSid
  BY DEF MasterInv, Known
<1>2. ASSUME NEW q \in Queues, NEW i \in 1..LogFlush, i <= Len(pos[q])  PROVE pos[q][i] <= curSid
  <2>1. pos[q] \in Seq(Nat)
    BY DEF QueueInv, LogOK
  <2>2. i \in 1..Len(pos[q])
    BY <1>2, <2>1, QueueAssumption
  <2>3. pos[q][i] \in Reached(q)
    BY <2>1, <2>2, ToSetIs DEF Reached
  <2> QED
    BY <2>3 DEF SidsBelow, Known
<1> QED
  BY <1>1, <1>2 DEF SidsAreNew

LEMMA SidsBelowInit == Init => SidsBelow
<1> SUFFICES ASSUME Init PROVE SidsBelow
  OBVIOUS
<1>1. ~up /\ SyncedSid = 0 /\ SkipMax \in Nat
  BY FlushAssumption DEF Init, MasterInit, SyncedSid
<1>2. Known(0) /\ Known(1)
  BY <1>1 DEF Known
<1>3. ASSUME NEW q \in Queues  PROVE Reached(q) = {0}
  BY DEF Init, Reached, Places, NoQueue, ToSet
<1> QED
  BY <1>2, <1>3 DEF SidsBelow

\* Messages are new to everybody: neither a slave nor a source nor the log of a
\* queue has been at a sid above the counter, through any number of crashes,
\* when the first commit of each run comes to its end
\* (CwxMqApp::startBinLogMgr, CwxMqQueueMgr::init).
THEOREM SidsAlwaysNew ==
  ASSUME ~FirstMayFail
  PROVE  Spec => []SidsAreNew
<1>1. Init => QueueInv /\ MasterInv /\ SidsBelow
  BY QueueInit, SidsBelowInit, InitInv DEF Init
<1>2. QueueInv /\ MasterInv /\ SidsBelow /\ [Next]_vars => (QueueInv /\ MasterInv /\ SidsBelow)'
  <2>1. MasterInv /\ [Next]_vars => MasterInv'
    BY MasterStep, MasterInvStep
  <2>2. QueueInv /\ MasterInv /\ SidsBelow /\ [Next]_vars => SidsBelow'
    BY SidsBelowStep DEF MasterInv
  <2> QED
    BY <2>1, <2>2, QueueStep
<1> QED
  BY <1>1, <1>2, SidsNewFollows, PTL DEF Spec
=============================================================================
