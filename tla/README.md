# Verification of cwinux-mq

TLA+ modules, TLC configurations and TLAPS proofs for the message queue server
`mq` and the distribution server `mc` of this repository. Everything is
translated from the C++ source; line numbers are in `PROJECT.json` ("map").

## The system

A **producer** sends messages to a *master* `mq` server. Its receive thread
gives each one a sid (a 64 bit number that grows by one) and appends it to the
**binlog**, a numbered list of append-only files with an index each. Three kinds
of readers move *cursors* over the binlog:

* **queues**: consumers fetch messages of a named queue; the position of the
  queue is kept in a **sid log** file;
* **dispatch sessions**: a slave `mq`, or an `mc` server, reports the sid it has
  and is sent what follows, over one or several connections, one message or one
  chunk of messages at a time;
* tools that print the files.

| component (source under `src/mq`) | state it keeps | operations | what makes it correct |
|---|---|---|---|
| binlog manager, `common/CwxBinLogMgr.*` | the file map, the current file, smallest and largest sid, validity, count of uncommitted records, open cursors; data and index files on the disk | init, append, commit, createCurser, seek, next, fetch, destoryCurser; rollover and pruning inside append | sids ascend, no reader skips or loses a message, a restart finds what was there |
| message formats, `common/CwxMqPoco.*`, `interface/c/lib/cwx_mq_poco.*` | none | a pack and a parse function for each kind of message, twice | what one library packs the other one reads |
| sid log, `common/CwxSidLogFile.*` | three file names (current, `.old`, `.new`), a stdio buffer, counters | create, load, log, timeout, syncFile, save, removeFile | a crash never loses the position, or moves it forward |
| queue manager and handler, `common/CwxMqQueueMgr.*`, `mq/CwxMqQueueHandler.*` | per queue: cursor, messages in flight, messages given back, sid log; per connection: queue, waiting flag | fetch, send end, send failure, redo, create and delete queue, timeout | each message is delivered and, after a failure or restart, delivered again |
| receive handler, `mq/CwxMqRecvHandler.*`, `mq/CwxMqApp.*` | the sid counter, the first-message flag | receive, commit, timeout, start | a sid is never used for two messages |
| dispatch handler, `mq/CwxMqDispHandler.*` | sessions: cursor, sequence number, connections, start sid | report, new connection, reply, redo, close | the stream a session sends is gap-free and in order |
| master handler of a slave, `mq/CwxMqMasterHandler.*` | session id, expected sequence number, messages that wait for their turn | connect, report, receive data or chunk, close, reconnect | the slave's binlog is a prefix of the master's |
| `mc` queue, `mc/CwxMcQueue*` | bounded in-memory queue with expiry | push, pop, timeout, fetch, redo, close | counters are true, only the oldest go, one answer for a fetch |
| `mc` synchronisation and store, `mc/CwxMcSyncHandler.*`, `mc/CwxMcStore.*`, `mc/CwxMcApp.*` | per host: session, messages that wait for their turn, acknowledgements that wait for the limit; files of stored messages | connect, report, receive, limit check, close, append, switch of files, removal of old ones | every message of each host is stored, in order; no file is overwritten |

Threads: the main reactor, one receive thread (the only one that appends), one
dispatch thread and one queue thread in `mq`; the main reactor, one queue thread
and one synchronisation thread per host in `mc`. They share the binlog manager,
behind a read/write lock, and nothing else that changes.

What is hard: readers and the writer interleave at rollover and pruning; a record
is written in two writes and its index through a cache; crashes may hit
between them; several connections of one session reorder chunks; a queue keeps
messages in flight that a crash forgets. `PROJECT.json` ("hazards") lists each
of these at its line.

## Modules

### The binlog (`BinLog`)

`BinLog` models `CwxBinLogMgr` with the parts of `CwxBinLogFile` and
`CwxBinLogCursor` it calls. One action is one call, or one outcome of it. The
appending thread holds the write lock and readers the read lock, so a call is
one step; the commit that `append()` makes is merged with it because the same
thread makes both and no reader can tell.

* `data[f]` is the sequence of sids in file *f*; `tail[f]` is the header a failed
  write left behind the end, `junk` says that more bytes of such a record follow;
  `synced[f]` counts the records that are on the disk for certain.
* `managed`, `cur`, `minSid`, `maxSid`, `valid`, `bad`, `unflushed` are
  `m_binlogMap`, `m_pCurBinlog`, `m_ullMinSid`, `m_ullMaxSid`, `m_bValid` of the
  manager and of the files, `m_uiUnFlushBinlog`. `cursor` is `m_cursorSet`.
* `AppendRecord`, `AppendFails`, `CreateFileFails` and `AppendOversize` are
  `append()`: the rollover before it, the pruning loop (`Rolled`, `Kept`,
  `InUse`), the write, the count and the automatic commit. `Commit`,
  `CommitFails`: `commit()`. `CreateCursor`, `DestroyCursor`, `Seek*`,
  `NextInFile`, `NextFile`, `NextFileEmpty`, `NextOutOfRange`, `ReadFails`: the
  cursor calls, with `seek()` and `next()` split by where they end.
* `Crash` and `CrashInAppend` lose any suffix of the records that are not synced
  and may leave half a record; `Recover` is `init()`, which rebuilds the index,
  drops empty files and checks the order of the others; `RefuseToStart` is its
  failure.

Sizes, days and payloads are abstracted to the choice they drive: a record fits,
needs the next file (full, or a new day), or is larger than any file.

Properties: `SidsAscend` (along files and over them), `MaxSidIsNewest`,
`MinSidIsOldest`, `SeekFinds` (the file `_seek` picks holds a record above the
sid), `NothingSkipped` (a step of a reader goes to the very next retained message),
`UnreadKept` (a rollover never drops a message an open reader is before),
`OlderFilesSynced`, `NoCursorOutOfRange` (the assertion in `_isOutRange`),
`RestartAccepted`.

### One file (`BinLogFile`)

`BinLogFile` is below `BinLog`: one data file with its index file, both sequences of
cells and entries. `AppendRecord` writes header and data and puts the entry into the write
cache (`cache`), which is flushed when it is full (`FlushIndex`); `Open` compares the last
entry with the length of the file and rebuilds the index from the headers (`CreateIndex`) when
they differ. `Upper`, `Lower` and `LastSidByNo` look in the cache or in the index file, by the
rounds (`Round`, `Probe`) of a binary search with unsigned bounds. A cursor
holds the header it stands on and the block it has read (`page`); `SeekStart`, `SeekTail`,
`SeekSid`, `CursorNext`, `CursorPrev` move it. `Crash` loses what is in memory, `MachineCrash`
also any part of the two files that was not synced.

Properties: `LookupsFind` (the look-ups agree with the data file), `KeptAreWhole` (an
accepted record that was kept is found with its data), `CursorReads` (page, header and the
chain of offsets agree with the file).

### The message formats (`MqPoco`)

Each `Send*` is one exchange: arguments, the pack function of one library, the parse function
of the receiver. A message is its type, the words of a sequence number and a function from keys to
values; what is abstracted is the key/value encoding, which is not in `src/`. `RoundTrip` says
that the receiver gets what was passed, or its default. `MCFormats` checks `BinLogFile` and
`MqPoco` side by side in one run.

### The abstract log (`MessageLog`, `BinLogRefinement`)

`MessageLog` is what the users of the log are promised: publish, drop the oldest
messages nobody is before, attach, read the next, detach, crash, reopen.
`BinLogRefinement` maps `BinLog` to it (`ImplementsMessageLog`): files, rollovers,
cursor states and the reconstruction at start are invisible. While the manager is down the
abstract log is what `init()` is going to find.

### Replication (`Replication`)

One master, one slave: `CwxMqDispHandler` with its session on the one side,
`CwxMqMasterHandler` on the other, and the connections between them as queues of
messages that may break. The master's binlog is a number that grows, the slave's a set
of sids that takes larger ones only. What was sent under a sequence number is the range of its sids.

* Actions of the slave: connect, report (`createSession`, `reportNewConn`), receive, put in order
  (`recvMsg`), save and acknowledge; a failed append; a close of one connection, which
  closes the session. Actions of the master: answer a report, add a connection, send one
  message or a chunk (`FirstToSend`, `Placed` are the seek to the reported sid and the `m_bNext` flag),
  take an acknowledgement, redo, close.
* `Joining` are the new connections a slave reports once it has its session: when one of them
  cannot be sent, the messages of the connections before it have gone out (`RecvReportReplyFails`).
  It takes three connections to see; the runs have two, the proofs any number.
* The list of messages whose turn has come is processed as the code does it, with
  both increments of the iterator (`repl_reorder`).

Properties: `NoGap`, `StreamContiguous`, `RepliesMatch`, `AckedIsStored`,
`NothingLostInSession`, `NeverRefused`, `WaitingBounded` and `CatchesUp`.

### The sid log (`SidLog`, `PositionLog`)

`SidLog` models `CwxSidLogFile` one file call at a time: `log()` and its flush, the eight
calls of `save()`, `removeFile()`, `load()` with `prepare()`, each of which may be the
last one before a crash, and all of which may fail. `cur`, `old`, `new` are the three
files with head and lines; `buf` is the stdio buffer, which writes itself out when it is
full, with the beginning of a line (`Torn`) as a rule. `PositionLog` is the abstraction:
a list of the positions that a crash may leave, oldest first. `SidLog` implements it
(`ImplementsPositionLog`) as long as `fflush` succeeds and what waits for a flush fits the buffer. The variable
`harsh` chooses a world in which they do not and the machine may die as well: there `PositionStays` still
holds, a log that was written is found again.

### The master (`MqMaster`) and its queues (`MqQueue`)

`MqMaster` is the receiving side: `CwxMqRecvHandler`, the sid counter of `CwxMqApp`, the
first commit of a run, the timeout, and the counter after a start. The binlog is the
sequence of its sids, of which `synced` are on the disk. `seen` is the largest sid that
the dispatch thread has sent. `NeverReused` says that the counter is never below it.

`MqQueue` extends it with the queues. `queue[q]` is a `CwxMqQueue` (cursor, `m_uncommitMap`,
`m_memMsgMap`) and the validity of its log; `pos[q]` is what `PositionLog` says of that log;
`conn[c]` is the connection's `CwxMqFetchConn` with the redo that is registered for it; `out[c]`
is its send queue. `Fetch`, `FetchUnknown`, `Redo`, `OnEndSend`, `Close`, `CreateQueue`, `DelQueue`
and `QueueTimeout` are the calls of the queue thread; `GetNext` and `EndSendMsg` are the
calls of the queue manager in them. Ghost fields (`start`, `from`, `sent`, `owed`) only serve the properties.

Properties: `SidsAreNew`, `EachAtOnePlace`, `NothingForgotten`, `WaitersAreServed`, and
`NothingPassedOver`, which the code violates.

Two assumptions are about the environment. Clients neither delete nor leave a queue while
one of its messages is on its way to them: the code asserts that such a message is found
(`CwxMqQueueMgr.cpp:90`) and frees it twice or not at all otherwise. With `FirstMayFail = FALSE` the
first commit of a run comes to its end: without that, a reader can have the first message,
the message can be lost, and the next run gives its sid away.

### The mc server (`McSync`, `McQueue`, `McStore`)

`McSync` is the session of one host (`CwxMcSyncSession`, `CwxMcSyncHandler`, the loop of
`CwxMcApp::syncThreadMain`) with the mq at the other end of its connections. `Receive` is `recvMessage`
of data: everything whose turn has come (`Ready`) is stored and acknowledged, or, beyond the limit of this
second, put into `replies` (`m_waitingReplyMsg`), which `CheckSyncLimit` sends. `ReceiveStops`
is a failure in the middle of that list or of a chunk. `CloseSession`, `CreateSession`, `SyncChange`,
`Restart` are the ends of a session and of the process. The mq (`MqReport`, `MqNewConn`, `MqReply`,
`MqRedo`) is the part of `CwxMqDispHandler` that a named source needs: `mq.logged` is its
position file. Of the mq's session only one thing is coarser than in `Replication`: it ends with
its first connection, in one step.

`McQueue` is the queue in memory, `CwxMcQueue`, as a set with the order of the code's `operator <`; hosts
that start (`FreshId`), push with clocks of their own and stop; and the clients'
handlers. `McStore` is the store: names of files from time and number, the switch by time
and size, the history from which old files are removed, the stdio buffer, a start that lists
the directory in any order. `MCMc` checks the three side by side in one run.

Properties: `AllInOrder`, `AllArrive`, `QueueAccounted`, `OldestGoFirst`, `AnsweredOnce`, `FilesKept`.

## Runs

| run | shows | bounds |
|---|---|---|
| `binlog_clean` | safety and retention with crashes and no failing disk call; `BinLog` implements `MessageLog`; readers come to every message | 2 readers, 4 sids, 3 files of 2 records, 1 file kept, flush after 2 records |
| `binlog_faults` | order, sid bound and seek when any disk call may fail | 1 reader, 3 sids, oversized records |
| `binlog_restart` | finding: the rest of an overwritten record stops the server from starting | 1 reader, 3 sids |
| `repl_single` | no gap, and the slave catches up | 1 connection, 2 sessions, 1 fault, 3 messages, chunks of 2 |
| `repl_multi` | the properties of a session under reordering, failing appends and faults | 2 connections, 2 sessions, 1 fault, 3 messages |
| `repl_reorder` | finding: a gap in the slave's binlog | 2 connections |
| `sidlog` | the sid log implements `PositionLog`; in the harsh world a position does not disappear | 3 sids, flush after 2 lines, switch after 2, buffer of 3 lines |
| `mq_service` | no message of a queue is lost or at two places; sids are new after crashes; a waiting fetch is answered | 2 consumers, 1 queue, margin 2, 1 message on a connection, 1 failing append between commits |
| `mq_first` | finding: the first message of a queue is passed over | 1 consumer, 1 queue |
| `formats` | look-ups, records and pages of a file agree with it after failing writes and crashes; every message is read as it was packed | 3 sids, records of 1 or 2 cells, cache of 2, blocks of 3; words below 4, 2 strings, 3 numbers |
| `mc` | every message of the mq is stored in order in the end; queue, clients and files keep what they promise | 2 connections, 3 sids, chunks of 2, 2 faults, limits 0 to 2; 3 pushed messages, 2 host numbers, 1 client; 4 stored messages |
| `mc_stale` | finding: an acknowledgement that outlives its session loses a message | 1 connection, 4 sids |

**Bounds.** Three files of two records and four sids reach: a full file, a rollover that
prunes, one that must not, a reader on the last record of a file that is dropped next, an
empty newest file after a crash, and a crash in an append into either. More sids only
repeat these. Two sessions are one that breaks and one that resumes; two connections reorder.
Four lines in a file are two switches. Three messages of a queue are one
that is passed over and two in flight at two consumers; `MaxSid` leaves room for a message after a
restart with a message left. The margin is the smallest the configuration allows
(`FlushNum + MaxFail`), so every sid of it is used. In `formats` a file
is full after three records, so the cache is flushed once and refilled, and a record crosses a block. In
`mc` a message of two bytes against limits of one and two bytes means that all acknowledgements or all but the
first of a second wait; two faults are a failure and a restart, or a session that breaks twice; two
host numbers are a host that leaves and comes back; the times of stored messages reach over four files and
the day limit. The session of the mc was also run with four sids when no acknowledgement outlives a session.
`MaxFile`, `MaxSid`, `MaxRecv`, `MaxFail`, `MaxOut`,
`MaxLines`, `MaxSession`, `MaxFault`, `MaxFaults`, `MaxItems`, `MaxId`, `MaxTime`, `MaxRecords`, `ChunkMax` (in bytes in the code) are bounds of the models and not of the code.

Runs with `CHECK_DEADLOCK FALSE` are those in which the program may stop for good: a
manager that refuses to start, messages that are all delivered.

**Fairness.** Only weak fairness of the calls that the program itself repeats:
`seek()`/`next()` of each reader in `binlog_clean` and the redo of a connection in `mq_service` (the
event loop calls registered handlers in every round, `regRedoHander`), the steps of master and slave
in `repl_single`; in `mc` the event loops of mq and mc, per connection, and the turns of
`syncThreadMain`, which closes, creates and checks the limit in every round, and time. Faults are not fair.

**Left out of `mc`.** `AllInOrder` fails when the process dies after a session has begun with acknowledgements of
the one before: `mc_stale` shows it, and `mc` has `DieAfterStale = FALSE` so that the property says
something about everything else.

## Proofs

Every theorem below holds for all values of the constants: any number of files, sids, readers, queues,
consumers, connections, hosts and crashes. "Assumes" names what a theorem needs beyond the `ASSUME`s of its module;
`PROJECT.json` ("theorems") says what each one means for the code.

| module | theorems | invariant | assumes |
|---|---|---|---|
| `BinLogProofs` | `TypeSafe` | `TypeOK` | |
| | `SidsAlwaysAscend`, `MaxSidAlwaysNewest` | `OrderInv` | |
| | `SeekAlwaysFinds`, `UnreadAlwaysKept` | `ShapeInv` | |
| | `RestartAlwaysAccepted`, `OlderFilesAlwaysSynced`, `MinSidAlwaysOldest`, `NeverOutOfRange`, `NothingEverSkipped` | `CleanInv` | `~DiskMayFail` |
| | `BinLogIsMessageLog` | `RefInv` | `~DiskMayFail` |
| `BinLogFileProofs` | `FileInvariant`, `LookupsAlwaysFind`, `KeptAlwaysWhole`, `CursorAlwaysReads` | `Inv` | |
| `ReplicationProofs` | `TypesHold`, `StreamsContiguous`, `AllRepliesMatch`, `AllAckedIsStored`, `NothingIsLostInSession`, `NoneIsRefused`, `WaitingIsBounded` | `ReplInv` | |
| | `NoGapOnOneConnection` | `ReplInv` | `NConn = 1` |
| `SidLogProofs` | `SidLogTypes`, `PositionAlwaysStays` | `LogInv` | |
| | `FlushedAlwaysStays`, `SidLogIsPositionLog` | `CalmInv` | `FlushRecord <= StdioLines` |
| `MqQueueProofs` | `SidsNeverReused` | `MasterInv` | `~FirstMayFail` |
| | `QueuesKeepMaster`, `QueueTypes`, `AlwaysAtOnePlace`, `NothingEverForgotten` | `QueueInv` | |
| | `SidsNewWithQueues`, `SidsAlwaysNew` | `SidsBelow` | `~FirstMayFail` |
| `McProofs` | `QueueAlwaysAccounted`, `AlwaysAnsweredOnce`, `OldestAlwaysGoFirst` | `QueueInv` | |
| | `FilesAlwaysKept` | `StoreInv` | |
| `McSyncProofs` | `SyncInvariant`, `StoredInOrderAlways`, `PositionNotAhead` | `Inv` | `~DieAfterStale` |
| `MqPocoProofs` | `AlwaysReadAsPacked` | none, each call is a step | |

Each proof has the same form: the initial states satisfy the invariant, a lemma for each action shows that it keeps
it, and the property follows from the invariant, or from one step out of it.

**Order of the binlog.** `SidsAscend` is not inductive: a record is appended above `maxSid`, so `maxSid` must bound
every record (`MaxSidIsNewest`); after a crash `maxSid` is read from the files again, and a header a
failed write has left becomes a record, so such a header must be above the records before it
(`NothingAhead`) and there must be none where a later file already holds records (`NothingElsewhere`).
`OrderInv` is the conjunction of these with `TypeOK`.

**Reading and retention.** `ShapeInv` adds that the current file is the last of the map (`CurIsLast`), from which a
seek finds a file and a rollover keeps what a reader stands in. `CleanInv` is for a disk whose calls succeed: there
is no rest of a failed write (`Tidy`), only the newest file has unsynced records (`SyncKnown`), a managed file is not empty
(`Filled`), `minSid` is the first sid (`MinKnown`), and a reader that is placed stands on a record of a file of the
map (`CursorsPlaced`). The hypothesis is needed: `binlog_restart` is the counterexample to `RestartAccepted` when calls fail, and a failed write
after a rollover breaks `NoCursorOutOfRange` (see the deviations).

**Refinement.** `BinLogIsMessageLog` shows that a step of the files is a step of `MessageLog` or a stutter: an append with its rollover is
a publish and a trim of messages nobody is before, a start is a reopen with what survived. `RefInv` adds that the
managed files exist, because a file that pruning deletes is found no more at the next start, one that it only leaves out is.

**Replication.** None of the properties is inductive alone, because each side acts on what the other one did some messages
ago. `ReplInv` says what is true in between:

* `StreamOK`: what a session has sent ascends without a gap from `start`, and its cursor, when it is placed, sends next what comes
  after that. This gives `StreamContiguous`.
* `LinkOK`: one thing at a time is on its way on a connection, in one direction. So an acknowledgement is alone, and of the
  number that was sent last there: `RepliesMatch`. `LedgerOK`: no number is the last one of two connections.
* `BeginOK`, `AcceptOK`: until the report is answered only the first connection is used, and the slave counts from zero.
* `NumbersOK`: each number the slave still expects was sent last on some connection, and is in that connection or waits; a
  connection whose next step is the master's has nothing that is expected. A waiting message thus holds a connection, and one more holds
  the message they all wait for: `NothingLostInSession` and `WaitingBounded`.
* `StoredOK`: what is acknowledged is stored, the report says how far the slave's binlog goes, and nothing in it is
  above what the session has gone through (`Reach`): `AckedIsStored` and `NeverRefused`.

All of it holds for any number of connections although the list of messages is processed with its second one passed over:
that one is not acknowledged, so its connection is silent from then on. What it breaks is `NoGap`, and `repl_reorder` is the
counterexample with two connections. With one the list never has a second message (`OnlyTurn`), and `OneOK` adds to the invariant that the
binlog ends where the session does, unless an append or an acknowledgement has failed and the session stands still (`Stalled`).

**The sid log.** `LogInv` says what each file can look like at each point of `save()` and `load()`. In it a
position once written is found again after any step, in any world. `CalmInv` is about a world in which `fflush` succeeds and
only the process dies: no file has part of a line, what waits in the buffer is no more than what is counted, and the files and the buffer
agree on the newest sid. `FlushRecord <= StdioLines` says that the lines counted for a flush fit the stdio buffer. A line
has at most 25 bytes, so 163 fit a buffer of 4096; the `mq.conf` files of the repository flush after each one, but the
configuration does not limit the number. The hypothesis is needed: with a flush after 4 lines and a buffer of 2, TLC finds that a spilled buffer ends in a part of a line
that is read as a position, which is the torn line among the deviations.

**The master.** `NeverReused` compares the counter with what readers have got;
after a crash the counter comes from the records that are left, so the invariant must bound how far
readers and counter may be ahead of the synced records: while the server runs, by the
records and failures that are counted (`Counted`); while it is down or has not
committed in this run, by the margin itself. `Known(s)` says that a sid somebody may have got is within these bounds, and
`MasterInv` that the newest record and what readers have seen are known. `FlushNum + MaxFail <= SkipMax` is exactly
what makes the first bound imply the second.

**Queues.** A server with queues implements the master (`QueuesKeepMaster`), so its result holds for it, too. `QueueInv`
says of each queue that its messages are in flight, given back or sent, in disjoint sets, at most at the cursor
(`QueueOK`); that the messages in flight are exactly those in the send queues of its connections, each once
(`CarriedOK`); and which positions its log may give after a crash (`LogOK`). `SidsBelow` extends `Known` to every sid a queue reaches.

**The mc server.** The counter of bytes is the number of elements of `Bytes(queue)`, so removing items subtracts theirs; the order
of the items has no ties (`Distinct`), because a host's number is new (`HostsOK`, `FreshIdIs`) and its sids ascend. `StoreInv` says that no
file has a name after the current time and number, which is why a new file never overwrites one, and that what is buffered
has a file. The invariants were checked with TLC on small instances before they were proved.

**The session of the mc.** `AllInOrder` speaks of what is stored, but what will be stored next is still under way. `Inv`
of `McSyncProofs` follows it back to the mq:

* `Chained`: the messages on the wires and those that wait for their turn are one chain, each beginning after the last
  sid of the one numbered before it, and the one whose turn it is begins where the mc has stored last (`Follows`). So the loop of
  `recvMessage`, which stores everything whose turn has come, stores a run without a gap (`InTurn`), wherever it stops.
* `GoesOn`: what the mq sends next goes on where that chain ends, which after a report is the newest sid the mc has stored.
* `ReportFirst`, `ClosedEmpty`: until the report has arrived nothing but refusals comes, and a closed session leaves
  nothing behind, so a number of one session is never taken for one of the next.
* `AcksTrue`: what is acknowledged, now or later beyond the limit, is stored; from this `PositionStored`: the position
  the mq logs, from which a mc that starts again is served, is not ahead of the store.

`stale` records that a session began with acknowledgements of the one before; these may count for messages that
were not stored. While the process lives the newest stored sid makes up for it, after a death it does not: hence
`~DieAfterStale`, and `mc_stale` is the counterexample without it.

**The messages.** A body is a join (`++`) of keys, and a parser reads it key by key. `AddKey` and its relatives say
what a key that is added changes for a reader: nothing but the value of that key. With them a lemma for each kind of message follows its pack and
its parse function (`RecvDataArrives` to `SyncErrArrives`). `Words` is the arithmetic of a sequence number: quotient and remainder by
`Half` give the number back.

**One file.** The search reads the index, the index was written from a cache, and after an `open` it may come from a rebuild; so
the properties follow from what is true of the two files at all times. `Inv` of `BinLogFileProofs` says:

* `HeadersOK`: the headers in the data file follow one another, their sids ascend, none lies within another record, and
  each leads back to the one before it, those a failed write has left included.
* `IndexOK`: the entries of the index file lie one behind the other (`Chain`), and each one within the data file stands
  for a record there. Beyond the end there may be some after the machine died: `open` finds them and rebuilds.
* `OpenOK`, `CacheOK`: in a file in use, index and cache together are the entries of its records up to `size`; nothing but the
  header of one failed write is behind that; count, bounds and the offset of the last record are those of the entries.
* `KeptOK`: an accepted record has its header and all of its data in the file. An index that ends
  where the file ends has every header of the file (`ChainHasAll`), and any other one is rebuilt from the headers.
* `CursorInv`: as long as no write has failed a placed cursor stands on a header and its page is a part of the file.

The scan of the file (`Scan`) and the binary search (`Searched`) are recursive functions. That they exist is proved first, from the
iterates of a step (`IteratesExist`), then that the scan visits each header once, in order (`ScanIs`, `ChainHasAll`): it gives
the entries of index and cache, which `LookupsFind` is about. `Searching` is the loop invariant of the search: what is below `lo` has smaller
sids, what is above `hi` larger ones, and each round leaves fewer entries. An entry needs two cells at least, so `Word > FullSize` is enough
for `lo + hi` not to wrap (`Halved`); `hi` is not decremented below zero, because only sids from `minSid` on are searched for.

**Only model-checked.** Liveness (`ReadersCatchUp`, `CatchesUp`, `WaitersAreServed`, `AllArrive`) is out of the
prover's reach. Every other property of a passing run is stated by a theorem.

## Deviations of the code that have no run

* `endSendMsg` logs the sid of a message that was given back unsent (`CwxMqQueueMgr.cpp:322`, against the
  comment at :94 that it is to be consumed again): after a restart it is not delivered.
* Consumers that confirm in another order than they fetched move the logged position back or ahead.
* `onRedo` clears `m_bWaiting` right after it has registered again (`CwxMqQueueHandler.cpp:50`), so the check
  that ignores a second fetch (:140) does not apply, and two messages are sent.
* `dealSyncData` of a slave: a failed append of the only message whose turn has come is taken for a success
  (`CwxMqMasterHandler.cpp:159`); the session stays open and stands still.
* A failed log of a queue keeps its messages in flight: `endSendMsg` returns before they are given back
  (`CwxMqQueueMgr.cpp:317`), and the queue serves nothing more.
* `onConnClosed` of a connection of an older session closes the one that is open (`CwxMqMasterHandler.cpp:115`).
* A first commit of a run that fails, or a death before it, lets the next run use its sid again (`CwxMqRecvHandler.cpp:118`).
* A torn line `sid=12` of `sid=123` in a sid log is read as a position (`CwxSidLogFile.cpp:69`).
* `syncFile` calls `fflush` only, though its comment speaks of the disk (`CwxSidLogFile.cpp:198`).
* The result of `fdatasync` is ignored (`CwxBinLogMgr.cpp:529`): a commit that failed counts as one.
* A failed first write of a rollover leaves a live cursor out of range, against the assertion in `_isOutRange` (`CwxBinLogMgr.inl:570`).
* A cursor's page serves the header of a failed write after it was overwritten (`CwxBinLogMgr.cpp:136`); `CursorReads`
  is therefore stated for files without a failed write.
* A record whose header was written and whose data was not becomes a message of zeros: `createIndex` reads headers
  only and then sets the length of the file.
* `lower()` of a sid that is in the write cache returns the record before it; the comment
  says "not larger than" (`CwxBinLogMgr.h:393`, :633). The definition `LowerFinds` states it.
* `getLastSidByNo(0)` returns without a sid; `trim` uses a header it has not read.
* The types of the queue messages are 100 to 103 in the C library and 101 to 104 in the servers
  (`TypesAgree`), and `CWX_MQ_MSG_TYPE_SYNC_DATA_REPLY` is defined twice in the library, as 8 and as 10.
* The C library returns success without a message when compression of a `RecvData` fails, `parse_fetch_mq` and
  `parse_create_queue` set the pointer instead of what it points to (`cwx_mq_poco.c:550`, :754), and the replies of
  create and delete always carry an error text.
* `isTimeout` of the mc's session compares with the time as if it were a period and is never true;
  `stopSync` uses an iterator after it was erased (`CwxMcApp.cpp:254`).
* A message popped from the mc's queue is lost when its answer cannot be sent (`CwxMcQueueHandler.cpp:217`).
* `onRedo` of the mc clears `m_bWaiting` whatever happens (`CwxMcQueueHandler.cpp:50`), so a second fetch is not ignored (:95).
* Several files of the newest start: the store remembers one under another's number, and one is
  not removed before the next start. Messages are acknowledged before `fflush`.

## Plan

1. Several hosts at once in `McSync`, with the shared queue.
2. A refinement from `BinLogFile` to the file level of `BinLog`; `prev` and `lower` over files.

## What is left out

In `BinLog` a crash loses a suffix of the unsynced records, never a part in the middle;
`BinLogFile` loses any end of data and index apart from each other. `prev`, `lower` and
`upper` over files, `trim` and the statistics calls are not used on the message path. In `BinLogFile` a
header takes one cell, so it never lies in two blocks that are read apart: the path of `CwxBinLogCursor::pread` over
several blocks (`CwxBinLogMgr.cpp:184-218`), the result -2 for a part of a header (:106-113) and the
reads of data through the same page (:76) do not occur. All of them change the page by `preadPage`
only, which is modelled. Timestamps of
binlog records, groups and payloads; authentication beyond its refusals, compression and signatures beyond
success and failure, monitoring, configuration, the connector, thread set up, the command line tools and the
PHP and Python clients keep no state of the protocol. A failing write of the mc's store and hosts that
fill one queue with several sessions at work are not modelled.
