------------------------------ MODULE McStore ------------------------------
(***************************************************************************)
(* The files in which the mc server stores the messages of a host: class      *)
(* CwxMcStore (src/mq/mc/CwxMcStore.{h,cpp}).                                 *)
(*                                                                         *)
(* A file is named after the time it begins, a multiple of the switch time,    *)
(* and a number among those of that time.  A new file is begun when a message  *)
(* is newer than the current file's end, when the file is full, and with the    *)
(* first message after a start.  Files that are too old are removed then.       *)
(* Messages go through the stdio buffer of the file.  A message is one unit of  *)
(* size; the time zone is 0.                                                  *)
(***************************************************************************)
EXTENDS Integers, FiniteSetsExt, Functions

CONSTANTS
  Times,        \* the time stamps of messages
  FileTime,     \* m_uiMaxFileSecond
  FileSize,     \* m_offMaxFileSize
  Day,          \* 24 * 3600
  ReserveDay,   \* m_uiReserveDay, 0: all files are kept
  FlushNum,     \* m_uiMaxUnflushLogNum, 0: no limit
  MaxRecords    \* bound: messages written, and failures to create a file

ASSUME StoreAssumption ==
  /\ {FileTime, FileSize, Day} \subseteq Nat \ {0}
  /\ {ReserveDay, FlushNum, MaxRecords} \subseteq Nat
  /\ Times \subseteq Nat /\ \A t \in Times : t >= FileTime

VARIABLES
  files,     \* files[<<start, seq>>]: the messages of the file on disk
  running,   \* is there a store object?
  open,      \* is a file open (m_fd)?
  cur,       \* start, seq, end: m_uiCurFileStartTime, ...Seq, ...EndTime;
             \* name: m_strCurFileName; size: m_offCurFileSize
  history,   \* m_historyFiles: the name under each time and number
  buffer,    \* the messages in the stdio buffer
  unflushed, \* m_uiCurUnflushLogNum
  calls      \* messages and failures so far

storeVars == <<files, running, open, cur, history, buffer, unflushed, calls>>

NoName == <<0, 0>>
Names  == DOMAIN files
NoFile == [start |-> 0, seq |-> 0, end |-> 0, name |-> NoName, size |-> 0]
NoFiles == [n \in {} |-> 0]

\* f with n mapped to v.
With(f, n, v) == [m \in DOMAIN f \cup {n} |-> IF m = n THEN v ELSE f[m]]

\* The files on disk when b buffered messages have been written.
Written(b) == IF b = 0 THEN files ELSE With(files, cur.name, files[cur.name] + b)

(***************************************************************************)
(* init()                                                                  *)
(***************************************************************************)
NewestStart == Max({n[1] : n \in Names})
NamesOf(start) == {n \in Names : n[1] = start}

\* Mutant: the number of the file listed last.
LoadedSeq_LastListed(name) == name[2]
\* The largest number among the files of the newest start.
LoadedSeq(name) == Max({n[2] : n \in NamesOf(name[1])})

\* Every file goes to the history.  Of several files of the newest start the
\* one that the directory lists last is opened, with the largest number.
LoadFiles ==
  /\ ~running /\ running' = TRUE
  /\ history' = IF ReserveDay = 0 THEN NoFiles ELSE [n \in Names |-> n]
  /\ IF Names = {} THEN open' = FALSE /\ cur' = NoFile
     ELSE /\ open' = TRUE
          /\ \E name \in NamesOf(NewestStart) :
               cur' = [start |-> NewestStart, seq |-> LoadedSeq(name), end |-> 0,
                       name |-> name, size |-> files[name]]
  /\ buffer' = 0 /\ unflushed' = 0
  /\ UNCHANGED <<files, calls>>

(***************************************************************************)
(* append()                                                                *)
(***************************************************************************)
IsCreateNewFile(t) == ~open \/ t > cur.end \/ cur.size + 1 > FileSize

\* createLogFile: the time is cut to a multiple of the switch time; a message
\* that is not newer than the current file's begin gets the next number.
NextFile(t) ==
  LET start == t - (t % FileTime)
      next  == IF start <= cur.start THEN <<cur.start, cur.seq + 1>> ELSE <<start, 0>>
  IN [start |-> next[1], seq |-> next[2], end |-> next[1] + FileTime, name |-> next, size |-> 0]

\* Mutant: a file counts as too old after m_uiReserveDay days, not more.
TooOld_Early(start, now) == (now - start) \div Day >= ReserveDay
TooOld(start, now) == (now - start) \div Day > ReserveDay

\* The file that was current is remembered by its time and number.
Remembered == IF ReserveDay = 0 THEN history ELSE With(history, <<cur.start, cur.seq>>, cur.name)

\* A whole message more in the buffer b, which is written out when flush() is
\* called after so many messages, or when stdio chooses.
Buffered(f, name, b, n) ==
  IF FlushNum > 0 /\ n >= FlushNum
  THEN /\ files' = With(f, name, f[name] + b) /\ buffer' = 0 /\ unflushed' = 0
  ELSE /\ \E w \in {0, b} : files' = With(f, name, f[name] + w) /\ buffer' = b - w
       /\ unflushed' = n

AppendHere(t) ==
  /\ running /\ calls < MaxRecords /\ ~IsCreateNewFile(t)
  /\ Buffered(files, cur.name, buffer + 1, unflushed + 1)
  /\ cur' = [cur EXCEPT !.size = @ + 1]
  /\ calls' = calls + 1
  /\ UNCHANGED <<running, open, history>>

\* The old file is flushed and closed, the new one is created empty whether or
\* not it exists, and the files of the history that are too old are removed.
AppendNew(t) ==
  /\ running /\ calls < MaxRecords /\ IsCreateNewFile(t)
  /\ LET new  == NextFile(t)
         gone == {k \in DOMAIN Remembered : TooOld(k[1], new.start)}
         left == With(Written(buffer), new.name, 0)
     IN /\ history' = Restrict(Remembered, DOMAIN Remembered \ gone)
        /\ Buffered(Restrict(left, DOMAIN left \ {Remembered[k] : k \in gone}), new.name, 1, 1)
        /\ cur' = [new EXCEPT !.size = 1]
  /\ open' = TRUE
  /\ calls' = calls + 1
  /\ UNCHANGED running

\* The new file cannot be created: the message is not stored.
CreateFails(t) ==
  /\ running /\ calls < MaxRecords /\ IsCreateNewFile(t)
  /\ files' = Written(buffer)
  /\ history' = Remembered
  /\ cur' = [NextFile(t) EXCEPT !.size = cur.size]
  /\ open' = FALSE /\ buffer' = 0 /\ unflushed' = IF open THEN 0 ELSE unflushed
  /\ calls' = calls + 1
  /\ UNCHANGED running

\* flush(), by the timeout or before the store is deleted.
Flush ==
  /\ files' = Written(buffer)
  /\ buffer' = 0 /\ unflushed' = 0

Timeout ==
  /\ running /\ open
  /\ Flush
  /\ UNCHANGED <<running, open, cur, history, calls>>

\* stopSync, or the end of the program.
Stop ==
  /\ running /\ running' = FALSE /\ open' = FALSE
  /\ Flush
  /\ cur' = NoFile /\ history' = NoFiles
  /\ UNCHANGED calls

\* The process dies with what is in the buffer.
Die ==
  /\ running /\ running' = FALSE /\ open' = FALSE
  /\ buffer' = 0 /\ unflushed' = 0
  /\ cur' = NoFile /\ history' = NoFiles
  /\ UNCHANGED <<files, calls>>

StoreInit ==
  /\ files = NoFiles /\ running = FALSE /\ open = FALSE
  /\ cur = NoFile /\ history = NoFiles /\ buffer = 0 /\ unflushed = 0 /\ calls = 0

StoreNext ==
  \/ LoadFiles \/ Timeout \/ Stop \/ Die
  \/ \E t \in Times : AppendHere(t) \/ AppendNew(t) \/ CreateFails(t)

StoreSpec == StoreInit /\ [][StoreNext]_storeVars

\* No file loses a message once it is on disk, and none is removed unless it
\* began more than the reserved days before the current one: over switches by
\* time and size, times that go back and starts that list the files in any
\* order.  Only messages that no flush() has covered are lost with the process.
FilesKept ==
  [][/\ \A n \in Names :
          \/ n \in DOMAIN files' /\ files'[n] >= files[n]
          \/ ReserveDay > 0 /\ (cur'.start - n[1]) \div Day > ReserveDay
     /\ buffer <= unflushed /\ (FlushNum > 0 => buffer < FlushNum)
    ]_storeVars
=============================================================================
