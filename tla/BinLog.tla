------------------------------- MODULE BinLog -------------------------------
(***************************************************************************)
(* The binlog manager of the message queue server: class CwxBinLogMgr and   *)
(* the parts of CwxBinLogFile and CwxBinLogCursor it relies on              *)
(* (src/mq/common/CwxBinLogMgr.{h,inl,cpp}).                                *)
(*                                                                         *)
(* A binlog is a numbered list of files; only the newest, m_pCurBinlog, is  *)
(* appended to.  One thread appends and commits under the write lock; any   *)
(* number of threads move cursors under the read lock, so every operation   *)
(* is one atomic step.  A step of this module is one call, or one of its    *)
(* outcomes.  A crash may hit between calls and inside an append.           *)
(*                                                                         *)
(* Messages are identified by their sid.  Sizes, days and payloads are      *)
(* abstracted to the choice they drive: a record fits the current file, it  *)
(* needs the next one (file full, or first record of a new day), or it is   *)
(* larger than any file.                                                    *)
(***************************************************************************)
EXTENDS Integers, Sequences, FiniteSets

CONSTANTS
  Cursors,      \* the cursors that may be open at one time
  MaxSid,       \* bound: sids offered to append are 1..MaxSid
  MaxFile,      \* bound: file numbers are 1..MaxFile (START_FILE_NUM is 1)
  Cap,          \* a file never holds more than Cap records
  MaxFileNum,   \* m_uiMaxFileNum: files kept for want of a reason to drop them
  FlushNum,     \* m_uiFlushBinLogNum
  DelOut,       \* m_bDelOutManageLogFile: are unmanaged files removed?
  DiskMayFail,  \* may a write, a flush, an open or a read return an error?
  Oversize      \* may a record larger than a whole file be offered?

ASSUME BoundsAssumption ==
  /\ MaxSid \in Nat /\ MaxFile \in Nat \ {0} /\ Cap \in Nat \ {0}
  /\ MaxFileNum \in Nat \ {0} /\ FlushNum \in Nat \ {0}

ASSUME SwitchAssumption ==
  DelOut \in BOOLEAN /\ DiskMayFail \in BOOLEAN /\ Oversize \in BOOLEAN

VARIABLES
  status,     \* "up", "down" (before init) or "refused" (init failed)
  data,       \* data[f]: sids of the records of file f, in file order
  tail,       \* tail[f]: sid of a record header left behind the end of f by
              \*          a write that failed half way, 0 if there is none
  junk,       \* files with further bytes behind that, a header long or more
  synced,     \* synced[f]: how many records of f are known to be on the disk
  disk,       \* the files that exist
  managed,    \* the keys of m_binlogMap
  cur,        \* the file number of m_pCurBinlog, 0 for NULL
  minSid,     \* m_ullMinSid
  maxSid,     \* m_ullMaxSid
  valid,      \* m_bValid of the manager
  bad,        \* files whose CwxBinLogFile has m_bValid = false
  unflushed,  \* m_uiUnFlushBinlog
  cursor      \* m_cursorSet

fileVars == <<data, tail, junk, synced, disk>>
mgrVars  == <<managed, cur, minSid, maxSid, valid, bad, unflushed>>
vars     == <<status, fileVars, mgrVars, cursor>>

FileNos == 1..MaxFile
Sids    == 1..MaxSid

NoCursor == [st |-> "none", file |-> 0, at |-> 0, sid |-> 0, seek |-> 0]

CursorRecord ==
  [st   : {"none", "unseek", "ready", "error"},  \* CURSOR_STATE_*
   file : 0..MaxFile,                             \* m_uiFileNo
   at   : Nat,                                    \* record number in the file
   sid  : Nat,                                    \* sid of m_curLogHeader
   seek : Nat]                                    \* m_ullSeekSid

CursorType == {k \in CursorRecord : k.st = "ready" => k.file # 0}

(***************************************************************************)
(* Files.                                                                  *)
(***************************************************************************)
First(s) == IF s = <<>> THEN 0 ELSE s[1]
Newest_IsFirst(s) == First(s)
Newest(s) == IF s = <<>> THEN 0 ELSE s[Len(s)]

\* CwxBinLogFile::getMinSid and getMaxSid: both 0 in an empty file.
FileMin(f) == First(data[f])
FileMax(f) == Newest(data[f])

\* The sid of the header a cursor reads at record i of file f, 0 if it reads
\* none: records first, then a header a failed write left behind them.
SidAt(f, i) ==
  IF i \in 1..Len(data[f]) THEN data[f][i]
  ELSE IF i = Len(data[f]) + 1 THEN tail[f] ELSE 0

IsLeast(f, S) == f \in S /\ \A g \in S : f <= g

\* Mutant: the smallest sid is not looked up again after files are dropped.
MinOf_Stays(S) == minSid

\* getMinSid() of the first file in the map.
MinOf(S) ==
  IF \E f \in S : IsLeast(f, S) THEN FileMin(CHOOSE f \in S : IsLeast(f, S)) ELSE 0

(***************************************************************************)
(* Which files a new file pushes out of the map.                           *)
(***************************************************************************)
\* Mutants: the reader on the last record is forgotten; cursors that are not
\* placed are forgotten.
InUse_OffByOne(f) ==
  \E c \in Cursors :
    \/ cursor[c].st = "ready" /\ cursor[c].sid < FileMax(f)
    \/ cursor[c].st \in {"unseek", "error"} /\ cursor[c].seek <= FileMax(f)

InUse_ReadyOnly(f) ==
  \E c \in Cursors : cursor[c].st = "ready" /\ cursor[c].sid <= FileMax(f)

\* Some open cursor has not passed the last record of file f.  A cursor that
\* is not ready counts with the sid it wants to seek, broken ones included.
InUse(f) ==
  \E c \in Cursors :
    \/ cursor[c].st = "ready" /\ cursor[c].sid <= FileMax(f)
    \/ cursor[c].st \in {"unseek", "error"} /\ cursor[c].seek <= FileMax(f)

IsManaged(f, S) == Cardinality(S) <= MaxFileNum \/ InUse(f)

\* The pruning loop drops the lowest file until it meets a managed one.
Kept(S) == {f \in S : \E g \in S : g <= f /\ IsManaged(g, {h \in S : h >= g})}

\* The manager's view of the files: before an append, with a first file, and
\* after a rollover from layout p.
Here == [cur |-> cur, managed |-> managed, disk |-> disk, low |-> minSid]

FirstFile ==
  [cur |-> 1, managed |-> {1}, disk |-> disk \cup {1}, low |-> minSid]

Rolled(p) ==
  LET all  == p.managed \cup {p.cur + 1}
      keep == Kept(all)
  IN  [cur     |-> p.cur + 1,
       managed |-> keep,
       disk    |-> (p.disk \cup {p.cur + 1}) \ (IF DelOut THEN all \ keep ELSE {}),
       low     |-> MinOf(keep)]

CanRoll(p) == p.cur < MaxFile

\* Where a record that fits in some file may go.
Places ==
  IF cur = 0 THEN {FirstFile}
  ELSE (IF Len(data[cur]) < Cap THEN {Here} ELSE {})
         \cup (IF CanRoll(Here) THEN {Rolled(Here)} ELSE {})

\* Mutant: the file is closed without a sync.
SyncedAt_NoSync(p) == synced

\* setReadOnly() of the file left behind flushes and syncs it.
SyncedAt(p) ==
  [f \in FileNos |-> IF f = cur /\ p.cur # cur THEN Len(data[f]) ELSE synced[f]]

(***************************************************************************)
(* append().                                                               *)
(***************************************************************************)
\* Mutant: the test of the sid is forgotten.
Offered_AnySid(s, p) == \A f \in FileNos : tail[f] <= s

\* A sid is appended once: it must exceed m_ullMaxSid.  The callers offer sids
\* in increasing order and only offer the same sid again for the same message
\* (a slave whose write failed), which then takes the same place.
Offered(s, p) ==
  /\ s > maxSid
  /\ \A f \in FileNos : tail[f] <= s /\ (tail[f] = s => p.cur = f)

Place(p) ==
  /\ cur' = p.cur
  /\ managed' = p.managed
  /\ disk' = p.disk

\* The header of sid s overwrites what a failed write left behind the end of
\* the file.  The rest of a longer failed record may stick out behind it.
Overwrite(f, s, header) ==
  /\ tail' = [tail EXCEPT ![f] = header]
  /\ junk' \in {junk \ {f}} \cup (IF f \in junk \/ tail[f] \notin {0, s} THEN {junk \cup {f}} ELSE {})

\* Mutant: the flush comes one record late.
AutoCommit_Late(f, timeUp, flushOk) ==
  /\ unflushed' = IF unflushed > FlushNum \/ timeUp THEN 0 ELSE unflushed + 1
  /\ synced' = SyncedAt([cur |-> f])
  /\ bad' = bad

\* After the record is in file f: count it, and commit(true) when there are
\* more than FlushNum uncommitted records or the flush time is up.  The count
\* is reset before the flush is tried.
AutoCommit(f, timeUp, flushOk) ==
  LET left == SyncedAt([cur |-> f])
  IN  IF unflushed + 1 > FlushNum \/ timeUp
      THEN /\ unflushed' = 0
           /\ synced' = IF flushOk THEN [left EXCEPT ![f] = Len(data[f]) + 1] ELSE left
           /\ bad' = IF flushOk THEN bad ELSE bad \cup {f}
      ELSE /\ flushOk
           /\ unflushed' = unflushed + 1
           /\ synced' = left
           /\ bad' = bad

\* A successful _append.
AppendRecord(s) ==
  /\ status = "up" /\ valid
  /\ \E p \in Places, timeUp, flushOk \in BOOLEAN :
       /\ Offered(s, p)
       /\ p.cur \notin bad
       /\ DiskMayFail \/ flushOk
       /\ Place(p)
       /\ data' = [data EXCEPT ![p.cur] = Append(@, s)]
       /\ Overwrite(p.cur, s, 0)
       /\ minSid' = IF p.low = 0 THEN s ELSE p.low
       /\ maxSid' = s
       /\ AutoCommit(p.cur, timeUp, flushOk)
  /\ UNCHANGED <<status, valid, cursor>>

\* The two writes of a record are not atomic.  Cut short they leave nothing
\* that counts, or a complete header without all of its data.
CutShort(f, s) == UNCHANGED <<tail, junk>> \/ Overwrite(f, s, s)

\* CwxBinLogFile::append returns -1: a write failed, or the index cache could
\* not be flushed (the file, and with it the manager, becomes invalid).  The
\* rollover before it stays.
AppendFails(s) ==
  /\ status = "up" /\ valid
  /\ DiskMayFail
  /\ \E p \in Places :
       /\ Offered(s, p)
       /\ Place(p)
       /\ minSid' = p.low
       /\ synced' = SyncedAt(p)
       /\ IF p.cur \in bad
          THEN valid' = FALSE /\ UNCHANGED <<tail, junk, bad>>
          ELSE /\ CutShort(p.cur, s)
               /\ \/ valid' = TRUE /\ bad' = bad
                  \/ /\ tail'[p.cur] = s  \* both writes had succeeded
                     /\ valid' = FALSE
                     /\ bad' = bad \cup {p.cur}
  /\ UNCHANGED <<status, data, maxSid, unflushed, cursor>>

\* The next file, or the first one, cannot be created.
CreateFileFails(s) ==
  /\ status = "up" /\ valid
  /\ DiskMayFail
  /\ cur = 0 \/ s > maxSid
  /\ cur < MaxFile
  /\ valid' = FALSE
  /\ disk' \in {disk, disk \cup {cur + 1}}
  /\ UNCHANGED <<status, data, tail, junk, synced,
                 managed, cur, minSid, maxSid, bad, unflushed, cursor>>

\* A record larger than a file is refused by the current file (unless the new
\* day already opened one) and by the new one; the manager becomes invalid.
AppendOversize(s) ==
  /\ status = "up" /\ valid
  /\ Oversize
  /\ \E p \in Places \cup (IF cur = 0 THEN {} ELSE {Here}) :
       /\ Offered(s, p)
       /\ CanRoll(p)
       /\ LET q == Rolled(p) IN Place(q) /\ minSid' = q.low /\ synced' = SyncedAt(q)
  /\ valid' = FALSE
  /\ UNCHANGED <<status, data, tail, junk, maxSid, bad, unflushed, cursor>>

\* commit(), from the receiving thread's timeout or after the first message.
Commit ==
  /\ status = "up" /\ valid
  /\ cur # 0 /\ cur \notin bad
  /\ unflushed' = 0
  /\ synced' = [synced EXCEPT ![cur] = Len(data[cur])]
  /\ UNCHANGED <<status, data, tail, junk, disk,
                 managed, cur, minSid, maxSid, valid, bad, cursor>>

CommitFails ==
  /\ status = "up" /\ valid
  /\ DiskMayFail
  /\ cur # 0 /\ cur \notin bad
  /\ bad' = bad \cup {cur}
  /\ UNCHANGED <<status, fileVars, managed, cur, minSid, maxSid, valid, unflushed, cursor>>

(***************************************************************************)
(* Cursors.                                                                *)
(***************************************************************************)
Move(c, k) == cursor' = [cursor EXCEPT ![c] = k]

Break(c) == Move(c, [cursor[c] EXCEPT !.st = "error"])

CursorStep == UNCHANGED <<status, fileVars, mgrVars>>

\* createCurser(ullSid): the cursor is not placed yet.
CreateCursor(c, s) ==
  /\ status = "up"
  /\ cursor[c].st = "none"
  /\ Move(c, [NoCursor EXCEPT !.st = "unseek", !.seek = s])
  /\ CursorStep

DestroyCursor(c) ==
  /\ status = "up"
  /\ cursor[c].st # "none"
  /\ Move(c, NoCursor)
  /\ CursorStep

\* Mutant: a file whose last sid is s itself is taken.
SeekFile_OffByOne(s) ==
  IF s >= FileMin(cur) THEN cur
  ELSE CHOOSE f \in managed : IsLeast(f, {g \in managed : s <= FileMax(g)})

\* The file in which _seek looks for the first sid above s.
SeekFile(s) ==
  IF s >= FileMin(cur) \/ {f \in managed : s < FileMax(f)} = {} THEN cur
  ELSE CHOOSE f \in managed : IsLeast(f, {g \in managed : s < FileMax(g)})

SeekGoes(c) ==
  /\ status = "up" /\ valid
  /\ cursor[c].st = "unseek"
  /\ cur # 0 /\ cursor[c].seek < FileMax(cur)

\* seek() to the first record above the sid the cursor was created with.
Seek(c) ==
  /\ SeekGoes(c)
  /\ LET f == SeekFile(cursor[c].seek)
     IN  /\ f \notin bad
         /\ \E i \in 1..Len(data[f]) :
              /\ cursor[c].seek < data[f][i]
              /\ \A j \in 1..i-1 : data[f][j] <= cursor[c].seek
              /\ Move(c, [cursor[c] EXCEPT !.st = "ready", !.file = f, !.at = i, !.sid = data[f][i]])
  /\ CursorStep

\* The file is invalid or cannot be read.
SeekFails(c) ==
  /\ SeekGoes(c)
  /\ DiskMayFail
  /\ Break(c)
  /\ CursorStep

\* The message under the cursor is no longer one of the managed files'.
OutOfRange(c) == cursor[c].sid < minSid

\* next() is called: a second reader of the same cursor does not exist.
NextCalled(c) == status = "up" /\ valid /\ cursor[c].st = "ready"

\* Position the cursor on record i of file f, whatever stands there.
EnterAt(c, f, i) ==
  /\ SidAt(f, i) # 0
  /\ Move(c, [cursor[c] EXCEPT !.file = f, !.at = i, !.sid = SidAt(f, i)])
  /\ CursorStep

\* next() within the file.
NextInFile(c) ==
  /\ NextCalled(c) /\ ~OutOfRange(c)
  /\ EnterAt(c, cursor[c].file, cursor[c].at + 1)

AtFileEnd(c) ==
  /\ SidAt(cursor[c].file, cursor[c].at + 1) = 0
  /\ cursor[c].file \notin junk

\* Mutants: from a finished file straight to the newest; or nowhere.
Later_Newest(f) == {g \in {cur} : f < g}
Later_None(f) == {}

\* m_binlogMap.upper_bound(f)
Later(f) == {g \in managed : f < g}

\* next() at the end of a file goes to the start of the next one.
NextFile(c) ==
  /\ NextCalled(c) /\ ~OutOfRange(c)
  /\ AtFileEnd(c)
  /\ \E g \in FileNos : IsLeast(g, Later(cursor[c].file)) /\ g \notin bad /\ EnterAt(c, g, 1)

\* The next file is empty: next() gives up on the cursor.
NextFileEmpty(c) ==
  /\ NextCalled(c) /\ ~OutOfRange(c)
  /\ AtFileEnd(c)
  /\ \E g \in FileNos : IsLeast(g, Later(cursor[c].file)) /\ SidAt(g, 1) = 0
  /\ Break(c)
  /\ CursorStep

\* next() of a cursor whose record was pruned: back to the first file.
NextOutOfRange(c) ==
  /\ NextCalled(c) /\ OutOfRange(c)
  /\ \E g \in managed : IsLeast(g, managed) /\ g \notin bad /\ EnterAt(c, g, 1)

\* next() or fetch() cannot read the file, finds no header where the header it
\* holds says the next one is, or finds no data behind a header.
ReadFails(c) ==
  /\ NextCalled(c)
  /\ DiskMayFail
  /\ Break(c)
  /\ CursorStep

(***************************************************************************)
(* Crash and restart.                                                      *)
(***************************************************************************)
Forget ==
  /\ managed' = {} /\ cur' = 0 /\ minSid' = 0 /\ maxSid' = 0
  /\ valid' = FALSE /\ bad' = {} /\ unflushed' = 0
  /\ cursor' = [c \in Cursors |-> NoCursor]

\* A process or a machine dies.  Files in a set lost keep only their synced
\* records and some more; the others keep every byte written.  Older files are
\* synced, so one number for all files is enough.
Upto(s, n) == SubSeq(s, 1, IF n < Len(s) THEN n ELSE Len(s))

Dies(existing, safe, t) ==
  \E lost \in SUBSET {f \in existing : safe[f] < Len(data[f]) \/ t[f] # 0 \/ f \in junk},
     extra \in 0..Cap :
    /\ data' = [f \in FileNos |->
                  IF f \notin existing THEN <<>>
                  ELSE IF f \in lost THEN Upto(data[f], safe[f] + extra) ELSE data[f]]
    /\ synced' = [f \in FileNos |-> IF f \in existing THEN safe[f] ELSE 0]
    /\ tail' = [f \in FileNos |-> IF f \in existing \ lost THEN t[f] ELSE 0]
    /\ junk' = junk \cap (existing \ lost)
    /\ disk' = existing

Crash ==
  /\ status = "up" /\ status' = "down"
  /\ Dies(disk, synced, tail)
  /\ Forget

\* The append that was running had opened its file, and had perhaps written the
\* header of its record.  (Dying before the older files were dropped leaves an
\* empty file more than Crash does, which init() removes.)
CrashInAppend(s) ==
  /\ status = "up" /\ status' = "down"
  /\ valid
  /\ \E p \in Places, t \in {tail} \cup {[tail EXCEPT ![f] = s] : f \in FileNos} :
       /\ Offered(s, p)
       /\ \A f \in FileNos : t[f] # tail[f] => f = p.cur /\ f \notin bad
       /\ Dies(p.disk, SyncedAt(p), t)
  /\ Forget

\* What open() makes of a file: when the index does not match the file,
\* createIndex() counts every complete header and cuts or extends the file.
Content(f) == IF tail[f] # 0 THEN Append(data[f], tail[f]) ELSE data[f]

NonEmpty == {f \in disk : Content(f) # <<>>}

FilesInOrder ==
  \A f, g \in NonEmpty : f < g => Newest(Content(f)) < First(Content(g))

\* init(): open the files from the newest to the oldest, removing empty ones.
\* Bytes behind the end that are shorter than a header are cut off.
Recover ==
  /\ status = "down" /\ status' = "up"
  /\ FilesInOrder
  /\ data' = [f \in FileNos |-> Content(f)]
  /\ tail' = [f \in FileNos |-> 0]
  /\ junk' = {}
  /\ disk' = NonEmpty
  /\ managed' = NonEmpty
  /\ IF NonEmpty = {} THEN cur' = 0 /\ minSid' = 0 /\ maxSid' = 0
     ELSE \E lo, hi \in NonEmpty :
            /\ \A f \in NonEmpty : lo <= f /\ f <= hi
            /\ cur' = hi
            /\ minSid' = First(Content(lo))
            /\ maxSid' = Newest(Content(hi))
  /\ valid' = TRUE
  /\ UNCHANGED <<synced, bad, unflushed, cursor>>

\* init() fails: a file has bytes behind its last record that are long enough
\* for a header and are none, or two files overlap.
RefuseToStart ==
  /\ status = "down" /\ status' = "refused"
  /\ junk # {} \/ ~FilesInOrder
  /\ UNCHANGED <<fileVars, mgrVars, cursor>>

-----------------------------------------------------------------------------

Init ==
  /\ status = "down"
  /\ data = [f \in FileNos |-> <<>>]
  /\ tail = [f \in FileNos |-> 0]
  /\ synced = [f \in FileNos |-> 0]
  /\ junk = {} /\ disk = {} /\ managed = {} /\ bad = {}
  /\ cur = 0 /\ minSid = 0 /\ maxSid = 0
  /\ valid = FALSE /\ unflushed = 0
  /\ cursor = [c \in Cursors |-> NoCursor]

AppendCall(s) ==
  AppendRecord(s) \/ AppendFails(s) \/ CreateFileFails(s) \/ AppendOversize(s)

NextCall(c) ==
  NextInFile(c) \/ NextFile(c) \/ NextFileEmpty(c) \/ NextOutOfRange(c)

CursorCall(c) ==
  \/ DestroyCursor(c)
  \/ Seek(c) \/ SeekFails(c)
  \/ NextCall(c) \/ ReadFails(c)

Next ==
  \/ \E s \in Sids : AppendCall(s) \/ CrashInAppend(s)
  \/ Commit \/ CommitFails
  \/ \E c \in Cursors, s \in 0..MaxSid : CreateCursor(c, s)
  \/ \E c \in Cursors : CursorCall(c)
  \/ Crash \/ Recover \/ RefuseToStart

Spec == Init /\ [][Next]_vars

-----------------------------------------------------------------------------
(***************************************************************************)
(* Properties.                                                             *)
(***************************************************************************)
TypeOK ==
  /\ status \in {"up", "down", "refused"}
  /\ data \in [FileNos -> Seq(Sids)]
  /\ tail \in [FileNos -> 0..MaxSid]
  /\ synced \in [FileNos -> Nat]
  /\ junk \subseteq FileNos /\ disk \subseteq FileNos
  /\ managed \subseteq FileNos /\ bad \subseteq FileNos
  /\ cur \in 0..MaxFile
  /\ minSid \in 0..MaxSid /\ maxSid \in 0..MaxSid
  /\ valid \in BOOLEAN
  /\ unflushed \in 0..FlushNum
  /\ cursor \in [Cursors -> CursorType]

\* Sids grow strictly along the binlog: within a file, and from each file to
\* the next (the check of init() at CwxBinLogMgr.cpp:1240, kept by every append,
\* rollover, failed write, crash and restart).  A header that a failed write
\* left behind a file lies above that file and below the later ones.
Before(f, i, g, j) == f < g \/ (f = g /\ i < j)

SidsAscend ==
  \A f, g \in FileNos : \A i \in 1..Len(data[f]) + 1, j \in 1..Len(data[g]) + 1 :
    Before(f, i, g, j) /\ SidAt(f, i) # 0 /\ SidAt(g, j) # 0 => SidAt(f, i) < SidAt(g, j)

\* While the manager runs, m_ullMaxSid bounds every record, and is the last
\* record of the current file when that has any: the next sid accepted is
\* above all others, whatever failed before.
MaxSidIsNewest ==
  status = "up" =>
    /\ \A f \in FileNos : \A i \in 1..Len(data[f]) : data[f][i] <= maxSid
    /\ cur # 0 /\ data[cur] # <<>> => maxSid = FileMax(cur)

\* m_ullMinSid, kept up to date by hand at each rollover and first record, is
\* the first record of the oldest managed file (0 while that file is empty).
MinSidIsOldest ==
  status = "up" /\ cur # 0 =>
    \E f \in managed : IsLeast(f, managed) /\ minSid = FileMin(f)

\* init() accepts whatever the earlier run and its crash left on the disk.
RestartAccepted == status # "refused"

\* The assertion in _isOutRange: no cursor stands on a record that was pruned.
NoCursorOutOfRange ==
  \A c \in Cursors : NextCalled(c) => ~OutOfRange(c)

\* _seek never ends in "Sid[..] should be found, but not": the file it picks
\* holds a record above the sid, and all managed records up to that one are
\* not above it.
SeekFinds ==
  \A c \in Cursors : SeekGoes(c) =>
    LET f == SeekFile(cursor[c].seek)
    IN  /\ f \in managed
        /\ cursor[c].seek < FileMax(f)
        /\ \A g \in managed : g < f => FileMax(g) <= cursor[c].seek

\* The sids a reader can still be given.
Retained == UNION {{data[f][i] : i \in 1..Len(data[f])} : f \in managed}

\* How far a reader has come.
Position(c) == IF cursor[c].st = "ready" THEN cursor[c].sid ELSE cursor[c].seek

Moves(c) ==
  /\ cursor'[c].st = "ready"
  /\ cursor[c].st \in {"unseek", "ready"}
  /\ cursor'[c] # cursor[c]

\* A cursor goes from a message to the very next one: it never passes over a
\* message that is kept, never goes back and never stands still, across file
\* ends, prunings and concurrent appends.
NothingSkipped ==
  [][\A c \in Cursors : Moves(c) =>
       /\ Position(c) < Position(c)'
       /\ Position(c)' \in Retained
       /\ ~ \E s \in Retained : Position(c) < s /\ s < Position(c)']_vars

\* Pruning never drops a message that an open cursor has still to read, a
\* cursor that has not been placed or has failed included.
UnreadKept ==
  [][status = "up" /\ status' = "up" =>
       \A c \in Cursors : cursor[c].st # "none" =>
         \A s \in Retained \ Retained' : s < Position(c) \/ (s = Position(c) /\ cursor[c].st # "ready")]_vars

\* Only the current file has records that are not on the disk yet.
OlderFilesSynced ==
  \A f \in FileNos : f # cur /\ f \in managed /\ status = "up" => synced[f] = Len(data[f])

=============================================================================
