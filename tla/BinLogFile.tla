----------------------------- MODULE BinLogFile -----------------------------
(***************************************************************************)
(* One file of the binlog with its index file: classes CwxBinLogFile,        *)
(* CwxBinLogIndexWriteCache and CwxBinLogCursor                              *)
(* (src/mq/common/CwxBinLogMgr.{h,inl,cpp}), below the level of BinLog.       *)
(*                                                                         *)
(* The file is a sequence of cells.  The header of a record takes a cell and *)
(* its data takes some; an offset is a number of cells.  The index has an     *)
(* entry for every record, the newest of them in a write cache.  A cursor     *)
(* reads through a cached part of the file.                                  *)
(***************************************************************************)
EXTENDS Integers, Sequences, SequencesExt

CONSTANTS
  MaxSid,         \* bound: sids are 1..MaxSid
  Lens,           \* the lengths of the data of a record
  FullSize,       \* m_uiMaxFileSize - FREE_BINLOG_FILE_SIZE
  CacheNum,       \* BINLOG_WRITE_INDEX_CACHE_RECORD_NUM
  Block,          \* BINLOG_READ_BLOCK_SIZE
  Word,           \* CWX_UINT32 counts modulo Word
  RecordMayFail,  \* may the write of a record fail?
  IndexMayFail,   \* may the write of the index?
  MachineDies     \* may the machine die, and not only the process?

ASSUME FileAssumption ==
  /\ MaxSid \in Nat \ {0} /\ Lens \subseteq Nat \ {0}
  /\ FullSize \in Nat /\ CacheNum \in Nat \ {0} /\ Block \in Nat \ {0}
  /\ Word \in Nat /\ Word > FullSize
  /\ {RecordMayFail, IndexMayFail, MachineDies} \subseteq BOOLEAN

VARIABLES
  file,       \* the cells of the file
  index,      \* the entries of the index file
  torn,       \* does the index file end in a part of an entry?
  synced,     \* how much of the two files is on the disk for certain
  st,         \* "none" (no file yet), "closed", "open", "readonly" or "invalid"
  size,       \* m_uiFileSize
  num,        \* m_uiLogNum
  minSid,     \* m_ullMinSid
  maxSid,     \* m_ullMaxSid
  prevOff,    \* m_uiPrevLogOffset
  cache,      \* the entries in the write cache: m_indexBuf, m_indexSidMap
  cachePrev,  \* m_ullPrevIndexSid
  cacheMin,   \* m_ullMinIndexSid
  cursor,     \* a CwxBinLogCursor
  kept,       \* history: the entries of the accepted records that must stay
  dirty       \* history: has a write of a record failed since the file was opened?

disk  == <<file, index, torn, synced>>
bounds == <<size, num, minSid, maxSid, prevOff>>
wcache == <<cache, cachePrev, cacheMin>>
fileVars == <<disk, st, bounds, wcache, cursor, kept, dirty>>

Sids == 1..MaxSid

\* What the header of a record holds.  A cell of data, or one that ftruncate()
\* added, is no header of its place.
Header(s, n, o, l, p) == [sid |-> s, no |-> n, off |-> o, len |-> l, prev |-> p]
Data(s) == Header(s, 0, -1, 0, 0)
Zero == Header(0, 0, 0, 0, 0)

\* class CwxBinLogIndex.
Entry(h) == [sid |-> h.sid, off |-> h.off, len |-> h.len]
NoEntry == [sid |-> 0, off |-> 0, len |-> 0]
Failed  == [sid |-> -1, off |-> 0, len |-> 0]

End(e) == e.off + 1 + e.len

\* pwrite() of cells at an offset.
Over(f, o, cells) == SubSeq(f, 1, o) \o cells \o SubSeq(f, o + Len(cells) + 1, Len(f))

\* ftruncate().
Truncated(f, n) == [i \in 1..n |-> IF i <= Len(f) THEN f[i] ELSE Zero]

SyncedAll(f, i) == [file |-> Len(f), index |-> Len(i)]

(***************************************************************************)
(* open(): createIndex() and isRebuildIndex().                              *)
(***************************************************************************)
\* next() goes from one header to the next; it stands still at the end of the file
\* and fails at what is no header of its place.
IsHeader(f, o) == o < Len(f) /\ f[o + 1].off = o
Advance(f, o) == IF IsHeader(f, o) THEN End(f[o + 1]) ELSE o

\* Where n calls of next() lead from the beginning of the file.
Places(f) ==
  LET at[n \in Nat] == IF n = 0 THEN 0 ELSE Advance(f, at[n - 1])
  IN  at

Stop(f) ==
  CHOOSE n \in 0..Len(f) :
    ~IsHeader(f, Places(f)[n]) /\ \A k \in 0..n-1 : IsHeader(f, Places(f)[k])

\* The headers that next() of a new cursor goes through.
Scan(f) == [i \in 1..Stop(f) |-> f[Places(f)[i - 1] + 1]]

\* Does the scan end without an error?
Clean(f) == Places(f)[Stop(f)] >= Len(f)

Entries(headers) == [i \in 1..Len(headers) |-> Entry(headers[i])]

\* Mutant: a longer data file is not noticed.
IsRebuildIndex_Shorter == ~(~torn /\ index # <<>> /\ End(Last(index)) <= Len(file))

IsRebuildIndex == ~(~torn /\ index # <<>> /\ End(Last(index)) = Len(file))

\* The index file is made anew, and both files are cut to the readable records.
CreateIndex ==
  LET entries == Entries(Scan(file))
  IN  /\ Clean(file)
      /\ index' = entries
      /\ torn' = FALSE
      /\ file' = Truncated(file, IF entries = <<>> THEN 0 ELSE End(Last(entries)))

\* An error in the scan leaves what was written to the index until then.
CreateIndexFails ==
  /\ ~Clean(file)
  /\ index' = Over(index, 0, Entries(Scan(file)))
  /\ UNCHANGED <<file, torn>>

Opened(entries, fileSize, readOnly) ==
  /\ size' = fileSize
  /\ num' = Len(entries)
  /\ minSid' = IF entries = <<>> THEN 0 ELSE entries[1].sid
  /\ maxSid' = IF entries = <<>> THEN 0 ELSE Last(entries).sid
  /\ prevOff' = IF entries = <<>> THEN 0 ELSE Last(entries).off
  /\ cache' = <<>> /\ cachePrev' = maxSid' /\ cacheMin' = 0
  /\ st' = IF readOnly THEN "readonly" ELSE "open"
  /\ dirty' = FALSE
  /\ UNCHANGED <<synced, cursor, kept>>

\* prepareFile() makes the files agree before the bounds are read.
Open(readOnly) ==
  /\ st = "closed"
  /\ IF IsRebuildIndex THEN CreateIndex ELSE UNCHANGED <<file, index, torn>>
  /\ Opened(index', Len(file'), readOnly)

OpenFails ==
  /\ st = "closed"
  /\ IsRebuildIndex /\ CreateIndexFails
  /\ UNCHANGED <<synced, st, bounds, wcache, cursor, kept, dirty>>

\* mkBinlog() does not empty a file that has more than two headers.
MkBinlog ==
  /\ st = "none" /\ Len(file) <= 2
  /\ file' = <<>> /\ index' = <<>> /\ torn' = FALSE
  /\ Opened(<<>>, 0, FALSE)

(***************************************************************************)
(* append(), flush_cache(), fsync(), setReadOnly().                         *)
(***************************************************************************)
\* The new record with the first k cells of its data.
Record(s, l, k) == <<Header(s, num, size, l, prevOff)>> \o [i \in 1..k |-> Data(s)]

\* The manager passes on larger sids only, and only records that fit.
Offered(s, l) ==
  /\ st = "open"
  /\ s > maxSid
  /\ size + 1 + l < FullSize

\* Mutant: the sid before the cache is forgotten at a flush.
FlushIndex_Min ==
  /\ index' = index \o cache
  /\ cachePrev' = 0

\* The sids up to m_ullPrevIndexSid are in the index file.
FlushIndex ==
  /\ index' = index \o cache
  /\ cachePrev' = maxSid

CacheAppend(e) ==
  IF Len(cache) < CacheNum
  THEN /\ cache' = Append(cache, e)
       /\ cacheMin' = IF cacheMin = 0 THEN e.sid ELSE cacheMin
       /\ UNCHANGED <<index, cachePrev>>
  ELSE /\ FlushIndex
       /\ cache' = <<e>> /\ cacheMin' = e.sid

AppendRecord(s, l) ==
  LET record == Record(s, l, l)
      e == Entry(record[1])
  IN  /\ Offered(s, l)
      /\ file' = Over(file, size, record)
      /\ CacheAppend(e)
      /\ prevOff' = size /\ size' = End(e) /\ num' = num + 1
      /\ maxSid' = s /\ minSid' = IF num = 0 THEN s ELSE minSid
      /\ kept' = kept \cup {e}
      /\ UNCHANGED <<torn, synced, st, cursor, dirty>>

\* The header is written and the data is not, or in part only.  The bounds stay.
AppendFails(s, l) ==
  /\ RecordMayFail
  /\ Offered(s, l)
  /\ \E k \in 0..l-1 : file' = Over(file, size, Record(s, l, k))
  /\ dirty' = TRUE
  /\ UNCHANGED <<index, torn, synced, st, bounds, wcache, cursor, kept>>

\* A part of the cache is written.  The file is not used any more.
FlushIndexFails ==
  /\ IndexMayFail
  /\ \E n \in 0..Len(cache)-1 : index' = index \o SubSeq(cache, 1, n)
  /\ torn' \in BOOLEAN
  /\ st' = "invalid"

\* The record is in the file when its entry finds no room in the cache.
AppendFailsIndex(s, l) ==
  /\ Offered(s, l) /\ Len(cache) = CacheNum
  /\ file' = Over(file, size, Record(s, l, l))
  /\ FlushIndexFails
  /\ dirty' = TRUE
  /\ UNCHANGED <<synced, bounds, wcache, cursor, kept>>

FlushCache ==
  /\ st = "open" /\ cache # <<>>
  /\ FlushIndex
  /\ cache' = <<>> /\ cacheMin' = 0
  /\ UNCHANGED <<file, torn, synced, st, bounds, cursor, kept, dirty>>

FlushCacheFails ==
  /\ st = "open" /\ cache # <<>>
  /\ FlushIndexFails
  /\ UNCHANGED <<file, synced, bounds, wcache, cursor, kept, dirty>>

Fsync(all) ==
  /\ st = "open"
  /\ synced' = [file |-> Len(file), index |-> IF all THEN Len(index) ELSE synced.index]
  /\ UNCHANGED <<file, index, torn, st, bounds, wcache, cursor, kept, dirty>>

\* The cache is flushed, both files are synced, and the write cache is given up.
SetReadOnly ==
  /\ st = "open"
  /\ index' = index \o cache
  /\ synced' = SyncedAll(file, index')
  /\ cache' = <<>> /\ cachePrev' = 0 /\ cacheMin' = 0
  /\ st' = "readonly"
  /\ UNCHANGED <<file, torn, bounds, cursor, kept, dirty>>

(***************************************************************************)
(* upper(), lower() and getLastSidByNo().                                   *)
(***************************************************************************)
ReadIndex(i) == IF i < Len(index) THEN index[i + 1] ELSE Failed

\* A round of the binary search over the index file: lo and hi bound what is left,
\* at is the entry that was looked at last, or Word when it cannot be read.
Found(at) == [lo |-> 1, hi |-> 0, at |-> at]

Probe(s, p) ==
  LET mid == ((p.lo + p.hi) % Word) \div 2
      e   == ReadIndex(mid)
  IN  CASE p.hi < p.lo -> p
        [] p.hi >= p.lo /\ e = Failed -> Found(Word)
        [] p.hi >= p.lo /\ e # Failed /\ s = e.sid -> Found(mid)
        [] p.hi >= p.lo /\ e # Failed /\ s < e.sid -> [p EXCEPT !.hi = (mid - 1) % Word, !.at = mid]
        [] p.hi >= p.lo /\ e # Failed /\ s > e.sid -> [p EXCEPT !.lo = mid + 1, !.at = mid]

\* What is known after n rounds.
Round(s) ==
  LET after[n \in Nat] ==
        IF n = 0 THEN [lo |-> 0, hi |-> (num - 1 - Len(cache)) % Word, at |-> 0]
        ELSE Probe(s, after[n - 1])
  IN  after

\* A search that went on after as many rounds as there are entries would fail.
Searched(s) ==
  LET last == Round(s)[Len(index)]
  IN  IF last.hi < last.lo THEN last.at ELSE Word

\* The entry with the smallest sid above s in m_indexSidMap, and that with the
\* largest one below s.
Cached(s) ==
  CHOOSE e \in Range(cache) : e.sid > s /\ \A d \in Range(cache) : d.sid > s => e.sid <= d.sid

CachedBelow(s) ==
  CHOOSE e \in Range(cache) : e.sid < s /\ \A d \in Range(cache) : d.sid < s => d.sid <= e.sid

UpperInFile(s) ==
  IF s < minSid THEN ReadIndex(0)
  ELSE LET at == Searched(s)
       IN  CASE at = Word -> Failed
             [] at # Word /\ s >= ReadIndex(at).sid -> ReadIndex(at + 1)
             [] at # Word /\ s < ReadIndex(at).sid  -> ReadIndex(at)

\* The entry of the first record above s.
Upper(s) ==
  CASE num = 0 \/ s >= maxSid -> NoEntry
    [] num > 0 /\ s < maxSid /\ cache # <<>> /\ cachePrev <= s -> Cached(s)
    [] OTHER -> UpperInFile(s)

LowerInFile(s) ==
  IF s >= maxSid THEN ReadIndex(num - 1)
  ELSE LET at == Searched(s)
       IN  CASE at = Word -> Failed
             [] at # Word /\ s < ReadIndex(at).sid  -> ReadIndex((at - 1) % Word)
             [] at # Word /\ s >= ReadIndex(at).sid -> ReadIndex(at)

\* In the write cache the element before the first one that is not below s.
Lower(s) ==
  CASE num = 0 \/ s < minSid -> NoEntry
    [] num > 0 /\ s >= minSid /\ cache # <<>> /\ cacheMin < s -> CachedBelow(s)
    [] OTHER -> LowerInFile(s)

\* The sid of the n-th record from the end.
LastSidByNo(n) ==
  IF n <= Len(cache) THEN cache[Len(cache) - n + 1].sid ELSE ReadIndex(num - n).sid

(***************************************************************************)
(* The cursor.                                                             *)
(***************************************************************************)
NoCursor == [st |-> "none", head |-> Zero, block |-> 0, page |-> <<>>]
Fresh    == [NoCursor EXCEPT !.st = "unseek"]

\* Mutant: the rest of a page that was read in part is taken from its beginning.
Paged_Rest(c, b) ==
  LET have == IF c.block = b THEN c.page ELSE <<>>
      rest == (b + 1) * Block - Len(have)
  IN  have \o SubSeq(file, b * Block + 1, IF Len(file) < rest THEN Len(file) ELSE rest)

\* preadPage(): the block is read as far as the file goes; what is cached of it
\* already is not read again.
Paged(c, b) ==
  LET have == IF c.block = b THEN c.page ELSE <<>>
  IN  have \o SubSeq(file, b * Block + Len(have) + 1,
                     IF Len(file) < (b + 1) * Block THEN Len(file) ELSE (b + 1) * Block)

\* header(): the cursor stands on what is at the offset.  At the end of the file
\* its state stays.
At(c, o) ==
  LET b    == o \div Block
      i    == (o % Block) + 1
      page == IF c.block = b /\ i <= Len(c.page) THEN c.page ELSE Paged(c, b)
      read == [c EXCEPT !.block = b, !.page = page]
  IN  IF i > Len(page) THEN read
      ELSE [read EXCEPT !.head = page[i], !.st = IF page[i].off = o THEN "ready" ELSE "error"]

Readable == st \in {"open", "readonly"}

MoveTo(c) ==
  /\ cursor' = c
  /\ UNCHANGED <<disk, st, bounds, wcache, kept, dirty>>

SeekStart == Readable /\ MoveTo(At(Fresh, 0))

SeekTail == Readable /\ MoveTo(At(Fresh, prevOff))

SeekSid(s) ==
  /\ Readable
  /\ MoveTo(IF Upper(s).sid <= 0 THEN Fresh ELSE At(Fresh, Upper(s).off))

CursorNext ==
  /\ Readable /\ cursor.st \in {"unseek", "ready"}
  /\ MoveTo(At(cursor, IF cursor.st = "unseek" THEN 0 ELSE End(cursor.head)))

CursorPrev ==
  /\ Readable
  /\ \/ cursor.st = "unseek" /\ MoveTo(At(cursor, 0))
     \/ cursor.st = "ready" /\ cursor.head.off # 0 /\ MoveTo(At(cursor, cursor.head.prev))

CursorClose ==
  /\ cursor.st # "none" /\ MoveTo(NoCursor)

(***************************************************************************)
(* The end of the process.                                                 *)
(***************************************************************************)
Down ==
  /\ st' = "closed" /\ cursor' = NoCursor /\ dirty' = FALSE
  /\ size' = 0 /\ num' = 0 /\ minSid' = 0 /\ maxSid' = 0 /\ prevOff' = 0
  /\ cache' = <<>> /\ cachePrev' = 0 /\ cacheMin' = 0

\* close() of the destructor.
Close ==
  /\ st = "open"
  /\ index' = index \o cache
  /\ synced' = SyncedAll(file, index')
  /\ UNCHANGED <<file, torn, kept>>
  /\ Down

\* The process dies, between two calls or between the writes of a record.
Crash ==
  /\ st \in {"open", "readonly", "invalid"}
  /\ \/ file' = file
     \/ \E s \in Sids, l \in Lens : \E k \in 0..l :
          Offered(s, l) /\ file' = Over(file, size, Record(s, l, k))
  /\ UNCHANGED <<index, torn, synced, kept>>
  /\ Down

\* With the machine the ends of the files that were not synced may be lost.
MachineCrash ==
  /\ MachineDies
  /\ st # "none"
  /\ \E n \in synced.file..Len(file) : file' = SubSeq(file, 1, n)
  /\ \E n \in synced.index..Len(index) : index' = SubSeq(index, 1, n)
  /\ torn' \in BOOLEAN
  /\ synced' = SyncedAll(file', index')
  /\ kept' = {e \in kept : End(e) <= synced.file}
  /\ Down

FileInit ==
  /\ file = <<>> /\ index = <<>> /\ torn = FALSE
  /\ synced = [file |-> 0, index |-> 0]
  /\ st = "none"
  /\ size = 0 /\ num = 0 /\ minSid = 0 /\ maxSid = 0 /\ prevOff = 0
  /\ cache = <<>> /\ cachePrev = 0 /\ cacheMin = 0
  /\ cursor = NoCursor
  /\ kept = {} /\ dirty = FALSE

Write ==
  \/ \E s \in Sids, l \in Lens : AppendRecord(s, l) \/ AppendFails(s, l) \/ AppendFailsIndex(s, l)
  \/ FlushCache \/ FlushCacheFails \/ SetReadOnly
  \/ \E all \in BOOLEAN : Fsync(all)

Move ==
  \/ SeekStart \/ SeekTail \/ CursorNext \/ CursorPrev \/ CursorClose
  \/ \E s \in 0..MaxSid : SeekSid(s)

FileNext ==
  \/ MkBinlog \/ OpenFails \/ Close \/ Crash \/ MachineCrash
  \/ \E readOnly \in BOOLEAN : Open(readOnly)
  \/ Write \/ Move

FileSpec == FileInit /\ [][FileNext]_fileVars

(***************************************************************************)
(* Properties.                                                             *)
(***************************************************************************)
\* The records of the file: the headers up to m_uiFileSize.
Records == Scan(SubSeq(file, 1, size))

\* The first of the records above s, and the last of those that are not.
UpperFinds(records, s) ==
  LET above == {r \in Range(records) : r.sid > s}
  IN  IF above = {} THEN Upper(s) = NoEntry
      ELSE \E r \in above : Upper(s) = Entry(r) /\ \A d \in above : r.sid <= d.sid

LowerFindsAt(records, s) ==
  LET upto == {r \in Range(records) : r.sid <= s}
  IN  IF upto = {} THEN Lower(s) = NoEntry
      ELSE \E r \in upto : Lower(s) = Entry(r) /\ \A d \in upto : d.sid <= r.sid

\* What upper(), lower() and getLastSidByNo() find in the index file and its
\* cache is what the data file holds, whatever was cached, flushed, rebuilt or
\* lost.  (lower() of a sid that is in the write cache: see LowerFinds.)
LookupsFind ==
  Readable =>
    LET records == Records
    IN  /\ \A s \in 0..MaxSid : UpperFinds(records, s)
        /\ \A s \in 0..MaxSid \ {e.sid : e \in Range(cache)} : LowerFindsAt(records, s)
        /\ Len(records) = num
        /\ \A n \in 1..num : LastSidByNo(n) = records[num - n + 1].sid

\* An accepted record that was synced, or that only the process died after, is
\* found again with all of its data.
KeptAreWhole ==
  Readable =>
    \A e \in kept :
      /\ \E j \in 1..num : (index \o cache)[j] = e
      /\ \A k \in e.off+2..End(e) : file[k] = Data(e.sid)

\* As long as no write of a record failed, a cursor stands on a record, its page
\* holds what the file holds, and the offsets that prev() follows lead from each
\* record to the one before.
CursorReads ==
  Readable /\ ~dirty =>
    LET records == Records
    IN  /\ cursor.st # "error"
        /\ cursor.st = "ready" => cursor.head \in Range(records)
        /\ \A i \in 1..Len(cursor.page) : cursor.page[i] = file[cursor.block * Block + i]
        /\ \A i \in 2..Len(records) : records[i].prev = records[i - 1].off

\* lower() finds the last record that is not above s.
LowerFinds == Readable => LET records == Records IN \A s \in 0..MaxSid : LowerFindsAt(records, s)
=============================================================================
