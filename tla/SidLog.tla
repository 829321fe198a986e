------------------------------- MODULE SidLog -------------------------------
(***************************************************************************)
(* The file in which a queue or a named source keeps its position: class    *)
(* CwxSidLogFile (src/mq/common/CwxSidLogFile.{h,cpp}).                      *)
(*                                                                         *)
(* The file has a head line with a sid and one line for every sid logged     *)
(* since; the last line counts.  Lines go through a stdio buffer.  After      *)
(* SWITCH_FILE_LOG_NUM lines save() replaces the file by one with a head      *)
(* only, over a .new and an .old file; prepare() puts things right after a    *)
(* crash in the middle.  Every call on a file is a step, because the process  *)
(* may die between any two.                                                  *)
(***************************************************************************)
EXTENDS Integers, Sequences, FiniteSets, SequencesExt

CONSTANTS
  MaxSid,        \* bound: sids are 1..MaxSid
  FlushRecord,   \* m_uiFlushRecord
  SwitchNum,     \* SWITCH_FILE_LOG_NUM
  StdioLines,    \* the lines that fit the stdio buffer of the file
  MaxLines,      \* bound: the lines of a file (crashes let it grow)
  CallsMayFail,  \* may open, write, rename or unlink return an error?
  Harsh          \* the worlds: in a harsh one fflush may fail too, and the
                 \* machine may die, not only the process

ASSUME BoundsAssumption ==
  /\ MaxSid \in Nat \ {0} /\ FlushRecord \in Nat \ {0}
  /\ SwitchNum \in Nat /\ StdioLines \in Nat \ {0}
  /\ MaxLines \in Nat

ASSUME SwitchAssumption == CallsMayFail \in BOOLEAN /\ Harsh \subseteq BOOLEAN

VARIABLES
  cur, old, new,  \* the three files
  pc,             \* what the process is doing
  maxSid,         \* m_ullMaxSid
  buf,            \* the lines in the stdio buffer of m_fd
  mine,           \* is the first of them the rest of the last line of cur?
  count,          \* m_uiCurLogCount
  total,          \* m_uiTotalLogCount
  harsh           \* the world of a behaviour

files == <<cur, old, new>>
mem   == <<maxSid, buf, mine, count, total>>
vars  == <<files, pc, mem, harsh>>

Sids == 1..MaxSid

Unread == -1   \* a line that is not read as a sid
NoHead == -1   \* the head of an empty file

Absent == [exists |-> FALSE, head |-> NoHead, lines |-> <<>>, whole |-> TRUE]
Empty  == [Absent EXCEPT !.exists = TRUE]

\* save() writes the head.
HeadOnly(s) == [Empty EXCEPT !.head = s]

\* What the beginning of a line reads like: no sid at all, or "sid=" with none,
\* some or all of the digits.
Torn(s) == {Unread, 0} \cup {p \in 1..s : \E k \in 0..MaxSid : p = s \div 10^k}

\* The lines that parseSid() accepts.
Readable(f) == {i \in 1..Len(f.lines) : f.lines[i] # Unread}

\* Mutant: the first readable line counts.
Position_First(f) == IF Readable(f) = {} THEN f.head ELSE f.lines[Min(Readable(f))]

\* load(): the last line that can be read, or the head; NoHead if the file
\* has no head.
Position(f) == IF Readable(f) = {} THEN f.head ELSE f.lines[Max(Readable(f))]

(***************************************************************************)
(* The stdio buffer.                                                       *)
(***************************************************************************)
\* The buffered lines go to the file.  If its last line has no end, the first
\* of them completes it (when it is its rest), or is lost in it.
Written(f) ==
  IF buf = <<>> \/ f.whole THEN [f EXCEPT !.lines = @ \o buf]
  ELSE [f EXCEPT !.whole = TRUE, !.lines = IF mine THEN Front(@) \o buf ELSE @ \o Tail(buf)]

Flush ==
  /\ cur' = Written(cur)
  /\ buf' = <<>> /\ mine' = FALSE

(***************************************************************************)
(* log(), timeout() and syncFile().                                        *)
(***************************************************************************)
Buffered(s) ==
  /\ Len(buf) < StdioLines
  /\ buf' = Append(buf, s)
  /\ UNCHANGED <<cur, mine>>

\* The buffer is full: it goes to the file, as a rule with the beginning of the
\* new line.
Spilled(s) ==
  /\ Len(buf) = StdioLines
  /\ buf' = <<s>>
  /\ \/ cur' = Written(cur) /\ mine' = FALSE
     \/ \E v \in Torn(s) :
          /\ cur' = [Written(cur) EXCEPT !.lines = Append(@, v), !.whole = FALSE]
          /\ mine' = TRUE

\* Mutant: one line too many before the flush.
MustFlush_Late(n) == n > FlushRecord

MustFlush(n) == n >= FlushRecord

\* Where log() goes on: the file is replaced when it has got too many lines.
Switch(n) == IF n > SwitchNum THEN "create" ELSE "open"

\* log(): the line is written and counted.
Log(s) ==
  /\ pc = "open"
  /\ Len(cur.lines) + Len(buf) < MaxLines
  /\ Buffered(s) \/ Spilled(s)
  /\ maxSid' = s
  /\ count' = count + 1 /\ total' = total + 1
  /\ pc' = IF MustFlush(count + 1) THEN "flush" ELSE Switch(total + 1)
  /\ UNCHANGED <<old, new>>

\* The result of fflush is ignored: when it fails the lines stay in the buffer
\* and are not counted any more.
FlushOrNot == Flush \/ (harsh /\ UNCHANGED <<cur, buf, mine>>)

\* log() calls syncFile().
FlushLogged ==
  /\ pc = "flush" /\ pc' = Switch(total)
  /\ FlushOrNot
  /\ count' = 0
  /\ UNCHANGED <<old, new, maxSid, total>>

\* timeout() and commit() call syncFile().
SyncFile ==
  /\ pc = "open" /\ count > 0
  /\ FlushOrNot
  /\ count' = 0
  /\ UNCHANGED <<old, new, pc, maxSid, total>>

\* The write of a full buffer fails; the log is closed.
LogFails ==
  /\ pc = "open" /\ Len(buf) = StdioLines
  /\ CallsMayFail
  /\ cur' \in {cur, Written(cur)}
  /\ buf' = <<>> /\ mine' = FALSE
  /\ pc' = "failed"
  /\ UNCHANGED <<old, new, maxSid, count, total>>

(***************************************************************************)
(* save().                                                                 *)
(***************************************************************************)
\* create(): a position is written for the first time.
Create(s) ==
  /\ pc = "none"
  /\ maxSid' = s
  /\ pc' = "create"
  /\ UNCHANGED <<files, buf, mine, count, total>>

\* The .new file is created, written and synced, the .old one removed.
CreateNew ==
  /\ pc = "create" /\ pc' = "write"
  /\ new' = Empty
  /\ UNCHANGED <<cur, old, mem>>

\* Mutant: what was written to the new file stays in its buffer.
WriteNew_Unflushed ==
  /\ pc = "write" /\ pc' = "rm_old"
  /\ UNCHANGED <<files, mem>>

WriteNew ==
  /\ pc = "write" /\ pc' = "rm_old"
  /\ new' = HeadOnly(maxSid)
  /\ UNCHANGED <<cur, old, mem>>

RemoveOld ==
  /\ pc = "rm_old" /\ pc' = "close"
  /\ old' = Absent
  /\ UNCHANGED <<cur, new, mem>>

CloseCurrent ==
  /\ pc = "close" /\ pc' = "move_cur"
  /\ Flush
  /\ UNCHANGED <<old, new, maxSid, count, total>>

MoveCurrent ==
  /\ pc = "move_cur" /\ pc' = "move_new"
  /\ old' = IF cur.exists THEN cur ELSE old
  /\ cur' = Absent
  /\ UNCHANGED <<new, mem>>

MoveNew ==
  /\ pc = "move_new" /\ pc' = "reopen"
  /\ cur' = new /\ new' = Absent
  /\ UNCHANGED <<old, mem>>

Reopen ==
  /\ pc = "reopen" /\ pc' = "open"
  /\ old' = Absent
  /\ count' = 0 /\ total' = 0
  /\ UNCHANGED <<cur, new, maxSid, buf, mine>>

\* One of these calls fails.  The current file is closed, with a flush if it
\* still was open, and the log is out of service.
SaveFails ==
  /\ CallsMayFail
  /\ pc \in {"create", "write", "rm_old", "move_cur", "move_new", "reopen"}
  /\ Flush
  /\ new' \in IF pc = "write" THEN {new, Empty} ELSE {new}
  /\ pc' = "failed"
  /\ UNCHANGED <<old, maxSid, count, total>>

(***************************************************************************)
(* load().                                                                 *)
(***************************************************************************)
\* Mutant: prepare() does not look for the other files.
Chosen_CurrentOnly == cur

\* The file that prepare() makes the current one.
Chosen == IF cur.exists THEN cur ELSE IF old.exists THEN old ELSE new

Load ==
  /\ pc = "down" /\ pc' = "clean_old"
  /\ cur' = IF Chosen.exists THEN Chosen ELSE Empty
  /\ old' = IF cur.exists THEN old ELSE Absent
  /\ new' = IF cur.exists \/ old.exists THEN new ELSE Absent
  /\ UNCHANGED mem

CleanOld ==
  /\ pc = "clean_old" /\ pc' = "clean_new"
  /\ old' = Absent
  /\ UNCHANGED <<cur, new, mem>>

CleanNew ==
  /\ pc = "clean_new" /\ pc' = "read"
  /\ new' = Absent
  /\ UNCHANGED <<cur, old, mem>>

Read ==
  /\ pc = "read" /\ cur.head # NoHead
  /\ pc' = "open"
  /\ maxSid' = Position(cur)
  /\ buf' = <<>> /\ mine' = FALSE
  /\ count' = 0
  /\ total' = Cardinality(Readable(cur))
  /\ UNCHANGED files

\* There is no head: load() returns 0.  The queue manager then removes the
\* file, the dispatch handler leaves it; either may create() it.
ReadNothing ==
  /\ pc = "read" /\ cur.head = NoHead
  /\ pc' = "none"
  /\ cur' \in {cur, Absent}
  /\ buf' = <<>> /\ mine' = FALSE /\ count' = 0 /\ total' = 0
  /\ UNCHANGED <<old, new, maxSid>>

(***************************************************************************)
(* removeFile(), after the destructor has closed the log of a queue that is  *)
(* deleted.                                                                *)
(***************************************************************************)
CloseToRemove ==
  /\ pc \in {"open", "failed"} /\ pc' = "del_cur"
  /\ Flush
  /\ UNCHANGED <<old, new, maxSid, count, total>>

RemoveCur ==
  /\ pc = "del_cur" /\ pc' = "del_old"
  /\ cur' = Absent
  /\ UNCHANGED <<old, new, mem>>

RemoveOldToo ==
  /\ pc = "del_old" /\ pc' = "del_new"
  /\ old' = Absent
  /\ UNCHANGED <<cur, new, mem>>

RemoveNew ==
  /\ pc = "del_new" /\ pc' = "none"
  /\ new' = Absent
  /\ maxSid' = 0 /\ count' = 0 /\ total' = 0
  /\ UNCHANGED <<cur, old, buf, mine>>

(***************************************************************************)
(* The end of the process.                                                 *)
(***************************************************************************)
Forget ==
  /\ pc' = "down"
  /\ maxSid' = 0 /\ buf' = <<>> /\ mine' = FALSE /\ count' = 0 /\ total' = 0

\* What a machine crash leaves of a file whose lines were never synced.
Remains(f) ==
  {f} \cup {[f EXCEPT !.lines = SubSeq(@, 1, n), !.whole = TRUE] : n \in 0..Len(f.lines)}

Crash ==
  /\ pc # "down"
  /\ cur' \in IF harsh THEN Remains(cur) ELSE {cur}
  /\ old' \in IF harsh THEN Remains(old) ELSE {old}
  /\ new' = new
  /\ Forget

\* The destructor flushes.
CleanStop ==
  /\ pc = "open"
  /\ cur' = Written(cur)
  /\ UNCHANGED <<old, new>>
  /\ Forget

Init ==
  /\ cur = Absent /\ old = Absent /\ new = Absent
  /\ pc = "down"
  /\ maxSid = 0 /\ buf = <<>> /\ mine = FALSE /\ count = 0 /\ total = 0
  /\ harsh \in Harsh

Save == CreateNew \/ WriteNew \/ RemoveOld \/ CloseCurrent \/ MoveCurrent \/ MoveNew \/ Reopen

RemoveStep == CloseToRemove \/ RemoveCur \/ RemoveOldToo \/ RemoveNew

LoadStep == Load \/ CleanOld \/ CleanNew \/ Read \/ ReadNothing

Next ==
  /\ \/ \E s \in Sids : Create(s) \/ Log(s)
     \/ FlushLogged \/ SyncFile \/ LogFails
     \/ Save \/ SaveFails \/ LoadStep \/ RemoveStep
     \/ Crash \/ CleanStop
  /\ UNCHANGED harsh

Spec == Init /\ [][Next]_vars

(***************************************************************************)
(* Properties.                                                             *)
(***************************************************************************)
File == [exists : BOOLEAN, head : Sids \cup {NoHead},
         lines : Seq(Sids \cup {0, Unread}), whole : BOOLEAN]

\* The type invariant; outside log() fewer than m_uiFlushRecord lines are counted
\* as not flushed, and a line is completed only when one was begun.
TypeOK ==
  /\ cur \in File /\ old \in File /\ new \in File
  /\ pc \in {"down", "clean_old", "clean_new", "read", "none", "open", "failed", "flush",
             "create", "write", "rm_old", "close", "move_cur", "move_new", "reopen",
             "del_cur", "del_old", "del_new"}
  /\ maxSid \in 0..MaxSid
  /\ buf \in Seq(Sids) /\ Len(buf) <= StdioLines
  /\ mine \in BOOLEAN /\ (mine => buf # <<>> /\ ~cur.whole)
  /\ count \in 0..FlushRecord /\ (pc = "open" => count < FlushRecord)
  /\ total \in Nat /\ harsh \in Harsh

\* The file that a load() would read now, and the position it would find, NoHead
\* for none.
There == IF cur.exists THEN cur ELSE IF old.exists THEN old ELSE new
Found == Position(There)

\* Once a position has been written one is found, wherever save() is
\* interrupted or fails, and whatever lines are lost, until the log is removed.
PositionStays == [][Found # NoHead => Found' # NoHead \/ RemoveStep]_vars

\* Unless the world is harsh, the position that would be found changes only to
\* the latest one logged: what a flush has written, a crash does not take back,
\* and no part of a line is taken for a position.
FlushedStays ==
  [][~harsh /\ Found # NoHead => Found' \in {Found, maxSid} \/ RemoveStep]_vars

\* The log is in service: it can be written, or load() is on its way.
Running == ~harsh /\ pc \notin {"down", "failed"}

\* The positions that a crash may leave: the one in the file and the lines that
\* wait in the buffer.
Candidates == IF harsh \/ Found = NoHead THEN <<>> ELSE <<Found>> \o buf

\* Unless the world is harsh, every behaviour is one of the position log.
Abs == INSTANCE PositionLog WITH
  Positions <- Sids, running <- Running, cand <- Candidates

ImplementsPositionLog == Abs!Spec
=============================================================================
