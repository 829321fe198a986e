---------------------------- MODULE SidLogProofs ----------------------------
(***************************************************************************)
(* Proofs about the position file: wherever a step of save() or load() is     *)
(* interrupted, a position that was written is found again; and unless the    *)
(* world is harsh the file is a position log in the sense of module           *)
(* PositionLog.                                                             *)
(***************************************************************************)
EXTENDS SidLog, SequenceTheorems, FiniteSetTheorems, WellFoundedInduction, TLAPS

(***************************************************************************)
(* The invariant.                                                          *)
(***************************************************************************)
\* A file without a head has no lines.
FileOK(f) ==
  /\ f \in File
  /\ ~f.exists => f = Absent
  /\ f.head = NoHead => f.lines = <<>>

\* The .new file is written, and not the current one yet.
Saving == {"rm_old", "close", "move_cur", "move_new"}

\* The current file is open and may be behind its buffer.
Buffering == {"open", "flush", "create", "write", "rm_old", "close"}

\* Which files there are at each step of save(), load() and removeFile().
StageOK ==
  /\ pc \in {"open", "flush"} => cur.exists /\ cur.head # NoHead /\ old = Absent /\ new = Absent
  /\ pc \in {"clean_old", "clean_new", "read", "reopen"} => cur.exists
  /\ pc \in {"none", "read", "clean_new", "create", "write", "rm_old", "close", "move_cur"} =>
       old = Absent
  /\ pc \in {"none", "read", "create", "reopen"} => new = Absent
  /\ pc = "none" => cur.head = NoHead
  /\ pc = "write" => new = Empty
  /\ pc \in Saving => new = HeadOnly(maxSid)
  /\ pc = "move_new" => cur = Absent
  /\ pc = "reopen" => cur = HeadOnly(maxSid)
  /\ pc \in Saving \cup {"create", "write", "flush", "reopen"} => maxSid \in Sids
  /\ pc = "del_old" => cur = Absent
  /\ pc = "del_new" => cur = Absent /\ old = Absent

\* Lines wait only for a file that has a head.
BufOK == buf # <<>> => pc \in Buffering /\ cur.head # NoHead

FilesOK == FileOK(cur) /\ FileOK(old) /\ FileOK(new)

LogInv == TypeOK /\ FilesOK /\ StageOK /\ BufOK

(***************************************************************************)
(* Files.                                                                  *)
(***************************************************************************)
LEMMA MaxIs ==
  ASSUME NEW n \in Nat, NEW S \in SUBSET (1..n), S # {}
  PROVE  Max(S) \in S /\ \A s \in S : s <= Max(S)
<1> DEFINE R == {ss \in Nat \X Nat : ss[1] < ss[2]}
           T == {n - s : s \in S}
<1>1. IsWellFoundedOn(R, Nat)
  BY NatLessThanWellFounded DEF OpToRel
<1>2. T \in SUBSET Nat /\ T # {}
  <2>1. \A s \in S : s \in 1..n /\ n - s \in Nat
    OBVIOUS
  <2> QED
    BY <2>1
<1> HIDE DEF R
<1>3. PICK m \in T : \A s \in T : <<s, m>> \notin R
  BY <1>1, <1>2, WFMin
<1>4. PICK b \in S : m = n - b
  BY <1>3
<1>5. ASSUME NEW s \in S  PROVE s <= b
  <2>1. n - s \in T /\ n - s \in Nat /\ m \in Nat
    BY <1>2, <1>3
  <2>2. ~(n - s < m)
    BY <1>3, <2>1 DEF R
  <2>3. s \in 1..n /\ b \in 1..n
    OBVIOUS
  <2> HIDE DEF T
  <2> QED
    BY <1>4, <2>2, <2>3
<1> QED
  BY <1>5 DEF Max

\* The last line that can be read counts, or the head.
LEMMA PositionIs ==
  ASSUME NEW f, FileOK(f)
  PROVE  /\ Position(f) = NoHead <=> f.head = NoHead
         /\ f.lines = <<>> => Position(f) = f.head
         /\ f.head # NoHead => Position(f) \in 0..MaxSid
         /\ Cardinality(Readable(f)) \in Nat
<1>1. /\ f.lines \in Seq(Sids \cup {0, Unread}) /\ f.head \in Sids \cup {NoHead}
      /\ f.head = NoHead => f.lines = <<>>
  BY DEF FileOK, File
<1>2. Len(f.lines) \in Nat /\ \A i \in 1..Len(f.lines) : f.lines[i] \in Sids \cup {0, Unread}
  BY <1>1
<1>3. Readable(f) \in SUBSET (1..Len(f.lines)) /\ \A i \in Readable(f) : f.lines[i] # Unread
  BY DEF Readable
<1>4. Cardinality(Readable(f)) \in Nat
  <2>1. IsFiniteSet(1..Len(f.lines))
    BY <1>2, FS_Interval
  <2>2. IsFiniteSet(Readable(f))
    BY <1>3, <2>1, FS_Subset
  <2> QED
    BY <2>2, FS_CardinalityType
<1>5. CASE Readable(f) = {}
  <2>1. Position(f) = f.head
    BY <1>5 DEF Position
  <2> QED
    BY <1>1, <1>4, <2>1, BoundsAssumption DEF Sids, NoHead
<1>6. CASE Readable(f) # {}
  <2>1. PICK m : m = Max(Readable(f)) /\ m \in Readable(f)
    BY <1>2, <1>3, <1>6, MaxIs
  <2>2. Position(f) = f.lines[m]
    BY <1>6, <2>1 DEF Position
  <2>3. f.lines[m] \in Sids \cup {0} /\ f.lines # <<>>
    BY <1>2, <1>3, <2>1
  <2> QED
    BY <1>1, <1>4, <2>2, <2>3, BoundsAssumption DEF Sids, NoHead, Unread
<1> QED
  BY <1>5, <1>6

LEMMA KindsOK ==
  /\ FileOK(Absent) /\ FileOK(Empty) /\ \A s \in Sids : FileOK(HeadOnly(s))
  /\ ~Absent.exists /\ Absent.head = NoHead /\ Absent.whole
  /\ Empty.exists /\ Empty.head = NoHead /\ Empty.lines = <<>> /\ Empty.whole
  /\ \A s \in Sids : HeadOnly(s).exists /\ HeadOnly(s).head = s /\ HeadOnly(s).lines = <<>>
                     /\ HeadOnly(s).whole
<1>1. <<>> \in Seq(Sids \cup {0, Unread})
  OBVIOUS
<1>2. \A s \in Sids : s # NoHead
  BY BoundsAssumption DEF Sids, NoHead
<1>3. Absent \in File /\ Empty \in File /\ \A s \in Sids : HeadOnly(s) \in File
  BY <1>1 DEF Absent, Empty, HeadOnly, File
<1> QED
  BY <1>2, <1>3 DEF Absent, Empty, HeadOnly, FileOK

LEMMA FrontIs ==
  ASSUME NEW D, NEW s \in Seq(D), s # <<>>
  PROVE  Front(s) \in Seq(D) /\ Tail(s) \in Seq(D)
<1>1. Len(s) \in Nat \ {0} /\ \A i \in 1..(Len(s) - 1) : s[i] \in D
  OBVIOUS
<1>2. SubSeq(s, 1, Len(s) - 1) \in Seq(D)
  BY <1>1, SubSeqProperties
<1> QED
  BY <1>2, HeadTailProperties DEF Front

\* Writing the buffer to the file leaves its head alone.
LEMMA WrittenIs ==
  ASSUME LogInv
  PROVE  /\ FileOK(Written(cur)) /\ Written(cur).exists = cur.exists
         /\ Written(cur).head = cur.head
         /\ buf = <<>> => Written(cur) = cur
         /\ cur.whole => Written(cur) = [cur EXCEPT !.lines = @ \o buf] /\ Written(cur).whole
         /\ buf # <<>> => Written(cur).whole
<1>L. PICK L : L = Sids \cup {0, Unread}
  OBVIOUS
<1>1. /\ FileOK(cur) /\ cur \in File /\ cur.lines \in Seq(L) /\ buf \in Seq(L) /\ buf \in Seq(Sids)
      /\ buf # <<>> => cur.head # NoHead
      /\ mine \in BOOLEAN /\ cur.whole \in BOOLEAN
  <2>1. FileOK(cur) /\ cur \in File /\ buf \in Seq(Sids) /\ mine \in BOOLEAN
    BY DEF LogInv, FilesOK, FileOK, TypeOK
  <2>2. Sids \subseteq L
    BY <1>L
  <2> QED
    BY <1>L, <2>1, <2>2 DEF LogInv, BufOK, File
<1>2. CASE buf = <<>>
  <2>1. cur.lines \o buf = cur.lines
    BY <1>1, <1>2
  <2>2. Written(cur) = [cur EXCEPT !.lines = cur.lines]
    BY <1>2, <2>1 DEF Written
  <2>3. Written(cur) = cur
    BY <1>L, <1>1, <2>2 DEF File
  <2> QED
    BY <1>1, <1>2, <2>1, <2>2, <2>3
<1>3. CASE buf # <<>>
  <2>1. cur.head # NoHead /\ cur.exists
    BY <1>1, <1>3 DEF FileOK, Absent
  <2>2. PICK t \in Seq(L), w \in BOOLEAN :
          /\ Written(cur) = [cur EXCEPT !.lines = t, !.whole = w] /\ w
    <3>1. CASE cur.whole
      <4>0. cur.lines \o buf \in Seq(L)
        BY <1>1
      <4>1. PICK t \in Seq(L) : t = cur.lines \o buf
        BY <4>0
      <4>2. Written(cur) = [cur EXCEPT !.lines = t, !.whole = TRUE]
        BY <1>1, <3>1, <4>1 DEF Written, File
      <4> QED
        BY <4>2
    <3>2. CASE ~cur.whole /\ mine
      <4>1. Front(cur.lines) \o buf \in Seq(L)
        <5>1. CASE cur.lines = <<>>
          <6>1. Front(cur.lines) = <<>>
            BY <5>1 DEF Front
          <6> QED
            BY <1>1, <6>1
        <5>2. CASE cur.lines # <<>>
          BY <1>1, <5>2, FrontIs
        <5> QED
          BY <5>1, <5>2
      <4>2. PICK t \in Seq(L) : t = Front(cur.lines) \o buf
        BY <4>1
      <4>3. Written(cur) = [cur EXCEPT !.lines = t, !.whole = TRUE]
        BY <1>1, <1>3, <3>2, <4>2 DEF Written, File
      <4> QED
        BY <4>3
    <3>3. CASE ~cur.whole /\ ~mine
      <4>1. cur.lines \o Tail(buf) \in Seq(L)
        BY <1>1, <1>3, FrontIs
      <4>2. PICK t \in Seq(L) : t = cur.lines \o Tail(buf)
        BY <4>1
      <4>3. Written(cur) = [cur EXCEPT !.lines = t, !.whole = TRUE]
        BY <1>1, <1>3, <3>3, <4>2 DEF Written, File
      <4> QED
        BY <4>3
    <3> QED
      BY <3>1, <3>2, <3>3
  <2>3. /\ Written(cur) \in File /\ Written(cur).head = cur.head /\ Written(cur).exists = cur.exists
        /\ Written(cur).whole
    BY <1>L, <1>1, <2>2 DEF File
  <2>4. cur.whole => Written(cur) = [cur EXCEPT !.lines = @ \o buf]
    BY DEF Written
  <2> QED
    BY <1>3, <2>1, <2>3, <2>4 DEF FileOK
<1> QED
  BY <1>2, <1>3

LEMMA IsFile == \A f : FileOK(f) => f \in File
  BY DEF FileOK

\* The invariant in a form that the steps can use.
LEMMA Facts ==
  ASSUME LogInv
  PROVE  /\ FileOK(cur) /\ FileOK(old) /\ FileOK(new)
         /\ maxSid \in 0..MaxSid /\ mine \in BOOLEAN /\ (mine => buf # <<>> /\ ~cur.whole)
         /\ buf \in Seq(Sids) /\ Len(buf) \in Nat /\ Len(buf) <= StdioLines
         /\ count \in 0..FlushRecord /\ (pc = "open" => count < FlushRecord)
         /\ total \in Nat /\ harsh \in Harsh
         /\ MaxSid \in Nat \ {0} /\ FlushRecord \in Nat \ {0} /\ StdioLines \in Nat \ {0}
         /\ SwitchNum \in Nat
  BY BoundsAssumption DEF LogInv, FilesOK, TypeOK

\* The lines are written, and the step of the process is another one.
LEMMA FlushFacts ==
  ASSUME LogInv, Flush
  PROVE  /\ cur' = Written(cur) /\ FileOK(cur') /\ cur'.head = cur.head /\ cur'.exists = cur.exists
         /\ buf' = <<>> /\ mine' = FALSE /\ buf' \in Seq(Sids) /\ Len(buf') = 0
         /\ buf = <<>> => cur' = cur
  BY WrittenIs DEF Flush

\* Nothing waits any more.
LEMMA EmptyBuf ==
  ASSUME buf' = <<>>, mine' = FALSE
  PROVE  /\ buf' \in Seq(Sids) /\ Len(buf') <= StdioLines
         /\ mine' \in BOOLEAN /\ (mine' => buf' # <<>> /\ ~cur'.whole)
         /\ BufOK'
<1>1. <<>> \in Seq(Sids) /\ Len(<<>>) <= StdioLines
  BY BoundsAssumption
<1>2. BufOK'
  BY DEF BufOK
<1>3. mine' \in BOOLEAN /\ (mine' => buf' # <<>> /\ ~cur'.whole)
  OBVIOUS
<1> QED
  BY <1>1, <1>2, <1>3

LEMMA CreateKeeps ==
  ASSUME LogInv, NEW s \in Sids, Create(s), UNCHANGED harsh
  PROVE  LogInv'
  BY Facts, IsFile DEF LogInv, FilesOK, StageOK, BufOK, TypeOK, Create, files, Saving, Buffering, Sids

LEMMA SaveKeeps ==
  ASSUME LogInv, Save, UNCHANGED harsh
  PROVE  LogInv'
<1>1. CASE CreateNew
  BY <1>1, Facts, KindsOK, IsFile DEF LogInv, FilesOK, StageOK, BufOK, TypeOK, CreateNew, mem, Saving, Buffering
<1>2. CASE WriteNew
  BY <1>2, Facts, KindsOK, IsFile DEF LogInv, FilesOK, StageOK, BufOK, TypeOK, WriteNew, mem, Saving, Buffering
<1>3. CASE RemoveOld
  BY <1>3, Facts, KindsOK, IsFile DEF LogInv, FilesOK, StageOK, BufOK, TypeOK, RemoveOld, mem, Saving, Buffering
<1>4. CASE CloseCurrent
  <2>1. Flush
    BY <1>4 DEF CloseCurrent
  <2>2. FileOK(cur') /\ cur'.head = cur.head /\ cur'.exists = cur.exists
        /\ (buf = <<>> => cur' = cur)
    BY <2>1, FlushFacts
  <2>e. /\ buf' \in Seq(Sids) /\ Len(buf') <= StdioLines
        /\ mine' \in BOOLEAN /\ (mine' => buf' # <<>> /\ ~cur'.whole)
        /\ BufOK'
    BY <1>4, EmptyBuf DEF CloseCurrent, Flush
  <2>a. FilesOK'
    BY <1>4, <2>2, Facts, <2>e DEF FilesOK, CloseCurrent
  <2>b. TypeOK'
    BY <1>4, <2>2, Facts, <2>e, <2>a, IsFile DEF TypeOK, FilesOK, CloseCurrent
  <2>c. StageOK'
    BY <1>4, <2>2, Facts, <2>e DEF LogInv, StageOK, Saving, Buffering, CloseCurrent
  <2> QED
    BY <2>e, <2>a, <2>b, <2>c DEF LogInv
<1>5. CASE MoveCurrent
  BY <1>5, Facts, KindsOK, IsFile DEF LogInv, FilesOK, StageOK, BufOK, TypeOK, MoveCurrent, mem, Saving, Buffering
<1>6. CASE MoveNew
  BY <1>6, Facts, KindsOK, IsFile DEF LogInv, FilesOK, StageOK, BufOK, TypeOK, MoveNew, mem, Saving, Buffering
<1>7. CASE Reopen
  BY <1>7, Facts, KindsOK, IsFile DEF LogInv, FilesOK, StageOK, BufOK, TypeOK, Reopen, Saving, Buffering, Sids, NoHead
<1> QED
  BY <1>1, <1>2, <1>3, <1>4, <1>5, <1>6, <1>7 DEF Save

LEMMA LoadKeeps ==
  ASSUME LogInv, LoadStep, UNCHANGED harsh
  PROVE  LogInv'
<1>1. CASE Load
  BY <1>1, Facts, KindsOK, IsFile DEF LogInv, FilesOK, StageOK, BufOK, TypeOK, Load, Chosen, mem, Saving, Buffering
<1>2. CASE CleanOld \/ CleanNew
  BY <1>2, Facts, KindsOK, IsFile DEF LogInv, FilesOK, StageOK, BufOK, TypeOK, CleanOld, CleanNew, mem, Saving, Buffering
<1>3. CASE Read
  <2>1. Position(cur) \in 0..MaxSid /\ Cardinality(Readable(cur)) \in Nat
    BY <1>3, Facts, PositionIs DEF Read
  <2>e. /\ buf' \in Seq(Sids) /\ Len(buf') <= StdioLines
        /\ mine' \in BOOLEAN /\ (mine' => buf' # <<>> /\ ~cur'.whole)
        /\ BufOK'
    BY <1>3, EmptyBuf DEF Read, Flush
  <2>a. FilesOK'
    BY <1>3, <2>1, Facts, <2>e DEF FilesOK, Read, files
  <2>b. TypeOK'
    BY <1>3, <2>1, Facts, <2>e, <2>a, IsFile DEF TypeOK, FilesOK, Read, files
  <2>c. StageOK'
    BY <1>3, <2>1, Facts, <2>e DEF LogInv, StageOK, Saving, Buffering, Read, files
  <2> QED
    BY <2>e, <2>a, <2>b, <2>c DEF LogInv
<1>4. CASE ReadNothing
  <2>e. /\ buf' \in Seq(Sids) /\ Len(buf') <= StdioLines
        /\ mine' \in BOOLEAN /\ (mine' => buf' # <<>> /\ ~cur'.whole)
        /\ BufOK'
    BY <1>4, EmptyBuf DEF ReadNothing, Flush
  <2>a. FilesOK'
    BY <1>4, Facts, KindsOK, <2>e DEF FilesOK, ReadNothing
  <2>b. TypeOK'
    BY <1>4, Facts, KindsOK, <2>e, <2>a, IsFile DEF TypeOK, FilesOK, ReadNothing
  <2>c. StageOK'
    BY <1>4, Facts, KindsOK, <2>e DEF LogInv, StageOK, Saving, Buffering, ReadNothing
  <2> QED
    BY <2>e, <2>a, <2>b, <2>c DEF LogInv
<1> QED
  BY <1>1, <1>2, <1>3, <1>4 DEF LoadStep

LEMMA RemoveKeeps ==
  ASSUME LogInv, RemoveStep, UNCHANGED harsh
  PROVE  LogInv'
<1>1. CASE CloseToRemove
  <2>1. Flush
    BY <1>1 DEF CloseToRemove
  <2>2. FileOK(cur') /\ cur'.head = cur.head /\ cur'.exists = cur.exists
        /\ (buf = <<>> => cur' = cur)
    BY <2>1, FlushFacts
  <2>e. /\ buf' \in Seq(Sids) /\ Len(buf') <= StdioLines
        /\ mine' \in BOOLEAN /\ (mine' => buf' # <<>> /\ ~cur'.whole)
        /\ BufOK'
    BY <1>1, EmptyBuf DEF CloseToRemove, Flush
  <2>a. FilesOK'
    BY <1>1, <2>2, Facts, <2>e DEF FilesOK, CloseToRemove
  <2>b. TypeOK'
    BY <1>1, <2>2, Facts, <2>e, <2>a, IsFile DEF TypeOK, FilesOK, CloseToRemove
  <2>c. StageOK'
    BY <1>1, <2>2, Facts, <2>e DEF LogInv, StageOK, Saving, Buffering, CloseToRemove
  <2> QED
    BY <2>e, <2>a, <2>b, <2>c DEF LogInv
<1>2. CASE RemoveCur \/ RemoveOldToo \/ RemoveNew
  BY <1>2, Facts, KindsOK, IsFile DEF LogInv, FilesOK, StageOK, BufOK, TypeOK, RemoveCur, RemoveOldToo,
     RemoveNew, mem, Saving, Buffering
<1> QED
  BY <1>1, <1>2 DEF RemoveStep

LEMMA FailKeeps ==
  ASSUME LogInv, SaveFails \/ LogFails, UNCHANGED harsh
  PROVE  LogInv'
<1>1. CASE SaveFails
  <2>1. Flush
    BY <1>1 DEF SaveFails
  <2>2. FileOK(cur') /\ cur'.head = cur.head /\ cur'.exists = cur.exists
        /\ (buf = <<>> => cur' = cur)
    BY <2>1, FlushFacts
  <2>e. /\ buf' \in Seq(Sids) /\ Len(buf') <= StdioLines
        /\ mine' \in BOOLEAN /\ (mine' => buf' # <<>> /\ ~cur'.whole)
        /\ BufOK'
    BY <2>1, EmptyBuf DEF Flush
  <2>3. FileOK(new')
    BY <1>1, Facts, KindsOK DEF SaveFails
  <2>a. FilesOK'
    BY <1>1, <2>2, <2>3, Facts DEF FilesOK, SaveFails
  <2>b. TypeOK'
    BY <1>1, <2>e, <2>a, Facts, IsFile DEF TypeOK, FilesOK, SaveFails
  <2>c. StageOK'
    BY <1>1 DEF StageOK, Saving, SaveFails
  <2> QED
    BY <2>e, <2>a, <2>b, <2>c DEF LogInv
<1>2. CASE LogFails
  <2>1. FileOK(cur')
    BY <1>2, Facts, WrittenIs DEF LogFails
  <2>e. /\ buf' \in Seq(Sids) /\ Len(buf') <= StdioLines
        /\ mine' \in BOOLEAN /\ (mine' => buf' # <<>> /\ ~cur'.whole)
        /\ BufOK'
    BY <1>2, EmptyBuf DEF LogFails
  <2>a. FilesOK'
    BY <1>2, <2>1, Facts DEF FilesOK, LogFails
  <2>b. TypeOK'
    BY <1>2, <2>e, <2>a, Facts, IsFile DEF TypeOK, FilesOK, LogFails
  <2>c. StageOK'
    BY <1>2 DEF StageOK, Saving, LogFails
  <2> QED
    BY <2>e, <2>a, <2>b, <2>c DEF LogInv
<1> QED
  BY <1>1, <1>2

\* The machine takes lines with it, never a head.
LEMMA RemainsOK ==
  ASSUME NEW f, FileOK(f), NEW r \in Remains(f)
  PROVE  FileOK(r) /\ r.exists = f.exists /\ r.head = f.head
<1>1. f \in File /\ f.lines \in Seq(Sids \cup {0, Unread})
  BY DEF FileOK, File
<1>2. CASE r = f
  BY <1>2
<1>3. CASE r # f
  <2>1. PICK n \in 0..Len(f.lines) : r = [f EXCEPT !.lines = SubSeq(f.lines, 1, n), !.whole = TRUE]
    BY <1>3 DEF Remains
  <2>2. \A i \in 1..n : f.lines[i] \in Sids \cup {0, Unread}
    BY <1>1
  <2>3. n \in Nat /\ SubSeq(f.lines, 1, n) \in Seq(Sids \cup {0, Unread})
    BY <1>1, <2>2, SubSeqProperties
  <2>4. f.lines = <<>> => SubSeq(f.lines, 1, n) = <<>>
    OBVIOUS
  <2>5. PICK t \in Seq(Sids \cup {0, Unread}) :
          r = [f EXCEPT !.lines = t, !.whole = TRUE] /\ (f.lines = <<>> => t = <<>>)
    BY <2>1, <2>3, <2>4
  <2>6. /\ r \in File /\ r.exists = f.exists /\ r.head = f.head /\ r.lines = t /\ r.whole = TRUE
    BY <1>1, <2>5 DEF File
  <2>7. ~f.exists => r = Absent
    <3> SUFFICES ASSUME ~f.exists PROVE r = Absent
      OBVIOUS
    <3>1. f = Absent /\ f.lines = <<>> /\ f.whole
      BY DEF FileOK, Absent
    <3>2. r = f
      BY <1>1, <2>5, <3>1 DEF File
    <3> QED
      BY <1>3, <3>2
  <2> QED
    BY <2>5, <2>6, <2>7 DEF FileOK
<1> QED
  BY <1>2, <1>3

LEMMA StopKeeps ==
  ASSUME LogInv, Crash \/ CleanStop, UNCHANGED harsh
  PROVE  LogInv'
<1>1. FileOK(cur') /\ FileOK(old') /\ FileOK(new')
  <2>1. CASE Crash
    <3>1. new' = new /\ cur' \in Remains(cur) /\ old' \in Remains(old)
      BY <2>1 DEF Crash, Remains
    <3> QED
      BY <3>1, Facts, RemainsOK
  <2>2. CASE CleanStop
    BY <2>2, Facts, WrittenIs DEF CleanStop
  <2> QED
    BY <2>1, <2>2
<1>2. pc' = "down" /\ maxSid' = 0 /\ buf' = <<>> /\ mine' = FALSE /\ count' = 0 /\ total' = 0
  BY DEF Crash, CleanStop, Forget
<1>e. /\ buf' \in Seq(Sids) /\ Len(buf') <= StdioLines
      /\ mine' \in BOOLEAN /\ (mine' => buf' # <<>> /\ ~cur'.whole)
      /\ BufOK'
  BY <1>2, EmptyBuf
<1>a. FilesOK'
  BY <1>1 DEF FilesOK
<1>b. TypeOK'
  BY <1>2, <1>e, <1>a, Facts, IsFile DEF TypeOK, FilesOK
<1>c. StageOK'
  BY <1>2 DEF StageOK, Saving
<1> QED
  BY <1>e, <1>a, <1>b, <1>c DEF LogInv

\* What a line that is logged does to the file and the buffer.
LEMMA LineFacts ==
  ASSUME LogInv, NEW s \in Sids, Log(s)
  PROVE  /\ FileOK(cur') /\ cur'.exists /\ cur'.head = cur.head /\ cur.head # NoHead
         /\ buf' \in Seq(Sids) /\ buf' # <<>> /\ Len(buf') <= StdioLines
         /\ mine' \in BOOLEAN /\ (mine' => ~cur'.whole)
<1>1. /\ FileOK(cur) /\ cur.exists /\ cur.head # NoHead /\ pc = "open"
      /\ buf \in Seq(Sids) /\ Len(buf) \in Nat /\ Len(buf) <= StdioLines
      /\ mine \in BOOLEAN /\ (mine => ~cur.whole) /\ StdioLines \in Nat \ {0}
  BY Facts DEF Log, LogInv, StageOK
<1>2. CASE Buffered(s)
  <2>1. buf' = Append(buf, s) /\ Len(buf) < StdioLines /\ cur' = cur /\ mine' = mine
    BY <1>2 DEF Buffered
  <2>2. Append(buf, s) \in Seq(Sids) /\ Append(buf, s) # <<>> /\ Len(Append(buf, s)) = Len(buf) + 1
    BY <1>1, AppendProperties
  <2> QED
    BY <1>1, <2>1, <2>2
<1>3. CASE Spilled(s)
  <2>1. PICK w : w = Written(cur) /\ FileOK(w) /\ w.exists = cur.exists /\ w.head = cur.head
    BY WrittenIs
  <2>2. <<s>> \in Seq(Sids) /\ <<s>> # <<>> /\ Len(<<s>>) <= StdioLines
    BY <1>1
  <2>3. CASE cur' = w /\ mine' = FALSE
    BY <1>1, <1>3, <2>1, <2>2, <2>3 DEF Spilled
  <2>4. CASE \E v \in Torn(s) : cur' = [w EXCEPT !.lines = Append(@, v), !.whole = FALSE] /\ mine' = TRUE
    <3>1. PICK v \in Torn(s) : cur' = [w EXCEPT !.lines = Append(@, v), !.whole = FALSE] /\ mine' = TRUE
      BY <2>4
    <3>2. v \in Sids \cup {0, Unread}
      BY BoundsAssumption DEF Torn, Sids
    <3>3. w \in File /\ w.lines \in Seq(Sids \cup {0, Unread})
      BY <2>1 DEF FileOK, File
    <3>4. PICK t \in Seq(Sids \cup {0, Unread}) : t = Append(w.lines, v)
      BY <3>2, <3>3, AppendProperties
    <3>5. cur' = [w EXCEPT !.lines = t, !.whole = FALSE]
      BY <3>1, <3>4
    <3>6. cur' \in File /\ cur'.exists = w.exists /\ cur'.head = w.head /\ ~cur'.whole
      BY <3>3, <3>5 DEF File
    <3>7. FileOK(cur')
      BY <1>1, <2>1, <3>6 DEF FileOK
    <3> QED
      BY <1>1, <1>3, <2>1, <2>2, <3>1, <3>6, <3>7 DEF Spilled
  <2> QED
    BY <1>3, <2>1, <2>3, <2>4 DEF Spilled
<1> QED
  BY <1>2, <1>3 DEF Log

LEMMA LineKeeps ==
  ASSUME LogInv, NEW s \in Sids, Log(s), UNCHANGED harsh
  PROVE  LogInv'
<1>1. /\ FileOK(cur') /\ cur'.exists /\ cur'.head = cur.head /\ cur.head # NoHead
      /\ buf' \in Seq(Sids) /\ buf' # <<>> /\ Len(buf') <= StdioLines
      /\ mine' \in BOOLEAN /\ (mine' => ~cur'.whole)
  BY LineFacts
<1>2. /\ pc = "open" /\ maxSid' = s /\ count' = count + 1 /\ total' = total + 1
      /\ pc' = (IF MustFlush(count + 1) THEN "flush" ELSE Switch(total + 1))
      /\ old' = old /\ new' = new
  BY DEF Log
<1>3. pc' \in {"flush", "create", "open"} /\ (pc' = "open" => count' < FlushRecord)
  BY <1>2, Facts DEF MustFlush, Switch
<1>a. FilesOK'
  BY <1>1, <1>2, Facts DEF FilesOK
<1>b. TypeOK'
  BY <1>1, <1>2, <1>3, <1>a, Facts, IsFile, SMTT(20) DEF TypeOK, FilesOK, Sids
<1>c. StageOK'
  BY <1>1, <1>2, <1>3 DEF LogInv, StageOK, Saving
<1>d. BufOK'
  BY <1>1, <1>3 DEF BufOK, Buffering
<1> QED
  BY <1>a, <1>b, <1>c, <1>d DEF LogInv

LEMMA SyncKeeps ==
  ASSUME LogInv, FlushLogged \/ SyncFile, UNCHANGED harsh
  PROVE  LogInv'
<1>1. /\ pc \in {"flush", "open"} /\ FlushOrNot /\ count' = 0
      /\ pc' \in {"create", "open"} /\ (pc = "open" => pc' = "open")
      /\ old' = old /\ new' = new /\ maxSid' = maxSid /\ total' = total
  BY DEF FlushLogged, SyncFile, Switch
<1>2. /\ cur.exists /\ cur.head # NoHead
  BY <1>1 DEF LogInv, StageOK
<1>3. /\ FileOK(cur') /\ cur'.exists /\ cur'.head = cur.head
      /\ buf' \in Seq(Sids) /\ Len(buf') <= StdioLines
      /\ mine' \in BOOLEAN /\ (mine' => buf' # <<>> /\ ~cur'.whole)
  <2>1. CASE Flush
    BY <1>2, <2>1, EmptyBuf, WrittenIs DEF Flush
  <2>2. CASE UNCHANGED <<cur, buf, mine>>
    BY <1>2, <2>2, Facts
  <2> QED
    BY <1>1, <2>1, <2>2 DEF FlushOrNot
<1>a. FilesOK'
  BY <1>1, <1>3, Facts DEF FilesOK
<1>b. TypeOK'
  BY <1>1, <1>3, <1>a, Facts, IsFile DEF TypeOK, FilesOK
<1>c. StageOK'
  BY <1>1, <1>2, <1>3 DEF LogInv, StageOK, Saving
<1>d. BufOK'
  BY <1>1, <1>2, <1>3 DEF BufOK, Buffering
<1> QED
  BY <1>a, <1>b, <1>c, <1>d DEF LogInv

LEMMA LogStep == LogInv /\ [Next]_vars => LogInv'
<1> SUFFICES ASSUME LogInv, [Next]_vars PROVE LogInv'
  OBVIOUS
<1>1. CASE UNCHANGED vars
  <2>1. /\ cur' = cur /\ old' = old /\ new' = new /\ pc' = pc /\ maxSid' = maxSid /\ buf' = buf
        /\ mine' = mine /\ count' = count /\ total' = total /\ harsh' = harsh
    BY <1>1 DEF vars, files, mem
  <2> QED
    BY <2>1 DEF LogInv, FilesOK, TypeOK, StageOK, BufOK
<1>2. CASE Next
  <2>1. ASSUME NEW s \in Sids, Create(s) \/ Log(s)  PROVE LogInv'
    BY <1>2, <2>1, CreateKeeps, LineKeeps DEF Next
  <2> QED
    BY <1>2, <2>1, SaveKeeps, LoadKeeps, RemoveKeeps, FailKeeps, StopKeeps, SyncKeeps DEF Next
<1> QED
  BY <1>1, <1>2

LEMMA LogInit == Init => LogInv
<1> SUFFICES ASSUME Init PROVE LogInv
  OBVIOUS
<1>1. FilesOK
  BY KindsOK DEF Init, FilesOK
<1>2. TypeOK
  <2>1. buf \in Seq(Sids) /\ Len(buf) <= StdioLines
    <3>1. <<>> \in Seq(Sids) /\ Len(<<>>) <= StdioLines
      BY BoundsAssumption
    <3> QED
      BY <3>1 DEF Init
  <2>2. cur \in File /\ old \in File /\ new \in File
    BY <1>1, IsFile DEF FilesOK
  <2>3. 0 \in 0..FlushRecord /\ 0 \in 0..MaxSid
    BY BoundsAssumption
  <2>4. /\ maxSid \in 0..MaxSid /\ count \in 0..FlushRecord /\ total \in Nat
        /\ mine = FALSE /\ pc = "down" /\ harsh \in Harsh
    BY <2>3 DEF Init
  <2> QED
    BY <2>1, <2>2, <2>4 DEF TypeOK
<1>3. StageOK /\ BufOK
  BY DEF Init, StageOK, BufOK, Saving
<1> QED
  BY <1>1, <1>2, <1>3 DEF LogInv

\* The files and the buffer keep their shape, and while the log is open fewer
\* lines than m_uiFlushRecord are counted as not flushed, whatever calls fail
\* (CwxSidLogFile::log, CwxSidLogFile::save).
THEOREM SidLogTypes == Spec => []TypeOK
<1>1. LogInv => TypeOK
  BY DEF LogInv
<1> QED
  BY <1>1, LogInit, LogStep, PTL DEF Spec

(***************************************************************************)
(* The position stays.                                                      *)
(***************************************************************************)
\* There is a position exactly when that file has a head.
LEMMA FoundIs ==
  ASSUME LogInv
  PROVE  /\ FileOK(There) /\ Found = Position(There)
         /\ Found = NoHead <=> There.head = NoHead
<1>1. FileOK(There)
  BY Facts DEF There
<1> QED
  BY <1>1, PositionIs DEF Found, There

LEMMA FoundIsPrimed ==
  LogInv => Found = Position(There) /\ (Found = NoHead <=> There.head = NoHead)
  BY FoundIs

\* No step but a removal takes the head away.
LEMMA HeadStays ==
  ASSUME LogInv, [Next]_vars, There.head # NoHead, ~RemoveStep
  PROVE  There'.head # NoHead
<1>1. CASE UNCHANGED files
  BY <1>1 DEF files, There
<1>2. CASE \E s \in Sids : Create(s) \/ Log(s)
  BY <1>2, LineFacts DEF Create, Log, files, There
<1>3. CASE Save
  <2>1. CASE CreateNew \/ WriteNew
    BY <2>1, Facts, KindsOK DEF LogInv, StageOK, CreateNew, WriteNew, There, Saving
  <2>2. CASE RemoveOld
    BY <2>2, Facts, KindsOK DEF LogInv, StageOK, RemoveOld, There
  <2>3. CASE CloseCurrent
    BY <2>3, WrittenIs DEF CloseCurrent, Flush, There
  <2>4. CASE MoveCurrent
    BY <2>4, Facts, KindsOK DEF LogInv, StageOK, MoveCurrent, There
  <2>5. CASE MoveNew
    <3>1. new = HeadOnly(maxSid) /\ maxSid \in Sids /\ cur' = new
      BY <2>5 DEF LogInv, StageOK, MoveNew, Saving
    <3> QED
      BY <3>1, KindsOK, BoundsAssumption DEF There, Sids, NoHead
  <2>6. CASE Reopen
    BY <2>6, Facts, KindsOK DEF LogInv, StageOK, Reopen, There
  <2> QED
    BY <1>3, <2>1, <2>2, <2>3, <2>4, <2>5, <2>6 DEF Save
<1>4. CASE SaveFails
  <2>1. /\ cur'.exists = cur.exists /\ cur'.head = cur.head /\ old' = old
    BY <1>4, WrittenIs DEF SaveFails, Flush
  <2>2. new' = new \/ (pc = "write" /\ new' = Empty)
    BY <1>4 DEF SaveFails
  <2>3. pc = "write" => new = Empty
    BY DEF LogInv, StageOK
  <2> QED
    BY <2>1, <2>2, <2>3 DEF There
<1>5. CASE LogFails
  BY <1>5, WrittenIs DEF LogFails, There
<1>6. CASE FlushLogged \/ SyncFile
  BY <1>6, WrittenIs DEF FlushLogged, SyncFile, FlushOrNot, Flush, There
<1>7. CASE LoadStep
  <2>1. CASE Load
    <3>1. There.exists
      BY FoundIs, KindsOK DEF FileOK
    <3>2. cur' = There
      BY <2>1, <3>1 DEF Load, Chosen, There
    <3> QED
      BY <3>1, <3>2 DEF There
  <2>2. CASE CleanOld \/ CleanNew
    BY <2>2 DEF LogInv, StageOK, CleanOld, CleanNew, mem, There
  <2>3. CASE Read
    BY <2>3 DEF Read, files, There
  <2>4. CASE ReadNothing
    BY <2>4 DEF LogInv, StageOK, ReadNothing, There
  <2> QED
    BY <1>7, <2>1, <2>2, <2>3, <2>4 DEF LoadStep
<1>8. CASE Crash
  <2>1. new' = new /\ cur' \in Remains(cur) /\ old' \in Remains(old)
    BY <1>8 DEF Crash, Remains
  <2>2. /\ cur'.exists = cur.exists /\ cur'.head = cur.head
        /\ old'.exists = old.exists /\ old'.head = old.head
    BY <2>1, Facts, RemainsOK
  <2> QED
    BY <2>1, <2>2 DEF There
<1>9. CASE CleanStop
  BY <1>9, WrittenIs DEF CleanStop, There
<1> QED
  BY <1>1, <1>2, <1>3, <1>4, <1>5, <1>6, <1>7, <1>8, <1>9 DEF Next, vars

\* Once a position has been written one is found, wherever save() or load() is
\* interrupted or fails, and whatever lines are lost, until the log is removed
\* (CwxSidLogFile::save, CwxSidLogFile::prepare).
THEOREM PositionAlwaysStays == Spec => PositionStays
<1>1. LogInv /\ LogInv' /\ [Next]_vars =>
        [Found # NoHead => Found' # NoHead \/ RemoveStep]_vars
  <2> SUFFICES ASSUME LogInv, LogInv', [Next]_vars, Found # NoHead, ~RemoveStep
               PROVE  Found' # NoHead
    OBVIOUS
  <2>1. There.head # NoHead
    BY FoundIs
  <2>2. There'.head # NoHead
    BY <2>1, HeadStays
  <2>3. LogInv' => (Found' = NoHead <=> There'.head = NoHead)
    <3>1. LogInv' => (Found = NoHead <=> There.head = NoHead)'
      BY FoundIsPrimed, PTL
    <3> QED
      BY <3>1
  <2> QED
    BY <2>2, <2>3
<1> QED
  BY <1>1, LogInit, LogStep, PTL DEF Spec, PositionStays

(***************************************************************************)
(* The world that is not harsh: flushes do not fail and only the process       *)
(* dies.  Then every line in a file is one that was logged, what waits in the   *)
(* buffer ends with the latest sid, and a file with a head that is left by a    *)
(* step of save() has the latest sid for its position.                         *)
(***************************************************************************)
Clean(f) == f.whole /\ \A i \in 1..Len(f.lines) : f.lines[i] \in Sids

Late(f, s) == f.head # NoHead => Position(f) = s

\* The position has been read, or written for the first time.
Settled == pc \notin {"down", "clean_old", "clean_new", "read", "none"}

CalmInv ==
  ~harsh =>
    /\ Clean(cur) /\ Clean(old) /\ Clean(new)
    /\ pc \in {"open", "flush"} => Len(buf) <= count
    /\ Settled =>
         /\ buf = <<>> => Late(cur, maxSid)
         /\ buf # <<>> => Last(buf) = maxSid
         /\ Late(old, maxSid) /\ Late(new, maxSid)

\* All lines of a clean file can be read, and the last one counts.
LEMMA CleanIs ==
  ASSUME NEW f, FileOK(f), Clean(f)
  PROVE  /\ f.lines # <<>> => Position(f) = f.lines[Len(f.lines)]
         /\ f.head # NoHead => Position(f) \in Sids
<1>1. /\ f.lines \in Seq(Sids \cup {0, Unread}) /\ f.head \in Sids \cup {NoHead}
  BY DEF FileOK, File
<1>2. Len(f.lines) \in Nat
  BY <1>1
<1>3. Readable(f) = 1..Len(f.lines)
  BY DEF Readable, Clean, Sids, Unread
<1>4. CASE f.lines = <<>>
  <2>1. Readable(f) = {}
    BY <1>2, <1>3, <1>4
  <2> QED
    BY <1>1, <1>4, <2>1 DEF Position
<1>5. CASE f.lines # <<>>
  <2>0. Len(f.lines) # 0
    <3>1. PICK L : f.lines \in Seq(L)
      BY <1>1
    <3> QED
      BY <1>5, <3>1
  <2>1. Len(f.lines) \in Readable(f) /\ Readable(f) # {}
    BY <1>2, <1>3, <2>0
  <2>2. PICK m : m = Max(Readable(f)) /\ m \in Readable(f) /\ Len(f.lines) <= m
    BY <1>2, <1>3, <2>1, MaxIs
  <2>3. m = Len(f.lines)
    BY <1>2, <1>3, <2>2
  <2>4. Position(f) = f.lines[Len(f.lines)]
    BY <2>1, <2>2, <2>3 DEF Position
  <2>5. f.lines[Len(f.lines)] \in Sids
    BY <1>3, <2>1 DEF Clean
  <2> QED
    BY <1>5, <2>4, <2>5
<1> QED
  BY <1>4, <1>5

LEMMA KindsClean ==
  /\ Clean(Absent) /\ Clean(Empty) /\ \A s \in Sids : Clean(HeadOnly(s)) /\ Late(HeadOnly(s), s)
  /\ \A s : Late(Absent, s) /\ Late(Empty, s)
<1>1. Len(<<>>) = 0 /\ Absent.lines = <<>> /\ \A s \in Sids : HeadOnly(s).lines = <<>>
  BY DEF Absent, Empty, HeadOnly
<1>2. Clean(Absent) /\ Clean(Empty) /\ \A s \in Sids : Clean(HeadOnly(s))
  BY <1>1, KindsOK DEF Clean
<1>3. \A s \in Sids : Position(HeadOnly(s)) = s
  BY KindsOK, PositionIs
<1> QED
  BY <1>2, <1>3, KindsOK DEF Late

\* What a flush writes: the lines that waited, and the last of them counts.
LEMMA WrittenCalm ==
  ASSUME LogInv, CalmInv, ~harsh
  PROVE  /\ Clean(Written(cur))
         /\ buf # <<>> => Position(Written(cur)) = maxSid
         /\ buf = <<>> => Written(cur) = cur
         /\ Settled => Late(Written(cur), maxSid)
<1>1. CASE buf = <<>>
  BY <1>1, WrittenIs DEF CalmInv
<1>2. CASE buf # <<>>
  <2>1. /\ FileOK(cur) /\ cur \in File /\ cur.lines \in Seq(Sids \cup {0, Unread})
        /\ buf \in Seq(Sids) /\ Clean(cur) /\ cur.whole /\ Last(buf) = maxSid
    BY <1>2, Facts DEF LogInv, BufOK, Buffering, CalmInv, Settled, Clean, FileOK, File
  <2>2. /\ Len(cur.lines) \in Nat /\ Len(buf) \in Nat \ {0}
        /\ \A i \in 1..Len(buf) : buf[i] \in Sids
    BY <1>2, <2>1
  <2>3. PICK w : w = Written(cur) /\ FileOK(w) /\ w = [cur EXCEPT !.lines = cur.lines \o buf] /\ w.whole
    BY <2>1, WrittenIs
  <2>4. w.lines = cur.lines \o buf
    BY <2>1, <2>3 DEF File
  <2>5. /\ Len(w.lines) = Len(cur.lines) + Len(buf)
        /\ \A i \in 1..Len(cur.lines) : w.lines[i] = cur.lines[i]
        /\ \A i \in 1..Len(buf) : w.lines[Len(cur.lines) + i] = buf[i]
    <3>1. buf \in Seq(Sids \cup {0, Unread})
      BY <2>1, <2>2
    <3>2. PICK L : L = Sids \cup {0, Unread}
      OBVIOUS
    <3>3. cur.lines \in Seq(L) /\ buf \in Seq(L)
      BY <2>1, <3>1, <3>2
    <3> QED
      BY <2>2, <2>4, <3>3
  <2>6. \A i \in 1..Len(w.lines) : w.lines[i] \in Sids
    <3> SUFFICES ASSUME NEW i \in 1..Len(w.lines) PROVE w.lines[i] \in Sids
      OBVIOUS
    <3>1. CASE i \in 1..Len(cur.lines)
      BY <2>1, <2>5, <3>1 DEF Clean
    <3>2. CASE i \notin 1..Len(cur.lines)
      <4>1. i - Len(cur.lines) \in 1..Len(buf) /\ i = Len(cur.lines) + (i - Len(cur.lines))
        BY <2>2, <2>5, <3>2
      <4> QED
        BY <2>2, <2>5, <4>1
    <3> QED
      BY <3>1, <3>2
  <2>7. Clean(w) /\ w.lines # <<>> /\ w.lines[Len(w.lines)] = buf[Len(buf)]
    BY <2>2, <2>3, <2>5, <2>6 DEF Clean
  <2>8. Position(w) = maxSid
    BY <2>1, <2>3, <2>7, CleanIs DEF Last
  <2> QED
    BY <1>2, <2>3, <2>7, <2>8 DEF Late
<1> QED
  BY <1>1, <1>2

\* A line that is logged waits in the buffer, for which it is not too long.
LEMMA LineCalm ==
  ASSUME FlushRecord <= StdioLines, LogInv, CalmInv, ~harsh, NEW s \in Sids, Log(s)
  PROVE  /\ cur' = cur /\ buf' = Append(buf, s) /\ buf' # <<>> /\ Last(buf') = s
         /\ Len(buf') <= count'
<1>1. /\ pc = "open" /\ Len(buf) <= count /\ count < FlushRecord /\ count' = count + 1
      /\ count \in Nat /\ FlushRecord \in Nat /\ StdioLines \in Nat /\ Len(buf) \in Nat
      /\ buf \in Seq(Sids)
  BY Facts DEF Log, CalmInv
<1>2. Len(buf) # StdioLines
  BY <1>1
<1>3. cur' = cur /\ buf' = Append(buf, s)
  BY <1>2 DEF Log, Buffered, Spilled
<1>4. Append(buf, s) # <<>> /\ Len(Append(buf, s)) = Len(buf) + 1 /\ Append(buf, s)[Len(buf) + 1] = s
  BY <1>1, AppendProperties
<1>5. Last(Append(buf, s)) = s
  BY <1>4 DEF Last
<1> QED
  BY <1>1, <1>3, <1>4, <1>5

LEMMA CalmStep ==
  FlushRecord <= StdioLines /\ LogInv /\ CalmInv /\ [Next]_vars => CalmInv'
<1> SUFFICES ASSUME FlushRecord <= StdioLines, LogInv, CalmInv, [Next]_vars, ~harsh'
             PROVE  CalmInv'
  BY DEF CalmInv
<1>h. ~harsh
  BY DEF Next, vars
<1>c. /\ Clean(cur) /\ Clean(old) /\ Clean(new)
      /\ pc \in {"open", "flush"} => Len(buf) <= count
      /\ Settled =>
           /\ buf = <<>> => Late(cur, maxSid)
           /\ buf # <<>> => Last(buf) = maxSid
           /\ Late(old, maxSid) /\ Late(new, maxSid)
  BY <1>h DEF CalmInv
<1>e. Len(<<>>) = 0
  OBVIOUS
<1>1. CASE UNCHANGED vars
  BY <1>1 DEF vars, files, mem, CalmInv, Settled
<1>2. ASSUME NEW s \in Sids, Create(s)  PROVE CalmInv'
  BY <1>2, <1>c, KindsClean, PositionIs, Facts DEF LogInv, StageOK, BufOK, Buffering, Create, files,
     CalmInv, Settled, Late
<1>3. ASSUME NEW s \in Sids, Log(s)  PROVE CalmInv'
  <2>1. /\ cur' = cur /\ buf' # <<>> /\ Last(buf') = s /\ Len(buf') <= count'
    BY <1>h, <1>3, LineCalm
  <2>2. old = Absent /\ new = Absent /\ old' = old /\ new' = new /\ maxSid' = s
    BY <1>3 DEF Log, LogInv, StageOK
  <2> QED
    BY <1>c, <2>1, <2>2, KindsClean DEF CalmInv
<1>4. CASE FlushLogged \/ SyncFile
  <2>1. /\ cur' = Written(cur) /\ buf' = <<>> /\ count' = 0 /\ maxSid' = maxSid
        /\ old' = old /\ new' = new /\ Settled
    BY <1>h, <1>4 DEF FlushLogged, SyncFile, FlushOrNot, Flush, Settled
  <2>2. Clean(cur') /\ Late(cur', maxSid')
    BY <1>h, <2>1, WrittenCalm
  <2>3. Len(buf') <= count'
    BY <1>e, <2>1
  <2> QED
    BY <1>c, <2>1, <2>2, <2>3 DEF CalmInv
<1>5. CASE LogFails
  <2>1. pc = "open" /\ Len(buf) <= count /\ count < FlushRecord /\ Len(buf) = StdioLines
    BY <1>5, <1>c, Facts DEF LogFails
  <2> QED
    BY <2>1, Facts
<1>6. CASE CreateNew \/ WriteNew \/ RemoveOld
  <2>1. /\ cur' = cur /\ maxSid' = maxSid /\ buf' = buf /\ Settled
        /\ pc' \notin {"open", "flush"}
        /\ old' \in {old, Absent} /\ new' \in {new, Empty, HeadOnly(maxSid)}
    BY <1>6 DEF CreateNew, WriteNew, RemoveOld, mem, Settled
  <2>2. maxSid \in Sids
    BY <1>6 DEF CreateNew, WriteNew, RemoveOld, LogInv, StageOK, Saving
  <2> QED
    BY <1>c, <2>1, <2>2, KindsClean DEF CalmInv
<1>7. CASE CloseCurrent
  <2>1. /\ cur' = Written(cur) /\ buf' = <<>> /\ maxSid' = maxSid
        /\ old' = old /\ new' = new /\ Settled /\ pc' = "move_cur"
    BY <1>7 DEF CloseCurrent, Flush, Settled
  <2>2. Clean(cur') /\ Late(cur', maxSid')
    BY <1>h, <2>1, WrittenCalm
  <2> QED
    BY <1>c, <2>1, <2>2 DEF CalmInv
<1>8. CASE MoveCurrent \/ MoveNew \/ Reopen
  <2>1. /\ cur' \in {cur, new, Absent} /\ old' \in {old, cur, Absent} /\ new' \in {new, Absent}
        /\ maxSid' = maxSid /\ buf' = buf /\ buf = <<>> /\ Settled
        /\ pc' = "open" => count' = 0
        /\ pc' # "flush"
    BY <1>8 DEF MoveCurrent, MoveNew, Reopen, mem, LogInv, BufOK, Buffering, Settled
  <2>2. Len(buf') = 0
    BY <1>e, <2>1
  <2> QED
    BY <1>c, <2>1, <2>2, KindsClean DEF CalmInv
<1>9. CASE SaveFails
  <2>1. /\ cur' = Written(cur) /\ buf' = <<>> /\ maxSid' = maxSid
        /\ old' = old /\ new' \in {new, Empty} /\ Settled /\ pc' = "failed"
    BY <1>9 DEF SaveFails, Flush, Settled
  <2>2. Clean(cur') /\ Late(cur', maxSid')
    BY <1>h, <2>1, WrittenCalm
  <2> QED
    BY <1>c, <2>1, <2>2, KindsClean DEF CalmInv
<1>10. CASE Load \/ CleanOld \/ CleanNew
  <2>1. /\ cur' \in {cur, old, new, Empty} /\ old' \in {old, Absent} /\ new' \in {new, Absent}
        /\ ~Settled' /\ pc' \notin {"open", "flush"}
    BY <1>10 DEF Load, CleanOld, CleanNew, Chosen, Settled
  <2> QED
    BY <1>c, <2>1, KindsClean DEF CalmInv
<1>11. CASE Read
  <2>1. /\ cur' = cur /\ old' = Absent /\ new' = Absent /\ maxSid' = Position(cur)
        /\ buf' = <<>> /\ count' = 0 /\ pc' = "open"
    BY <1>11 DEF Read, files, LogInv, StageOK
  <2>2. Len(buf') <= count'
    BY <1>e, <2>1
  <2>3. Late(cur', maxSid')
    BY <2>1 DEF Late
  <2> QED
    BY <1>c, <2>1, <2>2, <2>3, KindsClean DEF CalmInv
<1>12. CASE ReadNothing
  <2>1. /\ cur' \in {cur, Absent} /\ old' = old /\ new' = new /\ ~Settled' /\ pc' = "none"
    BY <1>12 DEF ReadNothing, Settled
  <2> QED
    BY <1>c, <2>1, KindsClean DEF CalmInv
<1>13. CASE CloseToRemove
  <2>1. /\ cur' = Written(cur) /\ buf' = <<>> /\ maxSid' = maxSid
        /\ old' = old /\ new' = new /\ Settled /\ pc' = "del_cur"
    BY <1>13 DEF CloseToRemove, Flush, Settled
  <2>2. Clean(cur') /\ Late(cur', maxSid')
    BY <1>h, <2>1, WrittenCalm
  <2> QED
    BY <1>c, <2>1, <2>2 DEF CalmInv
<1>14. CASE RemoveCur \/ RemoveOldToo
  <2>1. /\ cur' \in {cur, Absent} /\ old' \in {old, Absent} /\ new' = new
        /\ maxSid' = maxSid /\ buf' = buf /\ Settled /\ pc' \notin {"open", "flush"}
    BY <1>14 DEF RemoveCur, RemoveOldToo, mem, Settled
  <2> QED
    BY <1>c, <2>1, KindsClean DEF CalmInv
<1>15. CASE RemoveNew
  <2>1. /\ cur' = cur /\ old' = old /\ new' = Absent /\ ~Settled' /\ pc' = "none"
    BY <1>15 DEF RemoveNew, Settled
  <2> QED
    BY <1>c, <2>1, KindsClean DEF CalmInv
<1>16. CASE Crash
  <2>1. /\ cur' = cur /\ old' = old /\ new' = new /\ ~Settled' /\ pc' = "down"
    BY <1>h, <1>16 DEF Crash, Forget, Settled
  <2> QED
    BY <1>c, <2>1 DEF CalmInv
<1>17. CASE CleanStop
  <2>1. /\ cur' = Written(cur) /\ old' = old /\ new' = new /\ ~Settled' /\ pc' = "down"
    BY <1>17 DEF CleanStop, Forget, Settled
  <2>2. Clean(cur')
    BY <1>h, <2>1, WrittenCalm
  <2> QED
    BY <1>c, <2>1, <2>2 DEF CalmInv
<1> QED
  BY <1>1, <1>2, <1>3, <1>4, <1>5, <1>6, <1>7, <1>8, <1>9, <1>10, <1>11, <1>12, <1>13, <1>14,
     <1>15, <1>16, <1>17 DEF Next, Save, LoadStep, RemoveStep

LEMMA CalmInit == Init => CalmInv
  BY KindsClean DEF Init, CalmInv, Settled

(***************************************************************************)
(* What a step does to the position that would be found.                       *)
(***************************************************************************)
CalmLog == LogInv /\ CalmInv /\ ~harsh

\* While the log is settled the latest sid is found, or waits in the buffer.
LEMMA FoundCalm ==
  CalmLog =>
    /\ Found # NoHead => Found \in Sids
    /\ Settled /\ buf = <<>> => Found \in {NoHead, maxSid}
    /\ buf # <<>> => Settled /\ cur.exists /\ Found # NoHead /\ Last(buf) = maxSid /\ maxSid \in Sids
<1> SUFFICES ASSUME CalmLog
             PROVE  /\ Found # NoHead => Found \in Sids
                    /\ Settled /\ buf = <<>> => Found \in {NoHead, maxSid}
                    /\ buf # <<>> => /\ Settled /\ cur.exists /\ Found # NoHead
                                     /\ Last(buf) = maxSid /\ maxSid \in Sids
  OBVIOUS
<1>1. /\ FileOK(There) /\ Found = Position(There) /\ (Found = NoHead <=> There.head = NoHead)
      /\ Clean(There)
  BY FoundIs DEF CalmLog, CalmInv, There
<1>2. Found # NoHead => Found \in Sids
  BY <1>1, CleanIs
<1>3. ASSUME Settled, buf = <<>>  PROVE Found \in {NoHead, maxSid}
  BY <1>1, <1>3 DEF CalmLog, CalmInv, There, Late
<1>4. ASSUME buf # <<>>
      PROVE  /\ Settled /\ cur.exists /\ Found # NoHead /\ Last(buf) = maxSid /\ maxSid \in Sids
  <2>1. Settled /\ cur.head # NoHead
    BY <1>4 DEF CalmLog, LogInv, BufOK, Buffering, Settled
  <2>2. FileOK(cur)
    BY Facts DEF CalmLog
  <2>3. cur.exists
    BY <2>1, <2>2, KindsOK DEF FileOK
  <2>4. Last(buf) = maxSid
    BY <1>4, <2>1 DEF CalmLog, CalmInv
  <2>5. Last(buf) \in Sids
    <3>1. buf \in Seq(Sids)
      BY Facts DEF CalmLog
    <3>2. Len(buf) \in 1..Len(buf)
      BY <1>4, <3>1
    <3> QED
      BY <3>1, <3>2 DEF Last
  <2> QED
    BY <1>1, <2>1, <2>3, <2>4, <2>5 DEF There
<1> QED
  BY <1>2, <1>3, <1>4

\* The buffer is written.
Flushes ==
  /\ cur' = Written(cur) /\ old' = old /\ new' = new
  /\ buf' = <<>>

LEMMA FlushFinds ==
  ASSUME CalmLog, Flushes
  PROVE  /\ buf = <<>> => Found' = Found
         /\ buf # <<>> => Found' = maxSid
<1>1. /\ cur'.exists = cur.exists /\ (buf = <<>> => cur' = cur)
      /\ buf # <<>> => Position(cur') = maxSid
  BY WrittenIs, WrittenCalm DEF Flushes, CalmLog
<1>2. CASE buf = <<>>
  BY <1>1, <1>2 DEF Flushes, Found, There
<1>3. CASE buf # <<>>
  <2>1. cur.exists
    BY <1>3, FoundCalm
  <2>2. Found' = Position(cur')
    BY <1>1, <2>1 DEF Found, There
  <2> QED
    BY <1>1, <1>3, <2>2
<1> QED
  BY <1>2, <1>3

\* Files are moved and removed.
Moves ==
  /\ maxSid' = maxSid /\ buf' = buf
  /\ Settled /\ Settled'
  /\ buf # <<>> => cur' = cur

LEMMA MoveFinds ==
  ASSUME CalmLog, CalmLog', Moves
  PROVE  /\ buf = <<>> => {Found, Found'} \subseteq {NoHead, maxSid}
         /\ buf # <<>> => Found' = Found
<1>1. CASE buf = <<>>
  <2>1. Found \in {NoHead, maxSid}
    BY <1>1, FoundCalm DEF Moves
  <2>2. CalmLog' => (Settled' /\ buf' = <<>> => Found' \in {NoHead, maxSid'})
    <3>1. CalmLog' => (Settled /\ buf = <<>> => Found \in {NoHead, maxSid})'
      BY FoundCalm, PTL
    <3> QED
      BY <3>1 DEF NoHead
  <2>3. Found' \in {NoHead, maxSid}
    BY <1>1, <2>2 DEF Moves
  <2> QED
    BY <1>1, <2>1, <2>3
<1>2. CASE buf # <<>>
  <2>1. cur.exists /\ cur' = cur
    BY <1>2, FoundCalm DEF Moves
  <2> QED
    BY <1>2, <2>1 DEF Found, There
<1> QED
  BY <1>1, <1>2

\* The same position is found.
Keeps == Found' = Found /\ buf' = buf


\* A line is logged.
Logs(s) == Found' = Found /\ Found # NoHead /\ buf' = Append(buf, s)

\* The files are gone.
Removes == RemoveStep /\ Found' = NoHead /\ buf = <<>> /\ buf' = <<>>

LEMMA LoadFinds ==
  ASSUME LogInv, Load
  PROVE  Found' = Found
<1>1. CASE There.exists
  <2>1. cur' = There
    BY <1>1, <1>1 DEF Load, Chosen, There
  <2> QED
    BY <1>1, <2>1 DEF Found, There
<1>2. CASE ~There.exists
  <2>1. There.head = NoHead
    BY <1>2, FoundIs, KindsOK DEF FileOK
  <2>2. cur' = Empty
    BY <1>2 DEF Load, Chosen, There
  <2>3. Found' = Position(Empty)
    BY <2>2, KindsOK DEF Found, There
  <2> QED
    BY <2>1, <2>3, FoundIs, PositionIs, KindsOK
<1> QED
  BY <1>1, <1>2

\* Every step is of one of these kinds.
LEMMA StepKinds ==
  ASSUME FlushRecord <= StdioLines, CalmLog, CalmLog', [Next]_vars
  PROVE  \/ Keeps /\ Running' = Running
         \/ Keeps /\ ~Running /\ Running'
         \/ \E s \in Sids : Logs(s) /\ Running /\ Running'
         \/ Flushes /\ Running
         \/ Found' = Found /\ buf' = <<>> /\ Running /\ ~Running'
         \/ Moves /\ Running /\ Running'
         \/ Removes /\ Running /\ Running'
<1>0. LogInv /\ CalmInv /\ ~harsh /\ ~harsh'
  BY DEF CalmLog
<1>b. pc \notin Buffering => buf = <<>>
  BY <1>0 DEF LogInv, BufOK
<1>1. CASE UNCHANGED vars
  BY <1>1 DEF vars, files, mem, Keeps, Found, There, Running
<1>2. ASSUME NEW s \in Sids, Create(s)  PROVE Keeps /\ Running' = Running
  BY <1>0, <1>2 DEF Create, files, Keeps, Found, There, Running
<1>3. ASSUME NEW s \in Sids, Log(s)  PROVE Logs(s) /\ Running /\ Running'
  <2>1. cur' = cur /\ buf' = Append(buf, s)
    BY <1>0, <1>3, LineCalm
  <2>2. cur.exists /\ cur.head # NoHead /\ pc = "open" /\ pc' \in {"open", "flush", "create"}
    BY <1>0, <1>3 DEF Log, LogInv, StageOK, Switch
  <2>3. Found # NoHead
    BY <1>0, <2>2, FoundIs DEF There
  <2> QED
    BY <1>0, <2>1, <2>2, <2>3 DEF Logs, Found, There, Running
<1>4. CASE FlushLogged \/ SyncFile \/ CloseCurrent
  BY <1>0, <1>4 DEF FlushLogged, SyncFile, CloseCurrent, FlushOrNot, Flush, Flushes, Running
<1>5. CASE LogFails
  <2>1. pc = "open" /\ Len(buf) <= count /\ count < FlushRecord /\ Len(buf) = StdioLines
    BY <1>0, <1>5, Facts DEF LogFails, CalmInv
  <2> QED
    BY <1>0, <2>1, Facts
<1>6. CASE CreateNew \/ WriteNew \/ RemoveOld
  BY <1>0, <1>6 DEF CreateNew, WriteNew, RemoveOld, mem, Moves, Settled, Running
<1>7. CASE MoveCurrent \/ MoveNew \/ Reopen \/ RemoveCur \/ RemoveOldToo
  <2>1. pc \notin Buffering /\ maxSid' = maxSid /\ buf' = buf
    BY <1>7 DEF MoveCurrent, MoveNew, Reopen, RemoveCur, RemoveOldToo, mem, Buffering
  <2>2. Settled /\ Settled' /\ Running /\ Running'
    BY <1>0, <1>7 DEF MoveCurrent, MoveNew, Reopen, RemoveCur, RemoveOldToo, Settled, Running
  <2> QED
    BY <1>b, <2>1, <2>2 DEF Moves
<1>8. CASE SaveFails
  BY <1>0, <1>8 DEF SaveFails, Flush, LogInv, StageOK, Flushes, Running
<1>9. CASE Load
  BY <1>0, <1>9, LoadFinds DEF Load, mem, Keeps, Running
<1>10. CASE CleanOld \/ CleanNew
  BY <1>0, <1>10 DEF CleanOld, CleanNew, mem, LogInv, StageOK, Keeps, Found, There, Running
<1>11. CASE Read
  BY <1>0, <1>b, <1>11 DEF Read, files, Buffering, Keeps, Found, There, Running
<1>12. CASE ReadNothing
  <2>1. cur.exists /\ cur.head = NoHead /\ old = Absent /\ new = Absent /\ FileOK(cur)
    BY <1>0, <1>12, Facts DEF ReadNothing, LogInv, StageOK
  <2>2. cur' \in {cur, Absent} /\ old' = Absent /\ new' = Absent
    BY <1>12, <2>1 DEF ReadNothing
  <2>3. Found = NoHead /\ Found' = NoHead
    BY <2>1, <2>2, PositionIs, KindsOK DEF Found, There
  <2> QED
    BY <1>0, <1>b, <1>12, <2>3 DEF ReadNothing, Buffering, Keeps, Running
<1>13. CASE CloseToRemove
  <2>1. Flushes /\ Running'
    BY <1>0, <1>13 DEF CloseToRemove, Flush, Flushes, Running
  <2>2. CASE pc = "open"
    BY <1>0, <2>1, <2>2 DEF Running
  <2>3. CASE pc = "failed"
    <3>1. buf = <<>>
      BY <1>b, <2>3 DEF Buffering
    <3>2. Found' = Found /\ buf' = buf
      BY <2>1, <3>1, FlushFinds DEF Flushes
    <3> QED
      BY <2>1, <2>3, <3>2 DEF Keeps, Running
  <2> QED
    BY <1>13, <2>2, <2>3 DEF CloseToRemove
<1>14. CASE RemoveNew
  <2>1. cur' = Absent /\ old' = Absent /\ new' = Absent
    BY <1>0, <1>14 DEF RemoveNew, LogInv, StageOK
  <2>2. Found' = NoHead
    BY <2>1, PositionIs, KindsOK DEF Found, There
  <2> QED
    BY <1>0, <1>b, <1>14, <2>2 DEF RemoveNew, Buffering, Removes, RemoveStep, Running
<1>15. CASE Crash
  <2>1. Found' = Found /\ buf' = <<>> /\ ~Running'
    BY <1>0, <1>15 DEF Crash, Forget, Found, There, Running
  <2>2. ~Running => buf = <<>> /\ Running' = Running
    BY <1>0, <1>b, <1>15 DEF Crash, Forget, Running, Buffering
  <2> QED
    BY <2>1, <2>2 DEF Keeps
<1>16. CASE CleanStop
  BY <1>0, <1>16 DEF CleanStop, Forget, Flushes, Running
<1> QED
  BY <1>1, <1>2, <1>3, <1>4, <1>5, <1>6, <1>7, <1>8, <1>9, <1>10, <1>11, <1>12, <1>13, <1>14,
     <1>15, <1>16 DEF Next, Save, LoadStep, RemoveStep

\* What a flush has written a crash does not take back, and no part of a line is
\* taken for a position, when the lines that wait for a flush fit the buffer
\* (CwxSidLogFile::log, CwxSidLogFile::syncFile, CwxSidLogFile::load).
THEOREM FlushedAlwaysStays ==
  ASSUME FlushRecord <= StdioLines
  PROVE  Spec => FlushedStays
<1>1. LogInv /\ CalmInv /\ LogInv' /\ CalmInv' /\ [Next]_vars =>
        [~harsh /\ Found # NoHead => Found' \in {Found, maxSid} \/ RemoveStep]_vars
  <2> SUFFICES ASSUME LogInv, CalmInv, LogInv', CalmInv', [Next]_vars, ~harsh, Found # NoHead,
                      ~RemoveStep
               PROVE  Found' \in {Found, maxSid}
    OBVIOUS
  <2>1. CalmLog /\ CalmLog'
    BY DEF CalmLog, Next, vars
  <2>2. Found' # NoHead
    <3>1. There.head # NoHead
      BY FoundIs
    <3>2. There'.head # NoHead
      BY <3>1, HeadStays
    <3>3. LogInv' => (Found = NoHead <=> There.head = NoHead)'
      BY FoundIsPrimed, PTL
    <3> QED
      BY <3>2, <3>3
  <2>3. CASE Flushes
    BY <2>1, <2>3, FlushFinds
  <2>4. CASE Moves
    BY <2>1, <2>2, <2>4, MoveFinds
  <2> QED
    BY <2>1, <2>3, <2>4, StepKinds DEF Keeps, Logs, Removes
<1> QED
  BY <1>1, LogInit, LogStep, CalmInit, CalmStep, PTL DEF Spec, FlushedStays

(***************************************************************************)
(* The refinement.                                                         *)
(***************************************************************************)
\* The last of a list of candidates, and all of them, may be what remains.
LEMMA SaferIs ==
  ASSUME NEW D, NEW s \in Seq(D), s # <<>>
  PROVE  /\ s \in Abs!Safer(s) /\ <<s[Len(s)]>> \in Abs!Safer(s)
         /\ s[1] \in Abs!ToSet(s) /\ s[Len(s)] \in Abs!ToSet(s)
<1>1. Len(s) \in Nat /\ Len(s) >= 1
  OBVIOUS
<1>2. SubSeq(s, 1, Len(s)) = s
  BY <1>1
<1>3. SubSeq(s, Len(s), Len(s)) = <<s[Len(s)]>>
  <2>1. PICK n \in 1..Len(s) : n = Len(s)
    BY <1>1
  <2>2. PICK t : t = SubSeq(s, n, n)
    OBVIOUS
  <2>3. t \in Seq(D) /\ Len(t) = 1 /\ t[1] = s[n]
    BY <1>1, <2>1, <2>2, SubSeqProperties
  <2>4. t = <<s[n]>>
    BY <2>3
  <2> QED
    BY <2>1, <2>2, <2>4
<1>4. 1 \in 1..Len(s) /\ Len(s) \in 1..Len(s)
  BY <1>1
<1>5. s \in Abs!Safer(s)
  BY <1>2, <1>4 DEF Abs!Safer
<1>6. <<s[Len(s)]>> \in Abs!Safer(s)
  BY <1>3, <1>4 DEF Abs!Safer
<1>7. s[1] \in Abs!ToSet(s) /\ s[Len(s)] \in Abs!ToSet(s)
  BY <1>4 DEF Abs!ToSet
<1> QED
  BY <1>5, <1>6, <1>7

\* The candidates when something is found.
LEMMA CandidatesAre ==
  ASSUME CalmLog
  PROVE  /\ Found = NoHead => Candidates = <<>> /\ buf = <<>>
         /\ Found # NoHead => /\ Candidates = <<Found>> \o buf
                              /\ Candidates \in Seq(Sids) /\ Candidates # <<>>
                              /\ Candidates[1] = Found
                              /\ buf # <<>> => Candidates[Len(Candidates)] = maxSid
                              /\ buf = <<>> => Candidates = <<Found>>
<1>1. CASE Found = NoHead
  BY <1>1, FoundCalm DEF Candidates
<1>2. CASE Found # NoHead
  <2>1. Found \in Sids /\ buf \in Seq(Sids) /\ Candidates = <<Found>> \o buf
    BY <1>2, FoundCalm, Facts DEF Candidates, CalmLog
  <2>2. PICK s : s = <<Found>> \o buf
    OBVIOUS
  <2>3. /\ s \in Seq(Sids) /\ Len(s) = 1 + Len(buf) /\ Len(buf) \in Nat
        /\ s[1] = Found /\ \A i \in 1..Len(buf) : s[1 + i] = buf[i]
    <3>1. <<Found>> \in Seq(Sids) /\ Len(<<Found>>) = 1
      BY <2>1
    <3>2. PICK h \in Seq(Sids) : h = <<Found>> /\ Len(h) = 1 /\ h[1] = Found
      BY <3>1
    <3>3. s = h \o buf
      BY <2>2, <3>2
    <3> QED
      BY <2>1, <3>2, <3>3
  <2>4. s # <<>>
    BY <2>3
  <2>5. buf # <<>> => s[Len(s)] = maxSid
    <3> SUFFICES ASSUME buf # <<>> PROVE s[Len(s)] = maxSid
      OBVIOUS
    <3>1. Len(buf) \in 1..Len(buf)
      BY <2>1
    <3> QED
      BY <2>3, <3>1, FoundCalm DEF Last
  <2>6. buf = <<>> => s = <<Found>>
    BY <2>1, <2>2
  <2> QED
    BY <1>2, <2>1, <2>2, <2>3, <2>4, <2>5, <2>6
<1> QED
  BY <1>1, <1>2

LEMMA CandidatesPrimed ==
  CalmLog =>
    /\ Found = NoHead => Candidates = <<>> /\ buf = <<>>
    /\ Found # NoHead => /\ Candidates = <<Found>> \o buf
                         /\ buf = <<>> => Candidates = <<Found>>
  BY CandidatesAre

\* A step of the position file is one of the position log, or changes nothing
\* that its owner can tell.
LEMMA AbsStep ==
  FlushRecord <= StdioLines /\ LogInv /\ CalmInv /\ LogInv' /\ CalmInv' /\ [Next]_vars =>
    [Abs!Next]_(Abs!vars)
<1> SUFFICES ASSUME FlushRecord <= StdioLines, LogInv, CalmInv, LogInv', CalmInv', [Next]_vars
             PROVE  Abs!Next \/ (Running' = Running /\ Candidates' = Candidates)
  BY DEF Abs!vars
<1>1. CASE harsh
  BY <1>1 DEF Running, Candidates, Next, vars
<1>2. CASE ~harsh
  <2>1. CalmLog /\ CalmLog'
    BY <1>2 DEF CalmLog, Next, vars
  <2>2. /\ Found = NoHead => Candidates = <<>> /\ buf = <<>>
        /\ Found # NoHead => /\ Candidates = <<Found>> \o buf
                             /\ Candidates \in Seq(Sids) /\ Candidates # <<>>
                             /\ Candidates[1] = Found
                             /\ buf # <<>> => Candidates[Len(Candidates)] = maxSid
                             /\ buf = <<>> => Candidates = <<Found>>
    BY <2>1, CandidatesAre
  <2>3. /\ Found' = NoHead => Candidates' = <<>> /\ buf' = <<>>
        /\ Found' # NoHead => /\ Candidates' = <<Found'>> \o buf'
                              /\ buf' = <<>> => Candidates' = <<Found'>>
    <3>1. CalmLog' => (/\ Found = NoHead => Candidates = <<>> /\ buf = <<>>
                       /\ Found # NoHead => /\ Candidates = <<Found>> \o buf
                                            /\ buf = <<>> => Candidates = <<Found>>)'
      BY CandidatesPrimed, PTL
    <3> QED
      BY <2>1, <3>1
  <2>4. Found # NoHead =>
          /\ Candidates \in Abs!Safer(Candidates)
          /\ <<Candidates[Len(Candidates)]>> \in Abs!Safer(Candidates)
          /\ Candidates[1] \in Abs!ToSet(Candidates)
          /\ Candidates[Len(Candidates)] \in Abs!ToSet(Candidates)
    BY <2>2, SaferIs
  <2>5. CASE Keeps /\ Running' = Running
    <3>1. Candidates' = Candidates
      BY <2>2, <2>3, <2>5 DEF Keeps
    <3> QED
      BY <2>5, <3>1
  <2>6. CASE Keeps /\ ~Running /\ Running'
    <3>1. Candidates' = Candidates
      BY <2>2, <2>3, <2>6 DEF Keeps
    <3>2. Running' = TRUE
      BY <2>6 DEF Running
    <3> QED
      BY <2>6, <3>1, <3>2 DEF Abs!Next, Abs!Start
  <2>7. ASSUME NEW s \in Sids, Logs(s), Running, Running'  PROVE Abs!Next
    <3>1. Candidates' = Append(Candidates, s)
      <4>1. Candidates' = <<Found>> \o Append(buf, s) /\ Candidates = <<Found>> \o buf
        BY <2>2, <2>3, <2>7 DEF Logs
      <4>2. buf \in Seq(Sids) /\ Found \in Sids
        BY <2>1, <2>7, Facts, FoundCalm DEF CalmLog, Logs
      <4>3. <<Found>> \o Append(buf, s) = Append(<<Found>> \o buf, s)
        BY <4>2
      <4> QED
        BY <4>1, <4>3
    <3>2. Append(Candidates, s) \in Seq(Sids) /\ Append(Candidates, s) # <<>>
      BY <2>2, <2>7, AppendProperties DEF Logs
    <3>3. Candidates' \in Abs!Safer(Append(Candidates, s))
      BY <3>1, <3>2, SaferIs
    <3>4. Candidates # <<>> /\ Running' = Running
      BY <2>2, <2>7 DEF Logs, Running
    <3> QED
      BY <2>7, <3>3, <3>4 DEF Abs!Next, Abs!Log
  <2>8. CASE (Flushes \/ (Found' = Found /\ buf' = <<>> /\ ~Running')) /\ Running
    <3>1. buf' = <<>> /\ (Found' = Found \/ (buf # <<>> /\ Found' = maxSid))
      BY <2>1, <2>8, FlushFinds DEF Flushes
    <3>2. CASE Found = NoHead
      <4>1. Candidates = <<>> /\ Candidates' = <<>>
        BY <2>2, <2>3, <3>1, <3>2
      <4>2. CASE Running'
        BY <2>8, <4>1, <4>2 DEF Running
      <4>3. CASE ~Running'
        <5>1. Running' = FALSE
          BY <4>3 DEF Running
        <5> QED
          BY <2>8, <4>1, <5>1 DEF Abs!Next, Abs!Stop
      <4> QED
        BY <4>2, <4>3
    <3>3. CASE Found # NoHead
      <4>1. Found' # NoHead
        BY <2>1, <3>1, <3>3, FoundCalm, BoundsAssumption DEF Sids, NoHead
      <4>2. /\ Candidates' = <<Found'>>
            /\ Found' = Candidates[1] \/ (buf # <<>> /\ Found' = Candidates[Len(Candidates)])
        BY <2>2, <2>3, <3>1, <3>3, <4>1
      <4>3. CASE ~Running'
        <5>1. Running' = FALSE
          BY <4>3 DEF Running
        <5>2. \E p \in Abs!ToSet(Candidates) : Candidates' = <<p>>
          BY <2>4, <3>3, <4>2
        <5> QED
          BY <2>8, <5>1, <5>2 DEF Abs!Next, Abs!Stop
      <4>4. CASE Running'
        <5>1. Running' = Running /\ Flushes
          BY <2>8, <4>4 DEF Running
        <5>2. CASE buf = <<>>
          <6>1. Candidates' = Candidates
            BY <2>1, <2>2, <3>3, <4>2, <5>1, <5>2, FlushFinds
          <6> QED
            BY <5>1, <6>1
        <5>3. CASE buf # <<>>
          <6>1. Candidates' = <<Candidates[Len(Candidates)]>>
            BY <2>1, <2>2, <3>3, <4>2, <5>1, <5>3, FlushFinds
          <6> QED
            BY <2>4, <2>8, <3>3, <5>1, <6>1 DEF Abs!Next, Abs!Sync
        <5> QED
          BY <5>2, <5>3
      <4> QED
        BY <4>3, <4>4
    <3> QED
      BY <3>2, <3>3
  <2>9. CASE (Moves \/ Removes) /\ Running /\ Running'
    <3>1. Running' = Running
      BY <2>9 DEF Running
    <3>2. CASE Moves /\ buf # <<>>
      <4>1. Found' = Found /\ buf' = buf
        BY <2>1, <3>2, MoveFinds DEF Moves
      <4>2. Candidates' = Candidates
        BY <2>2, <2>3, <4>1
      <4> QED
        BY <3>1, <4>2
    <3>3. CASE Removes \/ (Moves /\ buf = <<>>)
      <4>1. /\ buf = <<>> /\ buf' = <<>>
            /\ Found' = NoHead \/ ({Found, Found'} \subseteq {NoHead, maxSid})
        BY <2>1, <3>3, MoveFinds DEF Moves, Removes
      <4>2. CASE Found' = NoHead
        <5>1. Candidates' = <<>>
          BY <2>3, <4>2
        <5>2. CASE Found = NoHead
          BY <2>2, <3>1, <5>1, <5>2
        <5>3. CASE Found # NoHead
          BY <2>2, <2>9, <3>1, <5>1, <5>3 DEF Abs!Next, Abs!Drop
        <5> QED
          BY <5>2, <5>3
      <4>3. CASE Found' # NoHead
        <5>1. Found' = maxSid /\ Candidates' = <<maxSid>>
          BY <2>3, <4>1, <4>3
        <5>2. CASE Found # NoHead
          <6>1. Candidates = <<maxSid>>
            BY <2>2, <4>1, <4>3, <5>2
          <6> QED
            BY <3>1, <5>1, <6>1
        <5>3. CASE Found = NoHead
          <6>1. CalmLog' => (Found # NoHead => Found \in Sids)'
            BY FoundCalm, PTL
          <6>2. maxSid \in Sids
            BY <2>1, <4>3, <5>1, <6>1 DEF Sids
          <6> QED
            BY <2>2, <2>9, <3>1, <5>1, <5>3, <6>2 DEF Abs!Next, Abs!Create
        <5> QED
          BY <5>2, <5>3
      <4> QED
        BY <4>2, <4>3
    <3> QED
      BY <2>9, <3>2, <3>3 DEF Removes
  <2> QED
    BY <2>1, <2>5, <2>6, <2>7, <2>8, <2>9, StepKinds
<1> QED
  BY <1>1, <1>2

LEMMA AbsInit == Init => Abs!Init
  BY KindsOK, PositionIs DEF Init, Abs!Init, Running, Candidates, Found, There

\* Unless the world is harsh, the files with all the steps of save() and load(),
\* interrupted anywhere, are a position log: its owner finds the last safe
\* position or a later one that it has logged (class CwxSidLogFile).
THEOREM SidLogIsPositionLog ==
  ASSUME FlushRecord <= StdioLines
  PROVE  Spec => ImplementsPositionLog
  BY LogInit, LogStep, CalmInit, CalmStep, AbsInit, AbsStep, PTL
  DEF Spec, ImplementsPositionLog, Abs!Spec
=============================================================================
