---------------------------- MODULE BinLogProofs ----------------------------
(***************************************************************************)
(* Theorems about BinLog that hold for every value of its constants.          *)
(*                                                                         *)
(* Disk errors and oversized records included: the type invariant, the order *)
(* of the sids along the files, m_ullMaxSid being the newest of them; a seek  *)
(* finds what it looks for, and pruning never drops a message that a cursor   *)
(* has still to read.                                                       *)
(*                                                                         *)
(* As long as no disk operation returns an error, and wherever the process   *)
(* dies: init() accepts what it finds, m_ullMinSid is the oldest managed sid, *)
(* no cursor is out of range and none passes over a message, and every step  *)
(* of the manager is one of MessageLog or nothing its users can see.          *)
(***************************************************************************)
EXTENDS BinLogRefinement, SequenceTheorems, FiniteSetTheorems, WellFoundedInduction, TLAPS

(***************************************************************************)
(* Sequences and files.                                                    *)
(***************************************************************************)
LEMMA AppendFacts ==
  ASSUME NEW S, NEW q \in Seq(S), NEW e \in S
  PROVE  /\ Append(q, e) \in Seq(S)
         /\ Append(q, e) # <<>>
         /\ Len(Append(q, e)) = Len(q) + 1
         /\ \A i \in 1..Len(q) : Append(q, e)[i] = q[i]
         /\ Append(q, e)[Len(q) + 1] = e
  OBVIOUS

LEMMA UptoFacts ==
  ASSUME NEW S, NEW q \in Seq(S), NEW n \in Nat
  PROVE  /\ Upto(q, n) \in Seq(S)
         /\ Len(Upto(q, n)) <= Len(q)
         /\ \A i \in 1..Len(Upto(q, n)) : Upto(q, n)[i] = q[i]
<1> DEFINE m == IF n < Len(q) THEN n ELSE Len(q)
<1>1. m \in Nat /\ m <= Len(q)
  OBVIOUS
<1>2. \A i \in 1..m : q[i] \in S
  BY <1>1
<1> HIDE DEF m
<1>3. /\ SubSeq(q, 1, m) \in Seq(S)
      /\ Len(SubSeq(q, 1, m)) = m
      /\ \A i \in 1..m : SubSeq(q, 1, m)[i] = q[i]
  BY <1>1, <1>2, SubSeqProperties
<1>4. Upto(q, n) = SubSeq(q, 1, m)
  BY DEF Upto, m
<1> QED
  BY <1>1, <1>3, <1>4

\* The first and the last sid of a file are sids, or 0.
LEMMA EndsType ==
  ASSUME NEW q \in Seq(Sids)
  PROVE  First(q) \in 0..MaxSid /\ Newest(q) \in 0..MaxSid
<1>1. CASE q = <<>>
  BY <1>1, BoundsAssumption DEF First, Newest
<1>2. CASE q # <<>>
  <2>1. Len(q) \in Nat /\ Len(q) >= 1
    BY <1>2
  <2>2. q[1] \in Sids /\ q[Len(q)] \in Sids
    BY <2>1
  <2> QED
    BY <1>2, <2>2, BoundsAssumption DEF First, Newest, Sids
<1> QED
  BY <1>1, <1>2


\* A set of file numbers that is not empty has a least one.
LEMMA LeastExists ==
  ASSUME NEW S \in SUBSET FileNos, S # {}
  PROVE  \E f \in S : IsLeast(f, S)
<1> DEFINE R == {ss \in Nat \X Nat : ss[1] < ss[2]}
<1>1. IsWellFoundedOn(R, Nat)
  BY NatLessThanWellFounded DEF OpToRel
<1>2. S \subseteq Nat
  BY DEF FileNos
<1> HIDE DEF R
<1>3. PICK f \in S : \A g \in S : <<g, f>> \notin R
  BY <1>1, <1>2, WFMin
<1>4. ASSUME NEW g \in S  PROVE f <= g
  <2>1. g \in Nat /\ f \in Nat
    BY <1>2
  <2>2. ~(g < f)
    BY <1>3, <2>1 DEF R
  <2> QED
    BY <2>1, <2>2
<1> QED
  BY <1>4 DEF IsLeast

LEMMA MinOfType ==
  ASSUME TypeOK, NEW S \in SUBSET FileNos
  PROVE  MinOf(S) \in 0..MaxSid
<1>1. ASSUME NEW f \in FileNos  PROVE FileMin(f) \in 0..MaxSid
  BY <1>1, EndsType DEF TypeOK, FileMin
<1>2. CASE \E f \in S : IsLeast(f, S)
  <2>1. (CHOOSE f \in S : IsLeast(f, S)) \in S
    BY <1>2
  <2> QED
    BY <1>1, <1>2, <2>1 DEF MinOf
<1>3. CASE ~ \E f \in S : IsLeast(f, S)
  BY <1>3, BoundsAssumption DEF MinOf
<1> QED
  BY <1>2, <1>3

(***************************************************************************)
(* Layouts.                                                                *)
(***************************************************************************)
LayoutType ==
  [cur : 1..MaxFile, managed : SUBSET FileNos, disk : SUBSET FileNos, low : 0..MaxSid]

LEMMA RolledType ==
  ASSUME TypeOK, NEW p, CanRoll(p), p.cur \in 0..MaxFile,
         p.managed \in SUBSET FileNos, p.disk \in SUBSET FileNos
  PROVE  Rolled(p) \in LayoutType
<1> DEFINE all == p.managed \cup {p.cur + 1}
<1>1. p.cur + 1 \in 1..MaxFile
  BY BoundsAssumption DEF CanRoll
<1>2. all \in SUBSET FileNos
  BY <1>1 DEF FileNos
<1>3. Kept(all) \in SUBSET FileNos
  BY <1>2 DEF Kept
<1>4. MinOf(Kept(all)) \in 0..MaxSid
  BY <1>3, MinOfType
<1>5. ((p.disk \cup {p.cur + 1}) \ (IF DelOut THEN all \ Kept(all) ELSE {})) \in SUBSET FileNos
  BY <1>1 DEF FileNos
<1> HIDE DEF all
<1>6. Rolled(p) = [cur     |-> p.cur + 1,
                   managed |-> Kept(all),
                   disk    |-> (p.disk \cup {p.cur + 1}) \ (IF DelOut THEN all \ Kept(all) ELSE {}),
                   low     |-> MinOf(Kept(all))]
  BY DEF Rolled, all
<1> QED
  BY <1>1, <1>3, <1>4, <1>5, <1>6 DEF LayoutType

\* An append stays in the current file or goes to the one after it.
LEMMA PlacesType ==
  ASSUME TypeOK, NEW p \in Places
  PROVE  /\ p \in LayoutType
         /\ p.cur \in FileNos
         /\ p.cur = cur \/ p.cur = cur + 1
<1>1. CASE cur = 0
  <2>1. p = FirstFile
    BY <1>1 DEF Places
  <2> QED
    BY <1>1, <2>1, BoundsAssumption DEF FirstFile, LayoutType, TypeOK, FileNos
<1>2. CASE cur # 0 /\ p = Here
  BY <1>2, BoundsAssumption DEF Here, LayoutType, TypeOK, FileNos
<1>3. CASE cur # 0 /\ p = Rolled(Here) /\ CanRoll(Here)
  <2>1. Here.cur = cur /\ Here.managed = managed /\ Here.disk = disk
    BY DEF Here
  <2>2. p \in LayoutType
    BY <1>3, <2>1, RolledType DEF TypeOK
  <2>3. p.cur = cur + 1
    BY <1>3, <2>1 DEF Rolled
  <2> QED
    BY <2>2, <2>3 DEF LayoutType, FileNos
<1>4. p = Here \/ (p = Rolled(Here) /\ CanRoll(Here)) \/ cur = 0
  BY DEF Places
<1> QED
  BY <1>1, <1>2, <1>3, <1>4

LEMMA SyncedAtType ==
  ASSUME TypeOK, NEW p
  PROVE  SyncedAt(p) \in [FileNos -> Nat]
<1>1. \A f \in FileNos : Len(data[f]) \in Nat
  BY DEF TypeOK
<1> QED
  BY <1>1 DEF TypeOK, SyncedAt


(***************************************************************************)
(* Type correctness.                                                       *)
(***************************************************************************)
LEMMA TypeInit == Init => TypeOK
<1> SUFFICES ASSUME Init PROVE TypeOK
  OBVIOUS
<1>1. NoCursor \in CursorType
  BY BoundsAssumption DEF NoCursor, CursorType, CursorRecord
<1>2. data \in [FileNos -> Seq(Sids)]
  BY DEF Init
<1>3. /\ tail \in [FileNos -> 0..MaxSid] /\ synced \in [FileNos -> Nat]
      /\ cur \in 0..MaxFile /\ minSid \in 0..MaxSid /\ maxSid \in 0..MaxSid
      /\ unflushed \in 0..FlushNum
  BY BoundsAssumption DEF Init
<1>4. cursor \in [Cursors -> CursorType]
  BY <1>1 DEF Init
<1> QED
  BY <1>2, <1>3, <1>4 DEF Init, TypeOK

\* What is common to the outcomes of a call to append().
LEMMA PlaceType ==
  ASSUME TypeOK, NEW p \in LayoutType, Place(p)
  PROVE  cur' \in 0..MaxFile /\ managed' \subseteq FileNos /\ disk' \subseteq FileNos
  BY DEF Place, LayoutType, FileNos

LEMMA TypeAppendRecord ==
  ASSUME TypeOK, NEW s \in Sids, AppendRecord(s)
  PROVE  TypeOK'
<1>1. PICK p \in Places, timeUp \in BOOLEAN, flushOk \in BOOLEAN :
        /\ Place(p)
        /\ data' = [data EXCEPT ![p.cur] = Append(@, s)]
        /\ Overwrite(p.cur, s, 0)
        /\ minSid' = IF p.low = 0 THEN s ELSE p.low
        /\ maxSid' = s
        /\ AutoCommit(p.cur, timeUp, flushOk)
  BY DEF AppendRecord
<1>2. /\ p \in LayoutType
      /\ p.cur \in FileNos
  BY PlacesType
<1>3. data' \in [FileNos -> Seq(Sids)]
  <2>1. data[p.cur] \in Seq(Sids)
    BY <1>2 DEF TypeOK
  <2>2. Append(data[p.cur], s) \in Seq(Sids)
    BY <2>1, AppendFacts
  <2> QED
    BY <1>1, <2>2 DEF TypeOK
<1>4. tail' \in [FileNos -> 0..MaxSid] /\ junk' \subseteq FileNos
  BY <1>1, <1>2, BoundsAssumption DEF Overwrite, TypeOK
<1>5. minSid' \in 0..MaxSid /\ maxSid' \in 0..MaxSid
  BY <1>1, <1>2, BoundsAssumption DEF LayoutType, Sids
<1>6. synced' \in [FileNos -> Nat] /\ unflushed' \in 0..FlushNum /\ bad' \subseteq FileNos
  <2>1. SyncedAt([cur |-> p.cur]) \in [FileNos -> Nat]
    BY SyncedAtType
  <2>2. Len(data[p.cur]) + 1 \in Nat
    BY <1>2 DEF TypeOK
  <2> DEFINE left == SyncedAt([cur |-> p.cur])
  <2>5. [left EXCEPT ![p.cur] = Len(data[p.cur]) + 1] \in [FileNos -> Nat]
    BY <2>1, <2>2
  <2>6. bad \subseteq FileNos /\ bad \cup {p.cur} \subseteq FileNos
    BY <1>2 DEF TypeOK
  <2>3. CASE unflushed + 1 > FlushNum \/ timeUp
    <3>1. unflushed' = 0
      BY <1>1, <2>3 DEF AutoCommit
    <3>2. synced' = left \/ synced' = [left EXCEPT ![p.cur] = Len(data[p.cur]) + 1]
      BY <1>1, <2>3 DEF AutoCommit
    <3>3. bad' = bad \/ bad' = bad \cup {p.cur}
      BY <1>1, <2>3 DEF AutoCommit
    <3> QED
      BY <2>1, <2>5, <2>6, <3>1, <3>2, <3>3, BoundsAssumption
  <2>4. CASE ~(unflushed + 1 > FlushNum \/ timeUp)
    BY <1>1, <1>2, <2>1, <2>4, BoundsAssumption DEF AutoCommit, TypeOK
  <2> QED
    BY <2>3, <2>4
<1>7. cur' \in 0..MaxFile /\ managed' \subseteq FileNos /\ disk' \subseteq FileNos
  BY <1>1, <1>2, PlaceType
<1>8. UNCHANGED <<status, valid, cursor>>
  BY DEF AppendRecord
<1> QED
  BY <1>3, <1>4, <1>5, <1>6, <1>7, <1>8 DEF TypeOK

LEMMA TypeAppendFails ==
  ASSUME TypeOK, NEW s \in Sids, AppendFails(s)
  PROVE  TypeOK'
<1>1. PICK p \in Places :
        /\ Place(p)
        /\ minSid' = p.low
        /\ synced' = SyncedAt(p)
        /\ \/ UNCHANGED <<tail, junk>>
           \/ Overwrite(p.cur, s, s)
        /\ bad' \in {bad, bad \cup {p.cur}}
        /\ valid' \in BOOLEAN
  BY DEF AppendFails, CutShort
<1>2. /\ p \in LayoutType
      /\ p.cur \in FileNos
  BY PlacesType
<1>3. tail' \in [FileNos -> 0..MaxSid] /\ junk' \subseteq FileNos
  <2>1. CASE UNCHANGED <<tail, junk>>
    BY <2>1 DEF TypeOK
  <2>2. CASE Overwrite(p.cur, s, s)
    <3>1. s \in 0..MaxSid
      BY BoundsAssumption DEF Sids
    <3>2. tail' = [tail EXCEPT ![p.cur] = s]
      BY <2>2 DEF Overwrite
    <3>3. junk' \subseteq junk \cup {p.cur}
      BY <2>2 DEF Overwrite
    <3> QED
      BY <1>2, <3>1, <3>2, <3>3 DEF TypeOK
  <2> QED
    BY <1>1, <2>1, <2>2
<1>4. synced' \in [FileNos -> Nat]
  BY <1>1, SyncedAtType
<1>5. cur' \in 0..MaxFile /\ managed' \subseteq FileNos /\ disk' \subseteq FileNos
  BY <1>1, <1>2, PlaceType
<1>6. minSid' \in 0..MaxSid /\ bad' \subseteq FileNos
  BY <1>1, <1>2 DEF LayoutType, TypeOK
<1>7. UNCHANGED <<status, data, maxSid, unflushed, cursor>>
  BY DEF AppendFails
<1> QED
  BY <1>1, <1>3, <1>4, <1>5, <1>6, <1>7 DEF TypeOK

LEMMA TypeAppendOversize ==
  ASSUME TypeOK, NEW s \in Sids, AppendOversize(s)
  PROVE  TypeOK'
<1>1. PICK p \in Places \cup (IF cur = 0 THEN {} ELSE {Here}) :
        /\ CanRoll(p)
        /\ Place(Rolled(p))
        /\ minSid' = Rolled(p).low
        /\ synced' = SyncedAt(Rolled(p))
  BY DEF AppendOversize
<1>2. /\ p.cur \in 0..MaxFile
      /\ p.managed \in SUBSET FileNos
      /\ p.disk \in SUBSET FileNos
  <2>1. CASE p \in Places
    BY <2>1, PlacesType DEF LayoutType, FileNos
  <2>2. CASE p = Here
    BY <2>2 DEF Here, TypeOK
  <2> QED
    BY <2>1, <2>2
<1>3. Rolled(p) \in LayoutType
  BY <1>1, <1>2, RolledType
<1>4. cur' \in 0..MaxFile /\ managed' \subseteq FileNos /\ disk' \subseteq FileNos
  BY <1>1, <1>3, PlaceType
<1>5. synced' \in [FileNos -> Nat]
  BY <1>1, SyncedAtType
<1>6. minSid' \in 0..MaxSid
  BY <1>1, <1>3 DEF LayoutType
<1>7. valid' = FALSE /\ UNCHANGED <<status, data, tail, junk, maxSid, bad, unflushed, cursor>>
  BY DEF AppendOversize
<1> QED
  BY <1>4, <1>5, <1>6, <1>7 DEF TypeOK


LEMMA TypeOtherManagerCalls ==
  ASSUME TypeOK, (\E s \in Sids : CreateFileFails(s)) \/ Commit \/ CommitFails
  PROVE  TypeOK'
<1>1. CASE \E s \in Sids : CreateFileFails(s)
  <2>1. cur + 1 \in FileNos
    BY <1>1, BoundsAssumption DEF CreateFileFails, TypeOK, FileNos
  <2>2. disk' \subseteq FileNos
    BY <1>1, <2>1 DEF CreateFileFails, TypeOK
  <2> QED
    BY <1>1, <2>2 DEF CreateFileFails, TypeOK
<1>2. CASE Commit
  <2>1. cur \in FileNos
    BY <1>2, BoundsAssumption DEF Commit, TypeOK, FileNos
  <2>2. Len(data[cur]) \in Nat
    BY <2>1 DEF TypeOK
  <2>3. synced' \in [FileNos -> Nat]
    BY <1>2, <2>2 DEF Commit, TypeOK
  <2>4. unflushed' \in 0..FlushNum
    BY <1>2, BoundsAssumption DEF Commit
  <2> QED
    BY <1>2, <2>3, <2>4 DEF Commit, TypeOK
<1>3. CASE CommitFails
  <2>1. cur \in FileNos
    BY <1>3, BoundsAssumption DEF CommitFails, TypeOK, FileNos
  <2> QED
    BY <1>3, <2>1 DEF CommitFails, TypeOK, fileVars
<1> QED
  BY <1>1, <1>2, <1>3

\* Cursors: whatever a call does, it leaves a cursor of the right kind.
LEMMA CursorMoveType ==
  ASSUME TypeOK, CursorStep, NEW c \in Cursors, NEW k \in CursorType, Move(c, k)
  PROVE  TypeOK'
<1>1. cursor' \in [Cursors -> CursorType]
  BY DEF Move, TypeOK
<1> QED
  BY <1>1 DEF TypeOK, CursorStep, fileVars, mgrVars

LEMMA BreakType ==
  ASSUME TypeOK, NEW c \in Cursors
  PROVE  [cursor[c] EXCEPT !.st = "error"] \in CursorType
BY DEF TypeOK, CursorType, CursorRecord

LEMMA SidAtType ==
  ASSUME TypeOK, NEW f \in FileNos, NEW i \in Nat
  PROVE  SidAt(f, i) \in 0..MaxSid
<1>1. CASE i \in 1..Len(data[f])
  <2>1. data[f] \in Seq(Sids)
    BY DEF TypeOK
  <2>2. data[f][i] \in Sids
    BY <1>1, <2>1
  <2> QED
    BY <1>1, <2>2, BoundsAssumption DEF SidAt, Sids
<1>2. CASE i \notin 1..Len(data[f])
  <2>1. tail[f] \in 0..MaxSid /\ 0 \in 0..MaxSid
    BY BoundsAssumption DEF TypeOK
  <2> QED
    BY <1>2, <2>1 DEF SidAt
<1> QED
  BY <1>1, <1>2

LEMMA EnterType ==
  ASSUME TypeOK, NEW c \in Cursors, NEW f \in FileNos, NEW i \in Nat, EnterAt(c, f, i)
  PROVE  TypeOK'
<1>1. SidAt(f, i) \in Nat
  BY SidAtType, BoundsAssumption
<1> DEFINE n == SidAt(f, i)
<1> HIDE DEF n
<1>2. f \in 0..MaxFile /\ f # 0
  BY BoundsAssumption DEF FileNos
<1>3. cursor[c] \in CursorRecord
  BY DEF TypeOK, CursorType
<1>4. [cursor[c] EXCEPT !.file = f, !.at = i, !.sid = n] \in CursorType
  BY <1>1, <1>2, <1>3 DEF CursorType, CursorRecord, n
<1> QED
  BY <1>4, CursorMoveType DEF EnterAt, n

LEMMA TypeCursorCall ==
  ASSUME TypeOK, NEW c \in Cursors, CursorCall(c) \/ \E s \in 0..MaxSid : CreateCursor(c, s)
  PROVE  TypeOK'
<1>a. cursor[c] \in CursorRecord
  BY DEF TypeOK, CursorType
<1>1. CASE \E s \in 0..MaxSid : CreateCursor(c, s)
  <2>1. PICK s \in 0..MaxSid : CreateCursor(c, s)
    BY <1>1
  <2>2. NoCursor \in CursorRecord
    BY BoundsAssumption DEF NoCursor, CursorRecord
  <2>3. [NoCursor EXCEPT !.st = "unseek", !.seek = s] \in CursorType
    <3> DEFINE k == [NoCursor EXCEPT !.st = "unseek", !.seek = s]
    <3>1. s \in Nat
      BY BoundsAssumption
    <3>2. k \in CursorRecord
      BY <2>2, <3>1 DEF CursorRecord
    <3>3. k.st = "unseek"
      BY <2>2 DEF CursorRecord
    <3> HIDE DEF k
    <3>4. k \in CursorType
      BY <3>2, <3>3 DEF CursorType
    <3> QED
      BY <3>4 DEF k
  <2> QED
    BY <2>1, <2>3, CursorMoveType DEF CreateCursor
<1>2. CASE DestroyCursor(c)
  <2>1. NoCursor \in CursorType
    BY BoundsAssumption DEF NoCursor, CursorType, CursorRecord
  <2> QED
    BY <1>2, <2>1, CursorMoveType DEF DestroyCursor
<1>3. CASE Seek(c)
  <2> DEFINE f == SeekFile(cursor[c].seek)
  <2>1. PICK i \in 1..Len(data[f]) :
          Move(c, [cursor[c] EXCEPT !.st = "ready", !.file = f, !.at = i, !.sid = data[f][i]])
    BY <1>3 DEF Seek
  <2>2. f \in FileNos
    <3>1. cur \in FileNos
      BY <1>3, BoundsAssumption DEF Seek, SeekGoes, TypeOK, FileNos
    <3> DEFINE S == {g \in managed : cursor[c].seek < FileMax(g)}
    <3>2. CASE f = cur
      BY <3>1, <3>2
    <3>3. CASE f # cur
      <4>1. S # {}
        BY <3>3 DEF SeekFile
      <4>2. S \subseteq FileNos
        BY DEF TypeOK
      <4>3. \E g \in S : IsLeast(g, S)
        BY <4>1, <4>2, LeastExists
      <4>4. f = CHOOSE g \in managed : IsLeast(g, S)
        BY <3>3 DEF SeekFile
      <4> HIDE DEF f
      <4>5. f \in managed
        BY <4>3, <4>4
      <4> QED
        BY <4>5 DEF TypeOK
    <3> QED
      BY <3>2, <3>3
  <2> HIDE DEF f
  <2>3. i \in Nat /\ data[f][i] \in Nat
    <3>1. data[f] \in Seq(Sids)
      BY <2>2 DEF TypeOK
    <3>2. i \in Nat /\ data[f][i] \in Sids
      BY <2>1, <3>1
    <3> QED
      BY <3>2 DEF Sids
  <2> DEFINE n == data[f][i]
  <2> HIDE DEF n
  <2>a. n \in Nat /\ i \in Nat
    BY <2>3 DEF n
  <2>b. f \in 0..MaxFile /\ f # 0
    BY <2>2, BoundsAssumption DEF FileNos
  <2>4. [cursor[c] EXCEPT !.st = "ready", !.file = f, !.at = i, !.sid = n] \in CursorType
    BY <1>a, <2>a, <2>b DEF CursorType, CursorRecord
  <2> QED
    BY <1>3, <2>1, <2>4, CursorMoveType DEF Seek, n
<1>4. CASE SeekFails(c) \/ ReadFails(c) \/ NextFileEmpty(c)
  BY <1>4, BreakType, CursorMoveType DEF SeekFails, ReadFails, NextFileEmpty, Break, CursorStep
<1>5. CASE NextInFile(c)
  <2>1. cursor[c].at + 1 \in Nat
    BY <1>a DEF CursorRecord
  <2>2. cursor[c].file \in FileNos
    BY <1>5, BoundsAssumption DEF NextInFile, NextCalled, TypeOK, CursorType, CursorRecord, FileNos
  <2> QED
    BY <1>5, <2>1, <2>2, EnterType DEF NextInFile
<1>6. CASE NextFile(c) \/ NextOutOfRange(c)
  BY <1>6, EnterType DEF NextFile, NextOutOfRange, TypeOK
<1> QED
  BY <1>1, <1>2, <1>3, <1>4, <1>5, <1>6 DEF CursorCall, NextCall

(***************************************************************************)
(* Type correctness of crashes and restarts, and the theorem.              *)
(***************************************************************************)
LEMMA ForgetType ==
  ASSUME Forget
  PROVE  /\ managed' \subseteq FileNos /\ cur' \in 0..MaxFile
         /\ minSid' \in 0..MaxSid /\ maxSid' \in 0..MaxSid
         /\ valid' \in BOOLEAN /\ bad' \subseteq FileNos
         /\ unflushed' \in 0..FlushNum
         /\ cursor' \in [Cursors -> CursorType]
<1>1. NoCursor \in CursorType
  BY BoundsAssumption DEF NoCursor, CursorType, CursorRecord
<1>2. cursor' \in [Cursors -> CursorType]
  BY <1>1 DEF Forget
<1>3. 0 \in 0..MaxFile /\ 0 \in 0..MaxSid /\ 0 \in 0..FlushNum
  BY BoundsAssumption
<1>4. /\ managed' = {} /\ cur' = 0 /\ minSid' = 0 /\ maxSid' = 0
      /\ valid' = FALSE /\ bad' = {} /\ unflushed' = 0
  BY DEF Forget
<1> QED
  BY <1>2, <1>3, <1>4

LEMMA DiesType ==
  ASSUME TypeOK, NEW E \in SUBSET FileNos, NEW safe \in [FileNos -> Nat],
         NEW t \in [FileNos -> 0..MaxSid], Dies(E, safe, t)
  PROVE  /\ data' \in [FileNos -> Seq(Sids)]
         /\ tail' \in [FileNos -> 0..MaxSid]
         /\ synced' \in [FileNos -> Nat]
         /\ junk' \subseteq FileNos /\ disk' \subseteq FileNos
<1>1. PICK lost \in SUBSET E, extra \in 0..Cap :
        /\ data' = [f \in FileNos |->
                      IF f \notin E THEN <<>>
                      ELSE IF f \in lost THEN Upto(data[f], safe[f] + extra) ELSE data[f]]
        /\ synced' = [f \in FileNos |-> IF f \in E THEN safe[f] ELSE 0]
        /\ tail' = [f \in FileNos |-> IF f \in E \ lost THEN t[f] ELSE 0]
        /\ junk' = junk \cap (E \ lost)
        /\ disk' = E
  BY DEF Dies
<1>2. ASSUME NEW f \in FileNos  PROVE Upto(data[f], safe[f] + extra) \in Seq(Sids)
  <2>1. data[f] \in Seq(Sids) /\ safe[f] + extra \in Nat
    BY BoundsAssumption DEF TypeOK
  <2> QED
    BY <2>1, UptoFacts
<1>3. data' \in [FileNos -> Seq(Sids)]
  BY <1>1, <1>2 DEF TypeOK
<1>4. tail' \in [FileNos -> 0..MaxSid] /\ synced' \in [FileNos -> Nat]
  BY <1>1, BoundsAssumption
<1> QED
  BY <1>1, <1>3, <1>4 DEF TypeOK

LEMMA TypeCrash ==
  ASSUME TypeOK, Crash \/ \E s \in Sids : CrashInAppend(s)
  PROVE  TypeOK'
<1>1. CASE Crash
  <2>1. status' = "down" /\ Forget /\ Dies(disk, synced, tail)
    BY <1>1 DEF Crash
  <2> QED
    BY <2>1, ForgetType, DiesType DEF TypeOK
<1>2. CASE \E s \in Sids : CrashInAppend(s)
  <2>0. PICK s \in Sids : CrashInAppend(s)
    BY <1>2
  <2>1. PICK p \in Places, t \in {tail} \cup {[tail EXCEPT ![f] = s] : f \in FileNos} :
          Dies(p.disk, SyncedAt(p), t)
    BY <2>0 DEF CrashInAppend
  <2>2. status' = "down" /\ Forget
    BY <1>2 DEF CrashInAppend
  <2>3. p.disk \in SUBSET FileNos
    BY PlacesType DEF LayoutType
  <2>4. SyncedAt(p) \in [FileNos -> Nat]
    BY SyncedAtType
  <2>5. t \in [FileNos -> 0..MaxSid]
    <3>1. tail \in [FileNos -> 0..MaxSid] /\ s \in 0..MaxSid
      BY BoundsAssumption DEF TypeOK, Sids
    <3>2. CASE t = tail
      BY <3>1, <3>2
    <3>3. CASE \E f \in FileNos : t = [tail EXCEPT ![f] = s]
      BY <3>1, <3>3
    <3> QED
      BY <2>1, <3>2, <3>3
  <2> QED
    BY <2>1, <2>2, <2>3, <2>4, <2>5, ForgetType, DiesType DEF TypeOK
<1> QED
  BY <1>1, <1>2

LEMMA ContentType ==
  ASSUME TypeOK, NEW f \in FileNos
  PROVE  Content(f) \in Seq(Sids)
<1>1. data[f] \in Seq(Sids) /\ tail[f] \in 0..MaxSid
  BY DEF TypeOK
<1>2. tail[f] # 0 => tail[f] \in Sids
  BY <1>1, BoundsAssumption DEF Sids
<1> QED
  BY <1>1, <1>2, AppendFacts DEF Content

LEMMA TypeRestart ==
  ASSUME TypeOK, Recover \/ RefuseToStart
  PROVE  TypeOK'
<1>1. CASE Recover
  <2>1. data' \in [FileNos -> Seq(Sids)]
    BY <1>1, ContentType DEF Recover
  <2>2. tail' \in [FileNos -> 0..MaxSid]
    BY <1>1, BoundsAssumption DEF Recover
  <2>3. NonEmpty \subseteq FileNos
    BY DEF NonEmpty, TypeOK
  <2>4. cur' \in 0..MaxFile /\ minSid' \in 0..MaxSid /\ maxSid' \in 0..MaxSid
    <3>1. CASE NonEmpty = {}
      BY <1>1, <3>1, BoundsAssumption DEF Recover
    <3>2. CASE NonEmpty # {}
      <4>1. PICK lo \in NonEmpty, hi \in NonEmpty :
              cur' = hi /\ minSid' = First(Content(lo)) /\ maxSid' = Newest(Content(hi))
        BY <1>1, <3>2 DEF Recover
      <4>2. Content(lo) \in Seq(Sids) /\ Content(hi) \in Seq(Sids)
        BY <2>3, ContentType
      <4> QED
        BY <2>3, <4>1, <4>2, EndsType DEF FileNos
    <3> QED
      BY <3>1, <3>2
  <2>5. status' = "up" /\ junk' = {} /\ disk' = NonEmpty /\ managed' = NonEmpty /\ valid' = TRUE
    BY <1>1 DEF Recover
  <2>6. UNCHANGED <<synced, bad, unflushed, cursor>>
    BY <1>1 DEF Recover
  <2> QED
    BY <2>1, <2>2, <2>3, <2>4, <2>5, <2>6 DEF TypeOK
<1>2. CASE RefuseToStart
  BY <1>2 DEF RefuseToStart, TypeOK, fileVars, mgrVars
<1> QED
  BY <1>1, <1>2

LEMMA TypeStep == TypeOK /\ [Next]_vars => TypeOK'
<1> SUFFICES ASSUME TypeOK, [Next]_vars PROVE TypeOK'
  OBVIOUS
<1>1. CASE \E s \in Sids : AppendCall(s)
  BY <1>1, TypeAppendRecord, TypeAppendFails, TypeAppendOversize, TypeOtherManagerCalls
     DEF AppendCall
<1>2. CASE \E c \in Cursors, s \in 0..MaxSid : CreateCursor(c, s)
  BY <1>2, TypeCursorCall
<1>3. CASE \E c \in Cursors : CursorCall(c)
  BY <1>3, TypeCursorCall
<1>4. CASE Commit \/ CommitFails
  BY <1>4, TypeOtherManagerCalls
<1>5. CASE Crash \/ \E s \in Sids : CrashInAppend(s)
  BY <1>5, TypeCrash
<1>6. CASE Recover \/ RefuseToStart
  BY <1>6, TypeRestart
<1>7. CASE UNCHANGED vars
  BY <1>7 DEF TypeOK, vars, fileVars, mgrVars
<1> QED
  BY <1>1, <1>2, <1>3, <1>4, <1>5, <1>6, <1>7 DEF Next

\* Every variable keeps its type under every call, crash and restart; the
\* count of uncommitted records never exceeds the flush limit.
THEOREM TypeSafe == Spec => []TypeOK
<1> QED
  BY TypeInit, TypeStep, PTL DEF Spec

(***************************************************************************)
(* The sids along the files ascend, and m_ullMaxSid is the newest of them,  *)
(* for every value of the constants: disk errors, oversized records, crashes *)
(* and restarts included.                                                  *)
(*                                                                         *)
(* Neither is inductive alone.  An append puts its sid at the end of the    *)
(* current file, so nothing may lie in a later one; and a restart finds the  *)
(* newest sid only in files that exist.                                     *)
(***************************************************************************)

\* While the manager runs, files behind the current one hold nothing.
NothingAhead ==
  status = "up" => \A f \in FileNos : f > cur => data[f] = <<>> /\ tail[f] = 0

\* While it is down, files that do not exist hold nothing.
NothingElsewhere ==
  status # "up" => \A f \in FileNos \ disk : data[f] = <<>> /\ tail[f] = 0

OrderInv ==
  TypeOK /\ SidsAscend /\ MaxSidIsNewest /\ NothingAhead /\ NothingElsewhere

-----------------------------------------------------------------------------
(***************************************************************************)
(* Reading sids.                                                           *)
(***************************************************************************)
Slots == Nat \ {0}

LEMMA ElementFact ==
  ASSUME NEW S, NEW q \in Seq(S), NEW i \in 1..Len(q)
  PROVE  q[i] \in S
  OBVIOUS

\* There is a sid at the records, at most one behind them, and nowhere else.
LEMMA SidAtFacts ==
  ASSUME TypeOK, NEW f \in FileNos, NEW i \in Slots
  PROVE  /\ Len(data[f]) \in Nat
         /\ SidAt(f, i) \in Nat
         /\ i \in 1..Len(data[f]) => SidAt(f, i) = data[f][i] /\ SidAt(f, i) # 0
         /\ i = Len(data[f]) + 1 => SidAt(f, i) = tail[f]
         /\ i > Len(data[f]) + 1 => SidAt(f, i) = 0
<1>1. data[f] \in Seq(Sids) /\ Len(data[f]) \in Nat /\ i \in Nat /\ i # 0
  BY DEF TypeOK, Slots
<1>2. SidAt(f, i) \in Nat
  BY <1>1, SidAtType, BoundsAssumption
<1>3. i \in 1..Len(data[f]) => data[f][i] \in Sids
  BY <1>1
<1>4. \A s \in Sids : s # 0
  BY BoundsAssumption DEF Sids
<1> QED
  BY <1>1, <1>2, <1>3, <1>4 DEF SidAt

\* The order, without the bounds on the record numbers.
Ascending ==
  \A f, g \in FileNos : \A i, j \in Slots :
    Before(f, i, g, j) /\ SidAt(f, i) # 0 /\ SidAt(g, j) # 0 => SidAt(f, i) < SidAt(g, j)

LEMMA AscendEverywhere == TypeOK => (SidsAscend <=> Ascending)
<1> SUFFICES ASSUME TypeOK PROVE SidsAscend <=> Ascending
  OBVIOUS
<1>1. ASSUME SidsAscend, NEW f \in FileNos, NEW g \in FileNos, NEW i \in Slots, NEW j \in Slots,
             Before(f, i, g, j), SidAt(f, i) # 0, SidAt(g, j) # 0
      PROVE  SidAt(f, i) < SidAt(g, j)
  <2>1. i \in 1..Len(data[f]) + 1 /\ j \in 1..Len(data[g]) + 1
    BY <1>1, SidAtFacts DEF Slots
  <2> QED
    BY <1>1, <2>1 DEF SidsAscend
<1>2. \A f \in FileNos : \A i \in 1..Len(data[f]) + 1 : i \in Slots
  BY DEF TypeOK, Slots
<1>3. Ascending => SidsAscend
  BY <1>2 DEF Ascending, SidsAscend
<1> QED
  BY <1>1, <1>3 DEF Ascending

\* A step that brings no new sid, though it may take some away, keeps the order.
LEMMA AscendKept ==
  ASSUME TypeOK, TypeOK', SidsAscend,
         \A f \in FileNos : \A i \in Slots : SidAt(f, i)' # 0 => SidAt(f, i)' = SidAt(f, i)
  PROVE  SidsAscend'
<1>1. ASSUME NEW f \in FileNos, NEW g \in FileNos, NEW i \in Slots, NEW j \in Slots,
             Before(f, i, g, j), SidAt(f, i)' # 0, SidAt(g, j)' # 0
      PROVE  SidAt(f, i)' < SidAt(g, j)'
  <2>1. SidAt(f, i)' = SidAt(f, i) /\ SidAt(g, j)' = SidAt(g, j)
    BY <1>1
  <2> QED
    BY <1>1, <2>1, AscendEverywhere DEF Ascending
<1>2. Ascending'
  BY <1>1 DEF Ascending, Before
<1>3. TypeOK' => (SidsAscend' <=> Ascending')
  BY AscendEverywhere, PTL
<1> QED
  BY <1>2, <1>3

\* A step that brings one new sid keeps the order, when the new one is above
\* all that lies before it and nothing lies behind it.
LEMMA AscendNew ==
  ASSUME TypeOK, TypeOK', SidsAscend, NEW k \in FileNos, NEW n \in Slots, NEW s \in Nat,
         \A f \in FileNos : \A i \in Slots :
            SidAt(f, i)' # 0 => \/ SidAt(f, i)' = SidAt(f, i) /\ <<f, i>> # <<k, n>>
                                \/ f = k /\ i = n /\ SidAt(f, i)' = s,
         \A f \in FileNos : \A i \in Slots : Before(f, i, k, n) => SidAt(f, i) < s,
         \A f \in FileNos : \A i \in Slots : Before(k, n, f, i) => SidAt(f, i)' = 0
  PROVE  SidsAscend'
<1>1. ASSUME NEW f \in FileNos, NEW g \in FileNos, NEW i \in Slots, NEW j \in Slots,
             Before(f, i, g, j), SidAt(f, i)' # 0, SidAt(g, j)' # 0
      PROVE  SidAt(f, i)' < SidAt(g, j)'
  <2>1. <<f, i>> # <<k, n>>
    BY <1>1
  <2>2. SidAt(f, i)' = SidAt(f, i)
    BY <1>1, <2>1
  <2>3. CASE g = k /\ j = n
    BY <1>1, <2>2, <2>3
  <2>4. CASE ~(g = k /\ j = n)
    <3>1. SidAt(g, j)' = SidAt(g, j)
      BY <1>1, <2>4
    <3> QED
      BY <1>1, <2>2, <3>1, AscendEverywhere DEF Ascending
  <2> QED
    BY <2>3, <2>4
<1>2. Ascending'
  BY <1>1 DEF Ascending, Before
<1>3. TypeOK' => (SidsAscend' <=> Ascending')
  BY AscendEverywhere, PTL
<1> QED
  BY <1>2, <1>3

-----------------------------------------------------------------------------
(***************************************************************************)
(* Calls of a running manager.                                             *)
(***************************************************************************)
\* Calls that leave the records alone and at most open later files.
LEMMA RecordsKept ==
  ASSUME OrderInv, TypeOK', status = "up",
         UNCHANGED <<status, data, tail, maxSid>>,
         cur' = cur \/ cur' > cur
  PROVE  OrderInv'
<1>1. SidsAscend'
  BY SMTT(20) DEF OrderInv, SidsAscend, SidAt, Before
<1>2. NothingAhead'
  BY DEF OrderInv, NothingAhead, TypeOK, FileNos
<1>3. MaxSidIsNewest'
  <2>1. \A f \in FileNos : \A i \in 1..Len(data'[f]) : data'[f][i] <= maxSid'
    BY DEF OrderInv, MaxSidIsNewest
  <2>2. ASSUME cur' # 0, data'[cur'] # <<>>  PROVE maxSid' = FileMax(cur)'
    <3>1. cur' \in FileNos
      BY <2>2, BoundsAssumption DEF TypeOK, FileNos
    <3>2. cur' = cur
      BY <2>2, <3>1 DEF OrderInv, NothingAhead
    <3> QED
      BY <2>2, <3>2 DEF OrderInv, MaxSidIsNewest, FileMax
  <2> QED
    BY <2>1, <2>2 DEF MaxSidIsNewest
<1>4. NothingElsewhere'
  BY DEF NothingElsewhere
<1> QED
  BY <1>1, <1>2, <1>3, <1>4 DEF OrderInv

\* Where an accepted record goes, nothing lies behind it and all that lies
\* before it is smaller.
LEMMA SpotFacts ==
  ASSUME OrderInv, status = "up", NEW s \in Sids, NEW p \in Places, Offered(s, p)
  PROVE  /\ p.cur \in FileNos
         /\ p.cur = cur \/ p.cur > cur
         /\ Len(data[p.cur]) + 1 \in Slots
         /\ s \in Nat /\ s # 0
         /\ \A f \in FileNos : f > p.cur => data[f] = <<>> /\ tail[f] = 0
         /\ \A f \in FileNos : \A i \in Slots :
               Before(f, i, p.cur, Len(data[p.cur]) + 1) => SidAt(f, i) < s
<1>1. p.cur \in FileNos /\ (p.cur = cur \/ p.cur = cur + 1) /\ cur \in Nat
  BY PlacesType, BoundsAssumption DEF OrderInv, TypeOK
<1>2. s \in Nat /\ s # 0
  BY BoundsAssumption DEF Sids
<1>3. Len(data[p.cur]) + 1 \in Slots
  BY <1>1 DEF OrderInv, TypeOK, Slots
<1>4. ASSUME NEW f \in FileNos, f > p.cur  PROVE data[f] = <<>> /\ tail[f] = 0
  <2>1. f > cur
    BY <1>1, <1>4 DEF FileNos
  <2> QED
    BY <2>1 DEF OrderInv, NothingAhead
<1>5. ASSUME NEW f \in FileNos, NEW i \in Slots, Before(f, i, p.cur, Len(data[p.cur]) + 1)
      PROVE  SidAt(f, i) < s
  <2>1. s > maxSid /\ maxSid \in Nat
    BY BoundsAssumption DEF Offered, OrderInv, TypeOK
  <2>2. TypeOK
    BY DEF OrderInv
  <2>3. CASE i \in 1..Len(data[f])
    <3>1. data[f][i] <= maxSid
      BY <2>3 DEF OrderInv, MaxSidIsNewest
    <3>2. SidAt(f, i) = data[f][i] /\ SidAt(f, i) \in Nat
      BY <2>2, <2>3, SidAtFacts
    <3> QED
      BY <1>2, <2>1, <3>1, <3>2
  <2>4. CASE i = Len(data[f]) + 1
    <3>1. f # p.cur
      BY <1>5, <2>4, <1>1 DEF Before, OrderInv, TypeOK
    <3>2. tail[f] <= s /\ tail[f] # s
      BY <3>1 DEF Offered
    <3>3. SidAt(f, i) = tail[f] /\ SidAt(f, i) \in Nat
      BY <2>2, <2>4, SidAtFacts
    <3> QED
      BY <1>2, <3>2, <3>3
  <2>5. CASE i > Len(data[f]) + 1
    BY <1>2, <2>2, <2>5, SidAtFacts
  <2>6. i \in Nat /\ i # 0 /\ Len(data[f]) \in Nat
    BY <2>2, SidAtFacts DEF Slots
  <2> QED
    BY <2>3, <2>4, <2>5, <2>6
<1> QED
  BY <1>1, <1>2, <1>3, <1>4, <1>5

\* What a write to the end of file k makes of the sids: the old ones, and s.
LEMMA WrittenSids ==
  ASSUME TypeOK, NEW k \in FileNos, NEW s \in Sids,
         \/ data' = [data EXCEPT ![k] = Append(@, s)] /\ tail' = [tail EXCEPT ![k] = 0]
         \/ data' = data /\ tail' = [tail EXCEPT ![k] = s],
         NEW f \in FileNos, NEW i \in Slots
  PROVE  /\ f # k => SidAt(f, i)' = SidAt(f, i)
         /\ i <= Len(data[k]) => SidAt(k, i)' = SidAt(k, i)
         /\ i = Len(data[k]) + 1 => SidAt(k, i)' = s
         /\ i > Len(data[k]) + 1 => SidAt(k, i)' = 0
<1>1. data[k] \in Seq(Sids) /\ Len(data[k]) \in Nat /\ i \in Nat /\ i # 0
  BY DEF TypeOK, Slots
<1>2. CASE data' = [data EXCEPT ![k] = Append(@, s)] /\ tail' = [tail EXCEPT ![k] = 0]
  <2>1. data'[k] = Append(data[k], s) /\ tail'[k] = 0
    BY <1>2 DEF TypeOK
  <2>2. f # k => data'[f] = data[f] /\ tail'[f] = tail[f]
    BY <1>2 DEF TypeOK
  <2>3. /\ Len(data'[k]) = Len(data[k]) + 1
        /\ \A j \in 1..Len(data[k]) : data'[k][j] = data[k][j]
        /\ data'[k][Len(data[k]) + 1] = s
    BY <1>1, <2>1, AppendFacts
  <2> QED
    BY <1>1, <2>1, <2>2, <2>3 DEF SidAt
<1>3. CASE data' = data /\ tail' = [tail EXCEPT ![k] = s]
  <2>1. tail'[k] = s /\ (f # k => tail'[f] = tail[f])
    BY <1>3 DEF TypeOK
  <2> QED
    BY <1>1, <1>3, <2>1 DEF SidAt
<1> QED
  BY <1>2, <1>3

\* Such a write keeps the order.
LEMMA WriteAscends ==
  ASSUME OrderInv, TypeOK', status = "up", NEW s \in Sids, NEW p \in Places, Offered(s, p),
         \/ data' = [data EXCEPT ![p.cur] = Append(@, s)] /\ tail' = [tail EXCEPT ![p.cur] = 0]
         \/ data' = data /\ tail' = [tail EXCEPT ![p.cur] = s]
  PROVE  SidsAscend'
<1> DEFINE k == p.cur
           n == Len(data[k]) + 1
<1>1. /\ k \in FileNos /\ n \in Slots /\ s \in Nat /\ s # 0
      /\ \A f \in FileNos : f > k => data[f] = <<>> /\ tail[f] = 0
      /\ \A f \in FileNos : \A i \in Slots : Before(f, i, k, n) => SidAt(f, i) < s
  BY SpotFacts
<1>2. TypeOK /\ SidsAscend /\ Len(data[k]) \in Nat
  <2>1. TypeOK /\ SidsAscend
    BY DEF OrderInv
  <2>2. data[k] \in Seq(Sids)
    BY <1>1, <2>1 DEF TypeOK
  <2> QED
    BY <2>1, <2>2
<1>3. ASSUME NEW f \in FileNos, NEW i \in Slots
      PROVE  /\ f # k => SidAt(f, i)' = SidAt(f, i)
             /\ i <= Len(data[k]) => SidAt(k, i)' = SidAt(k, i)
             /\ i = n => SidAt(k, i)' = s
             /\ i > n => SidAt(k, i)' = 0
  BY <1>1, <1>2, WrittenSids
<1> HIDE DEF k
<1>4. ASSUME NEW f \in FileNos, NEW i \in Slots, SidAt(f, i)' # 0
      PROVE  \/ SidAt(f, i)' = SidAt(f, i) /\ <<f, i>> # <<k, n>>
             \/ f = k /\ i = n /\ SidAt(f, i)' = s
  <2>1. i \in Nat
    BY DEF Slots
  <2> QED
    BY <1>2, <1>3, <1>4, <2>1
<1>5. ASSUME NEW f \in FileNos, NEW i \in Slots, Before(k, n, f, i)
      PROVE  SidAt(f, i)' = 0
  <2>1. CASE f > k
    <3>1. data[f] = <<>> /\ tail[f] = 0
      BY <1>1, <2>1
    <3>2. SidAt(f, i) = 0
      BY <3>1 DEF SidAt
    <3> QED
      BY <1>1, <1>3, <2>1, <3>2 DEF FileNos
  <2>2. CASE f = k /\ i > n
    BY <1>3, <2>2
  <2>3. i \in Nat
    BY DEF Slots
  <2> QED
    BY <1>5, <1>1, <1>2, <2>1, <2>2, <2>3 DEF Before, FileNos
<1> HIDE DEF n
<1> QED
  BY <1>1, <1>2, <1>4, <1>5, AscendNew

LEMMA OrderAppendRecord ==
  ASSUME OrderInv, TypeOK', NEW s \in Sids, AppendRecord(s)
  PROVE  OrderInv'
<1>1. PICK p \in Places :
        /\ Offered(s, p)
        /\ cur' = p.cur
        /\ data' = [data EXCEPT ![p.cur] = Append(@, s)]
        /\ tail' = [tail EXCEPT ![p.cur] = 0]
        /\ maxSid' = s
  BY DEF AppendRecord, Place, Overwrite
<1>2. status = "up" /\ status' = "up"
  BY DEF AppendRecord
<1>3. /\ p.cur \in FileNos
      /\ \A f \in FileNos : f > p.cur => data[f] = <<>> /\ tail[f] = 0
  BY <1>1, <1>2, SpotFacts
<1>4. SidsAscend'
  BY <1>1, <1>2, WriteAscends
<1>5. NothingAhead'
  BY <1>1, <1>3 DEF NothingAhead, FileNos, OrderInv, TypeOK
<1>6. MaxSidIsNewest'
  <2>1. data[p.cur] \in Seq(Sids) /\ data'[p.cur] = Append(data[p.cur], s)
    BY <1>1, <1>3 DEF OrderInv, TypeOK
  <2>2. /\ Len(data'[p.cur]) = Len(data[p.cur]) + 1 /\ data'[p.cur] # <<>>
        /\ \A j \in 1..Len(data[p.cur]) : data'[p.cur][j] = data[p.cur][j]
        /\ data'[p.cur][Len(data[p.cur]) + 1] = s
    BY <2>1, AppendFacts
  <2>3. s \in Nat /\ maxSid \in Nat /\ maxSid < s
    BY <1>1, BoundsAssumption DEF Offered, OrderInv, TypeOK, Sids
  <2>4. ASSUME NEW f \in FileNos, NEW j \in 1..Len(data[f])
        PROVE  data[f][j] <= s
    <3>1. data[f][j] <= maxSid
      BY DEF OrderInv, MaxSidIsNewest, AppendRecord
    <3>2. data[f] \in Seq(Sids)
      BY DEF OrderInv, TypeOK
    <3>3. data[f][j] \in Sids
      BY <3>2, ElementFact
    <3>4. data[f][j] \in Nat
      BY <3>3 DEF Sids
    <3> QED
      BY <2>3, <3>1, <3>4
  <2>5. ASSUME NEW f \in FileNos, NEW j \in 1..Len(data'[f])
        PROVE  data'[f][j] <= s
    <3>1. CASE f # p.cur
      BY <1>1, <2>4, <2>5, <3>1 DEF OrderInv, TypeOK
    <3>2. CASE f = p.cur /\ j \in 1..Len(data[p.cur])
      BY <2>2, <2>4, <3>2
    <3>3. CASE f = p.cur /\ j = Len(data[p.cur]) + 1
      BY <2>2, <2>3, <3>3
    <3>4. Len(data[p.cur]) \in Nat
      BY <2>1
    <3> QED
      BY <2>2, <2>5, <3>1, <3>2, <3>3, <3>4
  <2>6. FileMax(cur)' = s
    BY <1>1, <2>2 DEF FileMax, Newest
  <2> QED
    BY <1>1, <2>5, <2>6 DEF MaxSidIsNewest
<1>7. NothingElsewhere'
  BY <1>2 DEF NothingElsewhere
<1> QED
  BY <1>4, <1>5, <1>6, <1>7 DEF OrderInv

LEMMA OrderAppendFails ==
  ASSUME OrderInv, TypeOK', NEW s \in Sids, AppendFails(s)
  PROVE  OrderInv'
<1>1. PICK p \in Places :
        /\ Offered(s, p)
        /\ cur' = p.cur
        /\ tail' = tail \/ tail' = [tail EXCEPT ![p.cur] = s]
  BY DEF AppendFails, Place, CutShort, Overwrite
<1>2. status = "up" /\ UNCHANGED <<status, data, maxSid>>
  BY DEF AppendFails
<1>3. /\ p.cur \in FileNos /\ (p.cur = cur \/ p.cur > cur)
      /\ \A f \in FileNos : f > p.cur => data[f] = <<>> /\ tail[f] = 0
  BY <1>1, <1>2, SpotFacts
<1>4. SidsAscend'
  <2>1. CASE tail' = tail
    BY <1>2, <2>1, SMTT(20) DEF OrderInv, SidsAscend, SidAt, Before
  <2>2. CASE tail' = [tail EXCEPT ![p.cur] = s]
    BY <1>1, <1>2, <2>2, WriteAscends
  <2> QED
    BY <1>1, <2>1, <2>2
<1>5. NothingAhead'
  BY <1>1, <1>2, <1>3 DEF NothingAhead, FileNos, OrderInv, TypeOK
<1>6. MaxSidIsNewest'
  <2>1. \A f \in FileNos : \A i \in 1..Len(data'[f]) : data'[f][i] <= maxSid'
    BY <1>2 DEF OrderInv, MaxSidIsNewest
  <2>2. ASSUME data'[cur'] # <<>>  PROVE maxSid' = FileMax(cur)'
    <3>1. cur' = cur
      BY <1>1, <1>2, <1>3, <2>2 DEF OrderInv, NothingAhead
    <3>2. cur # 0
      BY <1>1, <1>3, <3>1 DEF FileNos
    <3> QED
      BY <1>2, <2>2, <3>1, <3>2 DEF OrderInv, MaxSidIsNewest, FileMax
  <2> QED
    BY <2>1, <2>2 DEF MaxSidIsNewest
<1>7. NothingElsewhere'
  BY <1>2 DEF NothingElsewhere
<1> QED
  BY <1>4, <1>5, <1>6, <1>7 DEF OrderInv

\* The other calls leave the records alone.
LEMMA OrderOtherCalls ==
  ASSUME OrderInv, TypeOK',
         \/ \E s \in Sids : CreateFileFails(s) \/ AppendOversize(s)
         \/ Commit \/ CommitFails
         \/ \E c \in Cursors : CursorCall(c)
         \/ \E c \in Cursors, s \in 0..MaxSid : CreateCursor(c, s)
  PROVE  OrderInv'
<1>1. CASE \E s \in Sids : CreateFileFails(s)
  BY <1>1, RecordsKept DEF CreateFileFails
<1>2. CASE \E s \in Sids : AppendOversize(s)
  <2>1. PICK p \in Places \cup (IF cur = 0 THEN {} ELSE {Here}) :
          cur' = Rolled(p).cur
    BY <1>2 DEF AppendOversize, Place
  <2>2. cur \in Nat
    BY DEF OrderInv, TypeOK
  <2>3. p.cur = cur \/ p.cur = cur + 1
    <3>1. CASE p \in Places
      BY <3>1, PlacesType DEF OrderInv
    <3>2. CASE p = Here
      BY <3>2 DEF Here
    <3> QED
      BY <2>1, <3>1, <3>2
  <2>4. cur' = p.cur + 1
    BY <2>1 DEF Rolled
  <2>5. cur' > cur
    BY <2>2, <2>3, <2>4
  <2> QED
    BY <1>2, <2>5, RecordsKept DEF AppendOversize
<1>3. CASE Commit \/ CommitFails
  BY <1>3, RecordsKept DEF Commit, CommitFails, fileVars
<1>4. CASE \/ \E c \in Cursors : CursorCall(c)
           \/ \E c \in Cursors, s \in 0..MaxSid : CreateCursor(c, s)
  <2>1. CursorStep /\ status = "up"
    BY <1>4 DEF CursorCall, NextCall, CreateCursor, DestroyCursor, Seek, SeekFails, SeekGoes,
                NextInFile, NextFile, NextFileEmpty, NextOutOfRange, ReadFails, NextCalled, EnterAt
  <2> QED
    BY <2>1, RecordsKept DEF CursorStep, fileVars, mgrVars
<1> QED
  BY <1>1, <1>2, <1>3, <1>4

-----------------------------------------------------------------------------
(***************************************************************************)
(* Crash and restart.                                                      *)
(***************************************************************************)
\* A crash leaves a file its first records, and the header behind them only
\* when it leaves them all.
LEMMA DiesSids ==
  ASSUME TypeOK, NEW E \in SUBSET FileNos, NEW safe \in [FileNos -> Nat],
         NEW t, Dies(E, safe, t), NEW f \in FileNos, NEW i \in Slots
  PROVE  /\ i <= Len(data[f]) => SidAt(f, i)' = SidAt(f, i) \/ SidAt(f, i)' = 0
         /\ i = Len(data[f]) + 1 => SidAt(f, i)' = t[f] \/ SidAt(f, i)' = 0
         /\ i > Len(data[f]) + 1 => SidAt(f, i)' = 0
<1>1. PICK lost \in SUBSET E, extra \in 0..Cap :
        /\ data' = [g \in FileNos |->
                      IF g \notin E THEN <<>>
                      ELSE IF g \in lost THEN Upto(data[g], safe[g] + extra) ELSE data[g]]
        /\ tail' = [g \in FileNos |-> IF g \in E \ lost THEN t[g] ELSE 0]
  BY ZenonT(40) DEF Dies
<1>2. data[f] \in Seq(Sids) /\ Len(data[f]) \in Nat /\ i \in Nat /\ i # 0
  BY DEF TypeOK, Slots
<1>3. CASE f \notin E
  <2>1. data'[f] = <<>> /\ tail'[f] = 0
    BY <1>1, <1>3
  <2> QED
    BY <2>1 DEF SidAt
<1>4. CASE f \in lost
  <2> DEFINE m == safe[f] + extra
  <2>1. m \in Nat
    BY BoundsAssumption
  <2>2. data'[f] = Upto(data[f], m) /\ tail'[f] = 0
    BY <1>1, <1>4
  <2> HIDE DEF m
  <2>3. /\ Len(data'[f]) \in Nat
        /\ Len(data'[f]) <= Len(data[f])
        /\ \A j \in 1..Len(data'[f]) : data'[f][j] = data[f][j]
    BY <1>2, <2>1, <2>2, UptoFacts, SMTT(20)
  <2> QED
    BY <1>2, <2>2, <2>3 DEF SidAt
<1>5. CASE f \in E \ lost
  <2>1. data'[f] = data[f] /\ tail'[f] = t[f]
    BY <1>1, <1>5
  <2> QED
    BY <1>2, <2>1 DEF SidAt
<1> QED
  BY <1>3, <1>4, <1>5

\* What does not depend on where the crash hits.
LEMMA DownFacts ==
  ASSUME NEW E \in SUBSET FileNos, NEW safe, NEW t, Dies(E, safe, t), status' = "down"
  PROVE  MaxSidIsNewest' /\ NothingAhead' /\ NothingElsewhere'
<1>1. NothingElsewhere'
  BY DEF NothingElsewhere, Dies
<1>2. MaxSidIsNewest' /\ NothingAhead'
  BY DEF MaxSidIsNewest, NothingAhead
<1> QED
  BY <1>1, <1>2

LEMMA OrderCrash ==
  ASSUME OrderInv, TypeOK', Crash
  PROVE  OrderInv'
<1>1. status' = "down" /\ Dies(disk, synced, tail)
  BY DEF Crash
<1>2. TypeOK /\ SidsAscend /\ disk \in SUBSET FileNos /\ synced \in [FileNos -> Nat]
  BY DEF OrderInv, TypeOK
<1>3. ASSUME NEW f \in FileNos, NEW i \in Slots, SidAt(f, i)' # 0
      PROVE  SidAt(f, i)' = SidAt(f, i)
  <2>1. Len(data[f]) \in Nat /\ i \in Nat /\ (i = Len(data[f]) + 1 => SidAt(f, i) = tail[f])
    BY <1>2, SidAtFacts DEF Slots
  <2>2. /\ i <= Len(data[f]) => SidAt(f, i)' = SidAt(f, i) \/ SidAt(f, i)' = 0
        /\ i = Len(data[f]) + 1 => SidAt(f, i)' = tail[f] \/ SidAt(f, i)' = 0
        /\ i > Len(data[f]) + 1 => SidAt(f, i)' = 0
    BY <1>1, <1>2, DiesSids
  <2> QED
    BY <1>3, <2>1, <2>2
<1>4. SidsAscend'
  BY <1>2, <1>3, AscendKept
<1> QED
  BY <1>1, <1>2, <1>4, DownFacts DEF OrderInv

LEMMA OrderCrashInAppend ==
  ASSUME OrderInv, TypeOK', NEW s \in Sids, CrashInAppend(s)
  PROVE  OrderInv'
<1>1. PICK p \in Places, t \in {tail} \cup {[tail EXCEPT ![f] = s] : f \in FileNos} :
        /\ Offered(s, p)
        /\ \A f \in FileNos : t[f] # tail[f] => f = p.cur /\ f \notin bad
        /\ Dies(p.disk, SyncedAt(p), t)
  BY DEF CrashInAppend
<1>2. status = "up" /\ status' = "down"
  BY DEF CrashInAppend
<1>3. TypeOK /\ SidsAscend /\ tail \in [FileNos -> 0..MaxSid]
  BY DEF OrderInv, TypeOK
<1>4. p.disk \in SUBSET FileNos /\ SyncedAt(p) \in [FileNos -> Nat]
  BY <1>3, PlacesType, SyncedAtType DEF LayoutType
<1> DEFINE k == p.cur
           n == Len(data[k]) + 1
<1>5. /\ k \in FileNos /\ n \in Slots /\ s \in Nat /\ s # 0
      /\ \A f \in FileNos : f > k => data[f] = <<>> /\ tail[f] = 0
      /\ \A f \in FileNos : \A i \in Slots : Before(f, i, k, n) => SidAt(f, i) < s
  BY <1>1, <1>2, SpotFacts
<1> HIDE DEF k
<1>6. t = tail \/ t = [tail EXCEPT ![k] = s]
  <2>1. CASE t = tail
    BY <2>1
  <2>2. CASE \E f \in FileNos : t = [tail EXCEPT ![f] = s]
    <3>1. PICK f \in FileNos : t = [tail EXCEPT ![f] = s]
      BY <2>2
    <3>2. t[f] = s
      BY <1>3, <3>1
    <3>3. CASE tail[f] = s
      BY <1>3, <3>1, <3>3
    <3>4. CASE tail[f] # s
      BY <1>1, <3>1, <3>2, <3>4 DEF k
    <3> QED
      BY <3>3, <3>4
  <2> QED
    BY <1>1, <2>1, <2>2
<1>7. ASSUME NEW f \in FileNos, NEW i \in Slots
      PROVE  /\ Len(data[f]) \in Nat /\ i \in Nat
             /\ i <= Len(data[f]) => SidAt(f, i)' = SidAt(f, i) \/ SidAt(f, i)' = 0
             /\ i = Len(data[f]) + 1 => SidAt(f, i) = tail[f] /\ (SidAt(f, i)' = t[f] \/ SidAt(f, i)' = 0)
             /\ i > Len(data[f]) + 1 => SidAt(f, i)' = 0
  <2>1. Len(data[f]) \in Nat /\ i \in Nat /\ (i = Len(data[f]) + 1 => SidAt(f, i) = tail[f])
    BY <1>3, SidAtFacts DEF Slots
  <2>2. /\ i <= Len(data[f]) => SidAt(f, i)' = SidAt(f, i) \/ SidAt(f, i)' = 0
        /\ i = Len(data[f]) + 1 => SidAt(f, i)' = t[f] \/ SidAt(f, i)' = 0
        /\ i > Len(data[f]) + 1 => SidAt(f, i)' = 0
    BY <1>1, <1>3, <1>4, DiesSids
  <2> QED
    BY <2>1, <2>2
<1>8. CASE t = tail
  <2>1. \A f \in FileNos : \A i \in Slots : SidAt(f, i)' # 0 => SidAt(f, i)' = SidAt(f, i)
    BY <1>7, <1>8
  <2>2. SidsAscend'
    BY <1>3, <2>1, AscendKept
  <2> QED
    BY <1>1, <1>2, <1>4, <2>2, DownFacts DEF OrderInv
<1>9. CASE t = [tail EXCEPT ![k] = s]
  <2>1. t[k] = s /\ \A f \in FileNos : f # k => t[f] = tail[f]
    BY <1>3, <1>5, <1>9
  <2>2. ASSUME NEW f \in FileNos, NEW i \in Slots, SidAt(f, i)' # 0
        PROVE  \/ SidAt(f, i)' = SidAt(f, i) /\ <<f, i>> # <<k, n>>
               \/ f = k /\ i = n /\ SidAt(f, i)' = s
    BY <1>7, <2>1, <2>2
  <2>3. ASSUME NEW f \in FileNos, NEW i \in Slots, Before(k, n, f, i)
        PROVE  SidAt(f, i)' = 0
    <3>1. CASE f > k
      <4>1. data[f] = <<>> /\ t[f] = 0
        BY <1>5, <2>1, <3>1 DEF FileNos
      <4>2. Len(data[f]) = 0 /\ i \in Nat /\ i # 0
        BY <4>1 DEF Slots
      <4> QED
        BY <1>7, <4>1, <4>2
    <3>2. CASE f = k /\ i > n
      BY <1>7, <3>2
    <3> QED
      BY <2>3, <3>1, <3>2, <1>5, <1>7 DEF Before, FileNos, Slots
  <2> HIDE DEF n
  <2>4. SidsAscend'
    BY <1>3, <1>5, <2>2, <2>3, AscendNew
  <2> QED
    BY <1>1, <1>2, <1>4, <2>4, DownFacts DEF OrderInv
<1> QED
  BY <1>6, <1>8, <1>9

\* init() keeps every sid where it is: the header behind a file becomes the
\* last record.
LEMMA RecoverSids ==
  ASSUME TypeOK, Recover, NEW f \in FileNos, NEW i \in Slots
  PROVE  SidAt(f, i)' = SidAt(f, i)
<1>1. data'[f] = Content(f) /\ tail'[f] = 0
  BY DEF Recover
<1>2. data[f] \in Seq(Sids) /\ Len(data[f]) \in Nat /\ i \in Nat /\ i # 0
  BY DEF TypeOK, Slots
<1>3. CASE tail[f] = 0
  BY <1>1, <1>2, <1>3 DEF Content, SidAt
<1>4. CASE tail[f] # 0
  <2>1. tail[f] \in Sids
    BY <1>4, BoundsAssumption DEF TypeOK, Sids
  <2>2. data'[f] = Append(data[f], tail[f])
    BY <1>1, <1>4 DEF Content
  <2>3. /\ Len(data'[f]) = Len(data[f]) + 1
        /\ \A j \in 1..Len(data[f]) : data'[f][j] = data[f][j]
        /\ data'[f][Len(data[f]) + 1] = tail[f]
    BY <1>2, <2>1, <2>2, AppendFacts
  <2> QED
    BY <1>1, <1>2, <2>3 DEF SidAt
<1> QED
  BY <1>3, <1>4

LEMMA OrderRecover ==
  ASSUME OrderInv, TypeOK', Recover
  PROVE  OrderInv'
<1>1. TypeOK /\ SidsAscend /\ status = "down" /\ status' = "up"
  BY DEF OrderInv, Recover
<1>2. SidsAscend'
  BY <1>1, RecoverSids, AscendKept
<1>3. ASSUME NEW f \in FileNos, f \notin NonEmpty
      PROVE  data'[f] = <<>> /\ tail'[f] = 0
  <2>1. CASE f \in disk
    BY <1>3, <2>1 DEF NonEmpty, Recover
  <2>2. CASE f \notin disk
    BY <1>1, <2>2 DEF OrderInv, NothingElsewhere, Recover, Content
  <2> QED
    BY <2>1, <2>2
<1>4. \A f \in FileNos : tail'[f] = 0
  BY DEF Recover
<1>5. NothingElsewhere'
  BY <1>1 DEF NothingElsewhere
<1>6. CASE NonEmpty = {}
  <2>1. cur' = 0
    BY <1>6 DEF Recover
  <2>2. \A f \in FileNos : data'[f] = <<>>
    BY <1>3, <1>6
  <2>3. MaxSidIsNewest'
    BY <2>1, <2>2 DEF MaxSidIsNewest
  <2>4. NothingAhead'
    BY <1>4, <2>2 DEF NothingAhead
  <2> QED
    BY <1>2, <1>5, <2>3, <2>4 DEF OrderInv
<1>7. CASE NonEmpty # {}
  <2>1. PICK hi \in NonEmpty :
          /\ \A f \in NonEmpty : f <= hi
          /\ cur' = hi
          /\ maxSid' = Newest(Content(hi))
    BY <1>7 DEF Recover
  <2>2. NonEmpty \subseteq FileNos
    BY <1>1 DEF NonEmpty, TypeOK
  <2>3. data'[hi] = Content(hi) /\ data'[hi] # <<>>
    BY <2>1, <2>2 DEF Recover, NonEmpty
  <2>4. data'[hi] \in Seq(Sids)
    BY <2>1, <2>2 DEF TypeOK
  <2> PICK L \in Nat : L = Len(data'[hi])
    BY <2>4
  <2>5. L \in Slots /\ L \in 1..Len(data'[hi])
    BY <2>3, <2>4 DEF Slots
  <2>6. maxSid' = data'[hi][L]
    BY <2>1, <2>3 DEF Newest
  <2>7. ASSUME NEW f \in FileNos, NEW i \in 1..Len(data'[f])
        PROVE  i \in Slots /\ SidAt(f, i)' = data'[f][i] /\ data'[f][i] \in Nat /\ data'[f][i] # 0
    <3>1. data'[f] \in Seq(Sids)
      BY DEF TypeOK
    <3>2. data'[f][i] \in Sids
      BY <3>1, ElementFact
    <3> QED
      BY <3>1, <3>2 DEF SidAt, Slots, Sids
  <2>8. Ascending'
    <3>1. TypeOK' => (SidsAscend' <=> Ascending')
      BY AscendEverywhere, PTL
    <3> QED
      BY <1>2, <3>1
  <2>9. ASSUME NEW f \in FileNos, NEW i \in 1..Len(data'[f])
        PROVE  data'[f][i] <= maxSid'
    <3>1. f \in NonEmpty
      BY <1>3
    <3>2. f <= hi /\ f \in Nat /\ hi \in Nat
      BY <2>1, <2>2, <3>1 DEF FileNos
    <3>3. CASE f = hi /\ i = L
      BY <2>6, <2>7, <3>3
    <3>4. CASE ~(f = hi /\ i = L)
      <4>1. f < hi \/ (f = hi /\ i < L)
        <5>1. CASE f # hi
          BY <3>2, <5>1
        <5>2. CASE f = hi
          BY <3>4, <5>2, <2>4
        <5> QED
          BY <5>1, <5>2
      <4>3. SidAt(hi, L)' = data'[hi][L] /\ data'[hi][L] \in Nat /\ data'[hi][L] # 0
        BY <2>1, <2>2, <2>5, <2>7
      <4>4. /\ i \in Slots /\ SidAt(f, i)' = data'[f][i]
            /\ data'[f][i] \in Nat /\ data'[f][i] # 0
        BY <2>7
      <4>5. SidAt(f, i)' < SidAt(hi, L)'
        <5>1. hi \in FileNos /\ L \in Slots
          BY <2>2, <2>5
        <5>2. SidAt(f, i)' # 0 /\ SidAt(hi, L)' # 0
          BY <4>3, <4>4
        <5> QED
          BY <2>8, <4>1, <4>4, <5>1, <5>2 DEF Ascending, Before
      <4> QED
        BY <2>6, <4>3, <4>4, <4>5
    <3> QED
      BY <3>3, <3>4
  <2>10. MaxSidIsNewest'
    BY <2>1, <2>3, <2>6, <2>9 DEF MaxSidIsNewest, FileMax, Newest
  <2>11. NothingAhead'
    <3>1. ASSUME NEW f \in FileNos, f > hi  PROVE data'[f] = <<>>
      <4>1. hi \in FileNos /\ ~(f <= hi)
        BY <2>1, <2>2, <3>1 DEF FileNos
      <4> QED
        BY <1>3, <2>1, <4>1
    <3> QED
      BY <1>4, <2>1, <3>1 DEF NothingAhead
  <2> QED
    BY <1>2, <1>5, <2>10, <2>11 DEF OrderInv
<1> QED
  BY <1>6, <1>7

LEMMA OrderRefuse ==
  ASSUME OrderInv, TypeOK', RefuseToStart
  PROVE  OrderInv'
<1>1. status = "down" /\ status' = "refused" /\ data' = data /\ tail' = tail /\ disk' = disk
  BY DEF RefuseToStart, fileVars
<1>2. SidsAscend'
  <2>1. \A f \in FileNos : \A i \in Slots : SidAt(f, i)' = SidAt(f, i)
    BY <1>1 DEF SidAt
  <2> QED
    BY <2>1, AscendKept DEF OrderInv
<1>3. NothingElsewhere'
  BY <1>1 DEF OrderInv, NothingElsewhere
<1>4. MaxSidIsNewest' /\ NothingAhead'
  BY <1>1 DEF MaxSidIsNewest, NothingAhead
<1> QED
  BY <1>2, <1>3, <1>4 DEF OrderInv

-----------------------------------------------------------------------------
LEMMA OrderInit == Init => OrderInv
<1> SUFFICES ASSUME Init PROVE OrderInv
  OBVIOUS
<1>1. TypeOK
  BY TypeInit
<1>2. \A f \in FileNos : data[f] = <<>> /\ tail[f] = 0
  BY DEF Init
<1>3. ASSUME NEW f \in FileNos, NEW i \in Slots  PROVE SidAt(f, i) = 0
  BY <1>2 DEF SidAt
<1>4. SidsAscend
  BY <1>1, <1>3, AscendEverywhere DEF Ascending
<1> QED
  BY <1>1, <1>2, <1>4 DEF OrderInv, MaxSidIsNewest, NothingAhead, NothingElsewhere, Init

LEMMA OrderStep == OrderInv /\ [Next]_vars => OrderInv'
<1> SUFFICES ASSUME OrderInv, [Next]_vars PROVE OrderInv'
  OBVIOUS
<1>1. TypeOK'
  BY TypeStep DEF OrderInv
<1>2. CASE \E s \in Sids : AppendCall(s)
  BY <1>1, <1>2, OrderAppendRecord, OrderAppendFails, OrderOtherCalls DEF AppendCall
<1>3. CASE \E c \in Cursors, s \in 0..MaxSid : CreateCursor(c, s)
  BY <1>1, <1>3, OrderOtherCalls
<1>4. CASE \E c \in Cursors : CursorCall(c)
  BY <1>1, <1>4, OrderOtherCalls
<1>5. CASE Commit \/ CommitFails
  BY <1>1, <1>5, OrderOtherCalls
<1>6. CASE Crash \/ \E s \in Sids : CrashInAppend(s)
  BY <1>1, <1>6, OrderCrash, OrderCrashInAppend
<1>7. CASE Recover \/ RefuseToStart
  BY <1>1, <1>7, OrderRecover, OrderRefuse
<1>8. CASE UNCHANGED vars
  BY <1>8 DEF vars, fileVars, mgrVars, OrderInv, TypeOK, SidsAscend, SidAt, Before,
              MaxSidIsNewest, FileMax, NothingAhead, NothingElsewhere
<1> QED
  BY <1>2, <1>3, <1>4, <1>5, <1>6, <1>7, <1>8 DEF Next

\* Sids ascend along the files, whatever fails and whenever the process dies.
THEOREM SidsAlwaysAscend == Spec => []SidsAscend
<1>1. OrderInv => SidsAscend
  BY DEF OrderInv
<1> QED
  BY <1>1, OrderInit, OrderStep, PTL DEF Spec

\* The sid that append() compares with is that of the newest record.
THEOREM MaxSidAlwaysNewest == Spec => []MaxSidIsNewest
<1>1. OrderInv => MaxSidIsNewest
  BY DEF OrderInv
<1> QED
  BY <1>1, OrderInit, OrderStep, PTL DEF Spec

(***************************************************************************)
(* Files: which ones are managed.                                          *)
(***************************************************************************)
\* The current file is the last of the managed ones.
CurIsLast ==
  status = "up" =>
    /\ \A f \in managed : f <= cur
    /\ cur # 0 => cur \in managed

ShapeInv == OrderInv /\ CurIsLast

\* The last file of the map is always kept, for m_uiMaxFileNum is not 0, and
\* what is dropped is in nobody's way.
LEMMA KeptFacts ==
  ASSUME NEW S \in SUBSET FileNos, NEW m \in S, \A f \in S : f <= m
  PROVE  /\ Kept(S) \subseteq S
         /\ m \in Kept(S)
         /\ \A f \in S \ Kept(S) : ~InUse(f)
<1>1. {h \in S : h >= m} = {m}
  <2>1. \A h \in S : h \in Int /\ m \in Int /\ h <= m
    BY DEF FileNos
  <2>2. \A h \in S : h >= m => h = m
    BY <2>1
  <2>3. m >= m
    BY <2>1
  <2> QED
    BY <2>2, <2>3
<1>2. IsManaged(m, {h \in S : h >= m})
  BY <1>1, FS_Singleton, BoundsAssumption DEF IsManaged
<1>3. \A f \in S : f <= f
  BY DEF FileNos
<1>4. ASSUME NEW f \in S, InUse(f)  PROVE f \in Kept(S)
  BY <1>3, <1>4 DEF Kept, IsManaged
<1> QED
  BY <1>2, <1>3, <1>4 DEF Kept

\* A layout that an append may come to: the current file is the last one, what
\* is new lies behind the files there were, what is gone is in nobody's way.
Fits(q) ==
  /\ q.cur \in FileNos /\ q.cur >= cur
  /\ q.managed \in SUBSET FileNos /\ q.cur \in q.managed
  /\ \A f \in q.managed : f <= q.cur /\ (f \in managed \/ f > cur)
  /\ \A f \in managed \ q.managed : ~InUse(f)

LEMMA RolledFits ==
  ASSUME TypeOK, NEW q, Fits(q), CanRoll(q)
  PROVE  Fits(Rolled(q)) /\ Rolled(q).low = MinOf(Rolled(q).managed)
<1> DEFINE m == q.cur + 1
           S == q.managed \cup {m}
<1>1. q.cur \in Nat /\ cur \in Nat /\ q.cur >= cur /\ q.managed \in SUBSET FileNos
  BY BoundsAssumption DEF Fits, FileNos, TypeOK
<1>2. m \in FileNos /\ S \in SUBSET FileNos /\ m \in S /\ m > cur
  BY <1>1, BoundsAssumption DEF CanRoll, FileNos
<1>3. \A f \in S : f <= m
  BY <1>1 DEF Fits, FileNos
<1>4. /\ Rolled(q).cur = m /\ Rolled(q).managed = Kept(S)
      /\ Rolled(q).low = MinOf(Rolled(q).managed)
  BY DEF Rolled
<1>5. \A f \in S : f \in managed \/ f > cur
  BY <1>2 DEF Fits
<1>6. \A f \in managed \ q.managed : ~InUse(f)
  BY DEF Fits
<1> HIDE DEF m, S
<1>7. /\ Kept(S) \subseteq S /\ m \in Kept(S)
      /\ \A f \in S \ Kept(S) : ~InUse(f)
  BY <1>2, <1>3, KeptFacts
<1>8. \A f \in managed \ Kept(S) : ~InUse(f)
  BY <1>6, <1>7 DEF S
<1>9. m >= cur
  BY <1>1, <1>2 DEF FileNos
<1> QED
  BY <1>2, <1>3, <1>4, <1>5, <1>7, <1>8, <1>9 DEF Fits

LEMMA PlacesFit ==
  ASSUME TypeOK, CurIsLast, status = "up", NEW p \in Places \cup (IF cur = 0 THEN {} ELSE {Here})
  PROVE  Fits(p)
<1>1. CASE cur = 0
  <2>1. p = FirstFile
    BY <1>1 DEF Places
  <2>2. managed = {}
    BY <1>1 DEF CurIsLast, TypeOK, FileNos
  <2> QED
    BY <1>1, <2>1, <2>2, BoundsAssumption DEF FirstFile, Fits, FileNos
<1>2. CASE cur # 0
  <2>1. Fits(Here)
    BY <1>2, BoundsAssumption DEF Fits, Here, CurIsLast, TypeOK, FileNos
  <2>2. p = Here \/ (p = Rolled(Here) /\ CanRoll(Here))
    BY <1>2 DEF Places
  <2> QED
    BY <2>1, <2>2, RolledFits
<1> QED
  BY <1>1, <1>2

\* What an append does to the files, whatever becomes of the record.
FilesMove ==
  /\ cur' \in managed'
  /\ cur' >= cur
  /\ \A f \in managed' : f <= cur' /\ (f \in managed \/ f > cur)
  /\ \A f \in managed \ managed' : ~InUse(f)

LEMMA PlaceMoves ==
  ASSUME NEW q, Fits(q), Place(q)
  PROVE  FilesMove
BY DEF Fits, Place, FilesMove

LEMMA AppendMoves ==
  ASSUME TypeOK, CurIsLast, NEW s \in Sids, AppendCall(s)
  PROVE  /\ status = "up" /\ status' = "up" /\ cursor' = cursor
         /\ FilesMove \/ UNCHANGED <<cur, managed>>
<1>1. status = "up" /\ status' = "up" /\ cursor' = cursor
  BY DEF AppendCall, AppendRecord, AppendFails, CreateFileFails, AppendOversize
<1>2. CASE AppendRecord(s) \/ AppendFails(s)
  <2>1. PICK p \in Places : Place(p)
    BY <1>2 DEF AppendRecord, AppendFails
  <2> QED
    BY <1>1, <2>1, PlacesFit, PlaceMoves
<1>3. CASE CreateFileFails(s)
  BY <1>1, <1>3 DEF CreateFileFails
<1>4. CASE AppendOversize(s)
  <2>1. PICK p \in Places \cup (IF cur = 0 THEN {} ELSE {Here}) : CanRoll(p) /\ Place(Rolled(p))
    BY <1>4 DEF AppendOversize
  <2> QED
    BY <1>1, <2>1, PlacesFit, RolledFits, PlaceMoves
<1> QED
  BY <1>2, <1>3, <1>4 DEF AppendCall

LEMMA ShapeStep == ShapeInv /\ [Next]_vars => ShapeInv'
<1> SUFFICES ASSUME ShapeInv, [Next]_vars PROVE CurIsLast'
  BY OrderStep DEF ShapeInv
<1>0. TypeOK /\ CurIsLast
  BY DEF ShapeInv, OrderInv
<1>1. CASE \E s \in Sids : AppendCall(s)
  BY <1>0, <1>1, AppendMoves DEF FilesMove, CurIsLast
<1>2. CASE \/ \E c \in Cursors, s \in 0..MaxSid : CreateCursor(c, s)
           \/ \E c \in Cursors : CursorCall(c)
  <2>1. CursorStep
    BY <1>2 DEF CursorCall, NextCall, CreateCursor, DestroyCursor, Seek, SeekFails,
                NextInFile, NextFile, NextFileEmpty, NextOutOfRange, ReadFails, EnterAt
  <2> QED
    BY <1>0, <2>1 DEF CursorStep, mgrVars, CurIsLast
<1>3. CASE Commit \/ CommitFails
  BY <1>0, <1>3 DEF Commit, CommitFails, CurIsLast
<1>4. CASE Crash \/ (\E s \in Sids : CrashInAppend(s)) \/ RefuseToStart
  BY <1>4 DEF Crash, CrashInAppend, RefuseToStart, CurIsLast
<1>5. CASE Recover
  BY <1>5 DEF Recover, CurIsLast
<1>6. CASE UNCHANGED vars
  BY <1>0, <1>6 DEF vars, mgrVars, CurIsLast
<1> QED
  BY <1>1, <1>2, <1>3, <1>4, <1>5, <1>6 DEF Next

LEMMA ShapeInit == Init => ShapeInv
BY OrderInit DEF ShapeInv, CurIsLast, Init

-----------------------------------------------------------------------------
(***************************************************************************)
(* Records in the order of the files.                                      *)
(***************************************************************************)
LEMMA RecordsAscend ==
  ASSUME TypeOK, SidsAscend, NEW f \in FileNos, NEW g \in FileNos,
         NEW i \in 1..Len(data[f]), NEW j \in 1..Len(data[g])
  PROVE  /\ data[f][i] \in Sids /\ data[f][i] \in Nat /\ data[f][i] # 0
         /\ data[g][j] \in Nat
         /\ Before(f, i, g, j) => data[f][i] < data[g][j]
<1>1. data[f] \in Seq(Sids) /\ data[g] \in Seq(Sids)
  BY DEF TypeOK
<1>2. i \in Slots /\ j \in Slots
  BY DEF Slots
<1>3. data[f][i] \in Sids /\ data[g][j] \in Sids
  BY <1>1, ElementFact
<1>4. \A s \in Sids : s \in Nat /\ s # 0
  BY BoundsAssumption DEF Sids
<1>5. SidAt(f, i) = data[f][i] /\ SidAt(g, j) = data[g][j]
  BY <1>2, SidAtFacts
<1>6. Before(f, i, g, j) => SidAt(f, i) < SidAt(g, j)
  BY <1>2, <1>3, <1>4, <1>5, AscendEverywhere DEF Ascending
<1> QED
  BY <1>3, <1>4, <1>5, <1>6

\* The first record of a file is the smallest, the last is the largest.
LEMMA EndsBound ==
  ASSUME TypeOK, SidsAscend, NEW f \in FileNos
  PROVE  /\ FileMin(f) \in Nat /\ FileMax(f) \in Nat
         /\ data[f] = <<>> => FileMin(f) = 0 /\ FileMax(f) = 0
         /\ data[f] # <<>> => /\ Len(data[f]) \in Nat /\ 1 \in 1..Len(data[f])
                              /\ Len(data[f]) \in 1..Len(data[f])
                              /\ FileMin(f) = data[f][1]
                              /\ FileMax(f) = data[f][Len(data[f])]
                              /\ FileMin(f) # 0
         /\ \A i \in 1..Len(data[f]) : FileMin(f) <= data[f][i] /\ data[f][i] <= FileMax(f)
<1>1. data[f] \in Seq(Sids)
  BY DEF TypeOK
<1>2. FileMin(f) \in Nat /\ FileMax(f) \in Nat
  BY <1>1, EndsType, BoundsAssumption DEF FileMin, FileMax
<1>3. CASE data[f] = <<>>
  BY <1>2, <1>3 DEF FileMin, FileMax, First, Newest
<1>4. CASE data[f] # <<>>
  <2> PICK L \in Nat : L = Len(data[f])
    BY <1>1
  <2>1. 1 \in 1..Len(data[f]) /\ L \in 1..Len(data[f])
    BY <1>1, <1>4
  <2>2. FileMin(f) = data[f][1] /\ FileMax(f) = data[f][L]
    BY <1>4 DEF FileMin, FileMax, First, Newest
  <2>3. \A i, j \in 1..Len(data[f]) :
          data[f][i] \in Nat /\ data[f][i] # 0 /\ (i < j => data[f][i] < data[f][j])
    BY RecordsAscend DEF Before
  <2>4. ASSUME NEW i \in 1..Len(data[f])
        PROVE  data[f][1] <= data[f][i] /\ data[f][i] <= data[f][L]
    <3>1. (i = 1 \/ 1 < i) /\ (i = L \/ i < L)
      OBVIOUS
    <3>2. data[f][1] \in Nat /\ data[f][i] \in Nat /\ data[f][L] \in Nat
      BY <2>1, <2>3
    <3>3. 1 < i => data[f][1] < data[f][i]
      BY <2>1, <2>3
    <3>4. i < L => data[f][i] < data[f][L]
      BY <2>1, <2>3
    <3> QED
      BY <3>1, <3>2, <3>3, <3>4
  <2> QED
    BY <1>2, <1>4, <2>1, <2>2, <2>3, <2>4
<1> QED
  BY <1>3, <1>4

LEMMA SeekFileFacts ==
  ASSUME ShapeInv, status = "up", cur # 0, NEW s \in Nat, s < FileMax(cur)
  PROVE  /\ SeekFile(s) \in managed
         /\ s < FileMax(SeekFile(s))
         /\ \A g \in managed : g < SeekFile(s) => FileMax(g) <= s
<1>0. TypeOK /\ SidsAscend /\ cur \in managed /\ managed \subseteq FileNos
  BY DEF ShapeInv, OrderInv, CurIsLast, TypeOK
<1> DEFINE S == {g \in managed : s < FileMax(g)}
<1>1. S # {} /\ S \subseteq FileNos
  BY <1>0
<1>2. \A g \in managed : FileMax(g) \in Nat
  BY <1>0, EndsBound
<1>3. CASE s >= FileMin(cur)
  <2>1. SeekFile(s) = cur
    BY <1>3 DEF SeekFile
  <2>2. ASSUME NEW g \in managed, g < cur  PROVE FileMax(g) <= s
    <3>1. data[cur] # <<>> /\ FileMin(cur) = data[cur][1] /\ 1 \in 1..Len(data[cur])
      BY <1>0, EndsBound
    <3>2. CASE data[g] = <<>>
      BY <1>0, <3>2, EndsBound
    <3>3. CASE data[g] # <<>>
      <4>1. Len(data[g]) \in 1..Len(data[g]) /\ FileMax(g) = data[g][Len(data[g])]
        BY <1>0, <3>3, EndsBound
      <4>2. data[g][Len(data[g])] < data[cur][1]
        BY <1>0, <2>2, <3>1, <4>1, RecordsAscend DEF Before
      <4>3. FileMin(cur) \in Nat
        BY <1>0, EndsBound
      <4> QED
        BY <1>2, <1>3, <3>1, <4>1, <4>2, <4>3
    <3> QED
      BY <3>2, <3>3
  <2> QED
    BY <1>0, <2>1, <2>2
<1>4. CASE ~(s >= FileMin(cur))
  <2>1. \E g \in S : IsLeast(g, S)
    BY <1>1, LeastExists
  <2>2. SeekFile(s) = CHOOSE g \in managed : IsLeast(g, S)
    BY <1>1, <1>4 DEF SeekFile
  <2>3. SeekFile(s) \in managed /\ IsLeast(SeekFile(s), S)
    BY <2>1, <2>2
  <2>4. ASSUME NEW g \in managed, g < SeekFile(s)  PROVE FileMax(g) <= s
    <3>a. \A f \in FileNos : f \in Nat
      BY DEF FileNos
    <3>1. g \in Nat /\ SeekFile(s) \in Nat
      BY <1>0, <2>3, <3>a
    <3>2. g \notin S
      BY <2>3, <2>4, <3>1 DEF IsLeast
    <3> QED
      BY <1>2, <3>2
  <2> QED
    BY <2>3, <2>4 DEF IsLeast
<1> QED
  BY <1>3, <1>4

\* Whatever failed before, a seek that is asked for a message above a sid picks
\* a file that has one, and none before it has.
THEOREM SeekAlwaysFinds == Spec => []SeekFinds
<1>1. ShapeInv => SeekFinds
  <2> SUFFICES ASSUME ShapeInv, NEW c \in Cursors, SeekGoes(c)
               PROVE  LET f == SeekFile(cursor[c].seek)
                      IN  /\ f \in managed
                          /\ cursor[c].seek < FileMax(f)
                          /\ \A g \in managed : g < f => FileMax(g) <= cursor[c].seek
    BY DEF SeekFinds
  <2>1. cursor[c].seek \in Nat
    BY DEF ShapeInv, OrderInv, TypeOK, CursorType, CursorRecord
  <2> QED
    BY <2>1, SeekFileFacts DEF SeekGoes
<1> QED
  BY <1>1, ShapeInit, ShapeStep, PTL DEF Spec

-----------------------------------------------------------------------------
(***************************************************************************)
(* Pruning.                                                                *)
(***************************************************************************)
\* A file that some cursor still needs: no sid of the others is of use.
LEMMA NotInUse ==
  ASSUME TypeOK, SidsAscend, NEW f \in FileNos, ~InUse(f), NEW c \in Cursors,
         cursor[c].st # "none", NEW i \in 1..Len(data[f])
  PROVE  data[f][i] < Position(c)
<1>1. /\ cursor[c].st \in {"unseek", "ready", "error"}
      /\ cursor[c].sid \in Nat /\ cursor[c].seek \in Nat
  BY DEF TypeOK, CursorType, CursorRecord
<1>2. FileMax(f) \in Nat /\ data[f][i] \in Nat /\ data[f][i] <= FileMax(f)
  BY EndsBound, RecordsAscend
<1>3. cursor[c].st = "ready" => cursor[c].sid > FileMax(f)
  BY <1>1, <1>2 DEF InUse
<1>4. cursor[c].st \in {"unseek", "error"} => cursor[c].seek > FileMax(f)
  BY <1>1, <1>2 DEF InUse
<1> QED
  BY <1>1, <1>2, <1>3, <1>4 DEF Position

\* What a call to append() leaves of the records.
LEMMA AppendKeeps ==
  ASSUME TypeOK, NEW s \in Sids, AppendCall(s), NEW f \in FileNos, NEW i \in 1..Len(data[f])
  PROVE  i \in 1..Len(data'[f]) /\ data'[f][i] = data[f][i]
<1>1. CASE AppendRecord(s)
  <2>1. PICK p \in Places : data' = [data EXCEPT ![p.cur] = Append(@, s)]
    BY <1>1 DEF AppendRecord
  <2>2. data[f] \in Seq(Sids) /\ p.cur \in FileNos
    BY PlacesType DEF TypeOK
  <2>3. data'[f] = data[f] \/ data'[f] = Append(data[f], s)
    BY <2>1, <2>2 DEF TypeOK
  <2> QED
    BY <2>2, <2>3, AppendFacts
<1>2. CASE AppendFails(s) \/ CreateFileFails(s) \/ AppendOversize(s)
  BY <1>2 DEF AppendFails, CreateFileFails, AppendOversize
<1> QED
  BY <1>1, <1>2 DEF AppendCall

\* Pruning drops only what every open cursor has passed, cursors that are not
\* placed and cursors that failed included, whatever fails meanwhile.
THEOREM UnreadAlwaysKept == Spec => UnreadKept
<1>1. ShapeInv /\ [Next]_vars => (status = "up" /\ status' = "up" =>
       \A c \in Cursors : cursor[c].st # "none" =>
         \A s \in Retained \ Retained' : s < Position(c) \/ (s = Position(c) /\ cursor[c].st # "ready"))
  <2> SUFFICES ASSUME ShapeInv, [Next]_vars, status = "up", status' = "up",
                      NEW c \in Cursors, cursor[c].st # "none",
                      NEW s, s \in Retained, s \notin Retained'
               PROVE  s < Position(c)
    OBVIOUS
  <2>0. TypeOK /\ SidsAscend /\ CurIsLast
    BY DEF ShapeInv, OrderInv
  <2>1. CASE \E e \in Sids : AppendCall(e)
    <3>1. PICK e \in Sids : AppendCall(e)
      BY <2>1
    <3>a. PICK f \in managed : \E i \in 1..Len(data[f]) : s = data[f][i]
      BY DEF Retained
    <3>2. PICK i \in 1..Len(data[f]) : s = data[f][i]
      BY <3>a
    <3>3. f \in FileNos
      BY <2>0 DEF TypeOK
    <3>4. i \in 1..Len(data'[f]) /\ data'[f][i] = s
      BY <2>0, <3>1, <3>2, <3>3, AppendKeeps
    <3>5. f \notin managed'
      BY <3>4 DEF Retained
    <3>6. ~InUse(f)
      BY <2>0, <3>1, <3>5, AppendMoves DEF FilesMove
    <3> QED
      BY <2>0, <3>2, <3>3, <3>6, NotInUse
  <2>2. CASE UNCHANGED <<data, managed>>
    BY <2>2 DEF Retained
  <2>3. CASE \/ \E k \in Cursors, e \in 0..MaxSid : CreateCursor(k, e)
             \/ \E k \in Cursors : CursorCall(k)
    <3>1. CursorStep
      BY <2>3 DEF CursorCall, NextCall, CreateCursor, DestroyCursor, Seek, SeekFails,
                  NextInFile, NextFile, NextFileEmpty, NextOutOfRange, ReadFails, EnterAt
    <3> QED
      BY <2>2, <3>1 DEF CursorStep, fileVars, mgrVars
  <2>4. CASE Commit \/ CommitFails \/ UNCHANGED vars
    BY <2>2, <2>4 DEF Commit, CommitFails, vars, fileVars, mgrVars
  <2>5. CASE Crash \/ (\E e \in Sids : CrashInAppend(e)) \/ Recover \/ RefuseToStart
    BY <2>5 DEF Crash, CrashInAppend, Recover, RefuseToStart
  <2> QED
    BY <2>1, <2>3, <2>4, <2>5 DEF Next
<1> QED
  BY <1>1, ShapeInit, ShapeStep, PTL DEF Spec, UnreadKept

-----------------------------------------------------------------------------
(***************************************************************************)
(* Without disk errors.                                                    *)
(***************************************************************************)
\* Nothing is left over behind a file that an init() could trip over, and
\* while the manager runs nothing at all.
Tidy ==
  /\ junk = {} /\ bad = {}
  /\ status # "refused"
  /\ status = "up" => \A f \in FileNos : tail[f] = 0

\* Only the last file that holds anything can lose or gain by a crash.
SyncKnown ==
  /\ \A f \in FileNos : synced[f] <= Len(data[f])
  /\ status = "up" => \A f \in FileNos : f # cur => synced[f] = Len(data[f])
  /\ status # "up" => \A f, g \in FileNos :
       f < g /\ Content(g) # <<>> => synced[f] = Len(data[f]) /\ tail[f] = 0

\* As long as appends are accepted every managed file holds a record.
Filled == status = "up" /\ valid => \A f \in managed : data[f] # <<>>

MinKnown == MinSidIsOldest /\ (status = "up" /\ cur = 0 => minSid = 0)

\* A cursor that is placed stands on a record of a managed file.
Stands(k) ==
  /\ k.file \in managed
  /\ k.at \in 1..Len(data[k.file])
  /\ k.sid = data[k.file][k.at]

CursorsPlaced ==
  \A c \in Cursors : cursor[c].st = "ready" => status = "up" /\ Stands(cursor[c])

CleanInv == ShapeInv /\ Tidy /\ SyncKnown /\ Filled /\ MinKnown /\ CursorsPlaced

LEMMA CleanInit == Init => CleanInv
<1> SUFFICES ASSUME Init PROVE CleanInv
  OBVIOUS
<1>1. \A f \in FileNos : Content(f) = <<>> /\ Len(data[f]) = 0 /\ synced[f] = 0 /\ tail[f] = 0
  BY DEF Init, Content
<1>2. \A c \in Cursors : cursor[c].st = "none"
  BY DEF Init, NoCursor
<1> QED
  BY <1>1, <1>2, ShapeInit
     DEF Init, CleanInv, Tidy, SyncKnown, Filled, MinKnown, MinSidIsOldest, CursorsPlaced

(***************************************************************************)
(* append().                                                               *)
(***************************************************************************)
\* Where an append may go, the smallest sid is that of the oldest file.
LEMMA PlaceLow ==
  ASSUME CleanInv, status = "up", NEW p \in Places
  PROVE  \E l \in p.managed : IsLeast(l, p.managed) /\ p.low = FileMin(l)
<1>0. TypeOK /\ CurIsLast /\ NothingAhead /\ MinKnown
  BY DEF CleanInv, ShapeInv, OrderInv
<1>1. CASE cur = 0
  <2>1. p = FirstFile /\ 1 \in FileNos
    BY <1>1, BoundsAssumption DEF Places, FileNos
  <2>2. p.low = 0 /\ p.managed = {1}
    BY <1>0, <1>1, <2>1 DEF FirstFile, MinKnown
  <2>3. data[1] = <<>>
    BY <1>0, <1>1, <2>1 DEF NothingAhead
  <2> QED
    BY <2>2, <2>3 DEF IsLeast, FileMin, First
<1>2. CASE cur # 0 /\ p = Here
  BY <1>0, <1>2 DEF MinKnown, MinSidIsOldest, Here
<1>3. CASE cur # 0 /\ p = Rolled(Here) /\ CanRoll(Here)
  <2>1. Fits(Here)
    BY <1>0, <1>3, PlacesFit
  <2>2. p.managed \in SUBSET FileNos /\ p.managed # {} /\ p.low = MinOf(p.managed)
    BY <1>0, <1>3, <2>1, RolledFits DEF Fits
  <2>3. PICK f \in p.managed : IsLeast(f, p.managed)
    BY <2>2, LeastExists
  <2> DEFINE l == CHOOSE g \in p.managed : IsLeast(g, p.managed)
  <2>4. l \in p.managed /\ IsLeast(l, p.managed)
    BY <2>3
  <2>5. MinOf(p.managed) = FileMin(l)
    BY <2>3 DEF MinOf
  <2> QED
    BY <2>2, <2>4, <2>5
<1>4. p = Here \/ (p = Rolled(Here) /\ CanRoll(Here)) \/ cur = 0
  BY DEF Places
<1> QED
  BY <1>1, <1>2, <1>3, <1>4

\* Whatever an append does, the placed cursors keep their records.
LEMMA CursorsStay ==
  ASSUME CleanInv, NEW s \in Sids, AppendCall(s)
  PROVE  CursorsPlaced'
<1>0. TypeOK /\ SidsAscend /\ CurIsLast /\ CursorsPlaced
  BY DEF CleanInv, ShapeInv, OrderInv
<1>1. status' = "up" /\ cursor' = cursor /\ (FilesMove \/ managed' = managed)
  BY <1>0, AppendMoves
<1>2. SUFFICES ASSUME NEW c \in Cursors, cursor[c].st = "ready"
               PROVE  /\ cursor[c].file \in managed'
                      /\ cursor[c].at \in 1..Len(data'[cursor[c].file])
                      /\ cursor[c].sid = data'[cursor[c].file][cursor[c].at]
  BY <1>1 DEF CursorsPlaced, Stands
<1> DEFINE f == cursor[c].file
           i == cursor[c].at
<1>3. f \in managed /\ f \in FileNos /\ i \in 1..Len(data[f]) /\ cursor[c].sid = data[f][i]
  BY <1>0, <1>2 DEF CursorsPlaced, Stands, TypeOK
<1>4. data[f][i] <= FileMax(f)
  BY <1>0, <1>3, EndsBound
<1>5. InUse(f)
  BY <1>2, <1>3, <1>4 DEF InUse
<1>6. f \in managed'
  BY <1>1, <1>3, <1>5 DEF FilesMove
<1>7. i \in 1..Len(data'[f]) /\ data'[f][i] = data[f][i]
  BY <1>0, <1>3, AppendKeeps
<1> QED
  BY <1>3, <1>6, <1>7

LEMMA CleanAppendRecord ==
  ASSUME ~DiskMayFail, CleanInv, ShapeInv', NEW s \in Sids, AppendRecord(s)
  PROVE  CleanInv'
<1>0. /\ TypeOK /\ SidsAscend /\ CurIsLast /\ NothingAhead
      /\ Tidy /\ SyncKnown /\ Filled
  BY DEF CleanInv, ShapeInv, OrderInv
<1>1. PICK p \in Places, timeUp \in BOOLEAN, flushOk \in BOOLEAN :
        /\ flushOk
        /\ Place(p)
        /\ data' = [data EXCEPT ![p.cur] = Append(@, s)]
        /\ Overwrite(p.cur, s, 0)
        /\ minSid' = IF p.low = 0 THEN s ELSE p.low
        /\ AutoCommit(p.cur, timeUp, flushOk)
  BY DEF AppendRecord
<1>2. status = "up" /\ valid /\ status' = "up" /\ AppendCall(s)
  BY DEF AppendRecord, AppendCall
<1>3. /\ Fits(p) /\ p.cur \in FileNos /\ (p.cur = cur \/ p.cur = cur + 1)
      /\ cur' = p.cur /\ managed' = p.managed
  BY <1>0, <1>1, <1>2, PlacesFit, PlacesType DEF Place
<1>4. /\ data[p.cur] \in Seq(Sids)
      /\ data'[p.cur] = Append(data[p.cur], s)
      /\ \A f \in FileNos : f # p.cur => data'[f] = data[f]
  BY <1>0, <1>1, <1>3 DEF TypeOK
<1>5. /\ Len(data'[p.cur]) = Len(data[p.cur]) + 1 /\ data'[p.cur] # <<>>
      /\ Len(data[p.cur]) \in Nat
      /\ \A i \in 1..Len(data[p.cur]) : data'[p.cur][i] = data[p.cur][i]
      /\ data'[p.cur][Len(data[p.cur]) + 1] = s
  BY <1>4, AppendFacts
<1>6. Tidy'
  <2>1. tail[p.cur] = 0 /\ junk = {} /\ bad = {}
    BY <1>0, <1>2, <1>3 DEF Tidy
  <2>2. junk' = {}
    BY <1>1, <2>1 DEF Overwrite
  <2>3. bad' = {}
    BY <1>1, <2>1 DEF AutoCommit
  <2>4. \A f \in FileNos : tail'[f] = 0
    BY <1>0, <1>1, <1>2 DEF Overwrite, Tidy, TypeOK
  <2> QED
    BY <1>2, <2>2, <2>3, <2>4 DEF Tidy
<1>7. SyncKnown'
  <2> DEFINE left == SyncedAt([cur |-> p.cur])
  <2>1. \A f \in FileNos : left[f] = IF f = cur /\ p.cur # cur THEN Len(data[f]) ELSE synced[f]
    BY DEF SyncedAt
  <2>2. \A f \in FileNos : Len(data[f]) \in Nat /\ synced[f] \in Nat /\ synced[f] <= Len(data[f])
    BY <1>0 DEF TypeOK, SyncKnown
  <2>3. synced' = left \/ synced' = [left EXCEPT ![p.cur] = Len(data[p.cur]) + 1]
    BY <1>1 DEF AutoCommit
  <2>4. left \in [FileNos -> Nat]
    BY <1>0, SyncedAtType
  <2> HIDE DEF left
  <2>5. ASSUME NEW f \in FileNos, f # p.cur  PROVE synced'[f] = Len(data'[f])
    <3>1. synced'[f] = left[f]
      BY <2>3, <2>4, <2>5
    <3>2. left[f] = Len(data[f])
      BY <1>0, <1>2, <2>1, <2>5 DEF SyncKnown
    <3> QED
      BY <1>4, <2>5, <3>1, <3>2
  <2>6. synced'[p.cur] <= Len(data'[p.cur])
    <3>1. left[p.cur] <= Len(data[p.cur])
      BY <1>3, <2>1, <2>2
    <3>2. synced'[p.cur] = left[p.cur] \/ synced'[p.cur] = Len(data[p.cur]) + 1
      BY <1>3, <2>3, <2>4
    <3>3. left[p.cur] \in Nat
      BY <1>3, <2>4
    <3> QED
      BY <1>5, <3>1, <3>2, <3>3
  <2>7. ASSUME NEW f \in FileNos  PROVE synced'[f] <= Len(data'[f])
    <3>1. CASE f = p.cur
      BY <2>6, <3>1
    <3>2. CASE f # p.cur
      BY <1>4, <2>2, <2>5, <3>2
    <3> QED
      BY <3>1, <3>2
  <2> QED
    BY <1>2, <1>3, <2>5, <2>7 DEF SyncKnown
<1>8. ASSUME NEW f \in managed', f # p.cur  PROVE f \in managed /\ data[f] # <<>> /\ data'[f] = data[f]
  <2>1. f \in FileNos /\ f <= p.cur /\ (f \in managed \/ f > cur)
    BY <1>3 DEF Fits
  <2>2. f \in managed
    BY <1>0, <1>3, <1>8, <2>1 DEF FileNos, TypeOK
  <2> QED
    BY <1>0, <1>2, <1>4, <1>8, <2>1, <2>2 DEF Filled
<1>9. Filled'
  BY <1>5, <1>8 DEF Filled
<1>10. MinKnown'
  <2>1. PICK l \in p.managed : IsLeast(l, p.managed) /\ p.low = FileMin(l)
    BY <1>2, PlaceLow
  <2>2. l \in FileNos
    BY <1>3, <2>1 DEF Fits
  <2>3. CASE data[l] # <<>>
    <3>1. FileMin(l) # 0
      BY <1>0, <2>2, <2>3, EndsBound
    <3>2. data'[l] # <<>> /\ data'[l][1] = data[l][1]
      <4>1. CASE l = p.cur
        BY <1>0, <1>5, <2>2, <2>3, <4>1, EndsBound
      <4>2. CASE l # p.cur
        BY <1>4, <2>2, <2>3, <4>2
      <4> QED
        BY <4>1, <4>2
    <3>3. FileMin(l)' = FileMin(l)
      BY <2>3, <3>2 DEF FileMin, First
    <3> QED
      BY <1>1, <1>3, <2>1, <3>1, <3>3 DEF MinKnown, MinSidIsOldest, FileNos
  <2>4. CASE data[l] = <<>>
    <3>1. l = p.cur
      BY <1>3, <1>8, <2>1, <2>4
    <3>2. FileMin(l)' = s
      BY <1>5, <2>4, <3>1 DEF FileMin, First
    <3>3. p.low = 0
      BY <1>0, <2>1, <2>2, <2>4, EndsBound
    <3> QED
      BY <1>1, <1>3, <2>1, <3>2, <3>3 DEF MinKnown, MinSidIsOldest, FileNos
  <2> QED
    BY <2>3, <2>4
<1>11. CursorsPlaced'
  BY <1>2, CursorsStay
<1> QED
  BY <1>6, <1>7, <1>9, <1>10, <1>11 DEF CleanInv

LEMMA CleanAppendOversize ==
  ASSUME CleanInv, ShapeInv', NEW s \in Sids, AppendOversize(s)
  PROVE  CleanInv'
<1>0. TypeOK /\ CurIsLast /\ Tidy /\ SyncKnown
  BY DEF CleanInv, ShapeInv, OrderInv
<1>1. PICK p \in Places \cup (IF cur = 0 THEN {} ELSE {Here}) :
        /\ CanRoll(p)
        /\ Place(Rolled(p))
        /\ minSid' = Rolled(p).low
        /\ synced' = SyncedAt(Rolled(p))
  BY DEF AppendOversize
<1>2. /\ status = "up" /\ status' = "up" /\ AppendCall(s)
      /\ valid' = FALSE
      /\ UNCHANGED <<data, tail, junk, bad, cursor>>
  BY DEF AppendOversize, AppendCall
<1> DEFINE q == Rolled(p)
<1>3. Fits(p) /\ Fits(q) /\ q.low = MinOf(q.managed)
  BY <1>0, <1>1, <1>2, PlacesFit, RolledFits
<1>4. q.cur = p.cur + 1
  BY DEF Rolled
<1> HIDE DEF q
<1>5. q.cur > cur /\ cur' = q.cur /\ managed' = q.managed /\ minSid' = MinOf(q.managed)
  BY <1>0, <1>1, <1>3, <1>4 DEF Fits, Place, FileNos, TypeOK, q
<1>6. Tidy'
  BY <1>0, <1>2 DEF Tidy
<1>7. SyncKnown'
  <2>1. \A f \in FileNos : synced'[f] = IF f = cur /\ q.cur # cur THEN Len(data[f]) ELSE synced[f]
    BY <1>1 DEF SyncedAt, q
  <2>2. q.cur # cur
    BY <1>0, <1>5 DEF TypeOK
  <2>3. \A f \in FileNos : synced'[f] = Len(data'[f])
    BY <1>0, <1>2, <2>1, <2>2 DEF SyncKnown
  <2>4. \A f \in FileNos : Len(data'[f]) \in Nat
    BY <1>0, <1>2 DEF TypeOK
  <2> QED
    BY <1>2, <2>3, <2>4 DEF SyncKnown
<1>8. MinKnown'
  <2>1. q.managed \in SUBSET FileNos /\ q.managed # {} /\ q.cur \in FileNos
    BY <1>3 DEF Fits
  <2>2. PICK g \in q.managed : IsLeast(g, q.managed)
    BY <2>1, LeastExists
  <2>3. PICK l \in q.managed : IsLeast(l, q.managed) /\ MinOf(q.managed) = FileMin(l)
    <3>1. LET f == CHOOSE f \in q.managed : IsLeast(f, q.managed)
          IN  f \in q.managed /\ IsLeast(f, q.managed) /\ MinOf(q.managed) = FileMin(f)
      BY <2>2 DEF MinOf
    <3> QED
      BY <3>1
  <2>4. FileMin(l)' = FileMin(l)
    BY <1>2 DEF FileMin
  <2> QED
    BY <1>5, <2>1, <2>3, <2>4 DEF MinKnown, MinSidIsOldest, FileNos
<1>9. Filled'
  BY <1>2 DEF Filled
<1>10. CursorsPlaced'
  BY <1>2, CursorsStay
<1> QED
  BY <1>6, <1>7, <1>8, <1>9, <1>10 DEF CleanInv

(***************************************************************************)
(* Commits and cursors.                                                    *)
(***************************************************************************)
LEMMA CleanCommit ==
  ASSUME CleanInv, ShapeInv', Commit
  PROVE  CleanInv'
<1>0. TypeOK /\ Tidy /\ SyncKnown /\ Filled /\ MinKnown /\ CursorsPlaced
  BY DEF CleanInv, ShapeInv, OrderInv
<1>1. /\ status = "up" /\ status' = "up" /\ cur \in FileNos
      /\ synced' = [synced EXCEPT ![cur] = Len(data[cur])]
      /\ UNCHANGED <<data, tail, junk, disk, managed, cur, minSid, maxSid, valid, bad, cursor>>
  BY <1>0, BoundsAssumption DEF Commit, TypeOK, FileNos
<1>2. SyncKnown'
  <2>1. \A f \in FileNos : Len(data[f]) \in Nat /\ synced[f] \in Nat
    BY <1>0 DEF TypeOK
  <2>2. synced'[cur] = Len(data[cur]) /\ \A f \in FileNos : f # cur => synced'[f] = synced[f]
    BY <1>0, <1>1 DEF TypeOK
  <2>3. ASSUME NEW f \in FileNos  PROVE synced'[f] <= Len(data[f])
    BY <1>0, <2>1, <2>2 DEF SyncKnown
  <2> QED
    BY <1>0, <1>1, <2>2, <2>3 DEF SyncKnown
<1>3. Tidy' /\ Filled' /\ MinKnown' /\ CursorsPlaced'
  BY <1>0, <1>1 DEF Tidy, Filled, MinKnown, MinSidIsOldest, FileMin, CursorsPlaced, Stands
<1> QED
  BY <1>2, <1>3 DEF CleanInv

\* A cursor may move to any record of a managed file, or not stand at all.
LEMMA CleanMove ==
  ASSUME CleanInv, ShapeInv', CursorStep, status = "up", NEW c \in Cursors, NEW k, Move(c, k),
         k.st = "ready" => Stands(k)
  PROVE  CleanInv'
<1>0. TypeOK /\ Tidy /\ SyncKnown /\ Filled /\ MinKnown /\ CursorsPlaced
  BY DEF CleanInv, ShapeInv, OrderInv
<1>1. UNCHANGED <<status, data, tail, junk, synced, disk, managed, cur, minSid, maxSid, valid, bad>>
  BY DEF CursorStep, fileVars, mgrVars
<1>2. Tidy' /\ SyncKnown' /\ Filled' /\ MinKnown'
  BY <1>0, <1>1 DEF Tidy, SyncKnown, Content, Filled, MinKnown, MinSidIsOldest, FileMin
<1>3. cursor'[c] = k /\ \A d \in Cursors : d # c => cursor'[d] = cursor[d]
  BY <1>0 DEF Move, TypeOK
<1>4. CursorsPlaced'
  <2> SUFFICES ASSUME NEW d \in Cursors, cursor'[d].st = "ready"
               PROVE  /\ status' = "up" /\ cursor'[d].file \in managed'
                      /\ cursor'[d].at \in 1..Len(data'[cursor'[d].file])
                      /\ cursor'[d].sid = data'[cursor'[d].file][cursor'[d].at]
    BY DEF CursorsPlaced, Stands
  <2>1. CASE d = c
    BY <1>1, <1>3, <2>1 DEF Stands
  <2>2. CASE d # c
    BY <1>0, <1>1, <1>3, <2>2 DEF CursorsPlaced, Stands
  <2> QED
    BY <2>1, <2>2
<1> QED
  BY <1>2, <1>4 DEF CleanInv

\* With nothing left behind the files, a sid that is read is a record's.
LEMMA ReadsRecord ==
  ASSUME CleanInv, status = "up", NEW f \in FileNos, NEW i \in Nat, SidAt(f, i) # 0
  PROVE  i \in 1..Len(data[f]) /\ SidAt(f, i) = data[f][i]
<1>1. TypeOK /\ tail[f] = 0
  BY DEF CleanInv, ShapeInv, OrderInv, Tidy
<1> QED
  BY <1>1 DEF SidAt, TypeOK

LEMMA CleanEnter ==
  ASSUME CleanInv, ShapeInv', status = "up", NEW c \in Cursors,
         NEW f \in managed, NEW i \in Nat, EnterAt(c, f, i)
  PROVE  CleanInv'
<1>1. TypeOK /\ f \in FileNos
  BY DEF CleanInv, ShapeInv, OrderInv, TypeOK
<1> DEFINE n == SidAt(f, i)
<1>2. i \in 1..Len(data[f]) /\ n = data[f][i]
  BY <1>1, ReadsRecord DEF EnterAt
<1> HIDE DEF n
<1> DEFINE k == [cursor[c] EXCEPT !.file = f, !.at = i, !.sid = n]
<1>3. k.file = f /\ k.at = i /\ k.sid = n
  BY <1>1 DEF TypeOK, CursorType, CursorRecord
<1>4. Move(c, k) /\ CursorStep
  BY DEF EnterAt, n
<1> HIDE DEF k
<1>5. Stands(k)
  BY <1>2, <1>3 DEF Stands
<1> QED
  BY <1>4, <1>5, CleanMove

LEMMA CleanCursorCall ==
  ASSUME ~DiskMayFail, CleanInv, ShapeInv', NEW c \in Cursors,
         CursorCall(c) \/ \E s \in 0..MaxSid : CreateCursor(c, s)
  PROVE  CleanInv'
<1>0. TypeOK /\ CurIsLast /\ CursorsPlaced
  BY DEF CleanInv, ShapeInv, OrderInv
<1>a. cursor[c] \in CursorRecord
  BY <1>0 DEF TypeOK, CursorType
<1>1. CASE \E s \in 0..MaxSid : CreateCursor(c, s)
  <2>1. PICK s \in 0..MaxSid : CreateCursor(c, s)
    BY <1>1
  <2> DEFINE k == [NoCursor EXCEPT !.st = "unseek", !.seek = s]
  <2>2. k.st = "unseek"
    BY DEF NoCursor
  <2>3. status = "up" /\ CursorStep /\ Move(c, k)
    BY <2>1 DEF CreateCursor
  <2> HIDE DEF k
  <2> QED
    BY <2>2, <2>3, CleanMove
<1>2. CASE DestroyCursor(c)
  BY <1>2, CleanMove DEF DestroyCursor, NoCursor
<1>3. CASE Seek(c)
  <2> DEFINE f == SeekFile(cursor[c].seek)
  <2>1. /\ status = "up" /\ CursorStep
        /\ \E i \in 1..Len(data[f]) :
             Move(c, [cursor[c] EXCEPT !.st = "ready", !.file = f, !.at = i, !.sid = data[f][i]])
    BY <1>3 DEF Seek, SeekGoes
  <2>2. f \in managed
    <3>1. ShapeInv /\ cursor[c].seek \in Nat
      BY <1>a DEF CleanInv, CursorRecord
    <3> QED
      BY <1>3, <3>1, SeekFileFacts DEF Seek, SeekGoes
  <2> HIDE DEF f
  <2>3. PICK i \in 1..Len(data[f]) :
          Move(c, [cursor[c] EXCEPT !.st = "ready", !.file = f, !.at = i, !.sid = data[f][i]])
    BY <2>1
  <2> DEFINE n == data[f][i]
  <2>4. n = data[f][i]
    OBVIOUS
  <2>5. Move(c, [cursor[c] EXCEPT !.st = "ready", !.file = f, !.at = i, !.sid = n])
    BY <2>3
  <2> HIDE DEF n
  <2> DEFINE k == [cursor[c] EXCEPT !.st = "ready", !.file = f, !.at = i, !.sid = n]
  <2>6. k.file = f /\ k.at = i /\ k.sid = n
    BY <1>a DEF CursorRecord
  <2>7. Move(c, k)
    BY <2>5
  <2> HIDE DEF k
  <2>8. Stands(k)
    BY <2>2, <2>4, <2>6 DEF Stands
  <2> QED
    BY <2>1, <2>7, <2>8, CleanMove
<1>4. CASE NextFileEmpty(c)
  <2> DEFINE k == [cursor[c] EXCEPT !.st = "error"]
  <2>1. k.st = "error"
    BY <1>a DEF CursorRecord
  <2>2. status = "up" /\ CursorStep /\ Move(c, k)
    BY <1>4 DEF NextFileEmpty, NextCalled, Break
  <2> HIDE DEF k
  <2> QED
    BY <2>1, <2>2, CleanMove
<1>5. CASE NextInFile(c)
  <2>1. status = "up" /\ cursor[c].st = "ready" /\ EnterAt(c, cursor[c].file, cursor[c].at + 1)
    BY <1>5 DEF NextInFile, NextCalled
  <2>2. cursor[c].file \in managed /\ cursor[c].at + 1 \in Nat
    BY <1>0, <1>a, <2>1 DEF CursorsPlaced, Stands, CursorRecord
  <2> QED
    BY <2>1, <2>2, CleanEnter
<1>6. CASE NextFile(c) \/ NextOutOfRange(c)
  <2>1. status = "up" /\ \E g \in managed : EnterAt(c, g, 1)
    BY <1>6 DEF NextFile, NextOutOfRange, NextCalled, IsLeast, Later
  <2> QED
    BY <2>1, CleanEnter
<1>7. ~SeekFails(c) /\ ~ReadFails(c)
  BY DEF SeekFails, ReadFails
<1> QED
  BY <1>1, <1>2, <1>3, <1>4, <1>5, <1>6, <1>7 DEF CursorCall, NextCall

(***************************************************************************)
(* Crash and restart.                                                      *)
(***************************************************************************)
LEMMA CleanDies ==
  ASSUME TypeOK, Tidy, NEW E \in SUBSET FileNos, NEW safe \in [FileNos -> Nat],
         NEW t \in [FileNos -> Nat], Dies(E, safe, t), Forget, status' = "down",
         \A f \in FileNos : safe[f] <= Len(data[f]),
         \A f, g \in FileNos : f < g /\ (data[g] # <<>> \/ t[g] # 0)
                                 => safe[f] = Len(data[f]) /\ t[f] = 0
  PROVE  Tidy' /\ SyncKnown' /\ Filled' /\ MinKnown' /\ CursorsPlaced'
<1>1. PICK lost \in SUBSET {f \in E : safe[f] < Len(data[f]) \/ t[f] # 0 \/ f \in junk},
           extra \in 0..Cap :
        /\ data' = [g \in FileNos |->
                      IF g \notin E THEN <<>>
                      ELSE IF g \in lost THEN Upto(data[g], safe[g] + extra) ELSE data[g]]
        /\ synced' = [g \in FileNos |-> IF g \in E THEN safe[g] ELSE 0]
        /\ tail' = [g \in FileNos |-> IF g \in E \ lost THEN t[g] ELSE 0]
        /\ junk' = junk \cap (E \ lost)
  BY DEF Dies
<1>2. Tidy'
  BY <1>1 DEF Tidy, Forget
<1>3. CursorsPlaced' /\ Filled' /\ MinKnown'
  BY DEF Forget, NoCursor, CursorsPlaced, Filled, MinKnown, MinSidIsOldest
<1>4. ASSUME NEW f \in FileNos  PROVE Len(data[f]) \in Nat /\ data[f] \in Seq(Sids)
  BY DEF TypeOK
<1>5. ASSUME NEW f \in FileNos  PROVE synced'[f] <= Len(data'[f])
  <2>1. CASE f \notin E
    BY <1>1, <2>1
  <2>2. CASE f \in lost
    <3> DEFINE m == safe[f] + extra
    <3>1. m \in Nat /\ safe[f] \in Nat /\ safe[f] <= m
      BY BoundsAssumption
    <3> HIDE DEF m
    <3>2. data'[f] = SubSeq(data[f], 1, IF m < Len(data[f]) THEN m ELSE Len(data[f]))
      BY <1>1, <2>2 DEF Upto, m
    <3>3. Len(data'[f]) = IF m < Len(data[f]) THEN m ELSE Len(data[f])
      BY <1>4, <3>1, <3>2
    <3>4. synced'[f] = safe[f]
      BY <1>1, <2>2
    <3> QED
      BY <3>1, <3>3, <3>4
  <2>3. CASE f \in E \ lost
    BY <1>1, <2>3
  <2> QED
    BY <2>1, <2>2, <2>3
<1>6. ASSUME NEW f \in FileNos, NEW g \in FileNos, f < g, Content(g)' # <<>>
      PROVE  synced'[f] = Len(data'[f]) /\ tail'[f] = 0
  <2>1. data[g] # <<>> \/ t[g] # 0
    <3>1. CASE data'[g] # <<>>
      <4>1. data[g] = <<>> => \A n \in Nat : Upto(data[g], n) = <<>>
        BY <1>4 DEF Upto
      <4>2. safe[g] + extra \in Nat
        BY BoundsAssumption
      <4> QED
        BY <1>1, <3>1, <4>1, <4>2
    <3>2. CASE tail'[g] # 0
      BY <1>1, <3>2
    <3> QED
      BY <1>6, <3>1, <3>2 DEF Content
  <2>2. safe[f] = Len(data[f]) /\ t[f] = 0
    BY <1>6, <2>1
  <2>3. f \notin lost
    BY <1>4, <2>2 DEF Tidy
  <2> QED
    BY <1>1, <2>2, <2>3
<1>7. SyncKnown'
  BY <1>5, <1>6 DEF SyncKnown
<1> QED
  BY <1>2, <1>3, <1>7

LEMMA CleanCrash ==
  ASSUME CleanInv, ShapeInv', Crash \/ \E s \in Sids : CrashInAppend(s)
  PROVE  CleanInv'
<1>0. /\ TypeOK /\ CurIsLast /\ NothingAhead /\ Tidy /\ SyncKnown
      /\ status = "up" /\ status' = "down" /\ Forget
  BY DEF CleanInv, ShapeInv, OrderInv, Crash, CrashInAppend
<1>1. \A f \in FileNos : tail[f] = 0 /\ (f # cur => synced[f] = Len(data[f])) /\ synced[f] <= Len(data[f])
  BY <1>0 DEF Tidy, SyncKnown
<1>2. \A f \in FileNos : data[f] # <<>> => f <= cur
  BY <1>0 DEF NothingAhead, FileNos, TypeOK
<1>3. CASE Crash
  <2>1. Dies(disk, synced, tail) /\ disk \in SUBSET FileNos /\ synced \in [FileNos -> Nat]
    BY <1>0, <1>3 DEF Crash, TypeOK
  <2>2. tail \in [FileNos -> Nat]
    BY <1>0, BoundsAssumption DEF TypeOK
  <2>3. ASSUME NEW f \in FileNos, NEW g \in FileNos, f < g, data[g] # <<>> \/ tail[g] # 0
        PROVE  synced[f] = Len(data[f]) /\ tail[f] = 0
    BY <1>0, <1>1, <1>2, <2>3 DEF FileNos, TypeOK
  <2> QED
    BY <1>0, <1>1, <2>1, <2>2, <2>3, CleanDies DEF CleanInv
<1>4. CASE \E s \in Sids : CrashInAppend(s)
  <2>1. PICK s \in Sids : CrashInAppend(s)
    BY <1>4
  <2>2. PICK p \in Places, t \in {tail} \cup {[tail EXCEPT ![f] = s] : f \in FileNos} :
          /\ \A f \in FileNos : t[f] # tail[f] => f = p.cur /\ f \notin bad
          /\ Dies(p.disk, SyncedAt(p), t)
    BY <2>1 DEF CrashInAppend
  <2>3. p.disk \in SUBSET FileNos /\ p.cur \in FileNos /\ (p.cur = cur \/ p.cur = cur + 1)
    BY <1>0, PlacesType DEF LayoutType
  <2> DEFINE safe == SyncedAt(p)
  <2>4. safe \in [FileNos -> Nat]
    BY <1>0, SyncedAtType
  <2>5. \A f \in FileNos : safe[f] = IF f = cur /\ p.cur # cur THEN Len(data[f]) ELSE synced[f]
    BY DEF SyncedAt
  <2> HIDE DEF safe
  <2>6. t \in [FileNos -> Nat]
    <3>1. tail \in [FileNos -> Nat] /\ s \in Nat
      BY <1>0, BoundsAssumption DEF TypeOK, Sids
    <3>2. t = tail \/ \E f \in FileNos : t = [tail EXCEPT ![f] = s]
      OBVIOUS
    <3> QED
      BY <3>1, <3>2
  <2>7. ASSUME NEW f \in FileNos  PROVE safe[f] <= Len(data[f])
    <3>1. Len(data[f]) \in Nat
      BY <1>0 DEF TypeOK
    <3> QED
      BY <1>1, <2>5, <3>1
  <2>8. ASSUME NEW f \in FileNos, NEW g \in FileNos, f < g, data[g] # <<>> \/ t[g] # 0
        PROVE  safe[f] = Len(data[f]) /\ t[f] = 0
    <3>1. cur \in Nat /\ f \in Nat /\ g \in Nat
      BY <1>0, BoundsAssumption DEF FileNos, TypeOK
    <3>2. g <= p.cur
      BY <1>1, <1>2, <2>2, <2>3, <2>8, <3>1
    <3>3. f # p.cur
      BY <2>3, <2>8, <3>1, <3>2
    <3>4. t[f] = 0
      BY <1>1, <2>2, <3>3
    <3>5. safe[f] = Len(data[f])
      BY <1>1, <2>5, <3>3
    <3> QED
      BY <3>4, <3>5
  <2>9. Dies(p.disk, safe, t)
    BY <2>2 DEF safe
  <2> QED
    BY <1>0, <2>3, <2>4, <2>6, <2>7, <2>8, <2>9, CleanDies DEF CleanInv
<1> QED
  BY <1>3, <1>4

\* What open() finds in a file are the sids in their order.
LEMMA ContentSids ==
  ASSUME TypeOK, NEW f \in FileNos
  PROVE  /\ Content(f) \in Seq(Sids)
         /\ \A i \in 1..Len(Content(f)) :
              i \in Slots /\ SidAt(f, i) = Content(f)[i] /\ SidAt(f, i) # 0
<1>1. data[f] \in Seq(Sids) /\ tail[f] \in 0..MaxSid
  BY DEF TypeOK
<1>2. Content(f) \in Seq(Sids)
  BY ContentType
<1>3. ASSUME NEW i \in 1..Len(Content(f))
      PROVE  i \in Slots /\ SidAt(f, i) = Content(f)[i] /\ SidAt(f, i) # 0
  <2>1. i \in Slots
    BY <1>2 DEF Slots
  <2>2. Content(f)[i] \in Sids
    BY <1>2, ElementFact
  <2>3. SidAt(f, i) = Content(f)[i]
    <3>1. CASE tail[f] = 0
      BY <3>1 DEF Content, SidAt
    <3>2. CASE tail[f] # 0
      <4>1. tail[f] \in Sids /\ Content(f) = Append(data[f], tail[f])
        BY <1>1, <3>2, BoundsAssumption DEF Content, Sids
      <4>2. /\ Len(Content(f)) = Len(data[f]) + 1 /\ Len(data[f]) \in Nat
            /\ \A j \in 1..Len(data[f]) : Content(f)[j] = data[f][j]
            /\ Content(f)[Len(data[f]) + 1] = tail[f]
        BY <1>1, <4>1, AppendFacts
      <4>3. i \in 1..Len(data[f]) \/ i = Len(data[f]) + 1
        BY <4>2
      <4> QED
        BY <4>2, <4>3 DEF SidAt
    <3> QED
      BY <3>1, <3>2
  <2> QED
    BY <2>1, <2>2, <2>3, BoundsAssumption DEF Sids
<1> QED
  BY <1>2, <1>3

\* The test of init() at CwxBinLogMgr.cpp:1240 never fails, whatever failed.
LEMMA AlwaysInOrder ==
  ASSUME TypeOK, SidsAscend
  PROVE  FilesInOrder
<1> SUFFICES ASSUME NEW f \in NonEmpty, NEW g \in NonEmpty, f < g
             PROVE  Newest(Content(f)) < First(Content(g))
  BY DEF FilesInOrder
<1>1. f \in FileNos /\ g \in FileNos /\ Content(f) # <<>> /\ Content(g) # <<>>
  BY DEF NonEmpty, TypeOK
<1>2. Content(f) \in Seq(Sids) /\ Content(g) \in Seq(Sids)
  BY <1>1, ContentType
<1> PICK L \in Nat : L = Len(Content(f))
  BY <1>2
<1>3. L \in 1..Len(Content(f)) /\ 1 \in 1..Len(Content(g))
  BY <1>1, <1>2
<1>4. /\ L \in Slots /\ SidAt(f, L) = Content(f)[L] /\ SidAt(f, L) # 0
      /\ 1 \in Slots /\ SidAt(g, 1) = Content(g)[1] /\ SidAt(g, 1) # 0
  BY <1>1, <1>3, ContentSids
<1>5. SidAt(f, L) < SidAt(g, 1)
  BY <1>1, <1>4, AscendEverywhere DEF Ascending, Before
<1>6. Newest(Content(f)) = Content(f)[L] /\ First(Content(g)) = Content(g)[1]
  BY <1>1 DEF Newest, First
<1> QED
  BY <1>4, <1>5, <1>6

LEMMA CleanRecover ==
  ASSUME CleanInv, ShapeInv', Recover
  PROVE  CleanInv'
<1>0. /\ TypeOK /\ TypeOK' /\ NothingElsewhere /\ Tidy /\ SyncKnown /\ CursorsPlaced
      /\ status = "down" /\ status' = "up"
  BY DEF CleanInv, ShapeInv, OrderInv, Recover
<1>1. /\ \A f \in FileNos : data'[f] = Content(f) /\ tail'[f] = 0
      /\ junk' = {} /\ managed' = NonEmpty
      /\ UNCHANGED <<synced, bad, cursor>>
  BY DEF Recover
<1>2. NonEmpty \subseteq FileNos
  BY <1>0 DEF NonEmpty, TypeOK
<1>3. \A f \in FileNos : f \notin NonEmpty => Content(f) = <<>>
  BY <1>0 DEF NonEmpty, NothingElsewhere, Content
<1>4. ASSUME NEW f \in FileNos
      PROVE  /\ Len(data[f]) \in Nat /\ synced[f] \in Nat /\ Len(Content(f)) \in Nat
             /\ synced[f] <= Len(Content(f))
             /\ tail[f] = 0 => Content(f) = data[f]
  <2>1. data[f] \in Seq(Sids) /\ synced[f] \in Nat /\ synced[f] <= Len(data[f]) /\ tail[f] \in 0..MaxSid
    BY <1>0 DEF TypeOK, SyncKnown
  <2>2. CASE tail[f] = 0
    BY <2>1, <2>2 DEF Content
  <2>3. CASE tail[f] # 0
    <3>1. tail[f] \in Sids /\ Content(f) = Append(data[f], tail[f])
      BY <2>1, <2>3, BoundsAssumption DEF Content, Sids
    <3>2. Len(Content(f)) = Len(data[f]) + 1
      BY <2>1, <3>1, AppendFacts
    <3> QED
      BY <2>1, <2>3, <3>2
  <2> QED
    BY <2>2, <2>3
<1>5. Tidy'
  BY <1>0, <1>1 DEF Tidy
<1>6. Filled'
  BY <1>1, <1>2 DEF Filled, NonEmpty
<1>7. CursorsPlaced'
  BY <1>0, <1>1 DEF CursorsPlaced
<1>8. SyncKnown' /\ MinKnown'
  <2>1. \A f \in FileNos : synced'[f] <= Len(data'[f])
    BY <1>1, <1>4
  <2>2. CASE NonEmpty = {}
    <3>1. cur' = 0 /\ minSid' = 0
      BY <2>2 DEF Recover
    <3>2. ASSUME NEW f \in FileNos  PROVE synced'[f] = Len(data'[f])
      <4>1. data'[f] = <<>>
        BY <1>1, <1>3, <2>2
      <4> QED
        BY <1>1, <1>4, <4>1
    <3> QED
      BY <1>0, <2>1, <3>1, <3>2 DEF SyncKnown, MinKnown, MinSidIsOldest
  <2>3. CASE NonEmpty # {}
    <3>1. PICK lo \in NonEmpty, hi \in NonEmpty :
            /\ \A f \in NonEmpty : lo <= f /\ f <= hi
            /\ cur' = hi
            /\ minSid' = First(Content(lo))
      BY <2>3 DEF Recover
    <3>2. MinKnown'
      <4>1. IsLeast(lo, managed') /\ lo \in managed'
        BY <1>1, <3>1 DEF IsLeast
      <4>2. FileMin(lo)' = First(Content(lo))
        BY <1>1, <1>2, <3>1 DEF FileMin
      <4>3. cur' # 0
        BY <1>2, <3>1 DEF FileNos
      <4> QED
        BY <3>1, <4>1, <4>2, <4>3 DEF MinKnown, MinSidIsOldest
    <3>3. ASSUME NEW f \in FileNos, f # cur'  PROVE synced'[f] = Len(data'[f])
      <4>1. CASE f \in NonEmpty
        <5>1. f < hi /\ hi \in FileNos /\ Content(hi) # <<>>
          BY <1>2, <3>1, <3>3, <4>1 DEF FileNos, NonEmpty
        <5>2. synced[f] = Len(data[f]) /\ tail[f] = 0
          BY <1>0, <5>1 DEF SyncKnown
        <5> QED
          BY <1>1, <1>4, <5>2
      <4>2. CASE f \notin NonEmpty
        <5>1. data'[f] = <<>>
          BY <1>1, <1>3, <4>2
        <5> QED
          BY <1>1, <1>4, <5>1
      <4> QED
        BY <4>1, <4>2
    <3> QED
      BY <1>0, <2>1, <3>2, <3>3 DEF SyncKnown
  <2> QED
    BY <2>2, <2>3
<1> QED
  BY <1>5, <1>6, <1>7, <1>8 DEF CleanInv

LEMMA CleanStep == ~DiskMayFail /\ CleanInv /\ [Next]_vars => CleanInv'
<1> SUFFICES ASSUME ~DiskMayFail, CleanInv, [Next]_vars PROVE CleanInv'
  OBVIOUS
<1>1. ShapeInv'
  BY ShapeStep DEF CleanInv
<1>2. CASE \E s \in Sids : AppendCall(s)
  <2>1. PICK s \in Sids : AppendRecord(s) \/ AppendOversize(s)
    BY <1>2 DEF AppendCall, AppendFails, CreateFileFails
  <2> QED
    BY <1>1, <2>1, CleanAppendRecord, CleanAppendOversize
<1>3. CASE \/ \E c \in Cursors, s \in 0..MaxSid : CreateCursor(c, s)
           \/ \E c \in Cursors : CursorCall(c)
  BY <1>1, <1>3, CleanCursorCall
<1>4. CASE Commit \/ CommitFails
  BY <1>1, <1>4, CleanCommit DEF CommitFails
<1>5. CASE Crash \/ \E s \in Sids : CrashInAppend(s)
  BY <1>1, <1>5, CleanCrash
<1>6. CASE Recover
  BY <1>1, <1>6, CleanRecover
<1>7. CASE RefuseToStart
  BY <1>7, AlwaysInOrder DEF RefuseToStart, CleanInv, ShapeInv, OrderInv, Tidy
<1>8. CASE UNCHANGED vars
  BY <1>1, <1>8 DEF vars, fileVars, mgrVars, CleanInv, Tidy, SyncKnown, Content, Filled, MinKnown,
                    MinSidIsOldest, FileMin, CursorsPlaced, Stands
<1> QED
  BY <1>2, <1>3, <1>4, <1>5, <1>6, <1>7, <1>8 DEF Next

-----------------------------------------------------------------------------
\* Without disk errors init() accepts what an earlier run and its death, at any
\* point of an append, left behind.
THEOREM RestartAlwaysAccepted ==
  ASSUME ~DiskMayFail
  PROVE  Spec => []RestartAccepted
<1>1. CleanInv => RestartAccepted
  BY DEF CleanInv, Tidy, RestartAccepted
<1>2. CleanInv /\ [Next]_vars => CleanInv'
  BY CleanStep
<1> QED
  BY <1>1, <1>2, CleanInit, PTL DEF Spec

\* Without disk errors a crash can only cost records of the current file.
THEOREM OlderFilesAlwaysSynced ==
  ASSUME ~DiskMayFail
  PROVE  Spec => []OlderFilesSynced
<1>1. CleanInv => OlderFilesSynced
  BY DEF CleanInv, SyncKnown, OlderFilesSynced
<1>2. CleanInv /\ [Next]_vars => CleanInv'
  BY CleanStep
<1> QED
  BY <1>1, <1>2, CleanInit, PTL DEF Spec

\* The smallest sid that the manager keeps by hand is that of the oldest file.
THEOREM MinSidAlwaysOldest ==
  ASSUME ~DiskMayFail
  PROVE  Spec => []MinSidIsOldest
<1>1. CleanInv => MinSidIsOldest
  BY DEF CleanInv, MinKnown
<1>2. CleanInv /\ [Next]_vars => CleanInv'
  BY CleanStep
<1> QED
  BY <1>1, <1>2, CleanInit, PTL DEF Spec

LEMMA NotOutOfRange ==
  ASSUME CleanInv, NEW c \in Cursors, NextCalled(c)
  PROVE  ~OutOfRange(c)
<1>0. TypeOK /\ SidsAscend /\ CurIsLast /\ MinKnown /\ status = "up"
  BY DEF CleanInv, ShapeInv, OrderInv, NextCalled
<1>1. Stands(cursor[c])
  BY DEF CleanInv, CursorsPlaced, NextCalled
<1> PICK f \in managed, i \in Nat :
      i \in 1..Len(data[f]) /\ cursor[c].sid = data[f][i]
  BY <1>1 DEF Stands
<1>2. f \in FileNos /\ f \in Nat
  BY <1>0 DEF TypeOK, FileNos
<1>3. cur # 0
  BY <1>0, <1>2 DEF CurIsLast, FileNos
<1>4. PICK l \in managed : IsLeast(l, managed) /\ minSid = FileMin(l)
  BY <1>0, <1>3 DEF MinKnown, MinSidIsOldest
<1>5. l \in FileNos /\ l \in Nat /\ l <= f
  BY <1>0, <1>4 DEF TypeOK, FileNos, IsLeast
<1>6. data[f][i] \in Nat /\ FileMin(f) <= data[f][i] /\ FileMin(l) \in Nat /\ FileMin(f) \in Nat
  BY <1>0, <1>2, <1>5, EndsBound, RecordsAscend
<1>7. minSid <= cursor[c].sid
  <2>1. CASE l = f
    BY <1>4, <1>6, <2>1
  <2>2. CASE l # f /\ data[l] = <<>>
    BY <1>0, <1>4, <1>5, <1>6, <2>2, EndsBound
  <2>3. CASE l # f /\ data[l] # <<>>
    <3>1. FileMin(l) = data[l][1] /\ 1 \in 1..Len(data[l]) /\ l < f
      BY <1>0, <1>2, <1>5, <2>3, EndsBound
    <3>2. data[l][1] < data[f][i]
      BY <1>0, <1>2, <1>5, <3>1, RecordsAscend DEF Before
    <3> QED
      BY <1>4, <1>6, <3>1, <3>2
  <2> QED
    BY <2>1, <2>2, <2>3
<1> QED
  BY <1>4, <1>6, <1>7 DEF OutOfRange

\* The assertion of _isOutRange: no reader ever finds its message pruned away.
THEOREM NeverOutOfRange ==
  ASSUME ~DiskMayFail
  PROVE  Spec => []NoCursorOutOfRange
<1>1. CleanInv => NoCursorOutOfRange
  BY NotOutOfRange DEF NoCursorOutOfRange
<1>2. CleanInv /\ [Next]_vars => CleanInv'
  BY CleanStep
<1> QED
  BY <1>1, <1>2, CleanInit, PTL DEF Spec

-----------------------------------------------------------------------------
(***************************************************************************)
(* Readers.                                                                *)
(***************************************************************************)
\* A reader that comes from position P to a record, when nothing before that
\* record lies above P, has missed nothing.
LEMMA NothingBetween ==
  ASSUME TypeOK, SidsAscend, NEW g \in managed, NEW j \in 1..Len(data[g]), NEW P \in Nat,
         \A h \in managed : \A k \in 1..Len(data[h]) : Before(h, k, g, j) => data[h][k] <= P
  PROVE  /\ data[g][j] \in Retained
         /\ ~ \E s \in Retained : P < s /\ s < data[g][j]
<1>1. data[g][j] \in Retained
  BY DEF Retained
<1>2. ASSUME NEW s \in Retained, P < s, s < data[g][j]  PROVE FALSE
  <2>1. PICK h \in managed : \E k \in 1..Len(data[h]) : s = data[h][k]
    BY DEF Retained
  <2>2. PICK k \in 1..Len(data[h]) : s = data[h][k]
    BY <2>1
  <2>3. h \in FileNos /\ g \in FileNos
    BY DEF TypeOK
  <2>4. s \in Nat /\ data[g][j] \in Nat
    BY <2>2, <2>3, RecordsAscend
  <2>5. CASE Before(h, k, g, j)
    BY <1>2, <2>2, <2>4, <2>5
  <2>6. CASE Before(g, j, h, k)
    <3>1. data[g][j] < s
      BY <2>2, <2>3, <2>6, RecordsAscend
    <3> QED
      BY <1>2, <2>4, <3>1
  <2>7. CASE h = g /\ k = j
    BY <1>2, <2>2, <2>4, <2>7
  <2>8. Before(h, k, g, j) \/ Before(g, j, h, k) \/ (h = g /\ k = j)
    <3>1. h \in Int /\ g \in Int /\ k \in Int /\ j \in Int
      BY <2>3 DEF FileNos
    <3> QED
      BY <3>1 DEF Before
  <2> QED
    BY <2>5, <2>6, <2>7, <2>8
<1> QED
  BY <1>1, <1>2

\* Only a call for a cursor moves it.
LEMMA WhoMoves ==
  ASSUME CleanInv, [Next]_vars, NEW c \in Cursors, Moves(c)
  PROVE  Seek(c) \/ NextInFile(c) \/ NextFile(c) \/ NextOutOfRange(c)
<1>0. TypeOK
  BY DEF CleanInv, ShapeInv, OrderInv
<1>1. cursor'[c].st = "ready" /\ cursor'[c] # cursor[c]
  BY DEF Moves
<1>2. ASSUME NEW d \in Cursors, NEW k, Move(d, k)  PROVE d = c /\ k.st = "ready"
  BY <1>0, <1>1, <1>2 DEF Move, TypeOK
<1>3. cursor[c] \in CursorRecord
  BY <1>0 DEF TypeOK, CursorType
<1>4. ~ \E d \in Cursors, s \in 0..MaxSid : CreateCursor(d, s)
  <2> SUFFICES ASSUME NEW d \in Cursors, NEW s \in 0..MaxSid, CreateCursor(d, s) PROVE FALSE
    OBVIOUS
  <2> DEFINE k == [NoCursor EXCEPT !.st = "unseek", !.seek = s]
  <2>1. k.st = "unseek" /\ Move(d, k)
    BY DEF CreateCursor, NoCursor
  <2> HIDE DEF k
  <2> QED
    BY <1>2, <2>1
<1>5. ASSUME NEW d \in Cursors, CursorCall(d)
      PROVE  d = c /\ (Seek(c) \/ NextInFile(c) \/ NextFile(c) \/ NextOutOfRange(c))
  <2>1. CASE DestroyCursor(d)
    BY <1>2, <2>1 DEF DestroyCursor, NoCursor
  <2>2. CASE SeekFails(d) \/ ReadFails(d) \/ NextFileEmpty(d)
    <3> DEFINE k == [cursor[d] EXCEPT !.st = "error"]
    <3>1. Move(d, k)
      BY <2>2 DEF SeekFails, ReadFails, NextFileEmpty, Break
    <3>2. k.st = "error"
      BY <1>0 DEF TypeOK, CursorType, CursorRecord
    <3> HIDE DEF k
    <3> QED
      BY <1>2, <3>1, <3>2
  <2>3. CASE Seek(d)
    <3>1. \E k : Move(d, k)
      BY <2>3 DEF Seek
    <3> QED
      BY <1>2, <2>3, <3>1
  <2>4. CASE NextInFile(d) \/ NextFile(d) \/ NextOutOfRange(d)
    <3>1. \E k : Move(d, k)
      BY <2>4 DEF NextInFile, NextFile, NextOutOfRange, EnterAt
    <3> QED
      BY <1>2, <2>4, <3>1
  <2> QED
    BY <1>5, <2>1, <2>2, <2>3, <2>4 DEF CursorCall, NextCall
<1>6. cursor' # cursor
  BY <1>1
<1>7. ~(\E s \in Sids : AppendCall(s)) /\ ~Commit /\ ~CommitFails /\ ~UNCHANGED vars
  BY <1>6 DEF AppendCall, AppendRecord, AppendFails, CreateFileFails, AppendOversize,
              Commit, CommitFails, vars
<1>8. ~Recover /\ ~RefuseToStart
  BY <1>6 DEF Recover, RefuseToStart
<1>9. ~Crash /\ ~(\E s \in Sids : CrashInAppend(s))
  BY <1>1 DEF Crash, CrashInAppend, Forget, NoCursor
<1> QED
  BY <1>4, <1>5, <1>7, <1>8, <1>9 DEF Next

\* A reader goes from each message to the very next one that is kept.
LEMMA NextMessage ==
  ASSUME CleanInv, [Next]_vars, NEW c \in Cursors, Moves(c)
  PROVE  /\ Position(c) < Position(c)'
         /\ Position(c)' \in Retained
         /\ ~ \E s \in Retained : Position(c) < s /\ s < Position(c)'
<1>0. TypeOK /\ SidsAscend /\ managed \subseteq FileNos
  BY DEF CleanInv, ShapeInv, OrderInv, TypeOK
<1>a. cursor[c] \in CursorRecord
  BY <1>0 DEF TypeOK, CursorType
<1>b. Position(c)' = cursor'[c].sid
  BY DEF Moves, Position
<1>1. SUFFICES \E g \in managed : \E j \in 1..Len(data[g]) :
        /\ cursor'[c].sid = data[g][j]
        /\ Position(c) < data[g][j]
        /\ \A h \in managed : \A k \in 1..Len(data[h]) :
             Before(h, k, g, j) => data[h][k] <= Position(c)
  <2>1. Position(c) \in Nat
    BY <1>a DEF CursorRecord, Position
  <2>2. PICK g \in managed : \E j \in 1..Len(data[g]) :
        /\ cursor'[c].sid = data[g][j]
        /\ Position(c) < data[g][j]
        /\ \A h \in managed : \A k \in 1..Len(data[h]) :
             Before(h, k, g, j) => data[h][k] <= Position(c)
    BY <1>1
  <2>3. PICK j \in 1..Len(data[g]) :
        /\ cursor'[c].sid = data[g][j]
        /\ Position(c) < data[g][j]
        /\ \A h \in managed : \A k \in 1..Len(data[h]) :
             Before(h, k, g, j) => data[h][k] <= Position(c)
    BY <2>2
  <2>4. /\ data[g][j] \in Retained
        /\ ~ \E s \in Retained : Position(c) < s /\ s < data[g][j]
    BY <1>0, <2>1, <2>3, NothingBetween
  <2> QED
    BY <1>b, <2>3, <2>4
<1>2. CASE Seek(c)
  <2> DEFINE S == cursor[c].seek
             f == SeekFile(S)
  <2>1. Position(c) = S /\ S \in Nat
    BY <1>2, <1>a DEF Position, Seek, SeekGoes, CursorRecord
  <2>2. /\ f \in managed
        /\ \A g \in managed : g < f => FileMax(g) <= S
    <3>1. ShapeInv
      BY DEF CleanInv
    <3> QED
      BY <1>2, <2>1, <3>1, SeekFileFacts DEF Seek, SeekGoes
  <2>3. \E i \in 1..Len(data[f]) :
          /\ S < data[f][i]
          /\ \A j \in 1..i-1 : data[f][j] <= S
          /\ Move(c, [cursor[c] EXCEPT !.st = "ready", !.file = f, !.at = i, !.sid = data[f][i]])
    BY <1>2 DEF Seek
  <2> HIDE DEF f
  <2>4. PICK i \in 1..Len(data[f]) :
          /\ S < data[f][i]
          /\ \A j \in 1..i-1 : data[f][j] <= S
          /\ Move(c, [cursor[c] EXCEPT !.st = "ready", !.file = f, !.at = i, !.sid = data[f][i]])
    BY <2>3
  <2> DEFINE n == data[f][i]
  <2>5. Move(c, [cursor[c] EXCEPT !.st = "ready", !.file = f, !.at = i, !.sid = n])
    BY <2>4
  <2> HIDE DEF n
  <2>6. cursor'[c].sid = n
    BY <1>0, <1>a, <2>5 DEF Move, TypeOK, CursorRecord
  <2>7. ASSUME NEW h \in managed, NEW k \in 1..Len(data[h]), Before(h, k, f, i)
        PROVE  data[h][k] <= S
    <3>1. CASE h < f
      <4>1. data[h][k] <= FileMax(h) /\ FileMax(h) \in Nat /\ data[h][k] \in Nat
        BY <1>0, EndsBound, RecordsAscend
      <4>2. FileMax(h) <= S
        BY <2>2, <3>1
      <4> QED
        BY <2>1, <4>1, <4>2
    <3>2. CASE h = f /\ k < i
      BY <2>4, <3>2
    <3> QED
      BY <2>7, <3>1, <3>2 DEF Before
  <2> QED
    BY <2>1, <2>2, <2>4, <2>6, <2>7 DEF n
<1>3. ASSUME cursor[c].st = "ready", status = "up",
             NEW g \in managed, NEW i \in Nat, EnterAt(c, g, i),
             Before(cursor[c].file, cursor[c].at, g, i),
             \A h \in managed : \A k \in 1..Len(data[h]) :
               Before(h, k, g, i) =>
                 \/ Before(h, k, cursor[c].file, cursor[c].at)
                 \/ h = cursor[c].file /\ k = cursor[c].at
      PROVE  \E f \in managed : \E j \in 1..Len(data[f]) :
               /\ cursor'[c].sid = data[f][j]
               /\ Position(c) < data[f][j]
               /\ \A h \in managed : \A k \in 1..Len(data[h]) :
                    Before(h, k, f, j) => data[h][k] <= Position(c)
  <2>1. g \in FileNos
    BY <1>0
  <2> DEFINE n == SidAt(g, i)
  <2>2. i \in 1..Len(data[g]) /\ n = data[g][i]
    BY <1>3, <2>1, ReadsRecord DEF EnterAt
  <2>3. cursor' = [cursor EXCEPT ![c] = [cursor[c] EXCEPT !.file = g, !.at = i, !.sid = n]]
    BY <1>3 DEF EnterAt, Move
  <2> HIDE DEF n
  <2>4. cursor'[c].sid = n
    BY <1>0, <1>a, <2>3 DEF TypeOK, CursorRecord
  <2> DEFINE f == cursor[c].file
             m == cursor[c].at
  <2>5. f \in managed /\ f \in FileNos /\ m \in 1..Len(data[f]) /\ cursor[c].sid = data[f][m]
    BY <1>0, <1>3 DEF CleanInv, CursorsPlaced, Stands
  <2>6. Position(c) = data[f][m]
    BY <1>3, <2>5 DEF Position
  <2> HIDE DEF f, m
  <2>7. data[f][m] < data[g][i]
    BY <1>0, <1>3, <2>1, <2>2, <2>5, RecordsAscend DEF f, m
  <2>8. ASSUME NEW h \in managed, NEW k \in 1..Len(data[h]), Before(h, k, g, i)
        PROVE  data[h][k] <= data[f][m]
    <3>1. h \in FileNos
      BY <1>0
    <3>2. /\ data[h][k] \in Nat /\ data[f][m] \in Nat
          /\ Before(h, k, f, m) => data[h][k] < data[f][m]
      BY <1>0, <2>5, <3>1, RecordsAscend
    <3>3. Before(h, k, f, m) \/ (h = f /\ k = m)
      BY <1>3, <2>8 DEF f, m
    <3> QED
      BY <3>2, <3>3
  <2> QED
    BY <2>2, <2>4, <2>6, <2>7, <2>8
<1> DEFINE f == cursor[c].file
           m == cursor[c].at
<1>4. ASSUME cursor[c].st = "ready"
      PROVE  f \in managed /\ f \in FileNos /\ f \in Nat /\ m \in 1..Len(data[f]) /\ m \in Nat
             /\ Len(data[f]) \in Nat
  <2>1. f \in managed /\ m \in 1..Len(data[f])
    BY <1>4 DEF CleanInv, CursorsPlaced, Stands
  <2> HIDE DEF f, m
  <2>2. f \in FileNos /\ m \in Nat
    BY <1>0, <2>1
  <2>3. data[f] \in Seq(Sids) /\ f \in Nat
    BY <1>0, <2>2 DEF TypeOK, FileNos
  <2> QED
    BY <2>1, <2>2, <2>3
<1>5. CASE NextInFile(c)
  <2>1. cursor[c].st = "ready" /\ status = "up" /\ EnterAt(c, f, m + 1)
    BY <1>5 DEF NextInFile, NextCalled
  <2>2. Before(f, m, f, m + 1)
    BY <1>4, <2>1 DEF Before
  <2>3. ASSUME NEW h \in managed, NEW k \in 1..Len(data[h]), Before(h, k, f, m + 1)
        PROVE  Before(h, k, f, m) \/ (h = f /\ k = m)
    BY <1>4, <2>1, <2>3 DEF Before
  <2>4. m + 1 \in Nat /\ f \in managed
    BY <1>4, <2>1
  <2> HIDE DEF f, m
  <2> QED
    BY <1>3, <2>1, <2>2, <2>3, <2>4 DEF f, m
<1>6. CASE NextFile(c)
  <2>1. PICK g \in FileNos :
          /\ cursor[c].st = "ready" /\ status = "up"
          /\ IsLeast(g, Later(f)) /\ EnterAt(c, g, 1) /\ SidAt(f, m + 1) = 0
    BY <1>6 DEF NextFile, NextCalled, AtFileEnd
  <2>2. g \in managed /\ f < g /\ g \in Nat
    BY <2>1 DEF IsLeast, Later, FileNos
  <2>3. m = Len(data[f])
    <3>1. m + 1 \notin 1..Len(data[f])
      BY <1>0, <1>4, <2>1, RecordsAscend DEF SidAt
    <3> QED
      BY <1>4, <2>1, <3>1
  <2>4. Before(f, m, g, 1)
    BY <2>2 DEF Before
  <2>5. ASSUME NEW h \in managed, NEW k \in 1..Len(data[h]), Before(h, k, g, 1)
        PROVE  Before(h, k, f, m) \/ (h = f /\ k = m)
    <3>1. h \in FileNos /\ h \in Nat
      BY <1>0 DEF FileNos
    <3>2. h < g
      BY <2>5 DEF Before
    <3>3. ~(f < h)
      BY <2>1, <2>2, <3>1, <3>2 DEF IsLeast, Later
    <3> QED
      BY <1>4, <2>1, <2>3, <3>1, <3>3 DEF Before
  <2> HIDE DEF f, m
  <2> QED
    BY <1>3, <2>1, <2>2, <2>4, <2>5 DEF f, m
<1>7. ~NextOutOfRange(c)
  BY NotOutOfRange DEF NextOutOfRange
<1> QED
  BY <1>2, <1>5, <1>6, <1>7, WhoMoves

\* No reader passes over a message, goes back or stands still: across file
\* ends, prunings, crashes and concurrent appends.
THEOREM NothingEverSkipped ==
  ASSUME ~DiskMayFail
  PROVE  Spec => NothingSkipped
<1>1. CleanInv /\ [Next]_vars => \A c \in Cursors : Moves(c) =>
        /\ Position(c) < Position(c)'
        /\ Position(c)' \in Retained
        /\ ~ \E s \in Retained : Position(c) < s /\ s < Position(c)'
  BY NextMessage
<1>2. CleanInv /\ [Next]_vars => CleanInv'
  BY CleanStep
<1> QED
  BY <1>1, <1>2, CleanInit, PTL DEF Spec, NothingSkipped

(***************************************************************************)
(* Files that exist.                                                       *)
(***************************************************************************)
\* What a running manager manages exists.
ManagedExist == status = "up" => managed \subseteq disk

RefInv == CleanInv /\ ManagedExist

\* What is dropped from the map is older than what is kept.
LEMMA KeptAreNewer ==
  ASSUME NEW S \in SUBSET FileNos, NEW f \in Kept(S), NEW g \in S, f <= g
  PROVE  g \in Kept(S)
<1>1. PICK h \in S : h <= f /\ IsManaged(h, {x \in S : x >= h})
  BY DEF Kept
<1>2. \A x \in S : x \in Int
  BY DEF FileNos
<1>3. f \in S
  BY DEF Kept
<1>4. h <= g
  BY <1>1, <1>2, <1>3
<1> QED
  BY <1>1, <1>4 DEF Kept

\* What an append leaves of the older files: those it drops are older than those
\* it keeps; they are removed or set aside.
Gone(q) == IF DelOut THEN managed \ q.managed ELSE {}

Leaves(q) ==
  /\ Fits(q)
  /\ \A f, g \in managed : f \in q.managed /\ f <= g => g \in q.managed
  /\ q.managed \subseteq q.disk
  /\ \A f \in FileNos : f <= cur => (f \in q.disk <=> f \in disk /\ f \notin Gone(q))

LEMMA RolledLeaves ==
  ASSUME TypeOK, CurIsLast, status = "up", NEW q, Leaves(q), CanRoll(q)
  PROVE  Leaves(Rolled(q))
<1> DEFINE m == q.cur + 1
           S == q.managed \cup {m}
<1>0. Fits(q) /\ Fits(Rolled(q))
  BY RolledFits DEF Leaves
<1>1. q.cur \in Nat /\ cur \in Nat /\ q.cur >= cur /\ q.managed \in SUBSET FileNos
  BY <1>0, BoundsAssumption, SMTT(20) DEF Fits, FileNos, TypeOK
<1>2. m \in FileNos /\ S \in SUBSET FileNos /\ m > cur
  BY <1>1, BoundsAssumption DEF CanRoll, FileNos
<1>3. /\ Rolled(q).managed = Kept(S)
      /\ Rolled(q).disk = (q.disk \cup {m}) \ (IF DelOut THEN S \ Kept(S) ELSE {})
  BY DEF Rolled
<1>a. \A f \in FileNos : f <= cur => f # m
  BY <1>1, <1>2 DEF FileNos
<1> HIDE DEF m
<1>4. Kept(S) \subseteq S
  BY DEF Kept
<1>5. ASSUME NEW f \in managed, NEW g \in managed, f \in Kept(S), f <= g
      PROVE  g \in Kept(S)
  <2>1. f \in FileNos /\ g \in FileNos
    BY DEF TypeOK
  <2>2. f \in q.managed
    BY <1>4, <1>5, <1>a, <2>1 DEF CurIsLast
  <2>3. g \in q.managed
    BY <1>5, <2>2 DEF Leaves
  <2> QED
    BY <1>2, <1>5, <2>3, KeptAreNewer
<1>6. Kept(S) \subseteq Rolled(q).disk
  BY <1>3, <1>4 DEF Leaves
<1>7. ASSUME NEW f \in FileNos, f <= cur
      PROVE  f \in Rolled(q).disk <=> f \in disk /\ f \notin (IF DelOut THEN managed \ Kept(S) ELSE {})
  <2>1. f \in q.disk <=> f \in disk /\ f \notin (IF DelOut THEN managed \ q.managed ELSE {})
    BY <1>7 DEF Leaves, Gone
  <2>2. f # m /\ (f \in S <=> f \in q.managed)
    BY <1>7, <1>a
  <2>3. f \in q.managed => f \in managed
    <3>1. \A g \in FileNos : g \in Int
      BY DEF FileNos
    <3> QED
      BY <1>0, <1>1, <1>7, <3>1 DEF Fits
  <2>4. f \in Rolled(q).disk <=> f \in q.disk /\ ~(DelOut /\ f \in S \ Kept(S))
    BY <1>3, <2>2
  <2> HIDE DEF S
  <2> QED
    BY <1>4, <2>1, <2>2, <2>3, <2>4
<1> HIDE DEF S
<1> QED
  BY <1>0, <1>3, <1>5, <1>6, <1>7 DEF Leaves, Gone

LEMMA PlacesLeave ==
  ASSUME TypeOK, CurIsLast, ManagedExist, status = "up",
         NEW p \in Places \cup (IF cur = 0 THEN {} ELSE {Here})
  PROVE  Leaves(p)
<1>0. Fits(p) /\ \A f \in FileNos : f \in Nat /\ f # 0
  BY PlacesFit DEF FileNos
<1>1. CASE cur = 0
  <2>1. p = FirstFile
    BY <1>1 DEF Places
  <2>2. managed = {}
    BY <1>1 DEF CurIsLast, TypeOK, FileNos
  <2>3. \A f \in FileNos : ~(f <= cur)
    BY <1>0, <1>1
  <2> QED
    BY <1>0, <2>1, <2>2, <2>3 DEF FirstFile, Leaves
<1>2. CASE cur # 0
  <2>1. Leaves(Here)
    <3>1. Fits(Here)
      BY <1>2, PlacesFit
    <3> QED
      BY <3>1 DEF Leaves, Here, Gone, ManagedExist
  <2>2. p = Here \/ (p = Rolled(Here) /\ CanRoll(Here))
    BY <1>2 DEF Places
  <2> QED
    BY <2>1, <2>2, RolledLeaves
<1> QED
  BY <1>1, <1>2


LEMMA RefInit == Init => RefInv
BY CleanInit DEF RefInv, ManagedExist, Init

LEMMA RefStep == ~DiskMayFail /\ RefInv /\ [Next]_vars => RefInv'
<1> SUFFICES ASSUME ~DiskMayFail, RefInv, [Next]_vars PROVE ManagedExist'
  BY CleanStep DEF RefInv
<1>0. TypeOK /\ CurIsLast /\ ManagedExist
  BY DEF RefInv, CleanInv, ShapeInv, OrderInv
<1>1. CASE \E s \in Sids : AppendCall(s)
  <2>1. PICK s \in Sids : AppendRecord(s) \/ AppendOversize(s)
    BY <1>1 DEF AppendCall, AppendFails, CreateFileFails
  <2>2. status = "up"
    BY <2>1 DEF AppendRecord, AppendOversize
  <2>3. \E q : Leaves(q) /\ Place(q)
    <3>1. CASE AppendRecord(s)
      BY <1>0, <2>2, <3>1, PlacesLeave DEF AppendRecord
    <3>2. CASE AppendOversize(s)
      BY <1>0, <2>2, <3>2, PlacesLeave, RolledLeaves DEF AppendOversize
    <3> QED
      BY <2>1, <3>1, <3>2
  <2> QED
    BY <2>3 DEF Leaves, Place, ManagedExist
<1>2. CASE \/ \E c \in Cursors, s \in 0..MaxSid : CreateCursor(c, s)
           \/ \E c \in Cursors : CursorCall(c)
  <2>1. CursorStep
    BY <1>2 DEF CursorCall, NextCall, CreateCursor, DestroyCursor, Seek, SeekFails,
                NextInFile, NextFile, NextFileEmpty, NextOutOfRange, ReadFails, EnterAt
  <2> QED
    BY <1>0, <2>1 DEF CursorStep, fileVars, mgrVars, ManagedExist
<1>3. CASE Commit \/ CommitFails \/ UNCHANGED vars
  BY <1>0, <1>3 DEF Commit, CommitFails, vars, fileVars, mgrVars, ManagedExist
<1>4. CASE Crash \/ (\E s \in Sids : CrashInAppend(s)) \/ RefuseToStart
  BY <1>4 DEF Crash, CrashInAppend, RefuseToStart, ManagedExist
<1>5. CASE Recover
  BY <1>5 DEF Recover, ManagedExist
<1> QED
  BY <1>1, <1>2, <1>3, <1>4, <1>5 DEF Next

-----------------------------------------------------------------------------
(***************************************************************************)
(* What is dropped.                                                        *)
(***************************************************************************)
LEMMA FiledFacts ==
  ASSUME TypeOK, NEW S \in SUBSET FileNos
  PROVE  /\ \A f \in S : \A i \in 1..Len(data[f]) : data[f][i] \in Filed(S)
         /\ Filed(S) \subseteq Sids
<1> SUFFICES ASSUME NEW f \in S, NEW i \in 1..Len(data[f]) PROVE data[f][i] \in Sids
  BY DEF Filed
<1>1. data[f] \in Seq(Sids)
  BY DEF TypeOK
<1> QED
  BY <1>1, ElementFact

Dropped(q) == Filed(managed) \ Filed(q.managed)

\* A file that holds records and that a layout has, was there before.
LEMMA OldFile ==
  ASSUME TypeOK, NothingAhead, status = "up", NEW f \in FileNos, data[f] # <<>>
  PROVE  f <= cur
BY DEF NothingAhead, FileNos, TypeOK

LEMMA DroppedOldest ==
  ASSUME RefInv, status = "up", NEW q, Leaves(q)
  PROVE  /\ Abs!Droppable(Dropped(q))
         /\ Dropped(q) \in SUBSET Readable
<1>0. /\ TypeOK /\ SidsAscend /\ NothingAhead
      /\ managed \in SUBSET FileNos /\ q.managed \in SUBSET FileNos
      /\ Readable = Filed(managed)
  BY DEF RefInv, CleanInv, ShapeInv, OrderInv, TypeOK, Leaves, Fits, Readable, InService
<1>1. ASSUME NEW d \in Dropped(q), NEW s \in Filed(managed) \ Dropped(q)
      PROVE  d < s
  <2>1. PICK f \in managed : \E i \in 1..Len(data[f]) : data[f][i] = d
    BY DEF Dropped, Filed
  <2>2. PICK i \in 1..Len(data[f]) : data[f][i] = d
    BY <2>1
  <2>3. PICK g \in q.managed : \E j \in 1..Len(data[g]) : data[g][j] = s
    BY DEF Dropped, Filed
  <2>4. PICK j \in 1..Len(data[g]) : data[g][j] = s
    BY <2>3
  <2>5. f \in FileNos /\ g \in FileNos /\ f \in Nat /\ g \in Nat
    BY <1>0 DEF FileNos
  <2>6. f \notin q.managed
    BY <1>0, <2>2, FiledFacts DEF Dropped
  <2>7. g \in managed
    <3>1. data[g] # <<>>
      BY <2>4
    <3>2. g <= cur
      BY <1>0, <2>5, <3>1, OldFile
    <3>3. cur \in Nat
      BY <1>0, BoundsAssumption DEF TypeOK
    <3> QED
      BY <2>5, <3>2, <3>3 DEF Leaves, Fits
  <2>8. f < g
    <3>1. ~(g <= f)
      BY <2>3, <2>6, <2>7 DEF Leaves
    <3> QED
      BY <2>5, <3>1
  <2> QED
    BY <1>0, <2>2, <2>4, <2>5, <2>8, RecordsAscend DEF Before
<1>2. ASSUME NEW d \in Dropped(q), NEW r \in Cursors, Reached[r] # -1
      PROVE  d < Reached[r]
  <2>1. PICK f \in managed : \E i \in 1..Len(data[f]) : data[f][i] = d
    BY DEF Dropped, Filed
  <2>2. PICK i \in 1..Len(data[f]) : data[f][i] = d
    BY <2>1
  <2>3. f \notin q.managed
    BY <1>0, <2>2, FiledFacts DEF Dropped
  <2>4. ~InUse(f)
    BY <2>3 DEF Leaves, Fits
  <2>5. cursor[r].st \in {"ready", "unseek"} /\ Reached[r] = Position(r)
    BY <1>2 DEF Reached, Position
  <2> QED
    BY <1>0, <2>2, <2>4, <2>5, NotInUse
<1>3. Dropped(q) \in SUBSET Readable
  BY <1>0 DEF Dropped
<1> QED
  BY <1>0, <1>1, <1>2, <1>3 DEF Abs!Droppable, Abs!Reading, Abs!Closed

\* The records of the files that a layout has, as they are before the append.
LEMMA LayoutFiled ==
  ASSUME RefInv, status = "up", NEW q, Leaves(q), q.disk \in SUBSET FileNos
  PROVE  /\ Filed(q.managed) = Readable \ Dropped(q)
         /\ Filed(q.disk \ q.managed) \in {SetAside, SetAside \cup Dropped(q)}
         /\ Readable \cup SetAside = Filed(disk)
         /\ Filed(q.disk) = IF DelOut THEN Filed(disk) \ Dropped(q) ELSE Filed(disk)
<1>0. /\ TypeOK /\ SidsAscend /\ NothingAhead /\ CurIsLast
      /\ managed \in SUBSET FileNos /\ q.managed \in SUBSET FileNos
      /\ managed \subseteq disk /\ disk \in SUBSET FileNos
      /\ Readable = Filed(managed) /\ SetAside = Filed(disk \ managed)
  BY DEF RefInv, CleanInv, ShapeInv, OrderInv, TypeOK, Leaves, Fits, Readable, SetAside, InService, ManagedExist
<1> DEFINE Holds(f, s) == \E i \in 1..Len(data[f]) : data[f][i] = s
<1>1. \A S \in SUBSET FileNos : \A s : s \in Filed(S) <=> s \in Sids /\ \E f \in S : Holds(f, s)
  BY DEF Filed
<1>2. ASSUME NEW f \in FileNos, NEW g \in FileNos, NEW s, Holds(f, s), Holds(g, s)
      PROVE  f = g
  <2>1. PICK i \in 1..Len(data[f]), j \in 1..Len(data[g]) : data[f][i] = s /\ data[g][j] = s
    BY <1>2
  <2>2. s \in Nat
    BY <1>0, <2>1, RecordsAscend
  <2>3. f \in Nat /\ g \in Nat
    BY DEF FileNos
  <2>4. ~(f < g) /\ ~(g < f)
    BY <1>0, <2>1, <2>2, RecordsAscend DEF Before
  <2> QED
    BY <2>3, <2>4
<1>3. ASSUME NEW f \in FileNos, NEW s, Holds(f, s)
      PROVE  f <= cur /\ (f \in q.managed => f \in managed)
  <2>1. data[f] # <<>>
    BY <1>3
  <2>2. f <= cur /\ f \in Nat /\ cur \in Nat
    BY <1>0, <2>1, OldFile DEF FileNos, TypeOK
  <2> QED
    BY <2>2 DEF Leaves, Fits
<1>4. \A f \in FileNos : f <= cur => (f \in q.disk <=> f \in disk /\ f \notin Gone(q))
  BY DEF Leaves
<1> HIDE DEF Holds
<1>5. Filed(q.managed) = Filed(managed) \ Dropped(q)
  <2>1. \A s \in Filed(q.managed) : s \in Filed(managed)
    BY <1>0, <1>1, <1>3
  <2> QED
    BY <2>1 DEF Dropped
<1>6. \A s : s \in Dropped(q) <=> s \in Sids /\ \E f \in managed \ q.managed : Holds(f, s)
  BY <1>0, <1>1, <1>2 DEF Dropped
<1>7. Filed(managed) \cup Filed(disk \ managed) = Filed(disk)
  BY <1>0, <1>1
<1>8. Filed(q.disk) = IF DelOut THEN Filed(disk) \ Dropped(q) ELSE Filed(disk)
  <2>1. CASE DelOut
    <3>1. ASSUME NEW s  PROVE s \in Filed(q.disk) <=> s \in Filed(disk) /\ s \notin Dropped(q)
      BY <1>0, <1>1, <1>2, <1>3, <1>4, <1>6, <2>1 DEF Gone
    <3> QED
      BY <2>1, <3>1
  <2>2. CASE ~DelOut
    <3>1. ASSUME NEW s  PROVE s \in Filed(q.disk) <=> s \in Filed(disk)
      BY <1>0, <1>1, <1>3, <1>4, <2>2 DEF Gone
    <3> QED
      BY <2>2, <3>1
  <2> QED
    BY <2>1, <2>2
<1>9. Filed(q.disk \ q.managed) \in {SetAside, SetAside \cup Dropped(q)}
  <2>0. (q.disk \ q.managed) \in SUBSET FileNos /\ (disk \ managed) \in SUBSET FileNos
    BY <1>0
  <2>1. CASE DelOut
    <3>1. ASSUME NEW s  PROVE s \in Filed(q.disk \ q.managed) <=> s \in Filed(disk \ managed)
      BY <1>0, <1>1, <1>3, <1>4, <2>0, <2>1 DEF Gone
    <3> QED
      BY <1>0, <3>1
  <2>2. CASE ~DelOut
    <3>1. ASSUME NEW s
          PROVE  s \in Filed(q.disk \ q.managed) <=> s \in Filed(disk \ managed) \/ s \in Dropped(q)
      BY <1>0, <1>1, <1>3, <1>4, <1>6, <2>0, <2>2 DEF Gone
    <3> QED
      BY <1>0, <3>1
  <2> QED
    BY <2>1, <2>2
<1> QED
  BY <1>0, <1>5, <1>7, <1>8, <1>9

-----------------------------------------------------------------------------
(***************************************************************************)
(* Calls of a running manager.                                             *)
(***************************************************************************)
LEMMA PublishStep ==
  ASSUME ~DiskMayFail, RefInv, RefInv', NEW s \in Sids, AppendRecord(s)
  PROVE  Abs!Publish(s)
<1>0. /\ TypeOK /\ SidsAscend /\ CurIsLast /\ ManagedExist
      /\ status = "up" /\ status' = "up" /\ s \in Sids
  BY DEF RefInv, CleanInv, ShapeInv, OrderInv, AppendRecord
<1>1. PICK p \in Places :
        /\ s > maxSid /\ maxSid' = s
        /\ Place(p)
        /\ data' = [data EXCEPT ![p.cur] = Append(@, s)]
        /\ cursor' = cursor
  BY DEF AppendRecord, Offered
<1>2. /\ Leaves(p) /\ p.cur \in FileNos /\ p.cur \in p.managed
      /\ p.managed \in SUBSET FileNos /\ p.disk \in SUBSET FileNos
      /\ managed' = p.managed /\ disk' = p.disk
  BY <1>0, <1>1, PlacesLeave, PlacesType DEF Leaves, Fits, Place, LayoutType
<1>3. /\ data[p.cur] \in Seq(Sids)
      /\ data'[p.cur] = Append(data[p.cur], s)
      /\ \A f \in FileNos : f # p.cur => data'[f] = data[f]
  BY <1>0, <1>1, <1>2 DEF TypeOK
<1>4. /\ Len(data'[p.cur]) = Len(data[p.cur]) + 1 /\ Len(data[p.cur]) \in Nat
      /\ \A i \in 1..Len(data[p.cur]) : data'[p.cur][i] = data[p.cur][i]
      /\ data'[p.cur][Len(data[p.cur]) + 1] = s
  BY <1>3, AppendFacts
<1> DEFINE Holds(f, x) == \E i \in 1..Len(data[f]) : data[f][i] = x
           Holds2(f, x) == \E i \in 1..Len(data'[f]) : data'[f][i] = x
<1>5. ASSUME NEW f \in FileNos, NEW x
      PROVE  Holds2(f, x) <=> Holds(f, x) \/ (f = p.cur /\ x = s)
  <2>1. CASE f # p.cur
    BY <1>3, <2>1
  <2>2. CASE f = p.cur
    <3>1. ASSUME Holds2(f, x)  PROVE Holds(f, x) \/ x = s
      <4>1. PICK i \in 1..Len(data'[f]) : data'[f][i] = x
        BY <3>1
      <4>2. i \in 1..Len(data[f]) \/ i = Len(data[f]) + 1
        BY <1>4, <2>2
      <4> QED
        BY <1>4, <2>2, <4>1, <4>2
    <3>2. ASSUME Holds(f, x)  PROVE Holds2(f, x)
      <4>1. PICK i \in 1..Len(data[f]) : data[f][i] = x
        BY <3>2
      <4>2. i \in 1..Len(data'[f]) /\ data'[f][i] = x
        BY <1>4, <2>2, <4>1
      <4> QED
        BY <4>2
    <3>3. Len(data[p.cur]) + 1 \in 1..Len(data'[p.cur])
      BY <1>4
    <3> QED
      BY <1>4, <2>2, <3>1, <3>2, <3>3
  <2> QED
    BY <2>1, <2>2
<1>6. \A S \in SUBSET FileNos : \A x : x \in Filed(S) <=> x \in Sids /\ \E f \in S : Holds(f, x)
  BY DEF Filed
<1>7. /\ \A x : x \in Filed(managed)' <=> x \in Sids /\ \E f \in p.managed : Holds2(f, x)
      /\ \A x : x \in Filed(disk \ managed)' <=> x \in Sids /\ \E f \in p.disk \ p.managed : Holds2(f, x)
  BY <1>2 DEF Filed
<1> HIDE DEF Holds, Holds2
<1>8. Filed(managed)' = Filed(p.managed) \cup {s}
  <2>1. ASSUME NEW x  PROVE x \in Filed(managed)' <=> x \in Filed(p.managed) \/ x = s
    BY <1>0, <1>2, <1>5, <1>6, <1>7
  <2> QED
    BY <2>1
<1>9. Filed(disk \ managed)' = Filed(p.disk \ p.managed)
  <2>1. ASSUME NEW x  PROVE x \in Filed(disk \ managed)' <=> x \in Filed(p.disk \ p.managed)
    BY <1>2, <1>5, <1>6, <1>7, ZenonT(40)
  <2> QED
    BY <2>1
<1>10. Readable' = (Readable \ Dropped(p)) \cup {s} /\ SetAside' \in {SetAside, SetAside \cup Dropped(p)}
  <2>1. Readable' = Filed(managed)' /\ SetAside' = Filed(disk \ managed)'
    BY <1>0 DEF Readable, SetAside, InService
  <2>2. /\ Filed(p.managed) = Readable \ Dropped(p)
        /\ Filed(p.disk \ p.managed) \in {SetAside, SetAside \cup Dropped(p)}
    BY <1>0, <1>2, LayoutFiled
  <2> QED
    BY <1>8, <1>9, <2>1, <2>2
<1>11. Abs!Droppable(Dropped(p)) /\ Dropped(p) \in SUBSET Readable
  BY <1>0, <1>2, DroppedOldest
<1>12. Reached' = Reached /\ InService /\ InService' = InService
  BY <1>0, <1>1 DEF Reached, InService
<1> QED
  BY <1>1, <1>10, <1>11, <1>12 DEF Abs!Publish, Abs!Drop

LEMMA TrimStep ==
  ASSUME RefInv, NEW s \in Sids, AppendOversize(s)
  PROVE  Abs!Trim \/ UNCHANGED Abs!vars
<1>0. /\ TypeOK /\ CurIsLast /\ ManagedExist
      /\ status = "up" /\ status' = "up"
      /\ UNCHANGED <<data, maxSid, cursor>>
  BY DEF RefInv, CleanInv, ShapeInv, OrderInv, AppendOversize
<1>1. \E q : Leaves(q) /\ Place(q) /\ q.disk \in SUBSET FileNos
  <2>1. PICK p \in Places \cup (IF cur = 0 THEN {} ELSE {Here}) : CanRoll(p) /\ Place(Rolled(p))
    BY DEF AppendOversize
  <2>2. Leaves(p) /\ Leaves(Rolled(p))
    BY <1>0, <2>1, PlacesLeave, RolledLeaves
  <2>3. p.disk \in SUBSET FileNos
    BY <1>0, PlacesType DEF LayoutType, Here, TypeOK
  <2>4. p.cur + 1 \in FileNos
    BY <1>0, <2>1, <2>2, BoundsAssumption DEF Leaves, Fits, FileNos, CanRoll
  <2>5. Rolled(p).disk \in SUBSET FileNos
    BY <2>3, <2>4 DEF Rolled
  <2> QED
    BY <2>1, <2>2, <2>5
<1>2. PICK q : Leaves(q) /\ Place(q) /\ q.disk \in SUBSET FileNos
  BY <1>1
<1>3. Readable' = Readable \ Dropped(q) /\ SetAside' \in {SetAside, SetAside \cup Dropped(q)}
  <2>1. Readable' = Filed(q.managed) /\ SetAside' = Filed(q.disk \ q.managed)
    BY <1>0, <1>2 DEF Readable, SetAside, InService, Place, Filed
  <2> QED
    BY <1>0, <1>2, <2>1, LayoutFiled
<1>4. Abs!Droppable(Dropped(q)) /\ Dropped(q) \in SUBSET Readable
  BY <1>0, <1>2, DroppedOldest
<1>5. Reached' = Reached /\ InService /\ InService' = InService /\ maxSid' = maxSid
  BY <1>0 DEF Reached, InService
<1>6. CASE Dropped(q) = {}
  BY <1>3, <1>5, <1>6 DEF Abs!vars
<1>7. CASE Dropped(q) # {}
  BY <1>3, <1>4, <1>5, <1>7 DEF Abs!Trim, Abs!Drop
<1> QED
  BY <1>6, <1>7

LEMMA CommitStep ==
  ASSUME Commit
  PROVE  UNCHANGED Abs!vars
BY DEF Commit, Abs!vars, InService, Readable, SetAside, Reached, Filed, Found

\* What a call for one cursor can change of the abstract log.
LEMMA CursorFrame ==
  ASSUME TypeOK, CursorStep, status = "up", NEW c \in Cursors, NEW k, Move(c, k)
  PROVE  /\ InService /\ UNCHANGED <<InService, Readable, SetAside, maxSid>>
         /\ cursor'[c] = k
         /\ \A n : n = (CASE k.st = "ready" -> k.sid [] k.st = "unseek" -> k.seek [] OTHER -> -1)
                   => Reached' = [Reached EXCEPT ![c] = n]
<1>1. InService /\ UNCHANGED <<InService, Readable, SetAside, maxSid>>
  BY DEF CursorStep, fileVars, mgrVars, InService, Readable, SetAside, Filed, Found
<1>2. cursor'[c] = k /\ \A d \in Cursors : d # c => cursor'[d] = cursor[d]
  BY DEF Move, TypeOK
<1> QED
  BY <1>1, <1>2 DEF Reached

LEMMA CreateStep ==
  ASSUME RefInv, NEW c \in Cursors, NEW s \in 0..MaxSid, CreateCursor(c, s)
  PROVE  Abs!Attach(c, s)
<1> DEFINE k == [NoCursor EXCEPT !.st = "unseek", !.seek = s]
<1>1. k.st = "unseek" /\ k.seek = s
  BY DEF NoCursor
<1>2. TypeOK /\ status = "up" /\ CursorStep /\ Move(c, k) /\ cursor[c].st = "none"
  BY DEF CreateCursor, RefInv, CleanInv, ShapeInv, OrderInv
<1> HIDE DEF k
<1>3. /\ InService /\ UNCHANGED <<InService, Readable, SetAside, maxSid>>
      /\ Reached' = [Reached EXCEPT ![c] = s]
  BY <1>1, <1>2, CursorFrame
<1>4. Reached[c] = -1
  BY <1>2 DEF Reached
<1> QED
  BY <1>3, <1>4 DEF Abs!Attach, Abs!Reading, Abs!Closed

\* A reader stops, or it had stopped before.
LEMMA LeaveStep ==
  ASSUME RefInv, status = "up", CursorStep, NEW c \in Cursors, NEW k, Move(c, k),
         k.st \in {"none", "error"}
  PROVE  Abs!Detach(c) \/ UNCHANGED Abs!vars
<1>0. TypeOK
  BY DEF RefInv, CleanInv, ShapeInv, OrderInv
<1>1. /\ InService /\ UNCHANGED <<InService, Readable, SetAside, maxSid>>
      /\ Reached' = [Reached EXCEPT ![c] = -1]
  BY <1>0, CursorFrame
<1>2. CASE Reached[c] = -1
  <2>1. Reached' = Reached
    BY <1>1, <1>2 DEF Reached
  <2> QED
    BY <1>1, <2>1 DEF Abs!vars
<1>3. CASE Reached[c] # -1
  BY <1>1, <1>3 DEF Abs!Detach, Abs!Reading, Abs!Closed
<1> QED
  BY <1>2, <1>3

LEMMA ReadStep ==
  ASSUME RefInv, [Next]_vars, NEW c \in Cursors,
         Seek(c) \/ NextInFile(c) \/ NextFile(c)
  PROVE  Abs!Read(c) \/ UNCHANGED Abs!vars
<1>0. TypeOK /\ SidsAscend /\ CleanInv /\ CursorStep /\ status = "up"
  BY DEF RefInv, CleanInv, ShapeInv, OrderInv, Seek, SeekGoes, NextInFile, NextFile, NextCalled, EnterAt
<1>a. cursor[c] \in CursorRecord
  BY <1>0 DEF TypeOK, CursorType
<1>1. PICK k : Move(c, k) /\ k.st = "ready"
  <2>1. CASE Seek(c)
    <3>1. PICK f, i, n :
            Move(c, [cursor[c] EXCEPT !.st = "ready", !.file = f, !.at = i, !.sid = n])
      BY <2>1 DEF Seek
    <3>2. [cursor[c] EXCEPT !.st = "ready", !.file = f, !.at = i, !.sid = n].st = "ready"
      BY <1>a DEF CursorRecord
    <3> QED
      BY <3>1, <3>2
  <2>2. CASE NextInFile(c) \/ NextFile(c)
    <3>1. PICK f, i, n : Move(c, [cursor[c] EXCEPT !.file = f, !.at = i, !.sid = n])
      BY <2>2 DEF NextInFile, NextFile, EnterAt
    <3>2. [cursor[c] EXCEPT !.file = f, !.at = i, !.sid = n].st = "ready"
      BY <1>a, <2>2 DEF CursorRecord, NextInFile, NextFile, NextCalled
    <3> QED
      BY <3>1, <3>2
  <2> QED
    BY <2>1, <2>2
<1>2. /\ InService /\ UNCHANGED <<InService, Readable, SetAside, maxSid>>
      /\ cursor'[c] = k
      /\ Reached' = [Reached EXCEPT ![c] = k.sid]
  BY <1>0, <1>1, CursorFrame
<1>3. cursor[c].st \in {"unseek", "ready"} /\ Reached[c] = Position(c)
  BY DEF Seek, SeekGoes, NextInFile, NextFile, NextCalled, Reached, Position
<1>4. CASE cursor'[c] = cursor[c]
  <2>1. cursor' = cursor
    BY <1>0, <1>1, <1>2, <1>4 DEF Move, TypeOK
  <2>2. Reached' = Reached
    BY <2>1 DEF Reached
  <2> QED
    BY <1>2, <2>2 DEF Abs!vars
<1>5. CASE cursor'[c] # cursor[c]
  <2>1. Moves(c)
    BY <1>1, <1>2, <1>3, <1>5 DEF Moves
  <2>2. /\ Position(c) < Position(c)'
        /\ Position(c)' \in Retained
        /\ ~ \E s \in Retained : Position(c) < s /\ s < Position(c)'
    BY <1>0, <2>1, NextMessage
  <2>3. Position(c)' = k.sid
    BY <1>1, <1>2 DEF Position
  <2>4. Retained = Readable
    <3>1. Readable = Filed(managed)
      BY <1>2 DEF Readable
    <3>2. managed \in SUBSET FileNos
      BY <1>0 DEF TypeOK
    <3>3. \A x : x \in Retained <=> \E f \in managed : \E i \in 1..Len(data[f]) : data[f][i] = x
      BY DEF Retained
    <3>4. \A f \in managed : \A i \in 1..Len(data[f]) : data[f][i] \in Sids
      BY <1>0, <3>2, FiledFacts
    <3>5. \A x : x \in Filed(managed) <=> x \in Sids /\ \E f \in managed : \E i \in 1..Len(data[f]) : data[f][i] = x
      BY DEF Filed
    <3> QED
      BY <3>1, <3>3, <3>4, <3>5
  <2>5. \A s \in Readable : s \in Nat
    BY <1>2, BoundsAssumption DEF Readable, Filed, Sids
  <2>6. \A s \in Readable : s > Position(c) => k.sid <= s
    BY <2>2, <2>3, <2>4, <2>5
  <2>7. k.sid \in Readable /\ k.sid > Position(c)
    <3>1. Position(c) \in Nat
      BY <1>a DEF Position, CursorRecord
    <3> QED
      BY <2>2, <2>3, <2>4, <2>5, <3>1
  <2>8. Reached[c] # -1
    BY <1>3, <1>a DEF Position, CursorRecord
  <2> QED
    BY <1>2, <1>3, <2>6, <2>7, <2>8 DEF Abs!Read, Abs!Reading, Abs!Closed
<1> QED
  BY <1>4, <1>5

-----------------------------------------------------------------------------
(***************************************************************************)
(* Crash and restart.                                                      *)
(***************************************************************************)
\* What a crash leaves of the records, when only file k could lose some and only
\* behind file k there is a header.
LEMMA CrashFiled ==
  ASSUME RefInv, status = "up", NEW E \in SUBSET FileNos, disk' = E, NEW k \in Nat,
         \A f \in managed : f <= k,
         k \in FileNos /\ data[k] # <<>> => k \in managed,
         \A f \in E : f # k => data'[f] = data[f],
         k \in E => /\ Len(data'[k]) \in Nat /\ Len(data'[k]) <= Len(data[k])
                    /\ \A i \in 1..Len(data'[k]) : data'[k][i] = data[k][i]
  PROVE  \E lost \in SUBSET Readable :
           /\ \A l \in lost : \A s \in Readable \ lost : s < l
           /\ Filed(disk)' = Filed(E) \ lost
<1>0. /\ TypeOK /\ SidsAscend /\ managed \in SUBSET FileNos /\ Readable = Filed(managed)
  BY DEF RefInv, CleanInv, ShapeInv, OrderInv, TypeOK, Readable, InService
<1>a. \A f \in FileNos : f \in Nat
  BY DEF FileNos
<1> DEFINE Cut(s) == k \in E /\ k \in managed /\ \E i \in 1..Len(data[k]) : i > Len(data'[k]) /\ data[k][i] = s
           lost == {s \in Readable : Cut(s)}
<1>1. ASSUME NEW l \in lost, NEW s \in Readable \ lost
      PROVE  s < l
  <2>1. k \in E /\ k \in managed /\ k \in FileNos
    BY <1>0
  <2>2. PICK i \in 1..Len(data[k]) : i > Len(data'[k]) /\ data[k][i] = l
    OBVIOUS
  <2>3. PICK f \in managed : \E j \in 1..Len(data[f]) : data[f][j] = s
    BY <1>0 DEF Filed
  <2>4. PICK j \in 1..Len(data[f]) : data[f][j] = s
    BY <2>3
  <2>5. f \in FileNos /\ f <= k /\ f \in Nat
    BY <1>0, <1>a
  <2>6. CASE f = k
    <3>1. ~(j > Len(data'[k]))
      BY <1>1, <2>1, <2>4, <2>6
    <3>2. j < i
      BY <2>1, <2>2, <2>6, <3>1
    <3> QED
      BY <1>0, <2>1, <2>2, <2>4, <2>6, <3>2, RecordsAscend DEF Before
  <2>7. CASE f < k
    BY <1>0, <2>1, <2>2, <2>4, <2>5, <2>7, RecordsAscend DEF Before
  <2> QED
    BY <2>5, <2>6, <2>7
<1>2. ASSUME NEW s, s \in Filed(disk)'  PROVE s \in Filed(E) /\ s \notin lost
  <2>1. PICK f \in E : \E i \in 1..Len(data'[f]) : data'[f][i] = s
    BY <1>2 DEF Filed
  <2>2. PICK i \in 1..Len(data'[f]) : data'[f][i] = s
    BY <2>1
  <2>3. i \in 1..Len(data[f]) /\ data[f][i] = s
    <3>1. CASE f = k
      <4>1. data[k] \in Seq(Sids)
        BY <1>0, <3>1 DEF TypeOK
      <4> QED
        BY <2>2, <3>1, <4>1
    <3>2. CASE f # k
      BY <2>2, <3>2
    <3> QED
      BY <3>1, <3>2
  <2>4. s \in Filed(E)
    BY <1>0, <2>3, FiledFacts
  <2>5. ASSUME Cut(s)  PROVE FALSE
    <3>1. PICK j \in 1..Len(data[k]) : j > Len(data'[k]) /\ data[k][j] = s
      BY <2>5
    <3>2. k \in E /\ k \in FileNos
      BY <2>5
    <3>3. s \in Nat
      BY <1>0, <2>3, RecordsAscend
    <3>4. CASE f = k
      <4>1. i < j
        BY <2>2, <3>1, <3>2, <3>4
      <4> QED
        BY <1>0, <2>3, <3>1, <3>2, <3>3, <3>4, <4>1, RecordsAscend DEF Before
    <3>5. CASE f < k
      BY <1>0, <2>3, <3>1, <3>2, <3>3, <3>5, RecordsAscend DEF Before
    <3>6. CASE k < f
      BY <1>0, <2>3, <3>1, <3>2, <3>3, <3>6, RecordsAscend DEF Before
    <3>7. f \in Nat
      BY <1>a
    <3> QED
      BY <3>4, <3>5, <3>6, <3>7
  <2> QED
    BY <2>4, <2>5
<1>3. ASSUME NEW s, s \in Filed(E), s \notin lost  PROVE s \in Filed(disk)'
  <2>1. PICK f \in E : \E i \in 1..Len(data[f]) : data[f][i] = s
    BY <1>3 DEF Filed
  <2>2. PICK i \in 1..Len(data[f]) : data[f][i] = s
    BY <2>1
  <2>3. s \in Sids
    BY <1>3 DEF Filed
  <2>4. i \in 1..Len(data'[f]) /\ data'[f][i] = s
    <3>1. CASE f # k
      BY <2>2, <3>1
    <3>2. CASE f = k
      <4>1. data[k] # <<>>
        BY <2>2, <3>2
      <4>2. k \in managed /\ k \in E
        BY <3>2, <4>1
      <4>3. s \in Readable
        BY <1>0, <2>2, <3>2, <4>2, FiledFacts
      <4>4. ~(i > Len(data'[k]))
        BY <1>3, <2>2, <3>2, <4>2, <4>3
      <4>5. i \in 1..Len(data'[k])
        BY <3>2, <4>2, <4>4
      <4> QED
        BY <2>2, <3>2, <4>2, <4>5
    <3> QED
      BY <3>1, <3>2
  <2> QED
    BY <2>3, <2>4 DEF Filed
<1> HIDE DEF lost
<1>4. Filed(disk)' = Filed(E) \ lost
  <2>1. \A s : s \in Filed(disk)' <=> s \in Filed(E) \ lost
    BY <1>2, <1>3
  <2> QED
    BY <2>1
<1>5. lost \in SUBSET Readable
  BY DEF lost
<1> QED
  BY <1>1, <1>4, <1>5

LEMMA NothingDropped ==
  ASSUME RefInv, status = "up"
  PROVE  Abs!Droppable({}) /\ Readable \cup SetAside = Filed(disk)
<1>1. managed \subseteq disk /\ Readable = Filed(managed) /\ SetAside = Filed(disk \ managed)
  BY DEF RefInv, ManagedExist, Readable, SetAside, InService
<1> QED
  BY <1>1 DEF Abs!Droppable, Filed

\* A crash between two calls or inside one: E, safe and t are what it hits.
LEMMA DiesStep ==
  ASSUME RefInv, status = "up", status' = "down", Forget,
         NEW E \in SUBSET FileNos, NEW safe \in [FileNos -> Nat], NEW t \in [FileNos -> Nat],
         Dies(E, safe, t), NEW k \in Nat,
         \A f \in managed : f <= k,
         k \in FileNos /\ data[k] # <<>> => k \in managed,
         \A f \in FileNos : f # k => safe[f] = Len(data[f]) /\ t[f] = 0,
         k \in FileNos => t[k] = 0 \/ (t[k] \in Sids /\ t[k] > maxSid),
         NEW D \in SUBSET Readable, Abs!Droppable(D),
         Filed(E) = Filed(disk) \/ Filed(E) = Filed(disk) \ D
  PROVE  Abs!Crash
<1>0. TypeOK /\ junk = {}
  BY DEF RefInv, CleanInv, ShapeInv, OrderInv, Tidy
<1>1. PICK died \in SUBSET {f \in E : safe[f] < Len(data[f]) \/ t[f] # 0 \/ f \in junk},
           extra \in 0..Cap :
        /\ data' = [g \in FileNos |->
                      IF g \notin E THEN <<>>
                      ELSE IF g \in died THEN Upto(data[g], safe[g] + extra) ELSE data[g]]
        /\ tail' = [g \in FileNos |-> IF g \in E \ died THEN t[g] ELSE 0]
        /\ disk' = E
  BY DEF Dies
<1>2. ASSUME NEW f \in E, f # k  PROVE f \notin died /\ data'[f] = data[f] /\ tail'[f] = 0
  <2>1. safe[f] = Len(data[f]) /\ t[f] = 0 /\ Len(data[f]) \in Nat
    BY <1>0, <1>2 DEF TypeOK
  <2>2. f \notin died
    BY <1>0, <2>1
  <2> QED
    BY <1>1, <1>2, <2>1, <2>2
<1>3. ASSUME k \in E
      PROVE  /\ Len(data'[k]) \in Nat /\ Len(data'[k]) <= Len(data[k])
             /\ \A i \in 1..Len(data'[k]) : data'[k][i] = data[k][i]
             /\ tail'[k] \in {0, t[k]}
  <2>1. data[k] \in Seq(Sids) /\ k \in FileNos
    BY <1>0, <1>3 DEF TypeOK
  <2> DEFINE m == safe[k] + extra
  <2>2. m \in Nat
    BY <2>1, BoundsAssumption
  <2>3. data'[k] = Upto(data[k], m) \/ data'[k] = data[k]
    BY <1>1, <1>3, <2>1
  <2>4. tail'[k] \in {0, t[k]}
    BY <1>1, <1>3, <2>1
  <2> HIDE DEF m
  <2>5. CASE data'[k] = Upto(data[k], m)
    <3>1. /\ Upto(data[k], m) \in Seq(Sids)
          /\ Len(Upto(data[k], m)) <= Len(data[k])
          /\ \A i \in 1..Len(Upto(data[k], m)) : Upto(data[k], m)[i] = data[k][i]
      BY <2>1, <2>2, UptoFacts
    <3> QED
      BY <2>4, <2>5, <3>1
  <2>6. CASE data'[k] = data[k]
    BY <2>1, <2>4, <2>6
  <2> QED
    BY <2>3, <2>5, <2>6
<1>4. PICK lost \in SUBSET Readable :
        /\ \A l \in lost : \A s \in Readable \ lost : s < l
        /\ Filed(disk)' = Filed(E) \ lost
  <2>1. /\ disk' = E
        /\ \A f \in E : f # k => data'[f] = data[f]
    BY <1>1, <1>2
  <2>2. k \in E => /\ Len(data'[k]) \in Nat /\ Len(data'[k]) <= Len(data[k])
                   /\ \A i \in 1..Len(data'[k]) : data'[k][i] = data[k][i]
    BY <1>3
  <2> QED
    BY <2>1, <2>2, CrashFiled
<1> DEFINE a == {s \in Sids : \E f \in E : tail'[f] = s}
<1>5. Readable' = Filed(disk)' \cup a
  BY <1>1 DEF Readable, InService, Found
<1>6. a \in {{}} \cup {{s} : s \in {n \in Sids : n > maxSid}}
  <2>0. \A s \in Sids : s # 0
    BY BoundsAssumption DEF Sids
  <2>1. CASE k \in E /\ tail'[k] # 0
    <3>1. tail'[k] \in Sids /\ tail'[k] > maxSid
      BY <1>3, <2>1
    <3>2. a = {tail'[k]}
      BY <1>2, <2>0, <2>1, <3>1
    <3> QED
      BY <3>1, <3>2
  <2>2. CASE ~(k \in E /\ tail'[k] # 0)
    <3>1. \A f \in E : tail'[f] = 0
      BY <1>2, <2>2
    <3>2. a = {}
      BY <2>0, <3>1
    <3> QED
      BY <3>2
  <2> QED
    BY <2>1, <2>2
<1> HIDE DEF a
<1>7. Readable \cup SetAside = Filed(disk)
  BY NothingDropped
<1>8. Readable' \in {((Readable \cup SetAside) \ lost) \cup a, (((Readable \cup SetAside) \ D) \ lost) \cup a}
  BY <1>4, <1>5, <1>7
<1>9. InService /\ InService' = FALSE /\ SetAside' = {} /\ maxSid' = 0
  BY DEF InService, SetAside, Forget
<1>10. Reached' = [r \in Cursors |-> -1]
  BY DEF Forget, NoCursor, Reached
<1>11. \E DD \in SUBSET Readable, ll \in SUBSET Readable,
          aa \in {{}} \cup {{s} : s \in {n \in Sids : n > maxSid}} :
        /\ Abs!Droppable(DD)
        /\ \A l \in ll : \A s \in Readable \ ll : s < l
        /\ Readable' \in {((Readable \cup SetAside) \ ll) \cup aa,
                          (((Readable \cup SetAside) \ DD) \ ll) \cup aa}
  BY <1>4, <1>6, <1>8
<1> QED
  BY <1>9, <1>10, <1>11 DEF Abs!Crash, Abs!Sids, Abs!Closed, Sids

LEMMA CrashStep ==
  ASSUME RefInv, Crash
  PROVE  Abs!Crash
<1>0. /\ TypeOK /\ CurIsLast /\ NothingAhead /\ Tidy /\ SyncKnown
      /\ status = "up" /\ status' = "down" /\ Forget /\ Dies(disk, synced, tail)
  BY DEF RefInv, CleanInv, ShapeInv, OrderInv, Crash
<1>1. disk \in SUBSET FileNos /\ synced \in [FileNos -> Nat] /\ cur \in Nat /\ tail \in [FileNos -> Nat]
  BY <1>0, BoundsAssumption DEF TypeOK
<1>2. \A f \in managed : f <= cur
  BY <1>0 DEF CurIsLast
<1>3. cur \in FileNos /\ data[cur] # <<>> => cur \in managed
  BY <1>0 DEF CurIsLast, FileNos
<1>4. \A f \in FileNos : f # cur => synced[f] = Len(data[f]) /\ tail[f] = 0
  BY <1>0 DEF Tidy, SyncKnown
<1>5. cur \in FileNos => tail[cur] = 0 \/ (tail[cur] \in Sids /\ tail[cur] > maxSid)
  BY <1>0 DEF Tidy
<1>6. {} \in SUBSET Readable /\ Abs!Droppable({})
  BY <1>0, NothingDropped
<1>7. Filed(disk) = Filed(disk) \/ Filed(disk) = Filed(disk) \ {}
  OBVIOUS
<1> QED
  BY <1>0, <1>1, <1>2, <1>3, <1>4, <1>5, <1>6, <1>7, DiesStep

LEMMA CrashInAppendStep ==
  ASSUME RefInv, NEW s \in Sids, CrashInAppend(s)
  PROVE  Abs!Crash
<1>0. /\ TypeOK /\ CurIsLast /\ NothingAhead /\ Tidy /\ SyncKnown /\ ManagedExist
      /\ status = "up" /\ status' = "down" /\ Forget
  BY DEF RefInv, CleanInv, ShapeInv, OrderInv, CrashInAppend
<1>1. PICK p \in Places, t \in {tail} \cup {[tail EXCEPT ![f] = s] : f \in FileNos} :
        /\ Offered(s, p)
        /\ \A f \in FileNos : t[f] # tail[f] => f = p.cur /\ f \notin bad
        /\ Dies(p.disk, SyncedAt(p), t)
  BY DEF CrashInAppend
<1>2. /\ p.disk \in SUBSET FileNos /\ p.cur \in FileNos /\ p.cur \in Nat
      /\ (p.cur = cur \/ p.cur = cur + 1) /\ cur \in Nat
      /\ Leaves(p)
  <2>1. Leaves(p)
    BY <1>0, PlacesLeave
  <2>2. p.disk \in SUBSET FileNos /\ p.cur \in FileNos /\ (p.cur = cur \/ p.cur = cur + 1)
    BY <1>0, PlacesType DEF LayoutType
  <2>3. p.cur \in Nat /\ cur \in Nat
    BY <1>0, <2>2, BoundsAssumption DEF FileNos, TypeOK
  <2> QED
    BY <2>1, <2>2, <2>3
<1> DEFINE safe == SyncedAt(p)
<1>3. safe \in [FileNos -> Nat]
  BY <1>0, SyncedAtType
<1>4. \A f \in FileNos : f # p.cur => safe[f] = Len(data[f])
  BY <1>0, <1>2 DEF SyncedAt, SyncKnown
<1>5. Dies(p.disk, safe, t)
  BY <1>1
<1> HIDE DEF safe
<1>6. \A f \in FileNos : tail[f] = 0
  BY <1>0 DEF Tidy
<1>7. /\ t \in [FileNos -> Nat]
      /\ \A f \in FileNos : t[f] = 0 \/ (f = p.cur /\ t[f] = s)
  <2>1. tail \in [FileNos -> Nat] /\ s \in Nat
    BY <1>0, BoundsAssumption DEF TypeOK, Sids
  <2>2. t = tail \/ \E f \in FileNos : t = [tail EXCEPT ![f] = s]
    OBVIOUS
  <2>3. t \in [FileNos -> Nat]
    BY <2>1, <2>2
  <2>4. \A f \in FileNos : t[f] = 0 \/ t[f] = s
    BY <1>6, <2>1, <2>2
  <2> QED
    BY <1>1, <1>6, <2>3, <2>4
<1>8. \A f \in managed : f <= p.cur
  <2>1. \A f \in managed : f \in Nat /\ f <= cur
    BY <1>0 DEF CurIsLast, TypeOK, FileNos
  <2> QED
    BY <1>2, <2>1
<1>9. data[p.cur] # <<>> => p.cur \in managed
  <2>1. CASE p.cur = cur
    BY <1>0, <1>2, <2>1 DEF CurIsLast, FileNos
  <2>2. CASE p.cur = cur + 1
    BY <1>0, <1>2, <2>2 DEF NothingAhead
  <2> QED
    BY <1>2, <2>1, <2>2
<1>10. Dropped(p) \in SUBSET Readable /\ Abs!Droppable(Dropped(p))
  BY <1>0, <1>2, DroppedOldest
<1>11. Filed(p.disk) = Filed(disk) \/ Filed(p.disk) = Filed(disk) \ Dropped(p)
  BY <1>0, <1>2, LayoutFiled
<1>12. t[p.cur] = 0 \/ (t[p.cur] \in Sids /\ t[p.cur] > maxSid)
  BY <1>1, <1>2, <1>7 DEF Offered
<1>13. \A f \in FileNos : f # p.cur => safe[f] = Len(data[f]) /\ t[f] = 0
  BY <1>4, <1>7
<1> QED
  BY <1>0, <1>2, <1>3, <1>5, <1>7, <1>8, <1>9, <1>10, <1>11, <1>12, <1>13, DiesStep

LEMMA ReopenStep ==
  ASSUME RefInv, RefInv', Recover
  PROVE  Abs!Reopen
<1>0. /\ TypeOK /\ TypeOK' /\ MaxSidIsNewest' /\ NothingElsewhere
      /\ status = "down" /\ status' = "up"
      /\ data' = [f \in FileNos |-> Content(f)]
      /\ disk' = NonEmpty /\ managed' = NonEmpty /\ cursor' = cursor
  BY DEF RefInv, CleanInv, ShapeInv, OrderInv, Recover
<1>1. NonEmpty \subseteq FileNos /\ NonEmpty \subseteq disk /\ disk \subseteq FileNos
  BY <1>0 DEF NonEmpty, TypeOK
<1>2. ASSUME NEW f \in FileNos, NEW s \in Sids
      PROVE  (\E i \in 1..Len(Content(f)) : Content(f)[i] = s)
                <=> (\E i \in 1..Len(data[f]) : data[f][i] = s) \/ tail[f] = s
  <2>1. data[f] \in Seq(Sids) /\ tail[f] \in 0..MaxSid /\ s # 0
    BY <1>0, BoundsAssumption DEF TypeOK, Sids
  <2>2. CASE tail[f] = 0
    BY <2>1, <2>2 DEF Content
  <2>3. CASE tail[f] # 0
    <3>1. tail[f] \in Sids /\ Content(f) = Append(data[f], tail[f])
      BY <2>1, <2>3, BoundsAssumption DEF Content, Sids
    <3>2. /\ Len(Content(f)) = Len(data[f]) + 1 /\ Len(data[f]) \in Nat
          /\ \A j \in 1..Len(data[f]) : Content(f)[j] = data[f][j]
          /\ Content(f)[Len(data[f]) + 1] = tail[f]
      BY <2>1, <3>1, AppendFacts
    <3>3. ASSUME NEW i \in 1..Len(Content(f)), Content(f)[i] = s
          PROVE  (\E j \in 1..Len(data[f]) : data[f][j] = s) \/ tail[f] = s
      <4>1. i \in 1..Len(data[f]) \/ i = Len(data[f]) + 1
        BY <3>2
      <4> QED
        BY <3>2, <3>3, <4>1
    <3>4. ASSUME NEW i \in 1..Len(data[f]), data[f][i] = s
          PROVE  \E j \in 1..Len(Content(f)) : Content(f)[j] = s
      <4>1. i \in 1..Len(Content(f))
        BY <3>2
      <4> QED
        BY <3>2, <3>4, <4>1
    <3>5. ASSUME tail[f] = s  PROVE \E j \in 1..Len(Content(f)) : Content(f)[j] = s
      <4>1. Len(data[f]) + 1 \in 1..Len(Content(f))
        BY <3>2
      <4> QED
        BY <3>2, <3>5, <4>1
    <3> QED
      BY <3>3, <3>4, <3>5
  <2> QED
    BY <2>2, <2>3
<1>3. Readable' = Readable
  <2>1. \A s : s \in Readable' <=> s \in Sids /\ \E f \in NonEmpty : \E i \in 1..Len(Content(f)) : Content(f)[i] = s
    BY <1>0, <1>1 DEF Readable, InService, Filed
  <2>2. \A s : s \in Readable <=> /\ s \in Sids
                                  /\ \E f \in disk : (\E i \in 1..Len(data[f]) : data[f][i] = s) \/ tail[f] = s
    BY <1>0 DEF Readable, InService, Found, Filed
  <2>3. ASSUME NEW f \in disk, f \notin NonEmpty, NEW i \in 1..Len(Content(f))  PROVE FALSE
    BY <2>3 DEF NonEmpty
  <2>4. ASSUME NEW s  PROVE s \in Readable' <=> s \in Readable
    <3>1. CASE s \notin Sids
      BY <2>1, <2>2, <3>1
    <3>2. CASE s \in Sids
      BY <1>1, <1>2, <2>1, <2>2, <2>3, <3>2
    <3> QED
      BY <3>1, <3>2
  <2> QED
    BY <2>4
<1>4. SetAside' = SetAside
  BY <1>0 DEF SetAside, InService, Filed
<1>5. Reached' = Reached /\ ~InService /\ InService'
  BY <1>0 DEF Reached, InService
<1>6. CASE NonEmpty = {}
  <2>1. maxSid' = 0
    BY <1>6 DEF Recover
  <2>2. Readable' = {}
    BY <1>0, <1>6 DEF Readable, InService, Filed
  <2> QED
    BY <1>3, <1>4, <1>5, <2>1, <2>2 DEF Abs!Reopen
<1>7. CASE NonEmpty # {}
  <2>1. PICK hi \in NonEmpty : maxSid' = Newest(Content(hi))
    BY <1>7 DEF Recover
  <2>2. Content(hi) \in Seq(Sids) /\ Content(hi) # <<>>
    BY <1>0, <1>1, ContentType DEF NonEmpty
  <2> PICK L \in Nat : L = Len(Content(hi))
    BY <2>2
  <2>3. L \in 1..Len(Content(hi)) /\ Content(hi)[L] = maxSid' /\ Content(hi)[L] \in Sids
    BY <2>1, <2>2 DEF Newest
  <2>4. \A s : s \in Readable' <=> s \in Sids /\ \E f \in NonEmpty : \E i \in 1..Len(Content(f)) : Content(f)[i] = s
    BY <1>0, <1>1 DEF Readable, InService, Filed
  <2>5. maxSid' \in Readable'
    BY <2>3, <2>4
  <2>6. \A s \in Readable' : s <= maxSid'
    <3>1. \A f \in NonEmpty : \A i \in 1..Len(Content(f)) : Content(f)[i] <= maxSid'
      BY <1>0, <1>1 DEF MaxSidIsNewest
    <3> QED
      BY <2>4, <3>1
  <2> QED
    BY <1>3, <1>4, <1>5, <2>5, <2>6 DEF Abs!Reopen
<1> QED
  BY <1>6, <1>7

-----------------------------------------------------------------------------
LEMMA AbsInit == Init => Abs!Init
<1> SUFFICES ASSUME Init PROVE Abs!Init
  OBVIOUS
<1>1. ~InService /\ Readable = {} /\ SetAside = {} /\ maxSid = 0
  BY DEF Init, InService, Readable, SetAside, Found, Filed
<1>2. Reached = [r \in Cursors |-> -1]
  BY DEF Init, NoCursor, Reached
<1> QED
  BY <1>1, <1>2 DEF Abs!Init, Abs!Closed

LEMMA AbsStep == ~DiskMayFail /\ RefInv /\ RefInv' /\ [Next]_vars => [Abs!Next]_(Abs!vars)
<1> SUFFICES ASSUME ~DiskMayFail, RefInv, RefInv', [Next]_vars
             PROVE  Abs!Next \/ UNCHANGED Abs!vars
  OBVIOUS
<1>0. TypeOK /\ status # "refused"
  BY DEF RefInv, CleanInv, ShapeInv, OrderInv, Tidy
<1>1. CASE \E s \in Sids : AppendCall(s)
  <2>1. PICK s \in Sids : AppendRecord(s) \/ AppendOversize(s)
    BY <1>1 DEF AppendCall, AppendFails, CreateFileFails
  <2> QED
    BY <2>1, PublishStep, TrimStep DEF Abs!Next, Abs!Sids, Sids
<1>2. CASE \E c \in Cursors, s \in 0..MaxSid : CreateCursor(c, s)
  BY <1>2, CreateStep DEF Abs!Next
<1>3. CASE \E c \in Cursors : CursorCall(c)
  <2>1. PICK c \in Cursors : CursorCall(c)
    BY <1>3
  <2>2. CASE DestroyCursor(c)
    BY <2>2, LeaveStep DEF DestroyCursor, NoCursor, Abs!Next
  <2>3. CASE NextFileEmpty(c)
    <3> DEFINE k == [cursor[c] EXCEPT !.st = "error"]
    <3>1. k.st = "error"
      BY <1>0 DEF TypeOK, CursorType, CursorRecord
    <3>2. status = "up" /\ CursorStep /\ Move(c, k)
      BY <2>3 DEF NextFileEmpty, NextCalled, Break
    <3> HIDE DEF k
    <3> QED
      BY <3>1, <3>2, LeaveStep DEF Abs!Next
  <2>4. CASE Seek(c) \/ NextInFile(c) \/ NextFile(c)
    BY <2>4, ReadStep DEF Abs!Next
  <2>5. ~SeekFails(c) /\ ~ReadFails(c)
    BY DEF SeekFails, ReadFails
  <2>6. ~NextOutOfRange(c)
    BY NotOutOfRange DEF NextOutOfRange, RefInv
  <2> QED
    BY <2>1, <2>2, <2>3, <2>4, <2>5, <2>6 DEF CursorCall, NextCall
<1>4. CASE Commit \/ CommitFails
  BY <1>4, CommitStep DEF CommitFails
<1>5. CASE Crash \/ \E s \in Sids : CrashInAppend(s)
  BY <1>5, CrashStep, CrashInAppendStep DEF Abs!Next
<1>6. CASE Recover
  BY <1>6, ReopenStep DEF Abs!Next
<1>7. CASE RefuseToStart
  BY <1>0, <1>7 DEF RefuseToStart, RefInv, CleanInv, Tidy
<1>8. CASE UNCHANGED vars
  BY <1>8 DEF vars, fileVars, mgrVars, Abs!vars, InService, Readable, SetAside, Reached, Filed, Found
<1> QED
  BY <1>1, <1>2, <1>3, <1>4, <1>5, <1>6, <1>7, <1>8 DEF Next

\* Files, rollovers, pruning, the cached bounds and the reconstruction at the
\* restart are invisible: whatever the constants are, and wherever the process
\* dies, the manager is the message log that its users are promised.
THEOREM BinLogIsMessageLog ==
  ASSUME ~DiskMayFail
  PROVE  Spec => ImplementsMessageLog
<1>1. RefInv /\ [Next]_vars => RefInv'
  BY RefStep
<1>2. RefInv /\ RefInv' /\ [Next]_vars => [Abs!Next]_(Abs!vars)
  BY AbsStep
<1> QED
  BY <1>1, <1>2, RefInit, AbsInit, PTL DEF Spec, ImplementsMessageLog, Abs!Spec
=============================================================================
