--------------------------- MODULE BinLogFileProofs ---------------------------
(***************************************************************************)
(* Theorems about BinLogFile that hold for every value of its constants:     *)
(* the index, its write cache and the cursor's page agree with the data file, *)
(* through failing writes, rebuilt indexes and crashes of process and         *)
(* machine.                                                                 *)
(***************************************************************************)
EXTENDS BinLogFile, SequenceTheorems, FiniteSetTheorems, WellFoundedInduction, TLAPS

Cell == [sid : Nat, no : Nat, off : Int, len : Nat, prev : Nat]
IndexEntry == [sid : Nat, off : Nat, len : Nat]

TypeOK ==
  /\ file \in Seq(Cell)
  /\ index \in Seq(IndexEntry) /\ cache \in Seq(IndexEntry)
  /\ torn \in BOOLEAN /\ dirty \in BOOLEAN
  /\ synced \in [file : Nat, index : Nat]
  /\ st \in {"none", "closed", "open", "readonly", "invalid"}
  /\ size \in Nat /\ num \in Nat /\ minSid \in Nat /\ maxSid \in Nat /\ prevOff \in Nat
  /\ cachePrev \in Nat /\ cacheMin \in Nat
  /\ kept \subseteq IndexEntry

\* The headers of a file follow one another, none is within another record, and
\* each leads back to the one before it.
HeaderOK(f, o) ==
  /\ 0 < f[o + 1].sid /\ 0 < f[o + 1].len /\ End(f[o + 1]) < FullSize
  /\ o > 0 => /\ IsHeader(f, f[o + 1].prev) /\ f[o + 1].prev < o
              /\ End(f[f[o + 1].prev + 1]) = o
  /\ \A q \in Nat : IsHeader(f, q) /\ o < q =>
       End(f[o + 1]) <= q /\ f[o + 1].sid < f[q + 1].sid

HeadersOK(f) == \A o \in Nat : IsHeader(f, o) => HeaderOK(f, o)

\* The record of entry e is in the file.
Stands(f, e) == IsHeader(f, e.off) /\ Entry(f[e.off + 1]) = e

\* The records of the entries lie one behind the other, from the beginning on.
Chain(es) ==
  /\ \A i \in 1..Len(es) :
       /\ es[i].off = (IF i = 1 THEN 0 ELSE End(es[i - 1]))
       /\ 0 < es[i].sid /\ 0 < es[i].len /\ 2 * (i - 1) <= es[i].off
  /\ \A i, j \in 1..Len(es) : i < j => End(es[i]) <= es[j].off

EndOf(es) == IF es = <<>> THEN 0 ELSE End(es[Len(es)])

\* The index file may be ahead of the data file after the machine has died.
IndexOK ==
  /\ Chain(index)
  /\ \A i \in 1..Len(index) : index[i].off < Len(file) => Stands(file, index[i])

KeptOK ==
  \A e \in kept :
    /\ Stands(file, e) /\ End(e) <= Len(file)
    /\ \A k \in e.off+2..End(e) : file[k] = Data(e.sid)

\* In a file that is in use the entries are those of the records up to its size,
\* and nothing but the header of a failed write is behind them.
BoundsOK(f, es, n) ==
  /\ Chain(es) /\ \A i \in 1..Len(es) : Stands(f, es[i])
  /\ n = EndOf(es) /\ n <= Len(f)
  /\ \A o \in Nat : IsHeader(f, o) => o <= n

OpenOK ==
  Readable =>
    LET es == index \o cache
    IN  /\ ~torn /\ BoundsOK(file, es, size)
        /\ num = Len(es)
        /\ minSid = (IF es = <<>> THEN 0 ELSE es[1].sid)
        /\ maxSid = (IF es = <<>> THEN 0 ELSE es[Len(es)].sid)
        /\ prevOff = (IF es = <<>> THEN 0 ELSE es[Len(es)].off)
        /\ \A e \in kept : End(e) <= size
        /\ ~dirty => Len(file) = size

CacheOK ==
  /\ st = "open" => cachePrev = (IF index = <<>> THEN 0 ELSE index[Len(index)].sid)
  /\ Readable => cacheMin = (IF cache = <<>> THEN 0 ELSE cache[1].sid)
  /\ st = "readonly" => cache = <<>>

\* What a cursor has read is what is in the file.
CursorOK(f, c) ==
  /\ c \in [st : {"none", "unseek", "ready"}, head : Cell, block : Nat, page : Seq(Cell)]
  /\ c.st = "ready" => IsHeader(f, c.head.off) /\ c.head = f[c.head.off + 1] /\ c.head.off \in Nat
  /\ Len(c.page) <= Block /\ (c.page # <<>> => c.block * Block + Len(c.page) <= Len(f))
  /\ \A i \in 1..Len(c.page) : c.page[i] = f[c.block * Block + i]

CursorInv ==
  /\ st \in {"none", "closed"} => cursor = NoCursor
  /\ Readable /\ ~dirty => CursorOK(file, cursor)

NewFile == st = "none" => file = <<>> /\ index = <<>> /\ kept = {}

Inv ==
  /\ TypeOK /\ HeadersOK(file) /\ IndexOK /\ KeptOK /\ OpenOK /\ CacheOK /\ CursorInv /\ NewFile

(***************************************************************************)
(* Numbers: a smallest one, induction, and iteration of a function.         *)
(***************************************************************************)
LEMMA SmallestExists ==
  ASSUME NEW S, S \subseteq Nat, S # {}
  PROVE  \E x \in S : \A y \in S : x <= y
<1> DEFINE R == {ss \in Nat \X Nat : ss[1] < ss[2]}
<1>1. IsWellFoundedOn(R, Nat)
  BY NatLessThanWellFounded DEF OpToRel
<1> HIDE DEF R
<1>2. S \in SUBSET Nat
  OBVIOUS
<1>3. PICK x \in S : \A y \in S : <<y, x>> \notin R
  BY <1>1, <1>2, WFMin
<1>4. ASSUME NEW y \in S  PROVE x <= y
  <2>1. x \in Nat /\ y \in Nat /\ <<y, x>> \notin R
    BY <1>3
  <2>2. ~(y < x)
    BY <2>1 DEF R
  <2> QED
    BY <2>1, <2>2
<1> QED
  BY <1>4

\* A set that holds 0 and the successors of its numbers holds all of them.
LEMMA Inductive ==
  ASSUME NEW T, 0 \in T, \A n \in Nat : n \in T => n + 1 \in T
  PROVE  \A n \in Nat : n \in T
<1> DEFINE B == {n \in Nat : n \notin T}
<1> SUFFICES ASSUME B # {}  PROVE FALSE
  OBVIOUS
<1>1. PICK x \in B : \A y \in B : x <= y
  <2>1. B \subseteq Nat
    OBVIOUS
  <2> HIDE DEF B
  <2> QED
    BY <2>1, SmallestExists
<1>2. x \in Nat /\ x # 0 /\ x - 1 \in Nat
  OBVIOUS
<1>3. x - 1 \in T
  BY <1>1, <1>2
<1> QED
  BY <1>2, <1>3

\* The first n iterates of g from a on.
IsStart(g, a, n, f) ==
  f = [k \in 0..n |-> IF k = 0 THEN a ELSE g[f[k - 1]]]

LEMMA StartsAgree ==
  ASSUME NEW g, NEW a, NEW n \in Nat, NEW m \in Nat, NEW f, NEW h,
         IsStart(g, a, n, f), IsStart(g, a, m, h)
  PROVE  \A k \in Nat : k <= n /\ k <= m => f[k] = h[k]
<1> DEFINE T == {k \in Nat : k <= n /\ k <= m => f[k] = h[k]}
<1>1. 0 \in T
  BY DEF IsStart
<1>2. ASSUME NEW k \in Nat, k \in T  PROVE k + 1 \in T
  <2> SUFFICES ASSUME k + 1 <= n, k + 1 <= m  PROVE f[k + 1] = h[k + 1]
    OBVIOUS
  <2>1. k + 1 \in 0..n /\ k + 1 \in 0..m /\ k + 1 # 0 /\ (k + 1) - 1 = k
    OBVIOUS
  <2>2. f[k + 1] = g[f[k]] /\ h[k + 1] = g[h[k]]
    BY <2>1 DEF IsStart
  <2> QED
    BY <1>2, <2>2
<1> HIDE DEF T
<1>3. \A k \in Nat : k \in T
  BY <1>1, <1>2, Inductive
<1> QED
  BY <1>3 DEF T

LEMMA StartExists ==
  ASSUME NEW g, NEW a
  PROVE  \A n \in Nat : \E f : IsStart(g, a, n, f)
<1> DEFINE T == {n \in Nat : \E f : IsStart(g, a, n, f)}
<1>1. 0 \in T
  <2> DEFINE f == [k \in 0..0 |-> a]
  <2>1. f = [k \in 0..0 |-> IF k = 0 THEN a ELSE g[f[k - 1]]]
    OBVIOUS
  <2> QED
    BY <2>1 DEF IsStart
<1>2. ASSUME NEW n \in Nat, n \in T  PROVE n + 1 \in T
  <2>1. PICK f : IsStart(g, a, n, f)
    BY <1>2
  <2> DEFINE h == [k \in 0..n + 1 |-> IF k = 0 THEN a ELSE g[f[k - 1]]]
  <2>2. ASSUME NEW k \in 0..n + 1, k # 0  PROVE f[k - 1] = h[k - 1]
    <3>1. k - 1 \in 0..n /\ k - 1 \in 0..n + 1
      BY <2>2
    <3>2. f[k - 1] = IF k - 1 = 0 THEN a ELSE g[f[(k - 1) - 1]]
      BY <2>1, <3>1 DEF IsStart
    <3> QED
      BY <3>1, <3>2
  <2>3. h = [k \in 0..n + 1 |-> IF k = 0 THEN a ELSE g[h[k - 1]]]
    BY <2>2
  <2>4. IsStart(g, a, n + 1, h)
    BY <2>3 DEF IsStart
  <2> QED
    BY <2>4
<1> HIDE DEF T
<1>3. \A n \in Nat : n \in T
  BY <1>1, <1>2, Inductive
<1> QED
  BY <1>3 DEF T

IsIteration(g, a, f) ==
  f = [n \in Nat |-> IF n = 0 THEN a ELSE g[f[n - 1]]]

\* A function on the numbers that is defined by what it is of the number before
\* exists.
LEMMA IteratesExist ==
  ASSUME NEW S, NEW a \in S, NEW g \in [S -> S]
  PROVE  \E f \in [Nat -> S] : IsIteration(g, a, f)
<1> DEFINE F(n) == CHOOSE f : IsStart(g, a, n, f)
           h == [n \in Nat |-> F(n)[n]]
<1>1. \A n \in Nat : IsStart(g, a, n, F(n))
  BY StartExists
<1>2. ASSUME NEW n \in Nat, n # 0  PROVE h[n] = g[h[n - 1]]
  <2>1. n - 1 \in Nat /\ n \in 0..n /\ n - 1 <= n
    BY <1>2
  <2>2. IsStart(g, a, n, F(n)) /\ IsStart(g, a, n - 1, F(n - 1))
    BY <1>1, <2>1
  <2> HIDE DEF F
  <2>3. F(n)[n] = g[F(n)[n - 1]]
    BY <1>2, <2>1, <2>2 DEF IsStart
  <2>4. F(n)[n - 1] = F(n - 1)[n - 1]
    BY <2>1, <2>2, StartsAgree
  <2> QED
    BY <2>1, <2>3, <2>4
<1>3. h[0] = a
  <2>1. IsStart(g, a, 0, F(0))
    BY <1>1
  <2> HIDE DEF F
  <2>2. F(0)[0] = a
    BY <2>1 DEF IsStart
  <2> QED
    BY <2>2
<1>4. h = [n \in Nat |-> IF n = 0 THEN a ELSE g[h[n - 1]]]
  <2>1. h = [n \in Nat |-> h[n]]
    OBVIOUS
  <2> HIDE DEF h
  <2>2. \A n \in Nat : h[n] = IF n = 0 THEN a ELSE g[h[n - 1]]
    BY <1>2, <1>3
  <2> QED
    BY <2>1, <2>2
<1>5. \A n \in Nat : h[n] \in S
  <2> DEFINE T == {n \in Nat : h[n] \in S}
  <2> HIDE DEF h
  <2>1. 0 \in T
    BY <1>3
  <2>2. ASSUME NEW n \in Nat, n \in T  PROVE n + 1 \in T
    <3>1. n + 1 \in Nat /\ n + 1 # 0 /\ (n + 1) - 1 = n
      OBVIOUS
    <3>2. h[n + 1] = g[h[n]]
      BY <1>4, <3>1
    <3> QED
      BY <2>2, <3>1, <3>2
  <2> HIDE DEF T
  <2>3. \A n \in Nat : n \in T
    BY <2>1, <2>2, Inductive
  <2> QED
    BY <2>3 DEF T
<1>6. h \in [Nat -> S]
  BY <1>5
<1>7. IsIteration(g, a, h)
  BY <1>4 DEF IsIteration
<1> HIDE DEF h
<1> QED
  BY <1>6, <1>7

(***************************************************************************)
(* The scan of a file.                                                     *)
(***************************************************************************)
LEMMA HeaderFacts ==
  ASSUME NEW f \in Seq(Cell), NEW o \in Nat, IsHeader(f, o)
  PROVE  /\ o + 1 \in 1..Len(f) /\ f[o + 1] \in Cell /\ f[o + 1].off = o
         /\ End(f[o + 1]) = o + 1 + f[o + 1].len /\ End(f[o + 1]) \in Nat /\ o < End(f[o + 1])
         /\ f[o + 1].len \in Nat
<1>1. o + 1 \in 1..Len(f) /\ f[o + 1].off = o
  BY DEF IsHeader
<1>2. f[o + 1] \in Cell
  BY <1>1
<1>3. f[o + 1].len \in Nat
  BY <1>2 DEF Cell
<1> QED
  BY <1>1, <1>2, <1>3 DEF End

LEMMA AdvanceIs ==
  ASSUME NEW f \in Seq(Cell), NEW o \in Nat
  PROVE  Advance(f, o) \in Nat
  BY HeaderFacts DEF Advance

\* The recursive definition of Places has a solution.
LEMMA PlacesIs ==
  ASSUME NEW f \in Seq(Cell)
  PROVE  /\ Places(f) \in [Nat -> Nat] /\ Places(f)[0] = 0
         /\ \A n \in Nat : Places(f)[n + 1] = Advance(f, Places(f)[n])
<1> DEFINE g == [o \in Nat |-> Advance(f, o)]
           IsPlaces(p) == p = [n \in Nat |-> IF n = 0 THEN 0 ELSE Advance(f, p[n - 1])]
<1>1. g \in [Nat -> Nat]
  BY AdvanceIs
<1>2. PICK h \in [Nat -> Nat] : IsIteration(g, 0, h)
  <2> HIDE DEF g
  <2> QED
    BY <1>1, IteratesExist
<1>3. IsPlaces(h)
  <2>1. ASSUME NEW n \in Nat, n # 0  PROVE g[h[n - 1]] = Advance(f, h[n - 1])
    <3>1. n - 1 \in Nat /\ h[n - 1] \in Nat
      BY <2>1
    <3> QED
      BY <3>1
  <2>2. [n \in Nat |-> IF n = 0 THEN 0 ELSE g[h[n - 1]]]
        = [n \in Nat |-> IF n = 0 THEN 0 ELSE Advance(f, h[n - 1])]
    BY <2>1
  <2>3. h = [n \in Nat |-> IF n = 0 THEN 0 ELSE g[h[n - 1]]]
    BY <1>2 DEF IsIteration
  <2> QED
    BY <2>2, <2>3
<1>4. Places(f) = CHOOSE p : IsPlaces(p)
  BY DEF Places
<1>5. IsPlaces(Places(f))
  <2> HIDE DEF IsPlaces
  <2> QED
    BY <1>3, <1>4
<1> DEFINE p == Places(f)
<1>6. p = [n \in Nat |-> IF n = 0 THEN 0 ELSE Advance(f, p[n - 1])]
  BY <1>5
<1> HIDE DEF p
<1>7. p[0] = 0
  BY <1>6
<1>8. ASSUME NEW n \in Nat  PROVE p[n + 1] = Advance(f, p[n])
  <2>1. n + 1 \in Nat /\ n + 1 # 0 /\ (n + 1) - 1 = n
    OBVIOUS
  <2> QED
    BY <1>6, <2>1
<1>9. \A n \in Nat : p[n] \in Nat
  <2> DEFINE T == {n \in Nat : p[n] \in Nat}
  <2>1. 0 \in T
    BY <1>7
  <2>2. ASSUME NEW n \in Nat, n \in T  PROVE n + 1 \in T
    <3>1. p[n] \in Nat /\ p[n + 1] = Advance(f, p[n])
      BY <1>8, <2>2
    <3>2. p[n + 1] \in Nat
      BY <3>1, AdvanceIs
    <3> QED
      BY <3>2
  <2> HIDE DEF T
  <2>3. \A n \in Nat : n \in T
    BY <2>1, <2>2, Inductive
  <2> QED
    BY <2>3 DEF T
<1>10. p \in [Nat -> Nat]
  <2>1. p = [n \in Nat |-> p[n]]
    BY <1>6
  <2> QED
    BY <1>9, <2>1
<1> QED
  BY <1>7, <1>8, <1>10 DEF p

\* The n-th place is at 2 * n at least, as long as there are headers.
LEMMA PlacesGrow ==
  ASSUME NEW f \in Seq(Cell), HeadersOK(f)
  PROVE  \A n \in Nat : (\A k \in Nat : k < n => IsHeader(f, Places(f)[k])) => 2 * n <= Places(f)[n]
<1> DEFINE p == Places(f)
           T == {n \in Nat : (\A k \in Nat : k < n => IsHeader(f, p[k])) => 2 * n <= p[n]}
<1>1. p \in [Nat -> Nat] /\ p[0] = 0 /\ \A n \in Nat : p[n + 1] = Advance(f, p[n])
  BY PlacesIs
<1> HIDE DEF p
<1>2. 0 \in T
  BY <1>1
<1>3. ASSUME NEW n \in Nat, n \in T  PROVE n + 1 \in T
  <2> SUFFICES ASSUME \A k \in Nat : k < n + 1 => IsHeader(f, p[k])
               PROVE  2 * (n + 1) <= p[n + 1]
    OBVIOUS
  <2>1. 2 * n <= p[n] /\ IsHeader(f, p[n]) /\ p[n] \in Nat
    <3>1. \A k \in Nat : k < n => IsHeader(f, p[k])
      OBVIOUS
    <3>2. 2 * n <= p[n]
      BY <1>3, <3>1
    <3>3. n < n + 1
      OBVIOUS
    <3> QED
      BY <1>1, <3>2, <3>3
  <2>2. p[n + 1] = End(f[p[n] + 1])
    BY <1>1, <2>1 DEF Advance
  <2>3. 0 < f[p[n] + 1].len /\ f[p[n] + 1].len \in Nat
    BY <2>1, HeaderFacts DEF HeadersOK, HeaderOK, Cell
  <2> QED
    BY <2>1, <2>2, <2>3, HeaderFacts
<1> HIDE DEF T
<1>4. \A n \in Nat : n \in T
  BY <1>2, <1>3, Inductive
<1> QED
  BY <1>4 DEF T, p

\* The scan comes to an end.
IsStop(f, n) ==
  /\ n \in 0..Len(f) /\ ~IsHeader(f, Places(f)[n])
  /\ \A k \in 0..n-1 : IsHeader(f, Places(f)[k])

LEMMA StopIs ==
  ASSUME NEW f \in Seq(Cell), HeadersOK(f)
  PROVE  IsStop(f, Stop(f)) /\ \A n \in Nat : IsStop(f, n) => n = Stop(f)
<1> DEFINE p == Places(f)
           B == {n \in Nat : ~IsHeader(f, p[n])}
<1>1. p \in [Nat -> Nat]
  BY PlacesIs
<1>2. B # {}
  <2> SUFFICES ASSUME \A n \in Nat : IsHeader(f, p[n])  PROVE FALSE
    OBVIOUS
  <2>1. Len(f) \in Nat /\ 2 * Len(f) <= p[Len(f)]
    BY PlacesGrow
  <2>2. p[Len(f)] < Len(f) /\ p[Len(f)] \in Nat
    BY <1>1, <2>1 DEF IsHeader
  <2> QED
    BY <2>1, <2>2
<1>3. PICK n \in B : \A y \in B : n <= y
  <2>1. B \subseteq Nat
    OBVIOUS
  <2> HIDE DEF B
  <2> QED
    BY <1>2, <2>1, SmallestExists
<1>4. n \in Nat /\ ~IsHeader(f, p[n]) /\ \A k \in Nat : k < n => IsHeader(f, p[k])
  <2>1. \A k \in Nat : k < n => k \notin B
    BY <1>3
  <2> QED
    BY <1>3, <2>1
<1>5. n <= Len(f)
  <2> SUFFICES ASSUME ~(n <= Len(f))  PROVE FALSE
    OBVIOUS
  <2>1. Len(f) \in Nat /\ Len(f) < n
    BY <1>4
  <2>2. IsHeader(f, p[Len(f)]) /\ \A k \in Nat : k < Len(f) => IsHeader(f, p[k])
    BY <1>4, <2>1
  <2>3. 2 * Len(f) <= p[Len(f)] /\ p[Len(f)] < Len(f) /\ p[Len(f)] \in Nat
    BY <1>1, <2>1, <2>2, PlacesGrow DEF IsHeader
  <2> QED
    BY <2>1, <2>3
<1>6. IsStop(f, n)
  BY <1>4, <1>5 DEF IsStop
<1>7. Stop(f) = CHOOSE x \in 0..Len(f) : IsStop(f, x)
  BY DEF Stop, IsStop
<1>8. n \in 0..Len(f)
  BY <1>4, <1>5
<1>9. IsStop(f, Stop(f))
  BY <1>6, <1>7, <1>8
<1>10. ASSUME NEW x \in Nat, NEW y \in Nat, IsStop(f, x), IsStop(f, y)  PROVE ~(x < y)
  BY <1>10 DEF IsStop
<1>11. Stop(f) \in Nat
  BY <1>9 DEF IsStop
<1>12. ASSUME NEW x \in Nat, IsStop(f, x)  PROVE x = Stop(f)
  <2>1. ~(x < Stop(f)) /\ ~(Stop(f) < x)
    BY <1>9, <1>10, <1>11, <1>12
  <2> QED
    BY <1>11, <2>1
<1> QED
  BY <1>9, <1>12

(***************************************************************************)
(* Entries and the records of a file.                                      *)
(***************************************************************************)
LEMMA StandsFacts ==
  ASSUME NEW f \in Seq(Cell), NEW e \in IndexEntry, Stands(f, e)
  PROVE  /\ IsHeader(f, e.off) /\ e.off \in Nat /\ e.off + 1 \in 1..Len(f) /\ e.off < Len(f)
         /\ f[e.off + 1] \in Cell /\ f[e.off + 1].off = e.off
         /\ f[e.off + 1].sid = e.sid /\ f[e.off + 1].len = e.len
         /\ End(f[e.off + 1]) = End(e) /\ End(e) = e.off + 1 + e.len /\ End(e) \in Nat
         /\ e.len \in Nat /\ e.sid \in Nat
<1>1. e.off \in Nat /\ e.len \in Nat /\ e.sid \in Nat
  BY DEF IndexEntry
<1>2. IsHeader(f, e.off) /\ Entry(f[e.off + 1]) = e
  BY DEF Stands
<1>3. f[e.off + 1].sid = e.sid /\ f[e.off + 1].len = e.len /\ f[e.off + 1].off = e.off
  BY <1>2 DEF Entry
<1>4. e.off + 1 \in 1..Len(f) /\ f[e.off + 1] \in Cell /\ e.off < Len(f)
  BY <1>1, <1>2, HeaderFacts DEF IsHeader
<1> QED
  BY <1>1, <1>2, <1>3, <1>4 DEF End

\* The header of a place and its entry.
LEMMA HeaderStands ==
  ASSUME NEW f \in Seq(Cell), NEW o \in Nat, IsHeader(f, o)
  PROVE  /\ Entry(f[o + 1]) \in IndexEntry /\ Stands(f, Entry(f[o + 1]))
         /\ Entry(f[o + 1]).off = o /\ Entry(f[o + 1]).sid = f[o + 1].sid
         /\ Entry(f[o + 1]).len = f[o + 1].len /\ End(Entry(f[o + 1])) = End(f[o + 1])
<1>1. f[o + 1] \in Cell /\ f[o + 1].off = o
  BY HeaderFacts
<1> QED
  BY <1>1 DEF Entry, IndexEntry, Stands, Cell, End

\* Places ascend up to where the scan stops.
LEMMA PlacesAscend ==
  ASSUME NEW f \in Seq(Cell), HeadersOK(f)
  PROVE  \A n \in Nat : n <= Stop(f) => \A k \in Nat : k < n => Places(f)[k] < Places(f)[n]
<1> DEFINE p == Places(f)
           T == {n \in Nat : n <= Stop(f) => \A k \in Nat : k < n => p[k] < p[n]}
<1>1. p \in [Nat -> Nat] /\ \A n \in Nat : p[n + 1] = Advance(f, p[n])
  BY PlacesIs
<1>2. Stop(f) \in Nat /\ \A k \in 0..Stop(f)-1 : IsHeader(f, p[k])
  BY StopIs DEF IsStop
<1> HIDE DEF p
<1>3. 0 \in T
  OBVIOUS
<1>4. ASSUME NEW n \in Nat, n \in T  PROVE n + 1 \in T
  <2> SUFFICES ASSUME n + 1 <= Stop(f), NEW k \in Nat, k < n + 1  PROVE p[k] < p[n + 1]
    OBVIOUS
  <2>1. n \in 0..Stop(f)-1 /\ p[n] \in Nat /\ p[n + 1] \in Nat /\ p[k] \in Nat
    <3>1. n + 1 \in Nat
      OBVIOUS
    <3>2. p[n] \in Nat /\ p[n + 1] \in Nat /\ p[k] \in Nat
      BY <1>1, <3>1
    <3> QED
      BY <1>2, <3>2
  <2>2. p[n + 1] = End(f[p[n] + 1]) /\ IsHeader(f, p[n])
    BY <1>1, <1>2, <2>1 DEF Advance
  <2>3. p[n] < p[n + 1]
    BY <2>1, <2>2, HeaderFacts
  <2>4. k = n \/ p[k] < p[n]
    <3>1. n <= Stop(f)
      BY <1>2
    <3> QED
      BY <1>4, <3>1
  <2> QED
    BY <2>1, <2>3, <2>4
<1> HIDE DEF T
<1>5. \A n \in Nat : n \in T
  BY <1>3, <1>4, Inductive
<1> QED
  BY <1>5 DEF T, p

\* createIndex(): the entries that a scan finds are those of the records, and
\* nothing follows them.
LEMMA ScanOf ==
  ASSUME NEW f \in Seq(Cell), HeadersOK(f), NEW es, es = Entries(Scan(f))
  PROVE  /\ es \in Seq(IndexEntry) /\ Len(es) = Stop(f)
         /\ Chain(es) /\ \A i \in 1..Len(es) : Stands(f, es[i])
         /\ EndOf(es) = Places(f)[Stop(f)] /\ ~IsHeader(f, EndOf(es))
<1> DEFINE p == Places(f)
           n == Stop(f)
<1>1. p \in [Nat -> Nat] /\ p[0] = 0 /\ \A k \in Nat : p[k + 1] = Advance(f, p[k])
  BY PlacesIs
<1>2. n \in Nat /\ ~IsHeader(f, p[n]) /\ \A k \in 0..n-1 : IsHeader(f, p[k])
  BY StopIs DEF IsStop
<1>3. Scan(f) = [i \in 1..n |-> f[p[i - 1] + 1]]
  BY DEF Scan
<1>4. \A k \in Nat : k < n => 2 * k <= p[k]
  <2>1. ASSUME NEW k \in Nat, k < n  PROVE \A j \in Nat : j < k => IsHeader(f, p[j])
    BY <1>2, <2>1
  <2> QED
    BY <2>1, PlacesGrow
<1>5. \A j \in Nat : j < n => \A k \in Nat : k < j => p[k] < p[j]
  BY <1>2, PlacesAscend
<1> HIDE DEF p, n
<1>6. es = [i \in 1..n |-> Entry(f[p[i - 1] + 1])] /\ Len(es) = n
  BY <1>2, <1>3 DEF Entries
<1>7. ASSUME NEW i \in 1..n
      PROVE  /\ i - 1 \in Nat /\ IsHeader(f, p[i - 1]) /\ p[i - 1] \in Nat
             /\ es[i] = Entry(f[p[i - 1] + 1]) /\ es[i] \in IndexEntry /\ Stands(f, es[i])
             /\ es[i].off = p[i - 1] /\ End(es[i]) = End(f[p[i - 1] + 1])
             /\ p[i] = End(es[i]) /\ 0 < es[i].sid /\ 0 < es[i].len
  <2>1. i - 1 \in Nat /\ i - 1 \in 0..n-1 /\ (i - 1) + 1 = i
    BY <1>2
  <2>2. IsHeader(f, p[i - 1]) /\ p[i - 1] \in Nat
    BY <1>1, <1>2, <2>1
  <2>3. es[i] = Entry(f[p[i - 1] + 1])
    BY <1>6
  <2>4. p[i] = End(f[p[i - 1] + 1])
    BY <1>1, <2>1, <2>2 DEF Advance
  <2>5. HeaderOK(f, p[i - 1])
    BY <2>2 DEF HeadersOK
  <2> QED
    BY <2>1, <2>2, <2>3, <2>4, <2>5, HeaderStands DEF HeaderOK
<1>8. es \in Seq(IndexEntry)
  <2>1. \A i \in 1..n : es[i] \in IndexEntry
    BY <1>7
  <2> QED
    BY <1>2, <1>6, <2>1
<1>9. ASSUME NEW i \in 1..n
      PROVE  es[i].off = (IF i = 1 THEN 0 ELSE End(es[i - 1])) /\ 2 * (i - 1) <= es[i].off
  <2>1. es[i].off = p[i - 1] /\ i - 1 \in Nat /\ i - 1 < n
    BY <1>2, <1>7
  <2>2. CASE i = 1
    BY <1>1, <1>4, <2>1, <2>2
  <2>3. CASE i # 1
    <3>1. i - 1 \in 1..n
      BY <1>2, <2>3
    <3>2. p[i - 1] = End(es[i - 1])
      BY <1>7, <3>1
    <3> QED
      BY <1>4, <2>1, <2>3, <3>2
  <2> QED
    BY <2>2, <2>3
<1>10. ASSUME NEW i \in 1..n, NEW j \in 1..n, i < j  PROVE End(es[i]) <= es[j].off
  <2>1. /\ i - 1 \in Nat /\ j - 1 \in Nat /\ i - 1 < j - 1 /\ j - 1 < n
        /\ IsHeader(f, p[i - 1]) /\ IsHeader(f, p[j - 1])
        /\ p[i - 1] \in Nat /\ p[j - 1] \in Nat
        /\ es[j].off = p[j - 1] /\ End(es[i]) = End(f[p[i - 1] + 1])
    BY <1>2, <1>7, <1>10
  <2>2. p[i - 1] < p[j - 1]
    BY <1>5, <2>1
  <2>3. HeaderOK(f, p[i - 1])
    BY <2>1 DEF HeadersOK
  <2> QED
    BY <2>1, <2>2, <2>3 DEF HeaderOK
<1>11. Chain(es)
  BY <1>6, <1>7, <1>9, <1>10 DEF Chain
<1>12. EndOf(es) = p[n]
  <2>1. CASE n = 0
    BY <1>1, <1>6, <1>8, <2>1 DEF EndOf
  <2>2. CASE n # 0
    <3>1. n \in 1..n /\ es # <<>>
      BY <1>2, <1>6, <1>8, <2>2
    <3>2. p[n] = End(es[n])
      BY <1>7, <3>1
    <3> QED
      BY <1>6, <3>1, <3>2 DEF EndOf
  <2> QED
    BY <2>1, <2>2
<1> QED
  BY <1>2, <1>6, <1>7, <1>8, <1>11, <1>12 DEF p, n

\* Entries of records one behind the other, after which there is nothing, are what
\* a scan finds.
LEMMA ScanIs ==
  ASSUME NEW f \in Seq(Cell), HeadersOK(f), NEW es \in Seq(IndexEntry), Chain(es),
         \A i \in 1..Len(es) : Stands(f, es[i]), ~IsHeader(f, EndOf(es))
  PROVE  /\ Len(Scan(f)) = Len(es) /\ DOMAIN Scan(f) = 1..Len(es)
         /\ \A i \in 1..Len(es) : Scan(f)[i] = f[es[i].off + 1]
<1> DEFINE p == Places(f)
           n == Len(es)
           T == {k \in Nat : k < n => p[k] = es[k + 1].off}
<1>1. p \in [Nat -> Nat] /\ p[0] = 0 /\ \A k \in Nat : p[k + 1] = Advance(f, p[k])
  BY PlacesIs
<1>2. n \in Nat /\ \A i \in 1..n : es[i] \in IndexEntry
  OBVIOUS
<1> HIDE DEF p
<1>3. \A i \in 1..n : es[i].off = (IF i = 1 THEN 0 ELSE End(es[i - 1]))
  BY DEF Chain
<1>4. ASSUME NEW k \in Nat, k < n, p[k] = es[k + 1].off
      PROVE  p[k + 1] = End(es[k + 1]) /\ IsHeader(f, p[k])
  <2>1. k + 1 \in 1..n
    BY <1>2, <1>4
  <2>2. es[k + 1] \in IndexEntry /\ Stands(f, es[k + 1])
    BY <1>2, <2>1
  <2>3. IsHeader(f, es[k + 1].off) /\ End(f[es[k + 1].off + 1]) = End(es[k + 1])
    BY <2>2, StandsFacts
  <2> QED
    BY <1>1, <1>4, <2>3 DEF Advance
<1>5. 0 \in T
  <2> SUFFICES ASSUME 0 < n  PROVE p[0] = es[0 + 1].off
    OBVIOUS
  <2>1. 1 \in 1..n /\ 0 + 1 = 1
    BY <1>2
  <2>2. es[1].off = 0
    BY <1>3, <2>1
  <2> QED
    BY <1>1, <2>1, <2>2
<1>6. ASSUME NEW k \in Nat, k \in T  PROVE k + 1 \in T
  <2> SUFFICES ASSUME k + 1 < n  PROVE p[k + 1] = es[(k + 1) + 1].off
    OBVIOUS
  <2>1. k < n /\ (k + 1) + 1 \in 1..n /\ (k + 1) + 1 # 1 /\ ((k + 1) + 1) - 1 = k + 1
    BY <1>2
  <2>2. p[k + 1] = End(es[k + 1])
    BY <1>4, <1>6, <2>1
  <2>3. es[(k + 1) + 1].off = End(es[k + 1])
    BY <1>3, <2>1
  <2> QED
    BY <2>2, <2>3
<1> HIDE DEF T
<1>7. \A k \in Nat : k \in T
  BY <1>5, <1>6, Inductive
<1>8. \A k \in Nat : k < n => p[k] = es[k + 1].off
  BY <1>7 DEF T
<1>9. p[n] = EndOf(es)
  <2>1. CASE n = 0
    BY <1>1, <2>1 DEF EndOf
  <2>2. CASE n # 0
    <3>1. n - 1 \in Nat /\ n - 1 < n /\ (n - 1) + 1 = n /\ es # <<>>
      BY <1>2, <2>2
    <3>2. p[n] = End(es[n])
      BY <1>4, <1>8, <3>1
    <3> QED
      BY <3>1, <3>2 DEF EndOf
  <2> QED
    BY <2>1, <2>2
<1>10. n = Stop(f)
  <2>1. \A k \in Nat : k < n => IsHeader(f, p[k])
    BY <1>4, <1>8
  <2>2. ~IsHeader(f, p[n])
    BY <1>9
  <2>3. n <= Len(f)
    <3>1. 2 * n <= p[n] /\ p[n] \in Nat
      BY <1>1, <1>2, <2>1, PlacesGrow DEF p
    <3>2. CASE n = 0
      BY <3>2
    <3>3. CASE n # 0
      <4>1. n - 1 \in Nat /\ n - 1 < n
        BY <1>2, <3>3
      <4>2. IsHeader(f, p[n - 1]) /\ p[n - 1] \in Nat
        BY <1>1, <2>1, <4>1
      <4>3. 2 * (n - 1) <= p[n - 1]
        <5>1. \A k \in Nat : k < n - 1 => k < n
          BY <1>2
        <5>2. \A k \in Nat : k < n - 1 => IsHeader(f, p[k])
          BY <2>1, <5>1
        <5> QED
          BY <4>1, <5>2, PlacesGrow DEF p
      <4>4. p[n - 1] < Len(f) /\ Len(f) \in Nat
        BY <4>2 DEF IsHeader
      <4> QED
        BY <1>2, <4>2, <4>3, <4>4
    <3> QED
      BY <3>2, <3>3
  <2>4. \A k \in 0..n-1 : IsHeader(f, p[k])
    BY <1>2, <2>1
  <2>5. IsStop(f, n)
    BY <1>2, <2>2, <2>3, <2>4 DEF IsStop, p
  <2> HIDE DEF n
  <2> QED
    BY <1>2, <2>5, StopIs
<1>11. Scan(f) = [i \in 1..n |-> f[p[i - 1] + 1]]
  BY <1>10 DEF Scan, p
<1>12. ASSUME NEW i \in 1..n  PROVE p[i - 1] = es[i].off
  <2>1. i - 1 \in Nat /\ i - 1 < n /\ (i - 1) + 1 = i
    BY <1>2
  <2> QED
    BY <1>8, <2>1
<1> QED
  BY <1>2, <1>11, <1>12

\* A header before the end of the chain is that of an entry.
LEMMA ChainHasAll ==
  ASSUME NEW f \in Seq(Cell), HeadersOK(f), NEW es \in Seq(IndexEntry), Chain(es),
         \A i \in 1..Len(es) : Stands(f, es[i]),
         NEW o \in Nat, IsHeader(f, o), o < EndOf(es)
  PROVE  \E i \in 1..Len(es) : es[i].off = o
<1> DEFINE n == Len(es)
           B == {i \in 1..n : o < End(es[i])}
<1>1. n \in Nat /\ es # <<>> /\ n # 0
  BY DEF EndOf
<1>2. n \in B
  BY <1>1 DEF EndOf
<1>3. PICK i \in B : \A y \in B : i <= y
  <2>1. B \subseteq Nat /\ B # {}
    BY <1>2
  <2> HIDE DEF B
  <2> QED
    BY <2>1, SmallestExists
<1>4. /\ i \in 1..n /\ o < End(es[i]) /\ es[i] \in IndexEntry /\ Stands(f, es[i])
      /\ es[i].off \in Nat /\ IsHeader(f, es[i].off) /\ End(f[es[i].off + 1]) = End(es[i])
  BY <1>3, StandsFacts
<1>5. ~(es[i].off < o)
  <2>1. HeaderOK(f, es[i].off)
    BY <1>4 DEF HeadersOK
  <2>2. es[i].off < o => End(es[i]) <= o
    BY <1>4, <2>1 DEF HeaderOK
  <2>3. End(es[i]) \in Nat
    BY <1>4, StandsFacts
  <2> QED
    BY <1>4, <2>2, <2>3
<1>6. es[i].off <= o
  <2>1. CASE i = 1
    BY <1>4, <2>1 DEF Chain
  <2>2. CASE i # 1
    <3>1. i - 1 \in 1..n /\ i - 1 < i
      BY <1>1, <1>4, <2>2
    <3>2. ~(o < End(es[i - 1]))
      BY <1>3, <1>4, <3>1
    <3>3. es[i].off = End(es[i - 1])
      BY <1>4, <2>2 DEF Chain
    <3> QED
      BY <1>4, <3>2, <3>3
  <2> QED
    BY <2>1, <2>2
<1>7. es[i].off = o
  BY <1>4, <1>5, <1>6
<1> QED
  BY <1>4, <1>7

(***************************************************************************)
(* Writes to a file.                                                       *)
(***************************************************************************)
LEMMA ConcatIs ==
  ASSUME NEW S, NEW p \in Seq(S), NEW q \in Seq(S)
  PROVE  /\ p \o q \in Seq(S) /\ Len(p \o q) = Len(p) + Len(q)
         /\ \A i \in 1..Len(p) : (p \o q)[i] = p[i]
         /\ \A i \in Len(p)+1..Len(p)+Len(q) : (p \o q)[i] = q[i - Len(p)]
  OBVIOUS

LEMMA RestIs ==
  ASSUME NEW S, NEW f \in Seq(S), NEW k \in Nat
  PROVE  LET b == SubSeq(f, k + 1, Len(f))
         IN  /\ b \in Seq(S)
             /\ Len(b) = (IF Len(f) <= k THEN 0 ELSE Len(f) - k)
             /\ \A i \in 1..Len(b) : b[i] = f[k + i]
<1> DEFINE b == SubSeq(f, k + 1, Len(f))
<1>1. CASE Len(f) <= k
  <2>1. b = <<>>
    BY <1>1
  <2> QED
    BY <1>1, <2>1
<1>2. CASE k < Len(f)
  <2>1. Len(b) = Len(f) - k
    BY <1>2
  <2>2. ASSUME NEW i \in 1..Len(f)-k  PROVE b[i] = f[k + i] /\ k + i \in 1..Len(f)
    BY <1>2
  <2>3. b \in Seq(S)
    BY <1>2
  <2> QED
    BY <1>2, <2>1, <2>2, <2>3
<1> QED
  BY <1>1, <1>2

LEMMA OverIs ==
  ASSUME NEW S, NEW f \in Seq(S), NEW cells \in Seq(S), NEW o \in 0..Len(f)
  PROVE  /\ Over(f, o, cells) \in Seq(S)
         /\ Len(Over(f, o, cells)) = (IF Len(f) <= o + Len(cells) THEN o + Len(cells) ELSE Len(f))
         /\ \A i \in 1..o : Over(f, o, cells)[i] = f[i]
         /\ \A i \in o+1..o+Len(cells) : Over(f, o, cells)[i] = cells[i - o]
         /\ \A i \in o+Len(cells)+1..Len(f) : Over(f, o, cells)[i] = f[i]
<1> DEFINE a == SubSeq(f, 1, o)
           b == SubSeq(f, o + Len(cells) + 1, Len(f))
           c == a \o cells
           g == c \o b
           n == Len(f)
           m == Len(cells)
<1>1. n \in Nat /\ m \in Nat /\ o \in Nat /\ o <= n
  OBVIOUS
<1>2. a \in Seq(S) /\ Len(a) = o /\ \A i \in 1..o : a[i] = f[i]
  BY <1>1
<1>3. /\ b \in Seq(S)
      /\ Len(b) = (IF n <= o + m THEN 0 ELSE n - o - m)
      /\ \A i \in 1..Len(b) : b[i] = f[o + m + i]
  <2> DEFINE k == o + m
  <2>1. k \in Nat /\ b = SubSeq(f, k + 1, Len(f))
    BY <1>1
  <2> HIDE DEF k, b
  <2>2. /\ b \in Seq(S)
        /\ Len(b) = (IF Len(f) <= k THEN 0 ELSE Len(f) - k)
        /\ \A i \in 1..Len(b) : b[i] = f[k + i]
    BY <2>1, RestIs
  <2>3. k = o + m /\ n = Len(f)
    BY DEF k
  <2> HIDE DEF m, n
  <2>4. n - k = n - o - m
    BY <1>1, <2>3
  <2> QED
    BY <2>2, <2>3, <2>4
<1>4. Over(f, o, cells) = g
  BY DEF Over
<1>5. c \in Seq(S) /\ Len(c) = o + m
      /\ (\A i \in 1..o : c[i] = a[i]) /\ \A i \in o+1..o+m : c[i] = cells[i - o]
  <2> HIDE DEF a
  <2>1. a \in Seq(S)
    BY <1>2
  <2>2. /\ c \in Seq(S) /\ Len(c) = Len(a) + Len(cells)
        /\ \A i \in 1..Len(a) : c[i] = a[i]
        /\ \A i \in Len(a)+1..Len(a)+Len(cells) : c[i] = cells[i - Len(a)]
    BY <2>1, ConcatIs
  <2> HIDE DEF c
  <2> QED
    BY <1>2, <2>2
<1> HIDE DEF a, b, c, n, m
<1>6. /\ g \in Seq(S) /\ Len(g) = o + m + Len(b)
      /\ \A i \in 1..o+m : g[i] = c[i]
      /\ \A i \in o+m+1..o+m+Len(b) : g[i] = b[i - (o + m)]
  <2>1. c \in Seq(S) /\ b \in Seq(S)
    BY <1>3, <1>5
  <2>2. /\ g \in Seq(S) /\ Len(g) = Len(c) + Len(b)
        /\ \A i \in 1..Len(c) : g[i] = c[i]
        /\ \A i \in Len(c)+1..Len(c)+Len(b) : g[i] = b[i - Len(c)]
    BY <2>1, ConcatIs
  <2>3. Len(c) = o + m
    BY <1>5
  <2> HIDE DEF g
  <2> QED
    BY <2>2, <2>3
<1> HIDE DEF g
<1>7. Len(g) = (IF n <= o + m THEN o + m ELSE n)
  BY <1>1, <1>3, <1>6
<1>8. \A i \in 1..o : g[i] = f[i]
  BY <1>1, <1>2, <1>5, <1>6
<1>9. \A i \in o+1..o+m : g[i] = cells[i - o]
  BY <1>1, <1>5, <1>6
<1>10. ASSUME NEW i \in o+m+1..n  PROVE g[i] = f[i]
  <2>1. /\ i \in o+m+1..o+m+Len(b) /\ i - (o + m) \in 1..Len(b)
        /\ o + m + (i - (o + m)) = i
    BY <1>1, <1>3
  <2> QED
    BY <1>3, <1>6, <2>1
<1> QED
  BY <1>4, <1>6, <1>7, <1>8, <1>9, <1>10 DEF n, m

LEMMA OverGives ==
  ASSUME NEW S, NEW f \in Seq(S), NEW cells \in Seq(S), NEW o \in 0..Len(f),
         NEW g, g = Over(f, o, cells)
  PROVE  /\ g \in Seq(S)
         /\ Len(g) = (IF Len(f) <= o + Len(cells) THEN o + Len(cells) ELSE Len(f))
         /\ \A i \in 1..o : g[i] = f[i]
         /\ \A i \in o+1..o+Len(cells) : g[i] = cells[i - o]
         /\ \A i \in o+Len(cells)+1..Len(f) : g[i] = f[i]
  BY OverIs

LEMMA RecordIs ==
  ASSUME TypeOK, NEW s \in Nat, NEW l \in Nat, NEW k \in Nat
  PROVE  /\ Record(s, l, k) \in Seq(Cell) /\ Len(Record(s, l, k)) = 1 + k
         /\ Record(s, l, k)[1] = Header(s, num, size, l, prevOff)
         /\ \A i \in 2..1+k : Record(s, l, k)[i] = Data(s)
<1>1. Header(s, num, size, l, prevOff) \in Cell /\ Data(s) \in Cell
  BY DEF TypeOK, Header, Data, Cell
<1> DEFINE h == Header(s, num, size, l, prevOff)
           d == Data(s)
           rest == [i \in 1..k |-> d]
           r == Record(s, l, k)
<1>2. r = <<h>> \o rest
  BY DEF Record
<1> HIDE DEF h, d, r
<1>3. rest \in Seq(Cell) /\ Len(rest) = k /\ \A i \in 1..k : rest[i] = d
  BY <1>1 DEF h, d
<1>4. <<h>> \in Seq(Cell) /\ Len(<<h>>) = 1 /\ <<h>>[1] = h
  BY <1>1 DEF h
<1> HIDE DEF rest
<1>5. r \in Seq(Cell) /\ Len(r) = 1 + k /\ r[1] = h /\ \A i \in 2..1+k : r[i] = rest[i - 1]
  BY <1>2, <1>3, <1>4
<1>6. \A i \in 2..1+k : r[i] = d
  BY <1>3, <1>5
<1> QED
  BY <1>5, <1>6 DEF h, d, r

\* The headers of g are some of the first ones of f.
LEMMA FewerHeaders ==
  ASSUME NEW f \in Seq(Cell), NEW g \in Seq(Cell), HeadersOK(f),
         \A o \in Nat : IsHeader(g, o) => IsHeader(f, o) /\ g[o + 1] = f[o + 1],
         \A o, q \in Nat : IsHeader(f, o) /\ IsHeader(g, q) /\ o < q => IsHeader(g, o)
  PROVE  HeadersOK(g)
<1> SUFFICES ASSUME NEW o \in Nat, IsHeader(g, o)  PROVE HeaderOK(g, o)
  BY DEF HeadersOK
<1>1. IsHeader(f, o) /\ g[o + 1] = f[o + 1] /\ HeaderOK(f, o)
  BY DEF HeadersOK
<1>2. 0 < g[o + 1].sid /\ 0 < g[o + 1].len /\ End(g[o + 1]) < FullSize
  BY <1>1 DEF HeaderOK
<1>3. ASSUME o > 0
      PROVE  /\ IsHeader(g, g[o + 1].prev) /\ g[o + 1].prev < o
             /\ End(g[g[o + 1].prev + 1]) = o
  <2> DEFINE p == f[o + 1].prev
  <2>1. IsHeader(f, p) /\ p < o /\ End(f[p + 1]) = o
    BY <1>1, <1>3 DEF HeaderOK
  <2>2. p \in Nat
    BY <1>1, HeaderFacts DEF Cell
  <2>3. IsHeader(g, p) /\ g[p + 1] = f[p + 1]
    BY <2>1, <2>2
  <2> QED
    BY <1>1, <2>1, <2>3
<1>4. ASSUME NEW q \in Nat, IsHeader(g, q), o < q
      PROVE  End(g[o + 1]) <= q /\ g[o + 1].sid < g[q + 1].sid
  <2>1. IsHeader(f, q) /\ g[q + 1] = f[q + 1]
    BY <1>4
  <2> QED
    BY <1>1, <1>4, <2>1 DEF HeaderOK
<1> QED
  BY <1>2, <1>3, <1>4 DEF HeaderOK

\* The end of a file is lost.
LEMMA PrefixIs ==
  ASSUME NEW f \in Seq(Cell), HeadersOK(f), NEW g \in Seq(Cell), Len(g) <= Len(f),
         \A i \in 1..Len(g) : g[i] = f[i]
  PROVE  /\ \A o \in Nat : IsHeader(g, o) <=> IsHeader(f, o) /\ o < Len(g)
         /\ HeadersOK(g)
<1> DEFINE n == Len(g)
<1>1. n \in Nat /\ Len(f) \in Nat /\ n <= Len(f)
  OBVIOUS
<1>2. ASSUME NEW o \in Nat
      PROVE  /\ IsHeader(g, o) <=> IsHeader(f, o) /\ o < n
             /\ IsHeader(g, o) => g[o + 1] = f[o + 1]
  <2>1. CASE o < n
    <3>1. o + 1 \in 1..n /\ o < Len(f) /\ o < Len(g)
      BY <1>1, <2>1
    <3>2. g[o + 1] = f[o + 1]
      BY <3>1
    <3> QED
      BY <2>1, <3>1, <3>2 DEF IsHeader
  <2>2. CASE ~(o < n)
    BY <1>1, <2>2 DEF IsHeader
  <2> QED
    BY <2>1, <2>2
<1>3. HeadersOK(g)
  <2>1. \A o, q \in Nat : IsHeader(f, o) /\ IsHeader(g, q) /\ o < q => IsHeader(g, o)
    BY <1>2
  <2> QED
    BY <1>1, <1>2, <2>1, FewerHeaders
<1> QED
  BY <1>1, <1>2, <1>3

\* A file is made longer.
LEMMA TruncatedIs ==
  ASSUME NEW f \in Seq(Cell), HeadersOK(f), NEW n \in Nat, Len(f) <= n, f = <<>> => n = 0
  PROVE  /\ Truncated(f, n) \in Seq(Cell) /\ Len(Truncated(f, n)) = n
         /\ \A i \in 1..Len(f) : Truncated(f, n)[i] = f[i]
         /\ \A o \in Nat : IsHeader(Truncated(f, n), o) <=> IsHeader(f, o)
         /\ HeadersOK(Truncated(f, n))
<1> DEFINE g == Truncated(f, n)
<1>1. Zero \in Cell /\ Zero.off = 0
  BY DEF Zero, Header, Cell
<1>2. /\ g = [i \in 1..n |-> IF i <= Len(f) THEN f[i] ELSE Zero]
      /\ Len(f) \in Nat /\ \A i \in 1..Len(f) : f[i] \in Cell
  BY DEF Truncated
<1> HIDE DEF Zero
<1>3. g \in Seq(Cell) /\ Len(g) = n /\ \A i \in 1..Len(f) : g[i] = f[i]
  <2>1. \A i \in 1..n : (IF i <= Len(f) THEN f[i] ELSE Zero) \in Cell
    BY <1>1, <1>2
  <2> QED
    BY <1>2, <2>1
<1>4. ASSUME NEW o \in Nat
      PROVE  /\ IsHeader(g, o) <=> IsHeader(f, o)
             /\ IsHeader(g, o) => g[o + 1] = f[o + 1]
  <2>1. CASE o < Len(f)
    <3>1. o + 1 \in 1..Len(f) /\ o < n
      BY <1>2, <2>1
    <3>2. g[o + 1] = f[o + 1]
      BY <1>3, <3>1
    <3> QED
      BY <1>3, <2>1, <3>1, <3>2 DEF IsHeader
  <2>2. CASE ~(o < Len(f)) /\ o < n
    <3>1. o + 1 \in 1..n /\ ~(o + 1 <= Len(f))
      BY <1>2, <2>2
    <3>2. g[o + 1] = Zero
      BY <1>2, <3>1
    <3>3. o # 0
      <4>1. CASE f = <<>>
        BY <2>2, <4>1
      <4>2. CASE f # <<>>
        <5>1. Len(f) # 0
          BY <4>2
        <5> QED
          BY <1>2, <2>2, <5>1
      <4> QED
        BY <4>1, <4>2
    <3> QED
      BY <1>1, <2>2, <3>2, <3>3 DEF IsHeader
  <2>3. CASE ~(o < n)
    BY <1>2, <1>3, <2>3 DEF IsHeader
  <2> QED
    BY <2>1, <2>2, <2>3
<1>5. HeadersOK(g)
  BY <1>3, <1>4, FewerHeaders
<1> QED
  BY <1>3, <1>4, <1>5

\* What stands in a file stands in one that begins the same way.
LEMMA StillStands ==
  ASSUME NEW f \in Seq(Cell), NEW g \in Seq(Cell), NEW n \in Nat, n <= Len(g),
         \A i \in 1..n : g[i] = f[i], NEW e \in IndexEntry, Stands(f, e), e.off < n
  PROVE  Stands(g, e)
<1>1. e.off \in Nat /\ e.off + 1 \in 1..n /\ e.off < Len(g)
  BY DEF IndexEntry
<1>2. g[e.off + 1] = f[e.off + 1]
  BY <1>1
<1> QED
  BY <1>1, <1>2 DEF Stands, IsHeader

LEMMA Later ==
  ASSUME NEW a \in IndexEntry, NEW b \in IndexEntry, End(a) <= b.off
  PROVE  a.off < b.off /\ End(a) <= End(b)
<1>1. a.off \in Nat /\ b.off \in Nat /\ a.len \in Nat /\ b.len \in Nat
  BY DEF IndexEntry
<1>2. End(a) = a.off + 1 + a.len /\ End(b) = b.off + 1 + b.len
  BY DEF End
<1> QED
  BY <1>1, <1>2

\* The entries of a chain ascend.
LEMMA ChainAscends ==
  ASSUME NEW f \in Seq(Cell), HeadersOK(f), NEW es \in Seq(IndexEntry), Chain(es),
         \A i \in 1..Len(es) : Stands(f, es[i])
  PROVE  /\ \A i, j \in 1..Len(es) : i < j => es[i].off < es[j].off /\ es[i].sid < es[j].sid
         /\ \A i \in 1..Len(es) : End(es[i]) <= EndOf(es) /\ es[i].sid <= es[Len(es)].sid
         /\ EndOf(es) \in Nat /\ (es # <<>> => 0 < EndOf(es))
<1>1. \A i \in 1..Len(es) : es[i] \in IndexEntry
  OBVIOUS
<1>2. ASSUME NEW i \in 1..Len(es), NEW j \in 1..Len(es), i < j
      PROVE  es[i].off < es[j].off /\ es[i].sid < es[j].sid /\ End(es[i]) <= End(es[j])
  <2>1. /\ IsHeader(f, es[i].off) /\ IsHeader(f, es[j].off)
        /\ es[i].off \in Nat /\ es[j].off \in Nat
        /\ f[es[i].off + 1].sid = es[i].sid /\ f[es[j].off + 1].sid = es[j].sid
    BY <1>1, StandsFacts
  <2>2. End(es[i]) <= es[j].off
    BY <1>2 DEF Chain
  <2>3. es[i].off < es[j].off /\ End(es[i]) <= End(es[j])
    <3> DEFINE a == es[i]
               b == es[j]
    <3>1. a \in IndexEntry /\ b \in IndexEntry /\ End(a) <= b.off
      BY <1>1, <2>2
    <3> HIDE DEF a, b
    <3>2. a.off < b.off /\ End(a) <= End(b)
      BY <3>1, Later
    <3> QED
      BY <3>2 DEF a, b
  <2>4. HeaderOK(f, es[i].off)
    BY <2>1 DEF HeadersOK
  <2> QED
    BY <2>1, <2>3, <2>4 DEF HeaderOK
<1>3. CASE es = <<>>
  BY <1>2, <1>3 DEF EndOf
<1>4. CASE es # <<>>
  <2>1. Len(es) \in 1..Len(es)
    BY <1>4
  <2>2. EndOf(es) = End(es[Len(es)]) /\ End(es[Len(es)]) \in Nat /\ 0 < End(es[Len(es)])
    BY <1>1, <1>4, <2>1, StandsFacts DEF EndOf
  <2>3. \A i \in 1..Len(es) : End(es[i]) \in Nat /\ es[i].sid \in Nat
    BY <1>1, StandsFacts
  <2>4. ASSUME NEW i \in 1..Len(es)  PROVE End(es[i]) <= EndOf(es) /\ es[i].sid <= es[Len(es)].sid
    <3>1. i = Len(es) \/ i < Len(es)
      OBVIOUS
    <3> QED
      BY <1>2, <2>1, <2>2, <2>3, <3>1
  <2> QED
    BY <1>2, <2>2, <2>4
<1> QED
  BY <1>3, <1>4

(***************************************************************************)
(* A file that is in use, and a record that is written to it.               *)
(***************************************************************************)
LEMMA Constants ==
  /\ MaxSid \in Nat /\ Lens \subseteq Nat \ {0} /\ FullSize \in Nat
  /\ CacheNum \in Nat \ {0} /\ Block \in Nat \ {0} /\ Word \in Nat /\ FullSize < Word
  BY FileAssumption

\* The entries of the index file and of the write cache.
IsEntries(es) == es = index \o cache

\* The entries of the index file and of the write cache.
LEMMA EntriesAre ==
  ASSUME TypeOK, NEW es, IsEntries(es)
  PROVE  /\ es \in Seq(IndexEntry) /\ Len(es) = Len(index) + Len(cache)
         /\ Len(index) \in Nat /\ Len(cache) \in Nat
         /\ \A i \in 1..Len(index) : es[i] = index[i]
         /\ \A i \in 1..Len(cache) : es[Len(index) + i] = cache[i]
<1>1. index \in Seq(IndexEntry) /\ cache \in Seq(IndexEntry)
  BY DEF TypeOK
<1>2. /\ es \in Seq(IndexEntry) /\ Len(es) = Len(index) + Len(cache)
      /\ \A i \in 1..Len(index) : es[i] = index[i]
      /\ \A i \in Len(index)+1..Len(index)+Len(cache) : es[i] = cache[i - Len(index)]
  BY <1>1, ConcatIs DEF IsEntries
<1>3. Len(index) \in Nat /\ Len(cache) \in Nat
  BY <1>1
<1>4. ASSUME NEW i \in 1..Len(cache)  PROVE es[Len(index) + i] = cache[i]
  <2>1. Len(index) + i \in Len(index)+1..Len(index)+Len(cache) /\ (Len(index) + i) - Len(index) = i
    BY <1>3
  <2> QED
    BY <1>2, <2>1
<1> QED
  BY <1>2, <1>3, <1>4

\* In a file that is in use.
LEMMA InUse ==
  ASSUME Inv, Readable, NEW es, IsEntries(es)
  PROVE  /\ file \in Seq(Cell) /\ HeadersOK(file) /\ es \in Seq(IndexEntry)
         /\ Chain(es) /\ (\A i \in 1..Len(es) : Stands(file, es[i]))
         /\ size = EndOf(es) /\ size \in Nat /\ size <= Len(file)
         /\ \A o \in Nat : IsHeader(file, o) => o <= size
         /\ \A o \in Nat : IsHeader(file, o) /\ o < size =>
              End(file[o + 1]) <= size /\ file[o + 1].sid <= maxSid
                                      /\ \E i \in 1..Len(es) : es[i] = Entry(file[o + 1])
<1>1. file \in Seq(Cell) /\ HeadersOK(file) /\ es \in Seq(IndexEntry) /\ size \in Nat
  BY EntriesAre DEF Inv, TypeOK
<1>2. /\ Chain(es) /\ (\A i \in 1..Len(es) : Stands(file, es[i]))
      /\ size = EndOf(es) /\ size <= Len(file)
      /\ \A o \in Nat : IsHeader(file, o) => o <= size
      /\ maxSid = (IF es = <<>> THEN 0 ELSE es[Len(es)].sid)
  BY DEF Inv, OpenOK, BoundsOK, IsEntries
<1>3. ASSUME NEW o \in Nat, IsHeader(file, o), o < size
      PROVE  End(file[o + 1]) <= size /\ file[o + 1].sid <= maxSid
                                      /\ \E i \in 1..Len(es) : es[i] = Entry(file[o + 1])
  <2>1. PICK i \in 1..Len(es) : es[i].off = o
    BY <1>1, <1>2, <1>3, ChainHasAll
  <2>2. es[i] \in IndexEntry /\ Stands(file, es[i]) /\ es # <<>>
    BY <1>1, <1>2
  <2>3. End(file[o + 1]) = End(es[i]) /\ file[o + 1].sid = es[i].sid
    BY <1>1, <2>1, <2>2, StandsFacts
  <2>4. End(es[i]) <= size /\ es[i].sid <= maxSid
    BY <1>1, <1>2, <2>2, ChainAscends
  <2>5. es[i] = Entry(file[o + 1])
    BY <2>1, <2>2 DEF Stands
  <2> QED
    BY <2>3, <2>4, <2>5
<1> QED
  BY <1>1, <1>2, <1>3

\* A header and the first k cells of its data are written at the end.
IsWritten(s, l, k, g) ==
  /\ g \in Seq(Cell) /\ size + 1 + k <= Len(g) /\ Len(file) <= Len(g)
  /\ Len(file) = size => Len(g) = size + 1 + k
  /\ \A i \in 1..size : g[i] = file[i]
  /\ IsHeader(g, size) /\ g[size + 1] = Header(s, num, size, l, prevOff)
  /\ \A i \in size+2..size+1+k : g[i] = Data(s)
  /\ \A o \in Nat : IsHeader(g, o) => o <= size
  /\ HeadersOK(g)

LEMMA Behind ==
  ASSUME NEW n \in Nat, NEW k \in Nat, NEW i \in n+2..n+1+k, NEW m, m = 1 + k
  PROVE  i \in n+1..n+m /\ i - n \in 2..m
  OBVIOUS

LEMMA Written ==
  ASSUME Inv, NEW s \in Sids, NEW l \in Lens, NEW k \in 0..l, Offered(s, l),
         NEW g, g = Over(file, size, Record(s, l, k))
  PROVE  IsWritten(s, l, k, g)
<1> DEFINE es == index \o cache
           r == Record(s, l, k)
           h == Header(s, num, size, l, prevOff)
<1>1. Readable /\ TypeOK /\ s > maxSid /\ size + 1 + l < FullSize
  BY DEF Inv, Offered, Readable
<1>2. s \in Nat /\ 0 < s /\ l \in Nat /\ 0 < l /\ k \in Nat /\ k <= l
  BY Constants DEF Sids
<1>3. /\ file \in Seq(Cell) /\ HeadersOK(file) /\ es \in Seq(IndexEntry)
      /\ Chain(es) /\ (\A i \in 1..Len(es) : Stands(file, es[i]))
      /\ size = EndOf(es) /\ size \in Nat /\ size <= Len(file)
      /\ \A o \in Nat : IsHeader(file, o) => o <= size
      /\ \A o \in Nat : IsHeader(file, o) /\ o < size =>
           End(file[o + 1]) <= size /\ file[o + 1].sid <= maxSid
  BY <1>1, InUse DEF IsEntries
<1>4. prevOff = (IF es = <<>> THEN 0 ELSE es[Len(es)].off) /\ maxSid \in Nat /\ prevOff \in Nat
  BY <1>1 DEF Inv, OpenOK, TypeOK
<1> HIDE DEF es
<1>5. r \in Seq(Cell) /\ Len(r) = 1 + k /\ r[1] = h /\ \A i \in 2..1+k : r[i] = Data(s)
  BY <1>1, <1>2, RecordIs
<1>6. h.sid = s /\ h.len = l /\ h.off = size /\ h.prev = prevOff /\ End(h) = size + 1 + l
  BY DEF Header, End
<1> HIDE DEF r, h
<1>7. size \in 0..Len(file) /\ Len(file) \in Nat
  BY <1>3
<1>8. /\ g \in Seq(Cell)
      /\ Len(g) = (IF Len(file) <= size + Len(r) THEN size + Len(r) ELSE Len(file))
      /\ \A i \in 1..size : g[i] = file[i]
      /\ \A i \in size+1..size+Len(r) : g[i] = r[i - size]
      /\ \A i \in size+Len(r)+1..Len(file) : g[i] = file[i]
  <2>1. g = Over(file, size, r)
    BY DEF r
  <2>2. file \in Seq(Cell) /\ r \in Seq(Cell)
    BY <1>3, <1>5
  <2> QED
    BY <1>7, <2>1, <2>2, OverGives
<1>9. Len(g) = (IF Len(file) <= size + 1 + k THEN size + 1 + k ELSE Len(file))
  BY <1>2, <1>3, <1>5, <1>7, <1>8
<1>10. size + 1 + k <= Len(g) /\ Len(file) <= Len(g) /\ (Len(file) = size => Len(g) = size + 1 + k)
       /\ size < Len(g) /\ Len(g) \in Nat
  BY <1>2, <1>3, <1>7, <1>9
<1>11. g[size + 1] = h
  <2>1. size + 1 \in size+1..size+Len(r) /\ (size + 1) - size = 1
    BY <1>2, <1>3, <1>5
  <2> QED
    BY <1>5, <1>8, <2>1
<1>12. ASSUME NEW i \in size+2..size+1+k  PROVE g[i] = Data(s)
  <2>1. i \in size+1..size+Len(r) /\ i - size \in 2..1+k
    BY <1>2, <1>3, <1>5, Behind
  <2> QED
    BY <1>5, <1>8, <2>1
<1>13. IsHeader(g, size)
  BY <1>6, <1>10, <1>11 DEF IsHeader
<1>14. ASSUME NEW o \in Nat, IsHeader(g, o)
       PROVE  o = size \/ (o < size /\ IsHeader(file, o) /\ g[o + 1] = file[o + 1])
  <2>1. o < Len(g) /\ g[o + 1].off = o
    BY <1>14 DEF IsHeader
  <2>2. CASE o < size
    <3>1. o + 1 \in 1..size /\ o < Len(file)
      BY <1>3, <1>7, <2>2
    <3>2. g[o + 1] = file[o + 1]
      BY <1>8, <3>1
    <3> QED
      BY <2>1, <2>2, <3>1, <3>2 DEF IsHeader
  <2>3. CASE size < o /\ o + 1 <= size + 1 + k
    <3>1. o + 1 \in size+2..size+1+k
      BY <1>2, <1>3, <2>3
    <3>2. g[o + 1].off = -1
      BY <1>12, <3>1 DEF Data, Header
    <3> QED
      BY <2>1, <3>2
  <2>4. CASE size + 1 + k < o + 1
    <3>1. o + 1 \in size+Len(r)+1..Len(file) /\ o < Len(file)
      BY <1>2, <1>3, <1>5, <1>7, <1>9, <2>1, <2>4
    <3>2. g[o + 1] = file[o + 1]
      BY <1>8, <3>1
    <3>3. IsHeader(file, o)
      BY <2>1, <3>1, <3>2 DEF IsHeader
    <3> QED
      BY <1>2, <1>3, <2>4, <3>3
  <2>5. o = size \/ o < size \/ (size < o /\ o + 1 <= size + 1 + k) \/ size + 1 + k < o + 1
    BY <1>2, <1>3
  <2> QED
    BY <2>2, <2>3, <2>4, <2>5
<1>15. HeaderOK(g, size)
  <2>1. 0 < g[size + 1].sid /\ 0 < g[size + 1].len /\ End(g[size + 1]) < FullSize
    BY <1>1, <1>2, <1>6, <1>11
  <2>2. ASSUME size > 0
        PROVE  /\ IsHeader(g, g[size + 1].prev) /\ g[size + 1].prev < size
               /\ End(g[g[size + 1].prev + 1]) = size
    <3>1. es # <<>>
      BY <1>3, <2>2 DEF EndOf
    <3>2. Len(es) \in 1..Len(es) /\ es[Len(es)] \in IndexEntry /\ Stands(file, es[Len(es)])
      BY <1>3, <3>1
    <3>3. prevOff = es[Len(es)].off /\ size = End(es[Len(es)])
      BY <1>3, <1>4, <3>1 DEF EndOf
    <3>4. IsHeader(file, prevOff) /\ End(file[prevOff + 1]) = size /\ prevOff < size
      <4> DEFINE e == es[Len(es)]
      <4>1. e \in IndexEntry /\ Stands(file, e) /\ prevOff = e.off /\ size = End(e)
        BY <3>2, <3>3
      <4> HIDE DEF e
      <4>2. /\ IsHeader(file, e.off) /\ End(file[e.off + 1]) = End(e)
            /\ End(e) = e.off + 1 + e.len /\ e.off \in Nat /\ e.len \in Nat
        BY <1>3, <4>1, StandsFacts
      <4>3. e.off < End(e)
        BY <4>2
      <4> QED
        BY <4>1, <4>2, <4>3
    <3>5. prevOff + 1 \in 1..size
      BY <1>3, <1>4, <3>4
    <3>6. g[prevOff + 1] = file[prevOff + 1]
      BY <1>8, <3>5
    <3>7. IsHeader(g, prevOff)
      <4>1. file[prevOff + 1].off = prevOff
        BY <3>4 DEF IsHeader
      <4>2. prevOff < Len(g)
        BY <1>3, <1>4, <1>10, <3>4
      <4> QED
        BY <3>6, <4>1, <4>2 DEF IsHeader
    <3>8. g[size + 1].prev = prevOff
      BY <1>6, <1>11
    <3> QED
      BY <3>4, <3>6, <3>7, <3>8
  <2>3. ASSUME NEW q \in Nat, IsHeader(g, q), size < q  PROVE FALSE
    BY <1>3, <1>14, <2>3
  <2> QED
    BY <2>1, <2>2, <2>3 DEF HeaderOK
<1>16. ASSUME NEW o \in Nat, IsHeader(g, o), o < size  PROVE HeaderOK(g, o)
  <2>1. IsHeader(file, o) /\ g[o + 1] = file[o + 1] /\ HeaderOK(file, o)
    BY <1>3, <1>14, <1>16 DEF HeadersOK
  <2>2. ASSUME o > 0
        PROVE  /\ IsHeader(g, g[o + 1].prev) /\ g[o + 1].prev < o
               /\ End(g[g[o + 1].prev + 1]) = o
    <3> DEFINE p == file[o + 1].prev
    <3>1. IsHeader(file, p) /\ p < o /\ End(file[p + 1]) = o
      BY <2>1, <2>2 DEF HeaderOK
    <3>2. p \in Nat
      BY <1>3, <2>1, HeaderFacts DEF Cell
    <3>3. p + 1 \in 1..size /\ p < Len(g) /\ p < Len(file)
      BY <1>3, <1>10, <1>16, <3>1, <3>2
    <3>4. g[p + 1] = file[p + 1]
      BY <1>8, <3>3
    <3>5. IsHeader(g, p)
      BY <3>1, <3>3, <3>4 DEF IsHeader
    <3> QED
      BY <2>1, <3>1, <3>4, <3>5
  <2>3. ASSUME NEW q \in Nat, IsHeader(g, q), o < q
        PROVE  End(g[o + 1]) <= q /\ g[o + 1].sid < g[q + 1].sid
    <3>1. CASE q = size
      <4>1. End(file[o + 1]) <= size /\ file[o + 1].sid <= maxSid
        BY <1>3, <1>16, <2>1
      <4>2. file[o + 1].sid \in Nat
        BY <1>3, <2>1, HeaderFacts DEF Cell
      <4> QED
        BY <1>1, <1>2, <1>4, <1>6, <1>11, <2>1, <3>1, <4>1, <4>2
    <3>2. CASE q < size /\ IsHeader(file, q) /\ g[q + 1] = file[q + 1]
      BY <2>1, <2>3, <3>2 DEF HeaderOK
    <3> QED
      BY <1>14, <2>3, <3>1, <3>2
  <2> QED
    BY <2>1, <2>2, <2>3 DEF HeaderOK
<1>17. HeadersOK(g)
  BY <1>14, <1>15, <1>16 DEF HeadersOK
<1>18. \A o \in Nat : IsHeader(g, o) => o <= size
  BY <1>3, <1>14
<1> QED
  BY <1>8, <1>10, <1>11, <1>12, <1>13, <1>17, <1>18 DEF IsWritten, h


(***************************************************************************)
(* What the steps have in common.                                           *)
(***************************************************************************)
LEMMA EntryFacts ==
  ASSUME NEW e \in IndexEntry
  PROVE  /\ End(e) = e.off + 1 + e.len /\ End(e) \in Nat
         /\ e.off \in Nat /\ e.len \in Nat /\ e.sid \in Nat /\ e.off < End(e)
<1>1. e.off \in Nat /\ e.len \in Nat /\ e.sid \in Nat
  BY DEF IndexEntry
<1> QED
  BY <1>1 DEF End

LEMMA SeqSame ==
  ASSUME NEW S, NEW p \in Seq(S), NEW q \in Seq(S), Len(p) = Len(q),
         \A i \in 1..Len(p) : p[i] = q[i]
  PROVE  p = q
  BY SeqEqual

LEMMA EmptyTail ==
  ASSUME NEW S, NEW p \in Seq(S)
  PROVE  p \o <<>> = p /\ <<>> \in Seq(S) /\ Len(<<>>) = 0
<1>1. <<>> \in Seq(S) /\ Len(<<>>) = 0
  OBVIOUS
<1>2. p \o <<>> = p
  OBVIOUS
<1> QED
  BY <1>1, <1>2

\* A chain that is cut is one.
LEMMA ChainCut ==
  ASSUME NEW es \in Seq(IndexEntry), Chain(es), NEW ix \in Seq(IndexEntry), Len(ix) <= Len(es),
         \A i \in 1..Len(ix) : ix[i] = es[i]
  PROVE  Chain(ix)
<1>1. Len(ix) \in Nat /\ Len(es) \in Nat
  OBVIOUS
<1>2. ASSUME NEW i \in 1..Len(ix)
      PROVE  /\ ix[i].off = (IF i = 1 THEN 0 ELSE End(ix[i - 1]))
             /\ 0 < ix[i].sid /\ 0 < ix[i].len /\ 2 * (i - 1) <= ix[i].off
  <2>1. i \in 1..Len(es) /\ ix[i] = es[i]
    BY <1>1
  <2>2. i # 1 => ix[i - 1] = es[i - 1]
    BY <1>1
  <2> QED
    BY <2>1, <2>2 DEF Chain
<1>3. ASSUME NEW i \in 1..Len(ix), NEW j \in 1..Len(ix), i < j
      PROVE  End(ix[i]) <= ix[j].off
  <2>1. i \in 1..Len(es) /\ ix[i] = es[i] /\ j \in 1..Len(es) /\ ix[j] = es[j]
    BY <1>1
  <2> QED
    BY <1>3, <2>1 DEF Chain
<1> QED
  BY <1>2, <1>3 DEF Chain

\* The index file holds the first of the entries.
LEMMA IndexFollows ==
  ASSUME NEW f, NEW ix \in Seq(IndexEntry), NEW ca \in Seq(IndexEntry), Chain(ix \o ca),
         \A i \in 1..Len(ix \o ca) : Stands(f, (ix \o ca)[i])
  PROVE  Chain(ix) /\ \A i \in 1..Len(ix) : Stands(f, ix[i])
<1>1. /\ ix \o ca \in Seq(IndexEntry) /\ Len(ix \o ca) = Len(ix) + Len(ca)
      /\ \A i \in 1..Len(ix) : (ix \o ca)[i] = ix[i]
  BY ConcatIs
<1>2. Len(ix) \in Nat /\ Len(ca) \in Nat
  OBVIOUS
<1> DEFINE es == ix \o ca
<1>3. Chain(es)
  OBVIOUS
<1> HIDE DEF es
<1>4. Chain(ix)
  <2>1. Len(ix) <= Len(es) /\ \A i \in 1..Len(ix) : ix[i] = es[i]
    BY <1>1, <1>2 DEF es
  <2>2. es \in Seq(IndexEntry)
    BY <1>1 DEF es
  <2> QED
    BY <1>3, <2>1, <2>2, ChainCut
<1> QED
  BY <1>1, <1>2, <1>4

LEMMA TwoCells ==
  ASSUME NEW n \in Nat, NEW off \in Nat, NEW len \in Nat, 2 * (n - 1) <= off, 0 < len,
         NEW end, end = off + 1 + len
  PROVE  2 * n <= end
  OBVIOUS

\* Another entry at the end of a chain.
LEMMA ChainMore ==
  ASSUME NEW es \in Seq(IndexEntry), Chain(es), NEW e \in IndexEntry, NEW more \in Seq(IndexEntry),
         0 < e.sid, 0 < e.len, e.off = EndOf(es),
         Len(more) = Len(es) + 1, \A i \in 1..Len(es) : more[i] = es[i], more[Len(es) + 1] = e
  PROVE  Chain(more) /\ EndOf(more) = End(e)
<1> DEFINE n == Len(es)
<1>1. n \in Nat /\ \A i \in 1..n : es[i] \in IndexEntry
  OBVIOUS
<1>2. /\ \A i \in 1..n : /\ es[i].off = (IF i = 1 THEN 0 ELSE End(es[i - 1]))
                         /\ 0 < es[i].sid /\ 0 < es[i].len /\ 2 * (i - 1) <= es[i].off
      /\ \A i, j \in 1..n : i < j => End(es[i]) <= es[j].off
  BY DEF Chain
<1>3. \A i \in 1..n : /\ End(es[i]) = es[i].off + 1 + es[i].len /\ End(es[i]) \in Nat
                      /\ es[i].off \in Nat /\ es[i].len \in Nat /\ es[i].off < End(es[i])
  BY <1>1, EntryFacts
<1>4. n # 0 => e.off = End(es[n])
  <2>1. n # 0 => es # <<>>
    OBVIOUS
  <2> QED
    BY <2>1 DEF EndOf
<1>5. n = 0 => e.off = 0
  <2>1. n = 0 => es = <<>>
    OBVIOUS
  <2> QED
    BY <2>1 DEF EndOf
<1>6. Len(more) = n + 1 /\ (\A i \in 1..n : more[i] = es[i]) /\ more[n + 1] = e
  OBVIOUS
<1> HIDE DEF n
<1>7. ASSUME NEW i \in 1..n + 1
      PROVE  /\ more[i].off = (IF i = 1 THEN 0 ELSE End(more[i - 1]))
             /\ 0 < more[i].sid /\ 0 < more[i].len /\ 2 * (i - 1) <= more[i].off
  <2>1. CASE i \in 1..n
    <3>1. i # 1 => i - 1 \in 1..n
      BY <1>1, <2>1
    <3> QED
      BY <1>2, <1>6, <2>1, <3>1
  <2>2. CASE i = n + 1 /\ n = 0
    BY <1>5, <1>6, <2>2
  <2>3. CASE i = n + 1 /\ n # 0
    <3>1. n \in 1..n /\ i - 1 = n /\ i # 1
      BY <1>1, <2>3
    <3>2. more[i].off = End(more[i - 1])
      BY <1>4, <1>6, <2>3, <3>1
    <3>3. 2 * (n - 1) <= es[n].off /\ 0 < es[n].len /\ End(es[n]) = es[n].off + 1 + es[n].len
          /\ es[n].off \in Nat /\ es[n].len \in Nat
      BY <1>2, <1>3, <3>1
    <3>4. 2 * (i - 1) <= End(es[n])
      <4>1. 2 * n <= End(es[n])
        BY <1>1, <3>3, TwoCells
      <4> QED
        BY <3>1, <4>1
    <3> QED
      BY <1>4, <1>6, <2>3, <3>1, <3>2, <3>4
  <2> QED
    BY <1>1, <2>1, <2>2, <2>3
<1>8. ASSUME NEW i \in 1..n + 1, NEW j \in 1..n + 1, i < j
      PROVE  End(more[i]) <= more[j].off
  <2>1. i \in 1..n /\ more[i] = es[i]
    BY <1>1, <1>6, <1>8
  <2>2. CASE j \in 1..n
    BY <1>2, <1>6, <1>8, <2>1, <2>2
  <2>3. CASE j = n + 1
    <3>1. n \in 1..n /\ n # 0 /\ (i = n \/ i < n)
      BY <1>1, <2>1
    <3>2. End(es[i]) <= End(es[n])
      <4>1. CASE i = n
        <5>1. End(es[n]) \in Nat
          BY <1>3, <3>1
        <5> QED
          BY <4>1, <5>1
      <4>2. CASE i < n
        <5>1. End(es[i]) <= es[n].off
          BY <1>2, <2>1, <3>1, <4>2
        <5>2. es[n].off < End(es[n]) /\ es[n].off \in Nat /\ End(es[n]) \in Nat
              /\ End(es[i]) \in Nat
          BY <1>3, <2>1, <3>1
        <5> QED
          BY <5>1, <5>2
      <4> QED
        BY <3>1, <4>1, <4>2
    <3> QED
      BY <1>4, <1>6, <2>1, <2>3, <3>1, <3>2
  <2> QED
    BY <1>1, <2>2, <2>3
<1>9. Chain(more)
  BY <1>6, <1>7, <1>8 DEF Chain
<1>10. EndOf(more) = End(e)
  <2>1. more # <<>>
    BY <1>1, <1>6
  <2> QED
    BY <1>6, <2>1 DEF EndOf
<1> QED
  BY <1>9, <1>10

\* A cursor goes on reading what it has read when the file grows behind it.
LEMMA CursorKeeps ==
  ASSUME NEW f \in Seq(Cell), NEW g \in Seq(Cell), Len(f) <= Len(g),
         \A i \in 1..Len(f) : g[i] = f[i], NEW c, CursorOK(f, c)
  PROVE  CursorOK(g, c)
<1>1. /\ c \in [st : {"none", "unseek", "ready"}, head : Cell, block : Nat, page : Seq(Cell)]
      /\ Len(c.page) <= Block /\ (c.page # <<>> => c.block * Block + Len(c.page) <= Len(f))
      /\ \A i \in 1..Len(c.page) : c.page[i] = f[c.block * Block + i]
  BY DEF CursorOK
<1>2. ASSUME c.st = "ready"
      PROVE  IsHeader(g, c.head.off) /\ c.head = g[c.head.off + 1] /\ c.head.off \in Nat
  <2>1. IsHeader(f, c.head.off) /\ c.head = f[c.head.off + 1] /\ c.head.off \in Nat
    BY <1>2 DEF CursorOK
  <2>2. c.head.off + 1 \in 1..Len(f) /\ c.head.off < Len(g)
    BY <2>1 DEF IsHeader
  <2>3. g[c.head.off + 1] = f[c.head.off + 1]
    BY <2>2
  <2> QED
    BY <2>1, <2>2, <2>3 DEF IsHeader
<1> DEFINE at == c.block * Block
<1>3. c.block \in Nat /\ c.page \in Seq(Cell) /\ Block \in Nat
  BY <1>1, Constants
<1>4. at \in Nat /\ Len(c.page) \in Nat
  BY <1>3
<1>5. ASSUME NEW i \in 1..Len(c.page)  PROVE c.page[i] = g[at + i]
  <2>1. c.page # <<>>
    BY <1>3
  <2>2. at + Len(c.page) <= Len(f)
    BY <1>1, <2>1
  <2>3. c.page[i] = f[at + i]
    BY <1>1
  <2> HIDE DEF at
  <2>4. at + i \in 1..Len(f)
    BY <1>4, <2>2
  <2> QED
    BY <2>3, <2>4
<1>6. c.page # <<>> => at + Len(c.page) <= Len(g)
  <2>1. c.page # <<>> => at + Len(c.page) <= Len(f)
    BY <1>1
  <2> HIDE DEF at
  <2> QED
    BY <1>4, <2>1
<1> QED
  BY <1>1, <1>2, <1>5, <1>6 DEF CursorOK

\* What a written record leaves in place.
LEMMA WrittenKeeps ==
  ASSUME Inv, st = "open", NEW s, NEW l, NEW k \in Nat, NEW g, IsWritten(s, l, k, g)
  PROVE  /\ \A i \in 1..Len(index \o cache) : Stands(g, (index \o cache)[i])
         /\ \A e \in kept : /\ Stands(g, e) /\ End(e) <= Len(g)
                            /\ \A j \in e.off+2..End(e) : g[j] = Data(e.sid)
         /\ ~dirty => CursorOK(g, cursor)
<1> DEFINE es == index \o cache
<1>1. Readable /\ TypeOK /\ KeptOK /\ OpenOK
  BY DEF Inv, Readable
<1>2. /\ file \in Seq(Cell) /\ HeadersOK(file) /\ es \in Seq(IndexEntry) /\ Chain(es)
      /\ (\A i \in 1..Len(es) : Stands(file, es[i]))
      /\ size = EndOf(es) /\ size \in Nat /\ size <= Len(file)
  BY <1>1, InUse DEF IsEntries
<1>3. /\ g \in Seq(Cell) /\ size + 1 + k <= Len(g) /\ Len(file) <= Len(g)
      /\ \A i \in 1..size : g[i] = file[i]
  BY DEF IsWritten
<1>4. size <= Len(g) /\ Len(g) \in Nat /\ Len(file) \in Nat
  BY <1>2, <1>3
<1>5. \A e \in kept : e \in IndexEntry /\ Stands(file, e) /\ End(e) <= size
                      /\ \A j \in e.off+2..End(e) : file[j] = Data(e.sid)
  BY <1>1 DEF TypeOK, KeptOK, OpenOK
<1> HIDE DEF es
<1>6. ASSUME NEW e \in IndexEntry, Stands(file, e), End(e) <= size  PROVE Stands(g, e)
  <2>1. e.off < size
    <3>1. e.off \in Nat /\ End(e) = e.off + 1 + e.len /\ e.len \in Nat
      BY <1>2, <1>6, StandsFacts
    <3> QED
      BY <1>2, <1>6, <3>1
  <2> QED
    BY <1>2, <1>3, <1>4, <1>6, <2>1, StillStands
<1>7. ASSUME NEW i \in 1..Len(es)  PROVE Stands(g, es[i])
  <2>1. es[i] \in IndexEntry /\ Stands(file, es[i]) /\ End(es[i]) <= size
    BY <1>2, ChainAscends
  <2> QED
    BY <1>6, <2>1
<1>8. ASSUME NEW e \in kept
      PROVE  Stands(g, e) /\ End(e) <= Len(g) /\ \A j \in e.off+2..End(e) : g[j] = Data(e.sid)
  <2>1. e.off \in Nat /\ End(e) \in Nat
    BY <1>2, <1>5, StandsFacts
  <2>2. ASSUME NEW j \in e.off+2..End(e)  PROVE g[j] = Data(e.sid)
    <3>1. j \in 1..size
      BY <1>2, <1>5, <2>1
    <3> QED
      BY <1>3, <1>5, <3>1
  <2>3. Stands(g, e)
    BY <1>5, <1>6
  <2>4. End(e) <= Len(g)
    BY <1>2, <1>4, <1>5, <2>1
  <2> QED
    BY <2>2, <2>3, <2>4
<1>9. ASSUME ~dirty  PROVE CursorOK(g, cursor)
  <2>1. CursorOK(file, cursor) /\ Len(file) = size
    BY <1>1, <1>9 DEF Inv, CursorInv, OpenOK
  <2>2. \A i \in 1..Len(file) : g[i] = file[i]
    BY <1>3, <2>1
  <2> QED
    BY <1>2, <1>3, <2>1, <2>2, CursorKeeps
<1> QED
  BY <1>7, <1>8, <1>9 DEF es


(***************************************************************************)
(* append().                                                               *)
(***************************************************************************)
\* What a record that is offered is.
LEMMA OfferedIs ==
  ASSUME Inv, NEW s \in Sids, NEW l \in Lens, Offered(s, l)
  PROVE  /\ st = "open" /\ Readable /\ s \in Nat /\ 0 < s /\ s > maxSid
         /\ l \in Nat /\ 0 < l /\ size + 1 + l < FullSize
  BY Constants DEF Offered, Readable, Sids

\* The entry that is cached for a record that was written.
LEMMA RecordsEntry ==
  ASSUME Inv, NEW s \in Sids, NEW l \in Lens, Offered(s, l), NEW e, e = Entry(Record(s, l, l)[1])
  PROVE  e \in IndexEntry /\ e.sid = s /\ e.off = size /\ e.len = l /\ End(e) = size + 1 + l
<1>1. s \in Nat /\ l \in Nat /\ TypeOK /\ size \in Nat
  BY OfferedIs DEF Inv, TypeOK
<1>2. Record(s, l, l)[1] = Header(s, num, size, l, prevOff)
  BY <1>1, RecordIs
<1>3. e = Entry(Header(s, num, size, l, prevOff))
  BY <1>2
<1>4. e = [sid |-> s, off |-> size, len |-> l]
  BY <1>3 DEF Entry, Header
<1> QED
  BY <1>1, <1>4 DEF IndexEntry, End

\* The entries after an entry was cached, with a flush of the cache before it or not.
IsOneMore(es, e, more) ==
  /\ more \in Seq(IndexEntry) /\ Len(more) = Len(es) + 1
  /\ \A i \in 1..Len(es) : more[i] = es[i]
  /\ more[Len(es) + 1] = e

LEMMA OneMore ==
  ASSUME NEW p \in Seq(IndexEntry), NEW e \in IndexEntry
  PROVE  IsOneMore(p, e, p \o <<e>>) /\ Append(p, e) = p \o <<e>>
<1>1. <<e>> \in Seq(IndexEntry) /\ Len(<<e>>) = 1 /\ <<e>>[1] = e
  OBVIOUS
<1>2. /\ p \o <<e>> \in Seq(IndexEntry) /\ Len(p \o <<e>>) = Len(p) + 1
      /\ \A i \in 1..Len(p) : (p \o <<e>>)[i] = p[i]
      /\ (p \o <<e>>)[Len(p) + 1] = e
  BY <1>1
<1>3. Append(p, e) = p \o <<e>>
  OBVIOUS
<1> QED
  BY <1>2, <1>3 DEF IsOneMore

LEMMA CacheAppendIs ==
  ASSUME Inv, st = "open", NEW e \in IndexEntry, 0 < e.sid, CacheAppend(e)
  PROVE  /\ index' \in Seq(IndexEntry) /\ cache' \in Seq(IndexEntry)
         /\ IsOneMore(index \o cache, e, index' \o cache')
         /\ cachePrev' = (IF index' = <<>> THEN 0 ELSE index'[Len(index')].sid)
         /\ cacheMin' = (IF cache' = <<>> THEN 0 ELSE cache'[1].sid)
         /\ cachePrev' \in Nat /\ cacheMin' \in Nat
<1> DEFINE es == index \o cache
<1>1. TypeOK /\ Readable /\ OpenOK /\ CacheOK
  BY DEF Inv, Readable
<1>2. /\ index \in Seq(IndexEntry) /\ cache \in Seq(IndexEntry) /\ e.sid \in Nat
      /\ cachePrev \in Nat /\ cacheMin \in Nat /\ maxSid \in Nat
  BY <1>1, EntryFacts DEF TypeOK
<1>3. /\ es \in Seq(IndexEntry) /\ Chain(es)
      /\ maxSid = (IF es = <<>> THEN 0 ELSE es[Len(es)].sid)
      /\ cachePrev = (IF index = <<>> THEN 0 ELSE index[Len(index)].sid)
      /\ cacheMin = (IF cache = <<>> THEN 0 ELSE cache[1].sid)
  BY <1>1, InUse DEF OpenOK, CacheOK, IsEntries
<1>4. cache # <<>> => 0 < cache[1].sid
  <2> SUFFICES ASSUME cache # <<>>  PROVE 0 < cache[1].sid
    OBVIOUS
  <2>1. Len(cache) \in Nat \ {0} /\ Len(index) \in Nat
    BY <1>2
  <2>2. Len(es) = Len(index) + Len(cache) /\ es[Len(index) + 1] = cache[1]
    BY <1>1, <2>1, EntriesAre
  <2>3. Len(index) + 1 \in 1..Len(es)
    BY <2>1, <2>2
  <2> QED
    BY <1>3, <2>2, <2>3 DEF Chain
<1> HIDE DEF es
<1>5. CASE Len(cache) < CacheNum
  <2>1. /\ cache' = Append(cache, e) /\ index' = index /\ cachePrev' = cachePrev
        /\ cacheMin' = IF cacheMin = 0 THEN e.sid ELSE cacheMin
    BY <1>5 DEF CacheAppend
  <2>2. cache' = cache \o <<e>> /\ IsOneMore(cache, e, cache')
    BY <1>2, <2>1, OneMore
  <2>3. cache' \in Seq(IndexEntry) /\ cache' # <<>>
    BY <1>2, <2>2 DEF IsOneMore
  <2>4. index' \o cache' = es \o <<e>>
    BY <1>2, <2>1, <2>2 DEF es
  <2>5. IsOneMore(es, e, index' \o cache')
    BY <1>3, <2>4, OneMore
  <2>6. cache = <<>> => cacheMin' = e.sid /\ cache'[1] = e
    <3>1. cache = <<>> => Len(cache) + 1 = 1
      OBVIOUS
    <3> QED
      BY <1>3, <2>1, <2>2, <3>1 DEF IsOneMore
  <2>7. cache # <<>> => cacheMin' = cacheMin /\ cache'[1] = cache[1]
    <3>1. cache # <<>> => 1 \in 1..Len(cache)
      BY <1>2
    <3> QED
      BY <1>2, <1>3, <1>4, <2>1, <2>2, <3>1 DEF IsOneMore
  <2>8. cacheMin' = cache'[1].sid
    BY <1>3, <2>6, <2>7
  <2>9. cacheMin' \in Nat
    BY <1>2, <2>1
  <2> QED
    BY <1>2, <1>3, <2>1, <2>3, <2>5, <2>8, <2>9 DEF es
<1>6. CASE ~(Len(cache) < CacheNum)
  <2>1. index' = es /\ cachePrev' = maxSid /\ cache' = <<e>> /\ cacheMin' = e.sid
    BY <1>6 DEF CacheAppend, FlushIndex, es
  <2>2. cache' \in Seq(IndexEntry) /\ cache' # <<>> /\ cache'[1] = e
    BY <2>1
  <2>3. IsOneMore(es, e, index' \o cache')
    BY <1>3, <2>1, OneMore
  <2> QED
    BY <1>2, <1>3, <2>1, <2>2, <2>3 DEF es
<1> QED
  BY <1>5, <1>6

LEMMA AppendRecordKeeps ==
  ASSUME Inv, NEW s \in Sids, NEW l \in Lens, AppendRecord(s, l)
  PROVE  Inv'
<1> DEFINE es == index \o cache
           e == Entry(Record(s, l, l)[1])
<1>1. /\ Offered(s, l) /\ file' = Over(file, size, Record(s, l, l)) /\ CacheAppend(e)
      /\ prevOff' = size /\ size' = End(e) /\ num' = num + 1
      /\ maxSid' = s /\ minSid' = (IF num = 0 THEN s ELSE minSid)
      /\ kept' = kept \cup {e}
      /\ UNCHANGED <<torn, synced, st, cursor, dirty>>
  BY DEF AppendRecord
<1>2. e \in IndexEntry /\ e.sid = s /\ e.off = size /\ e.len = l /\ End(e) = size + 1 + l
  BY <1>1, RecordsEntry
<1>3. /\ st = "open" /\ Readable /\ s \in Nat /\ 0 < s /\ s > maxSid
      /\ l \in Nat /\ 0 < l /\ size + 1 + l < FullSize
  BY <1>1, OfferedIs
<1> HIDE DEF e
<1>4. IsWritten(s, l, l, file')
  <2>1. l \in 0..l
    BY <1>3
  <2> QED
    BY <1>1, <2>1, Written
<1>5. TypeOK /\ OpenOK /\ size \in Nat /\ num \in Nat /\ minSid \in Nat
  BY DEF Inv, TypeOK
<1>6. /\ es \in Seq(IndexEntry) /\ Chain(es) /\ size = EndOf(es) /\ num = Len(es)
      /\ minSid = (IF es = <<>> THEN 0 ELSE es[1].sid)
  BY <1>3, <1>5, InUse DEF OpenOK, IsEntries
<1>7. /\ \A i \in 1..Len(es) : Stands(file', es[i])
      /\ \A d \in kept : /\ Stands(file', d) /\ End(d) <= Len(file')
                         /\ \A j \in d.off+2..End(d) : file'[j] = Data(d.sid)
      /\ ~dirty => CursorOK(file', cursor)
  BY <1>3, <1>4, WrittenKeeps
<1>8. /\ index' \in Seq(IndexEntry) /\ cache' \in Seq(IndexEntry)
      /\ IsOneMore(es, e, index' \o cache')
      /\ cachePrev' = (IF index' = <<>> THEN 0 ELSE index'[Len(index')].sid)
      /\ cacheMin' = (IF cache' = <<>> THEN 0 ELSE cache'[1].sid)
      /\ cachePrev' \in Nat /\ cacheMin' \in Nat
  BY <1>1, <1>2, <1>3, CacheAppendIs
<1> DEFINE more == index' \o cache'
<1> HIDE DEF es, more
<1>9. /\ more \in Seq(IndexEntry) /\ Len(more) = Len(es) + 1
      /\ (\A i \in 1..Len(es) : more[i] = es[i]) /\ more[Len(es) + 1] = e
  BY <1>8 DEF IsOneMore, more
<1>10. Chain(more) /\ EndOf(more) = End(e)
  BY <1>2, <1>3, <1>6, <1>9, ChainMore
<1>11. /\ file' \in Seq(Cell) /\ size + 1 + l <= Len(file')
       /\ Len(file) = size => Len(file') = size + 1 + l
       /\ IsHeader(file', size) /\ file'[size + 1] = Header(s, num, size, l, prevOff)
       /\ \A i \in size+2..size+1+l : file'[i] = Data(s)
       /\ \A o \in Nat : IsHeader(file', o) => o <= size
       /\ HeadersOK(file')
  BY <1>4 DEF IsWritten
<1>12. Stands(file', e)
  <2>1. Entry(file'[size + 1]) = [sid |-> s, off |-> size, len |-> l]
    BY <1>11 DEF Entry, Header
  <2>2. e = [sid |-> s, off |-> size, len |-> l]
    BY <1>2 DEF IndexEntry
  <2> QED
    BY <1>2, <1>11, <2>1, <2>2 DEF Stands
<1>13. ASSUME NEW i \in 1..Len(more)  PROVE Stands(file', more[i])
  <2>1. Len(es) \in Nat
    BY <1>6
  <2>2. CASE i \in 1..Len(es)
    BY <1>7, <1>9, <2>2
  <2>3. CASE i = Len(es) + 1
    BY <1>9, <1>12, <2>3
  <2> QED
    BY <1>9, <2>1, <2>2, <2>3
<1>14. TypeOK'
  <2>1. kept' \subseteq IndexEntry
    BY <1>1, <1>2, <1>5 DEF TypeOK
  <2>2. size' \in Nat /\ num' \in Nat /\ minSid' \in Nat /\ maxSid' \in Nat /\ prevOff' \in Nat
    BY <1>1, <1>2, <1>3, <1>5
  <2> QED
    BY <1>1, <1>5, <1>8, <1>11, <2>1, <2>2 DEF TypeOK
<1>15. HeadersOK(file)'
  BY <1>11
<1>16. IndexOK'
  <2>1. Chain(index') /\ \A i \in 1..Len(index') : Stands(file', index'[i])
    BY <1>8, <1>10, <1>13, IndexFollows DEF more
  <2> QED
    BY <2>1 DEF IndexOK
<1>17. KeptOK'
  <2>1. ASSUME NEW d \in kept'
        PROVE  /\ Stands(file', d) /\ End(d) <= Len(file')
               /\ \A k \in d.off+2..End(d) : file'[k] = Data(d.sid)
    <3>1. CASE d \in kept
      BY <1>7, <3>1
    <3>2. CASE d = e
      BY <1>2, <1>11, <1>12, <3>2
    <3> QED
      BY <1>1, <3>1, <3>2
  <2> QED
    BY <2>1 DEF KeptOK
<1>18. OpenOK'
  <2>1. BoundsOK(file', more, size')
    <3>1. size' = EndOf(more) /\ size' <= Len(file')
      BY <1>1, <1>2, <1>10, <1>11
    <3>2. ASSUME NEW o \in Nat, IsHeader(file', o)  PROVE o <= size'
      BY <1>1, <1>2, <1>3, <1>5, <1>11, <3>2
    <3> QED
      BY <1>10, <1>13, <3>1, <3>2 DEF BoundsOK
  <2>2. Len(es) \in Nat /\ Len(more) = Len(es) + 1 /\ more # <<>>
    BY <1>6, <1>9
  <2>3. num' = Len(more)
    BY <1>1, <1>6, <2>2
  <2>4. minSid' = more[1].sid
    <3>1. CASE es = <<>>
      BY <1>1, <1>2, <1>6, <1>9, <3>1
    <3>2. CASE es # <<>>
      <4>1. 1 \in 1..Len(es) /\ num # 0
        BY <1>6, <3>2
      <4> QED
        BY <1>1, <1>6, <1>9, <3>2, <4>1
    <3> QED
      BY <3>1, <3>2
  <2>5. maxSid' = more[Len(more)].sid /\ prevOff' = more[Len(more)].off
    BY <1>1, <1>2, <1>9
  <2>6. \A d \in kept' : End(d) <= size'
    <3>1. ASSUME NEW d \in kept'  PROVE End(d) <= size'
      <4>1. CASE d \in kept
        <5>1. d \in IndexEntry /\ End(d) <= size
          BY <1>3, <1>5, <4>1 DEF OpenOK, TypeOK
        <5>2. End(d) \in Nat
          BY <5>1, EntryFacts
        <5> QED
          BY <1>1, <1>2, <1>3, <1>5, <5>1, <5>2
      <4>2. CASE d = e
        BY <1>1, <1>2, <1>3, <1>5, <4>2
      <4> QED
        BY <1>1, <4>1, <4>2
    <3> QED
      BY <3>1
  <2>7. ~dirty' => Len(file') = size'
    BY <1>1, <1>2, <1>3, <1>5, <1>11 DEF OpenOK
  <2>8. ~torn'
    BY <1>1, <1>3, <1>5 DEF OpenOK
  <2> QED
    BY <2>1, <2>2, <2>3, <2>4, <2>5, <2>6, <2>7, <2>8 DEF OpenOK, more
<1>19. CacheOK'
  BY <1>1, <1>3, <1>8 DEF CacheOK
<1>20. CursorInv'
  BY <1>1, <1>3, <1>7 DEF CursorInv, Readable
<1>21. NewFile'
  BY <1>1, <1>3 DEF NewFile
<1> QED
  BY <1>14, <1>15, <1>16, <1>17, <1>18, <1>19, <1>20, <1>21 DEF Inv


\* The entries stay and the file grows by a piece of a record.
LEMMA AppendFailsKeeps ==
  ASSUME Inv, NEW s \in Sids, NEW l \in Lens, AppendFails(s, l)
  PROVE  Inv'
<1> DEFINE es == index \o cache
<1>1. /\ Offered(s, l) /\ dirty' = TRUE
      /\ UNCHANGED <<index, torn, synced, st, bounds, wcache, cursor, kept>>
  BY DEF AppendFails
<1>2. PICK k \in 0..l-1 : file' = Over(file, size, Record(s, l, k))
  BY DEF AppendFails
<1>3. st = "open" /\ Readable /\ l \in Nat /\ k \in 0..l /\ k \in Nat
  BY <1>1, OfferedIs
<1>4. IsWritten(s, l, k, file')
  BY <1>1, <1>2, <1>3, Written
<1>5. /\ \A i \in 1..Len(es) : Stands(file', es[i])
      /\ \A d \in kept : /\ Stands(file', d) /\ End(d) <= Len(file')
                         /\ \A j \in d.off+2..End(d) : file'[j] = Data(d.sid)
      /\ ~dirty => CursorOK(file', cursor)
  BY <1>3, <1>4, WrittenKeeps
<1>6. TypeOK /\ OpenOK /\ CacheOK /\ size \in Nat
  BY DEF Inv, TypeOK
<1>7. /\ file' \in Seq(Cell) /\ size + 1 + k <= Len(file')
      /\ \A o \in Nat : IsHeader(file', o) => o <= size
      /\ HeadersOK(file')
  BY <1>4 DEF IsWritten
<1>8. TypeOK'
  BY <1>1, <1>6, <1>7 DEF TypeOK, bounds, wcache
<1>9. IndexOK'
  <2>1. Chain(es)
    BY <1>3, <1>6 DEF OpenOK, BoundsOK
  <2>2. index \in Seq(IndexEntry) /\ cache \in Seq(IndexEntry)
    BY <1>6 DEF TypeOK
  <2>3. Chain(index) /\ \A i \in 1..Len(index) : Stands(file', index[i])
    BY <1>5, <2>1, <2>2, IndexFollows
  <2> QED
    BY <1>1, <2>3 DEF IndexOK
<1>10. KeptOK'
  BY <1>1, <1>5 DEF KeptOK
<1>11. OpenOK'
  <2>1. /\ ~torn /\ Chain(es) /\ size = EndOf(es)
        /\ num = Len(es)
        /\ minSid = (IF es = <<>> THEN 0 ELSE es[1].sid)
        /\ maxSid = (IF es = <<>> THEN 0 ELSE es[Len(es)].sid)
        /\ prevOff = (IF es = <<>> THEN 0 ELSE es[Len(es)].off)
        /\ \A e \in kept : End(e) <= size
    BY <1>3, <1>6 DEF OpenOK, BoundsOK
  <2>2. size <= Len(file')
    BY <1>3, <1>6, <1>7
  <2>3. BoundsOK(file', es, size)
    BY <1>5, <1>7, <2>1, <2>2 DEF BoundsOK
  <2> QED
    BY <1>1, <2>1, <2>3 DEF OpenOK, bounds, wcache
<1>12. CacheOK'
  BY <1>1, <1>6 DEF CacheOK, wcache, Readable
<1>13. CursorInv' /\ NewFile'
  BY <1>1, <1>3 DEF CursorInv, NewFile
<1> QED
  BY <1>7, <1>8, <1>9, <1>10, <1>11, <1>12, <1>13 DEF Inv

\* A part of the write cache is written, and the file is given up.
LEMMA FlushFails ==
  ASSUME Inv, st = "open", FlushIndexFails, NEW f,
         \A i \in 1..Len(index \o cache) : Stands(f, (index \o cache)[i])
  PROVE  /\ index' \in Seq(IndexEntry) /\ Chain(index')
         /\ \A i \in 1..Len(index') : Stands(f, index'[i])
<1> DEFINE es == index \o cache
<1>1. PICK n \in 0..Len(cache)-1 : index' = index \o SubSeq(cache, 1, n)
  BY DEF FlushIndexFails
<1>2. TypeOK /\ Readable /\ Chain(es)
  BY DEF Inv, Readable, OpenOK, BoundsOK
<1>3. /\ index \in Seq(IndexEntry) /\ cache \in Seq(IndexEntry)
      /\ Len(index) \in Nat /\ Len(cache) \in Nat
  BY <1>2 DEF TypeOK
<1> DEFINE part == SubSeq(cache, 1, n)
<1>4. /\ part \in Seq(IndexEntry) /\ Len(part) = n /\ n \in Nat /\ n <= Len(cache)
      /\ \A i \in 1..n : part[i] = cache[i]
  BY <1>3
<1>5. /\ es \in Seq(IndexEntry) /\ Len(es) = Len(index) + Len(cache)
      /\ \A i \in 1..Len(index) : es[i] = index[i]
      /\ \A i \in Len(index)+1..Len(index)+Len(cache) : es[i] = cache[i - Len(index)]
  BY <1>3, ConcatIs
<1> HIDE DEF es, part
<1>6. /\ index \o part \in Seq(IndexEntry) /\ Len(index \o part) = Len(index) + Len(part)
      /\ \A i \in 1..Len(index) : (index \o part)[i] = index[i]
      /\ \A i \in Len(index)+1..Len(index)+Len(part) : (index \o part)[i] = part[i - Len(index)]
  <2>1. index \in Seq(IndexEntry) /\ part \in Seq(IndexEntry)
    BY <1>3, <1>4
  <2> QED
    BY <2>1, ConcatIs
<1>7. /\ index' \in Seq(IndexEntry) /\ Len(index') = Len(index) + n
      /\ \A i \in 1..Len(index) : index'[i] = index[i]
      /\ \A i \in Len(index)+1..Len(index)+n : index'[i] = part[i - Len(index)]
  BY <1>1, <1>4, <1>6 DEF part
<1>8. ASSUME NEW i \in 1..Len(index')  PROVE i \in 1..Len(es) /\ index'[i] = es[i]
  <2>1. CASE i \in 1..Len(index)
    BY <1>3, <1>5, <1>7, <2>1
  <2>2. CASE i \in Len(index)+1..Len(index)+n
    <3>1. i - Len(index) \in 1..n /\ i \in Len(index)+1..Len(index)+Len(cache)
      BY <1>3, <1>4, <2>2
    <3>2. es[i] = cache[i - Len(index)] /\ index'[i] = part[i - Len(index)]
      BY <1>5, <1>7, <2>2, <3>1
    <3> QED
      BY <1>3, <1>4, <1>5, <3>1, <3>2
  <2> QED
    BY <1>3, <1>4, <1>7, <2>1, <2>2
<1>9. Len(index') <= Len(es)
  BY <1>3, <1>4, <1>5, <1>7
<1>10. Chain(index')
  BY <1>2, <1>5, <1>7, <1>8, <1>9, ChainCut
<1> QED
  BY <1>7, <1>8, <1>10 DEF es

LEMMA AppendFailsIndexKeeps ==
  ASSUME Inv, NEW s \in Sids, NEW l \in Lens, AppendFailsIndex(s, l)
  PROVE  Inv'
<1>1. /\ Offered(s, l) /\ file' = Over(file, size, Record(s, l, l)) /\ FlushIndexFails
      /\ dirty' = TRUE /\ torn' \in BOOLEAN /\ st' = "invalid"
      /\ UNCHANGED <<synced, bounds, wcache, cursor, kept>>
  BY DEF AppendFailsIndex, FlushIndexFails
<1>2. st = "open" /\ l \in Nat /\ l \in 0..l
  BY <1>1, OfferedIs
<1>3. IsWritten(s, l, l, file')
  BY <1>1, <1>2, Written
<1>4. /\ \A i \in 1..Len(index \o cache) : Stands(file', (index \o cache)[i])
      /\ \A d \in kept : /\ Stands(file', d) /\ End(d) <= Len(file')
                         /\ \A j \in d.off+2..End(d) : file'[j] = Data(d.sid)
      /\ ~dirty => CursorOK(file', cursor)
  BY <1>2, <1>3, WrittenKeeps
<1>5. /\ index' \in Seq(IndexEntry) /\ Chain(index')
      /\ \A i \in 1..Len(index') : Stands(file', index'[i])
  BY <1>1, <1>2, <1>4, FlushFails
<1>6. file' \in Seq(Cell) /\ HeadersOK(file') /\ TypeOK
  BY <1>3 DEF IsWritten, Inv
<1>7. TypeOK'
  BY <1>1, <1>5, <1>6 DEF TypeOK, bounds, wcache
<1>8. IndexOK' /\ KeptOK'
  BY <1>1, <1>4, <1>5 DEF IndexOK, KeptOK
<1>9. OpenOK' /\ CacheOK' /\ CursorInv' /\ NewFile'
  BY <1>1 DEF OpenOK, CacheOK, CursorInv, NewFile, Readable
<1> QED
  BY <1>6, <1>7, <1>8, <1>9 DEF Inv

LEMMA FlushCacheFailsKeeps ==
  ASSUME Inv, FlushCacheFails
  PROVE  Inv'
<1>1. /\ st = "open" /\ FlushIndexFails
      /\ torn' \in BOOLEAN /\ st' = "invalid"
      /\ UNCHANGED <<file, synced, bounds, wcache, cursor, kept, dirty>>
  BY DEF FlushCacheFails, FlushIndexFails
<1>2. \A i \in 1..Len(index \o cache) : Stands(file, (index \o cache)[i])
  BY <1>1 DEF Inv, OpenOK, BoundsOK, Readable
<1>3. /\ index' \in Seq(IndexEntry) /\ Chain(index')
      /\ \A i \in 1..Len(index') : Stands(file, index'[i])
  BY <1>1, <1>2, FlushFails
<1>4. TypeOK'
  BY <1>1, <1>3 DEF TypeOK, bounds, wcache, Inv
<1>5. HeadersOK(file)' /\ IndexOK' /\ KeptOK'
  BY <1>1, <1>3 DEF Inv, IndexOK, KeptOK
<1>6. OpenOK' /\ CacheOK' /\ CursorInv' /\ NewFile'
  BY <1>1 DEF OpenOK, CacheOK, CursorInv, NewFile, Readable
<1> QED
  BY <1>4, <1>5, <1>6 DEF Inv

\* The cache is empty and its entries are in the index file; what is known of the
\* file stays.
Flushed ==
  /\ index' = index \o cache /\ cache' = <<>>
  /\ UNCHANGED <<file, torn, bounds, kept, dirty>>

LEMMA FlushedKeeps ==
  ASSUME Inv, Readable, Flushed, Readable'
  PROVE  /\ index' \in Seq(IndexEntry) /\ cache' \in Seq(IndexEntry)
         /\ IndexOK' /\ KeptOK' /\ OpenOK'
         /\ maxSid = (IF index' = <<>> THEN 0 ELSE index'[Len(index')].sid)
<1> DEFINE es == index \o cache
<1>1. es \in Seq(IndexEntry) /\ OpenOK /\ KeptOK
  BY InUse DEF Inv, IsEntries
<1> HIDE DEF es
<1>2. index' = es /\ cache' = <<>> /\ UNCHANGED <<file, torn, bounds, kept, dirty>>
  BY DEF Flushed, es
<1>3. es \o <<>> = es /\ <<>> \in Seq(IndexEntry)
  BY <1>1, EmptyTail
<1>4. index' \o cache' = es
  BY <1>2, <1>3
<1>5. OpenOK'
  BY <1>1, <1>2, <1>4 DEF OpenOK, bounds, es
<1>6. BoundsOK(file, es, size) /\ maxSid = (IF es = <<>> THEN 0 ELSE es[Len(es)].sid)
  BY <1>1 DEF OpenOK, es
<1>7. IndexOK'
  BY <1>2, <1>6 DEF IndexOK, BoundsOK
<1>8. KeptOK'
  BY <1>1, <1>2 DEF KeptOK
<1> QED
  BY <1>1, <1>2, <1>3, <1>5, <1>6, <1>7, <1>8

LEMMA FlushCacheKeeps ==
  ASSUME Inv, FlushCache
  PROVE  Inv'
<1>1. /\ st = "open" /\ index' = index \o cache /\ cachePrev' = maxSid
      /\ cache' = <<>> /\ cacheMin' = 0
      /\ UNCHANGED <<file, torn, synced, st, bounds, cursor, kept, dirty>>
  BY DEF FlushCache, FlushIndex
<1>2. Readable /\ Readable' /\ Flushed
  BY <1>1 DEF Readable, Flushed
<1>3. /\ index' \in Seq(IndexEntry) /\ cache' \in Seq(IndexEntry)
      /\ IndexOK' /\ KeptOK' /\ OpenOK'
      /\ maxSid = (IF index' = <<>> THEN 0 ELSE index'[Len(index')].sid)
  BY <1>2, FlushedKeeps
<1>4. TypeOK'
  BY <1>1, <1>3 DEF Inv, TypeOK, bounds
<1>5. CacheOK'
  BY <1>1, <1>3 DEF CacheOK
<1>6. HeadersOK(file)' /\ CursorInv' /\ NewFile'
  BY <1>1 DEF Inv, CursorInv, Readable, NewFile
<1> QED
  BY <1>3, <1>4, <1>5, <1>6 DEF Inv

LEMMA SetReadOnlyKeeps ==
  ASSUME Inv, SetReadOnly
  PROVE  Inv'
<1>1. /\ st = "open" /\ index' = index \o cache
      /\ synced' = [file |-> Len(file), index |-> Len(index')]
      /\ cache' = <<>> /\ cachePrev' = 0 /\ cacheMin' = 0
      /\ st' = "readonly"
      /\ UNCHANGED <<file, torn, bounds, cursor, kept, dirty>>
  BY DEF SetReadOnly, SyncedAll
<1>2. Readable /\ Readable' /\ Flushed
  BY <1>1 DEF Readable, Flushed
<1>3. /\ index' \in Seq(IndexEntry) /\ cache' \in Seq(IndexEntry)
      /\ IndexOK' /\ KeptOK' /\ OpenOK'
  BY <1>2, FlushedKeeps
<1>4. TypeOK'
  <2>1. Len(file) \in Nat /\ Len(index') \in Nat
    BY <1>3 DEF Inv, TypeOK
  <2>2. synced' \in [file : Nat, index : Nat]
    BY <1>1, <2>1
  <2> QED
    BY <1>1, <1>3, <2>2 DEF Inv, TypeOK, bounds
<1>5. CacheOK'
  BY <1>1 DEF CacheOK
<1>6. HeadersOK(file)' /\ CursorInv' /\ NewFile'
  BY <1>1 DEF Inv, CursorInv, Readable, NewFile
<1> QED
  BY <1>3, <1>4, <1>5, <1>6 DEF Inv

LEMMA FsyncKeeps ==
  ASSUME Inv, NEW all \in BOOLEAN, Fsync(all)
  PROVE  Inv'
<1>1. /\ synced' = [file |-> Len(file), index |-> IF all THEN Len(index) ELSE synced.index]
      /\ UNCHANGED <<file, index, torn, st, bounds, wcache, cursor, kept, dirty>>
  BY DEF Fsync
<1>2. TypeOK'
  <2>1. Len(file) \in Nat /\ Len(index) \in Nat /\ synced.index \in Nat /\ TypeOK
    BY DEF Inv, TypeOK
  <2>2. synced' \in [file : Nat, index : Nat]
    BY <1>1, <2>1
  <2> QED
    BY <1>1, <2>1, <2>2 DEF TypeOK, bounds, wcache
<1>3. HeadersOK(file)' /\ IndexOK' /\ KeptOK'
  BY <1>1 DEF Inv, IndexOK, KeptOK
<1>4. OpenOK' /\ CacheOK' /\ CursorInv' /\ NewFile'
  BY <1>1 DEF Inv, OpenOK, CacheOK, CursorInv, NewFile, Readable, bounds, wcache
<1> QED
  BY <1>2, <1>3, <1>4 DEF Inv


(***************************************************************************)
(* The end of the process, and open().                                      *)
(***************************************************************************)
LEMMA DownKeeps ==
  ASSUME Down, file' \in Seq(Cell), HeadersOK(file'), index' \in Seq(IndexEntry), IndexOK',
         kept' \subseteq IndexEntry, KeptOK', torn' \in BOOLEAN, synced' \in [file : Nat, index : Nat]
  PROVE  Inv'
<1>1. /\ st' = "closed" /\ cursor' = NoCursor /\ dirty' = FALSE
      /\ size' = 0 /\ num' = 0 /\ minSid' = 0 /\ maxSid' = 0 /\ prevOff' = 0
      /\ cache' = <<>> /\ cachePrev' = 0 /\ cacheMin' = 0
  BY DEF Down
<1>2. TypeOK'
  <2>1. cache' \in Seq(IndexEntry)
    BY <1>1
  <2> QED
    BY <1>1, <2>1 DEF TypeOK
<1>3. OpenOK' /\ CacheOK' /\ CursorInv' /\ NewFile'
  BY <1>1 DEF OpenOK, CacheOK, CursorInv, NewFile, Readable
<1> QED
  BY <1>2, <1>3 DEF Inv

LEMMA CloseKeeps ==
  ASSUME Inv, Close
  PROVE  Inv'
<1>1. /\ st = "open" /\ index' = index \o cache
      /\ synced' = [file |-> Len(file), index |-> Len(index')]
      /\ UNCHANGED <<file, torn, kept>> /\ Down
  BY DEF Close, SyncedAll
<1>2. /\ index' \in Seq(IndexEntry) /\ Chain(index')
      /\ \A i \in 1..Len(index') : Stands(file, index'[i])
  BY <1>1, InUse DEF Readable, IsEntries
<1>3. TypeOK /\ HeadersOK(file) /\ KeptOK
  BY DEF Inv
<1>4. IndexOK' /\ KeptOK'
  BY <1>1, <1>2, <1>3 DEF IndexOK, KeptOK
<1>5. synced' \in [file : Nat, index : Nat]
  <2>1. Len(file) \in Nat /\ Len(index') \in Nat
    BY <1>2, <1>3 DEF TypeOK
  <2> QED
    BY <1>1, <2>1
<1>6. file' \in Seq(Cell) /\ HeadersOK(file') /\ kept' \subseteq IndexEntry /\ torn' \in BOOLEAN
  BY <1>1, <1>3 DEF TypeOK
<1> QED
  BY <1>1, <1>2, <1>4, <1>5, <1>6, DownKeeps

LEMMA CrashKeeps ==
  ASSUME Inv, Crash
  PROVE  Inv'
<1>1. UNCHANGED <<index, torn, synced, kept>> /\ Down
  BY DEF Crash
<1>2. TypeOK /\ HeadersOK(file) /\ IndexOK /\ KeptOK
  BY DEF Inv
<1>3. /\ index' \in Seq(IndexEntry) /\ kept' \subseteq IndexEntry /\ torn' \in BOOLEAN
      /\ synced' \in [file : Nat, index : Nat]
  BY <1>1, <1>2 DEF TypeOK
<1>4. CASE file' = file
  <2>1. IndexOK' /\ KeptOK' /\ file' \in Seq(Cell) /\ HeadersOK(file')
    BY <1>1, <1>2, <1>4 DEF IndexOK, KeptOK, TypeOK
  <2> QED
    BY <1>1, <1>3, <2>1, DownKeeps
<1>5. CASE \E s \in Sids, l \in Lens : \E k \in 0..l :
             Offered(s, l) /\ file' = Over(file, size, Record(s, l, k))
  <2>1. PICK s \in Sids, l \in Lens : \E k \in 0..l :
               Offered(s, l) /\ file' = Over(file, size, Record(s, l, k))
    BY <1>5
  <2>2. PICK k \in 0..l : Offered(s, l) /\ file' = Over(file, size, Record(s, l, k))
    BY <2>1
  <2>3. st = "open" /\ l \in Nat /\ k \in Nat /\ Readable
    BY <2>2, OfferedIs
  <2>4. IsWritten(s, l, k, file')
    BY <2>2, Written
  <2>5. /\ \A i \in 1..Len(index \o cache) : Stands(file', (index \o cache)[i])
        /\ \A d \in kept : /\ Stands(file', d) /\ End(d) <= Len(file')
                           /\ \A j \in d.off+2..End(d) : file'[j] = Data(d.sid)
        /\ ~dirty => CursorOK(file', cursor)
    BY <2>3, <2>4, WrittenKeeps
  <2>6. Chain(index \o cache) /\ index \in Seq(IndexEntry) /\ cache \in Seq(IndexEntry)
    BY <1>2, <2>3, InUse DEF TypeOK, IsEntries
  <2>7. Chain(index) /\ \A i \in 1..Len(index) : Stands(file', index[i])
    BY <2>5, <2>6, IndexFollows
  <2>8. IndexOK' /\ KeptOK' /\ file' \in Seq(Cell) /\ HeadersOK(file')
    BY <1>1, <2>4, <2>5, <2>7 DEF IndexOK, KeptOK, IsWritten
  <2> QED
    BY <1>1, <1>3, <2>8, DownKeeps
<1> QED
  BY <1>4, <1>5 DEF Crash

LEMMA MachineCrashKeeps ==
  ASSUME Inv, MachineCrash
  PROVE  Inv'
<1>1. /\ torn' \in BOOLEAN /\ synced' = [file |-> Len(file'), index |-> Len(index')]
      /\ kept' = {e \in kept : End(e) <= synced.file}
      /\ Down
  BY DEF MachineCrash, SyncedAll
<1>2. PICK n \in synced.file..Len(file) : file' = SubSeq(file, 1, n)
  BY DEF MachineCrash
<1>3. PICK m \in synced.index..Len(index) : index' = SubSeq(index, 1, m)
  BY DEF MachineCrash
<1>4. TypeOK /\ HeadersOK(file) /\ IndexOK /\ KeptOK
  BY DEF Inv
<1>5. /\ file \in Seq(Cell) /\ index \in Seq(IndexEntry) /\ kept \subseteq IndexEntry
      /\ synced.file \in Nat /\ synced.index \in Nat
  BY <1>4 DEF TypeOK
<1>6. n \in 0..Len(file) /\ n \in Nat /\ synced.file <= n /\ m \in 0..Len(index) /\ m \in Nat
      /\ Len(file) \in Nat /\ Len(index) \in Nat
  BY <1>5
<1>7. /\ file' \in Seq(Cell) /\ Len(file') = n /\ \A i \in 1..n : file'[i] = file[i]
      /\ HeadersOK(file')
  <2>1. file' \in Seq(Cell) /\ Len(file') = n /\ \A i \in 1..n : file'[i] = file[i]
    BY <1>2, <1>5, <1>6
  <2>2. HeadersOK(file')
    BY <1>4, <1>5, <1>6, <2>1, PrefixIs
  <2> QED
    BY <2>1, <2>2
<1>8. /\ index' \in Seq(IndexEntry) /\ Len(index') = m /\ \A i \in 1..m : index'[i] = index[i]
  BY <1>3, <1>5, <1>6
<1>9. ASSUME NEW e \in IndexEntry, Stands(file, e), e.off < n  PROVE Stands(file', e)
  <2>1. n <= Len(file')
    BY <1>6, <1>7
  <2> QED
    BY <1>5, <1>6, <1>7, <1>9, <2>1, StillStands
<1>10. IndexOK'
  <2>1. Chain(index) /\ m <= Len(index)
    BY <1>4, <1>6 DEF IndexOK
  <2>2. Chain(index')
    BY <1>5, <1>8, <2>1, ChainCut
  <2>3. ASSUME NEW i \in 1..Len(index'), index'[i].off < Len(file')  PROVE Stands(file', index'[i])
    <3>1. i \in 1..Len(index) /\ index'[i] = index[i] /\ index[i] \in IndexEntry
      BY <1>5, <1>6, <1>8
    <3>2. index[i].off < n /\ index[i].off \in Nat
      BY <1>7, <2>3, <3>1, EntryFacts
    <3>3. index[i].off < Len(file)
      BY <1>6, <3>2
    <3>4. Stands(file, index[i])
      BY <1>4, <3>1, <3>3 DEF IndexOK
    <3> QED
      BY <1>9, <3>1, <3>2, <3>4
  <2> QED
    BY <2>2, <2>3 DEF IndexOK
<1>11. KeptOK'
  <2>1. ASSUME NEW e \in kept'
        PROVE  /\ Stands(file', e) /\ End(e) <= Len(file')
               /\ \A k \in e.off+2..End(e) : file'[k] = Data(e.sid)
    <3>1. e \in kept /\ e \in IndexEntry /\ End(e) <= synced.file
      BY <1>1, <1>5
    <3>2. Stands(file, e) /\ \A k \in e.off+2..End(e) : file[k] = Data(e.sid)
      BY <1>4, <3>1 DEF KeptOK
    <3>3. End(e) \in Nat /\ e.off \in Nat /\ e.off < End(e)
      BY <3>1, EntryFacts
    <3>4. End(e) <= n /\ e.off < n
      BY <1>5, <1>6, <3>1, <3>3
    <3>5. \A k \in e.off+2..End(e) : k \in 1..n
      BY <1>6, <3>3, <3>4
    <3> QED
      BY <1>7, <1>9, <3>1, <3>2, <3>4, <3>5
  <2> QED
    BY <2>1 DEF KeptOK
<1>12. synced' \in [file : Nat, index : Nat]
  BY <1>1, <1>6, <1>7, <1>8
<1>13. kept' \subseteq IndexEntry
  BY <1>1, <1>5
<1> QED
  BY <1>1, <1>7, <1>8, <1>10, <1>11, <1>12, <1>13, DownKeeps

\* A file that was closed comes into use with entries that agree with it.
LEMMA OpenedKeeps ==
  ASSUME Inv, st \in {"none", "closed"}, NEW readOnly \in BOOLEAN,
         Opened(index', Len(file'), readOnly), ~torn', torn' \in BOOLEAN,
         file' \in Seq(Cell), HeadersOK(file'), index' \in Seq(IndexEntry),
         BoundsOK(file', index', Len(file')), KeptOK'
  PROVE  Inv'
<1>1. /\ size' = Len(file') /\ num' = Len(index')
      /\ minSid' = (IF index' = <<>> THEN 0 ELSE index'[1].sid)
      /\ maxSid' = (IF index' = <<>> THEN 0 ELSE index'[Len(index')].sid)
      /\ prevOff' = (IF index' = <<>> THEN 0 ELSE index'[Len(index')].off)
      /\ cache' = <<>> /\ cachePrev' = maxSid' /\ cacheMin' = 0
      /\ st' = (IF readOnly THEN "readonly" ELSE "open")
      /\ dirty' = FALSE
      /\ UNCHANGED <<synced, cursor, kept>>
  BY DEF Opened, Last
<1>2. TypeOK /\ cursor = NoCursor
  BY DEF Inv, CursorInv
<1>3. index' \o cache' = index' /\ cache' \in Seq(IndexEntry)
  <2>1. index' \o <<>> = index' /\ <<>> \in Seq(IndexEntry)
    BY EmptyTail
  <2> QED
    BY <1>1, <2>1
<1>4. TypeOK'
  <2>1. index' # <<>> => /\ index'[1].sid \in Nat /\ index'[Len(index')].sid \in Nat
                         /\ index'[Len(index')].off \in Nat
    <3> SUFFICES ASSUME index' # <<>>
                 PROVE  /\ index'[1].sid \in Nat /\ index'[Len(index')].sid \in Nat
                        /\ index'[Len(index')].off \in Nat
      OBVIOUS
    <3>1. 1 \in 1..Len(index') /\ Len(index') \in 1..Len(index')
      OBVIOUS
    <3>2. index'[1] \in IndexEntry /\ index'[Len(index')] \in IndexEntry
      BY <3>1
    <3> QED
      BY <3>2, EntryFacts
  <2>2. minSid' \in Nat /\ maxSid' \in Nat /\ prevOff' \in Nat
    BY <1>1, <2>1
  <2>3. size' \in Nat /\ num' \in Nat
    BY <1>1
  <2>4. st' \in {"open", "readonly"}
    BY <1>1
  <2> QED
    BY <1>1, <1>2, <1>3, <2>2, <2>3, <2>4 DEF TypeOK
<1>5. IndexOK'
  BY DEF IndexOK, BoundsOK
<1>6. OpenOK'
  <2>1. \A e \in kept' : End(e) <= Len(file')
    BY DEF KeptOK
  <2> QED
    BY <1>1, <1>3, <2>1 DEF OpenOK
<1>7. CacheOK'
  BY <1>1 DEF CacheOK
<1>8. CursorInv'
  <2>1. NoCursor = [st |-> "none", head |-> Zero, block |-> 0, page |-> <<>>] /\ Zero \in Cell
    BY DEF NoCursor, Zero, Header, Cell
  <2> DEFINE c == NoCursor
  <2>2. c.st = "none" /\ c.page = <<>> /\ c.head = Zero /\ c.block = 0
    BY <2>1
  <2>3. c \in [st : {"none", "unseek", "ready"}, head : Cell, block : Nat, page : Seq(Cell)]
    BY <2>1
  <2> HIDE DEF c
  <2>4. Block \in Nat /\ Len(c.page) = 0
    BY <2>2, Constants
  <2>5. CursorOK(file', c)
    BY <2>2, <2>3, <2>4 DEF CursorOK
  <2>6. st' \notin {"none", "closed"}
    BY <1>1
  <2> QED
    BY <1>1, <1>2, <2>5, <2>6 DEF CursorInv, c
<1>9. NewFile'
  BY <1>1 DEF NewFile
<1> QED
  BY <1>4, <1>5, <1>6, <1>7, <1>8, <1>9 DEF Inv

LEMMA MkBinlogKeeps ==
  ASSUME Inv, MkBinlog
  PROVE  Inv'
<1>1. /\ st = "none" /\ file' = <<>> /\ index' = <<>> /\ torn' = FALSE
      /\ Opened(<<>>, 0, FALSE)
  BY DEF MkBinlog
<1>2. Opened(index', Len(file'), FALSE)
  BY <1>1
<1>3. file' \in Seq(Cell) /\ index' \in Seq(IndexEntry) /\ Len(file') = 0
  BY <1>1
<1>4. \A o \in Nat : ~IsHeader(file', o)
  BY <1>3 DEF IsHeader
<1>5. HeadersOK(file')
  BY <1>4 DEF HeadersOK
<1>6. BoundsOK(file', index', Len(file'))
  <2>1. Chain(index') /\ EndOf(index') = 0 /\ Len(index') = 0
    BY <1>1 DEF Chain, EndOf
  <2> QED
    BY <1>3, <1>4, <2>1 DEF BoundsOK
<1>7. KeptOK'
  <2>1. kept' = {}
    BY <1>1, <1>2 DEF Inv, NewFile, Opened
  <2> QED
    BY <2>1 DEF KeptOK
<1> QED
  BY <1>1, <1>2, <1>3, <1>5, <1>6, <1>7, OpenedKeeps


\* The entries of an index that ends where the file does are in the file.
LEMMA IndexFits ==
  ASSUME Inv, index # <<>>, End(Last(index)) = Len(file)
  PROVE  BoundsOK(file, index, Len(file))
<1> DEFINE n == Len(index)
<1>1. /\ index \in Seq(IndexEntry) /\ Len(file) \in Nat /\ Chain(index)
      /\ \A i \in 1..n : index[i].off < Len(file) => Stands(file, index[i])
  BY DEF Inv, TypeOK, IndexOK
<1>2. n \in Nat /\ n \in 1..n /\ End(index[n]) = Len(file) /\ \A i \in 1..n : index[i] \in IndexEntry
  BY <1>1 DEF Last
<1> HIDE DEF n
<1>3. ASSUME NEW i \in 1..n  PROVE Stands(file, index[i])
  <2>1. index[i].off < Len(file)
    <3>1. index[i].off \in Nat /\ End(index[i]) \in Nat /\ index[i].off < End(index[i])
      BY <1>2, EntryFacts
    <3>2. CASE i = n
      BY <1>2, <3>1, <3>2
    <3>3. CASE i < n
      <4>1. End(index[i]) <= index[n].off
        BY <1>1, <1>2, <3>3 DEF Chain, n
      <4>2. index[n].off \in Nat /\ index[n].off < End(index[n]) /\ End(index[n]) \in Nat
        BY <1>2, EntryFacts
      <4> QED
        BY <1>2, <3>1, <4>1, <4>2
    <3> QED
      BY <1>2, <3>2, <3>3
  <2> QED
    BY <1>1, <2>1
<1>4. EndOf(index) = Len(file)
  BY <1>2 DEF EndOf, n
<1>5. \A o \in Nat : IsHeader(file, o) => o <= Len(file)
  BY <1>1 DEF IsHeader
<1> QED
  BY <1>1, <1>3, <1>4, <1>5 DEF BoundsOK, n

LEMMA OpenKeeps ==
  ASSUME Inv, NEW readOnly \in BOOLEAN, Open(readOnly)
  PROVE  Inv'
<1>1. st = "closed" /\ Opened(index', Len(file'), readOnly) /\ kept' = kept
  BY DEF Open, Opened
<1>2. TypeOK /\ HeadersOK(file) /\ KeptOK /\ file \in Seq(Cell) /\ Len(file) \in Nat
  BY DEF Inv, TypeOK
<1>3. CASE ~IsRebuildIndex
  <2>1. UNCHANGED <<file, index, torn>>
    BY <1>3 DEF Open
  <2>2. ~torn /\ index # <<>> /\ End(Last(index)) = Len(file)
    BY <1>3 DEF IsRebuildIndex
  <2>3. BoundsOK(file, index, Len(file))
    BY <2>2, IndexFits
  <2>4. KeptOK'
    BY <1>1, <1>2, <2>1 DEF KeptOK
  <2>5. ~torn' /\ torn' \in BOOLEAN /\ file' \in Seq(Cell) /\ HeadersOK(file')
        /\ index' \in Seq(IndexEntry) /\ BoundsOK(file', index', Len(file'))
    BY <1>2, <2>1, <2>2, <2>3 DEF TypeOK
  <2> QED
    BY <1>1, <2>4, <2>5, OpenedKeeps
<1>4. CASE IsRebuildIndex
  <2> DEFINE es == Entries(Scan(file))
             n == EndOf(es)
  <2>1. CreateIndex
    BY <1>4 DEF Open
  <2>2. /\ Clean(file) /\ index' = es /\ torn' = FALSE
        /\ file' = Truncated(file, IF es = <<>> THEN 0 ELSE End(Last(es)))
    BY <2>1 DEF CreateIndex
  <2>3. file' = Truncated(file, n)
    BY <2>2 DEF EndOf, Last
  <2>4. es = Entries(Scan(file))
    OBVIOUS
  <2> HIDE DEF es
  <2>5. /\ es \in Seq(IndexEntry) /\ Len(es) = Stop(file)
        /\ Chain(es) /\ \A i \in 1..Len(es) : Stands(file, es[i])
        /\ EndOf(es) = Places(file)[Stop(file)] /\ ~IsHeader(file, EndOf(es))
    BY <1>2, <2>4, ScanOf
  <2>6. n \in Nat /\ Len(file) <= n
    BY <1>2, <2>2, <2>5, ChainAscends DEF Clean
  <2>7. file = <<>> => n = 0
    <3> SUFFICES ASSUME file = <<>>, es # <<>>  PROVE FALSE
      BY DEF EndOf
    <3>1. 1 \in 1..Len(es) /\ es[1] \in IndexEntry
      BY <2>5
    <3>2. es[1].off \in Nat /\ es[1].off < Len(file)
      BY <1>2, <2>5, <3>1, StandsFacts
    <3> QED
      BY <3>2
  <2> HIDE DEF n
  <2>8. /\ Truncated(file, n) \in Seq(Cell) /\ Len(Truncated(file, n)) = n
        /\ \A i \in 1..Len(file) : Truncated(file, n)[i] = file[i]
        /\ \A o \in Nat : IsHeader(Truncated(file, n), o) <=> IsHeader(file, o)
        /\ HeadersOK(Truncated(file, n))
    BY <1>2, <2>6, <2>7, TruncatedIs
  <2>9. /\ file' \in Seq(Cell) /\ Len(file') = n /\ \A i \in 1..Len(file) : file'[i] = file[i]
        /\ \A o \in Nat : IsHeader(file', o) <=> IsHeader(file, o)
        /\ HeadersOK(file')
    BY <2>3, <2>8
  <2>10. ASSUME NEW e \in IndexEntry, Stands(file, e)  PROVE Stands(file', e)
    <3>1. e.off < Len(file)
      BY <1>2, <2>10, StandsFacts
    <3>2. Len(file) <= Len(file')
      BY <2>6, <2>9
    <3> QED
      BY <1>2, <2>9, <2>10, <3>1, <3>2, StillStands
  <2>11. BoundsOK(file', index', Len(file'))
    <3>1. \A i \in 1..Len(es) : Stands(file', es[i])
      BY <2>5, <2>10
    <3>2. \A o \in Nat : IsHeader(file', o) => o <= n
      BY <2>6, <2>9 DEF IsHeader
    <3>3. n = EndOf(es) /\ n <= Len(file')
      BY <2>6, <2>9 DEF n
    <3> QED
      BY <2>2, <2>5, <2>9, <3>1, <3>2, <3>3 DEF BoundsOK
  <2>12. KeptOK'
    <3>1. ASSUME NEW e \in kept
          PROVE  /\ Stands(file', e) /\ End(e) <= Len(file')
                 /\ \A k \in e.off+2..End(e) : file'[k] = Data(e.sid)
      <4>1. /\ e \in IndexEntry /\ Stands(file, e) /\ End(e) <= Len(file)
            /\ \A k \in e.off+2..End(e) : file[k] = Data(e.sid)
        BY <1>2 DEF TypeOK, KeptOK
      <4>2. End(e) \in Nat /\ e.off \in Nat
        BY <4>1, EntryFacts
      <4>3. \A k \in e.off+2..End(e) : k \in 1..Len(file)
        BY <1>2, <4>1, <4>2
      <4>4. End(e) <= Len(file')
        BY <1>2, <2>6, <2>9, <4>1, <4>2
      <4> QED
        BY <2>9, <2>10, <4>1, <4>3, <4>4
    <3> QED
      BY <1>1, <3>1 DEF KeptOK
  <2> QED
    BY <1>1, <2>2, <2>5, <2>9, <2>11, <2>12, OpenedKeeps
<1> QED
  BY <1>3, <1>4

\* A scan that fails has gone along with the index: the entries that it writes over
\* are the ones that it writes.
LEMMA ChainsAgree ==
  ASSUME NEW f, NEW p \in Seq(IndexEntry), NEW q \in Seq(IndexEntry), Chain(p), Chain(q),
         \A i \in 1..Len(p) : Stands(f, p[i]),
         \A i \in 1..Len(q) : q[i].off < Len(f) => Stands(f, q[i])
  PROVE  \A i \in 1..Len(p) : i <= Len(q) => q[i] = p[i]
<1> DEFINE T == {k \in Nat : k + 1 <= Len(p) /\ k + 1 <= Len(q) => q[k + 1] = p[k + 1]}
<1>1. Len(p) \in Nat /\ Len(q) \in Nat
  OBVIOUS
<1>2. ASSUME NEW i \in 1..Len(p), i <= Len(q), q[i].off = p[i].off  PROVE q[i] = p[i]
  <2>1. i \in 1..Len(q)
    BY <1>1, <1>2
  <2>2. IsHeader(f, p[i].off) /\ Entry(f[p[i].off + 1]) = p[i]
    BY DEF Stands
  <2>3. q[i].off < Len(f)
    BY <1>2, <2>2 DEF IsHeader
  <2>4. Entry(f[q[i].off + 1]) = q[i]
    BY <2>1, <2>3 DEF Stands
  <2> QED
    BY <1>2, <2>2, <2>4
<1>3. 0 \in T
  <2> SUFFICES ASSUME 1 <= Len(p), 1 <= Len(q)  PROVE q[1] = p[1]
    OBVIOUS
  <2>1. 1 \in 1..Len(p) /\ 1 \in 1..Len(q)
    BY <1>1
  <2>2. q[1].off = p[1].off
    BY <2>1 DEF Chain
  <2> QED
    BY <1>2, <2>1, <2>2
<1>4. ASSUME NEW k \in Nat, k \in T  PROVE k + 1 \in T
  <2> SUFFICES ASSUME k + 2 <= Len(p), k + 2 <= Len(q)  PROVE q[k + 2] = p[k + 2]
    BY <1>1
  <2>1. /\ k + 2 \in 1..Len(p) /\ k + 2 \in 1..Len(q) /\ (k + 2) - 1 = k + 1 /\ k + 2 # 1
        /\ k + 1 <= Len(p) /\ k + 1 <= Len(q)
    BY <1>1
  <2>2. q[k + 1] = p[k + 1]
    BY <1>4, <2>1
  <2>3. q[k + 2].off = End(q[k + 1]) /\ p[k + 2].off = End(p[k + 1])
    BY <2>1 DEF Chain
  <2> QED
    BY <1>2, <2>1, <2>2, <2>3
<1> HIDE DEF T
<1>5. \A k \in Nat : k \in T
  BY <1>3, <1>4, Inductive
<1>6. ASSUME NEW i \in 1..Len(p), i <= Len(q)  PROVE q[i] = p[i]
  <2>1. i - 1 \in Nat /\ (i - 1) + 1 = i /\ i <= Len(p)
    BY <1>1
  <2>2. i - 1 \in T
    BY <1>5, <2>1
  <2> QED
    BY <1>6, <2>1, <2>2 DEF T
<1> QED
  BY <1>6

LEMMA OpenFailsKeeps ==
  ASSUME Inv, OpenFails
  PROVE  Inv'
<1> DEFINE es == Entries(Scan(file))
<1>1. /\ st = "closed" /\ index' = Over(index, 0, es)
      /\ UNCHANGED <<file, torn, synced, st, bounds, wcache, cursor, kept, dirty>>
  BY DEF OpenFails, CreateIndexFails
<1>2. /\ TypeOK /\ HeadersOK(file) /\ file \in Seq(Cell) /\ IndexOK /\ index \in Seq(IndexEntry)
  BY DEF Inv, TypeOK
<1>3. es = Entries(Scan(file))
  OBVIOUS
<1> HIDE DEF es
<1>4. /\ es \in Seq(IndexEntry) /\ Len(es) = Stop(file)
      /\ Chain(es) /\ \A i \in 1..Len(es) : Stands(file, es[i])
      /\ EndOf(es) = Places(file)[Stop(file)] /\ ~IsHeader(file, EndOf(es))
  BY <1>2, <1>3, ScanOf
<1>5. \A i \in 1..Len(es) : i <= Len(index) => index[i] = es[i]
  BY <1>2, <1>4, ChainsAgree DEF IndexOK
<1>6. Len(index) \in Nat /\ Len(es) \in Nat /\ 0 \in 0..Len(index)
  BY <1>2, <1>4
<1>7. /\ Over(index, 0, es) \in Seq(IndexEntry)
      /\ Len(Over(index, 0, es)) = (IF Len(index) <= 0 + Len(es) THEN 0 + Len(es) ELSE Len(index))
      /\ \A i \in 1..0 : Over(index, 0, es)[i] = index[i]
      /\ \A i \in 0+1..0+Len(es) : Over(index, 0, es)[i] = es[i - 0]
      /\ \A i \in 0+Len(es)+1..Len(index) : Over(index, 0, es)[i] = index[i]
  BY <1>2, <1>4, <1>6, OverIs
<1>8. /\ index' \in Seq(IndexEntry)
      /\ Len(index') = (IF Len(index) <= Len(es) THEN Len(es) ELSE Len(index))
      /\ \A i \in 1..Len(es) : index'[i] = es[i]
      /\ \A i \in Len(es)+1..Len(index) : index'[i] = index[i]
  <2>1. 0 + Len(es) = Len(es) /\ 0 + 1 = 1 /\ \A i \in Nat : i - 0 = i
    BY <1>6
  <2>2. \A i \in 1..Len(es) : i - 0 = i
    BY <1>6
  <2> QED
    BY <1>1, <1>7, <2>1, <2>2
<1>9. IndexOK'
  <2>1. CASE Len(index) <= Len(es)
    <3>1. index' = es
      BY <1>4, <1>8, <2>1, SeqSame
    <3> QED
      BY <1>1, <1>4, <3>1 DEF IndexOK
  <2>2. CASE ~(Len(index) <= Len(es))
    <3>1. ASSUME NEW i \in 1..Len(index')  PROVE index'[i] = index[i]
      <4>1. i \in 1..Len(es) \/ i \in Len(es)+1..Len(index)
        BY <1>6, <1>8, <2>2
      <4>2. i \in 1..Len(es) => i <= Len(index)
        BY <1>6, <2>2
      <4> QED
        BY <1>5, <1>8, <4>1, <4>2
    <3>2. Len(index') = Len(index)
      BY <1>8, <2>2
    <3>3. index' = index
      BY <1>2, <1>8, <3>1, <3>2, SeqSame
    <3> QED
      BY <1>1, <1>2, <3>3 DEF IndexOK
  <2> QED
    BY <2>1, <2>2
<1>10. TypeOK'
  BY <1>1, <1>2, <1>8 DEF TypeOK, bounds, wcache
<1>11. HeadersOK(file)' /\ KeptOK'
  BY <1>1 DEF Inv, KeptOK
<1>12. OpenOK' /\ CacheOK' /\ CursorInv' /\ NewFile'
  BY <1>1 DEF Inv, OpenOK, CacheOK, CursorInv, NewFile, Readable, bounds, wcache
<1> QED
  BY <1>9, <1>10, <1>11, <1>12 DEF Inv

LEMMA InitInv == FileInit => Inv
<1> SUFFICES ASSUME FileInit  PROVE Inv
  OBVIOUS
<1>1. TypeOK
  <2>1. file \in Seq(Cell) /\ index \in Seq(IndexEntry) /\ cache \in Seq(IndexEntry)
    BY DEF FileInit
  <2>2. synced \in [file : Nat, index : Nat]
    BY DEF FileInit
  <2> QED
    BY <2>1, <2>2 DEF FileInit, TypeOK
<1>2. HeadersOK(file)
  BY DEF FileInit, HeadersOK, IsHeader
<1>3. IndexOK /\ KeptOK
  BY DEF FileInit, IndexOK, KeptOK, Chain
<1>4. OpenOK /\ CacheOK /\ CursorInv /\ NewFile
  BY DEF FileInit, OpenOK, CacheOK, CursorInv, NewFile, Readable
<1> QED
  BY <1>1, <1>2, <1>3, <1>4 DEF Inv


(***************************************************************************)
(* upper(), lower() and getLastSidByNo().                                   *)
(***************************************************************************)
\* A file that is in use, as the lookups see it.
LEMMA Ascends ==
  ASSUME Inv, Readable, NEW es, IsEntries(es)
  PROVE  /\ es \in Seq(IndexEntry) /\ num = Len(es) /\ Len(es) = Len(index) + Len(cache)
         /\ Len(index) \in Nat /\ Len(cache) \in Nat
         /\ \A i \in 1..Len(index) : es[i] = index[i]
         /\ \A i \in 1..Len(cache) : es[Len(index) + i] = cache[i]
         /\ \A i \in 1..Len(es) : es[i].sid \in Nat /\ 0 < es[i].sid
         /\ \A i, j \in 1..Len(es) : i < j => es[i].sid < es[j].sid
         /\ es # <<>> => minSid = es[1].sid /\ maxSid = es[Len(es)].sid
<1>1. TypeOK /\ OpenOK
  BY DEF Inv
<1>2. /\ es \in Seq(IndexEntry) /\ Len(es) = Len(index) + Len(cache)
      /\ Len(index) \in Nat /\ Len(cache) \in Nat
      /\ \A i \in 1..Len(index) : es[i] = index[i]
      /\ \A i \in 1..Len(cache) : es[Len(index) + i] = cache[i]
  BY <1>1, EntriesAre
<1>3. file \in Seq(Cell) /\ HeadersOK(file) /\ Chain(es) /\ \A i \in 1..Len(es) : Stands(file, es[i])
  BY InUse
<1>4. \A i, j \in 1..Len(es) : i < j => es[i].sid < es[j].sid
  BY <1>2, <1>3, ChainAscends
<1>5. \A i \in 1..Len(es) : es[i].sid \in Nat
  BY <1>2, EntryFacts
<1>6. \A i \in 1..Len(es) : 0 < es[i].sid
  BY <1>3 DEF Chain
<1>7. num = Len(es) /\ (es # <<>> => minSid = es[1].sid /\ maxSid = es[Len(es)].sid)
  BY <1>1 DEF OpenOK, IsEntries
<1> QED
  BY <1>2, <1>4, <1>5, <1>6, <1>7

\* The positions in the index do not overflow.
LEMMA FewEntries ==
  ASSUME Inv, Readable
  PROVE  Len(index) \in Nat /\ (Len(index) > 0 => 2 * (Len(index) - 1) < Word)
<1> DEFINE es == index \o cache
           n == Len(index)
<1>1. TypeOK
  BY DEF Inv
<1>2. /\ es \in Seq(IndexEntry) /\ Len(es) = n + Len(cache)
      /\ n \in Nat /\ Len(cache) \in Nat
  BY <1>1, EntriesAre DEF IsEntries
<1>3. file \in Seq(Cell) /\ HeadersOK(file) /\ Chain(es) /\ \A i \in 1..Len(es) : Stands(file, es[i])
  BY InUse DEF IsEntries
<1> HIDE DEF es, n
<1>4. ASSUME n > 0  PROVE 2 * (n - 1) < Word
  <2>1. n \in 1..Len(es)
    BY <1>2, <1>4
  <2>2. es[n] \in IndexEntry /\ Stands(file, es[n]) /\ 2 * (n - 1) <= es[n].off
    BY <1>2, <1>3, <2>1 DEF Chain
  <2>3. IsHeader(file, es[n].off) /\ es[n].off \in Nat /\ End(file[es[n].off + 1]) = End(es[n])
        /\ End(es[n]) \in Nat /\ es[n].off < End(es[n])
    BY <1>3, <2>2, StandsFacts, EntryFacts
  <2>4. HeaderOK(file, es[n].off)
    BY <1>3, <2>3 DEF HeadersOK
  <2>5. End(es[n]) < FullSize
    BY <2>3, <2>4 DEF HeaderOK
  <2>6. FullSize < Word /\ FullSize \in Nat /\ Word \in Nat
    BY Constants
  <2> QED
    BY <1>2, <2>2, <2>3, <2>5, <2>6
<1> QED
  BY <1>2, <1>4 DEF n

LEMMA ReadIndexIs ==
  ASSUME Inv, Readable, NEW i \in Nat, i < Len(index)
  PROVE  /\ ReadIndex(i) = index[i + 1] /\ i + 1 \in 1..Len(index)
         /\ ReadIndex(i) # Failed /\ ReadIndex(i).sid = index[i + 1].sid
         /\ index[i + 1].sid \in Nat
<1>1. index \in Seq(IndexEntry) /\ Len(index) \in Nat
  BY DEF Inv, TypeOK
<1>2. i + 1 \in 1..Len(index)
  BY <1>1
<1>3. index[i + 1] \in IndexEntry
  BY <1>1, <1>2
<1>4. index[i + 1].sid \in Nat
  BY <1>3, EntryFacts
<1>5. Failed.sid = -1
  BY DEF Failed
<1>6. index[i + 1] # Failed
  BY <1>4, <1>5
<1> QED
  BY <1>2, <1>4, <1>6 DEF ReadIndex

SearchState == [lo : Nat, hi : Nat, at : Nat]

LEMMA ModFacts ==
  ASSUME NEW x \in Int
  PROVE  x % Word \in Nat /\ (0 <= x /\ x < Word => x % Word = x)
<1>1. Word \in Nat /\ Word > 0
  BY Constants
<1> QED
  BY <1>1

LEMMA HalfFacts ==
  ASSUME NEW x \in Nat
  PROVE  x \div 2 \in Nat /\ 2 * (x \div 2) <= x /\ x <= 2 * (x \div 2) + 1
  OBVIOUS

StateIs(q, lo, hi, at) == q \in SearchState /\ q.lo = lo /\ q.hi = hi /\ q.at = at

LEMMA HighIs ==
  ASSUME NEW p \in SearchState, NEW x \in Nat, NEW y \in Nat, NEW q,
         q = [p EXCEPT !.hi = x, !.at = y]
  PROVE  StateIs(q, p.lo, x, y)
<1>1. q \in SearchState
  BY DEF SearchState
<1>2. q.lo = p.lo /\ q.hi = x /\ q.at = y
  BY DEF SearchState
<1> QED
  BY <1>1, <1>2 DEF StateIs

LEMMA LowIs ==
  ASSUME NEW p \in SearchState, NEW x \in Nat, NEW y \in Nat, NEW q,
         q = [p EXCEPT !.lo = x, !.at = y]
  PROVE  StateIs(q, x, p.hi, y)
<1>1. q \in SearchState
  BY DEF SearchState
<1>2. q.lo = x /\ q.hi = p.hi /\ q.at = y
  BY DEF SearchState
<1> QED
  BY <1>1, <1>2 DEF StateIs

LEMMA FoundIs ==
  ASSUME NEW at \in Nat
  PROVE  StateIs(Found(at), 1, 0, at)
  BY DEF StateIs, Found, SearchState

LEMMA IndexSids ==
  ASSUME Inv, NEW i \in Nat
  PROVE  ReadIndex(i).sid \in Int
<1>1. index \in Seq(IndexEntry) /\ Len(index) \in Nat
  BY DEF Inv, TypeOK
<1>2. CASE i < Len(index)
  <2>1. i + 1 \in 1..Len(index)
    BY <1>1, <1>2
  <2>2. index[i + 1] \in IndexEntry
    BY <1>1, <2>1
  <2>3. ReadIndex(i) = index[i + 1]
    BY <1>2 DEF ReadIndex
  <2> QED
    BY <2>2, <2>3, EntryFacts
<1>3. CASE ~(i < Len(index))
  BY <1>3 DEF ReadIndex, Failed
<1> QED
  BY <1>2, <1>3

\* A round of the search, by what it finds in the middle.
Middle(p) == ((p.lo + p.hi) % Word) \div 2

LEMMA ProbeIs ==
  ASSUME Inv, NEW s \in Nat, NEW p \in SearchState
  PROVE  /\ Middle(p) \in Nat
         /\ p.hi < p.lo => Probe(s, p) = p
         /\ p.hi >= p.lo /\ ReadIndex(Middle(p)) = Failed => StateIs(Probe(s, p), 1, 0, Word)
         /\ p.hi >= p.lo /\ ReadIndex(Middle(p)) # Failed /\ s = ReadIndex(Middle(p)).sid =>
              StateIs(Probe(s, p), 1, 0, Middle(p))
         /\ p.hi >= p.lo /\ ReadIndex(Middle(p)) # Failed /\ s < ReadIndex(Middle(p)).sid =>
              StateIs(Probe(s, p), p.lo, (Middle(p) - 1) % Word, Middle(p))
         /\ p.hi >= p.lo /\ ReadIndex(Middle(p)) # Failed /\ s > ReadIndex(Middle(p)).sid =>
              StateIs(Probe(s, p), Middle(p) + 1, p.hi, Middle(p))
<1> DEFINE mid == Middle(p)
           e == ReadIndex(mid)
           hi == (mid - 1) % Word
           high == [p EXCEPT !.hi = hi, !.at = mid]
           low == [p EXCEPT !.lo = mid + 1, !.at = mid]
<1>1. p.lo \in Nat /\ p.hi \in Nat /\ p.at \in Nat
  BY DEF SearchState
<1>2. mid \in Nat
  <2>1. (p.lo + p.hi) % Word \in Nat
    BY <1>1, ModFacts
  <2> QED
    BY <2>1, HalfFacts DEF Middle
<1>3. Probe(s, p) =
        CASE p.hi < p.lo -> p
          [] p.hi >= p.lo /\ e = Failed -> Found(Word)
          [] p.hi >= p.lo /\ e # Failed /\ s = e.sid -> Found(mid)
          [] p.hi >= p.lo /\ e # Failed /\ s < e.sid -> high
          [] p.hi >= p.lo /\ e # Failed /\ s > e.sid -> low
  BY DEF Probe, Middle
<1> HIDE DEF mid
<1>4. e.sid \in Int /\ hi \in Nat /\ mid + 1 \in Nat /\ Word \in Nat
  BY <1>2, IndexSids, ModFacts, Constants
<1> HIDE DEF hi
<1>5. StateIs(high, p.lo, hi, mid) /\ StateIs(low, mid + 1, p.hi, mid)
  BY <1>2, <1>4, HighIs, LowIs
<1>6. StateIs(Found(mid), 1, 0, mid) /\ StateIs(Found(Word), 1, 0, Word)
  BY <1>2, <1>4, FoundIs
<1> HIDE DEF e, high, low
<1>7. p.hi < p.lo => Probe(s, p) = p
  BY <1>1, <1>3
<1>8. p.hi >= p.lo /\ e = Failed => Probe(s, p) = Found(Word)
  BY <1>1, <1>3
<1>9. p.hi >= p.lo /\ e # Failed /\ s = e.sid => Probe(s, p) = Found(mid)
  BY <1>1, <1>3, <1>4
<1>10. p.hi >= p.lo /\ e # Failed /\ s < e.sid => Probe(s, p) = high
  BY <1>1, <1>3, <1>4
<1>11. p.hi >= p.lo /\ e # Failed /\ s > e.sid => Probe(s, p) = low
  BY <1>1, <1>3, <1>4
<1> QED
  BY <1>2, <1>5, <1>6, <1>7, <1>8, <1>9, <1>10, <1>11 DEF e, hi, mid

LEMMA ProbeType ==
  ASSUME Inv, NEW s \in Nat, NEW p \in SearchState
  PROVE  Probe(s, p) \in SearchState
<1> DEFINE e == ReadIndex(Middle(p))
           q == Probe(s, p)
<1>1. /\ p.hi < p.lo => q = p
      /\ p.hi >= p.lo /\ e = Failed => q \in SearchState
      /\ p.hi >= p.lo /\ e # Failed /\ s = e.sid => q \in SearchState
      /\ p.hi >= p.lo /\ e # Failed /\ s < e.sid => q \in SearchState
      /\ p.hi >= p.lo /\ e # Failed /\ s > e.sid => q \in SearchState
  BY ProbeIs DEF StateIs
<1>2. e.sid \in Int
  BY ProbeIs, IndexSids
<1>3. p.lo \in Nat /\ p.hi \in Nat
  BY DEF SearchState
<1> HIDE DEF e, q
<1>4. q \in SearchState
  BY <1>1, <1>2, <1>3
<1> QED
  BY <1>4 DEF q

\* The recursive definition of Round has a solution.
LEMMA RoundIs ==
  ASSUME Inv, Readable, NEW s \in Nat
  PROVE  /\ Round(s) \in [Nat -> SearchState]
         /\ Round(s)[0] = [lo |-> 0, hi |-> (num - 1 - Len(cache)) % Word, at |-> 0]
         /\ \A n \in Nat : Round(s)[n + 1] = Probe(s, Round(s)[n])
<1> DEFINE g == [p \in SearchState |-> Probe(s, p)]
           a == [lo |-> 0, hi |-> (num - 1 - Len(cache)) % Word, at |-> 0]
           IsRound(f) == f = [n \in Nat |-> IF n = 0 THEN a ELSE Probe(s, f[n - 1])]
<1>1. g \in [SearchState -> SearchState]
  BY ProbeType
<1>2. a \in SearchState
  <2>1. num \in Nat /\ Len(cache) \in Nat
    BY DEF Inv, TypeOK
  <2>2. (num - 1 - Len(cache)) % Word \in Nat
    BY <2>1, ModFacts
  <2> QED
    BY <2>2 DEF SearchState
<1>3. PICK h \in [Nat -> SearchState] : IsIteration(g, a, h)
  <2> HIDE DEF g, a
  <2> QED
    BY <1>1, <1>2, IteratesExist
<1>4. IsRound(h)
  <2>1. ASSUME NEW n \in Nat, n # 0  PROVE g[h[n - 1]] = Probe(s, h[n - 1])
    <3>1. n - 1 \in Nat /\ h[n - 1] \in SearchState
      BY <2>1
    <3> QED
      BY <3>1
  <2> HIDE DEF g, a
  <2>2. h = [n \in Nat |-> IF n = 0 THEN a ELSE g[h[n - 1]]]
    BY <1>3 DEF IsIteration
  <2> QED
    BY <2>1, <2>2
<1>5. Round(s) = CHOOSE f : IsRound(f)
  BY DEF Round
<1> HIDE DEF g, a
<1>6. IsRound(Round(s))
  <2>1. \E f : IsRound(f)
    BY <1>4
  <2> HIDE DEF IsRound
  <2> QED
    BY <1>5, <2>1
<1>7. ASSUME NEW f, IsRound(f)
      PROVE  f[0] = a /\ \A n \in Nat : f[n + 1] = Probe(s, f[n])
  <2>1. \A n \in Nat : n + 1 \in Nat /\ n + 1 # 0 /\ (n + 1) - 1 = n
    OBVIOUS
  <2> QED
    BY <1>7, <2>1
<1> DEFINE r == Round(s)
<1>8. r[0] = a /\ \A n \in Nat : r[n + 1] = Probe(s, r[n])
  BY <1>6, <1>7
<1>9. r \in [Nat -> SearchState]
  <2>1. DOMAIN r = Nat /\ r = [n \in Nat |-> r[n]]
    BY <1>6
  <2> DEFINE T == {n \in Nat : r[n] \in SearchState}
  <2> HIDE DEF r
  <2>2. 0 \in T
    BY <1>2, <1>8
  <2>3. ASSUME NEW n \in Nat, n \in T  PROVE n + 1 \in T
    <3>1. r[n + 1] = Probe(s, r[n]) /\ r[n] \in SearchState /\ n + 1 \in Nat
      BY <1>8, <2>3
    <3> QED
      BY <3>1, ProbeType
  <2> HIDE DEF T
  <2>4. \A n \in Nat : n \in T
    BY <2>2, <2>3, Inductive
  <2> QED
    BY <2>1, <2>4 DEF T
<1> QED
  BY <1>8, <1>9 DEF a, r

\* What a search for s ends at: the entry at it, or the one beside it, is next to s.
Beside(s, at) ==
  /\ at \in Nat /\ at < Len(index)
  /\ index[at + 1].sid <= s => \A j \in 1..Len(index) : at + 1 < j => s < index[j].sid
  /\ index[at + 1].sid > s => at > 0 /\ \A j \in 1..Len(index) : j <= at => index[j].sid <= s

\* After n rounds the search has ended, or what is left is smaller by n entries.
Searching(s, p, n) ==
  \/ p.hi < p.lo /\ Beside(s, p.at)
  \/ /\ p.lo <= p.hi /\ p.hi < Len(index) /\ p.hi - p.lo + 1 <= Len(index) - n
     /\ \A j \in 1..Len(index) : j <= p.lo => index[j].sid < s
     /\ \A j \in 1..Len(index) : p.hi + 1 < j => s < index[j].sid

LEMMA Halved ==
  ASSUME NEW lo \in Nat, NEW hi \in Nat, NEW m \in Nat, lo <= hi, hi < m, 2 * (m - 1) < Word
  PROVE  /\ ((lo + hi) % Word) \div 2 \in Nat
         /\ lo <= ((lo + hi) % Word) \div 2 /\ ((lo + hi) % Word) \div 2 <= hi
<1>1. Word \in Nat
  BY Constants
<1>2. lo + hi < Word /\ lo + hi \in Nat
  BY <1>1
<1>3. (lo + hi) % Word = lo + hi
  BY <1>2, ModFacts
<1> DEFINE x == (lo + hi) \div 2
<1>4. x \in Nat /\ 2 * x <= lo + hi /\ lo + hi <= 2 * x + 1
  BY <1>2, HalfFacts
<1> HIDE DEF x
<1>5. lo <= x /\ x <= hi
  BY <1>4
<1> QED
  BY <1>3, <1>4, <1>5 DEF x

LEMMA Narrower ==
  ASSUME NEW lo \in Nat, NEW hi \in Nat, NEW m \in Nat, NEW n \in Nat, NEW mid \in Nat,
         lo <= mid, mid <= hi, hi < m, hi - lo + 1 <= m - n
  PROVE  (mid - 1) - lo + 1 <= m - (n + 1) /\ hi - (mid + 1) + 1 <= m - (n + 1) /\ mid - 1 < m
  OBVIOUS

LEMMA ProbeKeeps ==
  ASSUME Inv, Readable, NEW s \in Nat, minSid <= s, NEW p \in SearchState, NEW n \in Nat,
         Searching(s, p, n)
  PROVE  Searching(s, Probe(s, p), n + 1)
<1> DEFINE es == index \o cache
           q == Probe(s, p)
           mid == Middle(p)
           m == Len(index)
<1>1. p.lo \in Nat /\ p.hi \in Nat /\ p.at \in Nat
  BY DEF SearchState
<1>2. /\ es \in Seq(IndexEntry) /\ Len(es) = m + Len(cache) /\ m \in Nat /\ Len(cache) \in Nat
      /\ \A i \in 1..m : es[i] = index[i]
      /\ \A i \in 1..Len(es) : es[i].sid \in Nat /\ 0 < es[i].sid
      /\ \A i, j \in 1..Len(es) : i < j => es[i].sid < es[j].sid
      /\ es # <<>> => minSid = es[1].sid
  BY Ascends DEF IsEntries
<1> HIDE DEF es
<1>3. /\ \A i \in 1..m : index[i].sid \in Nat
      /\ \A i, j \in 1..m : i < j => index[i].sid < index[j].sid
      /\ m > 0 => minSid = index[1].sid
  <2>1. \A i \in 1..m : i \in 1..Len(es)
    BY <1>2
  <2>2. m > 0 => 1 \in 1..m /\ es # <<>>
    BY <1>2
  <2> QED
    BY <1>2, <2>1, <2>2
<1>4. CASE p.hi < p.lo
  <2>1. q = p
    BY <1>4, ProbeIs
  <2>2. Beside(s, p.at)
    BY <1>1, <1>4 DEF Searching
  <2> QED
    BY <1>4, <2>1, <2>2 DEF Searching
<1>5. CASE p.lo <= p.hi
  <2> SUFFICES Searching(s, q, n + 1)
    OBVIOUS
  <2>1. /\ p.hi < m /\ p.hi - p.lo + 1 <= m - n
        /\ \A j \in 1..m : j <= p.lo => index[j].sid < s
        /\ \A j \in 1..m : p.hi + 1 < j => s < index[j].sid
    BY <1>1, <1>5 DEF Searching
  <2>2. mid \in Nat /\ p.lo <= mid /\ mid <= p.hi
    <3>1. 2 * (m - 1) < Word
      BY <1>1, <1>2, <2>1, FewEntries
    <3>2. p.hi < m /\ p.lo <= p.hi /\ p.lo \in Nat /\ p.hi \in Nat /\ m \in Nat
      BY <1>1, <1>2, <1>5, <2>1
    <3>3. /\ ((p.lo + p.hi) % Word) \div 2 \in Nat
          /\ p.lo <= ((p.lo + p.hi) % Word) \div 2 /\ ((p.lo + p.hi) % Word) \div 2 <= p.hi
      BY <3>1, <3>2, Halved
    <3> QED
      BY <3>3 DEF Middle
  <2>3. mid < m /\ mid + 1 \in 1..m /\ mid + 1 \in Nat
    <3>1. p.hi \in Nat /\ m \in Nat /\ p.hi < m
      BY <1>1, <1>2, <2>1
    <3> QED
      BY <2>2, <3>1
  <2> DEFINE e == ReadIndex(mid)
             i == index[mid + 1]
  <2>4. e # Failed /\ e.sid = i.sid /\ i.sid \in Nat
    BY <2>2, <2>3, ReadIndexIs
  <2>5. /\ s = e.sid => StateIs(q, 1, 0, mid)
        /\ s < e.sid => StateIs(q, p.lo, (mid - 1) % Word, mid)
        /\ s > e.sid => StateIs(q, mid + 1, p.hi, mid)
    BY <1>1, <1>5, <2>4, ProbeIs
  <2> HIDE DEF q, mid, e
  <2>6. CASE s = i.sid
    <3>1. q.hi < q.lo /\ q.at = mid
      BY <2>4, <2>5, <2>6 DEF StateIs
    <3>2. \A j \in 1..m : mid + 1 < j => s < index[j].sid
      BY <1>3, <2>3, <2>6
    <3>3. Beside(s, mid)
      BY <2>2, <2>3, <2>4, <2>6, <3>2 DEF Beside
    <3> QED
      BY <3>1, <3>3 DEF Searching
  <2>7. CASE s < i.sid
    <3>1. mid > 0
      <4> SUFFICES ASSUME mid = 0  PROVE FALSE
        BY <2>2
      <4>1. i = index[1] /\ m > 0
        BY <1>2, <2>3
      <4> QED
        BY <1>3, <2>4, <2>7, <4>1
    <3>2. (mid - 1) % Word = mid - 1
      <4>1. 0 <= mid - 1 /\ mid - 1 < Word /\ mid - 1 \in Int
        <5>1. 2 * (m - 1) < Word /\ Word \in Nat
          BY <1>2, <2>3, FewEntries, Constants
        <5> QED
          BY <1>2, <2>2, <2>3, <3>1, <5>1
      <4> QED
        BY <4>1, ModFacts
    <3>3. q.lo = p.lo /\ q.hi = mid - 1 /\ q.at = mid
      BY <2>4, <2>5, <2>7, <3>2 DEF StateIs
    <3>4. ASSUME NEW j \in 1..m, mid < j  PROVE s < index[j].sid
      <4>1. j = mid + 1 \/ mid + 1 < j
        BY <1>2, <2>2, <3>4
      <4>2. index[j].sid \in Nat /\ i.sid <= index[j].sid
        BY <1>3, <2>3, <2>4, <4>1
      <4> QED
        BY <2>4, <2>7, <4>2
    <3>5. CASE mid = p.lo
      <4>1. \A j \in 1..m : j <= mid => index[j].sid <= s
        BY <1>3, <2>1, <3>5
      <4>2. Beside(s, mid)
        BY <2>2, <2>3, <2>4, <2>7, <3>1, <4>1 DEF Beside
      <4>3. q.hi < q.lo
        BY <2>2, <3>3, <3>5
      <4> QED
        BY <3>3, <4>2, <4>3 DEF Searching
    <3>6. CASE p.lo < mid
      <4>1. q.hi < m /\ q.hi - q.lo + 1 <= m - (n + 1)
        <5>1. p.hi < m /\ p.hi - p.lo + 1 <= m - n
          BY <2>1
        <5>2. (mid - 1) - p.lo + 1 <= m - (n + 1) /\ mid - 1 < m
          <6>1. p.lo \in Nat /\ p.hi \in Nat /\ m \in Nat
            BY <1>1, <1>2
          <6>2. /\ (mid - 1) - p.lo + 1 <= m - (n + 1) /\ p.hi - (mid + 1) + 1 <= m - (n + 1)
                /\ mid - 1 < m
            BY <2>2, <5>1, <6>1, Narrower
          <6> QED
            BY <6>2
        <5> QED
          BY <3>3, <5>2
      <4>3. q.lo <= q.hi
        BY <1>1, <2>2, <3>3, <3>6
      <4>2. \A j \in 1..m : q.hi + 1 < j => s < index[j].sid
        <5>1. q.hi + 1 = mid
          BY <2>2, <3>3
        <5> QED
          BY <3>4, <5>1
      <4> QED
        BY <2>1, <3>3, <4>1, <4>2, <4>3 DEF Searching
    <3> QED
      BY <1>1, <2>2, <3>5, <3>6
  <2>8. CASE s > i.sid
    <3>1. q.lo = mid + 1 /\ q.hi = p.hi /\ q.at = mid
      BY <2>4, <2>5, <2>8 DEF StateIs
    <3>2. ASSUME NEW j \in 1..m, j <= mid + 1  PROVE index[j].sid < s
      <4>1. j = mid + 1 \/ j < mid + 1
        BY <1>2, <2>2, <3>2
      <4>2. index[j].sid \in Nat /\ index[j].sid <= i.sid
        BY <1>3, <2>3, <2>4, <4>1
      <4> QED
        BY <2>4, <2>8, <4>2
    <3>3. CASE mid = p.hi
      <4>1. \A j \in 1..m : mid + 1 < j => s < index[j].sid
        BY <2>1, <3>3
      <4>2. Beside(s, mid)
        BY <2>2, <2>3, <2>4, <2>8, <4>1 DEF Beside
      <4>3. q.hi < q.lo
        BY <2>2, <3>1, <3>3
      <4> QED
        BY <3>1, <4>2, <4>3 DEF Searching
    <3>4. CASE mid < p.hi
      <4>1. q.hi < m /\ q.hi - q.lo + 1 <= m - (n + 1)
        <5>1. p.hi < m /\ p.hi - p.lo + 1 <= m - n
          BY <2>1
        <5> QED
          BY <1>1, <1>2, <2>2, <3>1, <5>1, Narrower
      <4>3. q.lo <= q.hi
        BY <1>1, <2>2, <3>1, <3>4
      <4>2. \A j \in 1..m : j <= q.lo => index[j].sid < s
        BY <3>1, <3>2
      <4> QED
        BY <2>1, <3>1, <4>1, <4>2, <4>3 DEF Searching
    <3> QED
      BY <1>1, <2>2, <3>3, <3>4
  <2> QED
    BY <2>4, <2>6, <2>7, <2>8 DEF q
<1> QED
  BY <1>1, <1>4, <1>5

\* The search ends within as many rounds as there are entries.
LEMMA SearchedIs ==
  ASSUME Inv, Readable, Len(index) > 0, NEW s \in Nat, minSid <= s
  PROVE  Beside(s, Searched(s)) /\ Searched(s) # Word
<1> DEFINE r == Round(s)
           m == Len(index)
           T == {n \in Nat : Searching(s, r[n], n)}
<1>1. /\ r \in [Nat -> SearchState]
      /\ r[0] = [lo |-> 0, hi |-> (num - 1 - Len(cache)) % Word, at |-> 0]
      /\ \A n \in Nat : r[n + 1] = Probe(s, r[n])
  BY RoundIs
<1>2. m \in Nat /\ m > 0 /\ 2 * (m - 1) < Word /\ Word \in Nat
  BY FewEntries, Constants
<1>3. r[0].lo = 0 /\ r[0].hi = m - 1
  <2> DEFINE es == index \o cache
  <2>1. num = m + Len(cache) /\ Len(cache) \in Nat
    <3>1. IsEntries(es)
      BY DEF IsEntries
    <3> HIDE DEF es
    <3>2. num = Len(es) /\ Len(es) = Len(index) + Len(cache) /\ Len(cache) \in Nat
      BY <3>1, Ascends
    <3> QED
      BY <3>2
  <2>2. num - 1 - Len(cache) = m - 1
    BY <1>2, <2>1
  <2>3. (m - 1) % Word = m - 1
    <3>1. 0 <= m - 1 /\ m - 1 < Word /\ m - 1 \in Int
      BY <1>2
    <3> QED
      BY <3>1, ModFacts
  <2> HIDE DEF r, m
  <2> QED
    BY <1>1, <2>2, <2>3
<1> HIDE DEF r
<1>4. 0 \in T
  <2>1. r[0].lo <= r[0].hi /\ r[0].hi < m /\ r[0].hi - r[0].lo + 1 <= m - 0
    BY <1>2, <1>3
  <2>2. \A j \in 1..m : ~(j <= r[0].lo) /\ ~(r[0].hi + 1 < j)
    BY <1>2, <1>3
  <2> QED
    BY <2>1, <2>2 DEF Searching
<1>5. ASSUME NEW n \in Nat, n \in T  PROVE n + 1 \in T
  <2>1. r[n] \in SearchState /\ Searching(s, r[n], n) /\ n + 1 \in Nat
    BY <1>1, <1>5
  <2>2. Searching(s, r[n + 1], n + 1)
    BY <1>1, <2>1, ProbeKeeps
  <2> QED
    BY <2>1, <2>2
<1> HIDE DEF T
<1>6. \A n \in Nat : n \in T
  BY <1>4, <1>5, Inductive
<1>7. Searching(s, r[m], m) /\ r[m] \in SearchState
  BY <1>1, <1>2, <1>6 DEF T
<1>8. r[m].lo \in Nat /\ r[m].hi \in Nat
  BY <1>7 DEF SearchState
<1>9. r[m].hi < r[m].lo /\ Beside(s, r[m].at)
  <2>1. ~(r[m].lo <= r[m].hi /\ r[m].hi - r[m].lo + 1 <= m - m)
    BY <1>2, <1>8
  <2> QED
    BY <1>7, <2>1 DEF Searching
<1>10. Searched(s) = r[m].at
  BY <1>9 DEF Searched, r, m
<1>11. r[m].at < Word
  BY <1>2, <1>9 DEF Beside
<1>12. r[m].at \in Nat
  BY <1>9 DEF Beside
<1> QED
  BY <1>2, <1>9, <1>10, <1>11, <1>12

\* Of the sids that ascend along a sequence, the first one above s, and the last one
\* below it.
IsFirstAbove(es, s, e) ==
  /\ \E i \in 1..Len(es) : e = es[i]
  /\ s < e.sid /\ \A j \in 1..Len(es) : s < es[j].sid => e.sid <= es[j].sid

IsLastUpTo(es, s, e) ==
  /\ \E i \in 1..Len(es) : e = es[i]
  /\ e.sid <= s /\ \A j \in 1..Len(es) : es[j].sid <= s => es[j].sid <= e.sid

LEMMA FirstAbove ==
  ASSUME NEW es \in Seq(IndexEntry), NEW s \in Nat, NEW k \in 1..Len(es), s < es[k].sid,
         \A i, j \in 1..Len(es) : i < j => es[i].sid < es[j].sid
  PROVE  \E e \in Range(es) : s < e.sid /\ \A d \in Range(es) : s < d.sid => e.sid <= d.sid
<1> DEFINE B == {i \in 1..Len(es) : s < es[i].sid}
<1>1. \A i \in 1..Len(es) : es[i].sid \in Nat
  BY EntryFacts
<1>2. PICK m \in B : \A i \in B : m <= i
  <2>1. B \subseteq Nat /\ B # {}
    OBVIOUS
  <2> HIDE DEF B
  <2> QED
    BY <2>1, SmallestExists
<1>3. ASSUME NEW j \in 1..Len(es), s < es[j].sid  PROVE es[m].sid <= es[j].sid
  <2>1. m <= j /\ m \in 1..Len(es) /\ m \in Nat /\ j \in Nat
    BY <1>2, <1>3
  <2>2. m = j \/ m < j
    BY <2>1
  <2> QED
    BY <1>1, <2>1, <2>2
<1>4. Range(es) = {es[i] : i \in 1..Len(es)}
  BY DEF Range
<1>5. es[m] \in Range(es) /\ s < es[m].sid
  BY <1>2, <1>4
<1>6. \A d \in Range(es) : s < d.sid => es[m].sid <= d.sid
  BY <1>3, <1>4
<1> QED
  BY <1>5, <1>6

LEMMA LastBelow ==
  ASSUME NEW es \in Seq(IndexEntry), NEW s \in Nat, NEW k \in 1..Len(es), es[k].sid < s,
         \A i, j \in 1..Len(es) : i < j => es[i].sid < es[j].sid
  PROVE  \E e \in Range(es) : e.sid < s /\ \A d \in Range(es) : d.sid < s => d.sid <= e.sid
<1> DEFINE n == Len(es)
           B == {i \in 0..n-1 : es[n - i].sid < s}
<1>1. n \in Nat /\ \A i \in 1..n : es[i].sid \in Nat
  BY EntryFacts
<1>2. PICK m \in B : \A i \in B : m <= i
  <2>1. n - k \in 0..n-1 /\ n - (n - k) = k
    BY <1>1
  <2>2. n - k \in B
    BY <2>1
  <2>3. B \subseteq Nat
    BY <1>1
  <2>4. B # {}
    BY <2>2
  <2> HIDE DEF B
  <2> QED
    BY <2>3, <2>4, SmallestExists
<1>3. n - m \in 1..n /\ es[n - m].sid < s /\ m \in Nat
  BY <1>1, <1>2
<1>4. ASSUME NEW j \in 1..n, es[j].sid < s  PROVE es[j].sid <= es[n - m].sid
  <2>1. n - j \in 0..n-1 /\ n - (n - j) = j
    BY <1>1
  <2>2. n - j \in B
    BY <1>4, <2>1
  <2>3. m <= n - j
    BY <1>2, <2>2
  <2>4. j = n - m \/ j < n - m
    BY <1>1, <1>3, <2>3
  <2> QED
    BY <1>1, <1>3, <2>4
<1>5. Range(es) = {es[i] : i \in 1..n}
  BY DEF Range
<1>6. es[n - m] \in Range(es)
  BY <1>3, <1>5
<1>7. \A d \in Range(es) : d.sid < s => d.sid <= es[n - m].sid
  BY <1>4, <1>5
<1> QED
  BY <1>3, <1>6, <1>7

LEMMA CachedIs ==
  ASSUME Inv, Readable, NEW s \in Nat, cache # <<>>, s < maxSid
  PROVE  /\ Cached(s) \in Range(cache) /\ s < Cached(s).sid
         /\ \A d \in Range(cache) : s < d.sid => Cached(s).sid <= d.sid
<1> DEFINE es == index \o cache
           L == Len(index)
           C == Len(cache)
<1>1. IsEntries(es)
  BY DEF IsEntries
<1> HIDE DEF es
<1>2. /\ es \in Seq(IndexEntry) /\ Len(es) = L + C /\ L \in Nat /\ C \in Nat
      /\ \A i \in 1..C : es[L + i] = cache[i]
      /\ \A i, j \in 1..Len(es) : i < j => es[i].sid < es[j].sid
      /\ es # <<>> => maxSid = es[Len(es)].sid
  BY <1>1, Ascends
<1>3. cache \in Seq(IndexEntry) /\ C > 0
  BY DEF Inv, TypeOK
<1>4. \A i \in 1..C : L + i \in 1..Len(es)
  BY <1>2
<1>5. \A i, j \in 1..C : i < j => cache[i].sid < cache[j].sid
  <2>1. \A i, j \in 1..C : i < j => L + i < L + j
    BY <1>2
  <2> QED
    BY <1>2, <1>4, <2>1
<1>6. C \in 1..C /\ cache[C].sid = maxSid
  <2>1. es # <<>> /\ Len(es) = L + C /\ C \in 1..C
    BY <1>2, <1>3
  <2> QED
    BY <1>2, <2>1
<1>7. \E e \in Range(cache) : s < e.sid /\ \A d \in Range(cache) : s < d.sid => e.sid <= d.sid
  BY <1>3, <1>5, <1>6, FirstAbove
<1>8. \A e \in Range(cache) : e.sid \in Nat
  BY <1>3, EntryFacts DEF Range
<1> DEFINE Best(e) == e.sid > s /\ \A d \in Range(cache) : d.sid > s => e.sid <= d.sid
<1>9. \E e \in Range(cache) : Best(e)
  BY <1>7, <1>8
<1>10. Cached(s) = CHOOSE e \in Range(cache) : Best(e)
  BY DEF Cached
<1>11. Cached(s) \in Range(cache) /\ Best(Cached(s))
  <2> HIDE DEF Best
  <2> QED
    BY <1>9, <1>10
<1> QED
  BY <1>8, <1>11

LEMMA CachedBelowIs ==
  ASSUME Inv, Readable, NEW s \in Nat, cache # <<>>, cacheMin < s
  PROVE  /\ CachedBelow(s) \in Range(cache) /\ CachedBelow(s).sid < s
         /\ \A d \in Range(cache) : d.sid < s => d.sid <= CachedBelow(s).sid
<1> DEFINE es == index \o cache
           L == Len(index)
           C == Len(cache)
<1>1. IsEntries(es)
  BY DEF IsEntries
<1> HIDE DEF es
<1>2. /\ es \in Seq(IndexEntry) /\ Len(es) = L + C /\ L \in Nat /\ C \in Nat
      /\ \A i \in 1..C : es[L + i] = cache[i]
      /\ \A i, j \in 1..Len(es) : i < j => es[i].sid < es[j].sid
  BY <1>1, Ascends
<1>3. cache \in Seq(IndexEntry) /\ C > 0
  BY DEF Inv, TypeOK
<1>4. \A i \in 1..C : L + i \in 1..Len(es)
  BY <1>2
<1>5. \A i, j \in 1..C : i < j => cache[i].sid < cache[j].sid
  <2>1. \A i, j \in 1..C : i < j => L + i < L + j
    BY <1>2
  <2> QED
    BY <1>2, <1>4, <2>1
<1>6. 1 \in 1..C /\ cache[1].sid < s
  BY <1>2, <1>3 DEF Inv, CacheOK
<1>7. \E e \in Range(cache) : e.sid < s /\ \A d \in Range(cache) : d.sid < s => d.sid <= e.sid
  BY <1>3, <1>5, <1>6, LastBelow
<1> DEFINE Best(e) == e.sid < s /\ \A d \in Range(cache) : d.sid < s => d.sid <= e.sid
<1>8. \E e \in Range(cache) : Best(e)
  BY <1>7
<1>9. CachedBelow(s) = CHOOSE e \in Range(cache) : Best(e)
  BY DEF CachedBelow
<1>10. CachedBelow(s) \in Range(cache) /\ Best(CachedBelow(s))
  <2> HIDE DEF Best
  <2> QED
    BY <1>8, <1>9
<1> QED
  BY <1>10

\* The sids in the index file lie before those in the write cache.
LEMMA Split ==
  ASSUME Inv, Readable, NEW es, IsEntries(es)
  PROVE  /\ \A i \in 1..Len(index) : i \in 1..Len(es) /\ es[i] = index[i]
         /\ \A j \in 1..Len(es) : j <= Len(index) \/ es[j] \in Range(cache)
         /\ \A d \in Range(cache) : \E i \in 1..Len(es) : d = es[i]
         /\ cache # <<>> => st = "open" /\ cacheMin = cache[1].sid /\ cache[1] \in Range(cache)
         /\ Len(index) = 0 => es = cache
         /\ st = "open" => cachePrev = (IF index = <<>> THEN 0 ELSE index[Len(index)].sid)
         /\ \A d \in Range(cache) : d.sid \in Nat
         /\ \A d \in Range(cache) : cache[1].sid <= d.sid
         /\ \A i \in 1..Len(index) : \A d \in Range(cache) : es[i].sid < d.sid
<1> DEFINE L == Len(index)
           C == Len(cache)
<1>1. /\ es \in Seq(IndexEntry) /\ Len(es) = L + C /\ L \in Nat /\ C \in Nat
      /\ \A i \in 1..L : es[i] = index[i]
      /\ \A i \in 1..C : es[L + i] = cache[i]
      /\ \A i, j \in 1..Len(es) : i < j => es[i].sid < es[j].sid
      /\ \A i \in 1..Len(es) : es[i].sid \in Nat
  BY Ascends
<1>2. cache \in Seq(IndexEntry) /\ Range(cache) = {cache[i] : i \in 1..C}
  BY DEF Inv, TypeOK, Range
<1>3. \A i \in 1..L : i \in 1..Len(es) /\ es[i] = index[i]
  BY <1>1
<1>4. ASSUME NEW j \in 1..Len(es), ~(j <= L)  PROVE es[j] \in Range(cache)
  <2>1. j - L \in 1..C /\ L + (j - L) = j
    BY <1>1, <1>4
  <2>2. es[j] = cache[j - L]
    BY <1>1, <2>1
  <2> QED
    BY <1>2, <2>1, <2>2
<1>5. \A i \in 1..C : L + i \in 1..Len(es) /\ cache[i] = es[L + i]
  BY <1>1
<1>6. \A d \in Range(cache) : \E i \in 1..Len(es) : d = es[i]
  BY <1>2, <1>5
<1>7. cache # <<>> => st = "open" /\ cacheMin = cache[1].sid /\ cache[1] \in Range(cache)
  <2>1. cache # <<>> => 1 \in 1..C
    BY <1>2
  <2>2. cache # <<>> => st = "open" /\ cacheMin = cache[1].sid
    BY DEF Inv, CacheOK, Readable
  <2> QED
    BY <1>2, <2>1, <2>2
<1>8. L = 0 => es = cache
  <2> SUFFICES ASSUME L = 0  PROVE es = cache
    OBVIOUS
  <2>1. Len(es) = C /\ \A i \in 1..C : L + i = i
    BY <1>1
  <2>2. \A i \in 1..Len(es) : es[i] = cache[i]
    BY <1>1, <2>1
  <2> QED
    BY <1>1, <1>2, <2>1, <2>2, SeqSame
<1>9. st = "open" => cachePrev = (IF index = <<>> THEN 0 ELSE index[L].sid)
  BY DEF Inv, CacheOK
<1>10. \A d \in Range(cache) : d.sid \in Nat
  BY <1>1, <1>6
<1>11. ASSUME NEW d \in Range(cache)  PROVE cache[1].sid <= d.sid
  <2>1. PICK i \in 1..C : d = cache[i]
    BY <1>2
  <2>2. d = es[L + i] /\ L + i \in 1..Len(es) /\ cache[1] = es[L + 1] /\ L + 1 \in 1..Len(es)
    BY <1>1, <1>5, <2>1
  <2>3. L + 1 = L + i \/ L + 1 < L + i
    BY <1>1, <2>1
  <2> QED
    BY <1>1, <2>2, <2>3
<1>12. ASSUME NEW i \in 1..L, NEW d \in Range(cache)  PROVE es[i].sid < d.sid
  <2>1. PICK k \in 1..C : d = cache[k]
    BY <1>2
  <2>2. d = es[L + k] /\ L + k \in 1..Len(es) /\ i \in 1..Len(es) /\ i < L + k
    BY <1>1, <1>5, <2>1
  <2> QED
    BY <1>1, <2>2
<1> QED
  BY <1>3, <1>4, <1>6, <1>7, <1>8, <1>9, <1>10, <1>11, <1>12

LEMMA UpperIs ==
  ASSUME Inv, Readable, NEW s \in Nat, NEW es, IsEntries(es)
  PROVE  \/ Upper(s) = NoEntry /\ \A j \in 1..Len(es) : es[j].sid <= s
         \/ IsFirstAbove(es, s, Upper(s))
<1> DEFINE L == Len(index)
<1>1. /\ es \in Seq(IndexEntry) /\ num = Len(es) /\ Len(es) = L + Len(cache) /\ L \in Nat /\ Len(cache) \in Nat
      /\ \A i \in 1..Len(es) : es[i].sid \in Nat /\ 0 < es[i].sid
      /\ \A i, j \in 1..Len(es) : i < j => es[i].sid < es[j].sid
      /\ es # <<>> => minSid = es[1].sid /\ maxSid = es[Len(es)].sid
  BY Ascends
<1>2. /\ \A i \in 1..L : i \in 1..Len(es) /\ es[i] = index[i]
      /\ \A j \in 1..Len(es) : j <= L \/ es[j] \in Range(cache)
      /\ \A d \in Range(cache) : \E i \in 1..Len(es) : d = es[i]
      /\ cache # <<>> => st = "open" /\ cacheMin = cache[1].sid /\ cache[1] \in Range(cache)
      /\ Len(index) = 0 => es = cache
      /\ st = "open" => cachePrev = (IF index = <<>> THEN 0 ELSE index[L].sid)
      /\ \A d \in Range(cache) : d.sid \in Nat
      /\ \A d \in Range(cache) : cache[1].sid <= d.sid
      /\ \A i \in 1..L : \A d \in Range(cache) : es[i].sid < d.sid
  BY Split
<1>3. ASSUME NEW i \in 1..Len(es), NEW j \in 1..Len(es), i <= j
      PROVE  es[i].sid <= es[j].sid
  <2>1. es[i].sid \in Nat /\ es[j].sid \in Nat
    BY <1>1
  <2>2. i = j \/ i < j
    BY <1>1, <1>3
  <2>3. i < j => es[i].sid < es[j].sid
    BY <1>1
  <2> QED
    BY <2>1, <2>2, <2>3
<1>4. es # <<>> => Len(es) \in 1..Len(es) /\ 1 \in 1..Len(es) /\ num > 0
  BY <1>1
<1>5. index \in Seq(IndexEntry) /\ maxSid \in Nat /\ minSid \in Nat /\ num \in Nat /\ cachePrev \in Nat
  BY DEF Inv, TypeOK
<1> DEFINE A == num = 0 \/ s >= maxSid
           B == num > 0 /\ s < maxSid /\ cache # <<>> /\ cachePrev <= s
<1>6. Upper(s) = CASE A -> NoEntry [] B -> Cached(s) [] OTHER -> UpperInFile(s)
  BY DEF Upper
<1>7. CASE A
  <2>1. ASSUME NEW j \in 1..Len(es)  PROVE es[j].sid <= s
    <3>1. es # <<>> /\ num # 0 /\ j <= Len(es)
      BY <1>1
    <3>2. es[j].sid <= es[Len(es)].sid
      BY <1>3, <1>4, <3>1
    <3>3. s >= es[Len(es)].sid
      BY <1>1, <1>7, <3>1
    <3>4. es[j].sid \in Nat /\ es[Len(es)].sid \in Nat
      BY <1>1, <1>4, <3>1
    <3> QED
      BY <3>2, <3>3, <3>4
  <2>2. Upper(s) = NoEntry
    <3>1. ~B
      BY <1>5, <1>7
    <3> QED
      BY <1>6, <1>7, <3>1
  <2> QED
    BY <2>1, <2>2
<1>8. CASE ~A /\ B
  <2>1. Upper(s) = Cached(s)
    BY <1>6, <1>8
  <2>2. /\ Cached(s) \in Range(cache) /\ s < Cached(s).sid
        /\ \A d \in Range(cache) : s < d.sid => Cached(s).sid <= d.sid
    BY <1>8, CachedIs
  <2>3. ASSUME NEW j \in 1..Len(es), s < es[j].sid  PROVE es[j] \in Range(cache)
    <3> SUFFICES ASSUME j <= L  PROVE FALSE
      BY <1>2
    <3>1. j \in 1..L /\ L \in 1..L /\ index # <<>>
      BY <1>1, <1>5
    <3>2. es[j].sid <= es[L].sid /\ es[L] = index[L]
      BY <1>2, <1>3, <3>1
    <3>3. cachePrev = index[L].sid
      BY <1>2, <1>8, <3>1
    <3>4. es[j].sid \in Nat /\ es[L].sid \in Nat
      BY <1>1, <1>2, <3>1
    <3> QED
      BY <1>8, <2>3, <3>2, <3>3, <3>4
  <2>4. \A j \in 1..Len(es) : s < es[j].sid => Cached(s).sid <= es[j].sid
    BY <2>2, <2>3
  <2>5. \E i \in 1..Len(es) : Cached(s) = es[i]
    BY <1>2, <2>2
  <2>6. IsFirstAbove(es, s, Cached(s))
    BY <2>2, <2>4, <2>5 DEF IsFirstAbove
  <2> QED
    BY <2>1, <2>6
<1>9. CASE ~A /\ ~B
  <2>1. Upper(s) = UpperInFile(s)
    BY <1>6, <1>9
  <2>2. es # <<>> /\ num > 0 /\ s < maxSid /\ s < es[Len(es)].sid
    <3>1. num # 0 /\ s < maxSid
      BY <1>5, <1>9
    <3>2. Len(es) # 0
      BY <1>1, <3>1
    <3> QED
      BY <1>1, <1>5, <3>1, <3>2
  <2>3. cache # <<>> => s < cachePrev
    BY <1>5, <1>9, <2>2
  <2>4. L > 0 /\ index # <<>>
    <3> SUFFICES ASSUME L = 0  PROVE FALSE
      BY <1>1, <1>5
    <3>1. es = cache /\ cache # <<>> /\ index = <<>>
      BY <1>2, <1>5, <2>2
    <3>2. cachePrev = 0
      BY <1>2, <3>1
    <3> QED
      BY <2>3, <3>1, <3>2
  <2>5. s < index[L].sid
    <3>1. CASE cache = <<>>
      <4>1. Len(es) = L /\ L \in 1..L
        BY <1>1, <2>4, <3>1
      <4> QED
        BY <1>2, <2>2, <4>1
    <3>2. CASE cache # <<>>
      BY <1>2, <2>3, <2>4, <3>2
    <3> QED
      BY <3>1, <3>2
  <2>6. CASE s < minSid
    <3>1. UpperInFile(s) = index[1] /\ 1 \in 1..L
      <4>1. UpperInFile(s) = ReadIndex(0)
        BY <2>6 DEF UpperInFile
      <4>2. ReadIndex(0) = index[0 + 1] /\ 0 + 1 = 1
        BY <2>4, ReadIndexIs
      <4> QED
        BY <1>1, <2>4, <4>1, <4>2
    <3>2. index[1] = es[1] /\ 1 \in 1..Len(es) /\ minSid = es[1].sid
      BY <1>1, <1>2, <2>2, <3>1
    <3>3. \A j \in 1..Len(es) : es[1].sid <= es[j].sid
      BY <1>1, <1>3, <3>2
    <3>4. IsFirstAbove(es, s, es[1])
      BY <2>6, <3>2, <3>3 DEF IsFirstAbove
    <3> QED
      BY <2>1, <3>1, <3>2, <3>4
  <2>7. CASE ~(s < minSid)
    <3> DEFINE at == Searched(s)
    <3>1. Beside(s, at) /\ at # Word
      BY <1>5, <2>4, <2>7, SearchedIs
    <3>2. UpperInFile(s) =
            CASE at = Word -> Failed
              [] at # Word /\ s >= ReadIndex(at).sid -> ReadIndex(at + 1)
              [] at # Word /\ s < ReadIndex(at).sid  -> ReadIndex(at)
      BY <2>7 DEF UpperInFile
    <3> HIDE DEF at
    <3>3. at \in Nat /\ at < L
      BY <3>1 DEF Beside
    <3>4. ReadIndex(at) = index[at + 1] /\ at + 1 \in 1..L /\ ReadIndex(at).sid = index[at + 1].sid
          /\ index[at + 1].sid \in Nat
      BY <3>3, ReadIndexIs
    <3>5. at + 1 \in 1..Len(es) /\ es[at + 1] = index[at + 1]
      BY <1>2, <3>4
    <3>6. CASE s < index[at + 1].sid
      <4>1. UpperInFile(s) = es[at + 1]
        BY <3>1, <3>2, <3>4, <3>5, <3>6
      <4>2. \A j \in 1..L : j <= at => index[j].sid <= s
        BY <3>1, <3>6 DEF Beside
      <4>3. ASSUME NEW j \in 1..Len(es), s < es[j].sid  PROVE es[at + 1].sid <= es[j].sid
        <5>1. ~(j <= at)
          <6> SUFFICES ASSUME j <= at  PROVE FALSE
            OBVIOUS
          <6>1. j \in 1..L
            BY <1>1, <3>3
          <6>2. es[j].sid <= s /\ es[j].sid \in Nat
            BY <1>1, <1>2, <4>2, <6>1
          <6> QED
            BY <4>3, <6>2
        <5>2. at + 1 <= j
          BY <1>1, <3>3, <5>1
        <5> QED
          BY <1>3, <3>5, <5>2
      <4>4. IsFirstAbove(es, s, es[at + 1])
        BY <3>5, <3>6, <4>3 DEF IsFirstAbove
      <4> QED
        BY <2>1, <4>1, <4>4
    <3>7. CASE index[at + 1].sid <= s
      <4>1. UpperInFile(s) = ReadIndex(at + 1)
        BY <3>1, <3>2, <3>4, <3>7
      <4>2. \A j \in 1..L : at + 1 < j => s < index[j].sid
        BY <3>1, <3>7 DEF Beside
      <4>3. at + 1 < L
        <5> SUFFICES ASSUME at + 1 = L  PROVE FALSE
          BY <1>1, <3>3
        <5>1. index[L].sid <= s /\ index[L].sid \in Nat
          BY <3>4, <3>7
        <5> QED
          BY <2>5, <5>1
      <4>4. at + 1 \in Nat /\ at + 2 \in 1..L /\ (at + 1) + 1 = at + 2
        BY <1>1, <3>3, <4>3
      <4>5. ReadIndex(at + 1) = index[at + 2] /\ index[at + 2] = es[at + 2] /\ at + 2 \in 1..Len(es)
        BY <1>2, <4>3, <4>4, ReadIndexIs
      <4>6. s < es[at + 2].sid
        <5>1. at + 1 < at + 2
          BY <3>3
        <5> QED
          BY <4>2, <4>4, <4>5, <5>1
      <4>7. ASSUME NEW j \in 1..Len(es), s < es[j].sid  PROVE es[at + 2].sid <= es[j].sid
        <5>1. ~(j <= at + 1)
          <6> SUFFICES ASSUME j <= at + 1  PROVE FALSE
            OBVIOUS
          <6>1. es[j].sid <= es[at + 1].sid /\ es[j].sid \in Nat /\ es[at + 1].sid \in Nat
            BY <1>1, <1>3, <3>5
          <6> QED
            BY <3>5, <3>7, <4>7, <6>1
        <5>2. at + 2 <= j
          BY <1>1, <3>3, <5>1
        <5> QED
          BY <1>3, <4>5, <5>2
      <4>8. IsFirstAbove(es, s, es[at + 2])
        BY <4>5, <4>6, <4>7 DEF IsFirstAbove
      <4> QED
        BY <2>1, <4>1, <4>5, <4>8
    <3> QED
      BY <3>4, <3>6, <3>7
  <2> QED
    BY <2>6, <2>7
<1> QED
  BY <1>7, <1>8, <1>9


LEMMA LowerIs ==
  ASSUME Inv, Readable, NEW s \in Nat, s \notin {d.sid : d \in Range(cache)}, NEW es, IsEntries(es)
  PROVE  \/ Lower(s) = NoEntry /\ \A j \in 1..Len(es) : s < es[j].sid
         \/ IsLastUpTo(es, s, Lower(s))
<1> DEFINE L == Len(index)
<1>1. /\ es \in Seq(IndexEntry) /\ num = Len(es) /\ Len(es) = L + Len(cache) /\ L \in Nat /\ Len(cache) \in Nat
      /\ \A i \in 1..Len(es) : es[i].sid \in Nat /\ 0 < es[i].sid
      /\ \A i, j \in 1..Len(es) : i < j => es[i].sid < es[j].sid
      /\ es # <<>> => minSid = es[1].sid /\ maxSid = es[Len(es)].sid
  BY Ascends
<1>2. /\ \A i \in 1..L : i \in 1..Len(es) /\ es[i] = index[i]
      /\ \A j \in 1..Len(es) : j <= L \/ es[j] \in Range(cache)
      /\ \A d \in Range(cache) : \E i \in 1..Len(es) : d = es[i]
      /\ cache # <<>> => st = "open" /\ cacheMin = cache[1].sid /\ cache[1] \in Range(cache)
      /\ Len(index) = 0 => es = cache
      /\ st = "open" => cachePrev = (IF index = <<>> THEN 0 ELSE index[L].sid)
      /\ \A d \in Range(cache) : d.sid \in Nat
      /\ \A d \in Range(cache) : cache[1].sid <= d.sid
      /\ \A i \in 1..L : \A d \in Range(cache) : es[i].sid < d.sid
  BY Split
<1>3. ASSUME NEW i \in 1..Len(es), NEW j \in 1..Len(es), i <= j
      PROVE  es[i].sid <= es[j].sid
  <2>1. es[i].sid \in Nat /\ es[j].sid \in Nat
    BY <1>1
  <2>2. i = j \/ i < j
    BY <1>1, <1>3
  <2>3. i < j => es[i].sid < es[j].sid
    BY <1>1
  <2> QED
    BY <2>1, <2>2, <2>3
<1>4. es # <<>> => Len(es) \in 1..Len(es) /\ 1 \in 1..Len(es) /\ num > 0
  BY <1>1
<1>5. index \in Seq(IndexEntry) /\ maxSid \in Nat /\ minSid \in Nat /\ num \in Nat /\ cacheMin \in Nat
  BY DEF Inv, TypeOK
<1>6. \A d \in Range(cache) : d.sid # s
  OBVIOUS
<1> DEFINE A == num = 0 \/ s < minSid
           B == num > 0 /\ s >= minSid /\ cache # <<>> /\ cacheMin < s
<1>7. Lower(s) = CASE A -> NoEntry [] B -> CachedBelow(s) [] OTHER -> LowerInFile(s)
  BY DEF Lower
<1>8. CASE A
  <2>1. ASSUME NEW j \in 1..Len(es)  PROVE s < es[j].sid
    <3>1. es # <<>> /\ num # 0 /\ 1 <= j
      BY <1>1
    <3>2. es[1].sid <= es[j].sid /\ es[1].sid \in Nat /\ es[j].sid \in Nat
      BY <1>1, <1>3, <1>4, <3>1
    <3>3. s < es[1].sid
      BY <1>1, <1>8, <3>1
    <3> QED
      BY <3>2, <3>3
  <2>2. Lower(s) = NoEntry
    <3>1. ~B
      BY <1>5, <1>8
    <3> QED
      BY <1>7, <1>8, <3>1
  <2> QED
    BY <2>1, <2>2
<1>9. CASE ~A /\ B
  <2>1. Lower(s) = CachedBelow(s)
    BY <1>7, <1>9
  <2>2. /\ CachedBelow(s) \in Range(cache) /\ CachedBelow(s).sid < s
        /\ \A d \in Range(cache) : d.sid < s => d.sid <= CachedBelow(s).sid
    BY <1>9, CachedBelowIs
  <2>3. CachedBelow(s).sid \in Nat /\ cache[1] \in Range(cache) /\ cache[1].sid < s /\ cache[1].sid \in Nat
    BY <1>2, <1>9, <2>2
  <2>4. ASSUME NEW j \in 1..Len(es), es[j].sid <= s  PROVE es[j].sid <= CachedBelow(s).sid
    <3>1. CASE es[j] \in Range(cache)
      <4>1. es[j].sid < s
        BY <1>1, <1>6, <2>4, <3>1
      <4> QED
        BY <2>2, <3>1, <4>1
    <3>2. CASE j <= L
      <4>1. j \in 1..L
        BY <1>1, <3>2
      <4>2. es[j].sid < cache[1].sid /\ es[j].sid \in Nat
        BY <1>1, <1>2, <2>3, <4>1
      <4>3. cache[1].sid <= CachedBelow(s).sid
        BY <2>2, <2>3
      <4> QED
        BY <2>3, <4>2, <4>3
    <3> QED
      BY <1>2, <3>1, <3>2
  <2>5. \E i \in 1..Len(es) : CachedBelow(s) = es[i]
    BY <1>2, <2>2
  <2>6. CachedBelow(s).sid <= s
    BY <2>2, <2>3
  <2>7. IsLastUpTo(es, s, CachedBelow(s))
    BY <2>4, <2>5, <2>6 DEF IsLastUpTo
  <2> QED
    BY <2>1, <2>7
<1>10. CASE ~A /\ ~B
  <2>1. Lower(s) = LowerInFile(s)
    BY <1>7, <1>10
  <2>2. es # <<>> /\ num > 0 /\ minSid <= s /\ minSid = es[1].sid /\ maxSid = es[Len(es)].sid
    <3>1. num # 0 /\ minSid <= s
      BY <1>5, <1>10
    <3>2. Len(es) # 0
      BY <1>1, <3>1
    <3> QED
      BY <1>1, <1>5, <3>1, <3>2
  <2>3. \A d \in Range(cache) : s < d.sid
    <3> SUFFICES ASSUME NEW d \in Range(cache)  PROVE s < d.sid
      OBVIOUS
    <3>1. cache # <<>>
      BY DEF Range
    <3>2. ~(cacheMin < s)
      BY <1>5, <1>10, <2>2, <3>1
    <3>3. cacheMin = cache[1].sid /\ cache[1].sid <= d.sid /\ d.sid \in Nat /\ d.sid # s
      BY <1>2, <1>6, <3>1
    <3> QED
      BY <1>5, <3>2, <3>3
  <2>4. L > 0 /\ index # <<>>
    <3> SUFFICES ASSUME L = 0  PROVE FALSE
      BY <1>1, <1>5
    <3>1. es = cache /\ cache # <<>> /\ cache[1] \in Range(cache)
      BY <1>2, <1>5, <2>2
    <3>2. s < es[1].sid /\ es[1].sid \in Nat
      BY <1>1, <1>4, <2>2, <2>3, <3>1
    <3> QED
      BY <2>2, <3>2
  <2>5. \A j \in 1..Len(es) : es[j].sid <= s => j <= L
    <3> SUFFICES ASSUME NEW j \in 1..Len(es), es[j].sid <= s, es[j] \in Range(cache)  PROVE FALSE
      BY <1>2
    <3>1. s < es[j].sid /\ es[j].sid \in Nat
      BY <1>1, <2>3
    <3> QED
      BY <3>1
  <2>6. CASE s >= maxSid
    <3>1. cache = <<>>
      <4> SUFFICES ASSUME cache # <<>>  PROVE FALSE
        OBVIOUS
      <4>1. Len(es) \in 1..Len(es) /\ es[Len(es)].sid <= s
        BY <1>4, <2>2, <2>6
      <4>2. Len(es) <= L
        BY <2>5, <4>1
      <4>3. Len(cache) # 0
        BY DEF Inv, TypeOK
      <4> QED
        BY <1>1, <4>2, <4>3
    <3>2. num = L /\ num - 1 \in Nat /\ num - 1 < L /\ (num - 1) + 1 = L /\ L \in 1..L
      BY <1>1, <2>4, <3>1
    <3>3. LowerInFile(s) = ReadIndex(num - 1)
      BY <2>6 DEF LowerInFile
    <3>4. ReadIndex(num - 1) = index[L]
      BY <3>2, ReadIndexIs
    <3>5. index[L] = es[L] /\ L \in 1..Len(es) /\ L = Len(es) /\ es[L].sid <= s
      BY <1>1, <1>2, <2>2, <2>6, <3>2
    <3>6. \A j \in 1..Len(es) : es[j].sid <= es[L].sid
      BY <1>1, <1>3, <3>5
    <3>7. IsLastUpTo(es, s, es[L])
      BY <3>5, <3>6 DEF IsLastUpTo
    <3> QED
      BY <2>1, <3>3, <3>4, <3>5, <3>7
  <2>7. CASE ~(s >= maxSid)
    <3> DEFINE at == Searched(s)
    <3>1. Beside(s, at) /\ at # Word
      BY <2>2, <2>4, SearchedIs
    <3>2. LowerInFile(s) =
            CASE at = Word -> Failed
              [] at # Word /\ s < ReadIndex(at).sid  -> ReadIndex((at - 1) % Word)
              [] at # Word /\ s >= ReadIndex(at).sid -> ReadIndex(at)
      BY <2>7 DEF LowerInFile
    <3> HIDE DEF at
    <3>3. at \in Nat /\ at < L
      BY <3>1 DEF Beside
    <3>4. ReadIndex(at) = index[at + 1] /\ at + 1 \in 1..L /\ ReadIndex(at).sid = index[at + 1].sid
          /\ index[at + 1].sid \in Nat
      BY <3>3, ReadIndexIs
    <3>5. at + 1 \in 1..Len(es) /\ es[at + 1] = index[at + 1]
      BY <1>2, <3>4
    <3>6. CASE s < index[at + 1].sid
      <4>1. LowerInFile(s) = ReadIndex((at - 1) % Word)
        BY <3>1, <3>2, <3>4, <3>6
      <4>2. at > 0 /\ \A j \in 1..L : j <= at => index[j].sid <= s
        BY <3>1, <3>6 DEF Beside
      <4>3. (at - 1) % Word = at - 1
        <5>1. 2 * (L - 1) < Word /\ Word \in Nat
          BY <2>4, FewEntries, Constants
        <5>2. 0 <= at - 1 /\ at - 1 < Word /\ at - 1 \in Int
          BY <1>1, <3>3, <4>2, <5>1
        <5> QED
          BY <5>2, ModFacts
      <4>4. at - 1 \in Nat /\ at - 1 < L /\ (at - 1) + 1 = at /\ at \in 1..L
        BY <1>1, <3>3, <4>2
      <4>5. ReadIndex(at - 1) = index[at] /\ index[at] = es[at] /\ at \in 1..Len(es)
        BY <1>2, <4>4, ReadIndexIs
      <4>6. es[at].sid <= s
        <5>1. at <= at
          BY <3>3
        <5> QED
          BY <4>2, <4>4, <4>5, <5>1
      <4>7. ASSUME NEW j \in 1..Len(es), es[j].sid <= s  PROVE es[j].sid <= es[at].sid
        <5>1. ~(at + 1 <= j)
          <6> SUFFICES ASSUME at + 1 <= j  PROVE FALSE
            OBVIOUS
          <6>1. es[at + 1].sid <= es[j].sid /\ es[j].sid \in Nat /\ es[at + 1].sid \in Nat
            BY <1>1, <1>3, <3>5
          <6> QED
            BY <3>5, <3>6, <4>7, <6>1
        <5>2. j <= at
          BY <1>1, <3>3, <5>1
        <5> QED
          BY <1>3, <4>5, <5>2
      <4>8. IsLastUpTo(es, s, es[at])
        BY <4>5, <4>6, <4>7 DEF IsLastUpTo
      <4> QED
        BY <2>1, <4>1, <4>3, <4>5, <4>8
    <3>7. CASE index[at + 1].sid <= s
      <4>1. LowerInFile(s) = es[at + 1]
        BY <3>1, <3>2, <3>4, <3>5, <3>7
      <4>2. \A j \in 1..L : at + 1 < j => s < index[j].sid
        BY <3>1, <3>7 DEF Beside
      <4>3. ASSUME NEW j \in 1..Len(es), es[j].sid <= s  PROVE es[j].sid <= es[at + 1].sid
        <5>1. j \in 1..L /\ es[j] = index[j] /\ es[j].sid \in Nat
          BY <1>1, <1>2, <2>5, <4>3
        <5>2. ~(at + 1 < j)
          BY <4>2, <4>3, <5>1
        <5>3. j <= at + 1
          BY <3>3, <5>2
        <5> QED
          BY <1>3, <3>5, <5>3
      <4>4. IsLastUpTo(es, s, es[at + 1])
        BY <3>5, <3>7, <4>3 DEF IsLastUpTo
      <4> QED
        BY <2>1, <4>1, <4>4
    <3> QED
      BY <3>4, <3>6, <3>7
  <2> QED
    BY <2>6, <2>7
<1> QED
  BY <1>8, <1>9, <1>10

LEMMA LastSidIs ==
  ASSUME Inv, Readable, NEW n \in 1..num, NEW es, IsEntries(es)
  PROVE  num - n + 1 \in 1..Len(es) /\ LastSidByNo(n) = es[num - n + 1].sid
<1> DEFINE L == Len(index)
           C == Len(cache)
<1>1. /\ num = Len(es) /\ Len(es) = L + C /\ L \in Nat /\ C \in Nat
      /\ \A i \in 1..L : es[i] = index[i]
      /\ \A i \in 1..C : es[L + i] = cache[i]
  BY Ascends
<1>2. num - n + 1 \in 1..Len(es)
  BY <1>1
<1>3. CASE n <= C
  <2>1. C - n + 1 \in 1..C /\ L + (C - n + 1) = num - n + 1
    BY <1>1, <1>3
  <2>2. cache[C - n + 1] = es[num - n + 1]
    BY <1>1, <2>1
  <2>3. LastSidByNo(n) = cache[C - n + 1].sid
    BY <1>3 DEF LastSidByNo
  <2> QED
    BY <1>2, <2>2, <2>3
<1>4. CASE ~(n <= C)
  <2>1. num - n \in Nat /\ num - n < L /\ num - n + 1 \in 1..L
    BY <1>1, <1>4
  <2>2. ReadIndex(num - n).sid = index[num - n + 1].sid
    BY <2>1, ReadIndexIs
  <2>3. LastSidByNo(n) = ReadIndex(num - n).sid
    BY <1>4 DEF LastSidByNo
  <2> QED
    BY <1>1, <1>2, <2>1, <2>2, <2>3
<1> QED
  BY <1>3, <1>4

(***************************************************************************)
(* The records of the file.                                                 *)
(***************************************************************************)
LEMMA RecordsAre ==
  ASSUME Inv, Readable, NEW es, IsEntries(es)
  PROVE  /\ Len(Records) = Len(es) /\ num = Len(es) /\ DOMAIN Records = 1..Len(es) /\ Len(es) \in Nat
         /\ \A i \in 1..Len(es) : /\ Entry(Records[i]) = es[i] /\ Records[i].sid = es[i].sid
                                  /\ Records[i] = file[es[i].off + 1]
<1> DEFINE g == SubSeq(file, 1, size)
<1>1. /\ file \in Seq(Cell) /\ HeadersOK(file) /\ es \in Seq(IndexEntry)
      /\ Chain(es) /\ (\A i \in 1..Len(es) : Stands(file, es[i]))
      /\ size = EndOf(es) /\ size \in Nat /\ size <= Len(file)
  BY InUse
<1>2. num = Len(es) /\ Len(es) \in Nat
  BY <1>1 DEF Inv, OpenOK, IsEntries
<1>3. g \in Seq(Cell) /\ Len(g) = size /\ \A i \in 1..size : g[i] = file[i]
  BY <1>1
<1>4. Records = Scan(g)
  BY DEF Records
<1> HIDE DEF g
<1>5. HeadersOK(g)
  BY <1>1, <1>3, PrefixIs
<1>6. ASSUME NEW i \in 1..Len(es)
      PROVE  /\ es[i] \in IndexEntry /\ es[i].off < size /\ Stands(g, es[i])
             /\ g[es[i].off + 1] = file[es[i].off + 1]
             /\ Entry(g[es[i].off + 1]) = es[i] /\ g[es[i].off + 1].sid = es[i].sid
  <2>1. es[i] \in IndexEntry /\ Stands(file, es[i]) /\ End(es[i]) <= size
    <3>1. \A j \in 1..Len(es) : End(es[j]) <= EndOf(es) /\ es[j].sid <= es[Len(es)].sid
      BY <1>1, ChainAscends
    <3> QED
      BY <1>1, <3>1
  <2>2. es[i].off \in Nat /\ End(es[i]) \in Nat /\ es[i].off < End(es[i])
    BY <2>1, EntryFacts
  <2>3. es[i].off < size
    <3>1. size \in Nat /\ End(es[i]) <= size
      BY <1>1, <2>1
    <3> QED
      BY <2>2, <3>1
  <2>4. Stands(g, es[i])
    <3>1. size <= Len(g) /\ size \in Nat /\ file \in Seq(Cell) /\ g \in Seq(Cell)
      BY <1>1, <1>3
    <3> QED
      BY <1>3, <2>1, <2>3, <3>1, StillStands
  <2>5. es[i].off + 1 \in 1..size
    <3>1. size \in Nat
      BY <1>1
    <3> QED
      BY <2>2, <2>3, <3>1
  <2>6. g[es[i].off + 1].sid = es[i].sid
    BY <1>3, <2>1, <2>4, StandsFacts
  <2> QED
    BY <1>3, <2>1, <2>3, <2>4, <2>5, <2>6 DEF Stands
<1>7. ~IsHeader(g, EndOf(es))
  BY <1>1, <1>3 DEF IsHeader
<1>8. /\ Len(Scan(g)) = Len(es) /\ DOMAIN Scan(g) = 1..Len(es)
      /\ \A i \in 1..Len(es) : Scan(g)[i] = g[es[i].off + 1]
  BY <1>1, <1>3, <1>5, <1>6, <1>7, ScanIs
<1>9. ASSUME NEW i \in 1..Len(es)
      PROVE  Entry(Records[i]) = es[i] /\ Records[i].sid = es[i].sid /\ Records[i] = file[es[i].off + 1]
  <2>1. Records[i] = g[es[i].off + 1]
    BY <1>4, <1>8
  <2> QED
    BY <1>6, <2>1
<1> QED
  BY <1>2, <1>4, <1>8, <1>9

LEMMA UpperFound ==
  ASSUME Inv, Readable, NEW s \in Nat
  PROVE  UpperFinds(Records, s)
<1> DEFINE es == index \o cache
           records == Records
           above == {r \in Range(records) : r.sid > s}
<1>1. IsEntries(es)
  BY DEF IsEntries
<1> HIDE DEF es
<1>2. /\ DOMAIN records = 1..Len(es) /\ Len(es) \in Nat
      /\ \A i \in 1..Len(es) : Entry(records[i]) = es[i] /\ records[i].sid = es[i].sid
  BY <1>1, RecordsAre
<1>3. \A i \in 1..Len(es) : es[i].sid \in Nat
  BY <1>1, Ascends
<1> HIDE DEF records
<1>4. Range(records) = {records[i] : i \in 1..Len(es)}
  BY <1>2 DEF Range
<1>5. CASE Upper(s) = NoEntry /\ \A j \in 1..Len(es) : es[j].sid <= s
  <2>1. above = {}
    BY <1>2, <1>3, <1>4, <1>5
  <2> QED
    BY <1>5, <2>1 DEF UpperFinds, records
<1>6. CASE IsFirstAbove(es, s, Upper(s))
  <2>1. PICK i \in 1..Len(es) : Upper(s) = es[i]
    BY <1>6 DEF IsFirstAbove
  <2>2. s < es[i].sid /\ \A j \in 1..Len(es) : s < es[j].sid => es[i].sid <= es[j].sid
    BY <1>6, <2>1 DEF IsFirstAbove
  <2>3. records[i] \in above
    BY <1>2, <1>3, <1>4, <2>2
  <2>4. ASSUME NEW d \in above  PROVE records[i].sid <= d.sid
    <3>1. PICK j \in 1..Len(es) : d = records[j]
      BY <1>4
    <3>2. s < es[j].sid
      BY <1>2, <1>3, <3>1
    <3> QED
      BY <1>2, <2>2, <3>1, <3>2
  <2>5. \E r \in above : Upper(s) = Entry(r) /\ \A d \in above : r.sid <= d.sid
    BY <1>2, <2>1, <2>3, <2>4
  <2> QED
    BY <2>5 DEF UpperFinds, records
<1> QED
  BY <1>1, <1>5, <1>6, UpperIs

LEMMA LowerFound ==
  ASSUME Inv, Readable, NEW s \in Nat, s \notin {e.sid : e \in Range(cache)}
  PROVE  LowerFindsAt(Records, s)
<1> DEFINE es == index \o cache
           records == Records
           upto == {r \in Range(records) : r.sid <= s}
<1>1. IsEntries(es)
  BY DEF IsEntries
<1> HIDE DEF es
<1>2. /\ DOMAIN records = 1..Len(es) /\ Len(es) \in Nat
      /\ \A i \in 1..Len(es) : Entry(records[i]) = es[i] /\ records[i].sid = es[i].sid
  BY <1>1, RecordsAre
<1>3. \A i \in 1..Len(es) : es[i].sid \in Nat
  BY <1>1, Ascends
<1> HIDE DEF records
<1>4. Range(records) = {records[i] : i \in 1..Len(es)}
  BY <1>2 DEF Range
<1>5. CASE Lower(s) = NoEntry /\ \A j \in 1..Len(es) : s < es[j].sid
  <2>1. upto = {}
    BY <1>2, <1>3, <1>4, <1>5
  <2> QED
    BY <1>5, <2>1 DEF LowerFindsAt, records
<1>6. CASE IsLastUpTo(es, s, Lower(s))
  <2>1. PICK i \in 1..Len(es) : Lower(s) = es[i]
    BY <1>6 DEF IsLastUpTo
  <2>2. es[i].sid <= s /\ \A j \in 1..Len(es) : es[j].sid <= s => es[j].sid <= es[i].sid
    BY <1>6, <2>1 DEF IsLastUpTo
  <2>3. records[i] \in upto
    BY <1>2, <1>3, <1>4, <2>2
  <2>4. ASSUME NEW d \in upto  PROVE d.sid <= records[i].sid
    <3>1. PICK j \in 1..Len(es) : d = records[j]
      BY <1>4
    <3>2. es[j].sid <= s
      BY <1>2, <1>3, <3>1
    <3> QED
      BY <1>2, <2>2, <3>1, <3>2
  <2>5. \E r \in upto : Lower(s) = Entry(r) /\ \A d \in upto : d.sid <= r.sid
    BY <1>2, <2>1, <2>3, <2>4
  <2> QED
    BY <2>5 DEF LowerFindsAt, records
<1> QED
  BY <1>1, <1>5, <1>6, LowerIs

LEMMA InvFinds == Inv => LookupsFind
<1> SUFFICES ASSUME Inv, Readable
             PROVE  /\ \A s \in 0..MaxSid : UpperFinds(Records, s)
                    /\ \A s \in 0..MaxSid \ {e.sid : e \in Range(cache)} : LowerFindsAt(Records, s)
                    /\ Len(Records) = num
                    /\ \A n \in 1..num : LastSidByNo(n) = Records[num - n + 1].sid
  BY DEF LookupsFind
<1> DEFINE es == index \o cache
<1>1. IsEntries(es)
  BY DEF IsEntries
<1> HIDE DEF es
<1>2. /\ Len(Records) = Len(es) /\ num = Len(es)
      /\ \A i \in 1..Len(es) : Records[i].sid = es[i].sid
  BY <1>1, RecordsAre
<1>3. \A s \in 0..MaxSid : s \in Nat
  BY Constants
<1>4. \A s \in 0..MaxSid : UpperFinds(Records, s)
  BY <1>3, UpperFound
<1>5. \A s \in 0..MaxSid \ {e.sid : e \in Range(cache)} : LowerFindsAt(Records, s)
  BY <1>3, LowerFound
<1>6. ASSUME NEW n \in 1..num  PROVE LastSidByNo(n) = Records[num - n + 1].sid
  <2>1. num - n + 1 \in 1..Len(es) /\ LastSidByNo(n) = es[num - n + 1].sid
    BY <1>1, LastSidIs
  <2> QED
    BY <1>2, <2>1
<1> QED
  BY <1>2, <1>4, <1>5, <1>6

LEMMA InvKeeps == Inv => KeptAreWhole
<1> SUFFICES ASSUME Inv, Readable, NEW e \in kept
             PROVE  /\ \E j \in 1..num : (index \o cache)[j] = e
                    /\ \A k \in e.off+2..End(e) : file[k] = Data(e.sid)
  BY DEF KeptAreWhole
<1> DEFINE es == index \o cache
<1>1. IsEntries(es)
  BY DEF IsEntries
<1> HIDE DEF es
<1>2. /\ e \in IndexEntry /\ Stands(file, e) /\ End(e) <= size /\ num = Len(es)
      /\ \A k \in e.off+2..End(e) : file[k] = Data(e.sid)
  BY <1>1 DEF Inv, TypeOK, KeptOK, OpenOK, IsEntries
<1>3. /\ size \in Nat
      /\ \A o \in Nat : IsHeader(file, o) /\ o < size =>
           End(file[o + 1]) <= size /\ file[o + 1].sid <= maxSid
                                   /\ \E i \in 1..Len(es) : es[i] = Entry(file[o + 1])
  BY <1>1, InUse
<1>4. e.off \in Nat /\ e.off < size /\ IsHeader(file, e.off) /\ Entry(file[e.off + 1]) = e
  BY <1>2, <1>3, EntryFacts DEF Stands
<1>5. \E i \in 1..Len(es) : es[i] = e
  BY <1>3, <1>4
<1> QED
  BY <1>2, <1>5 DEF es


(***************************************************************************)
(* The cursor.                                                             *)
(***************************************************************************)
\* A page is a part of the file from the beginning of its block on.
IsPage(f, b, page) ==
  /\ page \in Seq(Cell) /\ Len(page) <= Block
  /\ page # <<>> => b * Block + Len(page) <= Len(f)
  /\ \A i \in 1..Len(page) : page[i] = f[b * Block + i]

\* What was cached and the rest that is read.
LEMMA PageJoins ==
  ASSUME NEW f \in Seq(Cell), NEW start \in Nat, NEW have \in Seq(Cell), NEW top \in Nat, NEW B \in Nat,
         Len(have) <= B, have # <<>> => start + Len(have) <= Len(f),
         \A i \in 1..Len(have) : have[i] = f[start + i],
         top <= Len(f), top <= start + B,
         NEW page, page = have \o SubSeq(f, start + Len(have) + 1, top)
  PROVE  /\ page \in Seq(Cell) /\ Len(page) <= B
         /\ page # <<>> => start + Len(page) <= Len(f)
         /\ \A i \in 1..Len(page) : page[i] = f[start + i]
<1> DEFINE h == Len(have)
           rest == SubSeq(f, start + h + 1, top)
<1>1. h \in Nat /\ Len(f) \in Nat
  OBVIOUS
<1>2. /\ rest \in Seq(Cell) /\ Len(rest) = (IF start + h + 1 <= top THEN top - (start + h) ELSE 0)
      /\ \A i \in 1..Len(rest) : rest[i] = f[start + h + i]
  <2> DEFINE a == start + h + 1
  <2>1. a \in Nat /\ 1 <= a /\ start + h = a - 1
    BY <1>1
  <2>2. \A i \in Nat : start + h + i = a + i - 1
    BY <1>1
  <2> HIDE DEF a
  <2>3. /\ SubSeq(f, a, top) \in Seq(Cell)
        /\ Len(SubSeq(f, a, top)) = (IF a <= top THEN top - a + 1 ELSE 0)
        /\ \A i \in 1..Len(SubSeq(f, a, top)) : SubSeq(f, a, top)[i] = f[a + i - 1]
    BY <1>1, <2>1
  <2>4. top - (a - 1) = top - a + 1
    BY <2>1
  <2>5. rest = SubSeq(f, a, top)
    BY DEF a
  <2> HIDE DEF rest, h
  <2>6. Len(rest) = (IF a <= top THEN top - (a - 1) ELSE 0)
    BY <2>3, <2>4, <2>5
  <2>7. Len(rest) = (IF start + h + 1 <= top THEN top - (start + h) ELSE 0)
    BY <2>1, <2>6 DEF a
  <2>8. ASSUME NEW i \in 1..Len(rest)  PROVE rest[i] = f[start + h + i]
    <3>1. i \in Nat
      OBVIOUS
    <3> QED
      BY <2>2, <2>3, <2>5, <3>1
  <2> QED
    BY <2>3, <2>5, <2>7, <2>8
<1>3. page = have \o rest
  OBVIOUS
<1> HIDE DEF rest
<1>4. /\ have \o rest \in Seq(Cell) /\ Len(have \o rest) = Len(have) + Len(rest)
      /\ \A i \in 1..Len(have) : (have \o rest)[i] = have[i]
      /\ \A i \in Len(have)+1..Len(have)+Len(rest) : (have \o rest)[i] = rest[i - Len(have)]
  BY <1>2, ConcatIs
<1>5. /\ page \in Seq(Cell) /\ Len(page) = h + Len(rest)
      /\ \A i \in 1..h : page[i] = have[i]
      /\ \A i \in h+1..h+Len(rest) : page[i] = rest[i - h]
  BY <1>3, <1>4
<1>6. Len(rest) \in Nat
  BY <1>2
<1>7. have # <<>> => start + h <= Len(f)
  OBVIOUS
<1>8. have = <<>> => h = 0
  OBVIOUS
<1> HIDE DEF h
<1>9. h <= B
  BY DEF h
<1>10. Len(page) <= B
  BY <1>1, <1>2, <1>5, <1>6, <1>9
<1>11. ASSUME page # <<>>  PROVE start + Len(page) <= Len(f)
  <2>1. Len(page) # 0
    BY <1>5, <1>11
  <2>2. CASE start + h + 1 <= top
    BY <1>1, <1>2, <1>5, <2>2
  <2>3. CASE ~(start + h + 1 <= top)
    <3>1. Len(page) = h /\ h # 0
      BY <1>1, <1>2, <1>5, <2>1, <2>3
    <3> QED
      BY <1>7, <1>8, <3>1
  <2> QED
    BY <2>2, <2>3
<1>12. ASSUME NEW i \in 1..Len(page)  PROVE page[i] = f[start + i]
  <2>1. CASE i \in 1..h
    BY <1>5, <2>1 DEF h
  <2>2. CASE i \in h+1..h+Len(rest)
    <3>1. i - h \in 1..Len(rest) /\ start + h + (i - h) = start + i
      BY <1>1, <1>6, <2>2
    <3>2. page[i] = rest[i - h] /\ rest[i - h] = f[start + h + (i - h)]
      BY <1>2, <1>5, <2>2, <3>1
    <3> QED
      BY <3>1, <3>2
  <2> QED
    BY <1>1, <1>5, <1>6, <2>1, <2>2
<1> QED
  BY <1>5, <1>10, <1>11, <1>12

LEMMA PagedIs ==
  ASSUME TypeOK, NEW c, c.block \in Nat, IsPage(file, c.block, c.page), NEW b \in Nat
  PROVE  IsPage(file, b, Paged(c, b))
<1> DEFINE have == IF c.block = b THEN c.page ELSE <<>>
           start == b * Block
           top == IF Len(file) < (b + 1) * Block THEN Len(file) ELSE (b + 1) * Block
<1>1. file \in Seq(Cell) /\ Len(file) \in Nat /\ Block \in Nat
  BY Constants DEF TypeOK
<1>2. start \in Nat /\ (b + 1) * Block = start + Block
  BY <1>1
<1>3. top \in Nat /\ top <= Len(file) /\ top <= start + Block
  BY <1>1, <1>2
<1>4. /\ have \in Seq(Cell) /\ Len(have) <= Block
      /\ have # <<>> => start + Len(have) <= Len(file)
      /\ \A i \in 1..Len(have) : have[i] = file[start + i]
  <2>1. CASE c.block = b
    BY <2>1 DEF IsPage
  <2>2. CASE c.block # b
    <3>1. have = <<>>
      BY <2>2
    <3>2. <<>> \in Seq(Cell) /\ Len(<<>>) = 0
      OBVIOUS
    <3> HIDE DEF have
    <3>3. have \in Seq(Cell) /\ Len(have) = 0
      BY <3>1, <3>2
    <3> QED
      BY <1>1, <3>1, <3>3
  <2> QED
    BY <2>1, <2>2
<1>5. Paged(c, b) = have \o SubSeq(file, start + Len(have) + 1, top)
  BY DEF Paged
<1> HIDE DEF have, start, top
<1>6. /\ Paged(c, b) \in Seq(Cell) /\ Len(Paged(c, b)) <= Block
      /\ Paged(c, b) # <<>> => start + Len(Paged(c, b)) <= Len(file)
      /\ \A i \in 1..Len(Paged(c, b)) : Paged(c, b)[i] = file[start + i]
  BY <1>1, <1>2, <1>3, <1>4, <1>5, PageJoins
<1> QED
  BY <1>6 DEF IsPage, start


LEMMA BlockFacts ==
  ASSUME NEW o \in Nat
  PROVE  /\ o \div Block \in Nat /\ (o % Block) + 1 \in 1..Block
         /\ (o \div Block) * Block + ((o % Block) + 1) = o + 1
<1>1. Block \in Nat /\ Block > 0
  BY Constants
<1> QED
  BY <1>1

\* What a cursor is.
CursorIs(c, t, head, b, page) ==
  /\ c \in [st : {"none", "unseek", "ready"}, head : Cell, block : Nat, page : Seq(Cell)]
  /\ c.st = t /\ c.head = head /\ c.block = b /\ c.page = page

LEMMA CursorMakes ==
  ASSUME NEW f, NEW c, NEW t \in {"none", "unseek", "ready"}, NEW head \in Cell, NEW b \in Nat, NEW page,
         IsPage(f, b, page), CursorIs(c, t, head, b, page),
         t = "ready" => head.off \in Nat /\ IsHeader(f, head.off) /\ head = f[head.off + 1]
  PROVE  CursorOK(f, c)
  BY DEF CursorOK, CursorIs, IsPage

LEMMA CursorHas ==
  ASSUME NEW f, NEW c, CursorOK(f, c)
  PROVE  /\ c.st \in {"none", "unseek", "ready"} /\ c.head \in Cell /\ c.block \in Nat /\ c.page \in Seq(Cell)
         /\ IsPage(f, c.block, c.page) /\ CursorIs(c, c.st, c.head, c.block, c.page)
         /\ c.st = "ready" => c.head.off \in Nat /\ IsHeader(f, c.head.off) /\ c.head = f[c.head.off + 1]
  BY DEF CursorOK, CursorIs, IsPage

LEMMA CursorTurns ==
  ASSUME NEW c \in [st : {"none", "unseek", "ready"}, head : Cell, block : Nat, page : Seq(Cell)],
         NEW b \in Nat, NEW page \in Seq(Cell), NEW q, q = [c EXCEPT !.block = b, !.page = page]
  PROVE  CursorIs(q, c.st, c.head, b, page)
<1>1. q \in [st : {"none", "unseek", "ready"}, head : Cell, block : Nat, page : Seq(Cell)]
  OBVIOUS
<1>2. q.st = c.st /\ q.head = c.head /\ q.block = b /\ q.page = page
  OBVIOUS
<1> QED
  BY <1>1, <1>2 DEF CursorIs

LEMMA CursorStands ==
  ASSUME NEW c \in [st : {"none", "unseek", "ready"}, head : Cell, block : Nat, page : Seq(Cell)],
         NEW h \in Cell, NEW t \in {"none", "unseek", "ready"}, NEW q, q = [c EXCEPT !.head = h, !.st = t]
  PROVE  CursorIs(q, t, h, c.block, c.page)
<1>1. q \in [st : {"none", "unseek", "ready"}, head : Cell, block : Nat, page : Seq(Cell)]
  OBVIOUS
<1>2. q.st = t /\ q.head = h /\ q.block = c.block /\ q.page = c.page
  OBVIOUS
<1> QED
  BY <1>1, <1>2 DEF CursorIs

\* A cursor that is sent to a header, or behind the end of the file, reads what is there.
LEMMA AtIs ==
  ASSUME TypeOK, NEW c, CursorOK(file, c), NEW o \in Nat, IsHeader(file, o) \/ Len(file) <= o
  PROVE  CursorOK(file, At(c, o))
<1> DEFINE b == o \div Block
           i == (o % Block) + 1
           page == IF c.block = b /\ i <= Len(c.page) THEN c.page ELSE Paged(c, b)
           read == [c EXCEPT !.block = b, !.page = page]
           stands == [read EXCEPT !.head = page[i], !.st = IF page[i].off = o THEN "ready" ELSE "error"]
<1>1. file \in Seq(Cell) /\ Len(file) \in Nat /\ Block \in Nat
  BY Constants DEF TypeOK
<1>2. b \in Nat /\ i \in 1..Block /\ b * Block + i = o + 1
  BY BlockFacts
<1>3. At(c, o) = IF i > Len(page) THEN read ELSE stands
  BY DEF At
<1>4. /\ c.st \in {"none", "unseek", "ready"} /\ c.head \in Cell /\ c.block \in Nat
      /\ IsPage(file, c.block, c.page)
      /\ c.st = "ready" => c.head.off \in Nat /\ IsHeader(file, c.head.off) /\ c.head = file[c.head.off + 1]
      /\ c \in [st : {"none", "unseek", "ready"}, head : Cell, block : Nat, page : Seq(Cell)]
  BY CursorHas DEF CursorIs
<1> HIDE DEF b, i
<1>5. IsPage(file, b, page)
  <2>1. IsPage(file, b, Paged(c, b))
    BY <1>2, <1>4, PagedIs
  <2> QED
    BY <1>4, <2>1
<1> HIDE DEF page
<1>6. page \in Seq(Cell)
  BY <1>5 DEF IsPage
<1>7. CursorIs(read, c.st, c.head, b, page)
  BY <1>2, <1>4, <1>6, CursorTurns
<1> HIDE DEF read
<1>8. CASE i > Len(page)
  <2>1. CursorOK(file, read)
    BY <1>2, <1>4, <1>5, <1>7, CursorMakes
  <2> QED
    BY <1>3, <1>8, <2>1
<1>9. CASE ~(i > Len(page))
  <2>1. i \in 1..Len(page) /\ page # <<>>
    BY <1>2, <1>6, <1>9
  <2>2. page[i] = file[b * Block + i] /\ b * Block + Len(page) <= Len(file)
    BY <1>5, <2>1 DEF IsPage
  <2>3. page[i] = file[o + 1]
    BY <1>2, <2>2
  <2>4. o < Len(file)
    <3> DEFINE x == b * Block
    <3>1. x \in Nat /\ x + Len(page) <= Len(file) /\ x + i = o + 1
      BY <1>1, <1>2, <2>2
    <3> HIDE DEF x
    <3>2. Len(page) \in Nat /\ i <= Len(page) /\ i \in Nat
      BY <1>6, <2>1
    <3> QED
      BY <1>1, <3>1, <3>2
  <2>5. IsHeader(file, o)
    BY <1>1, <2>4
  <2>6. page[i] \in Cell /\ page[i].off = o
    BY <1>1, <2>3, <2>5, HeaderFacts
  <2>7. stands = [read EXCEPT !.head = page[i], !.st = "ready"]
    BY <2>6
  <2>8. read \in [st : {"none", "unseek", "ready"}, head : Cell, block : Nat, page : Seq(Cell)]
        /\ read.block = b /\ read.page = page
    BY <1>7 DEF CursorIs
  <2> HIDE DEF stands
  <2>9. CursorIs(stands, "ready", page[i], b, page)
    <3> DEFINE t == "ready"
    <3>1. t \in {"none", "unseek", "ready"} /\ stands = [read EXCEPT !.head = page[i], !.st = t]
      BY <2>7
    <3> HIDE DEF t
    <3>2. CursorIs(stands, t, page[i], read.block, read.page)
      BY <2>6, <2>8, <3>1, CursorStands
    <3> QED
      BY <2>8, <3>2 DEF t
  <2>10. CursorOK(file, stands)
    <3>1. page[i].off \in Nat /\ IsHeader(file, page[i].off) /\ page[i] = file[page[i].off + 1]
      BY <2>3, <2>5, <2>6
    <3> DEFINE t == "ready"
    <3>2. t \in {"none", "unseek", "ready"} /\ CursorIs(stands, t, page[i], b, page)
      BY <2>9
    <3> HIDE DEF t
    <3> QED
      BY <1>2, <1>5, <2>6, <3>1, <3>2, CursorMakes
  <2> QED
    BY <1>3, <1>9, <2>10
<1> QED
  BY <1>8, <1>9


LEMMA FreshIs == CursorOK(file, Fresh) /\ CursorOK(file, NoCursor)
<1>1. Zero \in Cell
  BY DEF Zero, Header, Cell
<1> HIDE DEF Zero
<1>2. IsPage(file, 0, <<>>)
  <2>1. <<>> \in Seq(Cell) /\ Len(<<>>) = 0 /\ Block \in Nat
    BY Constants
  <2> DEFINE p == <<>>
  <2>2. p \in Seq(Cell) /\ Len(p) = 0 /\ p = <<>> /\ 1..0 = {}
    BY <2>1
  <2> HIDE DEF p
  <2>3. IsPage(file, 0, p)
    BY <2>1, <2>2 DEF IsPage
  <2> QED
    BY <2>3 DEF p
<1>3. <<>> \in Seq(Cell)
  OBVIOUS
<1>4. CursorIs(NoCursor, "none", Zero, 0, <<>>)
  BY <1>1, <1>3 DEF NoCursor, CursorIs
<1>5. CursorIs(Fresh, "unseek", Zero, 0, <<>>)
  <2>1. Fresh = [st |-> "unseek", head |-> Zero, block |-> 0, page |-> <<>>]
    BY DEF Fresh, NoCursor
  <2> QED
    BY <1>1, <1>3, <2>1 DEF CursorIs
<1>6. ASSUME NEW c, NEW t \in {"none", "unseek"}, CursorIs(c, t, Zero, 0, <<>>)  PROVE CursorOK(file, c)
  BY <1>1, <1>2, <1>6, CursorMakes
<1> DEFINE t == "none"
           u == "unseek"
<1>7. t \in {"none", "unseek"} /\ u \in {"none", "unseek"} /\ CursorIs(NoCursor, t, Zero, 0, <<>>)
      /\ CursorIs(Fresh, u, Zero, 0, <<>>)
  BY <1>4, <1>5
<1> HIDE DEF t, u
<1> QED
  BY <1>6, <1>7

\* Where a record begins, or the file ends.
Landing(o) == o \in Nat /\ (IsHeader(file, o) \/ Len(file) <= o)

LEMMA Landings ==
  ASSUME Inv, Readable, ~dirty, NEW es, IsEntries(es)
  PROVE  /\ Landing(0) /\ Landing(prevOff)
         /\ \A i \in 1..Len(es) : Landing(es[i].off)
         /\ cursor.st = "ready" => Landing(End(cursor.head))
         /\ cursor.st = "ready" /\ cursor.head.off # 0 => Landing(cursor.head.prev)
<1>1. /\ file \in Seq(Cell) /\ HeadersOK(file) /\ es \in Seq(IndexEntry)
      /\ Chain(es) /\ (\A i \in 1..Len(es) : Stands(file, es[i]))
      /\ size = EndOf(es) /\ size \in Nat
      /\ \A o \in Nat : IsHeader(file, o) => o <= size
      /\ \A o \in Nat : IsHeader(file, o) /\ o < size =>
           End(file[o + 1]) <= size /\ file[o + 1].sid <= maxSid
                                   /\ \E i \in 1..Len(es) : es[i] = Entry(file[o + 1])
  BY InUse
<1>2. Len(file) = size /\ prevOff = (IF es = <<>> THEN 0 ELSE es[Len(es)].off)
  BY DEF Inv, OpenOK, IsEntries
<1>3. ASSUME NEW i \in 1..Len(es)  PROVE IsHeader(file, es[i].off) /\ es[i].off \in Nat
  <2>1. es[i] \in IndexEntry /\ Stands(file, es[i])
    BY <1>1
  <2> QED
    BY <1>1, <2>1, StandsFacts
<1>4. \A i \in 1..Len(es) : Landing(es[i].off)
  BY <1>3 DEF Landing
<1>5. Landing(0)
  <2>1. CASE es = <<>>
    BY <1>1, <1>2, <2>1 DEF EndOf, Landing
  <2>2. CASE es # <<>>
    <3>1. 1 \in 1..Len(es)
      BY <1>1, <2>2
    <3>2. es[1].off = 0
      BY <1>1, <3>1 DEF Chain
    <3> QED
      BY <1>4, <3>1, <3>2
  <2> QED
    BY <2>1, <2>2
<1>6. Landing(prevOff)
  <2>1. es # <<>> => Len(es) \in 1..Len(es)
    BY <1>1
  <2> QED
    BY <1>2, <1>4, <1>5, <2>1
<1> DEFINE h == cursor.head
<1>7. cursor.st = "ready" => h.off \in Nat /\ IsHeader(file, h.off) /\ h = file[h.off + 1] /\ h \in Cell
  <2>1. CursorOK(file, cursor)
    BY DEF Inv, CursorInv
  <2> QED
    BY <2>1, CursorHas
<1> HIDE DEF h
<1>8. ASSUME cursor.st = "ready"  PROVE Landing(End(h))
  <2>1. h.off \in Nat /\ IsHeader(file, h.off) /\ h = file[h.off + 1] /\ h.off < size
    BY <1>2, <1>7, <1>8 DEF IsHeader
  <2>2. PICK i \in 1..Len(es) : es[i] = Entry(file[h.off + 1])
    BY <1>1, <2>1
  <2>3. End(es[i]) = End(h) /\ End(h) \in Nat
    BY <1>1, <2>1, <2>2, HeaderStands, HeaderFacts
  <2>4. CASE i = Len(es)
    <3>1. End(h) = size
      <4>1. es # <<>>
        BY <1>1, <2>2
      <4> QED
        BY <1>1, <2>3, <2>4, <4>1 DEF EndOf
    <3> QED
      BY <1>2, <2>3, <3>1 DEF Landing
  <2>5. CASE i # Len(es)
    <3>1. i + 1 \in 1..Len(es) /\ i + 1 # 1 /\ (i + 1) - 1 = i
      BY <1>1, <2>5
    <3>2. es[i + 1].off = End(es[i])
      BY <1>1, <3>1 DEF Chain
    <3> QED
      BY <1>4, <2>3, <3>1, <3>2
  <2> QED
    BY <2>4, <2>5
<1>9. ASSUME cursor.st = "ready", h.off # 0  PROVE Landing(h.prev)
  <2>1. h.off \in Nat /\ IsHeader(file, h.off) /\ h = file[h.off + 1] /\ h.off > 0 /\ h.prev \in Nat
    BY <1>7, <1>9 DEF Cell
  <2>2. HeaderOK(file, h.off)
    BY <1>1, <2>1 DEF HeadersOK
  <2>3. IsHeader(file, h.prev)
    BY <2>1, <2>2 DEF HeaderOK
  <2> QED
    BY <2>1, <2>3 DEF Landing
<1> QED
  BY <1>4, <1>5, <1>6, <1>8, <1>9 DEF h

LEMMA MoveKeeps ==
  ASSUME Inv, NEW c, MoveTo(c), Readable /\ ~dirty => CursorOK(file, c), ~Readable => c = NoCursor
  PROVE  Inv'
<1>1. cursor' = c /\ UNCHANGED <<file, index, torn, synced, st, bounds, wcache, kept, dirty>>
  BY DEF MoveTo, disk
<1>2. TypeOK'
  BY <1>1 DEF Inv, TypeOK, bounds, wcache
<1>3. HeadersOK(file)' /\ IndexOK' /\ KeptOK'
  BY <1>1 DEF Inv, IndexOK, KeptOK
<1>4. OpenOK' /\ CacheOK' /\ NewFile'
  BY <1>1 DEF Inv, OpenOK, CacheOK, NewFile, Readable, bounds, wcache
<1>5. CursorInv'
  BY <1>1 DEF CursorInv, Readable
<1> QED
  BY <1>2, <1>3, <1>4, <1>5 DEF Inv

\* The cursor goes from one landing to another.
LEMMA MoveToLanding ==
  ASSUME Inv, Readable, NEW c, NEW o, ~dirty => CursorOK(file, c) /\ Landing(o), MoveTo(At(c, o))
  PROVE  Inv'
<1>1. TypeOK
  BY DEF Inv
<1>2. ~dirty => CursorOK(file, At(c, o))
  BY <1>1, AtIs DEF Landing
<1> DEFINE a == At(c, o)
<1>3. MoveTo(a) /\ (~dirty => CursorOK(file, a))
  BY <1>2
<1> HIDE DEF a
<1> QED
  BY <1>3, MoveKeeps

LEMMA MovesKeep ==
  ASSUME Inv, Move
  PROVE  Inv'
<1> DEFINE es == index \o cache
<1>1. IsEntries(es)
  BY DEF IsEntries
<1> HIDE DEF es
<1>2. Readable /\ ~dirty =>
        /\ Landing(0) /\ Landing(prevOff)
        /\ \A i \in 1..Len(es) : Landing(es[i].off)
        /\ cursor.st = "ready" => Landing(End(cursor.head))
        /\ cursor.st = "ready" /\ cursor.head.off # 0 => Landing(cursor.head.prev)
  BY <1>1, Landings
<1>3. Readable /\ ~dirty => CursorOK(file, cursor)
  BY DEF Inv, CursorInv
<1>4. CASE SeekStart
  BY <1>2, <1>4, FreshIs, MoveToLanding DEF SeekStart
<1>5. CASE SeekTail
  BY <1>2, <1>5, FreshIs, MoveToLanding DEF SeekTail
<1>6. CASE CursorNext
  <2> DEFINE o == IF cursor.st = "unseek" THEN 0 ELSE End(cursor.head)
  <2>1. Readable /\ MoveTo(At(cursor, o)) /\ cursor.st \in {"unseek", "ready"}
    BY <1>6 DEF CursorNext
  <2>2. ~dirty => CursorOK(file, cursor) /\ Landing(o)
    BY <1>2, <1>3, <2>1
  <2> HIDE DEF o
  <2> QED
    BY <2>1, <2>2, MoveToLanding
<1>7. CASE CursorPrev
  <2>1. CASE cursor.st = "unseek" /\ MoveTo(At(cursor, 0))
    BY <1>2, <1>3, <1>7, <2>1, MoveToLanding DEF CursorPrev
  <2>2. CASE cursor.st = "ready" /\ cursor.head.off # 0 /\ MoveTo(At(cursor, cursor.head.prev))
    BY <1>2, <1>3, <1>7, <2>2, MoveToLanding DEF CursorPrev
  <2> QED
    BY <1>7, <2>1, <2>2 DEF CursorPrev
<1>8. CASE CursorClose
  BY <1>8, FreshIs, MoveKeeps DEF CursorClose
<1>9. ASSUME NEW s \in 0..MaxSid, SeekSid(s)  PROVE Inv'
  <2>1. Readable /\ s \in Nat
    BY <1>9, Constants DEF SeekSid
  <2>2. CASE Upper(s).sid <= 0
    <3>1. MoveTo(Fresh)
      BY <1>9, <2>2 DEF SeekSid
    <3> QED
      BY <2>1, <3>1, FreshIs, MoveKeeps
  <2>3. CASE ~(Upper(s).sid <= 0)
    <3>1. MoveTo(At(Fresh, Upper(s).off))
      BY <1>9, <2>3 DEF SeekSid
    <3>2. IsFirstAbove(es, s, Upper(s))
      <4>1. Upper(s) # NoEntry
        BY <2>3 DEF NoEntry
      <4> QED
        BY <1>1, <2>1, <4>1, UpperIs
    <3>3. PICK i \in 1..Len(es) : Upper(s) = es[i]
      BY <3>2 DEF IsFirstAbove
    <3>4. ~dirty => Landing(Upper(s).off)
      BY <1>2, <2>1, <3>3
    <3> QED
      BY <2>1, <3>1, <3>4, FreshIs, MoveToLanding
  <2> QED
    BY <2>2, <2>3
<1> QED
  BY <1>4, <1>5, <1>6, <1>7, <1>8, <1>9 DEF Move

LEMMA InvReads == Inv => CursorReads
<1> SUFFICES ASSUME Inv, Readable, ~dirty
             PROVE  /\ cursor.st # "error"
                    /\ cursor.st = "ready" => cursor.head \in Range(Records)
                    /\ \A i \in 1..Len(cursor.page) : cursor.page[i] = file[cursor.block * Block + i]
                    /\ \A i \in 2..Len(Records) : Records[i].prev = Records[i - 1].off
  BY DEF CursorReads
<1> DEFINE es == index \o cache
<1>1. IsEntries(es)
  BY DEF IsEntries
<1> HIDE DEF es
<1>2. /\ Len(Records) = Len(es) /\ DOMAIN Records = 1..Len(es) /\ Len(es) \in Nat
      /\ \A i \in 1..Len(es) : Entry(Records[i]) = es[i] /\ Records[i] = file[es[i].off + 1]
  BY <1>1, RecordsAre
<1>3. /\ cursor.st \in {"none", "unseek", "ready"} /\ IsPage(file, cursor.block, cursor.page)
      /\ cursor.st = "ready" => /\ cursor.head.off \in Nat /\ IsHeader(file, cursor.head.off)
                                /\ cursor.head = file[cursor.head.off + 1]
  <2>1. CursorOK(file, cursor)
    BY DEF Inv, CursorInv
  <2> QED
    BY <2>1, CursorHas
<1>4. /\ file \in Seq(Cell) /\ HeadersOK(file) /\ es \in Seq(IndexEntry)
      /\ Chain(es) /\ (\A i \in 1..Len(es) : Stands(file, es[i]))
      /\ size = EndOf(es) /\ size \in Nat
      /\ \A o \in Nat : IsHeader(file, o) /\ o < size =>
           End(file[o + 1]) <= size /\ file[o + 1].sid <= maxSid
                                   /\ \E i \in 1..Len(es) : es[i] = Entry(file[o + 1])
  BY <1>1, InUse
<1>5. Len(file) = size
  BY DEF Inv, OpenOK
<1>6. Range(Records) = {Records[i] : i \in 1..Len(es)}
  BY <1>2 DEF Range
\* The entry of a record tells where it is.
<1>7. ASSUME NEW o \in Nat, IsHeader(file, o)
      PROVE  \E i \in 1..Len(es) : es[i].off = o /\ Records[i] = file[o + 1]
                                   /\ End(es[i]) = End(file[o + 1])
  <2>1. o < size
    BY <1>5, <1>7 DEF IsHeader
  <2>2. PICK i \in 1..Len(es) : es[i] = Entry(file[o + 1])
    BY <1>4, <1>7, <2>1
  <2>3. es[i].off = o /\ End(es[i]) = End(file[o + 1])
    BY <1>4, <1>7, <2>2, HeaderStands
  <2> QED
    BY <1>2, <2>3
<1>8. cursor.st = "ready" => cursor.head \in Range(Records)
  BY <1>3, <1>6, <1>7
<1>9. ASSUME NEW i \in 2..Len(Records)  PROVE Records[i].prev = Records[i - 1].off
  <2> DEFINE o == es[i].off
             p == Records[i].prev
             k == i - 1
  <2>1. i \in 1..Len(es) /\ k \in 1..Len(es) /\ i # 1 /\ k \in Nat
    BY <1>2
  <2>2. es[i] \in IndexEntry /\ Stands(file, es[i]) /\ es[k] \in IndexEntry /\ Stands(file, es[k])
    BY <1>4, <2>1
  <2>3. o \in Nat /\ IsHeader(file, o) /\ Records[i] = file[o + 1] /\ Records[i] \in Cell
    BY <1>2, <1>4, <2>1, <2>2, StandsFacts
  <2>4. o = End(es[k]) /\ es[k].off < End(es[k]) /\ es[k].off \in Nat /\ End(es[k]) \in Nat
    <3>1. o = End(es[k])
      BY <1>4, <2>1 DEF Chain
    <3> QED
      BY <2>2, <3>1, EntryFacts
  <2>5. HeaderOK(file, o) /\ p \in Nat
    BY <1>4, <2>3 DEF HeadersOK, Cell
  <2>6. IsHeader(file, p) /\ p < o /\ End(file[p + 1]) = o
    <3>1. o > 0
      BY <2>3, <2>4
    <3> QED
      BY <2>3, <2>5, <3>1 DEF HeaderOK
  <2>7. PICK j \in 1..Len(es) : es[j].off = p /\ End(es[j]) = End(file[p + 1])
    BY <1>7, <2>5, <2>6
  <2>8. es[j] \in IndexEntry /\ End(es[j]) = End(es[k]) /\ j \in Nat
    BY <1>4, <2>4, <2>6, <2>7
  <2>9. es[j].off < End(es[j]) /\ es[j].off \in Nat /\ End(es[j]) \in Nat
    BY <2>8, EntryFacts
  <2> HIDE DEF o, p, k
  <2>10. j = k
    <3>1. ~(j < k)
      <4> SUFFICES ASSUME j < k  PROVE FALSE
        OBVIOUS
      <4>1. End(es[j]) <= es[k].off
        BY <1>4, <2>1 DEF Chain
      <4> QED
        BY <2>4, <2>8, <4>1
    <3>2. ~(k < j)
      <4> SUFFICES ASSUME k < j  PROVE FALSE
        OBVIOUS
      <4>1. End(es[k]) <= es[j].off
        BY <1>4, <2>1 DEF Chain
      <4> QED
        BY <2>8, <2>9, <4>1
    <3> QED
      BY <2>1, <2>8, <3>1, <3>2
  <2>11. Records[k].off = es[k].off
    <3>1. Records[k] = file[es[k].off + 1]
      BY <1>2, <2>1
    <3>2. file[es[k].off + 1].off = es[k].off
      BY <1>4, <2>2, StandsFacts
    <3> QED
      BY <3>1, <3>2
  <2> QED
    BY <2>7, <2>10, <2>11 DEF k, p
<1> QED
  BY <1>3, <1>8, <1>9 DEF IsPage

(***************************************************************************)
(* The theorems.                                                            *)
(***************************************************************************)
LEMMA WriteKeeps ==
  ASSUME Inv, Write
  PROVE  Inv'
  BY AppendRecordKeeps, AppendFailsKeeps, AppendFailsIndexKeeps, FlushCacheKeeps, FlushCacheFailsKeeps,
     SetReadOnlyKeeps, FsyncKeeps DEF Write

LEMMA NextInv == Inv /\ [FileNext]_fileVars => Inv'
<1> SUFFICES ASSUME Inv, [FileNext]_fileVars  PROVE Inv'
  OBVIOUS
<1>1. CASE MkBinlog
  BY <1>1, MkBinlogKeeps
<1>2. CASE OpenFails
  BY <1>2, OpenFailsKeeps
<1>3. CASE Close
  BY <1>3, CloseKeeps
<1>4. CASE Crash
  BY <1>4, CrashKeeps
<1>5. CASE MachineCrash
  BY <1>5, MachineCrashKeeps
<1>6. CASE \E readOnly \in BOOLEAN : Open(readOnly)
  BY <1>6, OpenKeeps
<1>7. CASE Write
  BY <1>7, WriteKeeps
<1>8. CASE Move
  BY <1>8, MovesKeep
<1>9. CASE UNCHANGED fileVars
  <2>1. UNCHANGED <<file, index, torn, synced, st, bounds, wcache, cursor, kept, dirty>>
    BY <1>9 DEF fileVars, disk
  <2>2. TypeOK'
    BY <2>1 DEF Inv, TypeOK, bounds, wcache
  <2>3. HeadersOK(file)' /\ IndexOK' /\ KeptOK'
    BY <2>1 DEF Inv, IndexOK, KeptOK
  <2>4. OpenOK' /\ CacheOK' /\ NewFile' /\ CursorInv'
    BY <2>1 DEF Inv, OpenOK, CacheOK, NewFile, CursorInv, Readable, bounds, wcache
  <2> QED
    BY <2>2, <2>3, <2>4 DEF Inv
<1> QED
  BY <1>1, <1>2, <1>3, <1>4, <1>5, <1>6, <1>7, <1>8, <1>9 DEF FileNext

\* The data file, its index, the write cache and the cursor's page agree in every
\* reachable state: through writes of a record or of the index that fail half-way,
\* through CwxBinLogFile::open() with and without createIndex(), and through the end
\* of the process or of the machine.
THEOREM FileInvariant == FileSpec => []Inv
<1>1. FileInit => Inv
  BY InitInv
<1>2. Inv /\ [FileNext]_fileVars => Inv'
  BY NextInv
<1> QED
  BY <1>1, <1>2, PTL DEF FileSpec

\* CwxBinLogFile::upper(), lower() and getLastSidByNo() return what a scan of the
\* data file would: the binary search over the index file, whose bounds are
\* unsigned, ends in time at the right entry, and the write cache is consulted
\* exactly when the record is not in the index file yet.
THEOREM LookupsAlwaysFind == FileSpec => []LookupsFind
<1>1. Inv => LookupsFind
  BY InvFinds
<1> QED
  BY <1>1, FileInvariant, PTL

\* A record that append() accepted is in the index and in the file with all of its
\* data after any number of failures, rebuilds and restarts, unless the machine died
\* before it was synced.
THEOREM KeptAlwaysWhole == FileSpec => []KeptAreWhole
<1>1. Inv => KeptAreWhole
  BY InvKeeps
<1> QED
  BY <1>1, FileInvariant, PTL

\* A CwxBinLogCursor stands on records only and its cached page is a part of the
\* file, however the file grew while the page was cached; prev() leads from every
\* record to the one before it.
THEOREM CursorAlwaysReads == FileSpec => []CursorReads
<1>1. Inv => CursorReads
  BY InvReads
<1> QED
  BY <1>1, FileInvariant, PTL

=============================================================================
