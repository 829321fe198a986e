------------------------------ MODULE McProofs ------------------------------
(***************************************************************************)
(* Proofs about the mc server: its queue accounts for every message and lets  *)
(* the oldest go first, a client gets one answer for a fetch, and the files of  *)
(* a host keep what they have been given until they are too old.               *)
(***************************************************************************)
EXTENDS McQueue, McStore, FiniteSetTheorems, WellFoundedInduction, TLAPS

(***************************************************************************)
(* Finite sets of numbers.                                                 *)
(***************************************************************************)
LEMMA LargestExists ==
  ASSUME NEW S, S \subseteq Nat, IsFiniteSet(S), S # {}
  PROVE  Max(S) \in S /\ \A j \in S : j <= Max(S)
<1> DEFINE Later(i) == {j \in S : j > i}
           N(i) == Cardinality(Later(i))
           R == {ss \in Nat \X Nat : ss[1] < ss[2]}
           T == {N(i) : i \in S}
<1>1. IsWellFoundedOn(R, Nat)
  BY NatLessThanWellFounded DEF OpToRel
<1>2. \A i \in S : IsFiniteSet(Later(i)) /\ N(i) \in Nat
  <2> SUFFICES ASSUME NEW i \in S PROVE IsFiniteSet(Later(i)) /\ N(i) \in Nat
    OBVIOUS
  <2>1. Later(i) \in SUBSET S
    OBVIOUS
  <2>2. IsFiniteSet(Later(i))
    BY <2>1, FS_Subset
  <2> QED
    BY <2>2, FS_CardinalityType
<1>3. T \in SUBSET Nat /\ T # {}
  BY <1>2
<1> HIDE DEF R
<1>4. PICK m \in T : \A n \in T : <<n, m>> \notin R
  BY <1>1, <1>3, WFMin
<1>5. PICK i \in S : m = N(i)
  OBVIOUS
<1>6. ASSUME NEW j \in S, ~(j <= i)  PROVE FALSE
  <2>1. j > i /\ i \in Nat /\ j \in Nat
    BY <1>6
  <2>2. Later(j) \subseteq Later(i) /\ j \in Later(i) /\ j \notin Later(j)
    <3>1. ASSUME NEW x \in Later(j)  PROVE x \in Later(i)
      <4>1. x \in S /\ x > j /\ x \in Nat
        OBVIOUS
      <4>2. x > i
        BY <2>1, <4>1
      <4> QED
        BY <4>1, <4>2
    <3>2. ~(j > j)
      BY <2>1
    <3> QED
      BY <2>1, <3>1, <3>2
  <2>3. N(j) \in Nat /\ N(i) \in Nat /\ N(j) <= N(i) /\ N(j) # N(i)
    <3>1. Later(j) # Later(i)
      BY <2>2
    <3> HIDE DEF Later
    <3> QED
      BY <1>2, <2>2, <3>1, FS_Subset
  <2>4. N(j) < N(i)
    <3> HIDE DEF N
    <3> QED
      BY <2>3
  <2>5. <<N(j), m>> \notin R
    BY <1>4
  <2>6. ~(N(j) < N(i))
    <3> HIDE DEF N
    <3> QED
      BY <1>5, <2>3, <2>5 DEF R
  <2> QED
    BY <2>4, <2>6
<1>7. \E x \in S : \A y \in S : x >= y
  BY <1>6
<1> QED
  BY <1>7 DEF Max

(***************************************************************************)
(* The bytes of items.                                                     *)
(***************************************************************************)
Item == [time : Nat, host : Nat, sid : Nat, size : Nat \ {0}]

\* Items that can be counted.
Items(S) == S \subseteq Item /\ IsFiniteSet(S)

LEMMA BytesFinite ==
  ASSUME NEW S, Items(S)
  PROVE  IsFiniteSet(Bytes(S)) /\ Total(S) \in Nat
<1> DEFINE f == [i \in S |-> {i} \X (1..i.size)]
           B == {{i} \X (1..i.size) : i \in S}
<1>1. IsFiniteSet(B)
  <2>1. f \in Surjection(S, B)
    BY DEF Surjection
  <2>2. IsFiniteSet(S)
    BY DEF Items
  <2> HIDE DEF f, B
  <2> QED
    BY <2>1, <2>2, FS_Surjection
<1>2. ASSUME NEW T \in B  PROVE IsFiniteSet(T)
  <2>1. PICK i \in S : T = {i} \X (1..i.size)
    OBVIOUS
  <2>2. i.size \in Nat
    BY DEF Items, Item
  <2>3. IsFiniteSet(1..i.size)
    BY <2>2, FS_Interval
  <2>4. IsFiniteSet({i})
    BY FS_Singleton
  <2> QED
    BY <2>1, <2>3, <2>4, FS_Product
<1>3. IsFiniteSet(UNION B)
  <2> HIDE DEF B
  <2> QED
    BY <1>1, <1>2, FS_UNION
<1>4. IsFiniteSet(Bytes(S))
  BY <1>3 DEF Bytes
<1> QED
  BY <1>4, FS_CardinalityType DEF Total

\* The items of a part are part of the bytes, and the others have the rest.
LEMMA TotalOfPart ==
  ASSUME NEW S, NEW T, Items(S), T \subseteq S
  PROVE  /\ Items(T) /\ Items(S \ T)
         /\ Total(T) \in Nat /\ Total(S) \in Nat /\ Total(S \ T) \in Nat
         /\ Total(T) <= Total(S)
         /\ Total(S \ T) = Total(S) - Total(T)
<1>1. Items(T) /\ Items(S \ T)
  BY FS_Subset, FS_Difference DEF Items
<1>2. /\ IsFiniteSet(Bytes(S)) /\ IsFiniteSet(Bytes(T))
      /\ Total(T) \in Nat /\ Total(S) \in Nat /\ Total(S \ T) \in Nat
  BY <1>1, BytesFinite
<1>3. Bytes(T) \subseteq Bytes(S)
  BY DEF Bytes
<1>4. Bytes(S \ T) = Bytes(S) \ Bytes(T)
  <2>1. \A U, b : b \in Bytes(U) <=> \E i \in U : b \in {i} \X (1..i.size)
    BY DEF Bytes
  <2>2. ASSUME NEW b \in Bytes(S \ T)  PROVE b \in Bytes(S) /\ b \notin Bytes(T)
    <3>1. PICK i \in S \ T : b \in {i} \X (1..i.size)
      BY <2>1, <2>2
    <3>2. b[1] = i
      BY <3>1
    <3>3. ASSUME NEW j \in T, b \in {j} \X (1..j.size)  PROVE FALSE
      <4>1. b[1] = j
        BY <3>3
      <4> QED
        BY <3>2, <4>1
    <3> QED
      BY <2>1, <3>1, <3>3
  <2>3. ASSUME NEW b \in Bytes(S), b \notin Bytes(T)  PROVE b \in Bytes(S \ T)
    BY <2>1, <2>3
  <2> QED
    BY <2>2, <2>3
<1>5. Total(S \ T) = Total(S) - Cardinality(Bytes(S) \cap Bytes(T))
  BY <1>2, <1>4, FS_Difference DEF Total
<1>6. Bytes(S) \cap Bytes(T) = Bytes(T)
  BY <1>3
<1>7. Total(T) <= Total(S)
  BY <1>2, <1>3, FS_Subset DEF Total
<1> QED
  BY <1>1, <1>2, <1>5, <1>6, <1>7 DEF Total

LEMMA TotalOfOne ==
  ASSUME NEW i \in Item
  PROVE  Items({i}) /\ Total({i}) = i.size /\ Items({}) /\ Total({}) = 0
<1>1. Bytes({i}) = {i} \X (1..i.size)
  BY DEF Bytes
<1>2. i.size \in Nat \ {0}
  BY DEF Item
<1>3. IsFiniteSet(1..i.size) /\ Cardinality(1..i.size) = i.size
  BY <1>2, FS_Interval
<1>4. IsFiniteSet({i}) /\ Cardinality({i}) = 1
  BY FS_Singleton
<1>5. Cardinality({i} \X (1..i.size)) = 1 * i.size
  BY <1>3, <1>4, FS_Product, ZenonT(40)
<1>6. Total({i}) = i.size
  <2>1. \A n \in Nat : 1 * n = n
    OBVIOUS
  <2> QED
    BY <1>1, <1>2, <1>5, <2>1 DEF Total
<1>7. Bytes({}) = {}
  BY DEF Bytes
<1> QED
  BY <1>4, <1>6, <1>7, FS_EmptySet DEF Items, Total

\* One item more.
LEMMA TotalOfMore ==
  ASSUME NEW S, Items(S), NEW i \in Item, i \notin S
  PROVE  /\ Items(S \cup {i}) /\ Total(S \cup {i}) = Total(S) + i.size
         /\ Cardinality(S \cup {i}) = Cardinality(S) + 1
<1>1. Items(S \cup {i}) /\ Cardinality(S \cup {i}) = Cardinality(S) + 1
  BY FS_AddElement DEF Items
<1>2. (S \cup {i}) \ S = {i} /\ S \subseteq S \cup {i}
  OBVIOUS
<1>3. Total({i}) = Total(S \cup {i}) - Total(S) /\ Total(S) \in Nat /\ Total(S \cup {i}) \in Nat
  BY <1>1, <1>2, TotalOfPart
<1> QED
  BY <1>1, <1>3, TotalOfOne DEF Item

LEMMA CountOfPart ==
  ASSUME NEW S, NEW T, Items(S), T \subseteq S
  PROVE  /\ Cardinality(S) \in Nat /\ Cardinality(T) \in Nat
         /\ Cardinality(S \ T) = Cardinality(S) - Cardinality(T)
<1>1. IsFiniteSet(S) /\ IsFiniteSet(T)
  BY FS_Subset DEF Items
<1>2. S \cap T = T
  OBVIOUS
<1> QED
  BY <1>1, <1>2, FS_Difference, FS_CardinalityType

(***************************************************************************)
(* The order of items.                                                     *)
(***************************************************************************)
\* No two items are equal for operator <.
Distinct(S) == \A i, j \in S : i = j \/ Before(i, j) \/ Before(j, i)

LEMMA BeforeOrders ==
  /\ \A i, j, k \in Item : Before(i, j) /\ Before(j, k) => Before(i, k)
  /\ \A i, j \in Item : ~(Before(i, j) /\ Before(j, i))
<1>1. \A i \in Item : i.time \in Nat /\ i.host \in Nat /\ i.sid \in Nat
  BY DEF Item
<1>2. ASSUME NEW i \in Item, NEW j \in Item, NEW k \in Item, Before(i, j), Before(j, k)
      PROVE  Before(i, k)
  BY <1>1, <1>2 DEF Before
<1>3. ASSUME NEW i \in Item, NEW j \in Item, Before(i, j), Before(j, i)  PROVE FALSE
  BY <1>1, <1>3 DEF Before
<1> QED
  BY <1>2, <1>3

\* There is a first item.
LEMMA FirstExists ==
  ASSUME NEW S, Items(S), S # {}
  PROVE  \E i \in S : IsFirst(S, i)
<1> DEFINE N(i) == Cardinality(Earlier(S, i))
           R == {ss \in Nat \X Nat : ss[1] < ss[2]}
           T == {N(i) : i \in S}
<1>1. IsWellFoundedOn(R, Nat)
  BY NatLessThanWellFounded DEF OpToRel
<1>2. \A i \in S : IsFiniteSet(Earlier(S, i)) /\ N(i) \in Nat
  <2> SUFFICES ASSUME NEW i \in S PROVE IsFiniteSet(Earlier(S, i)) /\ N(i) \in Nat
    OBVIOUS
  <2>1. Earlier(S, i) \in SUBSET S
    BY DEF Earlier
  <2>2. IsFiniteSet(Earlier(S, i))
    BY <2>1, FS_Subset DEF Items
  <2> QED
    BY <2>2, FS_CardinalityType
<1>3. T \in SUBSET Nat /\ T # {}
  BY <1>2
<1> HIDE DEF R
<1>4. PICK m \in T : \A n \in T : <<n, m>> \notin R
  BY <1>1, <1>3, WFMin
<1>5. PICK i \in S : m = N(i)
  OBVIOUS
<1>6. ASSUME NEW j \in Earlier(S, i)  PROVE FALSE
  <2>1. j \in S /\ Before(j, i) /\ i \in Item /\ j \in Item
    BY DEF Earlier, Items
  <2>2. Earlier(S, j) \subseteq Earlier(S, i) /\ j \notin Earlier(S, j)
    BY <2>1, BeforeOrders DEF Earlier, Items
  <2>3. N(j) \in Nat /\ N(i) \in Nat /\ N(j) <= N(i) /\ N(j) # N(i)
    <3>1. Earlier(S, j) # Earlier(S, i)
      BY <1>6, <2>2
    <3> QED
      BY <1>2, <2>1, <2>2, <3>1, FS_Subset
  <2>4. N(j) < N(i) /\ N(j) \in T
    BY <2>1, <2>3
  <2>5. ~(N(j) < N(i))
    <3>1. <<N(j), m>> \notin R
      BY <1>4, <2>4
    <3> HIDE DEF N
    <3> QED
      BY <1>5, <2>3, <3>1 DEF R
  <2> QED
    BY <2>4, <2>5
<1> QED
  BY <1>6 DEF IsFirst

(***************************************************************************)
(* The queue: the invariant.                                               *)
(***************************************************************************)
Client == [waiting : BOOLEAN, block : BOOLEAN, redo : BOOLEAN, owed : Int]

QueueTypes ==
  /\ Items(queue) /\ Distinct(queue)
  /\ dropped \in Nat /\ pushed \in Nat /\ taken \in Nat /\ clock \in Nat
  /\ hostId \in [Hosts -> Nat] /\ curId \in Nat /\ newest \in [Hosts -> Nat]
  /\ client \in [Clients -> Client]

\* A number belongs to one start of a host, whose messages come in the order of
\* their sids.
HostsOK ==
  /\ \A h \in Hosts : hostId[h] <= curId
  /\ \A h, g \in Hosts : h # g /\ hostId[h] # 0 => hostId[h] # hostId[g]
  /\ \A i \in queue : i.host <= curId
  /\ \A i \in queue, h \in Hosts : hostId[h] # 0 /\ i.host = hostId[h] => i.sid <= newest[h]

QueueInv == QueueTypes /\ HostsOK /\ QueueAccounted /\ AnsweredOnce

\* The files of the store are kept out of sight.
LEMMA QueueNumbers ==
  /\ MaxId \in Nat /\ MaxItems \in Nat /\ MaxTime \in Nat /\ KeepTime \in Nat /\ MaxSize \in Nat
  /\ HostSids \subseteq Nat \ {0} /\ Sizes \subseteq Nat \ {0}
  BY QueueAssumption

LEMMA QueueInitInv == QueueInit => QueueInv
<1> SUFFICES ASSUME QueueInit PROVE QueueInv
  OBVIOUS
<1>1. Items({}) /\ Distinct({}) /\ Cardinality({}) = 0 /\ Total({}) = 0
  <2>1. Bytes({}) = {}
    BY DEF Bytes
  <2> QED
    BY <2>1, FS_EmptySet DEF Items, Distinct, Total
<1>2. Closed \in Client /\ \A c \in Clients : ~Open(c)
  <2>1. Accepted \in Client /\ -1 \in Int
    BY DEF Accepted, Client
  <2>2. Closed \in Client
    BY <2>1 DEF Closed, Client
  <2> QED
    BY <2>2 DEF QueueInit, Open
<1>3. QueueTypes
  BY <1>1, <1>2 DEF QueueInit, QueueTypes
<1>4. HostsOK
  BY DEF QueueInit, HostsOK
<1>5. QueueAccounted
  BY <1>1, QueueNumbers DEF QueueInit, QueueAccounted
<1>6. AnsweredOnce
  BY <1>2 DEF AnsweredOnce
<1> QED
  BY <1>3, <1>4, <1>5, <1>6 DEF QueueInv

(***************************************************************************)
(* The hosts.                                                              *)
(***************************************************************************)
LEMMA FreshIdIs ==
  ASSUME QueueInv, curId < MaxId
  PROVE  FreshId \in Nat /\ FreshId > curId
<1>1. /\ curId \in Nat /\ hostId \in [Hosts -> Nat] /\ \A h \in Hosts : hostId[h] <= curId
      /\ MaxId \in Nat
  BY QueueNumbers DEF QueueInv, QueueTypes, HostsOK
<1> DEFINE S == {n \in (curId + 1)..MaxId : \A h \in Hosts : hostId[h] # n}
<1>2. curId + 1 \in S /\ \A n \in S : curId + 1 <= n
  BY <1>1
<1>3. \E x \in S : \A y \in S : x <= y
  BY <1>2
<1>4. Min(S) \in S
  <2> HIDE DEF S
  <2> QED
    BY <1>3 DEF Min
<1> QED
  BY <1>1, <1>4 DEF FreshId

LEMMA HostKeeps ==
  ASSUME QueueInv, NEW h \in Hosts, StartSync(h) \/ StopSync(h)
  PROVE  QueueInv'
<1>0. QueueTypes /\ HostsOK /\ QueueAccounted /\ AnsweredOnce
  BY DEF QueueInv
<1>1. /\ queue' = queue /\ curSize' = curSize /\ dropped' = dropped /\ pushed' = pushed
      /\ taken' = taken /\ clock' = clock /\ client' = client
  BY DEF StartSync, StopSync, itemVars
<1>2. QueueAccounted' /\ AnsweredOnce'
  BY <1>0, <1>1 DEF QueueAccounted, AnsweredOnce, Open
<1>3. CASE StartSync(h)
  <2>1. PICK n \in Nat : n = FreshId /\ n > curId
    BY <1>3, FreshIdIs DEF StartSync
  <2>2. /\ curId' = n /\ hostId' = [hostId EXCEPT ![h] = n] /\ newest' = [newest EXCEPT ![h] = 0]
    BY <1>3, <2>1 DEF StartSync
  <2>3. QueueTypes'
    BY <1>0, <1>1, <2>1, <2>2 DEF QueueTypes
  <2>4. \A i \in queue : i.host \in Nat /\ i.host < n
    BY <1>0, <2>1 DEF QueueTypes, HostsOK, Items, Item
  <2>5. HostsOK'
    BY <1>0, <1>1, <2>1, <2>2, <2>4 DEF QueueTypes, HostsOK
  <2> QED
    BY <1>2, <2>3, <2>5 DEF QueueInv
<1>4. CASE StopSync(h)
  <2>1. hostId' = [hostId EXCEPT ![h] = 0] /\ curId' = curId /\ newest' = newest
    BY <1>4 DEF StopSync
  <2>2. QueueTypes' /\ HostsOK'
    BY <1>0, <1>1, <2>1 DEF QueueTypes, HostsOK
  <2> QED
    BY <1>2, <2>2 DEF QueueInv
<1> QED
  BY <1>3, <1>4

(***************************************************************************)
(* Push.                                                                   *)
(***************************************************************************)
\* What push() leaves of the items fits, and is later than all it removes.
LEMMA FittingIs ==
  ASSUME NEW S, Items(S), Distinct(S)
  PROVE  LET rest == Fitting(S, Total(S))
         IN  /\ rest \subseteq S /\ Total(rest) <= MaxSize
             /\ \A i \in S \ rest, j \in rest : Before(i, j)
<1> DEFINE rest == Fitting(S, Total(S))
           E(i) == Total(Earlier(S, i))
<1>1. Total(S) \in Nat /\ MaxSize \in Nat
  BY BytesFinite, QueueNumbers
<1>2. \A i \in S : Earlier(S, i) \subseteq S /\ Items(Earlier(S, i)) /\ E(i) \in Nat
  <2> SUFFICES ASSUME NEW i \in S PROVE Earlier(S, i) \subseteq S /\ Items(Earlier(S, i)) /\ E(i) \in Nat
    OBVIOUS
  <2>1. Earlier(S, i) \subseteq S
    BY DEF Earlier
  <2> QED
    BY <2>1, TotalOfPart
<1>3. rest \subseteq S /\ \A i \in S : i \in rest <=> Total(S) - E(i) <= MaxSize
  BY DEF Fitting
<1> HIDE DEF rest, E
<1>4. ASSUME NEW i \in S \ rest, NEW j \in rest  PROVE Before(i, j)
  <2>1. CASE i = j
    BY <2>1
  <2>2. CASE Before(j, i)
    <3>1. Earlier(S, j) \subseteq Earlier(S, i)
      BY <1>3, <2>2, BeforeOrders DEF Earlier, Items
    <3>2. Total(Earlier(S, j)) <= Total(Earlier(S, i))
      BY <1>2, <3>1, TotalOfPart
    <3>3. E(j) <= E(i) /\ E(i) \in Nat /\ E(j) \in Nat
      BY <1>2, <1>3, <3>2 DEF E
    <3>4. Total(S) - E(j) <= MaxSize /\ ~(Total(S) - E(i) <= MaxSize)
      BY <1>3
    <3> QED
      BY <1>1, <3>3, <3>4
  <2> QED
    BY <1>3, <2>1, <2>2 DEF Distinct
<1>5. Total(rest) <= MaxSize
  <2>1. Items(rest) /\ Total(rest) \in Nat
    BY <1>3, TotalOfPart
  <2>2. CASE rest = {}
    <3>1. Total(rest) = 0
      <4>1. Bytes({}) = {}
        BY DEF Bytes
      <4> QED
        BY <2>2, <4>1, FS_EmptySet DEF Total
    <3> QED
      BY <1>1, <3>1
  <2>3. CASE rest # {}
    <3>1. PICK m \in rest : IsFirst(rest, m)
      BY <2>1, <2>3, FirstExists
    <3>2. Earlier(S, m) = S \ rest
      <4>1. \A j \in Earlier(S, m) : j \in S \ rest
        BY <3>1 DEF Earlier, IsFirst
      <4>2. \A j \in S \ rest : j \in Earlier(S, m)
        BY <1>4, <3>1 DEF Earlier
      <4> QED
        BY <4>1, <4>2
    <3>3. Total(S \ rest) = Total(S) - Total(rest)
      BY <1>3, TotalOfPart
    <3>4. Total(S) - E(m) <= MaxSize /\ E(m) = Total(S) - Total(rest)
      BY <1>3, <3>1, <3>2, <3>3 DEF E
    <3> QED
      BY <1>1, <2>1, <3>4
  <2> QED
    BY <2>2, <2>3
<1> QED
  BY <1>3, <1>4, <1>5 DEF rest

\* What push() of an item i of a host does: the items and it are there, the rest
\* stays.
Pushes(h, sid, size, i, all, rest) ==
  /\ i \in Item /\ i.host = hostId[h] /\ i.sid = sid /\ i.size = size
  /\ i \notin queue /\ all = queue \cup {i} /\ Items(all) /\ Distinct(all)
  /\ Total(all) = curSize + size /\ Cardinality(all) = Cardinality(queue) + 1
  /\ rest = Fitting(all, Total(all))
  /\ queue' = rest
  /\ curSize' = Total(all) - Total(all \ rest)
  /\ dropped' = dropped + Cardinality(all \ rest)

LEMMA PushFacts ==
  ASSUME QueueInv, NEW h \in Hosts, NEW sid \in HostSids, NEW time \in 1..MaxTime, NEW size \in Sizes,
         Push(h, sid, time, size)
  PROVE  \E i, all, rest : Pushes(h, sid, size, i, all, rest)
<1>0. /\ Items(queue) /\ Distinct(queue) /\ hostId \in [Hosts -> Nat] /\ newest \in [Hosts -> Nat]
      /\ curSize = Total(queue) /\ hostId[h] # 0 /\ newest[h] < sid
      /\ time \in Nat /\ sid \in Nat /\ size \in Nat \ {0}
  BY QueueNumbers DEF QueueInv, QueueTypes, QueueAccounted, Push
<1>1. PICK i : i = [time |-> time, host |-> hostId[h], sid |-> sid, size |-> size]
  OBVIOUS
<1>2. i \in Item /\ i.time = time /\ i.host = hostId[h] /\ i.sid = sid /\ i.size = size
  BY <1>0, <1>1 DEF Item
<1>3. \A j \in queue : Before(i, j) \/ Before(j, i)
  <2> SUFFICES ASSUME NEW j \in queue PROVE Before(i, j) \/ Before(j, i)
    OBVIOUS
  <2>1. j.time \in Nat /\ j.host \in Nat /\ j.sid \in Nat
    BY <1>0 DEF Items, Item
  <2>2. j.host = hostId[h] => j.sid <= newest[h]
    BY <1>0 DEF QueueInv, HostsOK
  <2> QED
    BY <1>0, <1>2, <2>1, <2>2 DEF Before
<1>4. i \notin queue
  BY <1>2, <1>3, BeforeOrders
<1>5. PICK all : all = queue \cup {i}
  OBVIOUS
<1>6. Inserted(i) = all
  BY <1>3, <1>5 DEF Inserted
<1>7. Items(all) /\ Total(all) = curSize + size /\ Cardinality(all) = Cardinality(queue) + 1
  BY <1>0, <1>2, <1>4, <1>5, TotalOfMore
<1>8. Distinct(all)
  BY <1>0, <1>3, <1>5 DEF Distinct
<1>9. PICK rest : rest = Fitting(all, curSize + size)
  OBVIOUS
<1>10. /\ queue' = Fitting(Inserted(i), curSize + size)
       /\ curSize' = curSize + size - Total(Inserted(i) \ Fitting(Inserted(i), curSize + size))
       /\ dropped' = dropped + Cardinality(Inserted(i) \ Fitting(Inserted(i), curSize + size))
  BY <1>1 DEF Push
<1> QED
  <2>1. curSize + size = Total(all)
    BY <1>7
  <2>a. /\ queue' = Fitting(all, curSize + size)
        /\ curSize' = curSize + size - Total(all \ Fitting(all, curSize + size))
        /\ dropped' = dropped + Cardinality(all \ Fitting(all, curSize + size))
    BY <1>6, <1>10, Zenon
  <2>b. /\ queue' = rest /\ curSize' = curSize + size - Total(all \ rest)
        /\ dropped' = dropped + Cardinality(all \ rest)
    BY <1>9, <2>a, Zenon
  <2>d. all \ rest \subseteq all
    OBVIOUS
  <2>e. Total(queue) \in Nat /\ Total(all \ rest) \in Nat
    BY <1>0, <1>7, <2>d, TotalOfPart, BytesFinite
  <2>f. curSize' = Total(all) - Total(all \ rest)
    BY <1>0, <2>1, <2>b, <2>e
  <2>2. /\ queue' = rest /\ curSize' = Total(all) - Total(all \ rest)
        /\ dropped' = dropped + Cardinality(all \ rest)
    BY <2>b, <2>f
  <2>c. rest = Fitting(all, Total(all))
    BY <1>9, <2>1
  <2>3. Pushes(h, sid, size, i, all, rest)
    BY <1>2, <1>4, <1>5, <1>7, <1>8, <2>2, <2>c DEF Pushes
  <2> QED
    BY <2>3

LEMMA PushKeeps ==
  ASSUME QueueInv, NEW h \in Hosts, NEW sid \in HostSids, NEW time \in 1..MaxTime, NEW size \in Sizes,
         Push(h, sid, time, size)
  PROVE  QueueInv' /\ \A i \in queue \ queue', j \in queue' : Before(i, j)
<1>0. QueueTypes /\ HostsOK /\ QueueAccounted /\ AnsweredOnce
  BY DEF QueueInv
<1>p. PICK i, all, rest : Pushes(h, sid, size, i, all, rest)
  BY PushFacts
<1>1. /\ i \in Item /\ i.host = hostId[h] /\ i.sid = sid /\ i.size = size
      /\ i \notin queue /\ all = queue \cup {i} /\ Items(all) /\ Distinct(all)
      /\ Total(all) = curSize + size /\ Cardinality(all) = Cardinality(queue) + 1
      /\ rest = Fitting(all, Total(all))
      /\ queue' = rest
      /\ curSize' = Total(all) - Total(all \ rest)
      /\ dropped' = dropped + Cardinality(all \ rest)
  BY <1>p DEF Pushes
<1>2. /\ rest \subseteq all /\ Total(rest) <= MaxSize
      /\ \A k \in all \ rest, j \in rest : Before(k, j)
  BY <1>1, FittingIs
<1>3. /\ Items(rest) /\ Total(rest) \in Nat /\ Total(all) \in Nat
      /\ Total(all \ rest) = Total(all) - Total(rest)
  BY <1>1, <1>2, TotalOfPart
<1>4. /\ Cardinality(all) \in Nat /\ Cardinality(rest) \in Nat
      /\ Cardinality(all \ rest) = Cardinality(all) - Cardinality(rest)
      /\ Cardinality(queue) \in Nat
  BY <1>0, <1>1, <1>2, CountOfPart DEF QueueTypes
<1>5. Cardinality(all) - Cardinality(rest) \in Nat
  <2>1. IsFiniteSet(all)
    BY <1>1 DEF Items
  <2> QED
    BY <1>2, <1>4, <2>1, FS_Subset
<1>6. /\ pushed' = pushed + 1 /\ newest' = [newest EXCEPT ![h] = sid] /\ taken' = taken
      /\ hostId' = hostId /\ curId' = curId /\ clock' = clock /\ client' = client
      /\ hostId[h] # 0 /\ newest[h] < sid /\ sid \in Nat
  BY QueueNumbers DEF Push
<1>7. QueueTypes'
  <2>1. Distinct(rest)
    <3>1. Distinct(all) /\ rest \subseteq all
      BY <1>1, <1>2
    <3> QED
      BY <3>1 DEF Distinct
  <2>2. dropped' \in Nat
    BY <1>0, <1>1, <1>4, <1>5 DEF QueueTypes
  <2>3. newest' \in [Hosts -> Nat]
    BY <1>0, <1>6 DEF QueueTypes
  <2> QED
    BY <1>0, <1>1, <1>3, <1>6, <2>1, <2>2, <2>3 DEF QueueTypes
<1>8. HostsOK'
  <2>1. /\ i.host = hostId[h] /\ i.sid = sid
    BY <1>1
  <2>2. /\ hostId \in [Hosts -> Nat] /\ newest \in [Hosts -> Nat] /\ curId \in Nat
    BY <1>0 DEF QueueTypes
  <2>3. \A j \in all : j.host <= curId
    BY <1>0, <1>1, <2>1 DEF HostsOK
  <2>4. \A g \in Hosts : newest'[g] = IF g = h THEN sid ELSE newest[g]
    BY <1>6, <2>2
  <2>5. ASSUME NEW j \in all, NEW g \in Hosts, hostId[g] # 0, j.host = hostId[g]
        PROVE  j.sid <= newest'[g]
    <3>1. CASE j = i
      <4>1. g = h
        BY <1>0, <1>6, <2>1, <2>5, <3>1 DEF HostsOK
      <4> QED
        BY <1>6, <2>1, <2>4, <3>1, <4>1
    <3>2. CASE j \in queue
      <4>1. j.sid \in Nat /\ j.sid <= newest[g]
        BY <1>0, <2>5, <3>2 DEF HostsOK, QueueTypes, Items, Item
      <4> QED
        BY <1>6, <2>2, <2>4, <4>1
    <3> QED
      BY <1>1, <3>1, <3>2
  <2> QED
    BY <1>0, <1>1, <1>2, <1>6, <2>3, <2>5 DEF HostsOK
<1>9. QueueAccounted'
  <2>1. curSize' = Total(rest)
    BY <1>1, <1>3
  <2>2. pushed' = Cardinality(rest) + dropped' + taken
    BY <1>0, <1>1, <1>4, <1>6 DEF QueueTypes, QueueAccounted
  <2>3. curSize' = Total(queue') /\ curSize' <= MaxSize /\ pushed' = Cardinality(queue') + dropped' + taken'
    BY <1>1, <1>2, <1>6, <2>1, <2>2
  <2> QED
    BY <2>3 DEF QueueAccounted, Total, Bytes
<1>10. AnsweredOnce'
  BY <1>0, <1>6 DEF AnsweredOnce, Open
<1>11. \A k \in queue \ queue', j \in queue' : Before(k, j)
  BY <1>1, <1>2
<1> QED
  BY <1>7, <1>8, <1>9, <1>10, <1>11 DEF QueueInv

(***************************************************************************)
(* Items that go.                                                          *)
(***************************************************************************)
LEMMA LessKeeps ==
  ASSUME QueueInv, NEW gone, gone \subseteq queue,
         queue' = queue \ gone, curSize' = curSize - Total(gone),
         dropped' \in Nat, taken' \in Nat, dropped' + taken' = dropped + taken + Cardinality(gone),
         pushed' = pushed, hostId' = hostId, curId' = curId, newest' = newest,
         clock' \in Nat, client' \in [Clients -> Client], AnsweredOnce'
  PROVE  QueueInv'
<1>0. QueueTypes /\ HostsOK /\ QueueAccounted
  BY DEF QueueInv
<1>1. PICK left : left = queue \ gone
  OBVIOUS
<1>2. Items(queue) /\ Distinct(queue) /\ left \subseteq queue /\ queue' = left
  BY <1>0, <1>1 DEF QueueTypes
<1>3. /\ Items(left) /\ Total(left) \in Nat /\ Total(gone) \in Nat /\ Total(queue) \in Nat
      /\ Total(left) = Total(queue) - Total(gone)
  BY <1>1, <1>2, TotalOfPart
<1>4. /\ Cardinality(queue) \in Nat /\ Cardinality(gone) \in Nat
      /\ Cardinality(left) = Cardinality(queue) - Cardinality(gone)
  BY <1>1, <1>2, CountOfPart
<1>5. Distinct(left)
  BY <1>2 DEF Distinct
<1>6. QueueTypes'
  BY <1>0, <1>2, <1>3, <1>5 DEF QueueTypes
<1>7. HostsOK'
  BY <1>0, <1>2 DEF HostsOK
<1>8. QueueAccounted'
  <2>1. curSize' = Total(left) /\ curSize' <= MaxSize
    BY <1>0, <1>3, QueueNumbers DEF QueueAccounted
  <2>2. pushed' = Cardinality(left) + dropped' + taken'
    BY <1>0, <1>4 DEF QueueAccounted, QueueTypes
  <2>3. curSize' = Total(queue') /\ pushed' = Cardinality(queue') + dropped' + taken'
    BY <1>2, <2>1, <2>2
  <2> QED
    BY <2>1, <2>3 DEF QueueAccounted, Total, Bytes
<1> QED
  BY <1>6, <1>7, <1>8 DEF QueueInv

\* There is an item with the latest time.
LEMMA NewestExists ==
  ASSUME NEW S, Items(S), S # {}
  PROVE  \E m \in S : \A j \in S : j.time <= m.time
<1> DEFINE f == [i \in S |-> i.time]
           T == {i.time : i \in S}
<1>1. f \in Surjection(S, T)
  BY DEF Surjection
<1>2. IsFiniteSet(S) /\ T \subseteq Nat /\ T # {}
  BY DEF Items, Item
<1>3. IsFiniteSet(T)
  <2> HIDE DEF f, T
  <2> QED
    BY <1>1, <1>2, FS_Surjection
<1>4. Max(T) \in T /\ \A x \in T : x <= Max(T)
  <2> HIDE DEF T
  <2> QED
    BY <1>2, <1>3, LargestExists
<1> QED
  BY <1>4

\* What is too old for the newest message is earlier than what stays.
LEMMA OutdatedFacts ==
  ASSUME QueueInv, CheckTimeout
  PROVE  /\ Outdated \subseteq queue
         /\ \A i \in Outdated, j \in queue \ Outdated : Before(i, j)
         /\ \A i \in Outdated : \E j \in queue \ Outdated : i.time + KeepTime < j.time
<1>1. /\ Items(queue) /\ clock \in Nat /\ KeepTime \in Nat
      /\ \A i \in queue : i.time \in Nat /\ i.host \in Nat /\ i.sid \in Nat
  BY QueueNumbers DEF QueueInv, QueueTypes, Items, Item
<1> DEFINE T == {j.time : j \in queue}
<1>2. queue # {}
  BY DEF CheckTimeout, Outdated
<1>4. PICK m \in queue : Max(T) = m.time /\ \A j \in queue : j.time <= m.time
  <2>1. PICK k \in queue : \A j \in queue : j.time <= k.time
    BY <1>1, <1>2, NewestExists
  <2>2. \E x \in T : \A y \in T : x >= y
    BY <1>1, <2>1
  <2>3. Max(T) \in T /\ \A y \in T : Max(T) >= y
    <3> HIDE DEF T
    <3> QED
      BY <2>2 DEF Max
  <2> QED
    BY <1>1, <2>3
<1>5. PICK b : b = Min({clock, m.time}) /\ b \in Nat /\ b <= m.time
  <2>1. clock \in Nat /\ m.time \in Nat
    BY <1>1
  <2>2. \E x \in {clock, m.time} : \A y \in {clock, m.time} : x <= y
    BY <2>1
  <2>3. Min({clock, m.time}) \in {clock, m.time} /\ \A y \in {clock, m.time} : Min({clock, m.time}) <= y
    BY <2>2 DEF Min
  <2> QED
    BY <2>1, <2>3
<1>6. Outdated = {i \in queue : i.time + KeepTime < b}
  BY <1>4, <1>5 DEF Outdated
<1>7. m \in queue \ Outdated
  BY <1>1, <1>5, <1>6
<1>8. ASSUME NEW i \in Outdated, NEW j \in queue \ Outdated  PROVE Before(i, j)
  <2>1. i.time + KeepTime < b /\ ~(j.time + KeepTime < b)
    BY <1>6
  <2> QED
    BY <1>1, <1>5, <1>6, <2>1 DEF Before
<1>9. ASSUME NEW i \in Outdated  PROVE i.time + KeepTime < m.time
  <2>1. i.time + KeepTime < b /\ i.time \in Nat /\ m.time \in Nat
    BY <1>1, <1>6
  <2> QED
    BY <1>1, <1>5, <2>1
<1> QED
  BY <1>6, <1>7, <1>8, <1>9

LEMMA TimeoutKeeps ==
  ASSUME QueueInv, CheckTimeout
  PROVE  QueueInv'
<1>1. Outdated \subseteq queue /\ Items(queue)
  BY OutdatedFacts DEF QueueInv, QueueTypes
<1>2. Cardinality(Outdated) \in Nat /\ dropped \in Nat /\ taken \in Nat
  BY <1>1, CountOfPart DEF QueueInv, QueueTypes
<1>3. /\ queue' = queue \ Outdated /\ curSize' = curSize - Total(Outdated)
      /\ dropped' = dropped + Cardinality(Outdated) /\ taken' = taken
      /\ pushed' = pushed /\ hostId' = hostId /\ curId' = curId /\ newest' = newest
      /\ clock' = clock /\ client' = client
  BY DEF CheckTimeout, hostVars
<1>4. /\ dropped' \in Nat /\ taken' \in Nat
      /\ dropped' + taken' = dropped + taken + Cardinality(Outdated)
  BY <1>2, <1>3
<1>5. clock' \in Nat /\ client' \in [Clients -> Client] /\ AnsweredOnce'
  BY <1>3 DEF QueueInv, QueueTypes, AnsweredOnce, Open
<1> QED
  BY <1>1, <1>3, <1>4, <1>5, LessKeeps

\* A fetch takes the first item, or none.
LEMMA PopFacts ==
  ASSUME QueueInv, Pop \/ UNCHANGED itemVars
  PROVE  \E gone : /\ gone \subseteq queue /\ queue' = queue \ gone
                   /\ curSize' = curSize - Total(gone)
                   /\ dropped' \in Nat /\ taken' \in Nat /\ pushed' = pushed
                   /\ dropped' + taken' = dropped + taken + Cardinality(gone)
                   /\ gone # {} => taken' # taken
                   /\ \A i \in gone, j \in queue \ gone : Before(i, j)
<1>1. /\ Items(queue) /\ Distinct(queue) /\ dropped \in Nat /\ taken \in Nat /\ curSize \in Nat
  BY BytesFinite DEF QueueInv, QueueTypes, QueueAccounted
<1>2. CASE Pop
  <2>1. PICK i \in queue : IsFirst(queue, i) /\ queue' = queue \ {i} /\ curSize' = curSize - i.size
    BY <1>2 DEF Pop
  <2>2. Total({i}) = i.size /\ Cardinality({i}) = 1
    BY <1>1, TotalOfOne, FS_Singleton DEF Items
  <2>3. taken' = taken + 1 /\ dropped' = dropped /\ pushed' = pushed
    BY <1>2 DEF Pop
  <2>4. \A j \in queue \ {i} : Before(i, j)
    BY <1>1, <2>1 DEF IsFirst, Earlier, Distinct
  <2>5. PICK gone : gone = {i}
    OBVIOUS
  <2>6. /\ gone \subseteq queue /\ queue' = queue \ gone
        /\ curSize' = curSize - Total(gone)
        /\ dropped' \in Nat /\ taken' \in Nat /\ pushed' = pushed
        /\ dropped' + taken' = dropped + taken + Cardinality(gone)
        /\ gone # {} => taken' # taken
        /\ \A k \in gone, j \in queue \ gone : Before(k, j)
    BY <1>1, <2>1, <2>2, <2>3, <2>4, <2>5
  <2> QED
    BY <2>6
<1>3. CASE UNCHANGED itemVars
  <2>1. PICK gone : gone = {}
    OBVIOUS
  <2>2. Total(gone) = 0 /\ Cardinality(gone) = 0
    <3>1. Bytes({}) = {}
      BY DEF Bytes
    <3> QED
      BY <2>1, <3>1, FS_EmptySet DEF Total
  <2>3. queue' = queue /\ curSize' = curSize /\ dropped' = dropped /\ pushed' = pushed /\ taken' = taken
    BY <1>3 DEF itemVars
  <2>4. /\ gone \subseteq queue /\ queue' = queue \ gone
        /\ curSize' = curSize - Total(gone)
        /\ dropped' \in Nat /\ taken' \in Nat /\ pushed' = pushed
        /\ dropped' + taken' = dropped + taken + Cardinality(gone)
        /\ gone # {} => taken' # taken
        /\ \A k \in gone, j \in queue \ gone : Before(k, j)
    BY <1>1, <2>1, <2>2, <2>3
  <2> QED
    BY <2>4
<1> QED
  BY <1>2, <1>3

(***************************************************************************)
(* The clients.                                                            *)
(***************************************************************************)
\* What a handler of a connection that is open looks like.
Handled(k) == k \in Client /\ k.owed >= 0 /\ (k.redo => k.owed > 0) /\ (k.waiting => k.redo)

LEMMA ClientIs ==
  ASSUME QueueInv
  PROVE  \A c \in Clients : client[c] \in Client /\ (Open(c) => Handled(client[c]))
  BY DEF QueueInv, QueueTypes, AnsweredOnce, Handled

\* One of the clients changes.
LEMMA ClientChanges ==
  ASSUME QueueInv, NEW c \in Clients, NEW k, k = Closed \/ Handled(k),
         client' = [client EXCEPT ![c] = k]
  PROVE  client' \in [Clients -> Client] /\ AnsweredOnce'
<1>1. client \in [Clients -> Client]
  BY DEF QueueInv, QueueTypes
<1>2. Closed \in Client
  <2>1. Accepted \in Client /\ -1 \in Int
    BY DEF Accepted, Client
  <2> QED
    BY <2>1 DEF Closed, Client
<1>3. client' \in [Clients -> Client]
  BY <1>1, <1>2 DEF Handled
<1>4. \A d \in Clients : client'[d] = Closed \/ Handled(client'[d])
  BY <1>1, ClientIs DEF Open
<1> QED
  BY <1>3, <1>4 DEF AnsweredOnce, Open, Handled

\* A fetch more for a client.
LEMMA FetchMore ==
  ASSUME NEW k, Handled(k), NEW a, a = [k EXCEPT !.owed = @ + 1]
  PROVE  a \in Client /\ a.owed > 0 /\ (a.redo => a.owed > 1)
<1>1. k \in Client /\ k.owed \in Int /\ k.owed >= 0 /\ k.redo \in BOOLEAN /\ (k.redo => k.owed > 0)
  BY DEF Handled, Client
<1>2. PICK o : o = k.owed + 1
  OBVIOUS
<1>3. o \in Int /\ o > 0 /\ (k.redo => o > 1)
  BY <1>1, <1>2
<1>4. a = [k EXCEPT !.owed = o]
  BY <1>2
<1>5. a \in Client
  BY <1>1, <1>3, <1>4 DEF Client
<1>6. a.owed = o /\ a.redo = k.redo
  BY <1>1, <1>4 DEF Client
<1> QED
  BY <1>3, <1>5, <1>6

\* An answer settles one fetch.
LEMMA AnswerSettles ==
  ASSUME NEW k \in Client, k.owed > 0, k.redo => k.owed > 1
  PROVE  Handled(Answer(k))
<1>0. k.owed \in Int /\ k.redo \in BOOLEAN
  BY DEF Client
<1>1. PICK a : a = Answer(k)
  OBVIOUS
<1>2. PICK o : o = k.owed - 1
  OBVIOUS
<1>3. o \in Int /\ o >= 0 /\ (k.redo => o > 0)
  BY <1>0, <1>2
<1>4. a = [k EXCEPT !.waiting = FALSE, !.owed = o]
  BY <1>1, <1>2 DEF Answer
<1>5. a \in Client
  BY <1>3, <1>4 DEF Client
<1>6. a.owed = o /\ a.redo = k.redo /\ a.waiting = FALSE
  BY <1>4 DEF Client
<1>7. Handled(a)
  BY <1>0, <1>3, <1>5, <1>6 DEF Handled
<1> QED
  BY <1>1, <1>7

LEMMA SentFacts ==
  ASSUME QueueInv, NEW c \in Clients, NEW k \in Client, NEW still \in BOOLEAN,
         k.owed > 0, k.redo => k.owed > 1, SentMq(c, k, still)
  PROVE  client' \in [Clients -> Client] /\ AnsweredOnce'
<1>0. k.owed \in Int /\ k.redo \in BOOLEAN
  BY DEF Client
<1>1. Handled(Answer(k))
  BY AnswerSettles
<1>2. Handled([k EXCEPT !.waiting = still, !.redo = TRUE])
  <2>1. PICK a : a = [k EXCEPT !.waiting = still, !.redo = TRUE]
    OBVIOUS
  <2>2. a \in Client
    BY <2>1 DEF Client
  <2>3. a.owed = k.owed /\ a.redo = TRUE
    BY <2>1 DEF Client
  <2>4. Handled(a)
    BY <1>0, <2>2, <2>3 DEF Handled
  <2> QED
    BY <2>1, <2>4
<1>3. \E a : (a = Closed \/ Handled(a)) /\ client' = [client EXCEPT ![c] = a]
  BY <1>1, <1>2 DEF SentMq
<1> QED
  BY <1>3, ClientChanges

\* A step of a client.
ClientStep(c) ==
  Connect(c) \/ Disconnect(c) \/ FetchRefused(c) \/ OnRedo(c) \/ \E block \in BOOLEAN : Fetch(c, block)

LEMMA ClientFacts ==
  ASSUME QueueInv, NEW c \in Clients, ClientStep(c)
  PROVE  /\ client' \in [Clients -> Client] /\ AnsweredOnce'
         /\ Pop \/ UNCHANGED itemVars
         /\ hostId' = hostId /\ curId' = curId /\ newest' = newest /\ clock' = clock
<1>1. client[c] \in Client /\ (Open(c) => Handled(client[c]))
  BY ClientIs
<1>2. CASE Connect(c)
  <2>1. Handled(Accepted)
    BY DEF Handled, Accepted, Client
  <2> QED
    BY <1>2, <2>1, ClientChanges DEF Connect, hostVars
<1>3. CASE Disconnect(c)
  BY <1>3, ClientChanges DEF Disconnect, hostVars
<1>4. CASE FetchRefused(c)
  <2>1. PICK a : a = [client[c] EXCEPT !.owed = @ + 1]
    OBVIOUS
  <2>2. client' = [client EXCEPT ![c] = Answer(a)]
    BY <1>4, <2>1 DEF FetchRefused
  <2>3. a \in Client /\ a.owed > 0 /\ (a.redo => a.owed > 1)
    BY <1>1, <1>4, <2>1, FetchMore DEF FetchRefused
  <2>4. Handled(Answer(a))
    BY <2>3, AnswerSettles
  <2> QED
    BY <1>4, <2>2, <2>4, ClientChanges DEF FetchRefused, hostVars
<1>5. CASE OnRedo(c)
  <2>1. PICK k : k = [client[c] EXCEPT !.redo = FALSE]
    OBVIOUS
  <2>2. k \in Client /\ k.owed > 0 /\ k.redo = FALSE
    BY <1>1, <1>5, <2>1 DEF OnRedo, Handled, Client
  <2>3. SentMq(c, k, FALSE)
    BY <1>5, <2>1 DEF OnRedo
  <2>4. client' \in [Clients -> Client] /\ AnsweredOnce'
    BY <2>2, <2>3, SentFacts
  <2> QED
    BY <1>5, <2>3, <2>4 DEF OnRedo, SentMq, hostVars
<1>6. ASSUME NEW block \in BOOLEAN, Fetch(c, block)
      PROVE  /\ client' \in [Clients -> Client] /\ AnsweredOnce'
             /\ Pop \/ UNCHANGED itemVars
             /\ hostId' = hostId /\ curId' = curId /\ newest' = newest /\ clock' = clock
  <2>1. PICK k : k = [client[c] EXCEPT !.block = block, !.owed = @ + 1]
    OBVIOUS
  <2>5. PICK b : b = [client[c] EXCEPT !.block = block]
    OBVIOUS
  <2>6. k = [b EXCEPT !.owed = @ + 1]
    BY <1>1, <2>1, <2>5 DEF Client
  <2>7. Handled(b)
    BY <1>1, <1>6, <2>5 DEF Fetch, Handled, Client
  <2>2. k \in Client /\ k.owed > 0 /\ (k.redo => k.owed > 1)
    BY <2>6, <2>7, FetchMore
  <2>3. SentMq(c, k, TRUE)
    BY <1>6, <2>1 DEF Fetch
  <2>4. client' \in [Clients -> Client] /\ AnsweredOnce'
    BY <2>2, <2>3, SentFacts
  <2> QED
    BY <1>6, <2>3, <2>4 DEF Fetch, SentMq, hostVars
<1> QED
  BY <1>2, <1>3, <1>4, <1>5, <1>6 DEF ClientStep

(***************************************************************************)
(* The queue: every step.                                                  *)
(***************************************************************************)
\* What a step does to the order, and when only age takes items out.
OldestStep ==
  /\ \A i \in queue \ queue', j \in queue' : Before(i, j)
  /\ pushed' = pushed /\ taken' = taken =>
       \A i \in queue \ queue' : \E j \in queue' : i.time + KeepTime < j.time

LEMMA QueueStep ==
  QueueInv /\ [QueueNext]_queueVars => QueueInv' /\ (OldestStep \/ UNCHANGED queueVars)
<1> SUFFICES ASSUME QueueInv, [QueueNext]_queueVars
             PROVE  QueueInv' /\ (OldestStep \/ UNCHANGED queueVars)
  OBVIOUS
<1>1. CASE UNCHANGED queueVars
  BY <1>1 DEF queueVars, QueueInv, QueueTypes, HostsOK, QueueAccounted, AnsweredOnce, Open, Total, Bytes
<1>2. ASSUME NEW h \in Hosts, StartSync(h) \/ StopSync(h)  PROVE QueueInv' /\ OldestStep
  <2>1. queue' = queue
    BY <1>2 DEF StartSync, StopSync, itemVars
  <2> QED
    BY <1>2, <2>1, HostKeeps DEF OldestStep
<1>3. ASSUME NEW h \in Hosts, NEW sid \in HostSids, NEW time \in 1..MaxTime, NEW size \in Sizes,
             Push(h, sid, time, size)
      PROVE  QueueInv' /\ OldestStep
  <2>1. pushed' # pushed
    BY <1>3 DEF Push, QueueInv, QueueTypes
  <2> QED
    BY <1>3, <2>1, PushKeeps DEF OldestStep
<1>4. CASE CheckTimeout
  <2>1. queue' = queue \ Outdated
    BY <1>4 DEF CheckTimeout
  <2> QED
    BY <1>4, <2>1, TimeoutKeeps, OutdatedFacts DEF OldestStep
<1>5. CASE ClockTick
  <2>1. /\ queue' = queue /\ curSize' = curSize /\ dropped' = dropped /\ pushed' = pushed
        /\ taken' = taken /\ hostId' = hostId /\ curId' = curId /\ newest' = newest
        /\ client' = client /\ clock' = clock + 1
    BY <1>5 DEF ClockTick, itemVars, hostVars
  <2>2. QueueInv'
    BY <2>1 DEF QueueInv, QueueTypes, HostsOK, QueueAccounted, AnsweredOnce, Open, Total, Bytes
  <2> QED
    BY <2>1, <2>2 DEF OldestStep
<1>6. ASSUME NEW c \in Clients, ClientStep(c)  PROVE QueueInv' /\ OldestStep
  <2>1. /\ client' \in [Clients -> Client] /\ AnsweredOnce'
        /\ Pop \/ UNCHANGED itemVars
        /\ hostId' = hostId /\ curId' = curId /\ newest' = newest /\ clock' = clock
    BY <1>6, ClientFacts
  <2>2. PICK gone : /\ gone \subseteq queue /\ queue' = queue \ gone
                    /\ curSize' = curSize - Total(gone)
                    /\ dropped' \in Nat /\ taken' \in Nat /\ pushed' = pushed
                    /\ dropped' + taken' = dropped + taken + Cardinality(gone)
                    /\ gone # {} => taken' # taken
                    /\ \A i \in gone, j \in queue \ gone : Before(i, j)
    BY <2>1, PopFacts
  <2>3. clock' \in Nat
    BY <2>1 DEF QueueInv, QueueTypes
  <2>4. QueueInv'
    BY <2>1, <2>2, <2>3, LessKeeps
  <2>5. OldestStep
    BY <2>2 DEF OldestStep
  <2> QED
    BY <2>4, <2>5
<1> QED
  BY <1>1, <1>2, <1>3, <1>4, <1>5, <1>6 DEF QueueNext, ClientStep

\* Every message pushed is queued, counted as discarded or popped, and the bytes
\* of the queue are counted and within the limit, whatever hosts come and go
\* (CwxMcQueue::push, CwxMcQueue::pop, CwxMcQueue::checkTimeout).
THEOREM QueueAlwaysAccounted == QueueSpec => []QueueAccounted
<1>1. QueueInv => QueueAccounted
  BY DEF QueueInv
<1> QED
  BY <1>1, QueueInitInv, QueueStep, PTL DEF QueueSpec

\* A client never gets more answers than it has sent fetches, and one that waits
\* is registered to be tried again (CwxMcQueueHandler::sentMq).
THEOREM AlwaysAnsweredOnce == QueueSpec => []AnsweredOnce
<1>1. QueueInv => AnsweredOnce
  BY DEF QueueInv
<1> QED
  BY <1>1, QueueInitInv, QueueStep, PTL DEF QueueSpec

\* What leaves the queue is earlier than all that stays, and what leaves it for
\* its age is older than a message that stays by more than the time it is kept
\* (CwxMcQueue::push, CwxMcQueue::checkTimeout).
THEOREM OldestAlwaysGoFirst == QueueSpec => OldestGoFirst
<1>1. QueueInv /\ [QueueNext]_queueVars =>
        [/\ \A i \in queue \ queue', j \in queue' : Before(i, j)
         /\ pushed' = pushed /\ taken' = taken =>
              \A i \in queue \ queue' : \E j \in queue' : i.time + KeepTime < j.time
        ]_queueVars
  BY QueueStep DEF OldestStep
<1> QED
  BY <1>1, QueueInitInv, QueueStep, PTL DEF QueueSpec, OldestGoFirst

(***************************************************************************)
(* The files: what is known of them.                                       *)
(***************************************************************************)
FileName == Nat \X Nat

Cur == [start : Nat, seq : Nat, end : Int, name : FileName, size : Nat]

StoreTypes ==
  /\ Names \subseteq FileName /\ IsFiniteSet(Names) /\ files \in [Names -> Nat]
  /\ running \in BOOLEAN /\ open \in BOOLEAN /\ cur \in Cur
  /\ buffer \in Nat /\ unflushed \in Nat

\* No file has a name after the current time and number.
NameBefore(n, start, seq) == n[1] < start \/ (n[1] = start /\ n[2] <= seq)
NewestIsCurrent == running => \A n \in Names : NameBefore(n, cur.start, cur.seq)

\* A name, current or remembered, says when its file begins.
NamesTell ==
  /\ cur.name[1] = cur.start
  /\ \A k \in DOMAIN history : history[k][1] = k[1]
  /\ ReserveDay = 0 => DOMAIN history = {}

\* What is buffered has a file to go to, and a flush to come.
BufferOK ==
  /\ open => running /\ cur.name \in Names
  /\ buffer > 0 => open
  /\ buffer <= unflushed /\ (FlushNum > 0 => buffer < FlushNum)

StoreInv == StoreTypes /\ NewestIsCurrent /\ NamesTell /\ BufferOK

LEMMA FiniteImage2 ==
  ASSUME NEW S, IsFiniteSet(S)
  PROVE  IsFiniteSet({n[2] : n \in S})
<1> DEFINE f == [n \in S |-> n[2]]
           T == {n[2] : n \in S}
<1>1. f \in Surjection(S, T)
  BY DEF Surjection
<1> HIDE DEF f
<1> QED
  BY <1>1, FS_Surjection

LEMMA FiniteImage1 ==
  ASSUME NEW S, IsFiniteSet(S)
  PROVE  IsFiniteSet({n[1] : n \in S})
<1> DEFINE f == [n \in S |-> n[1]]
           T == {n[1] : n \in S}
<1>1. f \in Surjection(S, T)
  BY DEF Surjection
<1> HIDE DEF f
<1> QED
  BY <1>1, FS_Surjection

\* Nothing becomes less when the buffer is written.
LEMMA WrittenIs ==
  ASSUME StoreInv, NEW b \in Nat, b = 0 \/ cur.name \in Names
  PROVE  /\ Written(b) \in [Names -> Nat]
         /\ \A n \in Names : Written(b)[n] >= files[n]
<1>1. files \in [Names -> Nat]
  BY DEF StoreInv, StoreTypes
<1>2. CASE b = 0
  <2>1. Written(b) = files
    BY <1>2 DEF Written
  <2>2. \A n \in Names : files[n] \in Nat
    BY <1>1
  <2> QED
    BY <1>1, <2>1, <2>2
<1>3. CASE b # 0
  <2>1. Written(b) = With(files, cur.name, files[cur.name] + b) /\ cur.name \in Names
    BY <1>3 DEF Written
  <2>2. PICK v : v = files[cur.name] + b
    OBVIOUS
  <2>3. v \in Nat /\ v >= files[cur.name]
    BY <1>1, <2>1, <2>2
  <2>5. PICK w : w = With(files, cur.name, v)
    OBVIOUS
  <2>6. w \in [Names -> Nat] /\ w[cur.name] = v /\ \A m \in Names : m # cur.name => w[m] = files[m]
    BY <1>1, <2>1, <2>3, <2>5 DEF With, Names
  <2>7. ASSUME NEW n \in Names  PROVE w[n] >= files[n]
    BY <1>1, <2>3, <2>6
  <2> QED
    BY <2>1, <2>2, <2>5, <2>6, <2>7
<1> QED
  BY <1>2, <1>3

\* The file gets the message now or later, and a flush is due in time.
LEMMA BufferedIs ==
  ASSUME NEW D, NEW f, f \in [D -> Nat], NEW name \in D, NEW b \in Nat, NEW n \in Nat,
         b <= n, Buffered(f, name, b, n)
  PROVE  /\ files' \in [D -> Nat] /\ \A m \in D : files'[m] >= f[m]
         /\ buffer' \in Nat /\ unflushed' \in Nat
         /\ buffer' <= unflushed' /\ (FlushNum > 0 => buffer' < FlushNum)
<1>1. D \cup {name} = D /\ FlushNum \in Nat
  BY StoreAssumption
<1>2. PICK w \in {0, b} : files' = With(f, name, f[name] + w)
  BY DEF Buffered
<1>3. PICK v : v = f[name] + w
  OBVIOUS
<1>4. v \in Nat /\ v >= f[name]
  BY <1>3
<1>5. files' = With(f, name, v)
  BY <1>2, <1>3
<1>6. files' \in [D -> Nat] /\ files'[name] = v /\ \A m \in D : m # name => files'[m] = f[m]
  BY <1>4, <1>5 DEF With
<1>7. ASSUME NEW m \in D  PROVE files'[m] >= f[m]
  BY <1>4, <1>6
<1>8. /\ buffer' \in Nat /\ unflushed' \in Nat
      /\ buffer' <= unflushed' /\ (FlushNum > 0 => buffer' < FlushNum)
  BY <1>1 DEF Buffered
<1> QED
  BY <1>6, <1>7, <1>8

\* The next file is newer than every other, by its time or its number.
LEMMA NextIs ==
  ASSUME StoreInv, running, NEW t \in Times, NEW new, new = NextFile(t)
  PROVE  /\ new \in Cur /\ new.name = <<new.start, new.seq>> /\ new.size = 0
         /\ new.name \notin Names
         /\ \A n \in Names : NameBefore(n, new.start, new.seq)
<1>1. /\ cur.start \in Nat /\ cur.seq \in Nat /\ Names \subseteq FileName
      /\ \A n \in Names : NameBefore(n, cur.start, cur.seq)
  BY DEF StoreInv, StoreTypes, Cur, NewestIsCurrent
<1>2. t \in Nat /\ FileTime \in Nat \ {0}
  BY StoreAssumption
<1>3. PICK start : start = t - (t % FileTime)
  OBVIOUS
<1>4. start \in Int
  BY <1>2, <1>3
<1>5. PICK next : next = IF start <= cur.start THEN <<cur.start, cur.seq + 1>> ELSE <<start, 0>>
  OBVIOUS
<1>6. new = [start |-> next[1], seq |-> next[2], end |-> next[1] + FileTime, name |-> next, size |-> 0]
  BY <1>3, <1>5 DEF NextFile
<1>7. PICK a, s : next = <<a, s>> /\ a \in Nat /\ s \in Nat
                  /\ (cur.start < a \/ (cur.start = a /\ cur.seq < s))
  BY <1>1, <1>4, <1>5
<1>8. new.start = a /\ new.seq = s /\ new.name = <<a, s>> /\ new.size = 0 /\ new \in Cur
  BY <1>2, <1>6, <1>7 DEF Cur, FileName
<1>9. ASSUME NEW n \in Names  PROVE NameBefore(n, a, s) /\ n # <<a, s>>
  <2>1. n[1] \in Nat /\ n[2] \in Nat
    BY <1>1 DEF FileName
  <2> QED
    BY <1>1, <1>7, <2>1 DEF NameBefore
<1> QED
  BY <1>8, <1>9

(***************************************************************************)
(* The steps.                                                              *)
(***************************************************************************)
\* What a step does to the files on disk.
KeptStep ==
  \A n \in Names :
    \/ n \in DOMAIN files' /\ files'[n] >= files[n]
    \/ ReserveDay > 0 /\ (cur'.start - n[1]) \div Day > ReserveDay

LEMMA StoreInitInv == StoreInit => StoreInv
<1> SUFFICES ASSUME StoreInit  PROVE StoreInv
  OBVIOUS
<1>1. Names = {} /\ files \in [Names -> Nat] /\ NoFiles = history
  BY DEF StoreInit, NoFiles, Names
<1>2. IsFiniteSet(Names)
  BY <1>1, FS_EmptySet
<1>3. DOMAIN history = {}
  BY DEF StoreInit, NoFiles
<1>4. cur \in Cur /\ cur.name = <<0, 0>> /\ cur.start = 0
  BY DEF StoreInit, NoFile, NoName, Cur, FileName
<1>5. FlushNum \in Nat
  BY StoreAssumption
<1>6. StoreTypes
  BY <1>1, <1>2, <1>4 DEF StoreInit, StoreTypes
<1>7. NamesTell /\ NewestIsCurrent
  BY <1>3, <1>4 DEF StoreInit, NewestIsCurrent, NamesTell
<1>8. BufferOK
  BY <1>5 DEF StoreInit, BufferOK
<1> QED
  BY <1>6, <1>7, <1>8 DEF StoreInv

\* A start reads the names of the files, in any order.
LEMMA LoadKeeps ==
  ASSUME StoreInv, LoadFiles
  PROVE  StoreInv' /\ KeptStep
<1>1. /\ files' = files /\ running' = TRUE /\ buffer' = 0 /\ unflushed' = 0
      /\ history' = IF ReserveDay = 0 THEN NoFiles ELSE [n \in Names |-> n]
  BY DEF LoadFiles
<1>2. /\ Names \subseteq FileName /\ IsFiniteSet(Names) /\ files \in [Names -> Nat]
  BY DEF StoreInv, StoreTypes
<1>3. /\ \A k \in DOMAIN history' : history'[k][1] = k[1]
      /\ ReserveDay = 0 => DOMAIN history' = {}
  BY <1>1, <1>2 DEF NoFiles
<1>4. KeptStep
  <2>1. \A n \in Names : files[n] \in Nat
    BY <1>2
  <2> QED
    BY <1>1, <2>1 DEF KeptStep, Names
<1>5. FlushNum \in Nat
  BY StoreAssumption
<1>6. CASE Names = {}
  <2>1. open' = FALSE /\ cur' = NoFile
    BY <1>6 DEF LoadFiles
  <2>2. cur' \in Cur /\ cur'.name[1] = cur'.start
    BY <2>1 DEF NoFile, NoName, Cur, FileName
  <2>3. StoreTypes'
    BY <1>1, <1>2, <2>1, <2>2 DEF StoreTypes, Names
  <2>4. NewestIsCurrent' /\ NamesTell'
    BY <1>1, <1>3, <1>6, <2>2 DEF NewestIsCurrent, NamesTell, Names
  <2>5. BufferOK'
    BY <1>1, <1>5, <2>1 DEF BufferOK
  <2> QED
    BY <1>4, <2>3, <2>4, <2>5 DEF StoreInv
<1>7. CASE Names # {}
  <2> DEFINE Starts == {n[1] : n \in Names}
             Seqs == {n[2] : n \in NamesOf(NewestStart)}
  <2>1. open' = TRUE
    BY <1>7 DEF LoadFiles
  <2>2. PICK name \in NamesOf(NewestStart) :
          cur' = [start |-> NewestStart, seq |-> LoadedSeq(name), end |-> 0,
                  name |-> name, size |-> files[name]]
    BY <1>7 DEF LoadFiles
  <2>3. NewestStart \in Starts /\ \A x \in Starts : x <= NewestStart
    <3>1. Starts \subseteq Nat /\ Starts # {}
      BY <1>2, <1>7 DEF FileName
    <3>2. IsFiniteSet(Starts)
      BY <1>2, FiniteImage1
    <3>3. NewestStart = Max(Starts)
      BY DEF NewestStart
    <3> HIDE DEF Starts
    <3> QED
      BY <3>1, <3>2, <3>3, LargestExists
  <2>4. name \in Names /\ name[1] = NewestStart /\ NewestStart \in Nat
    BY <1>2, <2>2 DEF NamesOf, FileName
  <2>5. LoadedSeq(name) \in Seqs /\ \A x \in Seqs : x <= LoadedSeq(name)
    <3>1. NamesOf(NewestStart) \subseteq Names
      BY DEF NamesOf
    <3>2. Seqs \subseteq Nat /\ Seqs # {}
      BY <1>2, <2>2, <3>1 DEF FileName
    <3>3. IsFiniteSet(NamesOf(NewestStart))
      BY <1>2, <3>1, FS_Subset
    <3>4. IsFiniteSet(Seqs)
      BY <3>3, FiniteImage2
    <3>5. LoadedSeq(name) = Max(Seqs)
      BY <2>4 DEF LoadedSeq
    <3> HIDE DEF Seqs
    <3> QED
      BY <3>2, <3>4, <3>5, LargestExists
  <2>6. LoadedSeq(name) \in Nat
    BY <1>2, <2>5 DEF NamesOf, FileName
  <2>7. files[name] \in Nat /\ name \in FileName
    BY <1>2, <2>4
  <2>8. cur' \in Cur /\ cur'.name = name /\ cur'.start = NewestStart /\ cur'.seq = LoadedSeq(name)
    BY <2>2, <2>4, <2>6, <2>7 DEF Cur
  <2>9. ASSUME NEW n \in Names  PROVE NameBefore(n, NewestStart, LoadedSeq(name))
    <3>1. n[1] \in Starts /\ n[1] \in Nat
      BY <1>2 DEF FileName
    <3>2. n[1] = NewestStart => n[2] \in Seqs
      BY DEF NamesOf
    <3> QED
      BY <2>3, <2>4, <2>5, <3>1, <3>2 DEF NameBefore
  <2> QED
    BY <1>1, <1>2, <1>3, <1>4, <1>5, <2>1, <2>4, <2>8, <2>9
       DEF Names, StoreInv, StoreTypes, NewestIsCurrent, NamesTell, BufferOK
<1> QED
  BY <1>6, <1>7

LEMMA AppendHereKeeps ==
  ASSUME StoreInv, NEW t \in Times, AppendHere(t)
  PROVE  StoreInv' /\ KeptStep
<1>1. /\ running' = running /\ running /\ open' = open /\ history' = history
      /\ open /\ cur' = [cur EXCEPT !.size = @ + 1]
      /\ Buffered(files, cur.name, buffer + 1, unflushed + 1)
  BY DEF AppendHere, IsCreateNewFile
<1>2. /\ files \in [Names -> Nat] /\ cur.name \in Names
      /\ buffer + 1 \in Nat /\ unflushed + 1 \in Nat /\ buffer + 1 <= unflushed + 1
  BY <1>1 DEF StoreInv, StoreTypes, BufferOK
<1>3. /\ files' \in [Names -> Nat] /\ \A m \in Names : files'[m] >= files[m]
      /\ buffer' \in Nat /\ unflushed' \in Nat
      /\ buffer' <= unflushed' /\ (FlushNum > 0 => buffer' < FlushNum)
  BY <1>1, <1>2, BufferedIs
<1>4. Names' = Names
  BY <1>3 DEF Names
<1>5. /\ cur' \in Cur /\ cur'.name = cur.name /\ cur'.start = cur.start /\ cur'.seq = cur.seq
  BY <1>1 DEF StoreInv, StoreTypes, Cur
<1>6. KeptStep
  BY <1>3, <1>4 DEF KeptStep
<1>7. StoreTypes' /\ BufferOK'
  BY <1>1, <1>2, <1>3, <1>4, <1>5 DEF StoreInv, StoreTypes, BufferOK
<1>8. NewestIsCurrent' /\ NamesTell'
  BY <1>1, <1>4, <1>5 DEF StoreInv, NewestIsCurrent, NamesTell
<1> QED
  BY <1>6, <1>7, <1>8 DEF StoreInv

\* A file that was current keeps its time in the history.
LEMMA RememberedIs ==
  ASSUME StoreInv
  PROVE  /\ \A k \in DOMAIN Remembered : Remembered[k][1] = k[1]
         /\ ReserveDay = 0 => DOMAIN Remembered = {}
<1>1. /\ \A k \in DOMAIN history : history[k][1] = k[1]
      /\ ReserveDay = 0 => DOMAIN history = {}
  BY DEF StoreInv, StoreTypes, NamesTell
<1>2. cur.name[1] = cur.start
  BY DEF StoreInv, NamesTell
<1>3. CASE ReserveDay = 0
  BY <1>1, <1>3 DEF Remembered
<1>4. CASE ReserveDay # 0
  <2>1. PICK k : k = <<cur.start, cur.seq>>
    OBVIOUS
  <2>2. PICK r : r = With(history, k, cur.name)
    OBVIOUS
  <2>3. r = Remembered
    BY <1>4, <2>1, <2>2 DEF Remembered
  <2>4. /\ DOMAIN r = DOMAIN history \cup {k} /\ r[k] = cur.name
        /\ \A m \in DOMAIN history : m # k => r[m] = history[m]
    BY <1>1, <1>2, <2>2 DEF With
  <2>5. k[1] = cur.start
    BY <2>1
  <2>7. ASSUME NEW m \in DOMAIN r  PROVE r[m][1] = m[1]
    BY <1>1, <1>2, <2>4, <2>5
  <2> QED
    BY <1>4, <2>3, <2>7
<1> QED
  BY <1>3, <1>4

LEMMA AppendNewKeeps ==
  ASSUME StoreInv, NEW t \in Times, AppendNew(t)
  PROVE  StoreInv' /\ KeptStep
<1>1. PICK new : new = NextFile(t)
  OBVIOUS
<1>2. PICK gone : gone = {k \in DOMAIN Remembered : TooOld(k[1], new.start)}
  OBVIOUS
<1>3. PICK left : left = With(Written(buffer), new.name, 0)
  OBVIOUS
<1>4. PICK S : S = {Remembered[k] : k \in gone}
  OBVIOUS
<1>5. PICK f : f = Restrict(left, DOMAIN left \ S)
  OBVIOUS
<1>6. /\ running /\ running' = running /\ open' = TRUE
      /\ history' = Restrict(Remembered, DOMAIN Remembered \ gone)
      /\ Buffered(f, new.name, 1, 1)
      /\ cur' = [new EXCEPT !.size = 1]
  BY <1>1, <1>2, <1>3, <1>4, <1>5 DEF AppendNew
<1>7. /\ new \in Cur /\ new.name = <<new.start, new.seq>> /\ new.size = 0
      /\ new.name \notin Names
      /\ \A n \in Names : NameBefore(n, new.start, new.seq)
  BY <1>1, <1>6, NextIs
<1>8. /\ Names \subseteq FileName /\ IsFiniteSet(Names) /\ buffer \in Nat /\ running \in BOOLEAN
      /\ (buffer = 0 \/ cur.name \in Names)
  BY DEF StoreInv, StoreTypes, BufferOK
<1>9. /\ Written(buffer) \in [Names -> Nat]
      /\ \A n \in Names : Written(buffer)[n] >= files[n]
  BY <1>8, WrittenIs
<1>10. /\ left \in [Names \cup {new.name} -> Nat]
       /\ \A n \in Names : left[n] = Written(buffer)[n]
  BY <1>3, <1>7, <1>9 DEF With
<1>11. PICK D : D = (Names \cup {new.name}) \ S
  OBVIOUS
<1>12. f \in [D -> Nat] /\ \A n \in D : f[n] = left[n]
  BY <1>5, <1>10, <1>11 DEF Restrict
<1>13. new.start \in Nat /\ new.seq \in Nat /\ new.name[1] = new.start /\ new.name \in FileName
  BY <1>7 DEF Cur
<1>14. \A n \in S : (new.start - n[1]) \div Day > ReserveDay /\ ReserveDay > 0
  <2>1. ReserveDay \in Nat
    BY StoreAssumption
  <2>2. ASSUME NEW k \in gone  PROVE (new.start - Remembered[k][1]) \div Day > ReserveDay /\ ReserveDay > 0
    <3>1. k \in DOMAIN Remembered /\ TooOld(k[1], new.start) /\ Remembered[k][1] = k[1]
      BY <1>2, RememberedIs
    <3>2. ReserveDay # 0
      BY <3>1, RememberedIs
    <3> QED
      BY <2>1, <3>1, <3>2 DEF TooOld
  <2> QED
    BY <1>4, <2>2
<1>15. new.name \in D
  <2>1. (new.start - new.start) \div Day = 0
    BY <1>13, StoreAssumption
  <2>2. ReserveDay \in Nat
    BY StoreAssumption
  <2>3. new.name \notin S
    BY <1>13, <1>14, <2>1, <2>2
  <2> QED
    BY <1>11, <2>3
<1>16. /\ files' \in [D -> Nat] /\ \A m \in D : files'[m] >= f[m]
       /\ buffer' \in Nat /\ unflushed' \in Nat
       /\ buffer' <= unflushed' /\ (FlushNum > 0 => buffer' < FlushNum)
  BY <1>6, <1>12, <1>15, BufferedIs
<1>17. Names' = D
  BY <1>16 DEF Names
<1>18. cur' \in Cur /\ cur'.name = new.name /\ cur'.start = new.start /\ cur'.seq = new.seq
  BY <1>6, <1>7 DEF Cur
<1>19. KeptStep
  <2> SUFFICES ASSUME NEW n \in Names
               PROVE  \/ n \in DOMAIN files' /\ files'[n] >= files[n]
                      \/ ReserveDay > 0 /\ (cur'.start - n[1]) \div Day > ReserveDay
    BY DEF KeptStep
  <2>1. CASE n \in S
    BY <1>14, <1>18, <2>1
  <2>2. CASE n \notin S
    <3>1. n \in D
      BY <1>11, <2>2
    <3>2. files'[n] \in Nat /\ f[n] \in Nat /\ files[n] \in Nat
      BY <1>12, <1>16, <3>1 DEF StoreInv, StoreTypes
    <3>3. files'[n] >= f[n] /\ f[n] = left[n] /\ left[n] = Written(buffer)[n]
          /\ Written(buffer)[n] >= files[n]
      BY <1>9, <1>10, <1>12, <1>16, <3>1
    <3> QED
      BY <1>16, <3>1, <3>2, <3>3
  <2> QED
    BY <2>1, <2>2
<1>20. D \subseteq FileName /\ IsFiniteSet(D)
  <2>1. IsFiniteSet(Names \cup {new.name})
    BY <1>8, FS_AddElement
  <2> QED
    BY <1>8, <1>11, <1>13, <2>1, FS_Subset
<1>21. /\ \A k \in DOMAIN history' : history'[k][1] = k[1]
       /\ ReserveDay = 0 => DOMAIN history' = {}
  BY <1>6, RememberedIs DEF Restrict
<1>22. StoreTypes' /\ BufferOK'
  BY <1>6, <1>8, <1>15, <1>16, <1>17, <1>18, <1>20, <1>21 DEF StoreTypes, BufferOK
<1>23. NewestIsCurrent'
  <2>1. NameBefore(new.name, new.start, new.seq)
    BY <1>7, <1>13 DEF NameBefore
  <2> QED
    BY <1>7, <1>11, <1>17, <1>18, <2>1 DEF NewestIsCurrent
<1>24. NamesTell'
  BY <1>13, <1>18, <1>21 DEF NamesTell
<1> QED
  BY <1>19, <1>22, <1>23, <1>24 DEF StoreInv

LEMMA CreateFailsKeeps ==
  ASSUME StoreInv, NEW t \in Times, CreateFails(t)
  PROVE  StoreInv' /\ KeptStep
<1>1. PICK new : new = NextFile(t)
  OBVIOUS
<1>2. /\ running /\ running' = running /\ open' = FALSE /\ files' = Written(buffer)
      /\ history' = Remembered /\ cur' = [new EXCEPT !.size = cur.size]
      /\ buffer' = 0 /\ unflushed' \in {0, unflushed}
  BY <1>1 DEF CreateFails
<1>3. /\ new \in Cur /\ new.name = <<new.start, new.seq>>
      /\ \A n \in Names : NameBefore(n, new.start, new.seq)
  BY <1>1, <1>2, NextIs
<1>4. /\ Names \subseteq FileName /\ IsFiniteSet(Names) /\ buffer \in Nat /\ running \in BOOLEAN
      /\ (buffer = 0 \/ cur.name \in Names) /\ unflushed \in Nat /\ cur.size \in Nat
      /\ FlushNum \in Nat
  BY StoreAssumption DEF StoreInv, StoreTypes, BufferOK, Cur
<1>5. /\ files' \in [Names -> Nat] /\ \A n \in Names : files'[n] >= files[n]
  BY <1>2, <1>4, WrittenIs
<1>6. Names' = Names
  BY <1>5 DEF Names
<1>7. /\ cur' \in Cur /\ cur'.name = new.name /\ cur'.start = new.start /\ cur'.seq = new.seq
      /\ cur'.name[1] = cur'.start
  BY <1>2, <1>3, <1>4 DEF Cur
<1>8. KeptStep
  BY <1>5, <1>6 DEF KeptStep
<1>9. StoreTypes'
  <2>1. unflushed' \in Nat
    <3>1. unflushed' = 0 \/ unflushed' = unflushed
      BY <1>2
    <3>2. unflushed \in Nat
      BY <1>4
    <3> QED
      BY <3>1, <3>2
  <2>2. files' \in [Names' -> Nat] /\ Names' \subseteq FileName /\ IsFiniteSet(Names')
    BY <1>4, <1>5, <1>6
  <2> QED
    BY <1>2, <1>4, <1>7, <2>1, <2>2 DEF StoreTypes
<1>11. NamesTell'
  BY <1>2, <1>7, RememberedIs DEF NamesTell
<1>10. BufferOK' /\ NewestIsCurrent'
  BY <1>2, <1>3, <1>4, <1>6, <1>7 DEF BufferOK, NewestIsCurrent
<1> QED
  BY <1>8, <1>9, <1>10, <1>11 DEF StoreInv

\* The buffer is written and nothing else of the files changes.
LEMMA FlushIs ==
  ASSUME StoreInv, Flush
  PROVE  /\ files' \in [Names -> Nat] /\ Names' = Names /\ KeptStep
         /\ buffer' = 0 /\ unflushed' = 0
<1>1. buffer \in Nat /\ (buffer = 0 \/ cur.name \in Names)
  BY DEF StoreInv, StoreTypes, BufferOK
<1>2. /\ files' \in [Names -> Nat] /\ \A n \in Names : files'[n] >= files[n]
  BY <1>1, WrittenIs DEF Flush
<1> QED
  BY <1>2 DEF Flush, KeptStep, Names

LEMMA TimeoutKept ==
  ASSUME StoreInv, Timeout
  PROVE  StoreInv' /\ KeptStep
<1>1. running' = running /\ open' = open /\ cur' = cur /\ history' = history /\ Flush
  BY DEF Timeout
<1>2. /\ files' \in [Names -> Nat] /\ Names' = Names /\ KeptStep
      /\ buffer' = 0 /\ unflushed' = 0
  BY <1>1, FlushIs
<1>3. FlushNum \in Nat
  BY StoreAssumption
<1> QED
  BY <1>1, <1>2, <1>3 DEF Names, StoreInv, StoreTypes, NewestIsCurrent, NamesTell, BufferOK

LEMMA NoneRuns ==
  ASSUME StoreInv, files' \in [Names -> Nat], Names' = Names, running' = FALSE, open' = FALSE,
         cur' = NoFile, history' = NoFiles, buffer' = 0, unflushed' = 0
  PROVE  StoreInv'
<1>1. cur' \in Cur /\ cur'.name[1] = cur'.start
  BY DEF NoFile, NoName, Cur, FileName
<1>2. DOMAIN history' = {}
  BY DEF NoFiles
<1>3. FlushNum \in Nat
  BY StoreAssumption
<1>4. StoreTypes'
  BY <1>1 DEF StoreInv, StoreTypes
<1>5. NewestIsCurrent' /\ NamesTell'
  BY <1>1, <1>2 DEF NewestIsCurrent, NamesTell
<1>6. BufferOK'
  BY <1>3 DEF BufferOK
<1> QED
  BY <1>4, <1>5, <1>6 DEF StoreInv

LEMMA StoreStep ==
  StoreInv /\ [StoreNext]_storeVars => StoreInv' /\ (KeptStep \/ UNCHANGED storeVars)
<1> SUFFICES ASSUME StoreInv, [StoreNext]_storeVars
             PROVE  StoreInv' /\ (KeptStep \/ UNCHANGED storeVars)
  OBVIOUS
<1>1. CASE UNCHANGED storeVars
  <2>1. /\ files' = files /\ running' = running /\ open' = open /\ cur' = cur
        /\ history' = history /\ buffer' = buffer /\ unflushed' = unflushed
    BY <1>1 DEF storeVars
  <2>2. Names' = Names
    BY <2>1 DEF Names
  <2>3. StoreTypes'
    BY <2>1, <2>2 DEF StoreInv, StoreTypes
  <2>4. NewestIsCurrent' /\ NamesTell' /\ BufferOK'
    BY <2>1, <2>2 DEF StoreInv, NewestIsCurrent, NamesTell, BufferOK
  <2> QED
    BY <1>1, <2>3, <2>4 DEF StoreInv
<1>2. CASE Stop
  <2>1. Flush /\ running' = FALSE /\ open' = FALSE /\ cur' = NoFile /\ history' = NoFiles
    BY <1>2 DEF Stop
  <2> QED
    BY <2>1, FlushIs, NoneRuns
<1>3. CASE Die
  <2>1. /\ files' = files /\ running' = FALSE /\ open' = FALSE /\ cur' = NoFile
        /\ history' = NoFiles /\ buffer' = 0 /\ unflushed' = 0
    BY <1>3 DEF Die
  <2>2. files \in [Names -> Nat]
    BY DEF StoreInv, StoreTypes
  <2>3. KeptStep
    <3>1. \A n \in Names : files[n] \in Nat
      BY <2>2
    <3> QED
      BY <2>1, <3>1 DEF KeptStep, Names
  <2> QED
    BY <2>1, <2>2, <2>3, NoneRuns DEF Names
<1> QED
  BY <1>1, <1>2, <1>3, LoadKeeps, TimeoutKept, AppendHereKeeps, AppendNewKeeps, CreateFailsKeeps
     DEF StoreNext

\* No file loses what is on disk, none goes before its days are over, and what
\* is not on disk was written since the last flush() (CwxMcStore::append,
\* CwxMcStore::createLogFile, CwxMcStore::init).
THEOREM FilesAlwaysKept == StoreSpec => FilesKept
<1>1. StoreInv /\ [StoreNext]_storeVars =>
        [/\ \A n \in Names :
              \/ n \in DOMAIN files' /\ files'[n] >= files[n]
              \/ ReserveDay > 0 /\ (cur'.start - n[1]) \div Day > ReserveDay
         /\ buffer <= unflushed /\ (FlushNum > 0 => buffer < FlushNum)
        ]_storeVars
  BY StoreStep DEF KeptStep, StoreInv, BufferOK
<1> QED
  BY <1>1, StoreInitInv, StoreStep, PTL DEF StoreSpec, FilesKept
=============================================================================
