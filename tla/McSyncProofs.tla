---------------------------- MODULE McSyncProofs ----------------------------
(***************************************************************************)
(* Proofs about how the mc fetches the messages of a mq host: whatever the     *)
(* order in which the connections deliver, it stores them in order, without a *)
(* gap, and none is left out, as long as no process dies after it began a      *)
(* session with acknowledgements left over from the one before it.             *)
(***************************************************************************)
EXTENDS McSync, FiniteSetTheorems, WellFoundedInduction, TLAPS

(***************************************************************************)
(* The inductive invariant.                                                *)
(***************************************************************************)
DataMsg == [type : {"data"}, seq : Nat, first : Nat, last : Nat, conn : Conns]
ReportMsg == [type : {"report"}, sid : Nat]
ReplyMsg == [type : {"reply"}, seq : Nat]
ToMc == DataMsg \cup {Accept, Refusal}
ToMq == ReportMsg \cup {NewConn} \cup ReplyMsg
Handler == [in : BOOLEAN, sentSeq : Nat, lastSid : Nat, redo : BOOLEAN, shut : BOOLEAN]
MqSession == [open : BOOLEAN, at : Nat, seq : Nat, logged : Nat]
Waiting == [conn : Conns, seq : Nat, now : BOOLEAN]
RunOfSids == [first : Nat, last : Nat]

\* The fields of a session.  What age, bytes and limit are does not matter.
IsSession(s) ==
  /\ s = [closed |-> s.closed, need |-> s.need, known |-> s.known, next |-> s.next,
          logSid |-> s.logSid, age |-> s.age, bytes |-> s.bytes, limit |-> s.limit]
  /\ s.closed \in BOOLEAN /\ s.need \in BOOLEAN /\ s.next \in Nat /\ s.logSid \in Nat

TypeOK ==
  /\ IsSession(sess)
  /\ conns \subseteq Conns
  /\ got \subseteq DataMsg /\ IsFiniteSet(got)
  /\ replies \in Seq(Waiting)
  /\ stored \in Seq(RunOfSids)
  /\ ever \subseteq Nat \ {0}
  /\ toMc \in [Conns -> Seq(ToMc)]
  /\ toMq \in [Conns -> Seq(ToMq)]
  /\ top \in Nat
  /\ mq \in MqSession
  /\ mqConn \in [Conns -> Handler]
  /\ stale \in BOOLEAN

\* What is under way on a wire of the mc or of the mq.
OnWire(wires, m) == \E c \in Conns : \E i \in DOMAIN wires[c] : wires[c][i] = m

\* The messages that the mq has sent and the mc has not stored.
Unstored == got \cup {m \in DataMsg : OnWire(toMc, m)}

\* Is the report of the session on its way?
Reporting == \E c \in Conns : \E i \in DOMAIN toMq[c] : toMq[c][i] \in ReportMsg

\* A message that begins after sid s is the next one to store.
Follows(s) == 1..s \subseteq ever /\ (stored # <<>> => s = sess.logSid)

StoredInOrder ==
  /\ AllInOrder
  /\ \A i \in DOMAIN stored : stored[i].first <= stored[i].last
  /\ SidsOf(stored) \subseteq ever
  /\ stored = <<>> => sess.logSid = 0
  /\ stored # <<>> => sess.logSid = Last(stored).last /\ sess.logSid # 0
  /\ replies # <<>> \/ stale => stored # <<>>

\* A closed session has nothing.
ClosedEmpty ==
  sess.closed =>
    /\ conns = {} /\ got = {} /\ toMc = NoWires /\ toMq = NoWires
    /\ sess.next = 0 /\ ~mq.open /\ mqConn = NoHandlers

\* Until the mq has the report nothing is sent but refusals.
ReportFirst ==
  \A c \in Conns : \A i \in DOMAIN toMq[c] : toMq[c][i] \in ReportMsg =>
    /\ c = 1 /\ i = 1 /\ toMq[c][i].sid = sess.logSid
    /\ got = {} /\ sess.next = 0
    /\ \A d \in Conns : \A k \in DOMAIN toMc[d] : toMc[d][k] = Refusal
    /\ \A d \in Conns : \A k \in DOMAIN toMq[d] : toMq[d][k] # NewConn
    /\ \A d \in Conns : mqConn[d].sentSeq = 0 /\ mqConn[d].lastSid = 0
                       /\ ~mqConn[d].in /\ ~mqConn[d].redo
    /\ ~stale => replies = <<>> /\ \A d \in Conns : \A k \in DOMAIN toMq[d] : toMq[d][k] \notin ReplyMsg

\* Can the messages that are under way still be stored?
Receiving == ~sess.need /\ ~sess.closed /\ ~Reporting

\* The messages of U are under way: they follow one another.
ChainOf(U) ==
  /\ \A m \in U :
       /\ 0 < m.first /\ m.first <= m.last
       /\ m.seq = sess.next => Follows(m.first - 1)
  /\ \A m, n \in U :
       /\ m.seq = n.seq => m = n
       /\ n.seq = m.seq + 1 => n.first = m.last + 1

\* The session q with handlers h goes on where the messages of U end.
SourceOf(U, q, h) ==
  /\ sess.next <= q.seq
  /\ sess.next = q.seq => Follows(q.at)
  /\ \A c \in Conns : h[c].lastSid <= q.at
  /\ \A m \in U :
       /\ m.seq < q.seq
       /\ m.seq + 1 = q.seq => m.last = q.at
       /\ \A c \in Conns : h[c].sentSeq = m.seq => h[c].lastSid <= m.last

Chained == Receiving => ChainOf(Unstored)
GoesOn == Receiving /\ mq.open => SourceOf(Unstored, mq, mqConn)

\* An acknowledgement is of messages that are stored.
Acked(q, h, c, n) ==
  n < q.seq /\ (n = h[c].sentSeq => 1..h[c].lastSid \subseteq ever)

AcksTrue ==
  mq.open /\ ~stale =>
    /\ \A c \in Conns : \A i \in DOMAIN toMq[c] :
         toMq[c][i] \in ReplyMsg => Acked(mq, mqConn, c, toMq[c][i].seq)
    /\ \A i \in DOMAIN replies : Acked(mq, mqConn, replies[i].conn, replies[i].seq)

\* So is what the position of the source says.
PositionStored == ~stale => 1..mq.logged \subseteq ever

Inv ==
  TypeOK /\ StoredInOrder /\ ClosedEmpty /\ ReportFirst
  /\ Chained /\ GoesOn /\ AcksTrue /\ PositionStored

(***************************************************************************)
(* Facts about numbers, messages and wires.                                *)
(***************************************************************************)
LEMMA OneIsConn == 1 \in Conns
BY SyncAssumption DEF Conns

LEMMA Constants ==
  NConn \in Nat /\ 1 <= NConn /\ ChunkMax \in Nat /\ MaxSid \in Nat /\ Conns \subseteq Nat
BY SyncAssumption DEF Conns

\* Messages of different kinds are different.
LEMMA Kinds ==
  /\ \A m \in DataMsg : m.type = "data" /\ m \notin ReportMsg /\ m \notin ReplyMsg /\ m # NewConn
                        /\ m # Accept /\ m # Refusal
  /\ \A m \in ReportMsg : m.type = "report" /\ m \notin ReplyMsg /\ m # NewConn
  /\ \A m \in ReplyMsg : m.type = "reply" /\ m # NewConn
  /\ NewConn.type = "newconn" /\ Accept.type = "accept" /\ Refusal.type = "err"
  /\ Accept # Refusal
BY DEF DataMsg, ReportMsg, ReplyMsg, NewConn, Accept, Refusal

LEMMA ByType ==
  /\ \A m \in ToMc : (m.type = "data" => m \in DataMsg) /\ (m.type = "accept" => m = Accept)
                     /\ (m.type = "err" => m = Refusal)
  /\ \A m \in ToMq : (m.type = "report" => m \in ReportMsg) /\ (m.type = "newconn" => m = NewConn)
                     /\ (m.type = "reply" => m \in ReplyMsg)
BY Kinds DEF ToMc, ToMq

LEMMA EmptyWires ==
  ASSUME NEW D
  PROVE  /\ NoWires \in [Conns -> Seq(D)] /\ \A c \in Conns : NoWires[c] = <<>> /\ DOMAIN NoWires[c] = {}
         /\ <<>> \in Seq(D)
BY DEF NoWires

\* The first message of wire c is taken.
LEMMA TailWire ==
  ASSUME NEW D, NEW w \in [Conns -> Seq(D)], NEW c \in Conns, w[c] # <<>>,
         NEW v, v = [w EXCEPT ![c] = Tail(@)]
  PROVE  /\ v \in [Conns -> Seq(D)] /\ Head(w[c]) = w[c][1] /\ Head(w[c]) \in D
         /\ 1 \in DOMAIN w[c]
         /\ \A d \in Conns : \A i \in DOMAIN v[d] :
              IF d = c THEN i + 1 \in DOMAIN w[d] /\ v[d][i] = w[d][i + 1]
                       ELSE i \in DOMAIN w[d] /\ v[d][i] = w[d][i]
<1>1. /\ w[c] \in Seq(D) /\ Tail(w[c]) \in Seq(D) /\ Len(w[c]) \in Nat \ {0}
      /\ Len(Tail(w[c])) = Len(w[c]) - 1 /\ Head(w[c]) = w[c][1] /\ Head(w[c]) \in D
      /\ \A i \in 1..Len(w[c]) - 1 : Tail(w[c])[i] = w[c][i + 1]
  OBVIOUS
<1>2. v \in [Conns -> Seq(D)] /\ v[c] = Tail(w[c]) /\ \A d \in Conns \ {c} : v[d] = w[d]
  BY <1>1
<1>3. ASSUME NEW i \in DOMAIN v[c]  PROVE i + 1 \in DOMAIN w[c] /\ v[c][i] = w[c][i + 1]
  <2>1. i \in 1..Len(w[c]) - 1
    BY <1>1, <1>2
  <2> QED
    BY <1>1, <1>2, <2>1
<1> QED
  BY <1>1, <1>2, <1>3

\* Something is appended to wires.
LEMMA ConcatWire ==
  ASSUME toMq \in [Conns -> Seq(ToMq)], NEW x \in [Conns -> Seq(ToMq)],
         toMq' = [c \in Conns |-> toMq'[c]], \A c \in Conns : toMq'[c] = toMq[c] \o x[c]
  PROVE  /\ toMq' \in [Conns -> Seq(ToMq)]
         /\ \A d \in Conns : \A i \in DOMAIN toMq'[d] :
              \/ i \in DOMAIN toMq[d] /\ toMq'[d][i] = toMq[d][i]
              \/ \E k \in DOMAIN x[d] : toMq'[d][i] = x[d][k]
         /\ \A d \in Conns : \A i \in DOMAIN toMq[d] : i \in DOMAIN toMq'[d] /\ toMq'[d][i] = toMq[d][i]
<1> HIDE DEF ToMq, Conns
<1>1. \A c \in Conns : toMq[c] \in Seq(ToMq) /\ x[c] \in Seq(ToMq) /\ toMq'[c] = toMq[c] \o x[c]
  OBVIOUS
<1>2. toMq' \in [Conns -> Seq(ToMq)]
  <2>1. ASSUME NEW c \in Conns
        PROVE  toMq'[c] \in Seq(ToMq)
    <3>1. \A p, q \in Seq(ToMq) : p \o q \in Seq(ToMq)
      OBVIOUS
    <3> QED
      BY <1>1, <3>1
  <2> QED
    BY <2>1
<1>3. ASSUME NEW d \in Conns, NEW i \in DOMAIN toMq'[d]
      PROVE  \/ i \in DOMAIN toMq[d] /\ toMq'[d][i] = toMq[d][i]
             \/ \E k \in DOMAIN x[d] : toMq'[d][i] = x[d][k]
  <2>1. /\ toMq[d] \in Seq(ToMq) /\ x[d] \in Seq(ToMq) /\ toMq'[d] = toMq[d] \o x[d]
        /\ i \in 1..Len(toMq[d]) + Len(x[d])
    BY <1>1
  <2>2. CASE i <= Len(toMq[d])
    BY <2>1, <2>2
  <2>3. CASE i > Len(toMq[d])
    <3>1. i - Len(toMq[d]) \in DOMAIN x[d] /\ toMq'[d][i] = x[d][i - Len(toMq[d])]
      BY <2>1, <2>3
    <3> QED
      BY <3>1
  <2> QED
    BY <2>1, <2>2, <2>3
<1>4. ASSUME NEW d \in Conns, NEW i \in DOMAIN toMq[d]
      PROVE  i \in DOMAIN toMq'[d] /\ toMq'[d][i] = toMq[d][i]
  <2>1. toMq[d] \in Seq(ToMq) /\ x[d] \in Seq(ToMq) /\ toMq'[d] = toMq[d] \o x[d] /\ i \in 1..Len(toMq[d])
    BY <1>1
  <2> QED
    BY <2>1
<1> QED
  BY <1>2, <1>3, <1>4

LEMMA AppendWire ==
  ASSUME NEW D, NEW w \in [Conns -> Seq(D)], NEW c \in Conns, NEW x \in D,
         NEW v, v = [w EXCEPT ![c] = Append(w[c], x)]
  PROVE  /\ v \in [Conns -> Seq(D)]
         /\ \A d \in Conns : \A i \in DOMAIN v[d] :
              (i \in DOMAIN w[d] /\ v[d][i] = w[d][i]) \/ (v[d][i] = x /\ d = c)
<1>1. w[c] \in Seq(D) /\ Append(w[c], x) \in Seq(D) /\ Len(Append(w[c], x)) = Len(w[c]) + 1
      /\ \A i \in 1..Len(w[c]) + 1 :
           Append(w[c], x)[i] = IF i <= Len(w[c]) THEN w[c][i] ELSE x
  OBVIOUS
<1>2. v \in [Conns -> Seq(D)] /\ v[c] = Append(w[c], x) /\ \A d \in Conns \ {c} : v[d] = w[d]
  BY <1>1
<1>3. ASSUME NEW i \in DOMAIN v[c]
      PROVE  (i \in DOMAIN w[c] /\ v[c][i] = w[c][i]) \/ v[c][i] = x
  <2>1. i \in 1..Len(w[c]) + 1 /\ Len(w[c]) \in Nat
    BY <1>1, <1>2
  <2> QED
    BY <1>1, <1>2, <2>1
<1> QED
  BY <1>2, <1>3

\* A wire is cut.
LEMMA CutWire ==
  ASSUME NEW D, NEW w \in [Conns -> Seq(D)], NEW c \in Conns,
         NEW v, v = [w EXCEPT ![c] = <<>>]
  PROVE  /\ v \in [Conns -> Seq(D)]
         /\ \A d \in Conns : \A i \in DOMAIN v[d] : i \in DOMAIN w[d] /\ v[d][i] = w[d][i]
BY EmptyWires

\* What is on some wires is on others, so that not more is unstored.
LEMMA UnstoredLess ==
  ASSUME NEW w, NEW v,
         \A d \in Conns : \A i \in DOMAIN v[d] : v[d][i] \in DataMsg => OnWire(w, v[d][i]),
         NEW m \in DataMsg, OnWire(v, m)
  PROVE  OnWire(w, m)
BY DEF OnWire

(***************************************************************************)
(* Finite sets of numbers.                                                 *)
(***************************************************************************)
LEMMA LargestExists ==
  ASSUME NEW S, S \subseteq Nat, IsFiniteSet(S), S # {}
  PROVE  Max(S) \in S /\ \A j \in S : j <= Max(S)
<1> DEFINE Later(i) == {j \in S : j > i}
           N(i) == Cardinality(Later(i))
           R == {ss \in Nat \X Nat : ss[1] < ss[2]}
           T == {N(i) : i \in S}
<1>1. IsWellFoundedOn(R, Nat)
  BY NatLessThanWellFounded DEF OpToRel
<1>2. \A i \in S : IsFiniteSet(Later(i)) /\ N(i) \in Nat
  <2> SUFFICES ASSUME NEW i \in S PROVE IsFiniteSet(Later(i)) /\ N(i) \in Nat
    OBVIOUS
  <2>1. Later(i) \in SUBSET S
    OBVIOUS
  <2>2. IsFiniteSet(Later(i))
    BY <2>1, FS_Subset
  <2> QED
    BY <2>2, FS_CardinalityType
<1>3. T \in SUBSET Nat /\ T # {}
  BY <1>2
<1> HIDE DEF R
<1>4. PICK m \in T : \A n \in T : <<n, m>> \notin R
  BY <1>1, <1>3, WFMin
<1>5. PICK i \in S : m = N(i)
  OBVIOUS
<1>6. ASSUME NEW j \in S, ~(j <= i)  PROVE FALSE
  <2>1. j > i /\ i \in Nat /\ j \in Nat
    BY <1>6
  <2>2. Later(j) \subseteq Later(i) /\ j \in Later(i) /\ j \notin Later(j)
    <3>1. ASSUME NEW x \in Later(j)  PROVE x \in Later(i)
      <4>1. x \in S /\ x > j /\ x \in Nat
        OBVIOUS
      <4>2. x > i
        BY <2>1, <4>1
      <4> QED
        BY <4>1, <4>2
    <3>2. ~(j > j)
      BY <2>1
    <3> QED
      BY <2>1, <3>1, <3>2
  <2>3. N(j) \in Nat /\ N(i) \in Nat /\ N(j) <= N(i) /\ N(j) # N(i)
    <3>1. Later(j) # Later(i)
      BY <2>2
    <3> HIDE DEF Later
    <3> QED
      BY <1>2, <2>2, <3>1, FS_Subset
  <2>4. N(j) < N(i)
    <3> HIDE DEF N
    <3> QED
      BY <2>3
  <2>5. <<N(j), m>> \notin R
    BY <1>4
  <2>6. ~(N(j) < N(i))
    <3> HIDE DEF N
    <3> QED
      BY <1>5, <2>3, <2>5 DEF R
  <2> QED
    BY <2>4, <2>6
<1>7. \E x \in S : \A y \in S : x >= y
  BY <1>6
<1> QED
  BY <1>7 DEF Max

LEMMA SmallestExists ==
  ASSUME NEW S, S \subseteq Nat, S # {}
  PROVE  \E x \in S : \A y \in S : x <= y
<1> DEFINE R == {ss \in Nat \X Nat : ss[1] < ss[2]}
<1>1. IsWellFoundedOn(R, Nat)
  BY NatLessThanWellFounded DEF OpToRel
<1> HIDE DEF R
<1>2. S \in SUBSET Nat
  OBVIOUS
<1>3. PICK x \in S : \A y \in S : <<y, x>> \notin R
  BY <1>1, <1>2, WFMin
<1>4. ASSUME NEW y \in S  PROVE x <= y
  <2>1. x \in Nat /\ y \in Nat /\ <<y, x>> \notin R
    BY <1>3
  <2>2. ~(y < x)
    BY <2>1 DEF R
  <2> QED
    BY <2>1, <2>2
<1> QED
  BY <1>4

\* The n-th number of a finite set is in it.
LEMMA NthIs ==
  ASSUME NEW S, S \subseteq Nat, IsFiniteSet(S), NEW n \in 1..Cardinality(S)
  PROVE  Nth(S, n) \in S
<1> DEFINE Upto(x) == {y \in S : y <= x}
           Under(x) == {y \in S : y < x}
           B == {x \in S : Cardinality(Upto(x)) >= n}
<1>1. Cardinality(S) \in Nat /\ n \in Nat /\ 1 <= n /\ n <= Cardinality(S) /\ S # {}
  <2>1. Cardinality(S) \in Nat
    BY FS_CardinalityType
  <2> QED
    BY <2>1, FS_EmptySet
<1>2. \A x \in S : /\ IsFiniteSet(Upto(x)) /\ IsFiniteSet(Under(x))
                   /\ Cardinality(Upto(x)) \in Nat /\ Cardinality(Under(x)) \in Nat
  <2> SUFFICES ASSUME NEW x \in S
               PROVE  /\ IsFiniteSet(Upto(x)) /\ IsFiniteSet(Under(x))
                      /\ Cardinality(Upto(x)) \in Nat /\ Cardinality(Under(x)) \in Nat
    OBVIOUS
  <2>1. Upto(x) \in SUBSET S /\ Under(x) \in SUBSET S
    OBVIOUS
  <2> HIDE DEF Upto, Under
  <2>2. IsFiniteSet(Upto(x)) /\ IsFiniteSet(Under(x))
    BY <2>1, FS_Subset
  <2> QED
    BY <2>2, FS_CardinalityType
<1>3. B # {} /\ B \subseteq Nat
  <2>1. PICK x \in S : \A y \in S : y <= x
    BY <1>1, LargestExists
  <2>2. Upto(x) = S
    BY <2>1
  <2>3. x \in B
    BY <1>1, <2>2
  <2> QED
    BY <2>3
<1>4. PICK x \in B : \A y \in B : x <= y
  <2> HIDE DEF B
  <2> QED
    BY <1>3, SmallestExists
<1>5. x \in S /\ Cardinality(Upto(x)) >= n /\ x \in Nat
  BY <1>4
<1>6. ~(Cardinality(Under(x)) >= n)
  <2> SUFFICES ASSUME Cardinality(Under(x)) >= n  PROVE FALSE
    OBVIOUS
  <2>1. Under(x) # {} /\ Under(x) \subseteq Nat
    <3>1. Cardinality(Under(x)) # 0
      BY <1>1, <1>2, <1>5
    <3> QED
      BY <3>1, FS_EmptySet
  <2>2. PICK z \in Under(x) : \A y \in Under(x) : y <= z
    <3> HIDE DEF Under
    <3> QED
      BY <1>2, <1>5, <2>1, LargestExists
  <2>3. z \in S /\ z < x /\ z \in Nat
    BY <2>2
  <2>4. Upto(z) = Under(x)
    <3>1. ASSUME NEW y \in S, y <= z  PROVE y < x
      BY <1>5, <2>3, <3>1
    <3>2. ASSUME NEW y \in S, y < x  PROVE y <= z
      BY <2>2, <3>2
    <3> QED
      BY <3>1, <3>2
  <2>5. z \in B
    BY <2>3, <2>4
  <2>6. x <= z
    BY <1>4, <2>5
  <2> QED
    BY <1>5, <2>3, <2>6
<1>7. Cardinality(Upto(x)) = Cardinality(Under(x)) + 1
  <2>1. Upto(x) = Under(x) \cup {x} /\ x \notin Under(x)
    <3>1. \A y \in S : y \in Nat /\ (y <= x <=> y < x \/ y = x)
      BY <1>5
    <3>2. ~(x < x)
      BY <1>5
    <3> QED
      BY <1>5, <3>1, <3>2
  <2>2. IsFiniteSet(Under(x))
    BY <1>2, <1>5
  <2> HIDE DEF Upto, Under
  <2> QED
    BY <2>1, <2>2, FS_AddElement
<1>8. Cardinality(Upto(x)) = n
  <2>1. Cardinality(Upto(x)) \in Nat /\ Cardinality(Under(x)) \in Nat
    BY <1>2, <1>5
  <2> HIDE DEF Upto, Under
  <2> QED
    BY <1>1, <1>5, <1>6, <1>7, <2>1
<1>9. \E y \in S : Cardinality({z \in S : z <= y}) = n
  BY <1>5, <1>8
<1> QED
  BY <1>9 DEF Nth

LEMMA PlacesAre ==
  ASSUME NEW L \in Nat, NEW S \in SUBSET (1..L)
  PROVE  /\ IsFiniteSet(S) /\ S \in SUBSET Nat
         /\ Cardinality(S) \in Nat /\ Cardinality(S) <= L
<1>1. IsFiniteSet(1..L) /\ Cardinality(1..L) = L
  BY FS_Interval
<1>2. IsFiniteSet(S) /\ Cardinality(S) <= Cardinality(1..L)
  BY <1>1, FS_Subset
<1> QED
  BY <1>1, <1>2, FS_CardinalityType

\* What a list has at the places of S, one after the other.
LEMMA PickedIs ==
  ASSUME NEW D, NEW S \in SUBSET Nat, IsFiniteSet(S), NEW list,
         \A k \in S : list[k] \in D
  PROVE  Picked(list, S) \in Seq(D) /\ (S = {} => Picked(list, S) = <<>>)
<1> DEFINE n == Cardinality(S)
           p == Picked(list, S)
<1>1. p = [k \in 1..n |-> list[Nth(S, k)]] /\ n \in Nat
  BY FS_CardinalityType DEF Picked
<1>2. \A k \in 1..n : Nth(S, k) \in S
  BY NthIs
<1>3. \A k \in 1..n : p[k] = list[Nth(S, k)] /\ p[k] \in D
  BY <1>1, <1>2
<1>4. p \in [1..n -> D]
  <2> HIDE DEF p, n
  <2> QED
    BY <1>1, <1>3
<1>5. p \in Seq(D)
  <2> HIDE DEF p, n
  <2> QED
    BY <1>1, <1>4
<1>6. S = {} => p = <<>>
  <2> SUFFICES ASSUME S = {}  PROVE p = <<>>
    OBVIOUS
  <2>1. n = 0
    BY FS_EmptySet
  <2> HIDE DEF p, n
  <2> QED
    BY <1>1, <2>1
<1> QED
  BY <1>5, <1>6

LEMMA PickedFrom ==
  ASSUME NEW S \in SUBSET Nat, IsFiniteSet(S), NEW list
  PROVE  \A k \in DOMAIN Picked(list, S) : \E j \in S : Picked(list, S)[k] = list[j]
<1> TAKE k \in DOMAIN Picked(list, S)
<1>1. DOMAIN Picked(list, S) = 1..Cardinality(S)
  BY DEF Picked
<1>2. k \in 1..Cardinality(S)
  BY <1>1
<1>3. Nth(S, k) \in S
  BY <1>2, NthIs
<1>4. Picked(list, S)[k] = list[Nth(S, k)]
  BY <1>2 DEF Picked
<1> QED
  BY <1>3, <1>4

(***************************************************************************)
(* Runs of sids.                                                           *)
(***************************************************************************)
LEMMA RunFields ==
  ASSUME NEW r \in Seq(RunOfSids)
  PROVE  /\ Len(r) \in Nat /\ DOMAIN r = 1..Len(r)
         /\ \A i \in DOMAIN r : r[i] \in RunOfSids /\ r[i].first \in Nat /\ r[i].last \in Nat
<1>1. \A x \in RunOfSids : x.first \in Nat /\ x.last \in Nat
  BY DEF RunOfSids
<1>2. Len(r) \in Nat /\ DOMAIN r = 1..Len(r) /\ \A i \in DOMAIN r : r[i] \in RunOfSids
  <2> HIDE DEF RunOfSids
  <2> QED
    OBVIOUS
<1> QED
  BY <1>1, <1>2

LEMMA SidsOfIs ==
  ASSUME NEW r, NEW s
  PROVE  s \in SidsOf(r) <=> \E i \in DOMAIN r : s \in r[i].first..r[i].last
BY DEF SidsOf

\* Runs that follow one another, and runs that do so from a on.
Ordered(r) ==
  /\ r \in Seq(RunOfSids)
  /\ \A i \in 1..(Len(r) - 1) : r[i + 1].first = r[i].last + 1
  /\ \A i \in DOMAIN r : r[i].first <= r[i].last

InTurn(r, a) == Ordered(r) /\ a \in Nat /\ (r # <<>> => r[1].first = a + 1)

\* A set of sids without a gap.
Gapless(E) == \A s \in E : 1..s \subseteq E

\* Runs that follow one another have no gap.
LEMMA RunsCover ==
  ASSUME NEW r, Ordered(r), NEW k \in DOMAIN r
  PROVE  r[1].first..r[k].last \subseteq SidsOf(r)
<1> DEFINE B == {i \in DOMAIN r : ~(r[1].first..r[i].last \subseteq SidsOf(r))}
<1>1. Len(r) \in Nat /\ DOMAIN r = 1..Len(r) /\ \A i \in DOMAIN r : r[i].first \in Nat /\ r[i].last \in Nat
  BY RunFields DEF Ordered
<1> SUFFICES ASSUME B # {}  PROVE FALSE
  OBVIOUS
<1>2. B \subseteq Nat
  BY <1>1
<1>3. PICK i \in B : \A j \in B : i <= j
  <2> HIDE DEF B
  <2> QED
    BY <1>2, SmallestExists
<1>4. i \in 1..Len(r) /\ ~(r[1].first..r[i].last \subseteq SidsOf(r))
  BY <1>1, <1>3
<1>5. r[i].first..r[i].last \subseteq SidsOf(r)
  BY <1>1, <1>4, SidsOfIs
<1>6. i # 1
  BY <1>4, <1>5
<1>7. i - 1 \in 1..Len(r) - 1 /\ i - 1 \in DOMAIN r /\ 1 \in DOMAIN r
  BY <1>1, <1>4, <1>6
<1>8. i - 1 \notin B
  <2>1. ~(i <= i - 1)
    BY <1>7
  <2> HIDE DEF B
  <2> QED
    BY <1>3, <2>1
<1>9. r[1].first..r[i - 1].last \subseteq SidsOf(r)
  BY <1>7, <1>8
<1>10. r[i].first = r[i - 1].last + 1
  <2>1. (i - 1) + 1 = i
    BY <1>4
  <2>2. r[(i - 1) + 1].first = r[i - 1].last + 1
    BY <1>7 DEF Ordered
  <2> QED
    BY <2>1, <2>2
<1>11. \A s \in r[1].first..r[i].last : s \in r[1].first..r[i - 1].last \/ s \in r[i].first..r[i].last
  BY <1>1, <1>4, <1>7, <1>10
<1> QED
  BY <1>4, <1>5, <1>9, <1>11

\* More sids are stored: those of runs that follow one another and what is
\* there.
LEMMA RunsExtend ==
  ASSUME NEW E, Gapless(E), NEW r, NEW a, InTurn(r, a), 1..a \subseteq E
  PROVE  (\A i \in DOMAIN r : 1..r[i].last \subseteq E \cup SidsOf(r)) /\ Gapless(E \cup SidsOf(r))
<1>0. r \in Seq(RunOfSids) /\ Ordered(r) /\ a \in Nat /\ (r # <<>> => r[1].first = a + 1)
  BY DEF InTurn, Ordered
<1>1. Len(r) \in Nat /\ DOMAIN r = 1..Len(r) /\ \A i \in DOMAIN r : r[i].first \in Nat /\ r[i].last \in Nat
  BY <1>0, RunFields
<1>2. ASSUME NEW i \in DOMAIN r  PROVE 1..r[i].last \subseteq E \cup SidsOf(r)
  <2>1. r[1].first..r[i].last \subseteq SidsOf(r)
    BY <1>0, RunsCover
  <2>2. r[1].first = a + 1
    BY <1>0, <1>1
  <2>3. \A s \in 1..r[i].last : s \in 1..a \/ s \in r[1].first..r[i].last
    BY <1>0, <1>1, <2>2
  <2> QED
    BY <2>1, <2>3
<1>3. ASSUME NEW s \in SidsOf(r)  PROVE 1..s \subseteq E \cup SidsOf(r)
  <2>1. PICK i \in DOMAIN r : s \in r[i].first..r[i].last
    BY SidsOfIs
  <2>2. 1..s \subseteq 1..r[i].last
    BY <1>1, <2>1
  <2>3. 1..s \subseteq E \cup SidsOf(r)
    BY <1>2, <2>2
  <2> QED
    BY <2>3
<1> QED
  BY <1>2, <1>3 DEF Gapless

(***************************************************************************)
(* The messages whose turn has come.                                        *)
(***************************************************************************)
LEMMA RunEnds ==
  ASSUME NEW S, S \subseteq Nat, IsFiniteSet(S), NEW k \in Nat,
         NEW e, e = CHOOSE n \in k..Max(S \cup {k}) : n + 1 \notin S /\ \A q \in k+1..n : q \in S
  PROVE  e \in Nat /\ k <= e /\ e + 1 \notin S /\ \A q \in k+1..e : q \in S
<1> DEFINE T == S \cup {k}
           M == Max(T)
           G == {n \in k..M : \A q \in k+1..n : q \in S}
<1>1. T \subseteq Nat /\ T # {} /\ k \in T
  OBVIOUS
<1>2. IsFiniteSet(T)
  BY FS_AddElement
<1>3. M \in T /\ \A x \in T : x <= M
  <2> HIDE DEF T
  <2> QED
    BY <1>1, <1>2, LargestExists
<1>4. M \in Nat /\ k <= M
  BY <1>1, <1>3
<1>5. e = CHOOSE n \in k..M : n + 1 \notin S /\ \A q \in k+1..n : q \in S
  OBVIOUS
<1>6. \A x \in S : x <= M
  BY <1>3
<1> HIDE DEF T, M
<1>7. G \subseteq k..M /\ k \in G /\ G \subseteq Nat
  BY <1>4
<1>8. IsFiniteSet(k..M)
  BY <1>4, FS_Interval
<1>9. IsFiniteSet(G)
  BY <1>7, <1>8, FS_Subset
<1>10. PICK n \in G : \A x \in G : x <= n
  <2> HIDE DEF G
  <2>1. G # {}
    BY <1>7
  <2> QED
    BY <1>7, <1>9, <2>1, LargestExists
<1>11. n \in Nat /\ n \in k..M /\ \A q \in k+1..n : q \in S
  BY <1>4, <1>10
<1>12. n + 1 \notin S
  <2> SUFFICES ASSUME n + 1 \in S  PROVE FALSE
    OBVIOUS
  <2>1. n + 1 <= M
    BY <1>6
  <2>2. n + 1 \in k..M
    BY <1>4, <1>11, <2>1
  <2>3. \A q \in k+1..n+1 : q \in S
    BY <1>4, <1>11
  <2>4. n + 1 \in G
    BY <2>2, <2>3
  <2>5. n + 1 <= n
    BY <1>10, <2>4
  <2> QED
    BY <1>11, <2>5
<1>13. e \in k..M /\ e + 1 \notin S /\ \A q \in k+1..e : q \in S
  BY <1>5, <1>11, <1>12
<1> QED
  BY <1>4, <1>13

\* R are the messages that follow one another from m on, if it is m's turn.
TurnOf(m, R) ==
  /\ R \in Seq(DataMsg) /\ (R = <<>> <=> m.seq # sess.next)
  /\ \A n \in DOMAIN R : R[n] \in got \cup {m} /\ R[n].seq = sess.next + n - 1
  /\ R # <<>> => \A x \in got : x.seq # sess.next + Len(R)

LEMMA ReadyIs ==
  ASSUME got \subseteq DataMsg, IsFiniteSet(got), sess.next \in Nat, NEW m \in DataMsg
  PROVE  TurnOf(m, Ready(m))
<1> DEFINE S == {x.seq : x \in got}
           k == m.seq
           e == CHOOSE n \in k..Max(S \cup {k}) : n + 1 \notin S /\ \A q \in k+1..n : q \in S
<1>1. k \in Nat /\ \A x \in DataMsg : x.seq \in Nat
  BY DEF DataMsg
<1>2. S \subseteq Nat
  BY <1>1
<1>3. IsFiniteSet(S)
  <2> DEFINE f == [x \in got |-> x.seq]
  <2>1. f \in Surjection(got, S)
    BY DEF Surjection
  <2> HIDE DEF f, S
  <2> QED
    BY <2>1, FS_Surjection
<1>4. e \in Nat /\ k <= e /\ e + 1 \notin S /\ \A q \in k+1..e : q \in S
  <2> HIDE DEF S, k
  <2> QED
    BY <1>1, <1>2, <1>3, RunEnds
<1> DEFINE at(n) == CHOOSE x \in got \cup {m} : x.seq = k + n - 1
           L == e - k + 1
           R == [n \in 1..L |-> at(n)]
<1>5. Ready(m) = IF k = sess.next THEN R ELSE <<>>
  BY DEF Ready
<1> HIDE DEF e
<1>6. L \in Nat /\ 1 <= L
  BY <1>1, <1>4
<1>7. ASSUME NEW n \in 1..L  PROVE at(n) \in got \cup {m} /\ at(n).seq = k + n - 1
  <2>1. \E x \in got \cup {m} : x.seq = k + n - 1
    <3>1. CASE n = 1
      BY <1>1, <3>1
    <3>2. CASE n # 1
      <4>1. k + n - 1 \in k+1..e
        BY <1>1, <1>4, <1>6, <3>2
      <4>2. k + n - 1 \in S
        BY <1>4, <4>1
      <4> QED
        BY <4>2
    <3> QED
      BY <3>1, <3>2
  <2> QED
    BY <2>1
<1> HIDE DEF at
<1>8. CASE k = sess.next
  <2>1. Ready(m) = R
    BY <1>5, <1>8
  <2>2. \A n \in 1..L : R[n] \in got \cup {m} /\ R[n].seq = k + n - 1 /\ R[n] \in DataMsg
    BY <1>7
  <2>3. R \in Seq(DataMsg) /\ Len(R) = L /\ DOMAIN R = 1..L
    <3>1. R \in [1..L -> DataMsg]
      BY <2>2
    <3> HIDE DEF R, L
    <3> QED
      BY <1>6, <3>1
  <2>4. k + L = e + 1
    BY <1>1, <1>4
  <2> HIDE DEF R
  <2>5. R # <<>>
    BY <1>6, <2>3
  <2>6. \A x \in got : x.seq # k + L
    BY <1>4, <2>4
  <2> QED
    BY <1>8, <2>1, <2>2, <2>3, <2>5, <2>6 DEF TurnOf
<1>9. CASE k # sess.next
  <2>1. Ready(m) = <<>>
    BY <1>5, <1>9
  <2>2. <<>> \in Seq(DataMsg) /\ DOMAIN <<>> = {}
    OBVIOUS
  <2> QED
    BY <1>9, <2>1, <2>2 DEF TurnOf
<1> QED
  BY <1>8, <1>9

(***************************************************************************)
(* What storing them changes.                                              *)
(***************************************************************************)
\* The runs of sids of the messages of a list.
RunsOf(ms) == [i \in DOMAIN ms |-> Run(ms[i].first, ms[i].last)]

LEMMA RunsOfIs ==
  ASSUME NEW ms \in Seq(DataMsg)
  PROVE  /\ RunsOf(ms) \in Seq(RunOfSids) /\ Len(RunsOf(ms)) = Len(ms)
         /\ \A i \in 1..Len(ms) : RunsOf(ms)[i].first = ms[i].first /\ RunsOf(ms)[i].last = ms[i].last
<1>1. \A x \in DataMsg : Run(x.first, x.last) \in RunOfSids
  BY DEF DataMsg, Run, RunOfSids
<1>2. Len(ms) \in Nat /\ DOMAIN ms = 1..Len(ms) /\ \A i \in 1..Len(ms) : ms[i] \in DataMsg
  <2> HIDE DEF DataMsg
  <2> QED
    OBVIOUS
<1>3. RunsOf(ms) \in [1..Len(ms) -> RunOfSids]
  BY <1>1, <1>2 DEF RunsOf
<1>4. \A i \in 1..Len(ms) : RunsOf(ms)[i] = Run(ms[i].first, ms[i].last)
  BY <1>2 DEF RunsOf
<1> QED
  BY <1>2, <1>3, <1>4 DEF Run

\* What a save of messages ms and a part of another one is.
SaveOf(ms, part, s) ==
  /\ s.stored = stored \o (RunsOf(ms) \o part)
  /\ s.logSid = IF RunsOf(ms) \o part = <<>> THEN sess.logSid ELSE Last(RunsOf(ms) \o part).last
  /\ s.waiting \in Seq(Waiting)
  /\ \A k \in DOMAIN s.waiting :
       \/ k \in DOMAIN replies /\ s.waiting[k] = replies[k]
       \/ \E i \in DOMAIN ms : s.waiting[k].conn = ms[i].conn /\ s.waiting[k].seq = ms[i].seq
  /\ ms = <<>> => s.waiting = replies
  /\ s.sent \in [Conns -> Seq(ReplyMsg)]
  /\ \A c \in Conns : \A k \in DOMAIN s.sent[c] :
       \E i \in DOMAIN ms : ms[i].conn = c /\ s.sent[c][k] = Reply(ms[i].seq)

LEMMA SaveIs ==
  ASSUME replies \in Seq(Waiting), NEW ms \in Seq(DataMsg), NEW part
  PROVE  SaveOf(ms, part, Save(ms, part))
<1> DEFINE s == Save(ms, part)
           Now(i) == Allowed(BytesAfter(SidCount(SubSeq(ms, 1, i))))
           Later(i) == [conn |-> ms[i].conn, seq |-> ms[i].seq, now |-> TRUE]
           late == {i \in DOMAIN ms : ~Now(i)}
           wait == Picked([i \in DOMAIN ms |-> Later(i)], late)
           mine(c) == {i \in DOMAIN ms : Now(i) /\ ms[i].conn = c}
           out(c) == Picked([i \in DOMAIN ms |-> Reply(ms[i].seq)], mine(c))
<1>1. /\ s.stored = stored \o (RunsOf(ms) \o part)
      /\ s.logSid = (IF RunsOf(ms) \o part = <<>> THEN sess.logSid ELSE Last(RunsOf(ms) \o part).last)
      /\ s.waiting = replies \o wait
      /\ s.sent = [c \in Conns |-> out(c)]
  BY DEF Save, RunsOf
<1>2. Len(ms) \in Nat /\ DOMAIN ms = 1..Len(ms) /\ \A i \in DOMAIN ms : ms[i] \in DataMsg
  <2> HIDE DEF DataMsg
  <2> QED
    OBVIOUS
<1>3. \A x \in DataMsg : /\ [conn |-> x.conn, seq |-> x.seq, now |-> TRUE] \in Waiting
                         /\ Reply(x.seq) \in ReplyMsg
  BY DEF DataMsg, Waiting, Reply, ReplyMsg
<1> HIDE DEF s, Now
<1>4. /\ wait \in Seq(Waiting)
      /\ \A k \in DOMAIN wait : \E i \in DOMAIN ms : wait[k].conn = ms[i].conn /\ wait[k].seq = ms[i].seq
      /\ ms = <<>> => wait = <<>>
  <2> DEFINE list == [i \in DOMAIN ms |-> Later(i)]
  <2>1. late \in SUBSET (1..Len(ms))
    BY <1>2
  <2>2. \A i \in DOMAIN ms : list[i] = Later(i) /\ list[i] \in Waiting
    BY <1>2, <1>3
  <2>3. \A i \in late : list[i] \in Waiting
    BY <2>2
  <2>4. (\A i \in late : i \in DOMAIN ms) /\ (ms = <<>> => late = {})
    BY <1>2
  <2>5. wait = Picked(list, late)
    OBVIOUS
  <2> HIDE DEF list, late, wait, Waiting
  <2>10. IsFiniteSet(late) /\ late \in SUBSET Nat
    BY <1>2, <2>1, PlacesAre
  <2>6. /\ Picked(list, late) \in Seq(Waiting)
        /\ late = {} => Picked(list, late) = <<>>
    BY <2>3, <2>10, PickedIs
  <2>7. \A k \in DOMAIN Picked(list, late) : \E j \in late : Picked(list, late)[k] = list[j]
    BY <2>10, PickedFrom
  <2>8. \A x : \A i \in DOMAIN ms : x = Later(i) => x.conn = ms[i].conn /\ x.seq = ms[i].seq
    OBVIOUS
  <2>9. ASSUME NEW k \in DOMAIN wait
        PROVE  \E i \in DOMAIN ms : wait[k].conn = ms[i].conn /\ wait[k].seq = ms[i].seq
    <3>1. PICK j \in late : wait[k] = list[j]
      BY <2>5, <2>7
    <3>2. j \in DOMAIN ms /\ wait[k] = Later(j)
      BY <2>2, <2>4, <3>1
    <3> QED
      BY <2>8, <3>2
  <2> QED
    BY <2>4, <2>5, <2>6, <2>9
<1>5. ASSUME NEW c \in Conns
      PROVE  /\ out(c) \in Seq(ReplyMsg)
             /\ \A k \in DOMAIN out(c) : \E i \in DOMAIN ms : ms[i].conn = c /\ out(c)[k] = Reply(ms[i].seq)
  <2> DEFINE list == [i \in DOMAIN ms |-> Reply(ms[i].seq)]
             S == mine(c)
             o == out(c)
  <2>1. S \in SUBSET (1..Len(ms)) /\ \A i \in S : i \in DOMAIN ms /\ ms[i].conn = c
    BY <1>2
  <2>2. \A i \in DOMAIN ms : list[i] = Reply(ms[i].seq) /\ list[i] \in ReplyMsg
    BY <1>2, <1>3
  <2>3. \A i \in S : list[i] \in ReplyMsg
    BY <2>2
  <2>5. o = Picked(list, S)
    OBVIOUS
  <2>4. SUFFICES /\ o \in Seq(ReplyMsg)
                 /\ \A k \in DOMAIN o : \E i \in DOMAIN ms : ms[i].conn = c /\ o[k] = Reply(ms[i].seq)
    OBVIOUS
  <2> HIDE DEF list, S, o, ReplyMsg
  <2>10. IsFiniteSet(S) /\ S \in SUBSET Nat
    BY <1>2, <2>1, PlacesAre
  <2>6. Picked(list, S) \in Seq(ReplyMsg)
    BY <2>3, <2>10, PickedIs
  <2>7. \A k \in DOMAIN Picked(list, S) : \E j \in S : Picked(list, S)[k] = list[j]
    BY <2>10, PickedFrom
  <2> QED
    BY <2>1, <2>2, <2>5, <2>6, <2>7
<1> HIDE DEF wait, out, Waiting, ReplyMsg, DataMsg
<1>6. /\ s.waiting \in Seq(Waiting)
      /\ \A k \in DOMAIN s.waiting :
           \/ k \in DOMAIN replies /\ s.waiting[k] = replies[k]
           \/ \E j \in DOMAIN wait : s.waiting[k] = wait[j]
      /\ ms = <<>> => s.waiting = replies
  <2>1. Len(replies) \in Nat /\ Len(wait) \in Nat /\ Len(s.waiting) = Len(replies) + Len(wait)
        /\ s.waiting \in Seq(Waiting)
    BY <1>1, <1>4
  <2>2. ASSUME NEW k \in DOMAIN s.waiting
        PROVE  \/ k \in DOMAIN replies /\ s.waiting[k] = replies[k]
               \/ \E j \in DOMAIN wait : s.waiting[k] = wait[j]
    <3>1. k \in 1..Len(replies) + Len(wait)
      BY <2>1
    <3>2. CASE k <= Len(replies)
      BY <1>1, <1>4, <3>1, <3>2
    <3>3. CASE k > Len(replies)
      <4>1. k - Len(replies) \in DOMAIN wait /\ s.waiting[k] = wait[k - Len(replies)]
        BY <1>1, <1>4, <2>1, <3>1, <3>3
      <4> QED
        BY <4>1
    <3> QED
      BY <2>1, <3>1, <3>2, <3>3
  <2>3. ms = <<>> => s.waiting = replies
    <3>1. replies \o <<>> = replies
      OBVIOUS
    <3> QED
      BY <1>1, <1>4, <3>1
  <2> QED
    BY <2>1, <2>2, <2>3
<1>7. /\ s.sent \in [Conns -> Seq(ReplyMsg)]
      /\ \A c \in Conns : s.sent[c] = out(c)
  BY <1>1, <1>5
<1>8. ASSUME NEW k \in DOMAIN s.waiting
      PROVE  \/ k \in DOMAIN replies /\ s.waiting[k] = replies[k]
             \/ \E i \in DOMAIN ms : s.waiting[k].conn = ms[i].conn /\ s.waiting[k].seq = ms[i].seq
  <2>1. CASE k \in DOMAIN replies /\ s.waiting[k] = replies[k]
    BY <2>1
  <2>2. CASE \E j \in DOMAIN wait : s.waiting[k] = wait[j]
    <3>1. PICK j \in DOMAIN wait : s.waiting[k] = wait[j]
      BY <2>2
    <3>2. \E i \in DOMAIN ms : wait[j].conn = ms[i].conn /\ wait[j].seq = ms[i].seq
      BY <1>4
    <3> QED
      BY <3>1, <3>2
  <2> QED
    BY <1>6, <2>1, <2>2
<1>9. \A c \in Conns : \A k \in DOMAIN s.sent[c] :
        \E i \in DOMAIN ms : ms[i].conn = c /\ s.sent[c][k] = Reply(ms[i].seq)
  BY <1>5, <1>7
<1>10. SaveOf(ms, part, s)
  BY <1>1, <1>6, <1>7, <1>8, <1>9 DEF SaveOf
<1> QED
  BY <1>10 DEF s

(***************************************************************************)
(* The mq sends.                                                           *)
(***************************************************************************)
LEMMA Less ==
  ASSUME NEW V, NEW U \in SUBSET V
  PROVE  /\ ChainOf(V) => ChainOf(U)
         /\ \A q, h : SourceOf(V, q, h) => SourceOf(U, q, h)
<1>1. ChainOf(V) => ChainOf(U)
  BY DEF ChainOf
<1>2. ASSUME NEW q, NEW h, SourceOf(V, q, h)  PROVE SourceOf(U, q, h)
  BY <1>2 DEF SourceOf
<1> QED
  BY <1>1, <1>2

LEMMA SessionFields ==
  \A q \in MqSession : q.open \in BOOLEAN /\ q.at \in Nat /\ q.seq \in Nat /\ q.logged \in Nat
BY DEF MqSession

LEMMA HandlerFields ==
  \A h \in Handler : /\ h.in \in BOOLEAN /\ h.sentSeq \in Nat /\ h.lastSid \in Nat
                     /\ h.redo \in BOOLEAN /\ h.shut \in BOOLEAN
BY DEF Handler

LEMMA DataFields ==
  \A x \in DataMsg : x.seq \in Nat /\ x.first \in Nat /\ x.last \in Nat /\ x.conn \in Conns
BY DEF DataMsg

\* Session p with handlers g is what q and h are after sids up to last were
\* sent on connection c.
AfterSend(c, last, q, h, p, g) ==
  /\ last > q.at /\ p.at = last /\ p.seq = q.seq + 1
  /\ \A d \in Conns \ {c} : g[d] = h[d]
  /\ g[c].sentSeq = q.seq /\ g[c].lastSid = last

\* The next message of session q goes out: it follows what was sent.
LEMMA SentFollows ==
  ASSUME sess.next \in Nat, NEW U \in SUBSET DataMsg, NEW q \in MqSession,
         NEW h, \A d \in Conns : h[d] \in Handler,
         ChainOf(U), SourceOf(U, q, h), NEW c \in Conns, NEW last \in Nat,
         NEW p, NEW g, AfterSend(c, last, q, h, p, g)
  PROVE  LET x == Data(q.seq, q.at + 1, last, c)
         IN  ChainOf(U \cup {x}) /\ SourceOf(U \cup {x}, p, g)
<1> DEFINE x == Data(q.seq, q.at + 1, last, c)
<1>0. /\ last > q.at /\ p.at = last /\ p.seq = q.seq + 1
      /\ \A d \in Conns \ {c} : g[d] = h[d]
      /\ g[c].sentSeq = q.seq /\ g[c].lastSid = last
  BY DEF AfterSend
<1>1. q.at \in Nat /\ q.seq \in Nat
  BY SessionFields
<1>2. x.seq = q.seq /\ x.first = q.at + 1 /\ x.last = last
  BY DEF Data
<1> HIDE DEF x
<1>3. \A m \in U : /\ m.seq \in Nat /\ m.first \in Nat /\ m.last \in Nat
                   /\ m.seq < q.seq /\ (m.seq + 1 = q.seq => m.last = q.at)
  BY DataFields DEF SourceOf
<1>4. \A d \in Conns : h[d].lastSid \in Nat /\ h[d].sentSeq \in Nat /\ h[d].lastSid <= q.at
  BY HandlerFields DEF SourceOf
<1>5. ChainOf(U \cup {x})
  <2>1. ASSUME NEW m \in U \cup {x}
        PROVE  /\ 0 < m.first /\ m.first <= m.last
               /\ m.seq = sess.next => Follows(m.first - 1)
    <3>1. CASE m \in U
      BY <3>1 DEF ChainOf
    <3>2. CASE m = x
      <4>1. sess.next = q.seq => Follows(q.at)
        BY DEF SourceOf
      <4>2. (q.at + 1) - 1 = q.at /\ 0 < q.at + 1 /\ q.at + 1 <= last
        BY <1>0, <1>1
      <4> QED
        BY <1>2, <3>2, <4>1, <4>2
    <3> QED
      BY <3>1, <3>2
  <2>2. ASSUME NEW m \in U \cup {x}, NEW n \in U \cup {x}
        PROVE  /\ m.seq = n.seq => m = n
               /\ n.seq = m.seq + 1 => n.first = m.last + 1
    <3>1. CASE m \in U /\ n \in U
      BY <3>1 DEF ChainOf
    <3>2. CASE m \in U /\ n = x
      BY <1>1, <1>2, <1>3, <3>2
    <3>3. CASE m = x /\ n \in U
      BY <1>1, <1>2, <1>3, <3>3
    <3>4. CASE m = x /\ n = x
      BY <1>1, <1>2, <3>4
    <3> QED
      BY <3>1, <3>2, <3>3, <3>4
  <2> QED
    BY <2>1, <2>2 DEF ChainOf
<1>6. sess.next <= q.seq
  BY DEF SourceOf
<1>7. \A d \in Conns : g[d].lastSid <= last
  BY <1>0, <1>1, <1>4
<1>8. ASSUME NEW m \in U \cup {x}
      PROVE  /\ m.seq < q.seq + 1
             /\ m.seq + 1 = q.seq + 1 => m.last = last
             /\ \A d \in Conns : g[d].sentSeq = m.seq => g[d].lastSid <= m.last
  <2>1. CASE m \in U
    <3>1. m.seq < q.seq + 1 /\ m.seq + 1 # q.seq + 1 /\ q.seq # m.seq
      BY <1>1, <1>3, <2>1
    <3>2. \A d \in Conns : h[d].sentSeq = m.seq => h[d].lastSid <= m.last
      BY <2>1 DEF SourceOf
    <3> QED
      BY <1>0, <3>1, <3>2
  <2>2. CASE m = x
    BY <1>1, <1>2, <1>7, <2>2
  <2> QED
    BY <2>1, <2>2
<1>9. SourceOf(U \cup {x}, p, g)
  <2>1. sess.next <= p.seq /\ sess.next # p.seq
    BY <1>0, <1>1, <1>6
  <2> QED
    BY <1>0, <1>7, <1>8, <2>1 DEF SourceOf
<1> QED
  BY <1>5, <1>9 DEF x

\* Acknowledgements that were true stay so.
LEMMA SentAcked ==
  ASSUME NEW q \in MqSession, NEW h, NEW c, NEW last,
         NEW p, NEW g, AfterSend(c, last, q, h, p, g),
         NEW d \in Conns, NEW n \in Nat, Acked(q, h, d, n)
  PROVE  Acked(p, g, d, n)
<1>1. q.seq \in Nat /\ n < q.seq
  BY SessionFields DEF Acked
<1>2. n < p.seq /\ n # q.seq
  BY <1>1 DEF AfterSend
<1> QED
  BY <1>2 DEF Acked, AfterSend

(***************************************************************************)
(* Steps of the mq.                                                        *)
(***************************************************************************)
LEMMA WaitingFields ==
  ASSUME replies \in Seq(Waiting)
  PROVE  \A i \in DOMAIN replies : /\ replies[i] \in Waiting
                                    /\ replies[i].conn \in Conns /\ replies[i].seq \in Nat
<1>1. \A x \in Waiting : x.conn \in Conns /\ x.seq \in Nat
  BY DEF Waiting
<1>2. \A i \in DOMAIN replies : replies[i] \in Waiting
  <2> HIDE DEF Waiting
  <2> QED
    OBVIOUS
<1> QED
  BY <1>1, <1>2

LEMMA McQuiet ==
  UNCHANGED mcVars => (StoredInOrder => StoredInOrder')
<1> SUFFICES ASSUME UNCHANGED mcVars, StoredInOrder  PROVE StoredInOrder'
  OBVIOUS
<1>1. /\ sess' = sess /\ replies' = replies /\ stored' = stored /\ ever' = ever /\ stale' = stale
  BY DEF mcVars
<1> QED
  BY <1>1 DEF StoredInOrder, AllInOrder, SidsOf

LEMMA OpenMq ==
  ASSUME Inv, mq.open
  PROVE  ~sess.closed
BY DEF Inv, ClosedEmpty

\* What is on the wires to the mc and unstored.
On(w) == got \cup {x \in DataMsg : OnWire(w, x)}

LEMMA Unstoreds == Unstored = On(toMc)
BY DEF Unstored, On

\* There is nothing to send, or sids up to last are sent.
Idle(c, m, h, before) ==
  /\ mq' = m /\ mqConn' = [mqConn EXCEPT ![c] = [h EXCEPT !.redo = TRUE]]
  /\ toMc' = [toMc EXCEPT ![c] = before]
  /\ mqConn' \in [Conns -> Handler] /\ toMc' \in [Conns -> Seq(ToMc)]

SentTo(c, m, h, before, last) ==
  /\ last \in Nat /\ last > m.at
  /\ mq' = [m EXCEPT !.at = last, !.seq = m.seq + 1]
  /\ mqConn' = [mqConn EXCEPT ![c] = [h EXCEPT !.sentSeq = m.seq, !.lastSid = last]]
  /\ toMc' = [toMc EXCEPT ![c] = Append(before, Data(m.seq, m.at + 1, last, c))]
  /\ mq' \in MqSession /\ mqConn' \in [Conns -> Handler]
  /\ Data(m.seq, m.at + 1, last, c) \in DataMsg

LEMMA SendNextIs ==
  ASSUME TypeOK, NEW c \in Conns, NEW m \in MqSession, NEW h \in Handler, NEW before \in Seq(ToMc),
         SendNext(c, m, h, before)
  PROVE  Idle(c, m, h, before) \/ \E last : SentTo(c, m, h, before, last)
<1>1. m.at \in Nat /\ m.seq \in Nat /\ top \in Nat /\ mqConn \in [Conns -> Handler]
      /\ toMc \in [Conns -> Seq(ToMc)]
  BY SessionFields DEF TypeOK
<1>2. CASE m.at = top
  <2>1. [h EXCEPT !.redo = TRUE] \in Handler
    BY DEF Handler
  <2>2. /\ mq' = m /\ mqConn' = [mqConn EXCEPT ![c] = [h EXCEPT !.redo = TRUE]]
        /\ toMc' = [toMc EXCEPT ![c] = before]
    BY <1>2 DEF SendNext
  <2> QED
    BY <1>1, <2>1, <2>2 DEF Idle
<1>3. CASE m.at # top
  <2>1. PICK last \in (m.at + 1)..top :
          /\ mq' = [m EXCEPT !.at = last, !.seq = m.seq + 1]
          /\ mqConn' = [mqConn EXCEPT ![c] = [h EXCEPT !.sentSeq = m.seq, !.lastSid = last]]
          /\ toMc' = [toMc EXCEPT ![c] = Append(before, Data(m.seq, m.at + 1, last, c))]
    BY <1>3 DEF SendNext
  <2>2. last \in Nat /\ last > m.at
    BY <1>1
  <2>3. [m EXCEPT !.at = last, !.seq = m.seq + 1] \in MqSession
    <3>1. \A s \in MqSession : \A a \in Nat : \A n \in Nat :
            [s EXCEPT !.at = a, !.seq = n] \in MqSession
      BY DEF MqSession
    <3>2. m.seq + 1 \in Nat
      BY <1>1
    <3> QED
      BY <2>2, <3>1, <3>2
  <2>4. [h EXCEPT !.sentSeq = m.seq, !.lastSid = last] \in Handler
    BY <1>1, <2>2 DEF Handler
  <2>5. Data(m.seq, m.at + 1, last, c) \in DataMsg
    BY <1>1, <2>2 DEF Data, DataMsg
  <2>6. mqConn' \in [Conns -> Handler]
    BY <1>1, <2>1, <2>4
  <2> QED
    BY <2>1, <2>2, <2>3, <2>5, <2>6 DEF SentTo
<1> QED
  BY <1>2, <1>3

\* Conditions under which a send by session m, on connection c with handler
\* h, keeps the invariant: what they say is true before the next message.
SendFrom(c, m, h, before) ==
  LET H == [mqConn EXCEPT ![c] = h]
      U == On([toMc EXCEPT ![c] = before])
  IN  /\ m.open
      /\ toMq' \in [Conns -> Seq(ToMq)] /\ ~Reporting'
      /\ ~sess.need => ChainOf(U) /\ SourceOf(U, m, H)
      /\ ~stale =>
           /\ \A d \in Conns : \A i \in DOMAIN toMq'[d] :
                toMq'[d][i] \in ReplyMsg => Acked(m, H, d, toMq'[d][i].seq)
           /\ \A i \in DOMAIN replies : Acked(m, H, replies[i].conn, replies[i].seq)
           /\ 1..m.logged \subseteq ever

\* What is true after the send.
SendLeaves ==
  /\ mq' \in MqSession /\ mq'.open /\ mqConn' \in [Conns -> Handler] /\ toMc' \in [Conns -> Seq(ToMc)]
  /\ ~sess.need => ChainOf(On(toMc')) /\ SourceOf(On(toMc'), mq', mqConn')
  /\ ~stale =>
       /\ \A d \in Conns : \A i \in DOMAIN toMq'[d] :
            toMq'[d][i] \in ReplyMsg => Acked(mq', mqConn', d, toMq'[d][i].seq)
       /\ \A i \in DOMAIN replies : Acked(mq', mqConn', replies[i].conn, replies[i].seq)
       /\ 1..mq'.logged \subseteq ever

LEMMA NoReport == ~Reporting => ReportFirst
BY DEF Reporting, ReportFirst

LEMMA SendKeeps ==
  ASSUME Inv, UNCHANGED <<mcVars, top>>, NEW c \in Conns, NEW m \in MqSession, NEW h \in Handler,
         NEW before \in Seq(ToMc), mq.open, SendFrom(c, m, h, before), SendNext(c, m, h, before)
  PROVE  Inv'
<1> DEFINE H == [mqConn EXCEPT ![c] = h]
           W == [toMc EXCEPT ![c] = before]
           U == On(W)
<1>1. /\ sess' = sess /\ conns' = conns /\ got' = got /\ replies' = replies /\ stored' = stored
      /\ ever' = ever /\ stale' = stale /\ top' = top
  BY DEF mcVars
<1>2. /\ TypeOK /\ StoredInOrder /\ ~sess.closed /\ Unstored' = On(toMc')
  <2>1. Unstored' = On(toMc')
    BY <1>1 DEF Unstored, On
  <2> QED
    BY <2>1, OpenMq DEF Inv
<1>3. /\ mqConn \in [Conns -> Handler] /\ toMc \in [Conns -> Seq(ToMc)] /\ sess.next \in Nat
      /\ got \subseteq DataMsg /\ replies \in Seq(Waiting)
  BY <1>2 DEF TypeOK, IsSession
<1>4. H \in [Conns -> Handler] /\ W \in [Conns -> Seq(ToMc)] /\ H[c] = h /\ W[c] = before
  BY <1>3
<1>5. U \in SUBSET DataMsg
  BY <1>3 DEF On
<1>6. /\ m.open /\ toMq' \in [Conns -> Seq(ToMq)] /\ ~Reporting'
      /\ ~sess.need => ChainOf(U) /\ SourceOf(U, m, H)
      /\ ~stale =>
           /\ \A d \in Conns : \A i \in DOMAIN toMq'[d] :
                toMq'[d][i] \in ReplyMsg => Acked(m, H, d, toMq'[d][i].seq)
           /\ \A i \in DOMAIN replies : Acked(m, H, replies[i].conn, replies[i].seq)
           /\ 1..m.logged \subseteq ever
  BY DEF SendFrom
<1> HIDE DEF H, W, U
<1>7. SendLeaves
  <2>1. CASE Idle(c, m, h, before)
    <3> USE <2>1 DEF Idle
    <3>1. toMc' = W /\ On(toMc') = U
      BY <2>1 DEF W, U
    <3>2. \A d \in Conns : mqConn'[d].sentSeq = H[d].sentSeq /\ mqConn'[d].lastSid = H[d].lastSid
      <4>1. [h EXCEPT !.redo = TRUE].sentSeq = h.sentSeq /\ [h EXCEPT !.redo = TRUE].lastSid = h.lastSid
        BY DEF Handler
      <4> QED
        BY <1>3, <2>1, <4>1 DEF H
    <3>3. SourceOf(U, m, H) => SourceOf(U, m, mqConn')
      BY <3>2 DEF SourceOf
    <3>4. \A d \in Conns : \A n : Acked(m, H, d, n) => Acked(m, mqConn', d, n)
      BY <3>2 DEF Acked
    <3>5. \A i \in DOMAIN replies : replies[i].conn \in Conns
      BY <1>3, WaitingFields
    <3>6. \A d \in Conns : \A n : Acked(m, H, d, n) => Acked(mq', mqConn', d, n)
      BY <2>1, <3>4
    <3>7. ~sess.need => ChainOf(On(toMc')) /\ SourceOf(On(toMc'), mq', mqConn')
      BY <1>6, <2>1, <3>1, <3>3
    <3> QED
      BY <1>6, <2>1, <3>5, <3>6, <3>7 DEF SendLeaves
  <2>2. ASSUME NEW last, SentTo(c, m, h, before, last)
        PROVE  SendLeaves
    <3>1. /\ last \in Nat /\ last > m.at
          /\ mq' = [m EXCEPT !.at = last, !.seq = m.seq + 1]
          /\ mqConn' = [mqConn EXCEPT ![c] = [h EXCEPT !.sentSeq = m.seq, !.lastSid = last]]
          /\ toMc' = [toMc EXCEPT ![c] = Append(before, Data(m.seq, m.at + 1, last, c))]
          /\ mq' \in MqSession /\ mqConn' \in [Conns -> Handler]
          /\ Data(m.seq, m.at + 1, last, c) \in DataMsg
      BY <2>2 DEF SentTo
    <3> DEFINE x == Data(m.seq, m.at + 1, last, c)
    <3>2. x \in DataMsg /\ x \in ToMc
      BY <3>1 DEF ToMc
    <3>3. /\ mq'.at = last /\ mq'.seq = m.seq + 1 /\ mq'.logged = m.logged /\ mq'.open = m.open
      BY <3>1 DEF MqSession
    <3>4. /\ \A d \in Conns \ {c} : mqConn'[d] = H[d]
          /\ mqConn'[c].sentSeq = m.seq /\ mqConn'[c].lastSid = last
      <4>1. /\ [h EXCEPT !.sentSeq = m.seq, !.lastSid = last].sentSeq = m.seq
            /\ [h EXCEPT !.sentSeq = m.seq, !.lastSid = last].lastSid = last
        BY DEF Handler
      <4> QED
        BY <1>3, <3>1, <4>1 DEF H
    <3>12. AfterSend(c, last, m, H, mq', mqConn')
      BY <3>1, <3>3, <3>4 DEF AfterSend
    <3> HIDE DEF x
    <3>5. toMc' = [W EXCEPT ![c] = Append(W[c], x)]
      BY <1>3, <1>4, <3>1 DEF W, x
    <3>6. /\ toMc' \in [Conns -> Seq(ToMc)]
          /\ \A d \in Conns : \A i \in DOMAIN toMc'[d] :
               (i \in DOMAIN W[d] /\ toMc'[d][i] = W[d][i]) \/ (toMc'[d][i] = x /\ d = c)
      BY <1>4, <3>2, <3>5, AppendWire
    <3>7. On(toMc') \in SUBSET (U \cup {x})
      BY <3>6 DEF On, OnWire, U
    <3>8. ~sess.need => ChainOf(On(toMc')) /\ SourceOf(On(toMc'), mq', mqConn')
      <4> SUFFICES ASSUME ~sess.need
                   PROVE  ChainOf(On(toMc')) /\ SourceOf(On(toMc'), mq', mqConn')
        OBVIOUS
      <4>1. ChainOf(U) /\ SourceOf(U, m, H)
        BY <1>6
      <4>2. \A d \in Conns : H[d] \in Handler
        BY <1>4
      <4>3. ChainOf(U \cup {Data(m.seq, m.at + 1, last, c)})
            /\ SourceOf(U \cup {Data(m.seq, m.at + 1, last, c)}, mq', mqConn')
        BY <1>3, <1>5, <3>1, <3>12, <4>1, <4>2, SentFollows
      <4>4. ChainOf(U \cup {x}) /\ SourceOf(U \cup {x}, mq', mqConn')
        BY <4>3 DEF x
      <4> QED
        BY <3>7, <4>4, Less
    <3>9. ASSUME NEW d \in Conns, NEW n \in Nat, Acked(m, H, d, n)
          PROVE  Acked(mq', mqConn', d, n)
      BY <3>9, <3>12, SentAcked
    <3>10. \A i \in DOMAIN replies : replies[i].conn \in Conns /\ replies[i].seq \in Nat
      BY <1>3, WaitingFields
    <3>11. \A y \in ReplyMsg : y.seq \in Nat
      BY DEF ReplyMsg
    <3> QED
      BY <1>6, <3>1, <3>3, <3>6, <3>8, <3>9, <3>10, <3>11 DEF SendLeaves
  <2>3. Idle(c, m, h, before) \/ \E last : SentTo(c, m, h, before, last)
    BY <1>2, SendNextIs
  <2> QED
    BY <2>1, <2>2, <2>3
<1>8. TypeOK'
  BY <1>1, <1>2, <1>6, <1>7 DEF SendLeaves, TypeOK, IsSession
<1>9. StoredInOrder'
  BY <1>2, McQuiet
<1>10. ClosedEmpty' /\ ReportFirst' /\ PositionStored'
  BY <1>1, <1>2, <1>6, <1>7 DEF SendLeaves, ClosedEmpty, ReportFirst, Reporting, PositionStored
<1>11. Chained' /\ GoesOn'
  BY <1>1, <1>2, <1>7 DEF SendLeaves, Chained, GoesOn, Receiving, ChainOf, SourceOf, Follows
<1>12. AcksTrue'
  BY <1>1, <1>7 DEF SendLeaves, AcksTrue, Acked
<1> QED
  BY <1>8, <1>9, <1>10, <1>11, <1>12 DEF Inv

\* What the mq takes from a wire.
Taken(c, t) ==
  /\ mq.open /\ ~sess.closed /\ UNCHANGED <<mcVars, top>>
  /\ toMq' \in [Conns -> Seq(ToMq)]
  /\ 1 \in DOMAIN toMq[c] /\ Head(toMq[c]) = toMq[c][1] /\ toMq[c][1] \in ToMq /\ toMq[c][1].type = t
  /\ \A d \in Conns : \A i \in DOMAIN toMq'[d] :
       IF d = c THEN i + 1 \in DOMAIN toMq[d] /\ toMq'[d][i] = toMq[d][i + 1]
                ELSE i \in DOMAIN toMq[d] /\ toMq'[d][i] = toMq[d][i]

LEMMA MqTakes ==
  ASSUME Inv, NEW c \in Conns, NEW t, MqGets(c, t)
  PROVE  Taken(c, t) /\ ~mqConn[c].shut
<1>1. /\ mq.open /\ ~mqConn[c].shut /\ toMq[c] # <<>> /\ Head(toMq[c]).type = t
      /\ toMq' = [toMq EXCEPT ![c] = Tail(@)] /\ UNCHANGED <<mcVars, top>>
  BY DEF MqGets
<1>2. toMq \in [Conns -> Seq(ToMq)]
  BY DEF Inv, TypeOK
<1>3. /\ toMq' \in [Conns -> Seq(ToMq)] /\ Head(toMq[c]) = toMq[c][1] /\ Head(toMq[c]) \in ToMq
      /\ 1 \in DOMAIN toMq[c]
      /\ \A d \in Conns : \A i \in DOMAIN toMq'[d] :
           IF d = c THEN i + 1 \in DOMAIN toMq[d] /\ toMq'[d][i] = toMq[d][i + 1]
                    ELSE i \in DOMAIN toMq[d] /\ toMq'[d][i] = toMq[d][i]
  <2> HIDE DEF ToMq
  <2> QED
    BY <1>1, <1>2, TailWire
<1> QED
  BY <1>1, <1>3, OpenMq DEF Taken

\* What is left is what was there.
LEMMA TakenLeaves ==
  ASSUME NEW c \in Conns, NEW t, Taken(c, t)
  PROVE  \A d \in Conns : \A i \in DOMAIN toMq'[d] : \E k \in DOMAIN toMq[d] : toMq'[d][i] = toMq[d][k]
BY DEF Taken

LEMMA NoNewReport ==
  ASSUME ~Reporting,
         \A d \in Conns : \A i \in DOMAIN toMq'[d] :
           toMq'[d][i] \in ReportMsg => \E k \in DOMAIN toMq[d] : toMq'[d][i] = toMq[d][k]
  PROVE  ~Reporting'
BY DEF Reporting

LEMMA WiresSame ==
  ASSUME toMc \in [Conns -> Seq(ToMc)], NEW c \in Conns
  PROVE  [toMc EXCEPT ![c] = toMc[c]] = toMc
OBVIOUS

\* The mq goes on sending.
LEMMA GoOnKeeps ==
  ASSUME Inv, UNCHANGED <<mcVars, top>>, NEW c \in Conns, mq.open, ~Reporting,
         toMq' \in [Conns -> Seq(ToMq)],
         \A d \in Conns : \A i \in DOMAIN toMq'[d] : \E k \in DOMAIN toMq[d] : toMq'[d][i] = toMq[d][k],
         NEW m \in MqSession, m.at = mq.at, m.seq = mq.seq, m.open, ~stale => 1..m.logged \subseteq ever,
         NEW h \in Handler,
         h.lastSid = 0 \/ (h.sentSeq = mqConn[c].sentSeq /\ h.lastSid = mqConn[c].lastSid),
         SendNext(c, m, h, toMc[c])
  PROVE  Inv'
<1> DEFINE H == [mqConn EXCEPT ![c] = h]
<1>1. /\ mqConn \in [Conns -> Handler] /\ toMc \in [Conns -> Seq(ToMc)] /\ replies \in Seq(Waiting)
      /\ mq \in MqSession /\ ever \subseteq Nat \ {0}
  BY DEF Inv, TypeOK
<1>2. [toMc EXCEPT ![c] = toMc[c]] = toMc /\ On(toMc) = Unstored /\ toMc[c] \in Seq(ToMc)
  BY <1>1, WiresSame, Unstoreds
<1>3. \A d \in Conns : H[d].lastSid = 0 \/ (H[d].sentSeq = mqConn[d].sentSeq /\ H[d].lastSid = mqConn[d].lastSid)
  BY <1>1
<1>4. ~Reporting'
  BY NoNewReport
<1>5. ASSUME ~sess.need  PROVE ChainOf(Unstored) /\ SourceOf(Unstored, m, H)
  <2>1. ChainOf(Unstored) /\ SourceOf(Unstored, mq, mqConn)
    <3>1. Receiving
      BY <1>5, OpenMq DEF Receiving
    <3> QED
      BY <3>1 DEF Inv, Chained, GoesOn
  <2>2. mq.at \in Nat
    BY <1>1, SessionFields
  <2>3. \A x \in Unstored : 0 < x.first /\ x.first <= x.last /\ x.first \in Nat /\ x.last \in Nat
    <3>1. Unstored \subseteq DataMsg
      BY DEF Unstored, Inv, TypeOK
    <3> QED
      BY <2>1, <3>1, DataFields DEF ChainOf
  <2>4. \A x \in Unstored : 0 <= x.last
    BY <2>3
  <2> HIDE DEF H
  <2>5. /\ sess.next <= m.seq /\ (sess.next = m.seq => Follows(m.at))
        /\ \A x \in Unstored : x.seq < m.seq /\ (x.seq + 1 = m.seq => x.last = m.at)
    BY <2>1 DEF SourceOf
  <2>6. ASSUME NEW d \in Conns
        PROVE  /\ H[d].lastSid <= m.at
               /\ \A x \in Unstored : H[d].sentSeq = x.seq => H[d].lastSid <= x.last
    <3>1. /\ mqConn[d].lastSid <= mq.at
          /\ \A x \in Unstored : mqConn[d].sentSeq = x.seq => mqConn[d].lastSid <= x.last
      BY <2>1 DEF SourceOf
    <3>2. CASE H[d].lastSid = 0
      BY <2>2, <2>4, <3>2
    <3>3. CASE H[d].sentSeq = mqConn[d].sentSeq /\ H[d].lastSid = mqConn[d].lastSid
      BY <3>1, <3>3
    <3> QED
      BY <1>3, <3>2, <3>3
  <2> QED
    BY <2>1, <2>5, <2>6 DEF SourceOf
<1>6. ASSUME ~stale
      PROVE  /\ \A d \in Conns : \A i \in DOMAIN toMq'[d] :
                  toMq'[d][i] \in ReplyMsg => Acked(m, H, d, toMq'[d][i].seq)
             /\ \A i \in DOMAIN replies : Acked(m, H, replies[i].conn, replies[i].seq)
  <2>1. /\ \A d \in Conns : \A i \in DOMAIN toMq[d] :
                  toMq[d][i] \in ReplyMsg => Acked(mq, mqConn, d, toMq[d][i].seq)
        /\ \A i \in DOMAIN replies : Acked(mq, mqConn, replies[i].conn, replies[i].seq)
    BY <1>6 DEF Inv, AcksTrue
  <2>2. \A d \in Conns : \A n : Acked(mq, mqConn, d, n) => Acked(m, H, d, n)
    <3>1. 1..0 \subseteq ever
      OBVIOUS
    <3> HIDE DEF H
    <3> QED
      BY <1>3, <3>1 DEF Acked
  <2>3. \A i \in DOMAIN replies : replies[i].conn \in Conns
    BY <1>1, WaitingFields
  <2> HIDE DEF H
  <2> QED
    BY <2>1, <2>2, <2>3
<1>7. SendFrom(c, m, h, toMc[c])
  BY <1>2, <1>4, <1>5, <1>6 DEF SendFrom
<1> QED
  BY <1>2, <1>7, SendKeeps

LEMMA NewHandler ==
  NoHandler \in Handler /\ [NoHandler EXCEPT !.in = TRUE] \in Handler
  /\ NoHandler.lastSid = 0 /\ NoHandler.sentSeq = 0 /\ [NoHandler EXCEPT !.in = TRUE].lastSid = 0
BY DEF NoHandler, Handler

LEMMA MqNewConnKeeps ==
  ASSUME Inv, NEW c \in Conns, MqNewConn(c)
  PROVE  Inv'
<1>1. MqGets(c, "newconn") /\ SendNext(c, mq, [NoHandler EXCEPT !.in = TRUE], toMc[c])
  BY DEF MqNewConn
<1>2. Taken(c, "newconn")
  BY <1>1, MqTakes
<1>3. toMq[c][1] = NewConn /\ 1 \in DOMAIN toMq[c]
  BY <1>2, ByType DEF Taken
<1>4. ~Reporting
  BY <1>3 DEF Inv, ReportFirst, Reporting
<1>5. mq \in MqSession /\ (~stale => 1..mq.logged \subseteq ever)
  BY DEF Inv, TypeOK, PositionStored
<1>6. /\ UNCHANGED <<mcVars, top>> /\ mq.open /\ toMq' \in [Conns -> Seq(ToMq)]
      /\ \A d \in Conns : \A i \in DOMAIN toMq'[d] : \E k \in DOMAIN toMq[d] : toMq'[d][i] = toMq[d][k]
  BY <1>2, TakenLeaves DEF Taken
<1> QED
  BY <1>1, <1>4, <1>5, <1>6, NewHandler, GoOnKeeps

LEMMA MqRedoKeeps ==
  ASSUME Inv, NEW c \in Conns, MqRedo(c)
  PROVE  Inv'
<1> DEFINE h == [mqConn[c] EXCEPT !.redo = FALSE]
<1>1. /\ mq.open /\ mqConn[c].redo /\ UNCHANGED <<mcVars, top>> /\ toMq' = toMq
      /\ SendNext(c, mq, h, toMc[c])
  BY DEF MqRedo
<1>2. ~Reporting
  BY <1>1 DEF Inv, ReportFirst, Reporting
<1>3. /\ mq \in MqSession /\ (~stale => 1..mq.logged \subseteq ever) /\ mqConn[c] \in Handler
      /\ toMq \in [Conns -> Seq(ToMq)]
  BY DEF Inv, TypeOK, PositionStored
<1>4. h \in Handler /\ h.sentSeq = mqConn[c].sentSeq /\ h.lastSid = mqConn[c].lastSid
  <2>1. \A g \in Handler : /\ [g EXCEPT !.redo = FALSE] \in Handler
                           /\ [g EXCEPT !.redo = FALSE].sentSeq = g.sentSeq
                           /\ [g EXCEPT !.redo = FALSE].lastSid = g.lastSid
    BY DEF Handler
  <2> QED
    BY <1>3, <2>1
<1> HIDE DEF h
<1>5. /\ toMq' \in [Conns -> Seq(ToMq)]
      /\ \A d \in Conns : \A i \in DOMAIN toMq'[d] : \E k \in DOMAIN toMq[d] : toMq'[d][i] = toMq[d][k]
  BY <1>1, <1>3
<1> QED
  BY <1>1, <1>2, <1>3, <1>4, <1>5, GoOnKeeps

\* A session of the mq is closed: nothing more is sent.
LEMMA MqClosesKeeps ==
  ASSUME Inv, UNCHANGED <<mcVars, top>>, NEW c \in Conns, MqCloses(c), mq.open,
         toMq' \in [Conns -> Seq(ToMq)], ~Reporting',
         ~sess.need => ChainOf(Unstored)
  PROVE  Inv'
<1>1. /\ sess' = sess /\ conns' = conns /\ got' = got /\ replies' = replies /\ stored' = stored
      /\ ever' = ever /\ stale' = stale /\ top' = top
  BY DEF mcVars
<1>2. /\ toMc' = [toMc EXCEPT ![c] = Append(toMc[c], Refusal)]
      /\ mq' = [mq EXCEPT !.open = FALSE] /\ mqConn' = NoHandlers
  BY DEF MqCloses
<1>3. TypeOK /\ StoredInOrder /\ ~sess.closed /\ PositionStored
  BY OpenMq DEF Inv
<1>4. toMc \in [Conns -> Seq(ToMc)] /\ mq \in MqSession
  BY <1>3 DEF TypeOK
<1>5. /\ toMc' \in [Conns -> Seq(ToMc)]
      /\ \A d \in Conns : \A i \in DOMAIN toMc'[d] :
           (i \in DOMAIN toMc[d] /\ toMc'[d][i] = toMc[d][i]) \/ (toMc'[d][i] = Refusal /\ d = c)
  <2>1. Refusal \in ToMc
    BY DEF ToMc
  <2> QED
    BY <1>2, <1>4, <2>1, AppendWire
<1>6. On(toMc') \in SUBSET On(toMc) /\ Unstored' = On(toMc')
  <2>1. Refusal \notin DataMsg
    BY Kinds
  <2>2. On(toMc') \in SUBSET On(toMc)
    BY <1>5, <2>1 DEF On, OnWire
  <2> QED
    BY <1>1, <2>2 DEF On, Unstored
<1>7. mq' \in MqSession /\ ~mq'.open /\ mq'.logged = mq.logged
  <2>1. \A q \in MqSession : /\ [q EXCEPT !.open = FALSE] \in MqSession
                             /\ [q EXCEPT !.open = FALSE].open = FALSE
                             /\ [q EXCEPT !.open = FALSE].logged = q.logged
    BY DEF MqSession
  <2> QED
    BY <1>2, <1>4, <2>1
<1>8. mqConn' \in [Conns -> Handler]
  BY <1>2, NewHandler DEF NoHandlers
<1>9. TypeOK'
  BY <1>1, <1>3, <1>5, <1>7, <1>8 DEF TypeOK, IsSession
<1>10. StoredInOrder'
  BY <1>3, McQuiet
<1>11. ClosedEmpty' /\ ReportFirst' /\ PositionStored' /\ GoesOn' /\ AcksTrue'
  BY <1>1, <1>3, <1>7
     DEF ClosedEmpty, ReportFirst, Reporting, PositionStored, GoesOn, AcksTrue
<1>12. Chained'
  <2>1. ~sess.need => ChainOf(Unstored')
    BY <1>6, Less, Unstoreds
  <2> QED
    BY <1>1, <1>3, <2>1 DEF Chained, Receiving, ChainOf, Follows
<1> QED
  BY <1>9, <1>10, <1>11, <1>12 DEF Inv

LEMMA MqReplyKeeps ==
  ASSUME Inv, NEW c \in Conns, MqReply(c)
  PROVE  Inv'
<1>1. MqGets(c, "reply") /\ mqConn[c].in
  BY DEF MqReply
<1>2. Taken(c, "reply")
  BY <1>1, MqTakes
<1>3. toMq[c][1] \in ReplyMsg /\ 1 \in DOMAIN toMq[c] /\ Head(toMq[c]) = toMq[c][1]
  BY <1>2, ByType DEF Taken
<1>4. ~Reporting
  BY <1>1 DEF Inv, ReportFirst, Reporting
<1>5. mq \in MqSession /\ (~stale => 1..mq.logged \subseteq ever) /\ mqConn[c] \in Handler
  BY DEF Inv, TypeOK, PositionStored
<1>6. /\ UNCHANGED <<mcVars, top>> /\ mq.open /\ toMq' \in [Conns -> Seq(ToMq)]
      /\ \A d \in Conns : \A i \in DOMAIN toMq'[d] : \E k \in DOMAIN toMq[d] : toMq'[d][i] = toMq[d][k]
  BY <1>2, TakenLeaves DEF Taken
<1>7. CASE Head(toMq[c]).seq = mqConn[c].sentSeq
  <2> DEFINE m == [mq EXCEPT !.logged = mqConn[c].lastSid]
  <2>1. SendNext(c, m, mqConn[c], toMc[c])
    BY <1>7 DEF MqReply
  <2>2. m \in MqSession /\ m.at = mq.at /\ m.seq = mq.seq /\ m.open = mq.open /\ m.logged = mqConn[c].lastSid
    <3>1. \A q \in MqSession : \A n \in Nat :
            LET r == [q EXCEPT !.logged = n]
            IN  r \in MqSession /\ r.at = q.at /\ r.seq = q.seq /\ r.open = q.open /\ r.logged = n
      BY DEF MqSession
    <3> QED
      BY <1>5, <3>1, HandlerFields
  <2>3. ~stale => 1..m.logged \subseteq ever
    <3>1. ~stale => Acked(mq, mqConn, c, toMq[c][1].seq)
      BY <1>3, <1>6 DEF Inv, AcksTrue
    <3> QED
      BY <1>3, <1>7, <2>2, <3>1 DEF Acked
  <2> HIDE DEF m
  <2> QED
    BY <1>4, <1>5, <1>6, <2>1, <2>2, <2>3, GoOnKeeps
<1>8. CASE Head(toMq[c]).seq # mqConn[c].sentSeq
  <2>1. MqCloses(c)
    BY <1>8 DEF MqReply
  <2>2. ~Reporting'
    BY <1>4, <1>6, NoNewReport
  <2>3. ~sess.need => ChainOf(Unstored)
    BY <1>4, <1>6, OpenMq DEF Inv, Chained, Receiving
  <2> QED
    BY <1>6, <2>1, <2>2, <2>3, MqClosesKeeps
<1> QED
  BY <1>7, <1>8

\* The report of the session is taken.
LEMMA ReportTaken ==
  ASSUME Inv, NEW c \in Conns, Taken(c, "report")
  PROVE  /\ c = 1 /\ Head(toMq[c]).sid = sess.logSid /\ got = {} /\ sess.next = 0 /\ On(toMc) = {}
         /\ ~Reporting'
         /\ \A d \in Conns : /\ mqConn[d].sentSeq = 0 /\ mqConn[d].lastSid = 0
                             /\ \A k \in DOMAIN toMc[d] : toMc[d][k] = Refusal
         /\ ~stale => replies = <<>> /\ \A d \in Conns : \A i \in DOMAIN toMq'[d] : toMq'[d][i] \notin ReplyMsg
<1>1. 1 \in DOMAIN toMq[c] /\ toMq[c][1] \in ReportMsg /\ Head(toMq[c]) = toMq[c][1]
  BY ByType DEF Taken
<1>2. /\ c = 1 /\ toMq[c][1].sid = sess.logSid /\ got = {} /\ sess.next = 0
      /\ \A d \in Conns : /\ mqConn[d].sentSeq = 0 /\ mqConn[d].lastSid = 0
                          /\ \A k \in DOMAIN toMc[d] : toMc[d][k] = Refusal
      /\ ~stale => replies = <<>> /\ \A d \in Conns : \A k \in DOMAIN toMq[d] : toMq[d][k] \notin ReplyMsg
  BY <1>1 DEF Inv, ReportFirst
<1>3. On(toMc) = {}
  BY <1>2, Kinds DEF On, OnWire
<1>4. ~Reporting'
  <2> SUFFICES ASSUME NEW d \in Conns, NEW i \in DOMAIN toMq'[d], toMq'[d][i] \in ReportMsg
               PROVE  FALSE
    BY DEF Reporting
  <2>1. CASE d = c
    <3>1. i + 1 \in DOMAIN toMq[d] /\ toMq[d][i + 1] \in ReportMsg
      BY <2>1 DEF Taken
    <3>2. i + 1 = 1
      BY <3>1 DEF Inv, ReportFirst
    <3>3. i \in 1..Len(toMq'[d])
      BY DEF Taken
    <3> QED
      BY <3>2, <3>3
  <2>2. CASE d # c
    <3>1. i \in DOMAIN toMq[d] /\ toMq[d][i] \in ReportMsg
      BY <2>2 DEF Taken
    <3>2. d = 1
      BY <3>1 DEF Inv, ReportFirst
    <3> QED
      BY <1>2, <2>2, <3>2
  <2> QED
    BY <2>1, <2>2
<1>5. ~stale => \A d \in Conns : \A i \in DOMAIN toMq'[d] : toMq'[d][i] \notin ReplyMsg
  BY <1>2, TakenLeaves
<1> QED
  BY <1>1, <1>2, <1>3, <1>4, <1>5

\* What was stored last is stored without a gap.
LEMMA LastStored ==
  ASSUME TypeOK, StoredInOrder
  PROVE  /\ sess.logSid = 0 <=> stored = <<>>
         /\ stored # <<>> => 1..sess.logSid \subseteq ever
         /\ sess.logSid \in Nat
<1>1. sess.logSid \in Nat /\ stored \in Seq(RunOfSids)
  BY DEF TypeOK, IsSession
<1>2. sess.logSid = 0 <=> stored = <<>>
  BY DEF StoredInOrder
<1>3. ASSUME stored # <<>>  PROVE 1..sess.logSid \subseteq ever
  <2>1. /\ Len(stored) \in Nat /\ DOMAIN stored = 1..Len(stored) /\ Len(stored) # 0
        /\ stored[Len(stored)].first \in Nat /\ stored[Len(stored)].last \in Nat
        /\ Len(stored) \in DOMAIN stored
    <3>1. Len(stored) \in Nat /\ Len(stored) # 0
      BY <1>1, <1>3
    <3>2. Len(stored) \in DOMAIN stored
      BY <1>1, <3>1, RunFields
    <3> QED
      BY <1>1, <3>1, <3>2, RunFields
  <2>2. Last(stored) = stored[Len(stored)]
    BY DEF Last
  <2>3. stored[Len(stored)].first <= stored[Len(stored)].last /\ SidsOf(stored) \subseteq ever
    BY <2>1 DEF StoredInOrder
  <2>4. stored[Len(stored)].last \in SidsOf(stored)
    BY <2>1, <2>3, SidsOfIs
  <2>5. sess.logSid = stored[Len(stored)].last
    BY <1>3, <2>2 DEF StoredInOrder
  <2> QED
    BY <2>3, <2>4, <2>5 DEF StoredInOrder, AllInOrder
<1> QED
  BY <1>1, <1>2, <1>3

LEMMA MqReportKeeps ==
  ASSUME Inv, NEW c \in Conns, MqReport(c)
  PROVE  Inv'
<1> DEFINE sid == Head(toMq[c]).sid
           start == IF sid = 0 THEN mq.logged ELSE sid
           m == [mq EXCEPT !.at = start, !.seq = 0]
           h == [NoHandler EXCEPT !.in = TRUE]
           before == Append(toMc[c], Accept)
           H == [mqConn EXCEPT ![c] = h]
           W == [toMc EXCEPT ![c] = before]
<1>1. MqGets(c, "report") /\ SendNext(c, m, h, before)
  BY DEF MqReport
<1>2. Taken(c, "report")
  BY <1>1, MqTakes
<1>3. /\ c = 1 /\ sid = sess.logSid /\ got = {} /\ sess.next = 0 /\ On(toMc) = {}
      /\ ~Reporting'
      /\ \A d \in Conns : mqConn[d].sentSeq = 0 /\ mqConn[d].lastSid = 0
      /\ ~stale => replies = <<>> /\ \A d \in Conns : \A i \in DOMAIN toMq'[d] : toMq'[d][i] \notin ReplyMsg
  BY <1>2, ReportTaken
<1>4. TypeOK /\ StoredInOrder /\ PositionStored
  BY DEF Inv
<1>5. /\ mq \in MqSession /\ mqConn \in [Conns -> Handler] /\ toMc \in [Conns -> Seq(ToMc)]
      /\ mq.logged \in Nat /\ mq.open
  BY <1>2, <1>4, SessionFields DEF TypeOK, Taken
<1>6. start \in Nat /\ (~stale => 1..mq.logged \subseteq ever) /\ Follows(start)
  <2>1. /\ sess.logSid = 0 <=> stored = <<>>
        /\ stored # <<>> => 1..sess.logSid \subseteq ever
        /\ sess.logSid \in Nat
    BY <1>4, LastStored
  <2>2. stale => stored # <<>>
    BY <1>4 DEF StoredInOrder
  <2>3. ~stale => 1..mq.logged \subseteq ever
    BY <1>4 DEF PositionStored
  <2> QED
    BY <1>3, <1>5, <2>1, <2>2, <2>3 DEF Follows
<1> HIDE DEF start, sid
<1>7. m \in MqSession /\ m.at = start /\ m.seq = 0 /\ m.open = mq.open /\ m.logged = mq.logged
  <2>1. \A q \in MqSession : \A a \in Nat :
          LET r == [q EXCEPT !.at = a, !.seq = 0]
          IN  r \in MqSession /\ r.at = a /\ r.seq = 0 /\ r.open = q.open /\ r.logged = q.logged
    BY DEF MqSession
  <2> QED
    BY <1>5, <1>6, <2>1
<1>8. h \in Handler /\ h.lastSid = 0
  BY NewHandler
<1>9. before \in Seq(ToMc) /\ W \in [Conns -> Seq(ToMc)] /\ On(W) = {}
  <2>1. Accept \in ToMc /\ Accept \notin DataMsg
    BY Kinds DEF ToMc
  <2>2. before \in Seq(ToMc)
    BY <1>5, <2>1
  <2>3. /\ W \in [Conns -> Seq(ToMc)]
        /\ \A d \in Conns : \A i \in DOMAIN W[d] :
             (i \in DOMAIN toMc[d] /\ W[d][i] = toMc[d][i]) \/ (W[d][i] = Accept /\ d = c)
    BY <1>5, <2>1, AppendWire
  <2>4. On(W) \in SUBSET On(toMc)
    BY <2>1, <2>3 DEF On, OnWire
  <2> QED
    BY <1>3, <2>2, <2>3, <2>4
<1>10. \A d \in Conns : H[d].lastSid = 0
  BY <1>3, <1>5, <1>8
<1> HIDE DEF m, h, before, H, W
<1>11. ChainOf(On(W)) /\ SourceOf(On(W), m, H)
  BY <1>3, <1>6, <1>7, <1>9, <1>10 DEF ChainOf, SourceOf
<1>12. /\ UNCHANGED <<mcVars, top>> /\ mq.open /\ toMq' \in [Conns -> Seq(ToMq)]
  BY <1>2 DEF Taken
<1>13. ~stale =>
           /\ \A d \in Conns : \A i \in DOMAIN toMq'[d] :
                toMq'[d][i] \in ReplyMsg => Acked(m, H, d, toMq'[d][i].seq)
           /\ \A i \in DOMAIN replies : Acked(m, H, replies[i].conn, replies[i].seq)
           /\ 1..m.logged \subseteq ever
  <2>1. \A q : q = <<>> => DOMAIN q = {}
    OBVIOUS
  <2>2. ~stale => \A i \in DOMAIN replies : Acked(m, H, replies[i].conn, replies[i].seq)
    BY <1>3, <2>1
  <2> QED
    BY <1>3, <1>6, <1>7, <2>2
<1>14. SendFrom(c, m, h, before)
  BY <1>3, <1>7, <1>11, <1>12, <1>13 DEF SendFrom, H, W
<1> QED
  BY <1>1, <1>7, <1>8, <1>9, <1>12, <1>14, SendKeeps

LEMMA MqRefusesKeeps ==
  ASSUME Inv, NEW c \in Conns, MqRefuses(c)
  PROVE  Inv'
<1>1. MqGets(c, "report") /\ MqCloses(c)
  BY DEF MqRefuses
<1>2. Taken(c, "report")
  BY <1>1, MqTakes
<1>3. ~Reporting' /\ On(toMc) = {}
  BY <1>2, ReportTaken
<1>4. ChainOf(Unstored)
  BY <1>3, Unstoreds DEF ChainOf
<1> QED
  BY <1>1, <1>2, <1>3, <1>4, MqClosesKeeps DEF Taken

LEMMA MqReplyFailsKeeps ==
  ASSUME Inv, NEW c \in Conns, MqReplyFails(c)
  PROVE  Inv'
<1>1. /\ MqGets(c, "reply") /\ toMc' = [toMc EXCEPT ![c] = Append(toMc[c], Refusal)]
      /\ mqConn' = [mqConn EXCEPT ![c].shut = TRUE] /\ mq' = mq
  BY DEF MqReplyFails
<1>2. Taken(c, "reply")
  BY <1>1, MqTakes
<1>3. /\ sess' = sess /\ conns' = conns /\ got' = got /\ replies' = replies /\ stored' = stored
      /\ ever' = ever /\ stale' = stale /\ top' = top /\ mq.open /\ ~sess.closed
      /\ toMq' \in [Conns -> Seq(ToMq)]
  BY <1>2 DEF mcVars, Taken
<1>4. TypeOK /\ StoredInOrder /\ PositionStored
  BY DEF Inv
<1>5. toMc \in [Conns -> Seq(ToMc)] /\ mqConn \in [Conns -> Handler]
  BY <1>4 DEF TypeOK
<1>6. /\ toMc' \in [Conns -> Seq(ToMc)]
      /\ \A d \in Conns : \A i \in DOMAIN toMc'[d] :
           (i \in DOMAIN toMc[d] /\ toMc'[d][i] = toMc[d][i]) \/ (toMc'[d][i] = Refusal /\ d = c)
  <2>1. Refusal \in ToMc
    BY DEF ToMc
  <2> QED
    BY <1>1, <1>5, <2>1, AppendWire
<1>7. Unstored' \in SUBSET Unstored
  <2>1. Refusal \notin DataMsg
    BY Kinds
  <2> QED
    BY <1>3, <1>6, <2>1 DEF Unstored, OnWire
<1>8. /\ mqConn' \in [Conns -> Handler]
      /\ \A d \in Conns : /\ mqConn'[d].sentSeq = mqConn[d].sentSeq /\ mqConn'[d].lastSid = mqConn[d].lastSid
                          /\ mqConn'[d].in = mqConn[d].in /\ mqConn'[d].redo = mqConn[d].redo
  <2> DEFINE g == [mqConn[c] EXCEPT !.shut = TRUE]
  <2>1. \A k \in Handler : LET e == [k EXCEPT !.shut = TRUE]
                           IN  /\ e \in Handler /\ e.sentSeq = k.sentSeq /\ e.lastSid = k.lastSid
                               /\ e.in = k.in /\ e.redo = k.redo
    BY DEF Handler
  <2>2. mqConn' = [mqConn EXCEPT ![c] = g] /\ mqConn[c] \in Handler
    BY <1>1, <1>5
  <2>3. /\ g \in Handler /\ g.sentSeq = mqConn[c].sentSeq /\ g.lastSid = mqConn[c].lastSid
        /\ g.in = mqConn[c].in /\ g.redo = mqConn[c].redo
    BY <2>1, <2>2
  <2> HIDE DEF g
  <2> QED
    BY <1>5, <2>2, <2>3
<1>9. TypeOK'
  BY <1>1, <1>3, <1>4, <1>6, <1>8 DEF TypeOK, IsSession
<1>10. StoredInOrder'
  BY <1>2, <1>4, McQuiet DEF Taken
<1>11. \A d \in Conns : \A i \in DOMAIN toMq'[d] : \E k \in DOMAIN toMq[d] : toMq'[d][i] = toMq[d][k]
  BY <1>2, TakenLeaves
<1>12. Reporting' => Reporting
  BY <1>11 DEF Reporting
<1>13. ReportFirst'
  <2> SUFFICES ASSUME NEW d \in Conns, NEW i \in DOMAIN toMq'[d], toMq'[d][i] \in ReportMsg
               PROVE  /\ d = 1 /\ i = 1 /\ toMq'[d][i].sid = sess'.logSid
                      /\ got' = {} /\ sess'.next = 0
                      /\ \A e \in Conns : \A k \in DOMAIN toMc'[e] : toMc'[e][k] = Refusal
                      /\ \A e \in Conns : \A k \in DOMAIN toMq'[e] : toMq'[e][k] # NewConn
                      /\ \A e \in Conns : mqConn'[e].sentSeq = 0 /\ mqConn'[e].lastSid = 0
                                         /\ ~mqConn'[e].in /\ ~mqConn'[e].redo
                      /\ ~stale' => /\ replies' = <<>>
                                    /\ \A e \in Conns : \A k \in DOMAIN toMq'[e] : toMq'[e][k] \notin ReplyMsg
    BY DEF ReportFirst
  <2>1. PICK j \in DOMAIN toMq[d] : toMq'[d][i] = toMq[d][j]
    BY <1>11
  <2>2. /\ d = 1 /\ j = 1 /\ toMq[d][j].sid = sess.logSid /\ got = {} /\ sess.next = 0
        /\ \A e \in Conns : \A k \in DOMAIN toMc[e] : toMc[e][k] = Refusal
        /\ \A e \in Conns : \A k \in DOMAIN toMq[e] : toMq[e][k] # NewConn
        /\ \A e \in Conns : mqConn[e].sentSeq = 0 /\ mqConn[e].lastSid = 0
                           /\ ~mqConn[e].in /\ ~mqConn[e].redo
        /\ ~stale => replies = <<>> /\ \A e \in Conns : \A k \in DOMAIN toMq[e] : toMq[e][k] \notin ReplyMsg
    BY <2>1 DEF Inv, ReportFirst
  <2>3. d # c
    <3>1. toMq[c][1] \in ReplyMsg
      BY <1>2, ByType DEF Taken
    <3> QED
      BY <2>1, <2>2, <3>1, Kinds
  <2>4. i \in DOMAIN toMq[d] /\ toMq'[d][i] = toMq[d][i]
    BY <1>2, <2>3 DEF Taken
  <2>5. i = 1
    BY <2>4 DEF Inv, ReportFirst
  <2>6. \A e \in Conns : \A k \in DOMAIN toMc'[e] : toMc'[e][k] = Refusal
    BY <1>6, <2>2
  <2>7. ASSUME NEW e \in Conns, NEW k \in DOMAIN toMq'[e]
        PROVE  toMq'[e][k] # NewConn /\ (~stale => toMq'[e][k] \notin ReplyMsg)
    <3>1. PICK l \in DOMAIN toMq[e] : toMq'[e][k] = toMq[e][l]
      BY <1>11
    <3>2. toMq[e][l] # NewConn /\ (~stale => toMq[e][l] \notin ReplyMsg)
      BY <2>2
    <3> QED
      BY <3>1, <3>2
  <2>8. toMq'[d][i].sid = sess'.logSid
    BY <1>3, <2>1, <2>2
  <2>9. \A e \in Conns : mqConn'[e].sentSeq = 0 /\ mqConn'[e].lastSid = 0
                         /\ ~mqConn'[e].in /\ ~mqConn'[e].redo
    BY <1>8, <2>2
  <2>10. got' = {} /\ sess'.next = 0 /\ d = 1 /\ i = 1
    BY <1>3, <2>2, <2>5
  <2>11. ~stale' => replies' = <<>>
    BY <1>3, <2>2
  <2> QED
    BY <1>3, <2>6, <2>7, <2>8, <2>9, <2>10, <2>11
<1>14. ClosedEmpty' /\ PositionStored'
  BY <1>1, <1>3, <1>4 DEF ClosedEmpty, PositionStored
<1>15. AcksTrue'
  <2>1. \A d \in Conns : \A n : Acked(mq, mqConn, d, n) => Acked(mq, mqConn', d, n)
    BY <1>8 DEF Acked
  <2>2. \A i \in DOMAIN replies : replies[i].conn \in Conns
    BY <1>4, WaitingFields DEF TypeOK
  <2>3. ~stale =>
           /\ \A d \in Conns : \A i \in DOMAIN toMq[d] :
                toMq[d][i] \in ReplyMsg => Acked(mq, mqConn', d, toMq[d][i].seq)
           /\ \A i \in DOMAIN replies : Acked(mq, mqConn', replies[i].conn, replies[i].seq)
    BY <1>3, <2>1, <2>2 DEF Inv, AcksTrue
  <2>4. ~stale => \A d \in Conns : \A i \in DOMAIN toMq'[d] :
                    toMq'[d][i] \in ReplyMsg => Acked(mq, mqConn', d, toMq'[d][i].seq)
    BY <1>11, <2>3
  <2> QED
    BY <1>1, <1>3, <2>3, <2>4 DEF AcksTrue, Acked
<1>16. Chained' /\ GoesOn'
  <2>1. CASE Receiving'
    <3>1. toMq[c][1] \in ReplyMsg
      BY <1>2, ByType DEF Taken
    <3>2. ~Reporting
      <4> SUFFICES ASSUME NEW d \in Conns, NEW i \in DOMAIN toMq[d], toMq[d][i] \in ReportMsg
                   PROVE  FALSE
        BY DEF Reporting
      <4>1. d = 1 /\ i = 1
        BY DEF Inv, ReportFirst
      <4>2. d # c
        BY <3>1, <4>1, Kinds
      <4>3. toMq'[d] = toMq[d]
        BY <1>1, <1>4, <4>2 DEF MqGets, TypeOK
      <4>4. Reporting'
        BY <4>3 DEF Reporting
      <4> QED
        BY <2>1, <4>4 DEF Receiving
    <3>3. Receiving
      BY <1>3, <2>1, <3>2 DEF Receiving
    <3>4. ChainOf(Unstored) /\ SourceOf(Unstored, mq, mqConn)
      BY <1>3, <3>3 DEF Inv, Chained, GoesOn
    <3>5. ChainOf(Unstored') /\ SourceOf(Unstored', mq, mqConn)
      BY <1>7, <3>4, Less
    <3>6. SourceOf(Unstored', mq', mqConn')
      BY <1>1, <1>8, <3>5 DEF SourceOf
    <3> QED
      BY <1>3, <3>5, <3>6 DEF Chained, GoesOn, ChainOf, SourceOf, Follows
  <2> QED
    BY <2>1 DEF Chained, GoesOn
<1> QED
  BY <1>9, <1>10, <1>13, <1>14, <1>15, <1>16 DEF Inv

LEMMA PublishKeeps ==
  ASSUME Inv, Publish
  PROVE  Inv'
<1>1. /\ top' = top + 1 /\ UNCHANGED mcVars /\ toMc' = toMc /\ toMq' = toMq /\ mq' = mq /\ mqConn' = mqConn
  BY DEF Publish, mqVars
<1>2. /\ sess' = sess /\ conns' = conns /\ got' = got /\ replies' = replies /\ stored' = stored
      /\ ever' = ever /\ stale' = stale
  BY <1>1 DEF mcVars
<1>3. TypeOK'
  BY <1>1, <1>2 DEF Inv, TypeOK, IsSession
<1>4. StoredInOrder'
  BY <1>1, McQuiet DEF Inv
<1>5. Unstored' = Unstored /\ Reporting' = Reporting
  BY <1>1, <1>2 DEF Unstored, OnWire, Reporting
<1>6. ClosedEmpty' /\ ReportFirst' /\ AcksTrue' /\ PositionStored'
  BY <1>1, <1>2 DEF Inv, ClosedEmpty, ReportFirst, AcksTrue, Acked, PositionStored
<1>7. Chained' /\ GoesOn'
  BY <1>1, <1>2, <1>5 DEF Inv, Chained, GoesOn, Receiving, ChainOf, SourceOf, Follows
<1> QED
  BY <1>3, <1>4, <1>6, <1>7 DEF Inv

(***************************************************************************)
(* Steps of the mc that end a session.                                     *)
(***************************************************************************)
LEMMA NothingLeft ==
  toMq' = NoWires => ~Reporting' /\ ReportFirst'
BY EmptyWires DEF Reporting, ReportFirst

LEMMA EndedInv ==
  TypeOK' /\ StoredInOrder' /\ ClosedEmpty' /\ PositionStored' /\ toMq' = NoWires /\ ~mq'.open
    /\ (sess'.need \/ sess'.closed)
  => Inv'
BY NothingLeft DEF Inv, Chained, GoesOn, Receiving, AcksTrue

LEMMA ClosedMq ==
  ASSUME mq \in MqSession, mq' = [mq EXCEPT !.open = FALSE], mqConn' = NoHandlers
  PROVE  /\ mq' \in MqSession /\ ~mq'.open /\ mq'.logged = mq.logged
         /\ mqConn' \in [Conns -> Handler]
<1>1. \A q \in MqSession : LET r == [q EXCEPT !.open = FALSE]
                           IN  r \in MqSession /\ r.open = FALSE /\ r.logged = q.logged
  BY DEF MqSession
<1>2. NoHandlers \in [Conns -> Handler]
  BY NewHandler DEF NoHandlers
<1> QED
  BY <1>1, <1>2

\* One field of a session changes.
LEMMA SessionNeeds ==
  ASSUME IsSession(sess), sess' = [sess EXCEPT !.need = TRUE]
  PROVE  /\ IsSession(sess)' /\ sess'.need /\ sess'.closed = sess.closed
         /\ sess'.next = sess.next /\ sess'.logSid = sess.logSid
<1>1. sess = [closed |-> sess.closed, need |-> sess.need, known |-> sess.known, next |-> sess.next,
              logSid |-> sess.logSid, age |-> sess.age, bytes |-> sess.bytes, limit |-> sess.limit]
  BY DEF IsSession
<1>2. sess' = [closed |-> sess.closed, need |-> TRUE, known |-> sess.known, next |-> sess.next,
               logSid |-> sess.logSid, age |-> sess.age, bytes |-> sess.bytes, limit |-> sess.limit]
  BY <1>1
<1>3. /\ sess'.closed = sess.closed /\ sess'.need = TRUE /\ sess'.known = sess.known
      /\ sess'.next = sess.next /\ sess'.logSid = sess.logSid /\ sess'.age = sess.age
      /\ sess'.bytes = sess.bytes /\ sess'.limit = sess.limit
  BY <1>2
<1> QED
  BY <1>2, <1>3 DEF IsSession

LEMMA SameStored ==
  /\ stored' = stored /\ ever' = ever /\ sess'.logSid = sess.logSid
  /\ replies' = <<>> \/ replies # <<>> \/ stored # <<>>
  /\ stale' => stale \/ stored # <<>>
  => (StoredInOrder => StoredInOrder')
<1> SUFFICES ASSUME stored' = stored, ever' = ever, sess'.logSid = sess.logSid,
                    replies' = <<>> \/ replies # <<>> \/ stored # <<>>,
                    stale' => stale \/ stored # <<>>, StoredInOrder
             PROVE  StoredInOrder'
  OBVIOUS
<1>1. replies' # <<>> \/ stale' => stored # <<>>
  BY DEF StoredInOrder
<1> QED
  BY <1>1 DEF StoredInOrder, AllInOrder, SidsOf

LEMMA LostKeeps ==
  ASSUME Inv, NEW c \in conns, Lost(c), UNCHANGED <<got, replies, stored, ever, stale, top>>
  PROVE  Inv'
<1>1. /\ sess' = [sess EXCEPT !.need = TRUE] /\ conns' = conns \ {c}
      /\ toMc' = [toMc EXCEPT ![c] = <<>>] /\ toMq' = NoWires
      /\ mq' = [mq EXCEPT !.open = FALSE] /\ mqConn' = NoHandlers
      /\ got' = got /\ replies' = replies /\ stored' = stored /\ ever' = ever /\ stale' = stale /\ top' = top
  BY DEF Lost
<1>2. TypeOK /\ StoredInOrder /\ PositionStored /\ c \in Conns
  BY DEF Inv, TypeOK
<1>3. mq' \in MqSession /\ ~mq'.open /\ mq'.logged = mq.logged /\ mqConn' \in [Conns -> Handler]
  BY <1>1, <1>2, ClosedMq DEF TypeOK
<1>4. /\ IsSession(sess)' /\ sess'.need /\ sess'.closed = sess.closed
      /\ sess'.next = sess.next /\ sess'.logSid = sess.logSid
  BY <1>1, <1>2, SessionNeeds DEF TypeOK
<1>5. toMc' \in [Conns -> Seq(ToMc)] /\ toMq' \in [Conns -> Seq(ToMq)]
  BY <1>1, <1>2, CutWire, EmptyWires DEF TypeOK
<1>6. TypeOK'
  BY <1>1, <1>2, <1>3, <1>4, <1>5 DEF TypeOK
<1>7. StoredInOrder'
  BY <1>1, <1>2, <1>4, SameStored DEF StoredInOrder
<1>8. ClosedEmpty' /\ PositionStored'
  <2>1. ~sess.closed
    BY DEF Inv, ClosedEmpty
  <2> QED
    BY <1>1, <1>2, <1>3, <1>4, <2>1 DEF ClosedEmpty, PositionStored
<1> QED
  BY <1>1, <1>3, <1>4, <1>6, <1>7, <1>8, EndedInv

LEMMA ConnLostKeeps ==
  ASSUME Inv, NEW c \in Conns, ConnLost(c)
  PROVE  Inv'
BY LostKeeps DEF ConnLost

LEMMA ReceiveFailsKeeps ==
  ASSUME Inv, NEW c \in Conns, ReceiveFails(c)
  PROVE  Inv'
<1>1. Lost(c) /\ UNCHANGED <<got, replies, stored, ever, stale, top>>
  BY DEF ReceiveFails
<1>2. c \in conns
  BY DEF ReceiveFails, McGets
<1> QED
  BY <1>1, <1>2, LostKeeps

LEMMA ClearedIs ==
  ASSUME IsSession(sess)
  PROVE  /\ Cleared = [closed |-> TRUE, need |-> FALSE, known |-> FALSE, next |-> 0,
                       logSid |-> sess.logSid, age |-> sess.age, bytes |-> sess.bytes, limit |-> sess.limit]
         /\ [Cleared EXCEPT !.age = 0] =
              [closed |-> TRUE, need |-> FALSE, known |-> FALSE, next |-> 0,
               logSid |-> sess.logSid, age |-> 0, bytes |-> sess.bytes, limit |-> sess.limit]
<1>1. sess = [closed |-> sess.closed, need |-> sess.need, known |-> sess.known, next |-> sess.next,
                 logSid |-> sess.logSid, age |-> sess.age, bytes |-> sess.bytes, limit |-> sess.limit]
  BY DEF IsSession
<1>2. PICK a : a = [sess EXCEPT !.closed = TRUE]
  OBVIOUS
<1>3. a = [closed |-> TRUE, need |-> sess.need, known |-> sess.known, next |-> sess.next,
           logSid |-> sess.logSid, age |-> sess.age, bytes |-> sess.bytes, limit |-> sess.limit]
  BY <1>1, <1>2
<1>4. PICK b : b = [a EXCEPT !.need = FALSE]
  OBVIOUS
<1>5. b = [closed |-> TRUE, need |-> FALSE, known |-> sess.known, next |-> sess.next,
           logSid |-> sess.logSid, age |-> sess.age, bytes |-> sess.bytes, limit |-> sess.limit]
  BY <1>3, <1>4
<1>6. PICK c : c = [b EXCEPT !.known = FALSE]
  OBVIOUS
<1>7. c = [closed |-> TRUE, need |-> FALSE, known |-> FALSE, next |-> sess.next,
           logSid |-> sess.logSid, age |-> sess.age, bytes |-> sess.bytes, limit |-> sess.limit]
  BY <1>5, <1>6
<1>8. PICK d : d = [c EXCEPT !.next = 0]
  OBVIOUS
<1>9. d = [closed |-> TRUE, need |-> FALSE, known |-> FALSE, next |-> 0,
           logSid |-> sess.logSid, age |-> sess.age, bytes |-> sess.bytes, limit |-> sess.limit]
  BY <1>7, <1>8
<1>10. Cleared = d
  BY <1>2, <1>4, <1>6, <1>8 DEF Cleared
<1>11. PICK e : e = [d EXCEPT !.age = 0]
  OBVIOUS
<1>12. e = [closed |-> TRUE, need |-> FALSE, known |-> FALSE, next |-> 0,
           logSid |-> sess.logSid, age |-> 0, bytes |-> sess.bytes, limit |-> sess.limit]
  BY <1>9, <1>11
<1> QED
  BY <1>9, <1>10, <1>11, <1>12

LEMMA CloseSessionKeeps ==
  ASSUME Inv, CloseSession
  PROVE  Inv'
<1>1. /\ sess' = Cleared /\ conns' = {} /\ got' = {} /\ toMc' = NoWires /\ toMq' = NoWires
      /\ mq' = [mq EXCEPT !.open = FALSE] /\ mqConn' = NoHandlers
      /\ replies' = replies /\ stored' = stored /\ ever' = ever /\ stale' = stale /\ top' = top
  BY DEF CloseSession
<1>2. TypeOK /\ StoredInOrder /\ PositionStored
  BY DEF Inv
<1>3. mq' \in MqSession /\ ~mq'.open /\ mq'.logged = mq.logged /\ mqConn' \in [Conns -> Handler]
  BY <1>1, <1>2, ClosedMq DEF TypeOK
<1>4. sess' = [closed |-> TRUE, need |-> FALSE, known |-> FALSE, next |-> 0,
               logSid |-> sess.logSid, age |-> sess.age, bytes |-> sess.bytes, limit |-> sess.limit]
  BY <1>1, <1>2, ClearedIs DEF TypeOK
<1>5. sess'.closed /\ sess'.next = 0 /\ sess'.logSid = sess.logSid /\ IsSession(sess)'
  BY <1>2, <1>4 DEF IsSession, TypeOK
<1>6. toMc' \in [Conns -> Seq(ToMc)] /\ toMq' \in [Conns -> Seq(ToMq)]
  BY <1>1, EmptyWires
<1>7. TypeOK'
  <2>1. IsFiniteSet({})
    BY FS_EmptySet
  <2> QED
    BY <1>1, <1>2, <1>3, <1>5, <1>6, <2>1 DEF TypeOK
<1>8. StoredInOrder'
  BY <1>1, <1>2, <1>5, SameStored
<1>9. ClosedEmpty' /\ PositionStored'
  BY <1>1, <1>2, <1>3, <1>5 DEF ClosedEmpty, PositionStored
<1> QED
  BY <1>1, <1>3, <1>5, <1>7, <1>8, <1>9, EndedInv

LEMMA NewSessionIs ==
  ASSUME NEW l
  PROVE  LET s == NewSession(l)
         IN  IsSession(s) /\ s.closed /\ ~s.need /\ s.next = 0 /\ s.logSid = 0
BY DEF NewSession, IsSession

LEMMA NothingStored ==
  ASSUME NEW r, r = <<>>
  PROVE  /\ r \in Seq(RunOfSids) /\ Len(r) = 0 /\ DOMAIN r = {} /\ SidsOf(r) = {}
         /\ r \in Seq(Waiting)
<1>1. r \in Seq(RunOfSids) /\ Len(r) = 0 /\ DOMAIN r = {} /\ r \in Seq(Waiting)
  <2> HIDE DEF RunOfSids, Waiting
  <2> QED
    OBVIOUS
<1> QED
  BY <1>1 DEF SidsOf

LEMMA RestartKeeps ==
  ASSUME ~DieAfterStale, Inv, Restart
  PROVE  Inv'
<1>1. /\ ~stale /\ ~stale' /\ sess' = NewSession(sess.limit)
      /\ conns' = {} /\ got' = {} /\ replies' = <<>> /\ stored' = <<>>
      /\ toMc' = NoWires /\ toMq' = NoWires
      /\ mq' = [mq EXCEPT !.open = FALSE] /\ mqConn' = NoHandlers
      /\ ever' = ever /\ top' = top /\ stale' = FALSE
  BY DEF Restart
<1>2. TypeOK /\ StoredInOrder /\ PositionStored
  BY DEF Inv
<1>3. mq' \in MqSession /\ ~mq'.open /\ mq'.logged = mq.logged /\ mqConn' \in [Conns -> Handler]
  BY <1>1, <1>2, ClosedMq DEF TypeOK
<1>4. IsSession(sess)' /\ sess'.closed /\ ~sess'.need /\ sess'.next = 0 /\ sess'.logSid = 0
  BY <1>1 DEF NewSession, IsSession
<1>5. toMc' \in [Conns -> Seq(ToMc)] /\ toMq' \in [Conns -> Seq(ToMq)]
  BY <1>1, EmptyWires
<1>6. TypeOK'
  <2>1. IsFiniteSet({})
    BY FS_EmptySet
  <2>2. stored' \in Seq(RunOfSids) /\ replies' \in Seq(Waiting)
    BY <1>1, NothingStored
  <2> QED
    BY <1>1, <1>2, <1>3, <1>4, <1>5, <2>1, <2>2 DEF TypeOK
<1>7. StoredInOrder'
  <2>1. Len(stored') = 0 /\ DOMAIN stored' = {} /\ SidsOf(stored') = {}
    BY <1>1, NothingStored
  <2>2. \A s \in ever : 1..s \subseteq ever
    BY <1>2 DEF StoredInOrder, AllInOrder
  <2> QED
    BY <1>1, <1>4, <2>1, <2>2 DEF StoredInOrder, AllInOrder
<1>8. ClosedEmpty' /\ PositionStored'
  BY <1>1, <1>2, <1>3, <1>4 DEF ClosedEmpty, PositionStored
<1> QED
  BY <1>1, <1>3, <1>4, <1>6, <1>7, <1>8, EndedInv

(***************************************************************************)
(* Small steps of the mc.                                                  *)
(***************************************************************************)
\* Nothing moves but fields of the session that do not matter, and the
\* acknowledgements that wait become fewer.
LEMMA StaysKeeps ==
  ASSUME Inv, UNCHANGED <<conns, got, stored, ever, stale, toMc, toMq, top, mqVars>>,
         IsSession(sess)', sess'.next = sess.next, sess'.logSid = sess.logSid,
         sess'.closed = sess.closed, sess.need => sess'.need,
         replies' \in Seq(Waiting), replies = <<>> => replies' = <<>>,
         \A i \in DOMAIN replies' : \E k \in DOMAIN replies :
           replies'[i].conn = replies[k].conn /\ replies'[i].seq = replies[k].seq
  PROVE  Inv'
<1>1. /\ conns' = conns /\ got' = got /\ stored' = stored /\ ever' = ever /\ stale' = stale
      /\ toMc' = toMc /\ toMq' = toMq /\ top' = top /\ mq' = mq /\ mqConn' = mqConn
  BY DEF mqVars
<1>2. TypeOK /\ StoredInOrder /\ ClosedEmpty /\ ReportFirst /\ AcksTrue /\ PositionStored
  BY DEF Inv
<1>3. TypeOK'
  BY <1>1, <1>2 DEF TypeOK
<1>4. StoredInOrder'
  BY <1>1, <1>2, SameStored
<1>5. Unstored' = Unstored /\ Reporting' = Reporting
  BY <1>1 DEF Unstored, OnWire, Reporting
<1>6. ClosedEmpty' /\ PositionStored'
  BY <1>1, <1>2 DEF ClosedEmpty, PositionStored
<1>7. ReportFirst'
  BY <1>1, <1>2 DEF ReportFirst
<1>8. AcksTrue'
  <2> SUFFICES ASSUME mq.open, ~stale
               PROVE  /\ \A c \in Conns : \A i \in DOMAIN toMq[c] :
                           toMq[c][i] \in ReplyMsg => Acked(mq, mqConn, c, toMq[c][i].seq)
                      /\ \A i \in DOMAIN replies' : Acked(mq, mqConn, replies'[i].conn, replies'[i].seq)
    BY <1>1 DEF AcksTrue, Acked
  <2>1. /\ \A c \in Conns : \A i \in DOMAIN toMq[c] :
             toMq[c][i] \in ReplyMsg => Acked(mq, mqConn, c, toMq[c][i].seq)
        /\ \A i \in DOMAIN replies : Acked(mq, mqConn, replies[i].conn, replies[i].seq)
    BY <1>2 DEF AcksTrue
  <2>2. ASSUME NEW i \in DOMAIN replies'
        PROVE  Acked(mq, mqConn, replies'[i].conn, replies'[i].seq)
    <3>1. PICK k \in DOMAIN replies : replies'[i].conn = replies[k].conn /\ replies'[i].seq = replies[k].seq
      OBVIOUS
    <3> QED
      BY <2>1, <3>1
  <2> QED
    BY <2>1, <2>2
<1>9. Receiving' => Receiving
  BY <1>5, <1>3, <1>2 DEF Receiving, TypeOK, IsSession
<1>10. Chained' /\ GoesOn'
  BY <1>1, <1>5, <1>9 DEF Inv, Chained, GoesOn, ChainOf, SourceOf, Follows
<1> QED
  BY <1>3, <1>4, <1>6, <1>7, <1>8, <1>10 DEF Inv

\* One acknowledgement less.
LEMMA TailWaiting ==
  ASSUME NEW r \in Seq(Waiting), r # <<>>
  PROVE  Tail(r) \in Seq(Waiting) /\ \A i \in DOMAIN Tail(r) : i + 1 \in DOMAIN r /\ Tail(r)[i] = r[i + 1]
<1> HIDE DEF Waiting
<1> QED
  OBVIOUS

LEMMA CheckSyncLimitFailsKeeps ==
  ASSUME Inv, CheckSyncLimitFails
  PROVE  Inv'
<1>1. /\ sess' = [sess EXCEPT !.need = TRUE] /\ replies' = Tail(replies) /\ replies # <<>>
      /\ UNCHANGED <<conns, got, stored, ever, stale, toMc, toMq, top, mqVars>>
  BY DEF CheckSyncLimitFails
<1>2. TypeOK
  BY DEF Inv
<1>3. /\ IsSession(sess)' /\ sess'.need /\ sess'.closed = sess.closed
      /\ sess'.next = sess.next /\ sess'.logSid = sess.logSid
  BY <1>1, <1>2, SessionNeeds DEF TypeOK
<1>4. /\ replies' \in Seq(Waiting)
      /\ \A i \in DOMAIN replies' : \E k \in DOMAIN replies : replies'[i] = replies[k]
  BY <1>1, <1>2, TailWaiting DEF TypeOK
<1> QED
  BY <1>1, <1>3, <1>4, StaysKeeps

\* The session with another limit.
LEMMA SessionChanges ==
  ASSUME IsSession(sess), NEW l, sess' = [sess EXCEPT !.limit = l, !.need = TRUE]
  PROVE  /\ IsSession(sess)' /\ sess'.need /\ sess'.closed = sess.closed
         /\ sess'.next = sess.next /\ sess'.logSid = sess.logSid
<1>1. sess = [closed |-> sess.closed, need |-> sess.need, known |-> sess.known, next |-> sess.next,
              logSid |-> sess.logSid, age |-> sess.age, bytes |-> sess.bytes, limit |-> sess.limit]
  BY DEF IsSession
<1>2. PICK a : a = [sess EXCEPT !.limit = l]
  OBVIOUS
<1>3. a = [closed |-> sess.closed, need |-> sess.need, known |-> sess.known, next |-> sess.next,
           logSid |-> sess.logSid, age |-> sess.age, bytes |-> sess.bytes, limit |-> l]
  BY <1>1, <1>2
<1>4. PICK b : b = [a EXCEPT !.need = TRUE]
  OBVIOUS
<1>5. b = [closed |-> sess.closed, need |-> TRUE, known |-> sess.known, next |-> sess.next,
           logSid |-> sess.logSid, age |-> sess.age, bytes |-> sess.bytes, limit |-> l]
  BY <1>3, <1>4
<1>6. sess' = b
  BY <1>2, <1>4
<1>7. /\ sess'.closed = sess.closed /\ sess'.need = TRUE /\ sess'.known = sess.known
      /\ sess'.next = sess.next /\ sess'.logSid = sess.logSid /\ sess'.age = sess.age
      /\ sess'.bytes = sess.bytes /\ sess'.limit = l
  BY <1>5, <1>6
<1>8. sess' = [closed |-> sess'.closed, need |-> sess'.need, known |-> sess'.known, next |-> sess'.next,
               logSid |-> sess'.logSid, age |-> sess'.age, bytes |-> sess'.bytes, limit |-> sess'.limit]
  BY <1>5, <1>6, <1>7
<1> QED
  BY <1>7, <1>8 DEF IsSession

LEMMA SyncChangeKeeps ==
  ASSUME Inv, SyncChange
  PROVE  Inv'
<1>1. PICK l \in Limits : sess' = [sess EXCEPT !.limit = l, !.need = TRUE]
  BY DEF SyncChange
<1>2. replies' = replies /\ UNCHANGED <<conns, got, stored, ever, stale, toMc, toMq, top, mqVars>>
  BY DEF SyncChange
<1>3. TypeOK
  BY DEF Inv
<1>4. /\ IsSession(sess)' /\ sess'.need /\ sess'.closed = sess.closed
      /\ sess'.next = sess.next /\ sess'.logSid = sess.logSid
  BY <1>1, <1>3, SessionChanges DEF TypeOK
<1>5. replies' \in Seq(Waiting)
  BY <1>2, <1>3 DEF TypeOK
<1> QED
  BY <1>2, <1>4, <1>5, StaysKeeps

\* The session a second later.
LEMMA SessionAges ==
  ASSUME IsSession(sess), NEW a, sess' = [sess EXCEPT !.age = a, !.bytes = 0]
  PROVE  /\ IsSession(sess)' /\ sess'.need = sess.need /\ sess'.closed = sess.closed
         /\ sess'.next = sess.next /\ sess'.logSid = sess.logSid
<1>1. sess = [closed |-> sess.closed, need |-> sess.need, known |-> sess.known, next |-> sess.next,
              logSid |-> sess.logSid, age |-> sess.age, bytes |-> sess.bytes, limit |-> sess.limit]
  BY DEF IsSession
<1>2. PICK b : b = [sess EXCEPT !.age = a]
  OBVIOUS
<1>3. b = [closed |-> sess.closed, need |-> sess.need, known |-> sess.known, next |-> sess.next,
           logSid |-> sess.logSid, age |-> a, bytes |-> sess.bytes, limit |-> sess.limit]
  BY <1>1, <1>2
<1>4. PICK d : d = [b EXCEPT !.bytes = 0]
  OBVIOUS
<1>5. d = [closed |-> sess.closed, need |-> sess.need, known |-> sess.known, next |-> sess.next,
           logSid |-> sess.logSid, age |-> a, bytes |-> 0, limit |-> sess.limit]
  BY <1>3, <1>4
<1>6. sess' = d
  BY <1>2, <1>4
<1>7. /\ sess'.closed = sess.closed /\ sess'.need = sess.need /\ sess'.known = sess.known
      /\ sess'.next = sess.next /\ sess'.logSid = sess.logSid /\ sess'.age = a
      /\ sess'.bytes = 0 /\ sess'.limit = sess.limit
  BY <1>5, <1>6
<1>8. sess' = [closed |-> sess'.closed, need |-> sess'.need, known |-> sess'.known, next |-> sess'.next,
               logSid |-> sess'.logSid, age |-> sess'.age, bytes |-> sess'.bytes, limit |-> sess'.limit]
  BY <1>5, <1>6, <1>7
<1> QED
  BY <1>7, <1>8 DEF IsSession

LEMMA TickKeeps ==
  ASSUME Inv, Tick
  PROVE  Inv'
<1>1. /\ replies' = [i \in DOMAIN replies |-> [replies[i] EXCEPT !.now = FALSE]]
      /\ UNCHANGED <<conns, got, stored, ever, stale, toMc, toMq, top, mqVars>>
  BY DEF Tick
<1>2. sess' = [sess EXCEPT !.age = Min({sess.age + 1, OldEnough + 1}), !.bytes = 0]
  BY DEF Tick
<1>3. TypeOK
  BY DEF Inv
<1>4. /\ IsSession(sess)' /\ sess'.need = sess.need /\ sess'.closed = sess.closed
      /\ sess'.next = sess.next /\ sess'.logSid = sess.logSid
  <2>1. \E a : sess' = [sess EXCEPT !.age = a, !.bytes = 0]
    BY <1>2
  <2> QED
    BY <1>3, <2>1, SessionAges DEF TypeOK
<1>5. \A x \in Waiting : LET y == [x EXCEPT !.now = FALSE]
                         IN  y \in Waiting /\ y.conn = x.conn /\ y.seq = x.seq
  BY DEF Waiting
<1>6. /\ replies' \in Seq(Waiting) /\ DOMAIN replies' = DOMAIN replies
      /\ \A i \in DOMAIN replies : replies'[i].conn = replies[i].conn /\ replies'[i].seq = replies[i].seq
  <2>1. Len(replies) \in Nat /\ DOMAIN replies = 1..Len(replies) /\ \A i \in DOMAIN replies : replies[i] \in Waiting
    <3> HIDE DEF Waiting
    <3> QED
      BY <1>3 DEF TypeOK
  <2>2. /\ DOMAIN replies' = 1..Len(replies)
        /\ \A i \in 1..Len(replies) : replies'[i] = [replies[i] EXCEPT !.now = FALSE]
    BY <1>1, <2>1
  <2>3. \A i \in 1..Len(replies) : /\ replies'[i] \in Waiting
                                   /\ replies'[i].conn = replies[i].conn /\ replies'[i].seq = replies[i].seq
    BY <1>5, <2>1, <2>2
  <2>4. replies' = [i \in 1..Len(replies) |-> replies'[i]]
    BY <1>1, <2>1
  <2>5. replies' \in Seq(Waiting)
    <3> HIDE DEF Waiting
    <3> QED
      BY <2>1, <2>3, <2>4
  <2> QED
    BY <2>1, <2>2, <2>3, <2>5
<1>7. replies = <<>> => replies' = <<>>
  BY <1>1
<1> QED
  BY <1>1, <1>4, <1>6, <1>7, StaysKeeps

LEMMA CreateSessionFailsKeeps ==
  ASSUME Inv, CreateSessionFails
  PROVE  Inv'
<1>1. /\ sess' = [Cleared EXCEPT !.age = 0] /\ sess.closed
      /\ conns' = conns /\ got' = got /\ replies' = replies /\ stored' = stored /\ ever' = ever
      /\ stale' = stale /\ toMc' = toMc /\ toMq' = toMq /\ top' = top /\ mq' = mq /\ mqConn' = mqConn
  BY DEF CreateSessionFails, NeedCreate, mqVars
<1>2. TypeOK /\ StoredInOrder /\ PositionStored /\ ClosedEmpty
  BY DEF Inv
<1>3. sess' = [closed |-> TRUE, need |-> FALSE, known |-> FALSE, next |-> 0,
               logSid |-> sess.logSid, age |-> 0, bytes |-> sess.bytes, limit |-> sess.limit]
  BY <1>1, <1>2, ClearedIs DEF TypeOK
<1>4. sess'.closed /\ sess'.next = 0 /\ sess'.logSid = sess.logSid /\ IsSession(sess)'
  BY <1>2, <1>3 DEF IsSession, TypeOK
<1>5. TypeOK'
  BY <1>1, <1>2, <1>4 DEF TypeOK
<1>6. StoredInOrder'
  BY <1>1, <1>2, <1>4, SameStored
<1>7. ClosedEmpty' /\ PositionStored' /\ toMq' = NoWires /\ ~mq'.open
  BY <1>1, <1>2, <1>4 DEF ClosedEmpty, PositionStored
<1> QED
  BY <1>4, <1>5, <1>6, <1>7, EndedInv
\* The session that is created.
LEMMA SessionOpens ==
  ASSUME IsSession(sess), sess' = [sess EXCEPT !.age = 0, !.closed = FALSE]
  PROVE  /\ IsSession(sess)' /\ sess'.need = sess.need /\ ~sess'.closed
         /\ sess'.next = sess.next /\ sess'.logSid = sess.logSid
<1>1. sess = [closed |-> sess.closed, need |-> sess.need, known |-> sess.known, next |-> sess.next,
              logSid |-> sess.logSid, age |-> sess.age, bytes |-> sess.bytes, limit |-> sess.limit]
  BY DEF IsSession
<1>2. PICK b : b = [sess EXCEPT !.age = 0]
  OBVIOUS
<1>3. b = [closed |-> sess.closed, need |-> sess.need, known |-> sess.known, next |-> sess.next,
           logSid |-> sess.logSid, age |-> 0, bytes |-> sess.bytes, limit |-> sess.limit]
  BY <1>1, <1>2
<1>4. PICK d : d = [b EXCEPT !.closed = FALSE]
  OBVIOUS
<1>5. d = [closed |-> FALSE, need |-> sess.need, known |-> sess.known, next |-> sess.next,
           logSid |-> sess.logSid, age |-> 0, bytes |-> sess.bytes, limit |-> sess.limit]
  BY <1>3, <1>4
<1>6. sess' = d
  BY <1>2, <1>4
<1>7. /\ sess'.closed = FALSE /\ sess'.need = sess.need /\ sess'.known = sess.known
      /\ sess'.next = sess.next /\ sess'.logSid = sess.logSid /\ sess'.age = 0
      /\ sess'.bytes = sess.bytes /\ sess'.limit = sess.limit
  BY <1>5, <1>6
<1>8. sess' = [closed |-> sess'.closed, need |-> sess'.need, known |-> sess'.known, next |-> sess'.next,
               logSid |-> sess'.logSid, age |-> sess'.age, bytes |-> sess'.bytes, limit |-> sess'.limit]
  BY <1>5, <1>6, <1>7
<1> QED
  BY <1>7, <1>8 DEF IsSession

\* The wires when the report is on its way.
LEMMA ReportWire ==
  ASSUME NEW s \in Nat, toMq' = [NoWires EXCEPT ![1] = <<Report(s)>>]
  PROVE  /\ toMq' \in [Conns -> Seq(ToMq)] /\ Report(s) \in ReportMsg /\ Report(s).sid = s
         /\ 1 \in DOMAIN toMq'[1] /\ toMq'[1][1] = Report(s)
         /\ \A c \in Conns : \A i \in DOMAIN toMq'[c] : c = 1 /\ i = 1 /\ toMq'[c][i] = Report(s)
<1>1. Report(s) \in ReportMsg /\ Report(s).sid = s
  BY DEF Report, ReportMsg
<1>2. Report(s) \in ToMq
  BY <1>1 DEF ToMq
<1>3. 1 \in Conns
  BY OneIsConn
<1>4. NoWires \in [Conns -> Seq(ToMq)] /\ \A c \in Conns : NoWires[c] = <<>>
  BY EmptyWires
<1> HIDE DEF NoWires, ToMq, Conns, Report
<1>5. toMq'[1] = <<Report(s)>> /\ \A c \in Conns \ {1} : toMq'[c] = <<>>
  BY <1>3, <1>4
<1>6. <<Report(s)>> \in Seq(ToMq)
  BY <1>2
<1>7. toMq' \in [Conns -> Seq(ToMq)]
  BY <1>3, <1>4, <1>6
<1>8. DOMAIN toMq'[1] = {1} /\ toMq'[1][1] = Report(s)
  BY <1>5
<1>9. \A q : q = <<>> => DOMAIN q = {}
  OBVIOUS
<1>10. \A c \in Conns : \A i \in DOMAIN toMq'[c] : c = 1 /\ i = 1 /\ toMq'[c][i] = Report(s)
  BY <1>5, <1>8, <1>9
<1> QED
  BY <1>1, <1>7, <1>8, <1>10

LEMMA CreateSessionKeeps ==
  ASSUME Inv, CreateSession
  PROVE  Inv'
<1>1. /\ sess.closed /\ ~sess.need /\ stale' = (stale \/ replies # <<>>)
      /\ sess' = [sess EXCEPT !.age = 0, !.closed = FALSE]
      /\ conns' = Conns /\ toMq' = [NoWires EXCEPT ![1] = <<Report(sess.logSid)>>]
      /\ mq' = [mq EXCEPT !.open = TRUE]
      /\ got' = got /\ replies' = replies /\ stored' = stored /\ ever' = ever
      /\ toMc' = toMc /\ top' = top /\ mqConn' = mqConn
  BY DEF CreateSession, NeedCreate
<1>2. TypeOK /\ StoredInOrder /\ PositionStored /\ ClosedEmpty
  BY DEF Inv
<1>3. /\ got = {} /\ toMc = NoWires /\ sess.next = 0 /\ mqConn = NoHandlers
  BY <1>1, <1>2 DEF ClosedEmpty
<1>4. /\ IsSession(sess)' /\ ~sess'.closed /\ sess'.next = 0 /\ sess'.logSid = sess.logSid
      /\ sess.logSid \in Nat
  BY <1>1, <1>2, <1>3, SessionOpens DEF TypeOK, IsSession
<1>5. /\ toMq' \in [Conns -> Seq(ToMq)]
      /\ \A c \in Conns : \A i \in DOMAIN toMq'[c] : c = 1 /\ i = 1 /\ toMq'[c][i] = Report(sess.logSid)
      /\ Report(sess.logSid) \in ReportMsg /\ Report(sess.logSid).sid = sess.logSid
      /\ 1 \in DOMAIN toMq'[1] /\ toMq'[1][1] = Report(sess.logSid)
  <2>1. toMq' = [NoWires EXCEPT ![1] = <<Report(sess.logSid)>>] /\ sess.logSid \in Nat
    BY <1>1, <1>4
  <2> QED
    BY <2>1, ReportWire
<1>6. mq' \in MqSession /\ mq'.logged = mq.logged
  <2>1. \A q \in MqSession : LET r == [q EXCEPT !.open = TRUE]
                             IN  r \in MqSession /\ r.logged = q.logged
    BY DEF MqSession
  <2> QED
    BY <1>1, <1>2, <2>1 DEF TypeOK
<1>7. TypeOK'
  <2>1. stale' \in BOOLEAN
    BY <1>1, <1>2 DEF TypeOK
  <2> QED
    BY <1>1, <1>2, <1>4, <1>5, <1>6, <2>1 DEF TypeOK
<1>8. StoredInOrder'
  <2>1. stale' => stale \/ stored # <<>>
    BY <1>1, <1>2 DEF StoredInOrder
  <2>2. replies' = <<>> \/ replies # <<>> \/ stored # <<>>
    BY <1>1
  <2> QED
    BY <1>1, <1>2, <1>4, <2>1, <2>2, SameStored
<1>9. ClosedEmpty' /\ PositionStored'
  BY <1>1, <1>2, <1>4, <1>6 DEF ClosedEmpty, PositionStored
<1>10. Reporting'
  BY <1>5, OneIsConn DEF Reporting
<1>11. Report(sess.logSid) # NewConn /\ Report(sess.logSid) \notin ReplyMsg
  BY <1>5, Kinds
<1>12. ReportFirst'
  <2>1. \A d \in Conns : DOMAIN toMc'[d] = {}
    BY <1>1, <1>3, EmptyWires
  <2>2. \A d \in Conns : mqConn'[d].sentSeq = 0 /\ mqConn'[d].lastSid = 0
                         /\ ~mqConn'[d].in /\ ~mqConn'[d].redo
    BY <1>1, <1>3 DEF NoHandlers, NoHandler
  <2>3. \A d \in Conns : \A k \in DOMAIN toMq'[d] : toMq'[d][k] # NewConn /\ toMq'[d][k] \notin ReplyMsg
    BY <1>5, <1>11
  <2>4. ~stale' => replies' = <<>>
    BY <1>1
  <2> QED
    BY <1>1, <1>3, <1>4, <1>5, <2>1, <2>2, <2>3, <2>4 DEF ReportFirst
<1>13. AcksTrue'
  <2>1. \A c \in Conns : \A i \in DOMAIN toMq'[c] : toMq'[c][i] \notin ReplyMsg
    BY <1>5, <1>11
  <2>2. ~stale' => DOMAIN replies' = {}
    <3>1. \A q : q = <<>> => DOMAIN q = {}
      OBVIOUS
    <3> QED
      BY <1>1, <3>1
  <2> QED
    BY <2>1, <2>2 DEF AcksTrue
<1> QED
  BY <1>7, <1>8, <1>9, <1>10, <1>12, <1>13 DEF Inv, Chained, GoesOn, Receiving

\* What waits on a connection the mc has: the session is open.
LEMMA McTakes ==
  ASSUME Inv, NEW c \in Conns, NEW t, McGets(c, t), toMc' = [toMc EXCEPT ![c] = Tail(@)]
  PROVE  /\ ~sess.closed /\ toMc' \in [Conns -> Seq(ToMc)]
         /\ 1 \in DOMAIN toMc[c] /\ Head(toMc[c]) = toMc[c][1] /\ toMc[c][1] \in ToMc /\ toMc[c][1].type = t
         /\ \A d \in Conns : \A i \in DOMAIN toMc'[d] :
              IF d = c THEN i + 1 \in DOMAIN toMc[d] /\ toMc'[d][i] = toMc[d][i + 1]
                       ELSE i \in DOMAIN toMc[d] /\ toMc'[d][i] = toMc[d][i]
<1>1. c \in conns /\ toMc[c] # <<>> /\ Head(toMc[c]).type = t
  BY DEF McGets
<1>2. ~sess.closed
  BY <1>1 DEF Inv, ClosedEmpty
<1>3. toMc \in [Conns -> Seq(ToMc)]
  BY DEF Inv, TypeOK
<1>4. /\ toMc' \in [Conns -> Seq(ToMc)] /\ Head(toMc[c]) = toMc[c][1] /\ Head(toMc[c]) \in ToMc
      /\ 1 \in DOMAIN toMc[c]
      /\ \A d \in Conns : \A i \in DOMAIN toMc'[d] :
           IF d = c THEN i + 1 \in DOMAIN toMc[d] /\ toMc'[d][i] = toMc[d][i + 1]
                    ELSE i \in DOMAIN toMc[d] /\ toMc'[d][i] = toMc[d][i]
  BY <1>1, <1>3, TailWire
<1> QED
  BY <1>1, <1>2, <1>4

\* Something else than a refusal came: the mq has had the report.
LEMMA ReportIsOver ==
  ASSUME Inv, NEW c \in Conns, NEW i \in DOMAIN toMc[c], toMc[c][i] # Refusal
  PROVE  ~Reporting
BY DEF Inv, Reporting, ReportFirst

LEMMA SessionKnows ==
  ASSUME IsSession(sess), sess' = [sess EXCEPT !.known = TRUE]
  PROVE  /\ IsSession(sess)' /\ sess'.need = sess.need /\ sess'.closed = sess.closed
         /\ sess'.next = sess.next /\ sess'.logSid = sess.logSid
<1>1. sess = [closed |-> sess.closed, need |-> sess.need, known |-> sess.known, next |-> sess.next,
              logSid |-> sess.logSid, age |-> sess.age, bytes |-> sess.bytes, limit |-> sess.limit]
  BY DEF IsSession
<1>2. sess' = [closed |-> sess.closed, need |-> sess.need, known |-> TRUE, next |-> sess.next,
               logSid |-> sess.logSid, age |-> sess.age, bytes |-> sess.bytes, limit |-> sess.limit]
  BY <1>1
<1>3. /\ sess'.closed = sess.closed /\ sess'.need = sess.need /\ sess'.known = TRUE
      /\ sess'.next = sess.next /\ sess'.logSid = sess.logSid /\ sess'.age = sess.age
      /\ sess'.bytes = sess.bytes /\ sess'.limit = sess.limit
  BY <1>2
<1> QED
  BY <1>2, <1>3 DEF IsSession

LEMMA NewConnWire ==
  ASSUME toMq \in [Conns -> Seq(ToMq)], NEW D \in SUBSET Conns,
         toMq' = [d \in Conns |-> IF d \in D THEN Append(toMq[d], NewConn) ELSE toMq[d]]
  PROVE  /\ toMq' \in [Conns -> Seq(ToMq)]
         /\ \A d \in Conns : \A i \in DOMAIN toMq'[d] :
              (i \in DOMAIN toMq[d] /\ toMq'[d][i] = toMq[d][i]) \/ toMq'[d][i] = NewConn
<1>1. NewConn \in ToMq
  BY DEF ToMq
<1> HIDE DEF ToMq, NewConn, Conns
<1>2. ASSUME NEW d \in Conns
      PROVE  /\ toMq'[d] \in Seq(ToMq)
             /\ \A i \in DOMAIN toMq'[d] :
                  (i \in DOMAIN toMq[d] /\ toMq'[d][i] = toMq[d][i]) \/ toMq'[d][i] = NewConn
  <2>1. toMq[d] \in Seq(ToMq)
    OBVIOUS
  <2>2. CASE d \in D
    <3>1. toMq'[d] = Append(toMq[d], NewConn)
      BY <2>2
    <3> QED
      BY <1>1, <2>1, <3>1
  <2>3. CASE d \notin D
    BY <2>1, <2>3
  <2> QED
    BY <2>2, <2>3
<1> QED
  BY <1>2

LEMMA ReportReplyKeeps ==
  ASSUME Inv, NEW c \in Conns, ReportReply(c)
  PROVE  Inv'
<1>1. /\ McGets(c, "accept") /\ ~sess.need
      /\ sess' = [sess EXCEPT !.known = TRUE] /\ toMc' = [toMc EXCEPT ![c] = Tail(@)]
      /\ toMq' = [d \in Conns |->
           IF mq.open /\ d \in conns \ {c} THEN Append(toMq[d], NewConn) ELSE toMq[d]]
      /\ conns' = conns /\ got' = got /\ replies' = replies /\ stored' = stored /\ ever' = ever
      /\ stale' = stale /\ top' = top /\ mq' = mq /\ mqConn' = mqConn
  BY DEF ReportReply, mqVars
<1>2. TypeOK /\ StoredInOrder /\ PositionStored
  BY DEF Inv
<1>3. /\ ~sess.closed /\ toMc' \in [Conns -> Seq(ToMc)]
      /\ 1 \in DOMAIN toMc[c] /\ toMc[c][1] \in ToMc /\ toMc[c][1].type = "accept"
      /\ \A d \in Conns : \A i \in DOMAIN toMc'[d] :
           \E k \in DOMAIN toMc[d] : toMc'[d][i] = toMc[d][k]
  <2>1. \A d \in Conns : \A i \in DOMAIN toMc'[d] :
          IF d = c THEN i + 1 \in DOMAIN toMc[d] /\ toMc'[d][i] = toMc[d][i + 1]
                   ELSE i \in DOMAIN toMc[d] /\ toMc'[d][i] = toMc[d][i]
    BY <1>1, McTakes
  <2>2. /\ ~sess.closed /\ toMc' \in [Conns -> Seq(ToMc)]
        /\ 1 \in DOMAIN toMc[c] /\ toMc[c][1] \in ToMc /\ toMc[c][1].type = "accept"
    BY <1>1, McTakes
  <2>3. ASSUME NEW d \in Conns, NEW i \in DOMAIN toMc'[d]
        PROVE  \E k \in DOMAIN toMc[d] : toMc'[d][i] = toMc[d][k]
    BY <2>1
  <2> QED
    BY <2>2, <2>3
<1>4. ~Reporting
  <2>1. toMc[c][1] # Refusal
    BY <1>3, ByType, Kinds
  <2> QED
    BY <1>3, <2>1, ReportIsOver
<1>5. /\ toMq' \in [Conns -> Seq(ToMq)]
      /\ \A d \in Conns : \A i \in DOMAIN toMq'[d] :
           (i \in DOMAIN toMq[d] /\ toMq'[d][i] = toMq[d][i]) \/ toMq'[d][i] = NewConn
  <2> DEFINE D == {d \in Conns : mq.open /\ d \in conns \ {c}}
  <2>1. D \in SUBSET Conns
    OBVIOUS
  <2>2. toMq' = [d \in Conns |-> IF d \in D THEN Append(toMq[d], NewConn) ELSE toMq[d]]
    BY <1>1
  <2>3. toMq \in [Conns -> Seq(ToMq)]
    BY <1>2 DEF TypeOK
  <2> HIDE DEF D
  <2> QED
    BY <2>1, <2>2, <2>3, NewConnWire
<1>6. NewConn \notin ReportMsg /\ NewConn \notin ReplyMsg
  BY Kinds
<1>7. ~Reporting'
  BY <1>4, <1>5, <1>6 DEF Reporting
<1>8. /\ IsSession(sess)' /\ sess'.need = sess.need /\ sess'.closed = sess.closed
      /\ sess'.next = sess.next /\ sess'.logSid = sess.logSid
  BY <1>1, <1>2, SessionKnows DEF TypeOK
<1>9. TypeOK'
  BY <1>1, <1>2, <1>3, <1>5, <1>8 DEF TypeOK
<1>10. StoredInOrder'
  BY <1>1, <1>2, <1>8, SameStored
<1>11. ClosedEmpty' /\ PositionStored'
  BY <1>1, <1>2, <1>3, <1>8 DEF ClosedEmpty, PositionStored
<1>12. Unstored' \in SUBSET Unstored
  BY <1>1, <1>3 DEF Unstored, OnWire
<1>13. AcksTrue'
  <2> SUFFICES ASSUME mq.open, ~stale
               PROVE  /\ \A d \in Conns : \A i \in DOMAIN toMq'[d] :
                           toMq'[d][i] \in ReplyMsg => Acked(mq, mqConn, d, toMq'[d][i].seq)
                      /\ \A i \in DOMAIN replies : Acked(mq, mqConn, replies[i].conn, replies[i].seq)
    BY <1>1 DEF AcksTrue, Acked
  <2>1. /\ \A d \in Conns : \A i \in DOMAIN toMq[d] :
             toMq[d][i] \in ReplyMsg => Acked(mq, mqConn, d, toMq[d][i].seq)
        /\ \A i \in DOMAIN replies : Acked(mq, mqConn, replies[i].conn, replies[i].seq)
    BY DEF Inv, AcksTrue
  <2> QED
    BY <1>5, <1>6, <2>1
<1>14. Chained' /\ GoesOn'
  <2> SUFFICES ASSUME Receiving'
               PROVE  ChainOf(Unstored') /\ (mq.open => SourceOf(Unstored', mq, mqConn))
    BY <1>1, <1>8 DEF Chained, GoesOn, ChainOf, SourceOf, Follows
  <2>1. Receiving
    BY <1>1, <1>3, <1>4 DEF Receiving
  <2>2. ChainOf(Unstored) /\ (mq.open => SourceOf(Unstored, mq, mqConn))
    BY <2>1 DEF Inv, Chained, GoesOn
  <2> QED
    BY <1>12, <2>2, Less
<1>15. ReportFirst'
  BY <1>7 DEF Reporting, ReportFirst
<1> QED
  BY <1>9, <1>10, <1>11, <1>13, <1>14, <1>15 DEF Inv
(***************************************************************************)
(* The acknowledgements that waited go out.                                *)
(***************************************************************************)
LEMMA LastOnes ==
  ASSUME NEW r \in Seq(Waiting), NEW n \in Nat, n <= Len(r)
  PROVE  /\ SubSeq(r, n + 1, Len(r)) \in Seq(Waiting)
         /\ \A i \in DOMAIN SubSeq(r, n + 1, Len(r)) :
              n + i \in DOMAIN r /\ SubSeq(r, n + 1, Len(r))[i] = r[n + i]
<1> HIDE DEF Waiting
<1>1. Len(r) \in Nat /\ DOMAIN r = 1..Len(r) /\ \A i \in 1..Len(r) : r[i] \in Waiting
  OBVIOUS
<1>2. PICK t : t = SubSeq(r, n + 1, Len(r))
  OBVIOUS
<1>3. t = [i \in 1..(Len(r) - n) |-> r[i + (n + 1) - 1]]
  BY <1>1, <1>2
<1>4. DOMAIN t = 1..(Len(r) - n) /\ \A i \in 1..(Len(r) - n) : t[i] = r[n + i] /\ n + i \in 1..Len(r)
  BY <1>1, <1>3
<1>5. t \in Seq(Waiting)
  <2>1. Len(r) - n \in Nat
    BY <1>1
  <2>2. \A i \in 1..(Len(r) - n) : r[i + (n + 1) - 1] \in Waiting
    BY <1>1
  <2> QED
    BY <1>3, <2>1, <2>2
<1> QED
  BY <1>1, <1>2, <1>4, <1>5

\* What is picked for the wires of the connections in D goes on them.
LEMMA RepliesWire ==
  ASSUME replies \in Seq(Waiting), toMq \in [Conns -> Seq(ToMq)], NEW D \in SUBSET Conns,
         NEW S \in [Conns -> SUBSET (1..Len(replies))],
         \A c \in Conns : \A i \in S[c] : replies[i].conn = c,
         toMq' = [c \in Conns |->
           IF c \in D THEN toMq[c] \o Picked([i \in DOMAIN replies |-> Reply(replies[i].seq)], S[c])
                      ELSE toMq[c]]
  PROVE  /\ toMq' \in [Conns -> Seq(ToMq)]
         /\ \A c \in Conns : \A i \in DOMAIN toMq'[c] :
              \/ i \in DOMAIN toMq[c] /\ toMq'[c][i] = toMq[c][i]
              \/ \E j \in DOMAIN replies : replies[j].conn = c /\ toMq'[c][i] = Reply(replies[j].seq)
         /\ \A c \in Conns : \A i \in DOMAIN toMq[c] : i \in DOMAIN toMq'[c] /\ toMq'[c][i] = toMq[c][i]
<1> DEFINE list == [i \in DOMAIN replies |-> Reply(replies[i].seq)]
           x == [c \in Conns |-> IF c \in D THEN Picked(list, S[c]) ELSE <<>>]
<1>1. Len(replies) \in Nat /\ DOMAIN replies = 1..Len(replies)
  OBVIOUS
<1>2. \A i \in DOMAIN replies : list[i] \in ToMq /\ list[i] = Reply(replies[i].seq)
  <2>1. \A i \in DOMAIN replies : replies[i].seq \in Nat
    BY WaitingFields
  <2> QED
    BY <2>1 DEF Reply, ReplyMsg, ToMq
<1>3. ASSUME NEW c \in Conns
      PROVE  /\ Picked(list, S[c]) \in Seq(ToMq)
             /\ \A k \in DOMAIN Picked(list, S[c]) : \E j \in S[c] : Picked(list, S[c])[k] = list[j]
  <2>1. S[c] \in SUBSET (1..Len(replies))
    OBVIOUS
  <2>2. IsFiniteSet(S[c]) /\ S[c] \in SUBSET Nat
    BY <1>1, <2>1, PlacesAre
  <2>3. \A k \in S[c] : list[k] \in ToMq
    BY <1>1, <1>2, <2>1
  <2> HIDE DEF list
  <2>4. Picked(list, S[c]) \in Seq(ToMq)
    BY <2>2, <2>3, PickedIs
  <2>5. \A k \in DOMAIN Picked(list, S[c]) : \E j \in S[c] : Picked(list, S[c])[k] = list[j]
    BY <2>2, PickedFrom
  <2> QED
    BY <2>4, <2>5
<1> HIDE DEF list
<1>4. x \in [Conns -> Seq(ToMq)]
  <2>1. <<>> \in Seq(ToMq)
    BY EmptyWires
  <2> QED
    BY <1>3, <2>1
<1>5. toMq' = [c \in Conns |-> toMq'[c]] /\ \A c \in Conns : toMq'[c] = toMq[c] \o x[c]
  <2>1. ASSUME NEW c \in Conns
        PROVE  toMq'[c] = toMq[c] \o x[c]
    <3>1. toMq'[c] = IF c \in D THEN toMq[c] \o Picked(list, S[c]) ELSE toMq[c]
      BY DEF list
    <3>2. CASE c \in D
      BY <3>1, <3>2
    <3>3. CASE c \notin D
      <4>1. \A q \in Seq(ToMq) : q \o <<>> = q
        <5> HIDE DEF ToMq
        <5> QED
          OBVIOUS
      <4> QED
        BY <3>1, <3>3, <4>1
    <3> QED
      BY <3>2, <3>3
  <2>2. toMq' = [c \in Conns |-> toMq'[c]]
    OBVIOUS
  <2> QED
    BY <2>1, <2>2
<1>6. ASSUME NEW c \in Conns, NEW k \in DOMAIN x[c]
      PROVE  \E j \in DOMAIN replies : replies[j].conn = c /\ x[c][k] = Reply(replies[j].seq)
  <2>1. c \in D
    <3>1. \A q : q = <<>> => DOMAIN q = {}
      OBVIOUS
    <3> QED
      BY <3>1
  <2>2. x[c] = Picked(list, S[c])
    BY <2>1
  <2>3. PICK j \in S[c] : x[c][k] = list[j]
    BY <1>3, <2>2
  <2>4. j \in DOMAIN replies /\ replies[j].conn = c
    BY <1>1
  <2> QED
    BY <1>2, <2>3, <2>4
<1> HIDE DEF x
<1>7. /\ toMq' \in [Conns -> Seq(ToMq)]
      /\ \A c \in Conns : \A i \in DOMAIN toMq'[c] :
           \/ i \in DOMAIN toMq[c] /\ toMq'[c][i] = toMq[c][i]
           \/ \E k \in DOMAIN x[c] : toMq'[c][i] = x[c][k]
      /\ \A c \in Conns : \A i \in DOMAIN toMq[c] : i \in DOMAIN toMq'[c] /\ toMq'[c][i] = toMq[c][i]
  BY <1>4, <1>5, ConcatWire
<1>8. ASSUME NEW c \in Conns, NEW i \in DOMAIN toMq'[c]
      PROVE  \/ i \in DOMAIN toMq[c] /\ toMq'[c][i] = toMq[c][i]
             \/ \E j \in DOMAIN replies : replies[j].conn = c /\ toMq'[c][i] = Reply(replies[j].seq)
  <2>1. CASE i \in DOMAIN toMq[c] /\ toMq'[c][i] = toMq[c][i]
    BY <2>1
  <2>2. CASE \E k \in DOMAIN x[c] : toMq'[c][i] = x[c][k]
    <3>1. PICK k \in DOMAIN x[c] : toMq'[c][i] = x[c][k]
      BY <2>2
    <3>2. PICK j \in DOMAIN replies : replies[j].conn = c /\ x[c][k] = Reply(replies[j].seq)
      BY <1>6
    <3> QED
      BY <3>1, <3>2
  <2> QED
    BY <1>7, <2>1, <2>2
<1> QED
  BY <1>7, <1>8

LEMMA ReplyFields == \A n \in Nat : Reply(n) \in ReplyMsg /\ Reply(n).seq = n
BY DEF Reply, ReplyMsg

LEMMA CheckSyncLimitKeeps ==
  ASSUME Inv, CheckSyncLimit
  PROVE  Inv'
<1> DEFINE due == {i \in DOMAIN replies : \A k \in 1..i : ~replies[k].now}
           D == {c \in Conns : c \in conns /\ mq.open}
           S == [c \in Conns |-> {i \in due : replies[i].conn = c}]
<1>1. /\ replies # <<>> /\ replies' = SubSeq(replies, Cardinality(due) + 1, Len(replies))
      /\ toMq' = [c \in Conns |->
           IF c \in conns /\ mq.open
           THEN toMq[c] \o Picked([i \in DOMAIN replies |-> Reply(replies[i].seq)],
                                 {i \in due : replies[i].conn = c})
           ELSE toMq[c]]
      /\ sess' = sess /\ conns' = conns /\ got' = got /\ stored' = stored /\ ever' = ever
      /\ stale' = stale /\ toMc' = toMc /\ top' = top /\ mq' = mq /\ mqConn' = mqConn
  BY DEF CheckSyncLimit, mqVars
<1>2. TypeOK /\ StoredInOrder /\ PositionStored /\ ClosedEmpty /\ ReportFirst /\ AcksTrue
  BY DEF Inv
<1>3. /\ replies \in Seq(Waiting) /\ toMq \in [Conns -> Seq(ToMq)]
      /\ Len(replies) \in Nat /\ DOMAIN replies = 1..Len(replies)
  BY <1>2 DEF TypeOK
<1>4. due \in SUBSET (1..Len(replies)) /\ Cardinality(due) \in Nat /\ Cardinality(due) <= Len(replies)
  <2>1. due \in SUBSET (1..Len(replies))
    BY <1>3
  <2> HIDE DEF due
  <2> QED
    BY <1>3, <2>1, PlacesAre
<1> HIDE DEF due, Inv
<1>5. /\ replies' \in Seq(Waiting)
      /\ \A i \in DOMAIN replies' : \E k \in DOMAIN replies : replies'[i] = replies[k]
  BY <1>1, <1>3, <1>4, LastOnes
<1>6. /\ toMq' \in [Conns -> Seq(ToMq)]
      /\ \A c \in Conns : \A i \in DOMAIN toMq'[c] :
           \/ i \in DOMAIN toMq[c] /\ toMq'[c][i] = toMq[c][i]
           \/ \E j \in DOMAIN replies : replies[j].conn = c /\ toMq'[c][i] = Reply(replies[j].seq)
      /\ \A c \in Conns : \A i \in DOMAIN toMq[c] : i \in DOMAIN toMq'[c] /\ toMq'[c][i] = toMq[c][i]
  <2>1. D \in SUBSET Conns /\ S \in [Conns -> SUBSET (1..Len(replies))]
    BY <1>4
  <2>2. \A c \in Conns : \A i \in S[c] : replies[i].conn = c
    OBVIOUS
  <2>3. toMq' = [c \in Conns |->
          IF c \in D THEN toMq[c] \o Picked([i \in DOMAIN replies |-> Reply(replies[i].seq)], S[c])
                     ELSE toMq[c]]
    BY <1>1
  <2> HIDE DEF D, S
  <2> QED
    BY <1>3, <2>1, <2>2, <2>3, RepliesWire
<1>7. \A j \in DOMAIN replies : LET r == Reply(replies[j].seq)
                                IN  /\ r \in ReplyMsg /\ r.seq = replies[j].seq
                                    /\ r \notin ReportMsg /\ r # NewConn
  <2>1. \A j \in DOMAIN replies : replies[j].seq \in Nat
    BY <1>3, WaitingFields
  <2> QED
    BY <2>1, ReplyFields, Kinds
<1>8. \A c \in Conns : \A i \in DOMAIN toMq'[c] :
        \/ i \in DOMAIN toMq[c] /\ toMq'[c][i] = toMq[c][i]
        \/ /\ toMq'[c][i] \in ReplyMsg /\ toMq'[c][i] \notin ReportMsg /\ toMq'[c][i] # NewConn
           /\ \E j \in DOMAIN replies : replies[j].conn = c /\ toMq'[c][i].seq = replies[j].seq
  BY <1>6, <1>7
<1>9. TypeOK'
  BY <1>1, <1>2, <1>5, <1>6 DEF TypeOK, IsSession
<1>10. StoredInOrder'
  <2>1. sess'.logSid = sess.logSid
    BY <1>1
  <2> QED
    BY <1>1, <1>2, <2>1, SameStored
<1>11. ClosedEmpty' /\ PositionStored'
  <2>1. sess.closed => toMq' = NoWires
    <3> SUFFICES ASSUME sess.closed
                 PROVE  toMq' = NoWires
      OBVIOUS
    <3>1. conns = {} /\ toMq = NoWires
      BY <1>2 DEF ClosedEmpty
    <3>2. toMq' = [c \in Conns |-> toMq[c]]
      BY <1>1, <3>1
    <3> QED
      BY <3>1, <3>2 DEF NoWires
  <2> QED
    BY <1>1, <1>2, <2>1 DEF ClosedEmpty, PositionStored
<1>12. AcksTrue'
  <2> SUFFICES ASSUME mq.open, ~stale
               PROVE  /\ \A c \in Conns : \A i \in DOMAIN toMq'[c] :
                           toMq'[c][i] \in ReplyMsg => Acked(mq, mqConn, c, toMq'[c][i].seq)
                      /\ \A i \in DOMAIN replies' : Acked(mq, mqConn, replies'[i].conn, replies'[i].seq)
    BY <1>1 DEF AcksTrue, Acked
  <2>1. /\ \A c \in Conns : \A i \in DOMAIN toMq[c] :
             toMq[c][i] \in ReplyMsg => Acked(mq, mqConn, c, toMq[c][i].seq)
        /\ \A i \in DOMAIN replies : Acked(mq, mqConn, replies[i].conn, replies[i].seq)
    BY <1>2 DEF AcksTrue
  <2>2. ASSUME NEW i \in DOMAIN replies'
        PROVE  Acked(mq, mqConn, replies'[i].conn, replies'[i].seq)
    <3>1. PICK k \in DOMAIN replies : replies'[i] = replies[k]
      BY <1>5
    <3> QED
      BY <2>1, <3>1
  <2>3. ASSUME NEW c \in Conns, NEW i \in DOMAIN toMq'[c], toMq'[c][i] \in ReplyMsg
        PROVE  Acked(mq, mqConn, c, toMq'[c][i].seq)
    BY <1>8, <2>1, <2>3
  <2> QED
    BY <2>2, <2>3
<1>13. Reporting <=> Reporting'
  <2>1. Reporting' => Reporting
    BY <1>8 DEF Reporting
  <2> QED
    BY <1>6, <2>1 DEF Reporting
<1>14. ReportFirst'
  <2> SUFFICES ASSUME NEW d \in Conns, NEW i \in DOMAIN toMq'[d], toMq'[d][i] \in ReportMsg
               PROVE  /\ d = 1 /\ i = 1 /\ toMq'[d][i].sid = sess'.logSid
                      /\ got' = {} /\ sess'.next = 0
                      /\ \A e \in Conns : \A k \in DOMAIN toMc'[e] : toMc'[e][k] = Refusal
                      /\ \A e \in Conns : \A k \in DOMAIN toMq'[e] : toMq'[e][k] # NewConn
                      /\ \A e \in Conns : mqConn'[e].sentSeq = 0 /\ mqConn'[e].lastSid = 0
                                         /\ ~mqConn'[e].in /\ ~mqConn'[e].redo
                      /\ ~stale' => /\ replies' = <<>>
                                    /\ \A e \in Conns : \A k \in DOMAIN toMq'[e] : toMq'[e][k] \notin ReplyMsg
    BY DEF ReportFirst
  <2>1. i \in DOMAIN toMq[d] /\ toMq'[d][i] = toMq[d][i]
    BY <1>8
  <2>2. /\ d = 1 /\ i = 1 /\ toMq[d][i].sid = sess.logSid /\ got = {} /\ sess.next = 0
        /\ \A e \in Conns : \A k \in DOMAIN toMc[e] : toMc[e][k] = Refusal
        /\ \A e \in Conns : \A k \in DOMAIN toMq[e] : toMq[e][k] # NewConn
        /\ \A e \in Conns : mqConn[e].sentSeq = 0 /\ mqConn[e].lastSid = 0
                           /\ ~mqConn[e].in /\ ~mqConn[e].redo
        /\ ~stale => replies = <<>>
    BY <1>2, <2>1 DEF ReportFirst
  <2>3. \A e \in Conns : \A k \in DOMAIN toMq'[e] : toMq'[e][k] # NewConn
    BY <1>8, <2>2
  <2>4. stale
    BY <1>1, <1>2, <2>2 DEF TypeOK
  <2> QED
    BY <1>1, <2>1, <2>2, <2>3, <2>4
<1>15. Chained' /\ GoesOn'
  <2>1. Unstored' = Unstored
    BY <1>1 DEF Unstored, OnWire
  <2> QED
    BY <1>1, <1>13, <2>1 DEF Inv, Chained, GoesOn, Receiving, ChainOf, SourceOf, Follows
<1> QED
  BY <1>9, <1>10, <1>11, <1>12, <1>14, <1>15 DEF Inv
(***************************************************************************)
(* Messages are stored.                                                    *)
(***************************************************************************)
LEMMA SidsTogether ==
  ASSUME NEW q \in Seq(RunOfSids), NEW r \in Seq(RunOfSids)
  PROVE  SidsOf(q \o r) = SidsOf(q) \cup SidsOf(r)
<1>1. /\ Len(q) \in Nat /\ DOMAIN q = 1..Len(q) /\ Len(r) \in Nat /\ DOMAIN r = 1..Len(r)
      /\ DOMAIN (q \o r) = 1..(Len(q) + Len(r))
      /\ \A i \in 1..Len(q) : (q \o r)[i] = q[i]
      /\ \A i \in 1..Len(r) : (q \o r)[Len(q) + i] = r[i]
  <2> HIDE DEF RunOfSids
  <2> QED
    OBVIOUS
<1>2. \A i \in 1..Len(q) : i \in 1..(Len(q) + Len(r))
  BY <1>1
<1>3. \A i \in 1..Len(r) : Len(q) + i \in 1..(Len(q) + Len(r))
  BY <1>1
<1>4. \A i \in 1..(Len(q) + Len(r)) : i \in 1..Len(q) \/ \E k \in 1..Len(r) : i = Len(q) + k
  <2>1. ASSUME NEW i \in 1..(Len(q) + Len(r)), i \notin 1..Len(q)
        PROVE  i - Len(q) \in 1..Len(r) /\ i = Len(q) + (i - Len(q))
    BY <1>1, <2>1
  <2> QED
    BY <2>1
<1>5. ASSUME NEW s, s \in SidsOf(q \o r)
      PROVE  s \in SidsOf(q) \cup SidsOf(r)
  <2>1. PICK i \in 1..(Len(q) + Len(r)) : s \in (q \o r)[i].first..(q \o r)[i].last
    BY <1>1, <1>5, SidsOfIs
  <2>2. CASE i \in 1..Len(q)
    BY <1>1, <2>1, <2>2, SidsOfIs
  <2>3. CASE \E k \in 1..Len(r) : i = Len(q) + k
    <3>1. PICK k \in 1..Len(r) : i = Len(q) + k
      BY <2>3
    <3>2. (q \o r)[i] = r[k]
      BY <1>1, <3>1
    <3>3. s \in r[k].first..r[k].last
      BY <2>1, <3>2
    <3> QED
      BY <1>1, <3>3, SidsOfIs
  <2> QED
    BY <1>4, <2>2, <2>3
<1>6. ASSUME NEW s, s \in SidsOf(q)
      PROVE  s \in SidsOf(q \o r)
  <2>1. PICK i \in 1..Len(q) : s \in q[i].first..q[i].last
    BY <1>1, <1>6, SidsOfIs
  <2>2. i \in DOMAIN (q \o r) /\ (q \o r)[i] = q[i]
    BY <1>1, <1>2
  <2>3. s \in (q \o r)[i].first..(q \o r)[i].last
    BY <2>1, <2>2
  <2> QED
    BY <2>2, <2>3, SidsOfIs
<1>7. ASSUME NEW s, s \in SidsOf(r)
      PROVE  s \in SidsOf(q \o r)
  <2>1. PICK i \in 1..Len(r) : s \in r[i].first..r[i].last
    BY <1>1, <1>7, SidsOfIs
  <2>2. Len(q) + i \in DOMAIN (q \o r) /\ (q \o r)[Len(q) + i] = r[i]
    BY <1>1, <1>3
  <2>3. s \in (q \o r)[Len(q) + i].first..(q \o r)[Len(q) + i].last
    BY <2>1, <2>2
  <2> QED
    BY <2>2, <2>3, SidsOfIs
<1> QED
  BY <1>5, <1>6, <1>7

\* What is stored after what was stored before.
LEMMA RunsTogether ==
  ASSUME NEW q, Ordered(q), NEW r, NEW a, InTurn(r, a), q # <<>> /\ r # <<>> => Last(q).last = a,
         NEW t, t = q \o r
  PROVE  /\ Ordered(t)
         /\ t = <<>> <=> q = <<>> /\ r = <<>>
         /\ r = <<>> => t = q
         /\ r # <<>> => Last(t) = Last(r)
<1>0. q \in Seq(RunOfSids) /\ r \in Seq(RunOfSids) /\ Ordered(r) /\ a \in Nat
  BY DEF Ordered, InTurn
<1>1. /\ Len(q) \in Nat /\ DOMAIN q = 1..Len(q) /\ Len(r) \in Nat /\ DOMAIN r = 1..Len(r)
      /\ Len(t) = Len(q) + Len(r) /\ DOMAIN t = 1..(Len(q) + Len(r))
      /\ \A i \in 1..Len(q) : t[i] = q[i]
      /\ \A i \in 1..Len(r) : t[Len(q) + i] = r[i]
      /\ t \in Seq(RunOfSids)
      /\ (q = <<>> <=> Len(q) = 0) /\ (r = <<>> <=> Len(r) = 0) /\ (t = <<>> <=> Len(t) = 0)
  <2> HIDE DEF RunOfSids
  <2> QED
    BY <1>0
<1>2. \A i \in 1..(Len(q) + Len(r)) : i \in 1..Len(q) \/ (i - Len(q) \in 1..Len(r) /\ i = Len(q) + (i - Len(q)))
  BY <1>1
<1>3. ASSUME NEW i \in 1..(Len(q) + Len(r))
      PROVE  t[i].first <= t[i].last
  <2>1. CASE i \in 1..Len(q)
    <3>1. t[i] = q[i] /\ q[i].first <= q[i].last
      BY <1>1, <2>1 DEF Ordered
    <3> QED
      BY <3>1
  <2>2. CASE i - Len(q) \in 1..Len(r) /\ i = Len(q) + (i - Len(q))
    <3>1. t[i] = r[i - Len(q)]
      BY <1>1, <2>2
    <3>2. r[i - Len(q)].first <= r[i - Len(q)].last
      BY <1>1, <2>2 DEF InTurn, Ordered
    <3> QED
      BY <3>1, <3>2
  <2> QED
    BY <1>2, <2>1, <2>2
<1>4. ASSUME NEW i \in 1..(Len(t) - 1)
      PROVE  t[i + 1].first = t[i].last + 1
  <2>1. CASE i < Len(q)
    <3>1. i \in 1..(Len(q) - 1) /\ i \in 1..Len(q) /\ i + 1 \in 1..Len(q)
      BY <1>1, <2>1
    <3>2. t[i] = q[i] /\ t[i + 1] = q[i + 1]
      BY <1>1, <3>1
    <3>3. q[i + 1].first = q[i].last + 1
      BY <3>1 DEF Ordered
    <3> QED
      BY <3>2, <3>3
  <2>2. CASE i = Len(q)
    <3>1. i \in 1..Len(q) /\ 1 \in 1..Len(r) /\ q # <<>> /\ r # <<>>
      BY <1>1, <2>2
    <3>2. t[i] = q[i] /\ t[i + 1] = r[1]
      BY <1>1, <2>2, <3>1
    <3>3. Last(q) = q[i]
      BY <2>2 DEF Last
    <3>4. r[1].first = a + 1
      BY <3>1 DEF InTurn
    <3> QED
      BY <3>1, <3>2, <3>3, <3>4
  <2>3. CASE i > Len(q)
    <3>1. i - Len(q) \in 1..(Len(r) - 1) /\ i - Len(q) \in 1..Len(r) /\ (i - Len(q)) + 1 \in 1..Len(r)
      BY <1>1, <2>3
    <3>2. t[Len(q) + (i - Len(q))] = r[i - Len(q)] /\ t[Len(q) + ((i - Len(q)) + 1)] = r[(i - Len(q)) + 1]
      BY <1>1, <3>1
    <3>3. Len(q) + (i - Len(q)) = i /\ Len(q) + ((i - Len(q)) + 1) = i + 1
      BY <1>1
    <3>4. r[(i - Len(q)) + 1].first = r[i - Len(q)].last + 1
      BY <3>1 DEF InTurn, Ordered
    <3> QED
      BY <3>2, <3>3, <3>4
  <2>4. i \in Nat /\ Len(q) \in Nat
    BY <1>1
  <2> QED
    BY <2>1, <2>2, <2>3, <2>4
<1>5. r = <<>> => t = q
  <2> HIDE DEF RunOfSids
  <2> QED
    BY <1>0
<1>6. r # <<>> => Last(t) = Last(r)
  <2>1. r # <<>> => Len(r) \in 1..Len(r)
    BY <1>1
  <2> QED
    BY <1>1, <2>1 DEF Last
<1>7. t = <<>> <=> q = <<>> /\ r = <<>>
  BY <1>1
<1>8. Ordered(t)
  BY <1>1, <1>3, <1>4 DEF Ordered
<1> QED
  BY <1>8, <1>5, <1>6, <1>7

LEMMA StoresInOrder ==
  ASSUME TypeOK, StoredInOrder, NEW r, NEW a, InTurn(r, a), r # <<>> => Follows(a),
         stored' = stored \o r, ever' = ever \cup SidsOf(stored'),
         sess'.logSid = IF r = <<>> THEN sess.logSid ELSE Last(r).last,
         stale' = stale, r = <<>> => replies' = replies
  PROVE  /\ StoredInOrder' /\ stored' \in Seq(RunOfSids) /\ ever' \subseteq Nat \ {0} /\ ever \subseteq ever'
         /\ sess'.logSid \in Nat
         /\ \A i \in DOMAIN r : 1..r[i].last \subseteq ever'
<1>1. /\ stored \in Seq(RunOfSids) /\ r \in Seq(RunOfSids) /\ ever \subseteq Nat \ {0} /\ stale \in BOOLEAN
      /\ sess.logSid \in Nat /\ a \in Nat
  BY DEF TypeOK, IsSession, InTurn, Ordered
<1>2. /\ Ordered(stored) /\ Gapless(ever)
      /\ SidsOf(stored) \subseteq ever
      /\ stored = <<>> => sess.logSid = 0
      /\ stored # <<>> => sess.logSid = Last(stored).last /\ sess.logSid # 0
      /\ replies # <<>> \/ stale => stored # <<>>
  BY <1>1 DEF StoredInOrder, AllInOrder, Ordered, Gapless
<1>3. stored # <<>> /\ r # <<>> => Last(stored).last = a
  BY <1>2 DEF Follows
<1>4. /\ Ordered(stored')
      /\ stored' = <<>> <=> stored = <<>> /\ r = <<>>
      /\ r = <<>> => stored' = stored
      /\ r # <<>> => Last(stored') = Last(r)
  BY <1>2, <1>3, RunsTogether, ZenonT(40)
<1>5. SidsOf(stored') = SidsOf(stored) \cup SidsOf(r)
  BY <1>1, SidsTogether
<1>6. ever' = ever \cup SidsOf(r)
  BY <1>2, <1>5
<1>7. CASE r = <<>>
  <2>1. SidsOf(r) = {} /\ DOMAIN r = {}
    BY <1>7, NothingStored
  <2>2. ever' = ever /\ stored' = stored /\ sess'.logSid = sess.logSid /\ replies' = replies
    BY <1>4, <1>6, <1>7, <2>1
  <2>3. StoredInOrder'
    BY <2>2, SameStored
  <2> QED
    BY <1>1, <2>1, <2>2, <2>3
<1>8. CASE r # <<>>
  <2>1. 1..a \subseteq ever
    BY <1>8 DEF Follows
  <2>2. /\ \A i \in 1..(Len(r) - 1) : r[i + 1].first = r[i].last + 1
        /\ \A i \in DOMAIN r : r[i].first <= r[i].last
        /\ r[1].first = a + 1 /\ Ordered(r)
    BY <1>8 DEF InTurn, Ordered
  <2>3. (\A i \in DOMAIN r : 1..r[i].last \subseteq ever \cup SidsOf(r)) /\ Gapless(ever \cup SidsOf(r))
    BY <1>2, <2>1, RunsExtend
  <2>4. Last(r).last \in Nat \ {0}
    <3>1. Len(r) \in Nat /\ DOMAIN r = 1..Len(r) /\ \A i \in DOMAIN r : r[i].first \in Nat /\ r[i].last \in Nat
      BY <1>1, RunFields
    <3>2. Len(r) \in DOMAIN r /\ 1 \in DOMAIN r
      <4>1. Len(r) # 0
        <5> HIDE DEF RunOfSids
        <5> QED
          BY <1>1, <1>8
      <4> QED
        BY <3>1, <4>1
    <3>3. 1..r[Len(r)].last \subseteq ever \cup SidsOf(r)
      BY <2>3, <3>2
    <3>4. r[1].first..r[Len(r)].last \subseteq SidsOf(r)
      BY <1>1, <2>2, <3>2, RunsCover
    <3>5. r[Len(r)].last # 0
      <4>1. CASE Len(r) = 1
        BY <1>1, <2>2, <3>1, <3>2, <4>1
      <4>2. CASE Len(r) # 1
        <5>1. Len(r) - 1 \in 1..(Len(r) - 1) /\ Len(r) - 1 \in DOMAIN r
          BY <3>1, <3>2, <4>2
        <5>2. r[(Len(r) - 1) + 1].first = r[Len(r) - 1].last + 1
          BY <2>2, <5>1
        <5>3. r[Len(r)].first = r[Len(r) - 1].last + 1
          BY <3>1, <5>2
        <5> QED
          BY <2>2, <3>1, <3>2, <5>1, <5>3
      <4> QED
        BY <4>1, <4>2
    <3> QED
      BY <3>1, <3>2, <3>5 DEF Last
  <2>5. SidsOf(r) \subseteq Nat \ {0}
    <3> SUFFICES ASSUME NEW s \in SidsOf(r)
                 PROVE  s \in Nat \ {0}
      OBVIOUS
    <3>1. PICK i \in DOMAIN r : s \in r[i].first..r[i].last
      BY SidsOfIs
    <3>2. r[i].first \in Nat /\ r[i].last \in Nat /\ Len(r) \in Nat /\ DOMAIN r = 1..Len(r)
      BY <1>1, RunFields
    <3>3. r[i].first # 0
      <4>1. CASE i = 1
        BY <1>1, <2>2, <4>1
      <4>2. CASE i # 1
        <5>1. i - 1 \in 1..(Len(r) - 1) /\ i - 1 \in DOMAIN r /\ (i - 1) + 1 = i
          BY <3>2, <4>2
        <5>2. r[(i - 1) + 1].first = r[i - 1].last + 1
          BY <2>2, <5>1
        <5>3. r[i - 1].last \in Nat
          BY <1>1, <5>1, RunFields
        <5> QED
          BY <5>1, <5>2, <5>3
      <4> QED
        BY <4>1, <4>2
    <3> QED
      BY <3>1, <3>2, <3>3
  <2>6. stored' # <<>> /\ Last(stored') = Last(r) /\ sess'.logSid = Last(r).last
    BY <1>4, <1>8
  <2>7. AllInOrder'
    BY <1>4, <1>6, <2>3 DEF AllInOrder, Ordered, Gapless
  <2>8. SidsOf(stored') \subseteq ever'
    OBVIOUS
  <2>9. StoredInOrder'
    BY <1>4, <2>4, <2>6, <2>7, <2>8 DEF StoredInOrder, Ordered
  <2> QED
    BY <1>1, <1>4, <1>6, <2>3, <2>4, <2>5, <2>6, <2>9 DEF Ordered
<1> QED
  BY <1>7, <1>8
\* The messages whose turn has come are stored in order.
LEMMA ReadyInTurn ==
  ASSUME sess.next \in Nat, NEW U, U \subseteq DataMsg, ChainOf(U),
         NEW m \in U, got \subseteq U, NEW R, TurnOf(m, R)
  PROVE  /\ R \in Seq(DataMsg)
         /\ \A i \in DOMAIN R : R[i] \in U /\ R[i].seq = sess.next + i - 1
         /\ \E a : InTurn(RunsOf(R), a) /\ (R # <<>> => Follows(a))
<1>1. /\ R \in Seq(DataMsg) /\ (\A n \in DOMAIN R : R[n] \in got \cup {m} /\ R[n].seq = sess.next + n - 1)
  BY DEF TurnOf
<1>2. Len(R) \in Nat /\ DOMAIN R = 1..Len(R) /\ (R = <<>> <=> Len(R) = 0)
  <2> HIDE DEF DataMsg
  <2> QED
    BY <1>1
<1>3. \A i \in DOMAIN R : R[i] \in U /\ R[i].seq = sess.next + i - 1
  BY <1>1
<1>4. /\ RunsOf(R) \in Seq(RunOfSids) /\ Len(RunsOf(R)) = Len(R)
      /\ \A i \in 1..Len(R) : RunsOf(R)[i].first = R[i].first /\ RunsOf(R)[i].last = R[i].last
  BY <1>1, RunsOfIs
<1>5. \A x \in U : x.first \in Nat /\ x.last \in Nat /\ x.seq \in Nat
  BY DataFields
<1>6. DOMAIN RunsOf(R) = 1..Len(R) /\ (RunsOf(R) = <<>> <=> R = <<>>)
  <2> HIDE DEF RunOfSids
  <2> QED
    BY <1>2, <1>4
<1>7. ASSUME NEW i \in 1..(Len(R) - 1)
      PROVE  RunsOf(R)[i + 1].first = RunsOf(R)[i].last + 1
  <2>1. i \in 1..Len(R) /\ i + 1 \in 1..Len(R) /\ i \in Nat
    BY <1>2
  <2>2. R[i] \in U /\ R[i + 1] \in U /\ R[i].seq = sess.next + i - 1 /\ R[i + 1].seq = sess.next + (i + 1) - 1
    BY <1>2, <1>3, <2>1
  <2>3. R[i + 1].seq = R[i].seq + 1
    BY <2>1, <2>2
  <2>4. R[i + 1].first = R[i].last + 1
    BY <2>2, <2>3 DEF ChainOf
  <2> QED
    BY <1>4, <2>1, <2>4
<1>8. ASSUME NEW i \in 1..Len(R)
      PROVE  RunsOf(R)[i].first <= RunsOf(R)[i].last
  <2>1. R[i] \in U
    BY <1>2, <1>3
  <2>2. R[i].first <= R[i].last
    BY <2>1 DEF ChainOf
  <2> QED
    BY <1>4, <2>2
<1>9. Ordered(RunsOf(R))
  BY <1>4, <1>6, <1>7, <1>8 DEF Ordered
<1>10. CASE R = <<>>
  <2>1. InTurn(RunsOf(R), 0)
    BY <1>6, <1>9, <1>10 DEF InTurn
  <2> QED
    BY <1>1, <1>3, <1>10, <2>1
<1>11. CASE R # <<>>
  <2>1. 1 \in DOMAIN R /\ 1 \in 1..Len(R)
    BY <1>2, <1>11
  <2>2. R[1] \in U /\ R[1].seq = sess.next + 1 - 1
    BY <1>3, <2>1
  <2>3. R[1].seq = sess.next
    BY <2>2
  <2>4. 0 < R[1].first /\ Follows(R[1].first - 1)
    BY <2>2, <2>3 DEF ChainOf
  <2>5. RunsOf(R)[1].first = (R[1].first - 1) + 1 /\ R[1].first - 1 \in Nat
    BY <1>4, <1>5, <2>1, <2>2, <2>4
  <2>6. InTurn(RunsOf(R), R[1].first - 1)
    BY <1>9, <2>5 DEF InTurn
  <2> QED
    BY <1>1, <1>3, <2>4, <2>6
<1> QED
  BY <1>10, <1>11

\* What comes with the message that is taken from wire c.
TakesData(c, m) ==
  /\ m \in DataMsg /\ toMc[c][1] = m /\ 1 \in DOMAIN toMc[c] /\ Head(toMc[c]) = m
  /\ ~sess.need /\ ~sess.closed /\ ~Reporting
  /\ m \in Unstored /\ Unstored \subseteq DataMsg /\ got \subseteq Unstored
  /\ ChainOf(Unstored) /\ (mq.open => SourceOf(Unstored, mq, mqConn))

LEMMA DataTaken ==
  ASSUME Inv, NEW c \in Conns, McGets(c, "data"), ~sess.need
  PROVE  TakesData(c, Head(toMc[c]))
<1>1. c \in conns /\ toMc[c] # <<>> /\ Head(toMc[c]).type = "data"
  BY DEF McGets
<1>2. ~sess.closed
  BY <1>1 DEF Inv, ClosedEmpty
<1>3. toMc \in [Conns -> Seq(ToMc)] /\ got \subseteq DataMsg
  BY DEF Inv, TypeOK
<1>4. Head(toMc[c]) = toMc[c][1] /\ 1 \in DOMAIN toMc[c] /\ Head(toMc[c]) \in ToMc
  <2>1. toMc[c] \in Seq(ToMc)
    BY <1>3
  <2> HIDE DEF ToMc
  <2> QED
    BY <1>1, <2>1
<1>5. Head(toMc[c]) \in DataMsg
  BY <1>1, <1>4, ByType
<1>6. ~Reporting
  BY <1>4, <1>5, Kinds, ReportIsOver
<1>7. ChainOf(Unstored) /\ (mq.open => SourceOf(Unstored, mq, mqConn))
  BY <1>2, <1>6 DEF Inv, Chained, GoesOn, Receiving
<1>8. Head(toMc[c]) \in Unstored
  <2>1. OnWire(toMc, Head(toMc[c]))
    BY <1>4 DEF OnWire
  <2> QED
    BY <1>5, <2>1 DEF Unstored
<1>9. Unstored \subseteq DataMsg /\ got \subseteq Unstored
  BY <1>3 DEF Unstored
<1> QED
  BY <1>2, <1>4, <1>5, <1>6, <1>7, <1>8, <1>9 DEF TakesData

LEMMA ReadyOf ==
  ASSUME Inv, NEW c \in Conns, NEW m, TakesData(c, m)
  PROVE  TurnOf(m, Ready(m))
<1>1. got \subseteq DataMsg /\ IsFiniteSet(got) /\ sess.next \in Nat
  BY DEF Inv, TypeOK, IsSession
<1> QED
  BY <1>1, ReadyIs DEF TakesData

\* The fields of the session that a save changes.
LEMMA SessionSaves ==
  ASSUME IsSession(sess), NEW n \in Nat, NEW l, NEW b,
         sess' = [sess EXCEPT !.next = n, !.logSid = l, !.bytes = b]
  PROVE  /\ l \in Nat => IsSession(sess)'
         /\ sess'.need = sess.need /\ sess'.closed = sess.closed /\ sess'.next = n /\ sess'.logSid = l
<1>1. sess = [closed |-> sess.closed, need |-> sess.need, known |-> sess.known, next |-> sess.next,
              logSid |-> sess.logSid, age |-> sess.age, bytes |-> sess.bytes, limit |-> sess.limit]
  BY DEF IsSession
<1>2. PICK d : d = [sess EXCEPT !.next = n]
  OBVIOUS
<1>3. d = [closed |-> sess.closed, need |-> sess.need, known |-> sess.known, next |-> n,
           logSid |-> sess.logSid, age |-> sess.age, bytes |-> sess.bytes, limit |-> sess.limit]
  BY <1>1, <1>2
<1>4. PICK e : e = [d EXCEPT !.logSid = l]
  OBVIOUS
<1>5. e = [closed |-> sess.closed, need |-> sess.need, known |-> sess.known, next |-> n,
           logSid |-> l, age |-> sess.age, bytes |-> sess.bytes, limit |-> sess.limit]
  BY <1>3, <1>4
<1>6. PICK f : f = [e EXCEPT !.bytes = b]
  OBVIOUS
<1>7. f = [closed |-> sess.closed, need |-> sess.need, known |-> sess.known, next |-> n,
           logSid |-> l, age |-> sess.age, bytes |-> b, limit |-> sess.limit]
  BY <1>5, <1>6
<1>8. sess' = f
  BY <1>2, <1>4, <1>6
<1>9. /\ sess'.closed = sess.closed /\ sess'.need = sess.need /\ sess'.known = sess.known
      /\ sess'.next = n /\ sess'.logSid = l /\ sess'.age = sess.age
      /\ sess'.bytes = b /\ sess'.limit = sess.limit
  BY <1>7, <1>8
<1>10. sess' = [closed |-> sess'.closed, need |-> sess'.need, known |-> sess'.known, next |-> sess'.next,
                logSid |-> sess'.logSid, age |-> sess'.age, bytes |-> sess'.bytes, limit |-> sess'.limit]
  BY <1>7, <1>8, <1>9
<1> QED
  BY <1>9, <1>10 DEF IsSession

LEMMA SessionSavesAndEnds ==
  ASSUME IsSession(sess), NEW n \in Nat, NEW l, NEW b,
         sess' = [sess EXCEPT !.need = TRUE, !.next = n, !.logSid = l, !.bytes = b]
  PROVE  /\ l \in Nat => IsSession(sess)'
         /\ sess'.need /\ sess'.closed = sess.closed /\ sess'.next = n /\ sess'.logSid = l
<1>1. sess = [closed |-> sess.closed, need |-> sess.need, known |-> sess.known, next |-> sess.next,
              logSid |-> sess.logSid, age |-> sess.age, bytes |-> sess.bytes, limit |-> sess.limit]
  BY DEF IsSession
<1>2. PICK c : c = [sess EXCEPT !.need = TRUE]
  OBVIOUS
<1>3. c = [closed |-> sess.closed, need |-> TRUE, known |-> sess.known, next |-> sess.next,
           logSid |-> sess.logSid, age |-> sess.age, bytes |-> sess.bytes, limit |-> sess.limit]
  BY <1>1, <1>2
<1>4. PICK d : d = [c EXCEPT !.next = n]
  OBVIOUS
<1>5. d = [closed |-> sess.closed, need |-> TRUE, known |-> sess.known, next |-> n,
           logSid |-> sess.logSid, age |-> sess.age, bytes |-> sess.bytes, limit |-> sess.limit]
  BY <1>3, <1>4
<1>6. PICK e : e = [d EXCEPT !.logSid = l]
  OBVIOUS
<1>7. e = [closed |-> sess.closed, need |-> TRUE, known |-> sess.known, next |-> n,
           logSid |-> l, age |-> sess.age, bytes |-> sess.bytes, limit |-> sess.limit]
  BY <1>5, <1>6
<1>8. PICK f : f = [e EXCEPT !.bytes = b]
  OBVIOUS
<1>9. f = [closed |-> sess.closed, need |-> TRUE, known |-> sess.known, next |-> n,
           logSid |-> l, age |-> sess.age, bytes |-> b, limit |-> sess.limit]
  BY <1>7, <1>8
<1>10. sess' = f
  BY <1>2, <1>4, <1>6, <1>8
<1>11. /\ sess'.closed = sess.closed /\ sess'.need = TRUE /\ sess'.known = sess.known
       /\ sess'.next = n /\ sess'.logSid = l /\ sess'.age = sess.age
       /\ sess'.bytes = b /\ sess'.limit = sess.limit
  BY <1>9, <1>10
<1>12. sess' = [closed |-> sess'.closed, need |-> sess'.need, known |-> sess'.known, next |-> sess'.next,
                logSid |-> sess'.logSid, age |-> sess'.age, bytes |-> sess'.bytes, limit |-> sess'.limit]
  BY <1>9, <1>10, <1>11
<1> QED
  BY <1>11, <1>12 DEF IsSession
\* What receiving m on connection c does, when R are the messages that are
\* stored by save s.
Stored(c, m, R, s) ==
  /\ stored' = s.stored /\ ever' = ever \cup SidsOf(s.stored) /\ replies' = s.waiting
  /\ got' = (got \cup {m}) \ ToSet(R)
  /\ sess' = [sess EXCEPT !.next = sess.next + Len(R), !.logSid = s.logSid, !.bytes = s.bytes]
  /\ toMq' = [d \in Conns |-> IF mq.open THEN toMq[d] \o s.sent[d] ELSE toMq[d]]
  /\ toMc' = [toMc EXCEPT ![c] = Tail(@)]
  /\ conns' = conns /\ stale' = stale /\ top' = top /\ mq' = mq /\ mqConn' = mqConn

LEMMA RepliesSent ==
  ASSUME toMq \in [Conns -> Seq(ToMq)], NEW x \in [Conns -> Seq(ReplyMsg)],
         toMq' = [d \in Conns |-> IF mq.open THEN toMq[d] \o x[d] ELSE toMq[d]]
  PROVE  /\ toMq' \in [Conns -> Seq(ToMq)]
         /\ \A d \in Conns : \A i \in DOMAIN toMq'[d] :
              \/ i \in DOMAIN toMq[d] /\ toMq'[d][i] = toMq[d][i]
              \/ \E k \in DOMAIN x[d] : toMq'[d][i] = x[d][k]
<1>1. CASE mq.open
  <2>1. x \in [Conns -> Seq(ToMq)]
    <3>1. ASSUME NEW d \in Conns
          PROVE  x[d] \in Seq(ToMq)
      <4>1. x[d] \in Seq(ReplyMsg) /\ ReplyMsg \subseteq ToMq
        BY DEF ToMq
      <4> HIDE DEF ToMq, ReplyMsg
      <4> QED
        BY <4>1
    <3> QED
      BY <3>1
  <2>2. toMq' = [d \in Conns |-> toMq'[d]] /\ \A d \in Conns : toMq'[d] = toMq[d] \o x[d]
    BY <1>1
  <2> QED
    BY <2>1, <2>2, ConcatWire
<1>2. CASE ~mq.open
  <2>1. toMq' = [d \in Conns |-> toMq[d]]
    BY <1>2
  <2>2. toMq' = toMq
    BY <2>1
  <2> QED
    BY <2>2
<1> QED
  BY <1>1, <1>2

LEMMA StoredKeeps ==
  ASSUME Inv, NEW c \in Conns, NEW m, TakesData(c, m), NEW R, TurnOf(m, R),
         NEW s, SaveOf(R, <<>>, s), Stored(c, m, R, s)
  PROVE  Inv'
<1>1. /\ stored' = s.stored /\ ever' = ever \cup SidsOf(s.stored) /\ replies' = s.waiting
      /\ got' = (got \cup {m}) \ ToSet(R)
      /\ sess' = [sess EXCEPT !.next = sess.next + Len(R), !.logSid = s.logSid, !.bytes = s.bytes]
      /\ conns' = conns /\ stale' = stale /\ top' = top /\ mq' = mq /\ mqConn' = mqConn
  BY DEF Stored
<1>2. TypeOK /\ StoredInOrder /\ PositionStored
  BY DEF Inv
<1>3. /\ sess.next \in Nat /\ got \subseteq DataMsg /\ IsFiniteSet(got) /\ IsSession(sess)
      /\ toMc \in [Conns -> Seq(ToMc)] /\ toMq \in [Conns -> Seq(ToMq)] /\ replies \in Seq(Waiting)
  BY <1>2 DEF TypeOK, IsSession
<1>4. /\ m \in DataMsg /\ m \in Unstored /\ ~sess.need /\ ~sess.closed /\ ~Reporting
      /\ Unstored \subseteq DataMsg /\ got \subseteq Unstored
      /\ ChainOf(Unstored) /\ (mq.open => SourceOf(Unstored, mq, mqConn))
  BY DEF TakesData
<1>5. /\ R \in Seq(DataMsg)
      /\ \A i \in DOMAIN R : R[i] \in Unstored /\ R[i].seq = sess.next + i - 1
      /\ \E a : InTurn(RunsOf(R), a) /\ (R # <<>> => Follows(a))
  BY <1>3, <1>4, ReadyInTurn
<1>6. PICK a : InTurn(RunsOf(R), a) /\ (R # <<>> => Follows(a))
  BY <1>5
<1>7. /\ Len(R) \in Nat /\ DOMAIN R = 1..Len(R) /\ (R = <<>> <=> Len(R) = 0)
      /\ Len(RunsOf(R)) = Len(R) /\ DOMAIN RunsOf(R) = 1..Len(R) /\ (RunsOf(R) = <<>> <=> R = <<>>)
      /\ \A i \in 1..Len(R) : RunsOf(R)[i].last = R[i].last
  <2>1. Len(R) \in Nat /\ DOMAIN R = 1..Len(R) /\ (R = <<>> <=> Len(R) = 0)
    <3> HIDE DEF DataMsg
    <3> QED
      BY <1>5
  <2>2. /\ RunsOf(R) \in Seq(RunOfSids) /\ Len(RunsOf(R)) = Len(R)
        /\ \A i \in 1..Len(R) : RunsOf(R)[i].last = R[i].last
    BY <1>5, RunsOfIs
  <2>3. DOMAIN RunsOf(R) = 1..Len(R) /\ (RunsOf(R) = <<>> <=> R = <<>>)
    <3> HIDE DEF RunOfSids
    <3> QED
      BY <2>1, <2>2
  <2> QED
    BY <2>1, <2>2, <2>3
<1>8. RunsOf(R) \o <<>> = RunsOf(R)
  <2>1. RunsOf(R) \in Seq(RunOfSids)
    BY <1>6 DEF InTurn, Ordered
  <2> HIDE DEF RunOfSids
  <2> QED
    BY <2>1
<1>9. /\ stored' = stored \o RunsOf(R)
      /\ s.logSid = IF RunsOf(R) = <<>> THEN sess.logSid ELSE Last(RunsOf(R)).last
      /\ s.waiting \in Seq(Waiting) /\ (R = <<>> => s.waiting = replies)
      /\ \A k \in DOMAIN s.waiting :
           \/ k \in DOMAIN replies /\ s.waiting[k] = replies[k]
           \/ \E i \in DOMAIN R : s.waiting[k].conn = R[i].conn /\ s.waiting[k].seq = R[i].seq
      /\ s.sent \in [Conns -> Seq(ReplyMsg)]
      /\ \A d \in Conns : \A k \in DOMAIN s.sent[d] :
           \E i \in DOMAIN R : R[i].conn = d /\ s.sent[d][k] = Reply(R[i].seq)
  BY <1>1, <1>8 DEF SaveOf
<1>10. /\ sess'.need = sess.need /\ sess'.closed = sess.closed
       /\ sess'.next = sess.next + Len(R) /\ sess'.logSid = s.logSid /\ (s.logSid \in Nat => IsSession(sess)')
  <2>1. sess.next + Len(R) \in Nat
    BY <1>3, <1>7
  <2> QED
    BY <1>1, <1>3, <2>1, SessionSaves
<1>11. /\ StoredInOrder' /\ stored' \in Seq(RunOfSids) /\ ever' \subseteq Nat \ {0} /\ ever \subseteq ever'
       /\ sess'.logSid \in Nat
       /\ \A i \in DOMAIN R : 1..R[i].last \subseteq ever'
  <2>1. RunsOf(R) # <<>> => Follows(a)
    BY <1>6, <1>7
  <2>2. ever' = ever \cup SidsOf(stored')
    BY <1>1
  <2>3. sess'.logSid = IF RunsOf(R) = <<>> THEN sess.logSid ELSE Last(RunsOf(R)).last
    BY <1>9, <1>10
  <2>4. stale' = stale /\ (RunsOf(R) = <<>> => replies' = replies)
    BY <1>1, <1>7, <1>9
  <2>5. /\ StoredInOrder' /\ stored' \in Seq(RunOfSids) /\ ever' \subseteq Nat \ {0} /\ ever \subseteq ever'
        /\ sess'.logSid \in Nat
        /\ \A i \in DOMAIN RunsOf(R) : 1..RunsOf(R)[i].last \subseteq ever'
    BY <1>2, <1>6, <1>9, <2>1, <2>2, <2>3, <2>4, StoresInOrder
  <2>6. ASSUME NEW i \in DOMAIN R
        PROVE  1..R[i].last \subseteq ever'
    <3>1. i \in DOMAIN RunsOf(R) /\ RunsOf(R)[i].last = R[i].last
      BY <1>7
    <3>2. 1..RunsOf(R)[i].last \subseteq ever'
      BY <2>5, <3>1
    <3> QED
      BY <3>1, <3>2
  <2> QED
    BY <2>5, <2>6
<1>12. /\ toMc' \in [Conns -> Seq(ToMc)]
       /\ \A d \in Conns : \A i \in DOMAIN toMc'[d] : \E k \in DOMAIN toMc[d] : toMc'[d][i] = toMc[d][k]
  <2>1. toMc[c] # <<>>
    <3>1. \A q : q = <<>> => DOMAIN q = {}
      OBVIOUS
    <3> QED
      BY <3>1 DEF TakesData
  <2>2. toMc' = [toMc EXCEPT ![c] = Tail(@)]
    BY DEF Stored
  <2>3. /\ toMc' \in [Conns -> Seq(ToMc)]
        /\ \A d \in Conns : \A i \in DOMAIN toMc'[d] :
              IF d = c THEN i + 1 \in DOMAIN toMc[d] /\ toMc'[d][i] = toMc[d][i + 1]
                       ELSE i \in DOMAIN toMc[d] /\ toMc'[d][i] = toMc[d][i]
    BY <1>3, <2>1, <2>2, TailWire
  <2>4. ASSUME NEW d \in Conns, NEW i \in DOMAIN toMc'[d]
        PROVE  \E k \in DOMAIN toMc[d] : toMc'[d][i] = toMc[d][k]
    BY <2>3
  <2> QED
    BY <2>3, <2>4
<1>13. Unstored' \in SUBSET Unstored
  BY <1>1, <1>4, <1>12 DEF Unstored, OnWire
<1>14. /\ toMq' \in [Conns -> Seq(ToMq)]
       /\ \A d \in Conns : \A i \in DOMAIN toMq'[d] :
            \/ i \in DOMAIN toMq[d] /\ toMq'[d][i] = toMq[d][i]
            \/ \E k \in DOMAIN s.sent[d] : toMq'[d][i] = s.sent[d][k]
  <2>1. toMq' = [d \in Conns |-> IF mq.open THEN toMq[d] \o s.sent[d] ELSE toMq[d]]
    BY DEF Stored
  <2>2. PICK x : x = s.sent
    OBVIOUS
  <2>3. toMq' = [d \in Conns |-> IF mq.open THEN toMq[d] \o x[d] ELSE toMq[d]]
    BY <2>1, <2>2
  <2>4. x \in [Conns -> Seq(ReplyMsg)]
    BY <1>9, <2>2
  <2> QED
    BY <1>3, <2>2, <2>3, <2>4, RepliesSent, ZenonT(40)
<1>15. \A i \in DOMAIN R : R[i].seq \in Nat
  BY <1>4, <1>5, DataFields
<1>16. ASSUME NEW d \in Conns, NEW i \in DOMAIN toMq'[d]
       PROVE  \/ i \in DOMAIN toMq[d] /\ toMq'[d][i] = toMq[d][i]
              \/ /\ toMq'[d][i] \notin ReportMsg
                 /\ \E k \in DOMAIN R : toMq'[d][i].seq = R[k].seq
  <2>1. CASE i \in DOMAIN toMq[d] /\ toMq'[d][i] = toMq[d][i]
    BY <2>1
  <2>2. CASE \E k \in DOMAIN s.sent[d] : toMq'[d][i] = s.sent[d][k]
    <3>1. PICK k \in DOMAIN s.sent[d] : toMq'[d][i] = s.sent[d][k]
      BY <2>2
    <3>2. PICK j \in DOMAIN R : s.sent[d][k] = Reply(R[j].seq)
      BY <1>9
    <3>3. Reply(R[j].seq) \in ReplyMsg /\ Reply(R[j].seq).seq = R[j].seq
      BY <1>15, ReplyFields
    <3>4. Reply(R[j].seq) \notin ReportMsg
      BY <3>3, Kinds
    <3> QED
      BY <3>1, <3>2, <3>3, <3>4
  <2> QED
    BY <1>14, <2>1, <2>2
<1>17. ~Reporting'
  BY <1>4, <1>16 DEF Reporting
<1>18. got' \subseteq DataMsg /\ IsFiniteSet(got')
  <2>1. IsFiniteSet(got \cup {m})
    BY <1>3, FS_AddElement
  <2>2. got' \subseteq got \cup {m}
    BY <1>1
  <2>3. IsFiniteSet(got')
    BY <2>1, <2>2, FS_Subset
  <2> QED
    BY <1>3, <1>4, <2>2, <2>3
<1>19. TypeOK'
  <2>1. /\ conns' \subseteq Conns /\ replies' \in Seq(Waiting) /\ top' \in Nat /\ mq' \in MqSession
        /\ mqConn' \in [Conns -> Handler] /\ stale' \in BOOLEAN
    BY <1>1, <1>2, <1>9 DEF TypeOK
  <2>2. IsSession(sess)'
    BY <1>10, <1>11
  <2> QED
    BY <1>11, <1>12, <1>14, <1>18, <2>1, <2>2 DEF TypeOK
<1>20. ClosedEmpty' /\ PositionStored'
  BY <1>1, <1>2, <1>4, <1>10, <1>11 DEF ClosedEmpty, PositionStored
<1>21. ReportFirst'
  BY <1>17 DEF Reporting, ReportFirst
<1>22. R = <<>> => \A b : Follows(b) => (Follows(b))'
  <2>1. R = <<>> => stored' = stored /\ sess'.logSid = sess.logSid
    <3>1. \A q \in Seq(RunOfSids) : q \o <<>> = q
      <4> HIDE DEF RunOfSids
      <4> QED
        OBVIOUS
    <3> QED
      BY <1>2, <1>7, <1>9, <1>10, <3>1 DEF TypeOK
  <2> QED
    BY <1>11, <2>1 DEF Follows
<1>23. ASSUME R # <<>>
       PROVE  /\ R[Len(R)] \in Unstored /\ R[Len(R)].seq = sess.next + Len(R) - 1
              /\ (Follows(R[Len(R)].last))'
  <2>1. Len(R) \in DOMAIN R
    BY <1>7, <1>23
  <2>2. s.logSid = R[Len(R)].last
    <3>1. RunsOf(R) # <<>> /\ Last(RunsOf(R)) = RunsOf(R)[Len(R)]
      BY <1>7, <1>23 DEF Last
    <3> QED
      BY <1>7, <1>9, <2>1, <3>1
  <2>3. 1..R[Len(R)].last \subseteq ever'
    BY <1>11, <2>1
  <2> QED
    BY <1>5, <1>10, <2>1, <2>2, <2>3 DEF Follows
<1>24. ChainOf(Unstored)'
  <2>1. ChainOf(Unstored')
    BY <1>4, <1>13, Less
  <2>2. ASSUME NEW x \in Unstored', x.seq = sess'.next
        PROVE  (Follows(x.first - 1))'
    <3>1. x \in Unstored /\ x.seq = sess.next + Len(R)
      BY <1>10, <1>13, <2>2
    <3>2. CASE R = <<>>
      <4>1. x.seq = sess.next
        BY <1>3, <1>7, <3>1, <3>2
      <4>2. Follows(x.first - 1)
        BY <1>4, <3>1, <4>1 DEF ChainOf
      <4> QED
        BY <1>22, <3>2, <4>2
    <3>3. CASE R # <<>>
      <4>1. R[Len(R)] \in Unstored /\ R[Len(R)].seq = sess.next + Len(R) - 1 /\ (Follows(R[Len(R)].last))'
        BY <1>23, <3>3
      <4>2. x.seq = R[Len(R)].seq + 1
        <5>1. sess.next \in Nat /\ Len(R) \in Nat
          BY <1>3, <1>7
        <5>2. x.seq = sess.next + Len(R) /\ R[Len(R)].seq = sess.next + Len(R) - 1
          BY <3>1, <4>1
        <5> QED
          BY <5>1, <5>2
      <4>3. x.first = R[Len(R)].last + 1
        BY <1>4, <3>1, <4>1, <4>2 DEF ChainOf
      <4>4. R[Len(R)].last \in Nat
        BY <1>4, <4>1, DataFields
      <4>5. x.first - 1 = R[Len(R)].last
        BY <4>3, <4>4
      <4> QED
        BY <4>1, <4>5
    <3> QED
      BY <3>2, <3>3
  <2> QED
    BY <2>1, <2>2 DEF ChainOf
<1>25. ASSUME mq.open
       PROVE  SourceOf(Unstored, mq, mqConn)'
  <2>1. SourceOf(Unstored, mq, mqConn) /\ mq \in MqSession
    BY <1>2, <1>4, <1>25 DEF TypeOK
  <2>2. SourceOf(Unstored', mq, mqConn)
    BY <1>13, <2>1, Less
  <2>3. mq.seq \in Nat /\ mq.at \in Nat
    BY <2>1, SessionFields
  <2>4. sess'.next <= mq.seq /\ (sess'.next = mq.seq => (Follows(mq.at))')
    <3>1. CASE R = <<>>
      <4>1. sess'.next = sess.next
        BY <1>3, <1>7, <1>10, <3>1
      <4>2. sess.next <= mq.seq /\ (sess.next = mq.seq => Follows(mq.at))
        BY <2>1 DEF SourceOf
      <4> QED
        BY <1>1, <1>22, <3>1, <4>1, <4>2
    <3>2. CASE R # <<>>
      <4>1. R[Len(R)] \in Unstored /\ R[Len(R)].seq = sess.next + Len(R) - 1 /\ (Follows(R[Len(R)].last))'
        BY <1>23, <3>2
      <4>2. R[Len(R)].seq < mq.seq /\ (R[Len(R)].seq + 1 = mq.seq => R[Len(R)].last = mq.at)
        BY <2>1, <4>1 DEF SourceOf
      <4>3. sess'.next = R[Len(R)].seq + 1 /\ R[Len(R)].seq \in Nat
        <5>1. sess.next \in Nat /\ Len(R) \in Nat
          BY <1>3, <1>7
        <5>2. sess'.next = sess.next + Len(R) /\ R[Len(R)].seq = sess.next + Len(R) - 1
          BY <1>10, <4>1
        <5>3. R[Len(R)].seq \in Nat
          BY <1>4, <4>1, DataFields
        <5> QED
          BY <5>1, <5>2, <5>3
      <4>4. sess'.next <= mq.seq /\ (sess'.next = mq.seq => R[Len(R)].last = mq.at)
        BY <2>3, <4>2, <4>3
      <4> QED
        BY <1>1, <4>1, <4>4
    <3> QED
      BY <3>1, <3>2
  <2> QED
    BY <1>1, <2>2, <2>4 DEF SourceOf
<1>26. Chained' /\ GoesOn'
  BY <1>1, <1>24, <1>25 DEF Chained, GoesOn
<1>27. AcksTrue'
  <2> SUFFICES ASSUME mq.open, ~stale
               PROVE  /\ \A d \in Conns : \A i \in DOMAIN toMq'[d] :
                           toMq'[d][i] \in ReplyMsg => (Acked(mq, mqConn, d, toMq[d][i].seq))'
                      /\ \A i \in DOMAIN replies' : (Acked(mq, mqConn, replies[i].conn, replies[i].seq))'
    BY <1>1 DEF AcksTrue
  <2>1. /\ \A d \in Conns : \A i \in DOMAIN toMq[d] :
             toMq[d][i] \in ReplyMsg => Acked(mq, mqConn, d, toMq[d][i].seq)
        /\ \A i \in DOMAIN replies : Acked(mq, mqConn, replies[i].conn, replies[i].seq)
    BY DEF Inv, AcksTrue
  <2>2. \A d \in Conns : \A n : Acked(mq, mqConn, d, n) => (n < mq.seq /\ (n = mqConn[d].sentSeq => 1..mqConn[d].lastSid \subseteq ever'))
    BY <1>11 DEF Acked
  <2>3. ASSUME NEW d \in Conns, NEW k \in DOMAIN R
        PROVE  R[k].seq < mq.seq /\ (R[k].seq = mqConn[d].sentSeq => 1..mqConn[d].lastSid \subseteq ever')
    <3>1. R[k] \in Unstored /\ 1..R[k].last \subseteq ever'
      BY <1>5, <1>11
    <3>2. R[k].seq < mq.seq /\ (mqConn[d].sentSeq = R[k].seq => mqConn[d].lastSid <= R[k].last)
      BY <1>4, <3>1 DEF SourceOf
    <3>3. R[k].last \in Nat /\ mqConn[d].lastSid \in Nat
      <4>1. mqConn[d] \in Handler
        BY <1>2 DEF TypeOK
      <4> QED
        BY <1>4, <3>1, <4>1, DataFields, HandlerFields
    <3>4. mqConn[d].lastSid <= R[k].last => 1..mqConn[d].lastSid \subseteq 1..R[k].last
      BY <3>3
    <3> QED
      BY <3>1, <3>2, <3>4
  <2>4. ASSUME NEW d \in Conns, NEW i \in DOMAIN toMq'[d], toMq'[d][i] \in ReplyMsg
        PROVE  /\ toMq'[d][i].seq < mq.seq
               /\ toMq'[d][i].seq = mqConn[d].sentSeq => 1..mqConn[d].lastSid \subseteq ever'
    <3>1. CASE i \in DOMAIN toMq[d] /\ toMq'[d][i] = toMq[d][i]
      <4>1. Acked(mq, mqConn, d, toMq[d][i].seq)
        BY <2>1, <2>4, <3>1
      <4>2. /\ toMq[d][i].seq < mq.seq
            /\ toMq[d][i].seq = mqConn[d].sentSeq => 1..mqConn[d].lastSid \subseteq ever'
        BY <2>2, <4>1
      <4> QED
        BY <3>1, <4>2
    <3>2. CASE \E k \in DOMAIN R : toMq'[d][i].seq = R[k].seq
      BY <2>3, <3>2
    <3> QED
      BY <1>16, <3>1, <3>2
  <2>5. ASSUME NEW i \in DOMAIN replies'
        PROVE  /\ replies'[i].seq < mq.seq
               /\ replies'[i].seq = mqConn[replies'[i].conn].sentSeq => 1..mqConn[replies'[i].conn].lastSid \subseteq ever'
    <3>1. CASE i \in DOMAIN replies /\ replies'[i] = replies[i]
      <4>1. Acked(mq, mqConn, replies[i].conn, replies[i].seq) /\ replies[i].conn \in Conns
        BY <1>3, <2>1, <3>1, WaitingFields
      <4>2. /\ replies[i].seq < mq.seq
            /\ replies[i].seq = mqConn[replies[i].conn].sentSeq => 1..mqConn[replies[i].conn].lastSid \subseteq ever'
        BY <2>2, <4>1
      <4> QED
        BY <3>1, <4>2
    <3>2. CASE \E k \in DOMAIN R : replies'[i].conn = R[k].conn /\ replies'[i].seq = R[k].seq
      <4>1. PICK k \in DOMAIN R : replies'[i].conn = R[k].conn /\ replies'[i].seq = R[k].seq
        BY <3>2
      <4>2. R[k].conn \in Conns
        BY <1>4, <1>5, DataFields
      <4>3. R[k].seq < mq.seq /\ (R[k].seq = mqConn[R[k].conn].sentSeq => 1..mqConn[R[k].conn].lastSid \subseteq ever')
        BY <2>3, <4>2
      <4> QED
        BY <4>1, <4>3
    <3> QED
      BY <1>1, <1>9, <3>1, <3>2
  <2> QED
    BY <1>1, <2>4, <2>5 DEF Acked
<1> QED
  BY <1>11, <1>19, <1>20, <1>21, <1>26, <1>27 DEF Inv

LEMMA ReceiveKeeps ==
  ASSUME Inv, NEW c \in Conns, Receive(c)
  PROVE  Inv'
<1> DEFINE m == Head(toMc[c])
<1>1. /\ McGets(c, "data") /\ ~sess.need
      /\ Stored(c, m, Ready(m), Save(Ready(m), <<>>))
  BY DEF Receive, Keep, Stored, mqVars
<1>2. TakesData(c, m)
  BY <1>1, DataTaken
<1> HIDE DEF m
<1>3. TurnOf(m, Ready(m))
  BY <1>2, ReadyOf
<1>4. SaveOf(Ready(m), <<>>, Save(Ready(m), <<>>))
  <2>1. replies \in Seq(Waiting) /\ Ready(m) \in Seq(DataMsg)
    BY <1>3 DEF Inv, TypeOK, TurnOf
  <2> QED
    BY <2>1, SaveIs
<1> QED
  BY <1>1, <1>2, <1>3, <1>4, StoredKeeps
\* Runs that follow one another do so when the last of them is cut short.
LEMMA CutShort ==
  ASSUME NEW r, NEW a, InTurn(r, a), NEW t \in Seq(RunOfSids), Len(t) <= Len(r),
         \A i \in 1..Len(t) : t[i].first = r[i].first /\ t[i].first <= t[i].last,
         \A i \in 1..(Len(t) - 1) : t[i].last = r[i].last
  PROVE  InTurn(t, a) /\ (t # <<>> => r # <<>>)
<1>1. r \in Seq(RunOfSids) /\ a \in Nat /\ (r # <<>> => r[1].first = a + 1)
  BY DEF InTurn, Ordered
<1>2. /\ Len(t) \in Nat /\ DOMAIN t = 1..Len(t) /\ (t = <<>> <=> Len(t) = 0)
      /\ Len(r) \in Nat /\ (r = <<>> <=> Len(r) = 0)
  <2> HIDE DEF RunOfSids
  <2> QED
    BY <1>1
<1>3. ASSUME NEW i \in 1..(Len(t) - 1)
      PROVE  t[i + 1].first = t[i].last + 1
  <2>1. i \in 1..(Len(r) - 1) /\ i + 1 \in 1..Len(t)
    BY <1>2
  <2>2. r[i + 1].first = r[i].last + 1
    BY <2>1 DEF InTurn, Ordered
  <2>3. t[i + 1].first = r[i + 1].first /\ t[i].last = r[i].last
    BY <2>1
  <2> QED
    BY <2>2, <2>3
<1>4. \A i \in DOMAIN t : t[i].first <= t[i].last
  BY <1>2
<1>5. t # <<>> => r # <<>> /\ t[1].first = a + 1
  <2>1. t # <<>> => 1 \in 1..Len(t) /\ r # <<>>
    BY <1>2
  <2> QED
    BY <1>1, <2>1
<1> QED
  BY <1>1, <1>3, <1>4, <1>5 DEF InTurn, Ordered

\* Of the messages R those before the n-th, and p sids of the n-th.
Beginning(R, n, p, ms, part) ==
  /\ n \in DOMAIN R /\ p \in 0..Size(R[n])
  /\ ms = SubSeq(R, 1, n - 1)
  /\ part = IF p = 0 THEN <<>> ELSE <<Run(R[n].first, R[n].first + p - 1)>>

LEMMA PartInTurn ==
  ASSUME NEW R \in Seq(DataMsg), NEW a, InTurn(RunsOf(R), a),
         NEW n, NEW p, NEW ms, NEW part, Beginning(R, n, p, ms, part)
  PROVE  /\ ms \in Seq(DataMsg) /\ InTurn(RunsOf(ms) \o part, a)
         /\ RunsOf(ms) \o part = <<>> => ms = <<>>
         /\ R # <<>>
<1>0. /\ n \in DOMAIN R /\ p \in 0..Size(R[n]) /\ ms = SubSeq(R, 1, n - 1)
      /\ part = IF p = 0 THEN <<>> ELSE <<Run(R[n].first, R[n].first + p - 1)>>
  BY DEF Beginning
<1>1. Len(R) \in Nat /\ DOMAIN R = 1..Len(R) /\ n \in 1..Len(R) /\ \A i \in 1..Len(R) : R[i] \in DataMsg
  <2> HIDE DEF DataMsg
  <2> QED
    BY <1>0
<1>2. /\ ms \in Seq(DataMsg) /\ Len(ms) = n - 1
      /\ \A i \in 1..(n - 1) : ms[i] = R[i] /\ i \in 1..Len(R)
  <2>1. ms = [i \in 1..(n - 1) |-> R[i + 1 - 1]]
    BY <1>0, <1>1
  <2>2. \A i \in 1..(n - 1) : i + 1 - 1 = i /\ i \in 1..Len(R)
    BY <1>1
  <2>3. ms = [i \in 1..(n - 1) |-> R[i]]
    BY <2>1, <2>2
  <2>4. n - 1 \in Nat /\ \A i \in 1..(n - 1) : R[i] \in DataMsg
    BY <1>1, <2>2
  <2> HIDE DEF DataMsg
  <2> QED
    BY <2>2, <2>3, <2>4
<1>3. R[n].first \in Nat /\ R[n].last \in Nat
  BY <1>1, DataFields
<1>4. /\ part \in Seq(RunOfSids) /\ (p = 0 => Len(part) = 0)
      /\ p # 0 => Len(part) = 1 /\ part[1] = Run(R[n].first, R[n].first + p - 1)
  <2>1. p \in Nat
    BY <1>0, <1>3 DEF Size
  <2>2. p # 0 => Run(R[n].first, R[n].first + p - 1) \in RunOfSids
    BY <1>3, <2>1 DEF Run, RunOfSids
  <2> HIDE DEF RunOfSids, Run
  <2> QED
    BY <1>0, <2>2
<1>5. /\ RunsOf(ms) \in Seq(RunOfSids) /\ Len(RunsOf(ms)) = n - 1
      /\ \A i \in 1..(n - 1) : RunsOf(ms)[i].first = R[i].first /\ RunsOf(ms)[i].last = R[i].last
  <2>1. /\ RunsOf(ms) \in Seq(RunOfSids) /\ Len(RunsOf(ms)) = Len(ms)
        /\ \A i \in 1..Len(ms) : RunsOf(ms)[i].first = ms[i].first /\ RunsOf(ms)[i].last = ms[i].last
    BY <1>2, RunsOfIs
  <2> QED
    BY <1>2, <2>1
<1>6. /\ RunsOf(R) \in Seq(RunOfSids) /\ Len(RunsOf(R)) = Len(R)
      /\ \A i \in 1..Len(R) : RunsOf(R)[i].first = R[i].first /\ RunsOf(R)[i].last = R[i].last
  BY RunsOfIs
<1>7. \A i \in 1..Len(R) : R[i].first <= R[i].last
  <2>1. \A i \in DOMAIN RunsOf(R) : RunsOf(R)[i].first <= RunsOf(R)[i].last
    BY DEF InTurn, Ordered
  <2>2. DOMAIN RunsOf(R) = 1..Len(R)
    <3> HIDE DEF RunOfSids
    <3> QED
      BY <1>1, <1>6
  <2> QED
    BY <1>6, <2>1, <2>2
<1>8. PICK t : t = RunsOf(ms) \o part
  OBVIOUS
<1>9. /\ t \in Seq(RunOfSids) /\ Len(t) = (n - 1) + Len(part)
      /\ \A i \in 1..(n - 1) : t[i] = RunsOf(ms)[i]
      /\ Len(part) = 1 => t[n] = part[1]
      /\ t = <<>> <=> Len(t) = 0
  <2>1. n - 1 \in Nat /\ Len(part) \in Nat /\ (n - 1) + 1 = n
    BY <1>1, <1>4
  <2> HIDE DEF RunOfSids
  <2>2. \A u, v \in Seq(RunOfSids) :
          /\ u \o v \in Seq(RunOfSids) /\ Len(u \o v) = Len(u) + Len(v)
          /\ \A i \in 1..Len(u) : (u \o v)[i] = u[i]
          /\ \A i \in 1..Len(v) : (u \o v)[Len(u) + i] = v[i]
          /\ u \o v = <<>> <=> Len(u \o v) = 0
    OBVIOUS
  <2>3. /\ t \in Seq(RunOfSids) /\ Len(t) = Len(RunsOf(ms)) + Len(part)
        /\ \A i \in 1..Len(RunsOf(ms)) : t[i] = RunsOf(ms)[i]
        /\ \A i \in 1..Len(part) : t[Len(RunsOf(ms)) + i] = part[i]
        /\ t = <<>> <=> Len(t) = 0
    BY <1>4, <1>5, <1>8, <2>2
  <2>4. Len(part) = 1 => t[(n - 1) + 1] = part[1]
    BY <1>5, <2>1, <2>3
  <2> QED
    BY <1>5, <2>1, <2>3, <2>4
<1>10. /\ Len(t) <= Len(RunsOf(R))
       /\ \A i \in 1..(Len(t) - 1) : i \in 1..(n - 1)
       /\ \A i \in 1..Len(t) : i \in 1..(n - 1) \/ (i = n /\ p # 0)
  <2>1. n \in Nat /\ 1 <= n /\ n <= Len(R) /\ Len(RunsOf(R)) = Len(R) /\ Len(R) \in Nat
    BY <1>1, <1>6
  <2>2. CASE p = 0
    <3>1. Len(t) = n - 1
      <4>1. Len(part) = 0 /\ Len(t) = (n - 1) + Len(part)
        BY <1>4, <1>9, <2>2
      <4>2. Len(t) = (n - 1) + 0
        BY <4>1
      <4> QED
        BY <2>1, <4>2
    <3> QED
      BY <2>1, <3>1
  <2>3. CASE p # 0
    <3>1. Len(t) = n
      <4>1. Len(part) = 1 /\ Len(t) = (n - 1) + Len(part)
        BY <1>4, <1>9, <2>3
      <4>2. Len(t) = (n - 1) + 1
        BY <4>1
      <4> QED
        BY <2>1, <4>2
    <3> QED
      BY <2>1, <2>3, <3>1
  <2> QED
    BY <2>2, <2>3
<1>11. \A i \in 1..(Len(t) - 1) : t[i].last = RunsOf(R)[i].last
  BY <1>2, <1>5, <1>6, <1>9, <1>10
<1>12. ASSUME NEW i \in 1..Len(t)
       PROVE  t[i].first = RunsOf(R)[i].first /\ t[i].first <= t[i].last
  <2>1. CASE i \in 1..(n - 1)
    <3>1. i \in 1..Len(R) /\ t[i] = RunsOf(ms)[i]
      BY <1>2, <1>9, <2>1
    <3>2. RunsOf(ms)[i].first = R[i].first /\ RunsOf(ms)[i].last = R[i].last
      BY <1>5, <2>1
    <3> QED
      BY <1>6, <1>7, <3>1, <3>2
  <2>2. CASE i = n /\ p # 0
    <3>1. t[i] = Run(R[n].first, R[n].first + p - 1)
      BY <1>4, <1>9, <2>2
    <3>2. t[i].first = R[n].first /\ t[i].last = R[n].first + p - 1
      BY <3>1 DEF Run
    <3>3. p \in Nat
      BY <1>0, <1>3 DEF Size
    <3>4. RunsOf(R)[i].first = R[n].first
      BY <1>1, <1>6, <2>2
    <3> QED
      BY <1>0, <1>3, <2>2, <3>2, <3>3, <3>4
  <2> QED
    BY <1>10, <2>1, <2>2
<1>13. InTurn(t, a)
  BY <1>9, <1>10, <1>11, <1>12, CutShort
<1>14. t = <<>> => ms = <<>>
  <2>1. t = <<>> => Len(ms) = 0
    BY <1>1, <1>2, <1>4, <1>9
  <2> HIDE DEF DataMsg
  <2> QED
    BY <1>2, <2>1
<1>15. R # <<>>
  <2> HIDE DEF DataMsg
  <2> QED
    BY <1>1
<1> QED
  BY <1>2, <1>8, <1>13, <1>14, <1>15

LEMMA ReceiveStopsKeeps ==
  ASSUME Inv, NEW c \in Conns, ReceiveStops(c)
  PROVE  Inv'
<1> DEFINE m == Head(toMc[c])
           R == Ready(m)
           Part(n, p) == IF p = 0 THEN <<>> ELSE <<Run(R[n].first, R[n].first + p - 1)>>
<1>1. /\ McGets(c, "data") /\ ~sess.need
      /\ conns' = conns \ {c} /\ toMc' = [toMc EXCEPT ![c] = <<>>] /\ toMq' = NoWires
      /\ mq' = [mq EXCEPT !.open = FALSE] /\ mqConn' = NoHandlers
      /\ stale' = stale /\ top' = top
  BY DEF ReceiveStops
<1>2. PICK n \in DOMAIN R, p \in Nat :
        /\ p \in 0..Size(R[n])
        /\ LET s == Save(SubSeq(R, 1, n - 1), Part(n, p))
           IN  /\ stored' = s.stored /\ ever' = ever \cup SidsOf(s.stored) /\ replies' = s.waiting
               /\ got' = got \ ToSet(R)
               /\ sess' = [sess EXCEPT !.need = TRUE, !.next = sess.next + Len(R),
                                       !.logSid = s.logSid, !.bytes = s.bytes]
  <2>1. \A n : \A p \in 0..Size(R[n]) : p \in Nat
    BY DEF Size
  <2> QED
    BY <2>1, Zenon DEF ReceiveStops, Keep
<1>3. PICK part : part = Part(n, p)
  OBVIOUS
<1>4. PICK ms : ms = SubSeq(R, 1, n - 1)
  OBVIOUS
<1>5. PICK s : s = Save(ms, part)
  OBVIOUS
<1>6. /\ stored' = s.stored /\ ever' = ever \cup SidsOf(s.stored) /\ replies' = s.waiting
      /\ got' = got \ ToSet(R)
      /\ sess' = [sess EXCEPT !.need = TRUE, !.next = sess.next + Len(R),
                              !.logSid = s.logSid, !.bytes = s.bytes]
  BY <1>2, <1>3, <1>4, <1>5
<1>7. TakesData(c, m)
  BY <1>1, DataTaken
<1>8. part = IF p = 0 THEN <<>> ELSE <<Run(R[n].first, R[n].first + p - 1)>>
  BY <1>3
<1> HIDE DEF m, Part
<1>9. TurnOf(m, R)
  BY <1>7, ReadyOf
<1> HIDE DEF R
<1>10. TypeOK /\ StoredInOrder /\ PositionStored
  BY DEF Inv
<1>11. /\ sess.next \in Nat /\ got \subseteq DataMsg /\ IsFiniteSet(got) /\ IsSession(sess)
       /\ toMc \in [Conns -> Seq(ToMc)] /\ replies \in Seq(Waiting)
  BY <1>10 DEF TypeOK, IsSession
<1>12. /\ R \in Seq(DataMsg)
       /\ \E a : InTurn(RunsOf(R), a) /\ (R # <<>> => Follows(a))
  <2>1. /\ m \in Unstored /\ Unstored \subseteq DataMsg /\ got \subseteq Unstored /\ ChainOf(Unstored)
    BY <1>7 DEF TakesData
  <2> QED
    BY <1>9, <1>11, <2>1, ReadyInTurn
<1>13. PICK a : InTurn(RunsOf(R), a) /\ (R # <<>> => Follows(a))
  BY <1>12
<1>14. /\ ms \in Seq(DataMsg) /\ InTurn(RunsOf(ms) \o part, a)
       /\ RunsOf(ms) \o part = <<>> => ms = <<>>
       /\ R # <<>>
  <2>1. Beginning(R, n, p, ms, part)
    BY <1>2, <1>4, <1>8 DEF Beginning
  <2> QED
    BY <1>12, <1>13, <2>1, PartInTurn
<1>15. SaveOf(ms, part, s)
  BY <1>5, <1>11, <1>14, SaveIs
<1>16. PICK t : t = RunsOf(ms) \o part
  OBVIOUS
<1>17. /\ stored' = stored \o t
       /\ s.logSid = IF t = <<>> THEN sess.logSid ELSE Last(t).last
       /\ s.waiting \in Seq(Waiting) /\ (t = <<>> => s.waiting = replies)
  BY <1>6, <1>14, <1>15, <1>16 DEF SaveOf
<1>18. /\ sess'.need /\ sess'.closed = sess.closed
       /\ sess'.logSid = s.logSid /\ (s.logSid \in Nat => IsSession(sess)')
  <2>1. sess.next + Len(R) \in Nat
    <3>1. Len(R) \in Nat
      <4> HIDE DEF DataMsg
      <4> QED
        BY <1>12
    <3> QED
      BY <1>11, <3>1
  <2> QED
    BY <1>6, <1>11, <2>1, SessionSavesAndEnds
<1>19. /\ StoredInOrder' /\ stored' \in Seq(RunOfSids) /\ ever' \subseteq Nat \ {0} /\ ever \subseteq ever'
       /\ sess'.logSid \in Nat
  <2>1. InTurn(t, a) /\ (t # <<>> => Follows(a))
    BY <1>13, <1>14, <1>16
  <2>2. ever' = ever \cup SidsOf(stored')
    BY <1>6
  <2>3. sess'.logSid = IF t = <<>> THEN sess.logSid ELSE Last(t).last
    BY <1>17, <1>18
  <2>4. stale' = stale /\ (t = <<>> => replies' = replies)
    BY <1>1, <1>6, <1>17
  <2> QED
    BY <1>10, <1>17, <2>1, <2>2, <2>3, <2>4, StoresInOrder
<1>20. toMc' \in [Conns -> Seq(ToMc)] /\ toMq' \in [Conns -> Seq(ToMq)]
  BY <1>1, <1>11, CutWire, EmptyWires
<1>21. mq' \in MqSession /\ ~mq'.open /\ mq'.logged = mq.logged /\ mqConn' \in [Conns -> Handler]
  BY <1>1, <1>10, ClosedMq DEF TypeOK
<1>22. got' \subseteq DataMsg /\ IsFiniteSet(got')
  <2>1. got' \subseteq got
    BY <1>6
  <2>2. IsFiniteSet(got')
    BY <1>11, <2>1, FS_Subset
  <2> QED
    BY <1>11, <2>1, <2>2
<1>23. TypeOK'
  <2>1. conns' \subseteq Conns /\ replies' \in Seq(Waiting) /\ top' \in Nat /\ stale' \in BOOLEAN
    BY <1>1, <1>6, <1>10, <1>17 DEF TypeOK
  <2>2. IsSession(sess)'
    BY <1>18, <1>19
  <2> QED
    BY <1>19, <1>20, <1>21, <1>22, <2>1, <2>2 DEF TypeOK
<1>24. ClosedEmpty' /\ PositionStored'
  <2>1. ~sess.closed
    BY <1>7 DEF TakesData
  <2> QED
    BY <1>1, <1>10, <1>18, <1>19, <1>21, <2>1 DEF ClosedEmpty, PositionStored
<1> QED
  BY <1>1, <1>18, <1>19, <1>21, <1>23, <1>24, EndedInv

(***************************************************************************)
(* The theorem.                                                            *)
(***************************************************************************)
LEMMA InitInv == SyncInit => Inv
<1> SUFFICES ASSUME SyncInit
             PROVE  Inv
  OBVIOUS
<1>1. PICK l \in Limits : sess = NewSession(l)
  BY DEF SyncInit
<1>2. /\ conns = {} /\ got = {} /\ replies = <<>> /\ stored = <<>> /\ ever = {} /\ stale = FALSE
      /\ toMc = NoWires /\ toMq = NoWires /\ top = 0
      /\ mq = [open |-> FALSE, at |-> 0, seq |-> 0, logged |-> 0] /\ mqConn = NoHandlers
  BY DEF SyncInit
<1>3. IsSession(sess) /\ sess.closed /\ ~sess.need /\ sess.next = 0 /\ sess.logSid = 0
  BY <1>1 DEF NewSession, IsSession
<1>4. toMc \in [Conns -> Seq(ToMc)] /\ toMq \in [Conns -> Seq(ToMq)]
  BY <1>2, EmptyWires
<1>5. mq \in MqSession /\ ~mq.open /\ mq.logged = 0 /\ mqConn \in [Conns -> Handler]
  <2>1. NoHandlers \in [Conns -> Handler]
    BY NewHandler DEF NoHandlers
  <2> QED
    BY <1>2, <2>1 DEF MqSession
<1>6. /\ stored \in Seq(RunOfSids) /\ Len(stored) = 0 /\ DOMAIN stored = {} /\ SidsOf(stored) = {}
      /\ replies \in Seq(Waiting)
  BY <1>2, NothingStored
<1>7. TypeOK
  <2>1. IsFiniteSet({})
    BY FS_EmptySet
  <2> QED
    BY <1>2, <1>3, <1>4, <1>5, <1>6, <2>1 DEF TypeOK
<1>8. StoredInOrder
  BY <1>2, <1>3, <1>6 DEF StoredInOrder, AllInOrder
<1>9. ClosedEmpty /\ PositionStored
  <2>1. 1..0 = {}
    OBVIOUS
  <2> QED
    BY <1>2, <1>3, <1>5, <2>1 DEF ClosedEmpty, PositionStored
<1>10. ReportFirst
  <2>1. \A c \in Conns : DOMAIN toMq[c] = {}
    BY <1>2, EmptyWires
  <2> QED
    BY <2>1 DEF ReportFirst
<1> QED
  BY <1>3, <1>5, <1>7, <1>8, <1>9, <1>10 DEF Inv, Chained, GoesOn, AcksTrue, Receiving

LEMMA StepKeeps ==
  ASSUME ~DieAfterStale, Inv, SyncNext
  PROVE  Inv'
<1>1. ASSUME NEW c \in Conns, ReceiveFails(c) \/ ReportReply(c) \/ Receive(c) \/ ConnLost(c) \/ ReceiveStops(c)
      PROVE  Inv'
  BY <1>1, ReceiveFailsKeeps, ReportReplyKeeps, ReceiveKeeps, ConnLostKeeps, ReceiveStopsKeeps
<1>2. ASSUME NEW c \in Conns,
             MqReport(c) \/ MqNewConn(c) \/ MqReply(c) \/ MqReplyFails(c) \/ MqRedo(c) \/ MqRefuses(c)
      PROVE  Inv'
  BY <1>2, MqReportKeeps, MqNewConnKeeps, MqReplyKeeps, MqReplyFailsKeeps, MqRedoKeeps, MqRefusesKeeps
<1>3. CASE CloseSession \/ CreateSession \/ CheckSyncLimit
  BY <1>3, CloseSessionKeeps, CreateSessionKeeps, CheckSyncLimitKeeps
<1>4. CASE Tick \/ Publish \/ CreateSessionFails \/ CheckSyncLimitFails \/ SyncChange \/ Restart
  BY <1>4, TickKeeps, PublishKeeps, CreateSessionFailsKeeps, CheckSyncLimitFailsKeeps, SyncChangeKeeps,
     RestartKeeps
<1> QED
  BY <1>1, <1>2, <1>3, <1>4 DEF SyncNext, McStep, MqStep

LEMMA StutterKeeps == Inv /\ UNCHANGED syncVars => Inv'
<1> SUFFICES ASSUME Inv, UNCHANGED syncVars
             PROVE  Inv'
  OBVIOUS
<1>1. /\ UNCHANGED <<conns, got, stored, ever, stale, toMc, toMq, top, mqVars>>
      /\ sess' = sess /\ replies' = replies
  BY DEF syncVars, mqVars
<1>2. IsSession(sess)' /\ replies' \in Seq(Waiting)
  BY <1>1 DEF Inv, TypeOK, IsSession
<1> QED
  BY <1>1, <1>2, StaysKeeps

\* What is on its way, what waits for its turn and what the mq will send next
\* go on where the mc has stored last, in every state that is reached.
THEOREM SyncInvariant ==
  ASSUME ~DieAfterStale
  PROVE  SyncSpec => []Inv
<1>1. Inv /\ [SyncNext]_syncVars => Inv'
  BY StepKeeps, StutterKeeps
<1> QED
  BY <1>1, InitInv, PTL DEF SyncSpec

\* CwxMcSyncSession::recv and recvMessage: what the mc stores and queues is in
\* order and without a gap, and nothing older than the newest sid stored is
\* missing.
THEOREM StoredInOrderAlways ==
  ASSUME ~DieAfterStale
  PROVE  SyncSpec => []AllInOrder
<1>1. Inv => AllInOrder
  BY DEF Inv, StoredInOrder
<1> QED
  BY <1>1, SyncInvariant, PTL

\* An acknowledgement moves the position of the mq only over messages that
\* are stored, until a session begins with acknowledgements of the one before
\* (stale): a mc that starts again before that is sent all the others.
THEOREM PositionNotAhead ==
  ASSUME ~DieAfterStale
  PROVE  SyncSpec => []PositionStored
<1>1. Inv => PositionStored
  BY DEF Inv
<1> QED
  BY <1>1, SyncInvariant, PTL
=============================================================================
