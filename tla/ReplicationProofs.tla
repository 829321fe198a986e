-------------------------- MODULE ReplicationProofs --------------------------
(***************************************************************************)
(* Proofs about replication: what a session sends is the master's log, what  *)
(* it acknowledges is stored, and nothing of it is lost or stored twice,     *)
(* over any number of connections.                                           *)
(***************************************************************************)
EXTENDS Replication, FiniteSetTheorems, SequenceTheorems, WellFoundedInduction, TLAPS

(***************************************************************************)
(* The invariant.                                                          *)
(***************************************************************************)
\* What is on its way on connection i of host id h, to the master and to the
\* slave, and the number that was sent on it last.
ToM(h, i)  == toMaster[h][i]
ToS(h, i)  == toSlave[h][i]
Sent(h, i) == lastSeq[h][i]
Redo(h, i) == <<h, i>> \in redo

Reports(h, i)  == \E s \in 0..MaxSid : ToM(h, i) = <<Report(s)>>
Joins(h, i)    == ToM(h, i) = <<NewConn>>
Answers(h, i)  == Sent(h, i) >= 0 /\ ToM(h, i) = <<Reply(Sent(h, i))>>
Accepts(h, i)  ==
  \/ ToS(h, i) = <<Accept>>
  \/ Sent(h, i) >= 0 /\ ToS(h, i) = <<Accept, Data(Sent(h, i))>>
HasData(h, i)  ==
  /\ Sent(h, i) >= 0
  /\ ToS(h, i) = <<Data(Sent(h, i))>> \/ ToS(h, i) = <<Accept, Data(Sent(h, i))>>
Refused(h, i)  == ToS(h, i) = <<Refusal>>
Unused(h, i)   == ToM(h, i) = <<>> /\ ToS(h, i) = <<>> /\ Sent(h, i) = None /\ ~Redo(h, i)

\* The master is to act, on what comes in or when there is something to send.
AtMaster(h, i) == Reports(h, i) \/ Joins(h, i) \/ Answers(h, i) \/ Redo(h, i)

Waits(i) == \E w \in session.waiting : w.conn = i

\* The last sid that a session of the master has sent.
EndOf(d) == IF d.sent = <<>> THEN d.start ELSE d.sent[Len(d.sent)].last

\* What was sent ascends without a gap from the start, and what comes next
\* comes after it.
StreamOK(d) ==
  /\ \A k \in 1..Len(d.sent) :
       /\ d.sent[k].first <= d.sent[k].last /\ d.sent[k].last <= EndOf(d)
       /\ d.sent[k].first = (IF k = 1 THEN d.start ELSE d.sent[k-1].last) + 1
       /\ \A j \in 1..k-1 : d.sent[j].last < d.sent[k].first
  /\ d.start + Len(d.sent) <= EndOf(d) /\ EndOf(d) <= MaxSid
  /\ d.sent # <<>> => d.placed
  /\ d.placed => FirstToSend(d) = EndOf(d) + 1
  /\ d.st = "none" => d = NoDisp

\* One thing at a time is on its way on a connection.
LinkOK(h, i) ==
  /\ ToM(h, i) = <<>> \/ Reports(h, i) \/ Joins(h, i) \/ Answers(h, i)
  /\ ToS(h, i) = <<>> \/ Accepts(h, i) \/ HasData(h, i) \/ Refused(h, i)
  /\ ToM(h, i) # <<>> => ToS(h, i) = <<>> /\ ~Redo(h, i)
  /\ Redo(h, i) => ~HasData(h, i) /\ ~Refused(h, i) /\ disp[h].st # "none"
  /\ Joins(h, i) \/ Refused(h, i) => Sent(h, i) = None
  /\ Sent(h, i) < Len(disp[h].sent)

\* A number is sent on one connection.
LedgerOK(h) == \A i, j \in Conns : Sent(h, i) = Sent(h, j) => i = j \/ Sent(h, i) = None

\* Until a session is accepted only its first connection is used.
BeginOK(h) ==
  /\ \A i \in Conns : Reports(h, i) \/ Accepts(h, i) => i = 1
  /\ Reports(h, 1) \/ Accepts(h, 1) => \A j \in Conns \ {1} : Unused(h, j)
  /\ Reports(h, 1) => disp[h] = NoDisp /\ Sent(h, 1) = None
  /\ h > host => disp[h] = NoDisp /\ \A i \in Conns : Unused(h, i)

\* The slave's session: each number it still expects was sent last on some
\* connection, and is on its way there or waits.
NumbersOK ==
  /\ session.next <= Len(disp[host].sent)
  /\ \A w \in session.waiting : w.seq = Sent(host, w.conn) /\ w.seq > session.next
  /\ \A k \in session.next..Len(disp[host].sent) - 1 : \E i \in Conns : Sent(host, i) = k
  /\ \A i \in Conns :
       /\ AtMaster(host, i) => Sent(host, i) < session.next
       /\ HasData(host, i) => Sent(host, i) >= session.next /\ ~Waits(i)
       /\ Sent(host, i) >= session.next /\ link[host][i].s = "open" => Waits(i) \/ HasData(host, i)

\* The slave has been told on its first connection that it may go on, or
\* nothing has come of the session yet.
AcceptOK ==
  /\ Reports(host, 1) \/ Accepts(host, 1) => session.reported = {}
  /\ session.reported = {} =>
       /\ session.next = 0 /\ session.waiting = {}
       /\ Reports(host, 1) \/ Accepts(host, 1) \/ \A i \in Conns : Unused(host, i)

\* The last sid of what the slave's session has gone through.
Reach == IF session.next = 0 THEN disp[host].start ELSE disp[host].sent[session.next].last

StoredOK ==
  /\ Reports(host, 1) => ToM(host, 1) = <<Report(SlaveMax)>>
  /\ \A i \in Conns : Answers(host, i) =>
       disp[host].sent[Sent(host, i) + 1].first..disp[host].sent[Sent(host, i) + 1].last \subseteq slog
  /\ disp[host].st # "none" => SlaveMax <= Reach

SessionOK ==
  /\ session.open => host > 0 /\ NumbersOK /\ AcceptOK /\ StoredOK
  /\ ~session.open => session = NoSession

\* A message was not stored, or not all of it, and nothing comes after it.
Stalled == session.next > 0 /\ Sent(host, 1) = session.next - 1 /\ ~AtMaster(host, 1)

\* With a single connection the slave's binlog has no gap, and ends where its
\* session does, unless that has stalled.
OneOK ==
  NConn = 1 =>
    /\ slog = 1..SlaveMax
    /\ session.open /\ disp[host].st # "none" => SlaveMax = Reach \/ Stalled

ReplInv ==
  /\ TypeOK
  /\ \A h \in Hosts : StreamOK(disp[h])
  /\ \A h \in Hosts, i \in Conns : LinkOK(h, i)
  /\ \A h \in Hosts : LedgerOK(h) /\ BeginOK(h)
  /\ SessionOK
  /\ OneOK


(***************************************************************************)
(* Short sequences, sets of numbers and functions of two arguments.         *)
(***************************************************************************)
LEMMA LargestExists ==
  ASSUME NEW S, S \subseteq Nat, IsFiniteSet(S), S # {}
  PROVE  Max(S) \in S /\ \A j \in S : j <= Max(S)
<1> DEFINE Later(i) == {j \in S : j > i}
           N(i) == Cardinality(Later(i))
           R == {ss \in Nat \X Nat : ss[1] < ss[2]}
           T == {N(i) : i \in S}
<1>1. IsWellFoundedOn(R, Nat)
  BY NatLessThanWellFounded DEF OpToRel
<1>2. \A i \in S : IsFiniteSet(Later(i)) /\ N(i) \in Nat
  <2> SUFFICES ASSUME NEW i \in S PROVE IsFiniteSet(Later(i)) /\ N(i) \in Nat
    OBVIOUS
  <2>1. Later(i) \in SUBSET S
    OBVIOUS
  <2>2. IsFiniteSet(Later(i))
    BY <2>1, FS_Subset
  <2> QED
    BY <2>2, FS_CardinalityType
<1>3. T \in SUBSET Nat /\ T # {}
  BY <1>2
<1> HIDE DEF R
<1>4. PICK m \in T : \A n \in T : <<n, m>> \notin R
  BY <1>1, <1>3, WFMin
<1>5. PICK i \in S : m = N(i)
  OBVIOUS
<1>6. ASSUME NEW j \in S, ~(j <= i)  PROVE FALSE
  <2>1. j > i /\ i \in Nat /\ j \in Nat
    BY <1>6
  <2>2. Later(j) \subseteq Later(i) /\ j \in Later(i) /\ j \notin Later(j)
    <3>1. ASSUME NEW x \in Later(j)  PROVE x \in Later(i)
      <4>1. x \in S /\ x > j /\ x \in Nat
        OBVIOUS
      <4>2. x > i
        BY <2>1, <4>1
      <4> QED
        BY <4>1, <4>2
    <3>2. ~(j > j)
      BY <2>1
    <3> QED
      BY <2>1, <3>1, <3>2
  <2>3. N(j) \in Nat /\ N(i) \in Nat /\ N(j) <= N(i) /\ N(j) # N(i)
    <3>1. Later(j) # Later(i)
      BY <2>2
    <3> HIDE DEF Later
    <3> QED
      BY <1>2, <2>2, <3>1, FS_Subset
  <2>4. N(j) < N(i)
    <3> HIDE DEF N
    <3> QED
      BY <2>3
  <2>5. <<N(j), m>> \notin R
    BY <1>4
  <2>6. ~(N(j) < N(i))
    <3> HIDE DEF N
    <3> QED
      BY <1>5, <2>3, <2>5 DEF R
  <2> QED
    BY <2>4, <2>6
<1>7. \E x \in S : \A y \in S : x >= y
  BY <1>6
<1> QED
  BY <1>7 DEF Max

LEMMA TupleSeqs ==
  ASSUME NEW D, NEW x \in D
  PROVE  <<>> \in Seq(D) /\ <<x>> \in Seq(D) /\ Len(<<x>>) = 1
OBVIOUS

LEMMA SameSeqs ==
  ASSUME NEW S, NEW a \in Seq(S), NEW b \in Seq(S), Len(a) = Len(b),
         \A n \in 1..Len(a) : a[n] = b[n]
  PROVE  a = b
OBVIOUS

LEMMA ShortSeqs ==
  ASSUME NEW x, NEW y
  PROVE  /\ Head(<<x>>) = x /\ Tail(<<x>>) = <<>>
         /\ Head(<<x, y>>) = x /\ Tail(<<x, y>>) = <<y>>
         /\ Append(<<>>, x) = <<x>> /\ Append(<<x>>, y) = <<x, y>>
         /\ <<x>> # <<>> /\ <<x, y>> # <<>> /\ \A z : <<x, y>> # <<z>>
         /\ Len(<<x>>) = 1 /\ Len(<<x, y>>) = 2
<1>1. Head(<<x>>) = x /\ Head(<<x, y>>) = x
  OBVIOUS
<1>2. Tail(<<x>>) = <<>>
  OBVIOUS
<1>3. Tail(<<x, y>>) = <<y>>
  OBVIOUS
<1>4. Append(<<>>, x) = <<x>>
  OBVIOUS
<1>5. Append(<<x>>, y) = <<x, y>>
  <2> DEFINE S == {x, y}
             a == Append(<<x>>, y)
             b == <<x, y>>
  <2>1. a \in Seq(S) /\ b \in Seq(S) /\ Len(a) = 2 /\ Len(b) = 2
    OBVIOUS
  <2>2. a[1] = b[1] /\ a[2] = b[2]
    OBVIOUS
  <2> HIDE DEF a, b, S
  <2>3. \A n \in 1..Len(a) : a[n] = b[n]
    BY <2>1, <2>2
  <2>4. a = b
    BY <2>1, <2>3, SameSeqs
  <2> QED
    BY <2>4 DEF a, b
<1>6. <<x>> # <<>> /\ <<x, y>> # <<>> /\ Len(<<x>>) = 1 /\ Len(<<x, y>>) = 2
  OBVIOUS
<1>7. \A z : <<x, y>> # <<z>>
  OBVIOUS
<1> QED
  BY <1>1, <1>2, <1>3, <1>4, <1>5, <1>6, <1>7

\* What comes in on a connection tells what has been sent on it.
LEMMA Kinds ==
  ASSUME NEW k \in Int, NEW s \in Int
  PROVE  /\ Report(s).type = "report" /\ NewConn.type = "newconn" /\ Reply(k).type = "reply"
         /\ Accept.type = "accept" /\ Data(k).type = "data" /\ Refusal.type = "err"
         /\ Report(s).val = s /\ Reply(k).val = k /\ Data(k).val = k
BY DEF Report, NewConn, Reply, Accept, Data, Refusal

\* Changing one entry of a table leaves the others alone.
LEMMA PutIs ==
  ASSUME NEW D, NEW f \in [Hosts -> [Conns -> D]], NEW h \in Hosts, NEW i \in Conns, NEW v
  PROVE  \A g \in Hosts, j \in Conns :
           [f EXCEPT ![h][i] = v][g][j] = IF g = h /\ j = i THEN v ELSE f[g][j]
OBVIOUS

LEMMA PutRowIs ==
  ASSUME NEW D, NEW f \in [Hosts -> [Conns -> D]], NEW h \in Hosts, NEW r
  PROVE  \A g \in Hosts, j \in Conns :
           [f EXCEPT ![h] = r][g][j] = IF g = h THEN r[j] ELSE f[g][j]
OBVIOUS

(***************************************************************************)
(* What is on its way on a connection.                                     *)
(***************************************************************************)
\* The kinds of what is on its way exclude each other.
Apart(h, i) ==
  /\ Reports(h, i) \/ Joins(h, i) \/ Answers(h, i) => ToM(h, i) # <<>>
  /\ ~(Reports(h, i) /\ Joins(h, i)) /\ ~(Reports(h, i) /\ Answers(h, i))
  /\ ~(Joins(h, i) /\ Answers(h, i))
  /\ Accepts(h, i) \/ HasData(h, i) \/ Refused(h, i) => ToS(h, i) # <<>>
  /\ ~(Accepts(h, i) /\ Refused(h, i)) /\ ~(HasData(h, i) /\ Refused(h, i))

AllApart == \A h \in Hosts, i \in Conns : Apart(h, i)

LEMMA KindsApart == TypeOK => AllApart
<1> SUFFICES ASSUME TypeOK, NEW h \in Hosts, NEW i \in Conns  PROVE Apart(h, i)
  BY DEF AllApart
<1>1. Sent(h, i) \in Int
  BY DEF TypeOK, Sent, None
<1> DEFINE k == Sent(h, i)
<1>2. \A s \in 0..MaxSid : Report(s) # NewConn /\ Report(s) # Reply(k) /\ NewConn # Reply(k)
  BY <1>1, Kinds, BoundsAssumption
<1>3. Accept # Refusal /\ Data(k) # Refusal /\ Accept # Data(k)
  BY <1>1, Kinds
<1> HIDE DEF k
<1>4. \A x, y : <<x>> # <<>> /\ <<x, y>> # <<>> /\ Head(<<x>>) = x /\ Head(<<x, y>>) = x
  BY ShortSeqs
<1> DEFINE m == ToM(h, i)
           s == ToS(h, i)
<1>5. /\ Reports(h, i) => \E n \in 0..MaxSid : m = <<Report(n)>>
      /\ Joins(h, i) => m = <<NewConn>>
      /\ Answers(h, i) => m = <<Reply(k)>>
      /\ Accepts(h, i) => s = <<Accept>> \/ s = <<Accept, Data(k)>>
      /\ HasData(h, i) => s = <<Data(k)>> \/ s = <<Accept, Data(k)>>
      /\ Refused(h, i) => s = <<Refusal>>
  BY DEF Reports, Joins, Answers, Accepts, HasData, Refused, k
<1> HIDE DEF m, s
<1>6. /\ Reports(h, i) => \E n \in 0..MaxSid : Head(m) = Report(n) /\ m # <<>>
      /\ Joins(h, i) => Head(m) = NewConn /\ m # <<>>
      /\ Answers(h, i) => Head(m) = Reply(k) /\ m # <<>>
      /\ Accepts(h, i) => Head(s) = Accept /\ s # <<>>
      /\ HasData(h, i) => Head(s) \in {Accept, Data(k)} /\ s # <<>>
      /\ Refused(h, i) => Head(s) = Refusal /\ s # <<>>
  BY <1>4, <1>5
<1>7. ~(Reports(h, i) /\ Joins(h, i)) /\ ~(Reports(h, i) /\ Answers(h, i))
  BY <1>2, <1>6
<1>8. ~(Joins(h, i) /\ Answers(h, i))
  <2>1. NewConn # Reply(k)
    BY <1>1, Kinds DEF k
  <2> QED
    BY <2>1, <1>6
<1>9. ~(Accepts(h, i) /\ Refused(h, i)) /\ ~(HasData(h, i) /\ Refused(h, i))
  BY <1>3, <1>6
<1> QED
  BY <1>6, <1>7, <1>8, <1>9 DEF m, s, Apart

LEMMA FromMaster ==
  ASSUME NEW h \in Hosts, NEW i \in Conns, TypeOK, LinkOK(h, i), ToM(h, i) # <<>>
  PROVE  /\ Tail(ToM(h, i)) = <<>>
         /\ Head(ToM(h, i)).type = "report" =>
              /\ Reports(h, i) /\ Head(ToM(h, i)).val \in 0..MaxSid
              /\ ToM(h, i) = <<Report(Head(ToM(h, i)).val)>>
         /\ Head(ToM(h, i)).type = "newconn" => Joins(h, i)
         /\ Head(ToM(h, i)).type = "reply" => Answers(h, i)
<1>1. Sent(h, i) \in Int
  BY DEF TypeOK, Sent, None
<1> DEFINE k == Sent(h, i)
           m == ToM(h, i)
<1>2. \A n \in 0..MaxSid : Report(n).type = "report" /\ Report(n).val = n
  BY Kinds, BoundsAssumption
<1>3. NewConn.type = "newconn" /\ Reply(k).type = "reply"
  BY <1>1, Kinds
<1>4. \A x : Head(<<x>>) = x /\ Tail(<<x>>) = <<>>
  BY ShortSeqs
<1>5. /\ Reports(h, i) => \E n \in 0..MaxSid : m = <<Report(n)>>
      /\ Joins(h, i) => m = <<NewConn>>
      /\ Answers(h, i) => m = <<Reply(k)>>
      /\ Reports(h, i) \/ Joins(h, i) \/ Answers(h, i)
  BY DEF Reports, Joins, Answers, k, LinkOK
<1> HIDE DEF m, k
<1>6. CASE Reports(h, i)
  <2>1. PICK n \in 0..MaxSid : m = <<Report(n)>>
    BY <1>5, <1>6
  <2>2. Head(m) = Report(n) /\ Tail(m) = <<>>
    BY <1>4, <2>1
  <2>3. Head(m).type = "report" /\ Head(m).val = n
    BY <1>2, <2>2
  <2> QED
    BY <1>6, <2>1, <2>2, <2>3 DEF m
<1>7. CASE Joins(h, i)
  BY <1>3, <1>4, <1>5, <1>7 DEF m
<1>8. CASE Answers(h, i)
  BY <1>3, <1>4, <1>5, <1>8 DEF m
<1> QED
  BY <1>5, <1>6, <1>7, <1>8

LEMMA FromSlave ==
  ASSUME NEW h \in Hosts, NEW i \in Conns, TypeOK, LinkOK(h, i), ToS(h, i) # <<>>
  PROVE  /\ Head(ToS(h, i)).type = "accept" =>
              /\ Accepts(h, i)
              /\ Tail(ToS(h, i)) = IF HasData(h, i) THEN <<Data(Sent(h, i))>> ELSE <<>>
         /\ Head(ToS(h, i)).type = "data" =>
              /\ HasData(h, i) /\ ~Accepts(h, i) /\ Tail(ToS(h, i)) = <<>>
              /\ Head(ToS(h, i)).val = Sent(h, i)
         /\ Head(ToS(h, i)).type = "err" => Refused(h, i) /\ Tail(ToS(h, i)) = <<>>
<1>1. Sent(h, i) \in Int
  BY DEF TypeOK, Sent, None
<1> DEFINE k == Sent(h, i)
           s == ToS(h, i)
<1>2. Accept.type = "accept" /\ Data(k).type = "data" /\ Data(k).val = k /\ Refusal.type = "err"
  BY <1>1, Kinds
<1>3. /\ \A x : Head(<<x>>) = x /\ Tail(<<x>>) = <<>>
      /\ \A x, y : Head(<<x, y>>) = x
      /\ Tail(<<Accept, Data(k)>>) = <<Data(k)>>
  <2>1. \A x : Head(<<x>>) = x /\ Tail(<<x>>) = <<>>
    BY ShortSeqs
  <2>2. \A x, y : Head(<<x, y>>) = x
    BY ShortSeqs
  <2>3. Tail(<<Accept, Data(k)>>) = <<Data(k)>>
    <3> HIDE DEF k
    <3> DEFINE a == Accept
               d == Data(k)
    <3> HIDE DEF a, d
    <3>1. Tail(<<a, d>>) = <<d>>
      BY ShortSeqs
    <3> QED
      BY <3>1 DEF a, d
  <2> QED
    BY <2>1, <2>2, <2>3
<1>9. \A x, y, z : <<x, y>> # <<z>>
  BY ShortSeqs
<1>4. /\ Accepts(h, i) <=> (s = <<Accept>> \/ (k >= 0 /\ s = <<Accept, Data(k)>>))
      /\ HasData(h, i) <=> k >= 0 /\ (s = <<Data(k)>> \/ s = <<Accept, Data(k)>>)
      /\ Refused(h, i) => s = <<Refusal>>
      /\ Accepts(h, i) \/ HasData(h, i) \/ Refused(h, i)
  BY DEF Accepts, HasData, Refused, k, LinkOK
<1> HIDE DEF s, k
<1>5. CASE Refused(h, i)
  <2>1. Head(s) = Refusal /\ Tail(s) = <<>>
    BY <1>3, <1>4, <1>5
  <2> QED
    BY <1>2, <1>5, <2>1 DEF s, k
<1>6. CASE s = <<Data(k)>>
  <2>1. Head(s) = Data(k) /\ Tail(s) = <<>>
    BY <1>3, <1>6
  <2>2. s # <<Accept>> /\ s # <<Accept, Data(k)>> /\ s # <<Refusal>>
    BY <1>2, <1>3, <2>1
  <2>3. HasData(h, i) /\ ~Accepts(h, i)
    BY <1>4, <1>6, <2>2
  <2> QED
    BY <1>2, <2>1, <2>3 DEF s, k
<1>7. CASE s = <<Accept, Data(k)>>
  <2>1. Head(s) = Accept /\ Tail(s) = <<Data(k)>>
    BY <1>3, <1>7
  <2>2. s # <<Accept>> /\ s # <<Data(k)>> /\ s # <<Refusal>>
    BY <1>7, <1>9
  <2> QED
    BY <1>2, <1>4, <1>7, <2>1, <2>2 DEF s, k
<1>8. CASE s = <<Accept>>
  <2>1. Head(s) = Accept /\ Tail(s) = <<>>
    BY <1>3, <1>8
  <2>2. s # <<Data(k)>> /\ s # <<Accept, Data(k)>>
    BY <1>2, <1>3, <1>8, <1>9, <2>1
  <2>3. ~HasData(h, i)
    BY <1>4, <2>2
  <2> QED
    BY <1>2, <1>4, <1>8, <2>1, <2>3 DEF s, k
<1> QED
  BY <1>4, <1>5, <1>6, <1>7, <1>8

\* What the slave has coming in decides what it is told.
SlaveKind(h, i) ==
  /\ ToS(h, i) = <<>> => ~Accepts(h, i) /\ ~HasData(h, i) /\ ~Refused(h, i)
  /\ ToS(h, i) = <<Accept>> => Accepts(h, i) /\ ~HasData(h, i) /\ ~Refused(h, i)
  /\ Sent(h, i) >= 0 /\ ToS(h, i) = <<Data(Sent(h, i))>> =>
       ~Accepts(h, i) /\ HasData(h, i) /\ ~Refused(h, i)
  /\ Sent(h, i) >= 0 /\ ToS(h, i) = <<Accept, Data(Sent(h, i))>> =>
       Accepts(h, i) /\ HasData(h, i) /\ ~Refused(h, i)

AllSlaveKinds == \A h \in Hosts, i \in Conns : SlaveKind(h, i)

LEMMA SlaveKinds == TypeOK => AllSlaveKinds
<1> SUFFICES ASSUME TypeOK, NEW h \in Hosts, NEW i \in Conns  PROVE SlaveKind(h, i)
  BY DEF AllSlaveKinds
<1>1. Apart(h, i)
  BY KindsApart DEF AllApart
<1> DEFINE k == Sent(h, i)
<1>2. k \in Int
  BY DEF TypeOK, Sent, None
<1>3. Accept.type # Data(k).type
  BY <1>2, Kinds
<1> HIDE DEF k
<1>4. /\ Head(<<Accept>>) = Accept /\ Head(<<Data(k)>>) = Data(k)
      /\ <<Accept, Data(k)>> # <<Accept>> /\ <<Accept, Data(k)>> # <<Data(k)>>
  BY ShortSeqs
<1>5. <<Accept>> # <<Data(k)>>
  BY <1>3, <1>4
<1>6. /\ ToS(h, i) = <<Accept>> => Accepts(h, i) /\ ~HasData(h, i)
      /\ k >= 0 /\ ToS(h, i) = <<Data(k)>> => ~Accepts(h, i) /\ HasData(h, i)
      /\ k >= 0 /\ ToS(h, i) = <<Accept, Data(k)>> => Accepts(h, i) /\ HasData(h, i)
  BY <1>4, <1>5 DEF Accepts, HasData, k
<1>7. ToS(h, i) = <<>> => ~Accepts(h, i) /\ ~HasData(h, i) /\ ~Refused(h, i)
  BY <1>1 DEF Apart
<1>8. Accepts(h, i) \/ HasData(h, i) => ~Refused(h, i)
  BY <1>1 DEF Apart
<1> QED
  BY <1>6, <1>7, <1>8 DEF SlaveKind, k

(***************************************************************************)
(* Steps that leave a connection alone, or take away what is on its way.     *)
(***************************************************************************)
Kept(h, i) ==
  /\ ToM(h, i)' = ToM(h, i) /\ ToS(h, i)' = ToS(h, i)
  /\ Sent(h, i)' = Sent(h, i) /\ (Redo(h, i)' <=> Redo(h, i))

\* The slave has read that it is accepted.
Told(h, i) ==
  Accepts(h, i) /\ ToS(h, i)' = IF HasData(h, i) THEN <<Data(Sent(h, i))>> ELSE <<>>

Less(h, i) ==
  /\ ToM(h, i)' = ToM(h, i) \/ ToM(h, i)' = <<>>
  /\ ToS(h, i)' = ToS(h, i) \/ ToS(h, i)' = <<>> \/ Told(h, i)
  /\ Sent(h, i)' = Sent(h, i) /\ (Redo(h, i)' => Redo(h, i))

\* A session of the master goes on, or ends.
DispGoesOn(h) ==
  /\ Len(disp[h].sent) <= Len(disp'[h].sent)
  /\ disp[h].st # "none" => disp'[h].st # "none"

LEMMA KeptIsLess ==
  ASSUME NEW h \in Hosts, NEW i \in Conns, Kept(h, i)
  PROVE  Less(h, i)
BY DEF Kept, Less

LEMMA LessFacts ==
  ASSUME NEW h \in Hosts, NEW i \in Conns, TypeOK, TypeOK', Less(h, i)
  PROVE  /\ Reports(h, i)' => Reports(h, i)
         /\ Joins(h, i)' => Joins(h, i)
         /\ Answers(h, i)' => Answers(h, i)
         /\ Accepts(h, i)' => Accepts(h, i)
         /\ HasData(h, i)' => HasData(h, i)
         /\ Refused(h, i)' => Refused(h, i)
         /\ AtMaster(h, i)' => AtMaster(h, i)
         /\ Unused(h, i) => Unused(h, i)'
         /\ ToS(h, i)' = ToS(h, i) =>
              (HasData(h, i)' <=> HasData(h, i)) /\ (Accepts(h, i)' <=> Accepts(h, i))
         /\ Told(h, i) => (HasData(h, i)' <=> HasData(h, i)) /\ ~Accepts(h, i)'
         /\ ToM(h, i)' = ToM(h, i) => (Reports(h, i)' <=> Reports(h, i))
<1>11. AllApart' /\ AllSlaveKinds'
  BY KindsApart, SlaveKinds, PTL
<1>12. SlaveKind(h, i)'
  BY <1>11 DEF AllSlaveKinds
<1>13. Told(h, i) => (HasData(h, i)' <=> HasData(h, i)) /\ ~Accepts(h, i)' /\ ~Refused(h, i)'
  BY <1>12 DEF Told, SlaveKind, HasData, Less
<1>1. Reports(h, i)' \/ Joins(h, i)' \/ Answers(h, i)' => ToM(h, i)' # <<>>
  BY <1>11 DEF AllApart, Apart
<1>2. Accepts(h, i)' \/ HasData(h, i)' \/ Refused(h, i)' => ToS(h, i)' # <<>>
  BY <1>11 DEF AllApart, Apart
<1>3. Sent(h, i)' = Sent(h, i) /\ (Redo(h, i)' => Redo(h, i))
  BY DEF Less
<1>4. ToM(h, i)' # <<>> => ToM(h, i)' = ToM(h, i)
  BY DEF Less
<1>5. ToS(h, i)' # <<>> => ToS(h, i)' = ToS(h, i) \/ Told(h, i)
  BY DEF Less
<1>6. /\ Reports(h, i)' => Reports(h, i)
      /\ Joins(h, i)' => Joins(h, i)
      /\ Answers(h, i)' => Answers(h, i)
  BY <1>1, <1>3, <1>4 DEF Reports, Joins, Answers
<1>7. /\ Accepts(h, i)' => Accepts(h, i)
      /\ HasData(h, i)' => HasData(h, i)
      /\ Refused(h, i)' => Refused(h, i)
  BY <1>2, <1>3, <1>5, <1>13 DEF Accepts, HasData, Refused
<1>8. Unused(h, i) => Unused(h, i)'
  <2>1. AllApart
    BY KindsApart
  <2>2. Unused(h, i) => ~Told(h, i)
    BY <2>1 DEF AllApart, Apart, Unused, Told
  <2> QED
    BY <2>2 DEF Less, Unused
<1>9. /\ ToS(h, i)' = ToS(h, i) =>
           (HasData(h, i)' <=> HasData(h, i)) /\ (Accepts(h, i)' <=> Accepts(h, i))
      /\ ToM(h, i)' = ToM(h, i) => (Reports(h, i)' <=> Reports(h, i))
  BY <1>3 DEF HasData, Accepts, Reports
<1>10. AtMaster(h, i)' => AtMaster(h, i)
  BY <1>3, <1>6 DEF AtMaster
<1> QED
  BY <1>6, <1>7, <1>8, <1>9, <1>10, <1>13

LEMMA LessLink ==
  ASSUME NEW h \in Hosts, NEW i \in Conns, TypeOK, TypeOK', LinkOK(h, i), Less(h, i),
         DispGoesOn(h)
  PROVE  LinkOK(h, i)'
<1>1. /\ Sent(h, i) \in Int
      /\ Len(disp[h].sent) \in Nat /\ Len(disp'[h].sent) \in Nat
  BY DEF TypeOK, Sent, None
<1>2. Sent(h, i)' < Len(disp[h].sent)'
  BY <1>1, SMTT(20) DEF LinkOK, Less, DispGoesOn
<1>3. (Joins(h, i) \/ Refused(h, i))' => Sent(h, i)' = None
  BY LessFacts DEF LinkOK, Less
<1>4. Redo(h, i)' => ~HasData(h, i)' /\ ~Refused(h, i)' /\ disp'[h].st # "none"
  BY LessFacts DEF LinkOK, Less, DispGoesOn
<1>5. ToM(h, i)' # <<>> => ToS(h, i)' = <<>> /\ ~Redo(h, i)'
  <2>1. Apart(h, i)
    BY KindsApart DEF AllApart
  <2>2. Told(h, i) => ToM(h, i) = <<>>
    BY <2>1 DEF Told, Apart, LinkOK
  <2> QED
    BY <2>2 DEF LinkOK, Less
<1>6. ToM(h, i)' = <<>> \/ Reports(h, i)' \/ Joins(h, i)' \/ Answers(h, i)'
  BY DEF LinkOK, Less, Reports, Joins, Answers
<1>7. ToS(h, i)' = <<>> \/ Accepts(h, i)' \/ HasData(h, i)' \/ Refused(h, i)'
  <2>1. Told(h, i) => ToS(h, i)' = <<>> \/ HasData(h, i)'
    BY LessFacts DEF Told
  <2>2. ToS(h, i)' = ToS(h, i) =>
          ToS(h, i)' = <<>> \/ Accepts(h, i)' \/ HasData(h, i)' \/ Refused(h, i)'
    BY DEF LinkOK, Less, Accepts, HasData, Refused
  <2> QED
    BY <2>1, <2>2 DEF Less
<1> QED
  BY <1>2, <1>3, <1>4, <1>5, <1>6, <1>7 DEF LinkOK

LEMMA LessLedger ==
  ASSUME NEW h \in Hosts, LedgerOK(h), \A i \in Conns : Sent(h, i)' = Sent(h, i)
  PROVE  LedgerOK(h)'
BY DEF LedgerOK, None

LEMMA OneIsConn == 1 \in Conns
BY BoundsAssumption DEF Conns

LEMMA LessBegin ==
  ASSUME NEW h \in Hosts, TypeOK, TypeOK', BeginOK(h), \A i \in Conns : Less(h, i),
         disp[h] = NoDisp => disp'[h] = NoDisp, h > host' => h > host
  PROVE  BeginOK(h)'
<1>1. \A i \in Conns : Reports(h, i)' \/ Accepts(h, i)' => i = 1
  BY LessFacts DEF BeginOK
<1>2. \A i \in Conns : Unused(h, i) => Unused(h, i)'
  BY LessFacts
<1>3. Reports(h, 1)' \/ Accepts(h, 1)' => \A j \in Conns \ {1} : Unused(h, j)'
  BY <1>2, LessFacts, OneIsConn DEF BeginOK
<1>4. Reports(h, 1)' => disp'[h] = NoDisp /\ Sent(h, 1)' = None
  BY LessFacts, OneIsConn DEF BeginOK, Less
<1>5. h > host' => disp'[h] = NoDisp /\ \A i \in Conns : Unused(h, i)'
  BY <1>2 DEF BeginOK
<1> QED
  BY <1>1, <1>3, <1>4, <1>5 DEF BeginOK, NoDisp, None

(***************************************************************************)
(* Steps of the master that send nothing but a refusal.                     *)
(***************************************************************************)
Quiet(h, i) ==
  /\ ToM(h, i)' = ToM(h, i) \/ ToM(h, i)' = <<>>
  /\ \/ ToS(h, i)' = ToS(h, i)
     \/ Joins(h, i) /\ ToM(h, i)' = <<>> /\ ToS(h, i)' = <<Refusal>>
  /\ Sent(h, i)' = Sent(h, i) /\ (Redo(h, i)' => Redo(h, i))

\* What the master remembers of what it sent stays as it is.
SameStream(h) ==
  /\ disp'[h].start = disp[h].start /\ disp'[h].sent = disp[h].sent
  /\ disp'[h].placed = disp[h].placed /\ disp'[h].at = disp[h].at
  /\ disp'[h].next = disp[h].next
  /\ disp'[h].st = "none" <=> disp[h].st = "none"
  /\ disp[h] = NoDisp => disp'[h] = NoDisp

LEMMA QuietFacts ==
  ASSUME NEW h \in Hosts, NEW i \in Conns, TypeOK, TypeOK', LinkOK(h, i), Quiet(h, i)
  PROVE  /\ Reports(h, i)' => Reports(h, i) /\ ToM(h, i)' = ToM(h, i)
         /\ Answers(h, i)' => Answers(h, i)
         /\ AtMaster(h, i)' => AtMaster(h, i)
         /\ HasData(h, i)' <=> HasData(h, i)
         /\ Accepts(h, i)' <=> Accepts(h, i)
         /\ Unused(h, i) => Unused(h, i)'
         /\ Reports(h, i) /\ ~Reports(h, i)' => ToM(h, i)' = <<>> /\ ToS(h, i)' = <<>> /\ ~Redo(h, i)'
         /\ DispGoesOn(h) => LinkOK(h, i)'
<1>1. AllApart /\ AllApart'
  BY KindsApart, PTL
<1>2. Apart(h, i) /\ Apart(h, i)'
  BY <1>1 DEF AllApart
<1>3. CASE ToS(h, i)' = ToS(h, i)
  <2>1. Less(h, i)
    BY <1>3 DEF Quiet, Less
  <2>2. Reports(h, i) => ToM(h, i) # <<>>
    BY <1>2 DEF Apart
  <2>3. Reports(h, i)' => ToM(h, i)' = ToM(h, i)
    BY <1>2, <2>1 DEF Apart, Less
  <2>4. Reports(h, i) /\ ~Reports(h, i)' => ToM(h, i)' = <<>> /\ ToS(h, i)' = <<>> /\ ~Redo(h, i)'
    BY <2>1, <2>2, <1>3, LessFacts DEF LinkOK, Quiet
  <2> QED
    BY <1>3, <2>1, <2>3, <2>4, LessFacts, LessLink
<1>4. CASE Joins(h, i) /\ ToM(h, i)' = <<>> /\ ToS(h, i)' = <<Refusal>>
  <2>1. ToS(h, i) = <<>> /\ ~Redo(h, i) /\ ToM(h, i) # <<>> /\ Sent(h, i) = None
    BY <1>2, <1>4 DEF Apart, LinkOK
  <2>2. ~HasData(h, i) /\ ~Accepts(h, i) /\ ~Reports(h, i)
    BY <1>2, <1>4, <2>1 DEF Apart
  <2>3. Refused(h, i)'
    BY <1>4 DEF Refused
  <2>4. ~HasData(h, i)' /\ ~Accepts(h, i)' /\ ~Reports(h, i)' /\ ~Answers(h, i)' /\ ~Joins(h, i)'
    BY <1>2, <1>4, <2>3 DEF Apart
  <2>5. ~Redo(h, i)' /\ Sent(h, i)' = None
    BY <2>1 DEF Quiet
  <2>6. ~AtMaster(h, i)'
    BY <2>4, <2>5 DEF AtMaster
  <2>7. DispGoesOn(h) => Sent(h, i)' < Len(disp[h].sent)'
    BY <2>5 DEF DispGoesOn, None, TypeOK
  <2>8. DispGoesOn(h) => LinkOK(h, i)'
    BY <1>4, <2>3, <2>5, <2>7 DEF LinkOK
  <2>9. ~Unused(h, i)
    BY <2>1 DEF Unused
  <2> QED
    BY <2>2, <2>4, <2>6, <2>8, <2>9
<1> QED
  BY <1>3, <1>4 DEF Quiet

LEMMA SameStreamFacts ==
  ASSUME NEW h \in Hosts, TypeOK, TypeOK', SameStream(h)
  PROVE  /\ DispGoesOn(h)
         /\ StreamOK(disp[h]) => StreamOK(disp'[h])
<1>1. DispGoesOn(h)
  BY DEF SameStream, DispGoesOn, TypeOK
<1>2. EndOf(disp'[h]) = EndOf(disp[h]) /\ FirstToSend(disp'[h]) = FirstToSend(disp[h])
  BY DEF SameStream, EndOf, FirstToSend
<1>3. StreamOK(disp[h]) => StreamOK(disp'[h])
  BY <1>2 DEF SameStream, StreamOK
<1> QED
  BY <1>1, <1>3

LEMMA QuietBegin ==
  ASSUME NEW h \in Hosts, TypeOK, TypeOK', BeginOK(h), SameStream(h), host' = host,
         \A i \in Conns : LinkOK(h, i) /\ Quiet(h, i)
  PROVE  BeginOK(h)'
<1>1. \A i \in Conns : Reports(h, i)' \/ Accepts(h, i)' => i = 1
  BY QuietFacts DEF BeginOK
<1>2. \A i \in Conns : Unused(h, i) => Unused(h, i)'
  BY QuietFacts
<1>3. Reports(h, 1)' \/ Accepts(h, 1)' => \A j \in Conns \ {1} : Unused(h, j)'
  BY <1>2, QuietFacts, OneIsConn DEF BeginOK
<1>4. Reports(h, 1)' => disp'[h] = NoDisp /\ Sent(h, 1)' = None
  BY QuietFacts, OneIsConn DEF BeginOK, Quiet, SameStream
<1>5. h > host' => disp'[h] = NoDisp /\ \A i \in Conns : Unused(h, i)'
  BY <1>2 DEF BeginOK, SameStream
<1> QED
  BY <1>1, <1>3, <1>4, <1>5 DEF BeginOK, NoDisp, None

LEMMA OpenHost ==
  ASSUME TypeOK, SessionOK, session.open
  PROVE  host \in Hosts
BY DEF TypeOK, SessionOK, Hosts

LEMMA QuietSession ==
  ASSUME ReplInv, TypeOK', UNCHANGED slaveVars,
         session.open => SameStream(host),
         session.open =>
           \A i \in Conns : Quiet(host, i) /\ link'[host][i].s = link[host][i].s
  PROVE  SessionOK'
<1>1. host' = host /\ session' = session /\ slog' = slog
  BY DEF slaveVars
<1>2. CASE ~session.open
  BY <1>1, <1>2 DEF ReplInv, SessionOK, NoSession
<1>3. CASE session.open
  <2>1. host \in Hosts /\ host > 0
    BY <1>3, OpenHost DEF ReplInv, SessionOK
  <2>2. NumbersOK /\ AcceptOK /\ StoredOK
    BY <1>3 DEF ReplInv, SessionOK
  <2>3. \A i \in Conns : Quiet(host, i) /\ LinkOK(host, i) /\ link'[host][i].s = link[host][i].s
    BY <1>3, <2>1 DEF ReplInv
  <2>4. SameStream(host) /\ BeginOK(host)
    BY <1>3, <2>1 DEF ReplInv
  <2>5. \A i \in Conns : Sent(host, i)' = Sent(host, i)
    BY <1>1, <2>3 DEF Quiet, Sent
  <2>6. \A i \in Conns :
          /\ Reports(host, i)' => Reports(host, i) /\ ToM(host, i)' = ToM(host, i)
          /\ Answers(host, i)' => Answers(host, i)
          /\ AtMaster(host, i)' => AtMaster(host, i)
          /\ HasData(host, i)' <=> HasData(host, i)
          /\ Accepts(host, i)' <=> Accepts(host, i)
          /\ Unused(host, i) => Unused(host, i)'
          /\ Reports(host, i) /\ ~Reports(host, i)' =>
               ToM(host, i)' = <<>> /\ ToS(host, i)' = <<>> /\ ~Redo(host, i)'
    BY <1>1, <2>1, <2>3, QuietFacts DEF ReplInv
  <2>7. NumbersOK'
    <3>1. \A w \in session.waiting : w.conn \in Conns
      BY DEF ReplInv, TypeOK, Sessions
    <3>2. \A i \in Conns : Waits(i)' <=> Waits(i)
      BY <1>1 DEF Waits
    <3>3. disp'[host].sent = disp[host].sent /\ host' = host /\ session' = session
      BY <1>1, <2>4 DEF SameStream
    <3>4. session'.next <= Len(disp'[host'].sent)
      BY <2>2, <3>3 DEF NumbersOK
    <3>5. \A w \in session'.waiting : w.seq = Sent(host, w.conn)' /\ w.seq > session'.next
      BY <2>2, <2>5, <3>1, <3>3 DEF NumbersOK
    <3>6. \A k \in session'.next..Len(disp'[host'].sent) - 1 : \E i \in Conns : Sent(host, i)' = k
      BY <2>2, <2>5, <3>3 DEF NumbersOK
    <3>7. \A i \in Conns :
            /\ AtMaster(host, i)' => Sent(host, i)' < session'.next
            /\ HasData(host, i)' => Sent(host, i)' >= session'.next /\ ~Waits(i)'
            /\ Sent(host, i)' >= session'.next /\ link'[host][i].s = "open" =>
                 Waits(i)' \/ HasData(host, i)'
      BY <2>2, <2>3, <2>5, <2>6, <3>2, <3>3 DEF NumbersOK
    <3> QED
      BY <1>1, <3>4, <3>5, <3>6, <3>7 DEF NumbersOK
  <2>8. AcceptOK'
    BY <1>1, <2>2, <2>4, <2>5, <2>6, OneIsConn DEF AcceptOK, BeginOK, Unused
  <2>9. StoredOK'
    BY <1>1, <2>2, <2>4, <2>5, <2>6, OneIsConn DEF StoredOK, Reach, SlaveMax, SameStream
  <2> QED
    BY <1>1, <1>3, <2>1, <2>7, <2>8, <2>9 DEF SessionOK
<1> QED
  BY <1>2, <1>3

LEMMA QuietOne ==
  ASSUME ReplInv, TypeOK', UNCHANGED slaveVars,
         session.open => SameStream(host) /\ Quiet(host, 1)
  PROVE  OneOK'
<1>1. /\ host' = host /\ session' = session /\ slog' = slog /\ SlaveMax' = SlaveMax
      /\ TypeOK /\ OneOK
  BY DEF slaveVars, SlaveMax, ReplInv
<1>2. ASSUME session.open, disp'[host].st # "none", NConn = 1
      PROVE  SlaveMax = Reach' \/ Stalled'
  <2>1. host \in Hosts /\ SameStream(host) /\ Quiet(host, 1) /\ LinkOK(host, 1)
    BY <1>2, OpenHost, OneIsConn DEF ReplInv
  <2>2. SlaveMax = Reach \/ Stalled
    BY <1>1, <1>2, <2>1 DEF OneOK, SameStream
  <2>3. Reach' = Reach
    BY <1>1, <2>1 DEF Reach, SameStream
  <2>4. Sent(host, 1)' = Sent(host, 1) /\ (AtMaster(host, 1)' => AtMaster(host, 1))
    <3>1. \A g \in Hosts, j \in Conns : g = host /\ j = 1 =>
            Sent(g, j)' = Sent(g, j) /\ (AtMaster(g, j)' => AtMaster(g, j))
      BY <1>1, <2>1, QuietFacts DEF Quiet
    <3> QED
      BY <1>1, <2>1, <3>1, OneIsConn
  <2> QED
    BY <1>1, <2>2, <2>3, <2>4 DEF Stalled
<1> QED
  BY <1>1, <1>2 DEF OneOK

LEMMA QuietStep ==
  ASSUME ReplInv, TypeOK', UNCHANGED slaveVars, \A h \in Hosts : SameStream(h),
         \A h \in Hosts, i \in Conns : Quiet(h, i) /\ link'[h][i].s = link[h][i].s
  PROVE  ReplInv'
<1>1. TypeOK /\ host' = host
  BY DEF ReplInv, slaveVars
<1>2. \A h \in Hosts, i \in Conns : LinkOK(h, i) /\ Quiet(h, i)
  BY DEF ReplInv
<1>3. \A h \in Hosts : DispGoesOn(h) /\ StreamOK(disp'[h])
  BY <1>1, SameStreamFacts DEF ReplInv
<1>4. \A h \in Hosts, i \in Conns : LinkOK(h, i)'
  BY <1>1, <1>2, <1>3, QuietFacts
<1>5. \A h \in Hosts : LedgerOK(h)'
  BY <1>2, LessLedger DEF ReplInv, Quiet
<1>6. \A h \in Hosts : BeginOK(h)'
  BY <1>1, <1>2, QuietBegin DEF ReplInv
<1>7. SessionOK'
  <2>1. session.open => host \in Hosts
    BY OpenHost DEF ReplInv
  <2> QED
    BY <2>1, QuietSession
<1>8. OneOK'
  <2>1. session.open => host \in Hosts
    BY OpenHost DEF ReplInv
  <2> QED
    BY <2>1, OneIsConn, QuietOne
<1> QED
  BY <1>3, <1>4, <1>5, <1>6, <1>7, <1>8 DEF ReplInv

(***************************************************************************)
(* What a session of the master sends.                                      *)
(***************************************************************************)
Chunks == [first : Sids, last : Sids]

LEMMA PlacedIs ==
  ASSUME NEW d \in Disps, TypeOK, StreamOK(d), d.st # "none"
  PROVE  /\ Placed(d) \in Disps /\ StreamOK(Placed(d))
         /\ Placed(d).st = d.st /\ Placed(d).start = d.start /\ Placed(d).sent = d.sent
         /\ Placed(d).conns = d.conns
<1>1. CASE d.placed \/ d.start >= top
  BY <1>1 DEF Placed
<1>2. CASE ~(d.placed \/ d.start >= top)
  <2> DEFINE p == [d EXCEPT !.placed = TRUE, !.at = d.start + 1, !.next = FALSE]
  <2>1. Placed(d) = p
    BY <1>2 DEF Placed
  <2>2. d.start \in 0..MaxSid /\ top \in 0..MaxSid /\ d.start < top /\ MaxSid \in Nat
    BY <1>2, BoundsAssumption DEF Disps, TypeOK
  <2>3. d.start + 1 \in 0..MaxSid
    BY <2>2
  <2>4. p \in Disps /\ p.st = d.st /\ p.start = d.start /\ p.sent = d.sent /\ p.conns = d.conns
    BY <2>3 DEF Disps
  <2>5. p.at = d.start + 1 /\ p.next = FALSE /\ p.placed = TRUE
    BY DEF Disps
  <2> HIDE DEF p
  <2>6. d.sent = <<>>
    BY <1>2 DEF StreamOK
  <2>7. EndOf(p) = d.start /\ EndOf(d) = d.start /\ FirstToSend(p) = d.start + 1
    BY <2>4, <2>5, <2>6 DEF EndOf, FirstToSend
  <2>8. StreamOK(p)
    BY <2>4, <2>6, <2>7 DEF StreamOK
  <2> QED
    BY <2>1, <2>4, <2>8
<1> QED
  BY <1>1, <1>2

\* The session after it has sent the messages up to last.
SentUpTo(p, last) ==
  [p EXCEPT !.at = last, !.next = TRUE,
            !.sent = Append(@, [first |-> FirstToSend(p), last |-> last])]

LEMMA SentIs ==
  ASSUME NEW p \in Disps, TypeOK, StreamOK(p), p.st # "none", p.placed,
         NEW last \in FirstToSend(p)..top
  PROVE  LET e == SentUpTo(p, last)
         IN  /\ e \in Disps /\ StreamOK(e)
             /\ e.st = p.st /\ e.start = p.start /\ e.conns = p.conns
             /\ Len(e.sent) = Len(p.sent) + 1
             /\ \A k \in 1..Len(p.sent) : e.sent[k] = p.sent[k]
             /\ Len(p.sent) \in 0..MaxSid
<1> DEFINE c == [first |-> FirstToSend(p), last |-> last]
           e == SentUpTo(p, last)
           n == Len(p.sent)
<1>1. /\ p.sent \in Seq(Chunks) /\ n \in Nat /\ p.start \in 0..MaxSid
      /\ top \in 0..MaxSid /\ MaxSid \in Nat
  BY BoundsAssumption DEF Disps, TypeOK, Chunks
<1>2. EndOf(p) \in 0..MaxSid
  <2>1. CASE p.sent = <<>>
    BY <1>1, <2>1 DEF EndOf
  <2>2. CASE p.sent # <<>>
    <3>1. n \in 1..n
      BY <1>1, <2>2
    <3>2. p.sent[n] \in Chunks
      BY <1>1, <3>1
    <3> QED
      BY <2>2, <3>2 DEF EndOf, Chunks, Sids
  <2> QED
    BY <2>1, <2>2
<1>3. FirstToSend(p) = EndOf(p) + 1 /\ p.start + n <= EndOf(p)
  BY DEF StreamOK
<1>4. FirstToSend(p) \in Sids /\ last \in Sids /\ FirstToSend(p) <= last /\ last \in 0..MaxSid
  BY <1>1, <1>2, <1>3 DEF Sids
<1>5. c \in Chunks /\ c.first = EndOf(p) + 1 /\ c.last = last
  BY <1>3, <1>4 DEF Chunks
<1> HIDE DEF c
<1>6. /\ Append(p.sent, c) \in Seq(Chunks) /\ Len(Append(p.sent, c)) = n + 1
      /\ \A k \in 1..n : Append(p.sent, c)[k] = p.sent[k]
      /\ Append(p.sent, c)[n + 1] = c
  BY <1>1, <1>5
<1>7. /\ e \in Disps /\ e.st = p.st /\ e.start = p.start /\ e.conns = p.conns
      /\ e.sent = Append(p.sent, c) /\ e.at = last /\ e.next = TRUE /\ e.placed
  BY <1>4, <1>6 DEF SentUpTo, Disps, c, Chunks
<1> HIDE DEF e
<1>8. /\ Len(e.sent) = n + 1 /\ e.sent[n + 1] = c /\ \A k \in 1..n : e.sent[k] = p.sent[k]
      /\ e.sent # <<>>
  BY <1>1, <1>6, <1>7
<1>9. EndOf(e) = last
  BY <1>5, <1>8 DEF EndOf
<1>10. FirstToSend(e) = last + 1
  BY <1>7 DEF FirstToSend
<1>11. \A k \in 1..n : p.sent[k] \in Chunks
  BY <1>1
<1>12. \A k \in 1..n :
         /\ p.sent[k].first <= p.sent[k].last /\ p.sent[k].last <= EndOf(p)
         /\ p.sent[k].first = (IF k = 1 THEN p.start ELSE p.sent[k-1].last) + 1
         /\ \A j \in 1..k-1 : p.sent[j].last < p.sent[k].first
  BY DEF StreamOK
<1>13. ASSUME NEW k \in 1..Len(e.sent)
       PROVE  /\ e.sent[k].first <= e.sent[k].last /\ e.sent[k].last <= EndOf(e)
              /\ e.sent[k].first = (IF k = 1 THEN e.start ELSE e.sent[k-1].last) + 1
              /\ \A j \in 1..k-1 : e.sent[j].last < e.sent[k].first
  <2>1. CASE k \in 1..n
    <3>1. p.sent[k] \in Chunks /\ \A j \in 1..k-1 : p.sent[j] \in Chunks /\ j \in 1..n
      BY <1>1, <1>11, <2>1
    <3>2. p.sent[k].last <= EndOf(e)
      BY <1>2, <1>3, <1>4, <1>9, <1>12, <2>1, <3>1 DEF Chunks, Sids
    <3>3. e.sent[k] = p.sent[k] /\ \A j \in 1..k-1 : e.sent[j] = p.sent[j]
      BY <1>8, <2>1, <3>1
    <3>4. k # 1 => k - 1 \in 1..k-1
      BY <1>1, <2>1
    <3> QED
      BY <1>7, <1>12, <2>1, <3>2, <3>3, <3>4
  <2>2. CASE k = n + 1
    <3>1. e.sent[k] = c /\ c.first = EndOf(p) + 1 /\ c.last = last
      BY <1>5, <1>8, <2>2
    <3>2. c.first <= c.last /\ c.last <= EndOf(e)
      BY <1>3, <1>4, <1>5, <1>9
    <3>3. \A j \in 1..n : e.sent[j] = p.sent[j] /\ p.sent[j].last <= EndOf(p) /\ p.sent[j] \in Chunks
      BY <1>8, <1>11, <1>12
    <3>4. \A j \in 1..k-1 : e.sent[j].last < c.first
      <4>1. \A j \in 1..k-1 : j \in 1..n
        BY <1>1, <2>2
      <4>2. \A x \in Chunks : x.last \in Int
        BY DEF Chunks, Sids
      <4>3. \A x \in Chunks : x.last <= EndOf(p) => x.last < c.first
        BY <1>2, <1>5, <4>2
      <4> QED
        BY <3>3, <4>1, <4>3
    <3>5. n = 0 => p.sent = <<>>
      BY <1>1
    <3>6. EndOf(p) = IF k = 1 THEN e.start ELSE e.sent[k-1].last
      BY <1>1, <1>7, <2>2, <3>3, <3>5 DEF EndOf
    <3> QED
      BY <3>1, <3>2, <3>4, <3>6
  <2> QED
    BY <1>1, <1>8, <2>1, <2>2
<1>14. e.start + Len(e.sent) <= EndOf(e) /\ EndOf(e) <= MaxSid
  BY <1>1, <1>2, <1>3, <1>4, <1>7, <1>8, <1>9
<1>15. StreamOK(e)
  BY <1>7, <1>9, <1>10, <1>13, <1>14 DEF StreamOK
<1>16. n \in 0..MaxSid
  BY <1>1, <1>2, <1>3
<1> QED
  BY <1>7, <1>8, <1>15, <1>16 DEF e

\* The state a session of the master sends from: what it is, or a new one
\* behind the reported sid.
GoesOn(h, i, d, down) ==
  /\ ~Reports(h, i)
  /\ d.start = disp[h].start /\ d.sent = disp[h].sent /\ disp[h].st # "none"
  /\ down = ToS(h, i)

Begins(h, i, d, down) ==
  /\ Reports(h, i) /\ ToM(h, i) = <<Report(d.start)>> /\ d.sent = <<>>
  /\ down = <<Accept>>

\* What sending changes.
SendsOn(h, i, d, down) ==
  /\ \A g \in Hosts, j \in Conns : g # h \/ j # i => Kept(g, j)
  /\ \A g \in Hosts \ {h} : disp'[g] = disp[g]
  /\ \A g \in Hosts : StreamOK(disp'[g])
  /\ ToM(h, i)' = <<>> /\ ~Reports(h, i)' /\ ~Joins(h, i)' /\ ~Answers(h, i)'
  /\ disp'[h].start = d.start /\ disp'[h].st = d.st
  /\ (Accepts(h, i)' <=> down = <<Accept>>) /\ ~Refused(h, i)'
  /\ ToS(h, i)' = <<>> \/ Accepts(h, i)' \/ HasData(h, i)'
  /\ \A k \in 1..Len(d.sent) : disp'[h].sent[k] = d.sent[k]
  /\ \/ /\ Redo(h, i)' /\ ~HasData(h, i)' /\ Sent(h, i)' = Sent(h, i)
        /\ Len(disp'[h].sent) = Len(d.sent)
     \/ /\ ~Redo(h, i)' /\ HasData(h, i)' /\ Sent(h, i)' = Len(d.sent)
        /\ Len(disp'[h].sent) = Len(d.sent) + 1

LEMMA SendEffect ==
  ASSUME ReplInv, NEW h \in Hosts, NEW i \in Conns, NEW d \in Disps, NEW down,
         StreamOK(d), d.st # "none", down = <<>> \/ down = <<Accept>>,
         SendNext(h, i, d, down), UNCHANGED <<top, slaveVars, link, faults>>,
         toMaster' \in [Hosts -> [Conns -> Seq(Messages({"report", "newconn", "reply"}, 0..MaxSid))]],
         ToM(h, i)' = <<>>,
         \A g \in Hosts, j \in Conns : g # h \/ j # i => ToM(g, j)' = ToM(g, j)
  PROVE  TypeOK' /\ SendsOn(h, i, d, down)
<1> DEFINE p == Placed(d)
           n == Len(d.sent)
<1>1. /\ TypeOK /\ p \in Disps /\ StreamOK(p)
      /\ p.st = d.st /\ p.start = d.start /\ p.sent = d.sent
  BY PlacedIs DEF ReplInv
<1>12. d.sent \in Seq(Chunks) /\ n \in Nat
  BY DEF Disps, Chunks
<1>2. /\ n \in Nat /\ lastSeq \in [Hosts -> [Conns -> Nat \cup {None}]]
      /\ toSlave \in [Hosts -> [Conns -> Seq(Messages({"accept", "data", "err"}, 0..MaxSid))]]
      /\ disp \in [Hosts -> Disps] /\ redo \subseteq Hosts \X Conns
  BY <1>1, <1>12 DEF TypeOK
<1>3. down \in Seq(Messages({"accept", "data", "err"}, 0..MaxSid))
  <2>1. Accept \in Messages({"accept", "data", "err"}, 0..MaxSid)
    BY BoundsAssumption DEF Messages, Accept
  <2>2. <<>> \in Seq(Messages({"accept", "data", "err"}, 0..MaxSid))
    OBVIOUS
  <2>3. <<Accept>> \in Seq(Messages({"accept", "data", "err"}, 0..MaxSid))
    BY <2>1, TupleSeqs
  <2> QED
    BY <2>2, <2>3
<1> HIDE DEF p
<1>4. CASE ~CanSend(d)
  <2>1. /\ redo' = redo \cup {<<h, i>>} /\ disp' = [disp EXCEPT ![h] = p]
        /\ toSlave' = [toSlave EXCEPT ![h][i] = down] /\ lastSeq' = lastSeq
    BY <1>4 DEF SendNext, p
  <2>2. TypeOK'
    BY <1>1, <1>2, <1>3, <2>1 DEF TypeOK, slaveVars
  <2>3. \A g \in Hosts, j \in Conns :
          /\ ToS(g, j)' = (IF g = h /\ j = i THEN down ELSE ToS(g, j))
          /\ Sent(g, j)' = Sent(g, j)
    BY <1>2, <2>1, PutIs DEF ToS, Sent
  <2>4. \A g \in Hosts, j \in Conns : Redo(g, j)' <=> (Redo(g, j) \/ (g = h /\ j = i))
    BY <2>1 DEF Redo
  <2>5. disp'[h] = p /\ \A g \in Hosts \ {h} : disp'[g] = disp[g]
    BY <1>2, <2>1
  <2>6. \A g \in Hosts, j \in Conns : g # h \/ j # i => Kept(g, j)
    BY <2>3, <2>4 DEF Kept
  <2>7. \A g \in Hosts : StreamOK(disp'[g])
    BY <1>1, <2>5 DEF ReplInv
  <2>8. Apart(h, i)' /\ SlaveKind(h, i)'
    <3>1. AllApart' /\ AllSlaveKinds'
      BY <2>2, KindsApart, SlaveKinds, PTL
    <3> QED
      BY <3>1 DEF AllApart, AllSlaveKinds
  <2>9. ~Reports(h, i)' /\ ~Joins(h, i)' /\ ~Answers(h, i)'
    BY <2>8 DEF Apart
  <2>10. ToS(h, i)' = down
    BY <2>3
  <2>11. (Accepts(h, i)' <=> down = <<Accept>>) /\ ~HasData(h, i)' /\ ~Refused(h, i)'
    BY <2>8, <2>10, ShortSeqs DEF SlaveKind
  <2>12. Redo(h, i)' /\ Sent(h, i)' = Sent(h, i)
    BY <2>3, <2>4
  <2>13. ToS(h, i)' = <<>> \/ Accepts(h, i)'
    BY <2>10, <2>11
  <2> QED
    BY <1>1, <2>2, <2>5, <2>6, <2>7, <2>9, <2>11, <2>12, <2>13 DEF SendsOn
<1>5. CASE CanSend(d)
  <2>1. p.placed
    BY <1>5 DEF CanSend, p
  <2>2. PICK last \in FirstToSend(p)..top :
          /\ disp' = [disp EXCEPT ![h] = SentUpTo(p, last)]
          /\ lastSeq' = [lastSeq EXCEPT ![h][i] = n]
          /\ toSlave' = [toSlave EXCEPT ![h][i] = Append(down, Data(n))]
          /\ redo' = redo \ {<<h, i>>}
    BY <1>1, <1>5 DEF SendNext, p, SentUpTo
  <2> DEFINE e == SentUpTo(p, last)
  <2>3. /\ e \in Disps /\ StreamOK(e) /\ e.st = d.st /\ e.start = d.start
        /\ Len(e.sent) = n + 1 /\ \A k \in 1..n : e.sent[k] = d.sent[k]
        /\ n \in 0..MaxSid
    BY <1>1, <2>1, SentIs
  <2> HIDE DEF e, n
  <2>4. Append(down, Data(n)) \in Seq(Messages({"accept", "data", "err"}, 0..MaxSid))
    <3>1. Data(n) \in Messages({"accept", "data", "err"}, 0..MaxSid)
      BY <2>3 DEF Data, Messages
    <3> QED
      BY <1>3, <3>1
  <2>5. TypeOK'
    BY <1>1, <1>2, <2>2, <2>3, <2>4 DEF TypeOK, slaveVars, e
  <2>6. \A g \in Hosts, j \in Conns :
          /\ ToS(g, j)' = (IF g = h /\ j = i THEN Append(down, Data(n)) ELSE ToS(g, j))
          /\ Sent(g, j)' = (IF g = h /\ j = i THEN n ELSE Sent(g, j))
    BY <1>2, <2>2, PutIs DEF ToS, Sent
  <2>7. \A g \in Hosts, j \in Conns : Redo(g, j)' <=> (Redo(g, j) /\ ~(g = h /\ j = i))
    BY <2>2 DEF Redo
  <2>8. disp'[h] = e /\ \A g \in Hosts \ {h} : disp'[g] = disp[g]
    BY <1>2, <2>2 DEF e
  <2>9. \A g \in Hosts, j \in Conns : g # h \/ j # i => Kept(g, j)
    BY <2>6, <2>7 DEF Kept
  <2>10. \A g \in Hosts : StreamOK(disp'[g])
    BY <2>3, <2>8 DEF ReplInv
  <2>11. Apart(h, i)' /\ SlaveKind(h, i)'
    <3>1. AllApart' /\ AllSlaveKinds'
      BY <2>5, KindsApart, SlaveKinds, PTL
    <3> QED
      BY <3>1 DEF AllApart, AllSlaveKinds
  <2>12. ~Reports(h, i)' /\ ~Joins(h, i)' /\ ~Answers(h, i)'
    BY <2>11 DEF Apart
  <2>13. Sent(h, i)' = n /\ n >= 0 /\ ~Redo(h, i)'
    BY <2>3, <2>6, <2>7
  <2>14. (Accepts(h, i)' <=> down = <<Accept>>) /\ HasData(h, i)' /\ ~Refused(h, i)'
    <3>1. CASE down = <<>>
      <4>1. ToS(h, i)' = <<Data(n)>> /\ down # <<Accept>>
        BY <2>6, <3>1, ShortSeqs
      <4> QED
        BY <2>11, <2>13, <4>1 DEF SlaveKind
    <3>2. CASE down = <<Accept>>
      <4>1. ToS(h, i)' = <<Accept, Data(n)>>
        BY <2>6, <3>2, ShortSeqs
      <4> QED
        BY <2>11, <2>13, <3>2, <4>1 DEF SlaveKind
    <3> QED
      BY <3>1, <3>2
  <2> QED
    BY <2>3, <2>5, <2>8, <2>9, <2>10, <2>12, <2>13, <2>14 DEF SendsOn, n
<1> QED
  BY <1>4, <1>5

LEMMA UnusedIdle ==
  ASSUME NEW h \in Hosts, NEW i \in Conns, TypeOK, Unused(h, i)
  PROVE  ~AtMaster(h, i) /\ ~Reports(h, i) /\ ~Accepts(h, i) /\ ~HasData(h, i)
<1>1. Apart(h, i)
  BY KindsApart DEF AllApart
<1> QED
  BY <1>1 DEF Apart, Unused, AtMaster

\* What the steps that send something keep.
SendsFrom(h, i, d, down) ==
  /\ SendsOn(h, i, d, down) /\ AtMaster(h, i) /\ d.st # "none"
  /\ down = <<>> \/ down = <<Accept>>
  /\ GoesOn(h, i, d, down) \/ Begins(h, i, d, down)

LEMMA SendFrom ==
  ASSUME ReplInv, NEW h \in Hosts, NEW i \in Conns, NEW d, NEW down,
         SendsFrom(h, i, d, down)
  PROVE  /\ d.sent = disp[h].sent /\ h <= host /\ Len(d.sent) \in Nat
         /\ Reports(h, i) => i = 1
         /\ Reports(h, 1) \/ Accepts(h, 1) => i = 1
         /\ down = <<Accept>> => Reports(h, i) \/ Accepts(h, i)
         /\ Reports(h, i) \/ Accepts(h, i) => down = <<Accept>>
<1>1. TypeOK /\ BeginOK(h) /\ host \in Int /\ h \in Int /\ LinkOK(h, i)
  BY DEF ReplInv, TypeOK, Hosts
<1>2. ~Unused(h, i)
  BY <1>1, UnusedIdle DEF SendsFrom
<1>3. h <= host
  BY <1>1, <1>2 DEF BeginOK
<1>4. Reports(h, i) => i = 1
  BY <1>1 DEF BeginOK
<1>5. Reports(h, 1) \/ Accepts(h, 1) => i = 1
  BY <1>1, <1>2 DEF BeginOK
<1>6. d.sent = disp[h].sent
  BY <1>1, <1>4 DEF BeginOK, SendsFrom, GoesOn, Begins, NoDisp
<1>7. disp[h].sent \in Seq(Chunks)
  BY <1>1 DEF TypeOK, Disps, Chunks
<1>8. Apart(h, i) /\ SlaveKind(h, i)
  BY <1>1, KindsApart, SlaveKinds DEF AllApart, AllSlaveKinds
<1>9. down = <<Accept>> => Reports(h, i) \/ Accepts(h, i)
  BY <1>8 DEF SendsFrom, GoesOn, Begins, SlaveKind
<1>10. Reports(h, i) \/ Accepts(h, i) => down = <<Accept>>
  <2>1. CASE Reports(h, i)
    BY <2>1 DEF SendsFrom, GoesOn, Begins
  <2>2. CASE ~Reports(h, i) /\ Accepts(h, i)
    BY <1>8, <2>2 DEF SendsFrom, GoesOn, Begins, Apart
  <2> QED
    BY <2>1, <2>2
<1> QED
  BY <1>3, <1>4, <1>5, <1>6, <1>7, <1>9, <1>10

LEMMA SendLinks ==
  ASSUME ReplInv, TypeOK', NEW h \in Hosts, NEW i \in Conns, NEW d, NEW down,
         SendsFrom(h, i, d, down), host' = host
  PROVE  /\ \A g \in Hosts, j \in Conns : LinkOK(g, j)'
         /\ \A g \in Hosts : LedgerOK(g)' /\ BeginOK(g)'
<1>1. /\ TypeOK /\ d.sent = disp[h].sent /\ h <= host /\ Len(d.sent) \in Nat
      /\ host \in Int /\ h \in Int
  <2>1. TypeOK
    BY DEF ReplInv
  <2>2. host \in Int /\ h \in Int
    BY <2>1 DEF TypeOK, Hosts
  <2> QED
    BY <2>1, <2>2, SendFrom
<1>2. \A g \in Hosts, j \in Conns : g # h \/ j # i => Kept(g, j) /\ Less(g, j)
  BY KeptIsLess DEF SendsFrom, SendsOn
<1>3. \A g \in Hosts : DispGoesOn(g)
  <2>1. \A g \in Hosts : Len(disp[g].sent) \in Nat
    BY <1>1, SMTT(20) DEF TypeOK, Disps
  <2>2. DispGoesOn(h)
    BY <1>1 DEF SendsFrom, SendsOn, DispGoesOn
  <2>3. \A g \in Hosts \ {h} : DispGoesOn(g)
    BY <2>1 DEF SendsFrom, SendsOn, DispGoesOn
  <2> QED
    BY <2>2, <2>3
<1>4. \A j \in Conns : Sent(h, j) \in Int /\ Sent(h, j) < Len(d.sent)
  BY <1>1, SMTT(20) DEF ReplInv, LinkOK, TypeOK, Sent, None
<1>5. ASSUME NEW g \in Hosts, NEW j \in Conns  PROVE LinkOK(g, j)'
  <2>1. CASE g # h \/ j # i
    BY <1>1, <1>2, <1>3, <2>1, LessLink DEF ReplInv
  <2>2. CASE g = h /\ j = i
    <3>1. /\ ToM(h, i)' = <<>> /\ ~Joins(h, i)' /\ ~Refused(h, i)'
          /\ ToS(h, i)' = <<>> \/ Accepts(h, i)' \/ HasData(h, i)'
          /\ disp'[h].st # "none"
      BY DEF SendsFrom, SendsOn
    <3>2. (Redo(h, i)' => ~HasData(h, i)') /\ Sent(h, i)' < Len(disp'[h].sent)
      BY <1>1, <1>4, SMTT(20) DEF SendsFrom, SendsOn
    <3>3. LinkOK(h, i)'
      BY <3>1, <3>2 DEF LinkOK
    <3> QED
      BY <2>2, <3>3
  <2> QED
    BY <2>1, <2>2
<1>6. ASSUME NEW g \in Hosts  PROVE LedgerOK(g)'
  <2>1. CASE g # h
    BY <1>2, <2>1, LessLedger DEF ReplInv, Kept
  <2>2. CASE g = h
    <3>1. \A j \in Conns : j # i => Sent(h, j)' = Sent(h, j)
      BY <1>2 DEF Kept
    <3>2. Sent(h, i)' = Sent(h, i) \/ Sent(h, i)' = Len(d.sent)
      BY DEF SendsFrom, SendsOn
    <3>3. LedgerOK(h)
      BY DEF ReplInv
    <3>4. LedgerOK(h)'
      BY <1>1, <1>4, <3>1, <3>2, <3>3 DEF LedgerOK, None
    <3> QED
      BY <2>2, <3>4
  <2> QED
    BY <2>1, <2>2
<1>7. ASSUME NEW g \in Hosts  PROVE BeginOK(g)'
  <2>1. CASE g # h
    BY <1>1, <1>2, <2>1, LessBegin DEF ReplInv, SendsFrom, SendsOn
  <2>2. CASE g = h
    <3>1. BeginOK(h)
      BY DEF ReplInv
    <3>2. \A j \in Conns : j # i =>
            /\ Reports(h, j)' => Reports(h, j)
            /\ Accepts(h, j)' => Accepts(h, j)
            /\ Unused(h, j) => Unused(h, j)'
      BY <1>1, <1>2, LessFacts
    <3>3. ~Reports(h, i)' /\ (Accepts(h, i)' => Reports(h, i) \/ Accepts(h, i))
      BY SendFrom DEF SendsFrom, SendsOn
    <3>4. Reports(h, 1) \/ Accepts(h, 1) => i = 1
      BY SendFrom
    <3>5. \A j \in Conns : Reports(h, j)' \/ Accepts(h, j)' => j = 1
      BY <3>1, <3>2, <3>3 DEF BeginOK
    <3>6. Reports(h, 1)' \/ Accepts(h, 1)' => i = 1 /\ (Reports(h, 1) \/ Accepts(h, 1))
      BY <3>2, <3>3, <3>4, OneIsConn
    <3>7. Reports(h, 1)' \/ Accepts(h, 1)' => \A j \in Conns \ {1} : Unused(h, j)'
      BY <3>1, <3>2, <3>6 DEF BeginOK
    <3>8. ~Reports(h, 1)'
      BY <3>3, <3>6
    <3>9. BeginOK(h)'
      BY <1>1, <3>5, <3>7, <3>8 DEF BeginOK
    <3> QED
      BY <2>2, <3>9
  <2> QED
    BY <2>1, <2>2
<1> QED
  BY <1>5, <1>6, <1>7

LEMMA SendSession ==
  ASSUME ReplInv, TypeOK', NEW i \in Conns, NEW d, NEW down, host \in Hosts,
         SendsFrom(host, i, d, down), UNCHANGED <<slaveVars, link>>, session.open
  PROVE  SessionOK'
<1>1. /\ TypeOK /\ host' = host /\ session' = session /\ slog' = slog /\ link' = link
      /\ host > 0
  BY DEF ReplInv, slaveVars, SessionOK
<1>2. NumbersOK /\ AcceptOK /\ StoredOK /\ BeginOK(host) /\ session.next \in Nat
  BY DEF ReplInv, SessionOK, TypeOK, Sessions
<1>3. d.sent = disp[host].sent /\ Len(d.sent) \in Nat
  BY SendFrom
<1>4. \A j \in Conns : j # i =>
        /\ Kept(host, j)
        /\ Reports(host, j)' <=> Reports(host, j)
        /\ Answers(host, j)' => Answers(host, j)
        /\ AtMaster(host, j)' => AtMaster(host, j)
        /\ HasData(host, j)' <=> HasData(host, j)
        /\ Accepts(host, j)' <=> Accepts(host, j)
  BY <1>1, KeptIsLess, LessFacts DEF SendsFrom, SendsOn, Kept
<1>5. \A j \in Conns : Sent(host, j) \in Int /\ Sent(host, j) < Len(d.sent)
  BY <1>1, <1>3 DEF ReplInv, LinkOK, TypeOK, Sent, None
<1>6. Sent(host, i) < session.next
  BY <1>2 DEF NumbersOK, SendsFrom
<1>7. \A j \in Conns : Waits(j)' <=> Waits(j)
  BY <1>1 DEF Waits
<1>8. \A w \in session.waiting : w.conn \in Conns /\ w.conn # i
  <2>1. \A w \in session.waiting : w.conn \in Conns /\ w.seq = Sent(host, w.conn) /\ w.seq > session.next
    BY <1>1, <1>2 DEF TypeOK, Sessions, NumbersOK
  <2> QED
    BY <1>2, <1>5, <1>6, <2>1
<1>9. ~Waits(i)
  BY <1>8 DEF Waits
<1>10. /\ disp'[host].start = d.start /\ disp'[host].st = d.st
       /\ \A k \in 1..Len(d.sent) : disp'[host].sent[k] = disp[host].sent[k]
  BY <1>3 DEF SendsFrom, SendsOn
<1>11. \/ /\ Redo(host, i)' /\ ~HasData(host, i)' /\ Sent(host, i)' = Sent(host, i)
          /\ Len(disp'[host].sent) = Len(d.sent)
       \/ /\ ~AtMaster(host, i)' /\ HasData(host, i)' /\ Sent(host, i)' = Len(d.sent)
          /\ Len(disp'[host].sent) = Len(d.sent) + 1
  BY DEF SendsFrom, SendsOn, AtMaster
<1>12. NumbersOK'
  <2>1. session.next <= Len(disp'[host].sent)
    BY <1>2, <1>3, <1>11 DEF NumbersOK
  <2>2. \A w \in session.waiting : w.seq = Sent(host, w.conn)' /\ w.seq > session.next
    BY <1>1, <1>2, <1>4, <1>8 DEF NumbersOK, Kept
  <2>3. ASSUME NEW k \in session.next..Len(disp'[host].sent) - 1
        PROVE  \E j \in Conns : Sent(host, j)' = k
    <3>1. CASE k <= Len(d.sent) - 1
      <4>1. PICK j \in Conns : Sent(host, j) = k
        BY <1>2, <1>3, <3>1 DEF NumbersOK
      <4>2. j # i
        BY <1>2, <1>5, <1>6, <4>1
      <4> QED
        BY <1>1, <1>4, <4>1, <4>2 DEF Kept
    <3>2. CASE ~(k <= Len(d.sent) - 1)
      BY <1>2, <1>3, <1>11, <3>2
    <3> QED
      BY <3>1, <3>2
  <2>4. ASSUME NEW j \in Conns
        PROVE  /\ AtMaster(host, j)' => Sent(host, j)' < session.next
               /\ HasData(host, j)' => Sent(host, j)' >= session.next /\ ~Waits(j)
               /\ Sent(host, j)' >= session.next /\ link[host][j].s = "open" =>
                    Waits(j) \/ HasData(host, j)'
    <3>1. CASE j # i
      <4>1. Sent(host, j)' = Sent(host, j)
        BY <1>4, <3>1 DEF Kept
      <4> QED
        BY <1>2, <1>4, <3>1, <4>1 DEF NumbersOK
    <3>2. CASE j = i
      <4>1. Len(d.sent) >= session.next
        BY <1>2, <1>3 DEF NumbersOK
      <4>2. ~(Sent(host, i) >= session.next)
        BY <1>2, <1>5, <1>6
      <4> QED
        BY <1>6, <1>9, <1>11, <3>2, <4>1, <4>2
    <3> QED
      BY <3>1, <3>2
  <2> QED
    BY <1>1, <1>7, <2>1, <2>2, <2>3, <2>4 DEF NumbersOK
<1>13. Reports(host, 1)' \/ Accepts(host, 1)' <=> Reports(host, 1) \/ Accepts(host, 1)
  <2>1. CASE i = 1
    <3>1. ~Reports(host, 1)' /\ (Accepts(host, 1)' <=> down = <<Accept>>)
      BY <1>1, <2>1 DEF SendsFrom, SendsOn
    <3>2. down = <<Accept>> <=> Reports(host, 1) \/ Accepts(host, 1)
      BY <2>1, SendFrom
    <3> QED
      BY <3>1, <3>2
  <2>2. CASE i # 1
    BY <1>4, <2>2, OneIsConn
  <2> QED
    BY <2>1, <2>2
<1>14. AcceptOK'
  <2>1. ~Unused(host, i)
    BY <1>1, UnusedIdle DEF SendsFrom
  <2> QED
    BY <1>1, <1>2, <1>13, <2>1 DEF AcceptOK
<1>15. StoredOK'
  <2>1. Reports(host, 1)' => ToM(host, 1)' = <<Report(SlaveMax)>>
    <3>1. CASE i = 1
      BY <3>1 DEF SendsFrom, SendsOn
    <3>2. CASE i # 1
      BY <1>2, <1>4, <3>2, OneIsConn DEF StoredOK, Kept
    <3> QED
      BY <3>1, <3>2
  <2>2. ASSUME NEW j \in Conns, Answers(host, j)'
        PROVE  disp'[host].sent[Sent(host, j)' + 1].first..disp'[host].sent[Sent(host, j)' + 1].last
                 \subseteq slog
    <3>1. j # i
      BY <2>2 DEF SendsFrom, SendsOn
    <3>2. Answers(host, j) /\ Sent(host, j)' = Sent(host, j)
      BY <1>4, <2>2, <3>1 DEF Kept
    <3>3. Sent(host, j) + 1 \in 1..Len(d.sent)
      BY <1>3, <1>5, <3>2 DEF Answers
    <3> QED
      BY <1>2, <1>10, <3>2, <3>3 DEF StoredOK
  <2>3. SlaveMax' = SlaveMax
    BY <1>1 DEF SlaveMax
  <2>4. SlaveMax <= Reach'
    <3>1. CASE GoesOn(host, i, d, down)
      <4>1. SlaveMax <= Reach /\ d.start = disp[host].start
        BY <1>2, <3>1 DEF StoredOK, GoesOn
      <4>2. Reach' = Reach
        <5>1. session.next # 0 => session.next \in 1..Len(d.sent)
          BY <1>2, <1>3 DEF NumbersOK
        <5> QED
          BY <1>1, <1>10, <4>1, <5>1 DEF Reach
      <4> QED
        BY <4>1, <4>2
    <3>2. CASE Begins(host, i, d, down)
      <4>1. i = 1 /\ Reports(host, 1)
        BY <3>2, SendFrom DEF Begins
      <4>2. session.next = 0
        BY <1>2, <4>1 DEF AcceptOK
      <4>3. Reach' = d.start
        BY <1>1, <1>10, <4>2 DEF Reach
      <4>4. <<Report(d.start)>> = <<Report(SlaveMax)>>
        BY <1>2, <3>2, <4>1 DEF StoredOK, Begins
      <4>5. Report(d.start) = Report(SlaveMax)
        BY <4>4
      <4>6. d.start = SlaveMax
        BY <4>5 DEF Report
      <4>7. d.start \in Int
        BY <1>10 DEF TypeOK, Disps
      <4> QED
        BY <4>3, <4>6, <4>7
    <3> QED
      BY <3>1, <3>2 DEF SendsFrom
  <2> QED
    BY <1>1, <2>1, <2>2, <2>3, <2>4 DEF StoredOK
<1> QED
  BY <1>1, <1>12, <1>14, <1>15 DEF SessionOK

LEMMA SendOne ==
  ASSUME ReplInv, TypeOK', NEW h \in Hosts, NEW i \in Conns, NEW d, NEW down,
         SendsFrom(h, i, d, down), UNCHANGED slaveVars, session.open, h = host
  PROVE  OneOK'
<1>1. /\ host' = host /\ session' = session /\ slog' = slog /\ SlaveMax' = SlaveMax
      /\ TypeOK /\ OneOK /\ NumbersOK /\ AcceptOK /\ StoredOK /\ session.next \in Nat
  BY DEF slaveVars, SlaveMax, ReplInv, SessionOK, TypeOK, Sessions
<1>2. ASSUME NConn = 1  PROVE SlaveMax = Reach'
  <2>1. i = 1
    BY <1>2 DEF Conns
  <2>2. ~Stalled
    BY <2>1 DEF SendsFrom, Stalled
  <2>3. d.sent = disp[host].sent /\ Len(d.sent) \in Nat
    BY SendFrom
  <2>4. /\ disp'[host].start = d.start
        /\ \A k \in 1..Len(d.sent) : disp'[host].sent[k] = d.sent[k]
    BY DEF SendsFrom, SendsOn
  <2>5. CASE GoesOn(host, i, d, down)
    <3>1. d.start = disp[host].start /\ disp[host].st # "none"
      BY <2>5 DEF GoesOn
    <3>2. SlaveMax = Reach
      BY <1>1, <1>2, <2>2, <3>1 DEF OneOK
    <3>3. session.next # 0 => session.next \in 1..Len(d.sent)
      BY <1>1, <2>3 DEF NumbersOK
    <3>4. Reach' = Reach
      BY <1>1, <2>3, <2>4, <3>1, <3>3 DEF Reach
    <3> QED
      BY <3>2, <3>4
  <2>6. CASE Begins(host, i, d, down)
    <3>1. Reports(host, 1)
      BY <2>1, <2>6 DEF Begins
    <3>2. session.next = 0
      BY <1>1, <3>1 DEF AcceptOK
    <3>3. Reach' = d.start
      BY <1>1, <2>4, <3>2 DEF Reach
    <3>4. <<Report(d.start)>> = <<Report(SlaveMax)>>
      BY <1>1, <2>1, <2>6, <3>1 DEF StoredOK, Begins
    <3>5. Report(d.start) = Report(SlaveMax)
      BY <3>4
    <3>6. d.start = SlaveMax
      BY <3>5 DEF Report
    <3> QED
      BY <3>3, <3>6
  <2> QED
    BY <2>5, <2>6 DEF SendsFrom
<1> QED
  BY <1>1, <1>2 DEF OneOK

LEMMA SendStep ==
  ASSUME ReplInv, TypeOK', NEW h \in Hosts, NEW i \in Conns, NEW d, NEW down,
         SendsFrom(h, i, d, down), UNCHANGED <<slaveVars, link>>
  PROVE  ReplInv'
<1>1. host' = host /\ session' = session /\ link' = link
  BY DEF slaveVars
<1>2. \A g \in Hosts : StreamOK(disp'[g])
  BY DEF SendsFrom, SendsOn
<1>3. SessionOK'
  <2>1. CASE ~session.open
    BY <1>1, <2>1 DEF ReplInv, SessionOK, NoSession
  <2>2. CASE session.open /\ h = host
    BY <2>2, SendSession
  <2>3. CASE session.open /\ h # host
    <3>1. host \in Hosts
      BY <2>3, OpenHost DEF ReplInv
    <3>2. SameStream(host) /\ \A j \in Conns : Quiet(host, j) /\ link'[host][j].s = link[host][j].s
      BY <1>1, <2>3, <3>1 DEF SendsFrom, SendsOn, SameStream, Quiet, Kept
    <3> QED
      BY <3>2, QuietSession
  <2> QED
    BY <2>1, <2>2, <2>3
<1>4. OneOK'
  <2>1. CASE session.open /\ h = host
    BY <2>1, SendOne
  <2>2. CASE ~(session.open /\ h = host)
    <3>1. ASSUME session.open  PROVE SameStream(host) /\ Quiet(host, 1)
      <4>1. host \in Hosts /\ h # host
        BY <2>2, <3>1, OpenHost DEF ReplInv
      <4>2. SameStream(host) /\ \A j \in Conns : Quiet(host, j)
        BY <1>1, <4>1 DEF SendsFrom, SendsOn, SameStream, Quiet, Kept
      <4> QED
        BY <4>2, OneIsConn
    <3> QED
      BY <3>1, QuietOne
  <2> QED
    BY <2>1, <2>2
<1> QED
  BY <1>1, <1>2, <1>3, <1>4, SendLinks DEF ReplInv

(***************************************************************************)
(* The steps of the master.                                                *)
(***************************************************************************)
LEMMA TakenFromMaster ==
  ASSUME ReplInv, NEW h \in Hosts, NEW i \in Conns, NEW t, MasterGets(h, i, t)
  PROVE  /\ ToM(h, i)' = <<>> /\ ToM(h, i) # <<>>
         /\ \A g \in Hosts, j \in Conns : g # h \/ j # i => ToM(g, j)' = ToM(g, j)
         /\ toMaster' \in
              [Hosts -> [Conns -> Seq(Messages({"report", "newconn", "reply"}, 0..MaxSid))]]
         /\ ToS(h, i) = <<>> /\ ~Redo(h, i)
         /\ t = "report" => Reports(h, i) /\ ToM(h, i) = <<Report(Arg(h, i))>> /\ Arg(h, i) \in 0..MaxSid
         /\ t = "newconn" => Joins(h, i)
         /\ t = "reply" => Answers(h, i)
<1>1. TypeOK /\ LinkOK(h, i) /\ ToM(h, i) # <<>> /\ Head(ToM(h, i)).type = t
  BY DEF ReplInv, MasterGets, ToM
<1>2. Tail(ToM(h, i)) = <<>>
  BY <1>1, FromMaster
<1>3. toMaster \in [Hosts -> [Conns -> Seq(Messages({"report", "newconn", "reply"}, 0..MaxSid))]]
  BY <1>1 DEF TypeOK
<1>4. toMaster' = [toMaster EXCEPT ![h][i] = <<>>]
  BY <1>2, <1>3 DEF MasterGets, ToM
<1>5. \A g \in Hosts, j \in Conns :
        ToM(g, j)' = IF g = h /\ j = i THEN <<>> ELSE ToM(g, j)
  BY <1>3, <1>4, PutIs DEF ToM
<1>6. toMaster' \in
        [Hosts -> [Conns -> Seq(Messages({"report", "newconn", "reply"}, 0..MaxSid))]]
  <2> DEFINE Q == Seq(Messages({"report", "newconn", "reply"}, 0..MaxSid))
  <2>1. <<>> \in Q
    OBVIOUS
  <2> HIDE DEF Q
  <2>2. toMaster \in [Hosts -> [Conns -> Q]]
    BY <1>3 DEF Q
  <2>3. toMaster' \in [Hosts -> [Conns -> Q]]
    BY <1>4, <2>1, <2>2
  <2> QED
    BY <2>3 DEF Q
<1>7. ToS(h, i) = <<>> /\ ~Redo(h, i)
  BY <1>1 DEF LinkOK
<1>8. /\ t = "report" => Reports(h, i) /\ ToM(h, i) = <<Report(Arg(h, i))>> /\ Arg(h, i) \in 0..MaxSid
      /\ t = "newconn" => Joins(h, i)
      /\ t = "reply" => Answers(h, i)
  BY <1>1, FromMaster DEF Arg, ToM
<1> QED
  BY <1>1, <1>5, <1>6, <1>7, <1>8

LEMMA RecvReportKeeps ==
  ASSUME ReplInv, NEW h \in Hosts, NEW i \in Conns, RecvReport(h, i)
  PROVE  ReplInv'
<1> DEFINE s == Arg(h, i)
           d == [NoDisp EXCEPT !.st = "open", !.start = s, !.conns = {i}]
<1>1. MasterGets(h, i, "report")
  BY DEF RecvReport
<1>2. /\ ToM(h, i)' = <<>>
      /\ \A g \in Hosts, j \in Conns : g # h \/ j # i => ToM(g, j)' = ToM(g, j)
      /\ toMaster' \in
           [Hosts -> [Conns -> Seq(Messages({"report", "newconn", "reply"}, 0..MaxSid))]]
      /\ ToS(h, i) = <<>> /\ Reports(h, i) /\ ToM(h, i) = <<Report(s)>> /\ s \in 0..MaxSid
  BY <1>1, TakenFromMaster
<1>3. Append(toSlave[h][i], Accept) = <<Accept>>
  BY <1>2, ShortSeqs DEF ToS
<1>4. SendNext(h, i, d, <<Accept>>) /\ UNCHANGED <<top, slaveVars, link, faults>>
  BY <1>3 DEF RecvReport
<1> HIDE DEF s
<1>5. d \in Disps /\ d.st = "open" /\ d.start = s /\ d.sent = <<>> /\ ~d.placed
  <2>1. /\ NoDisp \in Disps /\ NoDisp.sent = <<>> /\ NoDisp.placed = FALSE
    <3>1. <<>> \in Seq(Chunks) /\ 0 \in 0..MaxSid /\ {} \in SUBSET Conns
      BY BoundsAssumption
    <3> QED
      BY <3>1 DEF NoDisp, Disps, Chunks
  <2>2. {i} \in SUBSET Conns
    OBVIOUS
  <2> QED
    BY <1>2, <2>1, <2>2 DEF Disps
<1> HIDE DEF d
<1>6. EndOf(d) = s /\ Len(d.sent) = 0
  BY <1>5 DEF EndOf
<1>7. StreamOK(d)
  BY <1>2, <1>5, <1>6 DEF StreamOK
<1>8. TypeOK' /\ SendsOn(h, i, d, <<Accept>>)
  BY <1>2, <1>4, <1>5, <1>7, SendEffect
<1>9. SendsFrom(h, i, d, <<Accept>>)
  BY <1>2, <1>5, <1>8 DEF SendsFrom, Begins, AtMaster
<1> QED
  BY <1>4, <1>8, <1>9, SendStep

\* One more connection changes nothing of what is sent.
LEMMA JoinedIs ==
  ASSUME NEW d \in Disps, NEW c \in SUBSET Conns, StreamOK(d), d.st # "none"
  PROVE  LET e == [d EXCEPT !.conns = c]
         IN  e \in Disps /\ StreamOK(e) /\ e.st = d.st /\ e.start = d.start /\ e.sent = d.sent
<1> DEFINE e == [d EXCEPT !.conns = c]
<1>1. /\ e \in Disps /\ e.st = d.st /\ e.start = d.start /\ e.sent = d.sent
      /\ e.placed = d.placed /\ e.at = d.at /\ e.next = d.next
  BY DEF Disps
<1> HIDE DEF e
<1>2. EndOf(e) = EndOf(d) /\ FirstToSend(e) = FirstToSend(d)
  BY <1>1 DEF EndOf, FirstToSend
<1>3. StreamOK(e)
  BY <1>1, <1>2 DEF StreamOK
<1> QED
  BY <1>1, <1>3 DEF e

LEMMA RecvNewConnectionKeeps ==
  ASSUME ReplInv, NEW h \in Hosts, NEW i \in Conns, RecvNewConnection(h, i)
  PROVE  ReplInv'
<1> DEFINE d == [disp[h] EXCEPT !.conns = @ \cup {i}]
<1>1. MasterGets(h, i, "newconn") /\ disp[h].st \in {"open", "closed"}
  BY DEF RecvNewConnection
<1>2. /\ ToM(h, i)' = <<>>
      /\ \A g \in Hosts, j \in Conns : g # h \/ j # i => ToM(g, j)' = ToM(g, j)
      /\ toMaster' \in
           [Hosts -> [Conns -> Seq(Messages({"report", "newconn", "reply"}, 0..MaxSid))]]
      /\ ToS(h, i) = <<>> /\ Joins(h, i)
  BY <1>1, TakenFromMaster
<1>3. /\ disp[h] \in Disps /\ StreamOK(disp[h]) /\ disp[h].st # "none"
      /\ disp[h].conns \cup {i} \in SUBSET Conns
  BY <1>1 DEF ReplInv, TypeOK, Disps
<1>4. d = [disp[h] EXCEPT !.conns = disp[h].conns \cup {i}]
  BY <1>3 DEF Disps
<1>5. SendNext(h, i, d, <<>>) /\ UNCHANGED <<top, slaveVars, link, faults>>
  BY <1>2 DEF RecvNewConnection, ToS
<1> HIDE DEF d
<1>6. /\ d \in Disps /\ StreamOK(d) /\ d.st # "none"
      /\ d.start = disp[h].start /\ d.sent = disp[h].sent
  BY <1>3, <1>4, JoinedIs
<1>7. TypeOK' /\ SendsOn(h, i, d, <<>>)
  BY <1>2, <1>5, <1>6, SendEffect
<1>8. ~Reports(h, i)
  BY <1>2, KindsApart DEF ReplInv, AllApart, Apart
<1>9. SendsFrom(h, i, d, <<>>)
  BY <1>2, <1>3, <1>6, <1>7, <1>8 DEF SendsFrom, GoesOn, AtMaster
<1> QED
  BY <1>5, <1>7, <1>9, SendStep

LEMMA RecvReplyKeeps ==
  ASSUME ReplInv, NEW h \in Hosts, NEW i \in Conns, RecvReply(h, i)
  PROVE  ReplInv'
<1> DEFINE d == disp[h]
<1>1. MasterGets(h, i, "reply")
  BY DEF RecvReply
<1>2. /\ ToM(h, i)' = <<>>
      /\ \A g \in Hosts, j \in Conns : g # h \/ j # i => ToM(g, j)' = ToM(g, j)
      /\ toMaster' \in
           [Hosts -> [Conns -> Seq(Messages({"report", "newconn", "reply"}, 0..MaxSid))]]
      /\ ToS(h, i) = <<>> /\ Answers(h, i)
  BY <1>1, TakenFromMaster
<1>3. d \in Disps /\ StreamOK(d) /\ LinkOK(h, i) /\ TypeOK
  BY DEF ReplInv, TypeOK
<1>4. d.st # "none"
  <2>1. Sent(h, i) \in Int /\ Sent(h, i) >= 0 /\ Sent(h, i) < Len(d.sent)
    BY <1>2, <1>3 DEF Answers, LinkOK, TypeOK, Sent, None
  <2>2. d # NoDisp
    BY <2>1 DEF NoDisp
  <2> QED
    BY <1>3, <2>2 DEF StreamOK
<1>5. SendNext(h, i, d, <<>>) /\ UNCHANGED <<top, slaveVars, link, faults>>
  BY <1>2 DEF RecvReply, ToS
<1>6. TypeOK' /\ SendsOn(h, i, d, <<>>)
  BY <1>2, <1>3, <1>4, <1>5, SendEffect
<1>7. ~Reports(h, i)
  BY <1>2, KindsApart DEF ReplInv, AllApart, Apart
<1>8. SendsFrom(h, i, d, <<>>)
  BY <1>2, <1>4, <1>6, <1>7 DEF SendsFrom, GoesOn, AtMaster
<1> QED
  BY <1>5, <1>6, <1>8, SendStep

LEMMA OnRedoKeeps ==
  ASSUME ReplInv, NEW h \in Hosts, NEW i \in Conns, OnRedo(h, i)
  PROVE  ReplInv'
<1> DEFINE d == disp[h]
           down == ToS(h, i)
<1>1. Redo(h, i) /\ toMaster' = toMaster
  BY DEF OnRedo, Redo
<1>2. d \in Disps /\ StreamOK(d) /\ LinkOK(h, i) /\ TypeOK /\ BeginOK(h)
  BY DEF ReplInv, TypeOK
<1>3. /\ ToM(h, i)' = <<>> /\ ToM(h, i) = <<>>
      /\ \A g \in Hosts, j \in Conns : g # h \/ j # i => ToM(g, j)' = ToM(g, j)
      /\ toMaster' \in
           [Hosts -> [Conns -> Seq(Messages({"report", "newconn", "reply"}, 0..MaxSid))]]
  BY <1>1, <1>2 DEF LinkOK, ToM, TypeOK
<1>4. d.st # "none" /\ ~HasData(h, i) /\ ~Refused(h, i)
  BY <1>1, <1>2 DEF LinkOK
<1>5. down = <<>> \/ down = <<Accept>>
  BY <1>2, <1>4 DEF LinkOK, Accepts, HasData
<1>6. SendNext(h, i, d, down) /\ UNCHANGED <<top, slaveVars, link, faults>>
  BY DEF OnRedo, ToS
<1> HIDE DEF d, down
<1>7. TypeOK' /\ SendsOn(h, i, d, down)
  BY <1>2, <1>3, <1>4, <1>5, <1>6, SendEffect
<1>8. ~Reports(h, i)
  BY <1>2, <1>3, KindsApart DEF AllApart, Apart
<1>9. SendsFrom(h, i, d, down)
  BY <1>1, <1>4, <1>5, <1>7, <1>8 DEF SendsFrom, GoesOn, AtMaster, d, down
<1> QED
  BY <1>6, <1>7, <1>9, SendStep

ToMasterType == [Hosts -> [Conns -> Seq(Messages({"report", "newconn", "reply"}, 0..MaxSid))]]
ToSlaveType  == [Hosts -> [Conns -> Seq(Messages({"accept", "data", "err"}, 0..MaxSid))]]

LEMMA PublishKeeps ==
  ASSUME ReplInv, Publish
  PROVE  ReplInv'
<1>1. /\ UNCHANGED <<disp, lastSeq, redo, slaveVars, netVars, faults>>
      /\ top' = top + 1 /\ top < MaxSid
  BY DEF Publish
<1>2. TypeOK'
  BY <1>1, BoundsAssumption DEF ReplInv, TypeOK, slaveVars, netVars
<1>3. \A h \in Hosts : SameStream(h)
  BY <1>1 DEF SameStream
<1>4. \A h \in Hosts, i \in Conns : Quiet(h, i) /\ link'[h][i].s = link[h][i].s
  BY <1>1 DEF Quiet, ToM, ToS, Sent, Redo, netVars
<1> QED
  BY <1>1, <1>2, <1>3, <1>4, QuietStep

LEMMA CutLink ==
  ASSUME NEW l \in Links, NEW b \in BOOLEAN
  PROVE  [l EXCEPT !.cut = b] \in Links
BY DEF Links

LEMMA BreakKeeps ==
  ASSUME ReplInv, NEW h \in Hosts, NEW i \in Conns, Break(h, i)
  PROVE  ReplInv'
<1>1. /\ UNCHANGED <<masterVars, slaveVars, toMaster, toSlave>>
      /\ link' = [link EXCEPT ![h][i].cut = TRUE] /\ faults' = faults + 1 /\ faults < MaxFault
  BY DEF Break
<1>2. link \in [Hosts -> [Conns -> Links]]
  BY DEF ReplInv, TypeOK
<1>3. link' \in [Hosts -> [Conns -> Links]]
  <2>1. [link[h][i] EXCEPT !.cut = TRUE] \in Links
    <3>1. TRUE \in BOOLEAN
      OBVIOUS
    <3> QED
      BY <1>2, <3>1, CutLink
  <2>2. link' = [link EXCEPT ![h][i] = [link[h][i] EXCEPT !.cut = TRUE]]
    BY <1>1, <1>2
  <2> QED
    BY <1>2, <2>1, <2>2
<1>4. TypeOK'
  <2>1. TypeOK
    BY DEF ReplInv
  <2>2. faults' \in 0..MaxFault
    BY <1>1, <2>1, BoundsAssumption DEF TypeOK
  <2>3. /\ UNCHANGED <<top, disp, lastSeq, redo>> /\ UNCHANGED <<slog, host, session>>
        /\ UNCHANGED <<toMaster, toSlave>>
    BY <1>1 DEF slaveVars, masterVars
  <2> QED
    BY <1>3, <2>1, <2>2, <2>3 DEF TypeOK
<1>5. \A g \in Hosts, j \in Conns : link'[g][j].s = link[g][j].s
  BY <1>1, <1>2 DEF Links
<1>6. \A g \in Hosts : SameStream(g)
  BY <1>1 DEF SameStream, masterVars
<1>7. \A g \in Hosts, j \in Conns : Quiet(g, j)
  BY <1>1 DEF Quiet, ToM, ToS, Sent, Redo, masterVars
<1> QED
  BY <1>1, <1>4, <1>5, <1>6, <1>7, QuietStep

LEMMA RefuseNewConnectionKeeps ==
  ASSUME ReplInv, NEW h \in Hosts, NEW i \in Conns, RefuseNewConnection(h, i)
  PROVE  ReplInv'
<1>1. MasterGets(h, i, "newconn") /\ UNCHANGED <<masterVars, slaveVars, faults>>
  BY DEF RefuseNewConnection
<1>2. /\ ToM(h, i)' = <<>> /\ Joins(h, i) /\ ToS(h, i) = <<>>
      /\ \A g \in Hosts, j \in Conns : g # h \/ j # i => ToM(g, j)' = ToM(g, j)
      /\ toMaster' \in ToMasterType
  BY <1>1, TakenFromMaster DEF ToMasterType
<1>3. TypeOK
  BY DEF ReplInv
<1>4. link \in [Hosts -> [Conns -> Links]] /\ toSlave \in ToSlaveType
  BY <1>3 DEF TypeOK, ToSlaveType
<1>5. link' = [link EXCEPT ![h][i].m = "closed"]
  BY DEF RefuseNewConnection
<1>6. /\ link' \in [Hosts -> [Conns -> Links]]
      /\ \A g \in Hosts, j \in Conns : link'[g][j].s = link[g][j].s
  BY <1>4, <1>5 DEF Links
<1>7. toSlave' = [toSlave EXCEPT ![h][i] = <<Refusal>>]
  <2>1. toSlave' = [toSlave EXCEPT ![h][i] = Append(toSlave[h][i], Refusal)]
    BY <1>4 DEF RefuseNewConnection, ToSlaveType
  <2>2. Append(toSlave[h][i], Refusal) = <<Refusal>>
    BY <1>2, ShortSeqs DEF ToS
  <2> QED
    BY <2>1, <2>2
<1>8. toSlave' \in ToSlaveType
  <2>1. Refusal \in Messages({"accept", "data", "err"}, 0..MaxSid)
    BY BoundsAssumption DEF Refusal, Messages
  <2>2. <<Refusal>> \in Seq(Messages({"accept", "data", "err"}, 0..MaxSid))
    BY <2>1, TupleSeqs
  <2> QED
    BY <1>4, <1>7, <2>2 DEF ToSlaveType
<1>9. \A g \in Hosts, j \in Conns :
        ToS(g, j)' = IF g = h /\ j = i THEN <<Refusal>> ELSE ToS(g, j)
  BY <1>4, <1>7, PutIs DEF ToS, ToSlaveType
<1>10. TypeOK'
  BY <1>1, <1>2, <1>3, <1>6, <1>8 DEF TypeOK, slaveVars, masterVars, ToMasterType, ToSlaveType
<1>11. \A g \in Hosts : SameStream(g)
  BY <1>1 DEF SameStream, masterVars
<1>12. \A g \in Hosts, j \in Conns : Quiet(g, j)
  <2>1. \A g \in Hosts, j \in Conns :
          Sent(g, j)' = Sent(g, j) /\ (Redo(g, j)' <=> Redo(g, j))
    BY <1>1 DEF Sent, Redo, masterVars
  <2> QED
    BY <1>2, <1>9, <2>1 DEF Quiet
<1> QED
  BY <1>1, <1>6, <1>10, <1>11, <1>12, QuietStep

\* A session of which connections close keeps what it has sent.
LEMMA ClosedDisp ==
  ASSUME NEW h \in Hosts, TypeOK, NEW st \in {"closed", "gone"}, NEW c \in SUBSET Conns,
         disp' = [disp EXCEPT ![h].st = st, ![h].conns = c], disp[h].st # "none"
  PROVE  disp' \in [Hosts -> Disps] /\ \A g \in Hosts : SameStream(g)
<1>1. disp \in [Hosts -> Disps]
  BY DEF TypeOK
<1>2. disp' \in [Hosts -> Disps]
  BY <1>1, ZenonT(40) DEF Disps
<1>3. \A g \in Hosts : g # h => disp'[g] = disp[g]
  BY <1>1
<1>4. /\ disp'[h].start = disp[h].start /\ disp'[h].sent = disp[h].sent
      /\ disp'[h].placed = disp[h].placed /\ disp'[h].at = disp[h].at
      /\ disp'[h].next = disp[h].next /\ disp'[h].st = st
  BY <1>1 DEF Disps
<1>5. disp[h] # NoDisp
  BY DEF NoDisp
<1> QED
  BY <1>2, <1>3, <1>4, <1>5 DEF SameStream

LEMMA MasterConnClosedKeeps ==
  ASSUME ReplInv, NEW h \in Hosts, NEW i \in Conns, MasterConnClosed(h, i)
  PROVE  ReplInv'
<1>1. TypeOK /\ disp \in [Hosts -> Disps] /\ StreamOK(disp[h])
  BY DEF ReplInv, TypeOK
<1>2. /\ link' = [link EXCEPT ![h][i].m = "closed"] /\ redo' = redo \ {<<h, i>>}
      /\ toMaster' = [toMaster EXCEPT ![h][i] = <<>>]
      /\ UNCHANGED <<top, lastSeq, slaveVars, toSlave, faults>>
  BY DEF MasterConnClosed
<1>3. link \in [Hosts -> [Conns -> Links]] /\ toMaster \in ToMasterType
  BY <1>1 DEF TypeOK, ToMasterType
<1>4. /\ link' \in [Hosts -> [Conns -> Links]]
      /\ \A g \in Hosts, j \in Conns : link'[g][j].s = link[g][j].s
  BY <1>2, <1>3 DEF Links
<1>5. toMaster' \in ToMasterType
  <2>1. <<>> \in Seq(Messages({"report", "newconn", "reply"}, 0..MaxSid))
    OBVIOUS
  <2> QED
    BY <1>2, <1>3, <2>1 DEF ToMasterType
<1>6. \A g \in Hosts, j \in Conns :
        ToM(g, j)' = IF g = h /\ j = i THEN <<>> ELSE ToM(g, j)
  BY <1>2, <1>3, PutIs DEF ToM, ToMasterType
<1>7. disp' \in [Hosts -> Disps] /\ \A g \in Hosts : SameStream(g)
  <2>1. CASE i \in disp[h].conns
    <3>1. disp[h].st # "none"
      BY <1>1, <2>1 DEF StreamOK, NoDisp
    <3>2. /\ disp' = [disp EXCEPT ![h].st = "closed", ![h].conns = disp[h].conns \ {i}]
          /\ disp[h].conns \ {i} \in SUBSET Conns
      BY <1>1, <2>1 DEF MasterConnClosed, Disps
    <3> QED
      BY <1>1, <3>1, <3>2, ClosedDisp
  <2>2. CASE i \notin disp[h].conns
    BY <1>1, <2>2 DEF MasterConnClosed, SameStream
  <2> QED
    BY <2>1, <2>2
<1>8. TypeOK'
  BY <1>1, <1>2, <1>4, <1>5, <1>7 DEF TypeOK, slaveVars, ToMasterType
<1>9. \A g \in Hosts, j \in Conns : Quiet(g, j)
  BY <1>2, <1>6 DEF Quiet, ToS, Sent, Redo
<1> QED
  BY <1>2, <1>4, <1>7, <1>8, <1>9, QuietStep

LEMMA DealClosedSessionKeeps ==
  ASSUME ReplInv, NEW h \in Hosts, DealClosedSession(h)
  PROVE  ReplInv'
<1>1. TypeOK /\ disp \in [Hosts -> Disps]
  BY DEF ReplInv, TypeOK
<1> DEFINE LinkRow == [i \in Conns |->
             IF i \in disp[h].conns THEN [link[h][i] EXCEPT !.m = "closed"] ELSE link[h][i]]
           Row == [i \in Conns |-> IF i \in disp[h].conns THEN <<>> ELSE toMaster[h][i]]
<1>2. /\ link' = [link EXCEPT ![h] = LinkRow] /\ redo' = redo \ {<<h, i>> : i \in Conns}
      /\ toMaster' = [toMaster EXCEPT ![h] = Row]
      /\ disp' = [disp EXCEPT ![h].st = "gone", ![h].conns = {}] /\ disp[h].st = "closed"
      /\ UNCHANGED <<top, lastSeq, slaveVars, toSlave, faults>>
  BY DEF DealClosedSession
<1>3. link \in [Hosts -> [Conns -> Links]] /\ toMaster \in ToMasterType
  BY <1>1 DEF TypeOK, ToMasterType
<1>4. /\ LinkRow \in [Conns -> Links]
      /\ \A j \in Conns : LinkRow[j].s = link[h][j].s
  BY <1>3 DEF Links
<1>5. /\ Row \in [Conns -> Seq(Messages({"report", "newconn", "reply"}, 0..MaxSid))]
      /\ \A j \in Conns : Row[j] = ToM(h, j) \/ Row[j] = <<>>
  <2>1. <<>> \in Seq(Messages({"report", "newconn", "reply"}, 0..MaxSid))
    OBVIOUS
  <2> QED
    BY <1>3, <2>1 DEF ToMasterType, ToM
<1> HIDE DEF LinkRow, Row
<1>6. /\ link' \in [Hosts -> [Conns -> Links]]
      /\ \A g \in Hosts, j \in Conns : link'[g][j].s = link[g][j].s
  BY <1>2, <1>3, <1>4
<1>7. toMaster' \in ToMasterType
  BY <1>2, <1>3, <1>5 DEF ToMasterType
<1>8. \A g \in Hosts, j \in Conns : ToM(g, j)' = ToM(g, j) \/ ToM(g, j)' = <<>>
  BY <1>2, <1>3, <1>5 DEF ToM, ToMasterType
<1>9. disp' \in [Hosts -> Disps] /\ \A g \in Hosts : SameStream(g)
  <2>1. {} \in SUBSET Conns /\ disp[h].st # "none" /\ "gone" \in {"closed", "gone"}
    BY <1>2
  <2> QED
    BY <1>1, <1>2, <2>1, ClosedDisp
<1>10. TypeOK'
  BY <1>1, <1>2, <1>6, <1>7, <1>9 DEF TypeOK, slaveVars, ToMasterType
<1>11. \A g \in Hosts, j \in Conns : Quiet(g, j)
  BY <1>2, <1>8 DEF Quiet, ToS, Sent, Redo
<1> QED
  BY <1>2, <1>6, <1>9, <1>10, <1>11, QuietStep

(***************************************************************************)
(* The steps of the slave.                                                 *)
(***************************************************************************)
LEMMA SlaveMaxBounds ==
  ASSUME NEW S, S \subseteq Sids
  PROVE  /\ Max(S \cup {0}) \in S \cup {0} /\ Max(S \cup {0}) \in 0..MaxSid
         /\ \A x \in S \cup {0} : x <= Max(S \cup {0})
<1> DEFINE T == S \cup {0}
<1>1. T \subseteq 0..MaxSid /\ T \subseteq Nat /\ T # {}
  BY BoundsAssumption DEF Sids
<1>2. IsFiniteSet(0..MaxSid)
  BY BoundsAssumption, FS_Interval
<1>3. IsFiniteSet(T)
  BY <1>1, <1>2, FS_Subset
<1> HIDE DEF T
<1>4. Max(T) \in T /\ \A x \in T : x <= Max(T)
  BY <1>1, <1>3, LargestExists
<1> QED
  BY <1>1, <1>4 DEF T

LEMMA MaxOfFirst ==
  ASSUME NEW n \in 0..MaxSid
  PROVE  Max((1..n) \cup {0}) = n
<1> DEFINE S == 1..n
<1>1. S \subseteq Sids /\ n \in Nat
  BY BoundsAssumption DEF Sids
<1>2. Max(S \cup {0}) \in S \cup {0} /\ \A x \in S \cup {0} : x <= Max(S \cup {0})
  <2> HIDE DEF S
  <2> QED
    BY <1>1, SlaveMaxBounds
<1> DEFINE m == Max(S \cup {0})
<1> HIDE DEF m
<1>3. m \in 0..n /\ n <= m
  <2>1. n \in S \cup {0}
    BY <1>1
  <2>2. m \in S \cup {0} /\ n <= m
    BY <1>2, <2>1 DEF m
  <2> QED
    BY <1>1, <2>2
<1>4. m = n
  BY <1>1, <1>3
<1> QED
  BY <1>4 DEF m

\* The session ends, and what is on its way does no more than go.
LEMMA EndStep ==
  ASSUME ReplInv, TypeOK', session' = NoSession, host' = host, UNCHANGED <<disp, lastSeq>>,
         \A h \in Hosts, i \in Conns : Less(h, i),
         slog' = slog \/ (NConn = 1 => slog' = 1..SlaveMax')
  PROVE  ReplInv'
<1>1. TypeOK
  BY DEF ReplInv
<1>2. \A h \in Hosts : DispGoesOn(h)
  BY <1>1 DEF DispGoesOn, TypeOK, Disps
<1>3. \A h \in Hosts, i \in Conns : LinkOK(h, i)'
  BY <1>1, <1>2, LessLink DEF ReplInv
<1>4. \A h \in Hosts : LedgerOK(h)'
  BY LessLedger DEF ReplInv, Less
<1>5. \A h \in Hosts : BeginOK(h)'
  BY <1>1, LessBegin DEF ReplInv
<1>6. SessionOK'
  BY DEF SessionOK, NoSession
<1>7. \A h \in Hosts : StreamOK(disp'[h])
  BY DEF ReplInv
<1>8. OneOK'
  <2>1. ~session'.open
    BY DEF NoSession
  <2>2. slog' = slog => SlaveMax' = SlaveMax
    BY DEF SlaveMax
  <2> QED
    BY <2>1, <2>2 DEF OneOK, ReplInv
<1> QED
  BY <1>3, <1>4, <1>5, <1>6, <1>7, <1>8 DEF ReplInv

LEMMA NoSessionIs == NoSession \in Sessions /\ ~NoSession.open
BY DEF NoSession, Sessions

LEMMA ClosingIs ==
  ASSUME TypeOK, NEW h \in Hosts
  PROVE  Closing(h) \in [Conns -> Links]
<1>1. \A l \in Links : [l EXCEPT !.s = "closing"] \in Links
  BY DEF Links
<1>2. \A i \in Conns : link[h][i] \in Links
  BY DEF TypeOK
<1> QED
  BY <1>1, <1>2 DEF Closing

LEMMA ClosedIs ==
  ASSUME ReplInv, CloseSession
  PROVE  session' = NoSession /\ link' \in [Hosts -> [Conns -> Links]]
<1>1. link \in [Hosts -> [Conns -> Links]]
  BY DEF ReplInv, TypeOK
<1>2. CASE session.open
  <2>1. host \in Hosts
    BY <1>2, OpenHost DEF ReplInv
  <2>2. Closing(host) \in [Conns -> Links]
    BY <2>1, ClosingIs DEF ReplInv
  <2> QED
    BY <1>1, <1>2, <2>2 DEF CloseSession
<1>3. CASE ~session.open
  BY <1>1, <1>3 DEF CloseSession
<1> QED
  BY <1>2, <1>3

LEMMA TakenFromSlave ==
  ASSUME ReplInv, NEW i \in Conns, NEW t, SlaveGets(i, t)
  PROVE  /\ session.open /\ host \in Hosts /\ ToS(host, i) # <<>> /\ ToM(host, i) = <<>>
         /\ \A g \in Hosts, j \in Conns :
              toSlave'[g][j] = IF g = host /\ j = i THEN Tail(ToS(host, i)) ELSE ToS(g, j)
         /\ toSlave' \in ToSlaveType
         /\ t = "accept" =>
              /\ Accepts(host, i)
              /\ toSlave'[host][i] =
                   IF HasData(host, i) THEN <<Data(Sent(host, i))>> ELSE <<>>
         /\ t = "data" =>
              /\ HasData(host, i) /\ ~Accepts(host, i) /\ toSlave'[host][i] = <<>>
              /\ Head(toSlave[host][i]).val = Sent(host, i)
         /\ t = "err" => Refused(host, i) /\ toSlave'[host][i] = <<>>
<1>1. session.open /\ host \in Hosts
  BY OpenHost DEF ReplInv, SlaveGets
<1>2. TypeOK /\ LinkOK(host, i) /\ ToS(host, i) # <<>> /\ Head(ToS(host, i)).type = t
  BY <1>1 DEF ReplInv, SlaveGets, ToS
<1>3. toSlave \in ToSlaveType
  BY <1>2 DEF TypeOK, ToSlaveType
<1>4. toSlave' = [toSlave EXCEPT ![host][i] = Tail(ToS(host, i))]
  BY <1>3 DEF SlaveGets, ToSlaveType, ToS
<1>5. \A g \in Hosts, j \in Conns :
        toSlave'[g][j] = IF g = host /\ j = i THEN Tail(ToS(host, i)) ELSE ToS(g, j)
  BY <1>1, <1>3, <1>4, PutIs DEF ToSlaveType, ToS
<1>6. toSlave' \in ToSlaveType
  <2> DEFINE Q == Seq(Messages({"accept", "data", "err"}, 0..MaxSid))
  <2>1. ToS(host, i) \in Q
    BY <1>1, <1>3 DEF ToSlaveType, ToS
  <2>2. Tail(ToS(host, i)) \in Q
    BY <1>2, <2>1
  <2> HIDE DEF Q
  <2>3. toSlave \in [Hosts -> [Conns -> Q]]
    BY <1>3 DEF Q, ToSlaveType
  <2>4. toSlave' \in [Hosts -> [Conns -> Q]]
    BY <1>4, <2>2, <2>3
  <2> QED
    BY <2>4 DEF Q, ToSlaveType
<1>7. ToM(host, i) = <<>>
  BY <1>2 DEF LinkOK
<1>8. toSlave'[host][i] = Tail(ToS(host, i))
  BY <1>1, <1>5
<1>9. /\ t = "accept" =>
           /\ Accepts(host, i)
           /\ toSlave'[host][i] =
                IF HasData(host, i) THEN <<Data(Sent(host, i))>> ELSE <<>>
      /\ t = "data" =>
           /\ HasData(host, i) /\ ~Accepts(host, i) /\ toSlave'[host][i] = <<>>
           /\ Head(toSlave[host][i]).val = Sent(host, i)
      /\ t = "err" => Refused(host, i) /\ toSlave'[host][i] = <<>>
  <2>1. t = "accept" =>
           /\ Accepts(host, i)
           /\ toSlave'[host][i] =
                IF HasData(host, i) THEN <<Data(Sent(host, i))>> ELSE <<>>
    BY <1>1, <1>2, <1>8, FromSlave
  <2>2. t = "data" =>
           /\ HasData(host, i) /\ ~Accepts(host, i) /\ toSlave'[host][i] = <<>>
           /\ Head(toSlave[host][i]).val = Sent(host, i)
    <3>1. Head(toSlave[host][i]) = Head(ToS(host, i))
      BY DEF ToS
    <3> QED
      BY <1>1, <1>2, <1>8, <3>1, FromSlave
  <2>3. t = "err" => Refused(host, i) /\ toSlave'[host][i] = <<>>
    BY <1>1, <1>2, <1>8, FromSlave
  <2> QED
    BY <2>1, <2>2, <2>3
<1> QED
  BY <1>1, <1>2, <1>5, <1>6, <1>7, <1>9

LEMMA RecvErrKeeps ==
  ASSUME ReplInv, NEW i \in Conns, RecvErr(i)
  PROVE  ReplInv'
<1>1. SlaveGets(i, "err") /\ CloseSession /\ UNCHANGED <<masterVars, slog, host, toMaster, faults>>
  BY DEF RecvErr
<1>2. /\ toSlave' \in ToSlaveType /\ toSlave'[host][i] = <<>>
      /\ \A g \in Hosts, j \in Conns : g # host \/ j # i => toSlave'[g][j] = ToS(g, j)
  BY <1>1, TakenFromSlave
<1>3. session' = NoSession /\ link' \in [Hosts -> [Conns -> Links]]
  BY <1>1, ClosedIs
<1>4. TypeOK'
  BY <1>1, <1>2, <1>3, NoSessionIs DEF ReplInv, TypeOK, ToSlaveType, masterVars
<1>5. \A g \in Hosts, j \in Conns : Less(g, j)
  BY <1>1, <1>2 DEF Less, ToM, ToS, Sent, Redo, masterVars
<1> QED
  BY <1>1, <1>3, <1>4, <1>5, EndStep DEF masterVars

\* The other connections of a session that is accepted are unused; those in C have
\* the session's id on their way.
LEMMA JoiningIs ==
  ASSUME ReplInv, NEW i \in Conns, SlaveGets(i, "accept"), NEW C \in SUBSET (Conns \ {i}), Joining(C)
  PROVE  /\ i = 1 /\ session.reported = {} /\ \A j \in Conns \ {1} : Unused(host, j)
         /\ toMaster' \in ToMasterType
         /\ \A g \in Hosts, j \in Conns :
              toMaster'[g][j] = IF g = host /\ j \in C THEN <<NewConn>> ELSE ToM(g, j)
<1> DEFINE row == [j \in Conns |->
             IF j \in C THEN Append(toMaster[host][j], NewConn) ELSE toMaster[host][j]]
           Q == Seq(Messages({"report", "newconn", "reply"}, 0..MaxSid))
<1>1. session.open /\ host \in Hosts /\ Accepts(host, i)
  BY TakenFromSlave
<1>2. TypeOK /\ AcceptOK /\ BeginOK(host)
  BY <1>1 DEF ReplInv, SessionOK
<1>3. i = 1 /\ session.reported = {} /\ \A j \in Conns \ {1} : Unused(host, j)
  BY <1>1, <1>2 DEF BeginOK, AcceptOK
<1>4. /\ \A j \in C : row[j] = <<NewConn>>
      /\ \A j \in Conns \ C : row[j] = ToM(host, j)
  <2>1. \A j \in Conns \ {1} : Append(toMaster[host][j], NewConn) = <<NewConn>>
    BY <1>3, ShortSeqs DEF Unused, ToM
  <2> QED
    BY <1>3, <2>1 DEF ToM
<1>5. toMaster \in [Hosts -> [Conns -> Q]]
  BY <1>2 DEF TypeOK
<1>6. row \in [Conns -> Q]
  <2>1. NewConn \in Messages({"report", "newconn", "reply"}, 0..MaxSid)
    BY BoundsAssumption DEF NewConn, Messages
  <2>2. <<NewConn>> \in Q
    BY <2>1, TupleSeqs
  <2>3. row = [j \in Conns |-> row[j]]
    OBVIOUS
  <2> HIDE DEF Q, row
  <2>4. \A j \in Conns : ToM(host, j) \in Q
    BY <1>1, <1>5 DEF ToM
  <2> QED
    BY <1>4, <2>2, <2>3, <2>4
<1>7. toMaster' = [toMaster EXCEPT ![host] = row]
  BY DEF Joining
<1> HIDE DEF row
<1>8. toMaster' \in ToMasterType
  BY <1>1, <1>5, <1>6, <1>7 DEF ToMasterType
<1>9. \A g \in Hosts, j \in Conns : toMaster'[g][j] = IF g = host THEN row[j] ELSE ToM(g, j)
  BY <1>1, <1>5, <1>7, PutRowIs DEF ToM
<1> QED
  BY <1>3, <1>4, <1>8, <1>9

LEMMA RecvReportReplyFailsKeeps ==
  ASSUME ReplInv, NEW i \in Conns, RecvReportReplyFails(i)
  PROVE  ReplInv'
<1>1. /\ SlaveGets(i, "accept") /\ CloseSession
      /\ UNCHANGED <<masterVars, slog, host, faults>>
  BY DEF RecvReportReplyFails
<1>2. PICK C \in SUBSET (Conns \ {i}) : Joining(C)
  BY DEF RecvReportReplyFails
<1>3. /\ toSlave' \in ToSlaveType /\ host \in Hosts /\ ToM(host, i) = <<>>
      /\ Accepts(host, i)
      /\ toSlave'[host][i] = IF HasData(host, i) THEN <<Data(Sent(host, i))>> ELSE <<>>
      /\ \A g \in Hosts, j \in Conns : g # host \/ j # i => toSlave'[g][j] = ToS(g, j)
  BY <1>1, TakenFromSlave
<1>4. /\ i = 1 /\ \A j \in Conns \ {1} : Unused(host, j)
      /\ toMaster' \in ToMasterType
      /\ \A g \in Hosts, j \in Conns :
           toMaster'[g][j] = IF g = host /\ j \in C THEN <<NewConn>> ELSE ToM(g, j)
  BY <1>1, <1>2, JoiningIs
<1>5. session' = NoSession /\ link' \in [Hosts -> [Conns -> Links]]
  BY <1>1, ClosedIs
<1>6. /\ disp' = disp /\ lastSeq' = lastSeq /\ redo' = redo /\ slog' = slog /\ host' = host
      /\ top' = top /\ faults' = faults
  BY <1>1 DEF masterVars
<1>7. TypeOK /\ TypeOK'
  BY <1>3, <1>4, <1>5, <1>6, NoSessionIs DEF ReplInv, TypeOK, ToMasterType, ToSlaveType
<1>8. AllApart' /\ AllSlaveKinds'
  BY <1>7, KindsApart, SlaveKinds, PTL
<1>9. \A g \in Hosts, j \in Conns : g # host \/ j \notin C => Less(g, j)
  <2>1. \A g \in Hosts, j \in Conns : g = host /\ j = i => Told(g, j)
    BY <1>3 DEF Told, ToS
  <2>2. \A g \in Hosts, j \in Conns : g # host \/ j \notin C => ToM(g, j)' = ToM(g, j)
    BY <1>4 DEF ToM
  <2>3. \A g \in Hosts, j \in Conns : ToS(g, j)' = ToS(g, j) \/ Told(g, j)
    BY <1>3, <2>1 DEF ToS
  <2>4. \A g \in Hosts, j \in Conns : Sent(g, j)' = Sent(g, j) /\ Redo(g, j)' = Redo(g, j)
    BY <1>6 DEF Sent, Redo
  <2> QED
    BY <2>2, <2>3, <2>4, Zenon DEF Less
<1>10. ASSUME NEW g \in Hosts, NEW j \in Conns, g = host, j \in C
       PROVE  /\ ToM(g, j)' = <<NewConn>> /\ ToS(g, j)' = <<>>
              /\ Sent(g, j)' = None /\ ~Redo(g, j)'
  BY <1>10, <1>3, <1>4, <1>6 DEF Unused, ToM, ToS, Sent, Redo
<1>11. ASSUME NEW g \in Hosts, NEW j \in Conns, g = host, j \in C
       PROVE  Joins(g, j)' /\ ~Reports(g, j)' /\ ~Accepts(g, j)' /\ ~Refused(g, j)'
  <2>1. Apart(g, j)' /\ SlaveKind(g, j)'
    BY <1>8 DEF AllApart, AllSlaveKinds
  <2>2. ToM(g, j)' = <<NewConn>> /\ ToS(g, j)' = <<>>
    BY <1>10, <1>11
  <2> QED
    BY <2>1, <2>2 DEF Joins, Apart, SlaveKind
<1>12. \A g \in Hosts : DispGoesOn(g) /\ StreamOK(disp'[g])
  BY <1>6, <1>7 DEF ReplInv, DispGoesOn, TypeOK, Disps
<1>13. ASSUME NEW g \in Hosts, NEW j \in Conns  PROVE LinkOK(g, j)'
  <2>1. CASE g # host \/ j \notin C
    BY <1>7, <1>9, <1>12, <2>1, LessLink DEF ReplInv
  <2>2. CASE g = host /\ j \in C
    <3>1. /\ ToS(g, j)' = <<>> /\ Sent(g, j)' = None /\ ~Redo(g, j)'
          /\ Joins(g, j)' /\ ~Refused(g, j)'
      BY <1>10, <1>11, <2>2
    <3>2. Sent(g, j)' < Len(disp'[g].sent)
      BY <1>7, <3>1 DEF TypeOK, Disps, None
    <3> QED
      BY <3>1, <3>2 DEF LinkOK
  <2> QED
    BY <2>1, <2>2
<1>14. \A g \in Hosts : LedgerOK(g)'
  <2>1. \A g \in Hosts, j \in Conns : Sent(g, j)' = Sent(g, j)
    BY <1>6 DEF Sent
  <2> QED
    BY <2>1, LessLedger DEF ReplInv
<1>15. ASSUME NEW g \in Hosts  PROVE BeginOK(g)'
  <2>1. CASE g # host
    BY <1>6, <1>7, <1>9, <2>1, LessBegin DEF ReplInv
  <2>2. CASE g = host
    <3>1. ~Reports(g, 1)' /\ ~Accepts(g, 1)'
      <4>1. Less(g, 1) /\ Told(g, 1) /\ ToM(g, 1)' = <<>>
        BY <1>3, <1>4, <1>9, <2>2, OneIsConn DEF Told, ToM, ToS
      <4> QED
        BY <1>7, <1>8, <4>1, LessFacts, OneIsConn DEF AllApart, Apart
    <3>2. ASSUME NEW j \in Conns \ {1}  PROVE ~Reports(g, j)' /\ ~Accepts(g, j)'
      <4>1. CASE j \in C
        BY <1>11, <2>2, <4>1
      <4>2. CASE j \notin C
        <5>1. Less(g, j) /\ BeginOK(g)
          BY <1>9, <4>2 DEF ReplInv
        <5>2. ~Reports(g, j) /\ ~Accepts(g, j)
          BY <5>1 DEF BeginOK
        <5> QED
          BY <1>7, <5>1, <5>2, LessFacts
      <4> QED
        BY <4>1, <4>2
    <3>3. ~(g > host')
      BY <1>6, <2>2 DEF Hosts
    <3> QED
      BY <3>1, <3>2, <3>3, OneIsConn DEF BeginOK
  <2> QED
    BY <2>1, <2>2
<1>16. SessionOK'
  BY <1>5 DEF SessionOK, NoSession
<1>17. OneOK'
  BY <1>5, <1>6 DEF OneOK, ReplInv, SlaveMax, NoSession
<1> QED
  BY <1>7, <1>12, <1>13, <1>14, <1>15, <1>16, <1>17 DEF ReplInv

LEMMA SlaveConnClosedKeeps ==
  ASSUME ReplInv, NEW h \in Hosts, NEW i \in Conns, SlaveConnClosed(h, i)
  PROVE  ReplInv'
<1> DEFINE l == IF session.open THEN [link EXCEPT ![host] = Closing(host)] ELSE link
<1>1. /\ session' = NoSession /\ link' = [l EXCEPT ![h][i].s = "closed"]
      /\ toSlave' = [toSlave EXCEPT ![h][i] = <<>>]
      /\ UNCHANGED <<masterVars, slog, host, toMaster, faults>>
  BY DEF SlaveConnClosed
<1>2. /\ TypeOK /\ link \in [Hosts -> [Conns -> Links]] /\ toSlave \in ToSlaveType
      /\ session.open => host \in Hosts
  BY OpenHost DEF ReplInv, TypeOK, ToSlaveType
<1>3. l \in [Hosts -> [Conns -> Links]]
  BY <1>2, ClosingIs
<1> HIDE DEF l
<1>4. link' \in [Hosts -> [Conns -> Links]]
  <2>1. [l[h][i] EXCEPT !.s = "closed"] \in Links
    BY <1>3 DEF Links
  <2>2. link' = [l EXCEPT ![h][i] = [l[h][i] EXCEPT !.s = "closed"]]
    BY <1>1, <1>3
  <2> QED
    BY <1>3, <2>1, <2>2
<1>5. /\ toSlave' \in ToSlaveType
      /\ \A g \in Hosts, j \in Conns : ToS(g, j)' = ToS(g, j) \/ ToS(g, j)' = <<>>
  <2>1. <<>> \in Seq(Messages({"accept", "data", "err"}, 0..MaxSid))
    OBVIOUS
  <2>2. \A g \in Hosts, j \in Conns :
          toSlave'[g][j] = IF g = h /\ j = i THEN <<>> ELSE toSlave[g][j]
    BY <1>1, <1>2, PutIs DEF ToSlaveType
  <2> QED
    BY <1>1, <1>2, <2>1, <2>2 DEF ToSlaveType, ToS
<1>6. TypeOK'
  BY <1>1, <1>2, <1>4, <1>5, NoSessionIs DEF TypeOK, ToSlaveType, masterVars
<1>7. \A g \in Hosts, j \in Conns : Less(g, j)
  BY <1>1, <1>5 DEF Less, ToM, Sent, Redo, masterVars
<1> QED
  BY <1>1, <1>6, <1>7, EndStep DEF masterVars

LEMMA SlaveRestartsKeeps ==
  ASSUME ReplInv, SlaveRestarts
  PROVE  ReplInv'
<1>1. /\ session' = NoSession /\ slog' \subseteq slog
      /\ faults < MaxFault /\ faults' = faults + 1
      /\ link' = [h \in Hosts |-> [i \in Conns |->
           IF link[h][i].s = "none" THEN NoLink ELSE [link[h][i] EXCEPT !.s = "closed"]]]
      /\ toSlave' = [h \in Hosts |-> [i \in Conns |-> <<>>]]
      /\ UNCHANGED <<masterVars, host, toMaster>>
  BY DEF SlaveRestarts
<1>2. TypeOK
  BY DEF ReplInv
<1>3. link' \in [Hosts -> [Conns -> Links]]
  <2>1. NoLink \in Links /\ \A l \in Links : [l EXCEPT !.s = "closed"] \in Links
    BY DEF NoLink, Links
  <2>2. \A h \in Hosts, i \in Conns : link[h][i] \in Links
    BY <1>2 DEF TypeOK
  <2> QED
    BY <1>1, <2>1, <2>2
<1>4. toSlave' \in ToSlaveType
  <2>1. <<>> \in Seq(Messages({"accept", "data", "err"}, 0..MaxSid))
    OBVIOUS
  <2> QED
    BY <1>1, <2>1 DEF ToSlaveType
<1>5. faults' \in 0..MaxFault
  BY <1>1, <1>2, BoundsAssumption DEF TypeOK
<1>6. TypeOK'
  BY <1>1, <1>2, <1>3, <1>4, <1>5, NoSessionIs DEF TypeOK, ToSlaveType, masterVars
<1>7. \A g \in Hosts, j \in Conns : Less(g, j)
  BY <1>1 DEF Less, ToM, ToS, Sent, Redo, masterVars
<1>8. NConn = 1 => slog' = 1..SlaveMax'
  <2> SUFFICES ASSUME NConn = 1  PROVE slog' = 1..SlaveMax'
    OBVIOUS
  <2>1. slog = 1..SlaveMax /\ SlaveMax \in 0..MaxSid
    BY <1>2, SlaveMaxBounds DEF ReplInv, OneOK, SlaveMax, TypeOK
  <2>2. PICK last \in slog \cup {0} : slog' = {s \in slog : s <= last}
    BY DEF SlaveRestarts
  <2>3. last \in 0..MaxSid /\ slog' = 1..last
    <3> DEFINE m == SlaveMax
    <3> HIDE DEF m
    <3>1. slog = 1..m /\ m \in 0..MaxSid /\ MaxSid \in Nat
      BY <2>1, BoundsAssumption DEF m
    <3>2. last \in 0..m
      BY <3>1
    <3>3. slog' = {s \in 1..m : s <= last}
      BY <2>2, <3>1
    <3> QED
      BY <3>1, <3>2, <3>3
  <2>4. SlaveMax' = last
    BY <2>3, MaxOfFirst DEF SlaveMax
  <2> QED
    BY <2>3, <2>4
<1> QED
  BY <1>1, <1>6, <1>7, <1>8, EndStep DEF masterVars

LEMMA CreateSessionKeeps ==
  ASSUME ReplInv, CreateSession
  PROVE  ReplInv'
<1> DEFINE h == host + 1
           row == [i \in Conns |-> [m |-> "open", s |-> "open", cut |-> FALSE]]
<1>1. /\ ~session.open /\ host < MaxSession /\ host' = h /\ session' = NewSession
      /\ link' = [link EXCEPT ![h] = row]
      /\ toMaster' = [toMaster EXCEPT ![h][1] = <<Report(SlaveMax)>>]
      /\ UNCHANGED <<masterVars, slog, toSlave, faults>>
  BY DEF CreateSession
<1>2. /\ TypeOK /\ host \in 0..MaxSession /\ toMaster \in ToMasterType /\ slog \subseteq Sids
      /\ link \in [Hosts -> [Conns -> Links]]
  BY DEF ReplInv, TypeOK, ToMasterType
<1>3. h \in Hosts /\ h > host /\ h \in 1..MaxSession
  BY <1>1, <1>2, BoundsAssumption DEF Hosts
<1>4. SlaveMax \in 0..MaxSid
  BY <1>2, SlaveMaxBounds DEF SlaveMax
<1>5. toMaster' \in ToMasterType
  <2>1. Report(SlaveMax) \in Messages({"report", "newconn", "reply"}, 0..MaxSid)
    BY <1>4 DEF Report, Messages
  <2>2. <<Report(SlaveMax)>> \in Seq(Messages({"report", "newconn", "reply"}, 0..MaxSid))
    BY <2>1, TupleSeqs
  <2> QED
    BY <1>1, <1>2, <1>3, <2>2, OneIsConn DEF ToMasterType
<1>6. \A g \in Hosts, j \in Conns :
        toMaster'[g][j] = IF g = h /\ j = 1 THEN <<Report(SlaveMax)>> ELSE toMaster[g][j]
  BY <1>1, <1>2, <1>3, PutIs, OneIsConn DEF ToMasterType
<1>7. link' \in [Hosts -> [Conns -> Links]]
  <2>1. row \in [Conns -> Links]
    BY DEF Links
  <2> HIDE DEF row
  <2> QED
    BY <1>1, <1>2, <2>1
<1>8. session' \in Sessions /\ session'.open /\ session'.next = 0
      /\ session'.waiting = {} /\ session'.reported = {}
  BY <1>1 DEF NewSession, NoSession, Sessions
<1> HIDE DEF h, row
<1>9. TypeOK'
  BY <1>1, <1>2, <1>3, <1>5, <1>7, <1>8 DEF TypeOK, masterVars, ToMasterType, Hosts
<1>10. disp' = disp /\ lastSeq' = lastSeq /\ redo' = redo /\ toSlave' = toSlave /\ slog' = slog
  BY <1>1 DEF masterVars
<1>11. \A g \in Hosts, j \in Conns : g # h \/ j # 1 => Kept(g, j) /\ Less(g, j)
  BY <1>6, <1>10, KeptIsLess DEF Kept, ToM, ToS, Sent, Redo
<1>12. disp[h] = NoDisp /\ \A i \in Conns : Unused(h, i)
  BY <1>3 DEF ReplInv, BeginOK
<1>13. /\ toMaster'[h][1] = <<Report(SlaveMax)>> /\ toSlave'[h][1] = <<>>
       /\ lastSeq'[h][1] = None /\ <<h, 1>> \notin redo'
  BY <1>3, <1>6, <1>10, <1>12, OneIsConn DEF Unused, ToS, Sent, Redo
<1>14. \A g \in Hosts : DispGoesOn(g) /\ StreamOK(disp'[g])
  BY <1>2, <1>10 DEF ReplInv, DispGoesOn, TypeOK, Disps
<1>15. AllApart' /\ AllSlaveKinds'
  BY <1>9, KindsApart, SlaveKinds, PTL
<1>16. ASSUME NEW g \in Hosts, NEW j \in Conns, g = h, j = 1
       PROVE  /\ LinkOK(g, j)' /\ Reports(g, j)' /\ ~Accepts(g, j)' /\ ~HasData(g, j)'
              /\ ~Answers(g, j)' /\ Sent(g, j)' = None
  <2>1. Reports(g, j)'
    BY <1>4, <1>13, <1>16 DEF Reports, ToM
  <2>2. /\ ToS(g, j)' = <<>> /\ ~Redo(g, j)' /\ Sent(g, j)' = None /\ disp'[g].sent = <<>>
        /\ host' = h
    BY <1>1, <1>10, <1>12, <1>13, <1>16 DEF ToS, Redo, Sent, NoDisp
  <2>3. ~HasData(g, j)' /\ ~Refused(g, j)' /\ ~Accepts(g, j)' /\ ~Joins(g, j)' /\ ~Answers(g, j)'
    BY <1>15, <2>1, <2>2 DEF AllApart, Apart, AllSlaveKinds, SlaveKind
  <2>4. Sent(g, j)' < Len(disp'[g].sent)
    BY <2>2 DEF None
  <2>5. LinkOK(g, j)'
    BY <2>1, <2>2, <2>3, <2>4 DEF LinkOK
  <2> QED
    BY <2>1, <2>2, <2>3, <2>5
<1>17. \A g \in Hosts, j \in Conns : LinkOK(g, j)'
  BY <1>2, <1>9, <1>11, <1>14, <1>16, LessLink DEF ReplInv
<1>18. \A g \in Hosts : LedgerOK(g)'
  <2>1. \A g \in Hosts, j \in Conns : Sent(g, j)' = Sent(g, j)
    BY <1>10 DEF Sent
  <2> QED
    BY <2>1, LessLedger DEF ReplInv
<1>19. ASSUME NEW g \in Hosts  PROVE BeginOK(g)'
  <2>1. CASE g # h
    <3>1. g > host' => g > host
      BY <1>1, <1>2, <1>3 DEF h, Hosts
    <3> QED
      BY <1>2, <1>9, <1>10, <1>11, <2>1, <3>1, LessBegin DEF ReplInv
  <2>2. CASE g = h
    <3>1. \A j \in Conns \ {1} : Unused(g, j) /\ Unused(g, j)' /\ ~Reports(g, j)' /\ ~Accepts(g, j)'
      <4>1. \A j \in Conns \ {1} : Unused(g, j) /\ Kept(g, j)
        BY <1>11, <1>12, <2>2
      <4>2. \A j \in Conns \ {1} : Unused(g, j)'
        BY <4>1 DEF Kept, Unused
      <4>3. \A j \in Conns \ {1} : ~Reports(g, j)' /\ ~Accepts(g, j)'
        BY <1>2, <1>9, <1>11, <2>2, <4>1, LessFacts, UnusedIdle
      <4> QED
        BY <4>1, <4>2, <4>3
    <3>2. disp'[g] = NoDisp /\ Sent(g, 1)' = None /\ ~(g > host')
      BY <1>1, <1>3, <1>10, <1>12, <1>16, <2>2, OneIsConn DEF Hosts
    <3> QED
      BY <3>1, <3>2 DEF BeginOK
  <2> QED
    BY <2>1, <2>2
<1>20. SessionOK'
  <2>1. \A j \in Conns : /\ lastSeq'[h][j] = None
                         /\ toSlave'[h][j] = <<>> /\ <<h, j>> \notin redo'
                         /\ j # 1 => toMaster'[h][j] = <<>>
    BY <1>3, <1>6, <1>10, <1>12 DEF Unused, ToM, ToS, Sent, Redo
  <2>3. disp'[host'].sent = <<>> /\ disp'[host'].st = "none"
    BY <1>1, <1>10, <1>12 DEF NoDisp
  <2>4. NumbersOK'
    <3>1. \A j \in Conns : Sent(host, j)' = -1 /\ ~HasData(host, j)'
      BY <1>1, <1>15, <1>3, <2>1 DEF Sent, None, AllSlaveKinds, SlaveKind, ToS
    <3>2. Len(disp'[host'].sent) = 0
      BY <2>3
    <3> QED
      BY <1>8, <3>1, <3>2 DEF NumbersOK, Waits
  <2>5. host' \in Hosts /\ host' = h /\ host' > 0
    BY <1>1, <1>3 DEF Hosts
  <2>6. Reports(host, 1)' /\ ~Accepts(host, 1)'
    BY <1>16, <2>5, OneIsConn
  <2>7. AcceptOK'
    BY <1>8, <2>6 DEF AcceptOK
  <2>8. StoredOK'
    <3>1. SlaveMax' = SlaveMax
      BY <1>10 DEF SlaveMax
    <3>2. ToM(host, 1)' = <<Report(SlaveMax')>>
      BY <1>13, <2>5, <3>1 DEF ToM
    <3>3. \A j \in Conns : ~Answers(host, j)'
      <4>1. \A j \in Conns : Sent(host, j)' = -1
        BY <1>1, <2>1 DEF Sent, None
      <4> QED
        BY <4>1 DEF Answers
    <3> QED
      BY <2>3, <3>2, <3>3 DEF StoredOK
  <2> QED
    BY <1>8, <2>4, <2>5, <2>7, <2>8 DEF SessionOK
<1>21. OneOK'
  <2>1. SlaveMax' = SlaveMax /\ slog' = slog
    BY <1>10 DEF SlaveMax
  <2>2. disp'[host'].st = "none"
    BY <1>1, <1>10, <1>12 DEF NoDisp
  <2> QED
    BY <2>1, <2>2 DEF OneOK, ReplInv
<1> QED
  BY <1>9, <1>14, <1>17, <1>18, <1>19, <1>20, <1>21 DEF ReplInv

LEMMA RecvReportReplyKeeps ==
  ASSUME ReplInv, NEW i \in Conns, RecvReportReply(i)
  PROVE  ReplInv'
<1>1. /\ SlaveGets(i, "accept")
      /\ session' = [session EXCEPT !.replied = TRUE, !.reported = Conns]
      /\ Joining(Conns \ {i})
      /\ UNCHANGED <<masterVars, slog, host, link, faults>>
  BY DEF RecvReportReply
<1>2. /\ session.open /\ host \in Hosts /\ Accepts(host, i) /\ ToM(host, i) = <<>>
      /\ toSlave' \in ToSlaveType
      /\ \A g \in Hosts, j \in Conns : g # host \/ j # i => toSlave'[g][j] = ToS(g, j)
      /\ toSlave'[host][i] = IF HasData(host, i) THEN <<Data(Sent(host, i))>> ELSE <<>>
  BY <1>1, TakenFromSlave
<1>3. /\ TypeOK /\ NumbersOK /\ AcceptOK /\ StoredOK /\ BeginOK(host) /\ host > 0
      /\ \A j \in Conns : LinkOK(host, j)
  BY <1>2 DEF ReplInv, SessionOK
<1>4. i = 1 /\ session.reported = {} /\ \A j \in Conns \ {1} : Unused(host, j)
  BY <1>2, <1>3 DEF BeginOK, AcceptOK
<1>5. session.next = 0 /\ session.waiting = {}
  BY <1>3, <1>4 DEF AcceptOK
<1>8. toMaster' \in ToMasterType
  BY <1>1, JoiningIs
<1>9. \A g \in Hosts, j \in Conns :
        toMaster'[g][j] = IF g = host /\ j # 1 THEN <<NewConn>> ELSE ToM(g, j)
  <2>1. \A g \in Hosts, j \in Conns :
          toMaster'[g][j] = IF g = host /\ j \in Conns \ {i} THEN <<NewConn>> ELSE ToM(g, j)
    BY <1>1, JoiningIs
  <2> QED
    BY <1>4, <2>1
<1>10. /\ session' \in Sessions /\ session'.open /\ session'.next = 0
       /\ session'.waiting = {} /\ session'.reported = Conns
  BY <1>2, <1>1, <1>3, <1>5 DEF TypeOK, Sessions
<1>11. /\ disp' = disp /\ lastSeq' = lastSeq /\ redo' = redo /\ slog' = slog
       /\ host' = host /\ link' = link /\ top' = top /\ faults' = faults
  BY <1>1 DEF masterVars
<1>12. TypeOK'
  BY <1>2, <1>3, <1>8, <1>10, <1>11 DEF TypeOK, ToMasterType, ToSlaveType
<1>13. AllApart' /\ AllSlaveKinds' /\ AllApart
  BY <1>3, <1>12, KindsApart, SlaveKinds, PTL
<1>14. \A g \in Hosts \ {host}, j \in Conns : Kept(g, j) /\ Less(g, j)
  BY <1>2, <1>9, <1>11, KeptIsLess DEF Kept, ToM, ToS, Sent, Redo
<1>15. ASSUME NEW g \in Hosts, NEW j \in Conns, g = host, j = 1
       PROVE  Less(g, j) /\ Told(g, j) /\ ToM(g, j)' = <<>>
  BY <1>2, <1>4, <1>9, <1>11, <1>15 DEF Less, Told, ToM, ToS, Sent, Redo
<1>16. \A j \in Conns \ {1} :
         /\ ToM(host, j)' = <<NewConn>> /\ ToS(host, j)' = <<>>
         /\ Sent(host, j)' = None /\ ~Redo(host, j)'
  BY <1>2, <1>4, <1>9, <1>11 DEF Unused, ToM, ToS, Sent, Redo
<1>17. \A j \in Conns : Sent(host, j)' = Sent(host, j)
  BY <1>11 DEF Sent
<1>18. \A j \in Conns \ {1} :
         /\ Joins(host, j)' /\ ~Reports(host, j)' /\ ~Answers(host, j)'
         /\ ~Accepts(host, j)' /\ ~HasData(host, j)' /\ ~Refused(host, j)'
  <2>1. \A j \in Conns : Apart(host, j)' /\ SlaveKind(host, j)'
    BY <1>2, <1>11, <1>13 DEF AllApart, AllSlaveKinds
  <2> QED
    BY <1>16, <2>1 DEF Joins, Apart, SlaveKind
<1>19. /\ ~Reports(host, 1)' /\ ~Answers(host, 1)' /\ ~Accepts(host, 1)'
       /\ HasData(host, 1)' <=> HasData(host, 1)
       /\ AtMaster(host, 1)' => AtMaster(host, 1)
  <2>1. ASSUME NEW g \in Hosts, NEW j \in Conns, g = host, j = 1
        PROVE  /\ ~Reports(g, j)' /\ ~Answers(g, j)' /\ ~Accepts(g, j)'
               /\ HasData(g, j)' <=> HasData(g, j)
               /\ AtMaster(g, j)' => AtMaster(g, j)
    <3>1. Less(g, j) /\ Told(g, j) /\ ToM(g, j)' = <<>>
      BY <1>15, <2>1
    <3>2. Apart(g, j)'
      BY <1>13 DEF AllApart
    <3> QED
      BY <1>3, <1>12, <3>1, <3>2, LessFacts DEF Apart
  <2> QED
    BY <1>2, <1>11, <2>1, OneIsConn
<1>20. \A g \in Hosts : DispGoesOn(g) /\ StreamOK(disp'[g])
  BY <1>3, <1>11 DEF ReplInv, DispGoesOn, TypeOK, Disps
<1>21. ASSUME NEW g \in Hosts, NEW j \in Conns  PROVE LinkOK(g, j)'
  <2>1. CASE g # host \/ j = 1
    BY <1>3, <1>12, <1>14, <1>15, <1>20, <2>1, LessLink DEF ReplInv
  <2>2. CASE g = host /\ j # 1
    <3>1. /\ ToS(g, j)' = <<>> /\ Sent(g, j)' = None /\ ~Redo(g, j)'
          /\ Joins(g, j)' /\ ~Refused(g, j)'
      BY <1>11, <1>16, <1>18, <2>2
    <3>2. Sent(g, j)' < Len(disp'[g].sent)
      BY <1>12, <3>1 DEF TypeOK, Disps, None
    <3> QED
      BY <3>1, <3>2 DEF LinkOK
  <2> QED
    BY <2>1, <2>2
<1>22. \A g \in Hosts : LedgerOK(g)'
  <2>1. \A g \in Hosts, j \in Conns : Sent(g, j)' = Sent(g, j)
    BY <1>11 DEF Sent
  <2> QED
    BY <2>1, LessLedger DEF ReplInv
<1>23. ASSUME NEW g \in Hosts  PROVE BeginOK(g)'
  <2>1. CASE g # host
    BY <1>3, <1>11, <1>12, <1>14, <2>1, LessBegin DEF ReplInv
  <2>2. CASE g = host
    <3>1. \A j \in Conns : ~Reports(g, j)' /\ ~Accepts(g, j)'
      BY <1>11, <1>18, <1>19, <2>2
    <3>2. ~(g > host')
      BY <1>11, <2>2 DEF Hosts
    <3> QED
      BY <3>1, <3>2, OneIsConn DEF BeginOK
  <2> QED
    BY <2>1, <2>2
<1>24. NumbersOK'
  <2>1. \A j \in Conns : ~Waits(j)'
    BY <1>10 DEF Waits
  <2>2. session'.next <= Len(disp'[host'].sent)
    BY <1>3, <1>5, <1>10, <1>11 DEF NumbersOK
  <2>3. \A k \in session'.next..Len(disp'[host'].sent) - 1 : \E j \in Conns : Sent(host, j)' = k
    BY <1>3, <1>5, <1>10, <1>11, <1>17 DEF NumbersOK
  <2>4. \A j \in Conns \ {1} : Sent(host, j)' = -1 /\ ~HasData(host, j)'
    BY <1>16, <1>18 DEF None
  <2>5. \A j \in Conns : ~Waits(j)
    BY <1>5 DEF Waits
  <2>6. /\ AtMaster(host, 1) => Sent(host, 1) < 0
        /\ HasData(host, 1) => Sent(host, 1) >= 0
        /\ Sent(host, 1) >= 0 /\ link[host][1].s = "open" => HasData(host, 1)
    BY <1>3, <1>5, <2>5, OneIsConn DEF NumbersOK
  <2>7. \A j \in Conns :
          /\ AtMaster(host, j)' => Sent(host, j)' < 0
          /\ HasData(host, j)' => Sent(host, j)' >= 0
          /\ Sent(host, j)' >= 0 /\ link'[host'][j].s = "open" => HasData(host, j)'
    <3>1. Sent(host, 1)' = Sent(host, 1) /\ link'[host'] = link[host]
      BY <1>11, <1>17, OneIsConn
    <3> QED
      BY <1>19, <2>4, <2>6, <3>1
  <2> QED
    BY <1>10, <2>1, <2>2, <2>3, <2>7 DEF NumbersOK
<1>25. AcceptOK'
  BY <1>10, <1>19, OneIsConn DEF AcceptOK
<1>26. StoredOK'
  <2>1. \A j \in Conns : ~Answers(host, j)'
    BY <1>18, <1>19
  <2>2. SlaveMax' = SlaveMax
    BY <1>11 DEF SlaveMax
  <2>3. Reach' = Reach
    BY <1>5, <1>10, <1>11 DEF Reach
  <2> QED
    BY <1>3, <1>11, <1>19, <2>1, <2>2, <2>3 DEF StoredOK
<1>27. SessionOK'
  BY <1>3, <1>10, <1>11, <1>24, <1>25, <1>26 DEF SessionOK
<1>28. OneOK'
  <2>1. SlaveMax' = SlaveMax /\ slog' = slog
    BY <1>11 DEF SlaveMax
  <2>2. Reach' = Reach
    BY <1>5, <1>10, <1>11 DEF Reach
  <2>3. ~Stalled
    BY <1>5 DEF Stalled
  <2>4. NConn = 1 =>
          /\ slog = 1..SlaveMax
          /\ disp[host].st # "none" => SlaveMax = Reach
    BY <1>2, <2>3 DEF ReplInv, OneOK
  <2> QED
    BY <1>11, <2>1, <2>2, <2>4 DEF OneOK
<1> QED
  BY <1>12, <1>20, <1>21, <1>22, <1>23, <1>27, <1>28 DEF ReplInv

(***************************************************************************)
(* The messages whose turn has come.                                        *)
(***************************************************************************)
LEMMA RunEndIs ==
  ASSUME NEW S, S \subseteq 0..MaxSid, NEW k \in 0..MaxSid
  PROVE  /\ RunEnd(k, S) \in Nat /\ k <= RunEnd(k, S) /\ RunEnd(k, S) + 1 \notin S
         /\ \A q \in k+1..RunEnd(k, S) : q \in S
<1> DEFINE T == S \cup {k}
           M == Max(T)
           G == {m \in k..M : \A q \in k+1..m : q \in S}
<1>1. T \subseteq 0..MaxSid /\ T \subseteq Nat /\ T # {} /\ MaxSid \in Nat
  BY BoundsAssumption
<1>2. IsFiniteSet(T)
  <2>1. IsFiniteSet(0..MaxSid)
    BY <1>1, FS_Interval
  <2> HIDE DEF T
  <2> QED
    BY <1>1, <2>1, FS_Subset
<1>3. M \in T /\ \A x \in T : x <= M
  <2> HIDE DEF T
  <2> QED
    BY <1>1, <1>2, LargestExists
<1>4. M \in Nat /\ k <= M /\ k \in Nat
  BY <1>1, <1>3
<1> HIDE DEF T, M
<1>5. G \subseteq k..M /\ k \in G /\ G \subseteq Nat
  BY <1>4
<1>6. IsFiniteSet(k..M)
  BY <1>4, FS_Interval
<1>7. IsFiniteSet(G)
  BY <1>5, <1>6, FS_Subset
<1>8. \E m \in G : \A x \in G : x <= m
  <2> HIDE DEF G
  <2>1. G # {}
    BY <1>5
  <2> QED
    BY <1>5, <1>7, <2>1, LargestExists
<1>9. PICK m \in G : \A x \in G : x <= m
  BY <1>8
<1>10. m \in Nat /\ m \in k..M /\ \A q \in k+1..m : q \in S
  BY <1>4, <1>9
<1>11. m + 1 \notin S
  <2> SUFFICES ASSUME m + 1 \in S  PROVE FALSE
    OBVIOUS
  <2>1. m + 1 <= M
    BY <1>3 DEF T
  <2>2. m + 1 \in k..M
    BY <1>4, <1>10, <2>1
  <2>3. \A q \in k+1..m+1 : q \in S
    BY <1>4, <1>10
  <2>4. m + 1 \in G
    BY <2>2, <2>3
  <2>5. m + 1 <= m
    BY <1>9, <2>4
  <2> QED
    BY <1>10, <2>5
<1>12. \E x \in k..M : x + 1 \notin S /\ \A q \in k+1..x : q \in S
  BY <1>10, <1>11
<1>13. RunEnd(k, S) = CHOOSE x \in k..M : x + 1 \notin S /\ \A q \in k+1..x : q \in S
  BY DEF RunEnd, M, T
<1>14. RunEnd(k, S) \in k..M /\ RunEnd(k, S) + 1 \notin S /\ \A q \in k+1..RunEnd(k, S) : q \in S
  BY <1>12, <1>13
<1> QED
  BY <1>4, <1>14

Turns == [seq : 0..MaxSid, conn : Conns]

\* The list of messages to process, given what waits.
ReadyOK(i, R) ==
  /\ R \in Seq(Turns) /\ (R = <<>> <=> Sent(host, i) # session.next)
  /\ \A n \in 1..Len(R) :
       /\ R[n].seq = session.next + n - 1 /\ Sent(host, R[n].conn) = R[n].seq
       /\ R[n].conn = i \/ Waits(R[n].conn)
  /\ session.next + Len(R) <= Len(disp[host].sent)
  /\ R # <<>> => \A w \in session.waiting : w.seq # session.next + Len(R)

LEMMA ReadyIs ==
  ASSUME ReplInv, session.open, NEW i \in Conns, HasData(host, i)
  PROVE  ReadyOK(i, Ready(Sent(host, i), i))
<1> DEFINE k == Sent(host, i)
           S == {w.seq : w \in session.waiting}
           e == RunEnd(k, S)
           conn(q) == IF q = k THEN i ELSE (CHOOSE w \in session.waiting : w.seq = q).conn
           L == Len(disp[host].sent)
<1>1. /\ TypeOK /\ host \in Hosts /\ NumbersOK /\ StreamOK(disp[host])
      /\ \A j \in Conns : LinkOK(host, j)
  BY OpenHost DEF ReplInv, SessionOK
<1>2. L \in Nat /\ L <= MaxSid /\ MaxSid \in Nat /\ session.next \in Nat /\ session.next <= L
  <2>1. /\ disp[host].sent \in Seq(Chunks) /\ disp[host].start \in 0..MaxSid
        /\ session.next \in Nat
    BY <1>1 DEF TypeOK, Disps, Chunks, Sessions
  <2>2. L \in Nat
    BY <2>1
  <2>3. EndOf(disp[host]) \in Int
    <3>1. CASE disp[host].sent = <<>>
      BY <2>1, <3>1 DEF EndOf
    <3>2. CASE disp[host].sent # <<>>
      <4>1. disp[host].sent[L] \in Chunks
        BY <2>1, <3>2
      <4> QED
        BY <3>2, <4>1 DEF EndOf, Chunks, Sids
    <3> QED
      BY <3>1, <3>2
  <2>4. disp[host].start + L <= EndOf(disp[host]) /\ EndOf(disp[host]) <= MaxSid
    BY <1>1 DEF StreamOK
  <2> HIDE DEF L
  <2> QED
    BY <1>1, <2>1, <2>2, <2>3, <2>4, BoundsAssumption DEF NumbersOK, L
<1> HIDE DEF L
<1>3. \A j \in Conns : Sent(host, j) \in Int /\ Sent(host, j) < L
  BY <1>1 DEF TypeOK, Sent, None, LinkOK, L
<1>4. k \in 0..MaxSid /\ k < L /\ k >= session.next
  BY <1>1, <1>2, <1>3 DEF HasData, NumbersOK
<1>5. \A w \in session.waiting : /\ w \in Turns /\ w.seq = Sent(host, w.conn)
                                 /\ w.seq > session.next /\ w.seq < L
  BY <1>1, <1>3 DEF TypeOK, Sessions, Turns, NumbersOK
<1>6. S \subseteq 0..MaxSid
  BY <1>5 DEF Turns
<1>7. e \in Nat /\ k <= e /\ e + 1 \notin S /\ \A q \in k+1..e : q \in S
  <2> HIDE DEF S, k
  <2> QED
    BY <1>4, <1>6, RunEndIs
<1> HIDE DEF e
<1>8. \A q \in k..e : /\ [seq |-> q, conn |-> conn(q)] \in Turns
                      /\ Sent(host, conn(q)) = q /\ q < L
                      /\ conn(q) = i \/ Waits(conn(q))
  <2> SUFFICES ASSUME NEW q \in k..e
               PROVE  /\ [seq |-> q, conn |-> conn(q)] \in Turns
                      /\ Sent(host, conn(q)) = q /\ q < L
                      /\ conn(q) = i \/ Waits(conn(q))
    OBVIOUS
  <2>1. CASE q = k
    BY <1>4, <2>1 DEF Turns
  <2>2. CASE q # k
    <3>1. q \in k+1..e
      BY <1>4, <1>7, <2>2
    <3>2. \E w \in session.waiting : w.seq = q
      BY <1>7, <3>1
    <3>3. PICK w \in session.waiting : w.seq = q /\ conn(q) = w.conn
      BY <2>2, <3>2
    <3>4. w \in Turns /\ q = Sent(host, w.conn) /\ q < L /\ Waits(w.conn)
      BY <1>5, <3>3 DEF Waits
    <3>5. q \in 0..MaxSid /\ w.conn \in Conns
      BY <3>3, <3>4 DEF Turns
    <3> HIDE DEF conn
    <3> QED
      BY <3>3, <3>4, <3>5 DEF Turns
  <2> QED
    BY <2>1, <2>2
<1> HIDE DEF conn
<1>9. CASE k = session.next
  <2> DEFINE R == [n \in 1..(e - k + 1) |-> [seq |-> k + n - 1, conn |-> conn(k + n - 1)]]
  <2>1. Ready(k, i) = R
    BY <1>9 DEF Ready, e, S, conn
  <2>2. e - k + 1 \in Nat /\ e - k + 1 >= 1
    BY <1>4, <1>7
  <2>3. \A n \in 1..(e - k + 1) : k + n - 1 \in k..e
    BY <1>4, <1>7, <2>2
  <2>4. \A n \in 1..(e - k + 1) :
          /\ R[n] \in Turns /\ R[n].seq = session.next + n - 1
          /\ Sent(host, R[n].conn) = R[n].seq /\ (R[n].conn = i \/ Waits(R[n].conn))
    BY <1>8, <1>9, <2>3
  <2>5. R \in Seq(Turns) /\ Len(R) = e - k + 1
    <3>1. R \in [1..(e - k + 1) -> Turns]
      BY <2>4
    <3> HIDE DEF R
    <3> QED
      BY <2>2, <3>1
  <2>6. e \in k..e
    BY <1>4, <1>7
  <2> HIDE DEF R
  <2>7. session.next + Len(R) = e + 1 /\ e < L
    <3>1. e < L
      BY <1>8, <2>6
    <3>2. k \in Int /\ k = session.next
      BY <1>4, <1>9
    <3> HIDE DEF k
    <3> QED
      BY <1>7, <2>5, <3>1, <3>2
  <2>8. R # <<>> /\ session.next + Len(R) <= L
    BY <1>2, <1>4, <1>7, <2>2, <2>5, <2>7
  <2>9. \A w \in session.waiting : w.seq # session.next + Len(R)
    BY <1>7, <2>7
  <2> QED
    BY <1>9, <2>1, <2>4, <2>5, <2>8, <2>9 DEF ReadyOK, L
<1>10. CASE k # session.next
  <2>1. Ready(k, i) = <<>>
    BY <1>10 DEF Ready
  <2>2. <<>> \in Seq(Turns) /\ Len(<<>>) = 0
    OBVIOUS
  <2> QED
    BY <1>2, <1>10, <2>1, <2>2 DEF ReadyOK, L
<1> QED
  BY <1>9, <1>10

LEMMA StillWaitingIs ==
  ASSUME ReplInv, NEW k, NEW i \in Conns, NEW w,
         Ready(k, i) \in Seq(Turns), session.next \in Nat,
         \A n \in 1..Len(Ready(k, i)) : Ready(k, i)[n].seq = session.next + n - 1
  PROVE  w \in StillWaiting(k, i) <=>
           /\ w \in session.waiting \/ w = [seq |-> k, conn |-> i]
           /\ w.seq \notin session.next..session.next + Len(Ready(k, i)) - 1
<1> DEFINE R == Ready(k, i)
           done == {r.seq : r \in ToSet(R)}
           n == Len(R)
<1>1. n \in Nat
  OBVIOUS
<1>2. ToSet(R) = {R[m] : m \in 1..n}
  BY DEF ToSet
<1> HIDE DEF R
<1>3. \A m \in 1..n : R[m].seq = session.next + m - 1
  BY DEF R
<1>4. done = {R[m].seq : m \in 1..n}
  BY <1>2
<1>5. done = session.next..session.next + n - 1
  <2>1. ASSUME NEW q \in session.next..session.next + n - 1  PROVE q \in done
    <3>1. q - session.next + 1 \in 1..n
      BY <1>1
    <3>2. R[q - session.next + 1].seq = q
      <4>1. R[q - session.next + 1].seq = session.next + (q - session.next + 1) - 1
        BY <1>3, <3>1, Zenon
      <4>2. session.next + (q - session.next + 1) - 1 = q
        OBVIOUS
      <4> QED
        BY <4>1, <4>2, Zenon
    <3> QED
      BY <1>4, <3>1, <3>2
  <2>2. ASSUME NEW m \in 1..n  PROVE R[m].seq \in session.next..session.next + n - 1
    BY <1>1, <1>3
  <2> QED
    BY <1>4, <2>1, <2>2
<1>6. StillWaiting(k, i) = {v \in session.waiting \cup {[seq |-> k, conn |-> i]} : v.seq \notin done}
  BY DEF StillWaiting, R
<1> HIDE DEF done
<1> QED
  BY <1>5, <1>6 DEF R

\* A list of messages whose turn has come, each from its own connection.
Turned(i, list) ==
  /\ list \in Seq(Turns)
  /\ \A n \in 1..Len(list) :
       /\ Sent(host, list[n].conn) = list[n].seq
       /\ list[n].seq \in session.next..session.next + Len(Ready(Sent(host, i), i)) - 1
       /\ list[n].conn = i \/ Waits(list[n].conn)
  /\ \A n, m \in 1..Len(list) : list[n].conn = list[m].conn => n = m

LEMMA ProcessedIs ==
  ASSUME NEW S, NEW R \in Seq(S)
  PROVE  /\ Processed(R) \in Seq(S)
         /\ R = <<>> => Processed(R) = <<>>
         /\ Len(Processed(R)) = (IF Len(R) < 2 THEN Len(R) ELSE Len(R) - 1)
         /\ \A n \in 1..Len(Processed(R)) :
              Processed(R)[n] = R[IF n = 1 THEN 1 ELSE n + 1]
<1>1. CASE Len(R) < 2
  BY <1>1 DEF Processed
<1>2. CASE ~(Len(R) < 2)
  <2> DEFINE T == SubSeq(R, 3, Len(R))
             L == Len(R)
  <2>1. L \in Nat /\ L >= 2 /\ R # <<>> /\ R[1] \in S
    BY <1>2
  <2>2. T \in Seq(S) /\ Len(T) = L - 2 /\ \A n \in 1..L - 2 : T[n] = R[n + 2]
    <3>4. L \in Int /\ 3 \in Int /\ \A n \in 3..L : R[n] \in S
      BY <2>1
    <3>1. T \in Seq(S)
      BY <3>4, SubSeqProperties
    <3>5. Len(T) = IF 3 <= L THEN L - 3 + 1 ELSE 0
      BY <3>4, SubSeqProperties
    <3>2. Len(T) = L - 2
      <4> HIDE DEF T, L
      <4> QED
        BY <2>1, <3>5
    <3>3. \A n \in 1..L - 2 : T[n] = R[n + 2]
      <4> SUFFICES ASSUME NEW n \in 1..L - 2  PROVE T[n] = R[n + 2]
        OBVIOUS
      <4>1. n \in 1..(L - 3 + 1)
        BY <2>1
      <4>2. T[n] = R[3 + n - 1]
        BY <3>4, <4>1, SubSeqProperties
      <4> QED
        BY <2>1, <4>2
    <3> QED
      BY <3>1, <3>2, <3>3
  <2>3. <<R[1]>> \in Seq(S) /\ Len(<<R[1]>>) = 1 /\ <<R[1]>>[1] = R[1]
    BY <2>1, TupleSeqs
  <2>4. Processed(R) = <<R[1]>> \o T
    BY <1>2 DEF Processed
  <2> DEFINE h == <<R[1]>>
  <2> HIDE DEF T, h
  <2>5. /\ h \o T \in Seq(S) /\ Len(h \o T) = L - 1
        /\ \A n \in 1..L - 1 : (h \o T)[n] = IF n = 1 THEN h[1] ELSE T[n - 1]
    BY <2>1, <2>2, <2>3 DEF h
  <2>6. \A n \in 1..L - 1 : (h \o T)[n] = R[IF n = 1 THEN 1 ELSE n + 1]
    <3>1. \A n \in 1..L - 1 : n # 1 => n - 1 \in 1..L - 2 /\ (n - 1) + 2 = n + 1
      BY <2>1
    <3>2. h[1] = R[1]
      BY <2>3 DEF h
    <3> QED
      BY <2>2, <2>5, <3>1, <3>2
  <2> QED
    BY <1>2, <2>1, <2>4, <2>5, <2>6 DEF h
<1> QED
  BY <1>1, <1>2

LEMMA TurnedIs ==
  ASSUME ReplInv, session.open, NEW i \in Conns, HasData(host, i)
  PROVE  LET R == Ready(Sent(host, i), i)
         IN  /\ Turned(i, Processed(R)) /\ Len(Processed(R)) <= Len(R)
             /\ Len(R) = 1 => Len(Processed(R)) = 1
<1> DEFINE R == Ready(Sent(host, i), i)
           P == Processed(R)
<1>1. ReadyOK(i, R) /\ session.next \in Nat
  BY ReadyIs DEF ReplInv, TypeOK, Sessions
<1> HIDE DEF R
<1>2. R \in Seq(Turns) /\ Len(R) \in Nat
  BY <1>1 DEF ReadyOK
<1>3. \A n \in 1..Len(R) :
        /\ R[n].seq = session.next + n - 1 /\ Sent(host, R[n].conn) = R[n].seq
        /\ R[n].conn = i \/ Waits(R[n].conn)
  BY <1>1 DEF ReadyOK
<1>4. /\ P \in Seq(Turns) /\ Len(P) = (IF Len(R) < 2 THEN Len(R) ELSE Len(R) - 1)
      /\ \A n \in 1..Len(P) : P[n] = R[IF n = 1 THEN 1 ELSE n + 1]
  BY <1>2, ProcessedIs
<1> HIDE DEF P
<1>5. \A n \in 1..Len(P) : (IF n = 1 THEN 1 ELSE n + 1) \in 1..Len(R)
  BY <1>2, <1>4
<1>6. \A n \in 1..Len(P) :
        /\ Sent(host, P[n].conn) = P[n].seq
        /\ P[n].seq \in session.next..session.next + Len(R) - 1
        /\ P[n].conn = i \/ Waits(P[n].conn)
        /\ P[n].seq = session.next + (IF n = 1 THEN 1 ELSE n + 1) - 1
  <2> SUFFICES ASSUME NEW n \in 1..Len(P)
               PROVE  /\ Sent(host, P[n].conn) = P[n].seq
                      /\ P[n].seq \in session.next..session.next + Len(R) - 1
                      /\ P[n].conn = i \/ Waits(P[n].conn)
                      /\ P[n].seq = session.next + (IF n = 1 THEN 1 ELSE n + 1) - 1
    OBVIOUS
  <2>1. PICK m \in 1..Len(R) : P[n] = R[m] /\ m = IF n = 1 THEN 1 ELSE n + 1
    BY <1>4, <1>5
  <2>2. R[m].seq = session.next + m - 1 /\ m \in Nat /\ m >= 1 /\ m <= Len(R)
    BY <1>2, <1>3
  <2>3. P[n].seq = session.next + m - 1
    BY <2>1, <2>2
  <2>4. P[n].seq \in session.next..session.next + Len(R) - 1
    BY <1>1, <1>2, <2>2, <2>3
  <2> QED
    BY <1>3, <2>1, <2>3, <2>4
<1>7. ASSUME NEW n \in 1..Len(P), NEW m \in 1..Len(P), P[n].conn = P[m].conn  PROVE n = m
  <2>1. P[n].seq = P[m].seq
    BY <1>6, <1>7
  <2>2. /\ P[n].seq = session.next + (IF n = 1 THEN 1 ELSE n + 1) - 1
        /\ P[m].seq = session.next + (IF m = 1 THEN 1 ELSE m + 1) - 1
    BY <1>6
  <2>3. n \in Int /\ m \in Int /\ n >= 1 /\ m >= 1
    BY <1>2, <1>4
  <2> DEFINE a == IF n = 1 THEN 1 ELSE n + 1
             b == IF m = 1 THEN 1 ELSE m + 1
  <2>4. session.next + a - 1 = session.next + b - 1 /\ a \in Int /\ b \in Int
    <3>1. a \in Int /\ b \in Int
      BY <2>3
    <3>2. P[n].seq = session.next + a - 1 /\ P[m].seq = session.next + b - 1
      BY <2>2
    <3> QED
      BY <2>1, <3>1, <3>2
  <2>5. a = b
    <3> HIDE DEF a, b
    <3> QED
      BY <1>1, <2>4
  <2> QED
    BY <2>3, <2>5
<1>8. Turned(i, P)
  BY <1>4, <1>6, <1>7 DEF Turned, R
<1> QED
  BY <1>2, <1>4, <1>8 DEF R, P

LEMMA TurnedPart ==
  ASSUME NEW i, NEW list, Turned(i, list), NEW m \in 0..Len(list)
  PROVE  /\ Turned(i, SubSeq(list, 1, m)) /\ Len(SubSeq(list, 1, m)) = m
         /\ \A n \in 1..m : SubSeq(list, 1, m)[n] = list[n]
<1>1. list \in Seq(Turns) /\ Len(list) \in Nat
  BY DEF Turned
<1> DEFINE t == SubSeq(list, 1, m)
<1>2. t \in Seq(Turns) /\ Len(t) = m /\ \A n \in 1..m : t[n] = list[n]
  BY <1>1
<1> HIDE DEF t
<1>3. \A n \in 1..m : n \in 1..Len(list)
  BY <1>1
<1>4. Turned(i, t)
  BY <1>2, <1>3 DEF Turned
<1> QED
  BY <1>2, <1>4 DEF t

\* One message of a list at most is acknowledged on a connection.
LEMMA RepliesIs ==
  ASSUME NEW list \in Seq(Turns), NEW j \in Conns,
         \A n, m \in 1..Len(list) : list[n].conn = list[m].conn => n = m
  PROVE  \/ (\A n \in 1..Len(list) : list[n].conn # j) /\ Replies(list, j) = <<>>
         \/ \E n \in 1..Len(list) :
              list[n].conn = j /\ Replies(list, j) = <<Reply(list[n].seq)>>
<1> DEFINE mine == {n \in 1..Len(list) : list[n].conn = j}
<1>1. Replies(list, j) = [m \in 1..Cardinality(mine) |-> Reply(list[Nth(mine, m)].seq)]
  BY DEF Replies
<1>2. CASE \A n \in 1..Len(list) : list[n].conn # j
  <2>1. mine = {}
    BY <1>2
  <2>2. Cardinality(mine) = 0
    BY <2>1, FS_EmptySet
  <2>3. Replies(list, j) = [m \in 1..0 |-> Reply(list[Nth(mine, m)].seq)]
    BY <1>1, <2>2
  <2>5. Replies(list, j) = <<>>
    BY <2>3
  <2> QED
    BY <1>2, <2>5
<1>3. CASE \E n \in 1..Len(list) : list[n].conn = j
  <2>1. PICK n \in 1..Len(list) : list[n].conn = j
    BY <1>3
  <2>2. mine = {n}
    BY <2>1
  <2>3. Cardinality(mine) = 1
    BY <2>2, FS_Singleton
  <2>4. Nth(mine, 1) = n
    <3>1. n \in Nat
      OBVIOUS
    <3>2. {x \in {n} : x <= n} = {n}
      BY <3>1
    <3>3. Cardinality({x \in {n} : x <= n}) = 1
      BY <3>2, FS_Singleton
    <3> QED
      BY <2>2, <3>3 DEF Nth
  <2> HIDE DEF mine
  <2>5. Replies(list, j) = [m \in 1..1 |-> Reply(list[Nth(mine, m)].seq)]
    BY <1>1, <2>3
  <2>6. Replies(list, j) = <<Reply(list[n].seq)>>
    BY <2>4, <2>5
  <2> QED
    BY <2>1, <2>6
<1> QED
  BY <1>2, <1>3

(***************************************************************************)
(* Data comes in.                                                          *)
(***************************************************************************)
\* Where data has come the session was accepted.
LEMMA DataMeans ==
  ASSUME ReplInv, session.open, host \in Hosts, NEW i \in Conns,
         HasData(host, i), ~Accepts(host, i)
  PROVE  /\ TypeOK /\ NumbersOK /\ StoredOK /\ host > 0 /\ session.next \in Nat
         /\ session.reported # {} /\ disp[host].st # "none" /\ StreamOK(disp[host])
         /\ \A j \in Conns : /\ LinkOK(host, j) /\ ~Reports(host, j) /\ ~Accepts(host, j)
                             /\ Sent(host, j) \in Int
         /\ Sent(host, i) >= session.next /\ ~Waits(i)
         /\ \A j \in Conns : (j = i \/ Waits(j)) /\ Sent(host, j) >= session.next =>
              /\ ToM(host, j) = <<>> /\ ~Redo(host, j)
              /\ j # i => ToS(host, j) = <<>>
<1>1. /\ TypeOK /\ NumbersOK /\ AcceptOK /\ StoredOK /\ host > 0 /\ session.next \in Nat
      /\ StreamOK(disp[host]) /\ BeginOK(host) /\ \A j \in Conns : LinkOK(host, j)
  BY DEF ReplInv, SessionOK, TypeOK, Sessions
<1>2. ~Unused(host, i)
  BY <1>1, UnusedIdle
<1>3. ~Reports(host, 1) /\ ~Accepts(host, 1)
  <2>1. i = 1 => ToS(host, i) # <<>>
    BY <1>1, KindsApart DEF AllApart, Apart
  <2>2. i = 1 => ~Reports(host, i)
    BY <1>1, <2>1, KindsApart DEF AllApart, Apart, LinkOK
  <2> QED
    BY <1>1, <1>2, <2>2 DEF BeginOK
<1>4. \A j \in Conns : ~Reports(host, j) /\ ~Accepts(host, j)
  BY <1>1, <1>3 DEF BeginOK
<1>5. session.reported # {}
  BY <1>1, <1>2, <1>3 DEF AcceptOK
<1>6. \A j \in Conns : Sent(host, j) \in Int
  BY <1>1 DEF TypeOK, Sent, None
<1>7. Sent(host, i) >= session.next /\ ~Waits(i)
  BY <1>1 DEF NumbersOK
<1>8. disp[host].st # "none"
  <2>1. Sent(host, i) < Len(disp[host].sent) /\ Sent(host, i) >= 0
    BY <1>1 DEF LinkOK, HasData
  <2>2. disp[host] # NoDisp
    BY <1>6, <2>1 DEF NoDisp
  <2> QED
    BY <1>1, <2>2 DEF StreamOK
<1>9. ASSUME NEW j \in Conns, j = i \/ Waits(j), Sent(host, j) >= session.next
      PROVE  /\ ToM(host, j) = <<>> /\ ~Redo(host, j)
             /\ j # i => ToS(host, j) = <<>>
  <2>1. ~AtMaster(host, j)
    BY <1>1, <1>6, <1>9 DEF NumbersOK
  <2>2. ToM(host, j) = <<>> /\ ~Redo(host, j)
    BY <1>1, <2>1 DEF AtMaster, LinkOK
  <2>3. Sent(host, j) # None
    BY <1>1, <1>9 DEF None
  <2>4. j # i => ~HasData(host, j)
    BY <1>1, <1>9 DEF NumbersOK
  <2>5. j # i => ToS(host, j) = <<>>
    BY <1>1, <1>4, <2>3, <2>4 DEF LinkOK
  <2> QED
    BY <2>2, <2>5
<1> QED
  BY <1>1, <1>4, <1>5, <1>6, <1>7, <1>8, <1>9

\* What taking the messages of a list and acknowledging them changes.
Takes(i, list) ==
  /\ SlaveGets(i, "data") /\ Turned(i, list) /\ UNCHANGED <<masterVars, host>>
  /\ toMaster' = [toMaster EXCEPT ![host] = [j \in Conns |-> toMaster[host][j] \o Replies(list, j)]]

Answered(i, j) ==
  /\ toMaster[host][j] = <<>> /\ toMaster'[host][j] = <<Reply(lastSeq[host][j])>>
  /\ toSlave'[host][j] = <<>> /\ <<host, j>> \notin redo
  /\ lastSeq[host][j] \in session.next..session.next + Len(Ready(Sent(host, i), i)) - 1

TakesOn(i, list) ==
  /\ toMaster' \in ToMasterType /\ toSlave' \in ToSlaveType
  /\ disp' = disp /\ lastSeq' = lastSeq /\ redo' = redo /\ top' = top /\ host' = host
  /\ \A g \in Hosts \ {host}, j \in Conns : Kept(g, j)
  /\ toSlave'[host][i] = <<>>
  /\ \A j \in Conns : j # i => toSlave'[host][j] = toSlave[host][j]
  /\ \A j \in Conns :
       \/ (\A n \in 1..Len(list) : list[n].conn # j) /\ toMaster'[host][j] = toMaster[host][j]
       \/ (\E n \in 1..Len(list) : list[n].conn = j) /\ Answered(i, j)

LEMMA TakesEffect ==
  ASSUME ReplInv, NEW i \in Conns, NEW list, Takes(i, list)
  PROVE  TakesOn(i, list)
<1>1. SlaveGets(i, "data") /\ Turned(i, list) /\ UNCHANGED <<masterVars, host>>
  BY DEF Takes
<1>2. /\ session.open /\ host \in Hosts /\ HasData(host, i) /\ ~Accepts(host, i)
      /\ toSlave' \in ToSlaveType /\ toSlave'[host][i] = <<>>
      /\ \A g \in Hosts, j \in Conns : g # host \/ j # i => toSlave'[g][j] = ToS(g, j)
  BY <1>1, TakenFromSlave, ZenonT(40)
<1>3. /\ TypeOK /\ session.next \in Nat
      /\ \A j \in Conns : (j = i \/ Waits(j)) /\ Sent(host, j) >= session.next =>
           /\ ToM(host, j) = <<>> /\ ~Redo(host, j)
           /\ j # i => ToS(host, j) = <<>>
  BY <1>2, DataMeans
<1>4. /\ list \in Seq(Turns) /\ \A n, m \in 1..Len(list) : list[n].conn = list[m].conn => n = m
      /\ \A n \in 1..Len(list) :
           /\ Sent(host, list[n].conn) = list[n].seq
           /\ list[n].seq \in session.next..session.next + Len(Ready(Sent(host, i), i)) - 1
           /\ list[n].conn = i \/ Waits(list[n].conn)
  BY <1>1 DEF Turned
<1>5. toMaster \in ToMasterType
  BY <1>3 DEF TypeOK, ToMasterType
<1> DEFINE row == [j \in Conns |-> toMaster[host][j] \o Replies(list, j)]
           Q == Seq(Messages({"report", "newconn", "reply"}, 0..MaxSid))
<1>6. ASSUME NEW j \in Conns
      PROVE  /\ row[j] \in Q
             /\ \/ (\A n \in 1..Len(list) : list[n].conn # j) /\ row[j] = toMaster[host][j]
                \/ \E n \in 1..Len(list) :
                     /\ list[n].conn = j /\ row[j] = <<Reply(lastSeq[host][j])>>
                     /\ toMaster[host][j] = <<>> /\ toSlave'[host][j] = <<>>
                     /\ <<host, j>> \notin redo /\ lastSeq[host][j] = list[n].seq
  <2>1. toMaster[host][j] \in Q /\ row[j] = toMaster[host][j] \o Replies(list, j)
    BY <1>2, <1>5 DEF ToMasterType
  <2>2. CASE (\A n \in 1..Len(list) : list[n].conn # j) /\ Replies(list, j) = <<>>
    <3> HIDE DEF Q, row
    <3>1. row[j] = toMaster[host][j]
      BY <2>1, <2>2 DEF Q
    <3> QED
      BY <2>1, <2>2, <3>1
  <2>3. CASE \E n \in 1..Len(list) : list[n].conn = j /\ Replies(list, j) = <<Reply(list[n].seq)>>
    <3>1. PICK n \in 1..Len(list) :
            list[n].conn = j /\ Replies(list, j) = <<Reply(list[n].seq)>>
      BY <2>3
    <3>2. list[n] \in Turns
      BY <1>4
    <3>3. /\ Sent(host, j) = list[n].seq /\ (j = i \/ Waits(j))
          /\ list[n].seq >= session.next /\ list[n].seq \in 0..MaxSid
      BY <1>3, <1>4, <3>1, <3>2 DEF Turns
    <3>4. ToM(host, j) = <<>> /\ ~Redo(host, j) /\ (j # i => ToS(host, j) = <<>>)
      BY <1>3, <3>3
    <3>5. Reply(list[n].seq) \in Messages({"report", "newconn", "reply"}, 0..MaxSid)
      BY <3>3 DEF Reply, Messages
    <3>6. <<Reply(list[n].seq)>> \in Q
      BY <3>5, TupleSeqs
    <3>7. toMaster[host][j] = <<>>
      BY <3>4 DEF ToM
    <3> DEFINE r == <<Reply(list[n].seq)>>
    <3>8. row[j] = r
      <4> HIDE DEF r, row
      <4>1. row[j] = <<>> \o r
        BY <2>1, <3>1, <3>7 DEF r
      <4> QED
        BY <3>6, <4>1 DEF r
    <3>9. toSlave'[host][j] = <<>>
      BY <1>2, <3>4
    <3> QED
      BY <3>1, <3>3, <3>4, <3>6, <3>7, <3>8, <3>9 DEF Sent, Redo
  <2> QED
    BY <1>4, <2>2, <2>3, RepliesIs
<1>7. row \in [Conns -> Q]
  <2>1. row = [j \in Conns |-> row[j]]
    OBVIOUS
  <2> HIDE DEF row, Q
  <2> QED
    BY <1>6, <2>1
<1>8. toMaster' = [toMaster EXCEPT ![host] = row]
  BY DEF Takes
<1> HIDE DEF row
<1>9. toMaster' \in ToMasterType
  BY <1>2, <1>5, <1>7, <1>8 DEF ToMasterType
<1>10. \A g \in Hosts, j \in Conns :
         toMaster'[g][j] = IF g = host THEN row[j] ELSE toMaster[g][j]
  BY <1>2, <1>5, <1>8, PutRowIs DEF ToMasterType
<1>11. disp' = disp /\ lastSeq' = lastSeq /\ redo' = redo /\ top' = top /\ host' = host
  BY <1>1 DEF masterVars
<1>12. \A g \in Hosts \ {host}, j \in Conns : Kept(g, j)
  BY <1>2, <1>10, <1>11 DEF Kept, ToM, ToS, Sent, Redo
<1>13. ASSUME NEW j \in Conns
       PROVE  \/ (\A n \in 1..Len(list) : list[n].conn # j) /\ toMaster'[host][j] = toMaster[host][j]
              \/ (\E n \in 1..Len(list) : list[n].conn = j) /\ Answered(i, j)
  <2>1. toMaster'[host][j] = row[j]
    BY <1>2, <1>10
  <2>2. CASE (\A n \in 1..Len(list) : list[n].conn # j) /\ row[j] = toMaster[host][j]
    BY <2>1, <2>2
  <2>3. CASE \E n \in 1..Len(list) :
               /\ list[n].conn = j /\ row[j] = <<Reply(lastSeq[host][j])>>
               /\ toMaster[host][j] = <<>> /\ toSlave'[host][j] = <<>>
               /\ <<host, j>> \notin redo /\ lastSeq[host][j] = list[n].seq
    BY <1>4, <2>1, <2>3 DEF Answered
  <2> QED
    BY <1>6, <2>2, <2>3
<1>14. \A j \in Conns : j # i => toSlave'[host][j] = toSlave[host][j]
  BY <1>2 DEF ToS
<1> QED
  BY <1>2, <1>9, <1>11, <1>12, <1>13, <1>14 DEF TakesOn

\* A connection after data was taken: what was on its way goes, or an
\* acknowledgement is on its way.
TakenOn(g, j, i, list) ==
  \/ Less(g, j) /\ ToM(g, j)' = ToM(g, j) /\ ToS(g, j)' = IF j = i THEN <<>> ELSE ToS(g, j)
  \/ /\ Answers(g, j)' /\ ToS(g, j)' = <<>> /\ ~Redo(g, j)' /\ Sent(g, j)' = Sent(g, j)
     /\ Sent(g, j) \in session.next..session.next + Len(Ready(Sent(host, i), i)) - 1
     /\ \E n \in 1..Len(list) : list[n].conn = j

LEMMA TakenConns ==
  ASSUME ReplInv, NEW i \in Conns, NEW list, Takes(i, list),
         NEW g \in Hosts, NEW j \in Conns, g = host
  PROVE  TakenOn(g, j, i, list)
<1>1. TakesOn(i, list) /\ session.open
  BY TakesEffect, TakenFromSlave DEF Takes
<1>2. /\ lastSeq' = lastSeq /\ redo' = redo
      /\ toSlave'[host][i] = <<>>
      /\ \A m \in Conns : m # i => toSlave'[host][m] = toSlave[host][m]
      /\ \/ (\A n \in 1..Len(list) : list[n].conn # j) /\ toMaster'[host][j] = toMaster[host][j]
         \/ (\E n \in 1..Len(list) : list[n].conn = j) /\ Answered(i, j)
  BY <1>1 DEF TakesOn
<1>3. CASE toMaster'[host][j] = toMaster[host][j]
  BY <1>2, <1>3 DEF TakenOn, Less, ToM, ToS, Sent, Redo
<1>4. CASE (\E n \in 1..Len(list) : list[n].conn = j) /\ Answered(i, j)
  <2>1. session.next \in Nat
    BY DEF ReplInv, TypeOK, Sessions
  <2>2. Sent(g, j) \in session.next..session.next + Len(Ready(Sent(host, i), i)) - 1
    BY <1>4 DEF Answered, Sent
  <2>3. Sent(g, j) >= 0 /\ Sent(g, j)' = Sent(g, j)
    BY <1>2, <2>1, <2>2 DEF Sent
  <2>4. Answers(g, j)'
    BY <1>2, <1>4, <2>3 DEF Answered, Answers, ToM, Sent
  <2> QED
    BY <1>2, <1>4, <2>2, <2>3, <2>4 DEF TakenOn, Answered, ToS, Redo
<1> QED
  BY <1>2, <1>3, <1>4

\* The connection of a number that was taken had no other message on its way.
LEMMA TakenFacts ==
  ASSUME ReplInv, TypeOK', NEW i \in Conns, NEW list, Takes(i, list),
         NEW g \in Hosts, NEW j \in Conns, g = host
  PROVE  /\ Sent(g, j)' = Sent(g, j) /\ ~Reports(g, j)' /\ ~Accepts(g, j)' /\ LinkOK(g, j)'
         /\ HasData(g, j)' <=> HasData(g, j) /\ j # i
         /\ Answers(g, j)' => Answers(g, j) \/ \E n \in 1..Len(list) : list[n].conn = j
         /\ AtMaster(g, j)' => \/ AtMaster(g, j)
                               \/ Sent(g, j) \in session.next..
                                    session.next + Len(Ready(Sent(host, i), i)) - 1
<1>1. /\ SlaveGets(i, "data") /\ Turned(i, list) /\ TakenOn(g, j, i, list)
      /\ disp' = disp /\ TypeOK
  BY TakenConns DEF Takes, ReplInv, masterVars
<1>2. session.open /\ HasData(host, i) /\ ~Accepts(host, i)
  BY <1>1, TakenFromSlave
<1>3. /\ LinkOK(g, j) /\ ~Reports(g, j) /\ ~Accepts(g, j) /\ Sent(g, j) \in Int
      /\ NumbersOK
  BY <1>2, DataMeans
<1>4. AllApart' /\ AllSlaveKinds' /\ AllApart
  BY <1>1, KindsApart, SlaveKinds, PTL
<1>5. Apart(g, j)' /\ SlaveKind(g, j)' /\ Apart(g, j)
  BY <1>4 DEF AllApart, AllSlaveKinds
<1>6. CASE /\ Less(g, j) /\ ToM(g, j)' = ToM(g, j)
           /\ ToS(g, j)' = IF j = i THEN <<>> ELSE ToS(g, j)
  <2>1. DispGoesOn(g)
    BY <1>1 DEF DispGoesOn, TypeOK, Disps
  <2>2. LinkOK(g, j)'
    BY <1>1, <1>3, <1>6, <2>1, LessLink
  <2>3. HasData(g, j)' <=> HasData(g, j) /\ j # i
    BY <1>1, <1>5, <1>6, LessFacts DEF SlaveKind
  <2> QED
    BY <1>1, <1>3, <1>6, <2>2, <2>3, LessFacts DEF Less
<1>7. CASE /\ Answers(g, j)' /\ ToS(g, j)' = <<>> /\ ~Redo(g, j)' /\ Sent(g, j)' = Sent(g, j)
           /\ Sent(g, j) \in session.next..session.next + Len(Ready(Sent(host, i), i)) - 1
           /\ \E n \in 1..Len(list) : list[n].conn = j
  <2>1. ~Reports(g, j)' /\ ~Accepts(g, j)' /\ ~HasData(g, j)' /\ ~Refused(g, j)' /\ ~Joins(g, j)'
    BY <1>5, <1>7 DEF Apart, SlaveKind
  <2>2. Sent(g, j)' < Len(disp'[g].sent)
    BY <1>1, <1>3, <1>7 DEF LinkOK
  <2>3. LinkOK(g, j)'
    BY <1>7, <2>1, <2>2 DEF LinkOK
  <2>4. j # i => ~HasData(g, j)
    <3>1. j = i \/ Waits(j)
      BY <1>1, <1>7 DEF Turned
    <3> QED
      BY <1>3, <3>1 DEF NumbersOK
  <2> QED
    BY <1>7, <2>1, <2>3, <2>4
<1> QED
  BY <1>1, <1>6, <1>7 DEF TakenOn

LEMMA TakenLinks ==
  ASSUME ReplInv, TypeOK', NEW i \in Conns, NEW list, Takes(i, list)
  PROVE  /\ \A g \in Hosts : StreamOK(disp'[g]) /\ LedgerOK(g)' /\ BeginOK(g)'
         /\ \A g \in Hosts, j \in Conns : LinkOK(g, j)'
<1>1. TakesOn(i, list) /\ TypeOK
  BY TakesEffect DEF ReplInv
<1>2. /\ disp' = disp /\ lastSeq' = lastSeq /\ host' = host
      /\ \A g \in Hosts \ {host}, j \in Conns : Less(g, j)
  BY <1>1, KeptIsLess DEF TakesOn
<1>3. \A g \in Hosts : DispGoesOn(g) /\ StreamOK(disp'[g])
  BY <1>1, <1>2 DEF ReplInv, DispGoesOn, TypeOK, Disps
<1>4. ASSUME NEW g \in Hosts, NEW j \in Conns  PROVE LinkOK(g, j)'
  <2>1. CASE g = host
    BY <2>1, TakenFacts
  <2>2. CASE g # host
    BY <1>1, <1>2, <1>3, <2>2, LessLink DEF ReplInv
  <2> QED
    BY <2>1, <2>2
<1>5. \A g \in Hosts : LedgerOK(g)'
  <2>1. \A g \in Hosts, j \in Conns : Sent(g, j)' = Sent(g, j)
    BY <1>2 DEF Sent
  <2> QED
    BY <2>1, LessLedger DEF ReplInv
<1>6. ASSUME NEW g \in Hosts  PROVE BeginOK(g)'
  <2>1. CASE g # host
    BY <1>1, <1>2, <2>1, LessBegin DEF ReplInv
  <2>2. CASE g = host
    <3>1. \A j \in Conns : ~Reports(g, j)' /\ ~Accepts(g, j)'
      BY <2>2, TakenFacts
    <3>2. ~(g > host')
      BY <1>2, <2>2 DEF Hosts
    <3> QED
      BY <3>1, <3>2, OneIsConn DEF BeginOK
  <2> QED
    BY <2>1, <2>2
<1> QED
  BY <1>3, <1>4, <1>5, <1>6

\* The chunks of a session ascend.
LEMMA StreamOrder ==
  ASSUME TypeOK, NEW h \in Hosts, StreamOK(disp[h])
  PROVE  LET s == disp[h].sent
         IN  /\ Len(s) \in Nat /\ disp[h].start \in 0..MaxSid
             /\ \A k \in 1..Len(s) : /\ s[k].first \in Sids /\ s[k].last \in Sids
                                     /\ disp[h].start < s[k].first /\ s[k].first <= s[k].last
             /\ \A j, k \in 1..Len(s) : j <= k => s[j].last <= s[k].last
<1> DEFINE s == disp[h].sent
           b == disp[h].start
<1>1. s \in Seq(Chunks) /\ b \in 0..MaxSid
  BY DEF TypeOK, Disps, Chunks
<1>2. /\ Len(s) \in Nat
      /\ \A k \in 1..Len(s) : s[k] \in Chunks
  BY <1>1
<1>3. \A k \in 1..Len(s) :
        /\ s[k].first <= s[k].last
        /\ s[k].first = (IF k = 1 THEN b ELSE s[k-1].last) + 1
        /\ \A j \in 1..k-1 : s[j].last < s[k].first
  BY DEF StreamOK
<1> HIDE DEF s, b
<1>4. \A k \in 1..Len(s) : s[k].first \in Sids /\ s[k].last \in Sids
  BY <1>2 DEF Chunks
<1>5. ASSUME NEW k \in 1..Len(s)  PROVE b < s[k].first
  <2>1. CASE k = 1
    BY <1>1, <1>3, <1>4, <2>1
  <2>2. CASE k # 1
    <3>1. 1 \in 1..Len(s) /\ 1 \in 1..k-1
      BY <1>2, <2>2
    <3>2. s[1].first = b + 1 /\ s[1].first <= s[1].last /\ s[1].last < s[k].first
      BY <1>3, <3>1
    <3>3. s[1].first \in Int /\ s[1].last \in Int /\ s[k].first \in Int /\ b \in Int
      BY <1>1, <1>4, <3>1 DEF Sids
    <3> QED
      BY <3>2, <3>3
  <2> QED
    BY <2>1, <2>2
<1>6. ASSUME NEW j \in 1..Len(s), NEW k \in 1..Len(s), j <= k  PROVE s[j].last <= s[k].last
  <2>1. s[j].last \in Int /\ s[k].last \in Int /\ s[k].first \in Int
    BY <1>4 DEF Sids
  <2>2. CASE j = k
    BY <2>1, <2>2
  <2>3. CASE j # k
    <3>1. j \in 1..k-1
      BY <1>2, <1>6, <2>3
    <3>2. s[j].last < s[k].first /\ s[k].first <= s[k].last
      BY <1>3, <3>1
    <3> QED
      BY <2>1, <3>2
  <2> QED
    BY <2>2, <2>3
<1> QED
  BY <1>1, <1>2, <1>3, <1>4, <1>5, <1>6 DEF s, b

LEMMA TakenNumbers ==
  ASSUME ReplInv, TypeOK', NEW i \in Conns, NEW list, Takes(i, list),
         session' = Progress(Sent(host, i), i), link'[host] = link[host]
  PROVE  NumbersOK'
<1> DEFINE k == Sent(host, i)
           R == Ready(k, i)
           p == session.next
           q == p + Len(R)
           W == StillWaiting(k, i)
           L == Len(disp[host].sent)
           D == p..q - 1
<1>1. /\ SlaveGets(i, "data") /\ host' = host /\ disp' = disp
      /\ session' = [session EXCEPT !.next = @ + Len(R), !.waiting = W]
  BY DEF Takes, masterVars, Progress
<1>2. session.open /\ host \in Hosts /\ HasData(host, i) /\ ~Accepts(host, i)
  BY <1>1, TakenFromSlave
<1>3. /\ TypeOK /\ NumbersOK /\ p \in Nat /\ LedgerOK(host)
      /\ \A j \in Conns : Sent(host, j) \in Int
  BY <1>2, DataMeans DEF ReplInv
<1>4. ReadyOK(i, R)
  BY <1>2, ReadyIs
<1>5. /\ R \in Seq(Turns) /\ Len(R) \in Nat /\ (R = <<>> <=> k # p) /\ p + Len(R) <= L
      /\ \A n \in 1..Len(R) : /\ R[n].seq = p + n - 1 /\ Sent(host, R[n].conn) = R[n].seq
                              /\ R[n].conn \in Conns
                              /\ R[n].conn = i \/ Waits(R[n].conn)
      /\ R # <<>> => \A w \in session.waiting : w.seq # p + Len(R)
      /\ R = <<>> <=> Len(R) = 0
  <2>1. /\ R \in Seq(Turns) /\ (R = <<>> <=> k # p) /\ p + Len(R) <= L
        /\ \A n \in 1..Len(R) : /\ R[n].seq = p + n - 1 /\ Sent(host, R[n].conn) = R[n].seq
                                /\ R[n].conn = i \/ Waits(R[n].conn)
        /\ R # <<>> => \A w \in session.waiting : w.seq # p + Len(R)
    BY <1>4 DEF ReadyOK
  <2> HIDE DEF R
  <2>2. Len(R) \in Nat /\ (R = <<>> <=> Len(R) = 0) /\ \A n \in 1..Len(R) : R[n] \in Turns
    BY <2>1
  <2>3. \A n \in 1..Len(R) : R[n].conn \in Conns
    BY <2>2 DEF Turns
  <2> QED
    BY <2>1, <2>2, <2>3
<1>6. \A w : w \in W <=> /\ w \in session.waiting \/ w = [seq |-> k, conn |-> i]
                         /\ w.seq \notin D
  BY <1>3, <1>5, StillWaitingIs
<1>7. k \in Int /\ k >= p /\ ~Waits(i)
  BY <1>2, DataMeans
<1>8. \A w \in session.waiting : /\ w.seq = Sent(host, w.conn) /\ w.seq > p
                                 /\ w.seq \in Nat /\ w.conn \in Conns
  BY <1>3 DEF NumbersOK, TypeOK, Sessions
<1>9. session'.next = q /\ session'.waiting = W /\ L \in Nat /\ q \in Nat
  BY <1>1, <1>3, <1>5 DEF TypeOK, Sessions, Disps
<1>10. \A j \in Conns :
         /\ Sent(host, j)' = Sent(host, j)
         /\ HasData(host, j)' <=> HasData(host, j) /\ j # i
         /\ AtMaster(host, j)' => AtMaster(host, j) \/ Sent(host, j) \in D
  <2>1. ASSUME NEW g \in Hosts, NEW j \in Conns, g = host
        PROVE  /\ Sent(g, j)' = Sent(g, j)
               /\ HasData(g, j)' <=> HasData(g, j) /\ j # i
               /\ AtMaster(g, j)' => AtMaster(g, j) \/ Sent(g, j) \in D
    <3>1. /\ Sent(g, j)' = Sent(g, j)
          /\ HasData(g, j)' <=> HasData(g, j) /\ j # i
          /\ AtMaster(g, j)' =>
               \/ AtMaster(g, j)
               \/ Sent(g, j) \in session.next..session.next + Len(Ready(Sent(host, i), i)) - 1
      BY <2>1, TakenFacts
    <3>2. D = session.next..session.next + Len(Ready(Sent(host, i), i)) - 1
      <4>1. q - 1 = session.next + Len(Ready(Sent(host, i), i)) - 1
        <5> DEFINE m == Len(Ready(Sent(host, i), i))
        <5>1. q = p + m
          OBVIOUS
        <5>2. m \in Nat
          BY <1>5
        <5> HIDE DEF m, q
        <5>3. q - 1 = p + m - 1
          BY <1>3, <5>1, <5>2
        <5> QED
          BY <5>3 DEF m
      <4> HIDE DEF q
      <4> QED
        BY <4>1
    <3> HIDE DEF D
    <3> QED
      BY <3>1, <3>2
  <2> HIDE DEF D
  <2> QED
    BY <1>1, <1>2, <2>1
<1>20. \A n \in Int : n \in D <=> p <= n /\ n < q
  BY <1>3, <1>5
<1> HIDE DEF R, W, k, L, D
<1>11. k = Sent(host, i)
  BY DEF k
<1>12. ASSUME NEW w \in W  PROVE w.seq = Sent(host, w.conn) /\ w.seq > q
  <2>1. CASE w \in session.waiting
    <3>1. w.seq > p /\ w.seq \in Nat /\ w.seq \notin D /\ w.seq = Sent(host, w.conn)
      BY <1>6, <1>8, <1>12, <2>1
    <3>4. w.seq >= q
      BY <1>3, <1>20, <3>1
    <3>2. CASE R = <<>>
      <4>1. q = p
        BY <1>3, <1>5, <3>2
      <4> QED
        BY <3>1, <4>1
    <3>3. CASE R # <<>>
      <4>1. w.seq # q
        BY <1>5, <2>1, <3>3
      <4>2. Len(R) \in Nat
        BY <1>5
      <4> QED
        BY <1>3, <3>1, <3>4, <4>1, <4>2
    <3> QED
      BY <3>2, <3>3
  <2>2. CASE w = [seq |-> k, conn |-> i]
    <3>1. w.seq = k /\ w.conn = i /\ k \notin D
      BY <1>6, <1>12, <2>2
    <3>2. k > q
      BY <1>3, <1>5, <1>7, <1>20, <3>1
    <3> QED
      BY <1>11, <3>1, <3>2
  <2> QED
    BY <1>6, <2>1, <2>2
<1>13. ASSUME NEW j \in Conns, Sent(host, j) \in p..q - 1  PROVE j = i \/ Waits(j)
  <2>1. Sent(host, j) - p + 1 \in 1..Len(R)
    BY <1>3, <1>5, <1>13
  <2>2. PICK n \in 1..Len(R) : n = Sent(host, j) - p + 1
    BY <2>1
  <2>3. Sent(host, R[n].conn) = Sent(host, j) /\ R[n].conn \in Conns
    BY <1>3, <1>5, <2>2, SMTT(20)
  <2>4. j = R[n].conn
    BY <1>3, <1>13, <2>3 DEF LedgerOK, None
  <2> QED
    BY <1>5, <2>4
<1>14. ASSUME NEW j \in Conns
       PROVE  /\ AtMaster(host, j)' => Sent(host, j)' < q
              /\ HasData(host, j)' => Sent(host, j)' >= q /\ ~Waits(j)'
              /\ Sent(host, j)' >= q /\ link'[host][j].s = "open" => Waits(j)' \/ HasData(host, j)'
  <2>1. /\ AtMaster(host, j) => Sent(host, j) < p
        /\ HasData(host, j) => Sent(host, j) >= p /\ ~Waits(j)
        /\ Sent(host, j) >= p /\ link[host][j].s = "open" => Waits(j) \/ HasData(host, j)
    BY <1>3 DEF NumbersOK
  <2>2. Waits(j)' <=> \E w \in W : w.conn = j
    BY <1>9 DEF Waits
  <2>3. AtMaster(host, j)' => Sent(host, j)' < q
    BY <1>3, <1>5, <1>10, <1>20, <2>1
  <2>4. ASSUME HasData(host, j)'  PROVE Sent(host, j)' >= q /\ ~Waits(j)'
    <3>1. HasData(host, j) /\ j # i /\ Sent(host, j) >= p /\ ~Waits(j)
      BY <1>10, <2>1, <2>4
    <3>2. Sent(host, j) \notin p..q - 1
      BY <1>13, <3>1
    <3>3. ~\E w \in W : w.conn = j
      BY <1>6, <3>1 DEF Waits
    <3> QED
      BY <1>3, <1>9, <1>10, <2>2, <3>1, <3>2, <3>3
  <2>5. ASSUME Sent(host, j)' >= q, link'[host][j].s = "open"
        PROVE  Waits(j)' \/ HasData(host, j)'
    <3>1. Sent(host, j) >= q /\ Sent(host, j) >= p /\ link[host][j].s = "open"
      BY <1>3, <1>5, <1>10, <2>5
    <3>2. Sent(host, j) \notin D
      BY <1>3, <1>20, <3>1
    <3>3. CASE Waits(j)
      <4>1. PICK w \in session.waiting : w.conn = j
        BY <3>3 DEF Waits
      <4>2. w \in W
        BY <1>6, <1>8, <3>2, <4>1
      <4> QED
        BY <2>2, <4>1, <4>2
    <3>4. CASE j = i
      <4>1. [seq |-> k, conn |-> i] \in W
        BY <1>6, <1>11, <3>2, <3>4
      <4> QED
        BY <2>2, <3>4, <4>1
    <3> QED
      BY <1>10, <2>1, <3>1, <3>3, <3>4
  <2> QED
    BY <2>3, <2>4, <2>5
<1>15. \A n \in q..L - 1 : \E j \in Conns : Sent(host, j)' = n
  <2>1. \A n \in p..L - 1 : \E j \in Conns : Sent(host, j) = n
    BY <1>3 DEF NumbersOK, L
  <2>2. \A n \in q..L - 1 : n \in p..L - 1
    BY <1>3, <1>5, <1>9
  <2> QED
    BY <1>10, <2>1, <2>2
<1>16. \A w \in W : w.conn \in Conns
  BY <1>6, <1>8
<1>17. \A w \in W : w.seq = Sent(host, w.conn)'
  BY <1>10, <1>12, <1>16
<1>18. q <= L
  BY <1>5
<1> HIDE DEF q
<1>19. disp'[host'].sent = disp[host].sent
  BY <1>1
<1> QED
  BY <1>1, <1>9, <1>12, <1>14, <1>15, <1>17, <1>18, <1>19 DEF NumbersOK, L

LEMMA TakenStored ==
  ASSUME ReplInv, TypeOK', NEW i \in Conns, NEW list, Takes(i, list),
         session' = Progress(Sent(host, i), i), slog \subseteq slog',
         \A x \in slog' :
           \/ x \in slog
           \/ \E n \in 1..session.next + Len(Ready(Sent(host, i), i)) : x <= disp[host].sent[n].last,
         \A n \in 1..Len(list) :
           disp[host].sent[list[n].seq + 1].first..disp[host].sent[list[n].seq + 1].last
             \subseteq slog'
  PROVE  StoredOK' /\ AcceptOK'
<1> DEFINE R == Ready(Sent(host, i), i)
           p == session.next
           q == p + Len(R)
           s == disp[host].sent
           b == disp[host].start
<1>1. /\ SlaveGets(i, "data") /\ Turned(i, list) /\ host' = host /\ disp' = disp
      /\ session' = [session EXCEPT !.next = @ + Len(R), !.waiting = StillWaiting(Sent(host, i), i)]
  BY DEF Takes, masterVars, Progress
<1>2. session.open /\ host \in Hosts /\ HasData(host, i) /\ ~Accepts(host, i)
  BY <1>1, TakenFromSlave
<1>3. /\ TypeOK /\ NumbersOK /\ StoredOK /\ p \in Nat /\ session.reported # {}
      /\ StreamOK(disp[host]) /\ disp[host].st # "none"
  BY <1>2, DataMeans
<1>4. Len(R) \in Nat /\ q <= Len(s)
  BY <1>2, ReadyIs DEF ReadyOK
<1>5. session'.next = q /\ session'.reported = session.reported /\ q \in Nat
  BY <1>1, <1>3, <1>4 DEF TypeOK, Sessions
<1>6. /\ Len(s) \in Nat /\ b \in 0..MaxSid
      /\ \A k \in 1..Len(s) : s[k].first \in Sids /\ s[k].last \in Sids
                              /\ b < s[k].first /\ s[k].first <= s[k].last
      /\ \A j, k \in 1..Len(s) : j <= k => s[j].last <= s[k].last
  BY <1>2, <1>3, StreamOrder
<1>7. \A n \in 1..Len(list) :
        /\ Sent(host, list[n].conn) = list[n].seq /\ list[n].conn \in Conns
  <2>1. \A n \in 1..Len(list) : list[n] \in Turns
    BY <1>1 DEF Turned
  <2>2. \A n \in 1..Len(list) : Sent(host, list[n].conn) = list[n].seq
    BY <1>1 DEF Turned
  <2> QED
    BY <2>1, <2>2 DEF Turns
<1>8. \A j \in Conns :
        /\ Sent(host, j)' = Sent(host, j) /\ ~Reports(host, j)' /\ ~Accepts(host, j)'
        /\ Answers(host, j)' => Answers(host, j) \/ \E n \in 1..Len(list) : list[n].conn = j
  <2>1. ASSUME NEW g \in Hosts, NEW j \in Conns, g = host
        PROVE  /\ Sent(g, j)' = Sent(g, j) /\ ~Reports(g, j)' /\ ~Accepts(g, j)'
               /\ Answers(g, j)' => Answers(g, j) \/ \E n \in 1..Len(list) : list[n].conn = j
    BY <2>1, TakenFacts
  <2> QED
    BY <1>1, <1>2, <2>1
<1>9. AcceptOK'
  BY <1>3, <1>5, <1>8, OneIsConn DEF AcceptOK
<1> HIDE DEF R
<1> HIDE DEF s, b, q
<1> DEFINE E(n) == IF n = 0 THEN b ELSE s[n].last
<1>11. Reach = E(p) /\ Reach' = E(q)
  BY <1>1, <1>5 DEF Reach, s, b
<1>12. p <= q
  BY <1>3, <1>4 DEF q
<1>13. \A n \in 0..q : E(n) \in Int /\ E(n) <= E(q)
  <2>1. \A n \in 1..Len(s) : E(n) \in Int /\ b <= E(n)
    BY <1>6 DEF Sids
  <2>2. E(0) \in Int /\ E(0) = b
    BY <1>6
  <2> SUFFICES ASSUME NEW n \in 0..q  PROVE E(n) \in Int /\ E(n) <= E(q)
    OBVIOUS
  <2>3. CASE n = 0
    <3>1. q = 0 \/ q \in 1..Len(s)
      BY <1>4, <1>5, <1>6
    <3> QED
      BY <2>1, <2>2, <2>3, <3>1
  <2>4. CASE n # 0
    <3>1. n \in 1..Len(s) /\ q \in 1..Len(s) /\ n <= q
      BY <1>4, <1>5, <1>6, <2>4
    <3>2. E(n) = s[n].last /\ E(q) = s[q].last
      BY <3>1
    <3> QED
      BY <1>6, <2>1, <3>1, <3>2
  <2> QED
    BY <2>3, <2>4
<1> HIDE DEF E
<1>14. slog \subseteq Sids /\ slog' \subseteq Sids
  BY <1>3 DEF TypeOK
<1>15. /\ SlaveMax \in Int /\ \A x \in slog \cup {0} : x <= SlaveMax
       /\ SlaveMax' \in slog' \cup {0}
  <2>1. SlaveMax \in 0..MaxSid /\ \A x \in slog \cup {0} : x <= SlaveMax
    BY <1>14, SlaveMaxBounds DEF SlaveMax
  <2>2. Max(slog' \cup {0}) \in slog' \cup {0}
    BY <1>14, SlaveMaxBounds
  <2>3. SlaveMax' \in slog' \cup {0}
    BY <2>2 DEF SlaveMax
  <2>4. SlaveMax \in Int
    BY <2>1
  <2> QED
    BY <2>1, <2>3, <2>4
<1>16. SlaveMax <= E(q)
  <2>1. SlaveMax <= E(p)
    BY <1>3, <1>11 DEF StoredOK
  <2>2. p \in 0..q
    BY <1>3, <1>5, <1>12
  <2> QED
    BY <1>5, <1>13, <1>15, <2>1, <2>2
<1>17. ASSUME NEW x \in slog' \cup {0}  PROVE x <= E(q)
  <2>1. x \in Int /\ E(q) \in Int
    BY <1>5, <1>13, <1>14 DEF Sids
  <2>2. CASE x \in slog \cup {0}
    BY <1>15, <1>16, <2>1, <2>2
  <2>3. CASE x \notin slog \cup {0}
    <3>1. PICK m \in 1..q : x <= s[m].last
      BY <2>3 DEF s, q, R
    <3>2. x <= E(m) /\ m \in 0..q
      BY <1>5, <3>1 DEF E
    <3> QED
      BY <1>13, <2>1, <3>2
  <2> QED
    BY <2>2, <2>3
<1>18. SlaveMax' <= Reach'
  BY <1>11, <1>15, <1>17
<1>19. ASSUME NEW j \in Conns, Answers(host, j)'
       PROVE  s[Sent(host, j) + 1].first..s[Sent(host, j) + 1].last \subseteq slog'
  <2>1. CASE Answers(host, j)
    BY <1>3, <2>1 DEF StoredOK, s
  <2>2. CASE \E n \in 1..Len(list) : list[n].conn = j
    BY <1>7, <2>2 DEF s
  <2> QED
    BY <1>8, <1>19, <2>1, <2>2
<1>20. disp'[host'].sent = s /\ host' = host
  BY <1>1 DEF s
<1>21. StoredOK'
  <2>1. \A j \in Conns : Answers(host, j)' =>
          disp'[host'].sent[Sent(host, j)' + 1].first..disp'[host'].sent[Sent(host, j)' + 1].last
            \subseteq slog'
    BY <1>8, <1>19, <1>20
  <2>2. ~Reports(host, 1)'
    BY <1>8, OneIsConn
  <2> QED
    BY <1>18, <2>1, <2>2 DEF StoredOK
<1> QED
  BY <1>9, <1>21

\* The messages of a list are taken and the session goes on.
LEMMA TakenKeeps ==
  ASSUME ReplInv, TypeOK', NEW i \in Conns, NEW list, Takes(i, list),
         session' = Progress(Sent(host, i), i), slog \subseteq slog', link' = link,
         \A x \in slog' :
           \/ x \in slog
           \/ \E n \in 1..session.next + Len(Ready(Sent(host, i), i)) : x <= disp[host].sent[n].last,
         \A n \in 1..Len(list) :
           disp[host].sent[list[n].seq + 1].first..disp[host].sent[list[n].seq + 1].last
             \subseteq slog',
         OneOK'
  PROVE  ReplInv'
<1>1. StoredOK' /\ AcceptOK'
  BY TakenStored
<1>2. NumbersOK'
  BY TakenNumbers
<1>3. session.open /\ host > 0 /\ host' = host /\ session'.open = session.open
  BY TakenFromSlave DEF Takes, ReplInv, SessionOK, Progress, TypeOK, Sessions
<1>4. SessionOK'
  BY <1>1, <1>2, <1>3 DEF SessionOK
<1> QED
  BY <1>4, TakenLinks DEF ReplInv

LEMMA TurnedChunks ==
  ASSUME ReplInv, session.open, NEW i \in Conns, HasData(host, i), ~Accepts(host, i),
         NEW list, Turned(i, list), NEW n \in 1..Len(list)
  PROVE  /\ list[n].seq + 1 \in 1..session.next + Len(Ready(Sent(host, i), i))
         /\ Chunk(list[n]) = disp[host].sent[list[n].seq + 1]
         /\ Chunk(list[n]).first \in Sids /\ Chunk(list[n]).last \in Sids
<1> DEFINE m == Len(Ready(Sent(host, i), i))
           p == session.next
<1>1. host \in Hosts /\ TypeOK /\ StreamOK(disp[host]) /\ p \in Nat
  BY OpenHost, DataMeans DEF ReplInv
<1>2. m \in Nat /\ p + m <= Len(disp[host].sent)
  BY ReadyIs DEF ReadyOK
<1>3. list[n].seq \in p..p + m - 1
  BY DEF Turned
<1> HIDE DEF m
<1>4. list[n].seq + 1 \in 1..p + m
  BY <1>1, <1>2, <1>3
<1>5. /\ Len(disp[host].sent) \in Nat
      /\ \A k \in 1..Len(disp[host].sent) :
           disp[host].sent[k].first \in Sids /\ disp[host].sent[k].last \in Sids
  BY <1>1, StreamOrder
<1>6. list[n].seq + 1 \in 1..Len(disp[host].sent)
  BY <1>1, <1>2, <1>4, <1>5
<1> QED
  BY <1>4, <1>5, <1>6 DEF Chunk, m

LEMMA SidsOfIs ==
  ASSUME ReplInv, session.open, NEW i \in Conns, HasData(host, i), ~Accepts(host, i),
         NEW list, Turned(i, list)
  PROVE  /\ SidsOf(list) \subseteq Sids
         /\ \A n \in 1..Len(list) :
              disp[host].sent[list[n].seq + 1].first..disp[host].sent[list[n].seq + 1].last
                \subseteq SidsOf(list)
         /\ \A x \in SidsOf(list) :
              \E n \in 1..session.next + Len(Ready(Sent(host, i), i)) : x <= disp[host].sent[n].last
<1>1. \A n \in 1..Len(list) :
        /\ list[n].seq + 1 \in 1..session.next + Len(Ready(Sent(host, i), i))
        /\ Chunk(list[n]) = disp[host].sent[list[n].seq + 1]
        /\ Chunk(list[n]).first \in Sids /\ Chunk(list[n]).last \in Sids
  BY TurnedChunks
<1>2. \A x : x \in SidsOf(list) <=>
        \E n \in 1..Len(list) : x \in Chunk(list[n]).first..Chunk(list[n]).last
  BY DEF SidsOf
<1>3. ASSUME NEW x \in SidsOf(list)
      PROVE  /\ x \in Sids
             /\ \E n \in 1..session.next + Len(Ready(Sent(host, i), i)) :
                  x <= disp[host].sent[n].last
  <2>1. PICK n \in 1..Len(list) : x \in Chunk(list[n]).first..Chunk(list[n]).last
    BY <1>2
  <2>2. Chunk(list[n]).first \in Sids /\ Chunk(list[n]).last \in Sids
    BY <1>1
  <2>3. x \in Sids /\ x <= Chunk(list[n]).last
    BY <2>1, <2>2, BoundsAssumption DEF Sids
  <2> QED
    BY <1>1, <2>3
<1> QED
  BY <1>1, <1>2, <1>3

LEMMA TakenType ==
  ASSUME ReplInv, NEW i \in Conns, NEW list, Takes(i, list), slog' \subseteq Sids,
         session' \in Sessions, link' \in [Hosts -> [Conns -> Links]], faults' = faults
  PROVE  TypeOK'
<1>1. TakesOn(i, list) /\ TypeOK
  BY TakesEffect DEF ReplInv
<1> QED
  BY <1>1 DEF TakesOn, TypeOK, ToMasterType, ToSlaveType

LEMMA ProgressType ==
  ASSUME ReplInv, NEW i \in Conns, SlaveGets(i, "data")
  PROVE  Progress(Sent(host, i), i) \in Sessions
<1> DEFINE k == Sent(host, i)
           R == Ready(k, i)
           W == StillWaiting(k, i)
<1>1. /\ session.open /\ host \in Hosts /\ HasData(host, i)
      /\ Head(toSlave[host][i]).val = k /\ toSlave[host][i] # <<>>
  BY TakenFromSlave DEF ToS
<1>2. session \in Sessions /\ toSlave \in ToSlaveType
  BY DEF ReplInv, TypeOK, ToSlaveType
<1>3. k \in 0..MaxSid
  <2> DEFINE D == Messages({"accept", "data", "err"}, 0..MaxSid)
  <2>1. toSlave[host][i] \in Seq(D)
    BY <1>1, <1>2 DEF ToSlaveType
  <2> HIDE DEF D
  <2>2. Head(toSlave[host][i]) \in D
    BY <1>1, <2>1
  <2>3. Head(toSlave[host][i]).val \in 0..MaxSid
    BY <2>2 DEF D, Messages
  <2> QED
    BY <1>1, <2>3
<1>4. Len(R) \in Nat
  BY <1>1, ReadyIs DEF ReadyOK
<1>5. W \subseteq Turns
  <2>1. W \subseteq session.waiting \cup {[seq |-> k, conn |-> i]}
    BY DEF StillWaiting
  <2>2. [seq |-> k, conn |-> i] \in Turns
    BY <1>3 DEF Turns
  <2>3. session.waiting \subseteq Turns
    BY <1>2 DEF Sessions, Turns
  <2> HIDE DEF W, k
  <2> QED
    BY <2>1, <2>2, <2>3
<1> HIDE DEF R, W
<1>6. \A n \in Nat : \A S \in SUBSET Turns :
        [session EXCEPT !.next = session.next + n, !.waiting = S] \in Sessions
  <2>1. ASSUME NEW n \in Nat, NEW S \in SUBSET Turns
        PROVE  [session EXCEPT !.next = session.next + n, !.waiting = S] \in Sessions
    <3>1. session.next + n \in Nat
      BY <1>2 DEF Sessions
    <3> QED
      BY <1>2, <3>1 DEF Sessions, Turns
  <2> QED
    BY <2>1
<1>7. Progress(k, i) = [session EXCEPT !.next = session.next + Len(R), !.waiting = W]
  BY <1>2 DEF Progress, R, W, Sessions
<1> QED
  BY <1>4, <1>5, <1>6, <1>7

\* With a single connection it is always the turn of what comes in.
LEMMA OnlyTurn ==
  ASSUME ReplInv, NConn = 1, NEW i \in Conns, SlaveGets(i, "data")
  PROVE  LET R == Ready(Sent(host, i), i)
             c == disp[host].sent[session.next + 1]
         IN  /\ i = 1 /\ Len(R) = 1 /\ Processed(R) = R /\ R[1].seq = session.next
             /\ Sent(host, 1) = session.next /\ session.next \in Nat
             /\ c.first = Reach + 1 /\ c.first \in Sids /\ c.last \in Sids /\ c.first <= c.last
             /\ slog = 1..Reach /\ Reach \in 0..MaxSid
             /\ ToM(host, 1) = <<>> /\ ~Redo(host, 1)
<1> DEFINE R == Ready(Sent(host, i), i)
           s == disp[host].sent
           p == session.next
<1>1. i = 1 /\ Conns = {1}
  BY DEF Conns
<1>2. session.open /\ host \in Hosts /\ HasData(host, i) /\ ~Accepts(host, i) /\ ToM(host, i) = <<>>
  BY TakenFromSlave
<1>3. /\ TypeOK /\ NumbersOK /\ StreamOK(disp[host]) /\ p \in Nat /\ disp[host].st # "none"
      /\ LinkOK(host, 1) /\ Sent(host, 1) \in Int /\ Sent(host, 1) >= p /\ ~Waits(1)
  BY <1>1, <1>2, DataMeans
<1>4. /\ Len(s) \in Nat /\ disp[host].start \in 0..MaxSid
      /\ \A k \in 1..Len(s) : s[k].first \in Sids /\ s[k].last \in Sids
                              /\ disp[host].start < s[k].first /\ s[k].first <= s[k].last
  BY <1>2, <1>3, StreamOrder
<1>5. Sent(host, 1) = p
  <2>1. p \in p..Len(s) - 1
    BY <1>3, <1>4 DEF LinkOK
  <2> QED
    BY <1>1, <1>3, <2>1 DEF NumbersOK
<1>6. ReadyOK(i, R)
  BY <1>2, ReadyIs
<1>7. /\ R \in Seq(Turns) /\ R # <<>> /\ Len(R) \in Nat
      /\ \A n \in 1..Len(R) : R[n].seq = p + n - 1 /\ Sent(host, R[n].conn) = R[n].seq
  <2>1. /\ R \in Seq(Turns) /\ R # <<>>
        /\ \A n \in 1..Len(R) : R[n].seq = p + n - 1 /\ Sent(host, R[n].conn) = R[n].seq
    BY <1>1, <1>5, <1>6 DEF ReadyOK
  <2> HIDE DEF R
  <2> QED
    BY <2>1
<1> HIDE DEF R
<1>8. \A n \in 1..Len(R) : R[n].seq = p /\ n = 1
  <2>1. ASSUME NEW n \in 1..Len(R)  PROVE R[n].conn = 1
    <3>1. R[n] \in Turns
      BY <1>7
    <3> QED
      BY <1>1, <3>1 DEF Turns
  <2> QED
    BY <1>3, <1>5, <1>7, <2>1
<1>9. Len(R) = 1
  <2>1. Len(R) # 0
    BY <1>7
  <2>2. 1 \in 1..Len(R) /\ Len(R) \in 1..Len(R)
    BY <1>7, <2>1
  <2> QED
    BY <1>8, <2>2
<1>10. Processed(R) = R /\ R[1].seq = p
  BY <1>8, <1>9 DEF Processed
<1>11. p + 1 \in 1..Len(s)
  BY <1>3, <1>4, <1>5 DEF LinkOK
<1>12. /\ s[p + 1].first = Reach + 1 /\ s[p + 1].first \in Sids /\ s[p + 1].last \in Sids
       /\ s[p + 1].first <= s[p + 1].last /\ Reach \in 0..MaxSid
  <2>1. s[p + 1].first = (IF p + 1 = 1 THEN disp[host].start ELSE s[(p + 1) - 1].last) + 1
    BY <1>3, <1>11 DEF StreamOK
  <2>2. p # 0 => p \in 1..Len(s)
    BY <1>3, <1>4, <1>11
  <2>3. Reach \in 0..MaxSid
    BY <1>4, <2>2 DEF Reach, Sids
  <2>4. s[p + 1].first = Reach + 1
    BY <1>3, <2>1 DEF Reach
  <2> QED
    BY <1>4, <1>11, <2>3, <2>4
<1>13. slog = 1..Reach
  <2>1. ~Stalled
    BY <1>3, <1>5 DEF Stalled
  <2> QED
    BY <1>2, <1>3, <2>1 DEF ReplInv, OneOK
<1>14. ~Redo(host, 1)
  BY <1>1, <1>2, <1>3 DEF LinkOK
<1> QED
  BY <1>1, <1>2, <1>3, <1>5, <1>9, <1>10, <1>12, <1>13, <1>14 DEF R

\* The binlog after the sids up to last were appended to it.
LEMMA OnlyStored ==
  ASSUME NEW a \in 0..MaxSid, NEW b \in Sids, NEW last \in a..b,
         slog = 1..a, slog' = slog \cup (a + 1)..last
  PROVE  slog' = 1..last /\ SlaveMax' = last
<1>1. last \in 0..MaxSid /\ a \in Int /\ last \in Int /\ a <= last
  BY BoundsAssumption DEF Sids
<1>2. slog' = 1..last
  BY <1>1
<1> QED
  BY <1>1, <1>2, MaxOfFirst DEF SlaveMax

LEMMA RecvDataOne ==
  ASSUME ReplInv, NEW i \in Conns, RecvData(i)
  PROVE  OneOK'
<1> SUFFICES ASSUME NConn = 1
             PROVE  slog' = 1..SlaveMax' /\ SlaveMax' = Reach'
  BY DEF OneOK
<1> DEFINE R == Ready(Sent(host, i), i)
           c == disp[host].sent[session.next + 1]
<1>1. SlaveGets(i, "data") /\ host' = host /\ disp' = disp
  BY DEF RecvData, masterVars
<1>2. /\ Len(R) = 1 /\ Processed(R) = R /\ R[1].seq = session.next /\ session.next \in Nat
      /\ c.first = Reach + 1 /\ c.first \in Sids /\ c.last \in Sids /\ c.first <= c.last
      /\ slog = 1..Reach /\ Reach \in 0..MaxSid
  BY <1>1, OnlyTurn
<1>3. Head(toSlave[host][i]).val = Sent(host, i)
  BY <1>1, TakenFromSlave
<1>4. slog' = slog \cup SidsOf(R) /\ session' = Progress(Sent(host, i), i)
  BY <1>2, <1>3 DEF RecvData
<1>5. Chunk(R[1]) = c
  BY <1>2 DEF Chunk
<1>6. session'.next = session.next + 1
  BY <1>2, <1>4 DEF Progress, ReplInv, TypeOK, Sessions
<1> HIDE DEF R
<1>7. SidsOf(R) = c.first..c.last
  <2>1. {Chunk(R[n]).first..Chunk(R[n]).last : n \in 1..Len(R)} = {c.first..c.last}
    BY <1>2, <1>5
  <2> QED
    BY <2>1 DEF SidsOf
<1>8. slog' = 1..c.last /\ SlaveMax' = c.last
  <2>1. c.last \in Reach..c.last
    BY <1>2 DEF Sids
  <2> HIDE DEF c
  <2>2. slog' = slog \cup (Reach + 1)..c.last
    BY <1>2, <1>4, <1>7
  <2> QED
    BY <1>2, <2>1, <2>2, OnlyStored
<1>9. Reach' = c.last
  BY <1>1, <1>2, <1>6 DEF Reach
<1> QED
  BY <1>8, <1>9

LEMMA RecvDataFailsOne ==
  ASSUME ReplInv, TypeOK', NEW i \in Conns, RecvDataFails(i)
  PROVE  OneOK'
<1> SUFFICES ASSUME NConn = 1
             PROVE  slog' = 1..SlaveMax' /\ (session'.open => Stalled')
  BY DEF OneOK
<1> DEFINE R == Ready(Sent(host, i), i)
           c == disp[host].sent[session.next + 1]
           t == SubSeq(R, 1, 0)
<1>1. /\ SlaveGets(i, "data") /\ host' = host /\ UNCHANGED <<masterVars, host>>
      /\ lastSeq' = lastSeq /\ redo' = redo
  BY DEF RecvDataFails, masterVars
<1>2. /\ i = 1 /\ Len(R) = 1 /\ Processed(R) = R /\ R[1].seq = session.next
      /\ session.next \in Nat /\ Sent(host, 1) = session.next
      /\ c.first = Reach + 1 /\ c.first \in Sids /\ c.last \in Sids /\ c.first <= c.last
      /\ slog = 1..Reach /\ Reach \in 0..MaxSid
      /\ ToM(host, 1) = <<>> /\ ~Redo(host, 1)
  BY <1>1, OnlyTurn
<1>3. /\ Head(toSlave[host][i]).val = Sent(host, i) /\ host \in Hosts
      /\ session.open /\ HasData(host, i)
  BY <1>1, TakenFromSlave
<1>4. Chunk(R[1]) = c
  BY <1>2 DEF Chunk
<1>5. \E n \in 1..Len(R) : \E last \in Chunk(R[n]).first - 1..Chunk(R[n]).last :
        /\ slog' = slog \cup SidsOf(SubSeq(R, 1, n - 1)) \cup Chunk(R[n]).first..last
        /\ toMaster' = [toMaster EXCEPT ![host] = Acknowledge(R, n - 1)]
        /\ session' = Progress(Sent(host, i), i) \/ session' = NoSession
  <2> DEFINE FailsIn(list) ==
               \E n \in 1..Len(list) : \E last \in Chunk(list[n]).first - 1..Chunk(list[n]).last :
                 /\ slog' = slog \cup SidsOf(SubSeq(list, 1, n - 1)) \cup Chunk(list[n]).first..last
                 /\ toMaster' = [toMaster EXCEPT ![host] = Acknowledge(list, n - 1)]
                 /\ session' = Progress(Sent(host, i), i) \/ session' = NoSession
  <2>1. FailsIn(Processed(R))
    BY <1>3 DEF RecvDataFails, CloseSession
  <2>2. Processed(R) = R
    BY <1>2
  <2> HIDE DEF R
  <2>3. FailsIn(R)
    <3> HIDE DEF FailsIn
    <3> QED
      BY <2>1, <2>2
  <2> QED
    BY <2>3
<1>6. PICK last \in c.first - 1..c.last :
        /\ slog' = slog \cup SidsOf(t) \cup c.first..last
        /\ toMaster' = [toMaster EXCEPT ![host] = Acknowledge(R, 0)]
        /\ session' = Progress(Sent(host, i), i) \/ session' = NoSession
  <2> HIDE DEF R, c
  <2>1. \A n \in 1..Len(R) : n = 1 /\ n - 1 = 0
    BY <1>2
  <2> QED
    BY <1>4, <1>5, <2>1
<1>7. Turned(i, R)
  BY <1>2, <1>3, TurnedIs
<1>8. Turned(i, t) /\ Len(t) = 0
  <2> HIDE DEF R
  <2>1. 0 \in 0..Len(R)
    BY <1>2
  <2> QED
    BY <1>7, <2>1, TurnedPart
<1>9. toMaster' = [toMaster EXCEPT ![host] = [j \in Conns |-> toMaster[host][j] \o Replies(t, j)]]
  BY <1>6 DEF Acknowledge
<1>10. session'.open => session'.next = session.next + 1
  <2>1. session \in Sessions
    BY DEF ReplInv, TypeOK
  <2>2. Progress(Sent(host, i), i).next = session.next + 1
    BY <1>2, <2>1 DEF Progress, Sessions
  <2>3. ~NoSession.open
    BY DEF NoSession
  <2> QED
    BY <1>6, <2>2, <2>3
<1> HIDE DEF R, t
<1>11. TakesOn(i, t)
  BY <1>1, <1>8, <1>9, TakesEffect DEF Takes
<1>12. toMaster'[host][1] = <<>>
  BY <1>2, <1>8, <1>11 DEF TakesOn, ToM
<1>13. SidsOf(t) = {}
  BY <1>8 DEF SidsOf
<1>14. slog' = 1..last /\ SlaveMax' = last
  <2>1. last \in Reach..c.last
    BY <1>2, <1>6
  <2> HIDE DEF c
  <2>2. slog' = slog \cup (Reach + 1)..last
    BY <1>2, <1>6, <1>13
  <2> QED
    BY <1>2, <2>1, <2>2, OnlyStored
<1>15. ~AtMaster(host, 1)' /\ Sent(host, 1)' = Sent(host, 1)
  <2>1. AllApart'
    BY KindsApart, PTL
  <2>2. ASSUME NEW g \in Hosts, NEW j \in Conns, g = host, j = 1
        PROVE  ~AtMaster(g, j)' /\ Sent(g, j)' = Sent(g, j)
    <3>1. ToM(g, j)' = <<>> /\ ~Redo(g, j)' /\ Sent(g, j)' = Sent(g, j)
      BY <1>1, <1>2, <1>12, <2>2 DEF ToM, Redo, Sent
    <3>2. Apart(g, j)'
      BY <2>1 DEF AllApart
    <3> QED
      BY <3>1, <3>2 DEF AtMaster, Apart
  <2> QED
    BY <1>1, <1>3, <2>2, OneIsConn
<1>16. session'.open => Stalled'
  BY <1>1, <1>2, <1>10, <1>15 DEF Stalled
<1> QED
  BY <1>14, <1>16

LEMMA RecvDataKeeps ==
  ASSUME ReplInv, NEW i \in Conns, RecvData(i)
  PROVE  ReplInv'
<1> DEFINE k == Head(toSlave[host][i]).val
           R == Ready(Sent(host, i), i)
           list == Processed(R)
           t == SubSeq(list, 1, Len(list))
<1>1. SlaveGets(i, "data") /\ UNCHANGED <<masterVars, host, link, faults>>
  BY DEF RecvData
<1>2. session.open /\ host \in Hosts /\ HasData(host, i) /\ ~Accepts(host, i) /\ k = Sent(host, i)
  BY <1>1, TakenFromSlave
<1>3. /\ slog' = slog \cup SidsOf(list) /\ session' = Progress(Sent(host, i), i)
      /\ toMaster' = [toMaster EXCEPT ![host] = Acknowledge(list, Len(list))]
  BY <1>2 DEF RecvData
<1>4. Turned(i, list)
  BY <1>2, TurnedIs
<1>5. Len(list) \in Nat
  BY <1>4 DEF Turned
<1> HIDE DEF list
<1>6. Turned(i, t) /\ Len(t) = Len(list) /\ \A n \in 1..Len(list) : t[n] = list[n]
  BY <1>4, <1>5, TurnedPart
<1>7. toMaster' = [toMaster EXCEPT ![host] = [j \in Conns |-> toMaster[host][j] \o Replies(t, j)]]
  BY <1>3 DEF Acknowledge
<1> HIDE DEF t
<1>8. Takes(i, t)
  BY <1>1, <1>6, <1>7 DEF Takes
<1>9. /\ SidsOf(list) \subseteq Sids
      /\ \A n \in 1..Len(list) :
           disp[host].sent[list[n].seq + 1].first..disp[host].sent[list[n].seq + 1].last
             \subseteq SidsOf(list)
      /\ \A x \in SidsOf(list) : \E n \in 1..session.next + Len(Ready(Sent(host, i), i)) :
           x <= disp[host].sent[n].last
  BY <1>2, <1>4, SidsOfIs
<1>10. slog \subseteq Sids /\ link' = link /\ link \in [Hosts -> [Conns -> Links]]
  BY <1>1 DEF ReplInv, TypeOK
<1>11. TypeOK'
  <2>1. slog' \subseteq Sids
    BY <1>3, <1>9, <1>10
  <2>2. session' \in Sessions
    BY <1>1, <1>3, ProgressType
  <2> QED
    BY <1>1, <1>8, <1>10, <2>1, <2>2, TakenType
<1>12. \A x \in slog' :
         \/ x \in slog
         \/ \E n \in 1..session.next + Len(Ready(Sent(host, i), i)) : x <= disp[host].sent[n].last
  BY <1>3, <1>9
<1>13. \A n \in 1..Len(t) :
         disp[host].sent[t[n].seq + 1].first..disp[host].sent[t[n].seq + 1].last \subseteq slog'
  BY <1>3, <1>6, <1>9
<1>14. OneOK'
  BY <1>11, RecvDataOne
<1> QED
  BY <1>3, <1>8, <1>10, <1>11, <1>12, <1>13, <1>14, TakenKeeps

LEMMA RecvDataFailsKeeps ==
  ASSUME ReplInv, NEW i \in Conns, RecvDataFails(i)
  PROVE  ReplInv'
<1> DEFINE k == Head(toSlave[host][i]).val
           R == Ready(Sent(host, i), i)
           list == Processed(R)
<1>1. SlaveGets(i, "data") /\ UNCHANGED <<masterVars, host, faults>>
  BY DEF RecvDataFails
<1>2. session.open /\ host \in Hosts /\ HasData(host, i) /\ ~Accepts(host, i) /\ k = Sent(host, i)
  BY <1>1, TakenFromSlave
<1>3. \E n \in 1..Len(list) : \E last \in Chunk(list[n]).first - 1..Chunk(list[n]).last :
        /\ slog' = slog \cup SidsOf(SubSeq(list, 1, n - 1)) \cup Chunk(list[n]).first..last
        /\ toMaster' = [toMaster EXCEPT ![host] = Acknowledge(list, n - 1)]
        /\ \/ session' = Progress(Sent(host, i), i) /\ UNCHANGED link
           \/ CloseSession
  BY <1>2 DEF RecvDataFails
<1>4. Turned(i, list)
  BY <1>2, TurnedIs
<1>5. Len(list) \in Nat
  BY <1>4 DEF Turned
<1> HIDE DEF list
<1>6. PICK n \in 1..Len(list) : \E last \in Chunk(list[n]).first - 1..Chunk(list[n]).last :
        /\ slog' = slog \cup SidsOf(SubSeq(list, 1, n - 1)) \cup Chunk(list[n]).first..last
        /\ toMaster' = [toMaster EXCEPT ![host] = Acknowledge(list, n - 1)]
        /\ \/ session' = Progress(Sent(host, i), i) /\ UNCHANGED link
           \/ CloseSession
  BY <1>3
<1> DEFINE c == Chunk(list[n])
           t == SubSeq(list, 1, n - 1)
<1>7. PICK last \in c.first - 1..c.last :
        /\ slog' = slog \cup SidsOf(t) \cup c.first..last
        /\ toMaster' = [toMaster EXCEPT ![host] = Acknowledge(list, n - 1)]
        /\ \/ session' = Progress(Sent(host, i), i) /\ UNCHANGED link
           \/ CloseSession
  BY <1>6
<1>8. Turned(i, t)
  BY <1>4, <1>5, TurnedPart
<1>9. toMaster' = [toMaster EXCEPT ![host] = [j \in Conns |-> toMaster[host][j] \o Replies(t, j)]]
  BY <1>7 DEF Acknowledge
<1>10. /\ list[n].seq + 1 \in 1..session.next + Len(Ready(Sent(host, i), i))
       /\ c = disp[host].sent[list[n].seq + 1] /\ c.first \in Sids /\ c.last \in Sids
  BY <1>2, <1>4, TurnedChunks
<1> HIDE DEF t, c
<1>11. Takes(i, t)
  BY <1>1, <1>8, <1>9 DEF Takes
<1>12. /\ SidsOf(t) \subseteq Sids
       /\ \A m \in 1..Len(t) :
            disp[host].sent[t[m].seq + 1].first..disp[host].sent[t[m].seq + 1].last
              \subseteq SidsOf(t)
       /\ \A x \in SidsOf(t) : \E m \in 1..session.next + Len(Ready(Sent(host, i), i)) :
            x <= disp[host].sent[m].last
  BY <1>2, <1>8, SidsOfIs
<1>13. \A x \in c.first..last : x \in Sids /\ x <= c.last
  <2> DEFINE a == c.first
             b == c.last
  <2>1. a \in 1..MaxSid /\ b \in 1..MaxSid /\ last \in a - 1..b /\ MaxSid \in Nat
    BY <1>10, BoundsAssumption DEF Sids
  <2> HIDE DEF a, b
  <2>2. \A x \in a..last : x \in 1..MaxSid /\ x <= b
    BY <2>1
  <2> QED
    BY <2>2 DEF a, b, Sids
<1>14. slog' \subseteq Sids
  <2>1. slog \subseteq Sids
    BY DEF ReplInv, TypeOK
  <2> QED
    BY <1>7, <1>12, <1>13, <2>1
<1>17. TypeOK' => OneOK'
  BY RecvDataFailsOne
<1>15. CASE session' = Progress(Sent(host, i), i) /\ UNCHANGED link
  <2>1. link \in [Hosts -> [Conns -> Links]]
    BY DEF ReplInv, TypeOK
  <2>2. TypeOK'
    BY <1>1, <1>11, <1>14, <1>15, <2>1, ProgressType, TakenType
  <2>3. \A x \in slog' :
          \/ x \in slog
          \/ \E m \in 1..session.next + Len(Ready(Sent(host, i), i)) : x <= disp[host].sent[m].last
    BY <1>7, <1>10, <1>12, <1>13
  <2>4. \A m \in 1..Len(t) :
          disp[host].sent[t[m].seq + 1].first..disp[host].sent[t[m].seq + 1].last \subseteq slog'
    BY <1>7, <1>12
  <2>5. slog \subseteq slog'
    BY <1>7
  <2> QED
    BY <1>11, <1>15, <1>17, <2>2, <2>3, <2>4, <2>5, TakenKeeps
<1>16. CASE CloseSession
  <2>1. session' = NoSession /\ link' \in [Hosts -> [Conns -> Links]]
    BY <1>16, ClosedIs
  <2>2. TypeOK'
    BY <1>1, <1>11, <1>14, <2>1, NoSessionIs, TakenType
  <2>3. SessionOK'
    BY <2>1 DEF SessionOK, NoSession
  <2> QED
    BY <1>11, <1>17, <2>2, <2>3, TakenLinks DEF ReplInv
<1> QED
  BY <1>7, <1>15, <1>16

(***************************************************************************)
(* The invariant holds.                                                    *)
(***************************************************************************)
LEMMA InitInv == Init => ReplInv
<1> SUFFICES ASSUME Init  PROVE ReplInv
  OBVIOUS
<1>1. /\ NoDisp \in Disps /\ NoDisp.sent = <<>> /\ NoDisp.start = 0 /\ ~NoDisp.placed
      /\ NoDisp.st = "none"
  BY BoundsAssumption DEF NoDisp, Disps
<1>2. NoLink \in Links /\ NoSession \in Sessions /\ ~NoSession.open
  BY DEF NoLink, Links, NoSession, Sessions
<1>3. \A h \in Hosts, i \in Conns :
        /\ disp[h] = NoDisp /\ lastSeq[h][i] = None /\ <<h, i>> \notin redo
        /\ toMaster[h][i] = <<>> /\ toSlave[h][i] = <<>>
  BY DEF Init
<1>4. TypeOK
  <2>1. <<>> \in Seq(Messages({"report", "newconn", "reply"}, 0..MaxSid))
    OBVIOUS
  <2>2. <<>> \in Seq(Messages({"accept", "data", "err"}, 0..MaxSid))
    OBVIOUS
  <2>3. /\ disp \in [Hosts -> Disps] /\ lastSeq \in [Hosts -> [Conns -> Nat \cup {None}]]
        /\ link \in [Hosts -> [Conns -> Links]] /\ session \in Sessions
    BY <1>1, <1>2 DEF Init
  <2>4. /\ top \in 0..MaxSid /\ redo \subseteq Hosts \X Conns /\ slog \subseteq Sids
        /\ host \in 0..MaxSession /\ faults \in 0..MaxFault
    BY BoundsAssumption DEF Init
  <2>5. toMaster \in [Hosts -> [Conns -> Seq(Messages({"report", "newconn", "reply"}, 0..MaxSid))]]
    BY <2>1 DEF Init
  <2>6. toSlave \in [Hosts -> [Conns -> Seq(Messages({"accept", "data", "err"}, 0..MaxSid))]]
    BY <2>2 DEF Init
  <2> QED
    BY <2>3, <2>4, <2>5, <2>6 DEF TypeOK
<1>5. ASSUME NEW h \in Hosts  PROVE StreamOK(disp[h])
  <2>1. disp[h] = NoDisp
    BY <1>3, OneIsConn
  <2>2. /\ disp[h].sent = <<>> /\ disp[h].start = 0 /\ ~disp[h].placed
        /\ Len(disp[h].sent) = 0
    BY <1>1, <2>1
  <2>3. EndOf(disp[h]) = 0
    BY <2>2 DEF EndOf
  <2> QED
    BY <2>1, <2>2, <2>3, BoundsAssumption DEF StreamOK
<1>7. \A h \in Hosts, i \in Conns : Apart(h, i)
  BY <1>4, KindsApart DEF AllApart
<1>8. \A h \in Hosts, i \in Conns :
        /\ Unused(h, i) /\ ~Reports(h, i) /\ ~Joins(h, i) /\ ~Answers(h, i)
        /\ ~Accepts(h, i) /\ ~HasData(h, i) /\ ~Refused(h, i)
  BY <1>3, <1>7 DEF Apart, Unused, ToM, ToS, Sent, Redo
<1>9. ASSUME NEW h \in Hosts, NEW i \in Conns  PROVE LinkOK(h, i)
  <2>2. disp[h].sent = <<>> /\ lastSeq[h][i] = None
    BY <1>1, <1>3
  <2>3. Len(disp[h].sent) = 0
    BY <2>2
  <2>1. Sent(h, i) < Len(disp[h].sent)
    BY <2>2, <2>3 DEF Sent, None
  <2> QED
    BY <1>8, <2>1 DEF LinkOK, Unused
<1>10. \A h \in Hosts : LedgerOK(h)
  BY <1>3 DEF LedgerOK, Sent
<1>11. \A h \in Hosts : BeginOK(h)
  BY <1>3, <1>8, OneIsConn DEF BeginOK
<1>12. SessionOK
  BY <1>2 DEF SessionOK, Init
<1>13. OneOK
  <2>1. 0 \in 0..MaxSid /\ 1..0 = {}
    BY BoundsAssumption
  <2>2. Max({0}) = 0
    BY <2>1, MaxOfFirst
  <2>3. SlaveMax = 0 /\ slog = {} /\ ~session.open
    BY <1>2, <2>2 DEF SlaveMax, Init
  <2> QED
    BY <2>1, <2>3 DEF OneOK
<1> QED
  BY <1>4, <1>5, <1>9, <1>10, <1>11, <1>12, <1>13 DEF ReplInv

LEMMA StutterKeeps ==
  ASSUME ReplInv, UNCHANGED vars
  PROVE  ReplInv'
<1>1. /\ TypeOK /\ disp' = disp /\ lastSeq' = lastSeq /\ redo' = redo /\ link' = link
      /\ toMaster' = toMaster /\ toSlave' = toSlave /\ UNCHANGED slaveVars
      /\ top' = top /\ faults' = faults
  BY DEF ReplInv, vars, masterVars, netVars
<1>2. TypeOK'
  BY <1>1 DEF TypeOK, slaveVars
<1>3. \A h \in Hosts : SameStream(h)
  BY <1>1 DEF SameStream
<1>4. \A h \in Hosts, i \in Conns : Quiet(h, i) /\ link'[h][i].s = link[h][i].s
  BY <1>1 DEF Quiet, ToM, ToS, Sent, Redo
<1> QED
  BY <1>1, <1>2, <1>3, <1>4, QuietStep

LEMMA ReplStep == ReplInv /\ [Next]_vars => ReplInv'
<1> SUFFICES ASSUME ReplInv, [Next]_vars  PROVE ReplInv'
  OBVIOUS
<1>1. CASE Publish
  BY <1>1, PublishKeeps
<1>2. CASE MasterStep
  <2>1. ASSUME NEW h \in Hosts, NEW i \in Conns,
               \/ RecvReport(h, i) \/ RecvNewConnection(h, i) \/ RefuseNewConnection(h, i)
               \/ RecvReply(h, i) \/ OnRedo(h, i) \/ MasterConnClosed(h, i)
        PROVE  ReplInv'
    BY <2>1, RecvReportKeeps, RecvNewConnectionKeeps, RefuseNewConnectionKeeps,
       RecvReplyKeeps, OnRedoKeeps, MasterConnClosedKeeps
  <2>2. ASSUME NEW h \in Hosts, DealClosedSession(h)  PROVE ReplInv'
    BY <2>2, DealClosedSessionKeeps
  <2> QED
    BY <1>2, <2>1, <2>2 DEF MasterStep
<1>3. CASE SlaveStep
  <2>1. CASE CreateSession
    BY <2>1, CreateSessionKeeps
  <2>2. ASSUME NEW i \in Conns,
               \/ RecvReportReply(i) \/ RecvReportReplyFails(i)
               \/ RecvData(i) \/ RecvErr(i)
        PROVE  ReplInv'
    BY <2>2, RecvReportReplyKeeps, RecvReportReplyFailsKeeps, RecvDataKeeps, RecvErrKeeps
  <2>3. ASSUME NEW h \in Hosts, NEW i \in Conns, SlaveConnClosed(h, i)  PROVE ReplInv'
    BY <2>3, SlaveConnClosedKeeps
  <2> QED
    BY <1>3, <2>1, <2>2, <2>3 DEF SlaveStep
<1>4. CASE Fault
  <2>1. ASSUME NEW h \in Hosts, NEW i \in Conns, Break(h, i)  PROVE ReplInv'
    BY <2>1, BreakKeeps
  <2>2. ASSUME NEW i \in Conns, RecvDataFails(i)  PROVE ReplInv'
    BY <2>2, RecvDataFailsKeeps
  <2>3. CASE SlaveRestarts
    BY <2>3, SlaveRestartsKeeps
  <2> QED
    BY <1>4, <2>1, <2>2, <2>3 DEF Fault
<1>5. CASE UNCHANGED vars
  BY <1>5, StutterKeeps
<1> QED
  BY <1>1, <1>2, <1>3, <1>4, <1>5 DEF Next

\* The invariant that carries the theorems below: it holds after every event of
\* master and slave, whatever breaks between them (CwxMqDispHandler.cpp,
\* CwxMqMasterHandler.cpp).
THEOREM ReplInvHolds == Spec => []ReplInv
BY InitInv, ReplStep, PTL DEF Spec

(***************************************************************************)
(* The theorems.                                                           *)
(***************************************************************************)
\* Every state has its type: whatever connections break, no number sent, no
\* message on its way and no entry of a session leaves its range
\* (CwxMqDispHandler.cpp, CwxMqMasterHandler.cpp).
THEOREM TypesHold == Spec => []TypeOK
<1>1. ReplInv => TypeOK
  BY DEF ReplInv
<1> QED
  BY <1>1, ReplInvHolds, PTL

\* What syncSendBinLog numbers on all the connections of a session is the
\* master's log from the reported sid on, without a gap or a repetition.
THEOREM StreamsContiguous == Spec => []StreamContiguous
<1>1. ReplInv => StreamContiguous
  BY DEF ReplInv, StreamOK, StreamContiguous
<1> QED
  BY <1>1, ReplInvHolds, PTL

\* What is on its way to the master on a connection is one message: an
\* acknowledgement is of the number sent last.
LEMMA OnlyAnswers ==
  ASSUME ReplInv, NEW h \in Hosts, NEW i \in Conns, NEW n \in 1..Len(toMaster[h][i]),
         toMaster[h][i][n].type = "reply"
  PROVE  n = Len(toMaster[h][i]) /\ Answers(h, i) /\ toMaster[h][i][n].val = Sent(h, i)
<1> DEFINE m == ToM(h, i)
<1>1. TypeOK /\ LinkOK(h, i) /\ m = toMaster[h][i]
  BY DEF ReplInv, ToM
<1>2. m \in Seq(Messages({"report", "newconn", "reply"}, 0..MaxSid))
  BY <1>1 DEF TypeOK
<1>3. m # <<>>
  BY <1>1, <1>2
<1>4. /\ Tail(m) = <<>> /\ (Head(m).type = "reply" => Answers(h, i))
  BY <1>1, <1>3, FromMaster
<1>5. Len(m) = 1 /\ Head(m) = m[1]
  <2> DEFINE D == Messages({"report", "newconn", "reply"}, 0..MaxSid)
  <2> HIDE DEF D, m
  <2>1. m \in Seq(D)
    BY <1>2 DEF D
  <2>2. Len(Tail(m)) = Len(m) - 1 /\ Len(m) \in Nat
    BY <1>3, <2>1
  <2>5. Tail(m) = <<>>
    BY <1>4
  <2>6. \A q : q = <<>> => Len(q) = 0
    OBVIOUS
  <2>3. Len(Tail(m)) = 0
    BY <2>5, <2>6
  <2>4. Head(m) = m[1]
    BY <1>3, <2>1
  <2> QED
    BY <2>2, <2>3, <2>4
<1>6. n = 1 /\ n = Len(m)
  BY <1>1, <1>5
<1>7. Answers(h, i)
  BY <1>1, <1>4, <1>5, <1>6
<1>8. m[1] = Reply(Sent(h, i))
  BY <1>7 DEF Answers
<1> QED
  BY <1>1, <1>6, <1>7, <1>8 DEF Reply

\* recvReply never meets a number it does not expect: the acknowledgement on
\* its way is of what was sent last on the connection, and nothing follows it.
THEOREM AllRepliesMatch == Spec => []RepliesMatch
<1>1. ReplInv => RepliesMatch
  BY OnlyAnswers DEF RepliesMatch, Sent
<1> QED
  BY <1>1, ReplInvHolds, PTL

\* What the slave acknowledges in dealSyncData and dealSyncChunkData is in its
\* binlog as long as the session lasts.
THEOREM AllAckedIsStored == Spec => []AckedIsStored
<1>1. ReplInv => AckedIsStored
  <2> SUFFICES ASSUME ReplInv, session.open, NEW i \in Conns,
                      NEW n \in 1..Len(toMaster[host][i]), toMaster[host][i][n].type = "reply"
               PROVE  LET chunk == disp[host].sent[toMaster[host][i][n].val + 1]
                      IN  chunk.first..chunk.last \subseteq slog
    BY DEF AckedIsStored
  <2>1. host \in Hosts /\ StoredOK
    BY OpenHost DEF ReplInv, SessionOK
  <2>2. Answers(host, i) /\ toMaster[host][i][n].val = Sent(host, i)
    BY <2>1, OnlyAnswers
  <2> QED
    BY <2>1, <2>2 DEF StoredOK
<1> QED
  BY <1>1, ReplInvHolds, PTL

\* While its connections hold, a session loses no message: each number from
\* the next expected one on is on its way or waits in CwxMqSyncSession.
THEOREM NothingIsLostInSession == Spec => []NothingLostInSession
<1>1. ReplInv => NothingLostInSession
  <2> SUFFICES ASSUME ReplInv, Healthy, NEW k \in session.next..Len(disp[host].sent) - 1
               PROVE  \/ k \in {w.seq : w \in session.waiting}
                      \/ \E i \in Conns : Data(k) \in ToSet(toSlave[host][i])
    BY DEF NothingLostInSession
  <2>1. /\ session.open /\ host \in Hosts /\ NumbersOK /\ session.next \in Nat
        /\ Len(disp[host].sent) \in Nat
    <3>1. session.open /\ host \in Hosts /\ NumbersOK /\ TypeOK
      BY OpenHost DEF ReplInv, SessionOK, Healthy
    <3> QED
      BY <3>1 DEF TypeOK, Disps, Sessions
  <2>2. PICK i \in Conns : Sent(host, i) = k
    BY <2>1 DEF NumbersOK
  <2>3. link[host][i].s = "open" /\ Sent(host, i) >= session.next
    BY <2>1, <2>2 DEF Healthy
  <2>4. CASE Waits(i)
    <3>1. PICK w \in session.waiting : w.conn = i
      BY <2>4 DEF Waits
    <3>2. w.seq = k
      BY <2>1, <2>2, <3>1 DEF NumbersOK
    <3> QED
      BY <3>2
  <2>5. CASE HasData(host, i)
    <3>1. toSlave[host][i] = <<Data(k)>> \/ toSlave[host][i] = <<Accept, Data(k)>>
      BY <2>2, <2>5 DEF HasData, ToS
    <3>2. Data(k) \in ToSet(toSlave[host][i])
      <4> DEFINE d == Data(k)
                 a == Accept
      <4> HIDE DEF d, a
      <4>1. CASE toSlave[host][i] = <<d>>
        BY <4>1 DEF ToSet, d
      <4>2. CASE toSlave[host][i] = <<a, d>>
        BY <4>2 DEF ToSet, d
      <4> QED
        BY <3>1, <4>1, <4>2 DEF d, a
    <3> QED
      BY <3>2
  <2> QED
    BY <2>1, <2>3, <2>4, <2>5 DEF NumbersOK
<1> QED
  BY <1>1, ReplInvHolds, PTL

\* What a session still has to process is above the slave's newest sid: no
\* message is stored twice, and append() of the slave's binlog refuses none.
THEOREM NoneIsRefused == Spec => []NeverRefused
<1>1. ReplInv => NeverRefused
  <2> SUFFICES ASSUME ReplInv, session.open, NEW k \in session.next..Len(disp[host].sent) - 1
               PROVE  disp[host].sent[k + 1].first > SlaveMax
    BY DEF NeverRefused
  <2> DEFINE s == disp[host].sent
             p == session.next
  <2>1. /\ host \in Hosts /\ StoredOK /\ TypeOK /\ StreamOK(disp[host])
        /\ p \in Nat /\ slog \subseteq Sids
    BY OpenHost DEF ReplInv, SessionOK, TypeOK, Sessions
  <2>2. /\ Len(s) \in Nat /\ disp[host].start \in 0..MaxSid
        /\ \A n \in 1..Len(s) : /\ s[n].first \in Sids /\ s[n].last \in Sids
                                /\ disp[host].start < s[n].first /\ s[n].first <= s[n].last
    BY <2>1, StreamOrder
  <2>3. k + 1 \in 1..Len(s) /\ p <= k
    BY <2>1, <2>2
  <2>4. disp[host].st # "none"
    <3>1. Len(NoDisp.sent) = 0
      BY DEF NoDisp
    <3>2. disp[host].st = "none" => Len(s) = 0
      BY <2>1, <3>1 DEF StreamOK
    <3> QED
      BY <2>2, <2>3, <3>2
  <2>5. Reach < s[k + 1].first /\ Reach \in Int
    <3>1. CASE p = 0
      BY <2>2, <2>3, <3>1 DEF Reach
    <3>2. CASE p # 0
      <4>1. p \in 1..(k + 1) - 1 /\ p \in 1..Len(s)
        BY <2>1, <2>2, <2>3, <3>2
      <4>2. s[p].last < s[k + 1].first
        BY <2>1, <2>3, <4>1 DEF StreamOK
      <4>3. s[p].last \in Int
        BY <2>2, <4>1 DEF Sids
      <4> QED
        BY <3>2, <4>2, <4>3 DEF Reach
    <3> QED
      BY <3>1, <3>2
  <2>6. SlaveMax <= Reach /\ SlaveMax \in Int
    <3>1. SlaveMax \in 0..MaxSid
      BY <2>1, SlaveMaxBounds DEF SlaveMax
    <3> QED
      BY <2>1, <2>4, <3>1 DEF StoredOK
  <2>7. s[k + 1].first \in Int
    BY <2>2, <2>3 DEF Sids
  <2> QED
    BY <2>5, <2>6, <2>7
<1> QED
  BY <1>1, ReplInvHolds, PTL

\* The messages that wait in CwxMqSyncSession are fewer than the connections:
\* each came on a connection of its own, and so will the one they wait for.
THEOREM WaitingIsBounded == Spec => []WaitingBounded
<1>1. ReplInv => WaitingBounded
  <2> SUFFICES ASSUME ReplInv, session.open  PROVE Cardinality(session.waiting) < NConn
    BY DEF WaitingBounded
  <2>1. /\ host \in Hosts /\ NumbersOK /\ LedgerOK(host) /\ session.next \in Nat
        /\ session.waiting \subseteq Turns /\ NConn \in Nat \ {0} /\ TypeOK
        /\ \A i \in Conns : LinkOK(host, i)
    BY OpenHost, BoundsAssumption DEF ReplInv, SessionOK, TypeOK, Sessions, Turns
  <2>2. CASE session.waiting = {}
    BY <2>1, <2>2, FS_EmptySet
  <2>3. CASE session.waiting # {}
    <3>1. PICK v \in session.waiting : TRUE
      BY <2>3
    <3>2. \A w \in session.waiting :
            /\ w.conn \in Conns /\ w.seq \in Nat /\ w.seq = Sent(host, w.conn)
            /\ w.seq > session.next
      BY <2>1 DEF NumbersOK, Turns
    <3>3. Len(disp[host].sent) \in Nat /\ v.seq < Len(disp[host].sent)
      <4>1. v.conn \in Conns /\ v.seq = Sent(host, v.conn)
        BY <3>2
      <4>2. Sent(host, v.conn) < Len(disp[host].sent)
        BY <2>1, <4>1 DEF LinkOK
      <4>3. Len(disp[host].sent) \in Nat
        BY <2>1 DEF TypeOK, Disps
      <4> QED
        BY <4>1, <4>2, <4>3
    <3>4. session.next \in session.next..Len(disp[host].sent) - 1
      BY <2>1, <3>2, <3>3
    <3>5. PICK j \in Conns : Sent(host, j) = session.next
      BY <2>1, <3>4 DEF NumbersOK
    <3> DEFINE T == Conns \ {j}
               f == [w \in session.waiting |-> w.conn]
    <3>6. \A w \in session.waiting : w.conn \in T
      BY <2>1, <3>2, <3>5
    <3>7. \A v1, v2 \in session.waiting : v1.conn = v2.conn => v1 = v2
      <4>1. \A v1, v2 \in session.waiting : v1.conn = v2.conn => v1.seq = v2.seq
        BY <3>2
      <4> QED
        BY <2>1, <4>1 DEF Turns
    <3>8. f \in Injection(session.waiting, T)
      BY <3>6, <3>7 DEF Injection, IsInjective
    <3>9. IsFiniteSet(Conns) /\ Cardinality(Conns) = NConn
      BY <2>1, FS_Interval DEF Conns
    <3>10. IsFiniteSet(T) /\ Cardinality(T) = NConn - 1
      BY <3>5, <3>9, FS_RemoveElement
    <3> HIDE DEF T, f
    <3>11. /\ IsFiniteSet(session.waiting)
           /\ Cardinality(session.waiting) <= Cardinality(T)
      BY <3>8, <3>10, FS_Injection
    <3>12. Cardinality(session.waiting) \in Nat
      BY <3>11, FS_CardinalityType
    <3> QED
      BY <2>1, <3>10, <3>11, <3>12
  <2> QED
    BY <2>2, <2>3
<1> QED
  BY <1>1, ReplInvHolds, PTL

\* Over a single connection the slave's binlog has every message up to its
\* newest, even when an append fails or the session breaks off.
THEOREM NoGapOnOneConnection ==
  ASSUME NConn = 1
  PROVE  Spec => []NoGap
<1>1. ReplInv => NoGap
  BY DEF ReplInv, OneOK, NoGap
<1> QED
  BY <1>1, ReplInvHolds, PTL
=============================================================================
