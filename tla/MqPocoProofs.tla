---------------------------- MODULE MqPocoProofs ----------------------------
(***************************************************************************)
(* Whatever one library packs the other one reads: RoundTrip of MqPoco, for    *)
(* all strings and numbers and every pair of libraries.  A body is a join of   *)
(* keys, so what is read of a key (Read) comes from the part that has it.      *)
(***************************************************************************)
EXTENDS MqPoco, TLAPS

Read(b, key, default) == IF key \in DOMAIN b THEN b[key] ELSE default
Holds(b, key) == key \in DOMAIN b

\* Names for the keys and the empty string, which the provers need not look into.
Empty == ""
dK == "d"
uK == "u"
pK == "p"
retK == "ret"
sidK == "sid"
errK == "err"
chunkK == "chunk"
sourceK == "source"
zipK == "zip"
sessionK == "session"
tK == "t"
bK == "b"
qK == "q"
nameK == "name"
authUserK == "auth_user"
authPasswdK == "auth_passwd"

OrDefault(v, default) == IF v = Null THEN default ELSE v
Or0(v, default) == IF v = 0 THEN default ELSE v

\* What a key adds to the body before it.
LEMMA AddKey ==
  /\ \A f, key, v, default : Read(f ++ Key(key, v), key, default) = Read(f, key, v)
  /\ \A f, j, v, key, default :
       j # key => Read(f ++ Key(j, v), key, default) = Read(f, key, default)
  /\ \A f, key, v : Holds(f ++ Key(key, v), key) = TRUE
  /\ \A f, j, v, key : j # key => Holds(f ++ Key(j, v), key) = Holds(f, key)
<1> USE DEF Read, Holds, ++, Key
<1>1. \A f, key, v, default : Read(f ++ Key(key, v), key, default) = Read(f, key, v)
  OBVIOUS
<1>2. \A f, j, v, key, default :
        j # key => Read(f ++ Key(j, v), key, default) = Read(f, key, default)
  OBVIOUS
<1>3. \A f, key, v : Holds(f ++ Key(key, v), key) = TRUE
  OBVIOUS
<1>4. \A f, j, v, key : j # key => Holds(f ++ Key(j, v), key) = Holds(f, key)
  OBVIOUS
<1> QED
  BY <1>1, <1>2, <1>3, <1>4

LEMMA AddNone ==
  /\ \A f, key, default : Read(f ++ NoKey, key, default) = Read(f, key, default)
  /\ \A f, key : Holds(f ++ NoKey, key) = Holds(f, key)
  BY DEF Read, Holds, NoKey, ++

LEMMA FirstKey ==
  /\ \A key, v, default : Read(Key(key, v), key, default) = v
  /\ \A j, key, v, default : j # key => Read(Key(j, v), key, default) = default
  /\ \A key, v : Holds(Key(key, v), key) = TRUE
  /\ \A j, key, v : j # key => Holds(Key(j, v), key) = FALSE
  BY DEF Read, Holds, Key

LEMMA NoneRead ==
  /\ \A key, default : Read(NoKey, key, default) = default
  /\ \A key : Holds(NoKey, key) = FALSE
  BY DEF Read, Holds, NoKey

LEMMA AddOpt ==
  /\ \A f, key, v, default :
       Read(f ++ Opt(key, v), key, default) = Read(f, key, OrDefault(v, default))
  /\ \A f, j, v, key, default :
       j # key => Read(f ++ Opt(j, v), key, default) = Read(f, key, default)
  /\ \A f, j, v, key : j # key => Holds(f ++ Opt(j, v), key) = Holds(f, key)
<1>1. \A f, key, v, default :
        Read(f ++ Opt(key, v), key, default) = Read(f, key, OrDefault(v, default))
  BY AddKey, AddNone DEF Opt, OrDefault
<1>2. \A f, j, v, key, default :
        j # key => Read(f ++ Opt(j, v), key, default) = Read(f, key, default)
  BY AddKey, AddNone DEF Opt
<1>3. \A f, j, v, key : j # key => Holds(f ++ Opt(j, v), key) = Holds(f, key)
  BY AddKey, AddNone DEF Opt
<1> QED
  BY <1>1, <1>2, <1>3

LEMMA AddOptNot0 ==
  /\ \A f, key, v, default :
       Read(f ++ OptNot0(key, v), key, default) = Read(f, key, Or0(v, default))
  /\ \A f, j, v, key, default :
       j # key => Read(f ++ OptNot0(j, v), key, default) = Read(f, key, default)
  /\ \A f, j, v, key : j # key => Holds(f ++ OptNot0(j, v), key) = Holds(f, key)
<1>1. \A f, key, v, default :
        Read(f ++ OptNot0(key, v), key, default) = Read(f, key, Or0(v, default))
  BY AddKey, AddNone DEF OptNot0, Or0
<1>2. \A f, j, v, key, default :
        j # key => Read(f ++ OptNot0(j, v), key, default) = Read(f, key, default)
  BY AddKey, AddNone DEF OptNot0
<1>3. \A f, j, v, key : j # key => Holds(f ++ OptNot0(j, v), key) = Holds(f, key)
  BY AddKey, AddNone DEF OptNot0
<1> QED
  BY <1>1, <1>2, <1>3

LEMMA Regroup == \A f, g, h : f ++ (g ++ h) = (f ++ g) ++ h
  BY DEF ++

\* setSeq writes two words of Half, getSeq puts them together again.
LEMMA Words ==
  ASSUME NEW n \in Numbers
  PROVE  /\ getSeq(setSeq(n)) = n /\ get_seq(setSeq(n)) = n
         /\ set_seq(n) = setSeq(n) /\ setSeq(n) # NoSeq
<1>1. Half \in Nat /\ Half > 0
  BY HalfAssumption
<1>2. n \in 0..Half * Half - 1
  BY NumbersAssumption
<1>3. n \in Nat
  BY <1>1, <1>2
<1>4. (n \div Half) * Half + (n % Half) = n
  BY <1>1, <1>3
<1> QED
  BY <1>4 DEF getSeq, setSeq, get_seq, set_seq, NoSeq

LEMMA TextIs == \A v : Text(v) = OrDefault(v, Empty)
  BY DEF Text, OrDefault, Empty

LEMMA TextTwice ==
  /\ \A v : Text(Text(v)) = Text(v)
  /\ Text(0) = 0 /\ Text(Empty) = Empty
<1>1. Empty # Null
  BY StringsAssumption, NullAssumption DEF Empty
<1>2. 0 # Null
  BY NumbersAssumption, NullAssumption
<1> QED
  BY <1>1, <1>2, TextIs DEF OrDefault

LEMMA NothingRead == NoKey # Refused
<1>1. DOMAIN NoKey = {}
  BY DEF NoKey
<1>2. "refused" \in DOMAIN Refused
  BY DEF Refused
<1> QED
  BY <1>1, <1>2

\* A record in a chunk.
LEMMA ItemRead ==
  ASSUME NEW item \in Items
  PROVE  parseSyncData(Msg(7, packSyncDataItem(item))) = item
<1> DEFINE b == Key(sidK, item.sid) ++ Key(tK, item.t) ++ Key(dK, item.data)
<1>1. packSyncDataItem(item) = b
  BY DEF packSyncDataItem, sidK, tK, dK
<1>2. /\ Holds(b, sidK) = TRUE /\ Holds(b, tK) = TRUE /\ Holds(b, dK) = TRUE
      /\ Read(b, sidK, 0) = item.sid /\ Read(b, tK, 0) = item.t /\ Read(b, dK, Empty) = item.data
  <2>1. sidK # tK /\ sidK # dK /\ tK # dK
    BY DEF sidK, tK, dK
  <2> QED
    BY <2>1, FirstKey, AddKey
<1> HIDE DEF b
<1>3. parseSyncData(Msg(7, b)) =
        [sid |-> Read(b, sidK, 0), t |-> Read(b, tK, 0), data |-> Read(b, dK, Empty)]
  BY <1>2 DEF parseSyncData, Has, Read, Holds, Msg, sidK, tK, dK
<1>4. item = [sid |-> item.sid, t |-> item.t, data |-> item.data]
  BY DEF Items
<1> QED
  BY <1>1, <1>2, <1>3, <1>4

\* The error is there only when ret tells of one.
LEMMA AddErr ==
  ASSUME NEW a
  PROVE  /\ \A f : a.ret # 0 => Holds(f ++ ErrOf(a), errK) = TRUE
         /\ \A f, default :
              a.ret # 0 => Read(f ++ ErrOf(a), errK, default) = Read(f, errK, Text(a.err))
         /\ \A f, key : errK # key => Holds(f ++ ErrOf(a), key) = Holds(f, key)
         /\ \A f, key, default :
              errK # key => Read(f ++ ErrOf(a), key, default) = Read(f, key, default)
<1>1. ErrOf(a) = IF a.ret = 0 THEN NoKey ELSE Key(errK, Text(a.err))
  BY DEF ErrOf, errK
<1>2. CASE a.ret = 0
  <2>1. ErrOf(a) = NoKey
    BY <1>1, <1>2
  <2> QED
    BY <1>2, <2>1, AddNone
<1>3. CASE a.ret # 0
  <2>1. ErrOf(a) = Key(errK, Text(a.err))
    BY <1>1, <1>3
  <2> QED
    BY <2>1, AddKey
<1> QED
  BY <1>2, <1>3

\* A body that answers with ret, and with the error when ret tells of one.
IsAnswer(b, a) ==
  /\ Holds(b, retK) = TRUE /\ Read(b, retK, 0) = a.ret
  /\ a.ret # 0 => Holds(b, errK) = TRUE /\ Read(b, errK, Empty) = Text(a.err)

LEMMA AnswerRead ==
  ASSUME NEW a, NEW b, NEW type, IsAnswer(b, a)
  PROVE  RetRead(Msg(type, b)) = [ret |-> a.ret, err |-> IF a.ret = 0 THEN Empty ELSE Text(a.err)]
  BY DEF IsAnswer, RetRead, ErrThere, ErrRead, Has, Read, Holds,
              Msg, retK, errK, Empty

\* The servers pack the error when there is one, the C library always.
LEMMA AnswerPacked ==
  ASSUME NEW a
  PROVE  /\ IsAnswer(Key(retK, a.ret) ++ ErrOf(a), a)
         /\ a.err \in Strings => IsAnswer(Key(retK, a.ret) ++ Key(errK, a.err), a)
<1>1. retK # errK
  BY DEF retK, errK
<1>2. IsAnswer(Key(retK, a.ret) ++ ErrOf(a), a)
  <2> DEFINE e == ErrOf(a)
             b == Key(retK, a.ret) ++ e
  <2>1. /\ \A f : a.ret # 0 => Holds(f ++ e, errK) = TRUE
        /\ \A f, default : a.ret # 0 => Read(f ++ e, errK, default) = Read(f, errK, Text(a.err))
        /\ \A f, key : errK # key => Holds(f ++ e, key) = Holds(f, key)
        /\ \A f, key, default : errK # key => Read(f ++ e, key, default) = Read(f, key, default)
    BY AddErr
  <2> HIDE DEF e
  <2>2. Holds(b, retK) = TRUE /\ Read(b, retK, 0) = a.ret
    BY <1>1, <2>1, FirstKey
  <2>3. a.ret # 0 => Holds(b, errK) = TRUE /\ Read(b, errK, Empty) = Text(a.err)
    BY <1>1, <2>1, FirstKey
  <2>4. b = Key(retK, a.ret) ++ ErrOf(a)
    BY DEF e
  <2> HIDE DEF b
  <2> QED
    BY <2>2, <2>3, <2>4 DEF IsAnswer
<1>3. ASSUME a.err \in Strings
      PROVE  IsAnswer(Key(retK, a.ret) ++ Key(errK, a.err), a)
  <2> DEFINE b == Key(retK, a.ret) ++ Key(errK, a.err)
  <2>1. Holds(b, retK) = TRUE /\ Read(b, retK, 0) = a.ret
    BY <1>1, FirstKey, AddKey
  <2>2. Holds(b, errK) = TRUE /\ Read(b, errK, Empty) = a.err
    BY <1>1, FirstKey, AddKey
  <2>3. Text(a.err) = a.err
    BY <1>3, NullAssumption DEF Text
  <2> HIDE DEF b
  <2>4. IsAnswer(b, a)
    BY <2>1, <2>2, <2>3 DEF IsAnswer
  <2> QED
    BY <2>4 DEF b
<1> QED
  BY <1>2, <1>3

(***************************************************************************)
(* One lemma for each exchange: PICK names the call, b is the body that both   *)
(* libraries pack, and what is read of it is compared with the arguments.      *)
(***************************************************************************)
\* A message for the master; the C library may fail to compress it.
LEMMA RecvDataArrives ==
  ASSUME SendRecvData
  PROVE  RoundTrip'
<1>1. PICK from \in {"cpp", "c"}, to \in {"cpp", "c"},
           a \in [data : Strings, user : Nullable, passwd : Nullable,
                  zip : Bit, zipFails : BOOLEAN] :
        LET m == IF from = "cpp" THEN packRecvData(a) ELSE pack_mq(a)
        IN  /\ call' = [kind |-> "RecvData", from |-> from, to |-> to, args |-> a]
            /\ gotSeq' = IF m.seq = NoSeq THEN 0
                         ELSE IF to = "cpp" THEN getSeq(m.seq) ELSE get_seq(m.seq)
            /\ got' = IF Types[to]["RecvData"] = m.type
                      THEN IF to = "cpp" THEN parseRecvData(m) ELSE parse_mq(m)
                      ELSE Refused
  BY DEF SendRecvData, Exchange
<1> SUFFICES ASSUME Exchanged' PROVE RoundTrip'
  BY DEF RoundTrip
<1> DEFINE b == Key(dK, a.data) ++ Opt(uK, a.user) ++ Opt(pK, a.passwd)
<1>2. /\ packRecvData(a) = Msg(1, b)
      /\ from = "c" => pack_mq(a) = Msg(1, b)
  <2>1. from = "c" => ~(a.zip = 1 /\ a.zipFails)
    BY <1>1 DEF Exchanged, NotPacked
  <2> QED
    BY <2>1 DEF packRecvData, pack_mq, dK, uK, pK
<1>3. /\ Holds(b, dK) = TRUE
      /\ \A default : Read(b, dK, default) = a.data
      /\ \A default : Read(b, uK, default) = OrDefault(a.user, default)
      /\ \A default : Read(b, pK, default) = OrDefault(a.passwd, default)
  <2>1. dK # uK /\ dK # pK /\ uK # pK
    BY DEF dK, uK, pK
  <2> QED
    BY <2>1, FirstKey, AddOpt
<1> HIDE DEF b
<1>4. /\ parseRecvData(Msg(1, b)) = [data |-> Read(b, dK, Empty), user |-> Read(b, uK, Empty),
                                     passwd |-> Read(b, pK, Empty)]
      /\ parse_mq(Msg(1, b)) = [data |-> Read(b, dK, Empty), user |-> Read(b, uK, Null),
                                passwd |-> Read(b, pK, Null)]
  BY <1>3 DEF parseRecvData, parse_mq, KeyOr, Has, Read, Holds, Msg, dK, uK, pK, Empty
<1>5. Types[to]["RecvData"] = 1 /\ Msg(1, b).type = 1
  BY DEF Types, cTypes, cppTypes, Msg
<1>6. \E nil \in {Empty, Null} : 
        got' = [data |-> Read(b, dK, Empty), user |-> Read(b, uK, nil),
                passwd |-> Read(b, pK, nil)]
  BY <1>1, <1>2, <1>4, <1>5
<1>7. /\ got' # Refused /\ DOMAIN got' = {"data", "user", "passwd"}
      /\ Text(got'["data"]) = Text(a.data) /\ Text(got'["user"]) = Text(a.user)
      /\ Text(got'["passwd"]) = Text(a.passwd)
  BY <1>3, <1>6, TextIs, TextTwice DEF Refused, OrDefault
<1>8. /\ DOMAIN call'.args \ {"seq", "zip", "zipFails"} = {"data", "user", "passwd"}
      /\ "seq" \notin DOMAIN call'.args
      /\ Meant("data")' = Text(a.data) /\ Meant("user")' = Text(a.user)
      /\ Meant("passwd")' = Text(a.passwd)
  BY <1>1 DEF Meant
<1> QED
  BY <1>7, <1>8 DEF RoundTrip

\* The answer to it, with its sid.
LEMMA RecvDataReplyArrives ==
  ASSUME SendRecvDataReply
  PROVE  RoundTrip'
<1>1. PICK from \in {"cpp", "c"}, to \in {"cpp", "c"},
           a \in [ret : Bit, err : Nullable, sid : Numbers] :
        LET m == IF from = "cpp" THEN packRecvDataReply(a) ELSE pack_mq_reply(a)
        IN  /\ call' = [kind |-> "RecvDataReply", from |-> from, to |-> to, args |-> a]
            /\ gotSeq' = IF m.seq = NoSeq THEN 0
                         ELSE IF to = "cpp" THEN getSeq(m.seq) ELSE get_seq(m.seq)
            /\ got' = IF Types[to]["RecvDataReply"] = m.type
                      THEN IF to = "cpp" THEN parseRecvDataReply(m) ELSE parse_mq_reply(m)
                      ELSE Refused
  BY DEF SendRecvDataReply, Exchange
<1> DEFINE b == Key(retK, a.ret) ++ Key(sidK, a.sid) ++ ErrOf(a)
<1>2. packRecvDataReply(a) = Msg(2, b) /\ pack_mq_reply(a) = Msg(2, b)
  BY DEF packRecvDataReply, pack_mq_reply, retK, sidK
<1>3. /\ Holds(b, retK) = TRUE /\ Holds(b, sidK) = TRUE
      /\ a.ret # 0 => Holds(b, errK) = TRUE
      /\ Read(b, retK, 0) = a.ret
      /\ Read(b, sidK, 0) = a.sid
      /\ a.ret # 0 => Read(b, errK, Empty) = Text(a.err)
  <2>1. retK # sidK /\ retK # errK /\ sidK # errK
    BY DEF retK, sidK, errK
  <2> DEFINE e == ErrOf(a)
  <2>2. /\ \A f : a.ret # 0 => Holds(f ++ e, errK) = TRUE
        /\ \A f, default : a.ret # 0 => Read(f ++ e, errK, default) = Read(f, errK, Text(a.err))
        /\ \A f, key : errK # key => Holds(f ++ e, key) = Holds(f, key)
        /\ \A f, key, default : errK # key => Read(f ++ e, key, default) = Read(f, key, default)
    BY AddErr, ZenonT(40)
  <2> HIDE DEF e
  <2>3. b = Key(retK, a.ret) ++ Key(sidK, a.sid) ++ e
    BY DEF e
  <2> HIDE DEF b
  <2>4. /\ a.ret # 0 => Holds(b, errK) = TRUE
        /\ a.ret # 0 => Read(b, errK, Empty) = Text(a.err)
    BY <2>1, <2>2, <2>3, FirstKey, AddKey
  <2>5. Holds(b, retK) = TRUE /\ Holds(b, sidK) = TRUE
    BY <2>1, <2>2, <2>3, FirstKey, AddKey
  <2>6. Read(b, retK, 0) = a.ret /\ Read(b, sidK, 0) = a.sid
    BY <2>1, <2>2, <2>3, FirstKey, AddKey
  <2> QED
    BY <2>4, <2>5, <2>6
<1> HIDE DEF b
<1>4. LET g == [ret |-> a.ret, sid |-> Read(b, sidK, 0),
                err |-> IF a.ret = 0 THEN Empty ELSE Read(b, errK, Empty)]
      IN  parseRecvDataReply(Msg(2, b)) = g /\ parse_mq_reply(Msg(2, b)) = g
  BY <1>3 DEF parseRecvDataReply, parse_mq_reply, ErrThere, ErrRead, Has, Read, Holds,
              Msg, retK, sidK, errK, Empty
<1>5. Types[to]["RecvDataReply"] = 2 /\ Msg(2, b).type = 2
  BY DEF Types, cTypes, cppTypes, Msg
<1>6. got' = [ret |-> a.ret, sid |-> Read(b, sidK, 0),
              err |-> IF a.ret = 0 THEN Empty ELSE Read(b, errK, Empty)]
  BY <1>1, <1>2, <1>4, <1>5
<1>7. /\ got' # Refused /\ DOMAIN got' = {"ret", "sid", "err"}
      /\ Text(got'["ret"]) = Text(a.ret) /\ Text(got'["sid"]) = Text(a.sid)
      /\ Text(got'["err"]) = IF a.ret = 0 THEN Empty ELSE Text(a.err)
  BY <1>3, <1>6, TextTwice DEF Refused
<1>8. /\ DOMAIN call'.args \ {"seq", "zip", "zipFails"} = {"ret", "sid", "err"}
      /\ "seq" \notin DOMAIN call'.args
      /\ Meant("ret")' = Text(a.ret) /\ Meant("sid")' = Text(a.sid)
      /\ Meant("err")' = IF a.ret = 0 THEN Empty ELSE Text(a.err)
  BY <1>1 DEF Meant, Empty
<1> QED
  BY <1>7, <1>8 DEF RoundTrip

\* The keys of a report.
LEMMA ReportKeys ==
  /\ sidK # chunkK /\ sidK # sourceK /\ sidK # uK /\ sidK # pK /\ sidK # zipK
  /\ chunkK # sourceK /\ chunkK # uK /\ chunkK # pK /\ chunkK # zipK
  /\ sourceK # uK /\ sourceK # pK /\ sourceK # zipK /\ uK # pK /\ uK # zipK /\ pK # zipK
  BY DEF sidK, chunkK, sourceK, uK, pK, zipK

\* What is in a report.
LEMMA ReportBody ==
  ASSUME NEW a, NEW s, NEW b,
         s = IF a.newly = 1 THEN NoKey ELSE Key(sidK, a.sid),
         b = s ++ OptNot0(chunkK, a.chunk) ++ Opt(sourceK, a.source) ++ Opt(uK, a.user)
             ++ Opt(pK, a.passwd) ++ OptNot0(zipK, a.zip)
  PROVE  /\ Holds(b, sidK) = (a.newly # 1)
         /\ Read(b, sidK, 0) = IF a.newly = 1 THEN 0 ELSE a.sid
         /\ Read(b, chunkK, 0) = a.chunk
         /\ Read(b, sourceK, Empty) = Text(a.source)
         /\ Read(b, uK, Empty) = Text(a.user)
         /\ Read(b, pK, Empty) = Text(a.passwd)
<1>1. /\ Holds(s, sidK) = (a.newly # 1)
      /\ Read(s, sidK, 0) = IF a.newly = 1 THEN 0 ELSE a.sid
      /\ \A key, default : sidK # key => Read(s, key, default) = default
  <2>1. CASE a.newly = 1
    BY <2>1, NoneRead
  <2>2. CASE a.newly # 1
    <3>1. s = Key(sidK, a.sid)
      BY <2>2
    <3>2. Holds(s, sidK) = TRUE
      BY <3>1, FirstKey
    <3>3. Read(s, sidK, 0) = a.sid
      BY <3>1, FirstKey
    <3>4. \A key, default : sidK # key => Read(s, key, default) = default
      BY <3>1, FirstKey
    <3> QED
      BY <2>2, <3>2, <3>3, <3>4
  <2> QED
    BY <2>1, <2>2
<1>2. Holds(b, sidK) = (a.newly # 1)
  BY <1>1, AddOpt, AddOptNot0, ReportKeys
<1>3. Read(b, sidK, 0) = IF a.newly = 1 THEN 0 ELSE a.sid
  BY <1>1, AddOpt, AddOptNot0, ReportKeys
<1>4. Read(b, chunkK, 0) = Or0(a.chunk, 0)
  BY <1>1, AddOpt, AddOptNot0, ReportKeys
<1>5. /\ Read(b, sourceK, Empty) = OrDefault(a.source, Empty)
      /\ Read(b, uK, Empty) = OrDefault(a.user, Empty)
      /\ Read(b, pK, Empty) = OrDefault(a.passwd, Empty)
  BY <1>1, AddOpt, AddOptNot0, ReportKeys
<1> QED
  BY <1>2, <1>3, <1>4, <1>5, TextIs DEF Or0

\* Both libraries pack it.
LEMMA ReportPacked ==
  ASSUME NEW a
  PROVE  \E s, b :
           /\ s = IF a.newly = 1 THEN NoKey ELSE Key(sidK, a.sid)
           /\ b = s ++ OptNot0(chunkK, a.chunk) ++ Opt(sourceK, a.source) ++ Opt(uK, a.user)
                  ++ Opt(pK, a.passwd) ++ OptNot0(zipK, a.zip)
           /\ packReportData(a) = Msg(3, b) /\ pack_sync_report(a) = Msg(3, b)
  BY DEF packReportData, pack_sync_report, sidK, chunkK, sourceK, uK, pK, zipK

\* Both libraries read it.
LEMMA ReportParsed ==
  ASSUME NEW b
  PROVE  LET g == [newly |-> IF Holds(b, sidK) THEN 0 ELSE 1, sid |-> Read(b, sidK, 0),
                   chunk |-> Read(b, chunkK, 0), source |-> Read(b, sourceK, Empty),
                   user |-> Read(b, uK, Empty), passwd |-> Read(b, pK, Empty),
                   zip |-> Read(b, zipK, 0)]
         IN  parseReportData(Msg(3, b)) = g /\ parse_sync_report(Msg(3, b)) = g
  BY DEF parseReportData, parse_sync_report, KeyOr, Read, Holds, Has, Msg,
         sidK, chunkK, sourceK, uK, pK, zipK, Empty

\* A slave, or a client, reports how far it is.
LEMMA ReportArrives ==
  ASSUME SendReport
  PROVE  RoundTrip'
<1>1. PICK from \in {"cpp", "c"}, to \in {"cpp", "c"},
           a \in [newly : Bit, sid : Numbers, chunk : Numbers, source : Nullable,
                  user : Nullable, passwd : Nullable, zip : Bit] :
        LET m == IF from = "cpp" THEN packReportData(a) ELSE pack_sync_report(a)
        IN  /\ call' = [kind |-> "Report", from |-> from, to |-> to, args |-> a]
            /\ gotSeq' = IF m.seq = NoSeq THEN 0
                         ELSE IF to = "cpp" THEN getSeq(m.seq) ELSE get_seq(m.seq)
            /\ got' = IF Types[to]["Report"] = m.type
                      THEN IF to = "cpp" THEN parseReportData(m) ELSE parse_sync_report(m)
                      ELSE Refused
  BY DEF SendReport, Exchange
<1>2. PICK s, b :
        /\ s = IF a.newly = 1 THEN NoKey ELSE Key(sidK, a.sid)
        /\ b = s ++ OptNot0(chunkK, a.chunk) ++ Opt(sourceK, a.source) ++ Opt(uK, a.user)
               ++ Opt(pK, a.passwd) ++ OptNot0(zipK, a.zip)
        /\ packReportData(a) = Msg(3, b) /\ pack_sync_report(a) = Msg(3, b)
  BY ReportPacked
<1>3. Types[to]["Report"] = 3 /\ Msg(3, b).type = 3
  BY DEF Types, cTypes, cppTypes, Msg
<1>4. got' = [newly |-> IF Holds(b, sidK) THEN 0 ELSE 1, sid |-> Read(b, sidK, 0),
              chunk |-> Read(b, chunkK, 0), source |-> Read(b, sourceK, Empty),
              user |-> Read(b, uK, Empty), passwd |-> Read(b, pK, Empty),
              zip |-> Read(b, zipK, 0)]
  BY <1>1, <1>2, <1>3, ReportParsed
<1>5. got' # Refused
  BY <1>4 DEF Refused
<1>6. /\ got'.newly = a.newly
      /\ got'.sid = IF a.newly = 1 THEN 0 ELSE a.sid
      /\ got'.chunk = a.chunk /\ got'.source = Text(a.source)
      /\ got'.user = Text(a.user) /\ got'.passwd = Text(a.passwd)
  <2>1. a.newly \in {0, 1}
    BY DEF Bit
  <2>2. got'.newly = IF a.newly # 1 THEN 0 ELSE 1
    BY <1>2, <1>4, ReportBody
  <2>3. /\ got'.sid = IF a.newly = 1 THEN 0 ELSE a.sid
        /\ got'.chunk = a.chunk
    BY <1>2, <1>4, ReportBody
  <2>4. /\ got'.source = Text(a.source)
        /\ got'.user = Text(a.user) /\ got'.passwd = Text(a.passwd)
    BY <1>2, <1>4, ReportBody
  <2> QED
    BY <2>1, <2>2, <2>3, <2>4
<1>7. /\ call'.args = a /\ call'.kind = "Report"
      /\ call'.args.newly = a.newly
  BY <1>1
<1>8. /\ Meant("newly")' = Text(a.newly) /\ Meant("chunk")' = Text(a.chunk)
      /\ Meant("source")' = Text(a.source) /\ Meant("user")' = Text(a.user)
      /\ Meant("passwd")' = Text(a.passwd)
      /\ Meant("sid")' = IF a.newly = 1 THEN 0 ELSE Text(a.sid)
  BY <1>7 DEF Meant
<1>9. ASSUME NEW key \in {"newly", "sid", "chunk", "source", "user", "passwd"}
      PROVE  key \in DOMAIN got' /\ Text(got'[key]) = Meant(key)'
  <2>1. key \in DOMAIN got'
    BY <1>4
  <2>2. Text(got'[key]) = Meant(key)'
    BY <1>6, <1>8, TextTwice
  <2> QED
    BY <2>1, <2>2
<1>10. /\ DOMAIN call'.args \ {"seq", "zip", "zipFails"}
            = {"newly", "sid", "chunk", "source", "user", "passwd"}
       /\ "seq" \notin DOMAIN call'.args
  BY <1>7
<1> QED
  BY <1>5, <1>9, <1>10 DEF RoundTrip

\* The session a master gives to a slave.
LEMMA ReportReplyArrives ==
  ASSUME SendReportReply
  PROVE  RoundTrip'
<1>1. PICK from \in {"cpp", "c"}, to \in {"cpp", "c"}, a \in [session : Numbers] :
        LET m == IF from = "cpp" THEN packReportDataReply(a) ELSE pack_sync_report_reply(a)
        IN  /\ call' = [kind |-> "ReportReply", from |-> from, to |-> to, args |-> a]
            /\ gotSeq' = IF m.seq = NoSeq THEN 0
                         ELSE IF to = "cpp" THEN getSeq(m.seq) ELSE get_seq(m.seq)
            /\ got' = IF Types[to]["ReportReply"] = m.type
                      THEN IF to = "cpp" THEN parseReportDataReply(m)
                           ELSE parse_sync_report_reply(m)
                      ELSE Refused
  BY DEF SendReportReply, Exchange
<1> DEFINE b == Key(sessionK, a.session)
<1>2. /\ packReportDataReply(a) = Msg(4, b) /\ pack_sync_report_reply(a) = Msg(4, b)
  BY DEF packReportDataReply, pack_sync_report_reply, sessionK
<1>3. /\ Holds(b, sessionK) = TRUE /\ Read(b, sessionK, 0) = a.session
  BY FirstKey
<1> HIDE DEF b
<1>4. LET g == [session |-> Read(b, sessionK, 0)]
      IN  parseReportDataReply(Msg(4, b)) = g /\ parse_sync_report_reply(Msg(4, b)) = g
  BY <1>3 DEF parseReportDataReply, parse_sync_report_reply, KeyOr, Has, Read, Holds, Msg,
              sessionK
<1>5. Types[to]["ReportReply"] = 4 /\ Msg(4, b).type = 4
  BY DEF Types, cTypes, cppTypes, Msg
<1>6. got' = [session |-> Read(b, sessionK, 0)]
  BY <1>1, <1>2, <1>4, <1>5
<1>7. /\ got' # Refused /\ DOMAIN got' = {"session"} /\ Text(got'["session"]) = Text(a.session)
  BY <1>3, <1>6, TextTwice DEF Refused
<1>8. /\ DOMAIN call'.args \ {"seq", "zip", "zipFails"} = {"session"}
      /\ "seq" \notin DOMAIN call'.args
      /\ Meant("session")' = Text(a.session)
  BY <1>1 DEF Meant
<1> QED
  BY <1>7, <1>8 DEF RoundTrip

\* A further connection of a session.
LEMMA NewConnArrives ==
  ASSUME SendNewConn
  PROVE  RoundTrip'
<1>1. PICK from \in {"cpp", "c"}, to \in {"cpp", "c"}, a \in [session : Numbers] :
        LET m == packReportNewConn(a)
        IN  /\ "NewConn" \in DOMAIN Types[to]
            /\ call' = [kind |-> "NewConn", from |-> from, to |-> to, args |-> a]
            /\ gotSeq' = IF m.seq = NoSeq THEN 0
                         ELSE IF to = "cpp" THEN getSeq(m.seq) ELSE get_seq(m.seq)
            /\ got' = IF Types[to]["NewConn"] = m.type
                      THEN parseReportNewConn(m)
                      ELSE Refused
  BY DEF SendNewConn, Exchange
<1> DEFINE b == Key(sessionK, a.session)
<1>2. packReportNewConn(a) = Msg(5, b)
  BY DEF packReportNewConn, sessionK
<1>3. /\ Holds(b, sessionK) = TRUE /\ Read(b, sessionK, 0) = a.session
  BY FirstKey
<1> HIDE DEF b
<1>4. parseReportNewConn(Msg(5, b)) =
        [session |-> Read(b, sessionK, 0)]
  BY <1>3 DEF parseReportNewConn, KeyOr, Has, Read, Holds, Msg, sessionK
<1>5. to = "cpp" /\ Types["cpp"]["NewConn"] = 5 /\ Msg(5, b).type = 5
  BY <1>1 DEF Types, cTypes, cppTypes, Msg
<1>6. got' = [session |-> Read(b, sessionK, 0)]
  BY <1>1, <1>2, <1>4, <1>5
<1>7. /\ got' # Refused /\ DOMAIN got' = {"session"} /\ Text(got'["session"]) = Text(a.session)
  BY <1>3, <1>6, TextTwice DEF Refused
<1>8. /\ DOMAIN call'.args \ {"seq", "zip", "zipFails"} = {"session"}
      /\ "seq" \notin DOMAIN call'.args
      /\ Meant("session")' = Text(a.session)
  BY <1>1 DEF Meant
<1> QED
  BY <1>7, <1>8 DEF RoundTrip

\* One record of the binlog.
LEMMA SyncDataArrives ==
  ASSUME SendSyncData
  PROVE  RoundTrip'
<1>1. PICK from \in {"cpp", "c"}, to \in {"cpp", "c"},
           a \in [seq : Numbers, sid : Numbers, t : {1}, data : Strings] :
        LET m == IF from = "cpp" THEN packSyncData(a) ELSE pack_sync_data(a)
        IN  /\ call' = [kind |-> "SyncData", from |-> from, to |-> to, args |-> a]
            /\ gotSeq' = IF m.seq = NoSeq THEN 0
                         ELSE IF to = "cpp" THEN getSeq(m.seq) ELSE get_seq(m.seq)
            /\ got' = IF Types[to]["SyncData"] = m.type
                      THEN IF to = "cpp" THEN parseSyncData(m) ELSE parse_sync_data(m)
                      ELSE Refused
  BY DEF SendSyncData, Exchange
<1> DEFINE b == Key(sidK, a.sid) ++ Key(tK, a.t) ++ Key(dK, a.data)
<1>2. /\ packSyncData(a) = SeqMsg(7, setSeq(a.seq), b)
      /\ pack_sync_data(a) = SeqMsg(7, setSeq(a.seq), b)
  <2>1. set_seq(a.seq) = setSeq(a.seq)
    BY Words
  <2> QED
    BY <2>1 DEF packSyncData, packSyncDataItem, pack_sync_data, sidK, tK, dK
<1>3. /\ Holds(b, sidK) = TRUE /\ Holds(b, tK) = TRUE /\ Holds(b, dK) = TRUE
      /\ Read(b, sidK, 0) = a.sid /\ Read(b, tK, 0) = a.t /\ Read(b, dK, Empty) = a.data
  <2>1. /\ sidK # tK /\ sidK # dK /\ tK # dK
    BY DEF sidK, tK, dK
  <2> QED
    BY <2>1, FirstKey, AddKey
<1> HIDE DEF b
<1>4. LET g == [sid |-> Read(b, sidK, 0), t |-> Read(b, tK, 0), data |-> Read(b, dK, Empty)]
      IN  /\ parseSyncData(SeqMsg(7, setSeq(a.seq), b)) = g
          /\ parse_sync_data(SeqMsg(7, setSeq(a.seq), b)) = g
  BY <1>3 DEF parseSyncData, parse_sync_data, KeyOr, Has, Read, Holds, Msg, SeqMsg, sidK, tK, dK,
              Empty
<1>5. Types[to]["SyncData"] = 7 /\ SeqMsg(7, setSeq(a.seq), b).type = 7
  BY DEF Types, cTypes, cppTypes, Msg, SeqMsg
<1>6. got' = [sid |-> Read(b, sidK, 0), t |-> Read(b, tK, 0), data |-> Read(b, dK, Empty)]
  BY <1>1, <1>2, <1>4, <1>5
<1>7. /\ got' # Refused /\ DOMAIN got' = {"sid", "t", "data"} /\ Text(got'["sid"]) = Text(a.sid)
      /\ Text(got'["t"]) = Text(a.t) /\ Text(got'["data"]) = Text(a.data)
  BY <1>3, <1>6, TextTwice DEF Refused
<1>8. /\ DOMAIN call'.args \ {"seq", "zip", "zipFails"} = {"sid", "t", "data"}
      /\ call'.args["seq"] = a.seq
      /\ Meant("sid")' = Text(a.sid) /\ Meant("t")' = Text(a.t) /\ Meant("data")' = Text(a.data)
  BY <1>1 DEF Meant
<1>9. gotSeq' = a.seq
  <2>1. SeqMsg(7, setSeq(a.seq), b).seq = setSeq(a.seq)
    BY DEF SeqMsg, Msg
  <2> QED
    BY <1>1, <1>2, <2>1, Words
<1> QED
  BY <1>7, <1>8, <1>9 DEF RoundTrip

\* Several records of the binlog, each read as it was packed.
LEMMA MultiSyncDataArrives ==
  ASSUME SendMultiSyncData
  PROVE  RoundTrip'
<1>1. PICK from \in {"cpp", "c"}, to \in {"cpp", "c"},
           a \in [seq : Numbers, items : UNION {[1..n -> Items] : n \in 1..2}] :
        LET m == packMultiSyncData(a)
        IN  /\ "MultiSyncData" \in DOMAIN Types[to]
            /\ call' = [kind |-> "MultiSyncData", from |-> from, to |-> to, args |-> a]
            /\ gotSeq' = IF m.seq = NoSeq THEN 0
                         ELSE IF to = "cpp" THEN getSeq(m.seq) ELSE get_seq(m.seq)
            /\ got' = IF Types[to]["MultiSyncData"] = m.type
                      THEN parseItems(m)
                      ELSE Refused
  BY DEF SendMultiSyncData, Exchange
<1> DEFINE packed == [i \in 1..Len(a.items) |-> packSyncDataItem(a.items[i])]
           m == SeqMsg(9, setSeq(a.seq), Key("m", packed))
<1>2. packMultiSyncData(a) = m
  BY DEF packMultiSyncData
<1>3. m.seq = setSeq(a.seq) /\ m.type = 9 /\ m.body["m"] = packed
  BY DEF SeqMsg, Msg, Key
<1>4. \A i \in 1..Len(a.items) : a.items[i] \in Items
  <2>1. PICK n \in 1..2 : a.items \in [1..n -> Items]
    OBVIOUS
  <2>2. a.items \in Seq(Items) /\ Len(a.items) = n
    BY <2>1
  <2> QED
    BY <2>1, <2>2
<1>5. \A i \in 1..Len(a.items) : parseSyncData(Msg(7, packSyncDataItem(a.items[i]))) = a.items[i]
  BY <1>4, ItemRead
<1>6. /\ Len(packed) = Len(a.items)
      /\ \A i \in 1..Len(a.items) : packed[i] = packSyncDataItem(a.items[i])
  <2>1. Len(a.items) \in Nat
    OBVIOUS
  <2> QED
    BY <2>1
<1> HIDE DEF m, packed
<1>7. parseItems(m) = [items |-> [i \in 1..Len(a.items) |-> a.items[i]]]
  BY <1>3, <1>5, <1>6 DEF parseItems
<1>8. [i \in 1..Len(a.items) |-> a.items[i]] = a.items
  OBVIOUS
<1>9. gotSeq' = a.seq
  BY <1>1, <1>2, <1>3, Words
<1>10. to = "cpp" /\ Types["cpp"]["MultiSyncData"] = 9
  BY <1>1 DEF Types, cTypes, cppTypes
<1>11. got' = [items |-> a.items]
  BY <1>1, <1>2, <1>3, <1>7, <1>8, <1>10
<1>12. got' # Refused /\ DOMAIN got' = {"items"} /\ Text(got'["items"]) = Text(a.items)
  BY <1>11 DEF Refused
<1>13. /\ DOMAIN call'.args \ {"seq", "zip", "zipFails"} = {"items"}
       /\ call'.args["seq"] = a.seq
       /\ Meant("items")' = Text(a.items)
  BY <1>1 DEF Meant
<1> QED
  BY <1>9, <1>12, <1>13 DEF RoundTrip

\* The answer to a record.
LEMMA SyncDataReplyArrives ==
  ASSUME SendSyncDataReply
  PROVE  RoundTrip'
<1>1. PICK from \in {"cpp", "c"}, to \in {"cpp", "c"}, a \in [seq : Numbers] :
        LET m == packSyncDataReply(8, a)
        IN  /\ "SyncDataReply" \in DOMAIN Types[to]
            /\ call' = [kind |-> "SyncDataReply", from |-> from, to |-> to, args |-> a]
            /\ gotSeq' = IF m.seq = NoSeq THEN 0
                         ELSE IF to = "cpp" THEN getSeq(m.seq) ELSE get_seq(m.seq)
            /\ got' = IF Types[to]["SyncDataReply"] = m.type
                      THEN parseSyncDataReply(m)
                      ELSE Refused
  BY DEF SendSyncDataReply, Exchange
<1> DEFINE m == SeqMsg(8, setSeq(a.seq), NoKey)
<1>2. packSyncDataReply(8, a) = m
  BY DEF packSyncDataReply
<1>3. m.seq = setSeq(a.seq) /\ m.type = 8
  BY DEF SeqMsg, Msg
<1> HIDE DEF m
<1>4. gotSeq' = a.seq
  BY <1>1, <1>2, <1>3, Words
<1>5. to = "cpp" /\ Types["cpp"]["SyncDataReply"] = 8
  BY <1>1 DEF Types, cTypes, cppTypes
<1>6. got' = NoKey
  BY <1>1, <1>2, <1>3, <1>5, Words DEF parseSyncDataReply
<1>7. got' # Refused
  BY <1>6, NothingRead
<1>8. /\ DOMAIN call'.args \ {"seq", "zip", "zipFails"} = {}
      /\ call'.args["seq"] = a.seq
  BY <1>1
<1> QED
  BY <1>4, <1>7, <1>8 DEF RoundTrip

\* The answer to a chunk, or to a record of the C library.
LEMMA ChunkReplyArrives ==
  ASSUME SendChunkReply
  PROVE  RoundTrip'
<1>1. PICK from \in {"cpp", "c"}, to \in {"cpp", "c"}, a \in [seq : Numbers] :
        LET m == IF from = "cpp" THEN packSyncDataReply(10, a) ELSE pack_sync_data_reply(a)
        IN  /\ call' = [kind |-> "ChunkReply", from |-> from, to |-> to, args |-> a]
            /\ gotSeq' = IF m.seq = NoSeq THEN 0
                         ELSE IF to = "cpp" THEN getSeq(m.seq) ELSE get_seq(m.seq)
            /\ got' = IF Types[to]["ChunkReply"] = m.type
                      THEN IF to = "cpp" THEN parseSyncDataReply(m) ELSE parse_sync_data_reply(m)
                      ELSE Refused
  BY DEF SendChunkReply, Exchange
<1> DEFINE m == SeqMsg(10, setSeq(a.seq), NoKey)
<1>2. packSyncDataReply(10, a) = m /\ pack_sync_data_reply(a) = m
  <2>1. set_seq(a.seq) = setSeq(a.seq)
    BY Words
  <2> QED
    BY <2>1 DEF packSyncDataReply, pack_sync_data_reply
<1>3. m.seq = setSeq(a.seq) /\ m.type = 10
  BY DEF SeqMsg, Msg
<1> HIDE DEF m
<1>4. gotSeq' = a.seq
  BY <1>1, <1>2, <1>3, Words
<1>5. Types[to]["ChunkReply"] = 10
  BY DEF Types, cTypes, cppTypes
<1>6. got' = NoKey
  BY <1>1, <1>2, <1>3, <1>5, Words DEF parseSyncDataReply, parse_sync_data_reply
<1>7. got' # Refused
  BY <1>6, NothingRead
<1>8. /\ DOMAIN call'.args \ {"seq", "zip", "zipFails"} = {}
      /\ call'.args["seq"] = a.seq
  BY <1>1
<1> QED
  BY <1>4, <1>7, <1>8 DEF RoundTrip

\* A consumer asks for a message.
LEMMA FetchMqArrives ==
  ASSUME SendFetchMq
  PROVE  RoundTrip'
<1>1. PICK from \in {"cpp", "c"}, to \in {"cpp", "c"},
           a \in [block : Bit, queue : Nullable, user : Nullable, passwd : Nullable] :
        LET m == IF from = "cpp" THEN packFetchMq(a) ELSE pack_fetch_mq(a)
        IN  /\ call' = [kind |-> "FetchMq", from |-> from, to |-> to, args |-> a]
            /\ gotSeq' = IF m.seq = NoSeq THEN 0
                         ELSE IF to = "cpp" THEN getSeq(m.seq) ELSE get_seq(m.seq)
            /\ got' = IF Types[to]["FetchMq"] = m.type
                      THEN IF to = "cpp" THEN parseFetchMq(m) ELSE parse_fetch_mq(m)
                      ELSE Refused
  BY DEF SendFetchMq, Exchange
<1> DEFINE b == Key(bK, a.block) ++ Opt(qK, a.queue) ++ Opt(uK, a.user) ++ Opt(pK, a.passwd)
<1>2. /\ packFetchMq(a) = Msg(11, b) /\ pack_fetch_mq(a) = Msg(11, b)
  BY DEF packFetchMq, pack_fetch_mq, bK, qK, uK, pK
<1>3. /\ Read(b, bK, 0) = a.block /\ Read(b, qK, Empty) = Text(a.queue)
      /\ Read(b, uK, Empty) = Text(a.user) /\ Read(b, pK, Empty) = Text(a.passwd)
  <2>1. /\ bK # qK /\ bK # uK /\ bK # pK /\ qK # uK /\ qK # pK /\ uK # pK
    BY DEF bK, qK, uK, pK
  <2> QED
    BY <2>1, FirstKey, AddOpt, TextIs
<1> HIDE DEF b
<1>4. LET g == [block |-> Read(b, bK, 0), queue |-> Read(b, qK, Empty),
                user |-> Read(b, uK, Empty), passwd |-> Read(b, pK, Empty)]
      IN  parseFetchMq(Msg(11, b)) = g /\ parse_fetch_mq(Msg(11, b)) = g
  BY <1>3 DEF parseFetchMq, parse_fetch_mq, KeyOr, Has, Read, Holds, Msg, bK, qK, uK, pK, Empty
<1>5. Types[to]["FetchMq"] = 11 /\ Msg(11, b).type = 11
  BY DEF Types, cTypes, cppTypes, Msg
<1>6. got' = [block |-> Read(b, bK, 0), queue |-> Read(b, qK, Empty), user |-> Read(b, uK, Empty),
              passwd |-> Read(b, pK, Empty)]
  BY <1>1, <1>2, <1>4, <1>5
<1>7. /\ got' # Refused /\ DOMAIN got' = {"block", "queue", "user", "passwd"}
      /\ Text(got'["block"]) = Text(a.block) /\ Text(got'["queue"]) = Text(a.queue)
      /\ Text(got'["user"]) = Text(a.user) /\ Text(got'["passwd"]) = Text(a.passwd)
  BY <1>3, <1>6, TextTwice DEF Refused
<1>8. /\ DOMAIN call'.args \ {"seq", "zip", "zipFails"} = {"block", "queue", "user", "passwd"}
      /\ "seq" \notin DOMAIN call'.args
      /\ Meant("block")' = Text(a.block) /\ Meant("queue")' = Text(a.queue)
      /\ Meant("user")' = Text(a.user) /\ Meant("passwd")' = Text(a.passwd)
  BY <1>1 DEF Meant
<1> QED
  BY <1>7, <1>8 DEF RoundTrip

\* The answer to it, with a message.
LEMMA FetchMqReplyArrives ==
  ASSUME SendFetchMqReply
  PROVE  RoundTrip'
<1>1. PICK from \in {"cpp", "c"}, to \in {"cpp", "c"},
           a \in [ret : Bit, err : Nullable, data : Strings] :
        LET m == IF from = "cpp" THEN packFetchMqReply(a) ELSE pack_fetch_mq_reply(a)
        IN  /\ call' = [kind |-> "FetchMqReply", from |-> from, to |-> to, args |-> a]
            /\ gotSeq' = IF m.seq = NoSeq THEN 0
                         ELSE IF to = "cpp" THEN getSeq(m.seq) ELSE get_seq(m.seq)
            /\ got' = IF Types[to]["FetchMqReply"] = m.type
                      THEN IF to = "cpp" THEN parseFetchMqReply(m) ELSE parse_fetch_mq_reply(m)
                      ELSE Refused
  BY DEF SendFetchMqReply, Exchange
<1> DEFINE b == Key(retK, a.ret) ++ ErrOf(a) ++ Key(dK, a.data)
<1>2. packFetchMqReply(a) = Msg(12, b) /\ pack_fetch_mq_reply(a) = Msg(12, b)
  BY DEF packFetchMqReply, pack_fetch_mq_reply, retK, dK
<1>3. /\ Holds(b, retK) = TRUE /\ Holds(b, dK) = TRUE
      /\ a.ret # 0 => Holds(b, errK) = TRUE
      /\ Read(b, retK, 0) = a.ret
      /\ Read(b, dK, Empty) = a.data
      /\ a.ret # 0 => Read(b, errK, Empty) = Text(a.err)
  <2>1. retK # dK /\ retK # errK /\ dK # errK
    BY DEF retK, dK, errK
  <2> DEFINE e == ErrOf(a)
  <2>2. /\ \A f : a.ret # 0 => Holds(f ++ e, errK) = TRUE
        /\ \A f, default : a.ret # 0 => Read(f ++ e, errK, default) = Read(f, errK, Text(a.err))
        /\ \A f, key : errK # key => Holds(f ++ e, key) = Holds(f, key)
        /\ \A f, key, default : errK # key => Read(f ++ e, key, default) = Read(f, key, default)
    BY AddErr, ZenonT(40)
  <2> HIDE DEF e
  <2>3. b = Key(retK, a.ret) ++ e ++ Key(dK, a.data)
    BY DEF e
  <2> HIDE DEF b
  <2>4. /\ a.ret # 0 => Holds(b, errK) = TRUE
        /\ a.ret # 0 => Read(b, errK, Empty) = Text(a.err)
    BY <2>1, <2>2, <2>3, FirstKey, AddKey
  <2>5. Holds(b, retK) = TRUE /\ Holds(b, dK) = TRUE
    BY <2>1, <2>2, <2>3, FirstKey, AddKey
  <2>6. Read(b, retK, 0) = a.ret /\ Read(b, dK, Empty) = a.data
    BY <2>1, <2>2, <2>3, FirstKey, AddKey
  <2> QED
    BY <2>4, <2>5, <2>6
<1> HIDE DEF b
<1>4. LET g == [ret |-> a.ret, data |-> Read(b, dK, Empty),
                err |-> IF a.ret = 0 THEN Empty ELSE Read(b, errK, Empty)]
      IN  parseFetchMqReply(Msg(12, b)) = g /\ parse_fetch_mq_reply(Msg(12, b)) = g
  BY <1>3 DEF parseFetchMqReply, parse_fetch_mq_reply, ErrThere, ErrRead, Has, Read, Holds,
              Msg, retK, dK, errK, Empty
<1>5. Types[to]["FetchMqReply"] = 12 /\ Msg(12, b).type = 12
  BY DEF Types, cTypes, cppTypes, Msg
<1>6. got' = [ret |-> a.ret, data |-> Read(b, dK, Empty),
              err |-> IF a.ret = 0 THEN Empty ELSE Read(b, errK, Empty)]
  BY <1>1, <1>2, <1>4, <1>5
<1>7. /\ got' # Refused /\ DOMAIN got' = {"ret", "data", "err"}
      /\ Text(got'["ret"]) = Text(a.ret) /\ Text(got'["data"]) = Text(a.data)
      /\ Text(got'["err"]) = IF a.ret = 0 THEN Empty ELSE Text(a.err)
  BY <1>3, <1>6, TextTwice DEF Refused
<1>8. /\ DOMAIN call'.args \ {"seq", "zip", "zipFails"} = {"ret", "data", "err"}
      /\ "seq" \notin DOMAIN call'.args
      /\ Meant("ret")' = Text(a.ret) /\ Meant("data")' = Text(a.data)
      /\ Meant("err")' = IF a.ret = 0 THEN Empty ELSE Text(a.err)
  BY <1>1 DEF Meant, Empty
<1> QED
  BY <1>7, <1>8 DEF RoundTrip

\* A new queue.  The types differ, so both sides use one library.
LEMMA CreateQueueArrives ==
  ASSUME SendCreateQueue
  PROVE  RoundTrip'
<1>1. PICK from, to, a :
        LET m == IF from = "cpp" THEN packCreateQueue(a) ELSE pack_create_queue(a)
        IN  /\ from \in {"cpp", "c"} /\ to \in {"cpp", "c"}
            /\ a \in NewQueues(from)
            /\ call' = [kind |-> "CreateQueue", from |-> from, to |-> to, args |-> a]
            /\ gotSeq' = IF m.seq = NoSeq THEN 0
                         ELSE IF to = "cpp" THEN getSeq(m.seq) ELSE get_seq(m.seq)
            /\ got' = IF Types[to]["CreateQueue"] = m.type
                      THEN IF to = "cpp" THEN parseCreateQueue(m) ELSE parse_create_queue(m)
                      ELSE Refused
  BY DEF SendCreateQueue, Exchange
<1> SUFFICES ASSUME Exchanged' PROVE RoundTrip'
  BY DEF RoundTrip
<1>2. from = to
  BY <1>1 DEF Exchanged, QueueKinds
<1>3. /\ a.name \in Strings
      /\ a.user \in Nullable /\ a.passwd \in Nullable
      /\ a.auth_user \in Nullable /\ a.auth_passwd \in Nullable
      /\ from = "c" => Null \notin {a.user, a.passwd, a.auth_user, a.auth_passwd}
  BY <1>1, NullAssumption DEF NewQueues, TextOf, Nullable
<1> DEFINE b == Key(nameK, a.name) ++ Opt(uK, a.user) ++ Opt(pK, a.passwd)
                ++ Opt(authUserK, a.auth_user) ++ Opt(authPasswdK, a.auth_passwd)
                ++ Key(sidK, a.sid)
<1>4. /\ packCreateQueue(a) = Msg(101, b)
      /\ from = "c" => pack_create_queue(a) = Msg(100, b)
  <2>1. packCreateQueue(a) = Msg(101, b)
    BY DEF packCreateQueue, Auth, nameK, uK, pK, authUserK, authPasswdK, sidK
  <2>2. ASSUME from = "c" PROVE pack_create_queue(a) = Msg(100, b)
    <3>1. \A k : /\ Opt(k, a.user) = Key(k, a.user) /\ Opt(k, a.passwd) = Key(k, a.passwd)
                 /\ Opt(k, a.auth_user) = Key(k, a.auth_user)
                 /\ Opt(k, a.auth_passwd) = Key(k, a.auth_passwd)
      BY <1>3, <2>2 DEF Opt
    <3>2. pack_create_queue(a) = Msg(100, Key(nameK, a.name) ++ Key(uK, a.user) ++ Key(pK, a.passwd)
             ++ Key(authUserK, a.auth_user) ++ Key(authPasswdK, a.auth_passwd) ++ Key(sidK, a.sid))
      BY DEF pack_create_queue, auth, nameK, uK, pK, authUserK, authPasswdK, sidK
    <3> QED
      BY <3>1, <3>2
  <2> QED
    BY <2>1, <2>2
<1>5. /\ Holds(b, nameK) = TRUE
      /\ Read(b, nameK, Empty) = a.name /\ Read(b, sidK, 0) = a.sid
      /\ Read(b, uK, Empty) = Text(a.user) /\ Read(b, pK, Empty) = Text(a.passwd)
      /\ Read(b, authUserK, Empty) = Text(a.auth_user)
      /\ Read(b, authPasswdK, Empty) = Text(a.auth_passwd)
  <2>1. /\ nameK # uK /\ nameK # pK /\ nameK # authUserK /\ nameK # authPasswdK /\ nameK # sidK
        /\ uK # pK /\ uK # authUserK /\ uK # authPasswdK /\ uK # sidK
        /\ pK # authUserK /\ pK # authPasswdK /\ pK # sidK
        /\ authUserK # authPasswdK /\ authUserK # sidK /\ authPasswdK # sidK
    BY DEF nameK, uK, pK, authUserK, authPasswdK, sidK
  <2> QED
    BY <2>1, FirstKey, AddOpt, AddKey, TextIs
<1> HIDE DEF b
<1>6. LET g == [name |-> Read(b, nameK, Empty), user |-> Read(b, uK, Empty),
                passwd |-> Read(b, pK, Empty), auth_user |-> Read(b, authUserK, Empty),
                auth_passwd |-> Read(b, authPasswdK, Empty)]
               ++ Key("sid", Read(b, sidK, 0))
      IN  parseCreateQueue(Msg(101, b)) = g /\ parse_create_queue(Msg(100, b)) = g
  BY <1>5 DEF parseCreateQueue, parse_create_queue, AuthRead, KeyOr, Has, Read, Holds, Msg,
              nameK, uK, pK, authUserK, authPasswdK, sidK, Empty
<1>7. /\ Types["cpp"]["CreateQueue"] = Msg(101, b).type
      /\ Types["c"]["CreateQueue"] = Msg(100, b).type
  BY DEF Types, cTypes, cppTypes, Msg
<1>8. got' = [name |-> Read(b, nameK, Empty), user |-> Read(b, uK, Empty),
              passwd |-> Read(b, pK, Empty), auth_user |-> Read(b, authUserK, Empty),
              auth_passwd |-> Read(b, authPasswdK, Empty)]
             ++ Key("sid", Read(b, sidK, 0))
  BY <1>1, <1>2, <1>4, <1>6, <1>7
<1>9. /\ got' # Refused
      /\ DOMAIN got' = {"name", "user", "passwd", "auth_user", "auth_passwd", "sid"}
      /\ Text(got'["name"]) = Text(a.name) /\ Text(got'["user"]) = Text(a.user)
      /\ Text(got'["passwd"]) = Text(a.passwd) /\ Text(got'["auth_user"]) = Text(a.auth_user)
      /\ Text(got'["auth_passwd"]) = Text(a.auth_passwd) /\ Text(got'["sid"]) = Text(a.sid)
  <2>1. /\ DOMAIN got' = {"name", "user", "passwd", "auth_user", "auth_passwd", "sid"}
        /\ got'["name"] = Read(b, nameK, Empty) /\ got'["sid"] = Read(b, sidK, 0)
        /\ got'["user"] = Read(b, uK, Empty) /\ got'["passwd"] = Read(b, pK, Empty)
        /\ got'["auth_user"] = Read(b, authUserK, Empty)
        /\ got'["auth_passwd"] = Read(b, authPasswdK, Empty)
    BY <1>8 DEF ++, Key
  <2> QED
    BY <1>5, <2>1, TextTwice DEF Refused
<1>10. /\ DOMAIN call'.args \ {"seq", "zip", "zipFails"}
           = {"name", "user", "passwd", "auth_user", "auth_passwd", "sid"}
      /\ "seq" \notin DOMAIN call'.args
      /\ Meant("name")' = Text(a.name) /\ Meant("user")' = Text(a.user)
      /\ Meant("passwd")' = Text(a.passwd) /\ Meant("auth_user")' = Text(a.auth_user)
      /\ Meant("auth_passwd")' = Text(a.auth_passwd) /\ Meant("sid")' = Text(a.sid)
  BY <1>1 DEF Meant, NewQueues
<1> QED
  BY <1>9, <1>10 DEF RoundTrip

\* The answer to a new queue.
LEMMA CreateQueueReplyArrives ==
  ASSUME SendCreateQueueReply
  PROVE  RoundTrip'
<1>1. PICK from \in {"cpp", "c"}, to \in {"cpp", "c"}, a \in [ret : Bit, err : Strings] :
        LET m == IF from = "cpp" THEN packCreateQueueReply(a) ELSE pack_create_queue_reply(a)
        IN  /\ call' = [kind |-> "CreateQueueReply", from |-> from, to |-> to, args |-> a]
            /\ gotSeq' = IF m.seq = NoSeq THEN 0
                         ELSE IF to = "cpp" THEN getSeq(m.seq) ELSE get_seq(m.seq)
            /\ got' = IF Types[to]["CreateQueueReply"] = m.type
                      THEN IF to = "cpp" THEN parseCreateQueueReply(m)
                           ELSE parse_create_queue_reply(m)
                      ELSE Refused
  BY DEF SendCreateQueueReply, Exchange, Errors
<1> SUFFICES ASSUME Exchanged' PROVE RoundTrip'
  BY DEF RoundTrip
<1>2. from = to
  BY <1>1 DEF Exchanged, QueueKinds
<1>3. PICK b, type : /\ IsAnswer(b, a) /\ type = Types[from]["CreateQueueReply"]
                     /\ from = "cpp" => packCreateQueueReply(a) = Msg(type, b)
                     /\ from = "c" => pack_create_queue_reply(a) = Msg(type, b)
  <2>1. packCreateQueueReply(a) = Msg(102, Key(retK, a.ret) ++ ErrOf(a))
    BY DEF packCreateQueueReply, retK
  <2>2. pack_create_queue_reply(a) = Msg(101, Key(retK, a.ret) ++ Key(errK, a.err))
    BY DEF pack_create_queue_reply, retK, errK
  <2>3. Types["cpp"]["CreateQueueReply"] = 102 /\ Types["c"]["CreateQueueReply"] = 101
    BY DEF Types, cTypes, cppTypes
  <2>4. CASE from = "cpp"
    BY <2>1, <2>3, <2>4, AnswerPacked
  <2>5. CASE from = "c"
    BY <2>2, <2>3, <2>5, AnswerPacked
  <2> QED
    BY <2>4, <2>5
<1>4. RetRead(Msg(type, b)) = [ret |-> a.ret, err |-> IF a.ret = 0 THEN Empty ELSE Text(a.err)]
  BY <1>3, AnswerRead
<1>5. Msg(type, b).type = type
  BY DEF Msg
<1>6. got' = [ret |-> a.ret, err |-> IF a.ret = 0 THEN Empty ELSE Text(a.err)]
  BY <1>1, <1>2, <1>3, <1>4, <1>5 DEF parseCreateQueueReply, parse_create_queue_reply
<1>7. /\ got' # Refused /\ DOMAIN got' = {"ret", "err"} /\ Text(got'["ret"]) = Text(a.ret)
      /\ Text(got'["err"]) = IF a.ret = 0 THEN Empty ELSE Text(a.err)
  BY <1>6, TextTwice DEF Refused
<1>8. /\ DOMAIN call'.args \ {"seq", "zip", "zipFails"} = {"ret", "err"}
      /\ "seq" \notin DOMAIN call'.args
      /\ Meant("ret")' = Text(a.ret)
      /\ Meant("err")' = IF a.ret = 0 THEN Empty ELSE Text(a.err)
  BY <1>1 DEF Meant, Empty
<1> QED
  BY <1>7, <1>8 DEF RoundTrip

\* The end of a queue.
LEMMA DelQueueArrives ==
  ASSUME SendDelQueue
  PROVE  RoundTrip'
<1>1. PICK from, to, a :
        LET m == IF from = "cpp" THEN packDelQueue(a) ELSE pack_del_queue(a)
        IN  /\ from \in {"cpp", "c"} /\ to \in {"cpp", "c"}
            /\ a \in Auths(from)
            /\ call' = [kind |-> "DelQueue", from |-> from, to |-> to, args |-> a]
            /\ gotSeq' = IF m.seq = NoSeq THEN 0
                         ELSE IF to = "cpp" THEN getSeq(m.seq) ELSE get_seq(m.seq)
            /\ got' = IF Types[to]["DelQueue"] = m.type
                      THEN IF to = "cpp" THEN parseDelQueue(m) ELSE parse_del_queue(m)
                      ELSE Refused
  BY DEF SendDelQueue, Exchange
<1> SUFFICES ASSUME Exchanged' PROVE RoundTrip'
  BY DEF RoundTrip
<1>2. from = to
  BY <1>1 DEF Exchanged, QueueKinds
<1>3. /\ a.name \in Strings
      /\ a.user \in Nullable /\ a.passwd \in Nullable
      /\ a.auth_user \in Nullable /\ a.auth_passwd \in Nullable
      /\ from = "c" => Null \notin {a.user, a.passwd, a.auth_user, a.auth_passwd}
  BY <1>1, NullAssumption DEF Auths, TextOf, Nullable
<1> DEFINE b == Key(nameK, a.name) ++ Opt(uK, a.user) ++ Opt(pK, a.passwd)
                ++ Opt(authUserK, a.auth_user) ++ Opt(authPasswdK, a.auth_passwd)
<1>4. /\ packDelQueue(a) = Msg(103, b)
      /\ from = "c" => pack_del_queue(a) = Msg(102, b)
  <2>1. packDelQueue(a) = Msg(103, b)
    BY DEF packDelQueue, Auth, nameK, uK, pK, authUserK, authPasswdK
  <2>2. ASSUME from = "c" PROVE pack_del_queue(a) = Msg(102, b)
    <3>1. \A k : /\ Opt(k, a.user) = Key(k, a.user) /\ Opt(k, a.passwd) = Key(k, a.passwd)
                 /\ Opt(k, a.auth_user) = Key(k, a.auth_user)
                 /\ Opt(k, a.auth_passwd) = Key(k, a.auth_passwd)
      BY <1>3, <2>2 DEF Opt
    <3>2. pack_del_queue(a) = Msg(102, Key(nameK, a.name) ++ Key(uK, a.user) ++ Key(pK, a.passwd)
             ++ Key(authUserK, a.auth_user) ++ Key(authPasswdK, a.auth_passwd))
      BY DEF pack_del_queue, auth, nameK, uK, pK, authUserK, authPasswdK
    <3> QED
      BY <3>1, <3>2
  <2> QED
    BY <2>1, <2>2
<1>5. /\ Holds(b, nameK) = TRUE
      /\ Read(b, nameK, Empty) = a.name
      /\ Read(b, uK, Empty) = Text(a.user) /\ Read(b, pK, Empty) = Text(a.passwd)
      /\ Read(b, authUserK, Empty) = Text(a.auth_user)
      /\ Read(b, authPasswdK, Empty) = Text(a.auth_passwd)
  <2>1. /\ nameK # uK /\ nameK # pK /\ nameK # authUserK /\ nameK # authPasswdK
        /\ uK # pK /\ uK # authUserK /\ uK # authPasswdK
        /\ pK # authUserK /\ pK # authPasswdK
        /\ authUserK # authPasswdK
    BY DEF nameK, uK, pK, authUserK, authPasswdK
  <2> QED
    BY <2>1, FirstKey, AddOpt, AddKey, TextIs
<1> HIDE DEF b
<1>6. LET g == [name |-> Read(b, nameK, Empty), user |-> Read(b, uK, Empty),
                passwd |-> Read(b, pK, Empty), auth_user |-> Read(b, authUserK, Empty),
                auth_passwd |-> Read(b, authPasswdK, Empty)]
      IN  parseDelQueue(Msg(103, b)) = g /\ parse_del_queue(Msg(102, b)) = g
  BY <1>5 DEF parseDelQueue, parse_del_queue, AuthRead, KeyOr, Has, Read, Holds, Msg,
              nameK, uK, pK, authUserK, authPasswdK, Empty
<1>7. /\ Types["cpp"]["DelQueue"] = Msg(103, b).type
      /\ Types["c"]["DelQueue"] = Msg(102, b).type
  BY DEF Types, cTypes, cppTypes, Msg
<1>8. got' = [name |-> Read(b, nameK, Empty), user |-> Read(b, uK, Empty),
              passwd |-> Read(b, pK, Empty), auth_user |-> Read(b, authUserK, Empty),
              auth_passwd |-> Read(b, authPasswdK, Empty)]
  BY <1>1, <1>2, <1>4, <1>6, <1>7
<1>9. /\ got' # Refused /\ DOMAIN got' = {"name", "user", "passwd", "auth_user", "auth_passwd"}
      /\ Text(got'["name"]) = Text(a.name) /\ Text(got'["user"]) = Text(a.user)
      /\ Text(got'["passwd"]) = Text(a.passwd) /\ Text(got'["auth_user"]) = Text(a.auth_user)
      /\ Text(got'["auth_passwd"]) = Text(a.auth_passwd)
  <2>1. /\ DOMAIN got' = {"name", "user", "passwd", "auth_user", "auth_passwd"}
        /\ got'["name"] = Read(b, nameK, Empty)
        /\ got'["user"] = Read(b, uK, Empty) /\ got'["passwd"] = Read(b, pK, Empty)
        /\ got'["auth_user"] = Read(b, authUserK, Empty)
        /\ got'["auth_passwd"] = Read(b, authPasswdK, Empty)
    BY <1>8
  <2> QED
    BY <1>5, <2>1, TextTwice DEF Refused
<1>10. /\ DOMAIN call'.args \ {"seq", "zip", "zipFails"}
           = {"name", "user", "passwd", "auth_user", "auth_passwd"}
      /\ "seq" \notin DOMAIN call'.args
      /\ Meant("name")' = Text(a.name) /\ Meant("user")' = Text(a.user)
      /\ Meant("passwd")' = Text(a.passwd) /\ Meant("auth_user")' = Text(a.auth_user)
      /\ Meant("auth_passwd")' = Text(a.auth_passwd)
  BY <1>1 DEF Meant, Auths
<1> QED
  BY <1>9, <1>10 DEF RoundTrip

\* The answer to the end of a queue.
LEMMA DelQueueReplyArrives ==
  ASSUME SendDelQueueReply
  PROVE  RoundTrip'
<1>1. PICK from \in {"cpp", "c"}, to \in {"cpp", "c"}, a \in [ret : Bit, err : Strings] :
        LET m == IF from = "cpp" THEN packDelQueueReply(a) ELSE pack_del_queue_reply(a)
        IN  /\ call' = [kind |-> "DelQueueReply", from |-> from, to |-> to, args |-> a]
            /\ gotSeq' = IF m.seq = NoSeq THEN 0
                         ELSE IF to = "cpp" THEN getSeq(m.seq) ELSE get_seq(m.seq)
            /\ got' = IF Types[to]["DelQueueReply"] = m.type
                      THEN IF to = "cpp" THEN parseDelQueueReply(m) ELSE parse_del_queue_reply(m)
                      ELSE Refused
  BY DEF SendDelQueueReply, Exchange, Errors
<1> SUFFICES ASSUME Exchanged' PROVE RoundTrip'
  BY DEF RoundTrip
<1>2. from = to
  BY <1>1 DEF Exchanged, QueueKinds
<1>3. PICK b, type : /\ IsAnswer(b, a) /\ type = Types[from]["DelQueueReply"]
                     /\ from = "cpp" => packDelQueueReply(a) = Msg(type, b)
                     /\ from = "c" => pack_del_queue_reply(a) = Msg(type, b)
  <2>1. packDelQueueReply(a) = Msg(104, Key(retK, a.ret) ++ ErrOf(a))
    BY DEF packDelQueueReply, retK
  <2>2. pack_del_queue_reply(a) = Msg(103, Key(retK, a.ret) ++ Key(errK, a.err))
    BY DEF pack_del_queue_reply, retK, errK
  <2>3. Types["cpp"]["DelQueueReply"] = 104 /\ Types["c"]["DelQueueReply"] = 103
    BY DEF Types, cTypes, cppTypes
  <2>4. CASE from = "cpp"
    BY <2>1, <2>3, <2>4, AnswerPacked
  <2>5. CASE from = "c"
    BY <2>2, <2>3, <2>5, AnswerPacked
  <2> QED
    BY <2>4, <2>5
<1>4. RetRead(Msg(type, b)) = [ret |-> a.ret, err |-> IF a.ret = 0 THEN Empty ELSE Text(a.err)]
  BY <1>3, AnswerRead
<1>5. Msg(type, b).type = type
  BY DEF Msg
<1>6. got' = [ret |-> a.ret, err |-> IF a.ret = 0 THEN Empty ELSE Text(a.err)]
  BY <1>1, <1>2, <1>3, <1>4, <1>5 DEF parseDelQueueReply, parse_del_queue_reply
<1>7. /\ got' # Refused /\ DOMAIN got' = {"ret", "err"} /\ Text(got'["ret"]) = Text(a.ret)
      /\ Text(got'["err"]) = IF a.ret = 0 THEN Empty ELSE Text(a.err)
  BY <1>6, TextTwice DEF Refused
<1>8. /\ DOMAIN call'.args \ {"seq", "zip", "zipFails"} = {"ret", "err"}
      /\ "seq" \notin DOMAIN call'.args
      /\ Meant("ret")' = Text(a.ret)
      /\ Meant("err")' = IF a.ret = 0 THEN Empty ELSE Text(a.err)
  BY <1>1 DEF Meant, Empty
<1> QED
  BY <1>7, <1>8 DEF RoundTrip

\* A master refuses a slave.
LEMMA SyncErrArrives ==
  ASSUME SendSyncErr
  PROVE  RoundTrip'
<1>1. PICK from \in {"cpp", "c"}, to \in {"cpp", "c"}, a \in [ret : Bit, err : Strings] :
        LET m == packSyncErr(a)
        IN  /\ "SyncErr" \in DOMAIN Types[to]
            /\ call' = [kind |-> "SyncErr", from |-> from, to |-> to, args |-> a]
            /\ gotSeq' = IF m.seq = NoSeq THEN 0
                         ELSE IF to = "cpp" THEN getSeq(m.seq) ELSE get_seq(m.seq)
            /\ got' = IF Types[to]["SyncErr"] = m.type
                      THEN parseSyncErr(m)
                      ELSE Refused
  BY DEF SendSyncErr, Exchange, Errors
<1> DEFINE b == Key(retK, a.ret) ++ Key(errK, a.err)
<1>2. packSyncErr(a) = Msg(105, b)
  BY DEF packSyncErr, retK, errK
<1>3. /\ Holds(b, retK) = TRUE /\ Holds(b, errK) = TRUE /\ Read(b, retK, 0) = a.ret
      /\ Read(b, errK, Empty) = a.err
  <2>1. retK # errK
    BY DEF retK, errK
  <2> QED
    BY <2>1, FirstKey, AddKey
<1> HIDE DEF b
<1>4. parseSyncErr(Msg(105, b)) =
        [ret |-> Read(b, retK, 0), err |-> Read(b, errK, Empty)]
  BY <1>3 DEF parseSyncErr, KeyOr, Has, Read, Holds, Msg, retK, errK, Empty
<1>5. to = "cpp" /\ Types["cpp"]["SyncErr"] = 105 /\ Msg(105, b).type = 105
  BY <1>1 DEF Types, cTypes, cppTypes, Msg
<1>6. got' = [ret |-> Read(b, retK, 0), err |-> Read(b, errK, Empty)]
  BY <1>1, <1>2, <1>4, <1>5
<1>7. /\ got' # Refused /\ DOMAIN got' = {"ret", "err"} /\ Text(got'["ret"]) = Text(a.ret)
      /\ Text(got'["err"]) = Text(a.err)
  BY <1>3, <1>6, TextTwice DEF Refused
<1>8. /\ DOMAIN call'.args \ {"seq", "zip", "zipFails"} = {"ret", "err"}
      /\ "seq" \notin DOMAIN call'.args
      /\ Meant("ret")' = Text(a.ret) /\ Meant("err")' = Text(a.err)
  BY <1>1 DEF Meant
<1> QED
  BY <1>7, <1>8 DEF RoundTrip

(***************************************************************************)
(* The theorem.                                                            *)
(***************************************************************************)
LEMMA NextReads ==
  ASSUME PocoNext
  PROVE  RoundTrip'
<1>1. CASE SendRecvData
  BY <1>1, RecvDataArrives
<1>2. CASE SendRecvDataReply
  BY <1>2, RecvDataReplyArrives
<1>3. CASE SendReport
  BY <1>3, ReportArrives
<1>4. CASE SendReportReply
  BY <1>4, ReportReplyArrives
<1>5. CASE SendNewConn
  BY <1>5, NewConnArrives
<1>6. CASE SendSyncData
  BY <1>6, SyncDataArrives
<1>7. CASE SendMultiSyncData
  BY <1>7, MultiSyncDataArrives
<1>8. CASE SendSyncDataReply
  BY <1>8, SyncDataReplyArrives
<1>9. CASE SendChunkReply
  BY <1>9, ChunkReplyArrives
<1>10. CASE SendFetchMq
  BY <1>10, FetchMqArrives
<1>11. CASE SendFetchMqReply
  BY <1>11, FetchMqReplyArrives
<1>12. CASE SendCreateQueue
  BY <1>12, CreateQueueArrives
<1>13. CASE SendCreateQueueReply
  BY <1>13, CreateQueueReplyArrives
<1>14. CASE SendDelQueue
  BY <1>14, DelQueueArrives
<1>15. CASE SendDelQueueReply
  BY <1>15, DelQueueReplyArrives
<1>16. CASE SendSyncErr
  BY <1>16, SyncErrArrives
<1> QED
  BY <1>1, <1>2, <1>3, <1>4, <1>5, <1>6, <1>7, <1>8, <1>9, <1>10, <1>11, <1>12,
     <1>13, <1>14, <1>15, <1>16 DEF PocoNext

\* CwxMqPoco and cwx_mq_poco.c: whatever one packs the other one accepts and
\* reads as it was packed, for all strings, numbers and widths of a word.
THEOREM AlwaysReadAsPacked == PocoSpec => []RoundTrip
<1>1. PocoInit => RoundTrip
  BY DEF PocoInit, RoundTrip, Exchanged
<1>2. RoundTrip /\ [PocoNext]_pocoVars => RoundTrip'
  <2>1. ASSUME RoundTrip, UNCHANGED pocoVars
        PROVE  RoundTrip'
    BY <2>1 DEF pocoVars, RoundTrip, Exchanged, NotPacked, Meant
  <2> QED
    BY <2>1, NextReads
<1> QED
  BY <1>1, <1>2, PTL DEF PocoSpec
=============================================================================
