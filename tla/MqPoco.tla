------------------------------- MODULE MqPoco -------------------------------
(***************************************************************************)
(* The messages between servers and clients: class CwxMqPoco of the servers   *)
(* (src/mq/common/CwxMqPoco.{h,cpp}, "cpp" here) and the C library of the     *)
(* clients (src/mq/interface/c/lib/cwx_mq_poco.{h,c}, "c"), which were written *)
(* apart and must agree on types, keys, defaults and mandatory keys.          *)
(*                                                                         *)
(* A message is a type, an optional sequence number before the body, and a    *)
(* body of keys with values.  A boolean is 0 or 1, as it is on the wire.      *)
(***************************************************************************)
EXTENDS Integers, Sequences

CONSTANTS
  Half,      \* a 64 bit number is two words below Half
  Strings,   \* the strings that are passed, with the empty one
  Numbers,   \* the sids, timestamps, chunk sizes, sessions and sequence numbers
  Null       \* a NULL pointer

ASSUME HalfAssumption == Half \in Nat \ {0, 1}

ASSUME NumbersAssumption == 0 \in Numbers /\ Numbers \subseteq 0..Half * Half - 1

ASSUME StringsAssumption == "" \in Strings

ASSUME NullAssumption == Null \notin Strings /\ Null \notin Numbers

VARIABLES
  call,    \* the last call of a pack function: library, kind, arguments, receiver
  got,     \* what the receiver has read in the body
  gotSeq   \* and the sequence number it has read

pocoVars == <<call, got, gotSeq>>

Nullable == Strings \cup {Null}
Bit == {0, 1}

(***************************************************************************)
(* Keys and sequence numbers.                                              *)
(***************************************************************************)
NoKey == <<>>
Key(key, v) == [k \in {key} |-> v]
f ++ g == [k \in DOMAIN f \cup DOMAIN g |-> IF k \in DOMAIN f THEN f[k] ELSE g[k]]

Opt(key, v) == IF v = Null THEN NoKey ELSE Key(key, v)
OptNot0(key, v) == IF v = 0 THEN NoKey ELSE Key(key, v)
Text(v) == IF v = Null THEN "" ELSE v
ErrOf(a) == IF a.ret = 0 THEN NoKey ELSE Key("err", Text(a.err))

Has(m, keys) == keys \subseteq DOMAIN m.body
KeyOr(m, key, default) == IF key \in DOMAIN m.body THEN m.body[key] ELSE default

\* Mutant: the words the other way round.
setSeq_Swapped(n) == <<n % Half, n \div Half>>

setSeq(n) == <<n \div Half, n % Half>>
getSeq(words) == words[1] * Half + words[2]

\* A receiver that misses a mandatory key refuses the message.
Refused == [refused |-> TRUE]

NoSeq == <<>>
NoMsg == [type |-> 0, seq |-> NoSeq, body |-> NoKey, whole |-> FALSE]
Msg(type, body) == [type |-> type, seq |-> NoSeq, body |-> body, whole |-> TRUE]
SeqMsg(type, words, body) == [Msg(type, body) EXCEPT !.seq = words]

(***************************************************************************)
(* The types.  The C library defines CWX_MQ_MSG_TYPE_SYNC_DATA_REPLY twice,   *)
(* and the second value counts: it answers a record as if it was a chunk,     *)
(* which the dispatch handler accepts.                                       *)
(***************************************************************************)
cppTypes ==
  [RecvData |-> 1, RecvDataReply |-> 2, Report |-> 3, ReportReply |-> 4, NewConn |-> 5,
   SyncData |-> 7, SyncDataReply |-> 8, MultiSyncData |-> 9, ChunkReply |-> 10,
   FetchMq |-> 11, FetchMqReply |-> 12, CreateQueue |-> 101, CreateQueueReply |-> 102,
   DelQueue |-> 103, DelQueueReply |-> 104, SyncErr |-> 105]

cTypes ==
  [RecvData |-> 1, RecvDataReply |-> 2, Report |-> 3, ReportReply |-> 4,
   SyncData |-> 7, ChunkReply |-> 10,
   FetchMq |-> 11, FetchMqReply |-> 12, CreateQueue |-> 100, CreateQueueReply |-> 101,
   DelQueue |-> 102, DelQueueReply |-> 103]

(***************************************************************************)
(* CwxMqPoco.  When the compression of a message fails it is sent as it is,    *)
(* and its attribute tells the receiver.                                     *)
(***************************************************************************)
\* Mutant: a password is packed with a user only.
packRecvData_NoPasswd(a) ==
  Msg(1, Key("d", a.data) ++ Opt("u", a.user) ++ (IF a.user = Null THEN NoKey ELSE Opt("p", a.passwd)))

packRecvData(a) == Msg(1, Key("d", a.data) ++ Opt("u", a.user) ++ Opt("p", a.passwd))

parseRecvData(m) ==
  IF Has(m, {"d"})
  THEN [data |-> m.body["d"], user |-> KeyOr(m, "u", ""), passwd |-> KeyOr(m, "p", "")]
  ELSE Refused

packRecvDataReply(a) == Msg(2, Key("ret", a.ret) ++ Key("sid", a.sid) ++ ErrOf(a))

\* The error is mandatory when ret tells of one.
ErrRead(m) == IF m.body["ret"] = 0 THEN "" ELSE m.body["err"]
ErrThere(m) == Has(m, {"ret"}) /\ (m.body["ret"] = 0 \/ Has(m, {"err"}))

parseRecvDataReply(m) ==
  IF Has(m, {"sid"}) /\ ErrThere(m)
  THEN [ret |-> m.body["ret"], sid |-> m.body["sid"], err |-> ErrRead(m)]
  ELSE Refused

packReportData(a) ==
  Msg(3, (IF a.newly = 1 THEN NoKey ELSE Key("sid", a.sid)) ++ OptNot0("chunk", a.chunk)
         ++ Opt("source", a.source) ++ Opt("u", a.user) ++ Opt("p", a.passwd)
         ++ OptNot0("zip", a.zip))

\* Without the sid the variable of the caller stays, which is 0.
parseReportData(m) ==
  [newly |-> IF Has(m, {"sid"}) THEN 0 ELSE 1, sid |-> KeyOr(m, "sid", 0),
   chunk |-> KeyOr(m, "chunk", 0), source |-> KeyOr(m, "source", ""),
   user |-> KeyOr(m, "u", ""), passwd |-> KeyOr(m, "p", ""), zip |-> KeyOr(m, "zip", 0)]

packReportDataReply(a) == Msg(4, Key("session", a.session))
parseReportDataReply(m) == IF Has(m, {"session"}) THEN [session |-> m.body["session"]] ELSE Refused

packReportNewConn(a) == Msg(5, Key("session", a.session))
parseReportNewConn(m) == IF Has(m, {"session"}) THEN [session |-> m.body["session"]] ELSE Refused

packSyncDataItem(a) == Key("sid", a.sid) ++ Key("t", a.t) ++ Key("d", a.data)

packSyncData(a) == SeqMsg(7, setSeq(a.seq), packSyncDataItem(a))

parseSyncData(m) ==
  IF Has(m, {"sid", "t", "d"})
  THEN [sid |-> m.body["sid"], t |-> m.body["t"], data |-> m.body["d"]]
  ELSE Refused

packMultiSyncData(a) ==
  SeqMsg(9, setSeq(a.seq), Key("m", [i \in 1..Len(a.items) |-> packSyncDataItem(a.items[i])]))

\* A chunk is read item by item.
parseItems(m) ==
  [items |-> [i \in 1..Len(m.body["m"]) |-> parseSyncData(Msg(7, m.body["m"][i]))]]

packSyncDataReply(type, a) == SeqMsg(type, setSeq(a.seq), NoKey)
parseSyncDataReply(m) == IF m.seq = NoSeq THEN Refused ELSE NoKey

packFetchMq(a) ==
  Msg(11, Key("b", a.block) ++ Opt("q", a.queue) ++ Opt("u", a.user) ++ Opt("p", a.passwd))

parseFetchMq(m) ==
  [block |-> KeyOr(m, "b", 0), queue |-> KeyOr(m, "q", ""),
   user |-> KeyOr(m, "u", ""), passwd |-> KeyOr(m, "p", "")]

packFetchMqReply(a) == Msg(12, Key("ret", a.ret) ++ ErrOf(a) ++ Key("d", a.data))

parseFetchMqReply(m) ==
  IF Has(m, {"d"}) /\ ErrThere(m)
  THEN [ret |-> m.body["ret"], err |-> ErrRead(m), data |-> m.body["d"]]
  ELSE Refused

Auth(a) ==
  Key("name", a.name) ++ Opt("u", a.user) ++ Opt("p", a.passwd)
  ++ Opt("auth_user", a.auth_user) ++ Opt("auth_passwd", a.auth_passwd)

AuthRead(m) ==
  [name |-> KeyOr(m, "name", ""), user |-> KeyOr(m, "u", ""), passwd |-> KeyOr(m, "p", ""),
   auth_user |-> KeyOr(m, "auth_user", ""), auth_passwd |-> KeyOr(m, "auth_passwd", "")]

packCreateQueue(a) == Msg(101, Auth(a) ++ Key("sid", a.sid))
parseCreateQueue(m) ==
  IF Has(m, {"name"}) THEN AuthRead(m) ++ Key("sid", KeyOr(m, "sid", 0)) ELSE Refused

RetRead(m) == IF ErrThere(m) THEN [ret |-> m.body["ret"], err |-> ErrRead(m)] ELSE Refused

packCreateQueueReply(a) == Msg(102, Key("ret", a.ret) ++ ErrOf(a))
parseCreateQueueReply(m) == RetRead(m)

packDelQueue(a) == Msg(103, Auth(a))
parseDelQueue(m) == IF Has(m, {"name"}) THEN AuthRead(m) ELSE Refused

packDelQueueReply(a) == Msg(104, Key("ret", a.ret) ++ ErrOf(a))
parseDelQueueReply(m) == RetRead(m)

packSyncErr(a) == Msg(105, Key("ret", a.ret) ++ Key("err", a.err))
parseSyncErr(m) ==
  IF Has(m, {"ret", "err"}) THEN [ret |-> m.body["ret"], err |-> m.body["err"]] ELSE Refused

(***************************************************************************)
(* cwx_mq_poco.c.                                                           *)
(***************************************************************************)
set_seq(n) == <<n \div Half, n % Half>>
get_seq(words) == words[1] * Half + words[2]

\* When the compression fails the function still reports a message, of which
\* neither the header nor the body was written.
pack_mq(a) ==
  IF a.zip = 1 /\ a.zipFails
  THEN NoMsg
  ELSE Msg(1, Key("d", a.data) ++ Opt("u", a.user) ++ Opt("p", a.passwd))

parse_mq(m) ==
  IF Has(m, {"d"})
  THEN [data |-> m.body["d"], user |-> KeyOr(m, "u", Null), passwd |-> KeyOr(m, "p", Null)]
  ELSE Refused

pack_mq_reply(a) == Msg(2, Key("ret", a.ret) ++ Key("sid", a.sid) ++ ErrOf(a))

parse_mq_reply(m) ==
  IF Has(m, {"sid"}) /\ ErrThere(m)
  THEN [ret |-> m.body["ret"], sid |-> m.body["sid"], err |-> ErrRead(m)]
  ELSE Refused

pack_sync_report(a) ==
  Msg(3, (IF a.newly = 1 THEN NoKey ELSE Key("sid", a.sid)) ++ OptNot0("chunk", a.chunk)
         ++ Opt("source", a.source) ++ Opt("u", a.user) ++ Opt("p", a.passwd)
         ++ OptNot0("zip", a.zip))

parse_sync_report(m) ==
  [newly |-> IF Has(m, {"sid"}) THEN 0 ELSE 1, sid |-> KeyOr(m, "sid", 0),
   chunk |-> KeyOr(m, "chunk", 0), source |-> KeyOr(m, "source", ""),
   user |-> KeyOr(m, "u", ""), passwd |-> KeyOr(m, "p", ""), zip |-> KeyOr(m, "zip", 0)]

pack_sync_report_reply(a) == Msg(4, Key("session", a.session))
parse_sync_report_reply(m) == IF Has(m, {"session"}) THEN [session |-> m.body["session"]] ELSE Refused

pack_sync_data(a) == SeqMsg(7, set_seq(a.seq), Key("sid", a.sid) ++ Key("t", a.t) ++ Key("d", a.data))

parse_sync_data(m) ==
  IF Has(m, {"sid", "t", "d"})
  THEN [sid |-> m.body["sid"], t |-> m.body["t"], data |-> m.body["d"]]
  ELSE Refused

pack_sync_data_reply(a) == SeqMsg(10, set_seq(a.seq), NoKey)
parse_sync_data_reply(m) == NoKey

pack_fetch_mq(a) ==
  Msg(11, Key("b", a.block) ++ Opt("q", a.queue) ++ Opt("u", a.user) ++ Opt("p", a.passwd))

\* A missing b leaves the variable of the caller as it was.
parse_fetch_mq(m) ==
  [block |-> KeyOr(m, "b", 0), queue |-> KeyOr(m, "q", ""),
   user |-> KeyOr(m, "u", ""), passwd |-> KeyOr(m, "p", "")]

pack_fetch_mq_reply(a) == Msg(12, Key("ret", a.ret) ++ ErrOf(a) ++ Key("d", a.data))

parse_fetch_mq_reply(m) ==
  IF Has(m, {"d"}) /\ ErrThere(m)
  THEN [ret |-> m.body["ret"], err |-> ErrRead(m), data |-> m.body["d"]]
  ELSE Refused

\* The strings must not be NULL here.
auth(a) ==
  Key("name", a.name) ++ Key("u", a.user) ++ Key("p", a.passwd)
  ++ Key("auth_user", a.auth_user) ++ Key("auth_passwd", a.auth_passwd)

pack_create_queue(a) == Msg(100, auth(a) ++ Key("sid", a.sid))
parse_create_queue(m) == AuthRead(m) ++ Key("sid", KeyOr(m, "sid", 0))

\* The error is packed in any case.
pack_create_queue_reply(a) == Msg(101, Key("ret", a.ret) ++ Key("err", a.err))
parse_create_queue_reply(m) == RetRead(m)

pack_del_queue(a) == Msg(102, auth(a))
parse_del_queue(m) == AuthRead(m)

pack_del_queue_reply(a) == Msg(103, Key("ret", a.ret) ++ Key("err", a.err))
parse_del_queue_reply(m) == RetRead(m)

(***************************************************************************)
(* An exchange: one side packs, the other one looks at the type and parses.   *)
(***************************************************************************)
Types == [cpp |-> cppTypes, c |-> cTypes]

NoCall == [kind |-> "none"]

\* Args(from) are the arguments that library from can be called with.
Exchange(kind, Args(_), Pack(_, _), Parse(_, _)) ==
  \E from, to \in {lib \in {"cpp", "c"} : kind \in DOMAIN Types[lib]} : \E a \in Args(from) :
    LET m == Pack(from, a)
    IN  /\ call' = [kind |-> kind, from |-> from, to |-> to, args |-> a]
        /\ gotSeq' = IF m.seq = NoSeq THEN 0
                     ELSE IF to = "cpp" THEN getSeq(m.seq) ELSE get_seq(m.seq)
        /\ got' = IF Types[to][kind] = m.type THEN Parse(to, m) ELSE Refused

\* Users and passwords; only the names of the C library must not be NULL.
TextOf(from) == IF from = "c" THEN Strings ELSE Nullable

Auths(from) ==
  [name : Strings, user : TextOf(from), passwd : TextOf(from),
   auth_user : TextOf(from), auth_passwd : TextOf(from)]

NewQueues(from) ==
  [name : Strings, user : TextOf(from), passwd : TextOf(from),
   auth_user : TextOf(from), auth_passwd : TextOf(from), sid : Numbers]

Errors(from) == [ret : Bit, err : Strings]
Items == [sid : Numbers, t : {1}, data : Strings]

SendRecvData ==
  Exchange("RecvData",
    LAMBDA from : [data : Strings, user : Nullable, passwd : Nullable, zip : Bit, zipFails : BOOLEAN],
    LAMBDA from, a : IF from = "cpp" THEN packRecvData(a) ELSE pack_mq(a),
    LAMBDA to, m : IF to = "cpp" THEN parseRecvData(m) ELSE parse_mq(m))

SendRecvDataReply ==
  Exchange("RecvDataReply",
    LAMBDA from : [ret : Bit, err : Nullable, sid : Numbers],
    LAMBDA from, a : IF from = "cpp" THEN packRecvDataReply(a) ELSE pack_mq_reply(a),
    LAMBDA to, m : IF to = "cpp" THEN parseRecvDataReply(m) ELSE parse_mq_reply(m))

SendReport ==
  Exchange("Report",
    LAMBDA from : [newly : Bit, sid : Numbers, chunk : Numbers, source : Nullable,
                   user : Nullable, passwd : Nullable, zip : Bit],
    LAMBDA from, a : IF from = "cpp" THEN packReportData(a) ELSE pack_sync_report(a),
    LAMBDA to, m : IF to = "cpp" THEN parseReportData(m) ELSE parse_sync_report(m))

SendReportReply ==
  Exchange("ReportReply",
    LAMBDA from : [session : Numbers],
    LAMBDA from, a : IF from = "cpp" THEN packReportDataReply(a) ELSE pack_sync_report_reply(a),
    LAMBDA to, m : IF to = "cpp" THEN parseReportDataReply(m) ELSE parse_sync_report_reply(m))

SendNewConn ==
  Exchange("NewConn",
    LAMBDA from : [session : Numbers],
    LAMBDA from, a : packReportNewConn(a),
    LAMBDA to, m : parseReportNewConn(m))

SendSyncData ==
  Exchange("SyncData",
    LAMBDA from : [seq : Numbers, sid : Numbers, t : {1}, data : Strings],
    LAMBDA from, a : IF from = "cpp" THEN packSyncData(a) ELSE pack_sync_data(a),
    LAMBDA to, m : IF to = "cpp" THEN parseSyncData(m) ELSE parse_sync_data(m))

SendMultiSyncData ==
  Exchange("MultiSyncData",
    LAMBDA from : [seq : Numbers, items : UNION {[1..n -> Items] : n \in 1..2}],
    LAMBDA from, a : packMultiSyncData(a),
    LAMBDA to, m : parseItems(m))

SendSyncDataReply ==
  Exchange("SyncDataReply",
    LAMBDA from : [seq : Numbers],
    LAMBDA from, a : packSyncDataReply(8, a),
    LAMBDA to, m : parseSyncDataReply(m))

SendChunkReply ==
  Exchange("ChunkReply",
    LAMBDA from : [seq : Numbers],
    LAMBDA from, a : IF from = "cpp" THEN packSyncDataReply(10, a) ELSE pack_sync_data_reply(a),
    LAMBDA to, m : IF to = "cpp" THEN parseSyncDataReply(m) ELSE parse_sync_data_reply(m))

SendFetchMq ==
  Exchange("FetchMq",
    LAMBDA from : [block : Bit, queue : Nullable, user : Nullable, passwd : Nullable],
    LAMBDA from, a : IF from = "cpp" THEN packFetchMq(a) ELSE pack_fetch_mq(a),
    LAMBDA to, m : IF to = "cpp" THEN parseFetchMq(m) ELSE parse_fetch_mq(m))

SendFetchMqReply ==
  Exchange("FetchMqReply",
    LAMBDA from : [ret : Bit, err : Nullable, data : Strings],
    LAMBDA from, a : IF from = "cpp" THEN packFetchMqReply(a) ELSE pack_fetch_mq_reply(a),
    LAMBDA to, m : IF to = "cpp" THEN parseFetchMqReply(m) ELSE parse_fetch_mq_reply(m))

SendCreateQueue ==
  Exchange("CreateQueue",
    NewQueues,
    LAMBDA from, a : IF from = "cpp" THEN packCreateQueue(a) ELSE pack_create_queue(a),
    LAMBDA to, m : IF to = "cpp" THEN parseCreateQueue(m) ELSE parse_create_queue(m))

SendCreateQueueReply ==
  Exchange("CreateQueueReply",
    Errors,
    LAMBDA from, a : IF from = "cpp" THEN packCreateQueueReply(a) ELSE pack_create_queue_reply(a),
    LAMBDA to, m : IF to = "cpp" THEN parseCreateQueueReply(m) ELSE parse_create_queue_reply(m))

SendDelQueue ==
  Exchange("DelQueue",
    Auths,
    LAMBDA from, a : IF from = "cpp" THEN packDelQueue(a) ELSE pack_del_queue(a),
    LAMBDA to, m : IF to = "cpp" THEN parseDelQueue(m) ELSE parse_del_queue(m))

SendDelQueueReply ==
  Exchange("DelQueueReply",
    Errors,
    LAMBDA from, a : IF from = "cpp" THEN packDelQueueReply(a) ELSE pack_del_queue_reply(a),
    LAMBDA to, m : IF to = "cpp" THEN parseDelQueueReply(m) ELSE parse_del_queue_reply(m))

SendSyncErr ==
  Exchange("SyncErr",
    Errors,
    LAMBDA from, a : packSyncErr(a),
    LAMBDA to, m : parseSyncErr(m))

PocoInit == call = NoCall /\ got = NoKey /\ gotSeq = 0

PocoNext ==
  /\ call = NoCall
  /\ \/ SendRecvData \/ SendRecvDataReply
     \/ SendReport \/ SendReportReply \/ SendNewConn
     \/ SendSyncData \/ SendMultiSyncData \/ SendSyncDataReply \/ SendChunkReply
     \/ SendFetchMq \/ SendFetchMqReply
     \/ SendCreateQueue \/ SendCreateQueueReply \/ SendDelQueue \/ SendDelQueueReply
     \/ SendSyncErr

PocoSpec == PocoInit /\ [][PocoNext]_pocoVars

(***************************************************************************)
(* Properties.                                                             *)
(***************************************************************************)
QueueKinds == {"CreateQueue", "CreateQueueReply", "DelQueue", "DelQueueReply"}

\* A failed compression leaves no message.
NotPacked == call.kind = "RecvData" /\ call.from = "c" /\ call.args.zip = 1 /\ call.args.zipFails

\* The two libraries number the queue messages differently (TypesAgree).
Exchanged ==
  /\ call # NoCall /\ ~NotPacked
  /\ call.kind \in QueueKinds => call.from = call.to

\* What an argument means to the receiver: NULL and the empty string are one, no
\* error is told with a success, and a new source has no sid.
Meant(key) ==
  IF key = "err" /\ call.kind # "SyncErr" /\ call.args.ret = 0 THEN ""
  ELSE IF key = "sid" /\ call.kind = "Report" /\ call.args.newly = 1 THEN 0
  ELSE Text(call.args[key])

\* Whatever one library packs the other one accepts, and reads the arguments
\* from it that were packed, with the default for the ones left out; the
\* sequence number that a reply must repeat is read as it was written, for every
\* combination of its two words.
RoundTrip ==
  Exchanged =>
    /\ got # Refused
    /\ "seq" \in DOMAIN call.args => gotSeq = call.args.seq
    /\ \A key \in DOMAIN call.args \ {"seq", "zip", "zipFails"} :
         key \in DOMAIN got /\ Text(got[key]) = Meant(key)

\* The libraries give one message one type: what one packs the other one takes
\* for it.  The types of the queue messages differ.
TypesAgree == call # NoCall /\ ~NotPacked => got # Refused
=============================================================================
