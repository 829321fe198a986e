-------------------------- MODULE BinLogRefinement --------------------------
(***************************************************************************)
(* BinLog implements MessageLog: files, rollovers, pruning, cached bounds,   *)
(* cursor states and the reconstruction at restart are invisible to the      *)
(* users of the log, as long as no disk operation returns an error.          *)
(***************************************************************************)
EXTENDS BinLog

\* The sids that the files in S hold, and that an init() will find in them.
Filed(S) == {s \in Sids : \E f \in S : \E i \in 1..Len(data[f]) : data[f][i] = s}

Found(S) == Filed(S) \cup {s \in Sids : \E f \in S : tail[f] = s}

InService == status = "up"

\* While the manager runs, the log is what the managed files hold, and the other
\* files are set aside.  While it is down, the log is what init() is going to
\* find in the files.
Readable == IF InService THEN Filed(managed) ELSE Found(disk)
SetAside == IF InService THEN Filed(disk \ managed) ELSE {}

\* How far each reader has come; a cursor that failed reads no more.
Reached == [c \in Cursors |-> CASE cursor[c].st = "ready"  -> cursor[c].sid
                                [] cursor[c].st = "unseek" -> cursor[c].seek
                                [] OTHER                   -> -1]

Abs == INSTANCE MessageLog WITH
  Readers <- Cursors,
  open    <- InService,
  log     <- Readable,
  archive <- SetAside,
  top     <- maxSid,
  pos     <- Reached

\* Every behaviour of the binlog manager is one of the message log: what is
\* accepted, dropped, read, lost and found again is as promised there.
ImplementsMessageLog == Abs!Spec

\* The threads that read (dispatch and queue) call again as long as they find
\* a message, and are told of new ones.
ReaderFairness == \A c \in Cursors : WF_vars(Seek(c) \/ NextCall(c))

FairSpec == Spec /\ ReaderFairness

Unread(c, s) ==
  /\ status = "up"
  /\ cursor[c].st \in {"unseek", "ready"}
  /\ Position(c) < s
  /\ s \in Retained

\* A reader that stays, and is not cut off by a crash or closed, comes to every
\* message that is there for it: it is never stuck on the end of a file, on a
\* cursor that was created before the first message, or behind a rollover.
ReadersCatchUp ==
  \A c \in Cursors, s \in Sids :
    Unread(c, s) ~> \/ status # "up" \/ cursor[c].st = "none"
                    \/ Position(c) >= s
=============================================================================
