----------------------------- MODULE MessageLog -----------------------------
(***************************************************************************)
(* What the binlog promises to its users, the dispatcher, the queues and    *)
(* the receiving thread, without files, indexes, states of cursors or        *)
(* caches: a sequence of messages with growing sids, read in order by        *)
(* independent readers, whose old part may be dropped once every reader has  *)
(* passed it and whose newest part may be lost in a crash.                   *)
(***************************************************************************)
EXTENDS Integers, FiniteSets

CONSTANTS
  Readers,   \* the readers
  MaxSid     \* bound: messages have sids 1..MaxSid

VARIABLES
  open,      \* is the log in service?
  log,       \* the sids of the messages that can be read
  archive,   \* messages dropped from the log whose files still exist
  top,       \* the newest sid ever accepted since the log was opened
  pos        \* pos[r]: the last sid reader r is past, Closed if not reading

vars == <<open, log, archive, top, pos>>

Sids == 1..MaxSid

Closed == -1

Reading(r) == pos[r] # Closed

\* The messages in D may be dropped: they are the oldest, and no reader is
\* still before one of them or on it.
Droppable(D) ==
  /\ D \subseteq log
  /\ \A d \in D : /\ \A s \in log \ D : d < s
                  /\ \A r \in Readers : Reading(r) => d < pos[r]

\* Every file that is dropped is either removed or left aside.
Drop(D, added) ==
  /\ log' = (log \ D) \cup added
  /\ archive' \in {archive, archive \cup D}

\* A message is accepted; older ones may go.
Publish(s) ==
  /\ open
  /\ s > top
  /\ \E D \in SUBSET log : Droppable(D) /\ Drop(D, {s})
  /\ top' = s
  /\ UNCHANGED <<open, pos>>

\* Older messages go though none is accepted.
Trim ==
  /\ open
  /\ \E D \in (SUBSET log) \ {{}} : Droppable(D) /\ Drop(D, {})
  /\ UNCHANGED <<open, top, pos>>

\* A reader starts behind message s, or stops.
Attach(r, s) ==
  /\ open /\ ~Reading(r)
  /\ pos' = [pos EXCEPT ![r] = s]
  /\ UNCHANGED <<open, log, archive, top>>

Detach(r) ==
  /\ open /\ Reading(r)
  /\ pos' = [pos EXCEPT ![r] = Closed]
  /\ UNCHANGED <<open, log, archive, top>>

\* A reader is given the oldest message it has not seen.
Read(r) ==
  /\ open /\ Reading(r)
  /\ \E s \in log :
       /\ s > pos[r]
       /\ \A q \in log : q > pos[r] => s <= q
       /\ pos' = [pos EXCEPT ![r] = s]
  /\ UNCHANGED <<open, log, archive, top>>

\* The machine dies: what was set aside is all there is to find with the log
\* itself; the newest messages may be lost, the message that was being
\* accepted may be there or not, and what it would have dropped may be gone.
Crash ==
  /\ open /\ open' = FALSE
  /\ \E D \in SUBSET log, lost \in SUBSET log,
        a \in {{}} \cup {{s} : s \in {n \in Sids : n > top}} :
       /\ Droppable(D)
       /\ \A l \in lost : \A s \in log \ lost : s < l
       /\ log' \in {((log \cup archive) \ lost) \cup a, (((log \cup archive) \ D) \ lost) \cup a}
  /\ archive' = {}
  /\ top' = 0
  /\ pos' = [r \in Readers |-> Closed]

\* The log is opened again, with all that is left.
Reopen ==
  /\ ~open /\ open' = TRUE
  /\ \/ log = {} /\ top' = 0
     \/ top' \in log /\ \A s \in log : s <= top'
  /\ UNCHANGED <<log, archive, pos>>

Init ==
  /\ open = FALSE
  /\ log = {} /\ archive = {}
  /\ top = 0
  /\ pos = [r \in Readers |-> Closed]

Next ==
  \/ \E s \in Sids : Publish(s)
  \/ Trim
  \/ \E r \in Readers : Read(r) \/ Detach(r)
  \/ \E r \in Readers, s \in 0..MaxSid : Attach(r, s)
  \/ Crash \/ Reopen

Spec == Init /\ [][Next]_vars
=============================================================================
