-------------------------------- MODULE MCMc --------------------------------
(***************************************************************************)
(* The three parts of the mc server, each for itself, checked in one run: how *)
(* a host's messages are fetched, the queue with its clients, and the files.   *)
(***************************************************************************)
EXTENDS McSync, McQueue, McStore

VARIABLE part  \* which of them a behaviour is about

vars == <<part, syncVars, queueVars, storeVars>>

Init == part \in {"sync", "queue", "store"} /\ SyncInit /\ QueueInit /\ StoreInit

Next ==
  \/ part = "sync"  /\ SyncNext  /\ UNCHANGED <<part, queueVars, storeVars>>
  \/ part = "queue" /\ QueueNext /\ UNCHANGED <<part, syncVars, storeVars>>
  \/ part = "store" /\ StoreNext /\ UNCHANGED <<part, syncVars, queueVars>>

\* The fairness is about the behaviours of the first part.
Spec == Init /\ [][Next]_vars /\ SyncFairness
=============================================================================
