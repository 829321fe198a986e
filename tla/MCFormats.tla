----------------------------- MODULE MCFormats -----------------------------
(***************************************************************************)
(* Two parts that share nothing, checked in one run: a file of the binlog     *)
(* with its index, and the messages.                                        *)
(***************************************************************************)
EXTENDS BinLogFile, MqPoco

VARIABLE part  \* which of the two a behaviour is about

vars == <<part, fileVars, pocoVars>>

Init == part \in {"file", "poco"} /\ FileInit /\ PocoInit

Next ==
  \/ part = "file" /\ FileNext /\ UNCHANGED <<part, pocoVars>>
  \/ part = "poco" /\ PocoNext /\ UNCHANGED <<part, fileVars>>

Spec == Init /\ [][Next]_vars
=============================================================================
