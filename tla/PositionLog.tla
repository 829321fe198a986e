---------------------------- MODULE PositionLog ----------------------------
(***************************************************************************)
(* What a sid log promises to its owner: a position that is written again    *)
(* and again, of which a crash may lose the latest values but never the      *)
(* position itself.                                                          *)
(***************************************************************************)
EXTENDS Integers, Sequences, SequencesExt

CONSTANT Positions

VARIABLES
  running,  \* is the log in service?
  cand      \* the positions that could be found after a crash, oldest first

vars == <<running, cand>>

\* What is written becomes safe in the order it was written.
Safer(s) == {SubSeq(s, n, Len(s)) : n \in 1..Len(s)}

Create(p) ==
  /\ running /\ cand = <<>>
  /\ cand' = <<p>>
  /\ UNCHANGED running

Log(p) ==
  /\ running /\ cand # <<>>
  /\ cand' \in Safer(Append(cand, p))
  /\ UNCHANGED running

Sync ==
  /\ running
  /\ cand' \in Safer(cand)
  /\ UNCHANGED running

\* Nobody needs the position any more.
Drop ==
  /\ running /\ cand # <<>>
  /\ cand' = <<>>
  /\ UNCHANGED running

\* The owner dies or the log goes out of service: one of the positions that
\* were not safe yet, or the last safe one, remains.
Stop ==
  /\ running /\ running' = FALSE
  /\ \/ cand = <<>> /\ cand' = cand
     \/ \E p \in ToSet(cand) : cand' = <<p>>

Start == ~running /\ running' = TRUE /\ UNCHANGED cand

Init == running = FALSE /\ cand = <<>>

Next == Sync \/ Drop \/ Stop \/ Start \/ \E p \in Positions : Create(p) \/ Log(p)

Spec == Init /\ [][Next]_vars
=============================================================================
