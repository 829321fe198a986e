------------------------------ MODULE MCBinLog ------------------------------
(***************************************************************************)
(* Small instances of BinLog for TLC.                                      *)
(***************************************************************************)
EXTENDS BinLog, TLC

\* Cursors are interchangeable.
CursorSymmetry == Permutations(Cursors)
=============================================================================
