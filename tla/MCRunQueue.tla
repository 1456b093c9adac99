----------------------------- MODULE MCRunQueue -----------------------------
(* Small instances of RunQueue for TLC. *)
EXTENDS RunQueue, TLC

CONSTANTS d1, d2

TwoDaemons == {d1, d2}
DaemonSymmetry == Permutations(TwoDaemons)
=============================================================================
