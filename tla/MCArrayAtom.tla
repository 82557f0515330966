---------------------------- MODULE MCArrayAtom ----------------------------
(***************************************************************************)
(* Instances of ArrayAtom for TLC.                                         *)
(***************************************************************************)
EXTENDS ArrayAtom, TLC

CONSTANTS r1, r2, r3, r4, n1, n2, bad

Interchangeable == Permutations({r1, r2, r3, r4}) \cup Permutations({n1, n2})
=============================================================================
