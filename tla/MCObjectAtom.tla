---------------------------- MODULE MCObjectAtom ----------------------------
(***************************************************************************)
(* Instances of ObjectAtom for TLC.  Keys are numbers in the order of      *)
(* std::string; NulKey stands for the key "a\0...", whose c_str() is "a".  *)
(***************************************************************************)
EXTENDS ObjectAtom, TLC

CONSTANTS o1, o2, a1, a2, a3, a4, a5, bad

Key    == 0..2
NoKey  == 0
KeyA   == 1
NulKey == 3
SomeKeys == {NoKey, KeyA, NulKey}

RankOf   == [k \in Keys |-> k]
Plain    == [k \in Keys |-> k]
CutAtNul == [k \in Keys |-> IF k = NulKey THEN KeyA ELSE k]

\* Atoms of known types are interchangeable, and so are objects.
Interchangeable == Permutations({o1, o2}) \cup Permutations({a1, a2, a3, a4, a5})
=============================================================================
