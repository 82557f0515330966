--------------------------- MODULE SequenceOrder ---------------------------
(***************************************************************************)
(* The order of the elements of a sequence.                                *)
(***************************************************************************)
EXTENDS Naturals, SequencesExt

Before(s, x, y) == \E i, j \in DOMAIN s : i < j /\ s[i] = x /\ s[j] = y
=============================================================================
