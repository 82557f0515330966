---------------------------- MODULE MCFileStream ----------------------------
(***************************************************************************)
(* An instance of FileStream for TLC: sizes of three bits, so that a       *)
(* length near the largest size_t wraps the position of a memory stream.   *)
(***************************************************************************)
EXTENDS FileStream

Bytes      == {0, 1}
AnyLength  == 0..SizeMax
=============================================================================
