---------------------------- MODULE MCRpcStream ----------------------------
(***************************************************************************)
(* Instances of RpcStream for TLC: a buffer of three bytes, values shorter *)
(* than it, as long, and longer than two of them.                          *)
(***************************************************************************)
EXTENDS RpcStream

ValueLengths == {0, 1, 2, 3, 7}
Healthy == {"all"}
Faulty  == {"all", "part", "error"}
=============================================================================
