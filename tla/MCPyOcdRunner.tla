---------------------------- MODULE MCPyOcdRunner ----------------------------
(***************************************************************************)
(* Model-checking instance of PyOcdRunner: every command, a zero and a     *)
(* non-zero flash address, one value for each probe option besides its    *)
(* absence, and an empty PYOCD_DAPARG.                                     *)
(***************************************************************************)
EXTENDS PyOcdRunner

MCFlashAddrs == {0, 4096}
=============================================================================
