---------------------------- MODULE MCWestSign ----------------------------
(***************************************************************************)
(* Model-checking instance of WestSign: every combination of options and   *)
(* build directory contents, with a zero and a nonzero alignment and slot  *)
(* size.                                                                   *)
(***************************************************************************)
EXTENDS WestSign

MCAligns == {0, 8}
MCSlotSizes == {0, 4096}
=============================================================================
