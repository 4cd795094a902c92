------------------------------ MODULE MCCfbFont ------------------------------
(***************************************************************************)
(* Model-checking instance of CfbFont: two character codes, cells of 2 or  *)
(* 3 columns and 8 or 16 rows.  The glyphs have ink in their corners so    *)
(* that a swapped bit, column or element order shows; one is 9 rows tall   *)
(* and needs a 16-row cell.  The images are narrower than two cells of 3   *)
(* columns, so the crop beyond their edge is reached.                      *)
(***************************************************************************)
EXTENDS CfbFont

MCGlyphs ==
  {[w |-> 2, h |-> 3, ink |-> {<<0, 0>>, <<1, 2>>}],
   [w |-> 3, h |-> 8, ink |-> {<<0, 1>>, <<1, 4>>, <<2, 7>>}],
   [w |-> 1, h |-> 9, ink |-> {<<0, 0>>, <<0, 8>>}]}

\* a negative --y-offset cuts the top row off
MCYOffsets == {-1, 0, 2}

MCImages ==
  {[w |-> 4, h |-> 8, ink |-> {<<0, 0>>, <<1, 7>>, <<3, 2>>}],
   [w |-> 5, h |-> 16, ink |-> {<<0, 9>>, <<2, 3>>, <<4, 15>>}]}
=============================================================================
