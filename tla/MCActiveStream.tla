--------------------------- MODULE MCActiveStream --------------------------
(***************************************************************************)
(* Small instances of ActiveStream for TLC.                                *)
(***************************************************************************)
EXTENDS ActiveStream

KeySymmetry == Permutations(Keys)
=============================================================================
