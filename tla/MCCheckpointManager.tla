------------------------ MODULE MCCheckpointManager ------------------------
(***************************************************************************)
(* Small instances of CheckpointManager for TLC.                           *)
(***************************************************************************)
EXTENDS CheckpointManager

KeySymmetry == Permutations(Keys)
=============================================================================
