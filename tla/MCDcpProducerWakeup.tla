------------------------ MODULE MCDcpProducerWakeup ------------------------
(***************************************************************************)
(* Instances of DcpProducerWakeup for TLC.                                 *)
(***************************************************************************)
EXTENDS DcpProducerWakeup, TLC

Symmetry == Permutations(Streams) \union Permutations(Threads)
=============================================================================
