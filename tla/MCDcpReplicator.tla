-------------------------- MODULE MCDcpReplicator --------------------------
(***************************************************************************)
(* Small instances of DcpReplicator for TLC.                               *)
(***************************************************************************)
EXTENDS DcpReplicator

AllConditions == Conditions
NoCondition == {}
=============================================================================
