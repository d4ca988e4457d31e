--------------------------- MODULE MCDcpConsumer ---------------------------
(***************************************************************************)
(* Small instances of DcpConsumer for TLC.                                 *)
(***************************************************************************)
EXTENDS DcpConsumer
=============================================================================
