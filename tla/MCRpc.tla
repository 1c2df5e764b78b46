-------------------------------- MODULE MCRpc --------------------------------
(* Instances of Rpc for TLC. *)
EXTENDS Rpc
=============================================================================
