------------------------------ MODULE MCGateway ------------------------------
(* Four users of a gate server that admits two: the limit is reached with    *)
(* a client that is closed and not yet drained, and a place becomes free.     *)
EXTENDS Gateway
=============================================================================
