------------------------------ MODULE MCDbPool ------------------------------
(* Two users of two pools with one connection each, which may be lost and    *)
(* made again once.                                                          *)
EXTENDS DbPool
=============================================================================
