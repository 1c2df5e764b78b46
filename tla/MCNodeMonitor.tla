---------------------------- MODULE MCNodeMonitor ----------------------------
(* A node with one required and one optional link, whose listener accepts   *)
(* two more connections: a failure of either kind of link can meet           *)
(* connections that are pending, anonymous, authenticated or being closed.   *)
EXTENDS NodeMonitor
=============================================================================
