---------------------------- MODULE MCProcessIds ----------------------------
(* Instances of ProcessIds for TLC. *)
EXTENDS ProcessIds, TLC

\* Mailboxes of one kind are alike.
Alike == Permutations(SysBoxes) \cup Permutations(Boxes \ SysBoxes)
=============================================================================
