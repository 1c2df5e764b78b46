-------------------------- MODULE MCNamedMailboxes --------------------------
(* NamedMailboxes on small clusters. *)
EXTENDS NamedMailboxes

CONSTANTS a, b, x, f

\* b dials a.
Pair == {<<b, a>>}

\* Every fetch waits on a for x of any node, the matcher "x@*".
At == [h \in Fetches |-> a]
Wants == [h \in Fetches |-> {x} \X Nodes]
=============================================================================
