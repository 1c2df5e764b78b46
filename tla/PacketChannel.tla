---------------------------- MODULE PacketChannel ----------------------------
(***************************************************************************)
(* What a connection between two net::Clients promises the code above it:  *)
(* the packets of each end reach the handler of the other end one by one,  *)
(* in the order in which they were pushed, none twice and none skipped,    *)
(* until somebody closes; and as long as nobody closes, all of them do.    *)
(***************************************************************************)
EXTENDS Naturals, Sequences

CONSTANT Ends   \* the two ends

VARIABLES
    sent,    \* how many packets each end has pushed
    got,     \* the numbers of the packets each end's handler was given
    closed   \* has an end closed?

vars == <<sent, got, closed>>

Other(e) == CHOOSE d \in Ends : d # e

Init ==
    /\ sent = [e \in Ends |-> 0]
    /\ got = [e \in Ends |-> <<>>]
    /\ closed = FALSE

Push(e) ==
    /\ sent' = [sent EXCEPT ![e] = @ + 1]
    /\ UNCHANGED <<got, closed>>

Deliver(e) ==
    /\ Len(got[e]) < sent[Other(e)]
    /\ got' = [got EXCEPT ![e] = Append(@, Len(@) + 1)]
    /\ UNCHANGED <<sent, closed>>

\* What was received before the close may still be delivered after it.
Close ==
    /\ closed' = TRUE
    /\ UNCHANGED <<sent, got>>

Next == Close \/ \E e \in Ends : Push(e) \/ Deliver(e)

Spec ==
    /\ Init
    /\ [][Next]_vars
    /\ \A e \in Ends : WF_vars(~closed /\ Deliver(e))
=============================================================================
