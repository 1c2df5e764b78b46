--------------------------- MODULE MCSocketClient ---------------------------
(* Instances of SocketClient for TLC. *)
EXTENDS SocketClient

\* Two packets one way, the first across two chunks; one packet each way; and
\* one that is too long for its length field.
MCWorkloads ==
    {[e \in Ends |-> IF e = Opener THEN <<3, 2, 3>> ELSE <<>>],
     [e \in Ends |-> <<2>>],
     [e \in Ends |-> IF e = Opener THEN <<6>> ELSE <<>>]}

MCChunks == 1 .. 8
=============================================================================
