---------------------------- MODULE GatewayProofs ----------------------------
(***************************************************************************)
(* Proofs about Gateway for every number of users, every limit and every   *)
(* number of SIGINTs: the reference counts, the sessions, the cleanup and  *)
(* the end of the loop, and, when SIGINT does not fall into an accept,     *)
(* that Stop closes everybody.                                             *)
(***************************************************************************)
EXTENDS Gateway, TLAPS

(* An accept is dealt with inside one event batch, while the listener is in *)
(* the dispatcher, and its client has no session yet.                       *)
AcceptInv ==
    accepting # Nobody =>
        /\ loop = "events"
        /\ accepting \in clients
        /\ accepting \notin sessions

(* A connection that was not accepted has left no trace. *)
FreshInv ==
    \A c \in waiting : c \notin linked /\ c \notin closed

(* The three books about a session agree, and the gateway's clients are     *)
(* those that have one, and the client being accepted.                      *)
SessionInv ==
    /\ bound = sessions
    /\ players = sessions
    /\ up = clients
    /\ sessions \subseteq clients
    /\ \A c \in clients : c \in sessions \/ c = accepting

(* The dispatcher holds the gateway's clients and the one whose             *)
(* OnEventIOClose has run; closed_io_list_ holds the closed ones of them.   *)
LinkInv ==
    /\ clients \subseteq linked
    /\ \A c \in linked : c \in clients \/ c = front
    /\ front # Nobody => front \in queue /\ front \notin clients /\ loop = "drain"
    /\ queue \subseteq linked
    /\ queue \subseteq closed
    /\ closed \cap linked \subseteq queue

(* The cleanup callback has come only if the last client has gone, and no   *)
(* client comes after it.                                                   *)
CleanupInv ==
    /\ cleanup => listener # "open" /\ accepting = Nobody
    /\ ~cleanup => cleaned = 0
    /\ cleaned > 0 => cleaned = 1 /\ clients = {}

(* When the loop has ended the dispatcher's lists are empty. *)
ExitInv == loop = "exited" => linked = {}

(* After Stop nobody is accepted, and everybody is closed. *)
StopInv ==
    ~SignalInAccept /\ exit =>
        /\ listener # "open"
        /\ accepting = Nobody
        /\ clients \subseteq closed

GatewayInv ==
    /\ TypeOK
    /\ RefsBalance
    /\ AcceptInv
    /\ FreshInv
    /\ SessionInv
    /\ LinkInv
    /\ CleanupInv
    /\ ExitInv
    /\ StopInv

-----------------------------------------------------------------------------

\* The initial state, an idle loop and an open listener, satisfies the invariant.
LEMMA InitInv == Init => GatewayInv
<1> SUFFICES ASSUME Init PROVE GatewayInv OBVIOUS
<1> USE GatewayAssumption
<1>1. TypeOK
  <2>1. refs \in [Clients -> 0..3] BY DEF Init
  <2>2. cleaned \in Nat /\ stops \in 0..MaxStops BY DEF Init
  <2>3. loop \in {"frame", "events", "drain", "exited"} BY DEF Init
  <2>4. listener \in {"open", "closed", "gone"} BY DEF Init
  <2>5. exit \in BOOLEAN /\ cleanup \in BOOLEAN BY DEF Init
  <2> QED BY <2>1, <2>2, <2>3, <2>4, <2>5 DEF Init, TypeOK
<1>2. RefsBalance BY DEF Init, RefsBalance
<1>3. AcceptInv /\ FreshInv /\ SessionInv BY DEF Init, AcceptInv, FreshInv, SessionInv
<1>4. LinkInv /\ CleanupInv BY DEF Init, LinkInv, CleanupInv
<1>5. ExitInv /\ StopInv BY DEF Init, ExitInv, StopInv
<1> QED BY <1>1, <1>2, <1>3, <1>4, <1>5 DEF GatewayInv

\* Every step of the loop, of the users and of SIGINT preserves the invariant.
LEMMA StepInv == GatewayInv /\ [Next]_vars => GatewayInv'
<1> SUFFICES ASSUME GatewayInv, [Next]_vars PROVE GatewayInv' OBVIOUS
<1> USE GatewayAssumption DEF GatewayInv, TypeOK, RefsBalance, AcceptInv,
      FreshInv, SessionInv, LinkInv, CleanupInv, ExitInv, StopInv, io, held
<1>1. ASSUME NEW c \in Clients, AcceptRefused(c) PROVE GatewayInv'
  BY <1>1 DEF AcceptRefused
<1>2. ASSUME NEW c \in Clients, AcceptClient(c) PROVE GatewayInv'
  BY <1>2 DEF AcceptClient
<1>3. ASSUME NEW c \in Clients, CreateSession(c) PROVE GatewayInv'
  BY <1>3 DEF CreateSession
<1>4. ASSUME NEW c \in Clients, ClientCloses(c) PROVE GatewayInv'
  BY <1>4 DEF ClientCloses, Close
<1>5. CASE EventsHandled BY <1>5 DEF EventsHandled
<1>6. ASSUME NEW c \in Clients, DrainClient(c) PROVE GatewayInv'
  <2>1. CASE c \in up
    <3> USE <1>6, <2>1 DEF DrainClient, OnUserClientClose, CheckIfCleanupFinish
    <3>1. c \in sessions
      OBVIOUS
    <3>2. refs' = [refs EXCEPT ![c] = @ - 2] /\ refs[c] = 3
      BY <3>1
    <3>3. TypeOK' /\ RefsBalance'
      BY <3>1, <3>2
    <3>4. AcceptInv' /\ FreshInv' /\ SessionInv' /\ LinkInv'
      <4>1. AcceptInv' BY <3>1
      <4>2. FreshInv' BY <3>1
      <4>3. SessionInv' BY <3>1
      <4>4. LinkInv' BY <3>1
      <4> QED BY <4>1, <4>2, <4>3, <4>4
    <3>5. CleanupInv' /\ ExitInv' /\ StopInv'
      BY <3>1
    <3> QED BY <3>3, <3>4, <3>5
  <2>2. CASE c \notin up
    BY <1>6, <2>2 DEF DrainClient
  <2> QED BY <2>1, <2>2
<1>7. CASE PopClient BY <1>7 DEF PopClient
<1>8. CASE DrainListener BY <1>8 DEF DrainListener
<1>9. CASE Drained BY <1>9 DEF Drained
<1>10. CASE NextFrame BY <1>10 DEF NextFrame
<1>11. CASE Stop BY <1>11 DEF Stop, StopListener, Close
<1>12. CASE BeginCleanup BY <1>12 DEF BeginCleanup, StopListener, Close
<1>13. CASE Exited BY <1>13 DEF Exited, vars
<1>14. CASE UNCHANGED vars BY <1>14 DEF vars
<1> QED
  BY <1>1, <1>2, <1>3, <1>4, <1>5, <1>6, <1>7, <1>8, <1>9, <1>10, <1>11,
     <1>12, <1>13, <1>14 DEF Next, Dispatch

\* The invariant holds in every state.
LEMMA InvHolds == Spec => []GatewayInv
BY InitInv, StepInv, PTL DEF Spec

-----------------------------------------------------------------------------

\* However many users come and go and wherever SIGINT falls, the state of the
\* gate server keeps its types, a count of more than three holders included.
THEOREM TypeCorrect == Spec => []TypeOK
<1>1. GatewayInv => TypeOK BY DEF GatewayInv
<1> QED BY <1>1, InvHolds, PTL

\* The reference count of a client is the number of its holders (the gateway,
\* the session, the dispatcher): none is used after it is deleted or leaked.
THEOREM RefsAreHolders == Spec => []RefsBalance
<1>1. GatewayInv => RefsBalance BY DEF GatewayInv
<1> QED BY <1>1, InvHolds, PTL

\* session_ and players_ lead to live sessions of connected clients.
THEOREM SessionsAreAlive == Spec => []SessionsAlive
<1>1. GatewayInv => SessionsAlive BY DEF GatewayInv, SessionInv, SessionsAlive
<1> QED BY <1>1, InvHolds, PTL

\* Gateway::CheckIfCleanupFinish calls the callback at most once, when no
\* client is left.
THEOREM CleanupIsAnsweredOnce == Spec => []CleanupOnce
<1>1. GatewayInv => CleanupOnce BY DEF GatewayInv, CleanupInv, CleanupOnce
<1> QED BY <1>1, InvHolds, PTL

\* When Dispatch returns every client is deleted and no session is left.
THEOREM NothingAfterExit == Spec => []ExitClean
<1>1. GatewayInv => ExitClean
  BY DEF GatewayInv, ExitInv, SessionInv, LinkInv, RefsBalance, TypeOK, ExitClean
<1> QED BY <1>1, InvHolds, PTL

\* Unless SIGINT falls between clients_.insert and players_.push_front, Stop
\* closes every client of the gateway, and no other comes.
THEOREM StopReachesAll == ~SignalInAccept => (Spec => []StopKicksAll)
<1> SUFFICES ASSUME ~SignalInAccept PROVE Spec => []StopKicksAll
  OBVIOUS
<1>1. GatewayInv => StopKicksAll
  BY DEF GatewayInv, StopInv, StopKicksAll
<1> QED BY <1>1, InvHolds, PTL
=============================================================================
