------------------------------- MODULE Gateway -------------------------------
(***************************************************************************)
(* The gate server: event::Dispatcher's loop, net::Listener, the Gateway   *)
(* with its UserClients, the GateSessions of SessionManager and            *)
(* Gateserver::Stop, which the SIGINT handler calls on the loop's own      *)
(* thread at whatever instruction it has reached.  Closing is deferred:    *)
(* Close queues a client, and its OnClose comes when the loop drains       *)
(* closed_io_list_.  A client has up to three holders (the gateway, its    *)
(* session, the dispatcher) that let go of it at different times.          *)
(***************************************************************************)
EXTENDS Naturals, FiniteSets

CONSTANTS
    Clients,         \* the connections that users make, each once
    Nobody,          \* no client
    MaxConnections,  \* max_connections_
    MaxStops,        \* bound: SIGINTs
    SignalInAccept   \* may SIGINT interrupt the handling of an accept?

ASSUME GatewayAssumption ==
    /\ Nobody \notin Clients
    /\ IsFiniteSet(Clients)
    /\ MaxConnections \in Nat
    /\ MaxStops \in Nat
    /\ SignalInAccept \in BOOLEAN

VARIABLES
    loop,       \* where Dispatch stands: "frame", "events", "drain", "exited"
    exit,       \* exit_
    listener,   \* "open", "closed" (queued), "gone"
    waiting,    \* connections in the listener's backlog or not made yet
    accepting,  \* the client OnListenerAccept is dealing with
    linked,     \* the clients in io_list_
    closed,     \* closed_
    queue,      \* the clients in closed_io_list_
    front,      \* the client whose OnEventIOClose has run and that is not popped
    up,         \* connect_
    clients,    \* Gateway::clients_
    sessions,   \* live GateSessions, by client
    bound,      \* the clients whose session_ is set
    players,    \* SessionManager::players_, by client
    refs,       \* reference_count() of each client
    cleanup,    \* is_cleanup_
    cleaned,    \* how often cleanup_finsh_cb_ was called
    stops       \* SIGINTs so far

io == <<linked, closed, queue>>
held == <<clients, sessions, bound, players, refs, up>>
vars == <<loop, exit, listener, waiting, accepting, linked, closed, queue, front,
          up, clients, sessions, bound, players, refs, cleanup, cleaned, stops>>

Init ==
    /\ loop = "frame"
    /\ exit = FALSE
    /\ listener = "open"
    /\ waiting = Clients
    /\ accepting = Nobody
    /\ linked = {}
    /\ closed = {}
    /\ queue = {}
    /\ front = Nobody
    /\ up = {}
    /\ clients = {}
    /\ sessions = {}
    /\ bound = {}
    /\ players = {}
    /\ refs = [c \in Clients |-> 0]
    /\ cleanup = FALSE
    /\ cleaned = 0
    /\ stops = 0

-----------------------------------------------------------------------------
(* EventIO::Close *)

\* Close every client in C that is in the dispatcher and not yet closed.
Close(C) ==
    LET open == (C \cap linked) \ closed IN
    /\ closed' = closed \cup open
    /\ queue' = queue \cup open

StopListener ==
    listener' = IF listener = "open" THEN "closed" ELSE listener

-----------------------------------------------------------------------------
(* Gateway::OnListenerAccept, up to the points where SIGINT matters. *)

\* The limit is reached: the socket is closed and no client is made.
AcceptRefused(c) ==
    /\ loop = "events"
    /\ accepting = Nobody
    /\ listener = "open"
    /\ c \in waiting
    /\ Cardinality(clients) >= MaxConnections
    /\ waiting' = waiting \ {c}
    /\ UNCHANGED <<loop, exit, listener, accepting, io, front, held, cleanup,
                   cleaned, stops>>

\* new UserClient, Connect(clientfd): the client joins the dispatcher and,
\* through OnConnect, clients_.
AcceptClient(c) ==
    /\ loop = "events"
    /\ accepting = Nobody
    /\ listener = "open"
    /\ c \in waiting
    /\ Cardinality(clients) < MaxConnections
    /\ waiting' = waiting \ {c}
    /\ accepting' = c
    /\ refs' = [refs EXCEPT ![c] = 2]
    /\ linked' = linked \cup {c}
    /\ up' = up \cup {c}
    /\ clients' = clients \cup {c}
    /\ UNCHANGED <<loop, exit, listener, closed, queue, front, sessions, bound,
                   players, cleanup, cleaned, stops>>

\* Faulty: the reference is taken by the session and by its creator.
CreateSession_DoubleRetain(c) ==
    /\ accepting = c
    /\ sessions' = sessions \cup {c}
    /\ bound' = bound \cup {c}
    /\ refs' = [refs EXCEPT ![c] = @ + 2]
    /\ players' = players \cup {c}
    /\ accepting' = Nobody
    /\ UNCHANGED <<loop, exit, listener, waiting, io, front, up, clients,
                   cleanup, cleaned, stops>>

\* SessionManager::CreateSession: the session takes its reference, and then
\* joins players_.  Setup always succeeds.
CreateSession(c) ==
    /\ accepting = c
    /\ sessions' = sessions \cup {c}
    /\ bound' = bound \cup {c}
    /\ refs' = [refs EXCEPT ![c] = @ + 1]
    /\ players' = players \cup {c}
    /\ accepting' = Nobody
    /\ UNCHANGED <<loop, exit, listener, waiting, io, front, up, clients,
                   cleanup, cleaned, stops>>

-----------------------------------------------------------------------------
(* The rest of an event batch. *)

\* The user is gone, sends a broken packet, or sending fails.
ClientCloses(c) ==
    /\ loop = "events"
    /\ accepting = Nobody
    /\ c \in (up \cap linked) \ closed
    /\ Close({c})
    /\ UNCHANGED <<loop, exit, listener, waiting, accepting, linked, front, held,
                   cleanup, cleaned, stops>>

EventsHandled ==
    /\ loop = "events"
    /\ accepting = Nobody
    /\ loop' = "drain"
    /\ UNCHANGED <<exit, listener, waiting, accepting, io, front, held, cleanup,
                   cleaned, stops>>

-----------------------------------------------------------------------------
(* Draining closed_io_list_. *)

\* Faulty: the first client that goes ends the cleanup.
CheckIfCleanupFinish_NoEmptyTest(left) ==
    cleaned' = IF cleanup THEN cleaned + 1 ELSE cleaned

CheckIfCleanupFinish(left) ==
    cleaned' = IF cleanup /\ left = {} THEN cleaned + 1 ELSE cleaned

\* Faulty: the session stays in players_ after its client is gone.
OnUserClientClose_KeepPlayer(c) ==
    /\ up' = up \ {c}
    /\ sessions' = sessions \ {c}
    /\ bound' = bound \ {c}
    /\ clients' = clients \ {c}
    /\ refs' = [refs EXCEPT ![c] = @ - 1 - (IF c \in sessions THEN 1 ELSE 0)]
    /\ CheckIfCleanupFinish(clients \ {c})
    /\ UNCHANGED players

\* Faulty: the gateway forgets its own reference.
OnUserClientClose_NoRelease(c) ==
    /\ up' = up \ {c}
    /\ players' = players \ {c}
    /\ sessions' = sessions \ {c}
    /\ bound' = bound \ {c}
    /\ clients' = clients \ {c}
    /\ refs' = [refs EXCEPT ![c] = @ - (IF c \in bound THEN 1 ELSE 0)]
    /\ CheckIfCleanupFinish(clients \ {c})

\* Gateway::OnUserClientClose: the session leaves players_ and is destroyed
\* with its reference, session_ is reset, the gateway lets go.
OnUserClientClose(c) ==
    /\ up' = up \ {c}
    /\ players' = players \ {c}
    /\ sessions' = sessions \ {c}
    /\ bound' = bound \ {c}
    /\ clients' = clients \ {c}
    /\ refs' = [refs EXCEPT ![c] = @ - 1 - (IF c \in bound THEN 1 ELSE 0)]
    /\ CheckIfCleanupFinish(clients \ {c})

\* One turn of the loop, first half: OnEventIOClose.
DrainClient(c) ==
    /\ loop = "drain"
    /\ front = Nobody
    /\ c \in queue
    /\ front' = c
    /\ IF c \in up THEN OnUserClientClose(c)
                   ELSE UNCHANGED <<held, cleaned>>
    /\ UNCHANGED <<loop, exit, listener, waiting, accepting, io, cleanup, stops>>

\* Second half: io_list_.erase, Release and pop.
PopClient ==
    /\ front # Nobody
    /\ linked' = linked \ {front}
    /\ queue' = queue \ {front}
    /\ refs' = [refs EXCEPT ![front] = @ - 1]
    /\ front' = Nobody
    /\ UNCHANGED <<loop, exit, listener, waiting, accepting, closed, up, clients,
                   sessions, bound, players, cleanup, cleaned, stops>>

DrainListener ==
    /\ loop = "drain"
    /\ front = Nobody
    /\ listener = "closed"
    /\ listener' = "gone"
    /\ UNCHANGED <<loop, exit, waiting, accepting, io, front, held, cleanup,
                   cleaned, stops>>

Drained ==
    /\ loop = "drain"
    /\ front = Nobody
    /\ queue = {} /\ listener # "closed"
    /\ loop' = "frame"
    /\ UNCHANGED <<exit, listener, waiting, accepting, io, front, held, cleanup,
                   cleaned, stops>>

\* Faulty: the loop ends as soon as exit_ is set.
NextFrame_AtOnce ==
    /\ loop = "frame"
    /\ loop' = IF exit THEN "exited" ELSE "events"
    /\ UNCHANGED <<exit, listener, waiting, accepting, io, front, held, cleanup,
                   cleaned, stops>>

\* The top of the loop: it ends when exit_ is set and no event is left.  The
\* gate server has no EventTimeout and no command.
NextFrame ==
    /\ loop = "frame"
    /\ loop' = IF exit /\ linked = {} /\ listener = "gone" /\ queue = {}
               THEN "exited" ELSE "events"
    /\ UNCHANGED <<exit, listener, waiting, accepting, io, front, held, cleanup,
                   cleaned, stops>>

-----------------------------------------------------------------------------
(* Stopping. *)

\* Faulty: the loop is told to end, and nobody is disconnected.
Stop_NoKick ==
    /\ loop # "exited"
    /\ stops < MaxStops
    /\ SignalInAccept \/ accepting = Nobody
    /\ stops' = stops + 1
    /\ StopListener
    /\ exit' = TRUE
    /\ UNCHANGED <<loop, waiting, accepting, io, front, held, cleanup, cleaned>>

\* SIGINT: Gateserver::Stop, that is StopListener, DisconnectAllSession
\* (SendLogout and Exit of every session in players_) and NormalExit.
Stop ==
    /\ loop # "exited"
    /\ stops < MaxStops
    /\ SignalInAccept \/ accepting = Nobody
    /\ stops' = stops + 1
    /\ StopListener
    /\ Close(players)
    /\ exit' = TRUE
    /\ UNCHANGED <<loop, waiting, accepting, linked, front, held, cleanup, cleaned>>

\* Faulty: the callback waits for the next close even when there is nobody.
BeginCleanup_NoCheck ==
    /\ loop = "frame"
    /\ ~cleanup
    /\ cleanup' = TRUE
    /\ StopListener
    /\ Close(clients)
    /\ UNCHANGED <<loop, exit, waiting, accepting, linked, front, held, cleaned, stops>>

\* Gateway::BeginCleanup, from the main loop of a server that uses it.
BeginCleanup ==
    /\ loop = "frame"
    /\ ~cleanup
    /\ cleanup' = TRUE
    /\ StopListener
    /\ Close(clients)
    /\ cleaned' = IF clients = {} THEN cleaned + 1 ELSE cleaned
    /\ UNCHANGED <<loop, exit, waiting, accepting, linked, front, held, stops>>

\* After the loop has ended the process ends.
Exited == loop = "exited" /\ UNCHANGED vars

Dispatch ==
    \/ EventsHandled
    \/ \E c \in Clients : DrainClient(c)
    \/ PopClient
    \/ DrainListener
    \/ Drained
    \/ NextFrame

Next ==
    \/ Dispatch
    \/ \E c \in Clients :
          AcceptRefused(c) \/ AcceptClient(c) \/ CreateSession(c) \/ ClientCloses(c)
    \/ Stop
    \/ BeginCleanup
    \/ Exited

Spec == Init /\ [][Next]_vars

(* The thread of the loop runs; that users connect, leave or that anybody  *)
(* sends SIGINT is not assumed.                                            *)
Fairness ==
    /\ WF_vars(Dispatch)
    /\ \A c \in Clients : WF_vars(CreateSession(c))

FairSpec == Spec /\ Fairness

-----------------------------------------------------------------------------
(* Properties. *)

TypeOK ==
    /\ loop \in {"frame", "events", "drain", "exited"}
    /\ exit \in BOOLEAN
    /\ listener \in {"open", "closed", "gone"}
    /\ waiting \subseteq Clients
    /\ accepting \in Clients \cup {Nobody}
    /\ linked \subseteq Clients
    /\ closed \subseteq Clients
    /\ queue \subseteq Clients
    /\ front \in Clients \cup {Nobody}
    /\ up \subseteq Clients
    /\ clients \subseteq Clients
    /\ sessions \subseteq Clients
    /\ bound \subseteq Clients
    /\ players \subseteq Clients
    /\ refs \in [Clients -> 0..3]
    /\ cleanup \in BOOLEAN
    /\ cleaned \in Nat
    /\ stops \in 0..MaxStops

\* The holders of a client are the gateway, its session (usersession.h says
\* so of both) and the dispatcher, and its count is their number: nobody
\* holds a deleted client and none is leaked, wherever SIGINT falls.
RefsBalance ==
    \A c \in Clients :
        refs[c] = (IF c \in clients THEN 1 ELSE 0)
                + (IF c \in sessions THEN 1 ELSE 0)
                + (IF c \in linked THEN 1 ELSE 0)

\* Whoever follows a session pointer, the receive handler through session_ or
\* DisconnectAllSession through players_, finds a live session whose client
\* is connected.
SessionsAlive ==
    /\ bound \subseteq sessions
    /\ players \subseteq sessions
    /\ players \subseteq up

\* Stop puts every user off line (gatewaymanager.cpp): after it each client
\* of the gateway has been closed.
StopKicksAll == exit => clients \subseteq closed

\* When the loop has ended every client and session object is gone, although
\* the dispatcher asks for its own lists only: clients_, session_ and players_
\* have let go by then, wherever SIGINT fell and whoever closed meanwhile.
ExitClean ==
    loop = "exited" => /\ \A c \in Clients : refs[c] = 0
                       /\ sessions = {} /\ players = {}

\* The cleanup callback is called at most once, and only when no client is
\* left that could still call the gateway.
CleanupOnce == cleaned > 0 => cleaned = 1 /\ clients = {}

\* After Stop the loop ends.
StopExits == exit ~> loop = "exited"

\* A cleanup that has begun is answered.
CleanupAnswered == cleanup ~> cleaned > 0

\* Shutdown comes to an end: the loop after Stop, and Gateway::BeginCleanup
\* with its callback.
ShutdownEnds == StopExits /\ CleanupAnswered
=============================================================================
