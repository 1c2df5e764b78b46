----------------------------- MODULE NodeMonitor -----------------------------
(***************************************************************************)
(* base/cluster/nodemonitor.cpp: the life of one node's connections, from  *)
(* BeginSetup to the end of BeginCleanup.  The monitor runs on the         *)
(* dispatcher's thread, so every handler is one step; what is hard is that *)
(* Close only queues a connection, that its OnClose comes later, after     *)
(* other events, and that four callbacks share one state variable.         *)
(*                                                                         *)
(* Each C++ method is an operator from the node's state to its new state,  *)
(* so that a handler is the composition of the methods it calls.           *)
(***************************************************************************)
EXTENDS Naturals, FiniteSets

CONSTANTS
    Links,            \* connectors BeginSetup makes, one for each link node
    Required,         \* those of them that are configured required
    Accepted,         \* connectors of the sockets the listener accepts
    NodeIds,          \* the ids of the other nodes in cluster.conf
    NoId,             \* info_ == nullptr
    NoConn,           \* no entry in connectors_
    ConfigOutcomes,   \* what reading the configuration may find
    ConnectOutcomes,  \* what ::connect may answer at once
    Overlap,          \* may a node authenticate while its id is registered?
    LocalCasts        \* is a message ever sent to a local mailbox?

Conns == Links \cup Accepted

ASSUME MonitorAssumption ==
    /\ Required \subseteq Links
    /\ Links \cap Accepted = {}
    /\ NoId \notin NodeIds
    /\ NoConn \notin Conns
    /\ ConfigOutcomes \subseteq {"ok", "unreadable", "bad_link"}
    /\ ConnectOutcomes \subseteq {"pending", "ok", "fail"}
    /\ {Overlap, LocalCasts} \subseteq BOOLEAN

VARIABLES
    node,      \* the NodeMonitor, its connectors and its ModuleCluster
    phase,     \* "new", "linking" (inside BeginSetup) or "loop" (Dispatch)
    todo,      \* while linking: the links BeginSetup has not reached
    draining   \* Dispatch is emptying closed_io_list_

vars == <<node, phase, todo, draining>>

MonitorStates == {"IN_SETUP", "IN_ROLLBACK", "OK", "IN_CLEANUP", "STOP"}
ModuleStates == {"NEW", "IN_SETUP", "RUNNING", "IN_CLEANUP", "DELETE"}

NewNode ==
    [state     |-> "IN_SETUP",
     listening |-> FALSE,
     anon      |-> {},                            \* anonymous_connectors_
     byId      |-> [i \in NodeIds |-> NoConn],    \* connectors_
     info      |-> [c \in Conns |-> NoId],        \* Connector::info_
     linked    |-> {},                            \* the dispatcher's io_list_
     pending   |-> {},                            \* connect_pending_
     connected |-> {},                            \* connect_
     closed    |-> {},                            \* closed_
     closing   |-> {},                            \* closed_io_list_
     refs      |-> [c \in Conns |-> 0],           \* reference_count()
     actions   |-> FALSE,                         \* exe_ holds an action
     cbStop    |-> FALSE,                         \* exe_->cb_stop_ is set
     registered |-> FALSE,                        \* exe_->registered_
     stopCalls |-> FALSE,                         \* framework.Stop() called
     module    |-> "NEW"]                         \* module_state_

Init ==
    /\ node = NewNode
    /\ phase = "new"
    /\ todo = {}
    /\ draining = FALSE

\* The connectors that connectors_ points to.
Registered(n) == {n.byId[i] : i \in NodeIds} \ {NoConn}
Tracked(n) == n.anon \cup Registered(n)
Authed(n, c) == n.info[c] # NoId

-----------------------------------------------------------------------------
(* ModuleBase::SetModuleState and the callbacks of ModuleCluster. *)

ValidNext(old) ==
    CASE old = "NEW" -> {"DELETE", "IN_SETUP", "RUNNING"}
      [] old = "IN_SETUP" -> {"DELETE", "RUNNING"}
      [] old = "RUNNING" -> {"DELETE", "IN_CLEANUP"}
      [] old = "IN_CLEANUP" -> {"DELETE"}
      [] OTHER -> {}

\* A transition that debug_assert refuses aborts the process.
SetModuleState(n, s) ==
    [n EXCEPT !.module = IF s \in ValidNext(n.module) THEN s ELSE "ABORT"]

NodeMonitorSetupCallback(n, result) ==
    SetModuleState(n, IF result THEN "RUNNING" ELSE "DELETE")

NodeMonitorCleanupCallback(n) == SetModuleState(n, "DELETE")

-----------------------------------------------------------------------------
(* net::Client and event::EventIO, as far as a Connector uses them. *)

\* Object::Release by the monitor's holder of a pointer to c.
Release(n, c) == [n EXCEPT !.refs[c] = @ - 1]

\* EventIO::Close of every connector in C that is still linked and not yet
\* closed: it joins closed_io_list_ and keeps connect_ until it is drained.
Close(n, C) ==
    LET open == (C \cap n.linked) \ n.closed
    IN  [n EXCEPT !.closed = @ \cup open,
                  !.closing = @ \cup open]

\* A new Connector: its creator's reference and, after AddToDispatcher, the
\* dispatcher's.
NewConnector(n, c) ==
    [n EXCEPT !.refs[c] = 2, !.anon = @ \cup {c}, !.linked = @ \cup {c}]

-----------------------------------------------------------------------------
(* The methods of NodeMonitor. *)

CheckIfAllSetup(n) ==
    IF n.state = "IN_SETUP" /\ n.anon = {}
    THEN [NodeMonitorSetupCallback(n, TRUE) EXCEPT !.state = "OK"]
    ELSE n

CheckIfAllRollback(n) ==
    IF n.state = "IN_ROLLBACK" /\ Tracked(n) = {}
    THEN [NodeMonitorSetupCallback(n, FALSE) EXCEPT !.state = "STOP"]
    ELSE n

CheckIfAllCleanup(n) ==
    IF n.state = "IN_CLEANUP" /\ Tracked(n) = {} /\ ~n.actions
    THEN [NodeMonitorCleanupCallback(n) EXCEPT !.state = "STOP"]
    ELSE n

\* Every connector is closed; the ones that are not connected will have no
\* OnClose, so they are dropped and released here.
CloseAll(n) ==
    LET dead == Tracked(n) \ n.connected
        shut == Close([n EXCEPT !.listening = FALSE], Tracked(n))
    IN  [shut EXCEPT
            !.anon = @ \ dead,
            !.byId = [i \in NodeIds |-> IF @[i] \in dead THEN NoConn ELSE @[i]],
            !.refs = [c \in Conns |-> IF c \in dead THEN @[c] - 1 ELSE @[c]]]

Rollback(n) == CloseAll([n EXCEPT !.state = "IN_ROLLBACK"])

\* Faulty: the connector stays in the anonymous list.
OnConnectorAuthSuccess_KeepAnonymous(n, c) ==
    LET id == n.info[c] IN
    IF n.byId[id] # NoConn
    THEN [n EXCEPT !.stopCalls = TRUE]
    ELSE CheckIfAllSetup([n EXCEPT !.byId[id] = c])

\* A second connection of a registered node stays where it was, with info_
\* set, and the process is asked to stop.
OnConnectorAuthSuccess(n, c) ==
    LET id == n.info[c] IN
    IF n.byId[id] # NoConn
    THEN [n EXCEPT !.stopCalls = TRUE]
    ELSE CheckIfAllSetup([n EXCEPT !.byId[id] = c, !.anon = @ \ {c}])

\* conn->required() is read after Release: the dispatcher's reference keeps
\* the connector alive.
OnConnectorAuthFail(n, c) ==
    LET out == Release([n EXCEPT !.anon = @ \ {c}], c)
    IN  CheckIfAllRollback(IF c \in Required /\ n.state = "IN_SETUP"
                           THEN Rollback(out) ELSE out)

\* Faulty: the monitor's reference is kept, or cleanup is not checked.
OnConnectorClose_NoRelease(n, c) ==
    LET out == IF Authed(n, c) THEN [n EXCEPT !.byId[n.info[c]] = NoConn]
                               ELSE [n EXCEPT !.anon = @ \ {c}]
    IN  CheckIfAllRollback(CheckIfAllCleanup(
            IF n.state = "IN_SETUP" THEN Rollback(out) ELSE out))


OnConnectorClose(n, c) ==
    LET out == Release(IF Authed(n, c)
                       THEN [n EXCEPT !.byId[n.info[c]] = NoConn]
                       ELSE [n EXCEPT !.anon = @ \ {c}], c)
    IN  CheckIfAllRollback(CheckIfAllCleanup(
            IF n.state = "IN_SETUP" THEN Rollback(out) ELSE out))

\* Executor::BeginStopAllAction(CheckIfAllCleanup)
BeginStopAllAction(n) ==
    IF n.actions THEN [n EXCEPT !.cbStop = TRUE] ELSE CheckIfAllCleanup(n)

BeginCleanupOf(n) ==
    CheckIfAllCleanup(BeginStopAllAction(CloseAll(
        [n EXCEPT !.state = "IN_CLEANUP"])))

-----------------------------------------------------------------------------
(* BeginSetup.  Its loop over the links takes one step per link, because   *)
(* each ::connect has its own outcome; nothing else runs meanwhile.        *)

Working == node.module # "ABORT"

\* A BeginSetup without the return after an unreadable configuration.
BeginSetup_NoReturn(outcome) ==
    LET n == SetModuleState(node, "IN_SETUP")
        up == [n EXCEPT !.listening = TRUE]
    IN
    /\ phase = "new"
    /\ node' = IF outcome = "ok" THEN up ELSE NodeMonitorSetupCallback(up, FALSE)
    /\ phase' = "linking"
    /\ todo' = Links
    /\ UNCHANGED draining

\* ModuleCluster::OnModuleSetup up to the loop.  An unreadable file ends it;
\* a link to a node without a listener calls the callback and goes on.
BeginSetup(outcome) ==
    LET n == SetModuleState(node, "IN_SETUP")
        up == [n EXCEPT !.listening = TRUE]
    IN
    /\ phase = "new"
    /\ IF outcome = "unreadable"
       THEN /\ node' = NodeMonitorSetupCallback(n, FALSE)
            /\ phase' = "loop"
            /\ UNCHANGED todo
       ELSE /\ node' = IF outcome = "bad_link"
                       THEN NodeMonitorSetupCallback(up, FALSE) ELSE up
            /\ phase' = "linking"
            /\ todo' = Links
    /\ UNCHANGED draining

\* Client::Connect(ip, port): the answer of ::connect may come at once.
ConnectLink(c, outcome) ==
    LET n == NewConnector(node, c) IN
    /\ Working
    /\ phase = "linking"
    /\ c \in todo
    /\ todo' = todo \ {c}
    /\ node' = CASE outcome = "pending" -> [n EXCEPT !.pending = @ \cup {c}]
                 [] outcome = "ok" -> [n EXCEPT !.connected = @ \cup {c}]
                 [] outcome = "fail" -> Close(OnConnectorAuthFail(n, c), {c})
    /\ UNCHANGED <<phase, draining>>

LinksDone ==
    /\ Working
    /\ phase = "linking"
    /\ todo = {}
    /\ node' = CheckIfAllSetup(node)
    /\ phase' = "loop"
    /\ UNCHANGED <<todo, draining>>

-----------------------------------------------------------------------------
(* Events of the dispatcher's loop.  Between two passes over               *)
(* closed_io_list_ any number of events of open connectors is handled: a   *)
(* connector accepted in this batch of epoll events may already act, which *)
(* allows a little more than epoll_wait does.                              *)

Handling == Working /\ phase = "loop" /\ ~draining

\* OnListenerAccept
Accept(c) ==
    /\ Handling
    /\ node.listening
    /\ c \in Accepted
    /\ node.refs[c] = 0 /\ c \notin node.closed
    /\ node' = [NewConnector(node, c) EXCEPT !.connected = @ \cup {c}]
    /\ UNCHANGED <<phase, todo, draining>>

\* CheckIfConnectCompleted, SO_ERROR clear: OnConnect sends AUTH.
ConnectSucceeds(c) ==
    /\ Handling
    /\ c \in node.pending \ node.closed
    /\ node' = [node EXCEPT !.pending = @ \ {c}, !.connected = @ \cup {c}]
    /\ UNCHANGED <<phase, todo, draining>>

\* CheckIfConnectCompleted, SO_ERROR set: OnConnectFail, then Close.
ConnectFails(c) ==
    /\ Handling
    /\ c \in node.pending \ node.closed
    /\ LET tried == [node EXCEPT !.pending = @ \ {c}]
       IN  node' = Close(OnConnectorAuthFail(tried, c), {c})
    /\ UNCHANGED <<phase, todo, draining>>

\* HandleInternalMessage, INTERNAL_AUTH of a peer that calls itself id and
\* whose cookie is or is not accepted.  NoId is an id cluster.conf lacks.
ReceiveAuth(c, id, cookie_passed) ==
    /\ Handling
    /\ c \in node.connected \ node.closed
    /\ ~Authed(node, c)
    /\ id # NoId /\ ~Overlap => node.byId[id] = NoConn
    /\ node' = IF cookie_passed /\ id # NoId
               THEN OnConnectorAuthSuccess([node EXCEPT !.info[c] = id], c)
               ELSE Close(node, {c})
    /\ UNCHANGED <<phase, todo, draining>>

\* OnEventIOReadable: the peer has closed, or reading failed.
PeerCloses(c) ==
    /\ Handling
    /\ c \in node.connected \ node.closed
    /\ node' = Close(node, {c})
    /\ UNCHANGED <<phase, todo, draining>>

\* One turn of the loop over closed_io_list_: OnEventIOClose, then the
\* dispatcher's Release.  The loop runs until the list is empty.
Drain(c) ==
    /\ Working
    /\ phase = "loop"
    /\ c \in node.closing
    /\ LET out  == [node EXCEPT !.connected = @ \ {c}]
           told == IF c \in node.connected THEN OnConnectorClose(out, c) ELSE out
           done == Release([told EXCEPT !.linked = @ \ {c},
                                        !.closing = @ \ {c}], c)
       IN  /\ node' = done
           /\ draining' = (done.closing # {})
    /\ UNCHANGED <<phase, todo>>

\* NodeMonitor::SendMessage to a mailbox of this node: an ActionNextCall,
\* whatever the monitor's state, also from a callback of the drain.  A cast
\* that joins others changes nothing here.
SendLocal ==
    /\ Working
    /\ phase = "loop"
    /\ LocalCasts
    /\ ~node.actions
    /\ node' = [node EXCEPT !.actions = TRUE, !.registered = TRUE]
    /\ UNCHANGED <<phase, todo, draining>>

\* Executor::OnAllActionFinish: cb_stop_ is CheckIfAllCleanup.
OnAllActionFinish(n) ==
    LET out == [n EXCEPT !.registered = FALSE]
    IN  IF n.cbStop THEN CheckIfAllCleanup(out) ELSE out

\* ActionManager::Update finishes the executor's actions; an executor that
\* it finds without any leaves its list.  The dispatcher's call of it is
\* commented out: an application may make it, and none has to.
ActionManagerUpdate ==
    /\ Handling
    /\ node.registered
    /\ node' = IF node.actions THEN [node EXCEPT !.actions = FALSE]
                               ELSE OnAllActionFinish(node)
    /\ UNCHANGED <<phase, todo, draining>>

\* ModuleCluster::OnModuleCleanup, which SetModuleState allows of a running
\* module only.
BeginCleanup ==
    /\ Handling
    /\ node.module = "RUNNING"
    /\ node' = BeginCleanupOf(SetModuleState(node, "IN_CLEANUP"))
    /\ UNCHANGED <<phase, todo, draining>>

\* Something happens on connector c: it connects or fails, authenticates or
\* is closed.
ConnEvent(c) ==
    \/ ConnectSucceeds(c)
    \/ ConnectFails(c)
    \/ \E id \in NodeIds \cup {NoId}, ok \in BOOLEAN : ReceiveAuth(c, id, ok)

\* Nothing is left to do: the module failed to start, stopped or aborted.
Terminated ==
    /\ node.module \in {"DELETE", "ABORT"}
    /\ node.closing = {} \/ ~Working
    /\ UNCHANGED vars

Next ==
    \/ \E outcome \in ConfigOutcomes : BeginSetup(outcome)
    \/ \E c \in Links, outcome \in ConnectOutcomes : ConnectLink(c, outcome)
    \/ LinksDone
    \/ \E c \in Accepted : Accept(c)
    \/ \E c \in Conns : ConnEvent(c)
    \/ \E c \in Conns : PeerCloses(c)
    \/ \E c \in Conns : Drain(c)
    \/ SendLocal
    \/ ActionManagerUpdate
    \/ BeginCleanup
    \/ Terminated

Spec == Init /\ [][Next]_vars

(* The dispatcher never stops; a link either connects or fails, and a peer *)
(* that is connected either authenticates or is closed.  Nothing makes an  *)
(* application call ActionManager::Update.                                 *)
Fairness ==
    /\ WF_vars(\E outcome \in ConfigOutcomes : BeginSetup(outcome))
    /\ WF_vars(\E c \in Links, o \in ConnectOutcomes : ConnectLink(c, o))
    /\ WF_vars(LinksDone)
    /\ \A c \in Conns : WF_vars(ConnEvent(c))
    /\ WF_vars(\E c \in Conns : Drain(c))

FairSpec == Spec /\ Fairness

-----------------------------------------------------------------------------
(* Properties. *)

TypeOK ==
    /\ node \in [state     : MonitorStates,
                 listening : BOOLEAN,
                 anon      : SUBSET Conns,
                 byId      : [NodeIds -> Conns \cup {NoConn}],
                 info      : [Conns -> NodeIds \cup {NoId}],
                 linked    : SUBSET Conns,
                 pending   : SUBSET Links,
                 connected : SUBSET Conns,
                 closed    : SUBSET Conns,
                 closing   : SUBSET Conns,
                 refs      : [Conns -> 0..2],
                 actions   : BOOLEAN,
                 cbStop    : BOOLEAN,
                 registered : BOOLEAN,
                 stopCalls : BOOLEAN,
                 module    : ModuleStates \cup {"ABORT"}]
    /\ phase \in {"new", "linking", "loop"}
    /\ todo \subseteq Links
    /\ draining \in BOOLEAN

\* A connector's reference count is exactly its holders: the monitor, when a
\* list or the map has it, and the dispatcher, until it is drained.  So no
\* list holds a destroyed connector and no connector is leaked, whatever
\* order Close, OnClose, CloseAll and the drain of closed_io_list_ take.
RefsBalance ==
    \A c \in Conns :
        node.refs[c] = (IF c \in Tracked(node) THEN 1 ELSE 0)
                     + (IF c \in node.linked THEN 1 ELSE 0)

\* anonymous_connectors_ has the connectors without info_ and connectors_ the
\* others, each under the id of its info_ (nodemonitor.h, comments on the
\* two members).
RegistryConsistent ==
    /\ \A c \in node.anon : ~Authed(node, c)
    /\ \A i \in NodeIds : node.byId[i] # NoConn => node.info[node.byId[i]] = i

\* When the module is in the state "stopped", the monitor has no connection
\* any more, open or half open (modulebase.h, MODULE_STATE_DELETE).
StoppedIsClosed ==
    node.module = "DELETE" =>
        Tracked(node) = {} /\ node.connected = {} /\ ~node.listening

\* The monitor's two lists tell anonymous and authenticated connectors apart
\* at any moment, whatever connects, authenticates, fails or is closed, no
\* reference count goes below zero or above the two possible holders, and a
\* monitor that has answered its cleanup leaves nothing open.
MonitorSound == TypeOK /\ RegistryConsistent /\ StoppedIsClosed

\* No sequence of callbacks drives the module through a transition that
\* SetModuleState's precheck refuses: setup is answered once, and cleanup is
\* answered after it.
ModuleLegal == node.module # "ABORT"

\* Setup is answered, either way, unless the monitor waits with an empty
\* list because its last connector was an optional link that failed:
\* OnConnectorAuthFail does not call CheckIfAllSetup.
SetupDecided ==
    node.module = "IN_SETUP" ~>
        \/ node.module \in {"RUNNING", "DELETE"}
        \/ /\ node.anon = {}
           /\ \E c \in Links \ Required : c \in node.closed

\* A local message came after BeginStopAllAction found no action, so that
\* cb_stop_ is not set and its end will ask nobody.
LateCast == node.module = "IN_CLEANUP" /\ node.actions /\ ~node.cbStop

\* A cleanup that has begun ends: every OnClose arrives and the last one
\* calls the cleanup callback.  One that does not end has met one of two
\* things: it waits for local messages that nobody delivers, because
\* ActionManager::Update is not called again, or a local message was sent
\* during the cleanup itself.
CleanupFinishes ==
    <>[](node.module = "IN_CLEANUP") =>
        \/ <>[](node.registered /\ node.cbStop)
        \/ <>LateCast

=============================================================================
