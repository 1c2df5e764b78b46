-------------------------- MODULE NodeMonitorProofs --------------------------
(***************************************************************************)
(* Proofs about NodeMonitor for every set of links, of accepted sockets    *)
(* and of node ids.  The methods of the model are operators on the node's  *)
(* state, so what a method preserves is a lemma about that operator, and a *)
(* handler follows from the lemmas of the methods it calls.  The last part *)
(* is about ProcessIds, the other half of nodemonitor.h.                   *)
(***************************************************************************)
EXTENDS NodeMonitor, ProcessIds, TLAPS

NodeRecords ==
    [state     : MonitorStates,
     listening : BOOLEAN,
     anon      : SUBSET Conns,
     byId      : [NodeIds -> Conns \cup {NoConn}],
     info      : [Conns -> NodeIds \cup {NoId}],
     linked    : SUBSET Conns,
     pending   : SUBSET Links,
     connected : SUBSET Conns,
     closed    : SUBSET Conns,
     closing   : SUBSET Conns,
     refs      : [Conns -> 0..2],
     actions   : BOOLEAN,
     cbStop    : BOOLEAN,
     registered : BOOLEAN,
     stopCalls : BOOLEAN,
     module    : ModuleStates \cup {"ABORT"}]

Holders(n, c) == (IF c \in Tracked(n) THEN 1 ELSE 0) + (IF c \in n.linked THEN 1 ELSE 0)

(* The counts are those of the holders. *)
Balanced(n) == \A c \in Conns : n.refs[c] = Holders(n, c)

(* The two lists tell anonymous and authenticated connectors apart. *)
Sorted(n) ==
    /\ \A c \in n.anon : ~Authed(n, c)
    /\ \A i \in NodeIds : n.byId[i] # NoConn => n.info[n.byId[i]] = i

(* The monitor's connectors are in the dispatcher, and a connector that is    *)
(* only in the dispatcher is closed, or is one of E, which the handler is     *)
(* about to close.  A connector that is closed stays with the monitor exactly *)
(* as long as it is connected, for then its OnClose is still to come.         *)
Linked(n, E) ==
    /\ Tracked(n) \subseteq n.linked
    /\ n.linked \subseteq Tracked(n) \cup n.closed \cup E
    /\ n.closing = n.linked \cap n.closed
    /\ Tracked(n) \cap n.closed \subseteq n.connected
    /\ n.connected \subseteq Tracked(n)

(* A connector that was never made has left no trace; one that is connecting  *)
(* is neither connected nor authenticated.                                    *)
Fresh(n) ==
    /\ n.pending \subseteq n.linked \cup n.closed
    /\ \A c \in n.pending : ~Authed(n, c) /\ c \notin n.connected
    /\ \A c \in Conns : Authed(n, c) => c \in n.linked \cup n.closed

NodeInv(n, E) ==
    n \in NodeRecords /\ Balanced(n) /\ Sorted(n) /\ Linked(n, E) /\ Fresh(n)

(* What the module is told follows what the monitor is at, and the listener   *)
(* is closed before the monitor waits for its connections to go.              *)
Legal(n) ==
    /\ n.state \in {"IN_SETUP", "IN_ROLLBACK"} => n.module = "IN_SETUP"
    /\ n.state = "OK" => n.module = "RUNNING"
    /\ n.state = "IN_CLEANUP" => n.module = "IN_CLEANUP"
    /\ n.state = "STOP" => n.module = "DELETE"
    /\ n.state \in {"IN_ROLLBACK", "IN_CLEANUP", "STOP"} => ~n.listening

(* A monitor that has stopped has no connectors. *)
Stopped(n) == n.state = "STOP" => Tracked(n) = {}

(* What a method of the monitor may do to the state n, m being the new one. *)
Keeps(n, m) ==
    /\ Legal(n) => Legal(m)
    /\ Stopped(n) => Stopped(m)
    /\ Tracked(m) \subseteq Tracked(n)
    /\ m.linked = n.linked
    /\ n.closed \subseteq m.closed /\ m.closed \subseteq n.closed \cup n.linked

(* The loop over the links has not touched the ones it has to do. *)
TodoInv ==
    /\ todo \subseteq Links
    /\ \A c \in todo : c \notin node.linked \cup node.closed

ConnInv ==
    /\ NodeInv(node, {})
    /\ phase \in {"new", "linking", "loop"} /\ draining \in BOOLEAN
    /\ TodoInv
    /\ phase = "new" => node.linked \cup node.closed = {}

(* Before BeginSetup, after one that found no configuration, and otherwise. *)
StateInv ==
    \/ /\ phase = "new" /\ node.state = "IN_SETUP" /\ node.module = "NEW"
       /\ ~node.listening
    \/ /\ phase = "loop" /\ node.state = "IN_SETUP" /\ node.module = "DELETE"
       /\ node.linked = {} /\ ~node.listening
    \/ phase # "new" /\ Legal(node)

(* Without a connect that fails at once, BeginSetup finds the monitor in      *)
(* setup to its end, and nothing is left when it has stopped.                 *)
StopInv ==
    /\ phase = "linking" => node.state = "IN_SETUP"
    /\ Stopped(node)

-----------------------------------------------------------------------------
(* The methods. *)

\* m has the books of n.
SameBooks(n, m) ==
    /\ m.anon = n.anon /\ m.byId = n.byId /\ m.info = n.info
    /\ m.linked = n.linked /\ m.pending = n.pending /\ m.connected = n.connected
    /\ m.closed = n.closed /\ m.closing = n.closing /\ m.refs = n.refs

\* A method that leaves the books alone keeps what is true of them.
LEMMA SameBooksKeep ==
    ASSUME NEW n, NEW m, NEW E, NodeInv(n, E), m \in NodeRecords, SameBooks(n, m)
    PROVE  NodeInv(m, E) /\ Tracked(m) = Tracked(n)
<1>1. Tracked(m) = Tracked(n) BY DEF SameBooks, Tracked, Registered
<1>2. Balanced(m) BY <1>1 DEF NodeInv, Balanced, Holders, SameBooks
<1>3. Sorted(m) BY DEF NodeInv, Sorted, Authed, SameBooks
<1>4. Linked(m, E) BY <1>1 DEF NodeInv, Linked, SameBooks
<1>5. Fresh(m) BY DEF NodeInv, Fresh, Authed, SameBooks
<1> QED BY <1>1, <1>2, <1>3, <1>4, <1>5 DEF NodeInv

\* CheckIfAllSetup only answers.
LEMMA SetupChecked ==
    ASSUME NEW n, NEW E, NodeInv(n, E)
    PROVE  NodeInv(CheckIfAllSetup(n), E) /\ Keeps(n, CheckIfAllSetup(n))
<1> DEFINE m == CheckIfAllSetup(n)
<1>1. n \in NodeRecords BY DEF NodeInv
<1>2. CASE ~(n.state = "IN_SETUP" /\ n.anon = {})
  <2>1. m = n BY <1>2 DEF CheckIfAllSetup
  <2> QED BY <2>1 DEF Keeps
<1>3. CASE n.state = "IN_SETUP" /\ n.anon = {}
  <2>1. m = [[n EXCEPT !.module = IF "RUNNING" \in ValidNext(n.module) THEN "RUNNING" ELSE "ABORT"] EXCEPT !.state = "OK"]
    BY <1>3 DEF CheckIfAllSetup, NodeMonitorSetupCallback, SetModuleState
  <2>2. m \in NodeRecords BY <1>1, <2>1 DEF NodeRecords, MonitorStates, ModuleStates
  <2>3. SameBooks(n, m) /\ m.listening = n.listening BY <1>1, <2>1 DEF NodeRecords, SameBooks
  <2>4. m.state = "OK" /\ (n.module = "IN_SETUP" => m.module = "RUNNING")
    BY <1>1, <2>1 DEF NodeRecords, ValidNext
  <2>5. NodeInv(m, E) /\ Tracked(m) = Tracked(n) BY <2>2, <2>3, SameBooksKeep
  <2>6. Keeps(n, m) BY <1>3, <2>3, <2>4, <2>5 DEF Keeps, Legal, Stopped, SameBooks
  <2> QED BY <2>5, <2>6
<1> QED BY <1>2, <1>3

\* CheckIfAllRollback only answers, and only when nothing is left.
LEMMA RollbackChecked ==
    ASSUME NEW n, NEW E, NodeInv(n, E)
    PROVE  NodeInv(CheckIfAllRollback(n), E) /\ Keeps(n, CheckIfAllRollback(n))
<1> DEFINE m == CheckIfAllRollback(n)
<1>1. n \in NodeRecords BY DEF NodeInv
<1>2. CASE ~(n.state = "IN_ROLLBACK" /\ Tracked(n) = {})
  <2>1. m = n BY <1>2 DEF CheckIfAllRollback
  <2> QED BY <2>1 DEF Keeps
<1>3. CASE n.state = "IN_ROLLBACK" /\ Tracked(n) = {}
  <2>1. m = [[n EXCEPT !.module = IF "DELETE" \in ValidNext(n.module) THEN "DELETE" ELSE "ABORT"] EXCEPT !.state = "STOP"]
    BY <1>3 DEF CheckIfAllRollback, NodeMonitorSetupCallback, SetModuleState
  <2>2. m \in NodeRecords BY <1>1, <2>1 DEF NodeRecords, MonitorStates, ModuleStates
  <2>3. SameBooks(n, m) /\ m.listening = n.listening BY <1>1, <2>1 DEF NodeRecords, SameBooks
  <2>4. m.state = "STOP" /\ (n.module = "IN_SETUP" => m.module = "DELETE")
    BY <1>1, <2>1 DEF NodeRecords, ValidNext
  <2>5. NodeInv(m, E) /\ Tracked(m) = Tracked(n) BY <2>2, <2>3, SameBooksKeep
  <2>6. Keeps(n, m) BY <1>3, <2>3, <2>4, <2>5 DEF Keeps, Legal, Stopped, SameBooks
  <2> QED BY <2>5, <2>6
<1> QED BY <1>2, <1>3

\* CheckIfAllCleanup only answers, and only when nothing is left.
LEMMA CleanupChecked ==
    ASSUME NEW n, NEW E, NodeInv(n, E)
    PROVE  NodeInv(CheckIfAllCleanup(n), E) /\ Keeps(n, CheckIfAllCleanup(n))
<1> DEFINE m == CheckIfAllCleanup(n)
<1>1. n \in NodeRecords BY DEF NodeInv
<1>2. CASE ~(n.state = "IN_CLEANUP" /\ Tracked(n) = {} /\ ~n.actions)
  <2>1. m = n BY <1>2 DEF CheckIfAllCleanup
  <2> QED BY <2>1 DEF Keeps
<1>3. CASE n.state = "IN_CLEANUP" /\ Tracked(n) = {} /\ ~n.actions
  <2>1. m = [[n EXCEPT !.module = IF "DELETE" \in ValidNext(n.module) THEN "DELETE" ELSE "ABORT"] EXCEPT !.state = "STOP"]
    BY <1>3 DEF CheckIfAllCleanup, NodeMonitorCleanupCallback, SetModuleState
  <2>2. m \in NodeRecords BY <1>1, <2>1 DEF NodeRecords, MonitorStates, ModuleStates
  <2>3. SameBooks(n, m) /\ m.listening = n.listening BY <1>1, <2>1 DEF NodeRecords, SameBooks
  <2>4. m.state = "STOP" /\ (n.module = "IN_CLEANUP" => m.module = "DELETE")
    BY <1>1, <2>1 DEF NodeRecords, ValidNext
  <2>5. NodeInv(m, E) /\ Tracked(m) = Tracked(n) BY <2>2, <2>3, SameBooksKeep
  <2>6. Keeps(n, m) BY <1>3, <2>3, <2>4, <2>5 DEF Keeps, Legal, Stopped, SameBooks
  <2> QED BY <2>5, <2>6
<1> QED BY <1>2, <1>3

\* EventIO::Close of connectors that are connected, or that the monitor does
\* not have any more, keeps the books and covers the exception E.
LEMMA CloseKeeps ==
    ASSUME NEW n, NEW E, NEW C \in SUBSET Conns, NEW D, NodeInv(n, E),
           C \cap Tracked(n) \subseteq n.connected, E \subseteq C \cup D
    PROVE  NodeInv(Close(n, C), D) /\ Keeps(n, Close(n, C))
<1> DEFINE open == (C \cap n.linked) \ n.closed
           m == Close(n, C)
<1>1. n \in NodeRecords BY DEF NodeInv
<1>2. m = [n EXCEPT !.closed = @ \cup open, !.closing = @ \cup open] BY DEF Close
<1>3. /\ m.state = n.state /\ m.listening = n.listening /\ m.anon = n.anon /\ m.byId = n.byId
      /\ m.info = n.info /\ m.linked = n.linked /\ m.pending = n.pending
      /\ m.connected = n.connected /\ m.refs = n.refs /\ m.module = n.module
      /\ m.closed = n.closed \cup open /\ m.closing = n.closing \cup open
  BY <1>1, <1>2 DEF NodeRecords
<1>4. m \in NodeRecords BY <1>1, <1>2 DEF NodeRecords
<1>5. Tracked(m) = Tracked(n) BY <1>3 DEF Tracked, Registered
<1>6. Balanced(m) BY <1>3, <1>5 DEF NodeInv, Balanced, Holders
<1>7. Sorted(m) BY <1>3 DEF NodeInv, Sorted, Authed
<1>8. Linked(m, D) BY <1>1, <1>3, <1>5 DEF NodeInv, Linked, NodeRecords
<1>9. Fresh(m) BY <1>3 DEF NodeInv, Fresh, Authed
<1>10. Keeps(n, m) BY <1>3, <1>5 DEF Keeps, Legal, Stopped
<1> HIDE DEF m
<1> QED BY <1>4, <1>6, <1>7, <1>8, <1>9, <1>10 DEF NodeInv, m

\* CloseAll keeps the connectors that are connected, for their OnClose, and
\* lets go of the others.
LEMMA CloseAllKeeps ==
    ASSUME NEW n, NEW E, NodeInv(n, E)
    PROVE  /\ NodeInv(CloseAll(n), E)
           /\ Tracked(CloseAll(n)) \subseteq Tracked(n)
           /\ CloseAll(n).state = n.state /\ CloseAll(n).module = n.module
           /\ ~CloseAll(n).listening
           /\ CloseAll(n).linked = n.linked
           /\ n.closed \subseteq CloseAll(n).closed
           /\ CloseAll(n).closed \subseteq n.closed \cup n.linked
           /\ CloseAll(n).actions = n.actions
<1> DEFINE dead == Tracked(n) \ n.connected
           open == (Tracked(n) \cap n.linked) \ n.closed
           m == CloseAll(n)
<1>1. n \in NodeRecords BY DEF NodeInv
<1>2. /\ m.state = n.state /\ m.module = n.module /\ m.listening = FALSE
      /\ m.info = n.info /\ m.linked = n.linked /\ m.pending = n.pending
      /\ m.connected = n.connected /\ m.actions = n.actions
      /\ m.cbStop = n.cbStop /\ m.registered = n.registered /\ m.stopCalls = n.stopCalls
      /\ m.closed = n.closed \cup open /\ m.closing = n.closing \cup open
      /\ m.anon = n.anon \ dead
      /\ m.byId = [i \in NodeIds |-> IF n.byId[i] \in dead THEN NoConn ELSE n.byId[i]]
      /\ m.refs = [c \in Conns |-> IF c \in dead THEN n.refs[c] - 1 ELSE n.refs[c]]
  BY <1>1 DEF CloseAll, Close, NodeRecords
<1>3. Tracked(n) \subseteq Conns BY <1>1 DEF NodeRecords, Tracked, Registered
<1>4. Tracked(m) = Tracked(n) \ dead
  BY <1>1, <1>2, <1>3, MonitorAssumption DEF Tracked, Registered, NodeRecords
<1>5. \A c \in Conns : c \in dead => n.refs[c] = 2
  BY <1>1 DEF NodeInv, Balanced, Holders, Linked
<1>6. \A c \in Conns : m.refs[c] \in 0..2 /\ m.refs[c] = Holders(m, c)
  BY <1>1, <1>2, <1>4, <1>5 DEF NodeInv, Balanced, Holders, NodeRecords
<1>7. m \in NodeRecords
  <2>1. m.refs \in [Conns -> 0..2] BY <1>2, <1>6
  <2>2. m.byId \in [NodeIds -> Conns \cup {NoConn}] BY <1>1, <1>2 DEF NodeRecords
  <2>3. m = [n EXCEPT !.listening = FALSE, !.closed = n.closed \cup open, !.closing = n.closing \cup open,
                      !.anon = m.anon, !.byId = m.byId, !.refs = m.refs]
    BY <1>1 DEF CloseAll, Close, NodeRecords
  <2> QED BY <1>1, <1>2, <1>3, <2>1, <2>2, <2>3 DEF NodeRecords
<1>8. Balanced(m) BY <1>6 DEF Balanced
<1>9. Sorted(m) BY <1>1, <1>2 DEF NodeInv, Sorted, Authed, NodeRecords
<1>10. Linked(m, E) BY <1>1, <1>2, <1>4 DEF NodeInv, Linked, NodeRecords
<1>11. Fresh(m) BY <1>2 DEF NodeInv, Fresh, Authed
<1> HIDE DEF m
<1> QED BY <1>1, <1>2, <1>4, <1>7, <1>8, <1>9, <1>10, <1>11 DEF NodeInv, m, NodeRecords

\* The start of a rollback.
LEMMA RollbackKeeps ==
    ASSUME NEW n, NEW E, NodeInv(n, E), n.state = "IN_SETUP"
    PROVE  NodeInv(Rollback(n), E) /\ Keeps(n, Rollback(n))
<1> DEFINE b == [n EXCEPT !.state = "IN_ROLLBACK"]
           m == Rollback(n)
<1>1. n \in NodeRecords BY DEF NodeInv
<1>2. b \in NodeRecords BY <1>1 DEF NodeRecords, MonitorStates
<1>3. SameBooks(n, b) /\ b.state = "IN_ROLLBACK" /\ b.module = n.module
  BY <1>1 DEF NodeRecords, SameBooks
<1>4. NodeInv(b, E) /\ Tracked(b) = Tracked(n) BY <1>2, <1>3, SameBooksKeep
<1>5. m = CloseAll(b) BY DEF Rollback
<1>6. /\ NodeInv(m, E) /\ Tracked(m) \subseteq Tracked(n)
      /\ m.state = "IN_ROLLBACK" /\ m.module = n.module /\ ~m.listening /\ m.linked = n.linked
      /\ n.closed \subseteq m.closed /\ m.closed \subseteq n.closed \cup n.linked
  <2> HIDE DEF b, m
  <2>1. n.linked = b.linked /\ n.closed = b.closed BY <1>3 DEF SameBooks
  <2> QED BY <1>3, <1>4, <1>5, <2>1, CloseAllKeeps
<1> HIDE DEF m
<1>7. Keeps(n, m) BY <1>6 DEF Keeps, Legal, Stopped
<1> QED BY <1>6, <1>7 DEF m

\* OnConnectorAuthFail of a connector that is not connected: it is left to the
\* dispatcher, and the caller has to close it.
LEMMA AuthFailKeeps ==
    ASSUME NEW n, NodeInv(n, {}), NEW c \in n.anon, c \notin n.connected
    PROVE  LET m == OnConnectorAuthFail(n, c) IN
           NodeInv(m, {c}) /\ Keeps(n, m) /\ c \notin Tracked(m)
<1> DEFINE out == Release([n EXCEPT !.anon = @ \ {c}], c)
           back == IF c \in Required /\ n.state = "IN_SETUP" THEN Rollback(out) ELSE out
           m == OnConnectorAuthFail(n, c)
<1>1. n \in NodeRecords /\ c \in Conns BY DEF NodeInv, NodeRecords
<1>2. /\ out.state = n.state /\ out.module = n.module /\ out.listening = n.listening
      /\ out.info = n.info /\ out.linked = n.linked /\ out.pending = n.pending
      /\ out.connected = n.connected /\ out.byId = n.byId
      /\ out.closed = n.closed /\ out.closing = n.closing
      /\ out.anon = n.anon \ {c} /\ out.refs = [n.refs EXCEPT ![c] = @ - 1]
  BY <1>1 DEF Release, NodeRecords
<1>3. c \in Tracked(n) /\ c \notin Registered(n)
  BY <1>1, MonitorAssumption DEF NodeInv, Sorted, Authed, Tracked, Registered, NodeRecords
<1>4. Tracked(out) = Tracked(n) \ {c} BY <1>2, <1>3 DEF Tracked, Registered
<1>5. n.refs[c] = 2 BY <1>1, <1>3 DEF NodeInv, Balanced, Holders, Linked
<1>6. ASSUME NEW d \in Conns PROVE out.refs[d] \in 0..2 /\ out.refs[d] = Holders(out, d)
  <2> HIDE DEF out
  <2>1. n.refs[d] \in 0..2 /\ n.refs \in [Conns -> 0..2] BY <1>1 DEF NodeRecords
  <2>2. n.refs[d] = Holders(n, d) BY DEF NodeInv, Balanced
  <2>3. CASE d = c
    <3>1. out.refs[d] = 1 BY <1>1, <1>2, <1>5, <2>1, <2>3
    <3>2. d \in n.linked BY <1>3, <2>3 DEF NodeInv, Linked
    <3> QED BY <1>2, <1>4, <2>3, <3>1, <3>2 DEF Holders
  <2>4. CASE d # c
    <3>1. out.refs[d] = n.refs[d] BY <1>2, <2>1, <2>4
    <3>2. Holders(out, d) = Holders(n, d) BY <1>2, <1>4, <2>4 DEF Holders
    <3> QED BY <2>1, <2>2, <3>1, <3>2
  <2> QED BY <2>3, <2>4
<1>7. out \in NodeRecords
  <2>1. out.refs \in [Conns -> 0..2] BY <1>1, <1>2, <1>6 DEF NodeRecords
  <2>2. out = [n EXCEPT !.anon = n.anon \ {c}, !.refs = out.refs] BY <1>1 DEF Release, NodeRecords
  <2> QED BY <1>1, <2>1, <2>2 DEF NodeRecords
<1>8. NodeInv(out, {c})
  <2>1. Balanced(out) BY <1>6 DEF Balanced
  <2>2. Sorted(out) BY <1>1, <1>2 DEF NodeInv, Sorted, Authed
  <2>3. Linked(out, {c}) BY <1>1, <1>2, <1>4 DEF NodeInv, Linked
  <2>4. Fresh(out) BY <1>2 DEF NodeInv, Fresh, Authed
  <2> QED BY <1>7, <2>1, <2>2, <2>3, <2>4 DEF NodeInv
<1>9. Keeps(n, out) BY <1>2, <1>4 DEF Keeps, Legal, Stopped
<1>10. NodeInv(back, {c}) /\ Keeps(out, back)
  <2>1. CASE c \in Required /\ n.state = "IN_SETUP" BY <1>2, <1>8, <2>1, RollbackKeeps
  <2>2. CASE ~(c \in Required /\ n.state = "IN_SETUP") BY <1>8, <2>2 DEF Keeps
  <2> QED BY <2>1, <2>2
<1>11. m = CheckIfAllRollback(back) BY DEF OnConnectorAuthFail
<1>12. NodeInv(m, {c}) /\ Keeps(back, m) BY <1>10, <1>11, RollbackChecked
<1> HIDE DEF m, back, out
<1>13. Keeps(n, m) BY <1>9, <1>10, <1>12 DEF Keeps
<1>14. c \notin Tracked(m) BY <1>4, <1>10, <1>12 DEF Keeps
<1> QED BY <1>12, <1>13, <1>14 DEF m

\* OnConnectFail and the Close behind it.
LEMMA ConnectFailKeeps ==
    ASSUME NEW n, NodeInv(n, {}), NEW c \in n.anon, c \notin n.connected
    PROVE  LET m == Close(OnConnectorAuthFail(n, c), {c}) IN
           NodeInv(m, {}) /\ Keeps(n, m)
<1> DEFINE f == OnConnectorAuthFail(n, c)
<1>1. NodeInv(f, {c}) /\ Keeps(n, f) /\ c \notin Tracked(f) BY AuthFailKeeps
<1>2. c \in Conns BY DEF NodeInv, NodeRecords
<1> HIDE DEF f
<1>3. NodeInv(Close(f, {c}), {}) /\ Keeps(f, Close(f, {c})) BY <1>1, <1>2, CloseKeeps
<1>4. Keeps(n, Close(f, {c})) BY <1>1, <1>3 DEF Keeps
<1> QED BY <1>3, <1>4 DEF f

\* OnConnectorAuthSuccess of a node whose id is not registered.
LEMMA AuthSuccessKeeps ==
    ASSUME NEW n, NodeInv(n, {}), NEW c \in n.connected \ n.closed, ~Authed(n, c),
           NEW id \in NodeIds, n.byId[id] = NoConn
    PROVE  LET m == OnConnectorAuthSuccess([n EXCEPT !.info[c] = id], c) IN
           NodeInv(m, {}) /\ Keeps(n, m)
<1> DEFINE out == [[n EXCEPT !.info[c] = id] EXCEPT !.byId[id] = c, !.anon = @ \ {c}]
           m == OnConnectorAuthSuccess([n EXCEPT !.info[c] = id], c)
<1>1. n \in NodeRecords /\ c \in Conns BY DEF NodeInv, NodeRecords
<1>2. /\ out.state = n.state /\ out.module = n.module /\ out.listening = n.listening
      /\ out.linked = n.linked /\ out.pending = n.pending /\ out.connected = n.connected
      /\ out.closed = n.closed /\ out.closing = n.closing /\ out.refs = n.refs
      /\ out.anon = n.anon \ {c} /\ out.byId = [n.byId EXCEPT ![id] = c]
      /\ out.info = [n.info EXCEPT ![c] = id]
  BY <1>1 DEF NodeRecords
<1>3. c \in n.anon /\ c \notin Registered(n)
  BY <1>1, MonitorAssumption DEF NodeInv, Linked, Sorted, Authed, Tracked, Registered, NodeRecords
<1>4. out \in NodeRecords BY <1>1 DEF NodeRecords
<1>5. Tracked(out) = Tracked(n)
  BY <1>1, <1>2, <1>3, MonitorAssumption DEF Tracked, Registered, NodeRecords
<1>6. Balanced(out) BY <1>2, <1>5 DEF NodeInv, Balanced, Holders
<1>7. Sorted(out)
  <2>1. \A d \in out.anon : ~Authed(out, d) BY <1>1, <1>2 DEF NodeInv, Sorted, Authed, NodeRecords
  <2>2. \A i \in NodeIds : out.byId[i] # NoConn => out.info[out.byId[i]] = i
    <3> SUFFICES ASSUME NEW i \in NodeIds, out.byId[i] # NoConn PROVE out.info[out.byId[i]] = i OBVIOUS
    <3>1. CASE i = id BY <1>1, <1>2, <3>1 DEF NodeRecords
    <3>2. CASE i # id
      <4>1. out.byId[i] = n.byId[i] /\ n.byId[i] # NoConn /\ n.byId[i] \in Registered(n)
        BY <1>1, <1>2, <3>2 DEF NodeRecords, Registered
      <4>2. n.byId[i] # c BY <4>1, <1>3
      <4> QED BY <1>1, <1>2, <4>1, <4>2 DEF NodeInv, Sorted, NodeRecords
    <3> QED BY <3>1, <3>2
  <2> QED BY <2>1, <2>2 DEF Sorted
<1>8. Linked(out, {}) BY <1>2, <1>5 DEF NodeInv, Linked
<1>9. Fresh(out) BY <1>1, <1>2, <1>3 DEF NodeInv, Fresh, Authed, NodeRecords, Linked, Tracked
<1>10. NodeInv(out, {}) /\ Keeps(n, out)
  BY <1>2, <1>4, <1>5, <1>6, <1>7, <1>8, <1>9 DEF NodeInv, Keeps, Legal, Stopped
<1>11. m = CheckIfAllSetup(out)
  BY <1>1, MonitorAssumption DEF OnConnectorAuthSuccess, NodeRecords
<1> HIDE DEF m, out
<1>12. NodeInv(m, {}) /\ Keeps(out, m) BY <1>10, <1>11, SetupChecked
<1>13. Keeps(n, m) BY <1>10, <1>12 DEF Keeps
<1> QED BY <1>12, <1>13 DEF m

\* OnConnectorClose takes the connector out of the list or the map it is in,
\* and only it.
LEMMA ConnectorGone ==
    ASSUME NEW n, NodeInv(n, {}), NEW c \in n.closing, c \in n.connected
    PROVE  LET out  == [n EXCEPT !.connected = @ \ {c}]
               gone == Release(IF Authed(out, c)
                               THEN [out EXCEPT !.byId[out.info[c]] = NoConn]
                               ELSE [out EXCEPT !.anon = @ \ {c}], c)
           IN  NodeInv(gone, {}) /\ Keeps(n, gone) /\ c \notin Tracked(gone)
               /\ gone.state = n.state
<1> DEFINE out  == [n EXCEPT !.connected = @ \ {c}]
           gone == Release(IF Authed(out, c)
                           THEN [out EXCEPT !.byId[out.info[c]] = NoConn]
                           ELSE [out EXCEPT !.anon = @ \ {c}], c)
<1>1. n \in NodeRecords /\ c \in Conns BY DEF NodeInv, NodeRecords
<1>2. /\ out.info = n.info /\ out.anon = n.anon /\ out.byId = n.byId
      /\ (Authed(out, c) <=> n.info[c] # NoId)
  BY <1>1 DEF NodeRecords, Authed
<1>3. /\ gone.state = n.state /\ gone.module = n.module /\ gone.listening = n.listening
      /\ gone.info = n.info /\ gone.linked = n.linked /\ gone.pending = n.pending
      /\ gone.connected = n.connected \ {c} /\ gone.closed = n.closed
      /\ gone.closing = n.closing /\ gone.refs = [n.refs EXCEPT ![c] = @ - 1]
  BY <1>1 DEF Release, NodeRecords
<1>4. c \in Tracked(n) /\ c \in n.linked /\ c \in n.closed BY DEF NodeInv, Linked
<1>5. /\ gone.anon = n.anon \ {c}
      /\ gone.byId = [i \in NodeIds |-> IF n.byId[i] = c THEN NoConn ELSE n.byId[i]]
  <2>1. CASE n.info[c] # NoId
    <3>1. c \notin n.anon BY <2>1 DEF NodeInv, Sorted, Authed
    <3>2. n.info[c] \in NodeIds BY <1>1, <2>1 DEF NodeRecords
    <3>3. n.byId[n.info[c]] = c
      BY <1>1, <1>4, <3>1, <3>2 DEF NodeInv, Sorted, Tracked, Registered, NodeRecords
    <3>4. \A i \in NodeIds : n.byId[i] = c => i = n.info[c]
      BY <1>1, MonitorAssumption DEF NodeInv, Sorted
    <3>5. gone.anon = n.anon /\ gone.byId = [n.byId EXCEPT ![n.info[c]] = NoConn]
      BY <1>1, <1>2, <2>1 DEF Release, NodeRecords
    <3> HIDE DEF gone
    <3>6. n.byId \in [NodeIds -> Conns \cup {NoConn}] BY <1>1 DEF NodeRecords
    <3> QED BY <3>1, <3>2, <3>3, <3>4, <3>5, <3>6
  <2>2. CASE n.info[c] = NoId
    <3>1. \A i \in NodeIds : n.byId[i] # c
      BY <1>1, <2>2, MonitorAssumption DEF NodeInv, Sorted
    <3>2. gone.anon = n.anon \ {c} /\ gone.byId = n.byId
      BY <1>1, <1>2, <2>2 DEF Release, NodeRecords
    <3> HIDE DEF gone
    <3>3. n.byId \in [NodeIds -> Conns \cup {NoConn}] BY <1>1 DEF NodeRecords
    <3> QED BY <3>1, <3>2, <3>3
  <2> QED BY <2>1, <2>2
<1>6. gone = [n EXCEPT !.connected = gone.connected, !.anon = gone.anon, !.byId = gone.byId, !.refs = gone.refs]
  <2>1. CASE Authed(out, c)
    <3>1. PICK b : b = [n.byId EXCEPT ![n.info[c]] = NoConn] OBVIOUS
    <3>2. PICK r : r = [n.refs EXCEPT ![c] = @ - 1] OBVIOUS
    <3>3. gone = [n EXCEPT !.connected = @ \ {c}, !.byId = b, !.refs = r]
      BY <1>1, <1>2, <2>1, <3>1, <3>2 DEF Release, NodeRecords
    <3> HIDE DEF gone
    <3>4. gone.byId = b /\ gone.refs = r /\ gone.connected = n.connected \ {c} /\ gone.anon = n.anon
      BY <1>1, <3>3 DEF NodeRecords
    <3> QED BY <1>1, <3>3, <3>4 DEF NodeRecords
  <2>2. CASE ~Authed(out, c)
    <3>1. PICK a : a = n.anon \ {c} OBVIOUS
    <3>2. PICK r : r = [n.refs EXCEPT ![c] = @ - 1] OBVIOUS
    <3>3. gone = [n EXCEPT !.connected = @ \ {c}, !.anon = a, !.refs = r]
      BY <1>1, <1>2, <2>2, <3>1, <3>2 DEF Release, NodeRecords
    <3> HIDE DEF gone
    <3>4. gone.anon = a /\ gone.refs = r /\ gone.connected = n.connected \ {c} /\ gone.byId = n.byId
      BY <1>1, <3>3 DEF NodeRecords
    <3> QED BY <1>1, <3>3, <3>4 DEF NodeRecords
  <2> QED BY <2>1, <2>2
<1> HIDE DEF gone
<1>7. Tracked(gone) = Tracked(n) \ {c}
  BY <1>1, <1>5, MonitorAssumption DEF Tracked, Registered, NodeRecords
<1>8. ASSUME NEW d \in Conns PROVE gone.refs[d] \in 0..2 /\ gone.refs[d] = Holders(gone, d)
  <2>1. n.refs[d] \in 0..2 /\ n.refs \in [Conns -> 0..2] BY <1>1 DEF NodeRecords
  <2>2. n.refs[d] = Holders(n, d) BY DEF NodeInv, Balanced
  <2>3. CASE d = c
    <3>1. n.refs[c] = 2 BY <1>4, <2>2, <2>3 DEF Holders
    <3>2. gone.refs[d] = 1 BY <1>1, <1>3, <2>1, <2>3, <3>1
    <3> QED BY <1>3, <1>4, <1>7, <2>3, <3>2 DEF Holders
  <2>4. CASE d # c
    <3>1. gone.refs[d] = n.refs[d] BY <1>3, <2>1, <2>4
    <3>2. Holders(gone, d) = Holders(n, d) BY <1>3, <1>7, <2>4 DEF Holders
    <3> QED BY <2>1, <2>2, <3>1, <3>2
  <2> QED BY <2>3, <2>4
<1>9. gone \in NodeRecords
  <2>1. gone.refs \in [Conns -> 0..2] BY <1>1, <1>3, <1>8 DEF NodeRecords
  <2>2. gone.byId \in [NodeIds -> Conns \cup {NoConn}] BY <1>1, <1>5 DEF NodeRecords
  <2>3. gone.anon \subseteq Conns /\ gone.connected \subseteq Conns BY <1>1, <1>3, <1>5 DEF NodeRecords
  <2> QED BY <1>1, <1>6, <2>1, <2>2, <2>3 DEF NodeRecords
<1>10. NodeInv(gone, {})
  <2>1. Balanced(gone) BY <1>8 DEF Balanced
  <2>2. Sorted(gone) BY <1>1, <1>3, <1>5 DEF NodeInv, Sorted, Authed
  <2>3. Linked(gone, {}) BY <1>3, <1>4, <1>7 DEF NodeInv, Linked
  <2>4. Fresh(gone) BY <1>3 DEF NodeInv, Fresh, Authed
  <2> QED BY <1>9, <2>1, <2>2, <2>3, <2>4 DEF NodeInv
<1>11. Keeps(n, gone) BY <1>3, <1>7 DEF Keeps, Legal, Stopped
<1> QED BY <1>3, <1>7, <1>10, <1>11 DEF gone

\* The whole of OnConnectorClose.
LEMMA ConnectorCloseKeeps ==
    ASSUME NEW n, NodeInv(n, {}), NEW c \in n.closing, c \in n.connected
    PROVE  LET m == OnConnectorClose([n EXCEPT !.connected = @ \ {c}], c)
           IN  NodeInv(m, {}) /\ Keeps(n, m) /\ c \notin Tracked(m)
<1> DEFINE out  == [n EXCEPT !.connected = @ \ {c}]
           gone == Release(IF Authed(out, c)
                           THEN [out EXCEPT !.byId[out.info[c]] = NoConn]
                           ELSE [out EXCEPT !.anon = @ \ {c}], c)
           back == IF n.state = "IN_SETUP" THEN Rollback(gone) ELSE gone
           done == CheckIfAllCleanup(back)
           m == CheckIfAllRollback(done)
<1>1. NodeInv(gone, {}) /\ Keeps(n, gone) /\ c \notin Tracked(gone) /\ gone.state = n.state
  BY ConnectorGone
<1>2. out.state = n.state BY DEF NodeInv, NodeRecords
<1>3. m = OnConnectorClose(out, c) BY <1>2 DEF OnConnectorClose
<1> HIDE DEF gone
<1>4. NodeInv(back, {}) /\ Keeps(gone, back)
  <2>1. CASE n.state = "IN_SETUP" BY <1>1, <2>1, RollbackKeeps
  <2>2. CASE n.state # "IN_SETUP" BY <1>1, <2>2 DEF Keeps
  <2> QED BY <2>1, <2>2
<1> HIDE DEF back
<1>5. NodeInv(done, {}) /\ Keeps(back, done) BY <1>4, CleanupChecked
<1> HIDE DEF done
<1>6. NodeInv(m, {}) /\ Keeps(done, m) BY <1>5, RollbackChecked
<1> HIDE DEF m
<1>7. Keeps(n, m) BY <1>1, <1>4, <1>5, <1>6 DEF Keeps
<1>8. c \notin Tracked(m) BY <1>1, <1>4, <1>5, <1>6 DEF Keeps
<1> QED BY <1>3, <1>6, <1>7, <1>8

\* The dispatcher lets go of a connector that the monitor does not have.
LEMMA UnlinkKeeps ==
    ASSUME NEW n, NodeInv(n, {}), NEW c \in n.closing, c \notin Tracked(n)
    PROVE  LET m == Release([n EXCEPT !.linked = @ \ {c}, !.closing = @ \ {c}], c)
           IN  /\ NodeInv(m, {})
               /\ Legal(n) => Legal(m)
               /\ Stopped(n) => Stopped(m)
               /\ m.linked \subseteq n.linked /\ m.closed = n.closed
               /\ m.state = n.state /\ m.module = n.module
<1> DEFINE m == Release([n EXCEPT !.linked = @ \ {c}, !.closing = @ \ {c}], c)
<1>1. n \in NodeRecords /\ c \in Conns BY DEF NodeInv, NodeRecords
<1>2. /\ m.state = n.state /\ m.module = n.module /\ m.listening = n.listening
      /\ m.anon = n.anon /\ m.byId = n.byId /\ m.info = n.info
      /\ m.linked = n.linked \ {c} /\ m.pending = n.pending
      /\ m.connected = n.connected /\ m.closed = n.closed
      /\ m.closing = n.closing \ {c} /\ m.refs = [n.refs EXCEPT ![c] = @ - 1]
  BY <1>1 DEF Release, NodeRecords
<1>3. m = [n EXCEPT !.linked = m.linked, !.closing = m.closing, !.refs = m.refs]
  BY <1>1 DEF Release, NodeRecords
<1> HIDE DEF m
<1>4. Tracked(m) = Tracked(n) BY <1>2 DEF Tracked, Registered
<1>5. c \in n.linked /\ c \in n.closed BY DEF NodeInv, Linked
<1>6. ASSUME NEW d \in Conns PROVE m.refs[d] \in 0..2 /\ m.refs[d] = Holders(m, d)
  <2>1. n.refs[d] \in 0..2 /\ n.refs \in [Conns -> 0..2] BY <1>1 DEF NodeRecords
  <2>2. n.refs[d] = Holders(n, d) BY DEF NodeInv, Balanced
  <2>3. CASE d = c
    <3>1. n.refs[c] = 1 BY <1>5, <2>2, <2>3 DEF Holders
    <3>2. m.refs[d] = 0 BY <1>1, <1>2, <2>1, <2>3, <3>1
    <3> QED BY <1>2, <1>4, <2>3, <3>2 DEF Holders
  <2>4. CASE d # c
    <3>1. m.refs[d] = n.refs[d] BY <1>2, <2>1, <2>4
    <3>2. Holders(m, d) = Holders(n, d) BY <1>2, <1>4, <2>4 DEF Holders
    <3> QED BY <2>1, <2>2, <3>1, <3>2
  <2> QED BY <2>3, <2>4
<1>7. m \in NodeRecords
  <2>1. m.refs \in [Conns -> 0..2] BY <1>1, <1>2, <1>6 DEF NodeRecords
  <2>2. m.linked \subseteq Conns /\ m.closing \subseteq Conns BY <1>1, <1>2 DEF NodeRecords
  <2> QED BY <1>1, <1>3, <2>1, <2>2 DEF NodeRecords
<1>8. NodeInv(m, {})
  <2>1. Balanced(m) BY <1>6 DEF Balanced
  <2>2. Sorted(m) BY <1>2 DEF NodeInv, Sorted, Authed
  <2>3. Linked(m, {}) BY <1>2, <1>4 DEF NodeInv, Linked
  <2>4. Fresh(m) BY <1>2, <1>5 DEF NodeInv, Fresh, Authed
  <2> QED BY <1>7, <2>1, <2>2, <2>3, <2>4 DEF NodeInv
<1> QED BY <1>2, <1>4, <1>8 DEF m, Legal, Stopped

\* The state r is n with a new connector c, which may be connected or connecting.
Joined(n, r, c) ==
    /\ r.state = n.state /\ r.module = n.module /\ r.listening = n.listening
    /\ r.anon = n.anon \cup {c} /\ r.byId = n.byId /\ r.info = n.info
    /\ r.linked = n.linked \cup {c} /\ r.closed = n.closed /\ r.closing = n.closing
    /\ r.refs = [n.refs EXCEPT ![c] = 2]
    /\ \/ r.connected = n.connected /\ r.pending = n.pending
       \/ r.connected = n.connected \cup {c} /\ r.pending = n.pending
       \/ r.connected = n.connected /\ r.pending = n.pending \cup {c}

\* A connector that was not there joins.
LEMMA JoinedKeeps ==
    ASSUME NEW n, NodeInv(n, {}), NEW c \in Conns, c \notin n.linked \cup n.closed,
           NEW r \in NodeRecords, Joined(n, r, c)
    PROVE  NodeInv(r, {}) /\ c \in r.anon /\ (r.connected = n.connected => c \notin r.connected)
<1>1. n \in NodeRecords BY DEF NodeInv
<1>2. c \notin Tracked(n) /\ c \notin n.connected /\ c \notin n.pending /\ n.info[c] = NoId
  BY DEF NodeInv, Linked, Fresh, Authed
<1>3. Tracked(r) = Tracked(n) \cup {c} BY DEF Joined, Tracked, Registered
<1>4. Balanced(r)
  <2> SUFFICES ASSUME NEW d \in Conns PROVE r.refs[d] = Holders(r, d) BY DEF Balanced
  <2>1. n.refs \in [Conns -> 0..2] BY <1>1 DEF NodeRecords
  <2>2. CASE d = c BY <1>3, <2>1, <2>2 DEF Holders, Joined
  <2>3. CASE d # c
    <3>1. r.refs[d] = n.refs[d] BY <2>1, <2>3 DEF Joined
    <3>2. Holders(r, d) = Holders(n, d) BY <1>3, <2>3 DEF Holders, Joined
    <3> QED BY <3>1, <3>2 DEF NodeInv, Balanced
  <2> QED BY <2>2, <2>3
<1>5. Sorted(r) BY <1>2 DEF NodeInv, Sorted, Authed, Joined
<1>6. Linked(r, {})
  <2>1. /\ r.linked = n.linked \cup {c} /\ r.closed = n.closed /\ r.closing = n.closing
        /\ n.connected \subseteq r.connected /\ r.connected \subseteq n.connected \cup {c}
    BY DEF Joined
  <2> QED BY <1>2, <1>3, <2>1 DEF NodeInv, Linked
<1>7. Fresh(r)
  <2>1. \A d \in Conns : Authed(r, d) <=> Authed(n, d) BY DEF Joined, Authed
  <2>2. r.linked = n.linked \cup {c} /\ r.closed = n.closed BY DEF Joined
  <2>3. ~Authed(n, c) BY <1>2 DEF Authed
  <2>4. r.pending \subseteq n.pending \cup {c} /\ r.pending \subseteq Conns
    BY <1>1 DEF Joined, NodeRecords, Conns
  <2>5. \A d \in r.pending : d \notin r.connected
    BY <1>2 DEF Joined, NodeInv, Fresh
  <2> QED BY <2>1, <2>2, <2>3, <2>4, <2>5 DEF NodeInv, Fresh
<1> QED BY <1>2, <1>4, <1>5, <1>6, <1>7 DEF NodeInv, Joined

\* NewConnector, with what Connect or the listener adds.
LEMMA NewConnectorKeeps ==
    ASSUME NEW n, NodeInv(n, {}), NEW c \in Conns, c \notin n.linked \cup n.closed
    PROVE  LET m == NewConnector(n, c)
               up == [m EXCEPT !.connected = @ \cup {c}]
               try == [m EXCEPT !.pending = @ \cup {c}]
           IN  /\ NodeInv(m, {}) /\ Joined(n, m, c) /\ c \in m.anon /\ c \notin m.connected
               /\ NodeInv(up, {}) /\ Joined(n, up, c)
               /\ c \in Links => NodeInv(try, {}) /\ Joined(n, try, c)
<1> DEFINE m == NewConnector(n, c)
           up == [m EXCEPT !.connected = @ \cup {c}]
           try == [m EXCEPT !.pending = @ \cup {c}]
<1>1. n \in NodeRecords BY DEF NodeInv
<1>2. m = [n EXCEPT !.refs[c] = 2, !.anon = @ \cup {c}, !.linked = @ \cup {c}] BY DEF NewConnector
<1>3. m \in NodeRecords
  <2>1. [n.refs EXCEPT ![c] = 2] \in [Conns -> 0..2] BY <1>1 DEF NodeRecords
  <2>2. m = [n EXCEPT !.refs = [n.refs EXCEPT ![c] = 2], !.anon = @ \cup {c}, !.linked = @ \cup {c}]
    BY <1>1, <1>2 DEF NodeRecords
  <2> HIDE DEF m
  <2> QED BY <1>1, <2>1, <2>2 DEF NodeRecords
<1>4. Joined(n, m, c) /\ m.connected = n.connected /\ m.pending = n.pending
  BY <1>1, <1>2 DEF NodeRecords, Joined
<1>5. up \in NodeRecords /\ (c \in Links => try \in NodeRecords)
  <2> HIDE DEF m
  <2> QED BY <1>3 DEF NodeRecords
<1>6. Joined(n, up, c)
  <2> HIDE DEF m
  <2>1. /\ up.state = m.state /\ up.module = m.module /\ up.listening = m.listening
        /\ up.anon = m.anon /\ up.byId = m.byId /\ up.info = m.info /\ up.linked = m.linked
        /\ up.closed = m.closed /\ up.closing = m.closing /\ up.refs = m.refs
        /\ up.pending = m.pending /\ up.connected = m.connected \cup {c}
    BY <1>3 DEF NodeRecords
  <2> HIDE DEF up
  <2> QED BY <1>4, <2>1 DEF Joined
<1>7. Joined(n, try, c)
  <2> HIDE DEF m
  <2> QED BY <1>3, <1>4, <1>5 DEF NodeRecords, Joined
<1> HIDE DEF m, up, try
<1>8. NodeInv(m, {}) /\ c \in m.anon /\ c \notin m.connected BY <1>3, <1>4, JoinedKeeps
<1>9. NodeInv(up, {}) BY <1>5, <1>6, JoinedKeeps
<1>10. c \in Links => NodeInv(try, {}) BY <1>5, <1>7, JoinedKeeps
<1> QED BY <1>4, <1>6, <1>7, <1>8, <1>9, <1>10 DEF m, up, try

-----------------------------------------------------------------------------
(* The steps. *)

NoBadLink == "bad_link" \notin ConfigOutcomes
NoInstantFail == "fail" \notin ConnectOutcomes

\* What every step does for the invariants, each under its hypotheses.
Preserved ==
    /\ ConnInv'
    /\ NoBadLink /\ StateInv => StateInv'
    /\ NoBadLink /\ NoInstantFail /\ StateInv /\ StopInv => StopInv'

SameStage(n, m) ==
    /\ m.state = n.state /\ m.module = n.module
    /\ m.listening = n.listening /\ m.linked = n.linked

\* A handler of the loop that keeps the books preserves the invariants.  The
\* state after an unreadable configuration has no connectors, so a handler of
\* a connector does not meet it.
LEMMA HandlerPreserves ==
    ASSUME ConnInv, phase = "loop", NodeInv(node', {}),
           node.linked # {} \/ node.state # "IN_SETUP" \/ SameStage(node, node'),
           Legal(node) => Legal(node'), Stopped(node) => Stopped(node'),
           node'.linked \subseteq node.linked, node'.closed \subseteq node.closed \cup node.linked,
           phase' = phase, todo' = todo, draining' \in BOOLEAN
    PROVE  Preserved
<1>1. NodeInv(node, {})' OBVIOUS
<1>2. ConnInv' BY <1>1 DEF ConnInv, TodoInv
<1>3. Legal(node') <=> Legal(node)' BY DEF Legal
<1>4. Stopped(node') <=> Stopped(node)' BY DEF Stopped, Tracked, Registered
<1>5. StateInv => StateInv'
  <2>1. CASE node.linked # {} \/ node.state # "IN_SETUP" BY <1>3, <2>1 DEF StateInv
  <2>2. CASE SameStage(node, node') BY <1>3, <2>2 DEF StateInv, SameStage
  <2> QED BY <2>1, <2>2
<1>6. StopInv => StopInv' BY <1>4 DEF StopInv
<1> QED BY <1>2, <1>5, <1>6 DEF Preserved

\* The same, from what the lemmas about the methods say.
LEMMA KeepsPreserves ==
    ASSUME ConnInv, phase = "loop", NodeInv(node', {}), Keeps(node, node'),
           node.linked # {} \/ node.state # "IN_SETUP" \/ SameStage(node, node'),
           phase' = phase, todo' = todo, draining' = draining
    PROVE  Preserved
<1>1. /\ Legal(node) => Legal(node')
      /\ Stopped(node) => Stopped(node')
      /\ node'.linked \subseteq node.linked /\ node'.closed \subseteq node.closed \cup node.linked
  BY DEF Keeps
<1>2. draining' \in BOOLEAN BY DEF ConnInv
<1> QED BY <1>1, <1>2, HandlerPreserves

\* The initial state.
LEMMA InitInvs == Init => ConnInv /\ StateInv /\ StopInv
<1> SUFFICES ASSUME Init PROVE ConnInv /\ StateInv /\ StopInv OBVIOUS
<1>1. node = NewNode BY DEF Init
<1>2. node \in NodeRecords BY <1>1 DEF NewNode, NodeRecords, MonitorStates, ModuleStates
<1>3. Tracked(node) = {} BY <1>1 DEF NewNode, Tracked, Registered
<1>4. Balanced(node)
  <2>1. node.refs = [c \in Conns |-> 0] /\ node.linked = {} BY <1>1 DEF NewNode
  <2> QED BY <1>3, <2>1 DEF Balanced, Holders
<1>5. Sorted(node) BY <1>1 DEF NewNode, Sorted, Authed
<1>6. Linked(node, {}) BY <1>1, <1>3 DEF NewNode, Linked
<1>7. Fresh(node) BY <1>1 DEF NewNode, Fresh, Authed
<1>8. ConnInv
  <2>1. node.linked = {} /\ node.closed = {} BY <1>1 DEF NewNode
  <2>2. NodeInv(node, {}) BY <1>2, <1>4, <1>5, <1>6, <1>7 DEF NodeInv
  <2> QED BY <2>1, <2>2 DEF Init, ConnInv, TodoInv
<1>9. StateInv BY <1>1 DEF Init, StateInv, NewNode
<1>10. StopInv BY <1>1 DEF Init, StopInv, Stopped, NewNode
<1> QED BY <1>8, <1>9, <1>10

\* BeginSetup up to its loop.
LEMMA BeginSetupPreserves ==
    ASSUME ConnInv, NEW o \in ConfigOutcomes, BeginSetup(o) PROVE Preserved
<1> DEFINE n == SetModuleState(node, "IN_SETUP")
           up == [n EXCEPT !.listening = TRUE]
           bad == NodeMonitorSetupCallback(up, FALSE)
           none == NodeMonitorSetupCallback(n, FALSE)
<1>1. phase = "new" /\ node \in NodeRecords /\ NodeInv(node, {}) BY DEF BeginSetup, ConnInv, NodeInv
<1>2. n = [node EXCEPT !.module = n.module] /\ n.module \in {"IN_SETUP", "ABORT"}
      /\ (node.module = "NEW" => n.module = "IN_SETUP")
  BY <1>1 DEF SetModuleState, NodeRecords, ValidNext
<1> HIDE DEF n
<1>3. n \in NodeRecords BY <1>1, <1>2 DEF NodeRecords, ModuleStates
<1>4. SameBooks(node, n) /\ n.state = node.state /\ n.listening = node.listening
  BY <1>1, <1>2 DEF NodeRecords, SameBooks
<1>5. up \in NodeRecords /\ SameBooks(node, up) /\ up.state = node.state /\ up.module = n.module
  BY <1>3, <1>4 DEF NodeRecords, SameBooks
<1>6. none = [n EXCEPT !.module = none.module] /\ none.module \in {"DELETE", "ABORT"}
      /\ (n.module = "IN_SETUP" => none.module = "DELETE")
  BY <1>3 DEF NodeMonitorSetupCallback, SetModuleState, NodeRecords, ValidNext
<1> HIDE DEF none
<1>7. none \in NodeRecords /\ SameBooks(node, none) /\ none.state = node.state
      /\ none.listening = node.listening
  BY <1>3, <1>4, <1>6 DEF NodeRecords, ModuleStates, SameBooks
<1> HIDE DEF up
<1>8. bad = [up EXCEPT !.module = bad.module] /\ bad.module \in {"DELETE", "ABORT"}
  BY <1>5 DEF NodeMonitorSetupCallback, SetModuleState, NodeRecords, ValidNext
<1> HIDE DEF bad
<1>9. bad \in NodeRecords /\ SameBooks(node, bad) /\ bad.state = node.state
  BY <1>5, <1>8 DEF NodeRecords, ModuleStates, SameBooks
<1>10. /\ node' = IF o = "unreadable" THEN none ELSE IF o = "bad_link" THEN bad ELSE up
       /\ phase' = IF o = "unreadable" THEN "loop" ELSE "linking"
       /\ todo' = IF o = "unreadable" THEN todo ELSE Links
       /\ draining' = draining
  BY DEF BeginSetup, n, up, bad, none
<1>11. node' \in NodeRecords /\ SameBooks(node, node') /\ node'.state = node.state
  BY <1>5, <1>7, <1>9, <1>10
<1>12. NodeInv(node', {}) /\ Tracked(node') = Tracked(node) BY <1>1, <1>11, SameBooksKeep
<1>13. NodeInv(node, {})' BY <1>12
<1>14. node.linked \cup node.closed = {} BY <1>1 DEF ConnInv
<1>15. ConnInv' BY <1>10, <1>11, <1>13, <1>14 DEF ConnInv, TodoInv, SameBooks
<1>16. NoBadLink /\ StateInv => StateInv'
  <2> SUFFICES ASSUME NoBadLink, StateInv PROVE StateInv' OBVIOUS
  <2>1. node.state = "IN_SETUP" /\ node.module = "NEW" /\ ~node.listening BY <1>1 DEF StateInv
  <2>2. CASE o = "unreadable"
    BY <1>2, <1>6, <1>7, <1>10, <1>14, <2>1, <2>2 DEF StateInv, SameBooks
  <2>3. CASE o # "unreadable"
    <3>1. node' = up /\ phase' = "linking" BY <1>10, <2>3 DEF NoBadLink
    <3> QED BY <1>2, <1>5, <2>1, <3>1 DEF StateInv, Legal
  <2> QED BY <2>2, <2>3
<1>17. StateInv => StopInv' BY <1>1, <1>11 DEF StateInv, StopInv, Stopped
<1> QED BY <1>15, <1>16, <1>17 DEF Preserved

\* A link of BeginSetup: the connector joins, and may fail at once.
LEMMA ConnectLinkPreserves ==
    ASSUME ConnInv, NEW c \in Links, NEW o \in ConnectOutcomes, ConnectLink(c, o)
    PROVE  Preserved
<1> DEFINE m == NewConnector(node, c)
           up == [m EXCEPT !.connected = @ \cup {c}]
           try == [m EXCEPT !.pending = @ \cup {c}]
           fail == Close(OnConnectorAuthFail(m, c), {c})
<1>1. /\ c \in Conns /\ c \notin node.linked \cup node.closed /\ NodeInv(node, {})
      /\ phase = "linking" /\ phase' = phase /\ draining' = draining /\ todo' = todo \ {c}
      /\ draining \in BOOLEAN /\ todo \subseteq Links
  BY DEF ConnectLink, ConnInv, TodoInv, Conns
<1>2. /\ NodeInv(m, {}) /\ Joined(node, m, c) /\ c \in m.anon /\ c \notin m.connected
      /\ NodeInv(up, {}) /\ Joined(node, up, c)
      /\ NodeInv(try, {}) /\ Joined(node, try, c)
  BY <1>1, NewConnectorKeeps
<1>3. o \in {"pending", "ok", "fail"} BY MonitorAssumption
<1>4. /\ o = "pending" => node' = try
      /\ o = "ok" => node' = up
      /\ o = "fail" => node' = fail
  BY DEF ConnectLink
<1> HIDE DEF m, up, try
<1>5. NodeInv(fail, {}) /\ Keeps(m, fail) BY <1>2, ConnectFailKeeps
<1> HIDE DEF fail
<1>6. NodeInv(node', {}) BY <1>2, <1>3, <1>4, <1>5
<1>7. node'.linked = node.linked \cup {c} /\ node'.closed \subseteq node.closed \cup node.linked \cup {c}
  <2>1. CASE o = "fail" BY <1>2, <1>4, <1>5, <2>1 DEF Joined, Keeps
  <2>2. CASE o # "fail" BY <1>2, <1>3, <1>4, <2>2 DEF Joined
  <2> QED BY <2>1, <2>2
<1>8. Legal(node) => Legal(node')
  <2>1. CASE o = "fail"
    <3>1. Legal(node) => Legal(m) BY <1>2 DEF Joined, Legal
    <3> QED BY <1>4, <1>5, <2>1, <3>1 DEF Keeps
  <2>2. CASE o # "fail" BY <1>2, <1>3, <1>4, <2>2 DEF Joined, Legal
  <2> QED BY <2>1, <2>2
<1>9. o # "fail" => node'.state = node.state BY <1>2, <1>3, <1>4 DEF Joined
<1>10. ConnInv'
  <2>1. NodeInv(node, {})' BY <1>6
  <2> QED BY <1>1, <1>7, <2>1 DEF ConnInv, TodoInv
<1>11. StateInv => StateInv'
  <2>1. Legal(node') <=> Legal(node)' BY DEF Legal
  <2> QED BY <1>1, <1>8, <2>1 DEF StateInv
<1>12. NoInstantFail /\ StopInv => StopInv'
  BY <1>1, <1>9 DEF NoInstantFail, StopInv, Stopped
<1> QED BY <1>10, <1>11, <1>12 DEF Preserved

\* The end of BeginSetup.
LEMMA LinksDonePreserves ==
    ASSUME ConnInv, LinksDone PROVE Preserved
<1>1. /\ phase = "linking" /\ phase' = "loop" /\ todo' = todo /\ draining' = draining
      /\ NodeInv(node, {}) /\ node' = CheckIfAllSetup(node)
  BY DEF LinksDone, ConnInv
<1>2. NodeInv(node', {}) /\ Keeps(node, node') BY <1>1, SetupChecked
<1>3. NodeInv(node, {})' BY <1>2
<1>4. node.closed \subseteq node'.closed /\ node'.closed \subseteq node.closed \cup node.linked
      /\ node'.linked = node.linked
  BY <1>2 DEF Keeps
<1>5. ConnInv' BY <1>1, <1>3, <1>4 DEF ConnInv, TodoInv
<1>6. StateInv => StateInv'
  <2>1. Legal(node') <=> Legal(node)' BY DEF Legal
  <2> QED BY <1>1, <1>2, <2>1 DEF StateInv, Keeps
<1>7. StopInv => StopInv'
  <2>1. Stopped(node') <=> Stopped(node)' BY DEF Stopped, Tracked, Registered
  <2> QED BY <1>1, <1>2, <2>1 DEF StopInv, Keeps
<1> QED BY <1>5, <1>6, <1>7 DEF Preserved

\* The listener's connector is new, and the monitor that listens is in setup
\* or running.
LEMMA AcceptPreserves ==
    ASSUME ConnInv, NEW c \in Accepted, Accept(c) PROVE Preserved
<1> DEFINE m == NewConnector(node, c)
           up == [m EXCEPT !.connected = @ \cup {c}]
<1>1. /\ c \in Conns /\ NodeInv(node, {}) /\ node.listening /\ c \notin node.closed
      /\ node.refs[c] = 0 /\ node' = up
      /\ phase = "loop" /\ phase' = phase /\ draining' = draining /\ todo' = todo
  BY DEF Accept, Handling, ConnInv, Conns
<1>2. c \notin node.linked BY <1>1 DEF NodeInv, Balanced, Holders
<1>3. NodeInv(up, {}) /\ Joined(node, up, c) BY <1>1, <1>2, NewConnectorKeeps
<1> HIDE DEF up
<1>4. node'.linked = node.linked \cup {c} /\ node'.closed = node.closed BY <1>1, <1>3 DEF Joined
<1>5. c \notin todo BY MonitorAssumption DEF ConnInv, TodoInv
<1>6. ConnInv'
  <2>1. NodeInv(node, {})' BY <1>1, <1>3
  <2> QED BY <1>1, <1>4, <1>5, <2>1 DEF ConnInv, TodoInv
<1>7. StateInv => Legal(node) BY <1>1 DEF StateInv
<1>8. StateInv => StateInv'
  <2>1. Legal(node) => Legal(node)' BY <1>1, <1>3 DEF Legal, Joined
  <2> QED BY <1>1, <1>7, <2>1 DEF StateInv
<1>9. StateInv /\ StopInv => StopInv'
  BY <1>1, <1>3, <1>7 DEF StopInv, Stopped, Legal, Joined
<1> QED BY <1>6, <1>8, <1>9 DEF Preserved

\* A connector that is connecting is the monitor's, without an id, and is
\* not connected.
LEMMA PendingConn ==
    ASSUME NEW n, NodeInv(n, {}), NEW c \in n.pending \ n.closed
    PROVE  c \in n.anon /\ c \in n.linked /\ c \notin n.connected /\ ~Authed(n, c) /\ c \in Conns
<1>1. n \in NodeRecords /\ c \in Conns BY DEF NodeInv, NodeRecords, Conns
<1>2. c \in n.linked /\ c \notin n.connected /\ ~Authed(n, c) BY DEF NodeInv, Fresh
<1>3. c \in Tracked(n) BY <1>2 DEF NodeInv, Linked
<1>4. c \notin Registered(n)
  BY <1>1, <1>2, MonitorAssumption DEF NodeInv, Sorted, Authed, Registered
<1> QED BY <1>1, <1>2, <1>3, <1>4 DEF Tracked

\* connect_pending_ is cleared.
LEMMA TriedKeeps ==
    ASSUME NEW n, NodeInv(n, {}), NEW c
    PROVE  LET m == [n EXCEPT !.pending = @ \ {c}] IN
           NodeInv(m, {}) /\ Keeps(n, m) /\ m.anon = n.anon /\ m.connected = n.connected
<1> DEFINE m == [n EXCEPT !.pending = @ \ {c}]
<1>1. n \in NodeRecords BY DEF NodeInv
<1>2. m \in NodeRecords BY <1>1 DEF NodeRecords
<1>3. /\ m.state = n.state /\ m.listening = n.listening /\ m.anon = n.anon /\ m.byId = n.byId
      /\ m.info = n.info /\ m.linked = n.linked /\ m.pending = n.pending \ {c}
      /\ m.connected = n.connected /\ m.refs = n.refs /\ m.module = n.module
      /\ m.closed = n.closed /\ m.closing = n.closing
  BY <1>1 DEF NodeRecords
<1> HIDE DEF m
<1>4. Tracked(m) = Tracked(n) BY <1>3 DEF Tracked, Registered
<1>5. Balanced(m) BY <1>3, <1>4 DEF NodeInv, Balanced, Holders
<1>6. Sorted(m) BY <1>3 DEF NodeInv, Sorted, Authed
<1>7. Linked(m, {}) BY <1>3, <1>4 DEF NodeInv, Linked
<1>8. Fresh(m) BY <1>3 DEF NodeInv, Fresh, Authed
<1>9. Keeps(n, m) BY <1>3, <1>4 DEF Keeps, Legal, Stopped
<1> QED BY <1>2, <1>3, <1>5, <1>6, <1>7, <1>8, <1>9 DEF NodeInv, m

\* A link connects.
LEMMA ConnectSucceedsPreserves ==
    ASSUME ConnInv, NEW c \in Conns, ConnectSucceeds(c) PROVE Preserved
<1> DEFINE m == [node EXCEPT !.pending = @ \ {c}, !.connected = @ \cup {c}]
<1>1. /\ NodeInv(node, {}) /\ node \in NodeRecords /\ node' = m /\ c \in node.pending \ node.closed
      /\ phase = "loop" /\ phase' = phase /\ draining' = draining /\ todo' = todo
  BY DEF ConnectSucceeds, Handling, ConnInv, NodeInv
<1>2. c \in node.anon /\ c \in node.linked /\ c \notin node.connected /\ ~Authed(node, c)
  BY <1>1, PendingConn
<1>3. m \in NodeRecords BY <1>1 DEF NodeRecords
<1>4. /\ m.state = node.state /\ m.listening = node.listening /\ m.anon = node.anon
      /\ m.byId = node.byId /\ m.info = node.info /\ m.linked = node.linked
      /\ m.pending = node.pending \ {c} /\ m.connected = node.connected \cup {c}
      /\ m.refs = node.refs /\ m.module = node.module
      /\ m.closed = node.closed /\ m.closing = node.closing
  BY <1>1 DEF NodeRecords
<1> HIDE DEF m
<1>5. Tracked(m) = Tracked(node) BY <1>4 DEF Tracked, Registered
<1>6. NodeInv(m, {})
  <2>1. Balanced(m) BY <1>1, <1>4, <1>5 DEF NodeInv, Balanced, Holders
  <2>2. Sorted(m) BY <1>1, <1>4 DEF NodeInv, Sorted, Authed
  <2>3. c \in Tracked(node) BY <1>2 DEF Tracked
  <2>4. Linked(m, {}) BY <1>1, <1>4, <1>5, <2>3 DEF NodeInv, Linked
  <2>5. Fresh(m) BY <1>1, <1>4 DEF NodeInv, Fresh, Authed
  <2> QED BY <1>3, <2>1, <2>2, <2>4, <2>5 DEF NodeInv
<1>7. Keeps(node, m) BY <1>4, <1>5 DEF Keeps, Legal, Stopped
<1> QED BY <1>1, <1>2, <1>6, <1>7, KeepsPreserves

\* A link fails to connect, while other events may have come before.
LEMMA ConnectFailsPreserves ==
    ASSUME ConnInv, NEW c \in Conns, ConnectFails(c) PROVE Preserved
<1> DEFINE tried == [node EXCEPT !.pending = @ \ {c}]
           m == Close(OnConnectorAuthFail(tried, c), {c})
<1>1. /\ NodeInv(node, {}) /\ node' = m /\ c \in node.pending \ node.closed
      /\ phase = "loop" /\ phase' = phase /\ draining' = draining /\ todo' = todo
  BY DEF ConnectFails, Handling, ConnInv
<1>2. c \in node.anon /\ c \in node.linked /\ c \notin node.connected BY <1>1, PendingConn
<1>3. /\ NodeInv(tried, {}) /\ Keeps(node, tried)
      /\ tried.anon = node.anon /\ tried.connected = node.connected
  BY <1>1, TriedKeeps
<1> HIDE DEF tried
<1>4. NodeInv(m, {}) /\ Keeps(tried, m) BY <1>2, <1>3, ConnectFailKeeps
<1> HIDE DEF m
<1>5. Keeps(node, m) BY <1>3, <1>4 DEF Keeps
<1> QED BY <1>1, <1>2, <1>4, <1>5, KeepsPreserves

\* Closing a connector that is connected.
LEMMA PeerClosesPreserves ==
    ASSUME ConnInv, NEW c \in Conns, phase = "loop", c \in node.connected,
           node' = Close(node, {c}), phase' = phase, todo' = todo, draining' = draining
    PROVE  Preserved
<1>1. NodeInv(node, {}) BY DEF ConnInv
<1>2. NodeInv(node', {}) /\ Keeps(node, node') BY <1>1, CloseKeeps
<1>3. node.linked # {} BY <1>1 DEF NodeInv, Linked
<1> QED BY <1>2, <1>3, KeepsPreserves

\* A peer authenticates, or fails to.
LEMMA ReceiveAuthPreserves ==
    ASSUME ConnInv, ~Overlap, NEW c \in Conns, NEW id \in NodeIds \cup {NoId},
           NEW ok \in BOOLEAN, ReceiveAuth(c, id, ok)
    PROVE  Preserved
<1>1. /\ NodeInv(node, {}) /\ c \in node.connected \ node.closed /\ ~Authed(node, c)
      /\ phase = "loop" /\ phase' = phase /\ draining' = draining /\ todo' = todo
  BY DEF ReceiveAuth, Handling, ConnInv
<1>2. CASE ok /\ id # NoId
  <2>1. /\ id \in NodeIds /\ node.byId[id] = NoConn
        /\ node' = OnConnectorAuthSuccess([node EXCEPT !.info[c] = id], c)
    BY <1>2 DEF ReceiveAuth
  <2>2. NodeInv(node', {}) /\ Keeps(node, node') BY <1>1, <2>1, AuthSuccessKeeps
  <2>3. node.linked # {} BY <1>1 DEF NodeInv, Linked
  <2> QED BY <1>1, <2>2, <2>3, KeepsPreserves
<1>3. CASE ~(ok /\ id # NoId)
  <2>1. node' = Close(node, {c}) BY <1>3 DEF ReceiveAuth
  <2> QED BY <1>1, <2>1, PeerClosesPreserves
<1> QED BY <1>2, <1>3

\* A connector's OnClose, which comes some time after its Close, and the
\* dispatcher's Release of it.
LEMMA DrainPreserves ==
    ASSUME ConnInv, NEW c \in Conns, Drain(c) PROVE Preserved
<1> DEFINE out  == [node EXCEPT !.connected = @ \ {c}]
           told == IF c \in node.connected THEN OnConnectorClose(out, c) ELSE out
           done == Release([told EXCEPT !.linked = @ \ {c}, !.closing = @ \ {c}], c)
<1>1. /\ NodeInv(node, {}) /\ node \in NodeRecords /\ c \in node.closing
      /\ phase = "loop" /\ phase' = phase /\ todo' = todo
      /\ node' = done /\ draining' \in BOOLEAN
  BY DEF Drain, ConnInv, NodeInv
<1>2. c \in node.linked /\ c \in node.closed BY <1>1 DEF NodeInv, Linked
<1>3. NodeInv(told, {}) /\ Keeps(node, told) /\ c \notin Tracked(told)
  <2>1. CASE c \in node.connected BY <1>1, <2>1, ConnectorCloseKeeps
  <2>2. CASE c \notin node.connected
    <3>1. told = node
      <4>1. node.connected \ {c} = node.connected BY <2>2
      <4> QED BY <1>1, <2>2, <4>1 DEF NodeRecords
    <3>2. c \notin Tracked(node) BY <1>1, <1>2, <2>2 DEF NodeInv, Linked
    <3> QED BY <1>1, <3>1, <3>2 DEF Keeps
  <2> QED BY <2>1, <2>2
<1> HIDE DEF told
<1>4. c \in told.closing BY <1>2, <1>3 DEF NodeInv, Linked, Keeps
<1>5. /\ NodeInv(done, {})
      /\ Legal(told) => Legal(done)
      /\ Stopped(told) => Stopped(done)
      /\ done.linked \subseteq told.linked /\ done.closed = told.closed
  BY <1>3, <1>4, UnlinkKeeps
<1> HIDE DEF done
<1>6. /\ NodeInv(node', {})
      /\ Legal(node) => Legal(node')
      /\ Stopped(node) => Stopped(node')
      /\ node'.linked \subseteq node.linked /\ node'.closed \subseteq node.closed \cup node.linked
  BY <1>1, <1>3, <1>5 DEF Keeps
<1> QED BY <1>1, <1>2, <1>6, HandlerPreserves

\* A message to a local mailbox.
LEMMA SendLocalPreserves ==
    ASSUME ConnInv, SendLocal PROVE Preserved
<1>1. /\ NodeInv(node, {}) /\ node \in NodeRecords
      /\ node' = [node EXCEPT !.actions = TRUE, !.registered = TRUE]
      /\ phase = "loop" /\ phase' = phase /\ draining' = draining /\ todo' = todo
  BY DEF SendLocal, ConnInv, NodeInv
<1>2. node' \in NodeRecords BY <1>1 DEF NodeRecords
<1>3. SameBooks(node, node') /\ SameStage(node, node') BY <1>1 DEF NodeRecords, SameBooks, SameStage
<1>4. NodeInv(node', {}) /\ Tracked(node') = Tracked(node) BY <1>1, <1>2, <1>3, SameBooksKeep
<1>5. Keeps(node, node') BY <1>3, <1>4 DEF Keeps, Legal, Stopped, SameBooks, SameStage
<1> QED BY <1>1, <1>3, <1>4, <1>5, KeepsPreserves

\* The executor's actions finish, or it is found without any and a cleanup
\* that waited for them may end.
LEMMA ActionManagerUpdatePreserves ==
    ASSUME ConnInv, ActionManagerUpdate PROVE Preserved
<1> DEFINE n == IF node.actions THEN [node EXCEPT !.actions = FALSE]
                                ELSE [node EXCEPT !.registered = FALSE]
<1>1. /\ NodeInv(node, {}) /\ node \in NodeRecords
      /\ node' = n \/ node' = CheckIfAllCleanup(n)
      /\ phase = "loop" /\ phase' = phase /\ draining' = draining /\ todo' = todo
  BY DEF ActionManagerUpdate, OnAllActionFinish, Handling, ConnInv, NodeInv
<1>2. n \in NodeRecords BY <1>1 DEF NodeRecords
<1>3. SameBooks(node, n) /\ SameStage(node, n) BY <1>1 DEF NodeRecords, SameBooks, SameStage
<1> HIDE DEF n
<1>4. NodeInv(n, {}) /\ Tracked(n) = Tracked(node) BY <1>1, <1>2, <1>3, SameBooksKeep
<1>5. Keeps(node, n) BY <1>3, <1>4 DEF Keeps, Legal, Stopped, SameBooks, SameStage
<1>6. NodeInv(CheckIfAllCleanup(n), {}) /\ Keeps(n, CheckIfAllCleanup(n)) BY <1>4, CleanupChecked
<1>7. NodeInv(node', {}) /\ Keeps(n, node')
  <2>1. Keeps(n, n) BY DEF Keeps
  <2> QED BY <1>1, <1>4, <1>6, <2>1
<1>8. Keeps(node, node') BY <1>5, <1>7 DEF Keeps
<1>9. node.state # "IN_SETUP" \/ SameStage(node, node')
  <2> SUFFICES ASSUME node.state = "IN_SETUP" PROVE node' = n BY <1>3
  <2>1. n.state = "IN_SETUP" BY <1>3 DEF SameStage
  <2>2. CheckIfAllCleanup(n) = n BY <2>1 DEF CheckIfAllCleanup
  <2> QED BY <1>1, <2>2
<1> QED BY <1>1, <1>7, <1>8, <1>9, KeepsPreserves

\* The cleanup of a running module.
LEMMA BeginCleanupPreserves ==
    ASSUME ConnInv, BeginCleanup PROVE Preserved
<1> DEFINE n == SetModuleState(node, "IN_CLEANUP")
           b == [n EXCEPT !.state = "IN_CLEANUP"]
           shut == CloseAll(b)
           stop == BeginStopAllAction(shut)
           m == CheckIfAllCleanup(stop)
<1>1. /\ NodeInv(node, {}) /\ node \in NodeRecords /\ node.module = "RUNNING" /\ node' = m
      /\ phase = "loop" /\ phase' = phase /\ draining' = draining /\ todo' = todo
      /\ draining \in BOOLEAN
  BY DEF BeginCleanup, BeginCleanupOf, Handling, ConnInv, NodeInv
<1>2. n = [node EXCEPT !.module = "IN_CLEANUP"] BY <1>1 DEF SetModuleState, ValidNext
<1>3. b \in NodeRecords BY <1>1, <1>2 DEF NodeRecords, MonitorStates, ModuleStates
<1>4. SameBooks(node, b) /\ b.state = "IN_CLEANUP" /\ b.module = "IN_CLEANUP"
  BY <1>1, <1>2 DEF NodeRecords, SameBooks
<1> HIDE DEF n, b
<1>5. NodeInv(b, {}) /\ Tracked(b) = Tracked(node) BY <1>1, <1>3, <1>4, SameBooksKeep
<1>6. /\ NodeInv(shut, {}) /\ shut.state = "IN_CLEANUP" /\ shut.module = "IN_CLEANUP"
      /\ ~shut.listening /\ shut.linked = node.linked
      /\ shut.closed \subseteq node.closed \cup node.linked
  <2>1. b.linked = node.linked /\ b.closed = node.closed BY <1>4 DEF SameBooks
  <2> QED BY <1>4, <1>5, <2>1, CloseAllKeeps
<1>7. Legal(shut) /\ Stopped(shut) BY <1>6 DEF Legal, Stopped
<1> HIDE DEF shut
<1>8. NodeInv(stop, {}) /\ Keeps(shut, stop)
  <2>1. CASE shut.actions
    <3>1. stop = [shut EXCEPT !.cbStop = TRUE] BY <2>1 DEF BeginStopAllAction
    <3>2. shut \in NodeRecords BY <1>6 DEF NodeInv
    <3>3. stop \in NodeRecords BY <3>1, <3>2 DEF NodeRecords
    <3>4. SameBooks(shut, stop) /\ SameStage(shut, stop)
      BY <3>1, <3>2 DEF NodeRecords, SameBooks, SameStage
    <3> HIDE DEF stop
    <3>5. NodeInv(stop, {}) /\ Tracked(stop) = Tracked(shut) BY <1>6, <3>3, <3>4, SameBooksKeep
    <3>6. Keeps(shut, stop) BY <3>4, <3>5 DEF Keeps, Legal, Stopped, SameBooks, SameStage
    <3> QED BY <3>5, <3>6
  <2>2. CASE ~shut.actions BY <1>6, <2>2, CleanupChecked DEF BeginStopAllAction
  <2> QED BY <2>1, <2>2
<1> HIDE DEF stop
<1>9. NodeInv(m, {}) /\ Keeps(stop, m) BY <1>8, CleanupChecked
<1> HIDE DEF m
<1>10. Legal(m) /\ Stopped(m) /\ m.linked = node.linked
       /\ m.closed \subseteq node.closed \cup node.linked
  BY <1>6, <1>7, <1>8, <1>9 DEF Keeps
<1>11. node.state # "IN_SETUP" => Preserved
  BY <1>1, <1>9, <1>10, HandlerPreserves
<1>12. CASE node.state = "IN_SETUP"
  <2>1. NodeInv(node, {})' BY <1>1, <1>9
  <2>2. ConnInv' BY <1>1, <1>10, <2>1 DEF ConnInv, TodoInv
  <2>3. ~StateInv BY <1>1, <1>12 DEF StateInv, Legal
  <2> QED BY <2>2, <2>3 DEF Preserved
<1> QED BY <1>11, <1>12

\* Every step preserves the invariants.
LEMMA NextPreserves ==
    ASSUME ~Overlap, ConnInv, [Next]_vars PROVE Preserved
<1>1. CASE UNCHANGED vars
  <2>1. node' = node /\ phase' = phase /\ todo' = todo /\ draining' = draining BY <1>1 DEF vars
  <2>2. ConnInv'
    <3>1. NodeInv(node', {}) BY <2>1 DEF ConnInv
    <3>2. NodeInv(node, {})' BY <3>1
    <3> QED BY <2>1, <3>2 DEF ConnInv, TodoInv
  <2>3. StateInv => StateInv' BY <2>1 DEF StateInv, Legal
  <2>4. StopInv => StopInv' BY <2>1 DEF StopInv, Stopped, Tracked, Registered
  <2> QED BY <2>2, <2>3, <2>4 DEF Preserved
<1>2. ASSUME NEW o \in ConfigOutcomes, BeginSetup(o) PROVE Preserved
  BY <1>2, BeginSetupPreserves
<1>3. ASSUME NEW c \in Links, NEW o \in ConnectOutcomes, ConnectLink(c, o) PROVE Preserved
  BY <1>3, ConnectLinkPreserves
<1>4. CASE LinksDone BY <1>4, LinksDonePreserves
<1>5. ASSUME NEW c \in Accepted, Accept(c) PROVE Preserved BY <1>5, AcceptPreserves
<1>6. ASSUME NEW c \in Conns, ConnEvent(c) PROVE Preserved
  BY <1>6, ConnectSucceedsPreserves, ConnectFailsPreserves, ReceiveAuthPreserves DEF ConnEvent
<1>7. ASSUME NEW c \in Conns, PeerCloses(c) PROVE Preserved
  BY <1>7, PeerClosesPreserves DEF PeerCloses, Handling
<1>8. ASSUME NEW c \in Conns, Drain(c) PROVE Preserved BY <1>8, DrainPreserves
<1>9. CASE SendLocal BY <1>9, SendLocalPreserves
<1>10. CASE ActionManagerUpdate BY <1>10, ActionManagerUpdatePreserves
<1>11. CASE BeginCleanup BY <1>11, BeginCleanupPreserves
<1>12. CASE Terminated BY <1>1, <1>12 DEF Terminated
<1> QED
  BY <1>1, <1>2, <1>3, <1>4, <1>5, <1>6, <1>7, <1>8, <1>9, <1>10, <1>11, <1>12 DEF Next

-----------------------------------------------------------------------------
(* The results. *)

\* A connector's reference count is that of its holders in every state,
\* whatever the configuration holds and however ::connect answers, when no
\* node authenticates while its id is registered: nothing is released twice
\* and nothing is leaked between Close, OnClose and the drain.
THEOREM RefsAreHolders == ~Overlap => (Spec => []RefsBalance)
<1> SUFFICES ASSUME ~Overlap PROVE Spec => []RefsBalance OBVIOUS
<1>1. Init => ConnInv BY InitInvs
<1>2. ConnInv /\ [Next]_vars => ConnInv' BY NextPreserves DEF Preserved
<1>3. ConnInv => RefsBalance BY DEF ConnInv, NodeInv, Balanced, Holders, RefsBalance
<1> QED BY <1>1, <1>2, <1>3, PTL DEF Spec

\* The module is never driven through a transition that SetModuleState
\* refuses, when also no link lacks a listener: a bad_link calls the setup
\* callback and BeginSetup goes on, which answers the module twice.
THEOREM ModuleIsLegal == ~Overlap /\ NoBadLink => (Spec => []ModuleLegal)
<1> SUFFICES ASSUME ~Overlap, NoBadLink PROVE Spec => []ModuleLegal OBVIOUS
<1> DEFINE IInv == ConnInv /\ StateInv
<1>1. Init => IInv BY InitInvs
<1>2. IInv /\ [Next]_vars => IInv' BY NextPreserves DEF Preserved
<1>3. IInv => ModuleLegal
  BY DEF ConnInv, NodeInv, NodeRecords, MonitorStates, StateInv, Legal, ModuleLegal
<1> HIDE DEF IInv
<1> QED BY <1>1, <1>2, <1>3, PTL DEF Spec

\* The registry tells anonymous and authenticated connectors apart, and a
\* module in the state DELETE has no connection and no listener, when also no
\* link fails within ::connect: the rollback of such a link can end while
\* BeginSetup is still making connectors.
THEOREM MonitorIsSound ==
    ~Overlap /\ NoBadLink /\ NoInstantFail => (Spec => []MonitorSound)
<1> SUFFICES ASSUME ~Overlap, NoBadLink, NoInstantFail PROVE Spec => []MonitorSound OBVIOUS
<1> DEFINE IInv == ConnInv /\ StateInv /\ StopInv
<1>1. Init => IInv BY InitInvs
<1>2. IInv /\ [Next]_vars => IInv' BY NextPreserves DEF Preserved
<1>3. IInv => MonitorSound
  <2> SUFFICES ASSUME IInv PROVE MonitorSound OBVIOUS
  <2>1. TypeOK BY DEF ConnInv, NodeInv, NodeRecords, TodoInv, TypeOK
  <2>2. RegistryConsistent BY DEF ConnInv, NodeInv, Sorted, RegistryConsistent
  <2>3. StoppedIsClosed
    <3> SUFFICES ASSUME node.module = "DELETE"
                 PROVE  Tracked(node) = {} /\ node.connected = {} /\ ~node.listening
      BY DEF StoppedIsClosed
    <3>1. node \in NodeRecords /\ Linked(node, {}) BY DEF ConnInv, NodeInv
    <3>2. Tracked(node) = {} /\ ~node.listening
      <4>1. CASE node.state = "IN_SETUP" BY <3>1, <4>1 DEF StateInv, Legal, Linked
      <4>2. CASE node.state # "IN_SETUP"
        BY <3>1, <4>2 DEF StateInv, Legal, StopInv, Stopped, NodeRecords, MonitorStates
      <4> QED BY <4>1, <4>2
    <3> QED BY <3>1, <3>2 DEF Linked
  <2> QED BY <2>1, <2>2, <2>3 DEF MonitorSound
<1> HIDE DEF IInv
<1> QED BY <1>1, <1>2, <1>3, PTL DEF Spec

-----------------------------------------------------------------------------
(***************************************************************************)
(* The numbers of mailboxes (ProcessIds), for any number of mailboxes and  *)
(* any (even) limits: what coming round can never disturb.                 *)
(***************************************************************************)

\* The mailboxes under their numbers; an early number is an odd one above the
\* system's, and nobody else has it.
NoDangling == \A i \in Ids : mailboxes[i] # NoBox => mbid[mailboxes[i]] = i

EarlyId(n) == n % 2 = 1 /\ n > SysEnd

\* normal_cur_ is even in the first round and odd later on; in the first round
\* it is above every number in use.
GenInv ==
    /\ wrapped => normal_cur % 2 = 1
    /\ ~wrapped =>
          /\ normal_cur % 2 = 0 /\ normal_cur >= SysEnd
          /\ \A b \in Boxes : mbid[b] < normal_cur
          /\ \A m \in mail : m.to < normal_cur

OwnInv ==
    /\ \A b \in Boxes \ made : mbid[b] = NoNumber
    /\ \A m \in mail : m.box \in made
    /\ \A b \in early : mbid[b] # NoNumber =>
          EarlyId(mbid[b]) /\ \A c \in Boxes \ {b} : mbid[c] # mbid[b]
    /\ \A m \in mail : m.box \in early => EarlyId(m.to)

\* EarlyKept is not inductive: a mailbox that shares an early number would erase
\* its entry (OwnInv), and none does because of what Gen gives out (GenInv).
NumberInv == IdTypeOK /\ NoDangling /\ EarlyKept /\ GenInv /\ OwnInv

-----------------------------------------------------------------------------

\* What Gen gives out: in the first round the next odd number, then even ones.
LEMMA GenFacts ==
    ASSUME IdTypeOK, GenInv
    PROVE  LET g == Gen(normal_cur)
               w == wrapped \/ g.id < normal_cur
           IN  /\ g.id \in Ids /\ g.cur = g.id + 1 /\ g.cur \in WrapTo .. MaxNormal
               /\ w => g.id % 2 = 0 /\ g.cur % 2 = 1
               /\ ~w => g.id % 2 = 1 /\ g.cur % 2 = 0 /\ g.id > normal_cur /\ g.id > SysEnd
<1> DEFINE n == Step(normal_cur)
<1>1. normal_cur \in Nat /\ WrapTo <= normal_cur /\ normal_cur <= MaxNormal
  BY IdAssumption DEF IdTypeOK
<1>2. wrapped \in BOOLEAN BY DEF IdTypeOK
<1>3. CASE normal_cur + 1 >= MaxNormal
  <2>1. n = WrapTo BY <1>3 DEF Step
  <2>2. n \in Ids /\ n + 1 \in WrapTo .. MaxNormal BY <2>1, IdAssumption DEF Ids
  <2>3. n % 2 = 0 /\ (n + 1) % 2 = 1 BY <2>1, IdAssumption
  <2>4. n < normal_cur BY <1>1, <1>3, <2>1, IdAssumption
  <2> QED BY <2>2, <2>3, <2>4 DEF Gen
<1>4. CASE normal_cur + 1 < MaxNormal
  <2>1. n = normal_cur + 1 BY <1>1, <1>4, IdAssumption DEF Step
  <2>2. n \in Ids /\ n + 1 \in WrapTo .. MaxNormal BY <1>1, <1>4, <2>1, IdAssumption DEF Ids
  <2>3. n > normal_cur /\ ~(n < normal_cur) BY <1>1, <2>1
  <2>4. CASE wrapped
    <3>1. n % 2 = 0 /\ (n + 1) % 2 = 1 BY <1>1, <2>1, <2>4 DEF GenInv
    <3> QED BY <2>2, <2>4, <3>1 DEF Gen
  <2>5. CASE ~wrapped
    <3>1. n % 2 = 1 /\ (n + 1) % 2 = 0 BY <1>1, <2>1, <2>5 DEF GenInv
    <3>2. n > SysEnd BY <1>1, <2>1, <2>5, IdAssumption DEF GenInv
    <3> QED BY <2>2, <2>3, <2>5, <3>1, <3>2 DEF Gen
  <2> QED BY <2>4, <2>5
<1> QED BY <1>1, <1>3, <1>4, IdAssumption

LEMMA NumberInvInit == IdInit => NumberInv
<1> SUFFICES ASSUME IdInit PROVE NumberInv OBVIOUS
<1>1. IdTypeOK
  <2>1. sys_cur \in 1 .. SysEnd /\ normal_cur \in WrapTo .. MaxNormal BY IdAssumption DEF IdInit
  <2>2. mailboxes \in [Ids -> Boxes \cup {NoBox}] /\ mbid \in [Boxes -> Ids \cup {NoNumber}] BY DEF IdInit
  <2> QED BY <2>1, <2>2 DEF IdInit, IdTypeOK
<1>2. NoDangling /\ EarlyKept /\ OwnInv BY DEF IdInit, NoDangling, EarlyKept, OwnInv
<1>3. GenInv BY IdAssumption DEF IdInit, GenInv, NoNumber
<1> QED BY <1>1, <1>2, <1>3 DEF NumberInv

\* A mailbox is registered under a number that no early one has or had.
LEMMA RegisterStep ==
    ASSUME NumberInv, NEW b \in Boxes, NEW n \in Ids, Register(b, n),
           ~EarlyId(n) \/ ((\A c \in Boxes : mbid[c] # n) /\ (\A m \in mail : m.to # n)),
           \/ early' = early
           \/ early' = early \cup {b} /\ EarlyId(n) /\ \A c \in Boxes : mbid[c] # n
    PROVE  /\ NoDangling' /\ EarlyKept' /\ OwnInv'
           /\ mailboxes' \in [Ids -> Boxes \cup {NoBox}]
           /\ mbid' \in [Boxes -> Ids \cup {NoNumber}]
           /\ made' \subseteq Boxes /\ early' \subseteq made'
           /\ mail' \subseteq [to : Ids, box : Boxes]
<1> USE DEF NumberInv
<1>1. /\ b \notin made /\ made' = made \cup {b} /\ mail' = mail
      /\ mbid' = [mbid EXCEPT ![b] = n]
      /\ mailboxes' = [mailboxes EXCEPT ![n] = IF mailboxes[n] = NoBox THEN b ELSE mailboxes[n]]
  BY DEF Register
<1>2. /\ mailboxes' \in [Ids -> Boxes \cup {NoBox}] /\ mbid' \in [Boxes -> Ids \cup {NoNumber}]
      /\ made' \subseteq Boxes /\ early' \subseteq made' /\ mail' \subseteq [to : Ids, box : Boxes]
  BY <1>1 DEF IdTypeOK
<1>3. mbid[b] = NoNumber /\ n # NoNumber BY <1>1 DEF OwnInv, Ids, NoNumber
<1>4. mbid'[b] = n /\ \A c \in Boxes \ {b} : mbid'[c] = mbid[c] BY <1>1 DEF IdTypeOK
<1>5. \A i \in Ids \ {n} : mailboxes'[i] = mailboxes[i] BY <1>1 DEF IdTypeOK
<1>6. mailboxes'[n] = IF mailboxes[n] = NoBox THEN b ELSE mailboxes[n] BY <1>1 DEF IdTypeOK
<1>7. \A i \in Ids : mailboxes[i] # NoBox => mailboxes[i] \in Boxes \ {b} /\ mbid[mailboxes[i]] = i
  BY <1>3, IdAssumption DEF NoDangling, IdTypeOK, Ids, NoNumber
<1>8. NoDangling' BY <1>4, <1>5, <1>6, <1>7 DEF NoDangling
<1>9. b \notin early /\ \A m \in mail : m.box # b /\ m.to \in Ids BY <1>1 DEF IdTypeOK, OwnInv
<1>10. \A c \in early : c \in Boxes \ {b} /\ (mbid[c] # NoNumber => mbid[c] # n /\ mbid[c] \in Ids)
  BY <1>9 DEF OwnInv, IdTypeOK
<1>11. \A m \in mail : m.box \in early => m.to # n BY DEF OwnInv
<1>12. EarlyKept'
  <2>1. ASSUME NEW c \in early', mbid'[c] # NoNumber PROVE mailboxes'[mbid'[c]] = c
    <3>1. CASE c \in early BY <1>4, <1>5, <1>10, <2>1, <3>1 DEF EarlyKept
    <3>2. CASE c = b /\ \A d \in Boxes : mbid[d] # n
      <4>1. mailboxes[n] = NoBox BY <1>7, <3>2
      <4> QED BY <1>4, <1>6, <3>2, <4>1
    <3> QED BY <2>1, <3>1, <3>2
  <2>2. ASSUME NEW m \in mail', m.box \in early' PROVE mailboxes'[m.to] \in {m.box, NoBox}
    <3>1. m \in mail /\ m.box \in early BY <1>1, <1>9, <2>2
    <3> QED BY <1>5, <1>9, <1>11, <3>1 DEF EarlyKept
  <2> QED BY <2>1, <2>2 DEF EarlyKept
<1>13. OwnInv'
  <2>1. \A c \in Boxes \ made' : mbid'[c] = NoNumber BY <1>1, <1>4 DEF OwnInv
  <2>2. \A m \in mail' : m.box \in made' /\ (m.box \in early' => EarlyId(m.to))
    BY <1>1, <1>9 DEF OwnInv
  <2>3. ASSUME NEW c \in early', mbid'[c] # NoNumber
        PROVE  EarlyId(mbid'[c]) /\ \A d \in Boxes \ {c} : mbid'[d] # mbid'[c]
    <3>1. CASE c \in early BY <1>4, <1>10, <2>3, <3>1 DEF OwnInv
    <3>2. CASE c = b /\ EarlyId(n) /\ \A d \in Boxes : mbid[d] # n BY <1>4, <3>2
    <3> QED BY <2>3, <3>1, <3>2
  <2> QED BY <2>1, <2>2, <2>3 DEF OwnInv
<1> QED BY <1>2, <1>8, <1>12, <1>13

LEMMA CreateSysStep == ASSUME NumberInv, NEW b \in Boxes, CreateSys(b) PROVE NumberInv'
<1> USE DEF NumberInv
<1>1. sys_cur \in Ids /\ sys_cur < SysEnd BY IdAssumption DEF CreateSys, IdTypeOK, Ids
<1>2. ~EarlyId(sys_cur) BY <1>1, IdAssumption DEF EarlyId, Ids
<1>3. Register(b, sys_cur) /\ early' = early /\ wrapped' = wrapped /\ normal_cur' = normal_cur
  BY DEF CreateSys, round
<1>4. /\ NoDangling' /\ EarlyKept' /\ OwnInv'
      /\ mailboxes' \in [Ids -> Boxes \cup {NoBox}] /\ mbid' \in [Boxes -> Ids \cup {NoNumber}]
      /\ made' \subseteq Boxes /\ early' \subseteq made' /\ mail' \subseteq [to : Ids, box : Boxes]
  <2>1. PICK n \in Ids : n = sys_cur BY <1>1
  <2>2. Register(b, n) /\ ~EarlyId(n) /\ early' = early BY <1>2, <1>3, <2>1
  <2> QED BY <2>2, RegisterStep
<1>5. sys_cur' \in 1 .. SysEnd BY <1>1, IdAssumption DEF CreateSys, IdTypeOK, Ids
<1>6. IdTypeOK' BY <1>3, <1>4, <1>5 DEF IdTypeOK
<1>7. GenInv'
  <2>1. mail' = mail /\ mbid' = [mbid EXCEPT ![b] = sys_cur] BY <1>3 DEF Register
  <2>2. ASSUME ~wrapped, NEW c \in Boxes PROVE mbid'[c] < normal_cur
    <3>1. CASE c = b
      <4>1. mbid'[c] = sys_cur BY <2>1, <3>1 DEF IdTypeOK
      <4>2. sys_cur \in Nat /\ normal_cur \in Nat /\ SysEnd \in Nat BY <1>1, IdAssumption DEF Ids, IdTypeOK
      <4> QED BY <1>1, <2>2, <4>1, <4>2 DEF GenInv
    <3>2. CASE c # b BY <2>1, <2>2, <3>2 DEF GenInv, IdTypeOK
    <3> QED BY <3>1, <3>2
  <2> QED BY <1>3, <2>1, <2>2 DEF GenInv
<1> QED BY <1>4, <1>6, <1>7

LEMMA CreateNormalStep == ASSUME NumberInv, NEW b \in Boxes, CreateNormal(b) PROVE NumberInv'
<1> USE DEF NumberInv
<1>1. PICK n : n = Gen(normal_cur).id OBVIOUS
<1>2. /\ normal_cur' = Gen(normal_cur).cur /\ Register(b, n) /\ sys_cur' = sys_cur
      /\ wrapped' = (wrapped \/ n < normal_cur)
      /\ early' = IF wrapped' THEN early ELSE early \cup {b}
  BY <1>1 DEF CreateNormal
<1>3. /\ n \in Ids /\ normal_cur' = n + 1 /\ normal_cur' \in WrapTo .. MaxNormal
      /\ wrapped' => n % 2 = 0 /\ normal_cur' % 2 = 1
      /\ ~wrapped' => n % 2 = 1 /\ normal_cur' % 2 = 0 /\ n > normal_cur /\ n > SysEnd
  BY <1>1, <1>2, GenFacts
<1>4. n \in Nat /\ normal_cur \in Nat /\ \A c \in Boxes : mbid[c] \in Nat
  BY <1>3, IdAssumption DEF IdTypeOK, Ids, NoNumber
<1>5. \A m \in mail : m.to \in Nat BY IdAssumption DEF IdTypeOK, Ids
<1>6. ASSUME ~wrapped'
      PROVE  ~wrapped /\ (\A c \in Boxes : mbid[c] < n) /\ (\A m \in mail : m.to < n)
  <2>1. ~wrapped BY <1>2, <1>6
  <2> QED BY <1>3, <1>4, <1>5, <1>6, <2>1 DEF GenInv
<1>7. ~EarlyId(n) \/ ((\A c \in Boxes : mbid[c] # n) /\ (\A m \in mail : m.to # n))
  <2>1. CASE wrapped'
    <3>1. n % 2 = 0 BY <1>3, <2>1
    <3> QED BY <3>1 DEF EarlyId
  <2>2. CASE ~wrapped' BY <1>4, <1>5, <1>6, <2>2
  <2> QED BY <2>1, <2>2
<1>8. \/ early' = early
      \/ early' = early \cup {b} /\ EarlyId(n) /\ \A c \in Boxes : mbid[c] # n
  <2>1. CASE wrapped' BY <1>2, <2>1
  <2>2. CASE ~wrapped' BY <1>2, <1>3, <1>4, <1>6, <2>2 DEF EarlyId
  <2> QED BY <2>1, <2>2
<1>9. /\ NoDangling' /\ EarlyKept' /\ OwnInv'
      /\ mailboxes' \in [Ids -> Boxes \cup {NoBox}] /\ mbid' \in [Boxes -> Ids \cup {NoNumber}]
      /\ made' \subseteq Boxes /\ early' \subseteq made' /\ mail' \subseteq [to : Ids, box : Boxes]
  BY <1>2, <1>3, <1>7, <1>8, RegisterStep
<1>10. wrapped' \in BOOLEAN BY <1>2
<1>11. IdTypeOK' BY <1>2, <1>3, <1>9, <1>10 DEF IdTypeOK
<1>12. GenInv'
  <2>1. mail' = mail /\ mbid' = [mbid EXCEPT ![b] = n] BY <1>2 DEF Register
  <2>2. ASSUME ~wrapped' PROVE normal_cur' >= SysEnd BY <1>3, <1>4, <2>2, IdAssumption
  <2>3. ASSUME ~wrapped', NEW c \in Boxes PROVE mbid'[c] < normal_cur'
    <3>1. mbid'[c] = n \/ mbid'[c] = mbid[c] BY <2>1 DEF IdTypeOK
    <3> QED BY <1>3, <1>4, <1>6, <2>3, <3>1
  <2>4. ASSUME ~wrapped', NEW m \in mail' PROVE m.to < normal_cur'
    BY <1>3, <1>4, <1>5, <1>6, <2>1, <2>4
  <2> QED BY <1>3, <2>2, <2>3, <2>4 DEF GenInv
<1> QED BY <1>9, <1>11, <1>12

\* The entry a mailbox erases is its own or that of one as late as itself.
LEMMA DestroyStep == ASSUME NumberInv, NEW b \in Boxes, Destroy(b) PROVE NumberInv'
<1> USE DEF NumberInv
<1>1. /\ mbid[b] # NoNumber /\ mailboxes' = [mailboxes EXCEPT ![mbid[b]] = NoBox]
      /\ mbid' = [mbid EXCEPT ![b] = NoNumber]
      /\ sys_cur' = sys_cur /\ normal_cur' = normal_cur /\ made' = made /\ mail' = mail
      /\ wrapped' = wrapped /\ early' = early
  BY DEF Destroy, Erased, round
<1>2. mbid[b] \in Ids BY <1>1 DEF IdTypeOK
<1>3. IdTypeOK' BY <1>1, <1>2 DEF IdTypeOK
<1>4. mbid'[b] = NoNumber /\ \A c \in Boxes \ {b} : mbid'[c] = mbid[c] BY <1>1 DEF IdTypeOK
<1>5. mailboxes'[mbid[b]] = NoBox /\ \A i \in Ids \ {mbid[b]} : mailboxes'[i] = mailboxes[i]
  BY <1>1, <1>2 DEF IdTypeOK
<1>6. NoDangling'
  <2> SUFFICES ASSUME NEW i \in Ids, mailboxes'[i] # NoBox PROVE mbid'[mailboxes'[i]] = i
    BY DEF NoDangling
  <2>1. i # mbid[b] /\ mailboxes'[i] = mailboxes[i] BY <1>5
  <2>2. mbid[mailboxes[i]] = i /\ mailboxes[i] \in Boxes BY <2>1 DEF NoDangling, IdTypeOK
  <2> QED BY <1>4, <2>1, <2>2
<1>7. EarlyKept'
  <2>1. ASSUME NEW c \in early, mbid'[c] # NoNumber PROVE mailboxes'[mbid'[c]] = c
    <3>1. c # b /\ mbid'[c] = mbid[c] /\ c \in Boxes BY <1>4, <2>1 DEF IdTypeOK
    <3>2. mbid[b] # mbid[c] /\ mbid[c] \in Ids BY <2>1, <3>1 DEF OwnInv, IdTypeOK
    <3> QED BY <1>5, <2>1, <3>1, <3>2 DEF EarlyKept
  <2>2. ASSUME NEW m \in mail, m.box \in early PROVE mailboxes'[m.to] \in {m.box, NoBox}
    <3>1. m.to \in Ids BY DEF IdTypeOK
    <3> QED BY <1>5, <2>2, <3>1 DEF EarlyKept
  <2> QED BY <1>1, <2>1, <2>2 DEF EarlyKept
<1>8. OwnInv'
  <2>1. \A c \in Boxes : mbid'[c] # NoNumber => c # b /\ mbid'[c] = mbid[c] BY <1>4
  <2>2. ASSUME NEW c \in early, mbid'[c] # NoNumber
        PROVE  EarlyId(mbid'[c]) /\ \A d \in Boxes \ {c} : mbid'[d] # mbid'[c]
    <3>1. c \in Boxes /\ mbid'[c] = mbid[c] /\ mbid[c] # NoNumber BY <2>1, <2>2 DEF IdTypeOK
    <3> QED BY <1>4, <2>2, <3>1 DEF OwnInv
  <2>3. \A c \in Boxes \ made : mbid'[c] = NoNumber BY <1>4 DEF OwnInv
  <2> QED BY <1>1, <2>2, <2>3 DEF OwnInv
<1>9. GenInv'
  <2>1. ASSUME ~wrapped, NEW c \in Boxes PROVE mbid'[c] < normal_cur
    <3>1. CASE c = b
      <4>1. normal_cur \in Nat /\ normal_cur > 0 BY IdAssumption DEF IdTypeOK
      <4> QED BY <1>4, <3>1, <4>1 DEF NoNumber
    <3>2. CASE c # b BY <1>4, <2>1, <3>2 DEF GenInv
    <3> QED BY <3>1, <3>2
  <2> QED BY <1>1, <2>1 DEF GenInv
<1> QED BY <1>3, <1>6, <1>7, <1>8, <1>9

LEMMA SendStep == ASSUME NumberInv, NEW b \in Boxes, Send(b) PROVE NumberInv'
<1> USE DEF NumberInv
<1>1. PICK m : m = [to |-> mbid[b], box |-> b] OBVIOUS
<1>2. /\ mbid[b] # NoNumber /\ mail' = mail \cup {m} /\ sys_cur' = sys_cur
      /\ normal_cur' = normal_cur /\ mailboxes' = mailboxes /\ mbid' = mbid /\ made' = made
      /\ wrapped' = wrapped /\ early' = early
  BY <1>1 DEF Send, round
<1>3. m.to = mbid[b] /\ m.box = b /\ m.to \in Ids BY <1>1, <1>2 DEF IdTypeOK
<1>4. b \in made BY <1>2 DEF OwnInv
<1>5. IdTypeOK' BY <1>1, <1>2, <1>3 DEF IdTypeOK
<1>6. NoDangling' BY <1>2 DEF NoDangling
<1>7. EarlyKept' BY <1>2, <1>3 DEF EarlyKept
<1>8. OwnInv' BY <1>2, <1>3, <1>4 DEF OwnInv
<1>9. GenInv' BY <1>2, <1>3 DEF GenInv
<1> QED BY <1>5, <1>6, <1>7, <1>8, <1>9

LEMMA StillStep ==
    ASSUME NumberInv, mail' \subseteq mail,
           UNCHANGED <<sys_cur, normal_cur, mailboxes, mbid, made, round>>
    PROVE  NumberInv'
<1> USE DEF NumberInv, round
<1>1. IdTypeOK' BY DEF IdTypeOK
<1>2. NoDangling' BY DEF NoDangling
<1>3. EarlyKept' BY DEF EarlyKept
<1>4. OwnInv' BY DEF OwnInv
<1>5. GenInv' BY DEF GenInv
<1> QED BY <1>1, <1>2, <1>3, <1>4, <1>5

LEMMA NumberInvStep == NumberInv /\ [IdNext]_idVars => NumberInv'
<1> SUFFICES ASSUME NumberInv, [IdNext]_idVars PROVE NumberInv' OBVIOUS
<1>1. ASSUME NEW b \in Boxes, CreateSys(b) PROVE NumberInv' BY <1>1, CreateSysStep
<1>2. ASSUME NEW b \in Boxes, CreateNormal(b) PROVE NumberInv' BY <1>2, CreateNormalStep
<1>3. ASSUME NEW b \in Boxes, Destroy(b) PROVE NumberInv' BY <1>3, DestroyStep
<1>4. ASSUME NEW b \in Boxes, Send(b) PROVE NumberInv' BY <1>4, SendStep
<1>5. ASSUME NEW m \in mail, Deliver(m) PROVE NumberInv'
  <2>1. mail' \subseteq mail BY <1>5 DEF Deliver
  <2> QED BY <1>5, <2>1, StillStep DEF Deliver
<1>6. CASE UNCHANGED idVars
  <2>1. mail' \subseteq mail BY <1>6 DEF idVars
  <2> QED BY <1>6, <2>1, StillStep DEF idVars, round
<1> QED BY <1>1, <1>2, <1>3, <1>4, <1>5, <1>6 DEF IdNext

\* mailboxes_ points at live mailboxes only and at each under its own number,
\* however often the numbers come round (nodemonitor.cpp:365-391).
THEOREM RegistryIsSound == IdSpec => []RegistrySound
<1>1. NumberInv => RegistrySound BY DEF NumberInv, NoDangling, RegistrySound
<1> QED BY <1>1, NumberInvInit, NumberInvStep, PTL DEF IdSpec

\* A normal mailbox of the first round keeps its number to itself for ever, in
\* any process whose limits are even, as 10000, 1000 and 2^24 are: because Gen
\* increments twice, later rounds give out even numbers (nodemonitor.h:258-269).
THEOREM EarlyAreKept == IdSpec => []EarlyKept
<1>1. NumberInv => EarlyKept BY DEF NumberInv
<1> QED BY <1>1, NumberInvInit, NumberInvStep, PTL DEF IdSpec
=============================================================================
