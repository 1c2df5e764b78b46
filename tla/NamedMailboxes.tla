--------------------------- MODULE NamedMailboxes ---------------------------
(***************************************************************************)
(* base/cluster/nodemonitor.cpp, mailbox.cpp: how the names of mailboxes   *)
(* spread over a cluster.  Every node keeps named_mailboxes_, its own      *)
(* names and, as "name@node", those its peers have told it.  A node tells  *)
(* a peer its names when the peer authenticates, and every change later;   *)
(* a lost connection takes the peer's names away.  A node that restarts    *)
(* forgets everything and dials its links again; nobody else reconnects.   *)
(***************************************************************************)
EXTENDS Naturals, Sequences, FiniteSets, SequencesExt

CONSTANTS
    Nodes,
    Names,         \* names a mailbox may have on its own node
    Unnamed,       \* the empty name
    Titles,        \* the names Mailbox::Create is called with
    Dials,         \* <<n, m>>: n is configured to connect to m
    Fetches,       \* calls of FetchNamedMailbox[WithLinker], each made once
    FetchAt,       \* the node each is made on
    FetchWants,    \* the <<name, owner>> pairs its matcher accepts
    NoBox,         \* no entry in named_mailboxes_
    MaxPid,        \* bound: mailboxes created per life of a node
    MaxRestarts,   \* bound: restarts of all nodes together
    MaxBreaks,     \* bound: connections lost without a crash
    Duplicates     \* may a name be created that is in use on the node?

\* The key <<nm, n>> stands for "nm" on node n itself and for "nm@n" on the
\* other nodes.
Keys == Names \X Nodes
Mbid == [node : Nodes, pid : 1..MaxPid]

ASSUME MailboxAssumption ==
    /\ IsFiniteSet(Nodes)
    /\ Unnamed \notin Names
    /\ Titles \subseteq Names \cup {Unnamed}
    /\ Dials \subseteq Nodes \X Nodes
    /\ \A d \in Dials : <<d[2], d[1]>> \notin Dials
    /\ FetchAt \in [Fetches -> Nodes]
    /\ FetchWants \in [Fetches -> SUBSET Keys]
    /\ NoBox \notin Mbid
    /\ {MaxPid, MaxRestarts, MaxBreaks} \subseteq Nat
    /\ Duplicates \in BOOLEAN

VARIABLES
    conn,      \* conn[n][m]: n's connector to m: "none", "anon" or "authed"
    chan,      \* chan[n][m]: what n has sent to m and m has not read
    dial,      \* the nodes whose connection n's BeginSetup has still to make
    boxes,     \* mailboxes_: the live mailboxes of each node
    pids,      \* pid_gen_
    named,     \* named_mailboxes_
    view,      \* what the listeners of the up and down events believe
    status,    \* each fetch
    restarts, breaks

cluster == <<conn, chan, dial>>
vars == <<conn, chan, dial, boxes, pids, named, view, status, restarts, breaks>>

Auth == [type |-> "AUTH"]
Eof == [type |-> "EOF"]
RegisterMsg(nm, pid) == [type |-> "REGISTER", name |-> nm, pid |-> pid]
UnRegisterMsg(nm) == [type |-> "UNREGISTER", name |-> nm]
Messages == {Auth, Eof}
            \cup {RegisterMsg(nm, p) : nm \in Names, p \in 1..MaxPid}
            \cup {UnRegisterMsg(nm) : nm \in Names}

NoNames == [k \in Keys |-> NoBox]

Init ==
    /\ conn = [n \in Nodes |-> [m \in Nodes |-> "none"]]
    /\ chan = [n \in Nodes |-> [m \in Nodes |-> <<>>]]
    /\ dial = [n \in Nodes |-> {m \in Nodes : <<n, m>> \in Dials}]
    /\ boxes = [n \in Nodes |-> {}]
    /\ pids = [n \in Nodes |-> 0]
    /\ named = [n \in Nodes |-> NoNames]
    /\ view = [n \in Nodes |-> {}]
    /\ status = [f \in Fetches |-> "idle"]
    /\ restarts = 0
    /\ breaks = 0

-----------------------------------------------------------------------------
(* Sending.  What is sent to a peer that is gone is lost.                  *)

\* The stream from n to m has ended, read or not.
Cut(n, m) ==
    \/ conn[m][n] = "none"
    \/ chan[n][m] # <<>> /\ Last(chan[n][m]) = Eof

\* chan after n has sent msgs to every peer in P.
Sent(n, P, msgs) ==
    [chan EXCEPT ![n] = [m \in Nodes |->
        IF m \in P /\ ~Cut(n, m) THEN @[m] \o msgs ELSE @[m]]]

\* The broadcasts go over connectors_, to the authenticated peers.
Broadcast(n, msg) == Sent(n, {m \in Nodes : conn[n][m] = "authed"}, <<msg>>)

-----------------------------------------------------------------------------
(* The map, the events and the waiting fetches of node n. *)

\* A list walk that forgets the names that come from other nodes.
CheckAsyncFetchList_LocalOnly(n, k) ==
    [f \in Fetches |->
        CASE FetchAt[f] = n /\ status[f] = "dropped" -> "gone"
          [] FetchAt[f] = n /\ status[f] = "waiting" /\ k \in FetchWants[f] /\ k[2] = n
               -> "answered"
          [] OTHER -> status[f]]

\* Entries whose linker was let go leave the list; the ones that match are
\* answered and leave it too.
CheckAsyncFetchList(n, k) ==
    [f \in Fetches |->
        CASE FetchAt[f] = n /\ status[f] = "dropped" -> "gone"
          [] FetchAt[f] = n /\ status[f] = "waiting" /\ k \in FetchWants[f] -> "answered"
          [] OTHER -> status[f]]

\* insert leaves an existing entry alone; the up event comes in any case.
OnNamedMailboxUp(n, k, mbid) ==
    /\ named' = [named EXCEPT ![n][k] = IF @ = NoBox THEN mbid ELSE @]
    /\ status' = CheckAsyncFetchList(n, k)
    /\ view' = [view EXCEPT ![n] = @ \cup {k}]

\* The names in K leave the map, with a down event each.
OnNamedMailboxesDown(n, K) ==
    /\ named' = [named EXCEPT ![n] = [k \in Keys |->
                    IF k \in K THEN NoBox ELSE @[k]]]
    /\ view' = [view EXCEPT ![n] = @ \ K]
    /\ UNCHANGED status

-----------------------------------------------------------------------------
(* Mailbox::Create and ~Mailbox. *)

\* Register of a new mailbox whose name, if it has one, is free.
Register(n, nm) ==
    LET pid == pids[n] + 1 IN
    /\ pids' = [pids EXCEPT ![n] = pid]
    /\ boxes' = [boxes EXCEPT ![n] = @ \cup {[pid |-> pid, name |-> nm]}]
    /\ IF nm = Unnamed
       THEN UNCHANGED <<named, view, status, chan>>
       ELSE /\ OnNamedMailboxUp(n, <<nm, n>>, [node |-> n, pid |-> pid])
            /\ chan' = Broadcast(n, RegisterMsg(nm, pid))

\* Faulty: the peers are not told.
UnRegister_NoBroadcast(n, nm) ==
    IF nm = Unnamed
    THEN UNCHANGED <<named, view, status, chan>>
    ELSE /\ OnNamedMailboxesDown(n, {<<nm, n>>})
         /\ UNCHANGED chan

\* UnRegister of a mailbox named nm, as far as the name is concerned: the
\* entry goes whichever mailbox it belongs to.
UnRegister(n, nm) ==
    IF nm = Unnamed
    THEN UNCHANGED <<named, view, status, chan>>
    ELSE /\ OnNamedMailboxesDown(n, {<<nm, n>>})
         /\ chan' = Broadcast(n, UnRegisterMsg(nm))

\* When Register refuses the name, Create deletes the mailbox, and ~Mailbox
\* unregisters that name.
Create(n, nm) ==
    /\ pids[n] < MaxPid
    /\ IF nm \in Names /\ named[n][<<nm, n>>] # NoBox
       THEN /\ Duplicates
            /\ UnRegister(n, nm)
            /\ UNCHANGED <<boxes, pids>>
       ELSE Register(n, nm)
    /\ UNCHANGED <<conn, dial, restarts, breaks>>

\* ~Mailbox
Destroy(n, mb) ==
    /\ mb \in boxes[n]
    /\ UnRegister(n, mb.name)
    /\ boxes' = [boxes EXCEPT ![n] = @ \ {mb}]
    /\ UNCHANGED <<conn, dial, pids, restarts, breaks>>

-----------------------------------------------------------------------------
(* FetchNamedMailbox and FetchNamedMailboxWithLinker. *)

Fetch(f) ==
    LET n == FetchAt[f] IN
    /\ status[f] = "idle"
    /\ status' = [status EXCEPT ![f] =
                    IF \E k \in FetchWants[f] : named[n][k] # NoBox
                    THEN "answered" ELSE "waiting"]
    /\ UNCHANGED <<cluster, boxes, pids, named, view, restarts, breaks>>

\* The caller releases its AsyncFetchLinker; the entry is still listed.
DropLinker(f) ==
    /\ status[f] = "waiting"
    /\ status' = [status EXCEPT ![f] = "dropped"]
    /\ UNCHANGED <<cluster, boxes, pids, named, view, restarts, breaks>>

-----------------------------------------------------------------------------
(* Connections. *)

\* BeginSetup of n reaches m: both ends have an anonymous connector and have
\* sent AUTH.  Two connections of one pair are NodeMonitor's subject; here
\* the old one is gone on both sides.
Connect(n, m) ==
    /\ m \in dial[n]
    /\ conn[n][m] = "none" /\ conn[m][n] = "none"
    /\ chan[n][m] = <<>> /\ chan[m][n] = <<>>
    /\ dial' = [dial EXCEPT ![n] = @ \ {m}]
    /\ conn' = [conn EXCEPT ![n][m] = "anon", ![m][n] = "anon"]
    /\ chan' = [chan EXCEPT ![n][m] = <<Auth>>, ![m][n] = <<Auth>>]
    /\ UNCHANGED <<boxes, pids, named, view, status, restarts, breaks>>

\* The network cuts the connection: each side reads some of what was under
\* way and then the end of the stream.
Break(n, m) ==
    /\ breaks < MaxBreaks
    /\ ~Cut(n, m) /\ ~Cut(m, n)
    /\ \E i \in 0..Len(chan[n][m]), j \in 0..Len(chan[m][n]) :
          chan' = [chan EXCEPT ![n][m] = Append(SubSeq(@, 1, i), Eof),
                               ![m][n] = Append(SubSeq(@, 1, j), Eof)]
    /\ breaks' = breaks + 1
    /\ UNCHANGED <<conn, dial, boxes, pids, named, view, status, restarts>>

\* The process of n dies and comes back.  Its peers read what it had sent,
\* then the end of the stream.
Restart(n) ==
    /\ restarts < MaxRestarts
    /\ conn' = [conn EXCEPT ![n] = [m \in Nodes |-> "none"]]
    /\ chan' = [a \in Nodes |-> [b \in Nodes |->
                  CASE b = n -> <<>>
                    [] a = n /\ ~Cut(n, b) -> Append(chan[n][b], Eof)
                    [] OTHER -> chan[a][b]]]
    /\ dial' = [dial EXCEPT ![n] = {m \in Nodes : <<n, m>> \in Dials}]
    /\ boxes' = [boxes EXCEPT ![n] = {}]
    /\ pids' = [pids EXCEPT ![n] = 0]
    /\ named' = [named EXCEPT ![n] = NoNames]
    /\ view' = [view EXCEPT ![n] = {}]
    /\ status' = [f \in Fetches |-> IF FetchAt[f] = n /\ status[f] # "idle"
                                    THEN "gone" ELSE status[f]]
    /\ restarts' = restarts + 1
    /\ UNCHANGED breaks

-----------------------------------------------------------------------------
(* Node n reads the next message of its connection to m. *)

Reading(n, m, type) ==
    /\ conn[n][m] # "none"
    /\ chan[m][n] # <<>>
    /\ Head(chan[m][n]).type = type

Read(n, m, c) == [c EXCEPT ![m][n] = Tail(@)]

LocalNames(n) == {nm \in Names : named[n][<<nm, n>>] # NoBox}

\* Faulty: the newcomer is not told the names that exist.
ReceiveAuth_NoSync(n, m) ==
    /\ Reading(n, m, "AUTH")
    /\ conn' = [conn EXCEPT ![n][m] = "authed"]
    /\ chan' = Read(n, m, chan)
    /\ UNCHANGED <<dial, boxes, pids, named, view, status, restarts, breaks>>

\* OnConnectorAuthSuccess, OnNodeUp: the newcomer is sent every name whose
\* mailbox is local.
ReceiveAuth(n, m) ==
    LET regs == {RegisterMsg(nm, named[n][<<nm, n>>].pid) : nm \in LocalNames(n)}
    IN
    /\ Reading(n, m, "AUTH")
    /\ conn' = [conn EXCEPT ![n][m] = "authed"]
    /\ chan' = Read(n, m, Sent(n, {m}, SetToSeq(regs)))
    /\ UNCHANGED <<dial, boxes, pids, named, view, status, restarts, breaks>>

ReceiveRegister(n, m) ==
    LET msg == Head(chan[m][n]) IN
    /\ Reading(n, m, "REGISTER")
    /\ OnNamedMailboxUp(n, <<msg.name, m>>, [node |-> m, pid |-> msg.pid])
    /\ chan' = Read(n, m, chan)
    /\ UNCHANGED <<conn, dial, boxes, pids, restarts, breaks>>

ReceiveUnRegister(n, m) ==
    LET k == <<Head(chan[m][n]).name, m>> IN
    /\ Reading(n, m, "UNREGISTER")
    /\ IF named[n][k] # NoBox
       THEN OnNamedMailboxesDown(n, {k})
       ELSE UNCHANGED <<named, view, status>>
    /\ chan' = Read(n, m, chan)
    /\ UNCHANGED <<conn, dial, boxes, pids, restarts, breaks>>

\* Faulty: the names of a lost peer stay.
ReceiveEof_KeepNames(n, m) ==
    /\ Reading(n, m, "EOF")
    /\ UNCHANGED <<named, view, status>>
    /\ conn' = [conn EXCEPT ![n][m] = "none"]
    /\ chan' = Read(n, m, chan)
    /\ UNCHANGED <<dial, boxes, pids, restarts, breaks>>

\* OnConnectorClose, and OnNodeDown of an authenticated peer: every name
\* whose mailbox has the peer's node id goes.
ReceiveEof(n, m) ==
    LET gone == {k \in Keys : named[n][k] # NoBox /\ named[n][k].node = m} IN
    /\ Reading(n, m, "EOF")
    /\ IF conn[n][m] = "authed"
       THEN OnNamedMailboxesDown(n, gone)
       ELSE UNCHANGED <<named, view, status>>
    /\ conn' = [conn EXCEPT ![n][m] = "none"]
    /\ chan' = Read(n, m, chan)
    /\ UNCHANGED <<dial, boxes, pids, restarts, breaks>>

Receive(n, m) ==
    \/ ReceiveAuth(n, m)
    \/ ReceiveRegister(n, m)
    \/ ReceiveUnRegister(n, m)
    \/ ReceiveEof(n, m)

Next ==
    \/ \E n \in Nodes, nm \in Titles : Create(n, nm)
    \/ \E n \in Nodes : \E mb \in boxes[n] : Destroy(n, mb)
    \/ \E f \in Fetches : Fetch(f) \/ DropLinker(f)
    \/ \E n, m \in Nodes : Connect(n, m) \/ Break(n, m) \/ Receive(n, m)
    \/ \E n \in Nodes : Restart(n)

Spec == Init /\ [][Next]_vars

(* A dispatcher reads what has arrived, and BeginSetup tries its links. *)
Fairness == \A n, m \in Nodes : WF_vars(Receive(n, m)) /\ WF_vars(Connect(n, m))

FairSpec == Spec /\ Fairness

-----------------------------------------------------------------------------
(* Properties. *)

TypeOK ==
    /\ conn \in [Nodes -> [Nodes -> {"none", "anon", "authed"}]]
    /\ \A n, m \in Nodes : chan[n][m] \in Seq(Messages)
    /\ dial \in [Nodes -> SUBSET Nodes]
    /\ boxes \in [Nodes -> SUBSET [pid : 1..MaxPid, name : Names \cup {Unnamed}]]
    /\ pids \in [Nodes -> 0..MaxPid]
    /\ named \in [Nodes -> [Keys -> Mbid \cup {NoBox}]]
    /\ view \in [Nodes -> SUBSET Keys]
    /\ status \in [Fetches -> {"idle", "waiting", "dropped", "answered", "gone"}]
    /\ restarts \in 0..MaxRestarts
    /\ breaks \in 0..MaxBreaks

\* What the names of m would be on n after n has read msgs: an entry lasts
\* until its UNREGISTER, and of the REGISTERs behind the last UNREGISTER the
\* first is the one that counts.
Replay(table, m, msgs) ==
    [nm \in Names |->
        LET takes == {i \in DOMAIN msgs : msgs[i].type = "UNREGISTER" /\ msgs[i].name = nm}
            says  == {i \in DOMAIN msgs : /\ msgs[i].type = "REGISTER" /\ msgs[i].name = nm
                                          /\ \A j \in takes : j < i}
            first == CHOOSE i \in says : \A j \in says : i <= j
        IN  CASE takes = {} /\ table[nm] # NoBox -> table[nm]
              [] (takes # {} \/ table[nm] = NoBox) /\ says = {} -> NoBox
              [] OTHER -> [node |-> m, pid |-> msgs[first].pid]]

\* Replication: once m has n in its connectors_, what n knows of m, changed
\* by what m has sent and n has not yet read, is exactly what m has
\* registered.  Registering during the handshake, the synchronisation of
\* OnNodeUp and the broadcasts neither lose nor double a name.
ReplicaAgrees ==
    \A n, m \in Nodes :
        n # m /\ conn[m][n] = "authed" /\ ~Cut(m, n) /\ ~Cut(n, m) =>
            Replay([nm \in Names |-> named[n][<<nm, m>>]], m, chan[m][n])
                = [nm \in Names |-> named[m][<<nm, m>>]]

\* A node knows names only of itself and of the peers it is connected to.
NamesOfPeersOnly ==
    \A n \in Nodes, k \in Keys :
        named[n][k] # NoBox => /\ named[n][k].node = k[2]
                               /\ k[2] = n \/ conn[n][k[2]] = "authed"

\* Listeners that follow the up and down events of named mailboxes believe
\* in exactly the names the map has.
ListenersAgree ==
    \A n \in Nodes : view[n] = {k \in Keys : named[n][k] # NoBox}

\* Nobody waits for a name that is there: FetchNamedMailbox looks before it
\* waits, and every way a name comes in looks through the waiting list.
NoMissedFetch ==
    \A f \in Fetches : status[f] = "waiting" =>
        \A k \in FetchWants[f] : named[FetchAt[f]][k] = NoBox

\* The named mailboxes of a node are its live mailboxes with a name: each is
\* found under its name, and each local name leads to a live mailbox.
LocalNamesLive ==
    \A n \in Nodes :
        {[pid |-> named[n][<<nm, n>>].pid, name |-> nm] : nm \in LocalNames(n)}
            = {mb \in boxes[n] : mb.name # Unnamed}

\* A node's own view is sound: names of connected peers only, listeners that
\* believe in exactly the names of the map, and local names that are those of
\* live mailboxes.
NamesSound == TypeOK /\ NamesOfPeersOnly /\ ListenersAgree /\ LocalNamesLive

\* A name that is registered on m becomes known on a connected n, unless it
\* is withdrawn or the connection ends first.
NamePropagates ==
    \A n, m \in Nodes, nm \in Names, p \in 1..MaxPid :
        LET mb == [node |-> m, pid |-> p] IN
        n # m =>
        (named[m][<<nm, m>>] = mb /\ conn[m][n] = "authed"
            ~> \/ named[n][<<nm, m>>] = mb
               \/ named[m][<<nm, m>>] # mb
               \/ conn[m][n] # "authed")

\* A name whose mailbox is gone, by its destruction, a lost connection or
\* the death of its node, does not stay on other nodes.
StaleNamesLeave ==
    \A n, m \in Nodes, nm \in Names, p \in 1..MaxPid :
        LET mb == [node |-> m, pid |-> p] IN
        n # m =>
        (named[n][<<nm, m>>] = mb /\ named[m][<<nm, m>>] # mb
            ~> named[n][<<nm, m>>] # mb \/ named[m][<<nm, m>>] = mb)

\* Between nodes that read their messages, names that are registered arrive
\* and names that are withdrawn or whose node is lost leave.
NamesConverge == NamePropagates /\ StaleNamesLeave
=============================================================================
