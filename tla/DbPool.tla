------------------------------- MODULE DbPool -------------------------------
(***************************************************************************)
(* The MySQL client of base/dbo_bk: RealConnectionPoolManager with its     *)
(* pools, the RealConnections they share out, and the Connections through  *)
(* which users run one statement after another.  All of it runs on the     *)
(* dispatcher's thread; what interleaves are the server's answers and      *)
(* disconnects, the users, the deferred close and the 200 ms checks.       *)
(***************************************************************************)
EXTENDS Naturals, Sequences, FiniteSets, SequencesExt

CONSTANTS
    NPools,    \* pools_.size()
    PoolSize,  \* poolinfo_.poolsize
    Real,      \* bound: the RealConnection objects that can be created
    Conns,     \* bound: the Connection objects that users create
    MaxStmts,  \* bound: statements per Connection
    Careful,   \* do users keep a Connection while pending(), and stop the
               \* module only when they hold no Connection?
    Nobody

ASSUME DbPoolAssumption ==
    /\ NPools \in Nat \ {0}
    /\ PoolSize \in Nat \ {0}
    /\ IsFiniteSet(Real) /\ IsFiniteSet(Conns)
    /\ MaxStmts \in Nat
    /\ Careful \in BOOLEAN
    /\ Nobody \notin Real \cup Conns

Pools == 1..NPools

VARIABLES
    pending, free, busy,  \* the lists of each pool
    aquire,     \* aquire_list_ of each pool
    net,        \* connect_: "none" (not created), "pending", "up", "down"
    poolid,     \* poolid_ of each RealConnection
    phase,      \* conn_phase_
    handler,    \* data_handler_
    linked,     \* RealConnections in the dispatcher's io_list_
    closed,     \* closed_
    queue,      \* closed_io_list_
    refs,       \* reference_count() of each RealConnection
    wire,       \* the statements sent and not answered, by RealConnection
    conn,       \* "none", "live" or "gone", by Connection
    user,       \* the Connections that their users hold
    realOf,     \* realconn_
    stmt,       \* phase_ of cur_stmt_, "none" without one
    serial,     \* the number of cur_stmt_
    told,       \* the Connections whose callback had the disconnect error
    mixed,      \* the Connections whose callback had another one's result
    setup,      \* "none", "running" (setup_checker_), "ok", "fail"
    rollback,   \* roolback_
    cleanup     \* "no", "asked" (cleanup_checker_), "done"

lists == <<pending, free, busy, aquire>>
sock == <<net, poolid, phase, linked, closed, queue>>
stmts == <<stmt, serial, told, mixed>>
manager == <<setup, rollback, cleanup>>
vars == <<lists, sock, handler, refs, wire, conn, user, realOf, stmts, manager>>

Init ==
    /\ pending = [p \in Pools |-> {}]
    /\ free = [p \in Pools |-> <<>>]
    /\ busy = [p \in Pools |-> {}]
    /\ aquire = [p \in Pools |-> <<>>]
    /\ net = [r \in Real |-> "none"]
    /\ poolid = [r \in Real |-> 0]
    /\ phase = [r \in Real |-> "init"]
    /\ handler = [r \in Real |-> Nobody]
    /\ linked = {} /\ closed = {} /\ queue = {}
    /\ refs = [r \in Real |-> 0]
    /\ wire = [r \in Real |-> <<>>]
    /\ conn = [c \in Conns |-> "none"]
    /\ user = {}
    /\ realOf = [c \in Conns |-> Nobody]
    /\ stmt = [c \in Conns |-> "none"]
    /\ serial = [c \in Conns |-> 0]
    /\ told = {} /\ mixed = {}
    /\ setup = "none" /\ rollback = FALSE /\ cleanup = "no"

-----------------------------------------------------------------------------
(* Pieces of the handlers. *)

Unused == {r \in Real : net[r] = "none"}
InPool(p) == pending[p] \cup ToSet(free[p]) \cup busy[p]
IsEmpty(p) == InPool(p) = {}
InFlight == {"prepare", "response"}

\* What s has at the positions W, in its order.
Those(s, W) ==
    LET o == CHOOSE o \in [1..Cardinality(W) -> W] : \A i, j \in DOMAIN o : i < j => o[i] < o[j]
    IN  [i \in 1..Cardinality(W) |-> s[o[i]]]

\* Faulty: a statement counts as finished once it is sent.
Pending_Sent(c) == stmt[c] \in {"new", "wait"}

\* Connection::pending.
Pending(c) == stmt[c] \notin {"none", "finish"}

\* What CheckCreateMore has to create.
Missing(p) == PoolSize - Cardinality(InPool(p))

\* SetDataHandler and ResetDataHandler.
SetDataHandler(r, c) == handler' = [handler EXCEPT ![r] = c]

\* Faulty: a statement is told only while it waits to be sent.
TellsOfClose_WaitOnly(r) ==
    phase[r] = "ok" /\ handler[r] # Nobody /\ stmt[handler[r]] = "wait"

\* RealConnection::OnClose and HandleClose: does closing r call a callback?
TellsOfClose(r) ==
    phase[r] = "ok" /\ handler[r] # Nobody /\ stmt[handler[r]] \notin {"none", "new"}

\* Faulty: the connections in free_ are left alone.
ToClose_PendingOnly == UNION {pending[p] : p \in Pools}

\* The connections that Cleanup closes: not the busy ones.
ToClose == UNION {pending[p] \cup ToSet(free[p]) : p \in Pools}

Open(r) == net[r] = "up" /\ r \notin closed

\* CreateNewConnection for every r in F, where F[r] is the pool: the ones in
\* Failed fail inside connect(), which removes and closes them at once.
CreateNewConnection(F, Failed) ==
    LET New == DOMAIN F IN
    /\ net' = [r \in Real |-> IF r \in New \ Failed THEN "pending"
                              ELSE IF r \in Failed THEN "down" ELSE net[r]]
    /\ poolid' = [r \in Real |-> IF r \in New THEN F[r] ELSE poolid[r]]
    /\ linked' = linked \cup New
    /\ closed' = closed \cup Failed
    /\ queue' = queue \cup Failed
    /\ pending' = [p \in Pools |-> pending[p] \cup {r \in New \ Failed : F[r] = p}]

\* Faulty: the connection goes to free_ and nobody looks who waits.
CheckAquireList_Never(p, r, Leaving) ==
    /\ free' = [free EXCEPT ![p] = Append(@, r)]
    /\ busy' = [busy EXCEPT ![p] = @ \ {r}]
    /\ SetDataHandler(r, Nobody)
    /\ conn' = [c \in Conns |-> IF c \in Leaving THEN "gone" ELSE conn[c]]
    /\ realOf' = [c \in Conns |-> IF c \in Leaving THEN Nobody ELSE realOf[c]]
    /\ refs' = [refs EXCEPT ![r] = @ - Cardinality(Leaving)]
    /\ UNCHANGED <<aquire, wire, stmt>>

\* CheckAquireList after r has come to the back of free_, from the Connections
\* Leaving: the waiters whose users have let go are served, send what they
\* have to send, and give r back when they are destroyed; the first of the
\* others keeps it.
CheckAquireList(p, r, Leaving) ==
    LET Q == aquire[p]
        alive == {i \in DOMAIN Q : Q[i] \in user}
        k == IF alive = {} THEN Len(Q) ELSE Min(alive)
        taker == IF alive = {} THEN Nobody ELSE Q[k]
        dropped == {Q[i] : i \in 1..k} \ {taker}
        asks == Those(Q, {i \in 1..k : stmt[Q[i]] = "wait"})
        sent == [i \in DOMAIN asks |-> <<asks[i], serial[asks[i]]>>]
    IN
    /\ aquire' = [aquire EXCEPT ![p] = SubSeq(@, k + 1, Len(@))]
    /\ free' = [free EXCEPT ![p] = IF taker = Nobody THEN Append(@, r) ELSE @]
    /\ busy' = [busy EXCEPT ![p] = IF taker = Nobody THEN @ \ {r} ELSE @ \cup {r}]
    /\ SetDataHandler(r, taker)
    /\ wire' = [wire EXCEPT ![r] = IF Open(r) THEN @ \o sent ELSE @]
    /\ conn' = [c \in Conns |-> IF c \in Leaving \cup dropped THEN "gone" ELSE conn[c]]
    /\ realOf' = [c \in Conns |-> IF c = taker THEN r
                                  ELSE IF c \in Leaving THEN Nobody ELSE realOf[c]]
    /\ refs' = [refs EXCEPT ![r] = @ + (IF taker = Nobody THEN 0 ELSE 1) - Cardinality(Leaving)]
    /\ \E ph \in InFlight :
         stmt' = [c \in Conns |-> IF c = taker /\ stmt[c] = "wait" THEN ph ELSE stmt[c]]

\* RealConnectionPool::Cleanup of every pool.
CleanupPools ==
    LET Waiting == UNION {ToSet(aquire[p]) : p \in Pools}
        Connecting == {r \in UNION {pending[p] : p \in Pools} : net[r] # "up"}
        Closing == ToClose \ closed
    IN
    /\ aquire' = [p \in Pools |-> <<>>]
    /\ conn' = [c \in Conns |-> IF c \in Waiting \ user THEN "gone" ELSE conn[c]]
    /\ closed' = closed \cup Closing
    /\ queue' = queue \cup Closing
    /\ pending' = [p \in Pools |-> pending[p] \ Connecting]
    /\ refs' = [r \in Real |-> IF r \in Connecting THEN refs[r] - 1 ELSE refs[r]]
    /\ UNCHANGED <<free, busy, net, poolid, phase, linked, handler, wire, user,
                   realOf, stmts>>

-----------------------------------------------------------------------------
(* RealConnectionPoolManager. *)

BeginSetup ==
    /\ setup = "none"
    /\ setup' = "running"
    /\ \E F \in UNION {[N -> Pools] : N \in SUBSET Unused} :
         /\ \A p \in Pools : Cardinality({r \in DOMAIN F : F[r] = p}) = PoolSize
         /\ \E Failed \in SUBSET DOMAIN F :
              /\ CreateNewConnection(F, Failed)
              /\ refs' = [r \in Real |-> IF r \in Failed THEN 1
                                         ELSE IF r \in DOMAIN F THEN 2 ELSE refs[r]]
    /\ UNCHANGED <<free, busy, aquire, phase, handler, wire, conn, user, realOf,
                   stmts, rollback, cleanup>>

\* config_.ParseXml() fails.
BeginSetupFails ==
    /\ setup = "none"
    /\ setup' = "fail"
    /\ UNCHANGED <<lists, sock, handler, refs, wire, conn, user, realOf, stmts,
                   rollback, cleanup>>

\* The loop over pools_ stops at the first pool that is empty or has nothing
\* free, and only an empty one starts the rollback.
CheckIfSetupFinish ==
    /\ setup = "running"
    /\ LET bad == {p \in Pools : free[p] = <<>>}
           first == CHOOSE p \in bad : \A q \in bad : p <= q
       IN
       \/ /\ rollback
          /\ setup' = IF \A p \in Pools : IsEmpty(p) THEN "fail" ELSE setup
          /\ UNCHANGED <<lists, sock, handler, refs, wire, conn, user, realOf,
                         stmts, rollback>>
       \/ /\ ~rollback /\ bad # {} /\ IsEmpty(first)
          /\ rollback' = TRUE
          /\ CleanupPools
          /\ UNCHANGED setup
       \/ /\ ~rollback /\ bad = {}
          /\ setup' = "ok"
          /\ UNCHANGED <<lists, sock, handler, refs, wire, conn, user, realOf,
                         stmts, rollback>>
    /\ UNCHANGED cleanup

BeginCleanup ==
    /\ setup = "ok"
    /\ cleanup = "no"
    /\ Careful => user = {}
    /\ cleanup' = "asked"
    /\ CleanupPools
    /\ UNCHANGED <<setup, rollback>>

CheckIfCleanupFinish ==
    /\ cleanup = "asked"
    /\ \A p \in Pools : IsEmpty(p)
    /\ cleanup' = "done"
    /\ UNCHANGED <<lists, sock, handler, refs, wire, conn, user, realOf, stmts,
                   setup, rollback>>

-----------------------------------------------------------------------------
(* RealConnection. *)

ConnectSuccess(r) ==
    /\ net[r] = "pending" /\ r \notin closed
    /\ net' = [net EXCEPT ![r] = "up"]
    /\ UNCHANGED <<lists, poolid, phase, linked, closed, queue, handler, refs,
                   wire, conn, user, realOf, stmts, manager>>

\* Faulty: the pool forgets the failed connection without a Release.
ConnectFail_NoRelease(r) ==
    /\ net[r] = "pending" /\ r \notin closed
    /\ net' = [net EXCEPT ![r] = "down"]
    /\ pending' = [pending EXCEPT ![poolid[r]] = @ \ {r}]
    /\ refs' = refs
    /\ closed' = closed \cup {r}
    /\ queue' = queue \cup {r}
    /\ UNCHANGED <<free, busy, aquire, poolid, phase, linked, handler, wire,
                   conn, user, realOf, stmts, manager>>

\* OnConnectFail: the pool lets go, then the socket is closed.
ConnectFail(r) ==
    /\ net[r] = "pending" /\ r \notin closed
    /\ net' = [net EXCEPT ![r] = "down"]
    /\ pending' = [pending EXCEPT ![poolid[r]] = @ \ {r}]
    /\ refs' = [refs EXCEPT ![r] = @ - 1]
    /\ closed' = closed \cup {r}
    /\ queue' = queue \cup {r}
    /\ UNCHANGED <<free, busy, aquire, poolid, phase, linked, handler, wire,
                   conn, user, realOf, stmts, manager>>

HandleAuthInitHandshake(r) ==
    /\ Open(r) /\ phase[r] = "init"
    /\ phase' = [phase EXCEPT ![r] = "response"]
    /\ UNCHANGED <<lists, net, poolid, linked, closed, queue, handler, refs, wire,
                   conn, user, realOf, stmts, manager>>

\* OnAuthSuccess: from pending_ to free_, and on to a waiter.
HandleAuthResponse(r) ==
    LET p == poolid[r] IN
    /\ Open(r) /\ phase[r] = "response"
    /\ phase' = [phase EXCEPT ![r] = "ok"]
    /\ pending' = [pending EXCEPT ![p] = @ \ {r}]
    /\ CheckAquireList(p, r, {})
    /\ UNCHANGED <<net, poolid, linked, closed, queue, user, serial, told, mixed,
                   manager>>

\* The server disconnects or the socket has an error.
ServerCloses(r) ==
    /\ Open(r)
    /\ closed' = closed \cup {r}
    /\ queue' = queue \cup {r}
    /\ UNCHANGED <<lists, net, poolid, phase, linked, handler, refs, wire, conn,
                   user, realOf, stmts, manager>>

\* The server answers the oldest statement on r.  The answer belongs to
\* whatever statement data_handler_ has in flight now.
OnReceivePacket(r) ==
    LET c == handler[r]
        takes == c # Nobody /\ stmt[c] \in InFlight
    IN
    /\ Open(r) /\ phase[r] = "ok" /\ wire[r] # <<>>
    /\ mixed' = IF takes /\ Head(wire[r]) # <<c, serial[c]>> THEN mixed \cup {c} ELSE mixed
    /\ \/ /\ takes /\ stmt[c] = "prepare"     \* HandlePrepareFinish
          /\ stmt' = [stmt EXCEPT ![c] = "response"]
          /\ wire' = [wire EXCEPT ![r] = Append(Tail(@), <<c, serial[c]>>)]
       \/ /\ takes                            \* the result, or an error
          /\ stmt' = [stmt EXCEPT ![c] = "finish"]
          /\ wire' = [wire EXCEPT ![r] = Tail(@)]
       \/ /\ ~takes                           \* nobody, or the wrong sequence id
          /\ wire' = [wire EXCEPT ![r] = Tail(@)]
          /\ UNCHANGED stmt
    /\ UNCHANGED <<lists, sock, handler, refs, conn, user, realOf, serial, told,
                   manager>>

\* The dispatcher drains r: OnEventIOClose and, if it was connected, OnClose,
\* which tells the Connection and then the pool.  The callback may let go of
\* the Connection.
Drain(r) ==
    LET p == poolid[r]
        c == handler[r]
        tells == TellsOfClose(r)
    IN
    /\ r \in queue
    /\ queue' = queue \ {r}
    /\ linked' = linked \ {r}
    /\ wire' = [wire EXCEPT ![r] = <<>>]
    /\ \/ /\ net[r] # "up"
          /\ refs' = [refs EXCEPT ![r] = @ - 1]
          /\ UNCHANGED <<lists, net, handler, conn, user, realOf, told>>
       \/ /\ net[r] = "up"
          /\ net' = [net EXCEPT ![r] = "down"]
          /\ pending' = [pending EXCEPT ![p] = @ \ {r}]
          /\ free' = [free EXCEPT ![p] = Those(@, {i \in DOMAIN @ : @[i] # r})]
          /\ busy' = [busy EXCEPT ![p] = @ \ {r}]
          /\ told' = IF tells THEN told \cup {c} ELSE told
          /\ \/ /\ refs' = [refs EXCEPT ![r] = @ - 2]
                /\ UNCHANGED <<handler, conn, user, realOf>>
             \/ /\ tells /\ c \in user
                /\ refs' = [refs EXCEPT ![r] = @ - 3]
                /\ SetDataHandler(r, Nobody)
                /\ conn' = [conn EXCEPT ![c] = "gone"]
                /\ realOf' = [realOf EXCEPT ![c] = Nobody]
                /\ user' = user \ {c}
          /\ UNCHANGED aquire
    /\ UNCHANGED <<poolid, phase, closed, stmt, serial, mixed, manager>>

-----------------------------------------------------------------------------
(* Connection. *)

\* Connection::Create and AquireRealConnection: the front of free_ is taken
\* at once, or the Connection waits and missing RealConnections are made.
Create(c, p) ==
    LET serve == free[p] # <<>>
        r == Head(free[p])
        missing == Missing(p)
    IN
    /\ setup = "ok" /\ cleanup = "no"
    /\ conn[c] = "none"
    /\ conn' = [conn EXCEPT ![c] = "live"]
    /\ user' = user \cup {c}
    /\ free' = [free EXCEPT ![p] = IF serve THEN Tail(@) ELSE @]
    /\ busy' = [busy EXCEPT ![p] = IF serve THEN @ \cup {r} ELSE @]
    /\ aquire' = [aquire EXCEPT ![p] = IF serve THEN @ ELSE Append(@, c)]
    /\ handler' = IF serve THEN [handler EXCEPT ![r] = c] ELSE handler
    /\ realOf' = IF serve THEN [realOf EXCEPT ![c] = r] ELSE realOf
    /\ \E New \in SUBSET Unused :
         /\ Cardinality(New) <= missing
         /\ Cardinality(New) = missing \/ New = Unused
         /\ \E Failed \in SUBSET New :
              /\ CreateNewConnection([x \in New |-> p], Failed)
              /\ refs' = [x \in Real |->
                            IF x \in Failed THEN 1
                            ELSE IF x \in New THEN 2
                            ELSE IF serve /\ x = r THEN refs[x] + 1 ELSE refs[x]]
    /\ UNCHANGED <<phase, wire, stmts, manager>>

\* CreateStatement or CreatePreparedStatement; with another statement under
\* progress they throw.
CreateStatement(c) ==
    /\ c \in user
    /\ stmt[c] \in {"none", "finish"}
    /\ serial[c] < MaxStmts
    /\ serial' = [serial EXCEPT ![c] = @ + 1]
    /\ stmt' = [stmt EXCEPT ![c] = "new"]
    /\ UNCHANGED <<lists, sock, handler, refs, wire, conn, user, realOf, told,
                   mixed, manager>>

\* Execute: without a RealConnection it waits; what is sent on one that is
\* down or closed is lost.
Execute(c) ==
    LET r == realOf[c] IN
    /\ c \in user
    /\ stmt[c] = "new"
    /\ \/ /\ r = Nobody
          /\ stmt' = [stmt EXCEPT ![c] = "wait"]
          /\ UNCHANGED wire
       \/ /\ r # Nobody
          /\ \E ph \in InFlight : stmt' = [stmt EXCEPT ![c] = ph]
          /\ wire' = [wire EXCEPT ![r] = IF Open(r) THEN Append(@, <<c, serial[c]>>) ELSE @]
    /\ UNCHANGED <<lists, sock, handler, refs, conn, user, realOf, serial, told,
                   mixed, manager>>

\* The user lets go.  aquire_list_ keeps a waiting Connection; any other is
\* destroyed and ReleaseRealConnection gives back what it has.
Release(c) ==
    LET r == realOf[c]
        waiting == \E p \in Pools : c \in ToSet(aquire[p])
    IN
    /\ c \in user
    /\ Careful => ~Pending(c) \/ c \in told
    /\ user' = user \ {c}
    /\ \/ /\ waiting
          /\ UNCHANGED <<lists, handler, refs, wire, conn, realOf, stmt>>
       \/ /\ ~waiting /\ r = Nobody
          /\ conn' = [conn EXCEPT ![c] = "gone"]
          /\ UNCHANGED <<lists, handler, refs, wire, realOf, stmt>>
       \/ /\ ~waiting /\ r # Nobody /\ net[r] # "up"
          /\ conn' = [conn EXCEPT ![c] = "gone"]
          /\ realOf' = [realOf EXCEPT ![c] = Nobody]
          /\ SetDataHandler(r, Nobody)
          /\ refs' = [refs EXCEPT ![r] = @ - 1]
          /\ UNCHANGED <<lists, wire, stmt>>
       \/ /\ ~waiting /\ r # Nobody /\ net[r] = "up"
          /\ CheckAquireList(poolid[r], r, {c})
          /\ UNCHANGED pending
    /\ UNCHANGED <<sock, serial, told, mixed, manager>>

-----------------------------------------------------------------------------
\* Once the cleanup or a failed setup has been answered the process ends.
Ended ==
    /\ cleanup = "done" \/ setup = "fail"
    /\ UNCHANGED vars

Manager ==
    BeginSetup \/ BeginSetupFails \/ CheckIfSetupFinish \/ BeginCleanup \/ CheckIfCleanupFinish

Socket(r) ==
    \/ ConnectSuccess(r) \/ ConnectFail(r) \/ HandleAuthInitHandshake(r)
    \/ HandleAuthResponse(r) \/ ServerCloses(r) \/ OnReceivePacket(r) \/ Drain(r)

Connection(c) ==
    (\E p \in Pools : Create(c, p)) \/ CreateStatement(c) \/ Execute(c) \/ Release(c)

Next ==
    \/ Manager
    \/ \E r \in Real : Socket(r)
    \/ \E c \in Conns : Connection(c)
    \/ Ended

Spec == Init /\ [][Next]_vars

(* The loop drains what is closed and the interval timers run; nothing is    *)
(* assumed of the server or of the users.                                    *)
Fairness ==
    /\ \A r \in Real : WF_vars(Drain(r))
    /\ WF_vars(CheckIfSetupFinish)
    /\ WF_vars(CheckIfCleanupFinish)

FairSpec == Spec /\ Fairness

-----------------------------------------------------------------------------
(* Properties. *)

TypeOK ==
    /\ pending \in [Pools -> SUBSET Real] /\ busy \in [Pools -> SUBSET Real]
    /\ \A p \in Pools : free[p] \in Seq(Real) /\ aquire[p] \in Seq(Conns)
    /\ net \in [Real -> {"none", "pending", "up", "down"}]
    /\ poolid \in [Real -> 0..NPools]
    /\ phase \in [Real -> {"init", "response", "ok"}]
    /\ handler \in [Real -> Conns \cup {Nobody}]
    /\ linked \subseteq Real /\ closed \subseteq Real /\ queue \subseteq Real
    /\ refs \in [Real -> Nat]
    /\ \A r \in Real : wire[r] \in Seq(Conns \X Nat)
    /\ conn \in [Conns -> {"none", "live", "gone"}]
    /\ user \subseteq Conns /\ told \subseteq Conns /\ mixed \subseteq Conns
    /\ realOf \in [Conns -> Real \cup {Nobody}]
    /\ stmt \in [Conns -> {"none", "new", "wait", "prepare", "response", "finish"}]
    /\ serial \in [Conns -> 0..MaxStmts]
    /\ setup \in {"none", "running", "ok", "fail"}
    /\ rollback \in BOOLEAN
    /\ cleanup \in {"no", "asked", "done"}

\* The count of a RealConnection is the number of its holders: its pool (one
\* of three lists, once), the dispatcher and the Connections.  The pool's own
\* reference is dropped on four different paths.
RefsBalance ==
    \A r \in Real :
        LET homes == {p \in Pools : r \in pending[p]}
            frees == {p \in Pools : r \in ToSet(free[p])}
            users == {p \in Pools : r \in busy[p]}
        IN refs[r] = Cardinality(homes) + Cardinality(frees) + Cardinality(users)
                     + Cardinality({c \in Conns : realOf[c] = r})
                     + (IF r \in linked THEN 1 ELSE 0)

\* Two Connections never use one RealConnection, and data_handler_ is the one
\* that has it, or nobody: answers and disconnects go to a live Connection.
ExclusiveUse ==
    /\ \A c, d \in Conns : realOf[c] = realOf[d] /\ realOf[c] # Nobody => c = d
    /\ \A r \in Real : handler[r] # Nobody =>
         realOf[handler[r]] = r /\ conn[handler[r]] = "live"

\* free_ holds the idle connections (realconnectionpool.h): no answer to an
\* earlier user's statement is still to come.
FreeIsIdle ==
    \A p \in Pools : \A r \in ToSet(free[p]) : Open(r) => wire[r] = <<>>

\* A statement's callback gets the result of that statement, although answers
\* carry nothing but a sequence id that starts anew with each statement.
OwnResult == mixed = {}

\* Nobody waits in aquire_list_ while a connection is in free_.
NoWaitWhileFree == \A p \in Pools : free[p] = <<>> \/ aquire[p] = <<>>

\* Whatever closes, fails and is created again, a pool never has more than
\* pool_size connections.
PoolBounded == \A p \in Pools : Cardinality(InPool(p)) <= PoolSize

\* The lists of a pool agree with each other and stay within pool_size, and
\* nobody shares a connection that a pool has given out.
PoolSound == TypeOK /\ NoWaitWhileFree /\ PoolBounded /\ ExclusiveUse

\* A statement in flight on a connection that is closed gets its callback,
\* with the error, unless its user lets go first.
ErrorReported ==
    \A c \in Conns :
        (stmt[c] \in InFlight /\ realOf[c] \in queue /\ net[realOf[c]] = "up")
            ~> (c \in told \/ conn[c] = "gone")

\* Teardown ends: a rollback with the setup answered false, a cleanup with
\* its callback, although both only look at the lists every 200 ms and wait
\* for connections to be drained.
TeardownEnds ==
    /\ rollback ~> setup = "fail"
    /\ cleanup = "asked" ~> cleanup = "done"
=============================================================================
