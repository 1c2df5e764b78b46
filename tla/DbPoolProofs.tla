---------------------------- MODULE DbPoolProofs ----------------------------
(***************************************************************************)
(* Proofs about DbPool for any number of pools, connections and users.     *)
(*                                                                         *)
(* The state of one RealConnection says which list it is in, who holds it  *)
(* and how often it is referenced; a step changes few of them and leaves   *)
(* the others alone.                                                       *)
(***************************************************************************)
EXTENDS DbPool, FiniteSetTheorems, WellFoundedInduction, SequenceTheorems, TLAPS

-----------------------------------------------------------------------------
(* Numbers in order. *)

Increasing(o) == \A i, j \in DOMAIN o : i < j => o[i] < o[j]

\* A set of numbers that is not empty has a smallest one.
LEMMA LeastExists ==
    ASSUME NEW S \in SUBSET Nat, S # {} PROVE \E x \in S : \A y \in S : x <= y
<1>1. PICK x \in S : \A y \in S : ~(<<y, x>> \in OpToRel(<, Nat))
  BY NatLessThanWellFounded, WFMin, Zenon
<1>2. ASSUME NEW y \in S PROVE x <= y
  <2>1. ~(<<y, x>> \in OpToRel(<, Nat)) BY <1>1
  <2>2. ~(y < x) BY <2>1, Zenon DEF OpToRel
  <2> QED BY <2>2
<1> QED BY <1>2

\* Min is that one.
LEMMA MinFacts ==
    ASSUME NEW S \in SUBSET Nat, S # {} PROVE Min(S) \in S /\ \A y \in S : Min(S) <= y
<1>1. \E x \in S : \A y \in S : x <= y BY LeastExists
<1> QED BY <1>1 DEF Min

\* A set of numbers up to N that is not empty has a greatest one.
LEMMA MaxExists ==
    ASSUME NEW N \in Nat, NEW W \in SUBSET (1..N), W # {} PROVE \E x \in W : \A y \in W : y <= x
<1> DEFINE D == {N - x : x \in W}
<1>1. D \in SUBSET Nat /\ D # {}
  <2>1. \A x \in W : N - x \in Nat OBVIOUS
  <2>2. D # {}
    <3>1. PICK x \in W : TRUE OBVIOUS
    <3>2. N - x \in D OBVIOUS
    <3> QED BY <3>2
  <2> QED BY <2>1, <2>2
<1>2. PICK d \in D : \A e \in D : d <= e
  <2> HIDE DEF D
  <2> QED BY <1>1, LeastExists
<1>3. PICK x \in W : d = N - x OBVIOUS
<1>4. ASSUME NEW y \in W PROVE y <= x
  <2>1. N - y \in D OBVIOUS
  <2>2. N - x <= N - y BY <1>2, <1>3, <2>1
  <2> QED BY <2>2
<1> QED BY <1>4

\* The numbers of a set can be listed in order.
LEMMA OrderExists ==
    ASSUME NEW N \in Nat, NEW W0 \in SUBSET (1..N)
    PROVE  \E o \in [1..Cardinality(W0) -> W0] : Increasing(o)
<1> DEFINE Listed(W) == \E o \in [1..Cardinality(W) -> W] : Increasing(o)
           Bad == {n \in Nat : \E W \in SUBSET (1..N) : Cardinality(W) = n /\ ~Listed(W)}
<1>1. IsFiniteSet(1..N) BY FS_Interval
<1>2. \A W \in SUBSET (1..N) : IsFiniteSet(W) /\ Cardinality(W) \in Nat
  BY <1>1, FS_Subset, FS_CardinalityType
<1> SUFFICES ASSUME ~Listed(W0) PROVE FALSE OBVIOUS
<1>3. Bad # {}
  <2>1. Cardinality(W0) \in Bad BY <1>2
  <2> QED BY <2>1
<1>4. PICK n \in Bad : \A k \in Bad : n <= k
  <2>1. Bad \in SUBSET Nat OBVIOUS
  <2> HIDE DEF Bad
  <2> QED BY <1>3, <2>1, LeastExists
<1>5. PICK W \in SUBSET (1..N) : Cardinality(W) = n /\ ~Listed(W) BY DEF Bad
<1>6. n \in Nat /\ W # {}
  <2>1. ASSUME W = {} PROVE FALSE
    <3>1. Cardinality(W) = 0 BY <2>1, FS_EmptySet
    <3> DEFINE o == [i \in 1..0 |-> i]
    <3>2. o \in [1..Cardinality(W) -> W] /\ Increasing(o) BY <3>1 DEF Increasing
    <3> QED BY <1>5, <3>2
  <2> QED BY <2>1
<1>7. PICK x \in W : \A y \in W : y <= x BY <1>6, MaxExists
<1> DEFINE V == W \ {x}
<1>8. Cardinality(V) = n - 1 /\ n - 1 \in Nat
  <2>1. IsFiniteSet(W) BY <1>2
  <2>2. Cardinality(V) = n - 1 BY <1>5, <2>1, FS_RemoveElement
  <2>3. V \in SUBSET (1..N) OBVIOUS
  <2>4. Cardinality(V) \in Nat BY <1>2, <2>3
  <2> QED BY <2>2, <2>4
<1>9. Listed(V)
  <2>1. V \in SUBSET (1..N) OBVIOUS
  <2>2. n - 1 \notin Bad BY <1>4, <1>6, <1>8
  <2> QED BY <1>8, <2>1, <2>2
<1>10. PICK o \in [1..n-1 -> V] : Increasing(o) BY <1>8, <1>9
<1> DEFINE u == [i \in 1..n |-> IF i = n THEN x ELSE o[i]]
<1>11. u \in [1..n -> W] BY <1>6, <1>8, <1>10
<1>12. Increasing(u)
  <2> SUFFICES ASSUME NEW i \in 1..n, NEW j \in 1..n, i < j PROVE u[i] < u[j] BY DEF Increasing
  <2>1. i \in 1..n-1 /\ u[i] = o[i] /\ o[i] \in V BY <1>6, <1>8, <1>10
  <2>2. CASE j = n
    <3>1. o[i] \in W /\ o[i] # x /\ o[i] \in Nat /\ x \in Nat
      <4>1. W \subseteq Nat /\ x \in W BY <1>5, <1>7
      <4>2. o[i] \in W /\ o[i] # x BY <2>1
      <4> QED BY <4>1, <4>2
    <3>2. o[i] <= x BY <1>7, <3>1
    <3> QED BY <2>1, <2>2, <3>1, <3>2
  <2>3. CASE j # n BY <1>6, <1>10, <2>1, <2>3 DEF Increasing
  <2> QED BY <2>2, <2>3
<1> QED BY <1>5, <1>11, <1>12

\* Those lists what a sequence has at some positions, each once.
LEMMA ThoseFacts ==
    ASSUME NEW S, NEW s \in Seq(S), NEW W \in SUBSET DOMAIN s
    PROVE  LET t == Those(s, W) IN
           /\ t \in Seq(S) /\ Len(t) = Cardinality(W)
           /\ ToSet(t) = {s[i] : i \in W}
           /\ (\A i, j \in DOMAIN s : s[i] = s[j] => i = j) => \A i, j \in DOMAIN t : t[i] = t[j] => i = j
<1> DEFINE K == Cardinality(W)
           o == CHOOSE o \in [1..K -> W] : \A i, j \in DOMAIN o : i < j => o[i] < o[j]
           t == [i \in 1..K |-> s[o[i]]]
<1>1. DOMAIN s = 1..Len(s) /\ Len(s) \in Nat OBVIOUS
<1>2. IsFiniteSet(W) /\ K \in Nat
  <2>1. IsFiniteSet(1..Len(s)) BY <1>1, FS_Interval
  <2>2. IsFiniteSet(W) BY <1>1, <2>1, FS_Subset
  <2> QED BY <2>2, FS_CardinalityType
<1>3. o \in [1..K -> W] /\ \A i, j \in 1..K : i < j => o[i] < o[j]
  <2>1. \E f \in [1..K -> W] : \A i, j \in DOMAIN f : i < j => f[i] < f[j]
    BY <1>1, OrderExists DEF Increasing
  <2>2. o \in [1..K -> W] /\ \A i, j \in DOMAIN o : i < j => o[i] < o[j] BY <2>1
  <2> QED BY <2>2
<1>4. Those(s, W) = t BY DEF Those
<1> HIDE DEF o, K
<1>5. \A i, j \in 1..K : o[i] = o[j] => i = j
  <2> SUFFICES ASSUME NEW i \in 1..K, NEW j \in 1..K, i # j PROVE o[i] # o[j] OBVIOUS
  <2>1. o[i] \in Nat /\ o[j] \in Nat BY <1>1, <1>3
  <2>2. i < j \/ j < i BY <1>2
  <2> QED BY <1>3, <2>1, <2>2
<1>6. \A w \in W : \E i \in 1..K : o[i] = w
  <2>1. o \in Injection(1..K, W) BY <1>3, <1>5 DEF Injection, IsInjective
  <2>2. Cardinality(1..K) = K BY <1>2, FS_Interval
  <2>3. o \in Surjection(1..K, W) BY <1>2, <2>1, <2>2, FS_Injection DEF K
  <2> QED BY <2>3 DEF Surjection
<1>7. t \in Seq(S) /\ Len(t) = K /\ DOMAIN t = 1..K
  <2>1. \A i \in 1..K : s[o[i]] \in S BY <1>1, <1>3
  <2> QED BY <1>2, <2>1
<1>8. ToSet(t) = {s[i] : i \in W} BY <1>3, <1>6 DEF ToSet
<1>9. ASSUME \A i, j \in DOMAIN s : s[i] = s[j] => i = j, NEW i \in 1..K, NEW j \in 1..K, t[i] = t[j]
      PROVE  i = j
  <2>1. o[i] \in DOMAIN s /\ o[j] \in DOMAIN s /\ s[o[i]] = s[o[j]] BY <1>3, <1>9
  <2> QED BY <1>5, <1>9, <2>1
<1> HIDE DEF t
<1>10. (\A i, j \in DOMAIN s : s[i] = s[j] => i = j) => \A i, j \in DOMAIN t : t[i] = t[j] => i = j
  BY <1>7, <1>9
<1> QED BY <1>4, <1>7, <1>8, <1>10 DEF K
-----------------------------------------------------------------------------
(* The invariant. *)

ListTypes ==
    /\ pending \in [Pools -> SUBSET Real] /\ busy \in [Pools -> SUBSET Real]
    /\ free \in [Pools -> Seq(Real)] /\ aquire \in [Pools -> Seq(Conns)]

RealTypes ==
    /\ net \in [Real -> {"none", "pending", "up", "down"}]
    /\ poolid \in [Real -> 0..NPools]
    /\ phase \in [Real -> {"init", "response", "ok"}]
    /\ handler \in [Real -> Conns \cup {Nobody}]
    /\ linked \subseteq Real /\ closed \subseteq Real /\ queue \subseteq Real
    /\ refs \in [Real -> Nat]
    /\ wire \in [Real -> Seq(Conns \X Nat)]

ConnTypes ==
    /\ conn \in [Conns -> {"none", "live", "gone"}]
    /\ user \subseteq Conns /\ told \subseteq Conns /\ mixed \subseteq Conns
    /\ realOf \in [Conns -> Real \cup {Nobody}]
    /\ stmt \in [Conns -> {"none", "new", "wait", "prepare", "response", "finish"}]
    /\ serial \in [Conns -> 0..MaxStmts]

ManagerTypes ==
    /\ setup \in {"none", "running", "ok", "fail"}
    /\ rollback \in BOOLEAN
    /\ cleanup \in {"no", "asked", "done"}

Typed == ListTypes /\ RealTypes /\ ConnTypes /\ ManagerTypes

\* The pool still counts r among its connections.
Home(r) == net[r] = "up" \/ (net[r] = "pending" /\ r \notin closed)

\* How far r has come.
Staged(r) ==
    /\ net[r] = "none" => r \notin linked /\ r \notin closed /\ r \notin queue
    /\ net[r] # "none" => poolid[r] \in Pools
    /\ net[r] \in {"none", "pending"} => phase[r] = "init" /\ wire[r] = <<>>
    /\ Home(r) => r \in linked
    /\ r \in queue => r \in closed /\ r \in linked

\* The list r is in follows from how far it has come and who holds it.
Placed(r) ==
    \A p \in Pools :
        /\ r \in pending[p] <=> Home(r) /\ phase[r] # "ok" /\ p = poolid[r]
        /\ r \in ToSet(free[p]) <=>
              net[r] = "up" /\ phase[r] = "ok" /\ handler[r] = Nobody /\ p = poolid[r]
        /\ r \in busy[p] <=>
              net[r] = "up" /\ phase[r] = "ok" /\ handler[r] # Nobody /\ p = poolid[r]

\* The Connection that data_handler_ names has r.
Held(r) ==
    handler[r] # Nobody =>
        net[r] \in {"up", "down"} /\ phase[r] = "ok" /\ realOf[handler[r]] = r

\* The pool, the Connection and the dispatcher.
Counted(r) ==
    refs[r] = (IF Home(r) THEN 1 ELSE 0) + (IF handler[r] # Nobody THEN 1 ELSE 0)
              + (IF r \in linked THEN 1 ELSE 0)

RealInv(r) == Staged(r) /\ Placed(r) /\ Held(r) /\ Counted(r)

\* A Connection waits or has a RealConnection, and only while it is live.
ConnInv(c) ==
    /\ realOf[c] # Nobody => handler[realOf[c]] = c /\ c \in user
    /\ c \in user => conn[c] = "live"
    /\ \A p \in Pools : c \in ToSet(aquire[p]) => conn[c] = "live" /\ realOf[c] = Nobody

\* Nobody is twice in the lists of waiters, and nothing twice in a free_.
WaitOnce ==
    \A p, q \in Pools : \A i \in DOMAIN aquire[p], j \in DOMAIN aquire[q] :
        aquire[p][i] = aquire[q][j] => p = q /\ i = j
FreeOnce == \A p \in Pools : \A i, j \in DOMAIN free[p] : free[p][i] = free[p][j] => i = j

\* There is no RealConnection before BeginSetup.
Unopened == setup = "none" => \A r \in Real : net[r] = "none"

Members(p) == {r \in Real : Home(r) /\ poolid[r] = p}
Bounded == \A p \in Pools : Cardinality(Members(p)) <= PoolSize

Base ==
    /\ Typed
    /\ \A r \in Real : RealInv(r)
    /\ \A c \in Conns : ConnInv(c)
    /\ WaitOnce /\ FreeOnce /\ Unopened /\ NoWaitWhileFree /\ Bounded

\* What is under way on an open connection is the statement of the one that
\* has it.
WireOwn(r) ==
    Open(r) /\ wire[r] # <<>> =>
        /\ handler[r] # Nobody /\ stmt[handler[r]] \in InFlight
        /\ wire[r] = <<<<handler[r], serial[handler[r]]>>>>

\* A Connection that was told of a disconnect has no working RealConnection
\* and never waits again; one that its user let go has nothing to send.
Settled(c) ==
    /\ c \in told => /\ conn[c] # "none"
                     /\ realOf[c] = Nobody \/ net[realOf[c]] = "down"
                     /\ \A p \in Pools : c \notin ToSet(aquire[p])
    /\ \A p \in Pools : c \in ToSet(aquire[p]) /\ c \notin user => stmt[c] # "wait"

Own ==
    /\ \A r \in Real : WireOwn(r)
    /\ \A c \in Conns : Settled(c)
    /\ mixed = {}

Preserved == Base' /\ (Careful /\ Own => Own')

-----------------------------------------------------------------------------
(* What a step leaves alone. *)

\* A RealConnection that a step leaves alone.
LEMMA FrameReal ==
    ASSUME NEW r \in Real, RealInv(r),
           net'[r] = net[r], poolid'[r] = poolid[r], phase'[r] = phase[r], handler'[r] = handler[r],
           refs'[r] = refs[r], net[r] \in {"none", "pending"} => wire'[r] = wire[r],
           r \in linked' <=> r \in linked, r \in closed' <=> r \in closed, r \in queue' <=> r \in queue,
           \A p \in Pools : /\ r \in pending'[p] <=> r \in pending[p]
                            /\ r \in ToSet(free'[p]) <=> r \in ToSet(free[p])
                            /\ r \in busy'[p] <=> r \in busy[p],
           handler[r] # Nobody => realOf'[handler[r]] = realOf[handler[r]]
    PROVE  RealInv(r)' /\ (Home(r)' <=> Home(r))
<1>1. Home(r)' <=> Home(r) BY DEF Home
<1>2. Staged(r)' BY <1>1 DEF RealInv, Staged
<1>3. Placed(r)' BY <1>1 DEF RealInv, Placed
<1>4. Held(r)' BY DEF RealInv, Held
<1>5. Counted(r)' BY <1>1 DEF RealInv, Counted
<1> QED BY <1>1, <1>2, <1>3, <1>4, <1>5 DEF RealInv

\* A Connection that a step leaves alone, or that leaves a list of waiters.
LEMMA FrameConn ==
    ASSUME NEW c \in Conns, ConnInv(c),
           realOf'[c] = realOf[c], realOf[c] # Nobody => handler'[realOf[c]] = handler[realOf[c]],
           c \in user' <=> c \in user, conn'[c] = conn[c],
           \A p \in Pools : c \in ToSet(aquire'[p]) => c \in ToSet(aquire[p])
    PROVE  ConnInv(c)'
  BY DEF ConnInv

\* The bound of the pools when none gets a new member.
LEMMA FrameBounded ==
    ASSUME Bounded, \A r \in Real : Home(r)' => Home(r) /\ poolid'[r] = poolid[r]
    PROVE  Bounded'
<1> SUFFICES ASSUME NEW p \in Pools PROVE Cardinality(Members(p)') <= PoolSize BY DEF Bounded
<1>1. Members(p)' \subseteq Members(p) BY DEF Members
<1>2. IsFiniteSet(Members(p)) /\ Cardinality(Members(p)) \in Nat
  <2>1. Members(p) \subseteq Real BY DEF Members
  <2> QED BY <2>1, DbPoolAssumption, FS_Subset, FS_CardinalityType
<1>3. Cardinality(Members(p)') <= Cardinality(Members(p)) BY <1>1, <1>2, FS_Subset
<1>4. IsFiniteSet(Members(p)') /\ Cardinality(Members(p)') \in Nat BY <1>1, <1>2, FS_Subset, FS_CardinalityType
<1>5. Cardinality(Members(p)) <= PoolSize BY DEF Bounded
<1> QED BY <1>2, <1>3, <1>4, <1>5, DbPoolAssumption

\* What is on the wire when a step leaves it and its statement alone.
LEMMA FrameWire ==
    ASSUME NEW r \in Real, WireOwn(r), Open(r)' => Open(r), wire'[r] = wire[r], handler'[r] = handler[r],
           handler[r] # Nobody => /\ stmt'[handler[r]] = stmt[handler[r]]
                                  /\ serial'[handler[r]] = serial[handler[r]]
    PROVE  WireOwn(r)'
  BY DEF WireOwn

\* A Connection whose errors, lists and statement a step leaves alone.
LEMMA FrameSettled ==
    ASSUME NEW c \in Conns, Settled(c), c \in told' <=> c \in told, conn'[c] # "none" \/ conn'[c] = conn[c],
           realOf'[c] = realOf[c], realOf[c] # Nobody => net'[realOf[c]] = net[realOf[c]],
           c \in user' <=> c \in user, stmt'[c] = stmt[c],
           \A p \in Pools : c \in ToSet(aquire'[p]) => c \in ToSet(aquire[p])
    PROVE  Settled(c)'
  BY DEF Settled

\* The lists when a step changes neither free_ nor aquire_list_.
LEMMA FrameLists ==
    ASSUME free' = free, aquire' = aquire
    PROVE  /\ WaitOnce => WaitOnce'
           /\ FreeOnce => FreeOnce'
           /\ NoWaitWhileFree => NoWaitWhileFree'
<1>1. WaitOnce => WaitOnce' BY DEF WaitOnce
<1>2. FreeOnce => FreeOnce' BY DEF FreeOnce
<1>3. NoWaitWhileFree => NoWaitWhileFree' BY DEF NoWaitWhileFree
<1> QED BY <1>1, <1>2, <1>3

-----------------------------------------------------------------------------
(* The steps of a socket that no list follows. *)

\* The TCP connection is made.
LEMMA ConnectSuccessKeeps ==
    ASSUME Base, NEW r \in Real, ConnectSuccess(r) PROVE Preserved
<1>1. /\ net[r] = "pending" /\ r \notin closed /\ net' = [net EXCEPT ![r] = "up"]
      /\ pending' = pending /\ free' = free /\ busy' = busy /\ aquire' = aquire
      /\ poolid' = poolid /\ phase' = phase /\ linked' = linked /\ closed' = closed /\ queue' = queue
      /\ handler' = handler /\ refs' = refs /\ wire' = wire /\ conn' = conn /\ user' = user
      /\ realOf' = realOf /\ stmt' = stmt /\ serial' = serial /\ told' = told /\ mixed' = mixed
      /\ setup' = setup /\ rollback' = rollback /\ cleanup' = cleanup
  BY DEF ConnectSuccess, lists, stmts, manager
<1>2. Typed BY DEF Base
<1>3. \A x \in Real : net'[x] = IF x = r THEN "up" ELSE net[x] BY <1>1, <1>2 DEF Typed, RealTypes
<1>4. Typed'
  <2>1. RealTypes' BY <1>1, <1>2 DEF Typed, RealTypes
  <2> QED BY <1>1, <1>2, <2>1 DEF Typed, ListTypes, ConnTypes, ManagerTypes
<1>5. ASSUME NEW x \in Real PROVE RealInv(x)' /\ (Home(x)' <=> Home(x))
  <2>1. RealInv(x) BY DEF Base
  <2>2. CASE x = r
    <3>1. Home(x)' /\ Home(x) BY <1>1, <1>3, <2>2 DEF Home
    <3>2. Staged(x)' BY <1>1, <1>3, <2>1, <2>2, <3>1 DEF RealInv, Staged
    <3>3. Placed(x)' BY <1>1, <1>3, <2>1, <2>2, <3>1 DEF RealInv, Placed, Staged
    <3>4. Held(x)' BY <1>1, <1>3, <2>1, <2>2 DEF RealInv, Held
    <3>5. Counted(x)' BY <1>1, <2>1, <3>1 DEF RealInv, Counted
    <3> QED BY <3>1, <3>2, <3>3, <3>4, <3>5 DEF RealInv
  <2>3. CASE x # r
    <3>1. net'[x] = net[x] BY <1>3, <2>3
    <3> QED BY <1>1, <2>1, <3>1, FrameReal
  <2> QED BY <2>2, <2>3
<1>6. ASSUME NEW c \in Conns PROVE ConnInv(c)'
  <2>1. ConnInv(c) BY DEF Base
  <2> QED BY <1>1, <2>1, FrameConn
<1>7. WaitOnce' /\ FreeOnce' /\ NoWaitWhileFree' BY <1>1, FrameLists DEF Base
<1>8. Unopened' BY <1>1 DEF Base, Unopened
<1>9. Bounded' BY <1>1, <1>5, FrameBounded DEF Base
<1>10. ASSUME Own PROVE Own'
  <2>1. ASSUME NEW x \in Real PROVE WireOwn(x)'
    <3>1. WireOwn(x) /\ RealInv(x) BY <1>10 DEF Own, Base
    <3>2. CASE x = r
      <4>1. wire'[x] = <<>> BY <1>1, <3>1, <3>2 DEF RealInv, Staged
      <4> QED BY <4>1 DEF WireOwn
    <3>3. CASE x # r
      <4>1. Open(x)' => Open(x) BY <1>1, <1>3, <3>3 DEF Open
      <4> QED BY <1>1, <3>1, <4>1, FrameWire
    <3> QED BY <3>2, <3>3
  <2>2. ASSUME NEW c \in Conns PROVE Settled(c)'
    <3>1. Settled(c) /\ ConnInv(c) BY <1>10 DEF Own, Base
    <3>2. realOf[c] # Nobody => realOf[c] # r
      <4> SUFFICES ASSUME realOf[c] = r PROVE FALSE BY DbPoolAssumption
      <4>1. handler[r] = c BY <3>1, DbPoolAssumption DEF ConnInv
      <4>2. Held(r) BY DEF Base, RealInv
      <4> QED BY <1>1, <4>1, <4>2, DbPoolAssumption DEF Held
    <3>3. realOf[c] # Nobody => net'[realOf[c]] = net[realOf[c]]
      BY <1>2, <1>3, <3>2 DEF Typed, ConnTypes
    <3> QED BY <1>1, <3>1, <3>3, FrameSettled
  <2> QED BY <1>1, <1>10, <2>1, <2>2 DEF Own
<1> QED BY <1>4, <1>5, <1>6, <1>7, <1>8, <1>9, <1>10 DEF Base, Preserved

\* Connections that nothing happens to.
LEMMA StillConns ==
    ASSUME Base, handler' = handler, conn' = conn, user' = user, realOf' = realOf, aquire' = aquire
    PROVE  \A c \in Conns : ConnInv(c)'
<1> SUFFICES ASSUME NEW c \in Conns PROVE ConnInv(c)' OBVIOUS
<1>1. ConnInv(c) BY DEF Base
<1> QED BY <1>1, FrameConn

\* Statements that nothing happens to, while sockets are closed.
LEMMA StillOwn ==
    ASSUME Own, net' = net, closed \subseteq closed', wire' = wire, handler' = handler, stmt' = stmt,
           serial' = serial, told' = told, mixed' = mixed, conn' = conn, user' = user,
           realOf' = realOf, aquire' = aquire
    PROVE  Own'
<1>1. ASSUME NEW x \in Real PROVE WireOwn(x)'
  <2>1. Open(x)' => Open(x) BY DEF Open
  <2>2. WireOwn(x) BY DEF Own
  <2> QED BY <2>1, <2>2, FrameWire
<1>2. ASSUME NEW c \in Conns PROVE Settled(c)'
  <2>1. Settled(c) BY DEF Own
  <2> QED BY <2>1, FrameSettled
<1> QED BY <1>1, <1>2 DEF Own

\* The server's greeting.
LEMMA HandshakeKeeps ==
    ASSUME Base, NEW r \in Real, HandleAuthInitHandshake(r) PROVE Preserved
<1>1. /\ Open(r) /\ phase[r] = "init" /\ phase' = [phase EXCEPT ![r] = "response"]
      /\ pending' = pending /\ free' = free /\ busy' = busy /\ aquire' = aquire /\ net' = net
      /\ poolid' = poolid /\ linked' = linked /\ closed' = closed /\ queue' = queue
      /\ handler' = handler /\ refs' = refs /\ wire' = wire /\ conn' = conn /\ user' = user
      /\ realOf' = realOf /\ stmt' = stmt /\ serial' = serial /\ told' = told /\ mixed' = mixed
      /\ setup' = setup /\ rollback' = rollback /\ cleanup' = cleanup
  BY DEF HandleAuthInitHandshake, lists, stmts, manager
<1>2. Typed BY DEF Base
<1>3. \A x \in Real : phase'[x] = IF x = r THEN "response" ELSE phase[x]
  BY <1>1, <1>2 DEF Typed, RealTypes
<1>4. Typed'
  <2>1. RealTypes' BY <1>1, <1>2 DEF Typed, RealTypes
  <2> QED BY <1>1, <1>2, <2>1 DEF Typed, ListTypes, ConnTypes, ManagerTypes
<1>5. ASSUME NEW x \in Real PROVE RealInv(x)' /\ (Home(x)' <=> Home(x))
  <2>1. RealInv(x) BY DEF Base
  <2>2. CASE x = r
    <3>1. Home(x)' <=> Home(x) BY <1>1 DEF Home
    <3>2. Staged(x)' BY <1>1, <1>3, <2>1, <2>2, <3>1 DEF RealInv, Staged, Open
    <3>3. Placed(x)' BY <1>1, <1>3, <2>1, <2>2, <3>1 DEF RealInv, Placed
    <3>4. Held(x)' BY <1>1, <1>3, <2>1, <2>2 DEF RealInv, Held
    <3>5. Counted(x)' BY <1>1, <2>1, <3>1 DEF RealInv, Counted
    <3> QED BY <3>1, <3>2, <3>3, <3>4, <3>5 DEF RealInv
  <2>3. CASE x # r
    <3>1. phase'[x] = phase[x] BY <1>3, <2>3
    <3> QED BY <1>1, <2>1, <3>1, FrameReal
  <2> QED BY <2>2, <2>3
<1>6. \A c \in Conns : ConnInv(c)' BY <1>1, StillConns
<1>7. WaitOnce' /\ FreeOnce' /\ NoWaitWhileFree' BY <1>1, FrameLists DEF Base
<1>8. Unopened' BY <1>1 DEF Base, Unopened
<1>9. Bounded' BY <1>1, <1>5, FrameBounded DEF Base
<1>10. Own => Own' BY <1>1, StillOwn
<1> QED BY <1>4, <1>5, <1>6, <1>7, <1>8, <1>9, <1>10 DEF Base, Preserved

\* The server closes a connection: it is queued for the dispatcher.
LEMMA ServerClosesKeeps ==
    ASSUME Base, NEW r \in Real, ServerCloses(r) PROVE Preserved
<1>1. /\ Open(r) /\ closed' = closed \cup {r} /\ queue' = queue \cup {r}
      /\ pending' = pending /\ free' = free /\ busy' = busy /\ aquire' = aquire /\ net' = net
      /\ poolid' = poolid /\ linked' = linked /\ phase' = phase
      /\ handler' = handler /\ refs' = refs /\ wire' = wire /\ conn' = conn /\ user' = user
      /\ realOf' = realOf /\ stmt' = stmt /\ serial' = serial /\ told' = told /\ mixed' = mixed
      /\ setup' = setup /\ rollback' = rollback /\ cleanup' = cleanup
  BY DEF ServerCloses, lists, stmts, manager
<1>2. Typed BY DEF Base
<1>3. Typed'
  <2>1. RealTypes' BY <1>1, <1>2 DEF Typed, RealTypes
  <2> QED BY <1>1, <1>2, <2>1 DEF Typed, ListTypes, ConnTypes, ManagerTypes
<1>4. ASSUME NEW x \in Real PROVE RealInv(x)' /\ (Home(x)' <=> Home(x))
  <2>1. RealInv(x) BY DEF Base
  <2>2. CASE x = r
    <3>1. Home(x)' /\ Home(x) BY <1>1, <2>2 DEF Home, Open
    <3>2. Staged(x)' BY <1>1, <2>1, <2>2, <3>1 DEF RealInv, Staged, Open
    <3>3. Placed(x)' BY <1>1, <2>1, <2>2, <3>1 DEF RealInv, Placed
    <3>4. Held(x)' BY <1>1, <2>1, <2>2 DEF RealInv, Held
    <3>5. Counted(x)' BY <1>1, <2>1, <3>1 DEF RealInv, Counted
    <3> QED BY <3>1, <3>2, <3>3, <3>4, <3>5 DEF RealInv
  <2>3. CASE x # r
    <3>1. (x \in closed' <=> x \in closed) /\ (x \in queue' <=> x \in queue) BY <1>1, <2>3
    <3> QED BY <1>1, <2>1, <3>1, FrameReal
  <2> QED BY <2>2, <2>3
<1>5. \A c \in Conns : ConnInv(c)' BY <1>1, StillConns
<1>6. WaitOnce' /\ FreeOnce' /\ NoWaitWhileFree' BY <1>1, FrameLists DEF Base
<1>7. Unopened' BY <1>1 DEF Base, Unopened
<1>8. Bounded' BY <1>1, <1>4, FrameBounded DEF Base
<1>9. Own => Own' BY <1>1, StillOwn
<1> QED BY <1>3, <1>4, <1>5, <1>6, <1>7, <1>8, <1>9 DEF Base, Preserved

-----------------------------------------------------------------------------
(* Statements. *)

\* A step that changes only statements and what is on the wires of
\* connections that are up or down.
LEMMA StatementStep ==
    ASSUME Base,
           pending' = pending, free' = free, busy' = busy, aquire' = aquire, net' = net,
           poolid' = poolid, phase' = phase, linked' = linked, closed' = closed, queue' = queue,
           handler' = handler, refs' = refs, conn' = conn, user' = user, realOf' = realOf,
           told' = told, setup' = setup, rollback' = rollback, cleanup' = cleanup,
           RealTypes', ConnTypes', \A r \in Real : net[r] \in {"none", "pending"} => wire'[r] = wire[r]
    PROVE  Base'
<1>1. Typed BY DEF Base
<1>2. Typed' BY <1>1 DEF Typed, ListTypes, ManagerTypes
<1>3. ASSUME NEW x \in Real PROVE RealInv(x)' /\ (Home(x)' <=> Home(x))
  <2>1. RealInv(x) BY DEF Base
  <2> QED BY <2>1, FrameReal
<1>4. \A c \in Conns : ConnInv(c)' BY StillConns
<1>5. WaitOnce' /\ FreeOnce' /\ NoWaitWhileFree' BY FrameLists DEF Base
<1>6. Unopened' BY DEF Base, Unopened
<1>7. Bounded' BY <1>3, FrameBounded DEF Base
<1> QED BY <1>2, <1>3, <1>4, <1>5, <1>6, <1>7 DEF Base

\* A Connection gets a new statement.
LEMMA CreateStatementKeeps ==
    ASSUME Base, NEW c \in Conns, CreateStatement(c) PROVE Preserved
<1>1. /\ c \in user /\ stmt[c] \in {"none", "finish"} /\ serial[c] < MaxStmts
      /\ serial' = [serial EXCEPT ![c] = @ + 1] /\ stmt' = [stmt EXCEPT ![c] = "new"]
      /\ pending' = pending /\ free' = free /\ busy' = busy /\ aquire' = aquire /\ net' = net
      /\ poolid' = poolid /\ phase' = phase /\ linked' = linked /\ closed' = closed /\ queue' = queue
      /\ handler' = handler /\ refs' = refs /\ wire' = wire /\ conn' = conn /\ user' = user
      /\ realOf' = realOf /\ told' = told /\ mixed' = mixed
      /\ setup' = setup /\ rollback' = rollback /\ cleanup' = cleanup
  BY DEF CreateStatement, lists, sock, manager
<1>2. Typed BY DEF Base
<1>3. /\ ConnTypes' /\ RealTypes'
      /\ \A d \in Conns : d # c => stmt'[d] = stmt[d] /\ serial'[d] = serial[d]
      /\ stmt'[c] = "new"
  BY <1>1, <1>2, DbPoolAssumption DEF Typed, ConnTypes, RealTypes
<1>4. Base' BY <1>1, <1>3, StatementStep
<1>5. ASSUME Own PROVE Own'
  <2>1. ASSUME NEW x \in Real PROVE WireOwn(x)'
    <3>1. WireOwn(x) /\ handler[x] \in Conns \cup {Nobody} BY <1>2, <1>5 DEF Own, Typed, RealTypes
    <3>2. Open(x)' <=> Open(x) BY <1>1 DEF Open
    <3>3. CASE handler[x] = c
      <4>1. ~Open(x) \/ wire[x] = <<>> BY <1>1, <3>1, <3>3 DEF WireOwn, InFlight
      <4> QED BY <1>1, <3>2, <4>1 DEF WireOwn
    <3>4. CASE handler[x] # c BY <1>1, <1>3, <3>1, <3>2, <3>4, FrameWire
    <3> QED BY <3>3, <3>4
  <2>2. ASSUME NEW d \in Conns PROVE Settled(d)'
    <3>1. Settled(d) BY <1>5 DEF Own
    <3>2. CASE d = c BY <1>1, <3>1, <3>2 DEF Settled
    <3>3. CASE d # c BY <1>1, <1>3, <3>1, <3>3, FrameSettled
    <3> QED BY <3>2, <3>3
  <2> QED BY <1>1, <1>5, <2>1, <2>2 DEF Own
<1> QED BY <1>4, <1>5 DEF Preserved

\* A statement is sent, or waits for a connection.
LEMMA ExecuteKeeps ==
    ASSUME Base, NEW c \in Conns, Execute(c) PROVE Preserved
<1> DEFINE r == realOf[c]
           e == <<c, serial[c]>>
<1>1. /\ c \in user /\ stmt[c] = "new"
      /\ pending' = pending /\ free' = free /\ busy' = busy /\ aquire' = aquire /\ net' = net
      /\ poolid' = poolid /\ phase' = phase /\ linked' = linked /\ closed' = closed /\ queue' = queue
      /\ handler' = handler /\ refs' = refs /\ conn' = conn /\ user' = user
      /\ realOf' = realOf /\ serial' = serial /\ told' = told /\ mixed' = mixed
      /\ setup' = setup /\ rollback' = rollback /\ cleanup' = cleanup
  BY DEF Execute, lists, sock, manager
<1>2. Typed /\ ConnInv(c) /\ r \in Real \cup {Nobody} BY DEF Base, Typed, ConnTypes
<1>3. PICK ph \in InFlight \cup {"wait"} :
         /\ stmt' = [stmt EXCEPT ![c] = ph]
         /\ ph = "wait" => r = Nobody /\ wire' = wire
         /\ ph # "wait" => r # Nobody /\ wire' = [wire EXCEPT ![r] = IF Open(r) THEN Append(@, e) ELSE @]
  BY DEF Execute, InFlight
<1>4. e \in Conns \X Nat BY <1>2 DEF Typed, ConnTypes
<1> HIDE DEF e
<1>5. /\ ConnTypes' /\ \A d \in Conns : d # c => stmt'[d] = stmt[d]
      /\ stmt'[c] = ph
  BY <1>1, <1>2, <1>3 DEF Typed, ConnTypes, InFlight
<1>6. \A x \in Real : wire[x] \in Seq(Conns \X Nat) BY <1>2 DEF Typed, RealTypes
<1>7. ASSUME NEW x \in Real
      PROVE  wire'[x] = IF x = r /\ Open(r) THEN Append(wire[x], e) ELSE wire[x]
  <2>1. Nobody \notin Real BY DbPoolAssumption
  <2> QED BY <1>2, <1>3, <2>1 DEF Typed, RealTypes
<1>8. RealTypes'
  <2>1. ASSUME NEW x \in Real PROVE wire'[x] \in Seq(Conns \X Nat)
    <3> DEFINE w == wire[x]
    <3>1. w \in Seq(Conns \X Nat) BY <1>6
    <3>2. wire'[x] = w \/ wire'[x] = Append(w, e) BY <1>7
    <3> HIDE DEF w
    <3>3. Append(w, e) \in Seq(Conns \X Nat) BY <1>4, <3>1
    <3> QED BY <3>1, <3>2, <3>3
  <2>2. wire' = [x \in Real |-> wire'[x]] BY <1>2, <1>3 DEF Typed, RealTypes
  <2>3. wire' \in [Real -> Seq(Conns \X Nat)] BY <2>1, <2>2
  <2> QED BY <1>1, <1>2, <2>3 DEF Typed, RealTypes
<1>9. \A x \in Real : net[x] \in {"none", "pending"} => wire'[x] = wire[x] BY <1>7 DEF Open
<1>10. Base' BY <1>1, <1>5, <1>8, <1>9, StatementStep
<1>11. ASSUME Own PROVE Own'
  <2>1. ASSUME NEW x \in Real PROVE WireOwn(x)'
    <3>1. /\ WireOwn(x) /\ Held(x) /\ handler[x] \in Conns \cup {Nobody}
      BY <1>2, <1>11 DEF Own, Typed, RealTypes, Base, RealInv
    <3>2. Open(x)' <=> Open(x) BY <1>1 DEF Open
    <3>3. CASE handler[x] = c /\ Open(x)
      <4>1. realOf[c] = x BY <3>1, <3>3, DbPoolAssumption DEF Held
      <4>2. wire[x] = <<>> BY <1>1, <3>1, <3>3 DEF WireOwn, InFlight
      <4>3. wire'[x] = <<e>>
        <5>1. wire'[x] = Append(<<>>, e) BY <1>7, <3>3, <4>1, <4>2
        <5>2. Append(<<>>, e) = <<e>> OBVIOUS
        <5> QED BY <5>1, <5>2
      <4>4. ph \in InFlight BY <1>3, <4>1, DbPoolAssumption
      <4>5. handler'[x] # Nobody /\ handler'[x] = c BY <1>1, <3>3, DbPoolAssumption
      <4> QED BY <1>1, <1>5, <4>3, <4>4, <4>5 DEF WireOwn, e
    <3>4. CASE handler[x] # c
      <4>1. x # r BY <1>2, <3>4, DbPoolAssumption DEF ConnInv
      <4>2. wire'[x] = wire[x] BY <1>7, <4>1
      <4> QED BY <1>1, <1>5, <3>1, <3>2, <3>4, <4>2, FrameWire
    <3>5. CASE ~Open(x) BY <3>2, <3>5 DEF WireOwn
    <3> QED BY <3>3, <3>4, <3>5
  <2>2. ASSUME NEW d \in Conns PROVE Settled(d)'
    <3>1. Settled(d) BY <1>11 DEF Own
    <3>2. CASE d = c BY <1>1, <3>1, <3>2 DEF Settled
    <3>3. CASE d # c BY <1>1, <1>5, <3>1, <3>3, FrameSettled
    <3> QED BY <3>2, <3>3
  <2> QED BY <1>1, <1>11, <2>1, <2>2 DEF Own
<1> QED BY <1>10, <1>11 DEF Preserved

\* The answer to a statement.
LEMMA OnReceivePacketKeeps ==
    ASSUME Base, NEW r \in Real, OnReceivePacket(r) PROVE Preserved
<1> DEFINE c == handler[r]
           e == <<c, serial[c]>>
           w == wire[r]
           takes == c # Nobody /\ stmt[c] \in InFlight
<1>1. /\ Open(r) /\ phase[r] = "ok" /\ w # <<>>
      /\ pending' = pending /\ free' = free /\ busy' = busy /\ aquire' = aquire /\ net' = net
      /\ poolid' = poolid /\ phase' = phase /\ linked' = linked /\ closed' = closed /\ queue' = queue
      /\ handler' = handler /\ refs' = refs /\ conn' = conn /\ user' = user
      /\ realOf' = realOf /\ serial' = serial /\ told' = told
      /\ setup' = setup /\ rollback' = rollback /\ cleanup' = cleanup
      /\ mixed' = IF takes /\ Head(w) # e THEN mixed \cup {c} ELSE mixed
  BY DEF OnReceivePacket, lists, sock, manager
<1>2. Typed /\ c \in Conns \cup {Nobody} /\ w \in Seq(Conns \X Nat) BY DEF Base, Typed, RealTypes
<1>3. \/ /\ takes /\ stmt' = [stmt EXCEPT ![c] = "response"]
         /\ wire' = [wire EXCEPT ![r] = Append(Tail(w), e)]
      \/ takes /\ stmt' = [stmt EXCEPT ![c] = "finish"] /\ wire' = [wire EXCEPT ![r] = Tail(w)]
      \/ ~takes /\ stmt' = stmt /\ wire' = [wire EXCEPT ![r] = Tail(w)]
  BY <1>2 DEF OnReceivePacket, Typed, RealTypes
<1>4. takes => c \in Conns /\ e \in Conns \X Nat
  <2> SUFFICES ASSUME takes PROVE c \in Conns /\ e \in Conns \X Nat OBVIOUS
  <2>1. c \in Conns BY <1>2
  <2>2. serial[c] \in Nat BY <1>2, <2>1, DbPoolAssumption DEF Typed, ConnTypes
  <2> QED BY <2>1, <2>2
<1> HIDE DEF e, w
<1>5. Tail(w) \in Seq(Conns \X Nat) BY <1>1, <1>2
<1>6. takes => Append(Tail(w), e) \in Seq(Conns \X Nat) BY <1>4, <1>5
<1>7. ConnTypes' BY <1>1, <1>2, <1>3, <1>4 DEF Typed, ConnTypes
<1>8. wire' \in [Real -> Seq(Conns \X Nat)] /\ \A x \in Real : x # r => wire'[x] = wire[x]
  <2> DEFINE t == Tail(w)
             a == Append(Tail(w), e)
  <2>1. /\ wire \in [Real -> Seq(Conns \X Nat)] /\ t \in Seq(Conns \X Nat)
        /\ takes => a \in Seq(Conns \X Nat)
    BY <1>2, <1>5, <1>6 DEF Typed, RealTypes
  <2>2. wire' = [wire EXCEPT ![r] = t] \/ (takes /\ wire' = [wire EXCEPT ![r] = a]) BY <1>3
  <2> HIDE DEF t, a
  <2> QED BY <2>1, <2>2
<1>9. RealTypes' BY <1>1, <1>2, <1>8 DEF Typed, RealTypes
<1>10. \A x \in Real : net[x] \in {"none", "pending"} => wire'[x] = wire[x] BY <1>1, <1>8 DEF Open
<1>11. Base' BY <1>1, <1>7, <1>9, <1>10, StatementStep
<1>12. ASSUME Own PROVE Own'
  <2>1. takes /\ w = <<e>> BY <1>1, <1>12 DEF Own, WireOwn, w, e
  <2>2. Head(w) = e /\ Tail(w) = <<>>
    <3>1. Head(<<e>>) = e /\ Tail(<<e>>) = <<>> OBVIOUS
    <3> QED BY <2>1, <3>1
  <2>3. mixed' = {} BY <1>1, <1>12, <2>2 DEF Own
  <2>4. \/ stmt'[c] = "response" /\ wire'[r] = <<e>>
        \/ wire'[r] = <<>>
    <3>1. Append(Tail(w), e) = <<e>>
      <4>1. Append(<<>>, e) = <<e>> OBVIOUS
      <4> QED BY <2>2, <4>1
    <3>2. wire \in [Real -> Seq(Conns \X Nat)] /\ DOMAIN stmt = Conns BY <1>2 DEF Typed, RealTypes, ConnTypes
    <3> QED BY <1>3, <1>4, <2>1, <2>2, <3>1, <3>2
  <2>5. \A d \in Conns : d # c => stmt'[d] = stmt[d] BY <1>2, <1>3 DEF Typed, ConnTypes
  <2>6. stmt'[c] # "wait" /\ stmt[c] # "wait"
    BY <1>2, <1>3, <1>4, <2>1 DEF Typed, ConnTypes, InFlight
  <2>7. ASSUME NEW x \in Real PROVE WireOwn(x)'
    <3>1. WireOwn(x) /\ Held(x) /\ Held(r) /\ handler[x] \in Conns \cup {Nobody}
      BY <1>2, <1>12 DEF Own, Typed, RealTypes, Base, RealInv
    <3>2. Open(x)' <=> Open(x) BY <1>1 DEF Open
    <3>3. CASE x = r
      <4>1. CASE stmt'[c] = "response" /\ wire'[r] = <<e>>
        BY <1>1, <1>4, <2>1, <3>3, <4>1, DbPoolAssumption DEF WireOwn, InFlight, e
      <4>2. CASE wire'[r] = <<>> BY <3>3, <4>2 DEF WireOwn
      <4> QED BY <2>4, <4>1, <4>2
    <3>4. CASE x # r
      <4>1. handler[x] # Nobody => handler[x] # c BY <2>1, <3>1, <3>4 DEF Held
      <4> QED BY <1>1, <1>8, <2>5, <3>1, <3>2, <3>4, <4>1, FrameWire
    <3> QED BY <3>3, <3>4
  <2>8. ASSUME NEW d \in Conns PROVE Settled(d)'
    <3>1. Settled(d) BY <1>12 DEF Own
    <3>2. CASE d = c BY <1>1, <2>6, <3>1, <3>2 DEF Settled
    <3>3. CASE d # c BY <1>1, <2>5, <3>1, <3>3, FrameSettled
    <3> QED BY <3>2, <3>3
  <2> QED BY <2>3, <2>7, <2>8 DEF Own
<1> QED BY <1>11, <1>12 DEF Preserved

\* A RealConnection that nobody has is nobody's realconn_.
LEMMA NobodyHas ==
    ASSUME Base, NEW r \in Real, handler[r] = Nobody, NEW c \in Conns PROVE realOf[c] # r
<1>1. ConnInv(c) BY DEF Base
<1> QED BY <1>1, DbPoolAssumption DEF ConnInv

\* A connection cannot be made: the pool forgets it and it is queued.
LEMMA ConnectFailKeeps ==
    ASSUME Base, NEW r \in Real, ConnectFail(r) PROVE Preserved
<1> DEFINE p == poolid[r]
<1>1. /\ net[r] = "pending" /\ r \notin closed /\ net' = [net EXCEPT ![r] = "down"]
      /\ pending' = [pending EXCEPT ![p] = @ \ {r}] /\ refs' = [refs EXCEPT ![r] = @ - 1]
      /\ closed' = closed \cup {r} /\ queue' = queue \cup {r}
      /\ free' = free /\ busy' = busy /\ aquire' = aquire
      /\ poolid' = poolid /\ phase' = phase /\ linked' = linked
      /\ handler' = handler /\ wire' = wire /\ conn' = conn /\ user' = user
      /\ realOf' = realOf /\ stmt' = stmt /\ serial' = serial /\ told' = told /\ mixed' = mixed
      /\ setup' = setup /\ rollback' = rollback /\ cleanup' = cleanup
  BY DEF ConnectFail, stmts, manager
<1>2. Typed /\ RealInv(r) BY DEF Base
<1>3. Home(r) /\ handler[r] = Nobody /\ r \in linked /\ p \in Pools /\ refs[r] = 2
  <2>1. Home(r) BY <1>1 DEF Home
  <2>2. handler[r] = Nobody BY <1>1, <1>2 DEF RealInv, Held
  <2> QED BY <1>1, <1>2, <2>1, <2>2 DEF RealInv, Staged, Counted
<1>4. /\ \A x \in Real : net'[x] = IF x = r THEN "down" ELSE net[x]
      /\ \A x \in Real : refs'[x] = IF x = r THEN 1 ELSE refs[x]
      /\ \A q \in Pools : pending'[q] = IF q = p THEN pending[q] \ {r} ELSE pending[q]
  <2>1. \A x \in Real : net'[x] = IF x = r THEN "down" ELSE net[x] BY <1>1, <1>2 DEF Typed, RealTypes
  <2>2. \A x \in Real : refs'[x] = IF x = r THEN 1 ELSE refs[x]
    BY <1>1, <1>2, <1>3 DEF Typed, RealTypes
  <2>3. \A q \in Pools : pending'[q] = IF q = p THEN pending[q] \ {r} ELSE pending[q]
    <3> HIDE DEF p
    <3> QED BY <1>1, <1>2 DEF Typed, ListTypes
  <2> QED BY <2>1, <2>2, <2>3
<1>5. Typed'
  <2>1. RealTypes' BY <1>1, <1>2, <1>3 DEF Typed, RealTypes
  <2>2. ListTypes' BY <1>1, <1>2, <1>3 DEF Typed, ListTypes
  <2> QED BY <1>1, <1>2, <2>1, <2>2 DEF Typed, ConnTypes, ManagerTypes
<1>6. ASSUME NEW x \in Real PROVE RealInv(x)' /\ (Home(x)' => Home(x))
  <2>1. RealInv(x) BY DEF Base
  <2>2. CASE x = r
    <3>1. ~Home(x)' BY <1>4, <2>2 DEF Home
    <3>2. Staged(x)' BY <1>1, <1>3, <1>4, <2>1, <2>2, <3>1 DEF RealInv, Staged
    <3>3. Placed(x)'
      <4> SUFFICES ASSUME NEW q \in Pools
                   PROVE x \notin pending'[q] /\ x \notin ToSet(free'[q]) /\ x \notin busy'[q]
        BY <1>4, <2>2, <3>1 DEF Placed
      <4>1. x \notin ToSet(free[q]) /\ x \notin busy[q] /\ (x \in pending[q] => q = p)
        BY <1>1, <2>1, <2>2 DEF RealInv, Placed
      <4> QED BY <1>1, <1>4, <2>2, <4>1
    <3>4. Held(x)' BY <1>1, <1>3, <2>2 DEF Held
    <3>5. Counted(x)' BY <1>1, <1>3, <1>4, <2>2, <3>1 DEF Counted
    <3> QED BY <3>1, <3>2, <3>3, <3>4, <3>5 DEF RealInv
  <2>3. CASE x # r
    <3>1. net'[x] = net[x] /\ refs'[x] = refs[x] BY <1>4, <2>3
    <3>2. (x \in closed' <=> x \in closed) /\ (x \in queue' <=> x \in queue) BY <1>1, <2>3
    <3>3. \A q \in Pools : x \in pending'[q] <=> x \in pending[q] BY <1>4, <2>3
    <3> QED BY <1>1, <2>1, <3>1, <3>2, <3>3, FrameReal
  <2> QED BY <2>2, <2>3
<1>7. \A c \in Conns : ConnInv(c)' BY <1>1, StillConns
<1>8. WaitOnce' /\ FreeOnce' /\ NoWaitWhileFree' BY <1>1, FrameLists DEF Base
<1>9. Unopened' BY <1>1 DEF Base, Unopened
<1>10. Bounded' BY <1>1, <1>6, FrameBounded DEF Base
<1>11. ASSUME Own PROVE Own'
  <2>1. ASSUME NEW x \in Real PROVE WireOwn(x)'
    <3>1. WireOwn(x) BY <1>11 DEF Own
    <3>2. Open(x)' => Open(x) BY <1>1, <1>4 DEF Open
    <3> QED BY <1>1, <3>1, <3>2, FrameWire
  <2>2. ASSUME NEW c \in Conns PROVE Settled(c)'
    <3>1. Settled(c) /\ realOf[c] \in Real \cup {Nobody} BY <1>2, <1>11 DEF Own, Typed, ConnTypes
    <3>2. realOf[c] # Nobody => net'[realOf[c]] = net[realOf[c]] BY <1>3, <1>4, <3>1, NobodyHas
    <3> QED BY <1>1, <3>1, <3>2, FrameSettled
  <2> QED BY <1>1, <1>11, <2>1, <2>2 DEF Own
<1> QED BY <1>5, <1>6, <1>7, <1>8, <1>9, <1>10, <1>11 DEF Base, Preserved

-----------------------------------------------------------------------------
(* CheckAquireList. *)

\* The waiters up to k are passed: t, if anybody, keeps the connection, the
\* others' users have let go of them.
Passed(p, k, t) ==
    /\ k \in 0..Len(aquire[p])
    /\ t = Nobody => k = Len(aquire[p])
    /\ t # Nobody => k \in DOMAIN aquire[p] /\ t = aquire[p][k] /\ t \in user
    /\ \A i \in 1..k : aquire[p][i] \notin user \/ (i = k /\ aquire[p][i] = t)

Dropped(p, k, t) == {aquire[p][i] : i \in 1..k} \ {t}

\* What the waiters that are passed send: at most the statement of the one
\* that keeps the connection, if the others have nothing to send.
LEMMA SentFacts ==
    ASSUME Typed, NEW p \in Pools, NEW k, NEW t, Passed(p, k, t)
    PROVE  LET asks == Those(aquire[p], {i \in 1..k : stmt[aquire[p][i]] = "wait"})
               sent == [i \in DOMAIN asks |-> <<asks[i], serial[asks[i]]>>]
           IN  /\ sent \in Seq(Conns \X Nat)
               /\ (\A i \in 1..k : aquire[p][i] \notin user => stmt[aquire[p][i]] # "wait") =>
                    \/ sent = <<>>
                    \/ t # Nobody /\ stmt[t] = "wait" /\ sent = <<<<t, serial[t]>>>>
<1> DEFINE Q == aquire[p]
           W == {i \in 1..k : stmt[Q[i]] = "wait"}
           asks == Those(Q, W)
           sent == [i \in DOMAIN asks |-> <<asks[i], serial[asks[i]]>>]
<1>1. Q \in Seq(Conns) BY DEF Typed, ListTypes
<1>2. W \in SUBSET DOMAIN Q BY <1>1 DEF Passed
<1>3. asks \in Seq(Conns) /\ Len(asks) = Cardinality(W) /\ ToSet(asks) = {Q[i] : i \in W}
  <2> HIDE DEF Q, W
  <2> QED BY <1>1, <1>2, ThoseFacts
<1> HIDE DEF asks
<1>4. DOMAIN asks = 1..Len(asks) /\ Len(asks) \in Nat BY <1>3
<1>5. \A i \in DOMAIN asks : asks[i] \in Conns /\ serial[asks[i]] \in Nat
  <2>1. \A i \in DOMAIN asks : asks[i] \in Conns BY <1>3
  <2>2. \A c \in Conns : serial[c] \in Nat BY DbPoolAssumption DEF Typed, ConnTypes
  <2> QED BY <2>1, <2>2
<1>6. sent \in Seq(Conns \X Nat)
  <2>1. \A i \in 1..Len(asks) : <<asks[i], serial[asks[i]]>> \in Conns \X Nat BY <1>4, <1>5
  <2> QED BY <1>4, <2>1
<1>7. ASSUME \A i \in 1..k : Q[i] \notin user => stmt[Q[i]] # "wait"
      PROVE  sent = <<>> \/ (t # Nobody /\ stmt[t] = "wait" /\ sent = <<<<t, serial[t]>>>>)
  <2>1. \A i \in W : i = k /\ Q[i] = t BY <1>7 DEF Passed
  <2>2. CASE W = {}
    <3>1. Len(asks) = 0 BY <1>3, <2>2, FS_EmptySet
    <3>2. sent = <<>> BY <1>4, <3>1
    <3> QED BY <3>2
  <2>3. CASE W # {}
    <3>1. W = {k} /\ k \in W BY <2>1, <2>3
    <3>2. Cardinality(W) = 1 BY <3>1, FS_Singleton
    <3>3. t = Q[k] /\ stmt[t] = "wait" BY <2>1, <3>1
    <3>4. t # Nobody
      <4>1. Q[k] \in Conns BY <1>1, <1>2, <3>1
      <4> QED BY <3>3, <4>1, DbPoolAssumption
    <3>5. asks[1] = t
      <4>1. asks[1] \in ToSet(asks)
        <5>1. 1 \in DOMAIN asks BY <1>3, <1>4, <3>2
        <5> QED BY <5>1, Zenon DEF ToSet
      <4>2. asks[1] \in {Q[i] : i \in W} BY <1>3, <4>1
      <4> QED BY <2>1, <4>2
    <3>6. sent = <<<<t, serial[t]>>>>
      <4>1. DOMAIN asks = 1..1 BY <1>3, <1>4, <3>2
      <4> QED BY <3>5, <4>1
    <3> QED BY <3>3, <3>4, <3>6
  <2> QED BY <2>2, <2>3
<1> QED BY <1>6, <1>7 DEF asks

\* What CheckAquireList does: sent is what reaches the wire of an open r.
Served(p, r, Leaving, k, t, sent, ph) ==
    /\ Passed(p, k, t)
    /\ aquire' = [aquire EXCEPT ![p] = SubSeq(@, k + 1, Len(@))]
    /\ free' = [free EXCEPT ![p] = IF t = Nobody THEN Append(@, r) ELSE @]
    /\ busy' = [busy EXCEPT ![p] = IF t = Nobody THEN @ \ {r} ELSE @ \cup {r}]
    /\ handler' = [handler EXCEPT ![r] = t]
    /\ sent \in Seq(Conns \X Nat)
    /\ (\A i \in 1..k : aquire[p][i] \notin user => stmt[aquire[p][i]] # "wait") =>
         \/ sent = <<>>
         \/ t # Nobody /\ stmt[t] = "wait" /\ sent = <<<<t, serial[t]>>>>
    /\ wire' = [wire EXCEPT ![r] = IF Open(r) THEN @ \o sent ELSE @]
    /\ conn' = [c \in Conns |-> IF c \in Leaving \cup Dropped(p, k, t) THEN "gone" ELSE conn[c]]
    /\ realOf' = [c \in Conns |-> IF c = t THEN r ELSE IF c \in Leaving THEN Nobody ELSE realOf[c]]
    /\ refs' = [refs EXCEPT ![r] = @ + (IF t = Nobody THEN 0 ELSE 1) - Cardinality(Leaving)]
    /\ stmt' = [c \in Conns |-> IF c = t /\ stmt[c] = "wait" THEN ph ELSE stmt[c]]

\* CheckAquireList passes the waiters up to some k.
LEMMA AquireEffect ==
    ASSUME Typed, NEW p \in Pools, NEW r \in Real, NEW Leaving, CheckAquireList(p, r, Leaving)
    PROVE  \E k, t, sent : \E ph \in InFlight : Served(p, r, Leaving, k, t, sent, ph)
<1> DEFINE Q == aquire[p]
           alive == {i \in DOMAIN Q : Q[i] \in user}
           k == IF alive = {} THEN Len(Q) ELSE Min(alive)
           t == IF alive = {} THEN Nobody ELSE Q[k]
           asks == Those(Q, {i \in 1..k : stmt[Q[i]] = "wait"})
           sent == [i \in DOMAIN asks |-> <<asks[i], serial[asks[i]]>>]
<1>1. Q \in Seq(Conns) /\ DOMAIN Q = 1..Len(Q) /\ Len(Q) \in Nat BY DEF Typed, ListTypes
<1>2. PICK ph \in InFlight :
         stmt' = [c \in Conns |-> IF c = t /\ stmt[c] = "wait" THEN ph ELSE stmt[c]]
  BY DEF CheckAquireList
<1>3. /\ aquire' = [aquire EXCEPT ![p] = SubSeq(@, k + 1, Len(@))]
      /\ free' = [free EXCEPT ![p] = IF t = Nobody THEN Append(@, r) ELSE @]
      /\ busy' = [busy EXCEPT ![p] = IF t = Nobody THEN @ \ {r} ELSE @ \cup {r}]
      /\ handler' = [handler EXCEPT ![r] = t]
      /\ wire' = [wire EXCEPT ![r] = IF Open(r) THEN @ \o sent ELSE @]
      /\ conn' = [c \in Conns |-> IF c \in Leaving \cup Dropped(p, k, t) THEN "gone" ELSE conn[c]]
      /\ realOf' = [c \in Conns |-> IF c = t THEN r ELSE IF c \in Leaving THEN Nobody ELSE realOf[c]]
      /\ refs' = [refs EXCEPT ![r] = @ + (IF t = Nobody THEN 0 ELSE 1) - Cardinality(Leaving)]
  BY DEF CheckAquireList, SetDataHandler, Dropped
<1>4. Passed(p, k, t)
  <2>1. CASE alive = {}
    <3>1. k = Len(Q) /\ t = Nobody BY <2>1
    <3>2. \A i \in 1..Len(Q) : Q[i] \notin user BY <1>1, <2>1
    <3> HIDE DEF k, t
    <3> QED BY <1>1, <3>1, <3>2 DEF Passed
  <2>2. CASE alive # {}
    <3>1. alive \in SUBSET Nat BY <1>1
    <3>2. k = Min(alive) /\ t = Q[k] BY <2>2
    <3> HIDE DEF k, t
    <3>3. k \in alive /\ \A i \in alive : k <= i
      <4> HIDE DEF alive
      <4> QED BY <2>2, <3>1, <3>2, MinFacts
    <3>4. t \in user /\ t # Nobody
      <4> HIDE DEF Q
      <4>1. t \in Conns BY <1>1, <3>2, <3>3
      <4> QED BY <3>2, <3>3, <4>1, DbPoolAssumption
    <3>5. ASSUME NEW i \in 1..k PROVE Q[i] \notin user \/ (i = k /\ Q[i] = t)
      <4>1. k \in 1..Len(Q) BY <1>1, <3>3
      <4>2. i \in DOMAIN Q BY <1>1, <4>1
      <4>3. i = k \/ ~(k <= i) BY <4>1
      <4> QED BY <3>2, <3>3, <4>2, <4>3
    <3>6. k \in DOMAIN Q /\ k \in 0..Len(Q)
      <4> HIDE DEF Q
      <4>1. k \in DOMAIN Q BY <3>3
      <4> QED BY <1>1, <4>1
    <3> HIDE DEF alive
    <3> QED BY <3>2, <3>4, <3>5, <3>6 DEF Passed
  <2> QED BY <2>1, <2>2
<1> HIDE DEF k, t
<1>5. /\ sent \in Seq(Conns \X Nat)
      /\ (\A i \in 1..k : aquire[p][i] \notin user => stmt[aquire[p][i]] # "wait") =>
           \/ sent = <<>>
           \/ t # Nobody /\ stmt[t] = "wait" /\ sent = <<<<t, serial[t]>>>>
  BY <1>4, SentFacts
<1> HIDE DEF sent
<1>6. Served(p, r, Leaving, k, t, sent, ph) BY <1>2, <1>3, <1>4, <1>5 DEF Served
<1> QED BY <1>6

\* What is left of a sequence after its first k.
LEMMA RestFacts ==
    ASSUME NEW S, NEW s \in Seq(S), NEW k \in 0..Len(s)
    PROVE  LET u == SubSeq(s, k + 1, Len(s)) IN
           /\ u \in Seq(S) /\ DOMAIN u = 1..(Len(s) - k)
           /\ \A i \in 1..(Len(s) - k) : u[i] = s[k + i] /\ k + i \in DOMAIN s
           /\ k = Len(s) => u = <<>>
<1> DEFINE u == SubSeq(s, k + 1, Len(s))
<1>1. Len(s) \in Nat /\ DOMAIN s = 1..Len(s) OBVIOUS
<1>2. u \in Seq(S) /\ Len(u) = Len(s) - k
  <2>1. k + 1 \in Int /\ Len(s) \in Int /\ \A j \in (k + 1)..Len(s) : s[j] \in S BY <1>1
  <2>2. u \in Seq(S) /\ Len(u) = IF k + 1 <= Len(s) THEN Len(s) - (k + 1) + 1 ELSE 0
    BY <2>1, SubSeqProperties
  <2>3. (IF k + 1 <= Len(s) THEN Len(s) - (k + 1) + 1 ELSE 0) = Len(s) - k
    <3> DEFINE n == Len(s)
    <3>1. n \in Nat /\ k \in 0..n BY <1>1
    <3> HIDE DEF n
    <3>2. (IF k + 1 <= n THEN n - (k + 1) + 1 ELSE 0) = n - k BY <3>1
    <3> QED BY <3>2 DEF n
  <2> HIDE DEF u
  <2> QED BY <2>2, <2>3
<1>3. \A i \in 1..(Len(s) - k) : u[i] = s[k + i] /\ k + i \in DOMAIN s
  <2> SUFFICES ASSUME NEW i \in 1..(Len(s) - k) PROVE u[i] = s[k + i] /\ k + i \in DOMAIN s OBVIOUS
  <2>1. k + 1 \in Int /\ Len(s) \in Int /\ \A j \in (k + 1)..Len(s) : s[j] \in S BY <1>1
  <2>2. \A j \in 1..Len(s) - (k + 1) + 1 : u[j] = s[(k + 1) + j - 1] BY <2>1, SubSeqProperties
  <2>3. i \in 1..Len(s) - (k + 1) + 1 /\ (k + 1) + i - 1 = k + i /\ k + i \in 1..Len(s) BY <1>1
  <2> QED BY <1>1, <2>2, <2>3
<1>4. DOMAIN u = 1..Len(u) BY <1>2
<1> HIDE DEF u
<1>5. k = Len(s) => u = <<>> BY <1>1, <1>2
<1> QED BY <1>2, <1>3, <1>4, <1>5 DEF u

\* The lists of waiters after CheckAquireList.
LEMMA ServedLists ==
    ASSUME Typed, WaitOnce, NEW p \in Pools, NEW r \in Real, NEW Leaving, NEW k, NEW t, NEW sent, NEW ph,
           Served(p, r, Leaving, k, t, sent, ph)
    PROVE  /\ aquire' \in [Pools -> Seq(Conns)] /\ WaitOnce'
           /\ \A q \in Pools : q # p => aquire'[q] = aquire[q]
           /\ t = Nobody => aquire'[p] = <<>>
           /\ \A q \in Pools : \A c \in ToSet(aquire'[q]) :
                c \in ToSet(aquire[q]) /\ c # t /\ c \notin Dropped(p, k, t)
<1> DEFINE Q == aquire[p]
           u == SubSeq(Q, k + 1, Len(Q))
<1>1. /\ Q \in Seq(Conns) /\ k \in 0..Len(Q) /\ Len(Q) \in Nat /\ DOMAIN Q = 1..Len(Q)
      /\ aquire \in [Pools -> Seq(Conns)] /\ aquire' = [aquire EXCEPT ![p] = u]
  BY DEF Typed, ListTypes, Served, Passed
<1>2. /\ u \in Seq(Conns) /\ DOMAIN u = 1..(Len(Q) - k)
      /\ \A i \in 1..(Len(Q) - k) : u[i] = Q[k + i] /\ k + i \in DOMAIN Q
      /\ k = Len(Q) => u = <<>>
  <2> HIDE DEF Q
  <2> QED BY <1>1, RestFacts
<1> HIDE DEF u
<1>3. /\ aquire' \in [Pools -> Seq(Conns)] /\ aquire'[p] = u
      /\ \A q \in Pools : q # p => aquire'[q] = aquire[q]
  BY <1>1, <1>2
<1>4. t = Nobody => aquire'[p] = <<>> BY <1>2, <1>3 DEF Served, Passed
<1> DEFINE shift(q) == IF q = p THEN k ELSE 0
<1>5. ASSUME NEW q \in Pools, NEW i \in DOMAIN aquire'[q]
      PROVE  /\ i \in Nat /\ i > 0 /\ shift(q) + i \in DOMAIN aquire[q]
             /\ aquire'[q][i] = aquire[q][shift(q) + i]
  <2>1. CASE q = p
    <3>1. i \in 1..(Len(Q) - k) /\ aquire'[q] = u BY <1>2, <1>3, <1>5, <2>1
    <3>2. shift(q) = k BY <2>1
    <3>3. i \in Nat /\ i > 0 /\ u[i] = Q[k + i] /\ k + i \in DOMAIN Q
      <4> HIDE DEF Q
      <4>1. i \in Nat /\ i > 0 BY <1>1, <3>1
      <4> QED BY <1>2, <3>1, <4>1
    <3> QED BY <2>1, <3>1, <3>2, <3>3
  <2>2. CASE q # p
    <3>1. aquire'[q] = aquire[q] /\ i \in DOMAIN aquire[q] BY <1>3, <1>5, <2>2
    <3>2. aquire[q] \in Seq(Conns) BY <1>1
    <3>3. i \in Nat /\ i > 0 BY <3>1, <3>2
    <3> QED BY <2>2, <3>1, <3>3
  <2> QED BY <2>1, <2>2
<1> HIDE DEF Q
<1>6. WaitOnce'
  <2> SUFFICES ASSUME NEW q \in Pools, NEW v \in Pools, NEW i \in DOMAIN aquire'[q],
                      NEW j \in DOMAIN aquire'[v], aquire'[q][i] = aquire'[v][j]
               PROVE  q = v /\ i = j
    BY DEF WaitOnce
  <2>1. /\ i \in Nat /\ shift(q) + i \in DOMAIN aquire[q] /\ aquire'[q][i] = aquire[q][shift(q) + i]
        /\ j \in Nat /\ shift(v) + j \in DOMAIN aquire[v] /\ aquire'[v][j] = aquire[v][shift(v) + j]
    BY <1>5
  <2>2. shift(q) \in Nat /\ shift(v) \in Nat BY <1>1
  <2> HIDE DEF shift
  <2>3. q = v /\ shift(q) + i = shift(v) + j
    <3>1. aquire[q][shift(q) + i] = aquire[v][shift(v) + j] BY <2>1
    <3> DEFINE a == shift(q) + i
               b == shift(v) + j
    <3>2. a \in DOMAIN aquire[q] /\ b \in DOMAIN aquire[v] /\ aquire[q][a] = aquire[v][b] BY <2>1, <3>1
    <3> HIDE DEF a, b
    <3>3. \A x \in DOMAIN aquire[q], y \in DOMAIN aquire[v] : aquire[q][x] = aquire[v][y] => q = v /\ x = y
      BY DEF WaitOnce
    <3>4. q = v /\ a = b BY <3>2, <3>3
    <3> QED BY <3>4 DEF a, b
  <2> QED BY <2>1, <2>2, <2>3
<1>7. ASSUME NEW q \in Pools, NEW c \in ToSet(aquire'[q])
      PROVE  c \in ToSet(aquire[q]) /\ c # t /\ c \notin Dropped(p, k, t)
  <2>1. PICK i \in DOMAIN aquire'[q] : c = aquire'[q][i] BY <1>7, Zenon DEF ToSet
  <2>2. i \in Nat /\ i > 0 /\ shift(q) + i \in DOMAIN aquire[q] /\ c = aquire[q][shift(q) + i]
    BY <1>5, <2>1
  <2>3. shift(q) \in Nat /\ (q = p => shift(q) = k) BY <1>1
  <2> HIDE DEF shift
  <2>4. ASSUME NEW j \in 1..k, c = aquire[p][j] PROVE FALSE
    <3>1. j \in DOMAIN aquire[p] BY <1>1 DEF Q
    <3>2. q = p /\ j = shift(q) + i
      <4>1. PICK b : b = shift(q) + i OBVIOUS
      <4>2. \A x \in DOMAIN aquire[q], y \in DOMAIN aquire[p] : aquire[q][x] = aquire[p][y] => q = p /\ x = y
        BY DEF WaitOnce
      <4>3. b \in DOMAIN aquire[q] /\ aquire[q][b] = aquire[p][j] BY <2>2, <2>4, <4>1
      <4>4. q = p /\ b = j BY <3>1, <4>2, <4>3
      <4> QED BY <4>1, <4>4
    <3> QED BY <1>1, <2>2, <2>3, <3>2
  <2>5. c \notin Dropped(p, k, t) BY <2>4 DEF Dropped
  <2>6. c \in ToSet(aquire[q]) BY <2>2 DEF ToSet
  <2>7. c # t
    <3>1. SUFFICES ASSUME c = t PROVE FALSE OBVIOUS
    <3>2. c \in Conns
      <4>1. aquire[q] \in Seq(Conns) BY <1>1
      <4> QED BY <2>2, <4>1
    <3>3. t # Nobody BY <3>1, <3>2, DbPoolAssumption
    <3>4. k \in DOMAIN Q /\ t = aquire[p][k] BY <3>3 DEF Served, Passed, Q
    <3>5. k \in 1..k BY <1>1, <3>4
    <3> QED BY <2>4, <3>1, <3>4, <3>5
  <2> QED BY <2>5, <2>6, <2>7
<1> QED BY <1>3, <1>4, <1>6, <1>7

\* A sequence with one more at its end.
LEMMA AppendFacts ==
    ASSUME NEW S, NEW s \in Seq(S), NEW x \in S
    PROVE  /\ Append(s, x) \in Seq(S) /\ ToSet(Append(s, x)) = ToSet(s) \cup {x}
           /\ (\A i, j \in DOMAIN s : s[i] = s[j] => i = j) /\ x \notin ToSet(s) =>
                \A i, j \in DOMAIN Append(s, x) : Append(s, x)[i] = Append(s, x)[j] => i = j
<1> DEFINE u == Append(s, x)
           n == Len(s)
<1>1. n \in Nat /\ DOMAIN s = 1..n OBVIOUS
<1>2. u \in Seq(S) /\ DOMAIN u = 1..(n + 1) /\ u[n + 1] = x /\ \A i \in 1..n : u[i] = s[i] BY <1>1
<1> HIDE DEF u, n
<1>3. 1..(n + 1) = 1..n \cup {n + 1} /\ n + 1 \notin 1..n BY <1>1
<1>4. ToSet(u) = ToSet(s) \cup {x}
  <2>1. \A i \in DOMAIN u : u[i] \in ToSet(s) \cup {x} BY <1>1, <1>2, <1>3 DEF ToSet
  <2>2. ToSet(s) \subseteq ToSet(u)
    <3> SUFFICES ASSUME NEW i \in DOMAIN s PROVE s[i] \in ToSet(u) BY DEF ToSet
    <3>1. i \in DOMAIN u /\ u[i] = s[i] BY <1>1, <1>2, <1>3
    <3> QED BY <3>1 DEF ToSet
  <2>3. x \in ToSet(u) BY <1>2, <1>3 DEF ToSet
  <2>4. ToSet(u) \subseteq ToSet(s) \cup {x} BY <2>1 DEF ToSet
  <2> QED BY <2>2, <2>3, <2>4
<1>5. ASSUME \A i, j \in DOMAIN s : s[i] = s[j] => i = j, x \notin ToSet(s),
             NEW i \in DOMAIN u, NEW j \in DOMAIN u, u[i] = u[j]
      PROVE  i = j
  <2>1. \A m \in 1..n : u[m] # x BY <1>1, <1>2, <1>5 DEF ToSet
  <2>2. CASE i = n + 1 BY <1>2, <1>3, <1>5, <2>1, <2>2
  <2>3. CASE j = n + 1 BY <1>2, <1>3, <1>5, <2>1, <2>3
  <2>4. CASE i # n + 1 /\ j # n + 1
    <3>1. i \in DOMAIN s /\ j \in DOMAIN s /\ u[i] = s[i] /\ u[j] = s[j] BY <1>1, <1>2, <1>3, <2>4
    <3> QED BY <1>5, <3>1
  <2> QED BY <2>2, <2>3, <2>4
<1> QED BY <1>2, <1>4, <1>5 DEF u

\* Whom CheckAquireList may serve or drop.
LEMMA PassedFacts ==
    ASSUME Base, NEW p \in Pools, NEW k, NEW t, Passed(p, k, t)
    PROVE  /\ t \in Conns \cup {Nobody}
           /\ t # Nobody => /\ t \in user /\ t \in ToSet(aquire[p]) /\ conn[t] = "live"
                            /\ realOf[t] = Nobody /\ aquire[p] # <<>>
           /\ \A d \in Dropped(p, k, t) : /\ d \in Conns /\ d \notin user /\ d \in ToSet(aquire[p])
                                          /\ conn[d] = "live" /\ realOf[d] = Nobody
<1> DEFINE Q == aquire[p]
<1>1. Q \in Seq(Conns) /\ DOMAIN Q = 1..Len(Q) /\ Len(Q) \in Nat BY DEF Base, Typed, ListTypes
<1>2. \A i \in DOMAIN Q : Q[i] \in Conns /\ Q[i] \in ToSet(Q) BY <1>1 DEF ToSet
<1>3. \A c \in Conns : c \in ToSet(Q) => conn[c] = "live" /\ realOf[c] = Nobody BY DEF Base, ConnInv
<1>4. t # Nobody => t \in user /\ t \in Conns /\ t \in ToSet(Q) /\ Q # <<>>
  <2> SUFFICES ASSUME t # Nobody PROVE t \in user /\ t \in Conns /\ t \in ToSet(Q) /\ Q # <<>> OBVIOUS
  <2>1. k \in DOMAIN Q /\ t = Q[k] /\ t \in user BY DEF Passed
  <2> QED BY <1>2, <2>1
<1>5. ASSUME NEW d \in Dropped(p, k, t) PROVE d \in Conns /\ d \notin user /\ d \in ToSet(Q)
  <2>1. PICK i \in 1..k : d = Q[i] /\ d # t BY <1>5 DEF Dropped
  <2>2. i \in DOMAIN Q BY <1>1, <2>1 DEF Passed
  <2>3. d \notin user BY <2>1 DEF Passed
  <2> QED BY <1>2, <2>1, <2>2, <2>3
<1> HIDE DEF Q
<1> QED BY <1>3, <1>4, <1>5 DEF Q

\* r comes to free_ after it was authenticated, or from the Connection that
\* is Leaving, and CheckAquireList passes it on.
LEMMA ServeKeeps ==
    ASSUME Base, NEW r \in Real, NEW Leaving, net[r] = "up",
           handler[r] = Nobody => Leaving = {} /\ phase[r] # "ok",
           handler[r] # Nobody => Leaving = {handler[r]},
           Careful => \A c \in Leaving : ~Pending(c) \/ c \in told,
           CheckAquireList(poolid[r], r, Leaving),
           phase' = [phase EXCEPT ![r] = "ok"],
           pending' = [pending EXCEPT ![poolid[r]] = @ \ {r}],
           user' = user \ Leaving, net' = net, poolid' = poolid, linked' = linked, closed' = closed,
           queue' = queue, serial' = serial, told' = told, mixed' = mixed, setup' = setup,
           rollback' = rollback, cleanup' = cleanup
    PROVE  Preserved
<1> DEFINE p == poolid[r]
           h == handler[r]
<1>1. Typed /\ RealInv(r) /\ WaitOnce /\ FreeOnce /\ NoWaitWhileFree BY DEF Base
<1>2. p \in Pools /\ h \in Conns \cup {Nobody} BY <1>1 DEF RealInv, Staged, Typed, RealTypes
<1>3. PICK k, t, sent : \E ph \in InFlight : Served(p, r, Leaving, k, t, sent, ph)
  BY <1>1, <1>2, AquireEffect
<1>4. PICK ph \in InFlight : Served(p, r, Leaving, k, t, sent, ph) BY <1>3
<1>5. /\ t \in Conns \cup {Nobody}
      /\ t # Nobody => /\ t \in user /\ t \in ToSet(aquire[p]) /\ conn[t] = "live"
                       /\ realOf[t] = Nobody /\ aquire[p] # <<>>
      /\ \A d \in Dropped(p, k, t) : /\ d \in Conns /\ d \notin user /\ d \in ToSet(aquire[p])
                                     /\ conn[d] = "live" /\ realOf[d] = Nobody
  <2>1. Passed(p, k, t) BY <1>4 DEF Served
  <2> HIDE DEF p
  <2> QED BY <1>2, <2>1, PassedFacts
<1>6. /\ aquire' \in [Pools -> Seq(Conns)] /\ WaitOnce'
      /\ \A q \in Pools : q # p => aquire'[q] = aquire[q]
      /\ t = Nobody => aquire'[p] = <<>>
      /\ \A q \in Pools : \A c \in ToSet(aquire'[q]) :
           c \in ToSet(aquire[q]) /\ c # t /\ c \notin Dropped(p, k, t)
  <2> HIDE DEF p
  <2> QED BY <1>1, <1>2, <1>4, ServedLists
<1> HIDE DEF p
<1>7. h # Nobody => h \in Conns /\ realOf[h] = r /\ phase[r] = "ok" BY <1>1, <1>2 DEF RealInv, Held
<1>8. /\ \A c \in Leaving : c = h /\ c \in Conns /\ realOf[c] = r /\ realOf[c] # Nobody /\ c \in user
      /\ \A c \in Conns : realOf[c] = r => c \in Leaving
      /\ Cardinality(Leaving) = IF h = Nobody THEN 0 ELSE 1
  <2>1. ASSUME NEW c \in Leaving
        PROVE  c = h /\ c \in Conns /\ realOf[c] = r /\ realOf[c] # Nobody /\ c \in user
    <3>1. c = h /\ h # Nobody BY <2>1
    <3>2. c \in Conns /\ realOf[c] = r /\ r # Nobody BY <1>7, <3>1, DbPoolAssumption
    <3>3. ConnInv(c) BY <3>2 DEF Base
    <3> QED BY <3>1, <3>2, <3>3 DEF ConnInv
  <2>2. ASSUME NEW c \in Conns, realOf[c] = r PROVE c \in Leaving
    <3>1. h # Nobody BY <2>2, NobodyHas
    <3>2. ConnInv(c) /\ r # Nobody BY DbPoolAssumption DEF Base
    <3>3. h = c BY <2>2, <3>2 DEF ConnInv
    <3> QED BY <3>1, <3>3
  <2>3. Cardinality(Leaving) = IF h = Nobody THEN 0 ELSE 1 BY FS_EmptySet, FS_Singleton
  <2> QED BY <2>1, <2>2, <2>3
<1>9. /\ \A c \in Leaving : c # t /\ c \notin Dropped(p, k, t)
      /\ t \notin Dropped(p, k, t)
  BY <1>5, <1>8, DbPoolAssumption DEF Dropped
<1> HIDE DEF h
<1>10. r \in linked /\ Home(r)
  BY <1>1 DEF RealInv, Staged, Home
<1>11. \A q \in Pools : pending'[q] = IF q = p THEN pending[q] \ {r} ELSE pending[q]
  BY <1>1 DEF Typed, ListTypes, p
<1>12. /\ \A q \in Pools : q # p => free'[q] = free[q] /\ busy'[q] = busy[q]
       /\ free'[p] = IF t = Nobody THEN Append(free[p], r) ELSE free[p]
       /\ busy'[p] = IF t = Nobody THEN busy[p] \ {r} ELSE busy[p] \cup {r}
  BY <1>1, <1>2, <1>4 DEF Typed, ListTypes, Served
<1>13. /\ \A q \in Pools : r \notin ToSet(free[q])
       /\ \A q \in Pools : r \in busy[q] => q = p
       /\ \A q \in Pools : r \in pending[q] => q = p
  <2> USE DEF h, p
  <2> QED BY <1>1 DEF RealInv, Placed
<1>14. /\ Append(free[p], r) \in Seq(Real) /\ ToSet(Append(free[p], r)) = ToSet(free[p]) \cup {r}
       /\ \A i, j \in DOMAIN Append(free[p], r) : Append(free[p], r)[i] = Append(free[p], r)[j] => i = j
  <2> DEFINE s == free[p]
  <2>1. s \in Seq(Real) /\ r \notin ToSet(s) BY <1>1, <1>2, <1>13 DEF Typed, ListTypes
  <2>2. \A i, j \in DOMAIN s : s[i] = s[j] => i = j BY <1>1, <1>2 DEF FreeOnce
  <2> HIDE DEF s
  <2>3. /\ Append(s, r) \in Seq(Real) /\ ToSet(Append(s, r)) = ToSet(s) \cup {r}
        /\ \A i, j \in DOMAIN Append(s, r) : Append(s, r)[i] = Append(s, r)[j] => i = j
    BY <2>1, <2>2, AppendFacts
  <2> QED BY <2>3 DEF s
<1>15. /\ \A x \in Real : handler'[x] = IF x = r THEN t ELSE handler[x]
       /\ \A x \in Real : phase'[x] = IF x = r THEN "ok" ELSE phase[x]
       /\ \A x \in Real : x # r => wire'[x] = wire[x] /\ refs'[x] = refs[x]
       /\ handler' \in [Real -> Conns \cup {Nobody}]
  BY <1>1, <1>4, <1>5 DEF Typed, RealTypes, Served
<1>16. /\ \A c \in Conns : realOf'[c] = IF c = t THEN r ELSE IF c \in Leaving THEN Nobody ELSE realOf[c]
       /\ \A c \in Conns : conn'[c] = IF c \in Leaving \cup Dropped(p, k, t) THEN "gone" ELSE conn[c]
       /\ \A c \in Conns : stmt'[c] = IF c = t /\ stmt[c] = "wait" THEN ph ELSE stmt[c]
  BY <1>4 DEF Served
<1>17. refs'[r] = 1 + (IF t = Nobody THEN 0 ELSE 1) + 1 /\ refs' \in [Real -> Nat]
  <2>1. refs[r] = 1 + (IF h # Nobody THEN 1 ELSE 0) + 1 BY <1>1, <1>10 DEF RealInv, Counted, h
  <2>2. refs \in [Real -> Nat] BY <1>1 DEF Typed, RealTypes
  <2>3. refs' = [refs EXCEPT ![r] = @ + (IF t = Nobody THEN 0 ELSE 1) - Cardinality(Leaving)]
    BY <1>4 DEF Served
  <2>4. refs[r] + (IF t = Nobody THEN 0 ELSE 1) - Cardinality(Leaving) = 1 + (IF t = Nobody THEN 0 ELSE 1) + 1
    BY <1>8, <2>1
  <2> QED BY <2>2, <2>3, <2>4
<1>18. wire' \in [Real -> Seq(Conns \X Nat)] /\ (Open(r) => wire'[r] = wire[r] \o sent)
  <2>1. wire \in [Real -> Seq(Conns \X Nat)] /\ sent \in Seq(Conns \X Nat)
    BY <1>1, <1>4 DEF Typed, RealTypes, Served
  <2> DEFINE w == wire[r]
             u == w \o sent
  <2>2. w \in Seq(Conns \X Nat) BY <2>1
  <2> HIDE DEF w
  <2>3. u \in Seq(Conns \X Nat) BY <2>1, <2>2
  <2>4. wire' = [wire EXCEPT ![r] = IF Open(r) THEN u ELSE w] BY <1>4 DEF Served, w
  <2> HIDE DEF u
  <2>5. wire' \in [Real -> Seq(Conns \X Nat)] BY <2>1, <2>2, <2>3, <2>4
  <2>6. Open(r) => wire'[r] = u BY <2>1, <2>4
  <2> QED BY <2>5, <2>6 DEF u, w
<1>19. Typed'
  <2>1. free' \in [Pools -> Seq(Real)]
    <3> DEFINE f == IF t = Nobody THEN Append(free[p], r) ELSE free[p]
    <3>1. free \in [Pools -> Seq(Real)] BY <1>1 DEF Typed, ListTypes
    <3>2. f \in Seq(Real) BY <1>2, <1>14, <3>1
    <3>3. free' = [free EXCEPT ![p] = f] BY <1>4 DEF Served
    <3> HIDE DEF f
    <3> QED BY <3>1, <3>2, <3>3
  <2>2. busy' \in [Pools -> SUBSET Real] /\ pending' \in [Pools -> SUBSET Real]
    BY <1>1, <1>4 DEF Typed, ListTypes, Served
  <2>3. ListTypes' BY <1>6, <2>1, <2>2 DEF ListTypes
  <2>4. RealTypes' BY <1>1, <1>15, <1>17, <1>18 DEF Typed, RealTypes
  <2>5. realOf' \in [Conns -> Real \cup {Nobody}] /\ conn' \in [Conns -> {"none", "live", "gone"}]
    BY <1>1, <1>4 DEF Typed, ConnTypes, Served
  <2>6. stmt' \in [Conns -> {"none", "new", "wait", "prepare", "response", "finish"}]
    BY <1>1, <1>4 DEF Typed, ConnTypes, Served, InFlight
  <2>7. ConnTypes' BY <1>1, <2>5, <2>6 DEF Typed, ConnTypes
  <2> QED BY <1>1, <2>3, <2>4, <2>7 DEF Typed, ManagerTypes
<1>20. ASSUME NEW x \in Real PROVE RealInv(x)' /\ (Home(x)' <=> Home(x))
  <2>1. RealInv(x) /\ handler[x] \in Conns \cup {Nobody} BY <1>1 DEF Base, Typed, RealTypes
  <2>2. CASE x = r
    <3>1. Home(x)' /\ Home(x) BY <1>10, <2>2 DEF Home
    <3>2. Staged(x)' BY <2>1, <2>2, <3>1 DEF RealInv, Staged
    <3>3. Placed(x)'
      <4> SUFFICES ASSUME NEW q \in Pools
                   PROVE  /\ r \notin pending'[q]
                          /\ r \in ToSet(free'[q]) <=> t = Nobody /\ q = p
                          /\ r \in busy'[q] <=> t # Nobody /\ q = p
        BY <1>15, <2>2, <3>1 DEF Placed, p
      <4>1. r \notin pending'[q]
        <5>1. CASE q = p
          <6>1. pending'[q] = pending[q] \ {r} BY <1>11, <5>1
          <6> QED BY <6>1
        <5>2. CASE q # p
          <6>1. pending'[q] = pending[q] BY <1>11, <5>2
          <6> QED BY <1>13, <5>2, <6>1
        <5> QED BY <5>1, <5>2
      <4>2. r \in ToSet(free'[q]) <=> t = Nobody /\ q = p
        <5>1. CASE q = p /\ t = Nobody
          <6>1. ToSet(free'[q]) = ToSet(free[p]) \cup {r} BY <1>12, <1>14, <5>1
          <6> QED BY <5>1, <6>1
        <5>2. CASE ~(q = p /\ t = Nobody)
          <6>1. free'[q] = free[q] BY <1>12, <5>2
          <6> QED BY <1>13, <5>2, <6>1
        <5> QED BY <5>1, <5>2
      <4>3. r \in busy'[q] <=> t # Nobody /\ q = p BY <1>12, <1>13
      <4> QED BY <4>1, <4>2, <4>3
    <3>4. Held(x)' BY <1>5, <1>15, <1>16, <2>2 DEF Held
    <3>5. Counted(x)' BY <1>10, <1>15, <1>17, <2>2, <3>1 DEF Counted
    <3> QED BY <3>1, <3>2, <3>3, <3>4, <3>5 DEF RealInv
  <2>3. CASE x # r
    <3>1. phase'[x] = phase[x] /\ handler'[x] = handler[x] /\ refs'[x] = refs[x] /\ wire'[x] = wire[x]
      BY <1>15, <2>3
    <3>2. \A q \in Pools : /\ x \in pending'[q] <=> x \in pending[q]
                           /\ x \in ToSet(free'[q]) <=> x \in ToSet(free[q])
                           /\ x \in busy'[q] <=> x \in busy[q]
      BY <1>11, <1>12, <1>14, <2>3
    <3>3. handler[x] # Nobody => realOf'[handler[x]] = realOf[handler[x]]
      <4> SUFFICES ASSUME handler[x] # Nobody PROVE realOf'[handler[x]] = realOf[handler[x]] OBVIOUS
      <4>1. handler[x] \in Conns /\ realOf[handler[x]] = x BY <2>1 DEF RealInv, Held
      <4>2. handler[x] # t /\ handler[x] \notin Leaving BY <1>5, <1>8, <2>3, <4>1, DbPoolAssumption
      <4> QED BY <1>16, <4>1, <4>2
    <3> QED BY <2>1, <3>1, <3>2, <3>3, FrameReal
  <2> QED BY <2>2, <2>3
<1>21. ASSUME NEW c \in Conns PROVE ConnInv(c)'
  <2>1. ConnInv(c) BY DEF Base
  <2>2. CASE c = t
    <3>1. realOf'[c] = r /\ handler'[r] = c /\ c \in user' /\ conn'[c] = "live"
      BY <1>5, <1>9, <1>15, <1>16, <2>2, DbPoolAssumption
    <3>2. \A q \in Pools : c \notin ToSet(aquire'[q]) BY <1>6, <2>2
    <3> QED BY <3>1, <3>2 DEF ConnInv
  <2>3. CASE c \in Leaving
    <3>1. realOf'[c] = Nobody /\ c \notin user' BY <1>9, <1>16, <2>3
    <3>2. \A q \in Pools : c \notin ToSet(aquire'[q]) BY <1>6, <1>8, <2>1, <2>3 DEF ConnInv
    <3> QED BY <3>1, <3>2 DEF ConnInv
  <2>4. CASE c \in Dropped(p, k, t)
    <3>1. realOf'[c] = Nobody /\ c \notin user' BY <1>5, <1>9, <1>16, <2>4
    <3>2. \A q \in Pools : c \notin ToSet(aquire'[q]) BY <1>6, <2>4
    <3> QED BY <3>1, <3>2 DEF ConnInv
  <2>5. CASE c # t /\ c \notin Leaving /\ c \notin Dropped(p, k, t)
    <3>1. realOf'[c] = realOf[c] /\ conn'[c] = conn[c] /\ (c \in user' <=> c \in user) BY <1>16, <2>5
    <3>2. realOf[c] # Nobody => handler'[realOf[c]] = handler[realOf[c]]
      <4>1. realOf[c] \in Real \cup {Nobody} /\ realOf[c] # r BY <1>1, <1>8, <2>5 DEF Typed, ConnTypes
      <4> QED BY <1>15, <4>1
    <3>3. \A q \in Pools : c \in ToSet(aquire'[q]) => c \in ToSet(aquire[q]) BY <1>6
    <3> QED BY <2>1, <3>1, <3>2, <3>3, FrameConn
  <2> QED BY <2>2, <2>3, <2>4, <2>5
<1>22. FreeOnce'
  <2> SUFFICES ASSUME NEW q \in Pools
               PROVE  \A i, j \in DOMAIN free'[q] : free'[q][i] = free'[q][j] => i = j
    BY DEF FreeOnce
  <2>1. free'[q] = free[q] \/ free'[q] = Append(free[p], r) BY <1>12
  <2>2. \A i, j \in DOMAIN free[q] : free[q][i] = free[q][j] => i = j BY <1>1 DEF FreeOnce
  <2> QED BY <1>14, <2>1, <2>2
<1>23. NoWaitWhileFree'
  <2> SUFFICES ASSUME NEW q \in Pools PROVE free'[q] = <<>> \/ aquire'[q] = <<>> BY DEF NoWaitWhileFree
  <2>1. free[q] = <<>> \/ aquire[q] = <<>> BY <1>1 DEF NoWaitWhileFree
  <2>2. CASE q = p /\ t = Nobody BY <1>6, <2>2
  <2>3. CASE q = p /\ t # Nobody BY <1>5, <1>12, <2>1, <2>3
  <2>4. CASE q # p BY <1>6, <1>12, <2>1, <2>4
  <2> QED BY <2>2, <2>3, <2>4
<1>24. Unopened' BY DEF Base, Unopened
<1>25. Bounded' BY <1>20, FrameBounded DEF Base
<1>26. ASSUME Careful, Own PROVE Own'
  <2>1. \A c \in Conns : Settled(c) BY <1>26 DEF Own
  <2>2. ASSUME NEW x \in Real PROVE WireOwn(x)'
    <3>1. WireOwn(x) /\ Held(x) /\ handler[x] \in Conns \cup {Nobody}
      BY <1>1, <1>26 DEF Own, Typed, RealTypes, Base, RealInv
    <3>2. Open(x)' <=> Open(x) BY DEF Open
    <3>3. CASE x = r /\ Open(r)
      <4>1. wire[r] = <<>>
        <5>1. CASE h = Nobody BY <3>1, <3>3, <5>1 DEF WireOwn, h
        <5>2. CASE h # Nobody
          <6>1. h \in Leaving /\ h \in Conns /\ realOf[h] = r BY <1>7, <5>2 DEF h
          <6>2. h \notin told BY <2>1, <6>1, DbPoolAssumption DEF Settled
          <6>3. stmt[h] \notin InFlight BY <1>26, <6>1, <6>2 DEF Pending, InFlight
          <6> QED BY <3>1, <3>3, <6>3 DEF WireOwn, h
        <5> QED BY <5>1, <5>2
      <4>2. wire'[r] = sent
        <5>1. sent \in Seq(Conns \X Nat) BY <1>4 DEF Served
        <5>2. <<>> \o sent = sent BY <5>1
        <5>3. wire'[r] = <<>> \o sent BY <1>18, <3>3, <4>1
        <5> QED BY <5>2, <5>3
      <4>3. sent = <<>> \/ (t # Nobody /\ stmt[t] = "wait" /\ sent = <<<<t, serial[t]>>>>)
        <5>1. ASSUME NEW i \in 1..k, aquire[p][i] \notin user PROVE stmt[aquire[p][i]] # "wait"
          <6>1. aquire[p] \in Seq(Conns) /\ k \in 0..Len(aquire[p])
            BY <1>1, <1>2, <1>4 DEF Typed, ListTypes, Served, Passed
          <6>2. i \in DOMAIN aquire[p] BY <6>1
          <6>3. aquire[p][i] \in Conns /\ aquire[p][i] \in ToSet(aquire[p]) BY <6>1, <6>2 DEF ToSet
          <6> QED BY <1>2, <2>1, <5>1, <6>3 DEF Settled
        <5> QED BY <1>4, <5>1 DEF Served
      <4>4. CASE sent = <<>> BY <3>3, <4>2, <4>4 DEF WireOwn
      <4>5. CASE t # Nobody /\ stmt[t] = "wait" /\ sent = <<<<t, serial[t]>>>>
        <5>1. handler'[r] = t /\ stmt'[t] = ph BY <1>5, <1>15, <1>16, <4>5
        <5> QED BY <1>4, <3>3, <4>2, <4>5, <5>1 DEF WireOwn
      <4> QED BY <4>3, <4>4, <4>5
    <3>4. CASE x # r
      <4>1. handler[x] # Nobody => handler[x] # t BY <1>5, <3>1, DbPoolAssumption DEF Held
      <4>2. handler'[x] = handler[x] /\ wire'[x] = wire[x] BY <1>15, <3>4
      <4>3. handler[x] # Nobody => stmt'[handler[x]] = stmt[handler[x]] BY <1>16, <3>1, <4>1
      <4> QED BY <3>1, <3>2, <4>2, <4>3, FrameWire
    <3>5. CASE ~Open(x) BY <3>2, <3>5 DEF WireOwn
    <3> QED BY <3>3, <3>4, <3>5
  <2>3. ASSUME NEW c \in Conns PROVE Settled(c)'
    <3>1. Settled(c) /\ ConnInv(c) BY <2>1 DEF Base
    <3>2. CASE c = t \/ c \in Dropped(p, k, t)
      <4>1. c \in ToSet(aquire[p]) BY <1>5, <3>2, DbPoolAssumption
      <4>2. c \notin told BY <1>2, <3>1, <4>1 DEF Settled
      <4>3. \A q \in Pools : c \notin ToSet(aquire'[q]) BY <1>6, <3>2
      <4> QED BY <4>2, <4>3 DEF Settled
    <3>3. CASE c \in Leaving
      <4>1. realOf'[c] = Nobody /\ conn'[c] = "gone" BY <1>9, <1>16, <3>3
      <4>2. \A q \in Pools : c \notin ToSet(aquire'[q]) BY <1>6, <1>8, <3>1, <3>3 DEF ConnInv
      <4> QED BY <4>1, <4>2 DEF Settled
    <3>4. CASE c # t /\ c \notin Leaving /\ c \notin Dropped(p, k, t)
      <4>1. realOf'[c] = realOf[c] /\ conn'[c] = conn[c] /\ (c \in user' <=> c \in user) /\ stmt'[c] = stmt[c]
        BY <1>16, <3>4
      <4>2. \A q \in Pools : c \in ToSet(aquire'[q]) => c \in ToSet(aquire[q]) BY <1>6
      <4> QED BY <3>1, <4>1, <4>2, FrameSettled
    <3> QED BY <3>2, <3>3, <3>4
  <2> QED BY <1>26, <2>2, <2>3 DEF Own
<1> QED BY <1>6, <1>19, <1>20, <1>21, <1>22, <1>23, <1>24, <1>25, <1>26 DEF Base, Preserved

\* The server accepts the login.
LEMMA AuthResponseKeeps ==
    ASSUME Base, NEW r \in Real, HandleAuthResponse(r) PROVE Preserved
<1>1. /\ net[r] = "up" /\ phase[r] = "response" /\ phase' = [phase EXCEPT ![r] = "ok"]
      /\ pending' = [pending EXCEPT ![poolid[r]] = @ \ {r}] /\ CheckAquireList(poolid[r], r, {})
      /\ net' = net /\ poolid' = poolid /\ linked' = linked /\ closed' = closed /\ queue' = queue
      /\ user' = user /\ serial' = serial /\ told' = told /\ mixed' = mixed
      /\ setup' = setup /\ rollback' = rollback /\ cleanup' = cleanup
  BY DEF HandleAuthResponse, Open, manager
<1>2. handler[r] = Nobody BY <1>1 DEF Base, RealInv, Held
<1>3. user' = user \ {} BY <1>1
<1> DEFINE Leaving == {}
<1>4. /\ handler[r] = Nobody => Leaving = {} /\ phase[r] # "ok"
      /\ handler[r] # Nobody => Leaving = {handler[r]}
      /\ Careful => \A c \in Leaving : ~Pending(c) \/ c \in told
      /\ CheckAquireList(poolid[r], r, Leaving) /\ user' = user \ Leaving
  BY <1>1, <1>2, <1>3
<1> HIDE DEF Leaving
<1> QED BY <1>1, <1>4, ServeKeeps

\* A user lets go of a Connection that has no working RealConnection.
LEMMA LetGoKeeps ==
    ASSUME Base, NEW c \in Conns, c \in user, user' = user \ {c},
           (\E p \in Pools : c \in ToSet(aquire[p])) => conn' = conn,
           ~(\E p \in Pools : c \in ToSet(aquire[p])) => conn' = [conn EXCEPT ![c] = "gone"],
           realOf[c] \in Real => net[realOf[c]] = "down",
           \A x \in Real : handler'[x] = IF x = realOf[c] THEN Nobody ELSE handler[x],
           \A x \in Real : refs'[x] = IF x = realOf[c] THEN refs[x] - 1 ELSE refs[x],
           \A d \in Conns : realOf'[d] = IF d = c THEN Nobody ELSE realOf[d],
           RealTypes', realOf' \in [Conns -> Real \cup {Nobody}],
           Careful => ~Pending(c) \/ c \in told,
           pending' = pending, free' = free, busy' = busy, aquire' = aquire, net' = net,
           poolid' = poolid, phase' = phase, linked' = linked, closed' = closed, queue' = queue,
           wire' = wire, stmt' = stmt, serial' = serial, told' = told, mixed' = mixed,
           setup' = setup, rollback' = rollback, cleanup' = cleanup
    PROVE  Preserved
<1>1. Typed /\ ConnInv(c) BY DEF Base
<1>2. /\ \A d \in Conns : d # c => conn'[d] = conn[d]
      /\ (\E p \in Pools : c \in ToSet(aquire[p])) => conn'[c] = conn[c]
      /\ ~(\E p \in Pools : c \in ToSet(aquire[p])) => conn'[c] = "gone"
      /\ conn' \in [Conns -> {"none", "live", "gone"}]
  BY <1>1 DEF Typed, ConnTypes
<1>3. Typed' BY <1>1, <1>2 DEF Typed, ListTypes, ConnTypes, ManagerTypes
<1>4. ASSUME NEW x \in Real PROVE RealInv(x)' /\ (Home(x)' <=> Home(x))
  <2>1. RealInv(x) /\ handler[x] \in Conns \cup {Nobody} BY <1>1 DEF Base, Typed, RealTypes
  <2>2. CASE x = realOf[c]
    <3>1. handler[x] = c /\ c # Nobody BY <1>1, <2>2, DbPoolAssumption DEF ConnInv
    <3>2. net[x] = "down" /\ handler'[x] = Nobody /\ refs'[x] = refs[x] - 1 BY <2>2
    <3>3. ~Home(x)' /\ ~Home(x) BY <3>2 DEF Home
    <3>4. Staged(x)' BY <2>1, <3>3 DEF RealInv, Staged
    <3>5. Placed(x)' BY <2>1, <3>2, <3>3 DEF RealInv, Placed
    <3>6. Held(x)' BY <3>2 DEF Held
    <3>7. refs[x] = 0 + 1 + (IF x \in linked THEN 1 ELSE 0) BY <2>1, <3>1, <3>3 DEF RealInv, Counted
    <3>8. Counted(x)' BY <3>2, <3>3, <3>7 DEF Counted
    <3> QED BY <3>3, <3>4, <3>5, <3>6, <3>8 DEF RealInv
  <2>3. CASE x # realOf[c]
    <3>1. handler'[x] = handler[x] /\ refs'[x] = refs[x] BY <2>3
    <3>2. handler[x] # Nobody => realOf'[handler[x]] = realOf[handler[x]]
      BY <2>1, <2>3 DEF RealInv, Held
    <3> QED BY <2>1, <3>1, <3>2, FrameReal
  <2> QED BY <2>2, <2>3
<1>5. ASSUME NEW d \in Conns PROVE ConnInv(d)'
  <2>1. ConnInv(d) BY DEF Base
  <2>2. CASE d = c
    <3>1. realOf'[d] = Nobody /\ d \notin user' BY <2>2
    <3>2. ASSUME NEW p \in Pools, d \in ToSet(aquire'[p]) PROVE conn'[d] = "live"
      BY <2>1, <2>2, <3>2, <1>2 DEF ConnInv
    <3> QED BY <3>1, <3>2 DEF ConnInv
  <2>3. CASE d # c
    <3>1. realOf'[d] = realOf[d] /\ conn'[d] = conn[d] /\ (d \in user' <=> d \in user) BY <1>2, <2>3
    <3>2. realOf[d] # Nobody => handler'[realOf[d]] = handler[realOf[d]]
      <4> SUFFICES ASSUME realOf[d] # Nobody PROVE handler'[realOf[d]] = handler[realOf[d]] OBVIOUS
      <4>1. realOf[d] \in Real /\ handler[realOf[d]] = d BY <1>1, <2>1 DEF Typed, ConnTypes, ConnInv
      <4>2. realOf[d] # realOf[c] BY <1>1, <2>3, <4>1 DEF ConnInv
      <4> QED BY <4>1, <4>2
    <3> QED BY <2>1, <3>1, <3>2, FrameConn
  <2> QED BY <2>2, <2>3
<1>6. WaitOnce' /\ FreeOnce' /\ NoWaitWhileFree' BY FrameLists DEF Base
<1>7. Unopened' BY DEF Base, Unopened
<1>8. Bounded' BY <1>4, FrameBounded DEF Base
<1>9. ASSUME Careful, Own PROVE Own'
  <2>1. ASSUME NEW x \in Real PROVE WireOwn(x)'
    <3>1. WireOwn(x) BY <1>9 DEF Own
    <3>2. Open(x)' <=> Open(x) BY DEF Open
    <3>3. CASE x = realOf[c]
      <4>1. ~Open(x)' BY <3>2, <3>3 DEF Open
      <4> QED BY <4>1 DEF WireOwn
    <3>4. CASE x # realOf[c] BY <3>1, <3>2, <3>4, FrameWire
    <3> QED BY <3>3, <3>4
  <2>2. ASSUME NEW d \in Conns PROVE Settled(d)'
    <3>1. Settled(d) BY <1>9 DEF Own
    <3>2. CASE d = c
      <4>1. d \in told => conn'[d] # "none" /\ realOf'[d] = Nobody /\ \A p \in Pools : d \notin ToSet(aquire'[p])
        BY <1>2, <3>1, <3>2 DEF Settled
      <4>2. ASSUME NEW p \in Pools, d \in ToSet(aquire'[p]) PROVE stmt'[d] # "wait"
        <5>1. d \notin told BY <3>1, <4>2 DEF Settled
        <5> QED BY <1>9, <3>2, <5>1 DEF Pending
      <4> QED BY <4>1, <4>2 DEF Settled
    <3>3. CASE d # c
      <4>1. realOf'[d] = realOf[d] /\ conn'[d] = conn[d] /\ (d \in user' <=> d \in user) BY <1>2, <3>3
      <4> QED BY <3>1, <4>1, FrameSettled
    <3> QED BY <3>2, <3>3
  <2> QED BY <1>9, <2>1, <2>2 DEF Own
<1> QED BY <1>3, <1>4, <1>5, <1>6, <1>7, <1>8, <1>9 DEF Base, Preserved

\* A user lets go of a Connection.
LEMMA ReleaseKeeps ==
    ASSUME Base, NEW c \in Conns, Release(c) PROVE Preserved
<1> DEFINE r == realOf[c]
           waiting == \E p \in Pools : c \in ToSet(aquire[p])
<1>1. /\ c \in user /\ user' = user \ {c} /\ (Careful => ~Pending(c) \/ c \in told)
      /\ net' = net /\ poolid' = poolid /\ phase' = phase /\ linked' = linked /\ closed' = closed
      /\ queue' = queue /\ serial' = serial /\ told' = told /\ mixed' = mixed
      /\ setup' = setup /\ rollback' = rollback /\ cleanup' = cleanup
  BY DEF Release, sock, manager
<1>2. Typed /\ ConnInv(c) /\ r \in Real \cup {Nobody} BY DEF Base, Typed, ConnTypes
<1>3. Nobody \notin Real BY DbPoolAssumption
<1>4. CASE r = Nobody
  <2>1. /\ waiting => conn' = conn
        /\ ~waiting => conn' = [conn EXCEPT ![c] = "gone"]
        /\ pending' = pending /\ free' = free /\ busy' = busy /\ aquire' = aquire
        /\ handler' = handler /\ refs' = refs /\ wire' = wire /\ realOf' = realOf /\ stmt' = stmt
    BY <1>4 DEF Release, lists
  <2>2. /\ \A x \in Real : handler'[x] = IF x = realOf[c] THEN Nobody ELSE handler[x]
        /\ \A x \in Real : refs'[x] = IF x = realOf[c] THEN refs[x] - 1 ELSE refs[x]
        /\ \A d \in Conns : realOf'[d] = IF d = c THEN Nobody ELSE realOf[d]
        /\ realOf[c] \in Real => net[realOf[c]] = "down"
    BY <1>3, <1>4, <2>1
  <2>3. RealTypes' /\ realOf' \in [Conns -> Real \cup {Nobody}]
    BY <1>1, <1>2, <2>1 DEF Typed, RealTypes, ConnTypes
  <2> QED BY <1>1, <2>1, <2>2, <2>3, LetGoKeeps
<1>5. CASE r # Nobody
  <2>1. r \in Real /\ handler[r] = c /\ ~waiting BY <1>2, <1>5 DEF ConnInv
  <2>2. RealInv(r) BY <2>1 DEF Base
  <2>3. handler[r] # Nobody BY <2>1, DbPoolAssumption
  <2>4. net[r] \in {"up", "down"} /\ phase[r] = "ok" BY <2>2, <2>3 DEF RealInv, Held
  <2>5. CASE net[r] = "down"
    <3>1. /\ conn' = [conn EXCEPT ![c] = "gone"] /\ realOf' = [realOf EXCEPT ![c] = Nobody]
          /\ handler' = [handler EXCEPT ![r] = Nobody] /\ refs' = [refs EXCEPT ![r] = @ - 1]
          /\ pending' = pending /\ free' = free /\ busy' = busy /\ aquire' = aquire
          /\ wire' = wire /\ stmt' = stmt
      BY <1>5, <2>1, <2>5 DEF Release, SetDataHandler, lists
    <3>2. refs[r] > 0
      <4>1. ~Home(r) BY <2>5 DEF Home
      <4> QED BY <2>2, <2>3, <4>1 DEF RealInv, Counted
    <3>3. RealTypes'
      BY <1>1, <1>2, <2>1, <3>1, <3>2 DEF Typed, RealTypes
    <3>4. realOf' \in [Conns -> Real \cup {Nobody}] BY <1>2, <3>1 DEF Typed, ConnTypes
    <3>5. /\ \A x \in Real : handler'[x] = IF x = realOf[c] THEN Nobody ELSE handler[x]
          /\ \A x \in Real : refs'[x] = IF x = realOf[c] THEN refs[x] - 1 ELSE refs[x]
      BY <1>2, <3>1 DEF Typed, RealTypes
    <3>6. \A d \in Conns : realOf'[d] = IF d = c THEN Nobody ELSE realOf[d]
      BY <1>2, <3>1 DEF Typed, ConnTypes
    <3>7. /\ waiting => conn' = conn
          /\ ~waiting => conn' = [conn EXCEPT ![c] = "gone"]
      BY <2>1, <3>1
    <3> QED BY <1>1, <2>5, <3>1, <3>3, <3>4, <3>5, <3>6, <3>7, LetGoKeeps
  <2>6. CASE net[r] = "up"
    <3>1. CheckAquireList(poolid[r], r, {c}) /\ pending' = pending
      BY <1>5, <2>1, <2>6 DEF Release
    <3>2. pending' = [pending EXCEPT ![poolid[r]] = @ \ {r}]
      <4> DEFINE p == poolid[r]
      <4>1. p \in Pools BY <2>2, <2>6 DEF RealInv, Staged
      <4>2. r \notin pending[p] BY <2>2, <2>4, <4>1 DEF RealInv, Placed
      <4>3. pending \in [Pools -> SUBSET Real] BY <1>2 DEF Typed, ListTypes
      <4> HIDE DEF p
      <4>4. pending[p] \ {r} = pending[p] BY <4>2
      <4>5. pending' = [pending EXCEPT ![p] = @ \ {r}] BY <3>1, <4>3, <4>4
      <4> QED BY <4>5 DEF p
    <3>3. phase' = [phase EXCEPT ![r] = "ok"]
      BY <1>1, <1>2, <2>4 DEF Typed, RealTypes
    <3> DEFINE Leaving == {c}
    <3>4. /\ handler[r] = Nobody => Leaving = {} /\ phase[r] # "ok"
          /\ handler[r] # Nobody => Leaving = {handler[r]}
          /\ Careful => \A d \in Leaving : ~Pending(d) \/ d \in told
          /\ CheckAquireList(poolid[r], r, Leaving) /\ user' = user \ Leaving
      BY <1>1, <2>1, <2>3, <3>1
    <3> HIDE DEF Leaving, r
    <3> QED BY <1>1, <2>1, <2>6, <3>2, <3>3, <3>4, ServeKeeps
  <2> QED BY <2>4, <2>5, <2>6
<1> QED BY <1>4, <1>5

-----------------------------------------------------------------------------
(* The dispatcher drains a connection. *)

\* Afterwards no list of a pool has r, and nothing else has changed in them.
LEMMA DrainLists ==
    ASSUME Base, NEW r \in Real, Drain(r), NEW q \in Pools
    PROVE  /\ pending'[q] = pending[q] \ {r} /\ busy'[q] = busy[q] \ {r}
           /\ ToSet(free'[q]) = ToSet(free[q]) \ {r} /\ free'[q] \in Seq(Real)
           /\ free[q] = <<>> => free'[q] = <<>>
           /\ \A i, j \in DOMAIN free'[q] : free'[q][i] = free'[q][j] => i = j
           /\ pending' \in [Pools -> SUBSET Real] /\ busy' \in [Pools -> SUBSET Real]
           /\ \E F : free' = [free EXCEPT ![poolid[r]] = F]
<1> DEFINE p == poolid[r]
           s == free[q]
<1>1. Typed /\ RealInv(r) BY DEF Base
<1>2. /\ pending \in [Pools -> SUBSET Real] /\ busy \in [Pools -> SUBSET Real]
      /\ free \in [Pools -> Seq(Real)] /\ s \in Seq(Real)
      /\ \A i, j \in DOMAIN s : s[i] = s[j] => i = j
  BY <1>1 DEF Typed, ListTypes, Base, FreeOnce
<1>3. CASE net[r] = "up" /\ q = p
  <2> DEFINE W == {i \in DOMAIN s : s[i] # r}
  <2>1. /\ pending' = [pending EXCEPT ![p] = @ \ {r}] /\ busy' = [busy EXCEPT ![p] = @ \ {r}]
        /\ free' = [free EXCEPT ![p] = Those(@, {i \in DOMAIN @ : @[i] # r})]
    BY <1>3 DEF Drain
  <2>2. pending'[q] = pending[q] \ {r} /\ busy'[q] = busy[q] \ {r} /\ free'[q] = Those(s, W)
    BY <1>2, <1>3, <2>1
  <2>3. /\ Those(s, W) \in Seq(Real) /\ Len(Those(s, W)) = Cardinality(W)
        /\ ToSet(Those(s, W)) = {s[i] : i \in W}
        /\ \A i, j \in DOMAIN Those(s, W) : Those(s, W)[i] = Those(s, W)[j] => i = j
    <3>1. W \in SUBSET DOMAIN s OBVIOUS
    <3> HIDE DEF s, W
    <3> QED BY <1>2, <3>1, ThoseFacts
  <2>4. {s[i] : i \in W} = ToSet(s) \ {r} BY DEF ToSet
  <2>5. s = <<>> => Those(s, W) = <<>>
    <3> SUFFICES ASSUME s = <<>> PROVE Those(s, W) = <<>> OBVIOUS
    <3>1. W = {} OBVIOUS
    <3>2. Cardinality(W) = 0 BY <3>1, FS_EmptySet
    <3> DEFINE u == Those(s, W)
    <3> HIDE DEF u
    <3>3. u \in Seq(Real) /\ Len(u) = 0 BY <2>3, <3>2 DEF u
    <3>4. u = <<>> BY <3>3
    <3> QED BY <3>4 DEF u
  <2>6. pending' \in [Pools -> SUBSET Real] /\ busy' \in [Pools -> SUBSET Real] BY <1>2, <2>1
  <2> HIDE DEF s, W
  <2>7. /\ ToSet(free'[q]) = ToSet(s) \ {r} /\ free'[q] \in Seq(Real)
        /\ s = <<>> => free'[q] = <<>>
        /\ \A i, j \in DOMAIN free'[q] : free'[q][i] = free'[q][j] => i = j
    BY <2>2, <2>3, <2>4, <2>5
  <2>8. \E F : free' = [free EXCEPT ![poolid[r]] = F] BY <2>1
  <2> QED BY <2>2, <2>6, <2>7, <2>8 DEF s
<1>4. CASE net[r] = "up" /\ q # p
  <2>1. /\ pending' = [pending EXCEPT ![p] = @ \ {r}] /\ busy' = [busy EXCEPT ![p] = @ \ {r}]
        /\ free' = [free EXCEPT ![p] = Those(@, {i \in DOMAIN @ : @[i] # r})]
    BY <1>4 DEF Drain
  <2>2. pending'[q] = pending[q] /\ busy'[q] = busy[q] /\ free'[q] = s BY <1>2, <1>4, <2>1
  <2>3. r \notin pending[q] /\ r \notin busy[q] /\ r \notin ToSet(s) BY <1>1, <1>4 DEF RealInv, Placed
  <2>4. pending' \in [Pools -> SUBSET Real] /\ busy' \in [Pools -> SUBSET Real] BY <1>2, <2>1
  <2>5. \E F : free' = [free EXCEPT ![poolid[r]] = F] BY <2>1
  <2> HIDE DEF s
  <2>6. /\ ToSet(free'[q]) = ToSet(s) \ {r} /\ free'[q] \in Seq(Real)
        /\ s = <<>> => free'[q] = <<>>
        /\ \A i, j \in DOMAIN free'[q] : free'[q][i] = free'[q][j] => i = j
    BY <1>2, <2>2, <2>3
  <2>7. pending'[q] = pending[q] \ {r} /\ busy'[q] = busy[q] \ {r} BY <2>2, <2>3
  <2> QED BY <2>4, <2>5, <2>6, <2>7 DEF s
<1>5. CASE net[r] # "up"
  <2>1. pending' = pending /\ busy' = busy /\ free' = free BY <1>5 DEF Drain, lists
  <2>2. ~Home(r)
    <3>1. r \in closed BY <1>1 DEF Drain, RealInv, Staged
    <3> QED BY <1>5, <3>1 DEF Home
  <2>3. r \notin pending[q] /\ r \notin busy[q] /\ r \notin ToSet(s) BY <1>1, <1>5, <2>2 DEF RealInv, Placed
  <2>4. \E F : free' = [free EXCEPT ![poolid[r]] = F]
    <3>1. free' = [free EXCEPT ![poolid[r]] = free[poolid[r]]] BY <1>2, <2>1
    <3> QED BY <3>1
  <2> HIDE DEF s
  <2>5. /\ ToSet(free'[q]) = ToSet(s) \ {r} /\ free'[q] \in Seq(Real)
        /\ s = <<>> => free'[q] = <<>>
        /\ \A i, j \in DOMAIN free'[q] : free'[q][i] = free'[q][j] => i = j
    BY <1>2, <2>1, <2>3 DEF s
  <2>6. pending'[q] = pending[q] \ {r} /\ busy'[q] = busy[q] \ {r} BY <2>1, <2>3
  <2> QED BY <1>2, <2>1, <2>4, <2>5, <2>6 DEF s
<1> QED BY <1>3, <1>4, <1>5

\* The connection leaves the dispatcher and, if it was up, its pool; the
\* Connection that has it may be told, and go.
LEMMA DrainKeeps ==
    ASSUME Base, NEW r \in Real, Drain(r) PROVE Preserved
<1> DEFINE c == handler[r]
<1>1. /\ r \in queue /\ queue' = queue \ {r} /\ linked' = linked \ {r}
      /\ wire' = [wire EXCEPT ![r] = <<>>] /\ aquire' = aquire /\ poolid' = poolid /\ phase' = phase
      /\ closed' = closed /\ stmt' = stmt /\ serial' = serial /\ mixed' = mixed
      /\ setup' = setup /\ rollback' = rollback /\ cleanup' = cleanup
  BY DEF Drain, lists, manager
<1>2. Typed /\ RealInv(r) /\ c \in Conns \cup {Nobody} BY DEF Base, Typed, RealTypes
<1>3. r \in closed /\ r \in linked /\ net[r] # "none" BY <1>1, <1>2 DEF RealInv, Staged
<1>4. c # Nobody => /\ c \in Conns /\ realOf[c] = r /\ c \in user /\ conn[c] = "live"
                    /\ net[r] \in {"up", "down"}
                    /\ \A p \in Pools : c \notin ToSet(aquire[p])
  <2> SUFFICES ASSUME c # Nobody
               PROVE  /\ c \in Conns /\ realOf[c] = r /\ c \in user /\ conn[c] = "live"
                      /\ net[r] \in {"up", "down"}
                      /\ \A p \in Pools : c \notin ToSet(aquire[p])
    OBVIOUS
  <2>1. c \in Conns /\ realOf[c] = r /\ net[r] \in {"up", "down"} BY <1>2 DEF RealInv, Held
  <2>2. ConnInv(c) /\ r # Nobody BY <2>1, DbPoolAssumption DEF Base
  <2> QED BY <2>1, <2>2 DEF ConnInv
<1>5. \A d \in Conns : realOf[d] = r => d = c
  <2> SUFFICES ASSUME NEW d \in Conns, realOf[d] = r PROVE d = c OBVIOUS
  <2>1. ConnInv(d) /\ r # Nobody BY DbPoolAssumption DEF Base
  <2> QED BY <2>1 DEF ConnInv
<1>6. PICK g \in BOOLEAN :
         /\ g => c # Nobody /\ net[r] = "up"
         /\ handler' = IF g THEN [handler EXCEPT ![r] = Nobody] ELSE handler
         /\ conn' = IF g THEN [conn EXCEPT ![c] = "gone"] ELSE conn
         /\ realOf' = IF g THEN [realOf EXCEPT ![c] = Nobody] ELSE realOf
         /\ user' = IF g THEN user \ {c} ELSE user
         /\ refs' = [refs EXCEPT ![r] = IF net[r] # "up" THEN @ - 1 ELSE IF g THEN @ - 3 ELSE @ - 2]
  <2>1. CASE net[r] # "up"
    <3>1. refs' = [refs EXCEPT ![r] = @ - 1] /\ handler' = handler /\ conn' = conn /\ user' = user /\ realOf' = realOf
      BY <2>1 DEF Drain
    <3> QED BY <2>1, <3>1
  <2>2. CASE net[r] = "up"
    <3>1. \/ /\ refs' = [refs EXCEPT ![r] = @ - 2] /\ handler' = handler /\ conn' = conn /\ user' = user
             /\ realOf' = realOf
          \/ /\ c # Nobody /\ refs' = [refs EXCEPT ![r] = @ - 3] /\ handler' = [handler EXCEPT ![r] = Nobody]
             /\ conn' = [conn EXCEPT ![c] = "gone"] /\ realOf' = [realOf EXCEPT ![c] = Nobody]
             /\ user' = user \ {c}
      BY <2>2 DEF Drain, SetDataHandler, TellsOfClose
    <3> QED BY <2>2, <3>1
  <2> QED BY <2>1, <2>2
<1>7. /\ told' = told \/ (c # Nobody /\ told' = told \cup {c})
      /\ net' = IF net[r] = "up" THEN [net EXCEPT ![r] = "down"] ELSE net
  <2>1. CASE net[r] # "up"
    <3>1. told' = told /\ net' = net BY <2>1 DEF Drain
    <3> QED BY <2>1, <3>1
  <2>2. CASE net[r] = "up"
    <3>1. net' = [net EXCEPT ![r] = "down"] BY <2>2 DEF Drain
    <3>2. told' = IF TellsOfClose(r) THEN told \cup {c} ELSE told BY <2>2 DEF Drain
    <3>3. TellsOfClose(r) => c # Nobody BY DEF TellsOfClose
    <3> QED BY <2>2, <3>1, <3>2, <3>3
  <2> QED BY <2>1, <2>2
<1> HIDE DEF c
<1>8. /\ \A x \in Real : net'[x] = IF x = r /\ net[r] = "up" THEN "down" ELSE net[x]
      /\ net' \in [Real -> {"none", "pending", "up", "down"}]
  BY <1>2, <1>7 DEF Typed, RealTypes
<1>9. /\ \A x \in Real : handler'[x] = IF x = r /\ g THEN Nobody ELSE handler[x]
      /\ handler' \in [Real -> Conns \cup {Nobody}]
  BY <1>2, <1>6 DEF Typed, RealTypes
<1>10. /\ \A d \in Conns : realOf'[d] = IF d = c /\ g THEN Nobody ELSE realOf[d]
       /\ realOf' \in [Conns -> Real \cup {Nobody}]
  BY <1>2, <1>6 DEF Typed, ConnTypes
<1>11. /\ \A d \in Conns : conn'[d] = IF d = c /\ g THEN "gone" ELSE conn[d]
       /\ conn' \in [Conns -> {"none", "live", "gone"}]
  BY <1>2, <1>6 DEF Typed, ConnTypes
<1>12. \A d \in Conns : d # c => (d \in user' <=> d \in user) /\ (d \in told' <=> d \in told)
  BY <1>6, <1>7
<1>13. /\ wire' \in [Real -> Seq(Conns \X Nat)] /\ wire'[r] = <<>>
       /\ \A x \in Real : x # r => wire'[x] = wire[x]
  <2> DEFINE e == <<>>
  <2>1. e \in Seq(Conns \X Nat) OBVIOUS
  <2>2. wire \in [Real -> Seq(Conns \X Nat)] /\ wire' = [wire EXCEPT ![r] = e]
    BY <1>1, <1>2 DEF Typed, RealTypes
  <2> HIDE DEF e
  <2>3. /\ wire' \in [Real -> Seq(Conns \X Nat)] /\ wire'[r] = e
        /\ \A x \in Real : x # r => wire'[x] = wire[x]
    BY <2>1, <2>2
  <2> QED BY <2>3 DEF e
<1>14. /\ refs'[r] = IF c # Nobody /\ ~g THEN 1 ELSE 0
       /\ refs' \in [Real -> Nat] /\ \A x \in Real : x # r => refs'[x] = refs[x]
  <2> DEFINE n == IF net[r] # "up" THEN refs[r] - 1 ELSE IF g THEN refs[r] - 3 ELSE refs[r] - 2
  <2>1. refs[r] = (IF net[r] = "up" THEN 1 ELSE 0) + (IF c # Nobody THEN 1 ELSE 0) + 1
    <3>1. Home(r) <=> net[r] = "up" BY <1>3 DEF Home
    <3> QED BY <1>2, <1>3, <3>1 DEF RealInv, Counted, c
  <2>2. n = IF c # Nobody /\ ~g THEN 1 ELSE 0 BY <1>6, <2>1
  <2>3. refs \in [Real -> Nat] /\ refs' = [refs EXCEPT ![r] = n] BY <1>2, <1>6 DEF Typed, RealTypes
  <2> HIDE DEF n
  <2> QED BY <2>2, <2>3
<1>15. ASSUME NEW q \in Pools
       PROVE  /\ pending'[q] = pending[q] \ {r} /\ busy'[q] = busy[q] \ {r}
              /\ ToSet(free'[q]) = ToSet(free[q]) \ {r} /\ free'[q] \in Seq(Real)
              /\ free[q] = <<>> => free'[q] = <<>>
              /\ \A i, j \in DOMAIN free'[q] : free'[q][i] = free'[q][j] => i = j
  BY DrainLists
<1>16. Typed'
  <2>1. free' \in [Pools -> Seq(Real)]
    <3>1. free \in [Pools -> Seq(Real)] BY <1>2 DEF Typed, ListTypes
    <3>2. NPools \in Nat \ {0} /\ 1 \in Pools BY DbPoolAssumption DEF Pools
    <3>3. PICK F : free' = [free EXCEPT ![poolid[r]] = F] BY <3>2, DrainLists
    <3>4. \A q \in Pools : free'[q] \in Seq(Real) BY <1>15
    <3>5. DOMAIN free' = Pools /\ free' = [q \in Pools |-> free'[q]] BY <3>1, <3>3
    <3> QED BY <3>4, <3>5
  <2>2. pending' \in [Pools -> SUBSET Real] /\ busy' \in [Pools -> SUBSET Real]
    <3>1. 1 \in Pools BY DbPoolAssumption DEF Pools
    <3> QED BY <3>1, DrainLists
  <2>3. ListTypes' BY <1>1, <1>2, <2>1, <2>2 DEF Typed, ListTypes
  <2>4. RealTypes' BY <1>1, <1>2, <1>8, <1>9, <1>13, <1>14 DEF Typed, RealTypes
  <2>5. user' \subseteq Conns /\ told' \subseteq Conns BY <1>2, <1>4, <1>6, <1>7 DEF Typed, ConnTypes, c
  <2>6. ConnTypes' BY <1>1, <1>2, <1>10, <1>11, <2>5 DEF Typed, ConnTypes
  <2> QED BY <1>1, <1>2, <2>3, <2>4, <2>6 DEF Typed, ManagerTypes
<1>17. ASSUME NEW x \in Real PROVE RealInv(x)' /\ (Home(x)' => Home(x))
  <2>1. RealInv(x) /\ handler[x] \in Conns \cup {Nobody} BY <1>2 DEF Base, Typed, RealTypes
  <2>2. CASE x = r
    <3>1. ~Home(x)' /\ net'[x] # "up" BY <1>1, <1>3, <1>8, <2>2 DEF Home
    <3>2. x \notin linked' /\ x \notin queue' BY <1>1, <2>2
    <3>3. Staged(x)' BY <1>1, <1>3, <1>8, <1>13, <2>1, <2>2, <3>1, <3>2 DEF RealInv, Staged
    <3>4. Placed(x)'
      <4> SUFFICES ASSUME NEW q \in Pools
                   PROVE  x \notin pending'[q] /\ x \notin ToSet(free'[q]) /\ x \notin busy'[q]
        BY <3>1 DEF Placed
      <4>1. /\ pending'[q] = pending[q] \ {r} /\ busy'[q] = busy[q] \ {r}
            /\ ToSet(free'[q]) = ToSet(free[q]) \ {r}
        BY <1>15
      <4> QED BY <2>2, <4>1
    <3>5. Held(x)'
      <4> SUFFICES ASSUME handler'[x] # Nobody
                   PROVE  net'[x] \in {"up", "down"} /\ phase'[x] = "ok" /\ realOf'[handler'[x]] = x
        BY DEF Held
      <4>1. ~g /\ handler'[x] = handler[x] BY <1>9, <2>2
      <4>2. net[x] \in {"up", "down"} /\ phase[x] = "ok" /\ realOf[handler[x]] = x
        BY <2>1, <4>1 DEF RealInv, Held
      <4>3. handler[x] \in Conns BY <2>1, <4>1
      <4> QED BY <1>1, <1>8, <1>10, <4>1, <4>2, <4>3
    <3>6. Counted(x)' BY <1>6, <1>9, <1>14, <2>2, <3>1, <3>2 DEF Counted, c
    <3> QED BY <3>1, <3>3, <3>4, <3>5, <3>6 DEF RealInv
  <2>3. CASE x # r
    <3>1. net'[x] = net[x] /\ handler'[x] = handler[x] /\ refs'[x] = refs[x] /\ wire'[x] = wire[x]
      BY <1>8, <1>9, <1>13, <1>14, <2>3
    <3>2. (x \in linked' <=> x \in linked) /\ (x \in queue' <=> x \in queue) BY <1>1, <2>3
    <3>3. ASSUME NEW q \in Pools
          PROVE  /\ x \in pending'[q] <=> x \in pending[q]
                 /\ x \in ToSet(free'[q]) <=> x \in ToSet(free[q])
                 /\ x \in busy'[q] <=> x \in busy[q]
      <4>1. /\ pending'[q] = pending[q] \ {r} /\ busy'[q] = busy[q] \ {r}
            /\ ToSet(free'[q]) = ToSet(free[q]) \ {r}
        BY <1>15
      <4> QED BY <2>3, <4>1
    <3>4. handler[x] # Nobody => realOf'[handler[x]] = realOf[handler[x]]
      BY <1>4, <1>6, <1>10, <2>1, <2>3 DEF RealInv, Held
    <3> QED BY <1>1, <2>1, <3>1, <3>2, <3>3, <3>4, FrameReal
  <2> QED BY <2>2, <2>3
<1>18. ASSUME NEW d \in Conns PROVE ConnInv(d)'
  <2>1. ConnInv(d) BY DEF Base
  <2>2. CASE d = c /\ g
    <3>1. realOf'[d] = Nobody /\ d \notin user' BY <1>6, <1>10, <2>2
    <3>2. \A q \in Pools : d \notin ToSet(aquire'[q]) BY <1>1, <1>4, <1>6, <2>2 DEF c
    <3> QED BY <3>1, <3>2 DEF ConnInv
  <2>3. CASE ~(d = c /\ g)
    <3>1. realOf'[d] = realOf[d] /\ conn'[d] = conn[d] /\ (d \in user' <=> d \in user)
      BY <1>6, <1>10, <1>11, <2>3
    <3>2. realOf[d] # Nobody => handler'[realOf[d]] = handler[realOf[d]]
      <4>1. realOf[d] \in Real \cup {Nobody} BY <1>2 DEF Typed, ConnTypes
      <4>2. ~(realOf[d] = r /\ g) BY <1>5, <2>3 DEF c
      <4> QED BY <1>9, <4>1, <4>2
    <3> QED BY <1>1, <2>1, <3>1, <3>2, FrameConn
  <2> QED BY <2>2, <2>3
<1>19. WaitOnce' BY <1>1 DEF Base, WaitOnce
<1>20. FreeOnce' BY <1>15 DEF FreeOnce
<1>21. NoWaitWhileFree'
  <2> SUFFICES ASSUME NEW q \in Pools PROVE free'[q] = <<>> \/ aquire'[q] = <<>> BY DEF NoWaitWhileFree
  <2>1. free[q] = <<>> \/ aquire[q] = <<>> BY DEF Base, NoWaitWhileFree
  <2> QED BY <1>1, <1>15, <2>1
<1>22. Unopened' BY <1>1, <1>3, <1>8 DEF Base, Unopened
<1>23. Bounded' BY <1>1, <1>17, FrameBounded DEF Base
<1>24. ASSUME Own PROVE Own'
  <2>1. ASSUME NEW x \in Real PROVE WireOwn(x)'
    <3>1. WireOwn(x) BY <1>24 DEF Own
    <3>2. CASE x = r BY <1>13, <3>2 DEF WireOwn
    <3>3. CASE x # r
      <4>1. wire'[x] = wire[x] /\ handler'[x] = handler[x] BY <1>9, <1>13, <3>3
      <4>2. Open(x)' => Open(x) BY <1>1, <1>8, <3>3 DEF Open
      <4> QED BY <1>1, <3>1, <4>1, <4>2, FrameWire
    <3> QED BY <3>2, <3>3
  <2>2. ASSUME NEW d \in Conns PROVE Settled(d)'
    <3>1. Settled(d) BY <1>24 DEF Own
    <3>2. CASE d = c
      <4>1. c # Nobody BY <3>2, DbPoolAssumption
      <4>2. \A q \in Pools : d \notin ToSet(aquire'[q]) BY <1>1, <1>4, <3>2, <4>1 DEF c
      <4>3. net'[r] = "down" /\ realOf[d] = r BY <1>4, <1>8, <3>2, <4>1 DEF c
      <4>4. realOf'[d] = Nobody \/ net'[realOf'[d]] = "down" BY <1>10, <4>3
      <4>5. conn'[d] # "none" BY <1>4, <1>11, <3>2, <4>1 DEF c
      <4> QED BY <4>2, <4>4, <4>5 DEF Settled
    <3>3. CASE d # c
      <4>1. /\ realOf'[d] = realOf[d] /\ conn'[d] = conn[d] /\ (d \in user' <=> d \in user)
            /\ (d \in told' <=> d \in told)
        BY <1>10, <1>11, <1>12, <3>3
      <4>2. realOf[d] # Nobody => net'[realOf[d]] = net[realOf[d]]
        <5>1. realOf[d] \in Real \cup {Nobody} /\ realOf[d] # r BY <1>2, <1>5, <3>3 DEF Typed, ConnTypes, c
        <5> QED BY <1>8, <5>1
      <4> QED BY <1>1, <3>1, <4>1, <4>2, FrameSettled
    <3> QED BY <3>2, <3>3
  <2> QED BY <1>1, <1>24, <2>1, <2>2 DEF Own
<1> QED BY <1>16, <1>17, <1>18, <1>19, <1>20, <1>21, <1>22, <1>23, <1>24 DEF Base, Preserved

-----------------------------------------------------------------------------
(* The manager. *)

\* Cleanup of every pool.
LEMMA CleanupKeeps ==
    ASSUME Base, CleanupPools, setup # "none", setup' = setup, ManagerTypes' PROVE Preserved
<1> DEFINE Waiting == UNION {ToSet(aquire[p]) : p \in Pools}
           Connecting == {r \in UNION {pending[p] : p \in Pools} : net[r] # "up"}
           Closing == ToClose \ closed
<1>1. /\ aquire' = [p \in Pools |-> <<>>]
      /\ conn' = [c \in Conns |-> IF c \in Waiting \ user THEN "gone" ELSE conn[c]]
      /\ closed' = closed \cup Closing /\ queue' = queue \cup Closing
      /\ pending' = [p \in Pools |-> pending[p] \ Connecting]
      /\ refs' = [r \in Real |-> IF r \in Connecting THEN refs[r] - 1 ELSE refs[r]]
      /\ free' = free /\ busy' = busy /\ net' = net /\ poolid' = poolid /\ phase' = phase
      /\ linked' = linked /\ handler' = handler /\ wire' = wire /\ user' = user /\ realOf' = realOf
      /\ stmt' = stmt /\ serial' = serial /\ told' = told /\ mixed' = mixed
  BY DEF CleanupPools, stmts
<1>2. Typed BY DEF Base
<1>3. ASSUME NEW x \in Real
      PROVE  /\ x \in Connecting <=> net[x] = "pending" /\ x \notin closed
             /\ x \in Closing => Home(x) /\ x \notin closed
             /\ x \in Connecting => x \in Closing
  <2>1. Staged(x) /\ Placed(x) BY DEF Base, RealInv
  <2>2. x \in Connecting => net[x] = "pending" /\ x \notin closed /\ x \in Closing
    <3> SUFFICES ASSUME x \in Connecting PROVE net[x] = "pending" /\ x \notin closed /\ x \in Closing OBVIOUS
    <3>1. PICK p \in Pools : x \in pending[p] OBVIOUS
    <3>2. Home(x) BY <2>1, <3>1 DEF Placed
    <3>3. net[x] = "pending" /\ x \notin closed BY <3>2 DEF Home
    <3>4. x \in ToClose BY <3>1 DEF ToClose
    <3> QED BY <3>3, <3>4
  <2>3. ASSUME net[x] = "pending", x \notin closed PROVE x \in Connecting
    <3>1. Home(x) /\ poolid[x] \in Pools /\ phase[x] # "ok" BY <2>1, <2>3 DEF Staged, Home
    <3>2. x \in pending[poolid[x]] BY <2>1, <3>1 DEF Placed
    <3> QED BY <2>3, <3>1, <3>2
  <2>4. x \in Closing => Home(x) /\ x \notin closed
    <3> SUFFICES ASSUME x \in Closing PROVE Home(x) OBVIOUS
    <3>1. PICK p \in Pools : x \in pending[p] \/ x \in ToSet(free[p]) BY DEF ToClose
    <3> QED BY <2>1, <3>1 DEF Placed, Home
  <2> HIDE DEF Connecting, Closing
  <2> QED BY <2>2, <2>3, <2>4
<1>4. Closing \subseteq Real
  <2> SUFFICES ASSUME NEW x \in ToClose PROVE x \in Real OBVIOUS
  <2>1. PICK p \in Pools : x \in pending[p] \/ x \in ToSet(free[p]) BY DEF ToClose
  <2>2. pending[p] \in SUBSET Real /\ free[p] \in Seq(Real) BY <1>2 DEF Typed, ListTypes
  <2>3. ToSet(free[p]) \subseteq Real BY <2>2 DEF ToSet
  <2> QED BY <2>1, <2>2, <2>3
<1>5. \A d \in Waiting : \E p \in Pools : d \in ToSet(aquire[p]) OBVIOUS
<1> HIDE DEF Connecting, Closing, Waiting
<1>6. ASSUME NEW x \in Real PROVE RealInv(x)' /\ (Home(x)' => Home(x)) /\ refs'[x] \in Nat
  <2>1. RealInv(x) /\ refs[x] \in Nat BY <1>2 DEF Base, Typed, RealTypes
  <2>2. refs'[x] = IF x \in Connecting THEN refs[x] - 1 ELSE refs[x] BY <1>1
  <2>3. \A q \in Pools : pending'[q] = pending[q] \ Connecting BY <1>1
  <2>4. CASE x \in Connecting
    <3>1. net[x] = "pending" /\ x \notin closed /\ x \in Closing BY <1>3, <2>4
    <3>2. Home(x) /\ ~Home(x)' BY <1>1, <3>1 DEF Home
    <3>3. handler[x] = Nobody /\ x \in linked BY <2>1, <3>1, <3>2 DEF RealInv, Held, Staged
    <3>4. Staged(x)' BY <1>1, <2>1, <3>1, <3>2, <3>3 DEF RealInv, Staged
    <3>5. Placed(x)'
      <4> SUFFICES ASSUME NEW q \in Pools
                   PROVE  x \notin pending'[q] /\ x \notin ToSet(free'[q]) /\ x \notin busy'[q]
        BY <1>1, <3>1, <3>2 DEF Placed
      <4>1. x \notin ToSet(free[q]) /\ x \notin busy[q] BY <2>1, <3>1 DEF RealInv, Placed
      <4> QED BY <1>1, <2>3, <2>4, <4>1
    <3>6. Held(x)' BY <1>1, <3>3 DEF Held
    <3>7. refs[x] = 2 BY <2>1, <3>2, <3>3 DEF RealInv, Counted
    <3>8. Counted(x)' BY <1>1, <2>2, <2>4, <3>2, <3>3, <3>7 DEF Counted
    <3>9. refs'[x] \in Nat BY <2>2, <2>4, <3>7
    <3> QED BY <3>2, <3>4, <3>5, <3>6, <3>8, <3>9 DEF RealInv
  <2>5. CASE x \notin Connecting
    <3>1. Home(x)' <=> Home(x) BY <1>1, <1>3, <2>5 DEF Home
    <3>2. x \in Closing => x \in linked /\ net[x] # "none"
      BY <1>3, <2>1 DEF RealInv, Staged, Home
    <3>3. Staged(x)' BY <1>1, <2>1, <3>1, <3>2 DEF RealInv, Staged
    <3>4. \A q \in Pools : x \in pending'[q] <=> x \in pending[q] BY <2>3, <2>5
    <3>5. Placed(x)' BY <1>1, <2>1, <3>1, <3>4 DEF RealInv, Placed
    <3>6. Held(x)' BY <1>1, <2>1 DEF RealInv, Held
    <3>7. Counted(x)' BY <1>1, <2>1, <2>2, <2>5, <3>1 DEF RealInv, Counted
    <3>8. refs'[x] \in Nat BY <2>1, <2>2, <2>5
    <3> QED BY <3>1, <3>3, <3>5, <3>6, <3>7, <3>8 DEF RealInv
  <2> QED BY <2>4, <2>5
<1>7. \A p \in Pools : aquire'[p] = <<>> /\ ToSet(aquire'[p]) = {} /\ DOMAIN aquire'[p] = {}
  BY <1>1 DEF ToSet
<1>8. Typed'
  <2>1. aquire' \in [Pools -> Seq(Conns)]
    <3>1. <<>> \in Seq(Conns) OBVIOUS
    <3> QED BY <1>1, <3>1
  <2>2. pending' \in [Pools -> SUBSET Real] BY <1>1, <1>2 DEF Typed, ListTypes
  <2>3. ListTypes' BY <1>1, <1>2, <2>1, <2>2 DEF Typed, ListTypes
  <2>4. refs' \in [Real -> Nat]
    <3>1. refs' = [x \in Real |-> refs'[x]] BY <1>1
    <3> QED BY <1>6, <3>1
  <2>5. RealTypes' BY <1>1, <1>2, <1>4, <2>4 DEF Typed, RealTypes
  <2>6. ConnTypes' BY <1>1, <1>2 DEF Typed, ConnTypes
  <2> QED BY <2>3, <2>5, <2>6 DEF Typed
<1>9. ASSUME NEW d \in Conns PROVE ConnInv(d)'
  <2>1. ConnInv(d) BY DEF Base
  <2>2. d \in user => conn'[d] = conn[d] BY <1>1
  <2> QED BY <1>1, <1>7, <2>1, <2>2 DEF ConnInv
<1>10. WaitOnce' /\ FreeOnce' /\ NoWaitWhileFree'
  <2>1. WaitOnce' BY <1>7 DEF WaitOnce
  <2>2. FreeOnce' BY <1>1 DEF Base, FreeOnce
  <2>3. NoWaitWhileFree' BY <1>7 DEF NoWaitWhileFree
  <2> QED BY <2>1, <2>2, <2>3
<1>11. Unopened' BY DEF Unopened
<1>12. Bounded' BY <1>1, <1>6, FrameBounded DEF Base
<1>13. ASSUME Own PROVE Own'
  <2>1. ASSUME NEW x \in Real PROVE WireOwn(x)'
    <3>1. WireOwn(x) BY <1>13 DEF Own
    <3>2. Open(x)' => Open(x) BY <1>1 DEF Open
    <3> QED BY <1>1, <3>1, <3>2, FrameWire
  <2>2. ASSUME NEW d \in Conns PROVE Settled(d)'
    <3>1. Settled(d) BY <1>13 DEF Own
    <3>2. conn'[d] # "none" \/ conn'[d] = conn[d] BY <1>1
    <3> QED BY <1>1, <1>7, <3>1, <3>2, FrameSettled
  <2> QED BY <1>1, <1>13, <2>1, <2>2 DEF Own
<1> QED BY <1>6, <1>8, <1>9, <1>10, <1>11, <1>12, <1>13 DEF Base, Preserved

\* Nothing changes but what the manager notes.
LEMMA ManagerStep ==
    ASSUME Base, UNCHANGED <<lists, sock, handler, refs, wire, conn, user, realOf, stmts>>,
           ManagerTypes', setup' # "none" \/ setup' = setup
    PROVE  Preserved
<1>1. /\ pending' = pending /\ free' = free /\ busy' = busy /\ aquire' = aquire /\ net' = net
      /\ poolid' = poolid /\ phase' = phase /\ linked' = linked /\ closed' = closed /\ queue' = queue
      /\ handler' = handler /\ refs' = refs /\ wire' = wire /\ conn' = conn /\ user' = user
      /\ realOf' = realOf /\ stmt' = stmt /\ serial' = serial /\ told' = told /\ mixed' = mixed
  BY DEF lists, sock, stmts
<1>2. Typed' BY <1>1 DEF Base, Typed, ListTypes, RealTypes, ConnTypes
<1>3. ASSUME NEW x \in Real PROVE RealInv(x)' /\ (Home(x)' <=> Home(x))
  <2>1. RealInv(x) BY DEF Base
  <2> QED BY <1>1, <2>1, FrameReal
<1>4. \A c \in Conns : ConnInv(c)' BY <1>1, StillConns
<1>5. WaitOnce' /\ FreeOnce' /\ NoWaitWhileFree' BY <1>1, FrameLists DEF Base
<1>6. Unopened' BY <1>1 DEF Base, Unopened
<1>7. Bounded' BY <1>1, <1>3, FrameBounded DEF Base
<1>8. Own => Own' BY <1>1, StillOwn
<1> QED BY <1>2, <1>3, <1>4, <1>5, <1>6, <1>7, <1>8 DEF Base, Preserved

-----------------------------------------------------------------------------
(* New connections. *)

\* A RealConnection that does not exist yet.
LEMMA UnusedFacts ==
    ASSUME Base, NEW x \in Real, net[x] = "none"
    PROVE  /\ ~Home(x) /\ handler[x] = Nobody /\ phase[x] = "init" /\ wire[x] = <<>> /\ refs[x] = 0
           /\ x \notin linked /\ x \notin closed /\ x \notin queue
           /\ \A q \in Pools : x \notin pending[q] /\ x \notin ToSet(free[q]) /\ x \notin busy[q]
<1>1. RealInv(x) BY DEF Base
<1>2. ~Home(x) BY DEF Home
<1>3. handler[x] = Nobody BY <1>1 DEF RealInv, Held
<1>4. x \notin linked /\ x \notin closed /\ x \notin queue /\ phase[x] = "init" /\ wire[x] = <<>>
  BY <1>1 DEF RealInv, Staged
<1>5. refs[x] = 0 BY <1>1, <1>2, <1>3, <1>4 DEF RealInv, Counted
<1>6. \A q \in Pools : x \notin pending[q] /\ x \notin ToSet(free[q]) /\ x \notin busy[q]
  BY <1>1, <1>2 DEF RealInv, Placed
<1> QED BY <1>2, <1>3, <1>4, <1>5, <1>6

\* What CreateNewConnection does to one that is new and to one that is not.
Opened(x, F, Failed) ==
    /\ x \in Real /\ net[x] = "none" /\ poolid'[x] = F[x] /\ x \in linked'
    /\ x \in Failed => net'[x] = "down" /\ x \in closed'
    /\ x \notin Failed => net'[x] = "pending" /\ x \notin closed' /\ x \notin queue'
    /\ \A q \in Pools : x \in pending'[q] <=> x \notin Failed /\ F[x] = q

Untouched(x) ==
    /\ net'[x] = net[x] /\ poolid'[x] = poolid[x]
    /\ x \in linked' <=> x \in linked
    /\ x \in closed' <=> x \in closed
    /\ x \in queue' <=> x \in queue
    /\ \A q \in Pools : x \in pending'[q] <=> x \in pending[q]

\* What CreateNewConnection does.
LEMMA CreateNewFacts ==
    ASSUME Base, NEW New \in SUBSET Unused, NEW F \in [New -> Pools], NEW Failed \in SUBSET New,
           CreateNewConnection(F, Failed)
    PROVE  /\ \A x \in New : Opened(x, F, Failed)
           /\ \A x \in Real \ New : Untouched(x)
           /\ net' \in [Real -> {"none", "pending", "up", "down"}] /\ poolid' \in [Real -> 0..NPools]
           /\ linked' \subseteq Real /\ closed' \subseteq Real /\ queue' \subseteq Real
           /\ pending' \in [Pools -> SUBSET Real]
<1>1. /\ net' = [r \in Real |-> IF r \in New \ Failed THEN "pending"
                                ELSE IF r \in Failed THEN "down" ELSE net[r]]
      /\ poolid' = [r \in Real |-> IF r \in New THEN F[r] ELSE poolid[r]]
      /\ linked' = linked \cup New /\ closed' = closed \cup Failed /\ queue' = queue \cup Failed
      /\ pending' = [p \in Pools |-> pending[p] \cup {r \in New \ Failed : F[r] = p}]
  BY DEF CreateNewConnection
<1>2. Typed /\ New \subseteq Real /\ \A x \in New : net[x] = "none" BY DEF Base, Unused
<1>3. ASSUME NEW x \in New PROVE Opened(x, F, Failed)
  <2>1. x \in Real /\ net[x] = "none" BY <1>2
  <2>2. /\ x \notin closed /\ x \notin queue /\ \A q \in Pools : x \notin pending[q] BY <2>1, UnusedFacts
  <2>3. poolid'[x] = F[x] /\ x \in linked' BY <1>1, <2>1
  <2>4. x \in Failed => net'[x] = "down" /\ x \in closed' BY <1>1, <2>1
  <2>5. x \notin Failed => net'[x] = "pending" /\ x \notin closed' /\ x \notin queue' BY <1>1, <2>1, <2>2
  <2>6. \A q \in Pools : x \in pending'[q] <=> x \notin Failed /\ F[x] = q BY <1>1, <2>2
  <2> QED BY <2>1, <2>3, <2>4, <2>5, <2>6 DEF Opened
<1>4. ASSUME NEW x \in Real \ New PROVE Untouched(x) BY <1>1 DEF Untouched
<1>5. net' \in [Real -> {"none", "pending", "up", "down"}] BY <1>1, <1>2 DEF Typed, RealTypes
<1>6. poolid' \in [Real -> 0..NPools]
  <2>1. \A x \in New : F[x] \in 0..NPools
    <3>1. Pools \subseteq 0..NPools BY DbPoolAssumption DEF Pools
    <3> QED BY <3>1
  <2> QED BY <1>1, <1>2, <2>1 DEF Typed, RealTypes
<1>7. linked' \subseteq Real /\ closed' \subseteq Real /\ queue' \subseteq Real BY <1>1, <1>2 DEF Typed, RealTypes
<1>8. pending' \in [Pools -> SUBSET Real] BY <1>1, <1>2 DEF Typed, ListTypes
<1> QED BY <1>3, <1>4, <1>5, <1>6, <1>7, <1>8

\* A new RealConnection.
LEMMA NewReal ==
    ASSUME Base, NEW New \in SUBSET Unused, NEW F \in [New -> Pools], NEW Failed \in SUBSET New,
           CreateNewConnection(F, Failed), NEW x \in New,
           phase' = phase, wire' = wire, handler'[x] = handler[x],
           refs'[x] = IF x \in Failed THEN 1 ELSE 2,
           \A q \in Pools : /\ x \in ToSet(free'[q]) <=> x \in ToSet(free[q])
                            /\ x \in busy'[q] <=> x \in busy[q]
    PROVE  RealInv(x)' /\ (Home(x)' <=> x \notin Failed) /\ net'[x] # "up"
<1>1. Opened(x, F, Failed)
  <2>1. \A y \in New : Opened(y, F, Failed) BY CreateNewFacts
  <2> QED BY <2>1
<1> USE DEF Opened
<1>2. /\ handler[x] = Nobody /\ phase[x] = "init" /\ wire[x] = <<>>
      /\ \A q \in Pools : x \notin ToSet(free[q]) /\ x \notin busy[q]
  BY <1>1, UnusedFacts
<1>3. Home(x)' <=> x \notin Failed BY <1>1 DEF Home
<1>4. net'[x] # "up" BY <1>1
<1>5. Staged(x)' BY <1>1, <1>2, <1>3 DEF Staged
<1>6. Placed(x)'
  <2> SUFFICES ASSUME NEW q \in Pools
               PROVE  /\ x \in pending'[q] <=> Home(x)' /\ q = poolid'[x]
                      /\ x \notin ToSet(free'[q]) /\ x \notin busy'[q]
    BY <1>2, <1>4 DEF Placed
  <2> QED BY <1>1, <1>2, <1>3
<1>7. Held(x)' BY <1>2 DEF Held
<1>8. Counted(x)' BY <1>1, <1>2, <1>3 DEF Counted
<1> QED BY <1>3, <1>4, <1>5, <1>6, <1>7, <1>8 DEF RealInv

\* The pools are filled for the first time.
LEMMA BeginSetupKeeps ==
    ASSUME Base, BeginSetup PROVE Preserved
<1>1. /\ setup = "none" /\ setup' = "running" /\ free' = free /\ busy' = busy /\ aquire' = aquire
      /\ phase' = phase /\ handler' = handler /\ wire' = wire /\ conn' = conn /\ user' = user
      /\ realOf' = realOf /\ stmt' = stmt /\ serial' = serial /\ told' = told /\ mixed' = mixed
      /\ rollback' = rollback /\ cleanup' = cleanup
  BY DEF BeginSetup, stmts
<1>2. PICK F \in UNION {[N -> Pools] : N \in SUBSET Unused} :
         /\ \A p \in Pools : Cardinality({r \in DOMAIN F : F[r] = p}) = PoolSize
         /\ \E Failed \in SUBSET DOMAIN F :
              /\ CreateNewConnection(F, Failed)
              /\ refs' = [r \in Real |-> IF r \in Failed THEN 1
                                         ELSE IF r \in DOMAIN F THEN 2 ELSE refs[r]]
  BY DEF BeginSetup
<1>3. PICK New \in SUBSET Unused : F \in [New -> Pools] OBVIOUS
<1>4. DOMAIN F = New BY <1>3
<1>5. PICK Failed \in SUBSET New :
        /\ CreateNewConnection(F, Failed)
        /\ refs' = [r \in Real |-> IF r \in Failed THEN 1 ELSE IF r \in New THEN 2 ELSE refs[r]]
  BY <1>2, <1>4
<1>6. Typed BY DEF Base
<1>7. /\ \A x \in New : Opened(x, F, Failed)
      /\ \A x \in Real \ New : Untouched(x)
      /\ net' \in [Real -> {"none", "pending", "up", "down"}] /\ poolid' \in [Real -> 0..NPools]
      /\ linked' \subseteq Real /\ closed' \subseteq Real /\ queue' \subseteq Real
      /\ pending' \in [Pools -> SUBSET Real]
  BY <1>3, <1>5, CreateNewFacts
<1> USE DEF Opened, Untouched
<1>8. \A x \in Real : refs'[x] = IF x \in Failed THEN 1 ELSE IF x \in New THEN 2 ELSE refs[x] BY <1>5
<1>9. ASSUME NEW x \in New PROVE RealInv(x)' /\ (Home(x)' <=> x \notin Failed) /\ net'[x] # "up"
  <2>1. refs'[x] = IF x \in Failed THEN 1 ELSE 2 BY <1>7, <1>8
  <2> QED BY <1>1, <1>3, <1>5, <2>1, NewReal
<1>10. ASSUME NEW x \in Real \ New PROVE RealInv(x)' /\ (Home(x)' <=> Home(x))
  <2>1. RealInv(x) BY DEF Base
  <2>2. refs'[x] = refs[x] BY <1>5, <1>8
  <2> QED BY <1>1, <1>7, <2>1, <2>2, FrameReal
<1>11. Typed'
  <2>1. refs' \in [Real -> Nat] BY <1>5, <1>6 DEF Typed, RealTypes
  <2>2. RealTypes' BY <1>1, <1>6, <1>7, <2>1 DEF Typed, RealTypes
  <2>3. ListTypes' BY <1>1, <1>6, <1>7 DEF Typed, ListTypes
  <2>4. ConnTypes' BY <1>1, <1>6 DEF Typed, ConnTypes
  <2>5. ManagerTypes' BY <1>1, <1>6 DEF Typed, ManagerTypes
  <2> QED BY <2>2, <2>3, <2>4, <2>5 DEF Typed
<1>12. \A c \in Conns : ConnInv(c)' BY <1>1, StillConns
<1>13. WaitOnce' /\ FreeOnce' /\ NoWaitWhileFree' BY <1>1, FrameLists DEF Base
<1>14. Unopened' BY <1>1 DEF Unopened
<1>15. ASSUME NEW p \in Pools PROVE Cardinality(Members(p)') <= PoolSize
  <2> DEFINE N == {r \in DOMAIN F : F[r] = p}
  <2>1. Members(p)' \subseteq N
    <3> SUFFICES ASSUME NEW x \in Real, Home(x)', poolid'[x] = p PROVE x \in N BY DEF Members
    <3>1. CASE x \in New BY <1>4, <1>7, <3>1
    <3>2. CASE x \notin New
      <4>1. Home(x) BY <1>10, <3>2
      <4>2. net[x] = "none" BY <1>1 DEF Base, Unopened
      <4> QED BY <4>1, <4>2 DEF Home
    <3> QED BY <3>1, <3>2
  <2>2. IsFiniteSet(N) /\ Cardinality(N) = PoolSize
    <3>1. N \subseteq Real BY <1>4, <1>7
    <3>2. IsFiniteSet(N) BY <3>1, DbPoolAssumption, FS_Subset
    <3> QED BY <1>2, <3>2
  <2> HIDE DEF N
  <2>3. Cardinality(Members(p)') <= Cardinality(N) BY <2>1, <2>2, FS_Subset
  <2> QED BY <2>2, <2>3
<1>16. Bounded' BY <1>15 DEF Bounded
<1>17. ASSUME Own PROVE Own'
  <2>1. ASSUME NEW x \in Real PROVE WireOwn(x)'
    <3>1. WireOwn(x) BY <1>17 DEF Own
    <3>2. Open(x)' => Open(x) BY <1>7, <1>9 DEF Open
    <3> QED BY <1>1, <3>1, <3>2, FrameWire
  <2>2. ASSUME NEW c \in Conns PROVE Settled(c)'
    <3>1. Settled(c) /\ realOf[c] \in Real \cup {Nobody} BY <1>6, <1>17 DEF Own, Typed, ConnTypes
    <3>2. realOf[c] \notin New
      <4> SUFFICES ASSUME realOf[c] \in New PROVE FALSE OBVIOUS
      <4>1. handler[realOf[c]] = Nobody /\ realOf[c] \in Real BY <1>7, UnusedFacts
      <4> QED BY <4>1, NobodyHas
    <3>3. realOf[c] # Nobody => net'[realOf[c]] = net[realOf[c]] BY <1>7, <3>1, <3>2
    <3> QED BY <1>1, <3>1, <3>3, FrameSettled
  <2> QED BY <1>1, <1>17, <2>1, <2>2 DEF Own
<1>18. \A x \in Real : RealInv(x)' BY <1>9, <1>10
<1> QED BY <1>11, <1>12, <1>13, <1>14, <1>16, <1>17, <1>18 DEF Base, Preserved

\* What a sequence without repetitions has behind its head.
LEMMA TailFacts ==
    ASSUME NEW S, NEW s \in Seq(S), s # <<>>, \A i, j \in DOMAIN s : s[i] = s[j] => i = j
    PROVE  /\ Head(s) \in S /\ Head(s) \in ToSet(s)
           /\ Tail(s) \in Seq(S) /\ ToSet(Tail(s)) = ToSet(s) \ {Head(s)}
           /\ \A i, j \in DOMAIN Tail(s) : Tail(s)[i] = Tail(s)[j] => i = j
<1> DEFINE u == Tail(s)
           n == Len(s)
           h == Head(s)
<1>1. n \in Nat /\ n > 0 /\ DOMAIN s = 1..n /\ h = s[1] /\ \A i \in 1..n : s[i] \in S OBVIOUS
<1>2. u \in Seq(S) /\ DOMAIN u = 1..(n - 1) /\ \A i \in 1..(n - 1) : u[i] = s[i + 1] BY <1>1
<1> HIDE DEF u, n, h
<1>3. 1 \in DOMAIN s /\ \A i \in DOMAIN u : i + 1 \in DOMAIN s /\ i + 1 # 1 BY <1>1, <1>2
<1>4. h \in S /\ h \in ToSet(s) BY <1>1, <1>3 DEF ToSet
<1>5. ToSet(u) \subseteq ToSet(s) \ {h}
  <2> SUFFICES ASSUME NEW i \in DOMAIN u PROVE u[i] \in ToSet(s) /\ u[i] # h BY DEF ToSet
  <2>1. u[i] = s[i + 1] BY <1>2
  <2>2. i + 1 \in DOMAIN s /\ i + 1 # 1 /\ 1 \in DOMAIN s BY <1>3
  <2>3. s[i + 1] # s[1] BY <2>2
  <2>4. s[i + 1] \in ToSet(s) BY <2>2 DEF ToSet
  <2> QED BY <1>1, <2>1, <2>3, <2>4
<1>6. ToSet(s) \ {h} \subseteq ToSet(u)
  <2> SUFFICES ASSUME NEW i \in DOMAIN s, s[i] # h PROVE s[i] \in ToSet(u) BY DEF ToSet
  <2>1. i # 1 BY <1>1
  <2>2. i - 1 \in DOMAIN u /\ (i - 1) + 1 = i BY <1>1, <1>2, <2>1
  <2>3. u[i - 1] = s[i] BY <1>2, <2>2
  <2> QED BY <2>2, <2>3 DEF ToSet
<1>7. ASSUME NEW i \in DOMAIN u, NEW j \in DOMAIN u, u[i] = u[j] PROVE i = j
  <2>1. s[i + 1] = s[j + 1] /\ i + 1 \in DOMAIN s /\ j + 1 \in DOMAIN s BY <1>2, <1>3, <1>7
  <2>2. i + 1 = j + 1 BY <2>1
  <2>3. i \in Int /\ j \in Int BY <1>1, <1>2
  <2> QED BY <2>2, <2>3
<1> QED BY <1>2, <1>4, <1>5, <1>6, <1>7 DEF u, h

\* The lists of a pool hold its members.
LEMMA InPoolMembers ==
    ASSUME Base, NEW p \in Pools PROVE InPool(p) = Members(p)
<1>1. pending[p] \subseteq Real /\ busy[p] \subseteq Real /\ free[p] \in Seq(Real)
  BY DEF Base, Typed, ListTypes
<1>2. ToSet(free[p]) \subseteq Real BY <1>1 DEF ToSet
<1>3. ASSUME NEW x \in Real PROVE x \in InPool(p) <=> Home(x) /\ poolid[x] = p
  <2>1. Placed(x) /\ Staged(x) BY DEF Base, RealInv
  <2>2. /\ x \in pending[p] <=> Home(x) /\ phase[x] # "ok" /\ p = poolid[x]
        /\ x \in ToSet(free[p]) <=> net[x] = "up" /\ phase[x] = "ok" /\ handler[x] = Nobody /\ p = poolid[x]
        /\ x \in busy[p] <=> net[x] = "up" /\ phase[x] = "ok" /\ handler[x] # Nobody /\ p = poolid[x]
    BY <2>1 DEF Placed
  <2>3. net[x] = "up" => Home(x) BY DEF Home
  <2>4. Home(x) /\ phase[x] = "ok" => net[x] = "up" BY <2>1 DEF Staged, Home
  <2> QED BY <2>2, <2>3, <2>4 DEF InPool
<1> QED BY <1>1, <1>2, <1>3 DEF InPool, Members

\* A user gets a Connection: it takes a free RealConnection or waits, and the
\* pool is filled up.
LEMMA CreateKeeps ==
    ASSUME Base, NEW c \in Conns, NEW p \in Pools, Create(c, p) PROVE Preserved
<1> DEFINE serve == free[p] # <<>>
           r == Head(free[p])
           missing == Missing(p)
<1>1. /\ setup = "ok" /\ conn[c] = "none" /\ conn' = [conn EXCEPT ![c] = "live"] /\ user' = user \cup {c}
      /\ free' = [free EXCEPT ![p] = IF serve THEN Tail(@) ELSE @]
      /\ busy' = [busy EXCEPT ![p] = IF serve THEN @ \cup {r} ELSE @]
      /\ aquire' = [aquire EXCEPT ![p] = IF serve THEN @ ELSE Append(@, c)]
      /\ handler' = IF serve THEN [handler EXCEPT ![r] = c] ELSE handler
      /\ realOf' = IF serve THEN [realOf EXCEPT ![c] = r] ELSE realOf
      /\ phase' = phase /\ wire' = wire /\ stmt' = stmt /\ serial' = serial /\ told' = told
      /\ mixed' = mixed /\ setup' = setup /\ rollback' = rollback /\ cleanup' = cleanup
  BY DEF Create, stmts, manager
<1>2. PICK New \in SUBSET Unused :
        /\ Cardinality(New) <= missing
        /\ \E Failed \in SUBSET New :
             /\ CreateNewConnection([x \in New |-> p], Failed)
             /\ refs' = [x \in Real |->
                            IF x \in Failed THEN 1
                            ELSE IF x \in New THEN 2
                            ELSE IF serve /\ x = r THEN refs[x] + 1 ELSE refs[x]]
  BY DEF Create
<1> DEFINE F == [x \in New |-> p]
<1>3. PICK Failed \in SUBSET New :
        /\ CreateNewConnection(F, Failed)
        /\ refs' = [x \in Real |->
                       IF x \in Failed THEN 1
                       ELSE IF x \in New THEN 2
                       ELSE IF serve /\ x = r THEN refs[x] + 1 ELSE refs[x]]
  BY <1>2
<1>4. F \in [New -> Pools] /\ \A x \in New : F[x] = p OBVIOUS
<1> HIDE DEF F, missing
<1>5. Typed BY DEF Base
<1>6. /\ \A x \in New : Opened(x, F, Failed)
      /\ \A x \in Real \ New : Untouched(x)
      /\ net' \in [Real -> {"none", "pending", "up", "down"}] /\ poolid' \in [Real -> 0..NPools]
      /\ linked' \subseteq Real /\ closed' \subseteq Real /\ queue' \subseteq Real
      /\ pending' \in [Pools -> SUBSET Real]
  BY <1>3, <1>4, CreateNewFacts
<1>7. serve => /\ r \in Real /\ r \in ToSet(free[p]) /\ Tail(free[p]) \in Seq(Real)
               /\ ToSet(Tail(free[p])) = ToSet(free[p]) \ {r}
               /\ \A i, j \in DOMAIN Tail(free[p]) : Tail(free[p])[i] = Tail(free[p])[j] => i = j
  <2> DEFINE s == free[p]
  <2>1. s \in Seq(Real) /\ \A i, j \in DOMAIN s : s[i] = s[j] => i = j
    BY <1>5 DEF Typed, ListTypes, Base, FreeOnce
  <2> HIDE DEF s
  <2>2. s # <<>> => /\ Head(s) \in Real /\ Head(s) \in ToSet(s) /\ Tail(s) \in Seq(Real)
                    /\ ToSet(Tail(s)) = ToSet(s) \ {Head(s)}
                    /\ \A i, j \in DOMAIN Tail(s) : Tail(s)[i] = Tail(s)[j] => i = j
    BY <2>1, TailFacts
  <2> QED BY <2>2 DEF s
<1>8. serve => aquire[p] = <<>> BY DEF Base, NoWaitWhileFree
<1> HIDE DEF r
<1>9. serve => /\ net[r] = "up" /\ phase[r] = "ok" /\ handler[r] = Nobody /\ poolid[r] = p /\ r \notin New
               /\ Home(r) /\ RealInv(r)
  <2> SUFFICES ASSUME serve
               PROVE  /\ net[r] = "up" /\ phase[r] = "ok" /\ handler[r] = Nobody /\ poolid[r] = p
                      /\ r \notin New /\ Home(r) /\ RealInv(r)
    OBVIOUS
  <2>1. RealInv(r) BY <1>7 DEF Base
  <2>2. net[r] = "up" /\ phase[r] = "ok" /\ handler[r] = Nobody /\ poolid[r] = p
    BY <1>7, <2>1 DEF RealInv, Placed
  <2>3. r \notin New BY <1>6, <2>2 DEF Opened
  <2> QED BY <2>1, <2>2, <2>3 DEF Home
<1>10. c \notin user /\ realOf[c] = Nobody /\ \A q \in Pools : c \notin ToSet(aquire[q])
  <2>1. ConnInv(c) BY DEF Base
  <2> QED BY <1>1, <2>1 DEF ConnInv
<1>11. /\ \A x \in Real : handler'[x] = IF serve /\ x = r THEN c ELSE handler[x]
       /\ handler' \in [Real -> Conns \cup {Nobody}]
  BY <1>1, <1>5, <1>7 DEF Typed, RealTypes
<1>12. /\ \A d \in Conns : realOf'[d] = IF serve /\ d = c THEN r ELSE realOf[d]
       /\ realOf' \in [Conns -> Real \cup {Nobody}]
  BY <1>1, <1>5, <1>7 DEF Typed, ConnTypes
<1>13. /\ \A d \in Conns : conn'[d] = IF d = c THEN "live" ELSE conn[d]
       /\ conn' \in [Conns -> {"none", "live", "gone"}]
  BY <1>1, <1>5 DEF Typed, ConnTypes
<1>14. /\ \A x \in Real : refs'[x] = IF x \in Failed THEN 1
                                     ELSE IF x \in New THEN 2
                                     ELSE IF serve /\ x = r THEN refs[x] + 1 ELSE refs[x]
       /\ refs' \in [Real -> Nat]
  BY <1>3, <1>5 DEF Typed, RealTypes
<1>15. /\ free' \in [Pools -> Seq(Real)] /\ busy' \in [Pools -> SUBSET Real]
       /\ \A q \in Pools : free'[q] = IF serve /\ q = p THEN Tail(free[p]) ELSE free[q]
       /\ \A q \in Pools : busy'[q] = IF serve /\ q = p THEN busy[q] \cup {r} ELSE busy[q]
  <2> DEFINE u == Tail(free[p])
  <2>1. /\ free \in [Pools -> Seq(Real)] /\ busy \in [Pools -> SUBSET Real] /\ (serve => u \in Seq(Real))
        /\ free' = [free EXCEPT ![p] = IF serve THEN u ELSE @]
    BY <1>1, <1>5, <1>7 DEF Typed, ListTypes
  <2> HIDE DEF u
  <2>2. /\ free' \in [Pools -> Seq(Real)]
        /\ \A q \in Pools : free'[q] = IF serve /\ q = p THEN u ELSE free[q]
    BY <2>1
  <2>3. /\ busy' \in [Pools -> SUBSET Real]
        /\ \A q \in Pools : busy'[q] = IF serve /\ q = p THEN busy[q] \cup {r} ELSE busy[q]
    BY <1>1, <1>7, <2>1
  <2> QED BY <2>2, <2>3 DEF u
<1>16. /\ aquire' \in [Pools -> Seq(Conns)]
       /\ \A q \in Pools : aquire'[q] = IF ~serve /\ q = p THEN Append(aquire[p], c) ELSE aquire[q]
       /\ ToSet(Append(aquire[p], c)) = ToSet(aquire[p]) \cup {c}
       /\ \A i, j \in DOMAIN Append(aquire[p], c) : Append(aquire[p], c)[i] = Append(aquire[p], c)[j] => i = j
  <2> DEFINE s == aquire[p]
             u == Append(s, c)
  <2>1. /\ aquire \in [Pools -> Seq(Conns)] /\ s \in Seq(Conns) /\ c \notin ToSet(s)
        /\ \A i, j \in DOMAIN s : s[i] = s[j] => i = j
    BY <1>5, <1>10 DEF Typed, ListTypes, Base, WaitOnce
  <2>2. aquire' = [aquire EXCEPT ![p] = IF serve THEN @ ELSE u] BY <1>1
  <2> HIDE DEF s
  <2>3. /\ u \in Seq(Conns) /\ ToSet(u) = ToSet(s) \cup {c}
        /\ \A i, j \in DOMAIN u : u[i] = u[j] => i = j
    BY <2>1, AppendFacts
  <2> HIDE DEF u
  <2>4. /\ aquire' \in [Pools -> Seq(Conns)]
        /\ \A q \in Pools : aquire'[q] = IF ~serve /\ q = p THEN u ELSE aquire[q]
    BY <2>1, <2>2, <2>3
  <2> QED BY <2>3, <2>4 DEF u, s
<1>17. Typed'
  <2>1. ListTypes' BY <1>6, <1>15, <1>16 DEF ListTypes
  <2>2. RealTypes' BY <1>1, <1>5, <1>6, <1>11, <1>14 DEF Typed, RealTypes
  <2>3. ConnTypes' BY <1>1, <1>5, <1>12, <1>13 DEF Typed, ConnTypes
  <2> QED BY <1>1, <1>5, <2>1, <2>2, <2>3 DEF Typed, ManagerTypes
<1>18. ASSUME NEW x \in Real, NEW q \in Pools, ~(serve /\ x = r)
       PROVE  /\ x \in ToSet(free'[q]) <=> x \in ToSet(free[q])
              /\ x \in busy'[q] <=> x \in busy[q]
  <2>1. CASE serve /\ q = p
    <3>1. free'[q] = Tail(free[p]) /\ busy'[q] = busy[q] \cup {r} BY <1>15, <2>1
    <3>2. ToSet(Tail(free[p])) = ToSet(free[p]) \ {r} BY <1>7, <2>1
    <3> QED BY <1>18, <2>1, <3>1, <3>2
  <2>2. CASE ~(serve /\ q = p)
    <3>1. free'[q] = free[q] /\ busy'[q] = busy[q] BY <1>15, <2>2
    <3> QED BY <3>1
  <2> QED BY <2>1, <2>2
<1> HIDE DEF serve
<1>19. ASSUME NEW x \in New PROVE RealInv(x)' /\ net'[x] # "up" /\ poolid'[x] = p
  <2>1. x \in Real /\ poolid'[x] = p BY <1>4, <1>6 DEF Opened
  <2>2. ~(serve /\ x = r) BY <1>9
  <2>3. refs'[x] = IF x \in Failed THEN 1 ELSE 2 BY <1>14, <2>1
  <2>4. handler'[x] = handler[x] BY <1>11, <2>1, <2>2
  <2>5. \A q \in Pools : /\ x \in ToSet(free'[q]) <=> x \in ToSet(free[q])
                         /\ x \in busy'[q] <=> x \in busy[q]
    BY <1>18, <2>1, <2>2
  <2> QED BY <1>1, <1>3, <1>4, <2>1, <2>3, <2>4, <2>5, NewReal
<1>20. ASSUME NEW x \in Real \ New PROVE RealInv(x)' /\ (Home(x)' <=> Home(x)) /\ poolid'[x] = poolid[x]
  <2>1. RealInv(x) /\ Untouched(x) BY <1>6 DEF Base
  <2>2. CASE serve /\ x = r
    <3>1. /\ net'[x] = "up" /\ poolid'[x] = p /\ phase'[x] = "ok" /\ handler'[x] = c /\ x \in linked'
          /\ c # Nobody
      BY <1>1, <1>9, <1>11, <2>1, <2>2, DbPoolAssumption DEF Untouched, RealInv, Staged
    <3>2. Home(x)' /\ Home(x) BY <1>9, <2>2, <3>1 DEF Home
    <3>3. Staged(x)' BY <1>1, <2>1, <3>1 DEF RealInv, Staged, Untouched
    <3>4. Placed(x)'
      <4> SUFFICES ASSUME NEW q \in Pools
                   PROVE  x \notin pending'[q] /\ x \notin ToSet(free'[q]) /\ (x \in busy'[q] <=> q = p)
        BY <3>1 DEF Placed
      <4>1. /\ x \notin pending[q]
            /\ x \in ToSet(free[q]) <=> q = p
            /\ x \notin busy[q]
        BY <1>9, <2>1, <2>2 DEF RealInv, Placed
      <4>2. x \notin pending'[q] BY <2>1, <4>1 DEF Untouched
      <4>3. CASE q = p
        <5>1. ToSet(free'[q]) = ToSet(free[p]) \ {r} /\ busy'[q] = busy[q] \cup {r}
          BY <1>7, <1>15, <2>2, <4>3
        <5> QED BY <2>2, <4>2, <4>3, <5>1
      <4>4. CASE q # p
        <5>1. free'[q] = free[q] /\ busy'[q] = busy[q] BY <1>15, <4>4
        <5> QED BY <4>1, <4>2, <4>4, <5>1
      <4> QED BY <4>3, <4>4
    <3>5. Held(x)' BY <1>12, <2>2, <3>1 DEF Held
    <3>6. refs[x] = 1 + 0 + 1 BY <1>9, <2>1, <2>2, <3>1, <3>2 DEF RealInv, Counted, Untouched
    <3>7. refs'[x] = 3 BY <1>14, <2>2, <3>6
    <3>8. Counted(x)' BY <3>1, <3>2, <3>7 DEF Counted
    <3> QED BY <2>1, <3>2, <3>3, <3>4, <3>5, <3>8 DEF RealInv, Untouched
  <2>3. CASE ~(serve /\ x = r)
    <3>1. handler'[x] = handler[x] /\ refs'[x] = refs[x] BY <1>11, <1>14, <2>3
    <3>2. \A q \in Pools : /\ x \in ToSet(free'[q]) <=> x \in ToSet(free[q])
                           /\ x \in busy'[q] <=> x \in busy[q]
      BY <1>18, <2>3
    <3>3. handler[x] # Nobody => realOf'[handler[x]] = realOf[handler[x]]
      <4> SUFFICES ASSUME handler[x] # Nobody PROVE realOf'[handler[x]] = realOf[handler[x]] OBVIOUS
      <4>1. handler[x] \in Conns /\ realOf[handler[x]] = x
        BY <1>5, <2>1 DEF Typed, RealTypes, RealInv, Held
      <4>2. handler[x] # c BY <1>10, <4>1, DbPoolAssumption
      <4> QED BY <1>12, <4>1, <4>2
    <3> QED BY <1>1, <2>1, <3>1, <3>2, <3>3, FrameReal DEF Untouched
  <2> QED BY <2>2, <2>3
<1>21. ASSUME NEW d \in Conns, NEW q \in Pools, d # c, d \in ToSet(aquire'[q]) PROVE d \in ToSet(aquire[q])
  <2>1. CASE ~serve /\ q = p
    <3>1. ToSet(aquire'[q]) = ToSet(aquire[q]) \cup {c} BY <1>16, <2>1
    <3> QED BY <1>21, <3>1
  <2>2. CASE ~(~serve /\ q = p) BY <1>16, <1>21, <2>2
  <2> QED BY <2>1, <2>2
<1>22. serve => \A q \in Pools : aquire'[q] = aquire[q] BY <1>16
<1>23. ASSUME NEW d \in Conns PROVE ConnInv(d)'
  <2>1. ConnInv(d) BY DEF Base
  <2>2. CASE d = c
    <3>1. d \in user' /\ conn'[d] = "live" BY <1>1, <1>13, <2>2
    <3>2. CASE serve
      <4>1. realOf'[d] = r /\ handler'[r] = d BY <1>7, <1>11, <1>12, <2>2, <3>2
      <4>2. \A q \in Pools : d \notin ToSet(aquire'[q]) BY <1>10, <1>22, <2>2, <3>2
      <4> QED BY <3>1, <4>1, <4>2 DEF ConnInv
    <3>3. CASE ~serve
      <4>1. realOf'[d] = Nobody BY <1>10, <1>12, <2>2, <3>3
      <4> QED BY <3>1, <4>1 DEF ConnInv
    <3> QED BY <3>2, <3>3
  <2>3. CASE d # c
    <3>1. realOf'[d] = realOf[d] /\ conn'[d] = conn[d] /\ (d \in user' <=> d \in user)
      BY <1>1, <1>12, <1>13, <2>3
    <3>2. realOf[d] # Nobody => handler'[realOf[d]] = handler[realOf[d]]
      <4>1. realOf[d] \in Real \cup {Nobody} BY <1>5 DEF Typed, ConnTypes
      <4>2. ~(serve /\ realOf[d] = r) BY <1>7, <1>9, NobodyHas
      <4> QED BY <1>11, <4>1, <4>2
    <3>3. \A q \in Pools : d \in ToSet(aquire'[q]) => d \in ToSet(aquire[q]) BY <1>21, <2>3
    <3> QED BY <2>1, <3>1, <3>2, <3>3, FrameConn
  <2> QED BY <2>2, <2>3
<1>24. FreeOnce'
  <2> SUFFICES ASSUME NEW q \in Pools
               PROVE  \A i, j \in DOMAIN free'[q] : free'[q][i] = free'[q][j] => i = j
    BY DEF FreeOnce
  <2>1. CASE serve /\ q = p
    <3>1. free'[q] = Tail(free[p]) BY <1>15, <2>1
    <3> QED BY <1>7, <2>1, <3>1
  <2>2. CASE ~(serve /\ q = p)
    <3>1. free'[q] = free[q] BY <1>15, <2>2
    <3> QED BY <3>1 DEF Base, FreeOnce
  <2> QED BY <2>1, <2>2
<1>25. NoWaitWhileFree'
  <2> SUFFICES ASSUME NEW q \in Pools PROVE free'[q] = <<>> \/ aquire'[q] = <<>> BY DEF NoWaitWhileFree
  <2>1. free[q] = <<>> \/ aquire[q] = <<>> BY DEF Base, NoWaitWhileFree
  <2>2. CASE serve /\ q = p BY <1>8, <1>22, <2>2
  <2>3. CASE ~serve /\ q = p
    <3>1. free'[q] = free[q] BY <1>15, <2>3
    <3> QED BY <2>3, <3>1 DEF serve
  <2>4. CASE q # p BY <1>15, <1>16, <2>1, <2>4
  <2> QED BY <2>2, <2>3, <2>4
<1>26. WaitOnce'
  <2> SUFFICES ASSUME NEW q \in Pools, NEW v \in Pools, NEW i \in DOMAIN aquire'[q],
                      NEW j \in DOMAIN aquire'[v], aquire'[q][i] = aquire'[v][j]
               PROVE  q = v /\ i = j
    BY DEF WaitOnce
  <2>1. CASE serve
    <3>1. aquire'[q] = aquire[q] /\ aquire'[v] = aquire[v] BY <1>22, <2>1
    <3> QED BY <3>1 DEF Base, WaitOnce
  <2>2. CASE ~serve
    <3> DEFINE u == Append(aquire[p], c)
    <3>1. ToSet(u) = ToSet(aquire[p]) \cup {c} /\ \A m, n \in DOMAIN u : u[m] = u[n] => m = n BY <1>16
    <3> HIDE DEF u
    <3>2. \A w \in Pools : aquire'[w] = IF w = p THEN u ELSE aquire[w] BY <1>16, <2>2 DEF u
    <3>3. CASE q = p /\ v = p BY <3>1, <3>2, <3>3
    <3>4. ASSUME NEW w \in Pools, w # p, NEW m \in DOMAIN u, NEW n \in DOMAIN aquire[w] PROVE u[m] # aquire[w][n]
      <4>1. u[m] \in ToSet(aquire[p]) \cup {c} BY <3>1, <3>4 DEF ToSet
      <4>2. aquire[w][n] \in ToSet(aquire[w]) BY <3>4 DEF ToSet
      <4>3. CASE u[m] = c BY <1>10, <3>4, <4>2, <4>3
      <4>4. CASE u[m] \in ToSet(aquire[p])
        <5>1. PICK l \in DOMAIN aquire[p] : u[m] = aquire[p][l] BY <4>4, Zenon DEF ToSet
        <5>2. aquire[p][l] # aquire[w][n] BY <3>4, <5>1 DEF Base, WaitOnce
        <5> QED BY <5>1, <5>2
      <4> QED BY <4>1, <4>3, <4>4
    <3>5. CASE q = p /\ v # p
      <4>1. i \in DOMAIN u /\ j \in DOMAIN aquire[v] /\ u[i] = aquire[v][j] BY <3>2, <3>5
      <4> QED BY <3>4, <3>5, <4>1
    <3>6. CASE q # p /\ v = p
      <4>1. j \in DOMAIN u /\ i \in DOMAIN aquire[q] /\ u[j] = aquire[q][i] BY <3>2, <3>6
      <4> QED BY <3>4, <3>6, <4>1
    <3>7. CASE q # p /\ v # p
      <4>1. aquire'[q] = aquire[q] /\ aquire'[v] = aquire[v] BY <3>2, <3>7
      <4> QED BY <4>1 DEF Base, WaitOnce
    <3> QED BY <3>3, <3>5, <3>6, <3>7
  <2> QED BY <2>1, <2>2
<1>27. Unopened' BY <1>1 DEF Unopened
<1>28. ASSUME NEW q \in Pools PROVE Cardinality(Members(q)') <= PoolSize
  <2> DEFINE M == Members(q)
  <2>1. M \subseteq Real /\ New \subseteq Real BY DEF Members, Unused
  <2>2. IsFiniteSet(M) /\ IsFiniteSet(New) BY <2>1, DbPoolAssumption, FS_Subset
  <2>3. Cardinality(M) \in Nat /\ Cardinality(New) \in Nat /\ Cardinality(M) <= PoolSize
    BY <2>2, FS_CardinalityType DEF Base, Bounded
  <2>4. Members(q)' \subseteq M \cup (IF q = p THEN New ELSE {})
    <3> SUFFICES ASSUME NEW x \in Real, Home(x)', poolid'[x] = q
                 PROVE  x \in M \/ (q = p /\ x \in New)
      BY DEF Members
    <3>1. CASE x \in New BY <1>19, <3>1
    <3>2. CASE x \notin New
      <4>1. Home(x) /\ poolid[x] = q BY <1>20, <3>2
      <4> QED BY <4>1 DEF Members
    <3> QED BY <3>1, <3>2
  <2>5. CASE q = p
    <3>1. missing = PoolSize - Cardinality(M) BY <2>5, InPoolMembers DEF missing, Missing
    <3> HIDE DEF M
    <3> DEFINE I == Cardinality(M \cap New)
    <3>2. IsFiniteSet(M \cap New) BY <2>2, FS_Subset
    <3>3. I \in Nat BY <3>2, FS_CardinalityType
    <3>4. IsFiniteSet(M \cup New) /\ Cardinality(M \cup New) = Cardinality(M) + Cardinality(New) - I
      BY <2>2, FS_Union
    <3>5. Members(q)' \subseteq M \cup New BY <2>4, <2>5
    <3>6. Cardinality(Members(q)') <= Cardinality(M \cup New) BY <3>4, <3>5, FS_Subset
    <3>7. IsFiniteSet(Members(q)') /\ Cardinality(Members(q)') \in Nat
      BY <3>4, <3>5, FS_Subset, FS_CardinalityType
    <3> HIDE DEF I
    <3> QED BY <1>2, <2>3, <3>1, <3>3, <3>4, <3>6, <3>7, DbPoolAssumption
  <2>6. CASE q # p
    <3>1. Members(q)' \subseteq M BY <2>4, <2>6
    <3>2. Cardinality(Members(q)') <= Cardinality(M) BY <2>2, <3>1, FS_Subset
    <3>3. Cardinality(Members(q)') \in Nat BY <2>2, <3>1, FS_Subset, FS_CardinalityType
    <3> QED BY <2>3, <3>2, <3>3, DbPoolAssumption
  <2> QED BY <2>5, <2>6
<1>29. Bounded' BY <1>28 DEF Bounded
<1>30. ASSUME Own PROVE Own'
  <2>1. ASSUME NEW x \in Real PROVE WireOwn(x)'
    <3>1. WireOwn(x) BY <1>30 DEF Own
    <3>2. Open(x)' => Open(x) BY <1>6, <1>19 DEF Open, Untouched
    <3>3. CASE serve /\ x = r
      <4>1. Open(x) => wire[x] = <<>> BY <1>9, <3>1, <3>3 DEF WireOwn
      <4> QED BY <1>1, <3>2, <4>1 DEF WireOwn
    <3>4. CASE ~(serve /\ x = r)
      <4>1. handler'[x] = handler[x] BY <1>11, <3>4
      <4> QED BY <1>1, <3>1, <3>2, <4>1, FrameWire
    <3> QED BY <3>3, <3>4
  <2>2. ASSUME NEW d \in Conns PROVE Settled(d)'
    <3>1. Settled(d) BY <1>30 DEF Own
    <3>2. CASE d = c
      <4>1. d \notin told' /\ d \in user' BY <1>1, <3>1, <3>2 DEF Settled
      <4> QED BY <4>1 DEF Settled
    <3>3. CASE d # c
      <4>1. realOf'[d] = realOf[d] /\ conn'[d] = conn[d] /\ (d \in user' <=> d \in user)
        BY <1>1, <1>12, <1>13, <3>3
      <4>2. realOf[d] # Nobody => net'[realOf[d]] = net[realOf[d]]
        <5>1. realOf[d] \in Real \cup {Nobody} BY <1>5 DEF Typed, ConnTypes
        <5>2. realOf[d] \notin New
          <6> SUFFICES ASSUME realOf[d] \in New PROVE FALSE OBVIOUS
          <6>1. realOf[d] \in Real /\ net[realOf[d]] = "none" BY <1>6 DEF Opened
          <6>2. handler[realOf[d]] = Nobody BY <6>1, UnusedFacts
          <6> QED BY <6>1, <6>2, NobodyHas
        <5> QED BY <1>6, <5>1, <5>2 DEF Untouched
      <4>3. \A q \in Pools : d \in ToSet(aquire'[q]) => d \in ToSet(aquire[q]) BY <1>21, <3>3
      <4> QED BY <1>1, <3>1, <4>1, <4>2, <4>3, FrameSettled
    <3> QED BY <3>2, <3>3
  <2> QED BY <1>1, <1>30, <2>1, <2>2 DEF Own
<1>31. \A x \in Real : RealInv(x)' BY <1>19, <1>20
<1> QED BY <1>17, <1>23, <1>24, <1>25, <1>26, <1>27, <1>29, <1>30, <1>31 DEF Base, Preserved

-----------------------------------------------------------------------------
(* The whole. *)

\* The invariants hold before anything has happened.
LEMMA InitHolds == ASSUME Init PROVE Base /\ Own
<1> USE DEF Init
<1>1. Typed
  <2>1. <<>> \in Seq(Real) /\ <<>> \in Seq(Conns) /\ <<>> \in Seq(Conns \X Nat) OBVIOUS
  <2>2. free \in [Pools -> Seq(Real)] /\ aquire \in [Pools -> Seq(Conns)] BY <2>1
  <2>3. wire \in [Real -> Seq(Conns \X Nat)] BY <2>1
  <2>4. ListTypes BY <2>2 DEF ListTypes
  <2>5. RealTypes BY <2>3, DbPoolAssumption DEF RealTypes
  <2>6. ConnTypes BY DbPoolAssumption DEF ConnTypes
  <2> QED BY <2>4, <2>5, <2>6 DEF Typed, ManagerTypes
<1>2. \A p \in Pools : /\ pending[p] = {} /\ busy[p] = {} /\ free[p] = <<>> /\ aquire[p] = <<>>
                       /\ ToSet(free[p]) = {} /\ ToSet(aquire[p]) = {}
                       /\ DOMAIN free[p] = {} /\ DOMAIN aquire[p] = {}
  BY DEF ToSet
<1>3. ASSUME NEW x \in Real PROVE RealInv(x) /\ ~Home(x)
  <2>1. ~Home(x) BY DEF Home
  <2>2. Staged(x) BY <2>1 DEF Staged
  <2>3. Placed(x) BY <1>2, <2>1 DEF Placed
  <2>4. Held(x) BY DEF Held
  <2>5. Counted(x) BY <2>1 DEF Counted
  <2> QED BY <2>1, <2>2, <2>3, <2>4, <2>5 DEF RealInv
<1>4. \A c \in Conns : ConnInv(c) BY <1>2 DEF ConnInv
<1>5. WaitOnce /\ FreeOnce /\ NoWaitWhileFree BY <1>2 DEF WaitOnce, FreeOnce, NoWaitWhileFree
<1>6. Unopened BY DEF Unopened
<1>7. Bounded
  <2> SUFFICES ASSUME NEW p \in Pools PROVE Cardinality(Members(p)) <= PoolSize BY DEF Bounded
  <2>1. Members(p) = {} BY <1>3 DEF Members
  <2>2. Cardinality(Members(p)) = 0 BY <2>1, FS_EmptySet
  <2> QED BY <2>2, DbPoolAssumption
<1>8. \A x \in Real : WireOwn(x) BY DEF WireOwn
<1>9. \A c \in Conns : Settled(c) BY <1>2 DEF Settled
<1>10. Own BY <1>8, <1>9 DEF Own
<1> QED BY <1>1, <1>3, <1>4, <1>5, <1>6, <1>7, <1>10 DEF Base

\* The manager's steps preserve them.
LEMMA ManagerKeeps == ASSUME Base, Manager PROVE Preserved
<1>1. ManagerTypes BY DEF Base, Typed
<1>2. CASE BeginSetup BY <1>2, BeginSetupKeeps
<1>3. CASE BeginSetupFails
  <2>1. setup' = "fail" /\ rollback' = rollback /\ cleanup' = cleanup BY <1>3 DEF BeginSetupFails
  <2>2. ManagerTypes' BY <1>1, <2>1 DEF ManagerTypes
  <2>3. UNCHANGED <<lists, sock, handler, refs, wire, conn, user, realOf, stmts>> BY <1>3 DEF BeginSetupFails
  <2> QED BY <2>1, <2>2, <2>3, ManagerStep
<1>4. CASE CheckIfSetupFinish
  <2>1. setup = "running" /\ cleanup' = cleanup BY <1>4 DEF CheckIfSetupFinish
  <2>2. CASE UNCHANGED <<lists, sock, handler, refs, wire, conn, user, realOf, stmts, rollback>>
    <3>1. setup' \in {"fail", "ok", setup}
      BY <1>4, <2>2 DEF CheckIfSetupFinish, CleanupPools
    <3>2. rollback' = rollback /\ UNCHANGED <<lists, sock, handler, refs, wire, conn, user, realOf, stmts>>
      BY <2>2
    <3>3. ManagerTypes' BY <1>1, <2>1, <3>1, <3>2 DEF ManagerTypes
    <3> QED BY <3>1, <3>2, <3>3, ManagerStep
  <2>3. CASE CleanupPools /\ setup' = setup /\ rollback' = TRUE
    <3>1. ManagerTypes' BY <1>1, <2>1, <2>3 DEF ManagerTypes
    <3> QED BY <2>1, <2>3, <3>1, CleanupKeeps
  <2> QED BY <1>4, <2>2, <2>3 DEF CheckIfSetupFinish
<1>5. CASE BeginCleanup
  <2>1. setup = "ok" /\ setup' = setup /\ rollback' = rollback /\ cleanup' = "asked" /\ CleanupPools
    BY <1>5 DEF BeginCleanup
  <2>2. ManagerTypes' BY <1>1, <2>1 DEF ManagerTypes
  <2> QED BY <2>1, <2>2, CleanupKeeps
<1>6. CASE CheckIfCleanupFinish
  <2>1. cleanup' = "done" /\ setup' = setup /\ rollback' = rollback BY <1>6 DEF CheckIfCleanupFinish
  <2>2. ManagerTypes' BY <1>1, <2>1 DEF ManagerTypes
  <2>3. UNCHANGED <<lists, sock, handler, refs, wire, conn, user, realOf, stmts>>
    BY <1>6 DEF CheckIfCleanupFinish
  <2> QED BY <2>1, <2>2, <2>3, ManagerStep
<1> QED BY <1>2, <1>3, <1>4, <1>5, <1>6 DEF Manager

\* Every step preserves them.
LEMMA NextKeeps == ASSUME Base, [Next]_vars PROVE Preserved
<1>1. CASE Manager BY <1>1, ManagerKeeps
<1>2. ASSUME NEW r \in Real, Socket(r) PROVE Preserved
  BY <1>2, ConnectSuccessKeeps, ConnectFailKeeps, HandshakeKeeps, AuthResponseKeeps, ServerClosesKeeps,
     OnReceivePacketKeeps, DrainKeeps
     DEF Socket
<1>3. ASSUME NEW c \in Conns, Connection(c) PROVE Preserved
  BY <1>3, CreateKeeps, CreateStatementKeeps, ExecuteKeeps, ReleaseKeeps DEF Connection
<1>4. CASE UNCHANGED vars
  <2>1. UNCHANGED <<lists, sock, handler, refs, wire, conn, user, realOf, stmts>> /\ setup' = setup
        /\ rollback' = rollback /\ cleanup' = cleanup
    BY <1>4 DEF vars, manager
  <2>2. ManagerTypes' BY <2>1 DEF ManagerTypes, Base, Typed
  <2> QED BY <2>1, <2>2, ManagerStep
<1> QED BY <1>1, <1>2, <1>3, <1>4 DEF Next, Ended

\* The lists of the pools and the holders of a connection from its state.
LEMMA BaseSound == ASSUME Base PROVE PoolSound /\ RefsBalance
<1>1. Typed BY DEF Base
<1>2. TypeOK
  <2>1. \A p \in Pools : free[p] \in Seq(Real) /\ aquire[p] \in Seq(Conns) BY <1>1 DEF Typed, ListTypes
  <2>2. \A r \in Real : wire[r] \in Seq(Conns \X Nat) BY <1>1 DEF Typed, RealTypes
  <2> QED BY <1>1, <2>1, <2>2 DEF TypeOK, Typed, ListTypes, RealTypes, ConnTypes, ManagerTypes
<1>3. PoolBounded
  <2> SUFFICES ASSUME NEW p \in Pools PROVE Cardinality(InPool(p)) <= PoolSize BY DEF PoolBounded
  <2>1. InPool(p) = Members(p) BY InPoolMembers
  <2> QED BY <2>1 DEF Base, Bounded
<1>4. ExclusiveUse
  <2>1. ASSUME NEW c \in Conns, NEW d \in Conns, realOf[c] = realOf[d], realOf[c] # Nobody PROVE c = d
    <3>1. ConnInv(c) /\ ConnInv(d) BY DEF Base
    <3> QED BY <2>1, <3>1 DEF ConnInv
  <2>2. ASSUME NEW r \in Real, handler[r] # Nobody PROVE realOf[handler[r]] = r /\ conn[handler[r]] = "live"
    <3>1. handler[r] \in Conns /\ realOf[handler[r]] = r BY <1>1, <2>2 DEF Typed, RealTypes, Base, RealInv, Held
    <3>2. ConnInv(handler[r]) /\ r # Nobody BY <3>1, DbPoolAssumption DEF Base
    <3> QED BY <3>1, <3>2 DEF ConnInv
  <2> QED BY <2>1, <2>2 DEF ExclusiveUse
<1>5. ASSUME NEW r \in Real
      PROVE  refs[r] = Cardinality({p \in Pools : r \in pending[p]})
                       + Cardinality({p \in Pools : r \in ToSet(free[p])})
                       + Cardinality({p \in Pools : r \in busy[p]})
                       + Cardinality({c \in Conns : realOf[c] = r})
                       + (IF r \in linked THEN 1 ELSE 0)
  <2>1. RealInv(r) /\ handler[r] \in Conns \cup {Nobody} BY <1>1 DEF Base, Typed, RealTypes
  <2> DEFINE A == {p \in Pools : r \in pending[p]}
             B == {p \in Pools : r \in ToSet(free[p])}
             C == {p \in Pools : r \in busy[p]}
             D == {c \in Conns : realOf[c] = r}
             a == Home(r) /\ phase[r] # "ok"
             b == net[r] = "up" /\ phase[r] = "ok" /\ handler[r] = Nobody
             e == net[r] = "up" /\ phase[r] = "ok" /\ handler[r] # Nobody
  <2>2. a \/ b \/ e => poolid[r] \in Pools BY <2>1 DEF RealInv, Staged, Home
  <2>3. Home(r) <=> a \/ b \/ e BY <2>1 DEF RealInv, Staged, Home
  <2>4. A = IF a THEN {poolid[r]} ELSE {} BY <2>1, <2>2 DEF RealInv, Placed
  <2>5. B = IF b THEN {poolid[r]} ELSE {} BY <2>1, <2>2 DEF RealInv, Placed
  <2>6. C = IF e THEN {poolid[r]} ELSE {} BY <2>1, <2>2 DEF RealInv, Placed
  <2>7. D = IF handler[r] # Nobody THEN {handler[r]} ELSE {}
    <3>1. ASSUME NEW c \in Conns, realOf[c] = r PROVE c = handler[r]
      <4>1. ConnInv(c) /\ r # Nobody BY DbPoolAssumption DEF Base
      <4> QED BY <3>1, <4>1 DEF ConnInv
    <3>2. handler[r] # Nobody => handler[r] \in D BY <2>1 DEF RealInv, Held
    <3> QED BY <3>1, <3>2, DbPoolAssumption
  <2>8. ~(a /\ b) /\ ~(a /\ e) /\ ~(b /\ e) OBVIOUS
  <2> HIDE DEF a, b, e, A, B, C, D
  <2>9. Cardinality(A) = IF a THEN 1 ELSE 0 BY <2>4, FS_EmptySet, FS_Singleton
  <2>10. Cardinality(B) = IF b THEN 1 ELSE 0 BY <2>5, FS_EmptySet, FS_Singleton
  <2>11. Cardinality(C) = IF e THEN 1 ELSE 0 BY <2>6, FS_EmptySet, FS_Singleton
  <2>12. Cardinality(D) = IF handler[r] # Nobody THEN 1 ELSE 0 BY <2>7, FS_EmptySet, FS_Singleton
  <2>13. refs[r] = (IF Home(r) THEN 1 ELSE 0) + (IF handler[r] # Nobody THEN 1 ELSE 0)
                   + (IF r \in linked THEN 1 ELSE 0)
    BY <2>1 DEF RealInv, Counted
  <2>14. Cardinality(A) + Cardinality(B) + Cardinality(C) = IF Home(r) THEN 1 ELSE 0
    BY <2>3, <2>8, <2>9, <2>10, <2>11
  <2>15. refs[r] = Cardinality(A) + Cardinality(B) + Cardinality(C) + Cardinality(D)
                   + (IF r \in linked THEN 1 ELSE 0)
    BY <2>12, <2>13, <2>14
  <2> QED BY <2>15 DEF A, B, C, D
<1>6. RefsBalance BY <1>5 DEF RefsBalance
<1> QED BY <1>2, <1>3, <1>4, <1>6 DEF PoolSound, Base

\* The lists of a pool agree with each other and stay within pool_size, and
\* two Connections never share a RealConnection, whatever fails and closes.
THEOREM PoolIsSound == Spec => []PoolSound
<1>1. Init => Base BY InitHolds
<1>2. Base /\ [Next]_vars => Base' BY NextKeeps DEF Preserved
<1>3. Base => PoolSound BY BaseSound
<1> QED BY <1>1, <1>2, <1>3, PTL DEF Spec

\* The count of a RealConnection is the number of its holders.
THEOREM RefsAreHolders == Spec => []RefsBalance
<1>1. Init => Base BY InitHolds
<1>2. Base /\ [Next]_vars => Base' BY NextKeeps DEF Preserved
<1>3. Base => RefsBalance BY BaseSound
<1> QED BY <1>1, <1>2, <1>3, PTL DEF Spec

\* While users keep a Connection until its statement has answered, every
\* callback gets the result of its own statement.
THEOREM ResultsAreOwn == Careful => (Spec => []OwnResult)
<1> SUFFICES ASSUME Careful PROVE Spec => []OwnResult OBVIOUS
<1>1. Init => Base /\ Own BY InitHolds
<1>2. Base /\ Own /\ [Next]_vars => (Base /\ Own)' BY NextKeeps DEF Preserved
<1>3. Own => OwnResult BY DEF Own, OwnResult
<1> QED BY <1>1, <1>2, <1>3, PTL DEF Spec

=============================================================================
