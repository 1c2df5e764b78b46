------------------------ MODULE NamedMailboxesProofs ------------------------
(***************************************************************************)
(* Proofs about NamedMailboxes for every cluster, every set of names and   *)
(* every number of restarts and broken connections.                        *)
(*                                                                         *)
(* What a stream says about one name is a fact about a sequence; the steps *)
(* append a message, read one or cut the stream.  So the replication is    *)
(* first proved of one sequence, and then carried to every pair of nodes.  *)
(***************************************************************************)
EXTENDS NamedMailboxes, FiniteSetTheorems, SequenceTheorems, TLAPS

-----------------------------------------------------------------------------
(* One name nm of node m in a stream s from m to a peer. *)

Says(msg, nm) == msg.type = "REGISTER" /\ msg.name = nm
Takes(msg, nm) == msg.type = "UNREGISTER" /\ msg.name = nm

Silent(nm, s) == \A i \in 1..Len(s) : ~Says(s[i], nm) /\ ~Takes(s[i], nm)

(* The reader has the entry here, m has the entry there:                      *)
(*  - they are equal when nothing is under way;                               *)
(*  - a registration that is not withdrawn behind it is what m has;           *)
(*  - the first word, if it is a registration, meets no entry at the reader;  *)
(*  - between two registrations there is a withdrawal;                        *)
(*  - what m has is said last, if anything is said.                           *)
Agrees(nm, m, s, here, there) ==
    /\ Silent(nm, s) => here = there
    /\ \A i \in 1..Len(s) :
          Says(s[i], nm) /\ (\A j \in i+1..Len(s) : ~Takes(s[j], nm))
             => there = [node |-> m, pid |-> s[i].pid]
    /\ \A i \in 1..Len(s) :
          Says(s[i], nm) /\ (\A j \in 1..i-1 : ~Says(s[j], nm) /\ ~Takes(s[j], nm))
             => here = NoBox
    /\ \A i, k \in 1..Len(s) :
          i < k /\ Says(s[i], nm) /\ Says(s[k], nm)
             => \E j \in i+1..k-1 : Takes(s[j], nm)
    /\ there # NoBox /\ ~Silent(nm, s)
          => \E i \in 1..Len(s) : Says(s[i], nm)
                                  /\ \A j \in i+1..Len(s) : ~Takes(s[j], nm)

(* A stream that nobody has cut, from m whose connector is at cm. *)
Synced(nm, m, open, cm, s, here, there) ==
    /\ open /\ cm = "authed" => Agrees(nm, m, s, here, there)
    /\ open /\ cm = "anon" => here = NoBox /\ Silent(nm, s)

(* The order of a stream s, read by a connector at c: nothing for a connector *)
(* that is not there, AUTH first and only first, the end last.                *)
Ordered(c, s) ==
    /\ c = "none" => s = <<>>
    /\ c = "anon" => s # <<>> /\ (s[1] = Auth \/ s[1] = Eof)
    /\ c = "authed" => \A i \in 1..Len(s) : s[i] # Auth
    /\ \A i \in 2..Len(s) : s[i] # Auth
    /\ \A i \in 1..Len(s) : s[i] = Eof => i = Len(s)

-----------------------------------------------------------------------------
(* The invariants. *)

Typed ==
    /\ conn \in [Nodes -> [Nodes -> {"none", "anon", "authed"}]]
    /\ chan \in [Nodes -> [Nodes -> Seq(Messages)]]
    /\ dial \in [Nodes -> SUBSET Nodes]
    /\ boxes \in [Nodes -> SUBSET [pid : 1..MaxPid, name : Names \cup {Unnamed}]]
    /\ pids \in [Nodes -> 0..MaxPid]
    /\ named \in [Nodes -> [Keys -> Mbid \cup {NoBox}]]
    /\ view \in [Nodes -> SUBSET Keys]
    /\ status \in [Fetches -> {"idle", "waiting", "dropped", "answered", "gone"}]
    /\ restarts \in 0..MaxRestarts
    /\ breaks \in 0..MaxBreaks

\* No node has a connection to itself.
NotToSelf ==
    /\ \A n \in Nodes : dial[n] \subseteq {m \in Nodes : <<n, m>> \in Dials}
    /\ \A n \in Nodes : conn[n][n] = "none"

StreamsOrdered == \A n, m \in Nodes : Ordered(conn[n][m], chan[m][n])

Finite == \A n \in Nodes : IsFiniteSet(LocalNames(n))

NetInv == Typed /\ NotToSelf /\ StreamsOrdered /\ NamesOfPeersOnly /\ Finite

Open(n, m) == ~Cut(n, m) /\ ~Cut(m, n)

PairInv(n, m) ==
    n # m => \A nm \in Names :
        Synced(nm, m, Open(n, m), conn[m][n], chan[m][n],
               named[n][<<nm, m>>], named[m][<<nm, m>>])

ReplicaInv == \A n, m \in Nodes : PairInv(n, m)

-----------------------------------------------------------------------------
(* What a stream says. *)

\* A registration carries the id of a mailbox.
LEMMA SaysId ==
    ASSUME NEW msg \in Messages, NEW nm, Says(msg, nm), NEW m \in Nodes
    PROVE  /\ msg.pid \in 1..MaxPid /\ nm \in Names
           /\ [node |-> m, pid |-> msg.pid] \in Mbid
           /\ [node |-> m, pid |-> msg.pid] # NoBox
<1>1. msg.pid \in 1..MaxPid /\ nm \in Names
  BY DEF Messages, Says, Auth, Eof, RegisterMsg, UnRegisterMsg
<1>2. [node |-> m, pid |-> msg.pid] \in Mbid BY <1>1 DEF Mbid
<1> QED BY <1>1, <1>2, MailboxAssumption

\* A name that is said to be there comes to be there.
LEMMA SayAgrees ==
    ASSUME NEW nm, NEW m \in Nodes, NEW s \in Seq(Messages), NEW here, NEW msg, Says(msg, nm),
           Agrees(nm, m, s, here, NoBox)
    PROVE  Agrees(nm, m, Append(s, msg), here, [node |-> m, pid |-> msg.pid])
<1> DEFINE t == Append(s, msg)
           N == Len(s)
           there == [node |-> m, pid |-> msg.pid]
<1>1. N \in Nat /\ Len(t) = N + 1 /\ t[N + 1] = msg /\ \A i \in 1..N : t[i] = s[i] OBVIOUS
<1> HIDE DEF t, N
<1>2. ~Takes(msg, nm) BY DEF Says, Takes
<1>3. \A i \in 1..N : Says(s[i], nm) => \E j \in i+1..N : Takes(s[j], nm)
  <2> SUFFICES ASSUME NEW i \in 1..N, Says(s[i], nm), \A j \in i+1..N : ~Takes(s[j], nm)
               PROVE  FALSE
    OBVIOUS
  <2>1. NoBox = [node |-> m, pid |-> s[i].pid] BY DEF Agrees, N
  <2>2. s[i] \in Messages BY DEF N
  <2> QED BY <2>1, <2>2, SaysId
<1>4. ~Silent(nm, t) BY <1>1 DEF Silent
<1>5. \A i \in 1..Len(t) :
         Says(t[i], nm) /\ (\A j \in i+1..Len(t) : ~Takes(t[j], nm)) => i = N + 1
  <2> SUFFICES ASSUME NEW i \in 1..N, Says(t[i], nm), \A j \in i+1..Len(t) : ~Takes(t[j], nm)
               PROVE  FALSE
    BY <1>1
  <2>1. PICK j \in i+1..N : Takes(s[j], nm) BY <1>1, <1>3
  <2>2. j \in i+1..Len(t) /\ t[j] = s[j] BY <1>1
  <2> QED BY <2>1, <2>2
<1>6. \A i \in 1..Len(t) :
         Says(t[i], nm) /\ (\A j \in 1..i-1 : ~Says(t[j], nm) /\ ~Takes(t[j], nm)) => here = NoBox
  <2> SUFFICES ASSUME NEW i \in 1..Len(t), Says(t[i], nm),
                      \A j \in 1..i-1 : ~Says(t[j], nm) /\ ~Takes(t[j], nm)
               PROVE  here = NoBox
    OBVIOUS
  <2>1. CASE i = N + 1
    <3>1. Silent(nm, s) BY <1>1, <2>1 DEF Silent, N
    <3> QED BY <3>1 DEF Agrees
  <2>2. CASE i # N + 1 BY <1>1, <2>2 DEF Agrees, N
  <2> QED BY <2>1, <2>2
<1>7. \A i, k \in 1..Len(t) :
         i < k /\ Says(t[i], nm) /\ Says(t[k], nm) => \E j \in i+1..k-1 : Takes(t[j], nm)
  <2> SUFFICES ASSUME NEW i \in 1..Len(t), NEW k \in 1..Len(t), i < k,
                      Says(t[i], nm), Says(t[k], nm)
               PROVE  \E j \in i+1..k-1 : Takes(t[j], nm)
    OBVIOUS
  <2>1. CASE k = N + 1
    <3>1. PICK j \in i+1..N : Takes(s[j], nm) BY <1>1, <1>3, <2>1
    <3> QED BY <1>1, <2>1, <3>1
  <2>2. CASE k # N + 1
    <3>1. i \in 1..N /\ k \in 1..N BY <1>1, <2>2
    <3>2. PICK j \in i+1..k-1 : Takes(s[j], nm) BY <1>1, <3>1 DEF Agrees, N
    <3>3. t[j] = s[j] BY <1>1, <3>1
    <3> QED BY <3>2, <3>3
  <2> QED BY <2>1, <2>2
<1>8. \E i \in 1..Len(t) : Says(t[i], nm) /\ \A j \in i+1..Len(t) : ~Takes(t[j], nm)
  BY <1>1
<1>9. \A i \in 1..Len(t) :
         Says(t[i], nm) /\ (\A j \in i+1..Len(t) : ~Takes(t[j], nm))
            => there = [node |-> m, pid |-> t[i].pid]
  BY <1>1, <1>5
<1> QED BY <1>4, <1>6, <1>7, <1>8, <1>9 DEF Agrees, t, there

\* A name that is withdrawn, whether it was there or not.
LEMMA TakeAgrees ==
    ASSUME NEW nm, NEW m, NEW s \in Seq(Messages), NEW here, NEW there, NEW msg, Takes(msg, nm),
           Agrees(nm, m, s, here, there)
    PROVE  Agrees(nm, m, Append(s, msg), here, NoBox)
<1> DEFINE t == Append(s, msg)
           N == Len(s)
<1>1. N \in Nat /\ Len(t) = N + 1 /\ t[N + 1] = msg /\ \A i \in 1..N : t[i] = s[i] OBVIOUS
<1> HIDE DEF t, N
<1>2. ~Says(msg, nm) BY DEF Says, Takes
<1>3. ~Silent(nm, t) BY <1>1 DEF Silent
<1>4. \A i \in 1..Len(t) : Says(t[i], nm) => i \in 1..N /\ Says(s[i], nm) BY <1>1, <1>2
<1>5. \A i \in 1..Len(t) :
         ~(Says(t[i], nm) /\ (\A j \in i+1..Len(t) : ~Takes(t[j], nm)))
  BY <1>1, <1>4
<1>6. \A i \in 1..Len(t) :
         Says(t[i], nm) /\ (\A j \in 1..i-1 : ~Says(t[j], nm) /\ ~Takes(t[j], nm)) => here = NoBox
  BY <1>1, <1>4 DEF Agrees, N
<1>7. \A i, k \in 1..Len(t) :
         i < k /\ Says(t[i], nm) /\ Says(t[k], nm) => \E j \in i+1..k-1 : Takes(t[j], nm)
  <2> SUFFICES ASSUME NEW i \in 1..Len(t), NEW k \in 1..Len(t), i < k,
                      Says(t[i], nm), Says(t[k], nm)
               PROVE  \E j \in i+1..k-1 : Takes(t[j], nm)
    OBVIOUS
  <2>1. i \in 1..N /\ k \in 1..N /\ Says(s[i], nm) /\ Says(s[k], nm) BY <1>4
  <2>2. PICK j \in i+1..k-1 : Takes(s[j], nm) BY <2>1 DEF Agrees, N
  <2>3. t[j] = s[j] BY <1>1, <2>1
  <2> QED BY <2>2, <2>3
<1> QED BY <1>3, <1>5, <1>6, <1>7 DEF Agrees, t

\* A message that is about something else.
LEMMA OtherAgrees ==
    ASSUME NEW nm, NEW m, NEW s \in Seq(Messages), NEW here, NEW there, NEW msg,
           ~Says(msg, nm), ~Takes(msg, nm), Agrees(nm, m, s, here, there)
    PROVE  Agrees(nm, m, Append(s, msg), here, there)
<1> DEFINE t == Append(s, msg)
           N == Len(s)
<1>1. N \in Nat /\ Len(t) = N + 1 /\ t[N + 1] = msg /\ \A i \in 1..N : t[i] = s[i] OBVIOUS
<1> HIDE DEF t, N
<1>2. Silent(nm, t) <=> Silent(nm, s) BY <1>1 DEF Silent, N
<1>3. \A i \in 1..Len(t) : Says(t[i], nm) => i \in 1..N /\ Says(s[i], nm) BY <1>1
<1>4. \A i \in 1..Len(t) : Takes(t[i], nm) => i \in 1..N /\ Takes(s[i], nm) BY <1>1
<1>5. \A i \in 1..N : (\A j \in i+1..Len(t) : ~Takes(t[j], nm)) <=> (\A j \in i+1..N : ~Takes(s[j], nm))
  BY <1>1
<1>6. \A i \in 1..Len(t) :
         Says(t[i], nm) /\ (\A j \in i+1..Len(t) : ~Takes(t[j], nm))
            => there = [node |-> m, pid |-> t[i].pid]
  BY <1>1, <1>3, <1>5 DEF Agrees, N
<1>7. \A i \in 1..Len(t) :
         Says(t[i], nm) /\ (\A j \in 1..i-1 : ~Says(t[j], nm) /\ ~Takes(t[j], nm)) => here = NoBox
  BY <1>1, <1>3 DEF Agrees, N
<1>8. \A i, k \in 1..Len(t) :
         i < k /\ Says(t[i], nm) /\ Says(t[k], nm) => \E j \in i+1..k-1 : Takes(t[j], nm)
  <2> SUFFICES ASSUME NEW i \in 1..Len(t), NEW k \in 1..Len(t), i < k,
                      Says(t[i], nm), Says(t[k], nm)
               PROVE  \E j \in i+1..k-1 : Takes(t[j], nm)
    OBVIOUS
  <2>1. i \in 1..N /\ k \in 1..N /\ Says(s[i], nm) /\ Says(s[k], nm) BY <1>3
  <2>2. PICK j \in i+1..k-1 : Takes(s[j], nm) BY <2>1 DEF Agrees, N
  <2>3. t[j] = s[j] BY <1>1, <2>1
  <2> QED BY <2>2, <2>3
<1>9. there # NoBox /\ ~Silent(nm, t) =>
         \E i \in 1..Len(t) : Says(t[i], nm) /\ \A j \in i+1..Len(t) : ~Takes(t[j], nm)
  <2> SUFFICES ASSUME there # NoBox, ~Silent(nm, t)
               PROVE  \E i \in 1..Len(t) : Says(t[i], nm) /\ \A j \in i+1..Len(t) : ~Takes(t[j], nm)
    OBVIOUS
  <2>1. PICK i \in 1..N : Says(s[i], nm) /\ \A j \in i+1..N : ~Takes(s[j], nm)
    BY <1>2 DEF Agrees, N
  <2> QED BY <1>1, <1>5, <2>1
<1> QED BY <1>2, <1>6, <1>7, <1>8, <1>9 DEF Agrees, t

\* What reading a message makes of the reader's entry.
After(msg, nm, m, here) ==
    CASE Says(msg, nm) /\ here = NoBox -> [node |-> m, pid |-> msg.pid]
      [] Takes(msg, nm) -> NoBox
      [] OTHER -> here

\* The reader reads the first message.
LEMMA ReadAgrees ==
    ASSUME NEW nm, NEW m, NEW s \in Seq(Messages), s # <<>>, NEW here, NEW there,
           Agrees(nm, m, s, here, there)
    PROVE  Agrees(nm, m, Tail(s), After(Head(s), nm, m, here), there)
<1> DEFINE t == Tail(s)
           N == Len(s)
           now == After(Head(s), nm, m, here)
<1>1. N \in Nat /\ N > 0 /\ Len(t) = N - 1 /\ Head(s) = s[1] /\ \A i \in 1..N-1 : t[i] = s[i + 1]
  OBVIOUS
<1> HIDE DEF t, N
<1>2. ~(Says(s[1], nm) /\ Takes(s[1], nm)) BY DEF Says, Takes
<1>3. Says(s[1], nm) => here = NoBox /\ now = [node |-> m, pid |-> s[1].pid]
  <2> SUFFICES ASSUME Says(s[1], nm) PROVE here = NoBox /\ now = [node |-> m, pid |-> s[1].pid]
    OBVIOUS
  <2>1. 1 \in 1..N /\ \A j \in 1..1-1 : ~Says(s[j], nm) /\ ~Takes(s[j], nm) BY <1>1
  <2>2. here = NoBox BY <2>1 DEF Agrees, N
  <2> QED BY <1>1, <1>2, <2>2 DEF After
<1>4. Takes(s[1], nm) => now = NoBox BY <1>1, <1>2 DEF After
<1>5. ~Says(s[1], nm) /\ ~Takes(s[1], nm) => now = here BY <1>1 DEF After
<1> HIDE DEF now
<1>6. Silent(nm, t) => \A i \in 2..N : ~Says(s[i], nm) /\ ~Takes(s[i], nm)
  <2> SUFFICES ASSUME Silent(nm, t), NEW i \in 2..N PROVE ~Says(s[i], nm) /\ ~Takes(s[i], nm)
    OBVIOUS
  <2>1. i - 1 \in 1..Len(t) /\ t[i - 1] = s[i] BY <1>1
  <2> QED BY <2>1 DEF Silent
<1>7. Silent(nm, t) => now = there
  <2> SUFFICES ASSUME Silent(nm, t) PROVE now = there OBVIOUS
  <2>1. CASE Says(s[1], nm) BY <1>1, <1>3, <1>6, <2>1 DEF Agrees, N
  <2>2. CASE Takes(s[1], nm)
    <3>1. ~Silent(nm, s) BY <1>1, <2>2 DEF Silent, N
    <3>2. ~\E i \in 1..N : Says(s[i], nm) BY <1>1, <1>2, <1>6, <2>2
    <3> QED BY <1>4, <2>2, <3>1, <3>2 DEF Agrees, N
  <2>3. CASE ~Says(s[1], nm) /\ ~Takes(s[1], nm)
    <3>1. Silent(nm, s) BY <1>1, <1>6, <2>3 DEF Silent, N
    <3> QED BY <1>5, <2>3, <3>1 DEF Agrees
  <2> QED BY <2>1, <2>2, <2>3
<1>8. \A i \in 1..Len(t) :
         Says(t[i], nm) /\ (\A j \in i+1..Len(t) : ~Takes(t[j], nm))
            => there = [node |-> m, pid |-> t[i].pid]
  <2> SUFFICES ASSUME NEW i \in 1..Len(t), Says(t[i], nm), \A j \in i+1..Len(t) : ~Takes(t[j], nm)
               PROVE  there = [node |-> m, pid |-> t[i].pid]
    OBVIOUS
  <2>1. i + 1 \in 1..N /\ t[i] = s[i + 1] BY <1>1
  <2>2. ASSUME NEW j \in (i+1)+1..N PROVE ~Takes(s[j], nm)
    <3>1. j - 1 \in i+1..Len(t) /\ t[j - 1] = s[j] BY <1>1
    <3> QED BY <3>1
  <2> QED BY <2>1, <2>2 DEF Agrees, N
<1>9. \A i, k \in 1..Len(t) :
         i < k /\ Says(t[i], nm) /\ Says(t[k], nm) => \E j \in i+1..k-1 : Takes(t[j], nm)
  <2> SUFFICES ASSUME NEW i \in 1..Len(t), NEW k \in 1..Len(t), i < k,
                      Says(t[i], nm), Says(t[k], nm)
               PROVE  \E j \in i+1..k-1 : Takes(t[j], nm)
    OBVIOUS
  <2>1. i+1 \in 1..N /\ k+1 \in 1..N /\ Says(s[i+1], nm) /\ Says(s[k+1], nm) BY <1>1
  <2>2. PICK j \in (i+1)+1..(k+1)-1 : Takes(s[j], nm) BY <2>1 DEF Agrees, N
  <2>3. t[j-1] = s[j] /\ j-1 \in i+1..k-1 BY <1>1, <2>1
  <2> QED BY <2>2, <2>3
<1>10. \A i \in 1..Len(t) :
         Says(t[i], nm) /\ (\A j \in 1..i-1 : ~Says(t[j], nm) /\ ~Takes(t[j], nm)) => now = NoBox
  <2> SUFFICES ASSUME NEW i \in 1..Len(t), Says(t[i], nm),
                      \A j \in 1..i-1 : ~Says(t[j], nm) /\ ~Takes(t[j], nm)
               PROVE  now = NoBox
    OBVIOUS
  <2>1. i + 1 \in 1..N /\ 1 < i + 1 /\ Says(s[i + 1], nm) BY <1>1
  <2>2. ASSUME NEW j \in 2..i PROVE ~Says(s[j], nm) /\ ~Takes(s[j], nm)
    <3>1. j - 1 \in 1..i-1 /\ t[j - 1] = s[j] BY <1>1
    <3> QED BY <3>1
  <2>3. ~Says(s[1], nm)
    <3> SUFFICES ASSUME Says(s[1], nm) PROVE FALSE OBVIOUS
    <3>1. PICK j \in 1+1..(i+1)-1 : Takes(s[j], nm) BY <1>1, <2>1 DEF Agrees, N
    <3>2. j \in 2..i BY <2>1
    <3> QED BY <2>2, <3>1, <3>2
  <2>4. CASE Takes(s[1], nm) BY <1>4, <2>4
  <2>5. CASE ~Takes(s[1], nm)
    <3>1. \A j \in 1..(i+1)-1 : ~Says(s[j], nm) /\ ~Takes(s[j], nm) BY <2>2, <2>3, <2>5
    <3> QED BY <1>5, <2>1, <2>3, <2>5, <3>1 DEF Agrees, N
  <2> QED BY <2>4, <2>5
<1>11. there # NoBox /\ ~Silent(nm, t) =>
         \E i \in 1..Len(t) : Says(t[i], nm) /\ \A j \in i+1..Len(t) : ~Takes(t[j], nm)
  <2> SUFFICES ASSUME there # NoBox, ~Silent(nm, t)
               PROVE  \E i \in 1..Len(t) : Says(t[i], nm) /\ \A j \in i+1..Len(t) : ~Takes(t[j], nm)
    OBVIOUS
  <2>1. PICK a \in 1..Len(t) : Says(t[a], nm) \/ Takes(t[a], nm) BY DEF Silent
  <2>2. a + 1 \in 2..N /\ (Says(s[a + 1], nm) \/ Takes(s[a + 1], nm)) BY <1>1, <2>1
  <2>3. ~Silent(nm, s) BY <1>1, <2>2 DEF Silent, N
  <2>4. PICK i \in 1..N : Says(s[i], nm) /\ \A j \in i+1..N : ~Takes(s[j], nm)
    BY <2>3 DEF Agrees, N
  <2>5. i # 1
    <3> SUFFICES ASSUME i = 1 PROVE FALSE OBVIOUS
    <3>1. Says(s[a + 1], nm) BY <1>1, <2>2, <2>4
    <3>2. PICK j \in 1+1..(a+1)-1 : Takes(s[j], nm) BY <1>1, <2>2, <2>4, <3>1 DEF Agrees, N
    <3> QED BY <1>1, <2>2, <2>4, <3>2
  <2>6. i - 1 \in 1..Len(t) /\ t[i - 1] = s[i] BY <1>1, <2>5
  <2>7. ASSUME NEW j \in (i-1)+1..Len(t) PROVE ~Takes(t[j], nm)
    <3>1. j + 1 \in i+1..N /\ t[j] = s[j + 1] BY <1>1, <2>6
    <3> QED BY <2>4, <3>1
  <2> QED BY <2>4, <2>6, <2>7
<1> QED BY <1>7, <1>8, <1>9, <1>10, <1>11 DEF Agrees, t, now

\* A stream that says nothing of a name still says nothing once one message is
\* read, and that message says nothing of it.
LEMMA SilentTail ==
    ASSUME NEW nm, NEW s \in Seq(Messages), s # <<>>, Silent(nm, s)
    PROVE  Silent(nm, Tail(s)) /\ ~Says(Head(s), nm) /\ ~Takes(Head(s), nm)
<1> DEFINE t == Tail(s)
<1>1. /\ Len(s) \in Nat /\ Len(s) > 0 /\ Len(t) = Len(s) - 1 /\ Head(s) = s[1]
      /\ \A i \in 1..Len(t) : t[i] = s[i + 1]
  OBVIOUS
<1> HIDE DEF t
<1>2. Silent(nm, t) BY <1>1 DEF Silent
<1>3. ~Says(Head(s), nm) /\ ~Takes(Head(s), nm) BY <1>1 DEF Silent
<1> QED BY <1>2, <1>3 DEF t

\* The names a newcomer is told: each once, to a peer that has none.
LEMMA SyncAgrees ==
    ASSUME NEW nm, NEW m, NEW s \in Seq(Messages), NEW q \in Seq(Messages), NEW there,
           Silent(nm, s), \A i \in 1..Len(q) : ~Takes(q[i], nm),
           \A i, k \in 1..Len(q) : Says(q[i], nm) /\ Says(q[k], nm) => i = k,
           \A i \in 1..Len(q) : Says(q[i], nm) => there = [node |-> m, pid |-> q[i].pid],
           there # NoBox => \E i \in 1..Len(q) : Says(q[i], nm)
    PROVE  Agrees(nm, m, s \o q, NoBox, there)
<1> DEFINE t == s \o q
           N == Len(s)
<1>1. /\ N \in Nat /\ Len(q) \in Nat /\ Len(t) = N + Len(q)
      /\ \A i \in 1..N : t[i] = s[i]
      /\ \A i \in 1..Len(q) : t[N + i] = q[i]
  OBVIOUS
<1> HIDE DEF t, N
<1>2. ASSUME NEW i \in 1..Len(t)
      PROVE  ~Takes(t[i], nm) /\ (Says(t[i], nm) => i - N \in 1..Len(q) /\ t[i] = q[i - N])
  <2>1. CASE i \in 1..N BY <1>1, <2>1 DEF Silent, N
  <2>2. CASE i \notin 1..N
    <3>1. i - N \in 1..Len(q) /\ N + (i - N) = i BY <1>1, <2>2
    <3>2. t[i] = q[i - N] BY <1>1, <3>1
    <3> QED BY <3>1, <3>2
  <2> QED BY <2>1, <2>2
<1>3. Silent(nm, t) => there = NoBox
  <2> SUFFICES ASSUME there # NoBox PROVE ~Silent(nm, t) OBVIOUS
  <2>1. PICK i \in 1..Len(q) : Says(q[i], nm) OBVIOUS
  <2>2. N + i \in 1..Len(t) /\ t[N + i] = q[i] BY <1>1
  <2> QED BY <2>1, <2>2 DEF Silent
<1>4. ASSUME NEW i \in 1..Len(t), Says(t[i], nm) PROVE there = [node |-> m, pid |-> t[i].pid]
  <2>1. i - N \in 1..Len(q) /\ t[i] = q[i - N] BY <1>2, <1>4
  <2> QED BY <1>4, <2>1
<1>5. ASSUME NEW i \in 1..Len(t), NEW k \in 1..Len(t), Says(t[i], nm), Says(t[k], nm) PROVE i = k
  <2>1. i - N \in 1..Len(q) /\ t[i] = q[i - N] BY <1>2, <1>5
  <2>2. k - N \in 1..Len(q) /\ t[k] = q[k - N] BY <1>2, <1>5
  <2>3. i - N = k - N BY <1>5, <2>1, <2>2
  <2> QED BY <1>1, <2>3
<1>6. there # NoBox =>
         \E i \in 1..Len(t) : Says(t[i], nm) /\ \A j \in i+1..Len(t) : ~Takes(t[j], nm)
  <2> SUFFICES ASSUME there # NoBox
               PROVE  \E i \in 1..Len(t) : Says(t[i], nm) /\ \A j \in i+1..Len(t) : ~Takes(t[j], nm)
    OBVIOUS
  <2>1. PICK i \in 1..Len(q) : Says(q[i], nm) OBVIOUS
  <2>2. N + i \in 1..Len(t) /\ t[N + i] = q[i] BY <1>1
  <2>3. ASSUME NEW j \in (N+i)+1..Len(t) PROVE ~Takes(t[j], nm)
    <3>1. j \in 1..Len(t) BY <1>1
    <3> QED BY <1>2, <3>1
  <2> QED BY <2>1, <2>2, <2>3
<1>7. \A i, k \in 1..Len(t) :
         i < k /\ Says(t[i], nm) /\ Says(t[k], nm) => \E j \in i+1..k-1 : Takes(t[j], nm)
  BY <1>1, <1>5
<1> QED BY <1>3, <1>4, <1>6, <1>7 DEF Agrees, t

\* SetToSeq lists a finite set.
LEMMA SetToSeqFacts ==
    ASSUME NEW S, IsFiniteSet(S)
    PROVE  LET q == SetToSeq(S) IN
           /\ q \in Seq(S)
           /\ \A i, k \in 1..Len(q) : q[i] = q[k] => i = k
           /\ \A x \in S : \E i \in 1..Len(q) : q[i] = x
<1> DEFINE q == SetToSeq(S)
           K == Cardinality(S)
<1>1. K \in Nat /\ ExistsBijection(1..K, S) BY FS_CardinalityType
<1>2. \E f \in [1..K -> S] : IsInjective(f)
  BY <1>1 DEF ExistsBijection, Bijection, Injection, IsInjective
<1>3. q \in [1..K -> S] /\ IsInjective(q) BY <1>2 DEF SetToSeq
<1> HIDE DEF q, K
<1>4. q \in Seq(S) /\ Len(q) = K BY <1>1, <1>3
<1>5. q \in Injection(1..K, S) BY <1>3 DEF Injection, IsInjective
<1>6. Cardinality(1..K) = K /\ IsFiniteSet(1..K) BY <1>1, FS_Interval
<1>7. q \in Surjection(1..K, S) BY <1>5, <1>6, FS_Injection DEF K
<1> QED BY <1>3, <1>4, <1>7 DEF Surjection, IsInjective, q

\* The stream replayed at the reader gives what the sender has.
LEMMA ReplayAgrees ==
    ASSUME NEW nm \in Names, NEW m, NEW s \in Seq(Messages), NEW table, NEW there,
           Agrees(nm, m, s, table[nm], there)
    PROVE  Replay(table, m, s)[nm] = there
<1> DEFINE here == table[nm]
           takes == {i \in DOMAIN s : s[i].type = "UNREGISTER" /\ s[i].name = nm}
           says  == {i \in DOMAIN s : /\ s[i].type = "REGISTER" /\ s[i].name = nm
                                       /\ \A j \in takes : j < i}
           first == CHOOSE i \in says : \A j \in says : i <= j
           r == Replay(table, m, s)[nm]
<1> SUFFICES r = there OBVIOUS
<1>1. DOMAIN s = 1..Len(s) /\ Len(s) \in Nat OBVIOUS
<1>2. \A i \in 1..Len(s) : i \in takes <=> Takes(s[i], nm) BY <1>1 DEF Takes
<1>3. \A i \in 1..Len(s) : i \in says <=> Says(s[i], nm) /\ \A j \in i+1..Len(s) : ~Takes(s[j], nm)
  <2> SUFFICES ASSUME NEW i \in 1..Len(s), s[i].type = "REGISTER", s[i].name = nm
               PROVE  (\A j \in takes : j < i) <=> \A j \in i+1..Len(s) : ~Takes(s[j], nm)
    BY <1>1 DEF Says
  <2>1. i \notin takes OBVIOUS
  <2> QED BY <1>1, <1>2, <2>1
<1>4. r = CASE takes = {} /\ here # NoBox -> here
            [] (takes # {} \/ here = NoBox) /\ says = {} -> NoBox
            [] OTHER -> [node |-> m, pid |-> s[first].pid]
  BY DEF Replay
<1>5. takes \subseteq 1..Len(s) /\ says \subseteq 1..Len(s) BY <1>1
<1> HIDE DEF takes, says, r
<1>6. CASE takes = {} /\ here # NoBox
  <2>1. Silent(nm, s)
    <3> SUFFICES ASSUME NEW i \in 1..Len(s), Says(s[i], nm) PROVE FALSE BY <1>2, <1>6 DEF Silent
    <3>1. PICK k \in 1..i-1 : Says(s[k], nm) \/ Takes(s[k], nm) BY <1>6 DEF Agrees
    <3>2. k \in 1..Len(s) /\ k < i /\ Says(s[k], nm) BY <1>2, <1>6, <3>1
    <3>3. PICK j \in k+1..i-1 : Takes(s[j], nm) BY <3>2 DEF Agrees
    <3> QED BY <1>1, <1>2, <1>6, <3>2, <3>3
  <2> QED BY <1>4, <1>6, <2>1 DEF Agrees
<1>7. CASE ~(takes = {} /\ here # NoBox) /\ says = {}
  <2>1. r = NoBox BY <1>4, <1>7
  <2>2. CASE Silent(nm, s) BY <1>2, <1>5, <1>7, <2>1, <2>2 DEF Agrees, Silent
  <2>3. CASE ~Silent(nm, s) BY <1>3, <1>7, <2>1, <2>3 DEF Agrees
  <2> QED BY <2>2, <2>3
<1>8. CASE ~(takes = {} /\ here # NoBox) /\ says # {}
  <2>1. PICK i \in says : TRUE BY <1>8
  <2>2. \A k \in says : k = i
    <3> SUFFICES ASSUME NEW k \in says, k # i PROVE FALSE OBVIOUS
    <3>1. i \in 1..Len(s) /\ k \in 1..Len(s) /\ Says(s[i], nm) /\ Says(s[k], nm) BY <1>3, <1>5
    <3>2. CASE i < k
      <4>1. PICK j \in i+1..k-1 : Takes(s[j], nm) BY <3>1, <3>2 DEF Agrees
      <4> QED BY <1>3, <3>1, <4>1
    <3>3. CASE k < i
      <4>1. PICK j \in k+1..i-1 : Takes(s[j], nm) BY <3>1, <3>3 DEF Agrees
      <4> QED BY <1>3, <3>1, <4>1
    <3> QED BY <3>1, <3>2, <3>3
  <2>3. first = i
    <3>1. i \in says /\ \A j \in says : i <= j BY <1>5, <2>2
    <3> QED BY <2>2, <3>1
  <2>4. r = [node |-> m, pid |-> s[first].pid] BY <1>4, <1>8
  <2>5. there = [node |-> m, pid |-> s[i].pid] BY <1>3, <1>5 DEF Agrees
  <2> QED BY <2>3, <2>4, <2>5
<1> QED BY <1>6, <1>7, <1>8

-----------------------------------------------------------------------------
(* The order of a stream. *)

\* What a message's type says.
LEMMA MessageTypes ==
    ASSUME NEW msg \in Messages
    PROVE  /\ msg.type = "AUTH" => msg = Auth
           /\ msg.type = "EOF" => msg = Eof
           /\ msg.type = "REGISTER" => msg # Auth /\ msg # Eof /\ msg.name \in Names /\ msg.pid \in 1..MaxPid
           /\ msg.type = "UNREGISTER" => msg # Auth /\ msg # Eof /\ msg.name \in Names
           /\ Auth # Eof /\ Auth \in Messages /\ Eof \in Messages
  BY DEF Messages, Auth, Eof, RegisterMsg, UnRegisterMsg

\* The end of the stream is in s, or its reader is gone.
Ended(c, s) == c = "none" \/ (s # <<>> /\ Last(s) = Eof)

\* Sending to a stream that has not ended.
LEMMA SendOrdered ==
    ASSUME NEW c, NEW s \in Seq(Messages), NEW q \in Seq(Messages), Ordered(c, s), ~Ended(c, s),
           \A i \in 1..Len(q) : q[i] # Auth /\ q[i] # Eof
    PROVE  Ordered(c, s \o q) /\ ~Ended(c, s \o q)
<1> DEFINE t == s \o q
           N == Len(s)
<1>1. /\ N \in Nat /\ Len(q) \in Nat /\ Len(t) = N + Len(q) /\ t \in Seq(Messages)
      /\ \A i \in 1..N : t[i] = s[i]
      /\ \A i \in 1..Len(q) : t[N + i] = q[i]
  OBVIOUS
<1>2. s # <<>> <=> N > 0 BY <1>1
<1>3. t # <<>> <=> Len(t) > 0 BY <1>1
<1> HIDE DEF t, N
<1>4. \A i \in 1..N : s[i] # Eof BY <1>1, <1>2 DEF Ordered, Ended, Last, N
<1>5. ASSUME NEW i \in 1..Len(t) PROVE t[i] # Eof /\ (i > N => t[i] # Auth)
  <2>1. CASE i \in 1..N BY <1>1, <1>4, <2>1
  <2>2. CASE i \notin 1..N
    <3>1. i - N \in 1..Len(q) /\ N + (i - N) = i BY <1>1, <2>2
    <3>2. t[i] = q[i - N] BY <1>1, <3>1
    <3> QED BY <3>1, <3>2
  <2> QED BY <2>1, <2>2
<1>6. c # "none" BY DEF Ended
<1>7. c = "anon" => t # <<>> /\ (t[1] = Auth \/ t[1] = Eof) BY <1>1, <1>2, <1>3 DEF Ordered
<1>8. ASSUME c = "authed", NEW i \in 1..Len(t) PROVE t[i] # Auth
  <2>1. CASE i > N BY <1>5, <2>1
  <2>2. CASE ~(i > N)
    <3>1. i \in 1..Len(s) /\ t[i] = s[i] BY <1>1, <2>2 DEF N
    <3> QED BY <1>8, <3>1 DEF Ordered
  <2> QED BY <2>1, <2>2
<1>9. ASSUME NEW i \in 2..Len(t) PROVE t[i] # Auth
  <2>1. i \in 1..Len(t) BY <1>1
  <2>2. CASE i > N BY <1>5, <2>1, <2>2
  <2>3. CASE ~(i > N)
    <3>1. i \in 2..Len(s) /\ t[i] = s[i] BY <1>1, <2>3 DEF N
    <3> QED BY <3>1 DEF Ordered
  <2> QED BY <2>2, <2>3
<1>10. Ordered(c, t) BY <1>5, <1>6, <1>7, <1>8, <1>9 DEF Ordered
<1>11. ~Ended(c, t)
  <2>1. t # <<>> => Len(t) \in 1..Len(t) BY <1>1, <1>3
  <2> QED BY <1>5, <1>6, <2>1 DEF Ended, Last
<1> QED BY <1>10, <1>11 DEF t

\* Reading a stream.
LEMMA ReadOrdered ==
    ASSUME NEW c \in {"none", "anon", "authed"}, NEW s \in Seq(Messages), Ordered(c, s), s # <<>>
    PROVE  /\ Tail(s) \in Seq(Messages) /\ Head(s) \in Messages
           /\ Head(s) = Auth => c = "anon" /\ Ordered("authed", Tail(s))
           /\ Head(s) = Eof => Ordered("none", Tail(s))
           /\ Head(s) # Auth /\ Head(s) # Eof => c = "authed" /\ Ordered(c, Tail(s))
           /\ Head(s) # Eof /\ Ended(c, s) => Ended("authed", Tail(s))
<1> DEFINE t == Tail(s)
           N == Len(s)
<1>1. /\ N \in Nat /\ N > 0 /\ Len(t) = N - 1 /\ Head(s) = s[1] /\ t \in Seq(Messages)
      /\ Head(s) \in Messages /\ \A i \in 1..N-1 : t[i] = s[i + 1]
  OBVIOUS
<1>2. (t = <<>> <=> N = 1) BY <1>1
<1> HIDE DEF t, N
<1>3. c # "none" BY DEF Ordered
<1>4. \A i \in 1..Len(t) : t[i] # Auth /\ (t[i] = Eof => i = Len(t)) BY <1>1 DEF Ordered, N
<1>5. Ordered("authed", t) BY <1>1, <1>4 DEF Ordered
<1>6. s[1] = Auth => c = "anon" BY <1>1, <1>3 DEF Ordered, N
<1>7. s[1] = Eof => N = 1 BY <1>1 DEF Ordered, N
<1>8. s[1] = Eof => Ordered("none", t) BY <1>1, <1>2, <1>4, <1>7 DEF Ordered
<1>9. s[1] # Auth /\ s[1] # Eof => c = "authed" BY <1>3 DEF Ordered
<1>10. s[1] # Eof /\ Ended(c, s) => Ended("authed", t)
  <2> SUFFICES ASSUME s[1] # Eof, Ended(c, s) PROVE Ended("authed", t) OBVIOUS
  <2>1. s[N] = Eof /\ N # 1 BY <1>1, <1>3 DEF Ended, Last, N
  <2>2. t # <<>> /\ t[Len(t)] = s[N] BY <1>1, <1>2, <2>1
  <2> QED BY <2>1, <2>2 DEF Ended, Last
<1> QED BY <1>1, <1>5, <1>6, <1>8, <1>9, <1>10 DEF t

\* Cutting a stream.
LEMMA CutOrdered ==
    ASSUME NEW c, NEW s \in Seq(Messages), Ordered(c, s), ~Ended(c, s), NEW i \in 0..Len(s)
    PROVE  LET t == Append(SubSeq(s, 1, i), Eof) IN
           t \in Seq(Messages) /\ Ordered(c, t) /\ Ended(c, t)
<1> DEFINE t == Append(SubSeq(s, 1, i), Eof)
           N == Len(s)
<1>1. N \in Nat /\ i \in Nat /\ Eof \in Messages /\ Auth # Eof BY DEF Messages, Auth, Eof
<1>2. SubSeq(s, 1, i) \in Seq(Messages) /\ Len(SubSeq(s, 1, i)) = i
      /\ \A j \in 1..i : SubSeq(s, 1, i)[j] = s[j]
  <2>1. 1 \in Int /\ i \in Int /\ \A j \in 1..i : s[j] \in Messages BY <1>1
  <2>2. /\ SubSeq(s, 1, i) \in Seq(Messages)
        /\ Len(SubSeq(s, 1, i)) = IF 1 <= i THEN i - 1 + 1 ELSE 0
        /\ \A j \in 1..i-1+1 : SubSeq(s, 1, i)[j] = s[1 + j - 1]
    BY <2>1, SubSeqProperties
  <2> QED BY <1>1, <2>2
<1>3. /\ t \in Seq(Messages) /\ Len(t) = i + 1 /\ t[i + 1] = Eof /\ t # <<>>
      /\ \A j \in 1..i : t[j] = s[j]
  <2> DEFINE u == SubSeq(s, 1, i)
  <2>1. u \in Seq(Messages) /\ Len(u) = i /\ \A j \in 1..i : u[j] = s[j] BY <1>2
  <2>2. t = Append(u, Eof) OBVIOUS
  <2> HIDE DEF u, t
  <2> QED BY <1>1, <2>1, <2>2
<1>4. s # <<>> <=> N > 0 BY <1>1
<1> HIDE DEF t, N
<1>5. \A j \in 1..N : s[j] # Eof BY <1>1, <1>4 DEF Ordered, Ended, Last, N
<1>6. \A j \in 1..Len(t) : t[j] = Eof => j = Len(t) BY <1>1, <1>3, <1>5 DEF N
<1>7. c = "anon" => t[1] = Auth \/ t[1] = Eof
  <2>1. CASE i = 0 BY <1>3, <2>1
  <2>2. CASE i # 0
    <3>1. t[1] = s[1] BY <1>1, <1>3, <2>2
    <3> QED BY <3>1 DEF Ordered
  <2> QED BY <2>1, <2>2
<1>8. c = "authed" => \A j \in 1..Len(t) : t[j] # Auth BY <1>1, <1>3 DEF Ordered, N
<1>9. \A j \in 2..Len(t) : t[j] # Auth BY <1>1, <1>3 DEF Ordered, N
<1>10. c # "none" BY DEF Ended
<1>11. Ordered(c, t) BY <1>3, <1>6, <1>7, <1>8, <1>9, <1>10 DEF Ordered
<1>12. Ended(c, t) BY <1>3 DEF Ended, Last
<1> QED BY <1>3, <1>11, <1>12 DEF t

-----------------------------------------------------------------------------
(* The map, the events and the fetches. *)

NamedTables == [Nodes -> [Keys -> Mbid \cup {NoBox}]]
FetchStates == {"idle", "waiting", "dropped", "answered", "gone"}

\* OnNamedMailboxUp enters a name that is new, tells the listeners and
\* answers the fetches that waited for it.
LEMMA UpEffect ==
    ASSUME Typed, NEW n \in Nodes, NEW k \in Keys, NEW mbid \in Mbid,
           OnNamedMailboxUp(n, k, mbid)
    PROVE  /\ named' \in NamedTables /\ view' \in [Nodes -> SUBSET Keys]
           /\ status' \in [Fetches -> FetchStates]
           /\ \A p \in Nodes, j \in Keys :
                 named'[p][j] = IF p = n /\ j = k /\ named[n][k] = NoBox THEN mbid ELSE named[p][j]
           /\ ListenersAgree => ListenersAgree'
           /\ NoMissedFetch => NoMissedFetch'
<1>1. named \in NamedTables /\ view \in [Nodes -> SUBSET Keys] /\ status \in [Fetches -> FetchStates]
  BY DEF Typed, NamedTables, FetchStates
<1>2. named' = [named EXCEPT ![n][k] = IF @ = NoBox THEN mbid ELSE @]
      /\ view' = [view EXCEPT ![n] = @ \cup {k}]
  BY DEF OnNamedMailboxUp
<1>3. named' \in NamedTables
  <2>1. [named[n] EXCEPT ![k] = IF @ = NoBox THEN mbid ELSE @] \in [Keys -> Mbid \cup {NoBox}]
    BY <1>1 DEF NamedTables
  <2> QED BY <1>1, <1>2, <2>1 DEF NamedTables
<1>4. view' \in [Nodes -> SUBSET Keys] BY <1>1, <1>2
<1>5. ASSUME NEW p \in Nodes, NEW j \in Keys
      PROVE  named'[p][j] = IF p = n /\ j = k /\ named[n][k] = NoBox THEN mbid ELSE named[p][j]
  BY <1>1, <1>2 DEF NamedTables
<1>6. /\ DOMAIN status' = Fetches
      /\ \A f \in Fetches :
            status'[f] = CASE FetchAt[f] = n /\ status[f] = "dropped" -> "gone"
                           [] FetchAt[f] = n /\ status[f] = "waiting" /\ k \in FetchWants[f] -> "answered"
                           [] OTHER -> status[f]
      /\ status' = [f \in Fetches |-> status'[f]]
  BY DEF OnNamedMailboxUp, CheckAsyncFetchList
<1>7. \A f \in Fetches : status'[f] \in FetchStates BY <1>1, <1>6 DEF FetchStates
<1>8. status' \in [Fetches -> FetchStates] BY <1>6, <1>7
<1>9. mbid # NoBox BY MailboxAssumption
<1>10. ListenersAgree => ListenersAgree'
  <2> SUFFICES ASSUME ListenersAgree, NEW p \in Nodes
               PROVE  view'[p] = {j \in Keys : named'[p][j] # NoBox}
    BY DEF ListenersAgree
  <2>1. view[p] = {j \in Keys : named[p][j] # NoBox} BY DEF ListenersAgree
  <2>2. view'[p] = IF p = n THEN view[p] \cup {k} ELSE view[p] BY <1>1, <1>2
  <2> QED BY <1>5, <1>9, <2>1, <2>2
<1>11. NoMissedFetch => NoMissedFetch'
  <2> SUFFICES ASSUME NoMissedFetch, NEW f \in Fetches, status'[f] = "waiting",
                      NEW j \in FetchWants[f]
               PROVE  named'[FetchAt[f]][j] = NoBox
    BY DEF NoMissedFetch
  <2>1. FetchAt[f] \in Nodes /\ j \in Keys BY MailboxAssumption
  <2>2. status[f] = "waiting" /\ ~(FetchAt[f] = n /\ k \in FetchWants[f]) BY <1>6
  <2>3. named[FetchAt[f]][j] = NoBox BY <2>2 DEF NoMissedFetch
  <2> QED BY <1>5, <2>1, <2>2, <2>3
<1> QED BY <1>3, <1>4, <1>5, <1>8, <1>10, <1>11

\* OnNamedMailboxDown takes names away and tells the listeners.
LEMMA DownEffect ==
    ASSUME Typed, NEW n \in Nodes, NEW K \in SUBSET Keys, OnNamedMailboxesDown(n, K)
    PROVE  /\ named' \in NamedTables /\ view' \in [Nodes -> SUBSET Keys]
           /\ status' \in [Fetches -> FetchStates]
           /\ \A p \in Nodes, j \in Keys :
                 named'[p][j] = IF p = n /\ j \in K THEN NoBox ELSE named[p][j]
           /\ ListenersAgree => ListenersAgree'
           /\ NoMissedFetch => NoMissedFetch'
<1>1. named \in NamedTables /\ view \in [Nodes -> SUBSET Keys] /\ status \in [Fetches -> FetchStates]
  BY DEF Typed, NamedTables, FetchStates
<1>2. /\ named' = [named EXCEPT ![n] = [k \in Keys |-> IF k \in K THEN NoBox ELSE @[k]]]
      /\ view' = [view EXCEPT ![n] = @ \ K] /\ status' = status
  BY DEF OnNamedMailboxesDown
<1>3. named' \in NamedTables
  <2>1. [k \in Keys |-> IF k \in K THEN NoBox ELSE named[n][k]] \in [Keys -> Mbid \cup {NoBox}]
    BY <1>1 DEF NamedTables
  <2> QED BY <1>1, <1>2, <2>1 DEF NamedTables
<1>4. view' \in [Nodes -> SUBSET Keys] BY <1>1, <1>2
<1>5. ASSUME NEW p \in Nodes, NEW j \in Keys
      PROVE  named'[p][j] = IF p = n /\ j \in K THEN NoBox ELSE named[p][j]
  BY <1>1, <1>2 DEF NamedTables
<1>6. ListenersAgree => ListenersAgree'
  <2> SUFFICES ASSUME ListenersAgree, NEW p \in Nodes
               PROVE  view'[p] = {j \in Keys : named'[p][j] # NoBox}
    BY DEF ListenersAgree
  <2>1. view[p] = {j \in Keys : named[p][j] # NoBox} BY DEF ListenersAgree
  <2>2. view'[p] = IF p = n THEN view[p] \ K ELSE view[p] BY <1>1, <1>2
  <2> QED BY <1>5, <2>1, <2>2
<1>7. NoMissedFetch => NoMissedFetch'
  <2> SUFFICES ASSUME NoMissedFetch, NEW f \in Fetches, status'[f] = "waiting",
                      NEW j \in FetchWants[f]
               PROVE  named'[FetchAt[f]][j] = NoBox
    BY DEF NoMissedFetch
  <2>1. FetchAt[f] \in Nodes /\ j \in Keys BY MailboxAssumption
  <2>2. named[FetchAt[f]][j] = NoBox BY <1>2 DEF NoMissedFetch
  <2> QED BY <1>5, <2>1, <2>2
<1> QED BY <1>1, <1>2, <1>3, <1>4, <1>5, <1>6, <1>7

-----------------------------------------------------------------------------
(* The steps. *)

Streams == [Nodes -> [Nodes -> Seq(Messages)]]

\* LocalNamesLive, name by name and mailbox by mailbox.
LiveInv ==
    \A n \in Nodes :
        /\ \A nm \in Names : named[n][<<nm, n>>] # NoBox =>
              [pid |-> named[n][<<nm, n>>].pid, name |-> nm] \in boxes[n]
        /\ \A mb \in boxes[n] : mb.name # Unnamed =>
              named[n][<<mb.name, n>>] # NoBox /\ named[n][<<mb.name, n>>].pid = mb.pid

\* What every step does for the invariants.
Preserved ==
    /\ NetInv'
    /\ ReplicaInv => ReplicaInv'
    /\ ListenersAgree => ListenersAgree'
    /\ NoMissedFetch => NoMissedFetch'
    /\ ~Duplicates /\ LiveInv => LiveInv'

\* A pair whose stream and names are left alone.
LEMMA FramePair ==
    ASSUME NEW n \in Nodes, NEW m \in Nodes, PairInv(n, m),
           conn'[m][n] = conn[m][n], chan'[m][n] = chan[m][n], Open(n, m)' => Open(n, m),
           \A nm \in Names : /\ named'[n][<<nm, m>>] = named[n][<<nm, m>>]
                             /\ named'[m][<<nm, m>>] = named[m][<<nm, m>>]
    PROVE  PairInv(n, m)'
<1> SUFFICES ASSUME n # m, NEW nm \in Names
             PROVE  Synced(nm, m, Open(n, m)', conn'[m][n], chan'[m][n],
                           named'[n][<<nm, m>>], named'[m][<<nm, m>>])
  BY DEF PairInv
<1>1. Synced(nm, m, Open(n, m), conn[m][n], chan[m][n], named[n][<<nm, m>>], named[m][<<nm, m>>])
  BY DEF PairInv
<1> QED BY <1>1 DEF Synced

\* The streams after a broadcast.
LEMMA BroadcastEffect ==
    ASSUME Typed, NEW p \in Nodes, NEW msg \in Messages, chan' = Broadcast(p, msg)
    PROVE  /\ chan' \in Streams
           /\ \A a, b \in Nodes :
                 chan'[a][b] = IF a = p /\ conn[p][b] = "authed" /\ ~Cut(p, b)
                               THEN Append(chan[a][b], msg) ELSE chan[a][b]
<1> DEFINE row == [b \in Nodes |-> IF conn[p][b] = "authed" /\ ~Cut(p, b)
                                   THEN Append(chan[p][b], msg) ELSE chan[p][b]]
<1>1. chan \in Streams /\ \A a, b \in Nodes : chan[a][b] \in Seq(Messages) BY DEF Typed, Streams
<1>2. \A b \in Nodes : chan[p][b] \o <<msg>> = Append(chan[p][b], msg) BY <1>1
<1>3. chan' = [chan EXCEPT ![p] = row]
  BY <1>1, <1>2 DEF Broadcast, Sent, Streams
<1>4. row \in [Nodes -> Seq(Messages)]
  <2>1. \A b \in Nodes : row[b] \in Seq(Messages) BY <1>1
  <2> QED BY <2>1
<1>5. chan' \in Streams BY <1>1, <1>3, <1>4 DEF Streams
<1>6. \A a \in Nodes : chan'[a] = IF a = p THEN row ELSE chan[a] BY <1>1, <1>3 DEF Streams
<1>7. ASSUME NEW a \in Nodes, NEW b \in Nodes
      PROVE  chan'[a][b] = IF a = p /\ conn[p][b] = "authed" /\ ~Cut(p, b)
                           THEN Append(chan[a][b], msg) ELSE chan[a][b]
  <2>1. CASE a = p
    <3>1. chan'[a][b] = row[b] BY <1>6, <2>1
    <3> QED BY <2>1, <3>1
  <2>2. CASE a # p BY <1>6, <2>2
  <2> QED BY <2>1, <2>2
<1> QED BY <1>5, <1>7

LEMMA OneIsAppend ==
    ASSUME NEW S, NEW s \in Seq(S), NEW x \in S
    PROVE  Append(s, x) = s \o <<x>>
OBVIOUS

\* A node announces a change of one of its names.
LEMMA AnnounceKeeps ==
    ASSUME NetInv, NEW p \in Nodes, NEW nm0 \in Names, NEW msg \in Messages, NEW new,
           conn' = conn, dial' = dial, chan' = Broadcast(p, msg),
           \A q \in Nodes, k \in Keys :
              named'[q][k] = IF q = p /\ k = <<nm0, p>> THEN new ELSE named[q][k],
           \/ Says(msg, nm0) /\ named[p][<<nm0, p>>] = NoBox /\ new = [node |-> p, pid |-> msg.pid]
           \/ Takes(msg, nm0) /\ new = NoBox
    PROVE  /\ chan' \in Streams /\ NotToSelf' /\ StreamsOrdered' /\ NamesOfPeersOnly' /\ Finite'
           /\ ReplicaInv => ReplicaInv'
<1>1. Typed /\ NotToSelf /\ StreamsOrdered /\ NamesOfPeersOnly /\ Finite BY DEF NetInv
<1>2. /\ chan' \in Streams
      /\ \A a, b \in Nodes :
            chan'[a][b] = IF a = p /\ conn[p][b] = "authed" /\ ~Cut(p, b)
                          THEN Append(chan[a][b], msg) ELSE chan[a][b]
  BY <1>1, BroadcastEffect
<1>3. \A a, b \in Nodes : chan[a][b] \in Seq(Messages) BY <1>1 DEF Typed
<1>4. msg # Auth /\ msg # Eof BY MessageTypes DEF Says, Takes
<1>5. \A a, b \in Nodes : Cut(a, b) <=> Ended(conn[b][a], chan[a][b]) BY DEF Cut, Ended
<1>6. \A a, b \in Nodes : Cut(a, b)' <=> Ended(conn[b][a], chan'[a][b]) BY DEF Cut, Ended
<1>7. \A a, b \in Nodes : Cut(a, b) => Cut(a, b)' BY <1>2, <1>5, <1>6
<1>8. NotToSelf' BY <1>1 DEF NotToSelf
<1>9. StreamsOrdered'
  <2> SUFFICES ASSUME NEW a \in Nodes, NEW b \in Nodes PROVE Ordered(conn[b][a], chan'[a][b])
    BY DEF StreamsOrdered
  <2>1. Ordered(conn[b][a], chan[a][b]) BY <1>1 DEF StreamsOrdered
  <2>2. CASE chan'[a][b] = chan[a][b] BY <2>1, <2>2
  <2>3. CASE chan'[a][b] # chan[a][b]
    <3>1. ~Ended(conn[b][a], chan[a][b]) /\ chan'[a][b] = Append(chan[a][b], msg)
      BY <1>2, <1>5, <2>3
    <3> DEFINE q == <<msg>>
    <3>2. q \in Seq(Messages) /\ \A i \in 1..Len(q) : q[i] = msg OBVIOUS
    <3>3. chan'[a][b] = chan[a][b] \o q
      <4>1. PICK s \in Seq(Messages) : s = chan[a][b] BY <1>3
      <4>2. Append(s, msg) = s \o q BY OneIsAppend
      <4> QED BY <3>1, <4>1, <4>2
    <3> HIDE DEF q
    <3>4. \A i \in 1..Len(q) : q[i] # Auth /\ q[i] # Eof BY <1>4, <3>2
    <3>5. chan[a][b] \in Seq(Messages) BY <1>3
    <3> QED BY <2>1, <3>1, <3>2, <3>3, <3>4, <3>5, SendOrdered
  <2> QED BY <2>2, <2>3
<1>10. NamesOfPeersOnly'
  <2> SUFFICES ASSUME NEW n \in Nodes, NEW k \in Keys, named'[n][k] # NoBox
               PROVE  named'[n][k].node = k[2] /\ (k[2] = n \/ conn'[n][k[2]] = "authed")
    BY DEF NamesOfPeersOnly
  <2>1. CASE n = p /\ k = <<nm0, p>> BY <2>1
  <2>2. CASE ~(n = p /\ k = <<nm0, p>>)
    <3>1. named'[n][k] = named[n][k] BY <2>2
    <3> QED BY <1>1, <3>1 DEF NamesOfPeersOnly
  <2> QED BY <2>1, <2>2
<1>11. Finite'
  <2> SUFFICES ASSUME NEW n \in Nodes PROVE IsFiniteSet(LocalNames(n)') BY DEF Finite
  <2>1. LocalNames(n)' \subseteq LocalNames(n) \cup {nm0}
    <3> SUFFICES ASSUME NEW nm \in Names, named'[n][<<nm, n>>] # NoBox, nm # nm0
                 PROVE  named[n][<<nm, n>>] # NoBox
      BY DEF LocalNames
    <3>1. <<nm, n>> \in Keys /\ <<nm, n>> # <<nm0, p>> BY DEF Keys
    <3> QED BY <3>1
  <2>2. IsFiniteSet(LocalNames(n)) BY <1>1 DEF Finite
  <2>3. IsFiniteSet(LocalNames(n) \cup {nm0}) BY <2>2, FS_AddElement
  <2> QED BY <2>1, <2>3, FS_Subset
<1>12. ReplicaInv => ReplicaInv'
  <2> SUFFICES ASSUME ReplicaInv, NEW n \in Nodes, NEW m \in Nodes PROVE PairInv(n, m)'
    BY DEF ReplicaInv
  <2>1. PairInv(n, m) BY DEF ReplicaInv
  <2>2. Open(n, m)' => Open(n, m) BY <1>7 DEF Open
  <2>3. CASE m # p
    <3>1. conn'[m][n] = conn[m][n] /\ chan'[m][n] = chan[m][n] BY <1>2, <2>3
    <3>2. ASSUME NEW nm \in Names
          PROVE  /\ named'[n][<<nm, m>>] = named[n][<<nm, m>>]
                 /\ named'[m][<<nm, m>>] = named[m][<<nm, m>>]
      <4>1. <<nm, m>> \in Keys /\ <<nm, m>> # <<nm0, p>> BY <2>3 DEF Keys
      <4> QED BY <4>1
    <3> QED BY <2>1, <2>2, <3>1, <3>2, FramePair
  <2>4. CASE m = p
    <3> SUFFICES ASSUME n # p, NEW nm \in Names
                 PROVE  Synced(nm, p, Open(n, p)', conn[p][n], chan'[p][n],
                               named'[n][<<nm, p>>], named'[p][<<nm, p>>])
      BY <2>4 DEF PairInv
    <3>1. Synced(nm, p, Open(n, p), conn[p][n], chan[p][n], named[n][<<nm, p>>], named[p][<<nm, p>>])
      BY <2>1, <2>4 DEF PairInv
    <3>2. <<nm, p>> \in Keys /\ (<<nm, p>> = <<nm0, p>> <=> nm = nm0) BY DEF Keys
    <3>3. named'[n][<<nm, p>>] = named[n][<<nm, p>>] BY <3>2
    <3>4. CASE conn[p][n] = "authed" /\ Open(n, p)'
      <4>1. Open(n, p) BY <2>2, <2>4, <3>4
      <4>2. chan'[p][n] = Append(chan[p][n], msg) BY <1>2, <3>4, <4>1 DEF Open
      <4>3. Agrees(nm, p, chan[p][n], named[n][<<nm, p>>], named[p][<<nm, p>>])
        BY <3>1, <3>4, <4>1 DEF Synced
      <4>4. CASE nm = nm0
        <5>1. named'[p][<<nm, p>>] = new BY <3>2, <4>4
        <5>2. Agrees(nm, p, chan'[p][n], named[n][<<nm, p>>], new)
          BY <1>3, <4>2, <4>3, <4>4, SayAgrees, TakeAgrees
        <5> QED BY <3>3, <3>4, <5>1, <5>2 DEF Synced
      <4>5. CASE nm # nm0
        <5>1. named'[p][<<nm, p>>] = named[p][<<nm, p>>] BY <3>2, <4>5
        <5>2. ~Says(msg, nm) /\ ~Takes(msg, nm) BY <4>5 DEF Says, Takes
        <5>3. Agrees(nm, p, chan'[p][n], named[n][<<nm, p>>], named[p][<<nm, p>>])
          BY <1>3, <4>2, <4>3, <5>2, OtherAgrees
        <5> QED BY <3>3, <3>4, <5>1, <5>3 DEF Synced
      <4> QED BY <4>4, <4>5
    <3>5. CASE conn[p][n] # "authed"
      <4>1. chan'[p][n] = chan[p][n] BY <1>2, <3>5
      <4> QED BY <2>2, <2>4, <3>1, <3>3, <3>5, <4>1 DEF Synced
    <3>6. CASE ~Open(n, p)' BY <3>6 DEF Synced
    <3> QED BY <3>4, <3>5, <3>6
  <2> QED BY <2>3, <2>4
<1> QED BY <1>2, <1>8, <1>9, <1>10, <1>11, <1>12

\* A step that leaves the connections and the names alone.
LEMMA StillKeeps ==
    ASSUME NetInv, Typed', conn' = conn, chan' = chan, dial' = dial, named' = named
    PROVE  NetInv' /\ (ReplicaInv => ReplicaInv')
<1>1. NotToSelf' BY DEF NetInv, NotToSelf
<1>2. StreamsOrdered' BY DEF NetInv, StreamsOrdered
<1>3. NamesOfPeersOnly' BY DEF NetInv, NamesOfPeersOnly
<1>4. Finite' BY DEF NetInv, Finite, LocalNames
<1>5. ReplicaInv => ReplicaInv'
  <2> SUFFICES ASSUME ReplicaInv, NEW n \in Nodes, NEW m \in Nodes PROVE PairInv(n, m)'
    BY DEF ReplicaInv
  <2>1. PairInv(n, m) BY DEF ReplicaInv
  <2>2. Open(n, m)' => Open(n, m) BY DEF Open, Cut
  <2> QED BY <2>1, <2>2, FramePair
<1> QED BY <1>1, <1>2, <1>3, <1>4, <1>5 DEF NetInv

\* UnRegister, whoever calls it.
LEMMA UnRegisterKeeps ==
    ASSUME NetInv, NEW p \in Nodes, NEW nm \in Names \cup {Unnamed}, UnRegister(p, nm),
           conn' = conn, dial' = dial, restarts' = restarts, breaks' = breaks,
           pids' \in [Nodes -> 0..MaxPid],
           boxes' \in [Nodes -> SUBSET [pid : 1..MaxPid, name : Names \cup {Unnamed}]]
    PROVE  /\ NetInv' /\ (ReplicaInv => ReplicaInv')
           /\ ListenersAgree => ListenersAgree'
           /\ NoMissedFetch => NoMissedFetch'
           /\ \A q \in Nodes, k \in Keys :
                 named'[q][k] = IF q = p /\ nm # Unnamed /\ k = <<nm, p>> THEN NoBox ELSE named[q][k]
<1>1. Typed BY DEF NetInv
<1>2. CASE nm = Unnamed
  <2>1. named' = named /\ view' = view /\ status' = status /\ chan' = chan BY <1>2 DEF UnRegister
  <2>2. Typed' BY <1>1, <2>1 DEF Typed
  <2>3. ListenersAgree => ListenersAgree' BY <2>1 DEF ListenersAgree
  <2>4. NoMissedFetch => NoMissedFetch' BY <2>1 DEF NoMissedFetch
  <2> QED BY <1>2, <2>1, <2>2, <2>3, <2>4, StillKeeps
<1>3. CASE nm # Unnamed
  <2>1. nm \in Names /\ <<nm, p>> \in Keys BY <1>3 DEF Keys
  <2>2. OnNamedMailboxesDown(p, {<<nm, p>>}) /\ chan' = Broadcast(p, UnRegisterMsg(nm))
    BY <1>3 DEF UnRegister
  <2>3. /\ named' \in NamedTables /\ view' \in [Nodes -> SUBSET Keys]
        /\ status' \in [Fetches -> FetchStates]
        /\ \A q \in Nodes, j \in Keys :
              named'[q][j] = IF q = p /\ j \in {<<nm, p>>} THEN NoBox ELSE named[q][j]
        /\ ListenersAgree => ListenersAgree'
        /\ NoMissedFetch => NoMissedFetch'
    BY <1>1, <2>1, <2>2, DownEffect
  <2>4. UnRegisterMsg(nm) \in Messages /\ Takes(UnRegisterMsg(nm), nm)
    BY <2>1 DEF Messages, UnRegisterMsg, Takes
  <2>5. /\ chan' \in Streams /\ NotToSelf' /\ StreamsOrdered' /\ NamesOfPeersOnly' /\ Finite'
        /\ ReplicaInv => ReplicaInv'
    <3>1. \A q \in Nodes, k \in Keys :
             named'[q][k] = IF q = p /\ k = <<nm, p>> THEN NoBox ELSE named[q][k]
      BY <2>3
    <3> QED BY <2>1, <2>2, <2>4, <3>1, AnnounceKeeps
  <2>6. Typed' BY <1>1, <2>3, <2>5 DEF Typed, Streams, NamedTables, FetchStates
  <2> QED BY <1>3, <2>3, <2>5, <2>6 DEF NetInv
<1> QED BY <1>2, <1>3

\* Register of a name that is free, or of no name.
LEMMA RegisterKeeps ==
    ASSUME NetInv, NEW p \in Nodes, NEW nm \in Names \cup {Unnamed}, Register(p, nm),
           pids[p] < MaxPid, nm \in Names => named[p][<<nm, p>>] = NoBox,
           conn' = conn, dial' = dial, restarts' = restarts, breaks' = breaks
    PROVE  Preserved
<1> DEFINE pid == pids[p] + 1
           mb == [pid |-> pid, name |-> nm]
           mbid == [node |-> p, pid |-> pid]
<1>1. Typed BY DEF NetInv
<1>2. pid \in 1..MaxPid /\ pids' = [pids EXCEPT ![p] = pid] /\ pids' \in [Nodes -> 0..MaxPid]
  BY <1>1, MailboxAssumption DEF Typed, Register
<1>3. /\ boxes' = [boxes EXCEPT ![p] = @ \cup {mb}]
      /\ boxes' \in [Nodes -> SUBSET [pid : 1..MaxPid, name : Names \cup {Unnamed}]]
  <2>1. mb \in [pid : 1..MaxPid, name : Names \cup {Unnamed}] BY <1>2
  <2>2. boxes' = [boxes EXCEPT ![p] = @ \cup {mb}] BY DEF Register
  <2> HIDE DEF mb
  <2> QED BY <1>1, <2>1, <2>2 DEF Typed
<1>4. \A q \in Nodes : boxes'[q] = IF q = p THEN boxes[q] \cup {mb} ELSE boxes[q]
  BY <1>1, <1>3 DEF Typed
<1>5. CASE nm = Unnamed
  <2>1. named' = named /\ view' = view /\ status' = status /\ chan' = chan BY <1>5 DEF Register
  <2>2. Typed' BY <1>1, <1>2, <1>3, <2>1 DEF Typed
  <2>3. ListenersAgree => ListenersAgree' BY <2>1 DEF ListenersAgree
  <2>4. NoMissedFetch => NoMissedFetch' BY <2>1 DEF NoMissedFetch
  <2>5. LiveInv => LiveInv'
    <3>1. mb.name = Unnamed BY <1>5
    <3> HIDE DEF mb
    <3>2. \A q \in Nodes : boxes[q] \subseteq boxes'[q] BY <1>4
    <3>3. \A q \in Nodes : \A b \in boxes'[q] : b.name # Unnamed => b \in boxes[q] BY <1>4, <3>1
    <3> QED BY <2>1, <3>2, <3>3 DEF LiveInv
  <2> QED BY <2>1, <2>2, <2>3, <2>4, <2>5, StillKeeps DEF Preserved
<1>6. CASE nm # Unnamed
  <2>1. nm \in Names /\ <<nm, p>> \in Keys /\ named[p][<<nm, p>>] = NoBox BY <1>6 DEF Keys
  <2>2. OnNamedMailboxUp(p, <<nm, p>>, mbid) /\ chan' = Broadcast(p, RegisterMsg(nm, pid))
    BY <1>6 DEF Register
  <2>3. mbid \in Mbid /\ mbid # NoBox /\ mbid.pid = pid BY <1>2, MailboxAssumption DEF Mbid
  <2>4. /\ RegisterMsg(nm, pid) \in Messages /\ Says(RegisterMsg(nm, pid), nm)
        /\ RegisterMsg(nm, pid).pid = pid
    BY <1>2, <2>1 DEF Messages, RegisterMsg, Says
  <2> HIDE DEF mbid
  <2>5. /\ named' \in NamedTables /\ view' \in [Nodes -> SUBSET Keys]
        /\ status' \in [Fetches -> FetchStates]
        /\ \A q \in Nodes, j \in Keys :
              named'[q][j] = IF q = p /\ j = <<nm, p>> /\ named[p][<<nm, p>>] = NoBox
                             THEN mbid ELSE named[q][j]
        /\ ListenersAgree => ListenersAgree'
        /\ NoMissedFetch => NoMissedFetch'
    BY <1>1, <2>1, <2>2, <2>3, UpEffect
  <2>6. \A q \in Nodes, k \in Keys :
           named'[q][k] = IF q = p /\ k = <<nm, p>> THEN mbid ELSE named[q][k]
    BY <2>1, <2>5
  <2>7. mbid = [node |-> p, pid |-> RegisterMsg(nm, pid).pid] BY <2>4 DEF mbid
  <2>8. /\ chan' \in Streams /\ NotToSelf' /\ StreamsOrdered' /\ NamesOfPeersOnly' /\ Finite'
        /\ ReplicaInv => ReplicaInv'
    BY <2>1, <2>2, <2>4, <2>6, <2>7, AnnounceKeeps
  <2>9. NetInv'
    BY <1>1, <1>2, <1>3, <2>5, <2>8 DEF NetInv, Typed, Streams, NamedTables, FetchStates
  <2>10. LiveInv => LiveInv'
    <3> SUFFICES ASSUME LiveInv, NEW n \in Nodes
                 PROVE  /\ \A x \in Names : named'[n][<<x, n>>] # NoBox =>
                              [pid |-> named'[n][<<x, n>>].pid, name |-> x] \in boxes'[n]
                        /\ \A b \in boxes'[n] : b.name # Unnamed =>
                              named'[n][<<b.name, n>>] # NoBox /\ named'[n][<<b.name, n>>].pid = b.pid
      BY DEF LiveInv
    <3>1. \A x \in Names : <<x, n>> \in Keys /\ (<<x, n>> = <<nm, p>> <=> x = nm /\ n = p)
      BY DEF Keys
    <3>2. \A x \in Names : named'[n][<<x, n>>] = IF n = p /\ x = nm THEN mbid ELSE named[n][<<x, n>>]
      BY <2>6, <3>1
    <3>3. mb.pid = pid /\ mb.name = nm OBVIOUS
    <3>4. ASSUME NEW x \in Names, named'[n][<<x, n>>] # NoBox
          PROVE  [pid |-> named'[n][<<x, n>>].pid, name |-> x] \in boxes'[n]
      <4>1. CASE n = p /\ x = nm BY <1>4, <2>3, <3>2, <4>1
      <4>2. CASE ~(n = p /\ x = nm) BY <1>4, <3>2, <3>4, <4>2 DEF LiveInv
      <4> QED BY <4>1, <4>2
    <3>5. ASSUME NEW b \in boxes'[n], b.name # Unnamed
          PROVE  named'[n][<<b.name, n>>] # NoBox /\ named'[n][<<b.name, n>>].pid = b.pid
      <4>1. b.name \in Names BY <1>3, <3>5
      <4>2. CASE n = p /\ b = mb BY <2>1, <2>3, <3>2, <3>3, <4>2
      <4>3. CASE ~(n = p /\ b = mb)
        <5>1. b \in boxes[n] BY <1>4, <4>3
        <5>2. named[n][<<b.name, n>>] # NoBox /\ named[n][<<b.name, n>>].pid = b.pid
          BY <3>5, <5>1 DEF LiveInv
        <5>3. ~(n = p /\ b.name = nm) BY <2>1, <5>2
        <5> QED BY <3>2, <4>1, <5>2, <5>3
      <4> QED BY <4>2, <4>3
    <3> QED BY <3>4, <3>5
  <2> QED BY <2>5, <2>8, <2>9, <2>10 DEF Preserved
<1> QED BY <1>5, <1>6

\* Mailbox::Create, which registers the mailbox or, when its name is in use,
\* takes that name away.
LEMMA CreateKeeps ==
    ASSUME NetInv, NEW p \in Nodes, NEW nm \in Titles, Create(p, nm) PROVE Preserved
<1>1. Typed /\ nm \in Names \cup {Unnamed} BY MailboxAssumption DEF NetInv
<1>2. conn' = conn /\ dial' = dial /\ restarts' = restarts /\ breaks' = breaks BY DEF Create
<1>3. CASE nm \in Names /\ named[p][<<nm, p>>] # NoBox
  <2>1. Duplicates /\ UnRegister(p, nm) /\ boxes' = boxes /\ pids' = pids BY <1>3 DEF Create
  <2>2. pids' \in [Nodes -> 0..MaxPid]
        /\ boxes' \in [Nodes -> SUBSET [pid : 1..MaxPid, name : Names \cup {Unnamed}]]
    BY <1>1, <2>1 DEF Typed
  <2> QED BY <1>1, <1>2, <2>1, <2>2, UnRegisterKeeps DEF Preserved
<1>4. CASE ~(nm \in Names /\ named[p][<<nm, p>>] # NoBox)
  <2>1. Register(p, nm) /\ pids[p] < MaxPid BY <1>4 DEF Create
  <2> QED BY <1>1, <1>2, <1>4, <2>1, RegisterKeeps
<1> QED BY <1>3, <1>4

\* ~Mailbox of a mailbox that is registered.
LEMMA DestroyKeeps ==
    ASSUME NetInv, NEW p \in Nodes, NEW mb \in boxes[p], Destroy(p, mb) PROVE Preserved
<1>1. /\ Typed /\ mb \in [pid : 1..MaxPid, name : Names \cup {Unnamed}]
      /\ mb.name \in Names \cup {Unnamed}
  BY DEF NetInv, Typed
<1>2. /\ UnRegister(p, mb.name) /\ boxes' = [boxes EXCEPT ![p] = @ \ {mb}]
      /\ conn' = conn /\ dial' = dial /\ restarts' = restarts /\ breaks' = breaks /\ pids' = pids
  BY DEF Destroy
<1>3. /\ pids' \in [Nodes -> 0..MaxPid]
      /\ boxes' \in [Nodes -> SUBSET [pid : 1..MaxPid, name : Names \cup {Unnamed}]]
      /\ \A q \in Nodes : boxes'[q] = IF q = p THEN boxes[q] \ {mb} ELSE boxes[q]
  BY <1>1, <1>2 DEF Typed
<1>4. /\ NetInv' /\ (ReplicaInv => ReplicaInv')
      /\ ListenersAgree => ListenersAgree'
      /\ NoMissedFetch => NoMissedFetch'
      /\ \A q \in Nodes, k \in Keys :
            named'[q][k] = IF q = p /\ mb.name # Unnamed /\ k = <<mb.name, p>>
                           THEN NoBox ELSE named[q][k]
  BY <1>1, <1>2, <1>3, UnRegisterKeeps
<1>5. LiveInv => LiveInv'
  <2> SUFFICES ASSUME LiveInv, NEW n \in Nodes
               PROVE  /\ \A x \in Names : named'[n][<<x, n>>] # NoBox =>
                            [pid |-> named'[n][<<x, n>>].pid, name |-> x] \in boxes'[n]
                      /\ \A b \in boxes'[n] : b.name # Unnamed =>
                            named'[n][<<b.name, n>>] # NoBox /\ named'[n][<<b.name, n>>].pid = b.pid
    BY DEF LiveInv
  <2>1. \A x \in Names : <<x, n>> \in Keys /\ (<<x, n>> = <<mb.name, p>> <=> x = mb.name /\ n = p)
    BY DEF Keys
  <2>2. \A x \in Names : named'[n][<<x, n>>] = IF n = p /\ x = mb.name THEN NoBox ELSE named[n][<<x, n>>]
    <3>1. Unnamed \notin Names BY MailboxAssumption
    <3> QED BY <1>4, <2>1, <3>1
  <2>3. ASSUME NEW x \in Names, named'[n][<<x, n>>] # NoBox
        PROVE  [pid |-> named'[n][<<x, n>>].pid, name |-> x] \in boxes'[n]
    <3> DEFINE e == [pid |-> named[n][<<x, n>>].pid, name |-> x]
    <3>1. ~(n = p /\ x = mb.name) /\ named'[n][<<x, n>>] = named[n][<<x, n>>] BY <2>2, <2>3
    <3>2. e \in boxes[n] BY <2>3, <3>1 DEF LiveInv
    <3>3. e.name = x OBVIOUS
    <3> HIDE DEF e
    <3>4. e \in boxes'[n] BY <1>3, <3>1, <3>2, <3>3
    <3> QED BY <3>1, <3>4 DEF e
  <2>4. ASSUME NEW b \in boxes'[n], b.name # Unnamed
        PROVE  named'[n][<<b.name, n>>] # NoBox /\ named'[n][<<b.name, n>>].pid = b.pid
    <3>1. b \in boxes[n] /\ (n = p => b # mb) BY <1>3
    <3>2. b \in [pid : 1..MaxPid, name : Names \cup {Unnamed}] BY <1>3
    <3>3. named[n][<<b.name, n>>] # NoBox /\ named[n][<<b.name, n>>].pid = b.pid
      BY <2>4, <3>1 DEF LiveInv
    <3>4. ~(n = p /\ b.name = mb.name)
      <4> SUFFICES ASSUME n = p, b.name = mb.name PROVE FALSE OBVIOUS
      <4>1. named[n][<<mb.name, n>>].pid = mb.pid BY <2>4 DEF LiveInv
      <4>2. b.pid = mb.pid BY <3>3, <4>1
      <4> QED BY <1>1, <3>1, <3>2, <4>2
    <3> QED BY <2>2, <2>4, <3>2, <3>3, <3>4
  <2> QED BY <2>3, <2>4
<1> QED BY <1>4, <1>5 DEF Preserved

\* FetchNamedMailbox looks, and waits only for what is not there.
LEMMA FetchKeeps ==
    ASSUME NetInv, NEW f \in Fetches, Fetch(f) \/ DropLinker(f) PROVE Preserved
<1>1. Typed BY DEF NetInv
<1>2. /\ conn' = conn /\ chan' = chan /\ dial' = dial /\ named' = named /\ boxes' = boxes
      /\ pids' = pids /\ view' = view /\ restarts' = restarts /\ breaks' = breaks
  BY DEF Fetch, DropLinker, cluster
<1>3. \E st \in FetchStates : status' = [status EXCEPT ![f] = st]
  BY DEF Fetch, DropLinker, FetchStates
<1>4. Typed'
  <2>1. status' \in [Fetches -> FetchStates] BY <1>1, <1>3 DEF Typed, FetchStates
  <2> QED BY <1>1, <1>2, <2>1 DEF Typed, FetchStates
<1>5. ListenersAgree => ListenersAgree' BY <1>2 DEF ListenersAgree
<1>6. NoMissedFetch => NoMissedFetch'
  <2> SUFFICES ASSUME NoMissedFetch, NEW h \in Fetches, status'[h] = "waiting", NEW j \in FetchWants[h]
               PROVE  named[FetchAt[h]][j] = NoBox
    BY <1>2 DEF NoMissedFetch
  <2>1. status \in [Fetches -> FetchStates] BY <1>1 DEF Typed, FetchStates
  <2>2. CASE h # f
    <3>1. status[h] = "waiting" BY <1>3, <2>1, <2>2
    <3> QED BY <3>1 DEF NoMissedFetch
  <2>3. CASE h = f
    <3>1. ~DropLinker(f) BY <2>1, <2>3 DEF DropLinker
    <3>2. status'[f] = IF \E k \in FetchWants[f] : named[FetchAt[f]][k] # NoBox
                       THEN "answered" ELSE "waiting"
      BY <2>1, <3>1 DEF Fetch
    <3> QED BY <2>3, <3>2
  <2> QED BY <2>2, <2>3
<1>7. LiveInv => LiveInv' BY <1>2 DEF LiveInv
<1> QED BY <1>2, <1>4, <1>5, <1>6, <1>7, StillKeeps DEF Preserved

\* What a step that leaves names, mailboxes and fetches alone keeps.
LEMMA TablesStill ==
    ASSUME named' = named, boxes' = boxes, view' = view, status' = status
    PROVE  /\ ListenersAgree => ListenersAgree'
           /\ NoMissedFetch => NoMissedFetch'
           /\ LiveInv => LiveInv'
           /\ Finite => Finite'
<1>1. ListenersAgree => ListenersAgree' BY DEF ListenersAgree
<1>2. NoMissedFetch => NoMissedFetch' BY DEF NoMissedFetch
<1>3. LiveInv => LiveInv' BY DEF LiveInv
<1>4. Finite => Finite' BY DEF Finite, LocalNames
<1> QED BY <1>1, <1>2, <1>3, <1>4

\* A connection is made: neither end has a name of the other.
LEMMA ConnectKeeps ==
    ASSUME NetInv, NEW p \in Nodes, NEW q \in Nodes, Connect(p, q) PROVE Preserved
<1> DEFINE IsPair(a, b) == (a = p /\ b = q) \/ (a = q /\ b = p)
<1>1. Typed /\ NotToSelf /\ StreamsOrdered /\ NamesOfPeersOnly /\ Finite BY DEF NetInv
<1>2. /\ q \in dial[p] /\ conn[p][q] = "none" /\ conn[q][p] = "none"
      /\ dial' = [dial EXCEPT ![p] = @ \ {q}]
      /\ conn' = [conn EXCEPT ![p][q] = "anon", ![q][p] = "anon"]
      /\ chan' = [chan EXCEPT ![p][q] = <<Auth>>, ![q][p] = <<Auth>>]
      /\ boxes' = boxes /\ pids' = pids /\ named' = named /\ view' = view /\ status' = status
      /\ restarts' = restarts /\ breaks' = breaks
  BY DEF Connect
<1>3. p # q
  <2>1. <<p, q>> \in Dials BY <1>1, <1>2 DEF NotToSelf
  <2> QED BY <2>1, MailboxAssumption
<1>4. <<Auth>> \in Seq(Messages)
  <2>1. Auth \in Messages BY DEF Messages
  <2> QED BY <2>1
<1>5. /\ conn' \in [Nodes -> [Nodes -> {"none", "anon", "authed"}]]
      /\ \A a, b \in Nodes : conn'[a][b] = IF IsPair(a, b) THEN "anon" ELSE conn[a][b]
  BY <1>1, <1>2, <1>3 DEF Typed
<1>6. /\ chan' \in Streams
      /\ \A a, b \in Nodes : chan'[a][b] = IF IsPair(a, b) THEN <<Auth>> ELSE chan[a][b]
  BY <1>1, <1>2, <1>3, <1>4 DEF Typed, Streams
<1>7. /\ dial' \in [Nodes -> SUBSET Nodes]
      /\ \A a \in Nodes : dial'[a] \subseteq dial[a]
  BY <1>1, <1>2 DEF Typed
<1> HIDE DEF IsPair
<1>8. Typed' BY <1>1, <1>2, <1>5, <1>6, <1>7 DEF Typed, Streams
<1>9. NotToSelf'
  <2>1. \A n \in Nodes : ~IsPair(n, n) BY <1>3 DEF IsPair
  <2> QED BY <1>1, <1>5, <1>7, <2>1 DEF NotToSelf
<1>10. Ordered("anon", <<Auth>>) BY DEF Ordered, Auth, Eof
<1>11. StreamsOrdered'
  <2> SUFFICES ASSUME NEW a \in Nodes, NEW b \in Nodes PROVE Ordered(conn'[b][a], chan'[a][b])
    BY DEF StreamsOrdered
  <2>1. IsPair(a, b) <=> IsPair(b, a) BY DEF IsPair
  <2> QED BY <1>1, <1>5, <1>6, <1>10, <2>1 DEF StreamsOrdered
<1>12. \A a, b \in Nodes : IsPair(a, b) => a # b /\ conn[a][b] = "none" BY <1>2, <1>3 DEF IsPair
<1>13. NamesOfPeersOnly'
  <2> SUFFICES ASSUME NEW n \in Nodes, NEW k \in Keys, named[n][k] # NoBox
               PROVE  named[n][k].node = k[2] /\ (k[2] = n \/ conn'[n][k[2]] = "authed")
    BY <1>2 DEF NamesOfPeersOnly
  <2>1. k[2] \in Nodes BY DEF Keys
  <2>2. named[n][k].node = k[2] /\ (k[2] = n \/ conn[n][k[2]] = "authed")
    BY <1>1 DEF NamesOfPeersOnly
  <2> QED BY <1>5, <1>12, <2>1, <2>2
<1>14. ReplicaInv => ReplicaInv'
  <2> SUFFICES ASSUME ReplicaInv, NEW n \in Nodes, NEW m \in Nodes PROVE PairInv(n, m)'
    BY DEF ReplicaInv
  <2>1. IsPair(n, m) <=> IsPair(m, n) BY DEF IsPair
  <2>2. CASE IsPair(n, m)
    <3> SUFFICES ASSUME NEW nm \in Names
                 PROVE  Synced(nm, m, Open(n, m)', conn'[m][n], chan'[m][n],
                               named'[n][<<nm, m>>], named'[m][<<nm, m>>])
      BY DEF PairInv
    <3>1. <<nm, m>> \in Keys /\ <<nm, m>>[2] = m BY DEF Keys
    <3>2. named'[n][<<nm, m>>] = NoBox BY <1>1, <1>2, <1>12, <2>2, <3>1 DEF NamesOfPeersOnly
    <3>3. Silent(nm, <<Auth>>) BY DEF Silent, Says, Takes, Auth
    <3>4. conn'[m][n] = "anon" /\ chan'[m][n] = <<Auth>> BY <1>5, <1>6, <2>1, <2>2
    <3> QED BY <3>2, <3>3, <3>4 DEF Synced
  <2>3. CASE ~IsPair(n, m)
    <3>1. PairInv(n, m) BY DEF ReplicaInv
    <3>2. conn'[m][n] = conn[m][n] /\ chan'[m][n] = chan[m][n]
          /\ conn'[n][m] = conn[n][m] /\ chan'[n][m] = chan[n][m]
      BY <1>5, <1>6, <2>1, <2>3
    <3>3. Open(n, m)' => Open(n, m) BY <3>2 DEF Open, Cut
    <3> QED BY <1>2, <3>1, <3>2, <3>3, FramePair
  <2> QED BY <2>2, <2>3
<1> QED BY <1>1, <1>2, <1>8, <1>9, <1>11, <1>13, <1>14, TablesStill DEF NetInv, Preserved

\* A connection is cut in both directions.
LEMMA BreakKeeps ==
    ASSUME NetInv, NEW p \in Nodes, NEW q \in Nodes, Break(p, q) PROVE Preserved
<1>1. Typed /\ NotToSelf /\ StreamsOrdered /\ NamesOfPeersOnly /\ Finite BY DEF NetInv
<1>2. PICK i \in 0..Len(chan[p][q]), j \in 0..Len(chan[q][p]) :
         chan' = [chan EXCEPT ![p][q] = Append(SubSeq(@, 1, i), Eof),
                              ![q][p] = Append(SubSeq(@, 1, j), Eof)]
  BY DEF Break
<1>3. /\ ~Cut(p, q) /\ ~Cut(q, p) /\ conn' = conn /\ dial' = dial /\ boxes' = boxes /\ pids' = pids
      /\ named' = named /\ view' = view /\ status' = status /\ restarts' = restarts
      /\ breaks' \in 0..MaxBreaks
  BY <1>1, MailboxAssumption DEF Break, Typed
<1>4. p # q BY <1>1, <1>3 DEF NotToSelf, Cut
<1> DEFINE u == Append(SubSeq(chan[p][q], 1, i), Eof)
           v == Append(SubSeq(chan[q][p], 1, j), Eof)
<1>5. \A a, b \in Nodes : chan[a][b] \in Seq(Messages) BY <1>1 DEF Typed
<1>6. \A a, b \in Nodes : Cut(a, b) <=> Ended(conn[b][a], chan[a][b]) BY DEF Cut, Ended
<1>7. u \in Seq(Messages) /\ Ordered(conn[q][p], u) /\ Ended(conn[q][p], u)
  <2>1. Ordered(conn[q][p], chan[p][q]) /\ ~Ended(conn[q][p], chan[p][q])
    BY <1>1, <1>3, <1>6 DEF StreamsOrdered
  <2> QED BY <1>5, <2>1, CutOrdered
<1>8. v \in Seq(Messages) /\ Ordered(conn[p][q], v) /\ Ended(conn[p][q], v)
  <2>1. Ordered(conn[p][q], chan[q][p]) /\ ~Ended(conn[p][q], chan[q][p])
    BY <1>1, <1>3, <1>6 DEF StreamsOrdered
  <2> QED BY <1>5, <2>1, CutOrdered
<1>9. chan' = [chan EXCEPT ![p][q] = u, ![q][p] = v] BY <1>1, <1>2, <1>4 DEF Typed
<1> HIDE DEF u, v
<1>10. /\ chan' \in Streams
       /\ chan'[p][q] = u /\ chan'[q][p] = v
       /\ \A a, b \in Nodes :
            (a = p /\ b = q) \/ (a = q /\ b = p) \/ chan'[a][b] = chan[a][b]
  BY <1>1, <1>4, <1>7, <1>8, <1>9 DEF Typed, Streams
<1>11. Typed' BY <1>1, <1>3, <1>10 DEF Typed, Streams
<1>12. NotToSelf' BY <1>1, <1>3 DEF NotToSelf
<1>13. StreamsOrdered'
  <2> SUFFICES ASSUME NEW a \in Nodes, NEW b \in Nodes PROVE Ordered(conn[b][a], chan'[a][b])
    BY <1>3 DEF StreamsOrdered
  <2>1. Ordered(conn[b][a], chan[a][b]) BY <1>1 DEF StreamsOrdered
  <2> QED BY <1>7, <1>8, <1>10, <2>1
<1>14. NamesOfPeersOnly' BY <1>1, <1>3 DEF NamesOfPeersOnly
<1>15. ReplicaInv => ReplicaInv'
  <2> SUFFICES ASSUME ReplicaInv, NEW n \in Nodes, NEW m \in Nodes PROVE PairInv(n, m)'
    BY DEF ReplicaInv
  <2>1. PairInv(n, m) BY DEF ReplicaInv
  <2>2. Cut(p, q)' /\ Cut(q, p)' BY <1>3, <1>7, <1>8, <1>10 DEF Cut, Ended
  <2>3. CASE (n = p /\ m = q) \/ (n = q /\ m = p)
    <3>1. ~Open(n, m)' BY <2>2, <2>3 DEF Open
    <3> QED BY <3>1 DEF PairInv, Synced
  <2>4. CASE ~((n = p /\ m = q) \/ (n = q /\ m = p))
    <3>1. chan'[m][n] = chan[m][n] /\ chan'[n][m] = chan[n][m] BY <1>10, <2>4
    <3>2. Open(n, m)' => Open(n, m) BY <1>3, <3>1 DEF Open, Cut
    <3> QED BY <1>3, <2>1, <3>1, <3>2, FramePair
  <2> QED BY <2>3, <2>4
<1> QED BY <1>1, <1>3, <1>11, <1>12, <1>13, <1>14, <1>15, TablesStill DEF NetInv, Preserved

\* A node dies and comes back with nothing; its peers' streams from it end.
LEMMA RestartKeeps ==
    ASSUME NetInv, NEW p \in Nodes, Restart(p) PROVE Preserved
<1>1. Typed /\ NotToSelf /\ StreamsOrdered /\ NamesOfPeersOnly /\ Finite BY DEF NetInv
<1>2. /\ conn' = [conn EXCEPT ![p] = [m \in Nodes |-> "none"]]
      /\ dial' = [dial EXCEPT ![p] = {m \in Nodes : <<p, m>> \in Dials}]
      /\ boxes' = [boxes EXCEPT ![p] = {}]
      /\ pids' = [pids EXCEPT ![p] = 0]
      /\ named' = [named EXCEPT ![p] = NoNames]
      /\ view' = [view EXCEPT ![p] = {}]
      /\ status' = [f \in Fetches |-> IF FetchAt[f] = p /\ status[f] # "idle"
                                      THEN "gone" ELSE status[f]]
      /\ restarts' \in 0..MaxRestarts /\ breaks' = breaks
  BY <1>1, MailboxAssumption DEF Restart, Typed
<1>3. ASSUME NEW a \in Nodes, NEW b \in Nodes
      PROVE  /\ b = p => chan'[a][b] = <<>>
             /\ b # p /\ a = p /\ ~Cut(p, b) => chan'[a][b] = Append(chan[a][b], Eof)
             /\ b # p /\ ~(a = p /\ ~Cut(p, b)) => chan'[a][b] = chan[a][b]
  <2>1. chan'[a][b] = CASE b = p -> <<>>
                        [] a = p /\ ~Cut(p, b) -> Append(chan[p][b], Eof)
                        [] OTHER -> chan[a][b]
    BY DEF Restart
  <2>2. CASE b = p
    <3>1. (CASE b = p -> <<>>
             [] a = p /\ ~Cut(p, b) -> Append(chan[p][b], Eof)
             [] OTHER -> chan[a][b]) = <<>>
      BY <1>1, <2>2 DEF NotToSelf, Cut
    <3> QED BY <2>1, <2>2, <3>1
  <2>3. CASE b # p BY <2>1, <2>3
  <2> QED BY <2>2, <2>3
<1>4. \A a, b \in Nodes : chan[a][b] \in Seq(Messages) BY <1>1 DEF Typed
<1>5. Eof \in Messages BY DEF Messages
<1>6. \A a, b \in Nodes : chan'[a][b] \in Seq(Messages)
  <2> SUFFICES ASSUME NEW a \in Nodes, NEW b \in Nodes PROVE chan'[a][b] \in Seq(Messages)
    OBVIOUS
  <2>1. CASE b = p
    <3>1. chan'[a][b] = <<>> BY <1>3, <2>1
    <3>2. <<>> \in Seq(Messages) OBVIOUS
    <3> QED BY <3>1, <3>2
  <2>2. CASE b # p /\ a = p /\ ~Cut(p, b)
    <3>1. chan'[a][b] = Append(chan[a][b], Eof) BY <1>3, <2>2
    <3>2. Append(chan[a][b], Eof) \in Seq(Messages) BY <1>4, <1>5
    <3> QED BY <3>1, <3>2
  <2>3. CASE b # p /\ ~(a = p /\ ~Cut(p, b)) BY <1>3, <1>4, <2>3
  <2> QED BY <2>1, <2>2, <2>3
<1>7. chan' \in Streams
  <2>1. chan' = [a \in Nodes |-> [b \in Nodes |-> chan'[a][b]]] BY DEF Restart
  <2> QED BY <1>6, <2>1 DEF Streams
<1>8. NoNames \in [Keys -> Mbid \cup {NoBox}] /\ \A k \in Keys : NoNames[k] = NoBox BY DEF NoNames
<1>9. Typed'
  <2>1. conn' \in [Nodes -> [Nodes -> {"none", "anon", "authed"}]] BY <1>1, <1>2 DEF Typed
  <2>2. dial' \in [Nodes -> SUBSET Nodes] BY <1>1, <1>2 DEF Typed
  <2>3. /\ boxes' \in [Nodes -> SUBSET [pid : 1..MaxPid, name : Names \cup {Unnamed}]]
        /\ pids' \in [Nodes -> 0..MaxPid] /\ view' \in [Nodes -> SUBSET Keys]
    BY <1>1, <1>2, MailboxAssumption DEF Typed
  <2>4. named' \in [Nodes -> [Keys -> Mbid \cup {NoBox}]] BY <1>1, <1>2, <1>8 DEF Typed
  <2>5. status' \in [Fetches -> FetchStates] BY <1>1, <1>2 DEF Typed, FetchStates
  <2> QED BY <1>1, <1>2, <1>7, <2>1, <2>2, <2>3, <2>4, <2>5 DEF Typed, Streams, FetchStates
<1>10. \A a, b \in Nodes : conn'[a][b] = IF a = p THEN "none" ELSE conn[a][b] BY <1>1, <1>2 DEF Typed
<1>11. NotToSelf'
  <2>1. \A n \in Nodes : dial'[n] \subseteq {m \in Nodes : <<n, m>> \in Dials}
    BY <1>1, <1>2 DEF Typed, NotToSelf
  <2> QED BY <1>1, <1>10, <2>1 DEF NotToSelf
<1>12. StreamsOrdered'
  <2> SUFFICES ASSUME NEW a \in Nodes, NEW b \in Nodes PROVE Ordered(conn'[b][a], chan'[a][b])
    BY DEF StreamsOrdered
  <2>1. Ordered(conn[b][a], chan[a][b]) BY <1>1 DEF StreamsOrdered
  <2>2. CASE b = p
    <3>1. chan'[a][b] = <<>> /\ conn'[b][a] = "none" BY <1>3, <1>10, <2>2
    <3> QED BY <3>1 DEF Ordered
  <2>3. CASE b # p /\ a = p /\ ~Cut(p, b)
    <3>1. chan'[a][b] = Append(chan[a][b], Eof) /\ conn'[b][a] = conn[b][a] BY <1>3, <1>10, <2>3
    <3>2. ~Ended(conn[b][a], chan[a][b]) BY <2>3 DEF Cut, Ended
    <3>3. SubSeq(chan[a][b], 1, Len(chan[a][b])) = chan[a][b] BY <1>4, SubSeqFull
    <3>4. Len(chan[a][b]) \in 0..Len(chan[a][b]) /\ chan[a][b] \in Seq(Messages) BY <1>4
    <3>5. Ordered(conn[b][a], Append(SubSeq(chan[a][b], 1, Len(chan[a][b])), Eof))
      BY <2>1, <3>2, <3>4, CutOrdered
    <3> QED BY <3>1, <3>3, <3>5
  <2>4. CASE b # p /\ ~(a = p /\ ~Cut(p, b))
    <3>1. chan'[a][b] = chan[a][b] /\ conn'[b][a] = conn[b][a] BY <1>3, <1>10, <2>4
    <3> QED BY <2>1, <3>1
  <2> QED BY <2>2, <2>3, <2>4
<1>13. \A n \in Nodes, k \in Keys : named'[n][k] = IF n = p THEN NoBox ELSE named[n][k]
  BY <1>1, <1>2, <1>8 DEF Typed
<1>14. NamesOfPeersOnly'
  <2> SUFFICES ASSUME NEW n \in Nodes, NEW k \in Keys, named'[n][k] # NoBox
               PROVE  named'[n][k].node = k[2] /\ (k[2] = n \/ conn'[n][k[2]] = "authed")
    BY DEF NamesOfPeersOnly
  <2>1. n # p /\ named'[n][k] = named[n][k] /\ k[2] \in Nodes BY <1>13 DEF Keys
  <2> QED BY <1>1, <1>10, <2>1 DEF NamesOfPeersOnly
<1>15. \A n \in Nodes, x \in Names, y \in Nodes : <<x, y>> \in Keys BY DEF Keys
<1>16. Finite'
  <2> SUFFICES ASSUME NEW n \in Nodes PROVE IsFiniteSet(LocalNames(n)') BY DEF Finite
  <2>1. LocalNames(n)' \subseteq LocalNames(n) BY <1>13, <1>15 DEF LocalNames
  <2>2. IsFiniteSet(LocalNames(n)) BY <1>1 DEF Finite
  <2> QED BY <2>1, <2>2, FS_Subset
<1>17. ReplicaInv => ReplicaInv'
  <2> SUFFICES ASSUME ReplicaInv, NEW n \in Nodes, NEW m \in Nodes PROVE PairInv(n, m)'
    BY DEF ReplicaInv
  <2>1. PairInv(n, m) BY DEF ReplicaInv
  <2>2. CASE m = p
    <3>1. conn'[m][n] = "none" BY <1>10, <2>2
    <3> QED BY <3>1 DEF PairInv, Synced
  <2>3. CASE n = p
    <3>1. ~Open(n, m)' BY <1>10, <2>3 DEF Open, Cut
    <3> QED BY <3>1 DEF PairInv, Synced
  <2>4. CASE n # p /\ m # p
    <3>1. conn'[m][n] = conn[m][n] /\ chan'[m][n] = chan[m][n]
          /\ conn'[n][m] = conn[n][m] /\ chan'[n][m] = chan[n][m]
      BY <1>3, <1>10, <2>4
    <3>2. Open(n, m)' => Open(n, m) BY <3>1 DEF Open, Cut
    <3>3. \A nm \in Names : /\ named'[n][<<nm, m>>] = named[n][<<nm, m>>]
                            /\ named'[m][<<nm, m>>] = named[m][<<nm, m>>]
      BY <1>13, <1>15, <2>4
    <3> QED BY <2>1, <3>1, <3>2, <3>3, FramePair
  <2> QED BY <2>2, <2>3, <2>4
<1>18. ListenersAgree => ListenersAgree'
  <2> SUFFICES ASSUME ListenersAgree, NEW n \in Nodes
               PROVE  view'[n] = {k \in Keys : named'[n][k] # NoBox}
    BY DEF ListenersAgree
  <2>1. view'[n] = IF n = p THEN {} ELSE view[n] BY <1>1, <1>2 DEF Typed
  <2>2. view[n] = {k \in Keys : named[n][k] # NoBox} BY DEF ListenersAgree
  <2> QED BY <1>13, <2>1, <2>2
<1>19. NoMissedFetch => NoMissedFetch'
  <2> SUFFICES ASSUME NoMissedFetch, NEW f \in Fetches, status'[f] = "waiting", NEW j \in FetchWants[f]
               PROVE  named'[FetchAt[f]][j] = NoBox
    BY DEF NoMissedFetch
  <2>1. FetchAt[f] \in Nodes /\ j \in Keys BY MailboxAssumption
  <2>2. status[f] = "waiting" /\ FetchAt[f] # p BY <1>2
  <2>3. named[FetchAt[f]][j] = NoBox BY <2>2 DEF NoMissedFetch
  <2> QED BY <1>13, <2>1, <2>3
<1>20. LiveInv => LiveInv'
  <2>1. \A n \in Nodes : boxes'[n] = IF n = p THEN {} ELSE boxes[n] BY <1>1, <1>2 DEF Typed
  <2> SUFFICES ASSUME LiveInv, NEW n \in Nodes
               PROVE  /\ \A x \in Names : named'[n][<<x, n>>] # NoBox =>
                            [pid |-> named'[n][<<x, n>>].pid, name |-> x] \in boxes'[n]
                      /\ \A b \in boxes'[n] : b.name # Unnamed =>
                            named'[n][<<b.name, n>>] # NoBox /\ named'[n][<<b.name, n>>].pid = b.pid
    BY DEF LiveInv
  <2>2. CASE n = p BY <1>13, <1>15, <2>1, <2>2
  <2>3. CASE n # p
    <3>1. named'[n] = named[n] BY <1>1, <1>2, <2>3 DEF Typed
    <3> QED BY <2>1, <2>3, <3>1 DEF LiveInv
  <2> QED BY <2>2, <2>3
<1> QED BY <1>9, <1>11, <1>12, <1>14, <1>16, <1>17, <1>18, <1>19, <1>20 DEF NetInv, Preserved

\* The streams after node p has read the first message from q.
LEMMA ReadEffect ==
    ASSUME NetInv, NEW p \in Nodes, NEW q \in Nodes, conn[p][q] # "none", chan[q][p] # <<>>,
           chan' = Read(p, q, chan)
    PROVE  /\ p # q /\ chan[q][p] \in Seq(Messages) /\ chan' \in Streams
           /\ \A a, b \in Nodes :
                 chan'[a][b] = IF a = q /\ b = p THEN Tail(chan[q][p]) ELSE chan[a][b]
           /\ conn[p][q] \in {"none", "anon", "authed"} /\ Ordered(conn[p][q], chan[q][p])
<1>1. Typed /\ NotToSelf /\ StreamsOrdered BY DEF NetInv
<1>2. p # q BY <1>1 DEF NotToSelf
<1>3. chan \in Streams /\ \A a, b \in Nodes : chan[a][b] \in Seq(Messages) BY <1>1 DEF Typed, Streams
<1>4. conn[p][q] \in {"none", "anon", "authed"} /\ Ordered(conn[p][q], chan[q][p])
  BY <1>1 DEF Typed, StreamsOrdered
<1>5. Tail(chan[q][p]) \in Seq(Messages) BY <1>3, <1>4, ReadOrdered
<1> DEFINE u == Tail(chan[q][p])
<1>6. chan' = [chan EXCEPT ![q][p] = u] BY <1>3 DEF Read, Streams
<1>7. u \in Seq(Messages) BY <1>5
<1> HIDE DEF u
<1>8. /\ chan' \in Streams
      /\ \A a, b \in Nodes : chan'[a][b] = IF a = q /\ b = p THEN u ELSE chan[a][b]
  BY <1>3, <1>6, <1>7 DEF Streams
<1> QED BY <1>2, <1>3, <1>4, <1>8 DEF u

\* A step that leaves every node's own names alone.
LEMMA OwnNamesStill ==
    ASSUME Typed, boxes' = boxes,
           \A n \in Nodes, x \in Names : named'[n][<<x, n>>] = named[n][<<x, n>>]
    PROVE  /\ LiveInv => LiveInv'
           /\ Finite => Finite'
<1>1. Finite => Finite'
  <2> SUFFICES ASSUME Finite, NEW n \in Nodes PROVE IsFiniteSet(LocalNames(n)') BY DEF Finite
  <2>1. LocalNames(n)' = LocalNames(n) BY DEF LocalNames
  <2> QED BY <2>1 DEF Finite
<1>2. LiveInv => LiveInv'
  <2>1. \A n \in Nodes : \A mb \in boxes[n] : mb.name # Unnamed => mb.name \in Names
    BY DEF Typed
  <2> QED BY <2>1 DEF LiveInv
<1> QED BY <1>1, <1>2

\* A node reads that a name of a peer has come or gone.
LEMMA ReadKeeps ==
    ASSUME NetInv, NEW p \in Nodes, NEW q \in Nodes, conn[p][q] # "none", chan[q][p] # <<>>,
           Head(chan[q][p]) # Auth, Head(chan[q][p]) # Eof,
           chan' = Read(p, q, chan), conn' = conn, dial' = dial, boxes' = boxes,
           \A n \in Nodes, nm \in Names, m \in Nodes :
              named'[n][<<nm, m>>] = IF n = p /\ m = q
                                     THEN After(Head(chan[q][p]), nm, q, named[p][<<nm, q>>])
                                     ELSE named[n][<<nm, m>>]
    PROVE  /\ chan' \in Streams /\ NotToSelf' /\ StreamsOrdered' /\ NamesOfPeersOnly' /\ Finite'
           /\ ReplicaInv => ReplicaInv'
           /\ LiveInv => LiveInv'
<1> DEFINE s == chan[q][p]
           msg == Head(s)
<1>1. Typed /\ NotToSelf /\ StreamsOrdered /\ NamesOfPeersOnly /\ Finite BY DEF NetInv
<1>2. /\ p # q /\ s \in Seq(Messages) /\ chan' \in Streams
      /\ \A a, b \in Nodes : chan'[a][b] = IF a = q /\ b = p THEN Tail(s) ELSE chan[a][b]
      /\ conn[p][q] \in {"none", "anon", "authed"} /\ Ordered(conn[p][q], s)
  BY ReadEffect
<1>3. s # <<>> /\ msg # Auth /\ msg # Eof OBVIOUS
<1>4. \A n \in Nodes, nm \in Names, m \in Nodes :
         named'[n][<<nm, m>>] = IF n = p /\ m = q THEN After(msg, nm, q, named[p][<<nm, q>>])
                                ELSE named[n][<<nm, m>>]
  OBVIOUS
<1>5. /\ Cut(q, p) <=> Ended(conn[p][q], s)
      /\ Cut(q, p)' <=> Ended(conn[p][q], chan'[q][p])
  BY DEF Cut, Ended
<1> HIDE DEF s, msg
<1>6. /\ conn[p][q] = "authed" /\ Ordered("authed", Tail(s))
      /\ Ended("authed", s) => Ended("authed", Tail(s))
  BY <1>2, <1>3, ReadOrdered DEF msg
<1>7. chan'[q][p] = Tail(s) BY <1>2
<1>8. NotToSelf' BY <1>1 DEF NotToSelf
<1>9. StreamsOrdered'
  <2> SUFFICES ASSUME NEW a \in Nodes, NEW b \in Nodes PROVE Ordered(conn[b][a], chan'[a][b])
    BY DEF StreamsOrdered
  <2>1. CASE a = q /\ b = p BY <1>6, <1>7, <2>1
  <2>2. CASE ~(a = q /\ b = p)
    <3>1. chan'[a][b] = chan[a][b] BY <1>2, <2>2
    <3> QED BY <1>1, <3>1 DEF StreamsOrdered
  <2> QED BY <2>1, <2>2
<1>10. NamesOfPeersOnly'
  <2> SUFFICES ASSUME NEW n \in Nodes, NEW nm \in Names, NEW m \in Nodes, named'[n][<<nm, m>>] # NoBox
               PROVE  named'[n][<<nm, m>>].node = m /\ (m = n \/ conn[n][m] = "authed")
    BY DEF NamesOfPeersOnly, Keys
  <2>1. named[n][<<nm, m>>] # NoBox =>
           named[n][<<nm, m>>].node = m /\ (m = n \/ conn[n][m] = "authed")
    BY <1>1 DEF NamesOfPeersOnly, Keys
  <2>2. CASE n = p /\ m = q
    <3>1. \/ named'[n][<<nm, m>>] = [node |-> q, pid |-> msg.pid]
          \/ named'[n][<<nm, m>>] = named[n][<<nm, m>>]
      BY <1>4, <2>2 DEF After
    <3> QED BY <1>6, <2>1, <2>2, <3>1
  <2>3. CASE ~(n = p /\ m = q)
    <3>1. named'[n][<<nm, m>>] = named[n][<<nm, m>>] BY <1>4, <2>3
    <3> QED BY <2>1, <3>1
  <2> QED BY <2>2, <2>3
<1>11. ASSUME NEW n \in Nodes, NEW x \in Names PROVE named'[n][<<x, n>>] = named[n][<<x, n>>]
  <2>1. ~(n = p /\ n = q) BY <1>2
  <2> QED BY <1>4, <2>1
<1>12. ReplicaInv => ReplicaInv'
  <2> SUFFICES ASSUME ReplicaInv, NEW n \in Nodes, NEW m \in Nodes PROVE PairInv(n, m)'
    BY DEF ReplicaInv
  <2>1. PairInv(n, m) BY DEF ReplicaInv
  <2>2. \A a, b \in Nodes : Cut(a, b) => Cut(a, b)'
    <3> SUFFICES ASSUME NEW a \in Nodes, NEW b \in Nodes, Cut(a, b) PROVE Cut(a, b)' OBVIOUS
    <3>1. CASE a = q /\ b = p BY <1>5, <1>6, <1>7, <3>1
    <3>2. CASE ~(a = q /\ b = p)
      <4>1. chan'[a][b] = chan[a][b] BY <1>2, <3>2
      <4> QED BY <4>1 DEF Cut
    <3> QED BY <3>1, <3>2
  <2>3. Open(n, m)' => Open(n, m) BY <2>2 DEF Open
  <2>4. CASE ~(n = p /\ m = q)
    <3>1. chan'[m][n] = chan[m][n] BY <1>2, <2>4
    <3>2. \A nm \in Names : /\ named'[n][<<nm, m>>] = named[n][<<nm, m>>]
                            /\ named'[m][<<nm, m>>] = named[m][<<nm, m>>]
      BY <1>4, <1>11, <2>4
    <3> QED BY <2>1, <2>3, <3>1, <3>2, FramePair
  <2>5. CASE n = p /\ m = q
    <3> SUFFICES ASSUME NEW nm \in Names
                 PROVE  Synced(nm, q, Open(p, q)', conn[q][p], Tail(s),
                               named'[p][<<nm, q>>], named'[q][<<nm, q>>])
      BY <1>7, <2>5 DEF PairInv
    <3>1. Synced(nm, q, Open(p, q), conn[q][p], s, named[p][<<nm, q>>], named[q][<<nm, q>>])
      BY <1>2, <2>1, <2>5 DEF PairInv, s
    <3>2. named'[p][<<nm, q>>] = After(msg, nm, q, named[p][<<nm, q>>]) BY <1>4
    <3>3. named'[q][<<nm, q>>] = named[q][<<nm, q>>] BY <1>11
    <3>4. CASE Open(p, q) /\ conn[q][p] = "authed"
      <4>1. Agrees(nm, q, s, named[p][<<nm, q>>], named[q][<<nm, q>>]) BY <3>1, <3>4 DEF Synced
      <4>2. Agrees(nm, q, Tail(s), After(msg, nm, q, named[p][<<nm, q>>]), named[q][<<nm, q>>])
        BY <1>2, <1>3, <4>1, ReadAgrees DEF msg
      <4> QED BY <3>2, <3>3, <3>4, <4>2 DEF Synced
    <3>5. CASE Open(p, q) /\ conn[q][p] = "anon"
      <4>1. named[p][<<nm, q>>] = NoBox /\ Silent(nm, s) BY <3>1, <3>5 DEF Synced
      <4>2. Silent(nm, Tail(s)) /\ After(msg, nm, q, NoBox) = NoBox
        <5>1. Silent(nm, Tail(s)) /\ ~Says(msg, nm) /\ ~Takes(msg, nm)
          BY <1>2, <1>3, <4>1, SilentTail DEF msg
        <5> QED BY <5>1 DEF After
      <4>3. named'[p][<<nm, q>>] = NoBox BY <3>2, <4>1, <4>2
      <4> QED BY <3>5, <4>2, <4>3 DEF Synced
    <3>6. CASE ~(Open(p, q) /\ conn[q][p] \in {"anon", "authed"}) BY <2>3, <2>5, <3>6 DEF Synced
    <3> QED BY <3>4, <3>5, <3>6
  <2> QED BY <2>4, <2>5
<1> QED BY <1>1, <1>2, <1>8, <1>9, <1>10, <1>11, <1>12, OwnNamesStill

\* A peer says that a name has come (nodemonitor.cpp, OnConnectorReceiveMessage).
LEMMA ReceiveRegisterKeeps ==
    ASSUME NetInv, NEW p \in Nodes, NEW q \in Nodes, ReceiveRegister(p, q) PROVE Preserved
<1> DEFINE msg == Head(chan[q][p])
           mbid == [node |-> q, pid |-> msg.pid]
<1>1. /\ conn[p][q] # "none" /\ chan[q][p] # <<>> /\ msg.type = "REGISTER"
      /\ OnNamedMailboxUp(p, <<msg.name, q>>, mbid) /\ chan' = Read(p, q, chan)
      /\ conn' = conn /\ dial' = dial /\ boxes' = boxes /\ pids' = pids
      /\ restarts' = restarts /\ breaks' = breaks
  BY DEF ReceiveRegister, Reading
<1>2. Typed BY DEF NetInv
<1>3. msg \in Messages
  <2>1. chan[q][p] \in Seq(Messages) BY <1>2 DEF Typed
  <2> QED BY <1>1, <2>1
<1>4. msg # Auth /\ msg # Eof /\ msg.name \in Names /\ msg.pid \in 1..MaxPid
  BY <1>1, <1>3, MessageTypes
<1>5. mbid \in Mbid /\ <<msg.name, q>> \in Keys BY <1>4 DEF Mbid, Keys
<1>6. /\ named' \in NamedTables /\ view' \in [Nodes -> SUBSET Keys]
      /\ status' \in [Fetches -> FetchStates]
      /\ \A n \in Nodes, j \in Keys :
            named'[n][j] = IF n = p /\ j = <<msg.name, q>> /\ named[p][<<msg.name, q>>] = NoBox
                           THEN mbid ELSE named[n][j]
      /\ ListenersAgree => ListenersAgree'
      /\ NoMissedFetch => NoMissedFetch'
  BY <1>1, <1>2, <1>5, UpEffect
<1>7. ASSUME NEW n \in Nodes, NEW nm \in Names, NEW m \in Nodes
      PROVE  named'[n][<<nm, m>>] = IF n = p /\ m = q THEN After(msg, nm, q, named[p][<<nm, q>>])
                                    ELSE named[n][<<nm, m>>]
  <2>1. <<nm, m>> \in Keys /\ (<<nm, m>> = <<msg.name, q>> <=> nm = msg.name /\ m = q) BY DEF Keys
  <2>2. ~Takes(msg, nm) /\ (Says(msg, nm) <=> nm = msg.name) BY <1>1 DEF Says, Takes
  <2>3. After(msg, nm, q, named[p][<<nm, q>>])
           = IF nm = msg.name /\ named[p][<<nm, q>>] = NoBox THEN mbid ELSE named[p][<<nm, q>>]
    BY <2>2 DEF After
  <2> HIDE DEF msg, mbid
  <2> QED BY <1>6, <2>1, <2>3
<1>8. /\ chan' \in Streams /\ NotToSelf' /\ StreamsOrdered' /\ NamesOfPeersOnly' /\ Finite'
      /\ ReplicaInv => ReplicaInv'
      /\ LiveInv => LiveInv'
  BY <1>1, <1>4, <1>7, ReadKeeps
<1>9. Typed' BY <1>1, <1>2, <1>6, <1>8 DEF Typed, Streams, NamedTables, FetchStates
<1> QED BY <1>6, <1>8, <1>9 DEF NetInv, Preserved

\* A peer says that a name has gone.
LEMMA ReceiveUnRegisterKeeps ==
    ASSUME NetInv, NEW p \in Nodes, NEW q \in Nodes, ReceiveUnRegister(p, q) PROVE Preserved
<1> DEFINE msg == Head(chan[q][p])
           k == <<msg.name, q>>
<1>1. /\ conn[p][q] # "none" /\ chan[q][p] # <<>> /\ msg.type = "UNREGISTER"
      /\ IF named[p][k] # NoBox THEN OnNamedMailboxesDown(p, {k})
                                ELSE UNCHANGED <<named, view, status>>
      /\ chan' = Read(p, q, chan)
      /\ conn' = conn /\ dial' = dial /\ boxes' = boxes /\ pids' = pids
      /\ restarts' = restarts /\ breaks' = breaks
  BY DEF ReceiveUnRegister, Reading
<1>2. Typed BY DEF NetInv
<1>3. msg \in Messages
  <2>1. chan[q][p] \in Seq(Messages) BY <1>2 DEF Typed
  <2> QED BY <1>1, <2>1
<1>4. msg # Auth /\ msg # Eof /\ msg.name \in Names BY <1>1, <1>3, MessageTypes
<1>5. k \in Keys BY <1>4 DEF Keys
<1>6. /\ named' \in NamedTables /\ view' \in [Nodes -> SUBSET Keys]
      /\ status' \in [Fetches -> FetchStates]
      /\ \A n \in Nodes, j \in Keys : named'[n][j] = IF n = p /\ j = k THEN NoBox ELSE named[n][j]
      /\ ListenersAgree => ListenersAgree'
      /\ NoMissedFetch => NoMissedFetch'
  <2>1. CASE named[p][k] # NoBox
    <3>1. OnNamedMailboxesDown(p, {k}) /\ {k} \in SUBSET Keys BY <1>1, <1>5, <2>1
    <3> HIDE DEF k
    <3>2. /\ named' \in NamedTables /\ view' \in [Nodes -> SUBSET Keys]
          /\ status' \in [Fetches -> FetchStates]
          /\ \A n \in Nodes, j \in Keys : named'[n][j] = IF n = p /\ j \in {k} THEN NoBox ELSE named[n][j]
          /\ ListenersAgree => ListenersAgree'
          /\ NoMissedFetch => NoMissedFetch'
      BY <1>2, <3>1, DownEffect
    <3> QED BY <3>2
  <2>2. CASE named[p][k] = NoBox
    <3>1. named' = named /\ view' = view /\ status' = status BY <1>1, <2>2
    <3> HIDE DEF k
    <3>2. /\ named \in NamedTables /\ view \in [Nodes -> SUBSET Keys]
          /\ status \in [Fetches -> FetchStates]
      BY <1>2 DEF Typed, NamedTables, FetchStates
    <3> QED BY <1>1, <2>2, <3>1, <3>2, TablesStill
  <2> QED BY <2>1, <2>2
<1>7. ASSUME NEW n \in Nodes, NEW nm \in Names, NEW m \in Nodes
      PROVE  named'[n][<<nm, m>>] = IF n = p /\ m = q THEN After(msg, nm, q, named[p][<<nm, q>>])
                                    ELSE named[n][<<nm, m>>]
  <2>1. <<nm, m>> \in Keys /\ (<<nm, m>> = k <=> nm = msg.name /\ m = q) BY DEF Keys
  <2>2. ~Says(msg, nm) /\ (Takes(msg, nm) <=> nm = msg.name) BY <1>1 DEF Says, Takes
  <2>3. After(msg, nm, q, named[p][<<nm, q>>])
           = IF nm = msg.name THEN NoBox ELSE named[p][<<nm, q>>]
    BY <2>2 DEF After
  <2> HIDE DEF msg, k
  <2> QED BY <1>6, <2>1, <2>3
<1>8. /\ chan' \in Streams /\ NotToSelf' /\ StreamsOrdered' /\ NamesOfPeersOnly' /\ Finite'
      /\ ReplicaInv => ReplicaInv'
      /\ LiveInv => LiveInv'
  BY <1>1, <1>4, <1>7, ReadKeeps
<1>9. Typed' BY <1>1, <1>2, <1>6, <1>8 DEF Typed, Streams, NamedTables, FetchStates
<1> QED BY <1>6, <1>8, <1>9 DEF NetInv, Preserved

\* A connection is lost: the names of its node go, and no others.
LEMMA ReceiveEofKeeps ==
    ASSUME NetInv, NEW p \in Nodes, NEW q \in Nodes, ReceiveEof(p, q) PROVE Preserved
<1> DEFINE s == chan[q][p]
           gone == {k \in Keys : named[p][k] # NoBox /\ named[p][k].node = q}
           lost == IF conn[p][q] = "authed" THEN gone ELSE {}
<1>1. /\ conn[p][q] # "none" /\ s # <<>> /\ Head(s).type = "EOF"
      /\ IF conn[p][q] = "authed" THEN OnNamedMailboxesDown(p, gone)
                                  ELSE UNCHANGED <<named, view, status>>
      /\ chan' = Read(p, q, chan)
      /\ conn' = [conn EXCEPT ![p][q] = "none"]
      /\ dial' = dial /\ boxes' = boxes /\ pids' = pids
      /\ restarts' = restarts /\ breaks' = breaks
  BY DEF ReceiveEof, Reading
<1>2. Typed /\ NotToSelf /\ StreamsOrdered /\ NamesOfPeersOnly /\ Finite BY DEF NetInv
<1>3. /\ p # q /\ s \in Seq(Messages) /\ chan' \in Streams
      /\ \A a, b \in Nodes : chan'[a][b] = IF a = q /\ b = p THEN Tail(s) ELSE chan[a][b]
      /\ conn[p][q] \in {"none", "anon", "authed"} /\ Ordered(conn[p][q], s)
  BY <1>1, ReadEffect
<1>4. lost \in SUBSET Keys /\ \A k \in lost : k[2] = q BY <1>2 DEF NamesOfPeersOnly
<1>5. /\ named' \in NamedTables /\ view' \in [Nodes -> SUBSET Keys]
      /\ status' \in [Fetches -> FetchStates]
      /\ \A n \in Nodes, j \in Keys : named'[n][j] = IF n = p /\ j \in lost THEN NoBox ELSE named[n][j]
      /\ ListenersAgree => ListenersAgree'
      /\ NoMissedFetch => NoMissedFetch'
  <2>1. CASE conn[p][q] = "authed"
    <3>1. lost = gone /\ OnNamedMailboxesDown(p, lost) BY <1>1, <2>1
    <3> HIDE DEF lost
    <3> QED BY <1>2, <1>4, <3>1, DownEffect
  <2>2. CASE conn[p][q] # "authed"
    <3>1. lost = {} /\ named' = named /\ view' = view /\ status' = status BY <1>1, <2>2
    <3> HIDE DEF lost
    <3>2. /\ named \in NamedTables /\ view \in [Nodes -> SUBSET Keys]
          /\ status \in [Fetches -> FetchStates]
      BY <1>2 DEF Typed, NamedTables, FetchStates
    <3> QED BY <1>1, <3>1, <3>2, TablesStill
  <2> QED BY <2>1, <2>2
<1>6. ASSUME NEW nm \in Names PROVE named'[p][<<nm, q>>] = NoBox
  <2>1. <<nm, q>> \in Keys /\ <<nm, q>>[2] = q BY DEF Keys
  <2>2. named[p][<<nm, q>>] # NoBox => conn[p][q] = "authed" /\ named[p][<<nm, q>>].node = q
    BY <1>2, <1>3, <2>1 DEF NamesOfPeersOnly
  <2>3. named[p][<<nm, q>>] # NoBox => <<nm, q>> \in lost BY <2>1, <2>2
  <2> HIDE DEF lost
  <2> QED BY <1>5, <2>1, <2>3
<1> HIDE DEF lost
<1>7. ASSUME NEW n \in Nodes, NEW nm \in Names, NEW m \in Nodes, ~(n = p /\ m = q)
      PROVE  named'[n][<<nm, m>>] = named[n][<<nm, m>>]
  <2>1. <<nm, m>> \in Keys /\ <<nm, m>>[2] = m BY DEF Keys
  <2> QED BY <1>4, <1>5, <1>7, <2>1
<1>8. /\ conn' \in [Nodes -> [Nodes -> {"none", "anon", "authed"}]]
      /\ \A a, b \in Nodes : conn'[a][b] = IF a = p /\ b = q THEN "none" ELSE conn[a][b]
  BY <1>1, <1>2 DEF Typed
<1>9. Typed' BY <1>1, <1>2, <1>3, <1>5, <1>8 DEF Typed, Streams, NamedTables, FetchStates
<1>10. NotToSelf' BY <1>1, <1>2, <1>3, <1>8 DEF NotToSelf
<1>11. StreamsOrdered'
  <2> SUFFICES ASSUME NEW a \in Nodes, NEW b \in Nodes PROVE Ordered(conn'[b][a], chan'[a][b])
    BY DEF StreamsOrdered
  <2>1. CASE a = q /\ b = p
    <3>1. Head(s) \in Messages BY <1>1, <1>3, ReadOrdered
    <3>2. Head(s) = Eof BY <1>1, <3>1, MessageTypes
    <3>3. Ordered("none", Tail(s)) BY <1>1, <1>3, <3>2, ReadOrdered
    <3>4. conn'[b][a] = "none" /\ chan'[a][b] = Tail(s) BY <1>3, <1>8, <2>1
    <3> QED BY <3>3, <3>4
  <2>2. CASE ~(a = q /\ b = p)
    <3>1. chan'[a][b] = chan[a][b] /\ conn'[b][a] = conn[b][a] BY <1>3, <1>8, <2>2
    <3> QED BY <1>2, <3>1 DEF StreamsOrdered
  <2> QED BY <2>1, <2>2
<1>12. NamesOfPeersOnly'
  <2> SUFFICES ASSUME NEW n \in Nodes, NEW nm \in Names, NEW m \in Nodes, named'[n][<<nm, m>>] # NoBox
               PROVE  named'[n][<<nm, m>>].node = m /\ (m = n \/ conn'[n][m] = "authed")
    BY DEF NamesOfPeersOnly, Keys
  <2>1. ~(n = p /\ m = q) BY <1>6
  <2>2. named'[n][<<nm, m>>] = named[n][<<nm, m>>] /\ conn'[n][m] = conn[n][m] BY <1>7, <1>8, <2>1
  <2>3. named[n][<<nm, m>>] # NoBox =>
           named[n][<<nm, m>>].node = m /\ (m = n \/ conn[n][m] = "authed")
    BY <1>2 DEF NamesOfPeersOnly, Keys
  <2> QED BY <2>2, <2>3
<1>13. \A n \in Nodes, x \in Names : named'[n][<<x, n>>] = named[n][<<x, n>>] BY <1>3, <1>7
<1>14. ReplicaInv => ReplicaInv'
  <2> SUFFICES ASSUME ReplicaInv, NEW n \in Nodes, NEW m \in Nodes PROVE PairInv(n, m)'
    BY DEF ReplicaInv
  <2>1. PairInv(n, m) BY DEF ReplicaInv
  <2>2. CASE (n = p /\ m = q) \/ (n = q /\ m = p)
    <3>1. conn'[p][q] = "none" BY <1>8
    <3>2. ~Open(n, m)' BY <2>2, <3>1 DEF Open, Cut
    <3> QED BY <3>2 DEF PairInv, Synced
  <2>3. CASE ~((n = p /\ m = q) \/ (n = q /\ m = p))
    <3>1. /\ chan'[m][n] = chan[m][n] /\ chan'[n][m] = chan[n][m]
          /\ conn'[m][n] = conn[m][n] /\ conn'[n][m] = conn[n][m]
      BY <1>3, <1>8, <2>3
    <3>2. Open(n, m)' => Open(n, m) BY <3>1 DEF Open, Cut
    <3>3. \A nm \in Names : /\ named'[n][<<nm, m>>] = named[n][<<nm, m>>]
                            /\ named'[m][<<nm, m>>] = named[m][<<nm, m>>]
      BY <1>7, <1>13, <2>3
    <3> QED BY <2>1, <3>1, <3>2, <3>3, FramePair
  <2> QED BY <2>2, <2>3
<1>15. Finite' /\ (LiveInv => LiveInv') BY <1>1, <1>2, <1>13, OwnNamesStill
<1> QED BY <1>5, <1>9, <1>10, <1>11, <1>12, <1>14, <1>15 DEF NetInv, Preserved

\* The registrations OnNodeUp sends: one for every local name, and no other.
LEMMA SyncMessages ==
    ASSUME NetInv, NEW p \in Nodes
    PROVE  LET q == SetToSeq({RegisterMsg(nm, named[p][<<nm, p>>].pid) : nm \in LocalNames(p)}) IN
           /\ q \in Seq(Messages)
           /\ \A i \in 1..Len(q) : q[i] # Auth /\ q[i] # Eof
           /\ \A nm \in Names :
                 /\ \A i \in 1..Len(q) : ~Takes(q[i], nm)
                 /\ \A i, k \in 1..Len(q) : Says(q[i], nm) /\ Says(q[k], nm) => i = k
                 /\ \A i \in 1..Len(q) :
                       Says(q[i], nm) => named[p][<<nm, p>>] = [node |-> p, pid |-> q[i].pid]
                 /\ named[p][<<nm, p>>] # NoBox => \E i \in 1..Len(q) : Says(q[i], nm)
<1> DEFINE L == LocalNames(p)
           Reg(nm) == RegisterMsg(nm, named[p][<<nm, p>>].pid)
           regs == {Reg(nm) : nm \in L}
           q == SetToSeq(regs)
<1>1. Typed /\ NamesOfPeersOnly /\ IsFiniteSet(L) BY DEF NetInv, Finite
<1>2. L \subseteq Names /\ \A nm \in Names : nm \in L <=> named[p][<<nm, p>>] # NoBox BY DEF LocalNames
<1>3. ASSUME NEW nm \in L
      PROVE  /\ Reg(nm) \in Messages /\ Reg(nm).type = "REGISTER" /\ Reg(nm).name = nm
             /\ named[p][<<nm, p>>] = [node |-> p, pid |-> Reg(nm).pid]
  <2>1. <<nm, p>> \in Keys /\ <<nm, p>>[2] = p BY <1>2 DEF Keys
  <2>2. named[p][<<nm, p>>] \in Mbid /\ named[p][<<nm, p>>].node = p
    BY <1>1, <1>2, <2>1 DEF Typed, NamesOfPeersOnly
  <2> HIDE DEF L
  <2> QED BY <1>2, <2>2 DEF RegisterMsg, Messages, Mbid
<1>4. IsFiniteSet(regs)
  <2> DEFINE f == [nm \in L |-> Reg(nm)]
  <2>1. f \in Surjection(L, regs) BY DEF Surjection
  <2> QED BY <1>1, <2>1, FS_Surjection
<1>5. \A i \in regs : i \in Messages /\ i.type = "REGISTER" /\ i.name \in L /\ i = Reg(i.name)
  <2> SUFFICES ASSUME NEW i \in regs
               PROVE  i \in Messages /\ i.type = "REGISTER" /\ i.name \in L /\ i = Reg(i.name)
    OBVIOUS
  <2>1. PICK nm \in L : i = Reg(nm) OBVIOUS
  <2>2. Reg(nm) \in Messages /\ Reg(nm).type = "REGISTER" /\ Reg(nm).name = nm BY <1>3
  <2> HIDE DEF L, Reg, regs
  <2> QED BY <2>1, <2>2
<1>6. \A nm \in L : Reg(nm) \in regs OBVIOUS
<1> HIDE DEF L, Reg, regs
<1>7. /\ q \in Seq(regs)
      /\ \A i, k \in 1..Len(q) : q[i] = q[k] => i = k
      /\ \A x \in regs : \E i \in 1..Len(q) : q[i] = x
  BY <1>4, SetToSeqFacts
<1> HIDE DEF q
<1>8. \A i \in 1..Len(q) : q[i] \in regs BY <1>7
<1>9. q \in Seq(Messages)
  <2>1. Len(q) \in Nat /\ q = [i \in 1..Len(q) |-> q[i]] BY <1>7
  <2>2. \A i \in 1..Len(q) : q[i] \in Messages BY <1>5, <1>8
  <2> QED BY <2>1, <2>2
<1>10. \A i \in 1..Len(q) : q[i] # Auth /\ q[i] # Eof BY <1>5, <1>8, MessageTypes
<1>11. ASSUME NEW nm \in Names
       PROVE  /\ \A i \in 1..Len(q) : ~Takes(q[i], nm)
              /\ \A i, k \in 1..Len(q) : Says(q[i], nm) /\ Says(q[k], nm) => i = k
              /\ \A i \in 1..Len(q) :
                    Says(q[i], nm) => named[p][<<nm, p>>] = [node |-> p, pid |-> q[i].pid]
              /\ named[p][<<nm, p>>] # NoBox => \E i \in 1..Len(q) : Says(q[i], nm)
  <2>1. \A i \in 1..Len(q) : ~Takes(q[i], nm) BY <1>5, <1>8 DEF Takes
  <2>2. \A i \in 1..Len(q) : Says(q[i], nm) => nm \in L /\ q[i] = Reg(nm) BY <1>5, <1>8 DEF Says
  <2>3. \A i, k \in 1..Len(q) : Says(q[i], nm) /\ Says(q[k], nm) => i = k BY <1>7, <2>2
  <2>4. \A i \in 1..Len(q) :
           Says(q[i], nm) => named[p][<<nm, p>>] = [node |-> p, pid |-> q[i].pid]
    BY <1>3, <2>2
  <2>5. named[p][<<nm, p>>] # NoBox => \E i \in 1..Len(q) : Says(q[i], nm)
    <3> SUFFICES ASSUME named[p][<<nm, p>>] # NoBox PROVE \E i \in 1..Len(q) : Says(q[i], nm)
      OBVIOUS
    <3>1. nm \in L BY <1>2
    <3>2. PICK i \in 1..Len(q) : q[i] = Reg(nm) BY <1>6, <1>7, <3>1
    <3>3. Says(q[i], nm) BY <1>3, <3>1, <3>2 DEF Says
    <3> QED BY <3>3
  <2> QED BY <2>1, <2>3, <2>4, <2>5
<1> QED BY <1>9, <1>10, <1>11 DEF q, regs, Reg, L

\* A peer has authenticated: it is sent the names, and listened to.
LEMMA ReceiveAuthKeeps ==
    ASSUME NetInv, NEW p \in Nodes, NEW q \in Nodes, ReceiveAuth(p, q) PROVE Preserved
<1> DEFINE s == chan[q][p]
           regs == SetToSeq({RegisterMsg(nm, named[p][<<nm, p>>].pid) : nm \in LocalNames(p)})
           back == IF Cut(p, q) THEN chan[p][q] ELSE chan[p][q] \o regs
<1>1. /\ conn[p][q] # "none" /\ s # <<>> /\ Head(s).type = "AUTH"
      /\ conn' = [conn EXCEPT ![p][q] = "authed"]
      /\ chan' = Read(p, q, Sent(p, {q}, regs))
      /\ dial' = dial /\ boxes' = boxes /\ pids' = pids /\ named' = named /\ view' = view
      /\ status' = status /\ restarts' = restarts /\ breaks' = breaks
  BY DEF ReceiveAuth, Reading
<1>2. Typed /\ NotToSelf /\ StreamsOrdered /\ NamesOfPeersOnly /\ Finite BY DEF NetInv
<1>3. /\ p # q /\ \A a, b \in Nodes : chan[a][b] \in Seq(Messages)
      /\ conn[p][q] \in {"none", "anon", "authed"} /\ Ordered(conn[p][q], s)
  BY <1>1, <1>2 DEF Typed, NotToSelf, StreamsOrdered
<1>4. /\ regs \in Seq(Messages)
      /\ \A i \in 1..Len(regs) : regs[i] # Auth /\ regs[i] # Eof
      /\ \A nm \in Names :
            /\ \A i \in 1..Len(regs) : ~Takes(regs[i], nm)
            /\ \A i, k \in 1..Len(regs) : Says(regs[i], nm) /\ Says(regs[k], nm) => i = k
            /\ \A i \in 1..Len(regs) :
                  Says(regs[i], nm) => named[p][<<nm, p>>] = [node |-> p, pid |-> regs[i].pid]
            /\ named[p][<<nm, p>>] # NoBox => \E i \in 1..Len(regs) : Says(regs[i], nm)
  BY SyncMessages
<1> HIDE DEF regs
<1>5. /\ Head(s) = Auth /\ conn[p][q] = "anon" /\ Tail(s) \in Seq(Messages)
      /\ Ordered("authed", Tail(s)) /\ (Ended("anon", s) => Ended("authed", Tail(s)))
  <2>1. s \in Seq(Messages) BY <1>3
  <2>2. Head(s) = Auth /\ Auth # Eof
    <3>1. Head(s) \in Messages BY <1>1, <1>3, <2>1, ReadOrdered
    <3> QED BY <1>1, <3>1, MessageTypes
  <2> HIDE DEF s
  <2> QED BY <1>1, <1>3, <2>1, <2>2, ReadOrdered
<1>6. back \in Seq(Messages) BY <1>3, <1>4
<1>7. /\ chan' \in Streams
      /\ \A a, b \in Nodes :
            chan'[a][b] = IF a = q /\ b = p THEN Tail(s) ELSE IF a = p /\ b = q THEN back ELSE chan[a][b]
  <2> DEFINE row == [m \in Nodes |-> IF m \in {q} /\ ~Cut(p, m) THEN chan[p][m] \o regs ELSE chan[p][m]]
             sent == [chan EXCEPT ![p] = row]
  <2>1. chan \in Streams BY <1>2 DEF Typed, Streams
  <2>2. Sent(p, {q}, regs) = sent BY <2>1 DEF Sent, Streams
  <2>3. row \in [Nodes -> Seq(Messages)]
    <3>1. \A m \in Nodes : row[m] \in Seq(Messages) BY <1>3, <1>4
    <3> QED BY <3>1
  <2>4. sent \in Streams /\ \A a \in Nodes : sent[a] = IF a = p THEN row ELSE chan[a]
    <3> HIDE DEF row
    <3> QED BY <2>1, <2>3 DEF Streams
  <2>5. \A b \in Nodes : row[b] = IF b = q THEN back ELSE chan[p][b] OBVIOUS
  <2> HIDE DEF row, sent, back
  <2>6. sent[q][p] = s BY <1>3, <2>4
  <2>7. chan' = [sent EXCEPT ![q][p] = Tail(s)] BY <1>1, <2>2, <2>4, <2>6 DEF Read, Streams
  <2>8. /\ chan' \in Streams
        /\ \A a, b \in Nodes : chan'[a][b] = IF a = q /\ b = p THEN Tail(s) ELSE sent[a][b]
    <3> DEFINE u == Tail(s)
    <3>1. u \in Seq(Messages) /\ chan' = [sent EXCEPT ![q][p] = u] BY <1>5, <2>7
    <3> HIDE DEF u
    <3>2. /\ chan' \in Streams
          /\ \A a, b \in Nodes : chan'[a][b] = IF a = q /\ b = p THEN u ELSE sent[a][b]
      BY <2>4, <3>1 DEF Streams
    <3> QED BY <3>2 DEF u
  <2> QED BY <1>3, <2>4, <2>5, <2>8
<1>8. /\ conn' \in [Nodes -> [Nodes -> {"none", "anon", "authed"}]]
      /\ \A a, b \in Nodes : conn'[a][b] = IF a = p /\ b = q THEN "authed" ELSE conn[a][b]
  BY <1>1, <1>2 DEF Typed
<1>9. Typed' BY <1>1, <1>2, <1>7, <1>8 DEF Typed, Streams
<1>10. NotToSelf' BY <1>1, <1>2, <1>3, <1>8 DEF NotToSelf
<1>11. Cut(p, q) <=> Ended(conn[q][p], chan[p][q]) BY DEF Cut, Ended
<1>12. Ordered(conn[q][p], back) /\ (Ended(conn[q][p], back) <=> Cut(p, q))
  <2>1. Ordered(conn[q][p], chan[p][q]) BY <1>2 DEF StreamsOrdered
  <2>2. CASE Cut(p, q) BY <1>11, <2>1, <2>2
  <2>3. CASE ~Cut(p, q)
    <3>1. back = chan[p][q] \o regs BY <2>3
    <3>2. Ordered(conn[q][p], chan[p][q] \o regs) /\ ~Ended(conn[q][p], chan[p][q] \o regs)
      BY <1>3, <1>4, <1>11, <2>1, <2>3, SendOrdered
    <3> QED BY <2>3, <3>1, <3>2
  <2> QED BY <2>2, <2>3
<1>13. chan'[p][q] = back /\ chan'[q][p] = Tail(s) /\ conn'[p][q] = "authed" /\ conn'[q][p] = conn[q][p]
  BY <1>3, <1>7, <1>8
<1>14. StreamsOrdered'
  <2> SUFFICES ASSUME NEW a \in Nodes, NEW b \in Nodes PROVE Ordered(conn'[b][a], chan'[a][b])
    BY DEF StreamsOrdered
  <2>1. CASE a = q /\ b = p BY <1>5, <1>13, <2>1
  <2>2. CASE a = p /\ b = q BY <1>12, <1>13, <2>2
  <2>3. CASE ~(a = q /\ b = p) /\ ~(a = p /\ b = q)
    <3>1. chan'[a][b] = chan[a][b] /\ conn'[b][a] = conn[b][a] BY <1>7, <1>8, <2>3
    <3> QED BY <1>2, <3>1 DEF StreamsOrdered
  <2> QED BY <2>1, <2>2, <2>3
<1>15. NamesOfPeersOnly'
  <2> SUFFICES ASSUME NEW n \in Nodes, NEW k \in Keys, named[n][k] # NoBox
               PROVE  named[n][k].node = k[2] /\ (k[2] = n \/ conn'[n][k[2]] = "authed")
    BY <1>1 DEF NamesOfPeersOnly
  <2>1. k[2] \in Nodes BY DEF Keys
  <2>2. named[n][k].node = k[2] /\ (k[2] = n \/ conn[n][k[2]] = "authed")
    BY <1>2 DEF NamesOfPeersOnly
  <2> QED BY <1>8, <2>1, <2>2
<1>16. /\ Cut(p, q) <=> Cut(p, q)'
       /\ Cut(q, p) => Cut(q, p)'
  <2>1. Cut(p, q)' <=> Ended(conn'[q][p], chan'[p][q]) BY DEF Cut, Ended
  <2>2. Cut(q, p)' <=> Ended(conn'[p][q], chan'[q][p]) BY DEF Cut, Ended
  <2>3. Cut(q, p) <=> Ended(conn[p][q], s) BY DEF Cut, Ended
  <2> HIDE DEF s, back
  <2> QED BY <1>5, <1>12, <1>13, <2>1, <2>2, <2>3
<1>17. ReplicaInv => ReplicaInv'
  <2> SUFFICES ASSUME ReplicaInv, NEW n \in Nodes, NEW m \in Nodes PROVE PairInv(n, m)'
    BY DEF ReplicaInv
  <2>1. PairInv(n, m) BY DEF ReplicaInv
  <2>2. CASE n = p /\ m = q
    <3> SUFFICES ASSUME NEW nm \in Names
                 PROVE  Synced(nm, q, Open(p, q)', conn[q][p], Tail(s),
                               named[p][<<nm, q>>], named[q][<<nm, q>>])
      BY <1>1, <1>13, <2>2 DEF PairInv
    <3>1. Synced(nm, q, Open(p, q), conn[q][p], s, named[p][<<nm, q>>], named[q][<<nm, q>>])
      BY <1>3, <2>1, <2>2 DEF PairInv
    <3>2. Open(p, q)' => Open(p, q) BY <1>16 DEF Open
    <3>3. ~Says(Head(s), nm) /\ ~Takes(Head(s), nm) BY <1>1 DEF Says, Takes
    <3>4. After(Head(s), nm, q, named[p][<<nm, q>>]) = named[p][<<nm, q>>] BY <3>3 DEF After
    <3>5. s \in Seq(Messages) /\ s # <<>> BY <1>1, <1>3
    <3> HIDE DEF s
    <3>6. CASE Open(p, q) /\ conn[q][p] = "authed"
      <4>1. Agrees(nm, q, s, named[p][<<nm, q>>], named[q][<<nm, q>>]) BY <3>1, <3>6 DEF Synced
      <4>2. Agrees(nm, q, Tail(s), named[p][<<nm, q>>], named[q][<<nm, q>>])
        BY <3>4, <3>5, <4>1, ReadAgrees
      <4> QED BY <3>6, <4>2 DEF Synced
    <3>7. CASE Open(p, q) /\ conn[q][p] = "anon"
      <4>1. named[p][<<nm, q>>] = NoBox /\ Silent(nm, s) BY <3>1, <3>7 DEF Synced
      <4>2. Silent(nm, Tail(s)) BY <3>5, <4>1, SilentTail
      <4> QED BY <3>7, <4>1, <4>2 DEF Synced
    <3>8. CASE ~(Open(p, q) /\ conn[q][p] \in {"anon", "authed"}) BY <3>2, <3>8 DEF Synced
    <3> QED BY <3>6, <3>7, <3>8
  <2>3. CASE n = q /\ m = p
    <3> SUFFICES ASSUME NEW nm \in Names
                 PROVE  Synced(nm, p, Open(q, p)', "authed", back,
                               named[q][<<nm, p>>], named[p][<<nm, p>>])
      BY <1>1, <1>13, <2>3 DEF PairInv
    <3>1. Synced(nm, p, Open(q, p), "anon", chan[p][q], named[q][<<nm, p>>], named[p][<<nm, p>>])
      BY <1>3, <1>5, <2>1, <2>3 DEF PairInv
    <3>2. CASE Open(q, p)'
      <4>1. Open(q, p) /\ ~Cut(p, q) BY <1>16, <3>2 DEF Open
      <4>2. named[q][<<nm, p>>] = NoBox /\ Silent(nm, chan[p][q]) BY <3>1, <4>1 DEF Synced
      <4>3. back = chan[p][q] \o regs BY <4>1
      <4>4. Agrees(nm, p, chan[p][q] \o regs, NoBox, named[p][<<nm, p>>])
        BY <1>3, <1>4, <4>2, SyncAgrees
      <4> HIDE DEF back
      <4> QED BY <4>2, <4>3, <4>4 DEF Synced
    <3>3. CASE ~Open(q, p)' BY <3>3 DEF Synced
    <3> QED BY <3>2, <3>3
  <2>4. CASE ~(n = p /\ m = q) /\ ~(n = q /\ m = p)
    <3>1. /\ chan'[m][n] = chan[m][n] /\ chan'[n][m] = chan[n][m]
          /\ conn'[m][n] = conn[m][n] /\ conn'[n][m] = conn[n][m]
      BY <1>7, <1>8, <2>4
    <3>2. Open(n, m)' => Open(n, m) BY <3>1 DEF Open, Cut
    <3> QED BY <1>1, <2>1, <3>1, <3>2, FramePair
  <2> QED BY <2>2, <2>3, <2>4
<1> QED BY <1>1, <1>2, <1>9, <1>10, <1>14, <1>15, <1>17, TablesStill DEF NetInv, Preserved

-----------------------------------------------------------------------------
(* The theorems. *)

\* A cluster that starts has no connections and no names.
LEMMA InitHolds ==
    ASSUME Init
    PROVE  NetInv /\ ReplicaInv /\ ListenersAgree /\ NoMissedFetch /\ LiveInv
<1>1. /\ \A n, m \in Nodes : conn[n][m] = "none" /\ chan[n][m] = <<>>
      /\ \A n \in Nodes : dial[n] = {m \in Nodes : <<n, m>> \in Dials} /\ boxes[n] = {} /\ view[n] = {}
      /\ \A n \in Nodes, k \in Keys : named[n][k] = NoBox
      /\ \A f \in Fetches : status[f] = "idle"
  BY DEF Init, NoNames
<1>2. Typed
  <2>1. <<>> \in Seq(Messages) OBVIOUS
  <2>2. chan \in [Nodes -> [Nodes -> Seq(Messages)]] BY <2>1 DEF Init
  <2>3. named \in [Nodes -> [Keys -> Mbid \cup {NoBox}]] BY DEF Init, NoNames
  <2>4. pids \in [Nodes -> 0..MaxPid] /\ restarts \in 0..MaxRestarts /\ breaks \in 0..MaxBreaks
    BY MailboxAssumption DEF Init
  <2> QED BY <2>2, <2>3, <2>4 DEF Init, Typed
<1>3. \A n \in Nodes, x \in Names : <<x, n>> \in Keys BY DEF Keys
<1>4. Ordered("none", <<>>) BY DEF Ordered
<1>5. NotToSelf /\ NamesOfPeersOnly /\ ListenersAgree BY <1>1 DEF NotToSelf, NamesOfPeersOnly, ListenersAgree
<1>6. StreamsOrdered BY <1>1, <1>4 DEF StreamsOrdered
<1>7. Finite
  <2>1. \A n \in Nodes : LocalNames(n) = {} BY <1>1, <1>3 DEF LocalNames
  <2> QED BY <2>1, FS_EmptySet DEF Finite
<1>8. NoMissedFetch BY <1>1 DEF NoMissedFetch
<1>9. LiveInv BY <1>1, <1>3 DEF LiveInv
<1>10. ReplicaInv BY <1>1 DEF ReplicaInv, PairInv, Synced
<1> QED BY <1>2, <1>5, <1>6, <1>7, <1>8, <1>9, <1>10 DEF NetInv

\* Every step does what Preserved says.
LEMMA NextKeeps ==
    ASSUME NetInv, [Next]_vars PROVE Preserved
<1>1. CASE UNCHANGED vars
  <2>1. /\ conn' = conn /\ chan' = chan /\ dial' = dial /\ boxes' = boxes /\ pids' = pids
        /\ named' = named /\ view' = view /\ status' = status
        /\ restarts' = restarts /\ breaks' = breaks
    BY <1>1 DEF vars
  <2>2. Typed' BY <2>1 DEF NetInv, Typed
  <2> QED BY <2>1, <2>2, StillKeeps, TablesStill DEF Preserved
<1>2. ASSUME NEW n \in Nodes, NEW nm \in Titles, Create(n, nm) PROVE Preserved
  BY <1>2, CreateKeeps
<1>3. ASSUME NEW n \in Nodes, NEW mb \in boxes[n], Destroy(n, mb) PROVE Preserved
  BY <1>3, DestroyKeeps
<1>4. ASSUME NEW f \in Fetches, Fetch(f) \/ DropLinker(f) PROVE Preserved BY <1>4, FetchKeeps
<1>5. ASSUME NEW n \in Nodes, NEW m \in Nodes, Connect(n, m) PROVE Preserved BY <1>5, ConnectKeeps
<1>6. ASSUME NEW n \in Nodes, NEW m \in Nodes, Break(n, m) PROVE Preserved BY <1>6, BreakKeeps
<1>7. ASSUME NEW n \in Nodes, NEW m \in Nodes, Receive(n, m) PROVE Preserved
  BY <1>7, ReceiveAuthKeeps, ReceiveRegisterKeeps, ReceiveUnRegisterKeeps, ReceiveEofKeeps DEF Receive
<1>8. ASSUME NEW n \in Nodes, Restart(n) PROVE Preserved BY <1>8, RestartKeeps
<1> QED BY <1>1, <1>2, <1>3, <1>4, <1>5, <1>6, <1>7, <1>8 DEF Next

\* The invariant of the network and the agreement of every pair imply that
\* what is under way is the difference.
LEMMA InvAgrees ==
    ASSUME NetInv, ReplicaInv PROVE ReplicaAgrees
<1> SUFFICES ASSUME NEW n \in Nodes, NEW m \in Nodes, n # m, conn[m][n] = "authed",
                    ~Cut(m, n), ~Cut(n, m)
             PROVE  Replay([nm \in Names |-> named[n][<<nm, m>>]], m, chan[m][n])
                       = [nm \in Names |-> named[m][<<nm, m>>]]
  BY DEF ReplicaAgrees
<1> DEFINE table == [nm \in Names |-> named[n][<<nm, m>>]]
           there == [nm \in Names |-> named[m][<<nm, m>>]]
           result == Replay(table, m, chan[m][n])
<1>1. chan[m][n] \in Seq(Messages) BY DEF NetInv, Typed
<1>2. ASSUME NEW nm \in Names PROVE result[nm] = there[nm]
  <2>1. Synced(nm, m, Open(n, m), conn[m][n], chan[m][n], named[n][<<nm, m>>], named[m][<<nm, m>>])
    BY DEF ReplicaInv, PairInv
  <2>2. Open(n, m) BY DEF Open
  <2>3. Agrees(nm, m, chan[m][n], table[nm], there[nm]) BY <2>1, <2>2 DEF Synced
  <2> HIDE DEF table, there
  <2> QED BY <1>1, <2>3, ReplayAgrees
<1>3. result = [nm \in Names |-> result[nm]] BY DEF Replay
<1>4. there = [nm \in Names |-> there[nm]] OBVIOUS
<1> HIDE DEF table, there, result
<1>5. result = there BY <1>2, <1>3, <1>4
<1> QED BY <1>5 DEF result, table, there

\* LocalNamesLive from its parts.
LEMMA InvLive ==
    ASSUME Typed, LiveInv PROVE LocalNamesLive
<1> SUFFICES ASSUME NEW n \in Nodes
             PROVE  {[pid |-> named[n][<<nm, n>>].pid, name |-> nm] : nm \in LocalNames(n)}
                       = {mb \in boxes[n] : mb.name # Unnamed}
  BY DEF LocalNamesLive
<1> DEFINE Box(nm) == [pid |-> named[n][<<nm, n>>].pid, name |-> nm]
<1>1. ASSUME NEW nm \in LocalNames(n) PROVE Box(nm) \in boxes[n] /\ Box(nm).name # Unnamed
  <2>1. nm \in Names /\ named[n][<<nm, n>>] # NoBox BY DEF LocalNames
  <2> QED BY <2>1, MailboxAssumption DEF LiveInv
<1>2. ASSUME NEW mb \in boxes[n], mb.name # Unnamed PROVE mb.name \in LocalNames(n) /\ mb = Box(mb.name)
  <2>1. mb \in [pid : 1..MaxPid, name : Names \cup {Unnamed}] BY DEF Typed
  <2>2. mb.name \in Names BY <1>2, <2>1
  <2>3. named[n][<<mb.name, n>>] # NoBox /\ named[n][<<mb.name, n>>].pid = mb.pid
    BY <1>2 DEF LiveInv
  <2>4. mb = [pid |-> mb.pid, name |-> mb.name] BY <2>1
  <2> QED BY <2>2, <2>3, <2>4 DEF LocalNames
<1> HIDE DEF Box
<1>3. {Box(nm) : nm \in LocalNames(n)} = {mb \in boxes[n] : mb.name # Unnamed} BY <1>1, <1>2
<1> QED BY <1>3 DEF Box

\* Replication, in every cluster and whatever is created, destroyed, broken or
\* restarted: what a node knows of a connected peer, changed by what the peer
\* has sent and the node has not read, is what the peer has registered.
\* Nothing is assumed of the names: this holds also when a name is created
\* twice on one node.
THEOREM ReplicasAgree == Spec => []ReplicaAgrees
<1>1. Init => NetInv /\ ReplicaInv BY InitHolds
<1>2. NetInv /\ ReplicaInv /\ [Next]_vars => (NetInv /\ ReplicaInv)' BY NextKeeps DEF Preserved
<1>3. NetInv /\ ReplicaInv => ReplicaAgrees BY InvAgrees
<1> QED BY <1>1, <1>2, <1>3, PTL DEF Spec

\* No fetch waits for a name that its node knows: neither the look at the map
\* nor any way a name comes in, from here or from a peer, leaves one behind.
THEOREM NoFetchMissed == Spec => []NoMissedFetch
<1>1. Init => NetInv /\ NoMissedFetch BY InitHolds
<1>2. NetInv /\ NoMissedFetch /\ [Next]_vars => (NetInv /\ NoMissedFetch)' BY NextKeeps DEF Preserved
<1> QED BY <1>1, <1>2, PTL DEF Spec

\* Names of connected peers only, and listeners that believe in exactly the
\* names of the map, whatever names are created.
THEOREM PeersAndListeners == Spec => [](TypeOK /\ NamesOfPeersOnly /\ ListenersAgree)
<1>1. Init => NetInv /\ ListenersAgree BY InitHolds
<1>2. NetInv /\ ListenersAgree /\ [Next]_vars => (NetInv /\ ListenersAgree)' BY NextKeeps DEF Preserved
<1>3. NetInv => TypeOK /\ NamesOfPeersOnly BY DEF NetInv, Typed, TypeOK
<1> QED BY <1>1, <1>2, <1>3, PTL DEF Spec

\* A node's view is sound as long as no name is created that is in use on the
\* node: a second Create with the name takes it away from the mailbox that has
\* it (nodemonitor.cpp, UnRegister).
THEOREM NamesAreSound == ~Duplicates => (Spec => []NamesSound)
<1> SUFFICES ASSUME ~Duplicates PROVE Spec => []NamesSound OBVIOUS
<1>1. Init => NetInv /\ ListenersAgree /\ LiveInv BY InitHolds
<1>2. NetInv /\ ListenersAgree /\ LiveInv /\ [Next]_vars => (NetInv /\ ListenersAgree /\ LiveInv)'
  BY NextKeeps DEF Preserved
<1>3. NetInv /\ ListenersAgree /\ LiveInv => NamesSound
  BY InvLive DEF NetInv, Typed, TypeOK, NamesSound
<1> QED BY <1>1, <1>2, <1>3, PTL DEF Spec
=============================================================================
