----------------------------- MODULE FrameProofs -----------------------------
(***************************************************************************)
(* Proofs about Frame, for any owners, commands, timers and budgets.  The  *)
(* inductive invariant has two parts: what the timers, the queues of      *)
(* commands and the stack of callbacks keep whatever the callbacks do      *)
(* (Base), and what the walk over handlers_ keeps when no handler is let   *)
(* go under an outer Trigger (EventInv).                                   *)
(***************************************************************************)
EXTENDS Frame, TLAPS, FiniteSetTheorems, SequenceTheorems

Entries == [due : Int, id : Ids]
TimerRecords == [owner : Owners \cup {None}, refs : 0 .. 2]
Commands == [id : Cmds, executed : BOOLEAN, finish : BOOLEAN]

Distinct(s) == \A i, j \in DOMAIN s : s[i] = s[j] => i = j

\* No timer is twice in dq.
OnceIn(dq) == \A i, j \in DOMAIN dq : dq[i].id = dq[j].id => i = j

\* A timer's callback is running.
Running == stack # <<>> /\ stack[1].kind = "timer"

\* Timer id is in delayqueue_ or in intervals_.
Kept(id) ==
    \/ \E i \in DOMAIN delayqueue : delayqueue[i].id = id
    \/ \E i \in DOMAIN intervals : intervals[i] = id

TimersTyped ==
    /\ alive \subseteq Owners
    /\ timerOf \in [Owners -> Ids \cup {0}]
    /\ timer \in Seq(TimerRecords) /\ Len(timer) <= MaxTimers
    /\ delayqueue \in Seq(Entries)
    /\ intervals \in Seq(Ids)
    /\ since \in [Owners -> 0 .. Interval]
    /\ pc \in {"timers", "commands", "io", "exited"}

\* The linker of a live owner is that of a timer of its own.
LinkerInv(o) ==
    IF o \in alive THEN timerOf[o] \in DOMAIN timer /\ timer[timerOf[o]].owner = o
    ELSE timerOf[o] = 0

\* A timer is in one place at most, an interval in one until StopAll.
PlacesInv ==
    /\ \A i \in DOMAIN delayqueue : delayqueue[i].id \in DOMAIN timer
    /\ \A i \in DOMAIN intervals : intervals[i] \in DOMAIN timer
    /\ OnceIn(delayqueue)
    /\ Distinct(intervals)
    /\ \A i \in DOMAIN delayqueue, j \in DOMAIN intervals : delayqueue[i].id # intervals[j]
    /\ pc # "timers" => intervals = <<>>

\* The count of an interval's linker is that of its holders.
TimerInv(id) ==
    timer[id].owner # None =>
        /\ pc # "exited" => Kept(id)
        /\ timer[id].refs = One(Kept(id)) + One(timerOf[timer[id].owner] = id)

\* Update stands on the first of delayqueue_ while its callback runs.
RunningInv == Running => pc = "timers" /\ delayqueue # <<>> /\ delayqueue[1].due <= 0

\* The interval of a timer that its owner holds has passed when it is due,
\* except for the one that is running.
OnTime(o, i) ==
    timerOf[o] = delayqueue[i].id =>
        \/ since[o] = Interval
        \/ delayqueue[i].due + since[o] >= Interval
        \/ Running /\ delayqueue[i].id = delayqueue[1].id

TimingInv ==
    /\ TimersTyped
    /\ \A o \in Owners : LinkerInv(o)
    /\ PlacesInv
    /\ \A id \in DOMAIN timer : TimerInv(id)
    /\ RunningInv
    /\ \A o \in Owners : \A i \in DOMAIN delayqueue : OnTime(o, i)

\* The queue of owner o: its count, and on list_ exactly while it has commands.
QueueInv(o) ==
    /\ qrefs[o] = One(o \in alive) + One(o \in ToSet(list))
    /\ cmds[o] # <<>> <=> o \in ToSet(list)

QueuesInv ==
    /\ cmds \in [Owners -> Seq(Commands)]
    /\ qrefs \in [Owners -> 0 .. 2]
    /\ list \in Seq(Owners) /\ Distinct(list)
    /\ pushed \subseteq Cmds
    /\ cursor \in Owners \cup {None}
    /\ cursor # None => cursor \in ToSet(list)
    /\ \A o \in Owners : QueueInv(o)

\* A frame of the stack: a timer or a command at the bottom, Triggers above
\* it; only the innermost Trigger looks for its next handler.
FrameInv(i) ==
    /\ i > 1 => stack[i].kind = "event"
    /\ i < Len(stack) => stack[i].at # "look"
    /\ stack[i].kind = "timer" => stack[i].at = "in"
    /\ stack[i].kind = "command" =>
          /\ stack[i].at \in {"setup", "execute", "cleanup"}
          /\ stack[i].of \in ToSet(list)
    /\ stack[i].kind = "event" => stack[i].at \in {"in", "look"}
    /\ stack[i].kind # "event" /\ stack[i].first => stack[i].live
    /\ stack[i].ontime

StackInv ==
    /\ stack \in Seq(Frames)
    /\ \A i \in DOMAIN stack : FrameInv(i)

\* Only owners that were made have a place in a list; an owner is made once.
Made(o) == \E id \in DOMAIN timer : timer[id].owner = o
MadeInv ==
    \A o \in Owners : o \in alive \/ o \in ToSet(list) \/ o \in ToSet(handlers) => Made(o)

RestInv ==
    /\ handlers \in Seq(Owners) /\ Distinct(handlers)
    /\ exit \in BOOLEAN
    /\ left \in [Kinds -> Nat]

Base == TimingInv /\ QueuesInv /\ StackInv /\ MadeInv /\ RestInv

\* The handler of owner o: in handlers_ as long as somebody holds its linker,
\* and the linker has a second holder only while its owner lives.
HandlerInv(o) ==
    /\ o \in ToSet(handlers) <=> hrefs[o] # 0
    /\ hrefs[o] = 2 => o \in alive

\* What a Trigger stands on is in handlers_, and nobody lets it go under it.
TriggerInv(i) ==
    stack[i].kind = "event" =>
        /\ stack[i].of # None => stack[i].of \in ToSet(handlers)
        /\ stack[i].at = "in" => stack[i].of # None /\ stack[i].live
        /\ i < Len(stack) => hrefs[stack[i].of] = 2

EventInv ==
    /\ hrefs \in [Owners -> 0 .. 2]
    /\ \A o \in Owners : HandlerInv(o)
    /\ \A i \in DOMAIN stack : TriggerInv(i)

-----------------------------------------------------------------------------
(* Sequences *)

\* The elements of a sequence, by position.
LEMMA InSet ==
    ASSUME NEW s, NEW i \in DOMAIN s
    PROVE  s[i] \in ToSet(s)
BY Zenon DEF ToSet

\* A member of a sequence has a position.
LEMMA HasPosition ==
    ASSUME NEW s, NEW x \in ToSet(s)
    PROVE  \E i \in DOMAIN s : s[i] = x
BY Zenon DEF ToSet

\* The first k elements.
LEMMA PrefixIs ==
    ASSUME NEW S, NEW s \in Seq(S), NEW k \in 0 .. Len(s)
    PROVE  /\ SubSeq(s, 1, k) \in Seq(S)
           /\ Len(SubSeq(s, 1, k)) = k
           /\ \A i \in 1 .. k : SubSeq(s, 1, k)[i] = s[i]
<1> DEFINE a == SubSeq(s, 1, k)
<1>1. k \in Int /\ k \in Nat /\ \A i \in 1 .. k : s[i] \in S OBVIOUS
<1>2. /\ a \in Seq(S) /\ Len(a) = IF 1 <= k THEN k - 1 + 1 ELSE 0
      /\ \A i \in 1 .. k - 1 + 1 : a[i] = s[1 + i - 1]
  BY <1>1, SubSeqProperties
<1> HIDE DEF a
<1>3. Len(a) = k BY <1>1, <1>2
<1>4. ASSUME NEW i \in 1 .. k PROVE a[i] = s[i]
  <2>1. i \in 1 .. k - 1 + 1 /\ 1 + i - 1 = i BY <1>1
  <2> QED BY <1>2, <2>1
<1> QED BY <1>2, <1>3, <1>4 DEF a

\* The elements after the first k.
LEMMA SuffixIs ==
    ASSUME NEW S, NEW s \in Seq(S), NEW k \in 0 .. Len(s)
    PROVE  /\ SubSeq(s, k + 1, Len(s)) \in Seq(S)
           /\ Len(SubSeq(s, k + 1, Len(s))) = Len(s) - k
           /\ \A i \in 1 .. Len(s) - k : SubSeq(s, k + 1, Len(s))[i] = s[k + i]
<1> DEFINE n == Len(s)
           a == SubSeq(s, k + 1, n)
<1>1. k + 1 \in Int /\ n \in Nat /\ n \in Int /\ k \in 0 .. n /\ \A i \in k + 1 .. n : s[i] \in S OBVIOUS
<1>2. /\ a \in Seq(S) /\ Len(a) = IF k + 1 <= n THEN n - (k + 1) + 1 ELSE 0
      /\ \A i \in 1 .. n - (k + 1) + 1 : a[i] = s[(k + 1) + i - 1]
  BY <1>1, SubSeqProperties
<1> HIDE DEF a, n
<1>3. Len(a) = n - k BY <1>1, <1>2
<1>4. ASSUME NEW i \in 1 .. n - k PROVE a[i] = s[k + i]
  <2>1. i \in 1 .. n - (k + 1) + 1 /\ (k + 1) + i - 1 = k + i BY <1>1
  <2> QED BY <1>2, <2>1
<1> QED BY <1>2, <1>3, <1>4 DEF a, n

\* A list of distinct members that loses x keeps the others, and their order
\* does not matter here.
LEMMA WithoutIs ==
    ASSUME NEW S, NEW s \in Seq(S), Distinct(s), NEW x \in ToSet(s)
    PROVE  /\ Without(s, x) \in Seq(S)
           /\ Distinct(Without(s, x))
           /\ ToSet(Without(s, x)) = ToSet(s) \ {x}
<1> DEFINE p == CHOOSE i \in DOMAIN s : s[i] = x
           n == Len(s)
           w == Without(s, x)
<1>1. p \in DOMAIN s /\ s[p] = x BY HasPosition, Zenon
<1>2. p \in 1 .. n /\ n \in Nat /\ DOMAIN s = 1 .. n BY <1>1
<1>3. w = SubSeq(s, 1, p - 1) \o SubSeq(s, p + 1, n) BY DEF Without, RemoveAt
<1> HIDE DEF p, n, w
<1> DEFINE a == SubSeq(s, 1, p - 1)
           b == SubSeq(s, p + 1, n)
<1>4. a \in Seq(S) /\ Len(a) = p - 1 /\ \A i \in 1 .. p - 1 : a[i] = s[i]
  <2>1. p - 1 \in 0 .. Len(s) BY <1>2 DEF n
  <2> QED BY <2>1, PrefixIs
<1>5. b \in Seq(S) /\ Len(b) = n - p /\ \A i \in 1 .. n - p : b[i] = s[p + i]
  <2>1. p \in 0 .. Len(s) BY <1>2 DEF n
  <2> QED BY <2>1, SuffixIs DEF n
<1> HIDE DEF a, b
<1>6. w = a \o b BY <1>3 DEF a, b
<1>7. /\ w \in Seq(S) /\ Len(w) = n - 1
      /\ \A i \in 1 .. n - 1 : w[i] = IF i <= p - 1 THEN a[i] ELSE b[i - (p - 1)]
  <2>1. /\ w \in Seq(S) /\ Len(w) = Len(a) + Len(b)
        /\ \A i \in 1 .. Len(a) + Len(b) : w[i] = IF i <= Len(a) THEN a[i] ELSE b[i - Len(a)]
    BY <1>4, <1>5, <1>6, ConcatProperties
  <2>2. Len(a) + Len(b) = n - 1 BY <1>2, <1>4, <1>5
  <2> QED BY <1>4, <2>1, <2>2
<1>8. ASSUME NEW i \in 1 .. n - 1 PROVE w[i] = IF i < p THEN s[i] ELSE s[i + 1]
  <2>1. CASE i < p
    <3>1. i <= p - 1 /\ i \in 1 .. p - 1 BY <1>2, <2>1
    <3> QED BY <1>4, <1>7, <2>1, <3>1
  <2>2. CASE i >= p
    <3>1. ~(i <= p - 1) /\ i - (p - 1) \in 1 .. n - p /\ p + (i - (p - 1)) = i + 1 BY <1>2, <2>2
    <3>2. b[i - (p - 1)] = s[i + 1] BY <1>5, <3>1
    <3> QED BY <1>2, <1>7, <2>2, <3>1, <3>2
  <2> QED BY <1>2, <2>1, <2>2
<1>9. DOMAIN w = 1 .. n - 1 BY <1>2, <1>7
<1>10. Distinct(w)
  <2>1. ASSUME NEW i \in 1 .. n - 1, NEW j \in 1 .. n - 1, w[i] = w[j], i < j PROVE FALSE
    <3>1. CASE j < p
      <4>1. i \in DOMAIN s /\ j \in DOMAIN s /\ s[i] = s[j] /\ i # j
        BY <1>2, <1>8, <2>1, <3>1
      <4> QED BY <4>1 DEF Distinct
    <3>2. CASE i < p /\ j >= p
      <4>1. i \in DOMAIN s /\ j + 1 \in DOMAIN s /\ s[i] = s[j + 1] /\ i # j + 1
        BY <1>2, <1>8, <2>1, <3>2
      <4> QED BY <4>1 DEF Distinct
    <3>3. CASE i >= p
      <4>1. i + 1 \in DOMAIN s /\ j + 1 \in DOMAIN s /\ s[i + 1] = s[j + 1] /\ i + 1 # j + 1
        BY <1>2, <1>8, <2>1, <3>3
      <4> QED BY <4>1 DEF Distinct
    <3> QED BY <1>2, <2>1, <3>1, <3>2, <3>3
  <2>2. ASSUME NEW i \in DOMAIN w, NEW j \in DOMAIN w, w[i] = w[j] PROVE i = j
    <3>1. i \in 1 .. n - 1 /\ j \in 1 .. n - 1 BY <1>9
    <3> QED BY <1>2, <2>1, <2>2, <3>1
  <2> QED BY <2>2 DEF Distinct
<1>11. ASSUME NEW y \in ToSet(w) PROVE y \in ToSet(s) \ {x}
  <2>1. PICK i \in DOMAIN w : w[i] = y BY <1>11, HasPosition, Zenon
  <2>2. PICK j \in DOMAIN s : j # p /\ s[j] = y BY <1>2, <1>8, <1>9, <2>1
  <2>3. y # x BY <1>1, <2>2 DEF Distinct
  <2> QED BY <2>2, <2>3, InSet
<1>12. ASSUME NEW y \in ToSet(s), y # x PROVE y \in ToSet(w)
  <2>1. PICK j \in DOMAIN s : s[j] = y BY HasPosition, Zenon
  <2>2. j # p BY <1>1, <1>12, <2>1
  <2>3. CASE j < p
    <3>1. j \in DOMAIN w /\ w[j] = y BY <1>2, <1>8, <1>9, <2>1, <2>3
    <3> QED BY <3>1, InSet
  <2>4. CASE j > p
    <3>1. j - 1 \in DOMAIN w /\ w[j - 1] = y BY <1>2, <1>8, <1>9, <2>1, <2>4
    <3> QED BY <3>1, InSet
  <2> QED BY <1>2, <2>1, <2>2, <2>3, <2>4
<1> QED BY <1>7, <1>10, <1>11, <1>12 DEF w

\* What follows a member is another member, or nothing.
LEMMA NextOfIs ==
    ASSUME NEW S, NEW s \in Seq(S), Distinct(s), NEW x
    PROVE  NextOf(s, x) # None => NextOf(s, x) \in ToSet(s) \ {x}
<1> DEFINE after == {i \in 2 .. Len(s) : s[i - 1] = x}
           k == CHOOSE i \in after : TRUE
<1>1. SUFFICES ASSUME NextOf(s, x) # None PROVE NextOf(s, x) \in ToSet(s) \ {x} OBVIOUS
<1>2. after # {} /\ NextOf(s, x) = s[k] BY <1>1 DEF NextOf
<1>3. k \in after BY <1>2
<1> HIDE DEF k
<1>4. k \in DOMAIN s /\ k - 1 \in DOMAIN s /\ k # k - 1 /\ s[k - 1] = x BY <1>3
<1>5. s[k] # x BY <1>4 DEF Distinct
<1> QED BY <1>2, <1>4, <1>5, InSet

\* So is the first.
LEMMA FirstOfIs ==
    ASSUME NEW S, NEW s \in Seq(S)
    PROVE  FirstOf(s) # None => FirstOf(s) \in ToSet(s)
<1>1. s # <<>> => 1 \in DOMAIN s OBVIOUS
<1> QED BY <1>1, InSet DEF FirstOf

\* A new member in front.
LEMMA PushFrontIs ==
    ASSUME NEW S, NEW s \in Seq(S), NEW x \in S
    PROVE  /\ <<x>> \o s \in Seq(S)
           /\ ToSet(<<x>> \o s) = ToSet(s) \cup {x}
           /\ Distinct(s) /\ x \notin ToSet(s) => Distinct(<<x>> \o s)
<1> DEFINE n == Len(s)
           w == <<x>> \o s
<1>1. w \in Seq(S) /\ n \in Nat /\ DOMAIN w = 1 .. n + 1 /\ DOMAIN s = 1 .. n OBVIOUS
<1>2. w[1] = x OBVIOUS
<1>3. ASSUME NEW i \in DOMAIN s PROVE i + 1 \in DOMAIN w /\ w[i + 1] = s[i] OBVIOUS
<1> HIDE DEF w, n
<1>4. ASSUME NEW i \in DOMAIN w, i # 1 PROVE i - 1 \in DOMAIN s /\ w[i] = s[i - 1]
  <2>1. i - 1 \in DOMAIN s /\ (i - 1) + 1 = i BY <1>1, <1>4
  <2> QED BY <1>3, <2>1
<1>5. ASSUME NEW y \in ToSet(w) PROVE y \in ToSet(s) \cup {x}
  <2>1. PICK i \in DOMAIN w : w[i] = y BY <1>5, HasPosition, Zenon
  <2> QED BY <1>2, <1>4, <2>1, InSet
<1>6. ASSUME NEW y \in ToSet(s) \cup {x} PROVE y \in ToSet(w)
  <2>1. CASE y = x
    <3>1. 1 \in DOMAIN w BY <1>1
    <3> QED BY <1>2, <2>1, <3>1, InSet
  <2>2. CASE y \in ToSet(s)
    <3>1. PICK i \in DOMAIN s : s[i] = y BY <2>2, HasPosition, Zenon
    <3>2. i + 1 \in DOMAIN w /\ w[i + 1] = y BY <1>3, <3>1
    <3> QED BY <3>2, InSet
  <2> QED BY <2>1, <2>2
<1>7. ASSUME Distinct(s), x \notin ToSet(s), NEW i \in DOMAIN w, NEW j \in DOMAIN w, w[i] = w[j]
      PROVE  i = j
  <2>1. CASE i = 1 /\ j # 1 BY <1>2, <1>4, <1>7, <2>1, InSet
  <2>2. CASE i # 1 /\ j = 1 BY <1>2, <1>4, <1>7, <2>2, InSet
  <2>3. CASE i # 1 /\ j # 1
    <3>1. i - 1 \in DOMAIN s /\ j - 1 \in DOMAIN s /\ s[i - 1] = s[j - 1] BY <1>4, <1>7, <2>3
    <3>2. i - 1 = j - 1 BY <1>7, <3>1 DEF Distinct
    <3> QED BY <1>1, <3>2
  <2> QED BY <2>1, <2>2, <2>3
<1>8. Distinct(s) /\ x \notin ToSet(s) => Distinct(w) BY <1>7 DEF Distinct
<1> QED BY <1>1, <1>5, <1>6, <1>8 DEF w

\* One element is replaced.
LEMMA ReplacedIs ==
    ASSUME NEW S, NEW s \in Seq(S), NEW i \in DOMAIN s, NEW e \in S
    PROVE  /\ [s EXCEPT ![i] = e] \in Seq(S)
           /\ Len([s EXCEPT ![i] = e]) = Len(s)
           /\ DOMAIN [s EXCEPT ![i] = e] = DOMAIN s
OBVIOUS

\* A sequence that is not empty has a first element.
LEMMA HasFirst ==
    ASSUME NEW S, NEW s \in Seq(S), s # <<>>
    PROVE  1 \in DOMAIN s /\ s[1] \in S
OBVIOUS

\* The first element leaves.
LEMMA TailIs ==
    ASSUME NEW S, NEW s \in Seq(S), s # <<>>
    PROVE  /\ Tail(s) \in Seq(S)
           /\ \A i \in DOMAIN Tail(s) : i + 1 \in DOMAIN s /\ i + 1 # 1 /\ Tail(s)[i] = s[i + 1]
           /\ \A i \in DOMAIN s : i # 1 => i - 1 \in DOMAIN Tail(s) /\ Tail(s)[i - 1] = s[i]
OBVIOUS

\* The last one leaves.
LEMMA FrontIs ==
    ASSUME NEW S, NEW s \in Seq(S), s # <<>>
    PROVE  /\ Front(s) \in Seq(S)
           /\ Len(Front(s)) = Len(s) - 1
           /\ \A i \in DOMAIN Front(s) : i \in DOMAIN s /\ i < Len(s) /\ Front(s)[i] = s[i]
<1> DEFINE n == Len(s)
<1>1. n \in Nat \ {0} /\ DOMAIN s = 1 .. n OBVIOUS
<1>2. n - 1 \in 0 .. Len(s) BY <1>1 DEF n
<1>3. Front(s) = SubSeq(s, 1, n - 1) BY DEF Front
<1> HIDE DEF n
<1>4. /\ Front(s) \in Seq(S) /\ Len(Front(s)) = n - 1
      /\ \A i \in 1 .. n - 1 : Front(s)[i] = s[i]
  BY <1>2, <1>3, PrefixIs
<1>5. DOMAIN Front(s) = 1 .. n - 1 BY <1>4
<1> QED BY <1>1, <1>4, <1>5 DEF n

\* A new last one comes.
LEMMA AppendIs ==
    ASSUME NEW S, NEW s \in Seq(S), NEW e \in S
    PROVE  /\ Append(s, e) \in Seq(S)
           /\ Len(Append(s, e)) = Len(s) + 1
           /\ Append(s, e)[Len(s) + 1] = e
           /\ \A i \in DOMAIN s : i \in DOMAIN Append(s, e) /\ Append(s, e)[i] = s[i]
           /\ \A i \in DOMAIN Append(s, e) : i \in DOMAIN s \/ i = Len(s) + 1
OBVIOUS

-----------------------------------------------------------------------------
(* emplace *)

\* r is dq with timers ids of time due between its first n and the others.
Spliced(r, dq, due, ids, n) ==
    /\ r \in Seq(Entries) /\ Len(r) = Len(dq) + Len(ids)
    /\ \A j \in 1 .. Len(r) :
          r[j] = IF j <= n THEN dq[j]
                 ELSE IF j <= n + Len(ids) THEN [due |-> due, id |-> ids[j - n]]
                 ELSE dq[j - Len(ids)]
    /\ dq # <<>> /\ dq[1].due <= due => n > 0

\* emplace splices.
LEMMA EmplacedSplices ==
    ASSUME NEW dq \in Seq(Entries), NEW due \in Int, NEW ids \in Seq(Ids)
    PROVE  \E n \in 0 .. Len(dq) : Spliced(Emplaced(dq, due, ids), dq, due, ids, n)
<1> DEFINE W == {i \in DOMAIN dq : dq[i].due <= due}
           n == Cardinality(W)
           m == Len(dq)
           k == Len(ids)
           a == SubSeq(dq, 1, n)
           e == [i \in DOMAIN ids |-> [due |-> due, id |-> ids[i]]]
           b == SubSeq(dq, n + 1, m)
           r == Emplaced(dq, due, ids)
<1>1. m \in Nat /\ k \in Nat /\ DOMAIN dq = 1 .. m /\ DOMAIN ids = 1 .. k OBVIOUS
<1>2. n \in 0 .. m
  <2>1. IsFiniteSet(1 .. m) /\ Cardinality(1 .. m) = m
    <3>1. m \in Int /\ 1 \in Int BY <1>1
    <3> HIDE DEF m
    <3>2. IsFiniteSet(1 .. m) /\ Cardinality(1 .. m) = IF 1 <= m THEN m - 1 + 1 ELSE 0
      BY <3>1, FS_Interval
    <3> QED BY <1>1, <3>2
  <2>2. W \subseteq 1 .. m BY <1>1
  <2>3. IsFiniteSet(W) /\ Cardinality(W) <= Cardinality(1 .. m) BY <2>1, <2>2, FS_Subset
  <2>4. n \in Nat BY <2>3, FS_CardinalityType
  <2> QED BY <1>1, <2>1, <2>3, <2>4
<1>3. dq # <<>> /\ dq[1].due <= due => n # 0
  <2>1. SUFFICES ASSUME dq # <<>>, dq[1].due <= due PROVE n # 0 OBVIOUS
  <2>2. 1 \in W BY <2>1
  <2>3. IsFiniteSet(1 .. m) BY <1>1, FS_Interval
  <2>4. IsFiniteSet(W) BY <1>1, <2>3, FS_Subset
  <2> QED BY <2>2, <2>4, FS_EmptySet
<1>4. r = a \o e \o b BY DEF Emplaced
<1>5. e \in Seq(Entries) /\ Len(e) = k /\ \A i \in 1 .. k : e[i] = [due |-> due, id |-> ids[i]]
  BY <1>1 DEF Entries
<1> HIDE DEF W, n, e, r
<1>6. a \in Seq(Entries) /\ Len(a) = n /\ \A i \in 1 .. n : a[i] = dq[i] BY <1>2, PrefixIs
<1>7. b \in Seq(Entries) /\ Len(b) = m - n /\ \A i \in 1 .. m - n : b[i] = dq[n + i]
  BY <1>2, SuffixIs
<1> HIDE DEF a, b
<1> DEFINE c == a \o e
<1>8. /\ c \in Seq(Entries) /\ Len(c) = n + k
      /\ \A i \in 1 .. n + k : c[i] = IF i <= n THEN a[i] ELSE e[i - n]
  <2>1. /\ c \in Seq(Entries) /\ Len(c) = Len(a) + Len(e)
        /\ \A i \in 1 .. Len(a) + Len(e) : c[i] = IF i <= Len(a) THEN a[i] ELSE e[i - Len(a)]
    <3>1. a \in Seq(Entries) /\ e \in Seq(Entries) BY <1>5, <1>6
    <3> QED BY <3>1, ConcatProperties
  <2> QED BY <1>5, <1>6, <2>1
<1> HIDE DEF c
<1>9. /\ r \in Seq(Entries) /\ Len(r) = (n + k) + (m - n)
      /\ \A i \in 1 .. (n + k) + (m - n) : r[i] = IF i <= n + k THEN c[i] ELSE b[i - (n + k)]
  <2>1. r = c \o b BY <1>4 DEF c
  <2>2. /\ r \in Seq(Entries) /\ Len(r) = Len(c) + Len(b)
        /\ \A i \in 1 .. Len(c) + Len(b) : r[i] = IF i <= Len(c) THEN c[i] ELSE b[i - Len(c)]
    BY <1>7, <1>8, <2>1, ConcatProperties
  <2> QED BY <1>7, <1>8, <2>2
<1> HIDE DEF m, k
<1>10. Len(r) = m + k BY <1>1, <1>2, <1>9
<1>11. ASSUME NEW j \in 1 .. Len(r)
       PROVE  r[j] = IF j <= n THEN dq[j]
                     ELSE IF j <= n + k THEN [due |-> due, id |-> ids[j - n]]
                     ELSE dq[j - k]
  <2>1. CASE j <= n
    <3>1. j \in 1 .. n /\ j \in 1 .. n + k /\ j \in 1 .. (n + k) + (m - n) /\ j <= n + k
      BY <1>1, <1>2, <1>10, <2>1
    <3> QED BY <1>6, <1>8, <1>9, <2>1, <3>1
  <2>2. CASE ~(j <= n) /\ j <= n + k
    <3>1. j \in 1 .. n + k /\ j \in 1 .. (n + k) + (m - n) /\ j - n \in 1 .. k
      BY <1>1, <1>2, <1>10, <2>2
    <3> QED BY <1>5, <1>8, <1>9, <2>2, <3>1
  <2>3. CASE ~(j <= n + k)
    <3>1. /\ j \in 1 .. (n + k) + (m - n) /\ j - (n + k) \in 1 .. m - n
          /\ n + (j - (n + k)) = j - k /\ ~(j <= n)
      BY <1>1, <1>2, <1>10, <2>3
    <3>2. b[j - (n + k)] = dq[j - k] BY <1>7, <3>1
    <3> QED BY <1>9, <2>3, <3>1, <3>2
  <2> QED BY <2>1, <2>2, <2>3
<1>12. n > 0 <=> n # 0 BY <1>2
<1>13. Spliced(r, dq, due, ids, n) BY <1>3, <1>9, <1>10, <1>11, <1>12 DEF Spliced, m, k
<1> QED BY <1>2, <1>13 DEF r, m

\* What emplace does, position by position.
Emplacement(r, dq, due, ids) ==
    /\ r \in Seq(Entries)
    /\ \A j \in DOMAIN r : \/ \E i \in DOMAIN dq : r[j] = dq[i]
                           \/ \E i \in DOMAIN ids : r[j].due = due /\ r[j].id = ids[i]
    /\ \A i \in DOMAIN dq : \E j \in DOMAIN r : r[j] = dq[i]
    /\ \A i \in DOMAIN ids : \E j \in DOMAIN r : r[j].id = ids[i]
    /\ dq # <<>> /\ dq[1].due <= due => r # <<>> /\ r[1] = dq[1]

\* emplace keeps what was there, the first included if it is due earlier, and
\* adds the new timers, so that none is twice in the queue.
LEMMA EmplacedIs ==
    ASSUME NEW dq \in Seq(Entries), NEW due \in Int, NEW ids \in Seq(Ids)
    PROVE  /\ Emplacement(Emplaced(dq, due, ids), dq, due, ids)
           /\ OnceIn(dq) /\ Distinct(ids) /\ (\A i \in DOMAIN dq, j \in DOMAIN ids : dq[i].id # ids[j])
                => OnceIn(Emplaced(dq, due, ids))
<1> DEFINE r == Emplaced(dq, due, ids)
           m == Len(dq)
           k == Len(ids)
<1>1. PICK n \in 0 .. m : Spliced(r, dq, due, ids, n) BY EmplacedSplices
<1>2. m \in Nat /\ k \in Nat /\ DOMAIN dq = 1 .. m /\ DOMAIN ids = 1 .. k OBVIOUS
<1> HIDE DEF r
<1>3. r \in Seq(Entries) /\ Len(r) = m + k /\ DOMAIN r = 1 .. m + k BY <1>1 DEF Spliced
<1>4. \A j \in 1 .. m + k :
          r[j] = IF j <= n THEN dq[j]
                 ELSE IF j <= n + k THEN [due |-> due, id |-> ids[j - n]]
                 ELSE dq[j - k]
  BY <1>1, <1>3 DEF Spliced
<1>5. dq # <<>> /\ dq[1].due <= due => n > 0 BY <1>1 DEF Spliced
<1>6. dq # <<>> => m > 0 BY <1>2
<1> HIDE DEF m, k
<1>a. ASSUME NEW j \in 1 .. m + k, j <= n PROVE j \in DOMAIN dq /\ r[j] = dq[j]
  <2>1. j \in DOMAIN dq BY <1>2, <1>a
  <2> QED BY <1>4, <1>a, <2>1
<1>b. ASSUME NEW j \in 1 .. m + k, ~(j <= n), j <= n + k
      PROVE  j - n \in DOMAIN ids /\ r[j] = [due |-> due, id |-> ids[j - n]]
  <2>1. j - n \in DOMAIN ids BY <1>2, <1>b
  <2> QED BY <1>4, <1>b, <2>1
<1>c. ASSUME NEW j \in 1 .. m + k, ~(j <= n + k) PROVE j - k \in DOMAIN dq /\ r[j] = dq[j - k]
  <2>1. j - k \in DOMAIN dq /\ ~(j <= n) BY <1>2, <1>c
  <2> QED BY <1>4, <1>c, <2>1
<1>7. ASSUME NEW j \in DOMAIN r
      PROVE  \/ \E i \in DOMAIN dq : r[j] = dq[i]
             \/ \E i \in DOMAIN ids : r[j].due = due /\ r[j].id = ids[i]
  <2>1. CASE j <= n
    <3>1. j \in DOMAIN dq /\ r[j] = dq[j] BY <1>3, <1>a, <2>1
    <3> QED BY <3>1
  <2>2. CASE ~(j <= n) /\ j <= n + k
    <3>1. j - n \in DOMAIN ids /\ r[j] = [due |-> due, id |-> ids[j - n]] BY <1>3, <1>b, <2>2
    <3> QED BY <3>1
  <2>3. CASE ~(j <= n + k)
    <3>1. j - k \in DOMAIN dq /\ r[j] = dq[j - k] BY <1>3, <1>c, <2>3
    <3> QED BY <3>1
  <2> QED BY <2>1, <2>2, <2>3
<1>8. ASSUME NEW i \in DOMAIN dq PROVE \E j \in DOMAIN r : r[j] = dq[i]
  <2>1. CASE i <= n
    <3>1. i \in DOMAIN r /\ r[i] = dq[i] BY <1>2, <1>3, <1>4, <2>1
    <3> QED BY <3>1
  <2>2. CASE ~(i <= n)
    <3> DEFINE q == i + k
    <3>1. q \in 1 .. m + k /\ ~(q <= n + k) /\ q - k = i BY <1>2, <2>2
    <3> HIDE DEF q
    <3>2. r[q] = dq[q - k] BY <1>c, <3>1
    <3> QED BY <1>3, <3>1, <3>2
  <2> QED BY <2>1, <2>2
<1>9. ASSUME NEW i \in DOMAIN ids PROVE \E j \in DOMAIN r : r[j].id = ids[i]
  <2>1. i + n \in 1 .. m + k /\ ~(i + n <= n) /\ i + n <= n + k /\ i + n - n = i BY <1>2
  <2>2. r[i + n] = [due |-> due, id |-> ids[i]] BY <1>4, <2>1
  <2> QED BY <1>3, <2>1, <2>2
<1>10. ASSUME dq # <<>>, dq[1].due <= due PROVE r # <<>> /\ r[1] = dq[1]
  <2>1. n > 0 /\ 1 \in 1 .. m + k /\ 1 <= n BY <1>2, <1>5, <1>10
  <2>2. r[1] = dq[1] BY <1>4, <2>1
  <2>3. Len(r) > 0 BY <1>2, <1>3, <2>1
  <2> QED BY <2>2, <2>3
<1>11. Emplacement(r, dq, due, ids) BY <1>3, <1>7, <1>8, <1>9, <1>10 DEF Emplacement
<1>12. ASSUME OnceIn(dq), Distinct(ids), \A i \in DOMAIN dq, j \in DOMAIN ids : dq[i].id # ids[j],
              NEW i \in 1 .. m + k, NEW j \in 1 .. m + k, i < j, r[i].id = r[j].id
       PROVE  FALSE
  <2>1. CASE i <= n /\ j <= n
    <3>1. i \in DOMAIN dq /\ j \in DOMAIN dq /\ r[i] = dq[i] /\ r[j] = dq[j] BY <1>a, <2>1
    <3> QED BY <1>12, <3>1 DEF OnceIn
  <2>2. CASE i <= n /\ ~(j <= n) /\ j <= n + k
    <3>1. i \in DOMAIN dq /\ r[i] = dq[i] BY <1>a, <2>2
    <3>2. j - n \in DOMAIN ids /\ r[j] = [due |-> due, id |-> ids[j - n]] BY <1>b, <2>2
    <3> QED BY <1>12, <3>1, <3>2
  <2>3. CASE i <= n /\ ~(j <= n + k)
    <3>1. i \in DOMAIN dq /\ r[i] = dq[i] BY <1>a, <2>3
    <3>2. j - k \in DOMAIN dq /\ r[j] = dq[j - k] BY <1>c, <2>3
    <3>3. i # j - k BY <1>2, <2>3
    <3> QED BY <1>12, <3>1, <3>2, <3>3 DEF OnceIn
  <2>4. CASE ~(i <= n) /\ i <= n + k /\ ~(j <= n) /\ j <= n + k
    <3>1. i - n \in DOMAIN ids /\ r[i] = [due |-> due, id |-> ids[i - n]] BY <1>b, <2>4
    <3>2. j - n \in DOMAIN ids /\ r[j] = [due |-> due, id |-> ids[j - n]] BY <1>b, <2>4
    <3>3. i - n # j - n BY <1>12
    <3> QED BY <1>12, <3>1, <3>2, <3>3 DEF Distinct
  <2>5. CASE ~(i <= n) /\ i <= n + k /\ ~(j <= n + k)
    <3>1. i - n \in DOMAIN ids /\ r[i] = [due |-> due, id |-> ids[i - n]] BY <1>b, <2>5
    <3>2. j - k \in DOMAIN dq /\ r[j] = dq[j - k] BY <1>c, <2>5
    <3> QED BY <1>12, <3>1, <3>2
  <2>6. CASE ~(i <= n + k) /\ ~(j <= n + k)
    <3>1. i - k \in DOMAIN dq /\ r[i] = dq[i - k] BY <1>c, <2>6
    <3>2. j - k \in DOMAIN dq /\ r[j] = dq[j - k] BY <1>c, <2>6
    <3>3. i - k # j - k BY <1>2, <1>12
    <3> QED BY <1>12, <3>1, <3>2, <3>3 DEF OnceIn
  <2>7. (j <= n => i <= n) /\ (j <= n + k => i <= n + k) /\ (i <= n => i <= n + k)
    BY <1>2, <1>12
  <2> QED BY <2>1, <2>2, <2>3, <2>4, <2>5, <2>6, <2>7
<1>13. ASSUME OnceIn(dq), Distinct(ids), \A i \in DOMAIN dq, j \in DOMAIN ids : dq[i].id # ids[j]
       PROVE  OnceIn(r)
  <2>1. ASSUME NEW i \in DOMAIN r, NEW j \in DOMAIN r, r[i].id = r[j].id PROVE i = j
    <3>1. i \in 1 .. m + k /\ j \in 1 .. m + k BY <1>3
    <3>2. ~(i < j) BY <1>12, <1>13, <2>1, <3>1
    <3>3. ~(j < i) BY <1>12, <1>13, <2>1, <3>1
    <3> QED BY <1>2, <3>1, <3>2, <3>3
  <2> QED BY <2>1 DEF OnceIn
<1> QED BY <1>11, <1>13 DEF r

-----------------------------------------------------------------------------
(* Timers *)

\* What the constants are.
LEMMA Constants ==
    /\ None \notin Owners /\ Interval \in Nat /\ Interval > 0 /\ MaxTimers \in Nat
    /\ Delays \subseteq Nat /\ Steps \subseteq Nat /\ Ids = 1 .. MaxTimers /\ 0 \notin Ids
BY FrameAssumption DEF Ids

\* Steps that do not concern the timers.
LEMMA TimingStill ==
    ASSUME TimingInv, UNCHANGED <<alive, timing>>, Running' <=> Running,
           pc' = pc \/ (pc = "commands" /\ pc' = "io")
    PROVE  TimingInv'
<1>1. /\ alive' = alive /\ timerOf' = timerOf /\ timer' = timer /\ delayqueue' = delayqueue
      /\ intervals' = intervals /\ since' = since
  BY DEF timing
<1>2. TimersTyped' BY <1>1 DEF TimingInv, TimersTyped
<1>3. ASSUME NEW o \in Owners PROVE LinkerInv(o)' BY <1>1 DEF TimingInv, LinkerInv
<1>4. PlacesInv' BY <1>1 DEF TimingInv, PlacesInv, OnceIn, Distinct
<1>5. ASSUME NEW id \in DOMAIN timer' PROVE TimerInv(id)'
  <2>1. TimerInv(id) BY <1>1 DEF TimingInv
  <2>2. Kept(id)' <=> Kept(id) BY <1>1 DEF Kept
  <2> QED BY <1>1, <2>1, <2>2 DEF TimerInv, One
<1>6. RunningInv' BY <1>1 DEF TimingInv, RunningInv
<1>7. ASSUME NEW o \in Owners, NEW i \in DOMAIN delayqueue' PROVE OnTime(o, i)'
  <2>1. OnTime(o, i) BY <1>1 DEF TimingInv
  <2> QED BY <1>1, <2>1 DEF OnTime
<1> QED BY <1>2, <1>3, <1>4, <1>5, <1>6, <1>7 DEF TimingInv

\* A timer that fires is held by a live owner whose interval has passed.
LEMMA FiringOnTime ==
    ASSUME TimingInv, stack = <<>>, Due, Fires(delayqueue[1].id)
    PROVE  LET o == timer[delayqueue[1].id].owner IN
           /\ o \in Owners \cup {None}
           /\ o # None => o \in alive /\ timerOf[o] = delayqueue[1].id /\ since[o] = Interval
<1> DEFINE id == delayqueue[1].id
           o == timer[id].owner
<1>1. 1 \in DOMAIN delayqueue /\ delayqueue[1].due <= 0 /\ delayqueue[1].due \in Int
  <2>1. delayqueue \in Seq(Entries) BY DEF TimingInv, TimersTyped
  <2>2. 1 \in DOMAIN delayqueue /\ delayqueue[1] \in Entries BY <2>1, HasFirst DEF Due
  <2> QED BY <2>2 DEF Due, Entries
<1>2. id \in DOMAIN timer BY <1>1 DEF TimingInv, PlacesInv
<1>3. timer[id] \in TimerRecords BY <1>2 DEF TimingInv, TimersTyped
<1>4. o \in Owners \cup {None} BY <1>3 DEF TimerRecords
<1>5. ASSUME o # None PROVE o \in alive /\ timerOf[o] = id /\ since[o] = Interval
  <2>1. o \in Owners BY <1>4, <1>5
  <2>2. timer[id].refs = 2 BY <1>5 DEF Fires
  <2>3. timer[id].refs = One(Kept(id)) + One(timerOf[o] = id) BY <1>2, <1>5 DEF TimingInv, TimerInv
  <2>4. timerOf[o] = id BY <2>2, <2>3 DEF One
  <2>5. id # 0 BY <1>2 DEF TimingInv, TimersTyped
  <2>6. o \in alive BY <2>1, <2>4, <2>5 DEF TimingInv, LinkerInv
  <2>7. OnTime(o, 1) BY <1>1, <2>1 DEF TimingInv
  <2>8. since[o] = Interval \/ delayqueue[1].due + since[o] >= Interval
    BY <2>4, <2>7 DEF OnTime, Running
  <2>9. since[o] \in 0 .. Interval BY <2>1 DEF TimingInv, TimersTyped
  <2>10. since[o] = Interval BY <1>1, <2>8, <2>9, Constants
  <2> QED BY <2>4, <2>6, <2>10
<1> QED BY <1>4, <1>5

\* The callback of a timer begins.
LEMMA TimerFiresTiming == ASSUME TimingInv, TimerFires PROVE TimingInv'
<1> DEFINE id == delayqueue[1].id
           o == timer[id].owner
<1>1. /\ pc = "timers" /\ stack = <<>> /\ Due /\ Fires(id)
      /\ stack' = <<Entered("timer", o, "in", o = None \/ since[o] = Interval)>>
      /\ since' = IF o = None THEN since ELSE [since EXCEPT ![o] = 0]
      /\ alive' = alive /\ timerOf' = timerOf /\ timer' = timer /\ delayqueue' = delayqueue
      /\ intervals' = intervals /\ pc' = pc
  BY DEF TimerFires, loop
<1>2. o \in Owners \cup {None} /\ (o # None => timerOf[o] = id) BY <1>1, FiringOnTime
<1>3. Running' BY <1>1 DEF Running, Entered
<1>4. since' \in [Owners -> 0 .. Interval]
  BY <1>1, <1>2, Constants DEF TimingInv, TimersTyped
<1>5. TimersTyped' BY <1>1, <1>4 DEF TimingInv, TimersTyped
<1>6. ASSUME NEW p \in Owners PROVE LinkerInv(p)' BY <1>1 DEF TimingInv, LinkerInv
<1>7. PlacesInv' BY <1>1 DEF TimingInv, PlacesInv, OnceIn, Distinct
<1>8. ASSUME NEW k \in DOMAIN timer' PROVE TimerInv(k)'
  <2>1. TimerInv(k) BY <1>1 DEF TimingInv
  <2>2. Kept(k)' <=> Kept(k) BY <1>1 DEF Kept
  <2> QED BY <1>1, <2>1, <2>2 DEF TimerInv
<1>9. RunningInv' BY <1>1 DEF RunningInv, Due
<1>10. ASSUME NEW p \in Owners, NEW i \in DOMAIN delayqueue' PROVE OnTime(p, i)'
  <2>1. OnTime(p, i) BY <1>1 DEF TimingInv
  <2>2. CASE p = o
    <3>1. timerOf[p] = id BY <1>2, <2>2, Constants
    <3> QED BY <1>1, <1>3, <3>1 DEF OnTime
  <2>3. CASE p # o
    <3>1. since'[p] = since[p] BY <1>1, <2>3 DEF TimingInv, TimersTyped
    <3>2. ~Running BY <1>1 DEF Running
    <3> QED BY <1>1, <2>1, <3>1, <3>2 DEF OnTime
  <2> QED BY <2>2, <2>3
<1> QED BY <1>5, <1>6, <1>7, <1>8, <1>9, <1>10 DEF TimingInv

\* A timer that ran, or that nobody holds, leaves delayqueue_.
LEMMA RetireTiming ==
    ASSUME TimingInv, Retire, delayqueue # <<>>, pc = "timers", pc' = pc, stack' = <<>>,
           UNCHANGED <<alive, timerOf, timer, since>>
    PROVE  TimingInv'
<1> DEFINE id == delayqueue[1].id
           o == timer[id].owner
           dq == Tail(delayqueue)
<1>1. /\ alive' = alive /\ timerOf' = timerOf /\ timer' = timer /\ since' = since
      /\ delayqueue' = dq
      /\ intervals' = IF o = None THEN intervals ELSE Append(intervals, id)
  BY DEF Retire
<1>2. delayqueue \in Seq(Entries) /\ intervals \in Seq(Ids) BY DEF TimingInv, TimersTyped
<1>3. /\ dq \in Seq(Entries)
      /\ \A i \in DOMAIN dq : i + 1 \in DOMAIN delayqueue /\ i + 1 # 1 /\ dq[i] = delayqueue[i + 1]
      /\ \A i \in DOMAIN delayqueue : i # 1 => i - 1 \in DOMAIN dq /\ dq[i - 1] = delayqueue[i]
  BY <1>2, TailIs
<1>4. 1 \in DOMAIN delayqueue /\ id \in Ids
  <2>1. 1 \in DOMAIN delayqueue /\ delayqueue[1] \in Entries BY <1>2, HasFirst
  <2> QED BY <2>1 DEF Entries
<1>5. id \in DOMAIN timer BY <1>4 DEF TimingInv, PlacesInv
<1> HIDE DEF dq, id
<1>6. ~Running' BY DEF Running
<1>7. intervals' \in Seq(Ids)
  <2>1. Append(intervals, id) \in Seq(Ids) BY <1>2, <1>4, AppendIs
  <2> QED BY <1>1, <1>2, <2>1
<1>8. TimersTyped' BY <1>1, <1>3, <1>7 DEF TimingInv, TimersTyped
<1>9. ASSUME NEW p \in Owners PROVE LinkerInv(p)' BY <1>1 DEF TimingInv, LinkerInv
<1>10. ASSUME NEW i \in DOMAIN dq PROVE dq[i].id # id /\ dq[i].id \in DOMAIN timer
  <2>1. i + 1 \in DOMAIN delayqueue /\ i + 1 # 1 /\ dq[i] = delayqueue[i + 1] BY <1>3
  <2> HIDE DEF dq
  <2> QED BY <1>4, <2>1 DEF TimingInv, PlacesInv, OnceIn, id
<1>11. OnceIn(dq)
  <2>1. ASSUME NEW i \in DOMAIN dq, NEW j \in DOMAIN dq, dq[i].id = dq[j].id PROVE i = j
    <3>1. i + 1 \in DOMAIN delayqueue /\ j + 1 \in DOMAIN delayqueue
          /\ delayqueue[i + 1].id = delayqueue[j + 1].id
      BY <1>3, <2>1
    <3>2. i + 1 = j + 1 BY <3>1 DEF TimingInv, PlacesInv, OnceIn
    <3>3. i \in Int /\ j \in Int BY <1>3
    <3> QED BY <3>2, <3>3
  <2> QED BY <2>1 DEF OnceIn
<1>12. ASSUME NEW j \in DOMAIN intervals'
       PROVE  (j \in DOMAIN intervals /\ intervals'[j] = intervals[j])
              \/ (o # None /\ intervals'[j] = id /\ j = Len(intervals) + 1)
  <2>1. CASE o = None BY <1>1, <2>1
  <2>2. CASE o # None
    <3>1. intervals' = Append(intervals, id) BY <1>1, <2>2
    <3> QED BY <1>2, <1>4, <2>2, <3>1
  <2> QED BY <2>1, <2>2
<1>13. ASSUME NEW j \in DOMAIN intervals PROVE intervals[j] # id /\ intervals[j] \in DOMAIN timer
  BY <1>4 DEF TimingInv, PlacesInv, id
<1>14. Distinct(intervals')
  <2>1. Distinct(intervals) BY DEF TimingInv, PlacesInv
  <2>2. ASSUME NEW i \in DOMAIN intervals', NEW j \in DOMAIN intervals', intervals'[i] = intervals'[j]
        PROVE  i = j
    BY <1>12, <1>13, <2>1, <2>2 DEF Distinct
  <2> QED BY <2>2 DEF Distinct
<1>15. PlacesInv'
  <2>1. ASSUME NEW i \in DOMAIN dq, NEW j \in DOMAIN intervals' PROVE dq[i].id # intervals'[j]
    <3>1. i + 1 \in DOMAIN delayqueue /\ dq[i] = delayqueue[i + 1] BY <1>3
    <3>2. \A k \in DOMAIN intervals : dq[i].id # intervals[k] BY <3>1 DEF TimingInv, PlacesInv
    <3> QED BY <1>10, <1>12, <3>2
  <2>2. ASSUME NEW j \in DOMAIN intervals' PROVE intervals'[j] \in DOMAIN timer
    BY <1>5, <1>12, <1>13
  <2> QED BY <1>1, <1>10, <1>11, <1>14, <2>1, <2>2 DEF PlacesInv
<1>16. ASSUME NEW k \in DOMAIN timer, timer[k].owner # None PROVE Kept(k)' <=> Kept(k)
  <2>1. ASSUME Kept(k) PROVE Kept(k)'
    <3>1. CASE \E i \in DOMAIN delayqueue : delayqueue[i].id = k
      <4>1. PICK i \in DOMAIN delayqueue : delayqueue[i].id = k BY <3>1
      <4>2. CASE i = 1
        <5>1. k = id /\ intervals' = Append(intervals, id) BY <1>1, <1>16, <4>1, <4>2 DEF id
        <5>2. Len(intervals) + 1 \in DOMAIN intervals' /\ intervals'[Len(intervals) + 1] = k
          BY <1>2, <1>4, <5>1
        <5> QED BY <5>2 DEF Kept
      <4>3. CASE i # 1
        <5>1. i - 1 \in DOMAIN dq /\ dq[i - 1].id = k BY <1>3, <4>1, <4>3
        <5> QED BY <1>1, <5>1 DEF Kept
      <4> QED BY <4>2, <4>3
    <3>2. CASE \E i \in DOMAIN intervals : intervals[i] = k
      <4>1. PICK i \in DOMAIN intervals : intervals[i] = k BY <3>2
      <4>2. i \in DOMAIN intervals' /\ intervals'[i] = k BY <1>1, <1>2, <1>4, <4>1, AppendIs
      <4> QED BY <4>2 DEF Kept
    <3> QED BY <2>1, <3>1, <3>2 DEF Kept
  <2>2. ASSUME Kept(k)' PROVE Kept(k)
    <3>1. CASE \E i \in DOMAIN dq : dq[i].id = k BY <1>3, <3>1 DEF Kept
    <3>2. CASE \E i \in DOMAIN intervals' : intervals'[i] = k
      BY <1>4, <1>12, <3>2 DEF Kept, id
    <3> QED BY <1>1, <2>2, <3>1, <3>2 DEF Kept
  <2> QED BY <2>1, <2>2
<1>17. ASSUME NEW k \in DOMAIN timer' PROVE TimerInv(k)'
  <2>1. TimerInv(k) BY <1>1 DEF TimingInv
  <2> QED BY <1>1, <1>16, <2>1 DEF TimerInv
<1>18. RunningInv' BY <1>6 DEF RunningInv
<1>19. ASSUME NEW p \in Owners, NEW i \in DOMAIN delayqueue' PROVE OnTime(p, i)'
  <2>1. i \in DOMAIN dq BY <1>1
  <2>2. i + 1 \in DOMAIN delayqueue /\ dq[i] = delayqueue[i + 1] BY <1>3, <2>1
  <2>3. OnTime(p, i + 1) BY <2>2 DEF TimingInv
  <2>4. delayqueue[i + 1].id # id BY <1>10, <2>1, <2>2
  <2> QED BY <1>1, <2>2, <2>3, <2>4 DEF OnTime, id
<1> QED BY <1>8, <1>9, <1>15, <1>17, <1>18, <1>19 DEF TimingInv

\* Intervals that ran go back into the queue.
LEMMA TimersDoneTiming == ASSUME TimingInv, TimersDone PROVE TimingInv'
<1> DEFINE dq == Emplaced(delayqueue, NextTimeout, intervals)
<1>1. /\ pc = "timers" /\ stack = <<>> /\ delayqueue' = dq /\ intervals' = <<>> /\ pc' = "commands"
      /\ alive' = alive /\ timerOf' = timerOf /\ timer' = timer /\ since' = since /\ stack' = stack
  BY DEF TimersDone
<1>2. delayqueue \in Seq(Entries) /\ intervals \in Seq(Ids) BY DEF TimingInv, TimersTyped
<1>3. NextTimeout = Interval /\ Interval \in Int BY Constants DEF NextTimeout
<1>4. PlacesInv BY DEF TimingInv
<1>5. Emplacement(dq, delayqueue, Interval, intervals) /\ OnceIn(dq)
  BY <1>2, <1>3, <1>4, EmplacedIs DEF PlacesInv
<1> HIDE DEF dq
<1>6. ~Running /\ ~Running' BY <1>1 DEF Running
<1>7. <<>> \in Seq(Ids) OBVIOUS
<1>8. TimersTyped' BY <1>1, <1>5, <1>7 DEF TimingInv, TimersTyped, Emplacement
<1>9. ASSUME NEW p \in Owners PROVE LinkerInv(p)' BY <1>1 DEF TimingInv, LinkerInv
<1>10. PlacesInv'
  <2>1. ASSUME NEW j \in DOMAIN dq PROVE dq[j].id \in DOMAIN timer
    BY <1>4, <1>5 DEF Emplacement, PlacesInv
  <2>2. DOMAIN intervals' = {} BY <1>1
  <2> QED BY <1>1, <1>5, <2>1, <2>2 DEF PlacesInv, Distinct
<1>11. ASSUME NEW k \in DOMAIN timer PROVE Kept(k)' <=> Kept(k)
  <2>1. ASSUME Kept(k) PROVE \E j \in DOMAIN dq : dq[j].id = k BY <1>5, <2>1 DEF Kept, Emplacement
  <2>2. ASSUME NEW j \in DOMAIN dq, dq[j].id = k PROVE Kept(k) BY <1>5, <2>2 DEF Kept, Emplacement
  <2>3. DOMAIN intervals' = {} BY <1>1
  <2> QED BY <1>1, <2>1, <2>2, <2>3 DEF Kept
<1>12. ASSUME NEW k \in DOMAIN timer' PROVE TimerInv(k)'
  <2>1. TimerInv(k) BY <1>1 DEF TimingInv
  <2> QED BY <1>1, <1>11, <2>1 DEF TimerInv
<1>13. RunningInv' BY <1>6 DEF RunningInv
<1>14. ASSUME NEW p \in Owners, NEW i \in DOMAIN delayqueue' PROVE OnTime(p, i)'
  <2>1. since[p] \in 0 .. Interval BY DEF TimingInv, TimersTyped
  <2>2. CASE \E j \in DOMAIN delayqueue : dq[i] = delayqueue[j]
    <3>1. PICK j \in DOMAIN delayqueue : dq[i] = delayqueue[j] BY <2>2
    <3>2. OnTime(p, j) BY DEF TimingInv
    <3> QED BY <1>1, <1>6, <3>1, <3>2 DEF OnTime
  <2>3. CASE dq[i].due = Interval
    <3>1. dq[i].due + since[p] >= Interval BY <1>3, <2>1, <2>3
    <3> QED BY <1>1, <3>1 DEF OnTime
  <2> QED BY <1>1, <1>5, <2>2, <2>3 DEF Emplacement
<1> QED BY <1>8, <1>9, <1>10, <1>12, <1>13, <1>14 DEF TimingInv

\* StopAll, at the end of the loop.
LEMMA StopAllTiming ==
    ASSUME TimingInv, CommandsDone, MayExit
    PROVE  TimingInv'
<1>1. /\ pc = "commands" /\ pc' = "exited" /\ stack = <<>> /\ delayqueue' = <<>>
      /\ timer' = [id \in DOMAIN timer |->
            IF timer[id].owner = None THEN timer[id] ELSE [timer[id] EXCEPT !.refs = @ - 1]]
      /\ alive' = alive /\ timerOf' = timerOf /\ since' = since /\ stack' = stack
      /\ intervals' = intervals
  BY DEF CommandsDone
<1>2. ~Running' BY <1>1 DEF Running
<1>3. intervals = <<>> /\ intervals' = <<>> BY <1>1 DEF TimingInv, PlacesInv
<1>4. timer \in Seq(TimerRecords) /\ Len(timer) <= MaxTimers BY DEF TimingInv, TimersTyped
<1>5. ASSUME NEW id \in DOMAIN timer, timer[id].owner # None
      PROVE  /\ timer[id].refs = 1 + One(timerOf[timer[id].owner] = id)
             /\ timer[id].refs \in 1 .. 2
  BY <1>1, <1>5 DEF TimingInv, TimerInv, One
<1>6. ASSUME NEW id \in DOMAIN timer PROVE timer'[id] \in TimerRecords /\ timer'[id].owner = timer[id].owner
  <2>1. timer[id] \in TimerRecords BY <1>4
  <2>2. CASE timer[id].owner = None BY <1>1, <2>1, <2>2
  <2>3. CASE timer[id].owner # None
    <3>1. timer'[id] = [timer[id] EXCEPT !.refs = @ - 1] BY <1>1, <2>3
    <3>2. timer[id].refs - 1 \in 0 .. 2 BY <1>5, <2>3
    <3> QED BY <2>1, <3>1, <3>2 DEF TimerRecords
  <2> QED BY <2>2, <2>3
<1>7. timer' \in Seq(TimerRecords) /\ Len(timer') = Len(timer) /\ DOMAIN timer' = DOMAIN timer
  <2>1. DOMAIN timer' = 1 .. Len(timer) BY <1>1, <1>4
  <2>2. timer' = [i \in 1 .. Len(timer) |-> timer'[i]] BY <1>1, <2>1
  <2>3. timer' \in [1 .. Len(timer) -> TimerRecords] BY <1>4, <1>6, <2>1, <2>2
  <2>4. Len(timer) \in Nat BY <1>4
  <2> QED BY <1>4, <2>1, <2>3, <2>4
<1>8. <<>> \in Seq(Entries) /\ DOMAIN delayqueue' = {} /\ DOMAIN intervals' = {} BY <1>1, <1>3
<1>9. TimersTyped' BY <1>1, <1>4, <1>7, <1>8 DEF TimingInv, TimersTyped
<1>10. ASSUME NEW p \in Owners PROVE LinkerInv(p)' BY <1>1, <1>6, <1>7 DEF TimingInv, LinkerInv
<1>11. PlacesInv' BY <1>3, <1>8 DEF PlacesInv, OnceIn, Distinct
<1>12. ASSUME NEW id \in DOMAIN timer' PROVE TimerInv(id)'
  <2>1. ~Kept(id)' BY <1>8 DEF Kept
  <2>2. CASE timer[id].owner = None BY <1>6, <1>7, <2>2 DEF TimerInv
  <2>3. CASE timer[id].owner # None
    <3>1. id \in DOMAIN timer /\ timer[id] \in TimerRecords BY <1>4, <1>7
    <3>2. timer'[id].refs = timer[id].refs - 1 BY <1>1, <2>3, <3>1 DEF TimerRecords
    <3>3. timer'[id].refs = One(timerOf[timer[id].owner] = id)
      BY <1>5, <2>3, <3>1, <3>2 DEF One
    <3>4. One(Kept(id)') = 0 BY <2>1 DEF One
    <3>5. timer'[id].owner = timer[id].owner BY <1>6, <3>1
    <3>6. timer'[id].refs = One(Kept(id)') + One(timerOf'[timer'[id].owner] = id)
      BY <1>1, <3>3, <3>4, <3>5 DEF One
    <3> QED BY <1>1, <3>6 DEF TimerInv
  <2> QED BY <2>2, <2>3
<1>13. RunningInv' BY <1>2 DEF RunningInv
<1> QED BY <1>8, <1>9, <1>10, <1>11, <1>12, <1>13 DEF TimingInv

\* Time passes.
LEMMA AdvanceTiming == ASSUME TimingInv, NEW d \in Steps, Advance(d) PROVE TimingInv'
<1>1. /\ pc = "io" /\ stack = <<>> /\ pc' = "timers"
      /\ delayqueue' = [i \in DOMAIN delayqueue |-> [delayqueue[i] EXCEPT !.due = @ - d]]
      /\ since' = [o \in Owners |-> IF since[o] + d > Interval THEN Interval ELSE since[o] + d]
      /\ alive' = alive /\ timerOf' = timerOf /\ timer' = timer /\ intervals' = intervals
      /\ stack' = stack
  BY DEF Advance
<1>2. d \in Nat BY Constants
<1>3. delayqueue \in Seq(Entries) BY DEF TimingInv, TimersTyped
<1>4. ASSUME NEW i \in DOMAIN delayqueue
      PROVE  /\ delayqueue'[i] \in Entries /\ delayqueue'[i].id = delayqueue[i].id
             /\ delayqueue'[i].due = delayqueue[i].due - d /\ delayqueue[i].due \in Int
  <2>1. delayqueue[i] \in Entries BY <1>3
  <2> QED BY <1>1, <1>2, <2>1 DEF Entries
<1>5. delayqueue' \in Seq(Entries) /\ DOMAIN delayqueue' = DOMAIN delayqueue
  <2>1. DOMAIN delayqueue' = 1 .. Len(delayqueue) BY <1>1, <1>3
  <2>2. delayqueue' = [i \in 1 .. Len(delayqueue) |-> delayqueue'[i]] BY <1>1, <2>1
  <2>3. delayqueue' \in [1 .. Len(delayqueue) -> Entries] BY <1>3, <1>4, <2>1, <2>2
  <2>4. Len(delayqueue) \in Nat BY <1>3
  <2> QED BY <1>3, <2>1, <2>3, <2>4
<1>6. ASSUME NEW o \in Owners
      PROVE  /\ since[o] \in 0 .. Interval /\ since'[o] \in 0 .. Interval
             /\ since'[o] = Interval \/ since'[o] = since[o] + d
  BY <1>1, <1>2, Constants DEF TimingInv, TimersTyped
<1>7. since' \in [Owners -> 0 .. Interval] BY <1>1, <1>6
<1>8. ~Running /\ ~Running' BY <1>1 DEF Running
<1>9. TimersTyped' BY <1>1, <1>5, <1>7 DEF TimingInv, TimersTyped
<1>10. ASSUME NEW p \in Owners PROVE LinkerInv(p)' BY <1>1 DEF TimingInv, LinkerInv
<1>11. PlacesInv'
  <2>1. PlacesInv BY DEF TimingInv
  <2>2. OnceIn(delayqueue') BY <1>4, <1>5, <2>1 DEF PlacesInv, OnceIn
  <2>3. intervals = <<>> /\ intervals' = <<>> /\ DOMAIN intervals' = {} BY <1>1, <2>1 DEF PlacesInv
  <2>4. ASSUME NEW i \in DOMAIN delayqueue' PROVE delayqueue'[i].id \in DOMAIN timer'
    BY <1>1, <1>4, <1>5, <2>1 DEF PlacesInv
  <2> QED BY <2>2, <2>3, <2>4 DEF PlacesInv, Distinct
<1>12. ASSUME NEW id \in DOMAIN timer' PROVE TimerInv(id)'
  <2>1. TimerInv(id) BY <1>1 DEF TimingInv
  <2>2. Kept(id)' <=> Kept(id) BY <1>1, <1>4, <1>5 DEF Kept
  <2> QED BY <1>1, <2>1, <2>2 DEF TimerInv
<1>13. RunningInv' BY <1>8 DEF RunningInv
<1>14. ASSUME NEW p \in Owners, NEW i \in DOMAIN delayqueue' PROVE OnTime(p, i)'
  <2>1. SUFFICES ASSUME timerOf[p] = delayqueue[i].id
                 PROVE  since'[p] = Interval \/ delayqueue'[i].due + since'[p] >= Interval
    BY <1>1, <1>4, <1>5 DEF OnTime
  <2>2. since[p] = Interval \/ delayqueue[i].due + since[p] >= Interval
    BY <1>5, <1>8, <2>1 DEF TimingInv, OnTime
  <2> QED BY <1>2, <1>4, <1>5, <1>6, <2>2, Constants
<1> QED BY <1>9, <1>10, <1>11, <1>12, <1>13, <1>14 DEF TimingInv

\* Timer id is set, to run in due.
Set(id, due) ==
    /\ id = Len(timer) + 1 /\ id \in Ids
    /\ delayqueue' = Emplaced(delayqueue, due, <<id>>)
    /\ intervals' = intervals /\ pc' = pc /\ stack' = stack
    /\ DOMAIN timer' = DOMAIN timer \cup {id}

\* What the queue has then.
WasSet(id, due) ==
    /\ delayqueue' \in Seq(Entries)
    /\ PlacesInv'
    /\ \A k \in DOMAIN timer : Kept(k)' <=> Kept(k)
    /\ Kept(id)'
    /\ RunningInv'
    /\ \A i \in DOMAIN delayqueue' :
          \/ \E j \in DOMAIN delayqueue : delayqueue'[i] = delayqueue[j]
          \/ delayqueue'[i].due = due /\ delayqueue'[i].id = id
    /\ Running' <=> Running
    /\ Running => delayqueue'[1] = delayqueue[1]

\* A new timer goes behind the one that is running, and no other is touched.
LEMMA SetQueue ==
    ASSUME TimingInv, NEW due \in Nat, NEW id, Set(id, due)
    PROVE  WasSet(id, due)
<1> DEFINE ids == <<id>>
<1>1. /\ id = Len(timer) + 1 /\ id \in Ids /\ delayqueue' = Emplaced(delayqueue, due, ids)
      /\ intervals' = intervals /\ pc' = pc /\ stack' = stack /\ DOMAIN timer' = DOMAIN timer \cup {id}
  BY DEF Set
<1>2. delayqueue \in Seq(Entries) /\ timer \in Seq(TimerRecords) /\ PlacesInv /\ RunningInv
  BY DEF TimingInv, TimersTyped
<1>3. id \notin DOMAIN timer BY <1>1, <1>2
<1>4. ids \in Seq(Ids) /\ DOMAIN ids = {1} /\ ids[1] = id BY <1>1
<1>5. Distinct(ids) BY <1>4 DEF Distinct
<1> HIDE DEF ids
<1>6. due \in Int OBVIOUS
<1>7. \A i \in DOMAIN delayqueue, j \in DOMAIN ids : delayqueue[i].id # ids[j]
  BY <1>2, <1>3, <1>4 DEF PlacesInv
<1>8. Emplacement(delayqueue', delayqueue, due, ids)
  BY <1>1, <1>2, <1>4, <1>6, EmplacedIs
<1>9. OnceIn(delayqueue')
  BY <1>1, <1>2, <1>4, <1>5, <1>6, <1>7, EmplacedIs DEF PlacesInv
<1>10. Running' <=> Running BY <1>1 DEF Running
<1>11. ASSUME NEW i \in DOMAIN delayqueue'
       PROVE  \/ \E j \in DOMAIN delayqueue : delayqueue'[i] = delayqueue[j]
              \/ delayqueue'[i].due = due /\ delayqueue'[i].id = id
  BY <1>4, <1>8 DEF Emplacement
<1>12. ASSUME Running PROVE delayqueue' # <<>> /\ delayqueue'[1] = delayqueue[1]
  <2>1. delayqueue # <<>> /\ delayqueue[1].due <= 0 BY <1>2, <1>12 DEF RunningInv
  <2>2. delayqueue[1] \in Entries BY <1>2, <2>1, HasFirst
  <2>3. delayqueue[1].due <= due BY <2>1, <2>2 DEF Entries
  <2> QED BY <1>8, <2>1, <2>3 DEF Emplacement
<1>13. RunningInv' BY <1>1, <1>2, <1>10, <1>12 DEF RunningInv
<1>14. \A i \in DOMAIN delayqueue' : delayqueue'[i].id \in DOMAIN timer'
  BY <1>1, <1>2, <1>11 DEF PlacesInv
<1>15. \A i \in DOMAIN delayqueue', j \in DOMAIN intervals : delayqueue'[i].id # intervals[j]
  BY <1>2, <1>3, <1>11 DEF PlacesInv
<1>16. PlacesInv' BY <1>1, <1>2, <1>9, <1>14, <1>15 DEF PlacesInv
<1>17. ASSUME NEW k \in DOMAIN timer PROVE Kept(k)' <=> Kept(k)
  <2>1. ASSUME Kept(k) PROVE Kept(k)' BY <1>1, <1>8, <2>1 DEF Kept, Emplacement
  <2>2. ASSUME Kept(k)' PROVE Kept(k)
    <3>1. CASE \E i \in DOMAIN delayqueue' : delayqueue'[i].id = k BY <1>3, <1>11, <3>1 DEF Kept
    <3>2. CASE \E i \in DOMAIN intervals' : intervals'[i] = k BY <1>1, <3>2 DEF Kept
    <3> QED BY <2>2, <3>1, <3>2 DEF Kept
  <2> QED BY <2>1, <2>2
<1>18. Kept(id)' BY <1>4, <1>8 DEF Kept, Emplacement
<1>19. delayqueue' \in Seq(Entries) BY <1>8 DEF Emplacement
<1> QED BY <1>10, <1>11, <1>12, <1>13, <1>16, <1>17, <1>18, <1>19 DEF WasSet

\* SetTimeout.
LEMMA SetTimeoutTiming ==
    ASSUME TimingInv, NEW d \in Delays, SetTimeout(d)
    PROVE  TimingInv'
<1> SUFFICES ASSUME NEW id, id = Len(timer) + 1 PROVE TimingInv' OBVIOUS
<1> DEFINE e == [owner |-> None, refs |-> 0]
<1>1. /\ id \in Ids /\ timer' = Append(timer, e)
      /\ delayqueue' = Emplaced(delayqueue, d, <<id>>)
      /\ alive' = alive /\ timerOf' = timerOf /\ intervals' = intervals /\ since' = since
      /\ pc' = pc /\ stack' = stack
  BY DEF SetTimeout, loop
<1>2. timer \in Seq(TimerRecords) /\ e \in TimerRecords BY DEF TimingInv, TimersTyped, TimerRecords
<1>3. /\ timer' \in Seq(TimerRecords) /\ Len(timer') = id /\ DOMAIN timer' = DOMAIN timer \cup {id}
      /\ timer'[id] = e /\ \A k \in DOMAIN timer : timer'[k] = timer[k]
  BY <1>1, <1>2
<1>4. d \in Nat BY Constants
<1>5. Set(id, d) BY <1>1, <1>3 DEF Set
<1>6. WasSet(id, d) BY <1>4, <1>5, SetQueue
<1>7. id \notin DOMAIN timer /\ id # 0 BY <1>2
<1>8. TimersTyped'
  <2>1. Len(timer') <= MaxTimers BY <1>1, <1>3 DEF Ids
  <2> QED BY <1>1, <1>3, <1>6, <2>1 DEF TimingInv, TimersTyped, WasSet
<1>9. ASSUME NEW p \in Owners PROVE LinkerInv(p)' BY <1>1, <1>3 DEF TimingInv, LinkerInv
<1>10. ASSUME NEW k \in DOMAIN timer' PROVE TimerInv(k)'
  <2>1. CASE k = id BY <1>3, <2>1 DEF TimerInv
  <2>2. CASE k \in DOMAIN timer
    <3>1. TimerInv(k) BY <2>2 DEF TimingInv
    <3>2. Kept(k)' <=> Kept(k) BY <1>6, <2>2 DEF WasSet
    <3> QED BY <1>1, <1>3, <2>2, <3>1, <3>2 DEF TimerInv, One
  <2> QED BY <1>3, <2>1, <2>2
<1>11. ASSUME NEW p \in Owners, NEW i \in DOMAIN delayqueue' PROVE OnTime(p, i)'
  <2>1. CASE \E j \in DOMAIN delayqueue : delayqueue'[i] = delayqueue[j]
    <3>1. PICK j \in DOMAIN delayqueue : delayqueue'[i] = delayqueue[j] BY <2>1
    <3>2. OnTime(p, j) BY DEF TimingInv
    <3>3. (Running' <=> Running) /\ (Running => delayqueue'[1] = delayqueue[1])
      BY <1>6 DEF WasSet
    <3> QED BY <1>1, <3>1, <3>2, <3>3 DEF OnTime
  <2>2. CASE delayqueue'[i].id = id
    <3>1. timerOf[p] # id BY <1>7 DEF TimingInv, LinkerInv
    <3> QED BY <1>1, <2>2, <3>1 DEF OnTime
  <2> QED BY <1>6, <2>1, <2>2 DEF WasSet
<1> QED BY <1>6, <1>8, <1>9, <1>10, <1>11 DEF TimingInv, WasSet

\* The timers when o lets the linker of its timer go.
Freed(o) == IF timerOf[o] = 0 THEN timer ELSE [timer EXCEPT ![timerOf[o]].refs = @ - 1]

\* tm is the timers without a holder of those of o.
Unheld(tm, o) ==
    /\ tm \in Seq(TimerRecords) /\ Len(tm) = Len(timer) /\ DOMAIN tm = DOMAIN timer
    /\ \A k \in DOMAIN timer :
          /\ tm[k].owner = timer[k].owner
          /\ timer[k].owner # None /\ timer[k].owner # o => tm[k].refs = timer[k].refs
          /\ timer[k].owner = o => tm[k].refs = One(Kept(k))

\* An owner holds one timer at most.
LEMMA LetGo == ASSUME TimingInv, NEW o \in Owners PROVE Unheld(Freed(o), o)
<1> DEFINE tm == Freed(o)
<1> SUFFICES
      /\ tm \in Seq(TimerRecords) /\ Len(tm) = Len(timer) /\ DOMAIN tm = DOMAIN timer
      /\ \A k \in DOMAIN timer :
            /\ tm[k].owner = timer[k].owner
            /\ timer[k].owner # None /\ timer[k].owner # o => tm[k].refs = timer[k].refs
            /\ timer[k].owner = o => tm[k].refs = One(Kept(k))
  BY DEF Unheld
<1>0. tm = IF timerOf[o] = 0 THEN timer ELSE [timer EXCEPT ![timerOf[o]].refs = @ - 1] BY DEF Freed
<1> HIDE DEF tm
<1>1. timer \in Seq(TimerRecords) /\ timerOf \in [Owners -> Ids \cup {0}] BY DEF TimingInv, TimersTyped
<1>2. ASSUME NEW k \in DOMAIN timer, timer[k].owner = o
      PROVE  timer[k].refs = One(Kept(k)) + One(timerOf[o] = k)
  BY <1>2, Constants DEF TimingInv, TimerInv
<1>3. CASE timerOf[o] = 0
  <2>1. ASSUME NEW k \in DOMAIN timer, timer[k].owner = o PROVE timer[k].refs = One(Kept(k))
    <3>1. k # 0 BY <1>1
    <3> QED BY <1>2, <1>3, <2>1, <3>1 DEF One
  <2> QED BY <1>0, <1>1, <1>3, <2>1
<1>4. CASE timerOf[o] # 0
  <2> DEFINE id == timerOf[o]
  <2>1. id \in DOMAIN timer /\ timer[id].owner = o BY <1>4 DEF TimingInv, LinkerInv
  <2>2. timer[id].refs = One(Kept(id)) + 1 BY <1>2, <2>1 DEF One
  <2>3. timer[id] \in TimerRecords /\ One(Kept(id)) \in 0 .. 1 BY <1>1, <2>1 DEF One
  <2> DEFINE e == [timer[id] EXCEPT !.refs = @ - 1]
  <2>4. e \in TimerRecords /\ e.owner = o /\ e.refs = One(Kept(id))
    <3>1. timer[id].refs - 1 = One(Kept(id)) /\ One(Kept(id)) \in 0 .. 2 BY <2>2, <2>3
    <3> QED BY <2>1, <2>3, <3>1 DEF TimerRecords
  <2> HIDE DEF e
  <2>5. tm = [timer EXCEPT ![id] = e] BY <1>0, <1>4 DEF e
  <2>6. tm \in Seq(TimerRecords) /\ Len(tm) = Len(timer) /\ DOMAIN tm = DOMAIN timer
    BY <1>1, <2>1, <2>4, <2>5, ReplacedIs
  <2>7. tm[id] = e /\ \A k \in DOMAIN timer : k # id => tm[k] = timer[k] BY <1>1, <2>1, <2>5
  <2>8. ASSUME NEW k \in DOMAIN timer, timer[k].owner = o, k # id PROVE timer[k].refs = One(Kept(k))
    BY <1>2, <2>8 DEF One
  <2> HIDE DEF id
  <2> QED BY <2>1, <2>4, <2>6, <2>7, <2>8
<1> QED BY <1>3, <1>4

\* StartTimer of an owner that lives or is being made.
LEMMA StartTimerTiming ==
    ASSUME TimingInv, NEW o \in Owners, StartTimer(o), alive' = alive \cup {o},
           pc' = pc, stack' = stack
    PROVE  TimingInv'
<1> SUFFICES ASSUME NEW id, id = Len(timer) + 1 PROVE TimingInv' OBVIOUS
<1> DEFINE tm == Freed(o)
           e == [owner |-> o, refs |-> 2]
<1>1. /\ id \in Ids /\ timer' = Append(tm, e)
      /\ timerOf' = [timerOf EXCEPT ![o] = id]
      /\ delayqueue' = Emplaced(delayqueue, Interval, <<id>>)
      /\ since' = [since EXCEPT ![o] = 0]
      /\ intervals' = intervals
  BY DEF StartTimer, Freed
<1>2. /\ tm \in Seq(TimerRecords) /\ Len(tm) = Len(timer) /\ DOMAIN tm = DOMAIN timer
      /\ \A k \in DOMAIN timer :
            /\ tm[k].owner = timer[k].owner
            /\ timer[k].owner # None /\ timer[k].owner # o => tm[k].refs = timer[k].refs
            /\ timer[k].owner = o => tm[k].refs = One(Kept(k))
  BY LetGo DEF Unheld
<1> HIDE DEF tm
<1>3. e \in TimerRecords /\ timer \in Seq(TimerRecords) BY DEF TimerRecords, TimingInv, TimersTyped
<1>4. /\ timer' \in Seq(TimerRecords) /\ Len(timer') = id /\ DOMAIN timer' = DOMAIN timer \cup {id}
      /\ timer'[id] = e /\ \A k \in DOMAIN timer : timer'[k] = tm[k]
  BY <1>1, <1>2, <1>3
<1>5. Set(id, Interval) BY <1>1, <1>4 DEF Set
<1>6. WasSet(id, Interval) BY <1>5, Constants, SetQueue
<1>7. id \notin DOMAIN timer /\ id # 0 BY <1>3
<1>8. timerOf' \in [Owners -> Ids \cup {0}] /\ since' \in [Owners -> 0 .. Interval]
  BY <1>1, Constants DEF TimingInv, TimersTyped
<1>9. timerOf'[o] = id /\ since'[o] = 0 /\ \A p \in Owners : p # o => timerOf'[p] = timerOf[p] /\ since'[p] = since[p]
  BY <1>1 DEF TimingInv, TimersTyped
<1>10. TimersTyped'
  <2>1. Len(timer') <= MaxTimers BY <1>1, <1>4 DEF Ids
  <2> QED BY <1>1, <1>4, <1>6, <1>8, <2>1 DEF TimingInv, TimersTyped, WasSet
<1>11. ASSUME NEW p \in Owners PROVE LinkerInv(p)'
  <2>1. CASE p = o BY <1>4, <1>9, <2>1 DEF LinkerInv
  <2>2. CASE p # o
    <3>1. LinkerInv(p) BY DEF TimingInv
    <3> QED BY <1>2, <1>4, <1>9, <2>2, <3>1 DEF LinkerInv
  <2> QED BY <2>1, <2>2
<1>12. ASSUME NEW k \in DOMAIN timer' PROVE TimerInv(k)'
  <2>1. CASE k = id
    <3>1. timer'[k].owner = o /\ timer'[k].refs = 2 /\ timerOf'[o] = k BY <1>4, <1>9, <2>1
    <3>2. Kept(id)' BY <1>6 DEF WasSet
    <3>3. Kept(k)' BY <2>1, <3>2 DEF Kept
    <3> QED BY <3>1, <3>3 DEF TimerInv, One
  <2>2. CASE k \in DOMAIN timer /\ timer[k].owner = o
    <3>1. TimerInv(k) /\ timer[k].owner # None BY <2>2, Constants DEF TimingInv
    <3>2. Kept(k)' <=> Kept(k) BY <1>6, <2>2 DEF WasSet
    <3>3. timer'[k].owner = o /\ timer'[k].refs = One(Kept(k)) /\ timerOf'[o] # k
      BY <1>2, <1>4, <1>7, <1>9, <2>2
    <3>4. timer'[k].refs = One(Kept(k)') + One(timerOf'[o] = k) BY <3>2, <3>3 DEF One
    <3> QED BY <3>1, <3>2, <3>3, <3>4 DEF TimerInv
  <2>3. CASE k \in DOMAIN timer /\ timer[k].owner # o
    <3>1. TimerInv(k) BY <2>3 DEF TimingInv
    <3>2. Kept(k)' <=> Kept(k) BY <1>6, <2>3 DEF WasSet
    <3>3. timer[k] \in TimerRecords BY <1>3, <2>3
    <3>4. timer[k].owner # None => timer[k].owner \in Owners BY <3>3 DEF TimerRecords
    <3>5. timer'[k].owner = timer[k].owner BY <1>2, <1>4, <2>3
    <3>6. timer[k].owner # None => /\ timer'[k].refs = timer[k].refs
                                   /\ timerOf'[timer[k].owner] = timerOf[timer[k].owner]
      BY <1>2, <1>4, <1>9, <2>3, <3>4
    <3> QED BY <3>1, <3>2, <3>5, <3>6 DEF TimerInv, One
  <2> QED BY <1>4, <2>1, <2>2, <2>3
<1>13. ASSUME NEW p \in Owners, NEW i \in DOMAIN delayqueue' PROVE OnTime(p, i)'
  <2>0. (Running' <=> Running) /\ (Running => delayqueue'[1] = delayqueue[1]) BY <1>6 DEF WasSet
  <2>1. CASE \E j \in DOMAIN delayqueue : delayqueue'[i] = delayqueue[j]
    <3>1. PICK j \in DOMAIN delayqueue : delayqueue'[i] = delayqueue[j] BY <2>1
    <3>2. OnTime(p, j) BY DEF TimingInv
    <3>3. CASE p # o BY <1>9, <2>0, <3>1, <3>2, <3>3 DEF OnTime
    <3>4. CASE p = o
      <4>1. delayqueue[j].id # id BY <1>7 DEF TimingInv, PlacesInv
      <4> QED BY <1>9, <3>1, <3>4, <4>1 DEF OnTime
    <3> QED BY <3>3, <3>4
  <2>2. CASE delayqueue'[i].due = Interval /\ delayqueue'[i].id = id
    <3>1. since'[p] \in 0 .. Interval BY <1>8
    <3>2. delayqueue'[i].due + since'[p] >= Interval BY <2>2, <3>1, Constants
    <3> QED BY <3>2 DEF OnTime
  <2> QED BY <1>6, <2>1, <2>2 DEF WasSet
<1> QED BY <1>6, <1>10, <1>11, <1>12, <1>13 DEF TimingInv, WasSet

\* StopTimer of an owner that is destroyed.
LEMMA StopTimerTiming ==
    ASSUME TimingInv, NEW o \in Owners, StopTimer(o), alive' = alive \ {o},
           pc' = pc, stack' = stack
    PROVE  TimingInv'
<1>1. /\ timer' = Freed(o) /\ timerOf' = [timerOf EXCEPT ![o] = 0]
      /\ delayqueue' = delayqueue /\ intervals' = intervals /\ since' = since
  BY DEF StopTimer, Freed
<1>2. /\ timer' \in Seq(TimerRecords) /\ Len(timer') = Len(timer) /\ DOMAIN timer' = DOMAIN timer
      /\ \A k \in DOMAIN timer :
            /\ timer'[k].owner = timer[k].owner
            /\ timer[k].owner # None /\ timer[k].owner # o => timer'[k].refs = timer[k].refs
            /\ timer[k].owner = o => timer'[k].refs = One(Kept(k))
  BY <1>1, LetGo DEF Unheld
<1>3. timerOf' \in [Owners -> Ids \cup {0}] BY <1>1 DEF TimingInv, TimersTyped
<1>4. timerOf'[o] = 0 /\ \A p \in Owners : p # o => timerOf'[p] = timerOf[p]
  BY <1>1 DEF TimingInv, TimersTyped
<1>5. Running' <=> Running BY DEF Running
<1>6. TimersTyped' BY <1>1, <1>2, <1>3 DEF TimingInv, TimersTyped
<1>7. ASSUME NEW p \in Owners PROVE LinkerInv(p)'
  <2>1. LinkerInv(p) BY DEF TimingInv
  <2> QED BY <1>2, <1>4, <2>1 DEF LinkerInv
<1>8. PlacesInv' BY <1>1, <1>2 DEF TimingInv, PlacesInv
<1>9. ASSUME NEW k \in DOMAIN timer' PROVE TimerInv(k)'
  <2>1. TimerInv(k) /\ k \in DOMAIN timer BY <1>2 DEF TimingInv
  <2>2. Kept(k)' <=> Kept(k) BY <1>1 DEF Kept
  <2>3. timer[k] \in TimerRecords /\ k # 0 BY <2>1 DEF TimingInv, TimersTyped
  <2>4. timer[k].owner # None => timer[k].owner \in Owners BY <2>3 DEF TimerRecords
  <2>5. CASE timer[k].owner = o
    <3>1. timer'[k].owner = o /\ timer'[k].refs = One(Kept(k)) /\ timerOf'[o] # k
      BY <1>2, <1>4, <2>1, <2>3, <2>5
    <3>2. timer'[k].refs = One(Kept(k)') + One(timerOf'[o] = k) BY <2>2, <3>1 DEF One
    <3> QED BY <2>1, <2>2, <2>5, <3>1, <3>2, Constants DEF TimerInv
  <2>6. CASE timer[k].owner # o
    <3>1. timer'[k].owner = timer[k].owner BY <1>2, <2>1
    <3>2. timer[k].owner # None => /\ timer'[k].refs = timer[k].refs
                                   /\ timerOf'[timer[k].owner] = timerOf[timer[k].owner]
      BY <1>2, <1>4, <2>1, <2>4, <2>6
    <3> QED BY <2>1, <2>2, <3>1, <3>2 DEF TimerInv, One
  <2> QED BY <2>5, <2>6
<1>10. RunningInv' BY <1>1, <1>5 DEF TimingInv, RunningInv
<1>11. ASSUME NEW p \in Owners, NEW i \in DOMAIN delayqueue' PROVE OnTime(p, i)'
  <2>1. OnTime(p, i) BY <1>1 DEF TimingInv
  <2>2. CASE p = o
    <3>1. delayqueue[i].id \in Ids
      <4>1. delayqueue \in Seq(Entries) /\ i \in DOMAIN delayqueue BY <1>1 DEF TimingInv, TimersTyped
      <4>2. delayqueue[i] \in Entries BY <4>1
      <4> QED BY <4>2 DEF Entries
    <3>2. timerOf'[p] # delayqueue[i].id BY <1>4, <2>2, <3>1, Constants
    <3> QED BY <1>1, <3>2 DEF OnTime
  <2>3. CASE p # o BY <1>1, <1>4, <1>5, <2>1, <2>3 DEF OnTime
  <2> QED BY <2>2, <2>3
<1> QED BY <1>6, <1>7, <1>8, <1>9, <1>10, <1>11 DEF TimingInv

-----------------------------------------------------------------------------
(* Command queues *)

\* Steps that do not concern the queues.
LEMMA QueuesStill ==
    ASSUME QueuesInv, UNCHANGED <<alive, queues, cursor>>
    PROVE  QueuesInv'
<1>1. /\ alive' = alive /\ cmds' = cmds /\ qrefs' = qrefs /\ list' = list /\ pushed' = pushed
      /\ cursor' = cursor
  BY DEF queues
<1>2. ASSUME NEW o \in Owners PROVE QueueInv(o)' BY <1>1 DEF QueuesInv, QueueInv
<1> QED BY <1>1, <1>2 DEF QueuesInv, Distinct

\* The walk begins.
LEMMA WalkBegins ==
    ASSUME QueuesInv, UNCHANGED <<alive, queues>>, cursor' = FirstOf(list)
    PROVE  QueuesInv'
<1>1. /\ alive' = alive /\ cmds' = cmds /\ qrefs' = qrefs /\ list' = list /\ pushed' = pushed
  BY DEF queues
<1>2. ASSUME NEW o \in Owners PROVE QueueInv(o)' BY <1>1 DEF QueuesInv, QueueInv
<1>3. list \in Seq(Owners) BY DEF QueuesInv
<1>4. cursor' # None => cursor' \in ToSet(list) BY <1>3, FirstOfIs
<1>5. cursor' \in Owners \cup {None}
  <2>1. ToSet(list) \subseteq Owners BY <1>3 DEF ToSet
  <2> QED BY <1>4, <2>1
<1> QED BY <1>1, <1>2, <1>4, <1>5 DEF QueuesInv, Distinct

\* The walk goes on from queue o, which may have left list_.
LEMMA CursorGoesOn ==
    ASSUME QueuesInv, NEW o \in Owners
    PROVE  /\ NextOf(list, o) \in Owners \cup {None}
           /\ NextOf(list, o) # None => NextOf(list, o) \in ToSet(list) \ {o}
<1>1. list \in Seq(Owners) /\ Distinct(list) BY DEF QueuesInv
<1>2. NextOf(list, o) # None => NextOf(list, o) \in ToSet(list) \ {o} BY <1>1, NextOfIs
<1>3. ToSet(list) \subseteq Owners BY <1>1 DEF ToSet
<1> QED BY <1>2, <1>3

\* An empty queue leaves list_.
LEMMA QueueLeaves ==
    ASSUME QueuesInv, NEW o \in Owners, o \in ToSet(list), list' = Without(list, o),
           qrefs' = [qrefs EXCEPT ![o] = @ - 1], cmds' = [cmds EXCEPT ![o] = <<>>],
           cursor' = NextOf(list, o), UNCHANGED <<alive, pushed>>
    PROVE  QueuesInv' /\ ToSet(list') \subseteq ToSet(list)
<1>1. list \in Seq(Owners) /\ Distinct(list) BY DEF QueuesInv
<1>2. list' \in Seq(Owners) /\ Distinct(list') /\ ToSet(list') = ToSet(list) \ {o}
  BY <1>1, WithoutIs
<1>3. cursor' \in Owners \cup {None} /\ (cursor' # None => cursor' \in ToSet(list'))
  BY <1>2, CursorGoesOn
<1>4. qrefs \in [Owners -> 0 .. 2] /\ cmds \in [Owners -> Seq(Commands)] /\ <<>> \in Seq(Commands)
  BY DEF QueuesInv
<1>5. qrefs[o] = One(o \in alive) + 1 BY DEF QueuesInv, QueueInv, One
<1>6. qrefs'[o] = One(o \in alive) /\ cmds'[o] = <<>> BY <1>4, <1>5 DEF One
<1>7. cmds' \in [Owners -> Seq(Commands)] BY <1>4
<1>8. ASSUME NEW p \in Owners, p # o PROVE qrefs'[p] = qrefs[p] /\ cmds'[p] = cmds[p]
  BY <1>4, <1>8
<1>9. qrefs' \in [Owners -> 0 .. 2]
  <2>1. qrefs[o] - 1 \in 0 .. 2 BY <1>4, <1>5 DEF One
  <2> QED BY <1>4, <2>1
<1>10. ASSUME NEW p \in Owners PROVE QueueInv(p)'
  <2>1. CASE p = o
    <3>1. p \notin ToSet(list') BY <1>2, <2>1
    <3> QED BY <1>6, <2>1, <3>1 DEF QueueInv, One
  <2>2. CASE p # o
    <3>1. p \in ToSet(list') <=> p \in ToSet(list) BY <1>2, <2>2
    <3>2. QueueInv(p) BY DEF QueuesInv
    <3> QED BY <1>8, <2>2, <3>1, <3>2 DEF QueueInv, One
  <2> QED BY <2>1, <2>2
<1> QED BY <1>2, <1>3, <1>7, <1>9, <1>10 DEF QueuesInv

\* A queue keeps its place with other commands in it.
LEMMA QueueStays ==
    ASSUME QueuesInv, NEW o \in Owners, NEW rest \in Seq(Commands), rest # <<>>, cmds[o] # <<>>,
           cmds' = [cmds EXCEPT ![o] = rest], UNCHANGED <<alive, pushed, list, qrefs>>,
           cursor' \in Owners \cup {None}, cursor' # None => cursor' \in ToSet(list)
    PROVE  QueuesInv'
<1>1. cmds \in [Owners -> Seq(Commands)] BY DEF QueuesInv
<1>2. cmds' \in [Owners -> Seq(Commands)] /\ cmds'[o] = rest BY <1>1
<1>3. ASSUME NEW p \in Owners, p # o PROVE cmds'[p] = cmds[p] BY <1>1, <1>3
<1>4. ASSUME NEW p \in Owners PROVE QueueInv(p)'
  <2>1. QueueInv(p) BY DEF QueuesInv
  <2>2. cmds'[p] # <<>> <=> cmds[p] # <<>> BY <1>2, <1>3
  <2> QED BY <2>1, <2>2 DEF QueueInv, One
<1> QED BY <1>2, <1>4 DEF QueuesInv, Distinct

\* TryExecute returns.
LEMMA TryExecuteEndsQueues ==
    ASSUME QueuesInv, NEW o \in Owners, o \in ToSet(list), NEW rest \in Seq(Commands),
           TryExecuteEnds(o, rest), UNCHANGED <<alive, pushed>>
    PROVE  QueuesInv' /\ ToSet(list') \subseteq ToSet(list)
<1>1. CASE rest = <<>>
  <2>1. /\ list' = Without(list, o) /\ qrefs' = [qrefs EXCEPT ![o] = @ - 1]
        /\ cmds' = [cmds EXCEPT ![o] = <<>>] /\ cursor' = NextOf(list, o)
    BY <1>1 DEF TryExecuteEnds
  <2> QED BY <2>1, QueueLeaves
<1>2. CASE rest # <<>>
  <2>1. /\ cmds' = [cmds EXCEPT ![o] = rest] /\ cursor' = NextOf(list, o)
        /\ list' = list /\ qrefs' = qrefs
    BY <1>2 DEF TryExecuteEnds
  <2>2. cmds[o] # <<>> BY DEF QueuesInv, QueueInv
  <2>3. cursor' \in Owners \cup {None} /\ (cursor' # None => cursor' \in ToSet(list))
    BY <2>1, CursorGoesOn
  <2> QED BY <1>2, <2>1, <2>2, <2>3, QueueStays
<1> QED BY <1>1, <1>2

\* A queue without an owner is dropped.
LEMMA AbandonedQueues ==
    ASSUME QueuesInv, NEW o \in Owners, QueueAbandoned(o)
    PROVE  QueuesInv' /\ ToSet(list') \subseteq ToSet(list)
<1>1. /\ cursor = o /\ o # None /\ qrefs[o] # 2 /\ list' = Without(list, o)
      /\ cursor' = NextOf(list, o) /\ qrefs' = [qrefs EXCEPT ![o] = @ - 1]
      /\ cmds' = IF qrefs[o] = 1 THEN [cmds EXCEPT ![o] = <<>>] ELSE cmds
      /\ alive' = alive /\ pushed' = pushed
  BY DEF QueueAbandoned, Visiting, Dropped, Released
<1>2. o \in ToSet(list) BY <1>1 DEF QueuesInv
<1>3. qrefs[o] = 1 BY <1>1, <1>2 DEF QueuesInv, QueueInv, One
<1>4. cmds' = [cmds EXCEPT ![o] = <<>>] BY <1>1, <1>3
<1> QED BY <1>1, <1>2, <1>4, QueueLeaves

\* A command is changed in its queue.
LEMMA ChangedQueues ==
    ASSUME QueuesInv, NEW o \in Owners, NEW i \in DOMAIN cmds[o], NEW c \in Commands,
           cmds' = [cmds EXCEPT ![o] = [cmds[o] EXCEPT ![i] = c]],
           UNCHANGED <<alive, pushed, list, qrefs, cursor>>
    PROVE  QueuesInv'
<1> DEFINE rest == [cmds[o] EXCEPT ![i] = c]
<1>1. cmds[o] \in Seq(Commands) BY DEF QueuesInv
<1>2. rest \in Seq(Commands) /\ Len(rest) = Len(cmds[o]) BY <1>1, ReplacedIs
<1>3. cmds[o] # <<>> /\ Len(cmds[o]) # 0 BY <1>1
<1> HIDE DEF rest
<1>4. rest # <<>> BY <1>2, <1>3
<1>5. cursor' \in Owners \cup {None} /\ (cursor' # None => cursor' \in ToSet(list)) BY DEF QueuesInv
<1>6. cmds' = [cmds EXCEPT ![o] = rest] BY DEF rest
<1> QED BY <1>2, <1>3, <1>4, <1>5, <1>6, QueueStays

\* A command is pushed, and its queue registered.
LEMMA PushCommandQueues ==
    ASSUME QueuesInv, NEW o \in Owners, PushCommand(o)
    PROVE  QueuesInv' /\ ToSet(list') = ToSet(list) \cup {o}
<1> DEFINE c == CHOOSE d \in Cmds \ pushed : TRUE
           e == [id |-> c, executed |-> FALSE, finish |-> FALSE]
           rest == Append(cmds[o], e)
<1>1. /\ o \in alive /\ pushed # Cmds /\ pushed' = pushed \cup {c}
      /\ cmds' = [cmds EXCEPT ![o] = rest]
      /\ IF o \in ToSet(list)
         THEN list' = list /\ qrefs' = qrefs
         ELSE list' = <<o>> \o list /\ qrefs' = [qrefs EXCEPT ![o] = @ + 1]
      /\ alive' = alive /\ cursor' = cursor
  BY DEF PushCommand, loop
<1>2. cmds \in [Owners -> Seq(Commands)] /\ qrefs \in [Owners -> 0 .. 2] /\ pushed \subseteq Cmds
      /\ list \in Seq(Owners) /\ Distinct(list) /\ cmds[o] \in Seq(Commands)
  BY DEF QueuesInv
<1>3. c \in Cmds
  <2>1. \E d \in Cmds \ pushed : TRUE BY <1>1, <1>2
  <2> QED BY <2>1
<1> HIDE DEF c
<1>4. e \in Commands BY <1>3 DEF Commands
<1> HIDE DEF e
<1>5. rest \in Seq(Commands) /\ rest # <<>>
  <2>1. rest \in Seq(Commands) /\ Len(rest) = Len(cmds[o]) + 1 BY <1>2, <1>4, AppendIs
  <2>2. Len(cmds[o]) \in Nat BY <1>2
  <2> QED BY <2>1, <2>2
<1> HIDE DEF rest
<1>6. cmds' \in [Owners -> Seq(Commands)] /\ cmds'[o] # <<>> BY <1>1, <1>2, <1>5
<1>7. pushed' \subseteq Cmds BY <1>1, <1>2, <1>3
<1>8. ASSUME NEW p \in Owners, p # o PROVE cmds'[p] = cmds[p] BY <1>1, <1>2, <1>8
<1>9. CASE o \in ToSet(list)
  <2>1. list' = list /\ qrefs' = qrefs BY <1>1, <1>9
  <2>2. cmds[o] # <<>> BY <1>9 DEF QueuesInv, QueueInv
  <2>3. ASSUME NEW p \in Owners PROVE QueueInv(p)'
    <3>1. QueueInv(p) BY DEF QueuesInv
    <3>2. cmds'[p] # <<>> <=> cmds[p] # <<>> BY <1>6, <1>8, <2>2
    <3> QED BY <1>1, <2>1, <3>1, <3>2 DEF QueueInv, One
  <2>4. QueuesInv' BY <1>1, <1>6, <1>7, <2>1, <2>3 DEF QueuesInv, Distinct
  <2> QED BY <1>9, <2>1, <2>4
<1>10. CASE o \notin ToSet(list)
  <2>1. list' = <<o>> \o list /\ qrefs' = [qrefs EXCEPT ![o] = @ + 1] BY <1>1, <1>10
  <2>2. list' \in Seq(Owners) /\ Distinct(list') /\ ToSet(list') = ToSet(list) \cup {o}
    BY <1>2, <1>10, <2>1, PushFrontIs
  <2>3. qrefs[o] = 1 BY <1>1, <1>10 DEF QueuesInv, QueueInv, One
  <2>4. qrefs'[o] = 2 /\ qrefs' \in [Owners -> 0 .. 2] BY <1>2, <2>1, <2>3
  <2>5. ASSUME NEW p \in Owners PROVE QueueInv(p)'
    <3>1. CASE p = o BY <1>1, <1>6, <2>2, <2>4, <3>1 DEF QueueInv, One
    <3>2. CASE p # o
      <4>1. QueueInv(p) BY DEF QueuesInv
      <4>2. p \in ToSet(list') <=> p \in ToSet(list) BY <2>2, <3>2
      <4>3. qrefs'[p] = qrefs[p] BY <1>2, <2>1, <3>2
      <4> QED BY <1>1, <1>8, <3>2, <4>1, <4>2, <4>3 DEF QueueInv, One
    <3> QED BY <3>1, <3>2
  <2>6. cursor' \in Owners \cup {None} /\ (cursor' # None => cursor' \in ToSet(list'))
    BY <1>1, <2>2 DEF QueuesInv
  <2>7. QueuesInv' BY <1>6, <1>7, <2>2, <2>4, <2>5, <2>6 DEF QueuesInv
  <2> QED BY <2>2, <2>7
<1> QED BY <1>9, <1>10

\* A Runner is made.
LEMMA CreateQueues ==
    ASSUME QueuesInv, NEW o \in Owners, o \notin alive, o \notin ToSet(list),
           alive' = alive \cup {o}, qrefs' = [qrefs EXCEPT ![o] = 1],
           UNCHANGED <<cmds, list, pushed, cursor>>
    PROVE  QueuesInv'
<1>1. qrefs \in [Owners -> 0 .. 2] BY DEF QueuesInv
<1>2. qrefs' \in [Owners -> 0 .. 2] /\ qrefs'[o] = 1 BY <1>1
<1>3. ASSUME NEW p \in Owners PROVE QueueInv(p)'
  <2>1. QueueInv(p) BY DEF QueuesInv
  <2>2. CASE p = o BY <1>2, <2>1, <2>2 DEF QueueInv, One
  <2>3. CASE p # o
    <3>1. qrefs'[p] = qrefs[p] /\ (p \in alive' <=> p \in alive) BY <1>1, <2>3
    <3> QED BY <2>1, <3>1 DEF QueueInv, One
  <2> QED BY <2>2, <2>3
<1> QED BY <1>2, <1>3 DEF QueuesInv, Distinct

\* A Runner is destroyed.
LEMMA DestroyQueues ==
    ASSUME QueuesInv, NEW o \in Owners, o \in alive, alive' = alive \ {o}, Released(o),
           UNCHANGED <<list, pushed, cursor>>
    PROVE  QueuesInv'
<1>1. qrefs \in [Owners -> 0 .. 2] /\ cmds \in [Owners -> Seq(Commands)] /\ <<>> \in Seq(Commands)
  BY DEF QueuesInv
<1>2. /\ qrefs' = [qrefs EXCEPT ![o] = @ - 1]
      /\ cmds' = IF qrefs[o] = 1 THEN [cmds EXCEPT ![o] = <<>>] ELSE cmds
  BY DEF Released
<1>3. QueueInv(o) BY DEF QueuesInv
<1>4. qrefs[o] = 1 + One(o \in ToSet(list)) BY <1>3 DEF QueueInv, One
<1>5. cmds' = cmds
  <2>1. CASE o \in ToSet(list) BY <1>2, <1>4, <2>1 DEF One
  <2>2. CASE o \notin ToSet(list)
    <3>1. cmds[o] = <<>> BY <1>3, <2>2 DEF QueueInv
    <3> QED BY <1>1, <1>2, <3>1
  <2> QED BY <2>1, <2>2
<1>6. qrefs'[o] = One(o \in ToSet(list)) /\ qrefs' \in [Owners -> 0 .. 2]
  <2>1. qrefs[o] - 1 = One(o \in ToSet(list)) /\ qrefs[o] - 1 \in 0 .. 2 BY <1>4 DEF One
  <2> QED BY <1>1, <1>2, <2>1
<1>7. ASSUME NEW p \in Owners PROVE QueueInv(p)'
  <2>1. QueueInv(p) BY DEF QueuesInv
  <2>2. CASE p = o
    <3>1. p \notin alive' BY <2>2
    <3> QED BY <1>5, <1>6, <2>1, <2>2, <3>1 DEF QueueInv, One
  <2>3. CASE p # o
    <3>1. qrefs'[p] = qrefs[p] /\ (p \in alive' <=> p \in alive) BY <1>1, <1>2, <2>3
    <3> QED BY <1>5, <2>1, <3>1 DEF QueueInv, One
  <2> QED BY <2>2, <2>3
<1> QED BY <1>1, <1>5, <1>6, <1>7 DEF QueuesInv, Distinct

-----------------------------------------------------------------------------
(* The stack of callbacks *)

\* Steps that leave the stack alone, while list_ loses nothing.
LEMMA StackStill ==
    ASSUME StackInv, stack' = stack, ToSet(list) \subseteq ToSet(list')
    PROVE  StackInv' /\ (Running' <=> Running)
<1>1. ASSUME NEW i \in DOMAIN stack' PROVE FrameInv(i)'
  <2>1. FrameInv(i) BY DEF StackInv
  <2> QED BY <2>1 DEF FrameInv
<1>2. Running' <=> Running BY DEF Running
<1> QED BY <1>1, <1>2 DEF StackInv

\* Nothing runs.
LEMMA StackEmpty == ASSUME stack' = <<>> PROVE StackInv' /\ ~Running'
<1>1. <<>> \in Seq(Frames) /\ DOMAIN stack' = {} OBVIOUS
<1> QED BY <1>1 DEF StackInv, Running

\* A timer or a command runs.
LEMMA StackBottom ==
    ASSUME NEW f \in Frames, stack' = <<f>>, f.kind \in {"timer", "command"},
           f.first => f.live, f.ontime,
           f.kind = "timer" => f.at = "in",
           f.kind = "command" => f.at \in {"setup", "execute", "cleanup"} /\ f.of \in ToSet(list')
    PROVE  StackInv' /\ (Running' <=> f.kind = "timer")
<1>1. stack' \in Seq(Frames) /\ Len(stack') = 1 /\ DOMAIN stack' = {1} /\ stack'[1] = f OBVIOUS
<1>2. FrameInv(1)' BY <1>1 DEF FrameInv
<1>3. Running' <=> f.kind = "timer" BY <1>1 DEF Running
<1> QED BY <1>1, <1>2, <1>3 DEF StackInv

\* The innermost Trigger goes on.
LEMMA StackTop ==
    ASSUME StackInv, stack # <<>>, Top.kind = "event", NEW f \in Frames,
           stack' = [stack EXCEPT ![Len(stack)] = f], f.kind = "event",
           f.at \in {"in", "look"}, f.ontime, list' = list
    PROVE  StackInv' /\ (Running' <=> Running)
<1> DEFINE n == Len(stack)
<1>1. stack \in Seq(Frames) BY DEF StackInv
<1>2. n \in DOMAIN stack /\ n \in Nat /\ DOMAIN stack = 1 .. n BY <1>1
<1>3. stack' \in Seq(Frames) /\ Len(stack') = n /\ DOMAIN stack' = DOMAIN stack
  BY <1>1, <1>2, ReplacedIs
<1>4. stack'[n] = f /\ \A i \in DOMAIN stack : i # n => stack'[i] = stack[i] BY <1>1, <1>2
<1> HIDE DEF n
<1>5. ASSUME NEW i \in DOMAIN stack' PROVE FrameInv(i)'
  <2>1. FrameInv(i) BY <1>3 DEF StackInv
  <2>2. CASE i = n BY <1>2, <1>3, <1>4, <2>2 DEF FrameInv
  <2>3. CASE i # n BY <1>3, <1>4, <2>1, <2>3 DEF FrameInv, n
  <2> QED BY <2>2, <2>3
<1>6. Running' <=> Running
  <2>1. 1 \in DOMAIN stack /\ stack' # <<>> BY <1>1, <1>2, <1>3
  <2>2. Top = stack[n] BY DEF Top, n
  <2>3. stack'[1].kind = stack[1].kind BY <1>4, <2>1, <2>2
  <2> QED BY <2>1, <2>3 DEF Running
<1> QED BY <1>3, <1>5, <1>6 DEF StackInv

\* A Trigger begins, in a callback or outside.
LEMMA StackPush ==
    ASSUME StackInv, stack = <<>> \/ Top.at # "look", NEW f \in Frames, stack' = Append(stack, f),
           f.kind = "event", f.at = "look", f.ontime, list' = list
    PROVE  StackInv' /\ (Running' <=> Running)
<1> DEFINE n == Len(stack)
<1>1. stack \in Seq(Frames) /\ n \in Nat /\ DOMAIN stack = 1 .. n BY DEF StackInv
<1>2. /\ stack' \in Seq(Frames) /\ Len(stack') = n + 1 /\ DOMAIN stack' = DOMAIN stack \cup {n + 1}
      /\ stack'[n + 1] = f /\ \A i \in DOMAIN stack : stack'[i] = stack[i]
  BY <1>1
<1>3. ASSUME NEW i \in DOMAIN stack PROVE stack[i].at # "look"
  <2>1. FrameInv(i) BY DEF StackInv
  <2>2. Top = stack[n] /\ stack # <<>> BY <1>1 DEF Top
  <2>3. CASE i = n BY <2>2, <2>3
  <2>4. CASE i # n
    <3>1. i < Len(stack) BY <1>1, <2>4
    <3> QED BY <2>1, <3>1 DEF FrameInv
  <2> QED BY <2>3, <2>4
<1> HIDE DEF n
<1>4. ASSUME NEW i \in DOMAIN stack' PROVE FrameInv(i)'
  <2>1. CASE i = n + 1
    <3>1. i > 0 /\ ~(i < Len(stack')) BY <1>1, <1>2, <2>1
    <3> QED BY <1>2, <2>1, <3>1 DEF FrameInv
  <2>2. CASE i \in DOMAIN stack
    <3>1. FrameInv(i) BY <2>2 DEF StackInv
    <3> QED BY <1>2, <1>3, <2>2, <3>1 DEF FrameInv
  <2> QED BY <1>2, <2>1, <2>2
<1>5. Running' <=> Running
  <2>0. stack' # <<>> BY <1>1, <1>2
  <2>1. CASE stack = <<>>
    <3>1. n = 0 /\ stack'[1] = f BY <1>1, <1>2, <2>1 DEF n
    <3> QED BY <2>1, <3>1 DEF Running
  <2>2. CASE stack # <<>>
    <3>1. 1 \in DOMAIN stack BY <1>1, <2>2
    <3> QED BY <1>2, <2>0, <2>2, <3>1 DEF Running
  <2> QED BY <2>1, <2>2
<1> QED BY <1>2, <1>4, <1>5 DEF StackInv

\* A Trigger returns.
LEMMA StackPop ==
    ASSUME StackInv, stack # <<>>, Top.kind = "event", stack' = Front(stack), list' = list
    PROVE  StackInv' /\ (Running' <=> Running)
<1> DEFINE n == Len(stack)
<1>1. stack \in Seq(Frames) /\ n \in Nat \ {0} /\ DOMAIN stack = 1 .. n BY DEF StackInv
<1>2. /\ stack' \in Seq(Frames) /\ Len(stack') = n - 1
      /\ \A i \in DOMAIN stack' : i \in DOMAIN stack /\ i < n /\ stack'[i] = stack[i]
  BY <1>1, FrontIs
<1>3. ASSUME NEW i \in DOMAIN stack' PROVE FrameInv(i)'
  <2>1. FrameInv(i) /\ stack'[i] = stack[i] /\ i < n BY <1>2 DEF StackInv
  <2> QED BY <2>1 DEF FrameInv
<1>4. Running' <=> Running
  <2>1. CASE n = 1
    <3>1. stack' = <<>> /\ Top = stack[1] BY <1>2, <2>1 DEF Top
    <3> QED BY <3>1 DEF Running
  <2>2. CASE n # 1
    <3>1. 1 \in DOMAIN stack' /\ stack' # <<>> BY <1>1, <1>2, <2>2
    <3>2. stack'[1] = stack[1] BY <1>2, <3>1
    <3> QED BY <3>1, <3>2 DEF Running
  <2> QED BY <2>1, <2>2
<1> QED BY <1>2, <1>3, <1>4 DEF StackInv

\* A timer or a command is alone on the stack when it is the innermost.
LEMMA BottomOnTop ==
    ASSUME StackInv, stack # <<>>, Top.kind # "event"
    PROVE  /\ Len(stack) = 1 /\ stack[1] = Top /\ Top \in Frames /\ FrameInv(1)
           /\ Running <=> Top.kind = "timer"
<1> DEFINE n == Len(stack)
<1>1. stack \in Seq(Frames) /\ n \in Nat \ {0} /\ DOMAIN stack = 1 .. n BY DEF StackInv
<1>2. FrameInv(n) /\ n \in DOMAIN stack BY <1>1 DEF StackInv
<1>3. Top = stack[n] BY DEF Top
<1>4. n = 1 BY <1>1, <1>2, <1>3 DEF FrameInv
<1>5. Top \in Frames BY <1>1, <1>2, <1>3
<1> HIDE DEF n
<1>6. FrameInv(1) /\ stack[1] = Top BY <1>2, <1>3, <1>4
<1> QED BY <1>4, <1>5, <1>6 DEF Running, n

\* The command that runs has its queue on list_ and itself in it.
LEMMA CommandOnTop ==
    ASSUME StackInv, QueuesInv, NEW at, InFrame("command", at)
    PROVE  /\ stack # <<>> /\ Top \in Frames /\ Top.kind = "command" /\ Top.ontime
           /\ Top.of \in Owners /\ Top.of \in ToSet(list)
           /\ cmds[Top.of] \in Seq(Commands) /\ 1 \in DOMAIN cmds[Top.of]
           /\ cmds[Top.of][1] \in Commands /\ Tail(cmds[Top.of]) \in Seq(Commands)
           /\ ~Running
<1>1. stack # <<>> /\ Top.kind = "command" BY DEF InFrame
<1>2. stack[1] = Top /\ Top \in Frames /\ FrameInv(1) /\ ~Running BY <1>1, BottomOnTop
<1>3. Top.of \in ToSet(list) /\ Top.ontime BY <1>1, <1>2 DEF FrameInv
<1>4. list \in Seq(Owners) BY DEF QueuesInv
<1>5. Top.of \in Owners BY <1>3, <1>4 DEF ToSet
<1>6. cmds[Top.of] \in Seq(Commands) /\ cmds[Top.of] # <<>> BY <1>3, <1>5 DEF QueuesInv, QueueInv
<1>7. 1 \in DOMAIN cmds[Top.of] /\ cmds[Top.of][1] \in Commands BY <1>6, HasFirst
<1>8. Tail(cmds[Top.of]) \in Seq(Commands) BY <1>6, TailIs
<1> QED BY <1>1, <1>2, <1>3, <1>5, <1>6, <1>7, <1>8

-----------------------------------------------------------------------------
(* Who was made *)

\* Steps that make nobody and move nobody's place.
LEMMA MadeStill ==
    ASSUME MadeInv, \A p \in Owners : Made(p) => Made(p)',
           alive' \subseteq alive, ToSet(list') \subseteq ToSet(list) \cup alive,
           ToSet(handlers') \subseteq ToSet(handlers)
    PROVE  MadeInv'
BY DEF MadeInv

\* No timer changes its owner.
LEMMA MadeStays ==
    ASSUME NEW p, \A id \in DOMAIN timer : id \in DOMAIN timer' /\ timer'[id].owner = timer[id].owner,
           Made(p)
    PROVE  Made(p)'
BY DEF Made

-----------------------------------------------------------------------------
(* Base is inductive *)

\* What is left of a budget.
LEMMA BudgetTyped ==
    ASSUME left \in [Kinds -> Nat], NEW kind \in Kinds, Op(kind)
    PROVE  left' \in [Kinds -> Nat]
BY DEF Op

\* Steps that concern neither timers nor queues: the walk over handlers_.
LEMMA EventBase ==
    ASSUME Base, UNCHANGED <<alive, timing, queues, loop>>, StackInv', Running' <=> Running,
           left' \in [Kinds -> Nat], handlers' \in Seq(Owners), Distinct(handlers'),
           ToSet(handlers') \subseteq ToSet(handlers)
    PROVE  Base'
<1>1. /\ alive' = alive /\ timing' = timing /\ pc' = pc /\ cursor' = cursor /\ exit' = exit
      /\ queues' = queues /\ list' = list /\ timer' = timer
  BY DEF loop, queues, timing
<1>2. TimingInv'
  <2>1. TimingInv /\ UNCHANGED <<alive, timing>> BY DEF Base
  <2>2. pc' = pc \/ (pc = "commands" /\ pc' = "io") BY <1>1
  <2> QED BY <2>1, <2>2, TimingStill
<1>3. QueuesInv' BY <1>1, QueuesStill DEF Base
<1>4. MadeInv'
  <2>1. \A p \in Owners : Made(p) => Made(p)' BY <1>1 DEF Made
  <2> QED BY <1>1, <2>1, MadeStill DEF Base
<1>5. RestInv' BY <1>1 DEF Base, RestInv
<1> QED BY <1>2, <1>3, <1>4, <1>5 DEF Base

\* Init.
LEMMA BaseInit == ASSUME Init PROVE Base
<1>0. /\ alive = {} /\ timerOf = [o \in Owners |-> 0] /\ timer = <<>> /\ delayqueue = <<>>
      /\ intervals = <<>> /\ since = [o \in Owners |-> 0] /\ cmds = [o \in Owners |-> <<>>]
      /\ qrefs = [o \in Owners |-> 0] /\ list = <<>> /\ pushed = {} /\ handlers = <<>>
      /\ pc = "io" /\ cursor = None /\ stack = <<>> /\ exit = FALSE /\ left \in Budgets
  BY DEF Init
<1>1. /\ <<>> \in Seq(TimerRecords) /\ <<>> \in Seq(Entries) /\ <<>> \in Seq(Ids)
      /\ <<>> \in Seq(Commands) /\ <<>> \in Seq(Owners) /\ <<>> \in Seq(Frames)
      /\ DOMAIN <<>> = {} /\ Len(<<>>) = 0
  OBVIOUS
<1>2. ToSet(<<>>) = {} BY <1>1 DEF ToSet
<1>3. TimingInv
  <2>1. TimersTyped BY <1>0, <1>1, Constants DEF TimersTyped
  <2>2. ASSUME NEW o \in Owners PROVE LinkerInv(o) BY <1>0 DEF LinkerInv
  <2>3. PlacesInv BY <1>0, <1>1 DEF PlacesInv, OnceIn, Distinct
  <2>4. RunningInv BY <1>0 DEF RunningInv, Running
  <2> QED BY <1>0, <1>1, <2>1, <2>2, <2>3, <2>4 DEF TimingInv
<1>4. QueuesInv
  <2>1. ASSUME NEW o \in Owners PROVE QueueInv(o) BY <1>0, <1>2 DEF QueueInv, One
  <2>2. Distinct(list) BY <1>0, <1>1 DEF Distinct
  <2> QED BY <1>0, <1>1, <2>1, <2>2 DEF QueuesInv
<1>5. StackInv BY <1>0, <1>1 DEF StackInv
<1>6. MadeInv BY <1>0, <1>2 DEF MadeInv
<1>7. RestInv BY <1>0, <1>1, FrameAssumption DEF RestInv, Distinct
<1> QED BY <1>3, <1>4, <1>5, <1>6, <1>7 DEF Base

\* The quick timer.
LEMMA TimerFiresBase == ASSUME Base, TimerFires PROVE Base'
<1> DEFINE o == timer[delayqueue[1].id].owner
           f == Entered("timer", o, "in", o = None \/ since[o] = Interval)
<1>1. /\ stack = <<>> /\ Due /\ Fires(delayqueue[1].id) /\ stack' = <<f>> /\ alive' = alive
      /\ queues' = queues /\ list' = list /\ handlers' = handlers /\ cursor' = cursor /\ exit' = exit
      /\ left' = left /\ timer' = timer
  BY DEF TimerFires, queues, events, loop
<1>2. TimingInv' BY TimerFiresTiming DEF Base
<1>3. QueuesInv' BY <1>1, QueuesStill DEF Base
<1>4. o \in Owners \cup {None} /\ (o # None => o \in alive /\ since[o] = Interval)
  BY <1>1, FiringOnTime DEF Base
<1>5. f \in Frames /\ f.kind = "timer" /\ f.at = "in" /\ f.live /\ f.ontime
  <2>1. (o = None \/ since[o] = Interval) \in BOOLEAN /\ (o = None \/ since[o] = Interval) BY <1>4
  <2> HIDE DEF o
  <2>2. (o = None \/ o \in alive) \in BOOLEAN /\ (o = None \/ o \in alive) BY <1>4
  <2> QED BY <1>4, <2>1, <2>2 DEF Entered, Frames
<1> HIDE DEF f
<1>6. StackInv' BY <1>1, <1>5, StackBottom
<1>7. MadeInv'
  <2>1. \A p \in Owners : Made(p) => Made(p)' BY <1>1 DEF Made
  <2> QED BY <1>1, <2>1, MadeStill DEF Base
<1>8. RestInv' BY <1>1 DEF Base, RestInv, Distinct
<1> QED BY <1>2, <1>3, <1>6, <1>7, <1>8 DEF Base

\* The rest of a step that only concerns timers.
LEMMA TimerStepBase ==
    ASSUME Base, TimingInv', StackInv', QueuesInv', \A p \in Owners : Made(p) => Made(p)',
           UNCHANGED <<alive, queues, events, exit, left>>
    PROVE  Base'
<1>1. alive' = alive /\ list' = list /\ handlers' = handlers BY DEF queues, events
<1>2. MadeInv' BY <1>1, MadeStill DEF Base
<1>3. RestInv' BY <1>1 DEF Base, RestInv, Distinct
<1> QED BY <1>2, <1>3 DEF Base

\* A timer without a holder.
LEMMA TimerSilentBase == ASSUME Base, TimerSilent PROVE Base'
<1>1. /\ pc = "timers" /\ stack = <<>> /\ delayqueue # <<>> /\ Retire /\ pc' = pc /\ stack' = <<>>
      /\ alive' = alive /\ timerOf' = timerOf /\ timer' = timer /\ since' = since
      /\ queues' = queues /\ events' = events /\ cursor' = cursor /\ exit' = exit /\ left' = left
  BY DEF TimerSilent, Due, loop
<1>2. TimingInv' BY <1>1, RetireTiming DEF Base
<1>3. StackInv' BY <1>1, StackEmpty
<1>4. QueuesInv' BY <1>1, QueuesStill DEF Base
<1>5. \A p \in Owners : Made(p) => Made(p)' BY <1>1 DEF Made
<1> QED BY <1>1, <1>2, <1>3, <1>4, <1>5, TimerStepBase

\* A timer's callback returns.
LEMMA TimerReturnsBase == ASSUME Base, TimerReturns PROVE Base'
<1>1. /\ stack # <<>> /\ Top.kind = "timer" /\ Retire /\ pc' = pc /\ stack' = <<>>
      /\ alive' = alive /\ timerOf' = timerOf /\ timer' = timer /\ since' = since
      /\ queues' = queues /\ events' = events /\ cursor' = cursor /\ exit' = exit /\ left' = left
  BY DEF TimerReturns, InFrame, loop
<1>2. Running BY <1>1, BottomOnTop DEF Base
<1>3. pc = "timers" /\ delayqueue # <<>> BY <1>2 DEF Base, TimingInv, RunningInv
<1>4. TimingInv' BY <1>1, <1>3, RetireTiming DEF Base
<1>5. StackInv' BY <1>1, StackEmpty
<1>6. QueuesInv' BY <1>1, QueuesStill DEF Base
<1>7. \A p \in Owners : Made(p) => Made(p)' BY <1>1 DEF Made
<1> QED BY <1>1, <1>4, <1>5, <1>6, <1>7, TimerStepBase

\* Update of the timers ends, that of the commands begins.
LEMMA TimersDoneBase == ASSUME Base, TimersDone PROVE Base'
<1>1. /\ stack = <<>> /\ stack' = <<>> /\ alive' = alive /\ timer' = timer /\ queues' = queues
      /\ events' = events /\ cursor' = FirstOf(list) /\ exit' = exit /\ left' = left
  BY DEF TimersDone
<1>2. TimingInv' BY TimersDoneTiming DEF Base
<1>3. StackInv' BY <1>1, StackEmpty
<1>4. QueuesInv' BY <1>1, WalkBegins DEF Base
<1>5. \A p \in Owners : Made(p) => Made(p)' BY <1>1 DEF Made
<1> QED BY <1>1, <1>2, <1>3, <1>4, <1>5, TimerStepBase

\* The next frame.
LEMMA AdvanceBase == ASSUME Base, NEW d \in Steps, Advance(d) PROVE Base'
<1>1. /\ stack = <<>> /\ stack' = <<>> /\ alive' = alive /\ timer' = timer /\ queues' = queues
      /\ events' = events /\ cursor' = cursor /\ exit' = exit /\ left' = left
  BY DEF Advance
<1>2. TimingInv' BY AdvanceTiming DEF Base
<1>3. StackInv' BY <1>1, StackEmpty
<1>4. QueuesInv' BY <1>1, QueuesStill DEF Base
<1>5. \A p \in Owners : Made(p) => Made(p)' BY <1>1 DEF Made
<1> QED BY <1>1, <1>2, <1>3, <1>4, <1>5, TimerStepBase

\* The end of a frame, or of the loop.
LEMMA CommandsDoneBase == ASSUME Base, CommandsDone PROVE Base'
<1>1. /\ pc = "commands" /\ stack = <<>> /\ stack' = <<>> /\ alive' = alive /\ queues' = queues
      /\ events' = events /\ cursor' = cursor /\ exit' = exit /\ left' = left
  BY DEF CommandsDone
<1>2. StackInv' /\ ~Running' BY <1>1, StackEmpty
<1>3. QueuesInv' BY <1>1, QueuesStill DEF Base
<1>4. TimingInv'
  <2>1. CASE MayExit BY <2>1, StopAllTiming DEF Base
  <2>2. CASE ~MayExit
    <3>1. /\ pc' = "io" /\ delayqueue' = delayqueue /\ timer' = timer /\ timerOf' = timerOf
          /\ intervals' = intervals /\ since' = since
      BY <2>2 DEF CommandsDone
    <3>2. ~Running BY <1>1 DEF Running
    <3> QED BY <1>1, <1>2, <3>1, <3>2, TimingStill DEF Base, timing
  <2> QED BY <2>1, <2>2
<1>5. ASSUME NEW p \in Owners, Made(p) PROVE Made(p)'
  <2>1. CASE MayExit
    <3>1. timer' = [id \in DOMAIN timer |->
              IF timer[id].owner = None THEN timer[id] ELSE [timer[id] EXCEPT !.refs = @ - 1]]
      BY <2>1 DEF CommandsDone
    <3>2. timer \in Seq(TimerRecords) BY DEF Base, TimingInv, TimersTyped
    <3>3. ASSUME NEW id \in DOMAIN timer
          PROVE  id \in DOMAIN timer' /\ timer'[id].owner = timer[id].owner
      <4>1. timer[id] \in TimerRecords BY <3>2
      <4> QED BY <3>1, <4>1 DEF TimerRecords
    <3> QED BY <1>5, <3>3, MadeStays
  <2>2. CASE ~MayExit
    <3>1. timer' = timer BY <2>2 DEF CommandsDone
    <3> QED BY <1>5, <3>1 DEF Made
  <2> QED BY <2>1, <2>2
<1> QED BY <1>1, <1>2, <1>3, <1>4, <1>5, TimerStepBase

\* The rest of a step of RunnerMgr::Update.
LEMMA CommandStepBase ==
    ASSUME Base, QueuesInv', StackInv', ~Running, ~Running', ToSet(list') \subseteq ToSet(list),
           UNCHANGED <<alive, timing, events, pc, exit, left>>
    PROVE  Base'
<1>1. alive' = alive /\ timing' = timing /\ pc' = pc /\ exit' = exit /\ left' = left
      /\ handlers' = handlers /\ timer' = timer
  BY DEF timing, events
<1>2. TimingInv'
  <2>1. TimingInv /\ UNCHANGED <<alive, timing>> /\ (Running' <=> Running) BY DEF Base
  <2> QED BY <1>1, <2>1, TimingStill
<1>3. MadeInv'
  <2>1. \A p \in Owners : Made(p) => Made(p)' BY <1>1 DEF Made
  <2> QED BY <1>1, <2>1, MadeStill DEF Base
<1>4. RestInv' BY <1>1 DEF Base, RestInv, Distinct
<1> QED BY <1>2, <1>3, <1>4 DEF Base

\* A queue whose Runner is gone.
LEMMA QueueAbandonedBase == ASSUME Base, NEW o \in Owners, QueueAbandoned(o) PROVE Base'
<1>1. /\ stack = <<>> /\ stack' = <<>> /\ alive' = alive /\ timing' = timing /\ events' = events
      /\ pc' = pc /\ exit' = exit /\ left' = left
  BY DEF QueueAbandoned, Visiting
<1>2. QueuesInv' /\ ToSet(list') \subseteq ToSet(list) BY AbandonedQueues DEF Base
<1>3. StackInv' /\ ~Running' /\ ~Running BY <1>1, StackEmpty DEF Running
<1> QED BY <1>1, <1>2, <1>3, CommandStepBase

\* TryExecute returns.
LEMMA EndsBase ==
    ASSUME Base, ~Running, NEW o \in Owners, o \in ToSet(list), NEW rest \in Seq(Commands),
           TryExecuteEnds(o, rest), UNCHANGED <<alive, timing, pushed, events, pc, exit, left>>
    PROVE  Base'
<1>1. /\ stack' = <<>> /\ alive' = alive /\ timing' = timing /\ events' = events
      /\ pc' = pc /\ exit' = exit /\ left' = left /\ pushed' = pushed
  BY DEF TryExecuteEnds
<1>2. QueuesInv' /\ ToSet(list') \subseteq ToSet(list) BY <1>1, TryExecuteEndsQueues DEF Base
<1>3. StackInv' /\ ~Running' BY <1>1, StackEmpty
<1> QED BY <1>1, <1>2, <1>3, CommandStepBase

\* A callback of a command begins, or the next one.
LEMMA CallsBase ==
    ASSUME Base, ~Running, QueuesInv', list' = list, NEW f \in Frames, stack' = <<f>>,
           f.kind = "command", f.at \in {"setup", "execute", "cleanup"}, f.of \in ToSet(list),
           f.first => f.live, f.ontime, UNCHANGED <<alive, timing, events, pc, exit, left>>
    PROVE  Base'
<1>1. StackInv' /\ ~Running' BY StackBottom
<1> QED BY <1>1, CommandStepBase

\* TryExecute begins.
LEMMA TryExecuteBase == ASSUME Base, NEW o \in Owners, TryExecute(o) PROVE Base'
<1>1. /\ stack = <<>> /\ cursor = o /\ o # None /\ qrefs[o] = 2 /\ alive' = alive /\ timing' = timing
      /\ events' = events /\ pc' = pc /\ exit' = exit /\ left' = left /\ pushed' = pushed
  BY DEF TryExecute, Visiting
<1>2. ~Running BY <1>1 DEF Running
<1>3. o \in ToSet(list) /\ cmds[o] \in Seq(Commands) BY <1>1 DEF Base, QueuesInv
<1>4. o \in alive BY <1>1 DEF Base, QueuesInv, QueueInv, One
<1>5. ASSUME NEW at \in {"setup", "cleanup"}, stack' = <<Entered("command", o, at, TRUE)>>,
             UNCHANGED <<list, qrefs, cmds, cursor>>
      PROVE  Base'
  <2> DEFINE f == Entered("command", o, at, TRUE)
  <2>1. f \in Frames /\ f.kind = "command" /\ f.of = o /\ f.at = at /\ f.ontime /\ f.live
    <3>1. (o = None \/ o \in alive) \in BOOLEAN /\ (o = None \/ o \in alive) BY <1>4
    <3> QED BY <3>1 DEF Entered, Frames
  <2> HIDE DEF f
  <2>2. QueuesInv' BY <1>1, <1>5, QueuesStill DEF Base, queues
  <2>3. stack' = <<f>> BY <1>5 DEF f
  <2>4. f.at \in {"setup", "execute", "cleanup"} /\ list' = list BY <1>5, <2>1
  <2> QED BY <1>1, <1>2, <1>3, <2>1, <2>2, <2>3, <2>4, CallsBase
<1>6. ASSUME TryExecuteEnds(o, cmds[o]) PROVE Base'
  BY <1>1, <1>2, <1>3, <1>6, EndsBase
<1>7. \/ stack' = <<Entered("command", o, "setup", TRUE)>> /\ UNCHANGED <<list, qrefs, cmds, cursor>>
      \/ stack' = <<Entered("command", o, "cleanup", TRUE)>> /\ UNCHANGED <<list, qrefs, cmds, cursor>>
      \/ TryExecuteEnds(o, cmds[o])
  BY DEF TryExecute
<1> QED BY <1>5, <1>6, <1>7

\* The frame of the next callback of the command that runs.
LEMMA StageIs ==
    ASSUME Top \in Frames, Top.kind = "command", Top.ontime, NEW at \in {"execute", "cleanup"}
    PROVE  LET f == [Top EXCEPT !.at = at, !.live = Top.of \in alive, !.first = FALSE]
           IN  f \in Frames /\ f.kind = "command" /\ f.at = at /\ f.of = Top.of /\ ~f.first /\ f.ontime
<1>1. PICK b \in BOOLEAN : b <=> Top.of \in alive OBVIOUS
<1>2. (Top.of \in alive) = b BY <1>1
<1>3. PICK t : t = Top OBVIOUS
<1>4. t \in Frames /\ t.kind = "command" /\ t.ontime BY <1>3
<1> DEFINE f == [t EXCEPT !.at = at, !.live = b, !.first = FALSE]
<1>5. f \in Frames /\ f.kind = "command" /\ f.at = at /\ f.of = t.of /\ ~f.first /\ f.ontime
  BY <1>4 DEF Frames
<1> QED BY <1>2, <1>3, <1>5, Zenon

\* OnSetup accepts.
LEMMA SetupAcceptsBase == ASSUME Base, SetupAccepts PROVE Base'
<1>0. SUFFICES ASSUME NEW o, o = Top.of PROVE Base' OBVIOUS
<1>1. /\ InFrame("command", "setup") /\ stack' = NextStage("execute")
      /\ cmds' = [cmds EXCEPT ![Top.of][1].executed = TRUE]
      /\ alive' = alive /\ timing' = timing /\ events' = events /\ pc' = pc /\ exit' = exit
      /\ left' = left /\ pushed' = pushed /\ list' = list /\ qrefs' = qrefs /\ cursor' = cursor
  BY DEF SetupAccepts, loop
<1>2. /\ Top \in Frames /\ Top.kind = "command" /\ Top.ontime /\ o \in Owners
      /\ o \in ToSet(list) /\ cmds[o] \in Seq(Commands) /\ 1 \in DOMAIN cmds[o]
      /\ cmds[o][1] \in Commands /\ ~Running
  BY <1>0, <1>1, CommandOnTop DEF Base
<1> DEFINE c == [cmds[o][1] EXCEPT !.executed = TRUE]
           f == [Top EXCEPT !.at = "execute", !.live = Top.of \in alive, !.first = FALSE]
<1>3. c \in Commands BY <1>2 DEF Commands
<1>4. cmds' = [cmds EXCEPT ![o] = [cmds[o] EXCEPT ![1] = c]] BY <1>0, <1>1
<1> HIDE DEF c
<1>5. QueuesInv'
  <2>1. QueuesInv /\ UNCHANGED <<alive, pushed, list, qrefs, cursor>> BY <1>1 DEF Base
  <2> QED BY <1>2, <1>3, <1>4, <2>1, ChangedQueues
<1>6. f \in Frames /\ f.kind = "command" /\ f.at = "execute" /\ f.of = o /\ ~f.first /\ f.ontime
  BY <1>0, <1>2, StageIs
<1>7. stack' = <<f>> BY <1>1 DEF NextStage
<1> HIDE DEF f
<1> QED BY <1>1, <1>2, <1>5, <1>6, <1>7, CallsBase

\* OnSetup refuses.
LEMMA SetupRefusesBase == ASSUME Base, SetupRefuses PROVE Base'
<1>1. InFrame("command", "setup") /\ TryExecuteEnds(Top.of, Tail(cmds[Top.of]))
      /\ UNCHANGED <<alive, timing, pushed, events, pc, exit, left>>
  BY DEF SetupRefuses
<1>2. Top.of \in Owners /\ Top.of \in ToSet(list) /\ Tail(cmds[Top.of]) \in Seq(Commands) /\ ~Running
  BY <1>1, CommandOnTop DEF Base
<1> QED BY <1>1, <1>2, EndsBase

\* OnCleanup returns.
LEMMA CleanupReturnsBase == ASSUME Base, CleanupReturns PROVE Base'
<1>1. InFrame("command", "cleanup") /\ TryExecuteEnds(Top.of, Tail(cmds[Top.of]))
      /\ UNCHANGED <<alive, timing, pushed, events, pc, exit, left>>
  BY DEF CleanupReturns
<1>2. Top.of \in Owners /\ Top.of \in ToSet(list) /\ Tail(cmds[Top.of]) \in Seq(Commands) /\ ~Running
  BY <1>1, CommandOnTop DEF Base
<1> QED BY <1>1, <1>2, EndsBase

\* OnCommandExecute returns.
LEMMA ExecuteReturnsBase == ASSUME Base, ExecuteReturns PROVE Base'
<1>0. SUFFICES ASSUME NEW o, o = Top.of PROVE Base' OBVIOUS
<1>1. /\ InFrame("command", "execute")
      /\ UNCHANGED <<alive, timing, pushed, events, pc, exit, left>>
      /\ alive' = alive /\ timing' = timing /\ events' = events /\ pc' = pc /\ exit' = exit
      /\ left' = left /\ pushed' = pushed
  BY DEF ExecuteReturns
<1>2. /\ Top \in Frames /\ Top.kind = "command" /\ Top.ontime /\ o \in Owners
      /\ o \in ToSet(list) /\ cmds[o] \in Seq(Commands) /\ ~Running
  BY <1>0, <1>1, CommandOnTop DEF Base
<1> DEFINE f == [Top EXCEPT !.at = "cleanup", !.live = Top.of \in alive, !.first = FALSE]
<1>3. CASE cmds[o][1].finish
  <2>1. stack' = <<f>> /\ list' = list /\ qrefs' = qrefs /\ cmds' = cmds /\ cursor' = cursor
    BY <1>0, <1>3 DEF ExecuteReturns, NextStage
  <2>2. f \in Frames /\ f.kind = "command" /\ f.at = "cleanup" /\ f.of = o /\ ~f.first /\ f.ontime
    BY <1>0, <1>2, StageIs
  <2>3. QueuesInv' BY <1>1, <2>1, QueuesStill DEF Base, queues
  <2> HIDE DEF f
  <2> QED BY <1>1, <1>2, <2>1, <2>2, <2>3, CallsBase
<1>4. CASE ~cmds[o][1].finish
  <2>1. TryExecuteEnds(o, cmds[o]) BY <1>0, <1>4 DEF ExecuteReturns
  <2> QED BY <1>1, <1>2, <2>1, EndsBase
<1> QED BY <1>3, <1>4

\* Stop of a command.
LEMMA StopBase == ASSUME Base, NEW x \in Cmds, Stop(x) PROVE Base'
<1>0. PICK o \in Owners :
        \E j \in DOMAIN cmds[o] : cmds' = [cmds EXCEPT ![o] = [cmds[o] EXCEPT ![j] = [cmds[o][j] EXCEPT !.finish = TRUE]]]
  BY DEF Stop
<1>1. PICK i \in DOMAIN cmds[o] : cmds' = [cmds EXCEPT ![o] = [cmds[o] EXCEPT ![i] = [cmds[o][i] EXCEPT !.finish = TRUE]]]
  BY <1>0
<1>2. /\ alive' = alive /\ timing' = timing /\ events' = events /\ pc' = pc /\ exit' = exit
      /\ left' = left /\ pushed' = pushed /\ list' = list /\ qrefs' = qrefs /\ cursor' = cursor
      /\ stack' = stack /\ handlers' = handlers /\ timer' = timer
  BY DEF Stop, loop, events, timing
<1> DEFINE c == [cmds[o][i] EXCEPT !.finish = TRUE]
<1>3. cmds[o] \in Seq(Commands) BY DEF Base, QueuesInv
<1>4. cmds[o][i] \in Commands BY <1>3
<1>5. c \in Commands BY <1>4 DEF Commands
<1>6. cmds' = [cmds EXCEPT ![o] = [cmds[o] EXCEPT ![i] = c]] BY <1>1
<1> HIDE DEF c
<1>7. QueuesInv' BY <1>2, <1>5, <1>6, ChangedQueues DEF Base
<1>8. StackInv' /\ (Running' <=> Running) BY <1>2, StackStill DEF Base
<1>9. TimingInv'
  <2>1. TimingInv /\ UNCHANGED <<alive, timing>> BY <1>2 DEF Base
  <2> QED BY <1>2, <1>8, <2>1, TimingStill
<1>10. MadeInv'
  <2>1. \A p \in Owners : Made(p) => Made(p)' BY <1>2 DEF Made
  <2> QED BY <1>2, <2>1, MadeStill DEF Base
<1>11. RestInv' BY <1>2 DEF Base, RestInv, Distinct
<1> QED BY <1>7, <1>8, <1>9, <1>10, <1>11 DEF Base

\* The innermost Trigger.
LEMMA TriggerOnTop ==
    ASSUME StackInv, NEW at, InFrame("event", at)
    PROVE  /\ stack # <<>> /\ Top \in Frames /\ Top.kind = "event" /\ Top.at = at /\ Top.ontime
           /\ Len(stack) \in DOMAIN stack /\ stack[Len(stack)] = Top
<1>1. stack # <<>> /\ Top.kind = "event" /\ Top.at = at BY DEF InFrame
<1>2. stack \in Seq(Frames) BY DEF StackInv
<1>3. Len(stack) \in DOMAIN stack /\ stack[Len(stack)] = Top BY <1>1, <1>2 DEF Top
<1>4. Top \in Frames BY <1>2, <1>3
<1>5. FrameInv(Len(stack)) BY <1>3 DEF StackInv
<1> QED BY <1>1, <1>3, <1>4, <1>5 DEF FrameInv

\* What follows a handler.
LEMMA HandlerGoesOn ==
    ASSUME RestInv, NEW o
    PROVE  /\ NextOf(handlers, o) \in Owners \cup {None}
           /\ NextOf(handlers, o) # None => NextOf(handlers, o) \in ToSet(handlers) \ {o}
<1>1. handlers \in Seq(Owners) /\ Distinct(handlers) BY DEF RestInv
<1>2. NextOf(handlers, o) # None => NextOf(handlers, o) \in ToSet(handlers) \ {o} BY <1>1, NextOfIs
<1>3. ToSet(handlers) \subseteq Owners BY <1>1 DEF ToSet
<1> QED BY <1>2, <1>3

\* A handler is called.
LEMMA HandlerCalledBase == ASSUME Base, HandlerCalled PROVE Base'
<1> DEFINE f == Entered("event", Top.of, "in", TRUE)
<1>1. /\ InFrame("event", "look") /\ stack' = [stack EXCEPT ![Len(stack)] = f]
      /\ UNCHANGED <<alive, timing, queues, loop>> /\ left' = left /\ handlers' = handlers
      /\ list' = list
  BY DEF HandlerCalled, events, queues
<1>2. stack # <<>> /\ Top \in Frames /\ Top.kind = "event" BY <1>1, TriggerOnTop DEF Base
<1>3. Top.of \in Owners \cup {None} BY <1>2 DEF Frames
<1>4. f \in Frames /\ f.kind = "event" /\ f.at = "in" /\ f.ontime
  <2>1. (Top.of = None \/ Top.of \in alive) \in BOOLEAN OBVIOUS
  <2> QED BY <1>3, <2>1 DEF Entered, Frames
<1> HIDE DEF f
<1>5. StackInv' /\ (Running' <=> Running) BY <1>1, <1>2, <1>4, StackTop DEF Base
<1>6. left' \in [Kinds -> Nat] /\ handlers' \in Seq(Owners) /\ Distinct(handlers')
  BY <1>1 DEF Base, RestInv
<1> QED BY <1>1, <1>5, <1>6, EventBase

\* The Trigger looks at the next handler.
LEMMA HandlerReturnsBase == ASSUME Base, HandlerReturns PROVE Base'
<1> DEFINE f == [Top EXCEPT !.of = NextOf(handlers, Top.of), !.at = "look"]
<1>1. /\ InFrame("event", "in")
      /\ UNCHANGED <<alive, timing, queues, loop>> /\ left' = left /\ handlers' = handlers
      /\ list' = list
  BY DEF HandlerReturns, events, queues
<1>2. /\ stack # <<>> /\ Top \in Frames /\ Top.kind = "event" /\ Top.ontime
      /\ Len(stack) \in DOMAIN stack /\ stack[Len(stack)] = Top
  BY <1>1, TriggerOnTop DEF Base
<1>3. stack' = [stack EXCEPT ![Len(stack)] = f] BY <1>2 DEF HandlerReturns
<1>4. NextOf(handlers, Top.of) \in Owners \cup {None} BY HandlerGoesOn DEF Base
<1>5. f \in Frames /\ f.kind = "event" /\ f.at = "look" /\ f.ontime BY <1>2, <1>4 DEF Frames
<1> HIDE DEF f
<1>6. StackInv' /\ (Running' <=> Running) BY <1>1, <1>2, <1>3, <1>5, StackTop DEF Base
<1>7. left' \in [Kinds -> Nat] /\ handlers' \in Seq(Owners) /\ Distinct(handlers')
  BY <1>1 DEF Base, RestInv
<1> QED BY <1>1, <1>6, <1>7, EventBase

\* A handler without a holder is erased.
LEMMA HandlerErasedBase == ASSUME Base, HandlerErased PROVE Base'
<1> DEFINE f == [Top EXCEPT !.of = NextOf(handlers, Top.of)]
<1>1. /\ InFrame("event", "look") /\ handlers' = Without(handlers, Top.of)
      /\ UNCHANGED <<alive, timing, queues, loop>> /\ left' = left /\ list' = list
  BY DEF HandlerErased, queues
<1>2. /\ stack # <<>> /\ Top \in Frames /\ Top.kind = "event" /\ Top.ontime /\ Top.at = "look"
      /\ Len(stack) \in DOMAIN stack /\ stack[Len(stack)] = Top
  BY <1>1, TriggerOnTop DEF Base
<1>3. stack' = [stack EXCEPT ![Len(stack)] = f] BY <1>2 DEF HandlerErased
<1>4. NextOf(handlers, Top.of) \in Owners \cup {None} BY HandlerGoesOn DEF Base
<1>5. f \in Frames /\ f.kind = "event" /\ f.at = "look" /\ f.ontime BY <1>2, <1>4 DEF Frames
<1> HIDE DEF f
<1>6. StackInv' /\ (Running' <=> Running) BY <1>1, <1>2, <1>3, <1>5, StackTop DEF Base
<1>7. handlers \in Seq(Owners) /\ Distinct(handlers) /\ left' \in [Kinds -> Nat]
  BY <1>1 DEF Base, RestInv
<1>8. handlers' \in Seq(Owners) /\ Distinct(handlers') /\ ToSet(handlers') \subseteq ToSet(handlers)
  <2>1. CASE Top.of \in ToSet(handlers) BY <1>1, <1>7, <2>1, WithoutIs
  <2>2. CASE Top.of \notin ToSet(handlers)
    <3>1. handlers' = handlers BY <1>1, <2>2 DEF Without
    <3> QED BY <1>7, <3>1
  <2> QED BY <2>1, <2>2
<1> QED BY <1>1, <1>6, <1>7, <1>8, EventBase

\* A Trigger returns.
LEMMA TriggerReturnsBase == ASSUME Base, TriggerReturns PROVE Base'
<1>1. /\ InFrame("event", "look") /\ stack' = Front(stack)
      /\ UNCHANGED <<alive, timing, queues, loop>> /\ left' = left /\ handlers' = handlers
      /\ list' = list
  BY DEF TriggerReturns, events, queues
<1>2. stack # <<>> /\ Top.kind = "event" BY <1>1, TriggerOnTop DEF Base
<1>3. StackInv' /\ (Running' <=> Running) BY <1>1, <1>2, StackPop DEF Base
<1>4. left' \in [Kinds -> Nat] /\ handlers' \in Seq(Owners) /\ Distinct(handlers')
  BY <1>1 DEF Base, RestInv
<1> QED BY <1>1, <1>3, <1>4, EventBase

\* A Trigger begins.
LEMMA TriggerBase == ASSUME Base, Trigger PROVE Base'
<1> DEFINE f == Entered("event", FirstOf(handlers), "look", TRUE)
<1>1. /\ Op("trigger") /\ stack' = Append(stack, f)
      /\ UNCHANGED <<alive, timing, queues, loop>> /\ handlers' = handlers /\ list' = list
  BY DEF Trigger, events, queues
<1>2. stack = <<>> \/ Top.at # "look" BY <1>1 DEF Op, UserCode
<1>3. handlers \in Seq(Owners) /\ Distinct(handlers) BY DEF Base, RestInv
<1>4. FirstOf(handlers) \in Owners \cup {None}
  <2>1. ToSet(handlers) \subseteq Owners BY <1>3 DEF ToSet
  <2> QED BY <1>3, <2>1, FirstOfIs
<1>5. f \in Frames /\ f.kind = "event" /\ f.at = "look" /\ f.ontime
  <2>1. (FirstOf(handlers) = None \/ FirstOf(handlers) \in alive) \in BOOLEAN OBVIOUS
  <2> QED BY <1>4, <2>1 DEF Entered, Frames
<1> HIDE DEF f
<1>6. StackInv' /\ (Running' <=> Running) BY <1>1, <1>2, <1>5, StackPush DEF Base
<1>7. left' \in [Kinds -> Nat]
  <2>1. left \in [Kinds -> Nat] /\ "trigger" \in Kinds BY DEF Base, RestInv, Kinds
  <2> QED BY <1>1, <2>1, BudgetTyped
<1> QED BY <1>1, <1>3, <1>6, <1>7, EventBase

\* A handler is let go.
LEMMA DetachBase == ASSUME Base, NEW o \in Owners, Detach(o) PROVE Base'
<1>1. /\ Op("detach") /\ stack' = stack /\ UNCHANGED <<alive, timing, queues, loop>>
      /\ handlers' = handlers /\ list' = list
  BY DEF Detach, queues
<1>2. handlers' \in Seq(Owners) /\ Distinct(handlers') BY <1>1 DEF Base, RestInv
<1>3. StackInv' /\ (Running' <=> Running) BY <1>1, StackStill DEF Base
<1>4. left' \in [Kinds -> Nat]
  <2>1. left \in [Kinds -> Nat] /\ "detach" \in Kinds BY DEF Base, RestInv, Kinds
  <2> QED BY <1>1, <2>1, BudgetTyped
<1> QED BY <1>1, <1>2, <1>3, <1>4, EventBase

\* NormalExit.
LEMMA NormalExitBase == ASSUME Base, NormalExit PROVE Base'
<1>1. /\ alive' = alive /\ timing' = timing /\ queues' = queues /\ pc' = pc /\ cursor' = cursor
      /\ stack' = stack /\ left' = left /\ exit' = TRUE
      /\ handlers' = handlers /\ list' = list /\ timer' = timer
  BY DEF NormalExit, events, queues, timing
<1>2. StackInv' /\ (Running' <=> Running) BY <1>1, StackStill DEF Base
<1>3. QueuesInv' BY <1>1, QueuesStill DEF Base
<1>4. TimingInv'
  <2>1. TimingInv /\ UNCHANGED <<alive, timing>> BY <1>1 DEF Base
  <2> QED BY <1>1, <1>2, <2>1, TimingStill
<1>5. MadeInv'
  <2>1. \A p \in Owners : Made(p) => Made(p)' BY <1>1 DEF Made
  <2> QED BY <1>1, <2>1, MadeStill DEF Base
<1>6. RestInv' BY <1>1 DEF Base, RestInv, Distinct
<1> QED BY <1>2, <1>3, <1>4, <1>5, <1>6 DEF Base

\* A new timer is one more, and the others keep their owners.
LEMMA StartedTimers ==
    ASSUME TimingInv, NEW o \in Owners, StartTimer(o)
    PROVE  /\ \A id \in DOMAIN timer : id \in DOMAIN timer' /\ timer'[id].owner = timer[id].owner
           /\ Made(o)'
<1> DEFINE tm == Freed(o)
           e == [owner |-> o, refs |-> 2]
<1>1. timer' = Append(tm, e) BY DEF StartTimer, Freed
<1>2. /\ tm \in Seq(TimerRecords) /\ DOMAIN tm = DOMAIN timer
      /\ \A k \in DOMAIN timer : tm[k].owner = timer[k].owner
  BY LetGo DEF Unheld
<1>3. e \in TimerRecords /\ e.owner = o BY DEF TimerRecords
<1> HIDE DEF tm, e
<1>4. Len(tm) + 1 \in DOMAIN timer' /\ timer'[Len(tm) + 1] = e BY <1>1, <1>2, <1>3
<1>5. \A i \in DOMAIN tm : i \in DOMAIN timer' /\ timer'[i] = tm[i] BY <1>1, <1>2, <1>3, AppendIs
<1> QED BY <1>2, <1>3, <1>4, <1>5 DEF Made

\* A session is made.
LEMMA CreateBase == ASSUME Base, NEW o \in Owners, Create(o) PROVE Base'
<1>1. /\ stack = <<>> /\ stack' = stack /\ pc' = pc /\ cursor' = cursor /\ exit' = exit
      /\ left' = left /\ alive' = alive \cup {o} /\ qrefs' = [qrefs EXCEPT ![o] = 1]
      /\ handlers' = <<o>> \o handlers /\ StartTimer(o)
      /\ cmds' = cmds /\ list' = list /\ pushed' = pushed
  BY DEF Create, loop
<1>2. ~Made(o) BY DEF Create, Made
<1>3. o \notin alive /\ o \notin ToSet(list) /\ o \notin ToSet(handlers)
  BY <1>2 DEF Base, MadeInv
<1>4. TimingInv' BY <1>1, StartTimerTiming DEF Base
<1>5. QueuesInv' BY <1>1, <1>3, CreateQueues DEF Base
<1>6. StackInv' BY <1>1, StackStill DEF Base
<1>7. /\ handlers' \in Seq(Owners) /\ Distinct(handlers')
      /\ ToSet(handlers') = ToSet(handlers) \cup {o}
  BY <1>1, <1>3, PushFrontIs DEF Base, RestInv
<1>8. /\ \A id \in DOMAIN timer : id \in DOMAIN timer' /\ timer'[id].owner = timer[id].owner
      /\ Made(o)'
  BY <1>1, StartedTimers DEF Base
<1>9. ASSUME NEW p \in Owners, p \in alive' \/ p \in ToSet(list') \/ p \in ToSet(handlers')
      PROVE  Made(p)'
  <2>1. CASE p = o BY <1>8, <2>1
  <2>2. CASE p # o
    <3>1. Made(p) BY <1>1, <1>7, <1>9, <2>2 DEF Base, MadeInv
    <3> QED BY <1>8, <3>1, MadeStays
  <2> QED BY <2>1, <2>2
<1>10. MadeInv' BY <1>9 DEF MadeInv
<1>11. RestInv' BY <1>1, <1>7 DEF Base, RestInv
<1> QED BY <1>4, <1>5, <1>6, <1>10, <1>11 DEF Base

\* A session starts its timer again.
LEMMA RestartTimerBase == ASSUME Base, NEW o \in Owners, RestartTimer(o) PROVE Base'
<1>1. /\ Op("restart") /\ stack' = stack /\ pc' = pc /\ cursor' = cursor /\ exit' = exit
      /\ alive' = alive /\ o \in alive /\ StartTimer(o) /\ queues' = queues
      /\ handlers' = handlers /\ list' = list
  BY DEF RestartTimer, loop, events, queues
<1>2. alive' = alive \cup {o} BY <1>1
<1>3. TimingInv' BY <1>1, <1>2, StartTimerTiming DEF Base
<1>4. QueuesInv' BY <1>1, QueuesStill DEF Base
<1>5. StackInv' BY <1>1, StackStill DEF Base
<1>6. \A p \in Owners : Made(p) => Made(p)' BY <1>1, StartedTimers, MadeStays DEF Base
<1>7. MadeInv' BY <1>1, <1>6, MadeStill DEF Base
<1>8. left' \in [Kinds -> Nat]
  <2>1. left \in [Kinds -> Nat] /\ "restart" \in Kinds BY DEF Base, RestInv, Kinds
  <2> QED BY <1>1, <2>1, BudgetTyped
<1>9. RestInv' BY <1>1, <1>8 DEF Base, RestInv, Distinct
<1> QED BY <1>3, <1>4, <1>5, <1>7, <1>9 DEF Base

\* A session is destroyed.
LEMMA DestroyBase == ASSUME Base, NEW o \in Owners, Destroy(o) PROVE Base'
<1>1. /\ Op("destroy") /\ stack' = stack /\ pc' = pc /\ cursor' = cursor /\ exit' = exit
      /\ alive' = alive \ {o} /\ o \in alive /\ StopTimer(o) /\ Released(o)
      /\ handlers' = handlers /\ list' = list /\ pushed' = pushed
  BY DEF Destroy, loop
<1>2. TimingInv' BY <1>1, StopTimerTiming DEF Base
<1>3. QueuesInv' BY <1>1, DestroyQueues DEF Base
<1>4. StackInv' BY <1>1, StackStill DEF Base
<1>5. \A id \in DOMAIN timer : id \in DOMAIN timer' /\ timer'[id].owner = timer[id].owner
  <2>1. timer' = Freed(o) BY <1>1 DEF StopTimer, Freed
  <2>2. Unheld(Freed(o), o) BY LetGo DEF Base
  <2> QED BY <2>1, <2>2 DEF Unheld
<1>6. \A p \in Owners : Made(p) => Made(p)' BY <1>5, MadeStays
<1>7. MadeInv' BY <1>1, <1>6, MadeStill DEF Base
<1>8. left' \in [Kinds -> Nat]
  <2>1. left \in [Kinds -> Nat] /\ "destroy" \in Kinds BY DEF Base, RestInv, Kinds
  <2> QED BY <1>1, <2>1, BudgetTyped
<1>9. RestInv' BY <1>1, <1>8 DEF Base, RestInv, Distinct
<1> QED BY <1>2, <1>3, <1>4, <1>7, <1>9 DEF Base

\* SetTimeout.
LEMMA SetTimeoutBase == ASSUME Base, NEW d \in Delays, SetTimeout(d) PROVE Base'
<1> DEFINE e == [owner |-> None, refs |-> 0]
<1>1. /\ Op("timeout") /\ stack' = stack /\ cursor' = cursor /\ exit' = exit
      /\ alive' = alive /\ queues' = queues /\ handlers' = handlers /\ list' = list
      /\ timer' = Append(timer, e)
  BY DEF SetTimeout, loop, events, queues
<1>2. TimingInv' BY SetTimeoutTiming DEF Base
<1>3. QueuesInv' BY <1>1, QueuesStill DEF Base
<1>4. StackInv' BY <1>1, StackStill DEF Base
<1>5. timer \in Seq(TimerRecords) /\ e \in TimerRecords
  BY DEF Base, TimingInv, TimersTyped, TimerRecords
<1> HIDE DEF e
<1>6. \A id \in DOMAIN timer : id \in DOMAIN timer' /\ timer'[id].owner = timer[id].owner
  BY <1>1, <1>5, AppendIs
<1>7. \A p \in Owners : Made(p) => Made(p)' BY <1>6, MadeStays
<1>8. MadeInv' BY <1>1, <1>7, MadeStill DEF Base
<1>9. left' \in [Kinds -> Nat]
  <2>1. left \in [Kinds -> Nat] /\ "timeout" \in Kinds BY DEF Base, RestInv, Kinds
  <2> QED BY <1>1, <2>1, BudgetTyped
<1>10. RestInv' BY <1>1, <1>9 DEF Base, RestInv, Distinct
<1> QED BY <1>2, <1>3, <1>4, <1>8, <1>10 DEF Base

\* PushCommand.
LEMMA PushCommandBase == ASSUME Base, NEW o \in Owners, PushCommand(o) PROVE Base'
<1>1. /\ Op("push") /\ o \in alive /\ stack' = stack /\ pc' = pc /\ cursor' = cursor /\ exit' = exit
      /\ alive' = alive /\ timing' = timing /\ handlers' = handlers /\ timer' = timer
  BY DEF PushCommand, loop, events, timing
<1>2. QueuesInv' /\ ToSet(list') = ToSet(list) \cup {o} BY PushCommandQueues DEF Base
<1>3. StackInv' /\ (Running' <=> Running) BY <1>1, <1>2, StackStill DEF Base
<1>4. TimingInv'
  <2>1. TimingInv /\ UNCHANGED <<alive, timing>> BY <1>1 DEF Base
  <2> QED BY <1>1, <1>3, <2>1, TimingStill
<1>5. MadeInv'
  <2>1. \A p \in Owners : Made(p) => Made(p)' BY <1>1 DEF Made
  <2> QED BY <1>1, <1>2, <2>1, MadeStill DEF Base
<1>6. left' \in [Kinds -> Nat]
  <2>1. left \in [Kinds -> Nat] /\ "push" \in Kinds BY DEF Base, RestInv, Kinds
  <2> QED BY <1>1, <2>1, BudgetTyped
<1>7. RestInv' BY <1>1, <1>6 DEF Base, RestInv, Distinct
<1> QED BY <1>2, <1>3, <1>4, <1>5, <1>7 DEF Base

\* Base is inductive, whatever callbacks do to the handlers under a Trigger.
LEMMA BaseStep == ASSUME Base, [Next]_vars PROVE Base'
<1>1. CASE UNCHANGED vars
  <2>1. /\ UNCHANGED <<alive, timing, queues, loop>> /\ stack' = stack /\ left' = left
        /\ handlers' = handlers /\ list' = list
    BY <1>1 DEF vars, events, queues
  <2>2. StackInv' /\ (Running' <=> Running) BY <2>1, StackStill DEF Base
  <2>3. left' \in [Kinds -> Nat] /\ handlers' \in Seq(Owners) /\ Distinct(handlers')
    BY <2>1 DEF Base, RestInv
  <2> QED BY <2>1, <2>2, <2>3, EventBase
<1>2. CASE Loop
  <2>1. CASE TimerFires \/ TimerSilent \/ TimerReturns \/ TimersDone
    BY <2>1, TimerFiresBase, TimerSilentBase, TimerReturnsBase, TimersDoneBase
  <2>2. ASSUME NEW o \in Owners, QueueAbandoned(o) \/ TryExecute(o) PROVE Base'
    BY <2>2, QueueAbandonedBase, TryExecuteBase
  <2>3. CASE SetupAccepts \/ SetupRefuses \/ ExecuteReturns \/ CleanupReturns
    BY <2>3, SetupAcceptsBase, SetupRefusesBase, ExecuteReturnsBase, CleanupReturnsBase
  <2>4. CASE CommandsDone \/ NextFrame BY <2>4, CommandsDoneBase, AdvanceBase DEF NextFrame
  <2>5. CASE HandlerCalled \/ HandlerErased \/ HandlerReturns \/ TriggerReturns
    BY <2>5, HandlerCalledBase, HandlerErasedBase, HandlerReturnsBase, TriggerReturnsBase
  <2> QED BY <1>2, <2>1, <2>2, <2>3, <2>4, <2>5 DEF Loop
<1>3. CASE User
  <2>1. ASSUME NEW o \in Owners,
               Create(o) \/ RestartTimer(o) \/ Detach(o) \/ Destroy(o) \/ PushCommand(o)
        PROVE  Base'
    BY <2>1, CreateBase, RestartTimerBase, DetachBase, DestroyBase, PushCommandBase
  <2>2. ASSUME NEW d \in Delays, SetTimeout(d) PROVE Base' BY <2>2, SetTimeoutBase
  <2>3. ASSUME NEW c \in Cmds, Stop(c) PROVE Base' BY <2>3, StopBase
  <2>4. CASE Trigger \/ NormalExit BY <2>4, TriggerBase, NormalExitBase
  <2> QED BY <1>3, <2>1, <2>2, <2>3, <2>4 DEF User
<1> QED BY <1>1, <1>2, <1>3 DEF Next

-----------------------------------------------------------------------------
(* EventInv is inductive when no handler is let go under an outer Trigger *)

\* Init.
LEMMA EventInit == ASSUME Init PROVE EventInv
<1>1. handlers = <<>> /\ hrefs = [o \in Owners |-> 0] /\ stack = <<>> BY DEF Init
<1>2. DOMAIN <<>> = {} OBVIOUS
<1>3. ToSet(<<>>) = {} BY <1>2 DEF ToSet
<1>4. ASSUME NEW o \in Owners PROVE HandlerInv(o) BY <1>1, <1>3 DEF HandlerInv
<1> QED BY <1>1, <1>2, <1>4 DEF EventInv

\* The handlers stay as they are while the stack changes.
LEMMA HandlersStay ==
    ASSUME EventInv, UNCHANGED <<alive, events>>, \A i \in DOMAIN stack' : TriggerInv(i)'
    PROVE  EventInv'
<1>1. alive' = alive /\ handlers' = handlers /\ hrefs' = hrefs BY DEF events
<1>2. ASSUME NEW o \in Owners PROVE HandlerInv(o)' BY <1>1 DEF EventInv, HandlerInv
<1> QED BY <1>1, <1>2 DEF EventInv

\* Steps that concern neither handlers nor callbacks.
LEMMA EventsStill ==
    ASSUME EventInv, alive' = alive, events' = events, stack' = stack
    PROVE  EventInv'
<1>1. ASSUME NEW i \in DOMAIN stack' PROVE TriggerInv(i)' BY DEF EventInv, TriggerInv, events
<1> QED BY <1>1, HandlersStay

\* Steps that leave no callback, or one of a timer or a command.
LEMMA NoTrigger ==
    ASSUME EventInv, alive' = alive, events' = events,
           stack' = <<>> \/ \E f : stack' = <<f>> /\ f.kind # "event"
    PROVE  EventInv'
<1>1. ASSUME NEW i \in DOMAIN stack' PROVE TriggerInv(i)'
  <2>1. stack'[i].kind # "event"
    <3>1. CASE stack' = <<>> BY <3>1
    <3>2. ASSUME NEW f, stack' = <<f>>, f.kind # "event" PROVE stack'[i].kind # "event"
      <4>1. i = 1 BY <3>2
      <4> QED BY <3>2, <4>1
    <3> QED BY <3>1, <3>2
  <2> QED BY <2>1 DEF TriggerInv
<1> QED BY <1>1, HandlersStay

\* The timers and the end of a frame.
LEMMA TimersEvents ==
    ASSUME EventInv, TimerFires \/ TimerSilent \/ TimerReturns \/ TimersDone \/ CommandsDone \/ NextFrame
    PROVE  EventInv'
<1>1. CASE TimerFires
  <2>1. /\ alive' = alive /\ events' = events
        /\ \E f : stack' = <<f>> /\ f.kind # "event"
    BY <1>1 DEF TimerFires, Entered
  <2> QED BY <2>1, NoTrigger
<1>2. CASE TimerReturns
  <2>1. alive' = alive /\ events' = events /\ stack' = <<>> BY <1>2 DEF TimerReturns
  <2> QED BY <2>1, NoTrigger
<1>3. CASE TimerSilent \/ TimersDone \/ CommandsDone \/ NextFrame
  <2>1. alive' = alive /\ events' = events /\ stack' = stack
    BY <1>3 DEF TimerSilent, TimersDone, CommandsDone, NextFrame, Advance
  <2> QED BY <2>1, EventsStill
<1> QED BY <1>1, <1>2, <1>3

\* The commands.
LEMMA CommandsEvents ==
    ASSUME EventInv, StackInv, NEW o,
           \/ QueueAbandoned(o) \/ TryExecute(o)
           \/ SetupAccepts \/ SetupRefuses \/ ExecuteReturns \/ CleanupReturns
    PROVE  EventInv'
<1>1. alive' = alive /\ events' = events
  BY DEF QueueAbandoned, TryExecute, SetupAccepts, SetupRefuses, ExecuteReturns, CleanupReturns
<1>2. CASE QueueAbandoned(o) \/ TryExecute(o)
  <2>1. stack' = <<>> \/ \E f : stack' = <<f>> /\ f.kind # "event"
    BY <1>2 DEF QueueAbandoned, TryExecute, Visiting, TryExecuteEnds, Entered
  <2> QED BY <1>1, <2>1, NoTrigger
<1>3. CASE SetupAccepts \/ SetupRefuses \/ ExecuteReturns \/ CleanupReturns
  <2>1. stack # <<>> /\ Top.kind = "command"
    BY <1>3 DEF SetupAccepts, SetupRefuses, ExecuteReturns, CleanupReturns, InFrame
  <2>2. Top \in Frames BY <2>1, BottomOnTop
  <2>3. ASSUME NEW at, stack' = NextStage(at) PROVE EventInv'
    <3> DEFINE f == [Top EXCEPT !.at = at, !.live = Top.of \in alive, !.first = FALSE]
    <3>1. f.kind # "event" BY <2>1, <2>2 DEF Frames
    <3>2. stack' = <<f>> BY <2>3 DEF NextStage
    <3> HIDE DEF f
    <3> QED BY <1>1, <3>1, <3>2, NoTrigger
  <2>4. \/ stack' = <<>>
        \/ stack' = NextStage("execute")
        \/ stack' = NextStage("cleanup")
    BY <1>3 DEF SetupAccepts, SetupRefuses, ExecuteReturns, CleanupReturns, TryExecuteEnds
  <2> QED BY <1>1, <2>3, <2>4, NoTrigger
<1> QED BY <1>2, <1>3

\* Under the innermost callback no Trigger looks for its next handler.
LEMMA OuterCalls ==
    ASSUME StackInv, EventInv, NEW i \in DOMAIN stack, i < Len(stack) \/ stack[i].at = "in",
           stack[i].kind = "event"
    PROVE  stack[i].of \in Owners /\ stack[i].of \in ToSet(handlers) /\ stack[i].live
<1>1. FrameInv(i) /\ TriggerInv(i) /\ stack[i] \in Frames BY DEF StackInv, EventInv
<1>2. stack[i].at = "in" BY <1>1 DEF FrameInv
<1>3. stack[i].of # None /\ stack[i].live /\ stack[i].of \in ToSet(handlers) BY <1>1, <1>2 DEF TriggerInv
<1> QED BY <1>1, <1>3 DEF Frames

\* The innermost Trigger goes on and the handlers stay.
LEMMA TopEvents ==
    ASSUME StackInv, EventInv, UNCHANGED <<alive, events>>, stack # <<>>, NEW f,
           stack' = [stack EXCEPT ![Len(stack)] = f],
           f.of # None => f.of \in ToSet(handlers), f.at = "in" => f.of # None /\ f.live
    PROVE  EventInv'
<1> DEFINE n == Len(stack)
<1>1. stack \in Seq(Frames) BY DEF StackInv
<1>2. /\ n \in DOMAIN stack /\ DOMAIN stack' = DOMAIN stack /\ Len(stack') = n /\ stack'[n] = f
      /\ \A i \in DOMAIN stack : i # n => stack'[i] = stack[i]
  BY <1>1
<1>3. handlers' = handlers /\ hrefs' = hrefs BY DEF events
<1> HIDE DEF n
<1>4. ASSUME NEW i \in DOMAIN stack' PROVE TriggerInv(i)'
  <2>1. CASE i = n
    <3>1. ~(i < Len(stack')) BY <1>1, <1>2, <2>1 DEF n
    <3> QED BY <1>2, <1>3, <2>1, <3>1 DEF TriggerInv
  <2>2. CASE i # n
    <3>1. TriggerInv(i) /\ stack'[i] = stack[i] BY <1>2, <2>2 DEF EventInv
    <3> QED BY <1>2, <1>3, <3>1 DEF TriggerInv, n
  <2> QED BY <2>1, <2>2
<1> QED BY <1>4, HandlersStay

\* A handler is called: its owner lives.
LEMMA HandlerCalledEvents == ASSUME Base, EventInv, HandlerCalled PROVE EventInv'
<1> DEFINE f == Entered("event", Top.of, "in", TRUE)
<1>1. /\ InFrame("event", "look") /\ stack' = [stack EXCEPT ![Len(stack)] = f]
      /\ UNCHANGED <<alive, events>> /\ Top.of # None /\ hrefs[Top.of] >= 2
  BY DEF HandlerCalled
<1>2. StackInv BY DEF Base
<1>3. /\ stack # <<>> /\ Top \in Frames /\ Top.kind = "event"
      /\ Len(stack) \in DOMAIN stack /\ stack[Len(stack)] = Top
  BY <1>1, <1>2, TriggerOnTop
<1>4. Top.of \in Owners BY <1>1, <1>3 DEF Frames
<1>5. hrefs[Top.of] = 2
  <2>1. hrefs[Top.of] \in 0 .. 2 BY <1>4 DEF EventInv
  <2> QED BY <1>1, <2>1
<1>6. Top.of \in alive BY <1>4, <1>5 DEF EventInv, HandlerInv
<1>7. Top.of \in ToSet(handlers) BY <1>4, <1>5 DEF EventInv, HandlerInv
<1>8. f.of = Top.of /\ f.live
  <2>1. Top.of = None \/ Top.of \in alive BY <1>6
  <2> QED BY <2>1 DEF Entered
<1> HIDE DEF f
<1> QED BY <1>1, <1>2, <1>3, <1>7, <1>8, TopEvents

\* A handler returns.
LEMMA HandlerReturnsEvents == ASSUME Base, EventInv, HandlerReturns PROVE EventInv'
<1> DEFINE f == [Top EXCEPT !.of = NextOf(handlers, Top.of), !.at = "look"]
<1>1. InFrame("event", "in") /\ UNCHANGED <<alive, events>> BY DEF HandlerReturns
<1>2. StackInv BY DEF Base
<1>3. /\ stack # <<>> /\ Top \in Frames /\ Len(stack) \in DOMAIN stack /\ stack[Len(stack)] = Top
  BY <1>1, <1>2, TriggerOnTop
<1>4. stack' = [stack EXCEPT ![Len(stack)] = f] BY <1>3 DEF HandlerReturns
<1>5. f.of = NextOf(handlers, Top.of) /\ f.at = "look" BY <1>3 DEF Frames
<1>6. f.of # None => f.of \in ToSet(handlers) BY <1>5, HandlerGoesOn DEF Base
<1> HIDE DEF f
<1> QED BY <1>1, <1>2, <1>3, <1>4, <1>5, <1>6, TopEvents

\* A handler that nobody holds is erased: no other Trigger stands on it.
LEMMA HandlerErasedEvents == ASSUME Base, EventInv, HandlerErased PROVE EventInv'
<1>0. SUFFICES ASSUME NEW h, h = Top.of PROVE EventInv' OBVIOUS
<1> DEFINE f == [Top EXCEPT !.of = NextOf(handlers, h)]
           n == Len(stack)
<1>1. /\ InFrame("event", "look") /\ h # None /\ hrefs[h] < 2 /\ handlers' = Without(handlers, h)
      /\ hrefs' = [hrefs EXCEPT ![h] = @ - 1] /\ alive' = alive
  BY <1>0 DEF HandlerErased
<1>2. StackInv BY DEF Base
<1>3. /\ stack # <<>> /\ Top \in Frames /\ Top.kind = "event" /\ Top.at = "look"
      /\ n \in DOMAIN stack /\ stack[n] = Top
  BY <1>1, <1>2, TriggerOnTop
<1>4. stack' = [stack EXCEPT ![n] = f] BY <1>0, <1>3 DEF HandlerErased
<1>5. h \in Owners BY <1>0, <1>1, <1>3 DEF Frames
<1>6. h \in ToSet(handlers) BY <1>0, <1>1, <1>3 DEF EventInv, TriggerInv
<1>7. /\ handlers \in Seq(Owners) /\ Distinct(handlers) /\ hrefs \in [Owners -> 0 .. 2]
      /\ hrefs[h] \in 0 .. 2
  BY <1>5 DEF Base, RestInv, EventInv
<1>8. hrefs[h] = 1
  <2>1. hrefs[h] # 0 BY <1>5, <1>6 DEF EventInv, HandlerInv
  <2> QED BY <1>1, <1>7, <2>1
<1>9. ToSet(handlers') = ToSet(handlers) \ {h} BY <1>1, <1>6, <1>7, WithoutIs
<1>10. hrefs'[h] = 0 /\ \A p \in Owners : p # h => hrefs'[p] = hrefs[p] BY <1>1, <1>5, <1>7, <1>8
<1>11. hrefs' \in [Owners -> 0 .. 2]
  <2>1. hrefs[h] - 1 \in 0 .. 2 BY <1>8
  <2> QED BY <1>1, <1>7, <2>1
<1>12. ASSUME NEW p \in Owners PROVE HandlerInv(p)'
  <2>1. CASE p = h BY <1>9, <1>10, <2>1 DEF HandlerInv
  <2>2. CASE p # h
    <3>1. HandlerInv(p) BY DEF EventInv
    <3> QED BY <1>1, <1>9, <1>10, <2>2, <3>1 DEF HandlerInv
  <2> QED BY <2>1, <2>2
<1>13. f.of = NextOf(handlers, h) /\ f.at = "look" BY <1>3 DEF Frames
<1>14. f.of # None => f.of \in ToSet(handlers') BY <1>9, <1>13, HandlerGoesOn DEF Base
<1> HIDE DEF f
<1>15. stack \in Seq(Frames) BY <1>2 DEF StackInv
<1>16. /\ DOMAIN stack' = DOMAIN stack /\ Len(stack') = n /\ stack'[n] = f
       /\ \A i \in DOMAIN stack : i # n => stack'[i] = stack[i] /\ i < n
  BY <1>3, <1>4, <1>15
<1> HIDE DEF n
<1>17. ASSUME NEW i \in DOMAIN stack' PROVE TriggerInv(i)'
  <2>1. CASE i = n
    <3>1. ~(i < Len(stack')) BY <1>3, <1>15, <1>16, <2>1
    <3> QED BY <1>13, <1>14, <1>16, <2>1, <3>1 DEF TriggerInv
  <2>2. CASE i # n
    <3>1. TriggerInv(i) /\ stack'[i] = stack[i] /\ i < Len(stack) BY <1>16, <2>2 DEF EventInv, n
    <3>2. ASSUME stack[i].kind = "event"
          PROVE  stack[i].of # h /\ stack[i].of \in Owners /\ hrefs[stack[i].of] = 2
      <4>1. stack[i].of \in Owners BY <1>2, <1>16, <3>1, <3>2, OuterCalls
      <4>2. hrefs[stack[i].of] = 2 BY <3>1, <3>2 DEF TriggerInv
      <4> QED BY <1>8, <4>1, <4>2
    <3> QED BY <1>9, <1>10, <3>1, <3>2 DEF TriggerInv
  <2> QED BY <2>1, <2>2
<1> QED BY <1>11, <1>12, <1>17 DEF EventInv

\* A Trigger returns.
LEMMA TriggerReturnsEvents == ASSUME Base, EventInv, TriggerReturns PROVE EventInv'
<1>1. /\ InFrame("event", "look") /\ stack' = Front(stack) /\ UNCHANGED <<alive, events>>
      /\ handlers' = handlers /\ hrefs' = hrefs
  BY DEF TriggerReturns, events
<1>2. stack \in Seq(Frames) /\ stack # <<>> BY <1>1 DEF Base, StackInv, InFrame
<1>3. \A i \in DOMAIN stack' : i \in DOMAIN stack /\ i < Len(stack) /\ stack'[i] = stack[i]
  BY <1>1, <1>2, FrontIs
<1>4. ASSUME NEW i \in DOMAIN stack' PROVE TriggerInv(i)'
  <2>1. TriggerInv(i) /\ stack'[i] = stack[i] /\ i < Len(stack) BY <1>3 DEF EventInv
  <2> QED BY <1>1, <2>1 DEF TriggerInv
<1> QED BY <1>1, <1>4, HandlersStay

\* A Trigger begins: all those around it stand on handlers with their linkers held.
LEMMA TriggerEvents == ASSUME Base, EventInv, ~Careless, Trigger PROVE EventInv'
<1> DEFINE f == Entered("event", FirstOf(handlers), "look", TRUE)
           n == Len(stack)
<1>1. /\ UserCode /\ stack' = Append(stack, f) /\ UNCHANGED <<alive, events>>
      /\ handlers' = handlers /\ hrefs' = hrefs
      /\ \A h \in StoodOn \ {None} : hrefs[h] >= 2
  BY DEF Trigger, Op, events
<1>2. StackInv /\ stack \in Seq(Frames) /\ n \in Nat /\ DOMAIN stack = 1 .. n BY DEF Base, StackInv
<1>3. f.kind = "event" /\ f.of = FirstOf(handlers) /\ f.at = "look" BY DEF Entered
<1>4. f.of # None => f.of \in ToSet(handlers) BY <1>3, FirstOfIs DEF Base, RestInv
<1> HIDE DEF f
<1>5. /\ Len(stack') = n + 1 /\ DOMAIN stack' = DOMAIN stack \cup {n + 1}
      /\ stack'[n + 1] = f /\ \A i \in DOMAIN stack : stack'[i] = stack[i]
  BY <1>1, <1>2
<1>6. ASSUME NEW i \in DOMAIN stack, stack[i].kind = "event" PROVE hrefs[stack[i].of] = 2
  <2>1. i < Len(stack) \/ stack[i].at = "in"
    <3>1. CASE i = n
      <4>1. stack[i] = Top /\ stack # <<>> BY <1>2, <3>1 DEF Top
      <4>2. Top.at # "look" BY <1>1, <4>1 DEF UserCode
      <4>3. FrameInv(i) BY <1>2 DEF StackInv
      <4> QED BY <1>6, <4>1, <4>2, <4>3 DEF FrameInv
    <3>2. CASE i # n BY <1>2, <3>2
    <3> QED BY <3>1, <3>2
  <2>2. stack[i].of \in Owners BY <1>2, <1>6, <2>1, OuterCalls
  <2>3. stack[i].of \in StoodOn \ {None} BY <1>6, <2>2, Constants DEF StoodOn
  <2>4. hrefs[stack[i].of] >= 2 /\ hrefs[stack[i].of] \in 0 .. 2 BY <1>1, <2>2, <2>3 DEF EventInv
  <2> QED BY <2>4
<1> HIDE DEF n
<1>7. ASSUME NEW i \in DOMAIN stack' PROVE TriggerInv(i)'
  <2>1. CASE i = n + 1
    <3>1. ~(i < Len(stack')) BY <1>2, <1>5, <2>1
    <3> QED BY <1>1, <1>3, <1>4, <1>5, <2>1, <3>1 DEF TriggerInv
  <2>2. CASE i \in DOMAIN stack
    <3>1. TriggerInv(i) /\ stack'[i] = stack[i] BY <1>5, <2>2 DEF EventInv
    <3> QED BY <1>1, <1>6, <2>2, <3>1 DEF TriggerInv
  <2> QED BY <1>5, <2>1, <2>2
<1> QED BY <1>1, <1>7, HandlersStay

\* A linker is let go that only the innermost Trigger may stand on.
LEMMA LetGoEvents ==
    ASSUME StackInv, EventInv, NEW o \in Owners, o \notin Nested, alive \ {o} \subseteq alive',
           hrefs' = [hrefs EXCEPT ![o] = IF @ = 2 THEN 1 ELSE @], UNCHANGED <<handlers, stack>>
    PROVE  EventInv'
<1>1. hrefs \in [Owners -> 0 .. 2] BY DEF EventInv
<1>2. /\ hrefs'[o] = IF hrefs[o] = 2 THEN 1 ELSE hrefs[o]
      /\ \A p \in Owners : p # o => hrefs'[p] = hrefs[p]
  BY <1>1
<1>3. hrefs' \in [Owners -> 0 .. 2] BY <1>1
<1>4. ASSUME NEW p \in Owners PROVE HandlerInv(p)'
  <2>1. HandlerInv(p) BY DEF EventInv
  <2>2. CASE p = o BY <1>2, <2>1, <2>2 DEF HandlerInv
  <2>3. CASE p # o BY <1>2, <2>1, <2>3 DEF HandlerInv
  <2> QED BY <2>2, <2>3
<1>5. ASSUME NEW i \in DOMAIN stack' PROVE TriggerInv(i)'
  <2>1. TriggerInv(i) BY DEF EventInv
  <2>2. ASSUME stack[i].kind = "event", i < Len(stack)
        PROVE  hrefs'[stack[i].of] = hrefs[stack[i].of]
    <3>1. stack[i].of \in Owners BY <2>2, OuterCalls
    <3>2. stack \in Seq(Frames) BY DEF StackInv
    <3>3. Len(stack) \in DOMAIN stack /\ Len(stack) > 1 /\ Len(stack) \in i + 1 .. Len(stack)
      BY <2>2, <3>2
    <3>4. FrameInv(Len(stack)) BY <3>3 DEF StackInv
    <3>5. stack[Len(stack)].kind = "event" BY <3>3, <3>4 DEF FrameInv
    <3>6. stack[i].of \in Nested BY <2>2, <3>3, <3>5 DEF Nested
    <3> QED BY <1>2, <3>1, <3>6
  <2> QED BY <2>1, <2>2 DEF TriggerInv
<1> QED BY <1>3, <1>4, <1>5 DEF EventInv

\* Detach and Destroy.
LEMMA LeavesEvents ==
    ASSUME Base, EventInv, ~Careless, NEW o \in Owners, Detach(o) \/ Destroy(o)
    PROVE  EventInv'
<1>1. o \notin Nested /\ handlers' = handlers /\ stack' = stack /\ alive \ {o} \subseteq alive'
  BY DEF Detach, Destroy
<1>2. hrefs' = [hrefs EXCEPT ![o] = IF @ = 2 THEN 1 ELSE @] BY DEF Detach, Destroy
<1> QED BY <1>1, <1>2, LetGoEvents DEF Base

\* Create: nothing runs.
LEMMA CreateEvents == ASSUME Base, EventInv, NEW o \in Owners, Create(o) PROVE EventInv'
<1>1. /\ stack = <<>> /\ stack' = <<>> /\ alive' = alive \cup {o}
      /\ handlers' = <<o>> \o handlers /\ hrefs' = [hrefs EXCEPT ![o] = 2]
  BY DEF Create
<1>2. hrefs \in [Owners -> 0 .. 2] BY DEF EventInv
<1>3. ToSet(handlers') = ToSet(handlers) \cup {o} BY <1>1, PushFrontIs DEF Base, RestInv
<1>4. /\ hrefs' \in [Owners -> 0 .. 2] /\ hrefs'[o] = 2
      /\ \A p \in Owners : p # o => hrefs'[p] = hrefs[p]
  BY <1>1, <1>2
<1>5. ASSUME NEW p \in Owners PROVE HandlerInv(p)'
  <2>1. HandlerInv(p) BY DEF EventInv
  <2>2. CASE p = o BY <1>1, <1>3, <1>4, <2>2 DEF HandlerInv
  <2>3. CASE p # o BY <1>1, <1>3, <1>4, <2>1, <2>3 DEF HandlerInv
  <2> QED BY <2>2, <2>3
<1> QED BY <1>1, <1>4, <1>5 DEF EventInv

\* The other operations of callbacks.
LEMMA OthersEvents ==
    ASSUME EventInv, NEW o, NEW d, NEW c,
           RestartTimer(o) \/ PushCommand(o) \/ SetTimeout(d) \/ Stop(c) \/ NormalExit
    PROVE  EventInv'
<1>1. alive' = alive /\ events' = events /\ stack' = stack
  BY DEF RestartTimer, PushCommand, SetTimeout, Stop, NormalExit
<1> QED BY <1>1, EventsStill

\* EventInv is inductive.
LEMMA EventStep == ASSUME Base, EventInv, ~Careless, [Next]_vars PROVE EventInv'
<1>1. CASE UNCHANGED vars BY <1>1, EventsStill DEF vars
<1>2. CASE Loop
  <2>1. CASE TimerFires \/ TimerSilent \/ TimerReturns \/ TimersDone \/ CommandsDone \/ NextFrame
    BY <2>1, TimersEvents
  <2>2. ASSUME NEW o \in Owners, QueueAbandoned(o) \/ TryExecute(o) PROVE EventInv'
    BY <2>2, CommandsEvents DEF Base
  <2>3. CASE SetupAccepts \/ SetupRefuses \/ ExecuteReturns \/ CleanupReturns
    BY <2>3, CommandsEvents DEF Base
  <2>4. CASE HandlerCalled \/ HandlerErased \/ HandlerReturns \/ TriggerReturns
    BY <2>4, HandlerCalledEvents, HandlerErasedEvents, HandlerReturnsEvents, TriggerReturnsEvents
  <2> QED BY <1>2, <2>1, <2>2, <2>3, <2>4 DEF Loop
<1>3. CASE User
  <2>1. ASSUME NEW o \in Owners, Create(o) PROVE EventInv' BY <2>1, CreateEvents
  <2>2. ASSUME NEW o \in Owners, Detach(o) \/ Destroy(o) PROVE EventInv' BY <2>2, LeavesEvents
  <2>3. ASSUME NEW o \in Owners, RestartTimer(o) \/ PushCommand(o) PROVE EventInv'
    BY <2>3, OthersEvents
  <2>4. ASSUME NEW d \in Delays, SetTimeout(d) PROVE EventInv' BY <2>4, OthersEvents
  <2>5. ASSUME NEW c \in Cmds, Stop(c) PROVE EventInv' BY <2>5, OthersEvents
  <2>6. CASE Trigger BY <2>6, TriggerEvents
  <2>7. CASE NormalExit BY <2>7, OthersEvents
  <2> QED BY <1>3, <2>1, <2>2, <2>3, <2>4, <2>5, <2>6, <2>7 DEF User
<1> QED BY <1>1, <1>2, <1>3 DEF Next

-----------------------------------------------------------------------------
(* The theorems *)

\* In every reachable state Base holds.
LEMMA BaseHolds == Spec => []Base
BY BaseInit, BaseStep, PTL DEF Spec

\* An interval timer never runs before its interval has passed since it was
\* started or last ran (Timer::Update), whatever callbacks set, restart or let
\* go meanwhile and however late the frame is.
THEOREM TimersOnTime == Spec => []TimersKeepTime
<1>1. Base => TimersKeepTime BY DEF Base, StackInv, FrameInv, TimersKeepTime
<1> QED BY <1>1, BaseHolds, PTL

\* The count of a queue and of a timer's linker is that of its holders.
LEMMA BaseCounts == ASSUME Base PROVE RefsBalance
<1>1. \A o \in Owners : qrefs[o] = One(o \in alive) + One(o \in ToSet(list))
  BY DEF Base, QueuesInv, QueueInv
<1>2. ASSUME NEW id \in DOMAIN timer, timer[id].owner # None
      PROVE  timer[id].refs =
                One(id \in ToSet(intervals) \cup {delayqueue[i].id : i \in DOMAIN delayqueue})
                + One(timerOf[timer[id].owner] = id)
  <2>1. TimerInv(id) BY DEF Base, TimingInv
  <2>2. Kept(id) <=> id \in ToSet(intervals) \cup {delayqueue[i].id : i \in DOMAIN delayqueue}
    <3>1. id \in ToSet(intervals) <=> \E i \in DOMAIN intervals : intervals[i] = id
      BY InSet, HasPosition
    <3> QED BY <3>1 DEF Kept
  <2> QED BY <1>2, <2>1, <2>2 DEF TimerInv, One
<1> QED BY <1>1, <1>2 DEF RefsBalance

\* Whatever callbacks do, the count of a command queue and of a timer's linker
\* is that of its holders, so that Release deletes what nobody holds and
\* Update tells a timer that was let go; and a live Runner's queue with
\* commands is on list_ (PushCommand, TryExecute).
THEOREM CountsAndCommands == Spec => [](RefsBalance /\ NoStrandedCommand)
<1>1. Base => NoStrandedCommand
  <2>1. SUFFICES ASSUME Base PROVE NoStrandedCommand OBVIOUS
  <2>2. alive \subseteq Owners /\ list \in Seq(Owners) /\ \A o \in Owners : QueueInv(o)
    BY <2>1 DEF Base, TimingInv, TimersTyped, QueuesInv
  <2>3. ToSet(list) \subseteq Owners BY <2>2 DEF ToSet
  <2> QED BY <2>2, <2>3 DEF NoStrandedCommand, QueueInv
<1>2. Base => RefsBalance BY BaseCounts
<1> QED BY <1>1, <1>2, BaseHolds, PTL

\* When no handler is let go under an outer Trigger, the whole invariant holds.
LEMMA AllHolds == ASSUME ~Careless PROVE Spec => [](Base /\ EventInv)
<1>1. Init => Base /\ EventInv BY BaseInit, EventInit
<1>2. Base /\ EventInv /\ [Next]_vars => (Base /\ EventInv)' BY BaseStep, EventStep
<1> QED BY <1>1, <1>2, PTL DEF Spec

\* Types, counts, and the list of queues with work.
THEOREM FrameIsSound == ~Careless => (Spec => []FrameSound)
<1>0. SUFFICES ASSUME ~Careless PROVE Spec => []FrameSound OBVIOUS
<1>1. Base /\ EventInv => TypeOK
  BY DEF Base, EventInv, TimingInv, TimersTyped, QueuesInv, StackInv, RestInv, TypeOK,
         TimerRecords, Entries, Commands
<1>2. Spec => [](Base /\ EventInv) BY <1>0, AllHolds
<1>3. TypeOK /\ RefsBalance /\ NoStrandedCommand => FrameSound BY DEF FrameSound
<1> QED BY <1>1, <1>2, <1>3, CountsAndCommands, PTL

\* When no handler is let go under an outer Trigger: a timer, a handler and the
\* first callback of a TryExecute never begin on an owner that is destroyed, and
\* what each walk goes back to is still there, whatever the callbacks destroyed:
\* the handler in handlers_ (Event::Trigger reads its list_next()), the queue in
\* list_ with its command at the front (TryExecute).
THEOREM WalksAreSafe == ~Careless => (Spec => []SafeFrames)
<1>0. SUFFICES ASSUME ~Careless PROVE Spec => []SafeFrames OBVIOUS
<1>1. ASSUME Base, EventInv PROVE SafeFrames
  <2>1. ASSUME NEW i \in DOMAIN stack, stack[i].at # "look"
        PROVE  /\ stack[i].first => stack[i].live
               /\ stack[i].kind = "event" => stack[i].of \in ToSet(handlers)
               /\ stack[i].kind = "command" =>
                     stack[i].of \in ToSet(list) /\ cmds[stack[i].of] # <<>>
    <3>1. FrameInv(i) /\ StackInv BY <1>1 DEF Base, StackInv
    <3>2. CASE stack[i].kind = "event"
      <4>1. stack[i].at = "in" BY <2>1, <3>1, <3>2 DEF FrameInv
      <4> QED BY <1>1, <3>1, <3>2, <4>1, OuterCalls
    <3>3. CASE stack[i].kind # "event"
      <4>1. list \in Seq(Owners) /\ \A o \in Owners : QueueInv(o) BY <1>1 DEF Base, QueuesInv
      <4>2. ToSet(list) \subseteq Owners BY <4>1 DEF ToSet
      <4> QED BY <3>1, <3>3, <4>1, <4>2 DEF FrameInv, QueueInv
    <3> QED BY <3>2, <3>3
  <2> QED BY <2>1 DEF SafeFrames
<1>2. Base /\ EventInv => SafeFrames BY <1>1
<1>3. Spec => [](Base /\ EventInv) BY <1>0, AllHolds
<1> QED BY <1>2, <1>3, PTL

=============================================================================
