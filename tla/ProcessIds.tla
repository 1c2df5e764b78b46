----------------------------- MODULE ProcessIds -----------------------------
(***************************************************************************)
(* base/cluster/nodemonitor.h, ProcessIDGen, with mailboxes_ of            *)
(* nodemonitor.cpp, whose keys its numbers are: Register inserts a mailbox *)
(* under a new number, which may be in use once the generator has come     *)
(* round; UnRegister erases whatever stands under the number.  A message   *)
(* finds its mailbox by number when it is delivered, not when it is sent.  *)
(* What Register and UnRegister do with names is in NamedMailboxes.        *)
(***************************************************************************)
EXTENDS Naturals, FiniteSets

CONSTANTS
    Boxes,      \* the mailboxes, each created once
    SysBoxes,   \* those created with sys
    NoBox,      \* no entry in mailboxes_
    SysEnd,     \* 10000
    WrapTo,     \* 1000
    MaxNormal,  \* MAX_NORMAL_ID, 2^24
    MaxMail     \* bound: messages under way

\* Even numbers, as in the code; only their parity and their order matter.
ASSUME IdAssumption ==
    /\ SysBoxes \subseteq Boxes
    /\ NoBox \notin Boxes
    /\ {SysEnd, WrapTo, MaxNormal, MaxMail} \subseteq Nat
    /\ SysEnd % 2 = 0 /\ WrapTo % 2 = 0 /\ MaxNormal % 2 = 0
    /\ 0 < WrapTo /\ WrapTo < SysEnd /\ SysEnd < MaxNormal

\* mbid_ of a mailbox that is not registered.
NoNumber == 0
Ids == 1 .. MaxNormal

VARIABLES
    sys_cur, normal_cur,
    mailboxes,        \* mailboxes_
    mbid,             \* mbid_ of each mailbox
    made,             \* the mailboxes that were created
    mail,             \* messages under way: the number, and whose it was when sent
    wrapped, early    \* has normal_cur_ come round? who was created before it did?

idVars == <<sys_cur, normal_cur, mailboxes, mbid, made, mail, wrapped, early>>
round == <<wrapped, early>>

IdInit ==
    /\ sys_cur = 1
    /\ normal_cur = SysEnd
    /\ mailboxes = [i \in Ids |-> NoBox]
    /\ mbid = [b \in Boxes |-> NoNumber]
    /\ made = {}
    /\ mail = {}
    /\ wrapped = FALSE
    /\ early = {}

-----------------------------------------------------------------------------
(* ProcessIDGen::Gen, NodeMonitor::Register *)

\* The number after cur.
Step(cur) == IF cur + 1 >= MaxNormal THEN WrapTo ELSE cur + 1

\* Faulty: incremented once only.
Gen_Once(cur) == [id |-> Step(cur), cur |-> Step(cur)]

\* Gen(false): normal_cur_ is incremented before and after.
Gen(cur) == [id |-> Step(cur), cur |-> Step(cur) + 1]

\* Register of b under id: insert leaves an entry that is there alone.
Register(b, id) ==
    /\ b \notin made
    /\ made' = made \cup {b}
    /\ mbid' = [mbid EXCEPT ![b] = id]
    /\ mailboxes' = [mailboxes EXCEPT ![id] = IF @ = NoBox THEN b ELSE @]
    /\ UNCHANGED mail

\* The assertion in Gen(true) ends the process when the numbers are used up.
CreateSys(b) ==
    /\ b \in SysBoxes
    /\ sys_cur < SysEnd
    /\ sys_cur' = sys_cur + 1
    /\ Register(b, sys_cur)
    /\ UNCHANGED <<normal_cur, round>>

CreateNormal(b) ==
    /\ b \notin SysBoxes
    /\ normal_cur' = Gen(normal_cur).cur
    /\ Register(b, Gen(normal_cur).id)
    /\ wrapped' = (wrapped \/ Gen(normal_cur).id < normal_cur)
    /\ early' = IF wrapped' THEN early ELSE early \cup {b}
    /\ UNCHANGED sys_cur

-----------------------------------------------------------------------------
(* UnRegister, and delivery *)

\* Faulty: the id is cleared before the entry is erased.
Erased_Cleared(b) == mailboxes

\* mailboxes_.erase(pid), whosever the entry is.
Erased(b) == [mailboxes EXCEPT ![mbid[b]] = NoBox]

\* ~Mailbox
Destroy(b) ==
    /\ mbid[b] # NoNumber
    /\ mailboxes' = Erased(b)
    /\ mbid' = [mbid EXCEPT ![b] = NoNumber]
    /\ UNCHANGED <<sys_cur, normal_cur, made, mail, round>>

\* Somebody on this node or another sends to a mailbox it knows.
Send(b) ==
    /\ mbid[b] # NoNumber
    /\ Cardinality(mail) < MaxMail
    /\ mail' = mail \cup {[to |-> mbid[b], box |-> b]}
    /\ UNCHANGED <<sys_cur, normal_cur, mailboxes, mbid, made, round>>

\* FindMailboxByPID and, if it finds one, its handler.
Deliver(m) ==
    /\ mail' = mail \ {m}
    /\ UNCHANGED <<sys_cur, normal_cur, mailboxes, mbid, made, round>>

IdNext ==
    \/ \E b \in Boxes : CreateSys(b) \/ CreateNormal(b) \/ Destroy(b) \/ Send(b)
    \/ \E m \in mail : Deliver(m)

IdSpec == IdInit /\ [][IdNext]_idVars

-----------------------------------------------------------------------------
(* Properties *)

IdTypeOK ==
    /\ sys_cur \in 1 .. SysEnd
    /\ normal_cur \in WrapTo .. MaxNormal
    /\ mailboxes \in [Ids -> Boxes \cup {NoBox}]
    /\ mbid \in [Boxes -> Ids \cup {NoNumber}]
    /\ made \subseteq Boxes /\ early \subseteq made
    /\ mail \subseteq [to : Ids, box : Boxes]
    /\ wrapped \in BOOLEAN

\* mailboxes_ points at no mailbox that was deleted, and at each under its own
\* number, although two mailboxes may have the same one and either erases the
\* entry of the other.
RegistrySound ==
    /\ IdTypeOK
    /\ \A i \in Ids : mailboxes[i] # NoBox => mbid[mailboxes[i]] = i

\* A normal mailbox created before the numbers came round is found under its
\* own as long as it lives, and its mail reaches no other mailbox after that:
\* the first round gives out odd numbers, the later ones even numbers.
EarlyKept ==
    /\ \A b \in early : mbid[b] # NoNumber => mailboxes[mbid[b]] = b
    /\ \A m \in mail : m.box \in early => mailboxes[m.to] \in {m.box, NoBox}
=============================================================================
