--------------------------------- MODULE Rpc ---------------------------------
(***************************************************************************)
(* base/cluster/rpcstub.{h,cpp} on one node and rpcservice.cpp on another, *)
(* over the mailboxes of nodemonitor.cpp.  A stub looks its service up     *)
(* once, numbers its calls with sixteen-bit sessions and keeps a callback  *)
(* for each; the service answers later, in any order or not at all.        *)
(* Nothing times out.  Both processes may restart, the connection may      *)
(* break, and services and stubs come and go; a message to a mailbox or a  *)
(* node that is not there vanishes.                                        *)
(*                                                                         *)
(* Messages name the call they belong to, which the code cannot see: it    *)
(* goes by mailbox id and session alone.                                   *)
(***************************************************************************)
EXTENDS Naturals, Sequences, FiniteSets

CONSTANTS
    Calls,        \* the calls made, each once
    Linked,       \* those made with Call; the others with CallWithoutLinker
    NoCall,       \* a message that is no call, an empty slot of calls_
    SessionMod,   \* 2^16
    MaxPid,       \* bound: mailboxes in one life of a process
    MaxCasts,     \* bound: casts made
    MaxFaults,    \* bound: restarts, breaks, services and stubs destroyed
    Collisions    \* may a session wrap onto one that is still in calls_?

ASSUME RpcAssumption ==
    /\ Linked \subseteq Calls
    /\ NoCall \notin Calls
    /\ SessionMod \in Nat /\ SessionMod > 1
    /\ {MaxPid, MaxCasts, MaxFaults} \subseteq Nat
    /\ Collisions \in BOOLEAN

Sessions == 0 .. SessionMod - 1

\* MailboxID() converts to false: no mailbox.
Nobody == 0

VARIABLES
    stub,     \* the RpcStub of the client process
    pids,     \* pid_gen_ of both processes
    known,    \* the service's entry in the client's named_mailboxes_
    call,     \* the caller's side of each call
    service,  \* the service's mailbox
    working,  \* the calls that OnCall was given and nobody has answered
    conn,     \* has each process the other in its connectors_?
    chan,     \* what is under way to each process
    dialler, dial,  \* who makes the connection, and must it still be made?
    casts, faults

vars == <<stub, pids, known, call, service, working, conn, chan, dialler, dial,
          casts, faults>>
link == <<dialler, dial>>

Ends == {"client", "service"}
Other(e) == IF e = "client" THEN "service" ELSE "client"

\* No stub: what it is before new and after delete.
NoStub ==
    [pid |-> Nobody,                          \* mailbox_
     waiting |-> FALSE,                       \* in async_fetch_
     cur |-> 0,                               \* session_cur_
     service |-> Nobody,                      \* mbid_service_
     calls |-> [s \in Sessions |-> NoCall]]   \* calls_

NewCall ==
    [phase |-> "idle", refs |-> 0, held |-> FALSE, to |-> Nobody, answers |-> {}]

Init ==
    /\ stub = NoStub
    /\ pids = [e \in Ends |-> 0]
    /\ known = Nobody
    /\ call = [c \in Calls |-> NewCall]
    /\ service = Nobody
    /\ working = {}
    /\ conn = [e \in Ends |-> FALSE]
    /\ chan = [e \in Ends |-> <<>>]
    /\ dialler \in Ends
    /\ dial = TRUE
    /\ casts = 0
    /\ faults = 0

Eof == [type |-> "EOF"]
RegisterMsg(pid) == [type |-> "REGISTER", pid |-> pid]
UnRegisterMsg == [type |-> "UNREGISTER"]
Message(from, to, session, c) ==
    [type |-> "MESSAGE", from |-> from, to |-> to, session |-> session, call |-> c]

-----------------------------------------------------------------------------
(* NodeMonitor, as far as the stub and the service use it. *)

Cut(e) == ~conn[e] \/ (chan[e] # <<>> /\ chan[e][Len(chan[e])] = Eof)

\* SendMessage from the other end to e, over its connector if it has one.
Sent(ch, e, msgs) ==
    IF conn[Other(e)] /\ ~Cut(e) THEN [ch EXCEPT ![e] = @ \o msgs] ELSE ch

Connect ==
    /\ dial
    /\ \A e \in Ends : ~conn[e] /\ chan[e] = <<>>
    /\ dial' = FALSE
    /\ conn' = [e \in Ends |-> TRUE]
    /\ chan' = [chan EXCEPT !["client"] = IF service = Nobody THEN <<>>
                                          ELSE <<RegisterMsg(service)>>]
    /\ UNCHANGED <<stub, pids, known, call, service, working, dialler, casts, faults>>

Fault == faults < MaxFaults /\ faults' = faults + 1

\* The network cuts the connection; some of what is under way arrives.
Break ==
    /\ Fault
    /\ \A e \in Ends : ~Cut(e)
    /\ \E i \in 0 .. Len(chan["client"]), j \in 0 .. Len(chan["service"]) :
          chan' = [chan EXCEPT !["client"] = Append(SubSeq(@, 1, i), Eof),
                               !["service"] = Append(SubSeq(@, 1, j), Eof)]
    /\ UNCHANGED <<stub, pids, known, call, service, working, conn, link, casts>>

\* A process dies and comes back, with the same node id and counters at zero;
\* a dialler dials again.
Crash(e) ==
    /\ Fault
    /\ pids' = [pids EXCEPT ![e] = 0]
    /\ conn' = [conn EXCEPT ![e] = FALSE]
    /\ chan' = [chan EXCEPT ![e] = <<>>,
                   ![Other(e)] = IF Cut(Other(e)) THEN @ ELSE Append(@, Eof)]
    /\ dial' = (dial \/ e = dialler)
    /\ UNCHANGED <<dialler, casts>>

CrashService ==
    /\ Crash("service")
    /\ service' = Nobody
    /\ working' = {}
    /\ UNCHANGED <<stub, known, call>>

\* The callbacks die with their process.
CrashClient ==
    /\ Crash("client")
    /\ stub' = NoStub
    /\ known' = Nobody
    /\ call' = [c \in Calls |-> [call[c] EXCEPT
                   !.phase = IF @ # "idle" /\ c \notin call[c].answers THEN "lost" ELSE @,
                   !.refs = 0, !.held = FALSE]]
    /\ UNCHANGED <<service, working>>

Reading(e, type) ==
    /\ conn[e]
    /\ chan[e] # <<>>
    /\ chan[e][1].type = type

Read(ch, e) == [ch EXCEPT ![e] = Tail(@)]

ReceiveEof(e) ==
    /\ Reading(e, "EOF")
    /\ conn' = [conn EXCEPT ![e] = FALSE]
    /\ chan' = Read(chan, e)
    /\ known' = IF e = "client" THEN Nobody ELSE known
    /\ UNCHANGED <<stub, pids, call, service, working, link, casts, faults>>

-----------------------------------------------------------------------------
(* RpcStub: BeginSetup, OnServiceUp, ~RpcStub *)

BeginSetup ==
    LET pid == pids["client"] + 1 IN
    /\ stub.pid = Nobody
    /\ pid <= MaxPid
    /\ pids' = [pids EXCEPT !["client"] = pid]
    /\ stub' = [NoStub EXCEPT !.pid = pid, !.service = known, !.waiting = known = Nobody]
    /\ UNCHANGED <<known, call, service, working, conn, chan, link, casts, faults>>

\* OnNamedMailboxUp: the entry is not overwritten, the waiting stub is told.
ReceiveRegister ==
    LET pid == chan["client"][1].pid IN
    /\ Reading("client", "REGISTER")
    /\ known' = IF known = Nobody THEN pid ELSE known
    /\ stub' = IF stub.waiting THEN [stub EXCEPT !.service = pid, !.waiting = FALSE] ELSE stub
    /\ chan' = Read(chan, "client")
    /\ UNCHANGED <<pids, call, service, working, conn, link, casts, faults>>

\* The name goes; the stub keeps the id it was given.
ReceiveUnRegister ==
    /\ Reading("client", "UNREGISTER")
    /\ known' = Nobody
    /\ chan' = Read(chan, "client")
    /\ UNCHANGED <<stub, pids, call, service, working, conn, link, casts, faults>>

Entries(st) == {st.calls[s] : s \in Sessions} \ {NoCall}

\* ~RpcStub.  A stub that still waits for its service is not destroyed: its
\* fetch has no linker and would call it back.
DestroyStub ==
    /\ stub.pid # Nobody
    /\ ~stub.waiting
    /\ Fault
    /\ stub' = NoStub
    /\ call' = [c \in Calls |-> [call[c] EXCEPT
                   !.phase = IF @ = "open" THEN "dropped" ELSE @,
                   !.refs = IF c \in Entries(stub) \cap Linked THEN @ - 1 ELSE @]]
    /\ UNCHANGED <<pids, known, service, working, conn, chan, link, casts>>

-----------------------------------------------------------------------------
(* RpcStub: Call, CallWithoutLinker, Cast *)

\* Faulty: session 0 is used for calls too.
GenSessionID_Zero(cur) == [session |-> cur, cur |-> (cur + 1) % SessionMod]

\* GenSessionID: 0 is passed over, it marks a cast.
GenSessionID(cur) ==
    LET next == (cur + 1) % SessionMod IN
    IF cur = 0
    THEN [session |-> next, cur |-> (next + 1) % SessionMod]
    ELSE [session |-> cur, cur |-> next]

\* The stub after it has numbered call c: insert leaves an entry that is
\* there already alone.
Inserted(st, c) ==
    LET g == GenSessionID(st.cur) IN
    [st EXCEPT !.cur = g.cur,
               !.calls[g.session] = IF @ = NoCall THEN c ELSE @]

\* The caller's side of call c made on st: it retains the linker that it is
\* given.  If insert did nothing, that linker is deleted already.
Opened(st, c) ==
    LET kept == c \in Entries(Inserted(st, c)) IN
    [NewCall EXCEPT !.phase = "open", !.to = st.service, !.held = c \in Linked,
                    !.refs = IF kept /\ c \in Linked THEN 2 ELSE 0]

\* Could this stub make call c now?
Callable(st, c) ==
    /\ st.pid # Nobody
    /\ call[c].phase = "idle"
    /\ st.calls[GenSessionID(st.cur).session] = NoCall \/ Collisions

CallMsg(st, c) == Message(st.pid, st.service, GenSessionID(st.cur).session, c)

\* A stub without its service yet sends to no mailbox: the call is lost.
Posted(st, msg) == IF st.service = Nobody THEN <<>> ELSE <<msg>>

Call(c) ==
    /\ Callable(stub, c)
    /\ stub' = Inserted(stub, c)
    /\ call' = [call EXCEPT ![c] = Opened(stub, c)]
    /\ chan' = Sent(chan, "service", Posted(stub, CallMsg(stub, c)))
    /\ UNCHANGED <<pids, known, service, working, conn, link, casts, faults>>

Cast ==
    /\ stub.pid # Nobody
    /\ casts < MaxCasts
    /\ casts' = casts + 1
    /\ chan' = Sent(chan, "service", Posted(stub, Message(stub.pid, stub.service, 0, NoCall)))
    /\ UNCHANGED <<stub, pids, known, call, service, working, conn, link, faults>>

\* The caller releases its RpcCallLinker, before the answer or after it.
ReleaseLinker(c) ==
    /\ call[c].held
    /\ call[c].refs > 0
    /\ call' = [call EXCEPT ![c].held = FALSE, ![c].refs = @ - 1,
                            ![c].phase = IF @ = "open" THEN "dropped" ELSE @]
    /\ UNCHANGED <<stub, pids, known, service, working, conn, chan, link, casts, faults>>

-----------------------------------------------------------------------------
(* RpcStub::OnMessageReceive *)

Erased(st, s) == [st EXCEPT !.calls[s] = NoCall]

\* linker == nullptr || reference_count() == 2
Wanted(c) == c \in Linked => call[c].refs = 2

\* A call record after its entry is erased.
Released(c, rec) == IF c \in Linked THEN [rec EXCEPT !.refs = @ - 1] ELSE rec

ReceiveAnswer ==
    LET msg == chan["client"][1]
        c   == stub.calls[msg.session]
        answered == [call[c] EXCEPT !.phase = "answered", !.answers = @ \cup {msg.call}]
    IN
    /\ Reading("client", "MESSAGE")
    /\ IF msg.to # stub.pid \/ c = NoCall
       THEN \* no such mailbox, or no such session
            /\ chan' = Read(chan, "client")
            /\ UNCHANGED <<stub, call>>
       ELSE \/ \* nobody waits for it
               /\ ~Wanted(c)
               /\ stub' = Erased(stub, msg.session)
               /\ call' = [call EXCEPT ![c] = Released(c, @)]
               /\ chan' = Read(chan, "client")
            \/ \* the callback runs, then the entry goes
               /\ Wanted(c)
               /\ stub' = Erased(stub, msg.session)
               /\ call' = [call EXCEPT ![c] = Released(c, answered)]
               /\ chan' = Read(chan, "client")
            \/ \* the callback makes another call before the entry goes
               /\ Wanted(c)
               /\ \E d \in Calls \ {c} :
                     /\ Callable(stub, d)
                     /\ stub' = Erased(Inserted(stub, d), msg.session)
                     /\ call' = [call EXCEPT ![c] = Released(c, answered),
                                             ![d] = Opened(stub, d)]
                     /\ chan' = Sent(Read(chan, "client"), "service",
                                     Posted(stub, CallMsg(stub, d)))
            \/ \* the callback throws: the monitor catches it, the entry stays
               /\ Wanted(c)
               /\ call' = [call EXCEPT ![c] = [answered EXCEPT !.phase = "threw"]]
               /\ chan' = Read(chan, "client")
               /\ UNCHANGED stub
    /\ UNCHANGED <<pids, known, service, working, conn, link, casts, faults>>

-----------------------------------------------------------------------------
(* RpcService *)

\* Setup registers the mailbox and its name.
SetupService ==
    LET pid == pids["service"] + 1 IN
    /\ service = Nobody
    /\ pid <= MaxPid
    /\ pids' = [pids EXCEPT !["service"] = pid]
    /\ service' = pid
    /\ chan' = Sent(chan, "client", <<RegisterMsg(pid)>>)
    /\ UNCHANGED <<stub, known, call, working, conn, link, casts, faults>>

\* ~RpcService, and with it what it was working on.
DestroyService ==
    /\ service # Nobody
    /\ Fault
    /\ service' = Nobody
    /\ working' = {}
    /\ chan' = Sent(chan, "client", <<UnRegisterMsg>>)
    /\ UNCHANGED <<stub, pids, known, call, conn, link, casts>>

\* Faulty: off by one.
IsCall_OffByOne(msg) == msg.session > 1

IsCall(msg) == msg.session # 0

\* OnMessageReceive: a session makes it a call.  OnCast answers with a message
\* of its own, which has session 0.
ReceiveRequest ==
    LET msg == chan["service"][1] IN
    /\ Reading("service", "MESSAGE")
    /\ IF msg.to # service
       THEN chan' = Read(chan, "service") /\ UNCHANGED working
       ELSE IF IsCall(msg)
       THEN chan' = Read(chan, "service") /\ working' = working \cup {msg}
       ELSE /\ chan' = Sent(Read(chan, "service"), "client",
                            <<Message(service, msg.from, 0, NoCall)>>)
            /\ UNCHANGED working
    /\ UNCHANGED <<stub, pids, known, call, service, conn, link, casts, faults>>

\* Faulty: the session of the request is not put into the answer.
ReplyMsg_NoSession(msg) == Message(service, msg.from, 0, msg.call)

ReplyMsg(msg) == Message(service, msg.from, msg.session, msg.call)

\* Reply, whenever the service is done.
Reply(msg) ==
    /\ msg \in working
    /\ working' = working \ {msg}
    /\ chan' = Sent(chan, "client", <<ReplyMsg(msg)>>)
    /\ UNCHANGED <<stub, pids, known, call, service, conn, link, casts, faults>>

-----------------------------------------------------------------------------

\* What the dispatchers do with what has arrived.
Receive ==
    \/ \E e \in Ends : ReceiveEof(e)
    \/ ReceiveRegister \/ ReceiveUnRegister \/ ReceiveAnswer
    \/ ReceiveRequest

Next ==
    \/ Connect \/ Break \/ CrashClient \/ CrashService
    \/ BeginSetup \/ DestroyStub \/ SetupService \/ DestroyService
    \/ Cast
    \/ \E c \in Calls : Call(c) \/ ReleaseLinker(c)
    \/ \E msg \in working : Reply(msg)
    \/ Receive

Spec == Init /\ [][Next]_vars

\* The dispatchers run and a service answers every call it was given.
Fairness ==
    /\ WF_vars(ReceiveAnswer) /\ WF_vars(ReceiveRequest)
    /\ WF_vars(ReceiveRegister) /\ WF_vars(ReceiveUnRegister)
    /\ \A e \in Ends : WF_vars(ReceiveEof(e))
    /\ WF_vars(\E msg \in working : Reply(msg))

FairSpec == Spec /\ Fairness

-----------------------------------------------------------------------------
(* Properties *)

Pids == 0 .. MaxPid

Requests ==
    [type : {"MESSAGE"}, from : Pids, to : Pids, session : Sessions, call : Calls \cup {NoCall}]

Messages ==
    {Eof, UnRegisterMsg} \cup {RegisterMsg(p) : p \in Pids} \cup Requests

Stubs ==
    [pid : Pids, waiting : BOOLEAN, cur : Sessions, service : Pids,
     calls : [Sessions -> Calls \cup {NoCall}]]

CallStates ==
    [phase : {"idle", "open", "answered", "threw", "dropped", "lost"}, refs : 0 .. 2,
     held : BOOLEAN, to : Pids, answers : SUBSET (Calls \cup {NoCall})]

TypeOK ==
    /\ stub \in Stubs
    /\ pids \in [Ends -> Pids]
    /\ known \in Pids /\ service \in Pids
    /\ call \in [Calls -> CallStates]
    /\ working \subseteq Requests
    /\ conn \in [Ends -> BOOLEAN]
    /\ chan \in [Ends -> Seq(Messages)]
    /\ dialler \in Ends /\ dial \in BOOLEAN
    /\ casts \in 0 .. MaxCasts /\ faults \in 0 .. MaxFaults

One(b) == IF b THEN 1 ELSE 0

\* A linker's count is its entry in calls_ plus its caller: it is neither
\* deleted under a caller nor kept when both are gone.
LinkersBalance ==
    \A c \in Linked :
        call[c].refs = One(c \in Entries(stub)) + One(call[c].held)

Elems(q) == {q[i] : i \in 1 .. Len(q)}

\* The calls, casts and answers that are still under way.
UnderWay ==
    {m \in working \cup Elems(chan["client"]) \cup Elems(chan["service"]) :
        m.type = "MESSAGE"}

\* A call has one slot of calls_ as long as its callback may run, and what
\* travels for it carries that slot's session: an answer leads to its call.
AnswersFindCalls ==
    /\ \A s, t \in Sessions :
          stub.calls[s] = stub.calls[t] /\ stub.calls[s] # NoCall => s = t
    /\ \A c \in Calls : call[c].phase = "open" => c \in Entries(stub)
    /\ \A m \in UnderWay :
          m.call \in Calls /\ call[m.call].phase = "open" =>
              stub.calls[m.session] = m.call /\ stub.pid \in {m.from, m.to}

\* Types, reference counts and the table of calls.
RpcSound == TypeOK /\ LinkersBalance /\ AnswersFindCalls

Promise == INSTANCE RpcPromise WITH
    phase <- [c \in Calls |-> call[c].phase],
    answer <- [c \in Calls |-> call[c].answers]

\* The stub keeps its promise: each answer at most once, only a call's own, and
\* none after its caller let go, whatever is cast, pushed, late, lost or restarted.
Implements == Promise!Spec

\* A call made to the service that is there is answered, unless its caller
\* lets go, or a process, the connection, the service or the stub fails.
CallsAnswered ==
    \A c \in Calls :
        (call[c].phase = "open" /\ call[c].to # Nobody /\ faults = 0)
            ~> (call[c].phase # "open" \/ faults > 0)
=============================================================================
