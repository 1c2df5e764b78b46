---------------------------- MODULE SocketClient ----------------------------
(***************************************************************************)
(* net::Client on both ends of a TCP connection: base/net/client.{h,cpp},  *)
(* the epoll registration of base/event/eventio.cpp, the receive buffers   *)
(* of base/memory and the framing loop of gateway/userclient.cpp.          *)
(*                                                                         *)
(* Each end is one thread in its dispatcher loop; one system call, or one  *)
(* turn of a loop between two system calls, is an action, because the      *)
(* other end and the kernel run in between.  Registration is edge          *)
(* triggered: an end that goes back to epoll_wait with work left and no    *)
(* new edge to come would wait for ever.  Buffers are references into      *)
(* shared chunks; a chunk goes back to the pool when its last reference    *)
(* goes, and bytes are numbered so that an overwritten one shows.          *)
(***************************************************************************)
EXTENDS Naturals, Sequences, FiniteSets, SequencesExt

CONSTANTS
    Ends,          \* the two ends of the connection
    Opener,        \* the end that calls Connect(ipaddr, port)
    Workloads,     \* the lengths of the packets that each end may push, in order
    HEAD_SIZE,     \* PacketIn::HEAD_SIZE
    LengthMod,     \* 2^16: the length field of the header is a uint16_t
    SENDIOV_SIZE,  \* chunks one writev takes
    RECVP_SIZE,    \* chunks kept ready to receive into
    ChunkSize,     \* chunksize_
    PoolSize,      \* poolsize_
    Chunks,        \* bound: chunks that the pool and the heap can supply
    Capacity,      \* what the kernel buffers in one direction
    MaxHeld,       \* bound: packets that the code above keeps
    EarlyReset     \* may a write fail inside OnConnect?

ASSUME SocketAssumption ==
    /\ LengthMod \in Nat /\ LengthMod > HEAD_SIZE
    /\ Opener \in Ends /\ IsFiniteSet(Ends) /\ Cardinality(Ends) = 2
    /\ Workloads \subseteq [Ends -> Seq(Nat)]
    /\ \A w \in Workloads, e \in Ends : \A k \in DOMAIN w[e] : w[e][k] >= HEAD_SIZE
    /\ {HEAD_SIZE, SENDIOV_SIZE, RECVP_SIZE, ChunkSize, Capacity} \subseteq Nat \ {0}
    /\ PoolSize \in Nat /\ MaxHeld \in Nat
    /\ Chunks \subseteq Nat /\ IsFiniteSet(Chunks) /\ PoolSize <= Cardinality(Chunks)
    /\ EarlyReset \in BOOLEAN

VARIABLES
    lengths, \* the workload, chosen at the start
    client,  \* the Client object of each end
    epoll,   \* its registration: the interest set, and is it on the ready list?
    link,    \* the handshake: "none", "syn", "up", "refused"
    pipe,    \* the bytes in flight towards each end
    eof,     \* has the other end shut the connection down?
    free,    \* MemoryPool::chunks_ of each end
    mem,     \* the bytes of its chunks
    held,    \* the packets the code above each end holds
    sent,    \* history: how many packets each end has pushed
    got      \* history: the packets each end's handler was given

vars == <<lengths, client, epoll, link, pipe, eof, free, mem, held, sent, got>>

Peer(e) == CHOOSE d \in Ends : d # e

Least(a, b) == IF a < b THEN a ELSE b

\* The n smallest of a set of chunks, in order.
Smallest(S, n) ==
    [i \in 1 .. n |-> CHOOSE c \in S : Cardinality({d \in S : d < c}) = i - 1]

-----------------------------------------------------------------------------
(* RefMemoryChunk and MemoryPool *)

\* A RefMemoryChunk: count bytes of a chunk from offset off.
Whole(c) == [chunk |-> c, off |-> 0, count |-> ChunkSize]

\* How many bytes the first i references of q cover.
BytesBefore(q) ==
    LET n[i \in 0 .. Len(q)] == IF i = 0 THEN 0 ELSE n[i - 1] + q[i].count IN n

Size(q) == BytesBefore(q)[Len(q)]

\* The cells that a sequence of references covers, in order.
Cells(q) == FlattenSeq([i \in DOMAIN q |->
                [j \in 1 .. q[i].count |-> <<q[i].chunk, q[i].off + j>>]])

BytesOf(m, q) == LET cs == Cells(q) IN [i \in DOMAIN cs |-> m[cs[i][1]][cs[i][2]]]

\* The memory after bs was written through the references q.
Fill(m, q, bs) ==
    LET cs == Cells(q)
        at(c, j) == {i \in DOMAIN bs : cs[i] = <<c, j>>}
    IN  [c \in Chunks |-> [j \in 1 .. ChunkSize |->
            IF at(c, j) = {} THEN m[c][j] ELSE bs[CHOOSE i \in at(c, j) : TRUE]]]

\* Faulty: the part that stays behind still begins at its old offset.
Split_KeepOffset(q, n) ==
    LET size  == BytesBefore(q)
        whole == CHOOSE k \in 0 .. Len(q) :
                    size[k] <= n /\ (k < Len(q) => size[k + 1] > n)
        rest  == n - size[whole]
    IN  IF rest = 0
        THEN [taken |-> SubSeq(q, 1, whole), left |-> SubSeq(q, whole + 1, Len(q))]
        ELSE [taken |-> Append(SubSeq(q, 1, whole), [q[whole + 1] EXCEPT !.count = rest]),
              left  |-> SubSeq(q, whole + 1, Len(q))]

\* The loop that InvokeSend, OnEventIOReadable and PopReceive share: the first
\* n bytes of q and what is left of it.  Whole references move; the one that n
\* cuts is copied, the copy shrunk and the original moved forward.
Split(q, n) ==
    LET size  == BytesBefore(q)
        whole == CHOOSE k \in 0 .. Len(q) :
                    size[k] <= n /\ (k < Len(q) => size[k + 1] > n)
        rest  == n - size[whole]
        cut   == q[whole + 1]
    IN  IF rest = 0
        THEN [taken |-> SubSeq(q, 1, whole), left |-> SubSeq(q, whole + 1, Len(q))]
        ELSE [taken |-> Append(SubSeq(q, 1, whole), [cut EXCEPT !.count = rest]),
              left  |-> <<[cut EXCEPT !.off = @ + rest, !.count = @ - rest]>>
                        \o SubSeq(q, whole + 2, Len(q))]

ChunksIn(q) == {q[i].chunk : i \in DOMAIN q}

\* The chunks with ref() > 0 when the end has client object c and holds h.
Referenced(c, h) ==
    ChunksIn(c.sendq) \cup ChunksIn(c.recvp) \cup ChunksIn(c.recvq)
        \cup UNION {ChunksIn(h[i].data) : i \in DOMAIN h}

\* What the heap has left for new chunks.
Unused(e) == Chunks \ (Referenced(client[e], held[e]) \cup ToSet(free[e]))

\* Bound: pool and heap can supply n chunks.
Supplied(e, n) == n <= Len(free[e]) + Cardinality(Unused(e))

\* Aquire: chunks from the pool first, and new ones when it is empty.
Aquired(e, n) ==
    LET pooled == Least(n, Len(free[e]))
        new    == Smallest(Unused(e), n - pooled)
    IN  [i \in 1 .. n |-> Whole((SubSeq(free[e], 1, pooled) \o new)[i])]

FreeAfterAquire(e, n) == SubSeq(free[e], Least(n, Len(free[e])) + 1, Len(free[e]))

\* Faulty: a chunk goes back to the pool as soon as one reference to it goes.
Recycled_AnyReference(e, c, h) ==
    LET gone == ChunksIn(client[e].recvq) \ ChunksIn(c.recvq)
        more == Least(Cardinality(gone), PoolSize - Least(PoolSize, Len(free[e])))
    IN  free[e] \o Smallest(gone, more)

\* ReleaseChunk: the chunks whose last reference is gone, once the end has
\* client object c and holds h, join the pool; those beyond poolsize_ are deleted.
Recycled(e, c, h) ==
    LET gone == Referenced(client[e], held[e]) \ Referenced(c, h)
        more == Least(Cardinality(gone), PoolSize - Least(PoolSize, Len(free[e])))
    IN  free[e] \o Smallest(gone, more)

-----------------------------------------------------------------------------
(* The packets: packet k of an end is a run of consecutive byte numbers. *)

\* The last byte of packet k of end e; packet 0 ends before byte 1.
LastByte(e, k) ==
    LET n[i \in 0 .. Len(lengths[e])] == IF i = 0 THEN 0 ELSE n[i - 1] + lengths[e][i]
    IN  n[k]

PacketBytes(e, k) == [i \in 1 .. lengths[e][k] |-> LastByte(e, k - 1) + i]

\* WriteHead stores size() in sixteen bits.
Declared(e, k) == lengths[e][k] % LengthMod

\* The packets whose header these bytes can be, as the identifier and length
\* tests see it: none when the reader has lost its place in the stream.
HeaderOf(e, bs) ==
    {k \in DOMAIN lengths[e] :
        /\ bs = SubSeq(PacketBytes(e, k), 1, HEAD_SIZE)
        /\ Declared(e, k) >= HEAD_SIZE}

-----------------------------------------------------------------------------
(* epoll, in the kernel *)

\* What the socket of e is ready for now.
Level(e) ==
    IF client[e].pending
    THEN CASE link = "up" -> {"w"} [] link = "refused" -> {"r", "w"} [] OTHER -> {}
    ELSE (IF pipe[e] # <<>> \/ eof[e] THEN {"r"} ELSE {})
         \cup (IF Len(pipe[Peer(e)]) < Capacity \/ eof[e] THEN {"w"} ELSE {})

\* An edge x for end e: the entry joins the ready list if it asked for x.
Edge(ep, e, x) == [ep EXCEPT ![e].listed = @ \/ x \in ep[e].interest]

\* EPOLL_CTL_ADD and EPOLL_CTL_MOD look at the level: what is ready already
\* counts as an edge.
Registered(e, interest) ==
    [interest |-> interest, listed |-> Level(e) \cap interest # {}]

NotRegistered == [interest |-> {}, listed |-> FALSE]

-----------------------------------------------------------------------------
(* Init: the acceptor listens, the opener has not called Connect yet. *)

NewClient ==
    [stage |-> "new",      \* "new", "open", "closed" (queued), "gone"
     connect |-> FALSE,    \* connect_
     pending |-> FALSE,    \* connect_pending_
     pc |-> "wait",        \* where its thread is
     ret |-> "wait",       \* where InvokeSend returns to
     writeable |-> FALSE,  \* EPOLLOUT of the event being handled
     sendq |-> <<>>, recvp |-> <<>>, recvq |-> <<>>]

Init ==
    /\ lengths \in Workloads
    /\ client = [e \in Ends |-> NewClient]
    /\ epoll = [e \in Ends |-> NotRegistered]
    /\ link = "none"
    /\ pipe = [e \in Ends |-> <<>>]
    /\ eof = [e \in Ends |-> FALSE]
    /\ free = [e \in Ends |-> Smallest(Chunks, PoolSize)]
    /\ mem = [e \in Ends |-> [c \in Chunks |-> [j \in 1 .. ChunkSize |-> 0]]]
    /\ held = [e \in Ends |-> <<>>]
    /\ sent = [e \in Ends |-> 0]
    /\ got = [e \in Ends |-> <<>>]

buffers == <<free, mem, held>>
kernel == <<link, pipe, eof>>
history == <<sent, got, lengths>>

-----------------------------------------------------------------------------
(* Close *)

\* Client::Close and EventIO::Close of an open client: out of epoll, queued
\* for the dispatcher, and the other end sees the end of the stream.
Shut(e, c) ==
    /\ client' = [client EXCEPT ![e] = [c EXCEPT !.stage = "closed"]]
    /\ epoll' = [epoll EXCEPT ![e] = NotRegistered, ![Peer(e)].listed = @ \/ epoll[Peer(e)].interest # {}]
    /\ eof' = [eof EXCEPT ![Peer(e)] = TRUE]
    /\ link' = IF link = "syn" THEN "none" ELSE link

\* Close of a client that may be closed already: EventIO::Close does nothing then.
ShutIfOpen(e, c) ==
    IF client[e].stage = "open"
    THEN Shut(e, c)
    ELSE client' = [client EXCEPT ![e] = c] /\ UNCHANGED <<epoll, link, eof>>

\* The code above closes: from its own handler, or from anywhere else.
Close(e) ==
    /\ client[e].stage = "open"
    /\ client[e].pc \in {"wait", "handle"}
    /\ Shut(e, client[e])
    /\ UNCHANGED <<pipe, buffers, history>>

\* The dispatcher drains closed_io_list_: OnEventIOClose, OnClose, and the
\* last reference goes, and with it the client's queues.
Drain(e) ==
    LET c == [client[e] EXCEPT !.stage = "gone", !.connect = FALSE, !.pending = FALSE,
                               !.sendq = <<>>, !.recvp = <<>>, !.recvq = <<>>]
    IN  /\ client[e].stage = "closed"
        /\ client[e].pc = "wait"
        /\ client' = [client EXCEPT ![e] = c]
        /\ free' = [free EXCEPT ![e] = Recycled(e, c, held[e])]
        /\ UNCHANGED <<epoll, kernel, mem, held, history>>

-----------------------------------------------------------------------------
(* Connecting *)

\* Connect(ipaddr, port): EINPROGRESS, or a failure that shows at once.
Connect(e) ==
    /\ e = Opener
    /\ client[e].stage = "new"
    /\ \/ /\ client' = [client EXCEPT ![e].stage = "open", ![e].pending = TRUE]
          /\ epoll' = [epoll EXCEPT ![e] = [interest |-> {"w"}, listed |-> FALSE]]
          /\ link' = "syn"
       \/ /\ client' = [client EXCEPT ![e].stage = "closed"]
          /\ UNCHANGED <<epoll, link>>
    /\ UNCHANGED <<pipe, eof, buffers, history>>

\* The kernel ends the handshake.
Handshake ==
    /\ link = "syn"
    /\ link' \in {"up", "refused"}
    /\ epoll' = Edge(epoll, Opener, "w")
    /\ UNCHANGED <<client, pipe, eof, buffers, history>>

\* The acceptor's listener hands the descriptor over: Connect(clientfd) adds
\* it for writing only, and OnConnect runs at once.
Accept(e) ==
    /\ e # Opener
    /\ link = "up"
    /\ client[e].stage = "new"
    /\ client' = [client EXCEPT ![e].stage = "open", ![e].connect = TRUE]
    /\ epoll' = [epoll EXCEPT ![e] = Registered(e, {"w"})]
    /\ UNCHANGED <<kernel, buffers, history>>

-----------------------------------------------------------------------------
(* The dispatcher: epoll_wait reports what is ready now. *)

Poll(e) ==
    LET ready == Level(e) \cap epoll[e].interest IN
    /\ client[e].pc = "wait"
    /\ client[e].stage = "open"
    /\ epoll[e].listed
    /\ epoll' = [epoll EXCEPT ![e].listed = FALSE]
    /\ client' = [client EXCEPT
         ![e].pc = IF "r" \in ready THEN "read" ELSE IF "w" \in ready THEN "write" ELSE "wait",
         ![e].writeable = "w" \in ready]
    /\ UNCHANGED <<kernel, buffers, history>>

-----------------------------------------------------------------------------
(* OnEventIOReadable *)

\* The loop ends; the dispatcher goes on to EPOLLOUT unless the client closed.
ReadDone(e) ==
    [client[e] EXCEPT !.pc = IF @ = "read" /\ client[e].writeable /\ client[e].stage = "open"
                             THEN "write" ELSE "wait"]

ReadStops(e) ==
    /\ client[e].pc = "read"
    /\ ~client[e].connect \/ client[e].stage # "open"
    /\ client' = [client EXCEPT ![e] = ReadDone(e)]
    /\ UNCHANGED <<epoll, kernel, buffers, history>>

\* recvp_ filled up to RECVP_SIZE.
Receivers(e) == client[e].recvp \o Aquired(e, RECVP_SIZE - Len(client[e].recvp))

Reading(e) ==
    /\ client[e].pc = "read"
    /\ client[e].connect
    /\ client[e].stage = "open"
    /\ Supplied(e, RECVP_SIZE - Len(client[e].recvp))
    /\ free' = [free EXCEPT ![e] = FreeAfterAquire(e, RECVP_SIZE - Len(client[e].recvp))]

\* readv takes what fits; the references move from recvp_ to recvq_, and the
\* space frees an edge for the other end.
ReadSome(e) ==
    LET n == Least(Len(pipe[e]), Size(Receivers(e)))
        s == Split(Receivers(e), n)
    IN  /\ Reading(e)
        /\ pipe[e] # <<>>
        /\ pipe' = [pipe EXCEPT ![e] = SubSeq(@, n + 1, Len(@))]
        /\ mem' = [mem EXCEPT ![e] = Fill(@, Receivers(e), SubSeq(pipe[e], 1, n))]
        /\ client' = [client EXCEPT ![e].recvp = s.left, ![e].recvq = @ \o s.taken,
                                    ![e].pc = "receive"]
        /\ epoll' = Edge(epoll, Peer(e), "w")
        /\ UNCHANGED <<link, eof, held, history>>

\* EAGAIN: nothing is left, and the next byte will be an edge.
ReadNothing(e) ==
    /\ Reading(e)
    /\ pipe[e] = <<>>
    /\ ~eof[e]
    /\ client' = [client EXCEPT ![e] = [ReadDone(e) EXCEPT !.recvp = Receivers(e)]]
    /\ UNCHANGED <<epoll, kernel, mem, held, history>>

\* readv returned 0, or ECONNRESET.
ReadEnd(e) ==
    /\ Reading(e)
    /\ pipe[e] = <<>>
    /\ eof[e]
    /\ Shut(e, [client[e] EXCEPT !.pc = "wait", !.recvp = Receivers(e)])
    /\ UNCHANGED <<pipe, mem, held, history>>

-----------------------------------------------------------------------------
(* UserClient::OnReceive, one turn of its loop *)

Header(e) == HeaderOf(Peer(e), BytesOf(mem[e],
                Split(client[e].recvq, HEAD_SIZE).taken))

\* Faulty: PopReceive does not shrink the copy of the chunk that it cuts.
ReceivePacket_NoShrink(e) ==
    /\ client[e].pc = "receive"
    /\ Size(client[e].recvq) >= HEAD_SIZE
    /\ \E k \in Header(e) :
          LET s == Split(client[e].recvq, Declared(Peer(e), k)) IN
          /\ Size(client[e].recvq) >= Declared(Peer(e), k)
          /\ client' = [client EXCEPT ![e].recvq = s.left, ![e].pc = "handle"]
          /\ held' = [held EXCEPT ![e] = Append(@, [packet |-> k,
                         data |-> SubSeq(client[e].recvq, 1, Len(s.taken))])]
          /\ got' = [got EXCEPT ![e] = Append(@, k)]
    /\ UNCHANGED <<epoll, kernel, free, mem, sent, lengths>>

\* A whole packet is there: pop it and hand it to the session.
ReceivePacket(e) ==
    /\ client[e].pc = "receive"
    /\ Size(client[e].recvq) >= HEAD_SIZE
    /\ \E k \in Header(e) :
          LET s == Split(client[e].recvq, Declared(Peer(e), k)) IN
          /\ Size(client[e].recvq) >= Declared(Peer(e), k)
          /\ client' = [client EXCEPT ![e].recvq = s.left, ![e].pc = "handle"]
          /\ held' = [held EXCEPT ![e] = Append(@, [packet |-> k, data |-> s.taken])]
          /\ got' = [got EXCEPT ![e] = Append(@, k)]
    /\ UNCHANGED <<epoll, kernel, free, mem, sent, lengths>>

\* Less than a header, or than the packet: back to readv.
ReceiveMore(e) ==
    /\ client[e].pc = "receive"
    /\ \/ Size(client[e].recvq) < HEAD_SIZE
       \/ /\ Size(client[e].recvq) >= HEAD_SIZE
          /\ \E k \in Header(e) : Size(client[e].recvq) < Declared(Peer(e), k)
    /\ client' = [client EXCEPT ![e].pc = "read"]
    /\ UNCHANGED <<epoll, kernel, buffers, history>>

\* Bytes that are no header: log and close.
ReceiveBroken(e) ==
    /\ client[e].pc = "receive"
    /\ Size(client[e].recvq) >= HEAD_SIZE
    /\ Header(e) = {}
    /\ ShutIfOpen(e, [client[e] EXCEPT !.pc = "read"])
    /\ UNCHANGED <<pipe, buffers, history>>

\* Faulty: OnReceive deals with one packet and leaves the others for the next read.
Handled_OnePacket(e) ==
    /\ client[e].pc = "handle"
    /\ client' = [client EXCEPT ![e].pc = "read"]
    /\ held' = [held EXCEPT ![e] = Front(@)]
    /\ free' = [free EXCEPT ![e] = Recycled(e, client[e], Front(held[e]))]
    /\ UNCHANGED <<epoll, kernel, mem, history>>

\* The handler returns; it may have copied the packet's references.  The loop
\* goes on to the next packet even if the handler closed the client.
Handled(e) ==
    /\ client[e].pc = "handle"
    /\ client' = [client EXCEPT ![e].pc = "receive"]
    /\ \/ /\ Len(held[e]) <= MaxHeld
          /\ UNCHANGED <<held, free>>
       \/ /\ held' = [held EXCEPT ![e] = Front(@)]
          /\ free' = [free EXCEPT ![e] = Recycled(e, client[e], Front(held[e]))]
    /\ UNCHANGED <<epoll, kernel, mem, history>>

\* The handler throws: the packet goes, the client closes, OnReceive ends.
HandlerThrows(e) ==
    /\ client[e].pc = "handle"
    /\ ShutIfOpen(e, [client[e] EXCEPT !.pc = "read"])
    /\ held' = [held EXCEPT ![e] = Front(@)]
    /\ free' = [free EXCEPT ![e] = Recycled(e, client[e], Front(held[e]))]
    /\ UNCHANGED <<pipe, mem, history>>

\* The code above lets go of a packet that it kept.
ReleasePacket(e) ==
    /\ client[e].pc = "wait"
    /\ \E i \in DOMAIN held[e] :
          /\ held' = [held EXCEPT ![e] = RemoveAt(@, i)]
          /\ free' = [free EXCEPT ![e] = Recycled(e, client[e], RemoveAt(held[e], i))]
    /\ UNCHANGED <<client, epoll, kernel, mem, history>>

-----------------------------------------------------------------------------
(* PushSend and InvokeSend *)

\* The next packet is written into fresh chunks and queued; InvokeSend
\* follows.  Called by other code of the thread, by the packet handler or by
\* OnConnect, and without effect when connect_ is not set.
PushSend(e) ==
    LET k  == sent[e] + 1
        n  == (lengths[e][k] + ChunkSize - 1) \div ChunkSize
        ck == Split(Aquired(e, n), lengths[e][k]).taken
    IN  /\ client[e].pc \in {"wait", "handle", "connected"}
        /\ client[e].connect
        /\ k \in DOMAIN lengths[e]
        /\ Supplied(e, n)
        /\ sent' = [sent EXCEPT ![e] = k]
        /\ mem' = [mem EXCEPT ![e] = Fill(@, ck, PacketBytes(e, k))]
        /\ free' = [free EXCEPT ![e] = FreeAfterAquire(e, n)]
        /\ client' = [client EXCEPT ![e].sendq = @ \o ck, ![e].ret = client[e].pc,
                                    ![e].pc = "send"]
        /\ UNCHANGED <<epoll, kernel, held, got, lengths>>

SendReturns(e, c) == [c EXCEPT !.pc = c.ret, !.ret = "wait"]

\* The queue is empty; or the descriptor is closed already, writev fails with
\* EBADF and Close has nothing left to do.
SendDone(e) ==
    /\ client[e].pc = "send"
    /\ client[e].sendq = <<>> \/ client[e].stage # "open"
    /\ client' = [client EXCEPT ![e] = SendReturns(e, @)]
    /\ UNCHANGED <<epoll, kernel, buffers, history>>

Sending(e) ==
    /\ client[e].pc = "send"
    /\ client[e].sendq # <<>>
    /\ client[e].stage = "open"

\* writev takes some bytes of the first SENDIOV_SIZE chunks.  After a shutdown
\* of the other end the kernel may still take them, and nobody reads them.
SendSome(e) ==
    LET q    == client[e].sendq
        most == Size(SubSeq(q, 1, Least(SENDIOV_SIZE, Len(q))))
        room == IF eof[e] THEN most ELSE Least(most, Capacity - Len(pipe[Peer(e)]))
    IN  /\ Sending(e)
        /\ \E n \in 1 .. room :
              LET s == Split(q, n)
                  c == [client[e] EXCEPT !.sendq = s.left]
              IN  /\ client' = [client EXCEPT ![e] = c]
                  /\ free' = [free EXCEPT ![e] = Recycled(e, c, held[e])]
                  /\ IF eof[e]
                     THEN UNCHANGED <<pipe, epoll>>
                     ELSE /\ pipe' = [pipe EXCEPT ![Peer(e)] = @ \o BytesOf(mem[e], s.taken)]
                          /\ epoll' = Edge(epoll, Peer(e), "r")
        /\ UNCHANGED <<link, eof, mem, held, history>>

\* Faulty: EAGAIN does not ask for writability.
SendBlocked_NoModify(e) ==
    /\ Sending(e)
    /\ ~eof[e]
    /\ Len(pipe[Peer(e)]) = Capacity
    /\ client' = [client EXCEPT ![e] = SendReturns(e, @)]
    /\ UNCHANGED <<epoll, kernel, buffers, history>>

\* EAGAIN: ask for writability as well and leave the rest queued.
SendBlocked(e) ==
    /\ Sending(e)
    /\ ~eof[e]
    /\ Len(pipe[Peer(e)]) = Capacity
    /\ epoll' = [epoll EXCEPT ![e] = Registered(e, {"r", "w"})]
    /\ client' = [client EXCEPT ![e] = SendReturns(e, @)]
    /\ UNCHANGED <<kernel, buffers, history>>

\* Any other error (EPIPE, ECONNRESET): Close.
SendFails(e) ==
    /\ Sending(e)
    /\ eof[e]
    /\ client[e].ret = "connected" => EarlyReset
    /\ Shut(e, SendReturns(e, client[e]))
    /\ UNCHANGED <<pipe, buffers, history>>

-----------------------------------------------------------------------------
(* OnEventIOWriteable *)

\* CheckIfConnectCompleted: SO_ERROR decides.
ConnectCompleted(e) ==
    /\ client[e].pc = "write"
    /\ client[e].pending
    /\ IF link = "up"
       THEN /\ client' = [client EXCEPT ![e].pending = FALSE, ![e].connect = TRUE,
                                        ![e].pc = "connected"]
            /\ UNCHANGED <<epoll, link, eof>>
       ELSE Shut(e, [client[e] EXCEPT !.pending = FALSE, !.pc = "wait"])
    /\ UNCHANGED <<pipe, buffers, history>>

\* OnConnect has returned, or there was nothing to complete: ask for input
\* only, and send what is queued.  On a client that OnConnect has closed the
\* descriptor is -1, EPOLL_CTL_MOD fails and errno_assert aborts.
Writeable(e) ==
    /\ \/ client[e].pc = "connected"
       \/ client[e].pc = "write" /\ ~client[e].pending
    /\ IF client[e].stage = "open"
       THEN /\ epoll' = [epoll EXCEPT ![e] = Registered(e, {"r"})]
            /\ client' = [client EXCEPT ![e].pc = "send", ![e].ret = "wait"]
       ELSE /\ client' = [client EXCEPT ![e].pc = "aborted"]
            /\ UNCHANGED epoll
    /\ UNCHANGED <<kernel, buffers, history>>

\* The other end closed with input unread: its kernel resets the connection
\* and what is in flight is lost.
Reset(e) ==
    /\ eof[e]
    /\ pipe[e] # <<>>
    /\ pipe' = [pipe EXCEPT ![e] = <<>>]
    /\ UNCHANGED <<client, epoll, link, eof, buffers, history>>

-----------------------------------------------------------------------------

\* What the thread of an end does by itself.
Loop(e) ==
    \/ Poll(e) \/ Drain(e)
    \/ ReadStops(e) \/ ReadSome(e) \/ ReadNothing(e) \/ ReadEnd(e)
    \/ ReceivePacket(e) \/ ReceiveMore(e) \/ ReceiveBroken(e) \/ Handled(e)
    \/ SendDone(e) \/ SendSome(e) \/ SendBlocked(e) \/ SendFails(e)
    \/ ConnectCompleted(e) \/ Writeable(e)

Next ==
    \/ Handshake
    \/ \E e \in Ends :
          \/ Loop(e) \/ Connect(e) \/ Accept(e) \/ Close(e) \/ PushSend(e)
          \/ HandlerThrows(e) \/ ReleasePacket(e) \/ Reset(e)

Spec == Init /\ [][Next]_vars

\* Both threads keep running, handlers return, the kernel ends the handshake
\* and the listener accepts.  Nobody has to push, close or release.
Fairness ==
    /\ WF_vars(Handshake)
    /\ \A e \in Ends : WF_vars(Loop(e)) /\ WF_vars(Accept(e))

FairSpec == Spec /\ Fairness

-----------------------------------------------------------------------------
(* Properties *)

Refs == [chunk : Chunks, off : 0 .. ChunkSize, count : 1 .. ChunkSize]

TypeOK ==
    /\ lengths \in Workloads
    /\ client \in [Ends ->
         [stage : {"new", "open", "closed", "gone"},
          connect : BOOLEAN, pending : BOOLEAN,
          pc : {"wait", "read", "receive", "handle", "send", "write", "connected", "aborted"},
          ret : {"wait", "handle", "connected"}, writeable : BOOLEAN,
          sendq : Seq(Refs), recvp : Seq(Refs), recvq : Seq(Refs)]]
    /\ epoll \in [Ends -> [interest : SUBSET {"r", "w"}, listed : BOOLEAN]]
    /\ link \in {"none", "syn", "up", "refused"}
    /\ pipe \in [Ends -> Seq(Nat)]
    /\ eof \in [Ends -> BOOLEAN]
    /\ free \in [Ends -> Seq(Chunks)]
    /\ mem \in [Ends -> [Chunks -> [1 .. ChunkSize -> Nat]]]
    /\ held \in [Ends -> Seq([packet : Nat, data : Seq(Refs)])]
    /\ sent \in [Ends -> Nat]
    /\ got \in [Ends -> Seq(Nat)]

\* The pool never holds a chunk twice, one that is still referenced, or more
\* than poolsize_ of them.
PoolConsistent ==
    \A e \in Ends :
        /\ Cardinality(ToSet(free[e])) = Len(free[e])
        /\ ToSet(free[e]) \cap Referenced(client[e], held[e]) = {}
        /\ Len(free[e]) <= PoolSize

\* errno_assert(r == 0) after EPOLL_CTL_MOD (eventio.cpp:50) holds: nobody
\* asks for events of a descriptor that a handler or a failed write has closed.
ModifySucceeds == \A e \in Ends : client[e].pc # "aborted"

\* Types, the memory pool's own consistency, and no failed assertion.
SocketSound == TypeOK /\ PoolConsistent /\ ModifySucceeds

\* Every packet of the workload is shorter than its length field can say.  A
\* longer one is sent with a wrapped length: the reader takes its first bytes
\* for the whole packet and the rest for a broken header.
Fits == \A e \in Ends : \A k \in DOMAIN lengths[e] : lengths[e][k] < LengthMod

\* No byte is lost, doubled or out of place on its way: what the reader has
\* buffered, what is in flight and what the writer has queued are exactly the
\* packets pushed and not yet popped, whatever the sizes of the chunks, of the
\* partial writes and of the reads (client.cpp:57-120, 173-193, 216-254).
StreamConserved ==
    \A e \in Ends :
        LET p == Peer(e) IN
        (Fits /\ {client[e].stage, client[p].stage} \subseteq {"new", "open"}) =>
            BytesOf(mem[e], client[e].recvq) \o pipe[e] \o BytesOf(mem[p], client[p].sendq)
              = [i \in 1 .. LastByte(p, sent[p]) - LastByte(p, Len(got[e])) |->
                    LastByte(p, Len(got[e])) + i]

\* A packet that the code above keeps is not overwritten by what is received
\* or sent later, although its chunks are shared with recvq_ and recvp_ and
\* come from a pool that hands chunks out again.
HeldIntact ==
    Fits => \A e \in Ends : \A i \in DOMAIN held[e] :
        BytesOf(mem[e], held[e][i].data) = PacketBytes(Peer(e), held[e][i].packet)

\* No edge is missed: a connected client that goes to sleep is on the ready
\* list if there is input for it (or has not seen its first writable event yet
\* because its output is full), and if it still has output it has asked for
\* writability and is on the ready list as soon as there is room.
NoLostEdge ==
    \A e \in Ends :
        (client[e].pc = "wait" /\ client[e].stage = "open" /\ client[e].connect) =>
            /\ "r" \in Level(e) =>
                  epoll[e].listed \/ (epoll[e].interest = {"w"} /\ "w" \notin Level(e))
            /\ client[e].sendq # <<>> =>
                  /\ "w" \in epoll[e].interest
                  /\ "w" \in Level(e) => epoll[e].listed

Channel == INSTANCE PacketChannel WITH
    sent <- IF Fits THEN sent ELSE [e \in Ends |-> 0],
    got <- IF Fits THEN got ELSE [e \in Ends |-> <<>>],
    closed <- \E e \in Ends : client[e].stage \in {"closed", "gone"}

\* The two clients implement the packet channel: packets that fit their length
\* field arrive in order, once each, and all of them unless somebody closes.
Implements == Channel!Spec
=============================================================================
