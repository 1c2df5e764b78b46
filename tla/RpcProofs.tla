------------------------------ MODULE RpcProofs ------------------------------
(***************************************************************************)
(* The table of calls of RpcStub, for any number of calls, sessions, casts *)
(* and faults: as long as a session does not come round to an entry that   *)
(* is still there, types, linkers and sessions stay consistent through     *)
(* restarts, lost connections and stubs and services that come and go, and *)
(* the stub keeps what RpcPromise promises its callers.                    *)
(***************************************************************************)
EXTENDS Rpc, TLAPS

\* What the steps of RpcSound rest on: a call that was not made has left no
\* trace; a caller of a call with a linker holds it until it lets go; nobody has
\* the linker of a call without one; without a stub there are no entries.
CallInv ==
    /\ \A c \in Calls :
          /\ c \in Entries(stub) => call[c].phase # "idle"
          /\ call[c].phase \in {"idle", "open"} => call[c].answers = {}
          /\ c \in Linked /\ call[c].phase = "open" => call[c].held
          /\ c \notin Linked => call[c].refs = 0 /\ ~call[c].held
    /\ stub.pid = Nobody => Entries(stub) = {}

\* A call that may still be answered has a slot, and a slot of its own.
TableInv ==
    /\ \A s, t \in Sessions :
          stub.calls[s] = stub.calls[t] /\ stub.calls[s] # NoCall => s = t
    /\ \A c \in Calls : call[c].phase = "open" => c \in Entries(stub)

\* A message of a call that was made; of an open one, with the slot's session.
Carries(m) ==
    (m.type = "MESSAGE" /\ m.call \in Calls) =>
        /\ call[m.call].phase # "idle"
        /\ call[m.call].phase = "open" => stub.calls[m.session] = m.call

OfOpenCall(m) == m.type = "MESSAGE" /\ m.call \in Calls /\ call[m.call].phase = "open"

\* Requests of open calls come from this stub, answers go to it.
IsRequest(m) == Carries(m) /\ (OfOpenCall(m) => m.from = stub.pid)
IsAnswer(m) == Carries(m) /\ (OfOpenCall(m) => m.to = stub.pid)

MessageInv ==
    /\ \A m \in working : IsRequest(m)
    /\ \A m \in Elems(chan["service"]) : IsRequest(m)
    /\ \A m \in Elems(chan["client"]) : IsAnswer(m)

\* TypeOK and RpcSound are not inductive alone: a linker is released once too
\* often unless its entry is the caller's (CallInv), and an answer finds its
\* call only if its request carried the right session (MessageInv).
IInv == TypeOK /\ LinkersBalance /\ TableInv /\ CallInv /\ MessageInv

-----------------------------------------------------------------------------
(* Sequences, as far as channels are sequences *)

\* Reading takes an element away.
LEMMA ElemsTail ==
    ASSUME NEW S, NEW q \in Seq(S), q # <<>>
    PROVE  /\ Tail(q) \in Seq(S)
           /\ Elems(Tail(q)) \subseteq Elems(q)
           /\ q[1] \in Elems(q)
           /\ q[1] \in S
<1>1. Len(q) \in Nat /\ Len(q) >= 1 OBVIOUS
<1>2. Tail(q) \in Seq(S) /\ Len(Tail(q)) = Len(q) - 1 OBVIOUS
<1>3. \A i \in 1 .. Len(Tail(q)) : Tail(q)[i] = q[i + 1] BY <1>1, <1>2
<1>4. \A i \in 1 .. Len(Tail(q)) : i + 1 \in 1 .. Len(q) BY <1>1, <1>2
<1> QED BY <1>1, <1>2, <1>3, <1>4 DEF Elems

\* Joining adds the elements of the second sequence.
LEMMA ElemsJoin ==
    ASSUME NEW S, NEW q \in Seq(S), NEW r \in Seq(S)
    PROVE  /\ q \o r \in Seq(S)
           /\ Elems(q \o r) \subseteq Elems(q) \cup Elems(r)
<1>1. q \o r \in Seq(S) /\ Len(q \o r) = Len(q) + Len(r) OBVIOUS
<1>2. ASSUME NEW i \in 1 .. Len(q \o r) PROVE (q \o r)[i] \in Elems(q) \cup Elems(r)
  <2>1. CASE i <= Len(q)
    <3>1. i \in 1 .. Len(q) /\ (q \o r)[i] = q[i] BY <1>1, <2>1
    <3> QED BY <3>1 DEF Elems
  <2>2. CASE i > Len(q)
    <3>1. i - Len(q) \in 1 .. Len(r) /\ (q \o r)[i] = r[i - Len(q)] BY <1>1, <2>2
    <3> QED BY <3>1 DEF Elems
  <2> QED BY <2>1, <2>2
<1>3. Elems(q \o r) \subseteq Elems(q) \cup Elems(r) BY <1>2 DEF Elems
<1> QED BY <1>1, <1>3

\* A connection that breaks leaves a prefix and the end of the stream.
LEMMA ElemsCut ==
    ASSUME NEW S, NEW q \in Seq(S), NEW n \in 0 .. Len(q), NEW x \in S
    PROVE  /\ Append(SubSeq(q, 1, n), x) \in Seq(S)
           /\ Elems(Append(SubSeq(q, 1, n), x)) \subseteq Elems(q) \cup {x}
<1>1. SubSeq(q, 1, n) \in Seq(S) /\ Len(SubSeq(q, 1, n)) = n
  OBVIOUS
<1>2. \A i \in 1 .. n : SubSeq(q, 1, n)[i] = q[i] OBVIOUS
<1>3. Append(SubSeq(q, 1, n), x) \in Seq(S) /\ Len(Append(SubSeq(q, 1, n), x)) = n + 1
  BY <1>1
<1>4. ASSUME NEW i \in 1 .. n + 1
      PROVE  Append(SubSeq(q, 1, n), x)[i] \in Elems(q) \cup {x}
  <2>1. CASE i = n + 1 BY <1>1, <2>1
  <2>2. CASE i \in 1 .. n
    <3>1. Append(SubSeq(q, 1, n), x)[i] = q[i] BY <1>1, <1>2, <2>2
    <3>2. i \in 1 .. Len(q) BY <2>2
    <3> QED BY <3>1, <3>2 DEF Elems
  <2> QED BY <2>1, <2>2
<1> QED BY <1>3, <1>4 DEF Elems

\* Appending one element.
LEMMA ElemsAppend ==
    ASSUME NEW S, NEW q \in Seq(S), NEW x \in S
    PROVE  /\ Append(q, x) \in Seq(S)
           /\ Elems(Append(q, x)) \subseteq Elems(q) \cup {x}
<1>1. Append(q, x) \in Seq(S) /\ Len(Append(q, x)) = Len(q) + 1 OBVIOUS
<1>2. ASSUME NEW i \in 1 .. Len(q) + 1 PROVE Append(q, x)[i] \in Elems(q) \cup {x}
  <2>1. CASE i = Len(q) + 1 BY <2>1
  <2>2. CASE i \in 1 .. Len(q) BY <2>2 DEF Elems
  <2> QED BY <2>1, <2>2
<1> QED BY <1>1, <1>2 DEF Elems

\* The channels that hold messages only.
Channels == [Ends -> Seq(Messages)]

\* SendMessage adds what it is given to one channel, or nothing.
LEMMA SentAdds ==
    ASSUME NEW ch \in Channels, NEW e \in Ends, NEW q \in Seq(Messages)
    PROVE  /\ Sent(ch, e, q) \in Channels
           /\ Elems(Sent(ch, e, q)[e]) \subseteq Elems(ch[e]) \cup Elems(q)
           /\ \A f \in Ends \ {e} : Sent(ch, e, q)[f] = ch[f]
<1>1. /\ ch[e] \o q \in Seq(Messages)
      /\ Elems(ch[e] \o q) \subseteq Elems(ch[e]) \cup Elems(q)
  BY ElemsJoin DEF Channels
<1>2. CASE conn[Other(e)] /\ ~Cut(e)
  <2>1. Sent(ch, e, q) = [ch EXCEPT ![e] = @ \o q] BY <1>2 DEF Sent
  <2> QED BY <1>1, <2>1 DEF Channels
<1>3. CASE ~(conn[Other(e)] /\ ~Cut(e))
  <2>1. Sent(ch, e, q) = ch BY <1>3 DEF Sent
  <2> QED BY <2>1
<1> QED BY <1>2, <1>3

\* Nothing, or one message.
LEMMA ElemsShort ==
    ASSUME NEW x
    PROVE  Elems(<<>>) = {} /\ Elems(<<x>>) = {x}
BY DEF Elems

LEMMA OneTyped == ASSUME NEW x \in Messages PROVE <<x>> \in Seq(Messages)
OBVIOUS

LEMMA NoneTyped == <<>> \in Seq(Messages)
OBVIOUS

\* Reading takes the first message of one channel.
LEMMA ReadTakes ==
    ASSUME NEW ch \in Channels, NEW e \in Ends, ch[e] # <<>>
    PROVE  /\ Read(ch, e) \in Channels
           /\ Elems(Read(ch, e)[e]) \subseteq Elems(ch[e])
           /\ \A f \in Ends \ {e} : Read(ch, e)[f] = ch[f]
           /\ ch[e][1] \in Elems(ch[e]) /\ ch[e][1] \in Messages
<1>1. /\ Tail(ch[e]) \in Seq(Messages)
      /\ Elems(Tail(ch[e])) \subseteq Elems(ch[e])
      /\ ch[e][1] \in Elems(ch[e])
      /\ ch[e][1] \in Messages
  BY ElemsTail DEF Channels
<1> QED BY <1>1 DEF Channels, Read

\* At most one message is sent to the service.
LEMMA SentToService ==
    ASSUME NEW ch \in Channels, NEW m \in Messages, NEW q, q = <<>> \/ q = <<m>>
    PROVE  /\ Sent(ch, "service", q) \in Channels
           /\ Elems(Sent(ch, "service", q)["service"]) \subseteq Elems(ch["service"]) \cup {m}
           /\ Sent(ch, "service", q)["client"] = ch["client"]
<1>1. q \in Seq(Messages) BY OneTyped, NoneTyped
<1>2. Elems(q) \subseteq {m} BY ElemsShort
<1>3. "service" \in Ends /\ "client" \in Ends \ {"service"} BY DEF Ends
<1> QED BY <1>1, <1>2, <1>3, SentAdds

LEMMA SentToClient ==
    ASSUME NEW ch \in Channels, NEW m \in Messages
    PROVE  /\ Sent(ch, "client", <<m>>) \in Channels
           /\ Elems(Sent(ch, "client", <<m>>)["client"]) \subseteq Elems(ch["client"]) \cup {m}
           /\ Sent(ch, "client", <<m>>)["service"] = ch["service"]
<1>1. PICK q \in Seq(Messages) : q = <<m>> BY OneTyped
<1>2. Elems(q) = {m} BY <1>1, ElemsShort
<1>3. "client" \in Ends /\ "service" \in Ends \ {"client"} BY DEF Ends
<1>4. /\ Sent(ch, "client", q) \in Channels
      /\ Elems(Sent(ch, "client", q)["client"]) \subseteq Elems(ch["client"]) \cup {m}
      /\ Sent(ch, "client", q)["service"] = ch["service"]
  BY <1>2, <1>3, SentAdds
<1> QED BY <1>1, <1>4

\* What any channel holds when one was read.
LEMMA ReadShrinks ==
    ASSUME TypeOK, NEW e \in Ends, chan[e] # <<>>, chan' = Read(chan, e)
    PROVE  /\ chan' \in Channels
           /\ \A f \in Ends : Elems(chan'[f]) \subseteq Elems(chan[f])
           /\ chan[e][1] \in Elems(chan[e]) /\ chan[e][1] \in Messages
<1>1. chan \in Channels BY DEF TypeOK, Channels
<1>2. /\ chan' \in Channels
      /\ Elems(chan'[e]) \subseteq Elems(chan[e])
      /\ \A f \in Ends \ {e} : chan'[f] = chan[f]
      /\ chan[e][1] \in Elems(chan[e]) /\ chan[e][1] \in Messages
  BY <1>1, ReadTakes
<1>3. ASSUME NEW f \in Ends PROVE Elems(chan'[f]) \subseteq Elems(chan[f])
  <2>1. CASE f = e BY <1>2, <2>1
  <2>2. CASE f # e
    <3>1. chan'[f] = chan[f] BY <1>2, <2>2
    <3> QED BY <3>1
  <2> QED BY <2>1, <2>2
<1> QED BY <1>2, <1>3

-----------------------------------------------------------------------------
(* Messages *)

LEMMA Numbered ==
    ASSUME NEW m \in Messages, m.type = "MESSAGE" PROVE m \in Requests
BY DEF Messages, Requests, Eof, UnRegisterMsg, RegisterMsg

\* A step does not take calls back, and an open call keeps its slot and stub.
Grows ==
    \A c \in Calls :
        call[c].phase # "idle" =>
            /\ call'[c].phase # "idle"
            /\ call'[c].phase = "open" =>
                  /\ call[c].phase = "open"
                  /\ stub'.pid = stub.pid
                  /\ \A s \in Sessions : stub.calls[s] = c => stub'.calls[s] = c

LEMMA RequestKept ==
    ASSUME TypeOK, Grows, NEW m \in Messages, IsRequest(m)
    PROVE  IsRequest(m)'
<1> SUFFICES ASSUME m.type = "MESSAGE", m.call \in Calls
             PROVE  /\ call'[m.call].phase # "idle"
                    /\ call'[m.call].phase = "open" =>
                          stub'.calls[m.session] = m.call /\ m.from = stub'.pid
  BY DEF IsRequest, Carries, OfOpenCall
<1>1. m.session \in Sessions BY Numbered DEF Requests
<1>2. call[m.call].phase # "idle" BY DEF IsRequest, Carries
<1> QED BY <1>1, <1>2 DEF Grows, IsRequest, Carries, OfOpenCall

LEMMA AnswerKept ==
    ASSUME TypeOK, Grows, NEW m \in Messages, IsAnswer(m)
    PROVE  IsAnswer(m)'
<1> SUFFICES ASSUME m.type = "MESSAGE", m.call \in Calls
             PROVE  /\ call'[m.call].phase # "idle"
                    /\ call'[m.call].phase = "open" =>
                          stub'.calls[m.session] = m.call /\ m.to = stub'.pid
  BY DEF IsAnswer, Carries, OfOpenCall
<1>1. m.session \in Sessions BY Numbered DEF Requests
<1>2. call[m.call].phase # "idle" BY DEF IsAnswer, Carries
<1> QED BY <1>1, <1>2 DEF Grows, IsAnswer, Carries, OfOpenCall

LEMMA MessagesStep ==
    ASSUME TypeOK, MessageInv, Grows,
           \A m \in working' : m \in working \/ m \in Elems(chan["service"]) \/ IsRequest(m)',
           \A m \in Elems(chan'["service"]) : m \in Elems(chan["service"]) \/ IsRequest(m)',
           \A m \in Elems(chan'["client"]) : m \in Elems(chan["client"]) \/ IsAnswer(m)'
    PROVE  MessageInv'
<1>1. working \subseteq Messages BY DEF TypeOK, Messages
<1>2. \A e \in Ends : Elems(chan[e]) \subseteq Messages
  <2> SUFFICES ASSUME NEW e \in Ends, NEW i \in 1 .. Len(chan[e])
               PROVE  chan[e][i] \in Messages
    BY DEF Elems
  <2>1. chan[e] \in Seq(Messages) BY DEF TypeOK
  <2> QED BY <2>1
<1>3. "client" \in Ends /\ "service" \in Ends BY DEF Ends
<1>4. \A m \in working' : IsRequest(m)'
  BY <1>1, <1>2, <1>3, RequestKept DEF MessageInv
<1>5. \A m \in Elems(chan'["service"]) : IsRequest(m)'
  BY <1>2, <1>3, RequestKept DEF MessageInv
<1>6. \A m \in Elems(chan'["client"]) : IsAnswer(m)'
  BY <1>2, <1>3, AnswerKept DEF MessageInv
<1> QED BY <1>4, <1>5, <1>6 DEF MessageInv

-----------------------------------------------------------------------------
(* The initial state *)

LEMMA NoEntries == Entries(NoStub) = {}
BY DEF Entries, NoStub

LEMMA NoStubTyped == NoStub \in Stubs
<1>1. 0 \in Sessions BY RpcAssumption DEF Sessions
<1>2. Nobody \in Pids BY RpcAssumption DEF Nobody, Pids
<1>3. [s \in Sessions |-> NoCall] \in [Sessions -> Calls \cup {NoCall}] OBVIOUS
<1> QED BY <1>1, <1>2, <1>3 DEF NoStub, Stubs

LEMMA NewCallTyped == NewCall \in CallStates
<1>1. Nobody \in Pids BY RpcAssumption DEF Nobody, Pids
<1> QED BY <1>1 DEF NewCall, CallStates

LEMMA IInvInit == Init => IInv
<1> SUFFICES ASSUME Init PROVE IInv OBVIOUS
<1>1. Nobody \in Pids /\ 0 \in Pids BY RpcAssumption DEF Nobody, Pids
<1>2. TypeOK
  <2>1. stub \in Stubs BY NoStubTyped DEF Init
  <2>2. call \in [Calls -> CallStates] BY NewCallTyped DEF Init
  <2>3. chan \in [Ends -> Seq(Messages)] BY DEF Init
  <2>4. casts \in 0 .. MaxCasts /\ faults \in 0 .. MaxFaults BY RpcAssumption DEF Init
  <2>5. working \subseteq Requests /\ pids \in [Ends -> Pids] /\ known \in Pids /\ service \in Pids
    BY <1>1 DEF Init
  <2> QED BY <2>1, <2>2, <2>3, <2>4, <2>5 DEF Init, TypeOK
<1>3. Entries(stub) = {} BY NoEntries DEF Init
<1>4. LinkersBalance
  BY <1>3, RpcAssumption DEF LinkersBalance, Init, NewCall, One
<1>5. TableInv BY DEF TableInv, Init, NewCall, NoStub
<1>6. CallInv BY <1>3 DEF CallInv, Init, NewCall
<1>7. Elems(<<>>) = {} BY DEF Elems
<1>8. MessageInv BY <1>7 DEF MessageInv, Init, Ends
<1> QED BY <1>2, <1>4, <1>5, <1>6, <1>8 DEF IInv

-----------------------------------------------------------------------------
(* Steps that leave the table and the callers alone *)

LEMMA TableStill ==
    ASSUME IInv, stub'.calls = stub.calls, stub'.pid = stub.pid, call' = call
    PROVE  LinkersBalance' /\ TableInv' /\ CallInv' /\ Grows
<1>1. Entries(stub') = Entries(stub) BY DEF Entries
<1>2. LinkersBalance' BY <1>1 DEF IInv, LinkersBalance
<1>3. TableInv' BY <1>1 DEF IInv, TableInv
<1>4. CallInv' BY <1>1 DEF IInv, CallInv
<1>5. Grows BY DEF Grows
<1> QED BY <1>2, <1>3, <1>4, <1>5

\* A message that belongs to no call.
LEMMA NotOfACall ==
    ASSUME NEW m, m.type # "MESSAGE" \/ m.call = NoCall
    PROVE  IsRequest(m)' /\ IsAnswer(m)'
BY RpcAssumption DEF IsRequest, IsAnswer, Carries, OfOpenCall

LEMMA EofPlain == Eof \in Messages /\ Eof.type # "MESSAGE"
BY DEF Eof, Messages

LEMMA UnRegisterPlain == UnRegisterMsg \in Messages /\ UnRegisterMsg.type # "MESSAGE"
BY DEF UnRegisterMsg, Messages

LEMMA RegisterPlain ==
    ASSUME NEW p \in Pids
    PROVE  RegisterMsg(p) \in Messages /\ RegisterMsg(p).type # "MESSAGE"
BY DEF RegisterMsg, Messages

LEMMA MessageTyped ==
    ASSUME NEW a \in Pids, NEW b \in Pids, NEW s \in Sessions, NEW c \in Calls \cup {NoCall}
    PROVE  Message(a, b, s, c) \in Requests /\ Message(a, b, s, c) \in Messages
BY DEF Message, Requests, Messages

LEMMA ConnectStep == ASSUME IInv, Connect PROVE IInv'
<1> USE DEF IInv
<1>1. LinkersBalance' /\ TableInv' /\ CallInv' /\ Grows BY TableStill DEF Connect
<1>2. chan'["service"] = chan["service"] BY DEF Connect, TypeOK, Ends
<1>3. CASE service = Nobody
  <2>1. chan'["client"] = <<>> BY <1>3 DEF Connect, TypeOK, Ends
  <2>2. Elems(chan'["client"]) = {} BY <2>1, ElemsShort
  <2>3. chan' \in [Ends -> Seq(Messages)] BY <1>3 DEF Connect, TypeOK
  <2>4. TypeOK' BY <2>3 DEF Connect, TypeOK
  <2>5. MessageInv' BY <1>1, <1>2, <2>2, MessagesStep DEF Connect
  <2> QED BY <1>1, <2>4, <2>5
<1>4. CASE service # Nobody
  <2>1. chan'["client"] = <<RegisterMsg(service)>> BY <1>4 DEF Connect, TypeOK, Ends
  <2>2. RegisterMsg(service) \in Messages /\ RegisterMsg(service).type # "MESSAGE"
    BY RegisterPlain DEF TypeOK
  <2>3. chan' \in [Ends -> Seq(Messages)] BY <1>4, <2>2, OneTyped DEF Connect, TypeOK
  <2>4. TypeOK' BY <2>3 DEF Connect, TypeOK
  <2>5. \A m \in Elems(chan'["client"]) : IsAnswer(m)'
    BY <2>1, <2>2, ElemsShort, NotOfACall
  <2>6. MessageInv' BY <1>1, <1>2, <2>5, MessagesStep DEF Connect
  <2> QED BY <1>1, <2>4, <2>6
<1> QED BY <1>3, <1>4

LEMMA FaultTyped == ASSUME TypeOK, Fault PROVE faults' \in 0 .. MaxFaults
BY RpcAssumption DEF TypeOK, Fault

LEMMA BreakStep == ASSUME IInv, Break PROVE IInv'
<1> USE DEF IInv
<1>1. LinkersBalance' /\ TableInv' /\ CallInv' /\ Grows BY TableStill DEF Break
<1>2. PICK i \in 0 .. Len(chan["client"]), j \in 0 .. Len(chan["service"]) :
        chan' = [chan EXCEPT !["client"] = Append(SubSeq(@, 1, i), Eof),
                             !["service"] = Append(SubSeq(@, 1, j), Eof)]
  BY DEF Break
<1>3. chan["client"] \in Seq(Messages) /\ chan["service"] \in Seq(Messages)
  BY DEF TypeOK, Ends
<1>4. /\ chan'["client"] = Append(SubSeq(chan["client"], 1, i), Eof)
      /\ chan'["service"] = Append(SubSeq(chan["service"], 1, j), Eof)
  BY <1>2 DEF TypeOK, Ends
<1>5. /\ chan'["client"] \in Seq(Messages)
      /\ Elems(chan'["client"]) \subseteq Elems(chan["client"]) \cup {Eof}
  BY <1>3, <1>4, ElemsCut, EofPlain
<1>6. /\ chan'["service"] \in Seq(Messages)
      /\ Elems(chan'["service"]) \subseteq Elems(chan["service"]) \cup {Eof}
  BY <1>3, <1>4, ElemsCut, EofPlain
<1>7. chan' \in [Ends -> Seq(Messages)] BY <1>2, <1>4, <1>5, <1>6 DEF TypeOK, Ends
<1>8. TypeOK' BY <1>7, FaultTyped DEF Break, TypeOK, link
<1>9. IsRequest(Eof)' /\ IsAnswer(Eof)' BY EofPlain, NotOfACall
<1>10. MessageInv' BY <1>1, <1>5, <1>6, <1>9, MessagesStep DEF Break
<1> QED BY <1>1, <1>8, <1>10

LEMMA CrashedLink ==
    ASSUME TypeOK, NEW e \in Ends, Crash(e)
    PROVE  /\ chan' \in Channels /\ pids' \in [Ends -> Pids] /\ conn' \in [Ends -> BOOLEAN]
           /\ dial' \in BOOLEAN /\ dialler' \in Ends
           /\ casts' \in 0 .. MaxCasts /\ faults' \in 0 .. MaxFaults
           /\ \A f \in Ends : Elems(chan'[f]) \subseteq Elems(chan[f]) \cup {Eof}
<1>1. Other(e) \in Ends /\ Other(e) # e /\ Ends = {e, Other(e)} BY DEF Ends, Other
<1>2. chan[e] \in Seq(Messages) /\ chan[Other(e)] \in Seq(Messages) BY <1>1 DEF TypeOK
<1>3. /\ Append(chan[Other(e)], Eof) \in Seq(Messages)
      /\ Elems(Append(chan[Other(e)], Eof)) \subseteq Elems(chan[Other(e)]) \cup {Eof}
  BY <1>2, ElemsAppend, EofPlain
<1>4. chan'[e] = <<>> BY <1>1 DEF Crash, TypeOK
<1>5. chan'[Other(e)] \in {chan[Other(e)], Append(chan[Other(e)], Eof)}
  BY <1>1 DEF Crash, TypeOK
<1>6. chan' \in Channels
  <2>1. \A f \in Ends : chan'[f] \in Seq(Messages) BY <1>1, <1>2, <1>3, <1>4, <1>5, NoneTyped
  <2>2. chan' = [f \in Ends |-> chan'[f]] BY DEF Crash, TypeOK
  <2> QED BY <2>1, <2>2 DEF Channels
<1>7. \A f \in Ends : Elems(chan'[f]) \subseteq Elems(chan[f]) \cup {Eof}
  BY <1>1, <1>3, <1>4, <1>5, ElemsShort
<1>8. 0 \in Pids BY RpcAssumption DEF Pids
<1>9. pids' \in [Ends -> Pids] /\ conn' \in [Ends -> BOOLEAN] BY <1>8 DEF Crash, TypeOK
<1>10. dial' \in BOOLEAN /\ dialler' \in Ends /\ casts' \in 0 .. MaxCasts
  BY DEF Crash, TypeOK
<1> QED BY <1>6, <1>7, <1>9, <1>10, FaultTyped DEF Crash

LEMMA CrashServiceStep == ASSUME IInv, CrashService PROVE IInv'
<1> USE DEF IInv
<1>1. LinkersBalance' /\ TableInv' /\ CallInv' /\ Grows BY TableStill DEF CrashService
<1>2. "client" \in Ends /\ "service" \in Ends BY DEF Ends
<1>3. Nobody \in Pids BY RpcAssumption DEF Nobody, Pids
<1>4. TypeOK' BY <1>2, <1>3, CrashedLink DEF CrashService, TypeOK, Channels
<1>5. IsRequest(Eof)' /\ IsAnswer(Eof)' BY EofPlain, NotOfACall
<1>6. \A f \in Ends : Elems(chan'[f]) \subseteq Elems(chan[f]) \cup {Eof}
  BY <1>2, CrashedLink DEF CrashService
<1>7. MessageInv' BY <1>1, <1>2, <1>5, <1>6, MessagesStep DEF CrashService
<1> QED BY <1>1, <1>4, <1>7

LEMMA ReceiveEofStep == ASSUME IInv, NEW e \in Ends, ReceiveEof(e) PROVE IInv'
<1> USE DEF IInv
<1>1. LinkersBalance' /\ TableInv' /\ CallInv' /\ Grows BY TableStill DEF ReceiveEof
<1>2. /\ chan' \in Channels
      /\ \A f \in Ends : Elems(chan'[f]) \subseteq Elems(chan[f])
  BY ReadShrinks DEF ReceiveEof, Reading
<1>3. Nobody \in Pids BY RpcAssumption DEF Nobody, Pids
<1>4. known' \in Pids /\ conn' \in [Ends -> BOOLEAN] BY <1>3 DEF ReceiveEof, TypeOK
<1>5. TypeOK' BY <1>2, <1>4 DEF ReceiveEof, TypeOK, Channels, link
<1>6. MessageInv' BY <1>1, <1>2, MessagesStep DEF ReceiveEof, Ends
<1> QED BY <1>1, <1>5, <1>6

LEMMA ReceiveUnRegisterStep == ASSUME IInv, ReceiveUnRegister PROVE IInv'
<1> USE DEF IInv
<1>1. LinkersBalance' /\ TableInv' /\ CallInv' /\ Grows BY TableStill DEF ReceiveUnRegister
<1>2. /\ chan' \in Channels
      /\ \A f \in Ends : Elems(chan'[f]) \subseteq Elems(chan[f])
  <2>1. "client" \in Ends BY DEF Ends
  <2> QED BY <2>1, ReadShrinks DEF ReceiveUnRegister, Reading
<1>3. Nobody \in Pids BY RpcAssumption DEF Nobody, Pids
<1>4. TypeOK' BY <1>2, <1>3 DEF ReceiveUnRegister, TypeOK, Channels, link
<1>5. MessageInv' BY <1>1, <1>2, MessagesStep DEF ReceiveUnRegister, Ends
<1> QED BY <1>1, <1>4, <1>5

LEMMA Registered ==
    ASSUME NEW m \in Messages, m.type = "REGISTER" PROVE m.pid \in Pids
BY DEF Messages, Requests, Eof, UnRegisterMsg, RegisterMsg

LEMMA ReceiveRegisterStep == ASSUME IInv, ReceiveRegister PROVE IInv'
<1> USE DEF IInv
<1>1. "client" \in Ends BY DEF Ends
<1>2. /\ chan' \in Channels
      /\ \A f \in Ends : Elems(chan'[f]) \subseteq Elems(chan[f])
      /\ chan["client"][1] \in Messages
  BY <1>1, ReadShrinks DEF ReceiveRegister, Reading
<1>3. chan["client"][1].pid \in Pids BY <1>2, Registered DEF ReceiveRegister, Reading
<1>4. /\ stub' \in Stubs /\ stub'.calls = stub.calls /\ stub'.pid = stub.pid
  BY <1>3 DEF ReceiveRegister, TypeOK, Stubs
<1>5. LinkersBalance' /\ TableInv' /\ CallInv' /\ Grows
  BY <1>4, TableStill DEF ReceiveRegister
<1>6. known' \in Pids BY <1>3 DEF ReceiveRegister, TypeOK
<1>7. TypeOK' BY <1>2, <1>4, <1>6 DEF ReceiveRegister, TypeOK, Channels, link
<1>8. MessageInv' BY <1>2, <1>5, MessagesStep DEF ReceiveRegister, Ends
<1> QED BY <1>5, <1>7, <1>8
LEMMA CastStep == ASSUME IInv, Cast PROVE IInv'
<1> USE DEF IInv
<1>0. PICK m : m = Message(stub.pid, stub.service, 0, NoCall) OBVIOUS
<1>1. LinkersBalance' /\ TableInv' /\ CallInv' /\ Grows BY TableStill DEF Cast
<1>2. 0 \in Sessions BY RpcAssumption DEF Sessions
<1>3. stub.pid \in Pids /\ stub.service \in Pids BY DEF TypeOK, Stubs
<1>4. m \in Messages BY <1>0, <1>2, <1>3, MessageTyped
<1>5. m.call = NoCall BY <1>0 DEF Message
<1>6. IsRequest(m)' BY <1>5, NotOfACall
<1>7. "service" \in Ends /\ "client" \in Ends /\ chan \in Channels BY DEF Ends, TypeOK, Channels
<1>8. Posted(stub, m) \in {<<>>, <<m>>} BY DEF Posted
<1>9. /\ chan' \in Channels
      /\ Elems(chan'["service"]) \subseteq Elems(chan["service"]) \cup {m}
      /\ chan'["client"] = chan["client"]
  <2>1. chan' = Sent(chan, "service", Posted(stub, m)) BY <1>0 DEF Cast
  <2> QED BY <1>4, <1>7, <1>8, <2>1, SentToService
<1>10. casts' \in 0 .. MaxCasts BY RpcAssumption DEF Cast, TypeOK
<1>11. TypeOK' BY <1>9, <1>10 DEF Cast, TypeOK, Channels, link
<1>12. MessageInv' BY <1>1, <1>6, <1>9, MessagesStep DEF Cast
<1> QED BY <1>1, <1>11, <1>12

LEMMA SetupServiceStep == ASSUME IInv, SetupService PROVE IInv'
<1> USE DEF IInv
<1>0. PICK m : m = RegisterMsg(pids["service"] + 1) OBVIOUS
<1>1. LinkersBalance' /\ TableInv' /\ CallInv' /\ Grows BY TableStill DEF SetupService
<1>2. "service" \in Ends /\ "client" \in Ends /\ chan \in Channels BY DEF Ends, TypeOK, Channels
<1>3. pids["service"] + 1 \in Pids BY <1>2, RpcAssumption DEF SetupService, TypeOK, Pids
<1>4. m \in Messages /\ m.type # "MESSAGE" BY <1>0, <1>3, RegisterPlain
<1>5. IsAnswer(m)' BY <1>4, NotOfACall
<1>6. /\ chan' \in Channels
      /\ Elems(chan'["client"]) \subseteq Elems(chan["client"]) \cup {m}
      /\ chan'["service"] = chan["service"]
  <2>1. chan' = Sent(chan, "client", <<m>>) BY <1>0 DEF SetupService
  <2> QED BY <1>2, <1>4, <2>1, SentToClient
<1>7. pids' \in [Ends -> Pids] /\ service' \in Pids BY <1>3 DEF SetupService, TypeOK
<1>8. TypeOK' BY <1>6, <1>7 DEF SetupService, TypeOK, Channels, link
<1>9. MessageInv' BY <1>1, <1>5, <1>6, MessagesStep DEF SetupService
<1> QED BY <1>1, <1>8, <1>9

LEMMA DestroyServiceStep == ASSUME IInv, DestroyService PROVE IInv'
<1> USE DEF IInv
<1>1. LinkersBalance' /\ TableInv' /\ CallInv' /\ Grows BY TableStill DEF DestroyService
<1>2. "service" \in Ends /\ "client" \in Ends /\ chan \in Channels BY DEF Ends, TypeOK, Channels
<1>3. IsAnswer(UnRegisterMsg)' BY UnRegisterPlain, NotOfACall
<1>4. /\ chan' \in Channels
      /\ Elems(chan'["client"]) \subseteq Elems(chan["client"]) \cup {UnRegisterMsg}
      /\ chan'["service"] = chan["service"]
  <2>1. chan' = Sent(chan, "client", <<UnRegisterMsg>>) BY DEF DestroyService
  <2> QED BY <1>2, <2>1, SentToClient, UnRegisterPlain
<1>5. Nobody \in Pids BY RpcAssumption DEF Nobody, Pids
<1>6. TypeOK' BY <1>4, <1>5, FaultTyped DEF DestroyService, TypeOK, Channels, link
<1>7. MessageInv' BY <1>1, <1>3, <1>4, MessagesStep DEF DestroyService
<1> QED BY <1>1, <1>6, <1>7

\* The service answers to where the request came from, with its session.
LEMMA ReplyStep == ASSUME IInv, NEW msg \in working, Reply(msg) PROVE IInv'
<1> USE DEF IInv
<1>0. PICK m : m = ReplyMsg(msg) OBVIOUS
<1>1. LinkersBalance' /\ TableInv' /\ CallInv' /\ Grows BY TableStill DEF Reply
<1>2. "service" \in Ends /\ "client" \in Ends /\ chan \in Channels BY DEF Ends, TypeOK, Channels
<1>3. msg \in Requests BY DEF TypeOK
<1>4. m \in Messages
  <2>1. /\ service \in Pids /\ msg.from \in Pids /\ msg.session \in Sessions
        /\ msg.call \in Calls \cup {NoCall}
    BY <1>3 DEF TypeOK, Requests
  <2> QED BY <1>0, <2>1, MessageTyped DEF ReplyMsg
<1>5. /\ msg.type = "MESSAGE" /\ m.type = "MESSAGE" /\ m.call = msg.call
      /\ m.session = msg.session /\ m.to = msg.from
  BY <1>0, <1>3 DEF ReplyMsg, Message, Requests
<1>6. IsRequest(msg) BY DEF MessageInv
<1>7. IsAnswer(m) BY <1>5, <1>6 DEF IsAnswer, IsRequest, Carries, OfOpenCall
<1>8. IsAnswer(m)' BY <1>1, <1>4, <1>7, AnswerKept
<1>9. /\ chan' \in Channels
      /\ Elems(chan'["client"]) \subseteq Elems(chan["client"]) \cup {m}
      /\ chan'["service"] = chan["service"]
  <2>1. chan' = Sent(chan, "client", <<m>>) BY <1>0 DEF Reply
  <2> QED BY <1>2, <1>4, <2>1, SentToClient
<1>10. TypeOK' BY <1>9 DEF Reply, TypeOK, Channels, link
<1>11. MessageInv' BY <1>1, <1>8, <1>9, MessagesStep DEF Reply
<1> QED BY <1>1, <1>10, <1>11

LEMMA ReceiveRequestStep == ASSUME IInv, ReceiveRequest PROVE IInv'
<1> USE DEF IInv
<1> DEFINE msg == chan["service"][1]
<1>0. PICK m : m = Message(service, msg.from, 0, NoCall) OBVIOUS
<1>1. LinkersBalance' /\ TableInv' /\ CallInv' /\ Grows BY TableStill DEF ReceiveRequest
<1>2. "service" \in Ends /\ "client" \in Ends /\ chan \in Channels BY DEF Ends, TypeOK, Channels
<1>3. chan["service"] # <<>> /\ msg.type = "MESSAGE" BY DEF ReceiveRequest, Reading
<1>4. /\ Read(chan, "service") \in Channels
      /\ Elems(Read(chan, "service")["service"]) \subseteq Elems(chan["service"])
      /\ Read(chan, "service")["client"] = chan["client"]
      /\ msg \in Elems(chan["service"]) /\ msg \in Messages
  BY <1>2, <1>3, ReadTakes
<1>5. msg \in Requests BY <1>3, <1>4, Numbered
<1>6. m \in Messages
  <2>1. service \in Pids /\ msg.from \in Pids BY <1>5 DEF TypeOK, Requests
  <2>2. 0 \in Sessions BY RpcAssumption DEF Sessions
  <2> QED BY <1>0, <2>1, <2>2, MessageTyped
<1>7. m.call = NoCall BY <1>0 DEF Message
<1>8. IsAnswer(m)' BY <1>7, NotOfACall
<1>9. CASE chan' = Read(chan, "service") /\ working' \in {working, working \cup {msg}}
  <2>1. TypeOK' BY <1>4, <1>5, <1>9 DEF ReceiveRequest, TypeOK, Channels, link
  <2>2. \A x \in working' : x \in working \/ x \in Elems(chan["service"]) BY <1>4, <1>9
  <2>3. MessageInv' BY <1>1, <1>4, <1>9, <2>2, MessagesStep
  <2> QED BY <1>1, <2>1, <2>3
<1>10. CASE chan' = Sent(Read(chan, "service"), "client", <<m>>) /\ working' = working
  <2>1. /\ chan' \in Channels
        /\ Elems(chan'["client"]) \subseteq Elems(chan["client"]) \cup {m}
        /\ Elems(chan'["service"]) \subseteq Elems(chan["service"])
    BY <1>2, <1>4, <1>6, <1>10, SentToClient
  <2>2. TypeOK' BY <1>10, <2>1 DEF ReceiveRequest, TypeOK, Channels, link
  <2>3. MessageInv' BY <1>1, <1>8, <1>10, <2>1, MessagesStep
  <2> QED BY <1>1, <2>2, <2>3
<1> QED BY <1>0, <1>9, <1>10 DEF ReceiveRequest
-----------------------------------------------------------------------------
(* Steps that change the table, or the callers *)

\* A stub with no calls: before its first one, and when there is none.
LEMMA EmptyTable ==
    ASSUME IInv, stub'.calls = NoStub.calls, \A c \in Calls : call'[c].phase # "open"
    PROVE  Entries(stub') = {} /\ TableInv'
<1>1. \A s \in Sessions : stub'.calls[s] = NoCall BY DEF NoStub
<1>2. Entries(stub') = {} BY <1>1 DEF Entries
<1> QED BY <1>1, <1>2 DEF TableInv

LEMMA BeginSetupStep == ASSUME IInv, BeginSetup PROVE IInv'
<1> USE DEF IInv
<1>1. Entries(stub) = {} BY DEF BeginSetup, CallInv
<1>2. \A c \in Calls : call[c].phase # "open" BY <1>1 DEF TableInv
<1>3. call' = call /\ chan' = chan /\ working' = working BY DEF BeginSetup
<1>4. pids["client"] + 1 \in Pids BY RpcAssumption DEF BeginSetup, TypeOK, Pids, Ends
<1>5. stub' \in Stubs /\ stub'.calls = NoStub.calls
  BY <1>4, NoStubTyped DEF BeginSetup, TypeOK, Stubs
<1>6. Entries(stub') = {} /\ TableInv' BY <1>2, <1>3, <1>5, EmptyTable
<1>7. LinkersBalance' BY <1>1, <1>3, <1>6 DEF LinkersBalance
<1>8. CallInv' BY <1>3, <1>6 DEF CallInv
<1>9. Grows BY <1>2, <1>3 DEF Grows
<1>10. MessageInv' BY <1>3, <1>9, MessagesStep
<1>11. pids' \in [Ends -> Pids] BY <1>4 DEF BeginSetup, TypeOK
<1>12. TypeOK' BY <1>5, <1>11 DEF BeginSetup, TypeOK, link
<1> QED BY <1>6, <1>7, <1>8, <1>10, <1>12

\* No call is open when its process has gone: an open one has no answers.
LEMMA CrashClientStep == ASSUME IInv, CrashClient PROVE IInv'
<1> USE DEF IInv
<1>1. stub' = NoStub BY DEF CrashClient
<1>2. ASSUME NEW c \in Calls
      PROVE  /\ call'[c] \in CallStates
             /\ call'[c].refs = 0 /\ call'[c].held = FALSE
             /\ call'[c].answers = call[c].answers
             /\ call'[c].phase # "open"
             /\ call[c].phase # "idle" => call'[c].phase # "idle"
             /\ call'[c].phase = "idle" => call[c].phase = "idle"
  <2>1. call[c] \in CallStates BY DEF TypeOK
  <2>2. call'[c] = [call[c] EXCEPT
           !.phase = IF @ # "idle" /\ c \notin call[c].answers THEN "lost" ELSE @,
           !.refs = 0, !.held = FALSE]
    BY DEF CrashClient
  <2>3. call[c].phase = "open" => c \notin call[c].answers BY DEF CallInv
  <2>4. /\ call'[c].refs = 0 /\ call'[c].held = FALSE
        /\ call'[c].answers = call[c].answers /\ call'[c].to = call[c].to
        /\ call'[c].phase \in {call[c].phase, "lost"}
    BY <2>1, <2>2 DEF CallStates
  <2>5. /\ call'[c].phase # "open"
        /\ call[c].phase # "idle" => call'[c].phase # "idle"
        /\ call'[c].phase = "idle" => call[c].phase = "idle"
    BY <2>1, <2>2, <2>3 DEF CallStates
  <2>6. PICK p \in {call[c].phase, "lost"} :
          call'[c] = [call[c] EXCEPT !.phase = p, !.refs = 0, !.held = FALSE]
    BY <2>2
  <2>7. call'[c] \in CallStates
    <3>1. p \in {"idle", "open", "answered", "threw", "dropped", "lost"} BY <2>1 DEF CallStates
    <3>2. 0 \in 0 .. 2 /\ FALSE \in BOOLEAN OBVIOUS
    <3> QED BY <2>1, <2>6, <3>1, <3>2 DEF CallStates
  <2> QED BY <2>4, <2>5, <2>7
<1>3. stub'.calls = NoStub.calls /\ stub'.pid = Nobody BY <1>1 DEF NoStub
<1>4. Entries(stub') = {} /\ TableInv' BY <1>2, <1>3, EmptyTable
<1>5. LinkersBalance'
  <2> SUFFICES ASSUME NEW c \in Linked
               PROVE  call'[c].refs = One(c \in Entries(stub')) + One(call'[c].held)
    BY DEF LinkersBalance
  <2>1. c \in Calls /\ One(c \in Entries(stub')) = 0 BY <1>4, RpcAssumption DEF One
  <2>2. call'[c].refs = One(call'[c].held) BY <1>2, <2>1 DEF One
  <2>3. One(call'[c].held) \in Nat BY DEF One
  <2> QED BY <2>1, <2>2, <2>3
<1>6. CallInv' BY <1>2, <1>4 DEF CallInv
<1>7. Grows BY <1>2 DEF Grows
<1>8. "client" \in Ends /\ "service" \in Ends BY DEF Ends
<1>9. call' \in [Calls -> CallStates] BY <1>2 DEF CrashClient
<1>10. Nobody \in Pids BY RpcAssumption DEF Nobody, Pids
<1>11. stub' \in Stubs BY <1>1, NoStubTyped
<1>12. TypeOK' BY <1>8, <1>9, <1>10, <1>11, CrashedLink DEF CrashClient, TypeOK, Channels
<1>13. IsRequest(Eof)' /\ IsAnswer(Eof)' BY EofPlain, NotOfACall
<1>14. \A f \in Ends : Elems(chan'[f]) \subseteq Elems(chan[f]) \cup {Eof}
  BY <1>8, CrashedLink DEF CrashClient
<1>15. MessageInv' BY <1>7, <1>8, <1>13, <1>14, MessagesStep DEF CrashClient
<1> QED BY <1>4, <1>5, <1>6, <1>12, <1>15

LEMMA DestroyStubStep == ASSUME IInv, DestroyStub PROVE IInv'
<1> USE DEF IInv
<1>1. stub' = NoStub /\ chan' = chan /\ working' = working BY DEF DestroyStub
<1>2. ASSUME NEW c \in Calls
      PROVE  /\ call'[c] \in CallStates
             /\ c \in Linked => call'[c].refs = One(call[c].held)
             /\ c \notin Linked => call'[c].refs = call[c].refs
             /\ call'[c].held = call[c].held
             /\ call'[c].answers = call[c].answers
             /\ call'[c].phase # "open"
             /\ call[c].phase # "idle" => call'[c].phase # "idle"
             /\ call'[c].phase = "idle" => call[c].phase = "idle"
  <2>1. call[c] \in CallStates BY DEF TypeOK
  <2>2. call'[c] = [call[c] EXCEPT
           !.phase = IF @ = "open" THEN "dropped" ELSE @,
           !.refs = IF c \in Entries(stub) \cap Linked THEN @ - 1 ELSE @]
    BY DEF DestroyStub
  <2>3. c \in Linked => call[c].refs = One(c \in Entries(stub)) + One(call[c].held)
    BY DEF LinkersBalance
  <2>4. /\ call'[c].held = call[c].held
        /\ call'[c].answers = call[c].answers
        /\ call'[c].phase # "open"
        /\ call[c].phase # "idle" => call'[c].phase # "idle"
        /\ call'[c].phase = "idle" => call[c].phase = "idle"
    BY <2>1, <2>2 DEF CallStates
  <2>5. call'[c].refs = IF c \in Entries(stub) \cap Linked THEN call[c].refs - 1 ELSE call[c].refs
    BY <2>1, <2>2 DEF CallStates
  <2>6. c \in Linked => call'[c].refs = One(call[c].held)
    BY <2>3, <2>5 DEF One
  <2>7. c \notin Linked => call'[c].refs = call[c].refs BY <2>5
  <2>8. call[c].refs \in 0 .. 2 /\ call[c].held \in BOOLEAN BY <2>1 DEF CallStates
  <2>9. call'[c].refs \in 0 .. 2 BY <2>6, <2>7, <2>8 DEF One
  <2>10. call'[c] \in CallStates BY <2>1, <2>2, <2>5, <2>9 DEF CallStates
  <2> QED BY <2>4, <2>6, <2>7, <2>10
<1>3. stub'.calls = NoStub.calls /\ stub'.pid = Nobody BY <1>1 DEF NoStub
<1>4. Entries(stub') = {} /\ TableInv' BY <1>2, <1>3, EmptyTable
<1>5. LinkersBalance'
  <2> SUFFICES ASSUME NEW c \in Linked
               PROVE  call'[c].refs = One(c \in Entries(stub')) + One(call'[c].held)
    BY DEF LinkersBalance
  <2>1. c \in Calls /\ One(c \in Entries(stub')) = 0 BY <1>4, RpcAssumption DEF One
  <2>2. call'[c].refs = One(call'[c].held) BY <1>2, <2>1 DEF One
  <2>3. One(call'[c].held) \in Nat BY DEF One
  <2> QED BY <2>1, <2>2, <2>3
<1>6. CallInv' BY <1>2, <1>4 DEF CallInv
<1>7. Grows BY <1>2 DEF Grows
<1>8. call' \in [Calls -> CallStates] BY <1>2 DEF DestroyStub
<1>9. stub' \in Stubs BY <1>1, NoStubTyped
<1>10. TypeOK' BY <1>8, <1>9, FaultTyped DEF DestroyStub, TypeOK, link
<1>11. MessageInv' BY <1>1, <1>7, MessagesStep
<1> QED BY <1>4, <1>5, <1>6, <1>10, <1>11

LEMMA ReleaseLinkerStep == ASSUME IInv, NEW c \in Calls, ReleaseLinker(c) PROVE IInv'
<1> USE DEF IInv
<1>1. stub' = stub /\ chan' = chan /\ working' = working BY DEF ReleaseLinker
<1>2. Entries(stub') = Entries(stub) BY <1>1
<1>3. \A d \in Calls \ {c} : call'[d] = call[d] BY DEF ReleaseLinker, TypeOK
<1>4. call[c] \in CallStates /\ c \in Linked BY DEF TypeOK, CallInv, ReleaseLinker
<1>5. call[c].refs = One(c \in Entries(stub)) + 1 BY <1>4 DEF LinkersBalance, One, ReleaseLinker
<1>6. call'[c] = [call[c] EXCEPT !.held = FALSE, !.refs = @ - 1,
                                 !.phase = IF @ = "open" THEN "dropped" ELSE @]
  BY <1>4 DEF ReleaseLinker, TypeOK, CallStates
<1>7. /\ call'[c] \in CallStates
      /\ call'[c].refs = One(c \in Entries(stub)) /\ call'[c].held = FALSE
      /\ call'[c].answers = call[c].answers
      /\ call'[c].phase # "open"
      /\ call[c].phase # "idle" => call'[c].phase # "idle"
      /\ call'[c].phase = "idle" => call[c].phase = "idle"
  <2>1. /\ call'[c].held = FALSE /\ call'[c].refs = call[c].refs - 1
        /\ call'[c].answers = call[c].answers
        /\ call'[c].phase # "open"
        /\ call[c].phase # "idle" => call'[c].phase # "idle"
        /\ call'[c].phase = "idle" => call[c].phase = "idle"
    BY <1>4, <1>6 DEF CallStates
  <2>2. call'[c].refs = One(c \in Entries(stub)) BY <1>5, <2>1 DEF One
  <2>3. call[c].refs - 1 \in 0 .. 2 BY <1>5 DEF One
  <2>4. call'[c] \in CallStates BY <1>4, <1>6, <2>3 DEF CallStates
  <2> QED BY <2>1, <2>2, <2>4
<1>8. LinkersBalance'
  <2> SUFFICES ASSUME NEW d \in Linked
               PROVE  call'[d].refs = One(d \in Entries(stub)) + One(call'[d].held)
    BY <1>2 DEF LinkersBalance
  <2>1. CASE d = c BY <1>7, <2>1 DEF One
  <2>2. CASE d # c
    <3>1. call'[d] = call[d] BY <1>3, <2>2, RpcAssumption
    <3> QED BY <3>1 DEF LinkersBalance
  <2> QED BY <2>1, <2>2
<1>9. TableInv' BY <1>1, <1>2, <1>3, <1>7 DEF TableInv
<1>10. CallInv' BY <1>1, <1>2, <1>3, <1>4, <1>7 DEF CallInv
<1>11. Grows BY <1>1, <1>3, <1>7 DEF Grows
<1>12. call' \in [Calls -> CallStates]
  <2>1. \A d \in Calls : call'[d] \in CallStates BY <1>3, <1>7 DEF TypeOK
  <2>2. call' = [d \in Calls |-> call'[d]] BY DEF ReleaseLinker, TypeOK
  <2> QED BY <2>1, <2>2
<1>13. TypeOK' BY <1>1, <1>12 DEF ReleaseLinker, TypeOK, link
<1>14. MessageInv' BY <1>1, <1>11, MessagesStep
<1> QED BY <1>8, <1>9, <1>10, <1>13, <1>14
-----------------------------------------------------------------------------
(* The table and one call, when entries come and go *)

OneSlotEach(st) ==
    \A s, t \in Sessions : st.calls[s] = st.calls[t] /\ st.calls[s] # NoCall => s = t

\* What the invariant says of one call, when the table has the entries E.
Fits(c, rec, E) ==
    /\ rec \in CallStates
    /\ c \in E => rec.phase # "idle"
    /\ rec.phase = "open" => c \in E
    /\ rec.phase \in {"idle", "open"} => rec.answers = {}
    /\ c \in Linked /\ rec.phase = "open" => rec.held
    /\ c \in Linked => rec.refs = One(c \in E) + One(rec.held)
    /\ c \notin Linked => rec.refs = 0 /\ ~rec.held

LEMMA AllFit ==
    ASSUME IInv, NEW c \in Calls
    PROVE  Fits(c, call[c], Entries(stub))
BY DEF IInv, TypeOK, LinkersBalance, TableInv, CallInv, Fits

LEMMA FitIsInv ==
    ASSUME OneSlotEach(stub'), stub'.pid # Nobody, call' = [c \in Calls |-> call'[c]],
           \A c \in Calls : Fits(c, call'[c], Entries(stub'))
    PROVE  call' \in [Calls -> CallStates] /\ LinkersBalance' /\ TableInv' /\ CallInv'
<1>1. call' \in [Calls -> CallStates] BY DEF Fits
<1>2. LinkersBalance'
  <2> SUFFICES ASSUME NEW c \in Linked
               PROVE  call'[c].refs = One(c \in Entries(stub')) + One(call'[c].held)
    BY DEF LinkersBalance
  <2>1. c \in Calls BY RpcAssumption
  <2> QED BY <2>1 DEF Fits
<1>3. TableInv' BY DEF TableInv, OneSlotEach, Fits
<1>4. CallInv' BY DEF CallInv, Fits
<1> QED BY <1>1, <1>2, <1>3, <1>4

\* Entries of other calls do not matter.
LEMMA FitsStill ==
    ASSUME NEW c, NEW rec, NEW E, NEW F, Fits(c, rec, E), c \in E <=> c \in F
    PROVE  Fits(c, rec, F)
BY DEF Fits, One

LEMMA ErasedTable ==
    ASSUME NEW st \in Stubs, OneSlotEach(st), NEW s \in Sessions, st.calls[s] # NoCall
    PROVE  /\ Erased(st, s) \in Stubs /\ OneSlotEach(Erased(st, s))
           /\ Erased(st, s).pid = st.pid
           /\ Entries(Erased(st, s)) = Entries(st) \ {st.calls[s]}
           /\ \A t \in Sessions : t # s => Erased(st, s).calls[t] = st.calls[t]
<1>1. Erased(st, s) \in Stubs /\ Erased(st, s).pid = st.pid BY DEF Erased, Stubs
<1>2. Erased(st, s).calls = [st.calls EXCEPT ![s] = NoCall] BY DEF Erased, Stubs
<1>3. /\ Erased(st, s).calls[s] = NoCall
      /\ \A t \in Sessions : t # s => Erased(st, s).calls[t] = st.calls[t]
  BY <1>2 DEF Stubs
<1>4. OneSlotEach(Erased(st, s)) BY <1>3 DEF OneSlotEach
<1>5. Entries(Erased(st, s)) = Entries(st) \ {st.calls[s]} BY <1>3 DEF Entries, OneSlotEach
<1> QED BY <1>1, <1>3, <1>4, <1>5

LEMMA SessionTyped == ASSUME NEW n \in Nat PROVE n % SessionMod \in Sessions
BY RpcAssumption DEF Sessions

LEMMA GenSessionTyped ==
    ASSUME NEW cur \in Sessions
    PROVE  GenSessionID(cur).session \in Sessions /\ GenSessionID(cur).cur \in Sessions
<1>1. cur + 1 \in Nat BY RpcAssumption DEF Sessions
<1>2. (cur + 1) % SessionMod \in Sessions BY <1>1, SessionTyped
<1>3. ((cur + 1) % SessionMod) + 1 \in Nat BY <1>2, RpcAssumption DEF Sessions
<1>4. (((cur + 1) % SessionMod) + 1) % SessionMod \in Sessions BY <1>3, SessionTyped
<1> QED BY <1>2, <1>4 DEF GenSessionID

LEMMA InsertedTable ==
    ASSUME IInv, ~Collisions, NEW d \in Calls, Callable(stub, d)
    PROVE  LET st == Inserted(stub, d)
               s  == GenSessionID(stub.cur).session
           IN  /\ st \in Stubs /\ OneSlotEach(st) /\ st.pid = stub.pid
               /\ s \in Sessions /\ stub.calls[s] = NoCall /\ st.calls[s] = d
               /\ \A t \in Sessions : t # s => st.calls[t] = stub.calls[t]
               /\ Entries(st) = Entries(stub) \cup {d} /\ d \notin Entries(stub)
<1> DEFINE st == Inserted(stub, d)
           s  == GenSessionID(stub.cur).session
<1>1. stub \in Stubs /\ stub.cur \in Sessions BY DEF IInv, TypeOK, Stubs
<1>2. s \in Sessions /\ GenSessionID(stub.cur).cur \in Sessions BY <1>1, GenSessionTyped
<1>3. stub.calls[s] = NoCall BY DEF Callable
<1>4. st = [stub EXCEPT !.cur = GenSessionID(stub.cur).cur, !.calls = [stub.calls EXCEPT ![s] = d]]
  BY <1>1, <1>3 DEF Inserted, Stubs
<1>5. d \notin Entries(stub) BY DEF IInv, CallInv, Callable
<1>6. \A t \in Sessions : stub.calls[t] # d BY <1>5, RpcAssumption DEF Entries
<1> HIDE DEF st, s
<1>7. st \in Stubs /\ st.pid = stub.pid BY <1>1, <1>2, <1>4 DEF Stubs
<1>8. st.calls = [stub.calls EXCEPT ![s] = d] BY <1>1, <1>4 DEF Stubs
<1>9. st.calls[s] = d /\ \A t \in Sessions : t # s => st.calls[t] = stub.calls[t]
  BY <1>1, <1>2, <1>8 DEF Stubs
<1>10. OneSlotEach(st) BY <1>6, <1>9 DEF OneSlotEach, IInv, TableInv
<1>11. Entries(st) = Entries(stub) \cup {d} BY <1>2, <1>3, <1>9, RpcAssumption DEF Entries
<1> QED BY <1>2, <1>3, <1>5, <1>7, <1>9, <1>10, <1>11 DEF st, s
LEMMA OpenedFits ==
    ASSUME IInv, ~Collisions, NEW d \in Calls, Callable(stub, d), NEW E, d \in E
    PROVE  Fits(d, Opened(stub, d), E) /\ Opened(stub, d).phase = "open"
<1>1. d \in Entries(Inserted(stub, d)) BY InsertedTable
<1>2. stub.service \in Pids BY DEF IInv, TypeOK, Stubs
<1>3. CASE d \in Linked
  <2>1. Opened(stub, d) = [NewCall EXCEPT !.phase = "open", !.to = stub.service,
                                          !.held = TRUE, !.refs = 2]
    BY <1>1, <1>3 DEF Opened
  <2>2. Opened(stub, d) = [phase |-> "open", refs |-> 2, held |-> TRUE,
                           to |-> stub.service, answers |-> {}]
    BY <2>1 DEF NewCall
  <2>3. Opened(stub, d) \in CallStates BY <1>2, <2>2 DEF CallStates
  <2> QED BY <1>3, <2>2, <2>3 DEF Fits, One
<1>4. CASE d \notin Linked
  <2>1. Opened(stub, d) = [NewCall EXCEPT !.phase = "open", !.to = stub.service,
                                          !.held = FALSE, !.refs = 0]
    <3>1. (d \in Linked) = FALSE BY <1>4
    <3> QED BY <1>1, <3>1 DEF Opened
  <2>2. Opened(stub, d) = [phase |-> "open", refs |-> 0, held |-> FALSE,
                           to |-> stub.service, answers |-> {}]
    BY <2>1 DEF NewCall
  <2>3. Opened(stub, d) \in CallStates BY <1>2, <2>2 DEF CallStates
  <2> QED BY <1>4, <2>2, <2>3 DEF Fits, One
<1> QED BY <1>3, <1>4

\* The message of a new call carries the number of its slot.
LEMMA PostedCall ==
    ASSUME IInv, ~Collisions, NEW d \in Calls, Callable(stub, d), NEW ch \in Channels,
           NEW m, m = CallMsg(stub, d), chan' = Sent(ch, "service", Posted(stub, CallMsg(stub, d))),
           call'[d].phase = "open", stub'.calls[GenSessionID(stub.cur).session] = d,
           stub'.pid = stub.pid
    PROVE  /\ chan' \in Channels /\ IsRequest(m)'
           /\ Elems(chan'["service"]) \subseteq Elems(ch["service"]) \cup {m}
           /\ chan'["client"] = ch["client"]
<1>1. GenSessionID(stub.cur).session \in Sessions BY InsertedTable
<1>2. stub.pid \in Pids /\ stub.service \in Pids BY DEF IInv, TypeOK, Stubs
<1>3. m \in Messages BY <1>1, <1>2, MessageTyped DEF CallMsg
<1>4. m.call = d /\ m.session = GenSessionID(stub.cur).session /\ m.from = stub.pid
  BY DEF CallMsg, Message
<1>5. IsRequest(m)' BY <1>4 DEF IsRequest, Carries, OfOpenCall
<1>6. PICK q : q = Posted(stub, CallMsg(stub, d)) OBVIOUS
<1>7. q = <<>> \/ q = <<m>> BY <1>6 DEF Posted
<1>8. /\ Sent(ch, "service", q) \in Channels
      /\ Elems(Sent(ch, "service", q)["service"]) \subseteq Elems(ch["service"]) \cup {m}
      /\ Sent(ch, "service", q)["client"] = ch["client"]
  BY <1>3, <1>7, SentToService
<1> QED BY <1>5, <1>6, <1>8

LEMMA CallStep ==
    ASSUME IInv, ~Collisions, NEW d \in Calls, Call(d)
    PROVE  IInv'
<1> DEFINE s == GenSessionID(stub.cur).session
<1>1. Callable(stub, d) /\ stub' = Inserted(stub, d) BY DEF Call
<1>2. /\ stub' \in Stubs /\ OneSlotEach(stub') /\ stub'.pid = stub.pid
      /\ s \in Sessions /\ stub.calls[s] = NoCall /\ stub'.calls[s] = d
      /\ \A t \in Sessions : t # s => stub'.calls[t] = stub.calls[t]
      /\ Entries(stub') = Entries(stub) \cup {d} /\ d \notin Entries(stub)
  BY <1>1, InsertedTable
<1> HIDE DEF s
<1>3. call' = [call EXCEPT ![d] = Opened(stub, d)] BY DEF Call
<1>4. call'[d] = Opened(stub, d) /\ \A c \in Calls \ {d} : call'[c] = call[c]
  BY <1>3 DEF IInv, TypeOK
<1>5. call'[d].phase = "open" /\ Fits(d, call'[d], Entries(stub'))
  BY <1>1, <1>2, <1>4, OpenedFits
<1>6. \A c \in Calls : Fits(c, call'[c], Entries(stub'))
  <2> SUFFICES ASSUME NEW c \in Calls \ {d} PROVE Fits(c, call[c], Entries(stub'))
    BY <1>4, <1>5
  <2> QED BY <1>2, AllFit, FitsStill
<1>7. call' = [c \in Calls |-> call'[c]] BY <1>3 DEF IInv, TypeOK
<1>8. stub'.pid # Nobody BY <1>1, <1>2 DEF Callable
<1>9. call' \in [Calls -> CallStates] /\ LinkersBalance' /\ TableInv' /\ CallInv'
  BY <1>2, <1>6, <1>7, <1>8, FitIsInv
<1>10. Grows
  <2> SUFFICES ASSUME NEW c \in Calls, call[c].phase # "idle"
               PROVE  /\ call'[c] = call[c]
                      /\ \A t \in Sessions : stub.calls[t] = c => stub'.calls[t] = c
    BY <1>2 DEF Grows
  <2>1. c # d BY <1>1 DEF Callable
  <2> QED BY <1>2, <1>4, <2>1, RpcAssumption
<1>11. PICK m : m = CallMsg(stub, d) OBVIOUS
<1>12. /\ chan' \in Channels /\ IsRequest(m)'
       /\ Elems(chan'["service"]) \subseteq Elems(chan["service"]) \cup {m}
       /\ chan'["client"] = chan["client"]
  <2>1. chan \in Channels BY DEF IInv, TypeOK, Channels
  <2>2. chan' = Sent(chan, "service", Posted(stub, CallMsg(stub, d))) BY DEF Call
  <2> QED BY <1>1, <1>2, <1>5, <1>11, <2>1, <2>2, PostedCall DEF s
<1>13. TypeOK' BY <1>2, <1>9, <1>12 DEF Call, IInv, TypeOK, Channels, link
<1>14. MessageInv' BY <1>10, <1>12, MessagesStep DEF Call, IInv
<1> QED BY <1>9, <1>13, <1>14 DEF IInv
-----------------------------------------------------------------------------
(* An answer arrives *)

\* Its entry goes, and with it a reference, if the call has a linker.
LEMMA ReleasedFits ==
    ASSUME NEW c, NEW rec, NEW E, Fits(c, rec, E), c \in E, rec.phase # "open"
    PROVE  Fits(c, Released(c, rec), E \ {c}) /\ Released(c, rec).phase = rec.phase
<1>1. CASE c \in Linked
  <2>1. rec \in CallStates /\ rec.held \in BOOLEAN /\ rec.refs = 1 + One(rec.held)
    BY <1>1 DEF Fits, CallStates, One
  <2>2. rec.refs - 1 = One(rec.held) /\ rec.refs - 1 \in 0 .. 2 BY <2>1 DEF One
  <2>3. Released(c, rec) = [rec EXCEPT !.refs = rec.refs - 1] BY <1>1, <2>1 DEF Released, CallStates
  <2>4. /\ Released(c, rec) \in CallStates
        /\ Released(c, rec).refs = One(rec.held)
        /\ Released(c, rec).held = rec.held
        /\ Released(c, rec).phase = rec.phase
        /\ Released(c, rec).answers = rec.answers
    BY <2>1, <2>2, <2>3 DEF CallStates
  <2> QED BY <1>1, <2>1, <2>4 DEF Fits, One
<1>2. CASE c \notin Linked
  <2>1. Released(c, rec) = rec BY <1>2 DEF Released
  <2> QED BY <1>2, <2>1 DEF Fits
<1> QED BY <1>1, <1>2

\* The callback has run.
LEMMA CalledFits ==
    ASSUME NEW c, NEW rec, NEW E, Fits(c, rec, E), NEW p \in {"answered", "threw"},
           NEW a \in SUBSET (Calls \cup {NoCall})
    PROVE  /\ Fits(c, [rec EXCEPT !.phase = p, !.answers = a], E)
           /\ [rec EXCEPT !.phase = p, !.answers = a].phase = p
<1>1. rec \in CallStates BY DEF Fits
<1>2. PICK new : new = [rec EXCEPT !.phase = p, !.answers = a] OBVIOUS
<1>3. /\ new \in CallStates /\ new.phase = p
      /\ new.refs = rec.refs /\ new.held = rec.held
  BY <1>1, <1>2 DEF CallStates
<1>4. Fits(c, new, E) BY <1>3 DEF Fits
<1> QED BY <1>2, <1>3, <1>4

\* A linker has two holders as long as its call is open.
LEMMA UnwantedClosed ==
    ASSUME IInv, NEW c \in Entries(stub), ~Wanted(c) PROVE call[c].phase # "open"
<1>1. c \in Linked /\ call[c].refs # 2 BY DEF Wanted
<1>2. c \in Calls BY <1>1, RpcAssumption
<1> QED BY <1>1, <1>2, AllFit DEF Fits, One

\* The entry of call c goes, and the call is no longer open.
LEMMA ErasingStep ==
    ASSUME IInv, NEW s \in Sessions, NEW c \in Calls, stub.calls[s] = c, stub.pid # Nobody,
           NEW rec, Fits(c, rec, Entries(stub)), rec.phase \notin {"open", "idle"},
           stub' = Erased(stub, s), call' = [call EXCEPT ![c] = Released(c, rec)]
    PROVE  /\ stub' \in Stubs /\ call' \in [Calls -> CallStates]
           /\ LinkersBalance' /\ TableInv' /\ CallInv' /\ Grows
<1>1. stub \in Stubs /\ OneSlotEach(stub) BY DEF IInv, TypeOK, TableInv, OneSlotEach
<1>2. c # NoCall /\ c \in Entries(stub) BY RpcAssumption DEF Entries
<1>3. /\ stub' \in Stubs /\ OneSlotEach(stub') /\ stub'.pid = stub.pid
      /\ Entries(stub') = Entries(stub) \ {c}
      /\ \A t \in Sessions : t # s => stub'.calls[t] = stub.calls[t]
  BY <1>1, <1>2, ErasedTable
<1>4. call'[c] = Released(c, rec) /\ \A d \in Calls \ {c} : call'[d] = call[d]
  BY DEF IInv, TypeOK
<1>5. Fits(c, call'[c], Entries(stub')) /\ call'[c].phase = rec.phase
  <2>1. PICK E : E = Entries(stub) OBVIOUS
  <2>2. Fits(c, Released(c, rec), E \ {c}) /\ Released(c, rec).phase = rec.phase
    BY <1>2, <2>1, ReleasedFits
  <2> QED BY <1>3, <1>4, <2>1, <2>2
<1>6. \A d \in Calls : Fits(d, call'[d], Entries(stub'))
  <2> SUFFICES ASSUME NEW d \in Calls \ {c} PROVE Fits(d, call[d], Entries(stub'))
    BY <1>4, <1>5
  <2> QED BY <1>3, AllFit, FitsStill
<1>7. call' = [d \in Calls |-> call'[d]] BY DEF IInv, TypeOK
<1>8. call' \in [Calls -> CallStates] /\ LinkersBalance' /\ TableInv' /\ CallInv'
  BY <1>3, <1>6, <1>7, FitIsInv
<1>9. Grows BY <1>3, <1>4, <1>5 DEF Grows
<1> QED BY <1>3, <1>8, <1>9
\* The callback makes call d before the entry of call c goes.
LEMMA NestedStep ==
    ASSUME IInv, ~Collisions, NEW s \in Sessions, NEW c \in Calls, stub.calls[s] = c,
           NEW d \in Calls \ {c}, Callable(stub, d),
           NEW rec, Fits(c, rec, Entries(stub)), rec.phase \notin {"open", "idle"},
           stub' = Erased(Inserted(stub, d), s),
           call' = [call EXCEPT ![c] = Released(c, rec), ![d] = Opened(stub, d)]
    PROVE  /\ stub' \in Stubs /\ call' \in [Calls -> CallStates]
           /\ LinkersBalance' /\ TableInv' /\ CallInv' /\ Grows
           /\ call'[d].phase = "open" /\ stub'.calls[GenSessionID(stub.cur).session] = d
           /\ stub'.pid = stub.pid
<1>1. PICK g : g = GenSessionID(stub.cur).session OBVIOUS
<1>2. PICK st : st = Inserted(stub, d) OBVIOUS
<1>3. /\ st \in Stubs /\ OneSlotEach(st) /\ st.pid = stub.pid
      /\ g \in Sessions /\ stub.calls[g] = NoCall /\ st.calls[g] = d
      /\ \A t \in Sessions : t # g => st.calls[t] = stub.calls[t]
      /\ Entries(st) = Entries(stub) \cup {d} /\ d \notin Entries(stub)
  BY <1>1, <1>2, InsertedTable
<1>4. c # NoCall /\ c \in Entries(stub) /\ g # s BY <1>3, RpcAssumption DEF Entries
<1>5. st.calls[s] = c BY <1>3, <1>4
<1>6. /\ stub' \in Stubs /\ OneSlotEach(stub') /\ stub'.pid = stub.pid
      /\ Entries(stub') = Entries(st) \ {c}
      /\ \A t \in Sessions : t # s => stub'.calls[t] = st.calls[t]
  BY <1>2, <1>3, <1>4, <1>5, ErasedTable
<1>7. stub'.calls[g] = d BY <1>3, <1>4, <1>6
<1>8. /\ call'[c] = Released(c, rec) /\ call'[d] = Opened(stub, d)
      /\ \A x \in Calls \ {c, d} : call'[x] = call[x]
  BY DEF IInv, TypeOK
<1>9. Fits(c, call'[c], Entries(stub')) /\ call'[c].phase = rec.phase
  <2>1. PICK E : E = Entries(stub) OBVIOUS
  <2>2. Fits(c, Released(c, rec), E \ {c}) /\ Released(c, rec).phase = rec.phase
    BY <1>4, <2>1, ReleasedFits
  <2> QED BY <1>6, <1>8, <2>2, FitsStill
<1>10. Fits(d, call'[d], Entries(stub')) /\ call'[d].phase = "open"
  BY <1>3, <1>6, <1>8, OpenedFits
<1>11. \A x \in Calls : Fits(x, call'[x], Entries(stub'))
  <2> SUFFICES ASSUME NEW x \in Calls \ {c, d} PROVE Fits(x, call[x], Entries(stub'))
    BY <1>8, <1>9, <1>10
  <2> QED BY <1>3, <1>6, AllFit, FitsStill
<1>12. call' = [x \in Calls |-> call'[x]] BY DEF IInv, TypeOK
<1>13. stub'.pid # Nobody BY <1>6 DEF Callable
<1>14. call' \in [Calls -> CallStates] /\ LinkersBalance' /\ TableInv' /\ CallInv'
  BY <1>6, <1>11, <1>12, <1>13, FitIsInv
<1>15. Grows
  <2> SUFFICES ASSUME NEW x \in Calls, call[x].phase # "idle", x # c
               PROVE  /\ call'[x] = call[x]
                      /\ \A t \in Sessions : stub.calls[t] = x => stub'.calls[t] = x
    BY <1>6, <1>9 DEF Grows
  <2>1. x # d BY DEF Callable
  <2>2. call'[x] = call[x] BY <1>8, <2>1
  <2>3. ASSUME NEW t \in Sessions, stub.calls[t] = x PROVE stub'.calls[t] = x
    <3>1. t # s /\ t # g BY <1>3, <2>3, RpcAssumption
    <3> QED BY <1>3, <1>6, <2>3, <3>1
  <2> QED BY <2>2, <2>3
<1> QED BY <1>1, <1>6, <1>7, <1>10, <1>14, <1>15

LEMMA ReceiveAnswerStep == ASSUME IInv, ~Collisions, ReceiveAnswer PROVE IInv'
<1>1. PICK msg : msg = chan["client"][1] OBVIOUS
<1>2. PICK c : c = stub.calls[msg.session] OBVIOUS
<1>3. PICK ch : ch = Read(chan, "client") OBVIOUS
<1>4. chan["client"] # <<>> /\ msg.type = "MESSAGE" BY <1>1 DEF ReceiveAnswer, Reading
<1>5. "client" \in Ends /\ "service" \in Ends \ {"client"} /\ chan \in Channels
  BY DEF Ends, IInv, TypeOK, Channels
<1>6. /\ ch \in Channels /\ Elems(ch["client"]) \subseteq Elems(chan["client"])
      /\ ch["service"] = chan["service"] /\ msg \in Messages
  BY <1>1, <1>3, <1>4, <1>5, ReadTakes
<1>7. msg.session \in Sessions /\ msg.call \in Calls \cup {NoCall}
  BY <1>4, <1>6, Numbered DEF Requests
<1>8. c \in Calls \cup {NoCall} BY <1>2, <1>7 DEF IInv, TypeOK, Stubs
<1>9. UNCHANGED <<pids, known, service, working, conn, link, casts, faults>> BY DEF ReceiveAnswer
<1>10. ASSUME stub' \in Stubs, call' \in [Calls -> CallStates], chan' = ch,
              LinkersBalance', TableInv', CallInv', Grows
       PROVE  IInv'
  <2>1. TypeOK' BY <1>6, <1>9, <1>10 DEF IInv, TypeOK, Channels, link
  <2>2. MessageInv' BY <1>6, <1>9, <1>10, MessagesStep DEF IInv
  <2> QED BY <1>10, <2>1, <2>2 DEF IInv
<1>11. CASE msg.to # stub.pid \/ c = NoCall
  <2>1. chan' = ch /\ stub' = stub /\ call' = call BY <1>1, <1>2, <1>3, <1>11 DEF ReceiveAnswer
  <2>2. LinkersBalance' /\ TableInv' /\ CallInv' /\ Grows BY <2>1, TableStill
  <2> QED BY <1>10, <2>1, <2>2 DEF IInv, TypeOK
<1>12. CASE msg.to = stub.pid /\ c # NoCall
  <2>1. c \in Calls /\ c \in Entries(stub) BY <1>2, <1>7, <1>8, <1>12 DEF Entries
  <2>2. Fits(c, call[c], Entries(stub)) BY <2>1, AllFit
  <2>3. call[c].phase # "idle" BY <2>1, <2>2 DEF Fits
  <2>4. stub.pid # Nobody BY <2>1 DEF IInv, CallInv
  <2>5. PICK a \in SUBSET (Calls \cup {NoCall}) : a = call[c].answers \cup {msg.call}
    BY <1>7, <2>2 DEF Fits, CallStates
  <2>6. PICK answered : answered = [call[c] EXCEPT !.phase = "answered", !.answers = a] OBVIOUS
  <2>7. PICK threw : threw = [call[c] EXCEPT !.phase = "threw", !.answers = a] OBVIOUS
  <2>8. Fits(c, answered, Entries(stub)) /\ answered.phase = "answered"
    BY <2>2, <2>6, CalledFits
  <2>9. Fits(c, threw, Entries(stub)) /\ threw.phase = "threw" BY <2>2, <2>7, CalledFits
  <2>10. CASE /\ ~Wanted(c) /\ stub' = Erased(stub, msg.session)
              /\ call' = [call EXCEPT ![c] = Released(c, call[c])] /\ chan' = ch
    <3>1. call[c].phase \notin {"open", "idle"} BY <2>1, <2>3, <2>10, UnwantedClosed
    <3>2. /\ stub' \in Stubs /\ call' \in [Calls -> CallStates]
          /\ LinkersBalance' /\ TableInv' /\ CallInv' /\ Grows
      BY <1>2, <1>7, <2>1, <2>2, <2>4, <2>10, <3>1, ErasingStep
    <3> QED BY <1>10, <2>10, <3>2
  <2>11. CASE /\ stub' = Erased(stub, msg.session)
              /\ call' = [call EXCEPT ![c] = Released(c, answered)] /\ chan' = ch
    <3>1. /\ stub' \in Stubs /\ call' \in [Calls -> CallStates]
          /\ LinkersBalance' /\ TableInv' /\ CallInv' /\ Grows
      BY <1>2, <1>7, <2>1, <2>4, <2>8, <2>11, ErasingStep
    <3> QED BY <1>10, <2>11, <3>1
  <2>12. ASSUME NEW d \in Calls \ {c}, Callable(stub, d),
                stub' = Erased(Inserted(stub, d), msg.session),
                call' = [call EXCEPT ![c] = Released(c, answered), ![d] = Opened(stub, d)],
                chan' = Sent(ch, "service", Posted(stub, CallMsg(stub, d)))
         PROVE  IInv'
    <3>1. /\ stub' \in Stubs /\ call' \in [Calls -> CallStates]
          /\ LinkersBalance' /\ TableInv' /\ CallInv' /\ Grows
          /\ call'[d].phase = "open" /\ stub'.calls[GenSessionID(stub.cur).session] = d
          /\ stub'.pid = stub.pid
      BY <1>2, <1>7, <2>1, <2>8, <2>12, NestedStep
    <3>2. PICK m : m = CallMsg(stub, d) OBVIOUS
    <3>3. /\ chan' \in Channels /\ IsRequest(m)'
          /\ Elems(chan'["service"]) \subseteq Elems(ch["service"]) \cup {m}
          /\ chan'["client"] = ch["client"]
      BY <1>6, <2>12, <3>1, <3>2, PostedCall
    <3>4. TypeOK' BY <1>9, <3>1, <3>3 DEF IInv, TypeOK, Channels, link
    <3>5. MessageInv' BY <1>6, <1>9, <3>1, <3>3, MessagesStep DEF IInv
    <3> QED BY <3>1, <3>4, <3>5 DEF IInv
  <2>13. CASE stub' = stub /\ call' = [call EXCEPT ![c] = threw] /\ chan' = ch
    <3>1. call'[c] = threw /\ \A x \in Calls \ {c} : call'[x] = call[x]
      BY <2>1, <2>13 DEF IInv, TypeOK
    <3>2. \A x \in Calls : Fits(x, call'[x], Entries(stub')) BY <2>9, <2>13, <3>1, AllFit
    <3>3. OneSlotEach(stub') /\ stub' \in Stubs
      BY <2>13 DEF IInv, TypeOK, TableInv, OneSlotEach
    <3>4. call' = [x \in Calls |-> call'[x]] BY <2>13 DEF IInv, TypeOK
    <3>5. call' \in [Calls -> CallStates] /\ LinkersBalance' /\ TableInv' /\ CallInv'
      BY <2>4, <2>13, <3>2, <3>3, <3>4, FitIsInv
    <3>6. Grows BY <2>9, <2>13, <3>1 DEF Grows
    <3> QED BY <1>10, <2>13, <3>3, <3>5, <3>6
  <2>14. [[call[c] EXCEPT !.phase = "answered", !.answers = a] EXCEPT !.phase = "threw"] = threw
    BY <2>2, <2>7 DEF Fits, CallStates
  <2> QED BY <1>1, <1>2, <1>3, <1>12, <2>5, <2>6, <2>10, <2>11, <2>12, <2>13, <2>14
          DEF ReceiveAnswer
<1> QED BY <1>11, <1>12
-----------------------------------------------------------------------------

LEMMA StutterStep == ASSUME IInv, UNCHANGED vars PROVE IInv'
<1>1. /\ stub' = stub /\ pids' = pids /\ known' = known /\ call' = call /\ service' = service
      /\ working' = working /\ conn' = conn /\ chan' = chan /\ dialler' = dialler
      /\ dial' = dial /\ casts' = casts /\ faults' = faults
  BY DEF vars
<1>2. LinkersBalance' /\ TableInv' /\ CallInv' /\ Grows BY <1>1, TableStill
<1>3. TypeOK' BY <1>1 DEF IInv, TypeOK
<1>4. MessageInv' BY <1>1, <1>2, MessagesStep DEF IInv
<1> QED BY <1>2, <1>3, <1>4 DEF IInv

LEMMA IInvStep == ASSUME ~Collisions, IInv, [Next]_vars PROVE IInv'
<1>1. CASE Connect BY <1>1, ConnectStep
<1>2. CASE Break BY <1>2, BreakStep
<1>3. CASE CrashClient BY <1>3, CrashClientStep
<1>4. CASE CrashService BY <1>4, CrashServiceStep
<1>5. CASE BeginSetup BY <1>5, BeginSetupStep
<1>6. CASE DestroyStub BY <1>6, DestroyStubStep
<1>7. CASE SetupService BY <1>7, SetupServiceStep
<1>8. CASE DestroyService BY <1>8, DestroyServiceStep
<1>9. CASE Cast BY <1>9, CastStep
<1>10. CASE \E c \in Calls : Call(c) \/ ReleaseLinker(c)
  BY <1>10, CallStep, ReleaseLinkerStep
<1>11. CASE \E msg \in working : Reply(msg) BY <1>11, ReplyStep
<1>12. CASE \E e \in Ends : ReceiveEof(e) BY <1>12, ReceiveEofStep
<1>13. CASE ReceiveRegister BY <1>13, ReceiveRegisterStep
<1>14. CASE ReceiveUnRegister BY <1>14, ReceiveUnRegisterStep
<1>15. CASE ReceiveAnswer BY <1>15, ReceiveAnswerStep
<1>16. CASE ReceiveRequest BY <1>16, ReceiveRequestStep
<1>17. CASE UNCHANGED vars BY <1>17, StutterStep
<1> QED BY <1>1, <1>2, <1>3, <1>4, <1>5, <1>6, <1>7, <1>8, <1>9, <1>10, <1>11, <1>12,
           <1>13, <1>14, <1>15, <1>16, <1>17
        DEF Next, Receive

LEMMA IInvSound == IInv => RpcSound
<1> SUFFICES ASSUME IInv PROVE RpcSound OBVIOUS
<1>1. ASSUME NEW m \in UnderWay, m.call \in Calls, call[m.call].phase = "open"
      PROVE  stub.calls[m.session] = m.call /\ stub.pid \in {m.from, m.to}
  <2>1. m.type = "MESSAGE" BY DEF UnderWay
  <2>2. IsRequest(m) \/ IsAnswer(m) BY DEF UnderWay, IInv, MessageInv
  <2> QED BY <1>1, <2>1, <2>2 DEF IsRequest, IsAnswer, Carries, OfOpenCall
<1>2. AnswersFindCalls BY <1>1 DEF AnswersFindCalls, IInv, TableInv
<1> QED BY <1>2 DEF RpcSound, IInv

\* As long as a session is not used again while the call that had it is still
\* in calls_ (GenSessionID wraps after 65535 calls, and entries never time
\* out), the stub is sound for any number of calls, sessions, casts, restarts
\* and lost connections: a linker's count is its entry and its caller, every
\* call that may still be answered has a slot of its own, and whatever travels
\* for it carries that slot's session and this stub's mailbox.
THEOREM RpcIsSound == ~Collisions => (Spec => []RpcSound)
<1> SUFFICES ASSUME ~Collisions PROVE Spec => []RpcSound OBVIOUS
<1>1. Init => IInv BY IInvInit
<1>2. IInv /\ [Next]_vars => IInv' BY IInvStep
<1>3. IInv => RpcSound BY IInvSound
<1> QED BY <1>1, <1>2, <1>3, PTL DEF Spec

-----------------------------------------------------------------------------
(* What the stub promises: the inductive invariant *)

\* A call that ended without its own answer, after some call was lost with its
\* process: what is under way for it may be taken for the answer to another.
Astray(k) ==
    /\ call[k].phase \notin {"idle", "open"}
    /\ k \notin call[k].answers
    /\ \E f \in Calls : call[f].phase = "lost"

\* What is under way between mailbox p and the service, with session s, for call
\* k: nobody was given its answer, and it leads to the slot of k, or k has gone
\* astray, or its mailbox was destroyed and the number is not given out again.
Routed(p, s, k) ==
    /\ p # Nobody
    /\ call[k].phase # "idle"
    /\ \A c \in Calls : k \notin call[c].answers
    /\ \/ p = stub.pid /\ stub.calls[s] = k
       \/ Astray(k)
       \/ p # stub.pid /\ p <= pids["client"]

Traced(m, p) ==
    m.type = "MESSAGE" =>
        IF m.call \in Calls THEN Routed(p, m.session, m.call) ELSE m.session = 0

TraceInv ==
    /\ \A m \in working : Traced(m, m.from)
    /\ \A m \in Elems(chan["service"]) : Traced(m, m.from)
    /\ \A m \in Elems(chan["client"]) : Traced(m, m.to)

\* Session 0 has no slot; a call that is still in the table waits for an answer,
\* or its callback threw, or its caller has let it go; only answers to calls that
\* were made are given.
SlotInv ==
    /\ stub.calls[0] = NoCall
    /\ stub.pid <= pids["client"]
    /\ \A c \in Entries(stub) :
          call[c].phase \in {"open", "threw"} \/ (c \in Linked /\ ~call[c].held)
    /\ \A c, k \in Calls : k \in call[c].answers => call[k].phase # "idle"
    /\ \A c \in Calls : NoCall \notin call[c].answers

\* The calls that the messages of S belong to.
Named(S) == {c \in Calls : \E m \in S : m.type = "MESSAGE" /\ m.call = c}

\* A sequence with at most one message of each call.
Once(q) ==
    \A i, j \in 1 .. Len(q) :
        /\ q[i].type = "MESSAGE" /\ q[j].type = "MESSAGE"
        /\ q[i].call \in Calls /\ q[i].call = q[j].call
        => i = j

\* A call is under way once: as a request, with the service, or as an answer.
OneEach ==
    /\ Once(chan["service"]) /\ Once(chan["client"])
    /\ \A m, n \in working : m.call \in Calls /\ m.call = n.call => m = n
    /\ Named(working) \cap Named(Elems(chan["service"])) = {}
    /\ Named(working) \cap Named(Elems(chan["client"])) = {}
    /\ Named(Elems(chan["service"])) \cap Named(Elems(chan["client"])) = {}

\* What the refinement rests on besides IInv.
PInv == TraceInv /\ SlotInv /\ OneEach

-----------------------------------------------------------------------------
(* A call is under way once *)

LEMMA OnceTail ==
    ASSUME NEW S, NEW q \in Seq(S), q # <<>>, Once(q)
    PROVE  /\ Once(Tail(q))
           /\ q[1].type = "MESSAGE" => q[1].call \notin Named(Elems(Tail(q)))
<1>1. Len(q) \in Nat /\ Len(q) >= 1 OBVIOUS
<1>2. Tail(q) \in Seq(S) /\ Len(Tail(q)) = Len(q) - 1 OBVIOUS
<1>3. \A i \in 1 .. Len(Tail(q)) : Tail(q)[i] = q[i + 1] /\ i + 1 \in 1 .. Len(q) /\ i + 1 # 1
  BY <1>1, <1>2
<1>4. Once(Tail(q))
  <2> SUFFICES ASSUME NEW i \in 1 .. Len(Tail(q)), NEW j \in 1 .. Len(Tail(q)),
                      Tail(q)[i].type = "MESSAGE", Tail(q)[j].type = "MESSAGE",
                      Tail(q)[i].call \in Calls, Tail(q)[i].call = Tail(q)[j].call
               PROVE  i = j
    BY DEF Once
  <2>1. i + 1 = j + 1 BY <1>3 DEF Once
  <2>2. i \in Nat /\ j \in Nat OBVIOUS
  <2> QED BY <2>1, <2>2
<1>5. ASSUME q[1].type = "MESSAGE", q[1].call \in Named(Elems(Tail(q))) PROVE FALSE
  <2>1. PICK i \in 1 .. Len(Tail(q)) : Tail(q)[i].type = "MESSAGE" /\ Tail(q)[i].call = q[1].call
    BY <1>5 DEF Named, Elems
  <2>2. q[1].call \in Calls BY <1>5 DEF Named
  <2>3. 1 \in 1 .. Len(q) BY <1>1
  <2> QED BY <1>3, <1>5, <2>1, <2>2, <2>3 DEF Once
<1> QED BY <1>4, <1>5

LEMMA OnceAppend ==
    ASSUME NEW S, NEW q \in Seq(S), NEW x \in S, Once(q),
           x.type = "MESSAGE" => x.call \notin Named(Elems(q))
    PROVE  Once(Append(q, x))
<1>1. Len(Append(q, x)) = Len(q) + 1 /\ Len(q) \in Nat OBVIOUS
<1>2. Append(q, x)[Len(q) + 1] = x /\ \A i \in 1 .. Len(q) : Append(q, x)[i] = q[i] OBVIOUS
<1>3. PICK r : r = Append(q, x) OBVIOUS
<1>4. PICK n \in Nat : n = Len(q) BY <1>1
<1>5. ASSUME NEW i \in 1 .. n, r[i].type = "MESSAGE", x.type = "MESSAGE",
             r[i].call \in Calls, r[i].call = x.call
      PROVE  FALSE
  <2>1. q[i] \in Elems(q) /\ r[i] = q[i] BY <1>2, <1>3, <1>4 DEF Elems
  <2> QED BY <1>5, <2>1 DEF Named
<1>6. ASSUME NEW i \in 1 .. n + 1, NEW j \in 1 .. n + 1,
             r[i].type = "MESSAGE", r[j].type = "MESSAGE",
             r[i].call \in Calls, r[i].call = r[j].call
      PROVE  i = j
  <2>1. r[n + 1] = x /\ \A k \in 1 .. n : r[k] = q[k] BY <1>2, <1>3, <1>4
  <2>2. CASE i \in 1 .. n /\ j \in 1 .. n BY <1>4, <1>6, <2>1, <2>2 DEF Once
  <2>3. CASE i \in 1 .. n /\ j = n + 1 BY <1>5, <1>6, <2>1, <2>3
  <2>4. CASE i = n + 1 /\ j \in 1 .. n BY <1>5, <1>6, <2>1, <2>4
  <2> QED BY <2>2, <2>3, <2>4
<1>7. Len(r) = n + 1 BY <1>1, <1>3, <1>4
<1> HIDE <1>3
<1>8. Once(r) BY <1>6, <1>7 DEF Once
<1> QED BY <1>3, <1>8

LEMMA OnceCut ==
    ASSUME NEW S, NEW q \in Seq(S), NEW n \in 0 .. Len(q), NEW x \in S, Once(q),
           x.type # "MESSAGE"
    PROVE  Once(Append(SubSeq(q, 1, n), x))
<1>1. SubSeq(q, 1, n) \in Seq(S) /\ Len(SubSeq(q, 1, n)) = n OBVIOUS
<1>2. \A i \in 1 .. n : SubSeq(q, 1, n)[i] = q[i] /\ i \in 1 .. Len(q) OBVIOUS
<1>3. Once(SubSeq(q, 1, n)) BY <1>1, <1>2 DEF Once
<1> QED BY <1>1, <1>3, OnceAppend

LEMMA OnceNone == Once(<<>>)
BY DEF Once

LEMMA OneIsAppend ==
    ASSUME NEW S, NEW q \in Seq(S), NEW x \in S PROVE q \o <<x>> = Append(q, x) /\ q \o <<>> = q
OBVIOUS

LEMMA OnceSent ==
    ASSUME NEW ch \in Channels, NEW e \in Ends, NEW m \in Messages, NEW q,
           q = <<>> \/ q = <<m>>, Once(ch[e]),
           m.type = "MESSAGE" => m.call \notin Named(Elems(ch[e]))
    PROVE  Once(Sent(ch, e, q)[e])
<1>1. ch[e] \in Seq(Messages) BY DEF Channels
<1>2. Once(Append(ch[e], m)) BY <1>1, OnceAppend
<1>3. ch[e] \o q \in {ch[e], Append(ch[e], m)} BY <1>1, OneIsAppend
<1>4. Sent(ch, e, q)[e] \in {ch[e], ch[e] \o q} BY DEF Sent, Channels
<1> QED BY <1>2, <1>3, <1>4

\* The messages of other kinds and of casts name no call.
LEMMA NamedLess ==
    ASSUME NEW S, NEW T, NEW x, S \subseteq T \cup {x}, x.type # "MESSAGE" \/ x.call \notin Calls
    PROVE  Named(S) \subseteq Named(T)
BY DEF Named

LEMMA NamedMore ==
    ASSUME NEW S, NEW T, NEW x, S \subseteq T \cup {x}
    PROVE  Named(S) \subseteq Named(T) \cup {x.call}
BY DEF Named

LEMMA NamedSub == ASSUME NEW S, NEW T, S \subseteq T PROVE Named(S) \subseteq Named(T)
BY DEF Named

\* Nothing new is under way.
LEMMA OneEachLess ==
    ASSUME OneEach, working' \subseteq working, Once(chan'["service"]), Once(chan'["client"]),
           Named(Elems(chan'["service"])) \subseteq Named(Elems(chan["service"])),
           Named(Elems(chan'["client"])) \subseteq Named(Elems(chan["client"]))
    PROVE  OneEach'
<1>1. Named(working') \subseteq Named(working) BY DEF Named
<1>2. \A m, n \in working' : m.call \in Calls /\ m.call = n.call => m = n BY DEF OneEach
<1> QED BY <1>1, <1>2 DEF OneEach

-----------------------------------------------------------------------------
(* Where messages lead *)

\* What is under way for a call outside K leads where it led.
Follows(K) ==
    \A k \in Calls \ K, p \in Pids, s \in Sessions : Routed(p, s, k) => Routed(p, s, k)'

Plain(x) == x.type # "MESSAGE" \/ (x.call = NoCall /\ x.session = 0)

LEMMA PlainTraced == ASSUME NEW x, Plain(x) PROVE Traced(x, x.from)' /\ Traced(x, x.to)'
BY RpcAssumption DEF Plain, Traced

LEMMA TracedKept ==
    ASSUME NEW K, Follows(K), NEW m \in Messages, NEW p, m.type = "MESSAGE" => p \in Pids,
           m.type = "MESSAGE" => m.call \notin K, Traced(m, p)
    PROVE  Traced(m, p)'
<1> SUFFICES ASSUME m.type = "MESSAGE", m.call \in Calls
             PROVE  Routed(p, m.session, m.call)'
  BY DEF Traced
<1>1. m.session \in Sessions BY Numbered DEF Requests
<1> QED BY <1>1 DEF Follows, Traced

\* A step adds to what is under way only what is traced.
LEMMA TraceStep ==
    ASSUME TypeOK, TraceInv, NEW K, Follows(K),
           \A m \in working' :
              \/ (m \in working \/ m \in Elems(chan["service"])) /\ (m.type = "MESSAGE" => m.call \notin K)
              \/ Traced(m, m.from)',
           \A m \in Elems(chan'["service"]) :
              \/ m \in Elems(chan["service"]) /\ (m.type = "MESSAGE" => m.call \notin K)
              \/ Traced(m, m.from)',
           \A m \in Elems(chan'["client"]) :
              \/ m \in Elems(chan["client"]) /\ (m.type = "MESSAGE" => m.call \notin K)
              \/ Traced(m, m.to)'
    PROVE  TraceInv'
<1>1. working \subseteq Messages BY DEF TypeOK, Messages
<1>2. \A e \in Ends : Elems(chan[e]) \subseteq Messages
  <2> SUFFICES ASSUME NEW e \in Ends, NEW i \in 1 .. Len(chan[e])
               PROVE  chan[e][i] \in Messages
    BY DEF Elems
  <2>1. chan[e] \in Seq(Messages) BY DEF TypeOK
  <2> QED BY <2>1
<1>3. "client" \in Ends /\ "service" \in Ends BY DEF Ends
<1>4. \A m \in Messages : m.type = "MESSAGE" => m.from \in Pids /\ m.to \in Pids
  BY Numbered DEF Requests
<1>5. \A m \in working' : Traced(m, m.from)'
  BY <1>1, <1>2, <1>3, <1>4, TracedKept DEF TraceInv
<1>6. \A m \in Elems(chan'["service"]) : Traced(m, m.from)'
  BY <1>2, <1>3, <1>4, TracedKept DEF TraceInv
<1>7. \A m \in Elems(chan'["client"]) : Traced(m, m.to)'
  BY <1>2, <1>3, <1>4, TracedKept DEF TraceInv
<1> QED BY <1>5, <1>6, <1>7 DEF TraceInv

\* No call is added to what is under way.
LEMMA FlowStep ==
    ASSUME TypeOK, TraceInv, OneEach, Follows({}), working' \subseteq working,
           Once(chan'["service"]), Once(chan'["client"]),
           NEW x, Plain(x), Elems(chan'["service"]) \subseteq Elems(chan["service"]) \cup {x},
           NEW y, Plain(y), Elems(chan'["client"]) \subseteq Elems(chan["client"]) \cup {y}
    PROVE  TraceInv' /\ OneEach'
<1>1. Traced(x, x.from)' /\ Traced(y, y.to)' BY PlainTraced
<1>2. TraceInv' BY <1>1, TraceStep
<1>3. Named(Elems(chan'["service"])) \subseteq Named(Elems(chan["service"]))
  BY NamedLess, RpcAssumption DEF Plain
<1>4. Named(Elems(chan'["client"])) \subseteq Named(Elems(chan["client"]))
  BY NamedLess, RpcAssumption DEF Plain
<1> QED BY <1>2, <1>3, <1>4, OneEachLess

LEMMA AstrayKept ==
    ASSUME NEW k \in Calls, Astray(k), call' = call PROVE Astray(k)'
BY DEF Astray

LEMMA FollowsStill ==
    ASSUME stub'.calls = stub.calls, stub'.pid = stub.pid, call' = call,
           pids'["client"] = pids["client"]
    PROVE  Follows({})
BY AstrayKept DEF Follows, Routed

LEMMA SlotStill ==
    ASSUME SlotInv, stub'.calls = stub.calls, stub'.pid = stub.pid, call' = call,
           pids'["client"] = pids["client"]
    PROVE  SlotInv'
<1>1. Entries(stub') = Entries(stub) BY DEF Entries
<1> QED BY <1>1 DEF SlotInv

LEMMA QuietStep ==
    ASSUME TypeOK, PInv, stub'.calls = stub.calls, stub'.pid = stub.pid, call' = call,
           pids'["client"] = pids["client"], working' \subseteq working,
           Once(chan'["service"]), Once(chan'["client"]),
           NEW x, Plain(x), Elems(chan'["service"]) \subseteq Elems(chan["service"]) \cup {x},
           NEW y, Plain(y), Elems(chan'["client"]) \subseteq Elems(chan["client"]) \cup {y}
    PROVE  PInv'
<1>1. Follows({}) BY FollowsStill
<1>2. SlotInv' BY SlotStill DEF PInv
<1>3. TraceInv' /\ OneEach' BY <1>1, FlowStep DEF PInv
<1> QED BY <1>2, <1>3 DEF PInv

LEMMA EofIsPlain == Plain(Eof) BY EofPlain DEF Plain

LEMMA PConnect == ASSUME IInv, PInv, Connect PROVE PInv'
<1>1. TypeOK BY DEF IInv
<1>2. chan'["service"] = chan["service"] BY <1>1 DEF Connect, TypeOK, Ends
<1>3. Once(chan'["service"]) BY <1>2 DEF PInv, OneEach
<1>4. PICK m \in Messages : m = RegisterMsg(service) /\ Plain(m)
  BY <1>1, RegisterPlain DEF TypeOK, Plain
<1>5. chan'["client"] \in {<<>>, <<m>>} BY <1>1, <1>4 DEF Connect, TypeOK, Ends
<1>6. Elems(chan'["client"]) \subseteq {m} BY <1>5, ElemsShort
<1>7. Once(<<m>>)
  <2>1. Once(Append(<<>>, m)) BY <1>4, OnceNone, NoneTyped, OnceAppend, ElemsShort DEF Named
  <2> QED BY <2>1
<1>8. Once(chan'["client"]) BY <1>5, <1>7, OnceNone
<1> QED BY <1>1, <1>2, <1>3, <1>4, <1>6, <1>8, QuietStep DEF Connect

LEMMA PBreak == ASSUME IInv, PInv, Break PROVE PInv'
<1>1. TypeOK BY DEF IInv
<1>2. PICK i \in 0 .. Len(chan["client"]), j \in 0 .. Len(chan["service"]) :
        chan' = [chan EXCEPT !["client"] = Append(SubSeq(@, 1, i), Eof),
                             !["service"] = Append(SubSeq(@, 1, j), Eof)]
  BY DEF Break
<1>3. chan["client"] \in Seq(Messages) /\ chan["service"] \in Seq(Messages)
  BY <1>1 DEF TypeOK, Ends
<1>4. /\ chan'["client"] = Append(SubSeq(chan["client"], 1, i), Eof)
      /\ chan'["service"] = Append(SubSeq(chan["service"], 1, j), Eof)
  BY <1>1, <1>2 DEF TypeOK, Ends
<1>5. /\ Elems(chan'["client"]) \subseteq Elems(chan["client"]) \cup {Eof}
      /\ Elems(chan'["service"]) \subseteq Elems(chan["service"]) \cup {Eof}
  BY <1>3, <1>4, ElemsCut, EofPlain
<1>6. Once(chan'["service"]) /\ Once(chan'["client"])
  BY <1>3, <1>4, OnceCut, EofPlain DEF PInv, OneEach
<1> QED BY <1>1, <1>5, <1>6, QuietStep, EofIsPlain DEF Break

\* A process that dies leaves its channel empty and the end of the stream in the other.
LEMMA CrashedOnce ==
    ASSUME TypeOK, NEW e \in Ends, Crash(e), OneEach
    PROVE  Once(chan'["service"]) /\ Once(chan'["client"])
<1>1. Other(e) \in Ends /\ Other(e) # e /\ Ends = {e, Other(e)} BY DEF Ends, Other
<1>2. chan[Other(e)] \in Seq(Messages) BY <1>1 DEF TypeOK
<1>3. \A f \in Ends : Once(chan[f]) BY DEF OneEach, Ends
<1>4. Once(Append(chan[Other(e)], Eof)) BY <1>1, <1>2, <1>3, OnceAppend, EofPlain
<1>5. chan'[e] = <<>> BY <1>1 DEF Crash, TypeOK
<1>6. chan'[Other(e)] \in {chan[Other(e)], Append(chan[Other(e)], Eof)}
  BY <1>1 DEF Crash, TypeOK
<1>7. \A f \in Ends : Once(chan'[f]) BY <1>1, <1>3, <1>4, <1>5, <1>6, OnceNone
<1> QED BY <1>7 DEF Ends

LEMMA PCrashService == ASSUME IInv, PInv, CrashService PROVE PInv'
<1>1. TypeOK /\ Crash("service") BY DEF IInv, CrashService
<1>2. "client" \in Ends /\ "service" \in Ends BY DEF Ends
<1>3. \A f \in Ends : Elems(chan'[f]) \subseteq Elems(chan[f]) \cup {Eof}
  BY <1>1, <1>2, CrashedLink
<1>4. Once(chan'["service"]) /\ Once(chan'["client"])
  BY <1>1, <1>2, CrashedOnce DEF PInv
<1>5. pids'["client"] = pids["client"] BY <1>1 DEF Crash, TypeOK, Ends
<1> QED BY <1>1, <1>2, <1>3, <1>4, <1>5, QuietStep, EofIsPlain DEF CrashService

\* A message that is read and leaves no other trace.
LEMMA ReadOnce ==
    ASSUME TypeOK, OneEach, NEW e \in Ends, chan[e] # <<>>, NEW ch, ch = Read(chan, e)
    PROVE  /\ ch \in Channels
           /\ \A f \in Ends : Once(ch[f]) /\ Elems(ch[f]) \subseteq Elems(chan[f])
           /\ chan[e][1] \in Elems(chan[e]) /\ chan[e][1] \in Messages
           /\ chan[e][1].type = "MESSAGE" => chan[e][1].call \notin Named(Elems(ch[e]))
<1>1. chan \in Channels /\ chan[e] \in Seq(Messages) BY DEF TypeOK, Channels
<1>2. /\ ch \in Channels
      /\ Elems(ch[e]) \subseteq Elems(chan[e])
      /\ \A f \in Ends \ {e} : ch[f] = chan[f]
      /\ chan[e][1] \in Elems(chan[e]) /\ chan[e][1] \in Messages
  BY <1>1, ReadTakes
<1>3. \A f \in Ends : Once(chan[f]) BY DEF OneEach, Ends
<1>4. ch[e] = Tail(chan[e]) BY <1>1 DEF Read, Channels
<1>5. /\ Once(ch[e])
      /\ chan[e][1].type = "MESSAGE" => chan[e][1].call \notin Named(Elems(ch[e]))
  BY <1>1, <1>3, <1>4, OnceTail
<1>6. ASSUME NEW f \in Ends PROVE Once(ch[f]) /\ Elems(ch[f]) \subseteq Elems(chan[f])
  <2>1. CASE f = e BY <1>2, <1>5, <2>1
  <2>2. CASE f # e
    <3>1. ch[f] = chan[f] BY <1>2, <2>2
    <3> QED BY <1>3, <3>1
  <2> QED BY <2>1, <2>2
<1> QED BY <1>2, <1>5, <1>6

LEMMA QuietRead ==
    ASSUME IInv, PInv, NEW e \in Ends, chan[e] # <<>>, chan' = Read(chan, e),
           stub'.calls = stub.calls, stub'.pid = stub.pid, call' = call,
           pids' = pids, working' = working
    PROVE  PInv'
<1>1. TypeOK /\ OneEach BY DEF IInv, PInv
<1>2. PICK ch : ch = Read(chan, e) OBVIOUS
<1>3. \A f \in Ends : Once(ch[f]) /\ Elems(ch[f]) \subseteq Elems(chan[f])
  BY <1>1, <1>2, ReadOnce
<1>4. chan' = ch BY <1>2
<1>5. "client" \in Ends /\ "service" \in Ends BY DEF Ends
<1> QED BY <1>1, <1>3, <1>4, <1>5, QuietStep, EofIsPlain

LEMMA PReceiveEof == ASSUME IInv, PInv, NEW e \in Ends, ReceiveEof(e) PROVE PInv'
BY QuietRead DEF ReceiveEof, Reading

LEMMA PReceiveUnRegister == ASSUME IInv, PInv, ReceiveUnRegister PROVE PInv'
<1>1. "client" \in Ends BY DEF Ends
<1> QED BY <1>1, QuietRead DEF ReceiveUnRegister, Reading

LEMMA PReceiveRegister == ASSUME IInv, PInv, ReceiveRegister PROVE PInv'
<1>1. "client" \in Ends BY DEF Ends
<1>2. stub'.calls = stub.calls /\ stub'.pid = stub.pid
  BY DEF ReceiveRegister, IInv, TypeOK, Stubs
<1> QED BY <1>1, <1>2, QuietRead DEF ReceiveRegister, Reading

\* Something that is no call is sent to one end.
LEMMA QuietSent ==
    ASSUME IInv, PInv, NEW e \in Ends, NEW ch \in Channels,
           \A f \in Ends : Once(ch[f]) /\ Elems(ch[f]) \subseteq Elems(chan[f]),
           NEW m \in Messages, Plain(m), NEW q, q = <<>> \/ q = <<m>>, chan' = Sent(ch, e, q),
           stub'.calls = stub.calls, stub'.pid = stub.pid, call' = call,
           pids'["client"] = pids["client"], working' \subseteq working
    PROVE  PInv'
<1>1. TypeOK BY DEF IInv
<1>2. m.type = "MESSAGE" => m.call \notin Named(Elems(ch[e]))
  BY RpcAssumption DEF Plain, Named
<1>3. Once(Sent(ch, e, q)[e]) BY <1>2, OnceSent
<1>4. q \in Seq(Messages) /\ Elems(q) \subseteq {m} BY OneTyped, NoneTyped, ElemsShort
<1>5. /\ Elems(Sent(ch, e, q)[e]) \subseteq Elems(ch[e]) \cup Elems(q)
      /\ \A f \in Ends \ {e} : Sent(ch, e, q)[f] = ch[f]
  BY <1>4, SentAdds
<1>6. ASSUME NEW f \in Ends
      PROVE  Once(chan'[f]) /\ Elems(chan'[f]) \subseteq Elems(chan[f]) \cup {m}
  <2>1. CASE f = e BY <1>3, <1>4, <1>5, <2>1
  <2>2. CASE f # e
    <3>1. chan'[f] = ch[f] BY <1>5, <2>2
    <3> QED BY <3>1
  <2> QED BY <2>1, <2>2
<1>7. "client" \in Ends /\ "service" \in Ends BY DEF Ends
<1>8. /\ Once(chan'["service"]) /\ Once(chan'["client"])
      /\ Elems(chan'["service"]) \subseteq Elems(chan["service"]) \cup {m}
      /\ Elems(chan'["client"]) \subseteq Elems(chan["client"]) \cup {m}
  BY <1>6, <1>7
<1> QED BY <1>1, <1>8, QuietStep

LEMMA ChanOnce ==
    ASSUME IInv, PInv
    PROVE  chan \in Channels /\ \A f \in Ends : Once(chan[f]) /\ Elems(chan[f]) \subseteq Elems(chan[f])
BY DEF IInv, TypeOK, Channels, PInv, OneEach, Ends

LEMMA PCast == ASSUME IInv, PInv, Cast PROVE PInv'
<1>1. PICK m : m = Message(stub.pid, stub.service, 0, NoCall) OBVIOUS
<1>2. 0 \in Sessions BY RpcAssumption DEF Sessions
<1>3. stub.pid \in Pids /\ stub.service \in Pids BY DEF IInv, TypeOK, Stubs
<1>4. m \in Messages BY <1>1, <1>2, <1>3, MessageTyped
<1>5. Plain(m) BY <1>1 DEF Message, Plain
<1>6. PICK q : q = Posted(stub, m) OBVIOUS
<1>7. q = <<>> \/ q = <<m>> BY <1>6 DEF Posted
<1>8. chan' = Sent(chan, "service", q) BY <1>1, <1>6 DEF Cast
<1>9. "service" \in Ends BY DEF Ends
<1> QED BY <1>4, <1>5, <1>7, <1>8, <1>9, ChanOnce, QuietSent DEF Cast

LEMMA PSetupService == ASSUME IInv, PInv, SetupService PROVE PInv'
<1>1. PICK m : m = RegisterMsg(pids["service"] + 1) OBVIOUS
<1>2. "service" \in Ends /\ "client" \in Ends BY DEF Ends
<1>3. pids["service"] + 1 \in Pids BY <1>2, RpcAssumption DEF SetupService, IInv, TypeOK, Pids
<1>4. m \in Messages /\ Plain(m) BY <1>1, <1>3, RegisterPlain DEF Plain
<1>5. pids'["client"] = pids["client"] BY DEF SetupService, IInv, TypeOK, Ends
<1>6. chan' = Sent(chan, "client", <<m>>) BY <1>1 DEF SetupService
<1> QED BY <1>2, <1>4, <1>5, <1>6, ChanOnce, QuietSent DEF SetupService

LEMMA PDestroyService == ASSUME IInv, PInv, DestroyService PROVE PInv'
<1>1. "client" \in Ends BY DEF Ends
<1>2. UnRegisterMsg \in Messages /\ Plain(UnRegisterMsg) BY UnRegisterPlain DEF Plain
<1>3. chan' = Sent(chan, "client", <<UnRegisterMsg>>) BY DEF DestroyService
<1> QED BY <1>1, <1>2, <1>3, ChanOnce, QuietSent DEF DestroyService

LEMMA PStutter == ASSUME IInv, PInv, UNCHANGED vars PROVE PInv'
<1>1. /\ stub' = stub /\ pids' = pids /\ call' = call /\ working' = working /\ chan' = chan
  BY DEF vars
<1> QED BY <1>1, QuietStep, EofIsPlain DEF IInv, PInv, OneEach

-----------------------------------------------------------------------------
(* A call reaches the service, and its answer leaves it *)

LEMMA PReceiveRequest == ASSUME IInv, PInv, ReceiveRequest PROVE PInv'
<1>1. PICK msg : msg = chan["service"][1] OBVIOUS
<1>2. PICK ch : ch = Read(chan, "service") OBVIOUS
<1>3. PICK m : m = Message(service, msg.from, 0, NoCall) OBVIOUS
<1>4. chan["service"] # <<>> /\ msg.type = "MESSAGE" BY <1>1 DEF ReceiveRequest, Reading
<1>5. "service" \in Ends /\ "client" \in Ends /\ TypeOK /\ OneEach BY DEF Ends, IInv, PInv
<1>6. /\ ch \in Channels
      /\ \A f \in Ends : Once(ch[f]) /\ Elems(ch[f]) \subseteq Elems(chan[f])
      /\ msg \in Elems(chan["service"]) /\ msg \in Messages
      /\ msg.call \notin Named(Elems(ch["service"]))
  BY <1>1, <1>2, <1>4, <1>5, ReadOnce
<1>7. msg \in Requests BY <1>4, <1>6, Numbered
<1>8. stub' = stub /\ pids' = pids /\ call' = call BY DEF ReceiveRequest
<1>9. CASE chan' = ch /\ working' = working
  BY <1>2, <1>4, <1>5, <1>8, <1>9, QuietRead
<1>10. CASE chan' = Sent(ch, "client", <<m>>) /\ working' = working
  <2>1. service \in Pids /\ msg.from \in Pids BY <1>5, <1>7 DEF TypeOK, Requests
  <2>2. 0 \in Sessions BY RpcAssumption DEF Sessions
  <2>3. m \in Messages BY <1>3, <2>1, <2>2, MessageTyped
  <2>4. Plain(m) BY <1>3 DEF Message, Plain
  <2> QED BY <1>5, <1>6, <1>8, <1>10, <2>3, <2>4, QuietSent
<1>11. CASE chan' = ch /\ working' = working \cup {msg}
  <2>1. Follows({}) BY <1>8, FollowsStill
  <2>2. SlotInv' BY <1>8, SlotStill DEF PInv
  <2>3. Elems(chan'["service"]) \subseteq Elems(chan["service"])
    BY <1>5, <1>6, <1>11
  <2>4. Elems(chan'["client"]) \subseteq Elems(chan["client"])
    BY <1>5, <1>6, <1>11
  <2>5. \A x \in working' : x \in working \/ x \in Elems(chan["service"]) BY <1>6, <1>11
  <2>6. TraceInv' BY <1>5, <2>1, <2>3, <2>4, <2>5, TraceStep DEF PInv
  <2>7. Named(working') \subseteq Named(working) \cup {msg.call} BY <1>11, NamedMore
  <2>8. msg.call \in Calls => msg.call \in Named(Elems(chan["service"])) BY <1>4, <1>6 DEF Named
  <2>9. Named(working') \subseteq Calls BY DEF Named
  <2>10. /\ Named(Elems(chan'["service"])) \subseteq Named(Elems(chan["service"])) \ {msg.call}
         /\ Named(Elems(chan'["client"])) \subseteq Named(Elems(chan["client"]))
    BY <1>6, <1>11, <2>3, <2>4, NamedSub
  <2>11. ASSUME NEW x \in working', NEW y \in working', x.call \in Calls, x.call = y.call
         PROVE  x = y
    <3>1. \A z \in working : z.call \in Calls => z.call # msg.call
      <4>1. \A z \in working : z.type = "MESSAGE" BY <1>5 DEF TypeOK, Requests
      <4>2. \A z \in working : z.call \in Calls => z.call \in Named(working)
        BY <4>1 DEF Named
      <4> QED BY <1>5, <2>8, <4>2 DEF OneEach
    <3> QED BY <1>5, <1>11, <2>11, <3>1 DEF OneEach
  <2>12. Once(chan'["service"]) /\ Once(chan'["client"]) BY <1>5, <1>6, <1>11
  <2>13. /\ Named(working') \cap Named(Elems(chan'["service"])) = {}
         /\ Named(working') \cap Named(Elems(chan'["client"])) = {}
         /\ Named(Elems(chan'["service"])) \cap Named(Elems(chan'["client"])) = {}
    BY <1>5, <2>7, <2>8, <2>9, <2>10 DEF OneEach
  <2>14. OneEach' BY <2>11, <2>12, <2>13 DEF OneEach
  <2> QED BY <2>2, <2>6, <2>14 DEF PInv
<1> QED BY <1>1, <1>2, <1>3, <1>9, <1>10, <1>11 DEF ReceiveRequest

LEMMA PReply == ASSUME IInv, PInv, NEW msg \in working, Reply(msg) PROVE PInv'
<1>1. PICK m : m = ReplyMsg(msg) OBVIOUS
<1>2. "service" \in Ends /\ "client" \in Ends /\ TypeOK /\ OneEach /\ chan \in Channels
  BY DEF Ends, IInv, PInv, TypeOK, Channels
<1>3. msg \in Requests BY <1>2 DEF TypeOK
<1>4. /\ service \in Pids /\ msg.from \in Pids /\ msg.session \in Sessions
      /\ msg.call \in Calls \cup {NoCall} /\ msg.type = "MESSAGE"
  BY <1>2, <1>3 DEF TypeOK, Requests
<1>5. m \in Messages BY <1>1, <1>4, MessageTyped DEF ReplyMsg
<1>6. /\ m.type = "MESSAGE" /\ m.call = msg.call
      /\ m.session = msg.session /\ m.to = msg.from
  BY <1>1 DEF ReplyMsg, Message
<1>7. stub' = stub /\ pids' = pids /\ call' = call /\ working' = working \ {msg} BY DEF Reply
<1>8. Follows({}) BY <1>7, FollowsStill
<1>9. SlotInv' BY <1>7, SlotStill DEF PInv
<1>10. Traced(m, m.to)'
  <2>1. Traced(m, m.to) BY <1>4, <1>6 DEF PInv, TraceInv, Traced
  <2> QED BY <1>4, <1>5, <1>6, <1>8, <2>1, TracedKept
<1>11. chan' = Sent(chan, "client", <<m>>) BY <1>1 DEF Reply
<1>12. /\ Elems(chan'["client"]) \subseteq Elems(chan["client"]) \cup {m}
       /\ chan'["service"] = chan["service"]
  BY <1>2, <1>5, <1>11, SentToClient
<1>13. TraceInv' BY <1>2, <1>7, <1>8, <1>10, <1>12, TraceStep DEF PInv
<1>14. msg.call \in Calls => msg.call \in Named(working) BY <1>4 DEF Named
<1>15. msg.call \notin Named(Elems(chan["client"])) BY <1>2, <1>14 DEF OneEach, Named
<1>16. Once(chan["client"]) /\ Once(chan["service"]) BY <1>2 DEF OneEach
<1>17. Once(chan'["client"]) BY <1>2, <1>5, <1>6, <1>11, <1>15, <1>16, OnceSent
<1>18. Named(Elems(chan'["client"])) \subseteq Named(Elems(chan["client"])) \cup {msg.call}
  BY <1>6, <1>12, NamedMore
<1>19. Named(working') \subseteq Named(working) \ {msg.call}
  BY <1>2, <1>7 DEF Named, OneEach
<1>20. Named(Elems(chan'["client"])) \subseteq Calls BY DEF Named
<1>21. /\ Named(working') \cap Named(Elems(chan'["service"])) = {}
       /\ Named(working') \cap Named(Elems(chan'["client"])) = {}
       /\ Named(Elems(chan'["service"])) \cap Named(Elems(chan'["client"])) = {}
  BY <1>2, <1>12, <1>14, <1>18, <1>19, <1>20 DEF OneEach
<1>22. \A x, y \in working' : x.call \in Calls /\ x.call = y.call => x = y
  BY <1>2, <1>7 DEF OneEach
<1>23. OneEach' BY <1>12, <1>16, <1>17, <1>21, <1>22 DEF OneEach
<1> QED BY <1>9, <1>13, <1>23 DEF PInv
-----------------------------------------------------------------------------
(* Stubs come and go, callers let go, processes die *)

LEMMA PBeginSetup == ASSUME IInv, PInv, BeginSetup PROVE PInv'
<1>1. TypeOK /\ stub.pid = Nobody /\ call' = call /\ chan' = chan /\ working' = working
  BY DEF IInv, BeginSetup
<1>2. pids["client"] \in Nat BY <1>1, RpcAssumption DEF TypeOK, Pids, Ends
<1>3. pids'["client"] = pids["client"] + 1 BY <1>1 DEF BeginSetup, TypeOK, Ends
<1>4. stub'.pid = pids["client"] + 1 /\ stub'.calls = NoStub.calls
  BY DEF BeginSetup, NoStub
<1>5. Follows({})
  <2> SUFFICES ASSUME NEW k \in Calls, NEW p \in Pids, NEW s \in Sessions, Routed(p, s, k)
               PROVE  Routed(p, s, k)'
    BY DEF Follows
  <2>1. p \in Nat BY RpcAssumption DEF Pids
  <2>2. Astray(k) \/ p <= pids["client"] BY <1>1 DEF Routed
  <2>3. Astray(k)' \/ (p # stub'.pid /\ p <= pids'["client"])
    BY <1>1, <1>2, <1>3, <1>4, <2>1, <2>2, AstrayKept
  <2> QED BY <1>1, <2>3 DEF Routed
<1>6. \A s \in Sessions : stub'.calls[s] = NoCall BY <1>4 DEF NoStub
<1>7. 0 \in Sessions /\ Entries(stub') = {} BY <1>6, RpcAssumption DEF Sessions, Entries
<1>8. SlotInv' BY <1>1, <1>2, <1>3, <1>4, <1>6, <1>7 DEF SlotInv, PInv
<1>9. TraceInv' /\ OneEach'
  <2>1. OneEach /\ TraceInv /\ Once(chan'["service"]) /\ Once(chan'["client"])
    BY <1>1 DEF PInv, OneEach
  <2> QED BY <1>1, <1>5, <2>1, FlowStep, EofIsPlain
<1> QED BY <1>8, <1>9 DEF PInv

\* Callers let go of some open calls.
LetGo ==
    \A c \in Calls :
        /\ call'[c].answers = call[c].answers
        /\ call'[c].phase = call[c].phase \/ (call[c].phase = "open" /\ call'[c].phase = "dropped")

LEMMA LetGoFollows ==
    ASSUME IInv, PInv, LetGo, pids' = pids, stub' \in {stub, NoStub}
    PROVE  Follows({})
<1> SUFFICES ASSUME NEW k \in Calls, NEW p \in Pids, NEW s \in Sessions, Routed(p, s, k)
             PROVE  Routed(p, s, k)'
  BY DEF Follows
<1>1. Astray(k) => Astray(k)'
  <2> SUFFICES ASSUME Astray(k) PROVE Astray(k)' OBVIOUS
  <2>1. PICK f \in Calls : call[f].phase = "lost" BY DEF Astray
  <2>2. call'[f].phase = "lost" BY <2>1 DEF LetGo
  <2>3. call'[k].phase \notin {"idle", "open"} /\ k \notin call'[k].answers
    BY DEF LetGo, Astray
  <2> QED BY <2>2, <2>3 DEF Astray
<1>2. call'[k].phase # "idle" /\ \A c \in Calls : k \notin call'[c].answers
  BY DEF LetGo, Routed
<1>3. p # Nobody BY DEF Routed
<1>4. \/ p = stub'.pid /\ stub'.calls[s] = k
      \/ Astray(k)'
      \/ p # stub'.pid /\ p <= pids'["client"]
  <2>1. CASE stub' = stub BY <1>1, <2>1 DEF Routed
  <2>2. CASE stub' = NoStub
    <3>1. p # stub'.pid BY <1>3, <2>2 DEF NoStub
    <3>2. Astray(k) \/ p <= pids["client"] BY DEF Routed, PInv, SlotInv
    <3> QED BY <1>1, <3>1, <3>2
  <2> QED BY <2>1, <2>2
<1> QED BY <1>2, <1>3, <1>4 DEF Routed

LEMMA LetGoStep ==
    ASSUME IInv, PInv, LetGo, pids' = pids, stub' \in {stub, NoStub}, chan' = chan,
           working' = working,
           \A c \in Entries(stub') :
              call'[c].phase \in {"open", "threw"} \/ (c \in Linked /\ ~call'[c].held)
    PROVE  PInv'
<1>1. Follows({}) BY LetGoFollows
<1>2. TraceInv' /\ OneEach'
  <2>1. OneEach /\ TraceInv /\ TypeOK /\ Once(chan'["service"]) /\ Once(chan'["client"])
    BY DEF IInv, PInv, OneEach
  <2> QED BY <1>1, <2>1, FlowStep, EofIsPlain
<1>3. stub'.calls[0] = NoCall /\ stub'.pid <= pids'["client"]
  <2>1. 0 \in Sessions BY RpcAssumption DEF Sessions
  <2>2. 0 <= pids["client"] BY RpcAssumption DEF IInv, TypeOK, Ends, Pids
  <2> QED BY <2>1, <2>2 DEF PInv, SlotInv, NoStub, Nobody
<1>4. \A c, k \in Calls : k \in call'[c].answers => call'[k].phase # "idle"
  BY DEF LetGo, PInv, SlotInv
<1>5. \A c \in Calls : NoCall \notin call'[c].answers BY DEF LetGo, PInv, SlotInv
<1>6. SlotInv' BY <1>3, <1>4, <1>5 DEF SlotInv
<1> QED BY <1>2, <1>6 DEF PInv

LEMMA DestroyStubLets == ASSUME IInv, DestroyStub PROVE LetGo
<1> SUFFICES ASSUME NEW c \in Calls
             PROVE  /\ call'[c].answers = call[c].answers
                    /\ \/ call'[c].phase = call[c].phase
                       \/ call[c].phase = "open" /\ call'[c].phase = "dropped"
  BY DEF LetGo
<1>1. call[c] \in CallStates BY DEF IInv, TypeOK
<1>2. call'[c] = [call[c] EXCEPT
         !.phase = IF @ = "open" THEN "dropped" ELSE @,
         !.refs = IF c \in Entries(stub) \cap Linked THEN @ - 1 ELSE @]
  BY DEF DestroyStub
<1> QED BY <1>1, <1>2 DEF CallStates

LEMMA PDestroyStub == ASSUME IInv, PInv, DestroyStub PROVE PInv'
<1>1. Entries(stub') = {} BY NoEntries DEF DestroyStub
<1>2. LetGo BY DestroyStubLets
<1> QED BY <1>1, <1>2, LetGoStep DEF DestroyStub

LEMMA ReleaseLinkerLets ==
    ASSUME IInv, NEW c \in Calls, ReleaseLinker(c)
    PROVE  LetGo /\ c \in Linked /\ ~call'[c].held /\ \A d \in Calls \ {c} : call'[d] = call[d]
<1>1. call[c] \in CallStates /\ c \in Linked BY DEF IInv, TypeOK, CallInv, ReleaseLinker
<1>2. \A d \in Calls \ {c} : call'[d] = call[d] BY DEF ReleaseLinker, IInv, TypeOK
<1>3. call'[c] = [call[c] EXCEPT !.held = FALSE, !.refs = @ - 1,
                                 !.phase = IF @ = "open" THEN "dropped" ELSE @]
  BY <1>1 DEF ReleaseLinker, IInv, TypeOK, CallStates
<1>4. /\ call'[c].answers = call[c].answers /\ call'[c].held = FALSE
      /\ \/ call'[c].phase = call[c].phase
         \/ call[c].phase = "open" /\ call'[c].phase = "dropped"
  BY <1>1, <1>3 DEF CallStates
<1>5. LetGo BY <1>2, <1>4 DEF LetGo
<1> QED BY <1>1, <1>2, <1>4, <1>5

LEMMA PReleaseLinker == ASSUME IInv, PInv, NEW c \in Calls, ReleaseLinker(c) PROVE PInv'
<1>1. LetGo /\ c \in Linked /\ ~call'[c].held /\ \A d \in Calls \ {c} : call'[d] = call[d]
  BY ReleaseLinkerLets
<1>2. stub' = stub BY DEF ReleaseLinker
<1>3. Entries(stub) \subseteq Calls BY DEF IInv, TypeOK, Stubs, Entries
<1>4. \A d \in Entries(stub') :
         call'[d].phase \in {"open", "threw"} \/ (d \in Linked /\ ~call'[d].held)
  BY <1>1, <1>2, <1>3 DEF PInv, SlotInv
<1> QED BY <1>1, <1>2, <1>4, LetGoStep DEF ReleaseLinker

\* Every call that is still under way is lost with its process.
LEMMA CrashLoses ==
    ASSUME IInv, CrashClient, NEW c \in Calls
    PROVE  /\ call'[c].answers = call[c].answers
           /\ call'[c].phase = IF call[c].phase # "idle" /\ c \notin call[c].answers
                               THEN "lost" ELSE call[c].phase
<1>1. call[c] \in CallStates BY DEF IInv, TypeOK
<1>2. call'[c] = [call[c] EXCEPT
         !.phase = IF @ # "idle" /\ c \notin call[c].answers THEN "lost" ELSE @,
         !.refs = 0, !.held = FALSE]
  BY DEF CrashClient
<1> QED BY <1>1, <1>2 DEF CallStates

LEMMA PCrashClient == ASSUME IInv, PInv, CrashClient PROVE PInv'
<1>1. TypeOK /\ Crash("client") /\ stub' = NoStub /\ working' = working
  BY DEF IInv, CrashClient
<1>2. "client" \in Ends /\ "service" \in Ends BY DEF Ends
<1>3. \A f \in Ends : Elems(chan'[f]) \subseteq Elems(chan[f]) \cup {Eof}
  BY <1>1, <1>2, CrashedLink
<1>4. Once(chan'["service"]) /\ Once(chan'["client"])
  BY <1>1, <1>2, CrashedOnce DEF PInv
<1>5. Follows({})
  <2> SUFFICES ASSUME NEW k \in Calls, NEW p \in Pids, NEW s \in Sessions, Routed(p, s, k)
               PROVE  Routed(p, s, k)'
    BY DEF Follows
  <2>1. call[k].phase # "idle" /\ k \notin call[k].answers BY DEF Routed
  <2>2. call'[k].phase = "lost" /\ \A c \in Calls : k \notin call'[c].answers
    BY <2>1, CrashLoses DEF Routed
  <2>3. Astray(k)' BY <2>2 DEF Astray
  <2> QED BY <2>2, <2>3 DEF Routed
<1>6. TraceInv' /\ OneEach'
  BY <1>1, <1>2, <1>3, <1>4, <1>5, FlowStep, EofIsPlain DEF PInv
<1>7. SlotInv'
  <2>1. Entries(stub') = {} BY <1>1, NoEntries
  <2>2. pids'["client"] = 0 BY <1>1, <1>2 DEF Crash, TypeOK
  <2>3. stub'.calls[0] = NoCall /\ stub'.pid <= pids'["client"]
    <3>1. 0 \in Sessions BY RpcAssumption DEF Sessions
    <3> QED BY <1>1, <2>2, <3>1 DEF NoStub, Nobody
  <2>4. \A c, k \in Calls : k \in call'[c].answers => call'[k].phase # "idle"
    BY CrashLoses DEF PInv, SlotInv
  <2>5. \A c \in Calls : NoCall \notin call'[c].answers BY CrashLoses DEF PInv, SlotInv
  <2> QED BY <2>1, <2>3, <2>4, <2>5 DEF SlotInv
<1> QED BY <1>6, <1>7 DEF PInv

-----------------------------------------------------------------------------
(* A call is made *)

\* Call d is made on this stub; what is sent for it joins ch.
Asks(d, ch) ==
    /\ Callable(stub, d)
    /\ chan' = Sent(ch, "service", Posted(stub, CallMsg(stub, d)))
    /\ stub'.pid = stub.pid
    /\ stub'.calls[GenSessionID(stub.cur).session] = d
    /\ call'[d].phase = "open" /\ call'[d].answers = {}

\* No call has session 0.
LEMMA SessionNotZero ==
    ASSUME NEW cur \in Sessions PROVE GenSessionID(cur).session # 0
<1>1. (0 + 1) % SessionMod = 1 BY RpcAssumption
<1> QED BY <1>1 DEF GenSessionID

\* Nothing is under way for a call that was not made.
LEMMA IdleUnnamed ==
    ASSUME IInv, NEW d \in Calls, call[d].phase = "idle"
    PROVE  /\ d \notin Named(working)
           /\ d \notin Named(Elems(chan["service"])) /\ d \notin Named(Elems(chan["client"]))
BY DEF IInv, MessageInv, IsRequest, IsAnswer, Carries, Named

\* The request of a new call is the only message of it, and leads to its slot.
LEMMA AsksOnce ==
    ASSUME IInv, ~Collisions, PInv, NEW d \in Calls, NEW ch \in Channels,
           \A f \in Ends : Once(ch[f]) /\ Elems(ch[f]) \subseteq Elems(chan[f]),
           Asks(d, ch), working' = working,
           \A c \in Calls : d \notin call'[c].answers
    PROVE  /\ OneEach'
           /\ \A m \in Elems(chan'["service"]) : m \in Elems(ch["service"]) \/ Traced(m, m.from)'
           /\ chan'["client"] = ch["client"]
<1>1. PICK m : m = CallMsg(stub, d) OBVIOUS
<1>2. Callable(stub, d) BY DEF Asks
<1>3. PICK g \in Sessions : g = GenSessionID(stub.cur).session BY <1>2, InsertedTable
<1>4. stub.pid \in Pids /\ stub.service \in Pids BY DEF IInv, TypeOK, Stubs
<1>5. m \in Messages BY <1>1, <1>3, <1>4, MessageTyped DEF CallMsg
<1>6. m.type = "MESSAGE" /\ m.call = d /\ m.session = g /\ m.from = stub.pid
  BY <1>1, <1>3 DEF CallMsg, Message
<1>7. PICK q : q = Posted(stub, CallMsg(stub, d)) OBVIOUS
<1>8. q = <<>> \/ q = <<m>> BY <1>1, <1>7 DEF Posted
<1>9. chan' = Sent(ch, "service", q) BY <1>7 DEF Asks
<1>10. /\ Elems(chan'["service"]) \subseteq Elems(ch["service"]) \cup {m}
       /\ chan'["client"] = ch["client"]
  BY <1>5, <1>8, <1>9, SentToService
<1>11. call[d].phase = "idle" BY <1>2 DEF Callable
<1>12. "client" \in Ends /\ "service" \in Ends BY DEF Ends
<1>13. /\ Named(Elems(ch["service"])) \subseteq Named(Elems(chan["service"]))
       /\ Named(Elems(ch["client"])) \subseteq Named(Elems(chan["client"]))
  BY <1>12, NamedSub
<1>14. m.call \notin Named(Elems(ch["service"])) BY <1>6, <1>11, <1>13, IdleUnnamed
<1>15. Once(chan'["service"]) BY <1>5, <1>8, <1>9, <1>12, <1>14, OnceSent
<1>16. Once(chan'["client"]) BY <1>10, <1>12
<1>17. Named(Elems(chan'["service"])) \subseteq Named(Elems(chan["service"])) \cup {d}
  BY <1>6, <1>10, <1>13, NamedMore
<1>18. OneEach
  BY DEF PInv
<1>19. d \notin Named(working) /\ d \notin Named(Elems(chan["client"])) BY <1>11, IdleUnnamed
<1>20. /\ Named(working') \cap Named(Elems(chan'["service"])) = {}
       /\ Named(working') \cap Named(Elems(chan'["client"])) = {}
       /\ Named(Elems(chan'["service"])) \cap Named(Elems(chan'["client"])) = {}
  BY <1>10, <1>13, <1>17, <1>18, <1>19 DEF OneEach
<1>21. OneEach' BY <1>15, <1>16, <1>18, <1>20 DEF OneEach
<1>22. Traced(m, m.from)'
  <2>1. Routed(stub.pid, g, d)' BY <1>2, <1>3 DEF Routed, Asks, Callable
  <2> QED BY <1>6, <2>1 DEF Traced, Asks
<1> QED BY <1>10, <1>21, <1>22

LEMMA PCall == ASSUME IInv, ~Collisions, PInv, NEW d \in Calls, Call(d) PROVE PInv'
<1>1. Callable(stub, d) /\ stub' = Inserted(stub, d) BY DEF Call
<1>2. PICK g : g = GenSessionID(stub.cur).session OBVIOUS
<1>3. /\ stub'.pid = stub.pid
      /\ g \in Sessions /\ stub.calls[g] = NoCall /\ stub'.calls[g] = d
      /\ \A t \in Sessions : t # g => stub'.calls[t] = stub.calls[t]
      /\ Entries(stub') = Entries(stub) \cup {d} /\ d \notin Entries(stub)
  BY <1>1, <1>2, InsertedTable
<1>4. call[d].phase = "idle" BY <1>1 DEF Callable
<1>5. call'[d] = Opened(stub, d) /\ \A c \in Calls \ {d} : call'[c] = call[c]
  BY DEF Call, IInv, TypeOK
<1>6. call'[d].phase = "open" /\ call'[d].answers = {} BY <1>5 DEF Opened, NewCall
<1>7. Asks(d, chan) BY <1>1, <1>2, <1>3, <1>6 DEF Asks, Call
<1>8. \A c, k \in Calls : k \in call'[c].answers => call[k].phase # "idle"
  BY <1>5, <1>6 DEF PInv, SlotInv
<1>9. \A c \in Calls : d \notin call'[c].answers BY <1>4, <1>8
<1>10. pids' = pids /\ working' = working BY DEF Call
<1>11. chan \in Channels /\ \A f \in Ends : Once(chan[f]) /\ Elems(chan[f]) \subseteq Elems(chan[f])
  BY ChanOnce
<1>12. /\ OneEach'
       /\ \A m \in Elems(chan'["service"]) : m \in Elems(chan["service"]) \/ Traced(m, m.from)'
       /\ chan'["client"] = chan["client"]
  BY <1>7, <1>9, <1>10, <1>11, AsksOnce
<1>13. Follows({})
  <2> SUFFICES ASSUME NEW k \in Calls, NEW p \in Pids, NEW s \in Sessions, Routed(p, s, k)
               PROVE  Routed(p, s, k)'
    BY DEF Follows
  <2>1. k # d /\ call'[k] = call[k] BY <1>4, <1>5 DEF Routed
  <2>2. Astray(k) => Astray(k)' BY <1>4, <1>5, <2>1 DEF Astray
  <2>3. stub.calls[s] = k => stub'.calls[s] = k BY <1>3, RpcAssumption
  <2>4. \A c \in Calls : k \notin call'[c].answers BY <1>5, <1>6 DEF Routed
  <2> QED BY <1>3, <1>10, <2>1, <2>2, <2>3, <2>4 DEF Routed
<1>14. TraceInv' BY <1>10, <1>12, <1>13, TraceStep DEF PInv, IInv
<1>15. SlotInv'
  <2>1. stub.cur \in Sessions /\ Entries(stub) \subseteq Calls BY DEF IInv, TypeOK, Stubs, Entries
  <2>2. g # 0 /\ 0 \in Sessions BY <1>2, <2>1, SessionNotZero, RpcAssumption DEF Sessions
  <2>3. stub'.calls[0] = NoCall /\ stub'.pid <= pids'["client"]
    BY <1>3, <1>10, <2>2 DEF PInv, SlotInv
  <2>4. \A c \in Entries(stub') :
           call'[c].phase \in {"open", "threw"} \/ (c \in Linked /\ ~call'[c].held)
    BY <1>3, <1>5, <1>6, <2>1 DEF PInv, SlotInv
  <2>5. \A c, k \in Calls : k \in call'[c].answers => call'[k].phase # "idle"
    BY <1>5, <1>6, <1>8
  <2>6. \A c \in Calls : NoCall \notin call'[c].answers BY <1>5, <1>6 DEF PInv, SlotInv
  <2> QED BY <2>3, <2>4, <2>5, <2>6 DEF SlotInv
<1> QED BY <1>12, <1>14, <1>15 DEF PInv

-----------------------------------------------------------------------------
(* An answer is given *)

\* Nobody waits for call c any more: its entry goes.
Declined(c) ==
    /\ ~Wanted(c)
    /\ Entries(stub') = Entries(stub) \ {c}
    /\ call'[c].phase = call[c].phase /\ call'[c].answers = call[c].answers
    /\ \A x \in Calls \ {c} : call'[x] = call[x]

\* The callback of call c is given the answer to call k, and makes the calls more.
Given(c, k, more) ==
    /\ Wanted(c)
    /\ Entries(stub') \subseteq Entries(stub) \cup more
    /\ c \in Entries(stub') => call'[c].phase = "threw"
    /\ call'[c].phase \in {"answered", "threw"}
    /\ call'[c].answers = call[c].answers \cup {k}
    /\ \A x \in Calls \ ({c} \cup more) : call'[x] = call[x]

\* The slot s is emptied or kept, and no other entry is disturbed.
SlotsKept(s) ==
    /\ stub'.pid = stub.pid
    /\ \A t \in Sessions : t # s /\ stub.calls[t] # NoCall => stub'.calls[t] = stub.calls[t]
    /\ stub.calls[0] = NoCall /\ s # 0 => stub'.calls[0] = NoCall

LEMMA ReleasedSame ==
    ASSUME NEW c, NEW rec \in CallStates
    PROVE  Released(c, rec).phase = rec.phase /\ Released(c, rec).answers = rec.answers
BY DEF Released, CallStates

LEMMA AnswerOutcome ==
    ASSUME IInv, ~Collisions, ReceiveAnswer, NEW msg, msg = chan["client"][1],
           NEW s \in Sessions, s = msg.session, NEW c \in Calls, c = stub.calls[s],
           msg.to = stub.pid, NEW ch, ch = Read(chan, "client")
    PROVE  /\ SlotsKept(s)
           /\ \/ Declined(c) /\ chan' = ch
              \/ Given(c, msg.call, {}) /\ chan' = ch
              \/ \E d \in Calls \ {c} : Given(c, msg.call, {d}) /\ Asks(d, ch)
<1>1. c # NoCall /\ stub \in Stubs /\ OneSlotEach(stub)
  BY RpcAssumption DEF IInv, TypeOK, TableInv, OneSlotEach
<1>2. call[c] \in CallStates BY DEF IInv, TypeOK
<1>3. PICK answered :
        answered = [call[c] EXCEPT !.phase = "answered", !.answers = @ \cup {msg.call}]
  OBVIOUS
<1>4. answered.phase = "answered" /\ answered.answers = call[c].answers \cup {msg.call}
  BY <1>2, <1>3 DEF CallStates
<1>5. /\ Released(c, answered).phase = answered.phase
      /\ Released(c, answered).answers = answered.answers
  BY <1>2, <1>3 DEF Released, CallStates
<1>6. 0 \in Sessions BY RpcAssumption DEF Sessions
<1>7. ASSUME stub' = Erased(stub, s)
      PROVE  SlotsKept(s) /\ Entries(stub') = Entries(stub) \ {c}
  <2>1. /\ stub'.pid = stub.pid /\ Entries(stub') = Entries(stub) \ {c}
        /\ \A t \in Sessions : t # s => stub'.calls[t] = stub.calls[t]
    BY <1>1, <1>7, ErasedTable
  <2> QED BY <1>6, <2>1 DEF SlotsKept
<1>8. CASE /\ ~Wanted(c) /\ stub' = Erased(stub, s)
           /\ call' = [call EXCEPT ![c] = Released(c, @)] /\ chan' = ch
  <2>1. call'[c] = Released(c, call[c]) /\ \A x \in Calls \ {c} : call'[x] = call[x]
    BY <1>8 DEF IInv, TypeOK
  <2>2. call'[c].phase = call[c].phase /\ call'[c].answers = call[c].answers
    <3>1. /\ Released(c, call[c]).phase = call[c].phase
          /\ Released(c, call[c]).answers = call[c].answers
      BY <1>2, ReleasedSame
    <3> QED BY <2>1, <3>1
  <2>3. stub' = Erased(stub, s) /\ chan' = ch BY <1>8
  <2>4. SlotsKept(s) /\ Entries(stub') = Entries(stub) \ {c} BY <1>7, <2>3
  <2>5. Declined(c) BY <1>8, <2>1, <2>2, <2>4 DEF Declined
  <2> QED BY <2>3, <2>4, <2>5
<1>9. CASE /\ Wanted(c) /\ stub' = Erased(stub, s)
           /\ call' = [call EXCEPT ![c] = Released(c, answered)] /\ chan' = ch
  <2>1. call'[c] = Released(c, answered) /\ \A x \in Calls \ {c} : call'[x] = call[x]
    BY <1>9 DEF IInv, TypeOK
  <2> QED BY <1>4, <1>5, <1>7, <1>9, <2>1 DEF Given
<1>10. ASSUME Wanted(c), NEW d \in Calls \ {c}, Callable(stub, d),
              stub' = Erased(Inserted(stub, d), s),
              call' = [call EXCEPT ![c] = Released(c, answered), ![d] = Opened(stub, d)],
              chan' = Sent(ch, "service", Posted(stub, CallMsg(stub, d)))
       PROVE  SlotsKept(s) /\ Given(c, msg.call, {d}) /\ Asks(d, ch)
  <2>1. PICK g : g = GenSessionID(stub.cur).session OBVIOUS
  <2>2. PICK st : st = Inserted(stub, d) OBVIOUS
  <2>3. /\ st \in Stubs /\ OneSlotEach(st) /\ st.pid = stub.pid
        /\ g \in Sessions /\ stub.calls[g] = NoCall /\ st.calls[g] = d
        /\ \A t \in Sessions : t # g => st.calls[t] = stub.calls[t]
        /\ Entries(st) = Entries(stub) \cup {d} /\ d \notin Entries(stub)
    BY <1>10, <2>1, <2>2, InsertedTable
  <2>4. g # s /\ st.calls[s] = c BY <1>1, <2>3
  <2>5. /\ stub'.pid = stub.pid /\ Entries(stub') = Entries(st) \ {c}
        /\ \A t \in Sessions : t # s => stub'.calls[t] = st.calls[t]
    <3>1. stub' = Erased(st, s) BY <1>10, <2>2
    <3> QED BY <1>1, <2>3, <2>4, <3>1, ErasedTable
  <2>6. g # 0
    <3>1. stub.cur \in Sessions BY <1>1 DEF Stubs
    <3> QED BY <2>1, <3>1, SessionNotZero
  <2>7. SlotsKept(s) BY <1>6, <2>3, <2>5, <2>6 DEF SlotsKept
  <2>8. /\ call'[c] = Released(c, answered) /\ call'[d] = Opened(stub, d)
        /\ \A x \in Calls \ {c, d} : call'[x] = call[x]
    BY <1>10 DEF IInv, TypeOK
  <2>9. Given(c, msg.call, {d}) BY <1>4, <1>5, <1>10, <2>3, <2>5, <2>8 DEF Given
  <2>10. call'[d].phase = "open" /\ call'[d].answers = {} BY <2>8 DEF Opened, NewCall
  <2>11. stub'.calls[g] = d BY <2>3, <2>4, <2>5
  <2>12. Asks(d, ch) BY <1>10, <2>1, <2>5, <2>10, <2>11 DEF Asks
  <2> QED BY <2>7, <2>9, <2>12
<1>11. CASE /\ Wanted(c) /\ stub' = stub /\ chan' = ch
            /\ call' = [call EXCEPT ![c] = [answered EXCEPT !.phase = "threw"]]
  <2>1. call'[c] = [answered EXCEPT !.phase = "threw"] /\ \A x \in Calls \ {c} : call'[x] = call[x]
    BY <1>11 DEF IInv, TypeOK
  <2>2. call'[c].phase = "threw" /\ call'[c].answers = answered.answers
    BY <1>2, <1>3, <2>1 DEF CallStates
  <2>3. SlotsKept(s) BY <1>11 DEF SlotsKept
  <2> QED BY <1>4, <1>11, <2>1, <2>2, <2>3 DEF Given
<1> QED BY <1>1, <1>3, <1>8, <1>9, <1>10, <1>11 DEF ReceiveAnswer

\* A stale answer that closes the slot of call c leaves c's own answer astray.
LEMMA AnswerFollows ==
    ASSUME IInv, PInv, NEW s \in Sessions, NEW c \in Calls, stub.calls[s] = c,
           NEW k \in Calls, Routed(stub.pid, s, k), SlotsKept(s), pids' = pids,
           call'[c].phase \notin {"idle", "open"},
           call[c].phase = "lost" => call'[c].phase = "lost",
           call'[c].answers \subseteq call[c].answers \cup {k},
           \A x \in Calls \ {c} : call[x].phase # "idle" => call'[x] = call[x],
           \A x \in Calls \ {c} : call[x].phase = "idle" => call'[x].answers = {}
    PROVE  Follows({k})
<1> SUFFICES ASSUME NEW j \in Calls \ {k}, NEW p \in Pids, NEW t \in Sessions, Routed(p, t, j)
             PROVE  Routed(p, t, j)'
  BY DEF Follows
<1>1. \A x \in Calls : call[x].phase = "lost" => call'[x].phase = "lost" OBVIOUS
<1>2. \A x \in Calls : j \notin call'[x].answers BY DEF Routed
<1>3. call'[j].phase # "idle" BY DEF Routed
<1>4. j = c => call'[j].phase # "open" OBVIOUS
<1>5. Astray(j) => Astray(j)'
  <2> SUFFICES ASSUME Astray(j) PROVE Astray(j)' OBVIOUS
  <2>1. call'[j].phase \notin {"idle", "open"} BY DEF Astray
  <2> QED BY <1>1, <1>2, <2>1 DEF Astray
<1>6. CASE p = stub.pid /\ stub.calls[t] = j /\ t # s
  <2>1. stub'.calls[t] = j /\ p = stub'.pid BY <1>6, RpcAssumption DEF SlotsKept
  <2> QED BY <1>2, <1>3, <2>1 DEF Routed
<1>7. CASE p = stub.pid /\ stub.calls[t] = j /\ t = s
  <2>1. j = c BY <1>7
  <2>2. Astray(k) BY <2>1 DEF Routed
  <2>3. Astray(j)' BY <1>1, <1>2, <2>1, <2>2 DEF Astray
  <2> QED BY <1>2, <1>3, <2>3 DEF Routed
<1>8. CASE Astray(j) BY <1>2, <1>3, <1>5, <1>8 DEF Routed
<1>9. CASE p # stub.pid /\ p <= pids["client"]
  BY <1>2, <1>3, <1>9 DEF Routed, SlotsKept
<1> QED BY <1>6, <1>7, <1>8, <1>9 DEF Routed

\* What the first message from the service, if it leads to a slot, says.
LEMMA AnswerRouted ==
    ASSUME IInv, PInv, chan["client"] # <<>>, NEW msg, msg = chan["client"][1],
           msg.type = "MESSAGE", NEW s \in Sessions, s = msg.session, NEW c \in Calls,
           c = stub.calls[s], msg.to = stub.pid
    PROVE  msg.call \in Calls /\ s # 0 /\ Routed(stub.pid, s, msg.call)
<1>1. msg \in Elems(chan["client"])
  <2>1. chan["client"] \in Seq(Messages) BY DEF IInv, TypeOK, Ends
  <2> QED BY <2>1, ElemsTail
<1>2. Traced(msg, msg.to) BY <1>1 DEF PInv, TraceInv
<1>3. s # 0 BY RpcAssumption DEF PInv, SlotInv
<1> QED BY <1>2, <1>3 DEF Traced

LEMMA WantedPhase ==
    ASSUME IInv, PInv, NEW c \in Entries(stub), Wanted(c)
    PROVE  call[c].phase \in {"open", "threw"}
<1>1. c \in Linked /\ ~call[c].held => FALSE
  <2> SUFFICES ASSUME c \in Linked, ~call[c].held PROVE FALSE OBVIOUS
  <2>1. call[c].refs = 2 BY DEF Wanted
  <2> QED BY <2>1 DEF IInv, LinkersBalance, One
<1> QED BY <1>1 DEF PInv, SlotInv

LEMMA PReceiveAnswer == ASSUME IInv, ~Collisions, PInv, ReceiveAnswer PROVE PInv'
<1>1. PICK msg : msg = chan["client"][1] OBVIOUS
<1>2. PICK ch : ch = Read(chan, "client") OBVIOUS
<1>3. chan["client"] # <<>> /\ msg.type = "MESSAGE" BY <1>1 DEF ReceiveAnswer, Reading
<1>4. "client" \in Ends /\ "service" \in Ends /\ TypeOK /\ OneEach BY DEF Ends, IInv, PInv
<1>5. /\ ch \in Channels
      /\ \A f \in Ends : Once(ch[f]) /\ Elems(ch[f]) \subseteq Elems(chan[f])
      /\ msg \in Elems(chan["client"]) /\ msg \in Messages
      /\ msg.call \notin Named(Elems(ch["client"]))
  BY <1>1, <1>2, <1>3, <1>4, ReadOnce
<1>6. PICK s \in Sessions : s = msg.session BY <1>3, <1>5, Numbered DEF Requests
<1>7. PICK c \in Calls \cup {NoCall} : c = stub.calls[s] BY <1>4 DEF TypeOK, Stubs
<1>8. pids' = pids /\ working' = working BY DEF ReceiveAnswer
<1>9. CASE msg.to # stub.pid \/ c = NoCall
  <2>1. chan' = Read(chan, "client") /\ stub' = stub /\ call' = call
    BY <1>1, <1>6, <1>7, <1>9 DEF ReceiveAnswer
  <2> QED BY <1>3, <1>4, <1>8, <2>1, QuietRead
<1>10. CASE msg.to = stub.pid /\ c \in Calls
  <2>1. PICK k \in Calls : k = msg.call /\ s # 0 /\ Routed(stub.pid, s, k)
    BY <1>1, <1>3, <1>6, <1>7, <1>10, AnswerRouted
  <2>2. /\ SlotsKept(s)
        /\ \/ Declined(c) /\ chan' = ch
           \/ Given(c, k, {}) /\ chan' = ch
           \/ \E d \in Calls \ {c} : Given(c, k, {d}) /\ Asks(d, ch)
    BY <1>1, <1>2, <1>6, <1>7, <1>10, <2>1, AnswerOutcome
  <2>3. c \in Entries(stub) BY <1>7, <1>10, RpcAssumption DEF Entries
  <2>4. call[c].phase # "idle" BY <1>10, <2>3 DEF IInv, CallInv
  <2>5. /\ Declined(c) => call[c].phase # "open"
        /\ \A more \in SUBSET Calls : Given(c, k, more) => call[c].phase \in {"open", "threw"}
    BY <2>3, UnwantedClosed, WantedPhase DEF Declined, Given
  <2>6. /\ \A x \in Calls \ {c} : call[x].phase # "idle" => call'[x] = call[x]
        /\ \A x \in Calls \ {c} : call[x].phase = "idle" =>
              call'[x].answers = {} /\ (x \in Entries(stub') => call'[x].phase = "open")
    <3>1. \A x \in Calls : call[x].phase = "idle" => call[x].answers = {} /\ x \notin Entries(stub)
      BY DEF IInv, CallInv
    <3>2. CASE Declined(c) BY <3>1, <3>2 DEF Declined
    <3>3. CASE Given(c, k, {}) BY <3>1, <3>3 DEF Given
    <3>4. ASSUME NEW d \in Calls \ {c}, Given(c, k, {d}), Asks(d, ch)
          PROVE  /\ \A x \in Calls \ {c} : call[x].phase # "idle" => call'[x] = call[x]
                 /\ \A x \in Calls \ {c} : call[x].phase = "idle" =>
                       call'[x].answers = {} /\ (x \in Entries(stub') => call'[x].phase = "open")
      <4>1. call[d].phase = "idle" /\ call'[d].phase = "open" /\ call'[d].answers = {}
        BY <3>4 DEF Asks, Callable
      <4>2. \A x \in Calls \ {c, d} : call'[x] = call[x] /\ (x \in Entries(stub') => x \in Entries(stub))
        BY <3>4 DEF Given
      <4> QED BY <3>1, <4>1, <4>2
    <3> QED BY <2>2, <3>2, <3>3, <3>4
  <2>7. /\ call'[c].phase \notin {"idle", "open"}
        /\ call[c].phase = "lost" => call'[c].phase = "lost"
        /\ call'[c].answers \subseteq call[c].answers \cup {k}
        /\ c \in Entries(stub') => call'[c].phase = "threw"
    BY <2>2, <2>4, <2>5 DEF Declined, Given
  <2>8. Follows({k}) BY <1>7, <1>8, <1>10, <2>1, <2>2, <2>6, <2>7, AnswerFollows
  <2>9. k \in Named(Elems(chan["client"])) BY <1>3, <1>5, <2>1 DEF Named
  <2>10. k \notin Named(working) /\ k \notin Named(Elems(ch["service"])) /\ k \notin Named(Elems(ch["client"]))
    <3>1. Named(Elems(ch["service"])) \subseteq Named(Elems(chan["service"])) BY <1>4, <1>5, NamedSub
    <3> QED BY <1>4, <1>5, <2>1, <2>9, <3>1 DEF OneEach
  <2>11. \A m \in working \cup Elems(ch["service"]) \cup Elems(ch["client"]) :
            m.type = "MESSAGE" => m.call # k
    BY <2>10 DEF Named
  <2>12. /\ OneEach'
         /\ \A m \in Elems(chan'["service"]) : m \in Elems(ch["service"]) \/ Traced(m, m.from)'
         /\ chan'["client"] = ch["client"]
    <3>1. CASE chan' = ch
      <4>1. /\ Named(Elems(chan'["service"])) \subseteq Named(Elems(chan["service"]))
            /\ Named(Elems(chan'["client"])) \subseteq Named(Elems(chan["client"]))
            /\ Once(chan'["service"]) /\ Once(chan'["client"])
        BY <1>4, <1>5, <3>1, NamedSub
      <4>2. OneEach' BY <1>4, <1>8, <4>1, OneEachLess
      <4> QED BY <3>1, <4>2
    <3>2. ASSUME NEW d \in Calls \ {c}, Given(c, k, {d}), Asks(d, ch)
          PROVE  /\ OneEach'
                 /\ \A m \in Elems(chan'["service"]) :
                       m \in Elems(ch["service"]) \/ Traced(m, m.from)'
                 /\ chan'["client"] = ch["client"]
      <4>1. call[d].phase = "idle" BY <3>2 DEF Asks, Callable
      <4>2. call[k].phase # "idle" BY <2>1 DEF Routed
      <4>3. \A x \in Calls : d \notin call[x].answers BY <4>1 DEF PInv, SlotInv
      <4>4. \A x \in Calls : d \notin call'[x].answers BY <2>6, <2>7, <4>1, <4>2, <4>3
      <4> QED BY <1>5, <1>8, <3>2, <4>4, AsksOnce
    <3> QED BY <2>2, <3>1, <3>2
  <2>13. TraceInv'
    <3>1. \A m \in working' : m \in working /\ (m.type = "MESSAGE" => m.call \notin {k})
      BY <1>8, <2>11
    <3>2. \A m \in Elems(chan'["service"]) :
             \/ m \in Elems(chan["service"]) /\ (m.type = "MESSAGE" => m.call \notin {k})
             \/ Traced(m, m.from)'
      BY <1>4, <1>5, <2>11, <2>12
    <3>3. \A m \in Elems(chan'["client"]) :
             m \in Elems(chan["client"]) /\ (m.type = "MESSAGE" => m.call \notin {k})
      BY <1>4, <1>5, <2>11, <2>12
    <3> QED BY <1>4, <2>8, <3>1, <3>2, <3>3, TraceStep DEF PInv
  <2>14. SlotInv'
    <3>1. stub'.calls[0] = NoCall /\ stub'.pid <= pids'["client"]
      BY <1>8, <2>1, <2>2 DEF PInv, SlotInv, SlotsKept
    <3>2. ASSUME NEW x \in Entries(stub')
          PROVE  call'[x].phase \in {"open", "threw"} \/ (x \in Linked /\ ~call'[x].held)
      <4>1. x \in Calls /\ (x \in Entries(stub) \/ call[x].phase = "idle" \/ x = c)
        <5>1. Entries(stub) \subseteq Calls BY <1>4 DEF TypeOK, Stubs, Entries
        <5>2. \A d \in Calls : Asks(d, ch) => call[d].phase = "idle" BY DEF Asks, Callable
        <5> QED BY <2>2, <5>1, <5>2 DEF Declined, Given
      <4>2. CASE x = c BY <2>7, <4>2
      <4>3. CASE x # c /\ call[x].phase = "idle" BY <2>6, <4>1, <4>3
      <4>4. CASE x # c /\ call[x].phase # "idle" BY <2>6, <4>1, <4>4 DEF PInv, SlotInv
      <4> QED BY <4>2, <4>3, <4>4
    <3>3. \A x \in Calls : call[x].phase # "idle" => call'[x].phase # "idle" BY <2>6, <2>7
    <3>4. ASSUME NEW x \in Calls, NEW y \in call'[x].answers
          PROVE  y \in call[x].answers \/ y = k
      BY <2>6, <2>7
    <3>5. call[k].phase # "idle" BY <2>1 DEF Routed
    <3>6. \A x, y \in Calls : y \in call'[x].answers => call'[y].phase # "idle"
      BY <3>3, <3>4, <3>5 DEF PInv, SlotInv
    <3>7. \A x \in Calls : NoCall \notin call'[x].answers
      BY <3>4, RpcAssumption DEF PInv, SlotInv
    <3> QED BY <3>1, <3>2, <3>6, <3>7 DEF SlotInv
  <2> QED BY <2>12, <2>13, <2>14 DEF PInv
<1> QED BY <1>9, <1>10

LEMMA PInvStep == ASSUME ~Collisions, IInv, PInv, [Next]_vars PROVE PInv'
<1>1. CASE Connect BY <1>1, PConnect
<1>2. CASE Break BY <1>2, PBreak
<1>3. CASE CrashClient BY <1>3, PCrashClient
<1>4. CASE CrashService BY <1>4, PCrashService
<1>5. CASE BeginSetup BY <1>5, PBeginSetup
<1>6. CASE DestroyStub BY <1>6, PDestroyStub
<1>7. CASE SetupService BY <1>7, PSetupService
<1>8. CASE DestroyService BY <1>8, PDestroyService
<1>9. CASE Cast BY <1>9, PCast
<1>10. CASE \E c \in Calls : Call(c) \/ ReleaseLinker(c) BY <1>10, PCall, PReleaseLinker
<1>11. CASE \E msg \in working : Reply(msg) BY <1>11, PReply
<1>12. CASE \E e \in Ends : ReceiveEof(e) BY <1>12, PReceiveEof
<1>13. CASE ReceiveRegister BY <1>13, PReceiveRegister
<1>14. CASE ReceiveUnRegister BY <1>14, PReceiveUnRegister
<1>15. CASE ReceiveAnswer BY <1>15, PReceiveAnswer
<1>16. CASE ReceiveRequest BY <1>16, PReceiveRequest
<1>17. CASE UNCHANGED vars BY <1>17, PStutter
<1> QED BY <1>1, <1>2, <1>3, <1>4, <1>5, <1>6, <1>7, <1>8, <1>9, <1>10, <1>11, <1>12,
           <1>13, <1>14, <1>15, <1>16, <1>17
        DEF Next, Receive

LEMMA PInvInit == Init => PInv
<1> SUFFICES ASSUME Init PROVE PInv OBVIOUS
<1>1. Elems(chan["service"]) = {} /\ Elems(chan["client"]) = {} /\ working = {}
  BY ElemsShort DEF Init, Ends
<1>2. TraceInv BY <1>1 DEF TraceInv
<1>3. Once(chan["service"]) /\ Once(chan["client"]) BY OnceNone DEF Init, Ends
<1>4. Named({}) = {} BY DEF Named
<1>5. OneEach BY <1>1, <1>3, <1>4 DEF OneEach
<1>6. Entries(stub) = {} BY NoEntries DEF Init
<1>7. \A c \in Calls : call[c].answers = {} BY DEF Init, NewCall
<1>8. stub.calls[0] = NoCall /\ stub.pid <= pids["client"]
  <2>1. 0 \in Sessions BY RpcAssumption DEF Sessions
  <2> QED BY <2>1 DEF Init, NoStub, Nobody, Ends
<1>9. SlotInv BY <1>6, <1>7, <1>8 DEF SlotInv
<1> QED BY <1>2, <1>5, <1>9 DEF PInv

-----------------------------------------------------------------------------
(* The refinement of RpcPromise *)

\* What RpcPromise sees of the calls.
Phases == [c \in Calls |-> call[c].phase]
Answers == [c \in Calls |-> call[c].answers]

\* Steps that the callers do not notice.
LEMMA Unnoticed ==
    ASSUME call' = call PROVE UNCHANGED Promise!vars
BY DEF Promise!vars

LEMMA CallKeepsPromise ==
    ASSUME IInv, NEW d \in Calls, Call(d) PROVE Promise!Call(d)
<1>1. call[d].phase = "idle" BY DEF Call, Callable
<1>2. call[d].answers = {} BY <1>1 DEF IInv, CallInv
<1>3. call'[d] = Opened(stub, d) /\ \A c \in Calls \ {d} : call'[c] = call[c]
  BY DEF Call, IInv, TypeOK
<1>4. call'[d].phase = "open" /\ call'[d].answers = {} BY <1>3 DEF Opened, NewCall
<1>5. Phases' = [Phases EXCEPT ![d] = "open"] BY <1>3, <1>4 DEF Phases
<1>6. Answers' = Answers
  <2>1. \A c \in Calls : call'[c].answers = call[c].answers BY <1>2, <1>3, <1>4
  <2> QED BY <2>1 DEF Answers
<1> QED BY <1>1, <1>5, <1>6 DEF Promise!Call, Phases, Answers

LEMMA LettingGoKeepsPromise ==
    ASSUME LetGo PROVE \E D \in SUBSET Calls : Promise!Drop(D)
<1>1. PICK D \in SUBSET Calls : \A c \in Calls : c \in D <=> call'[c].phase # call[c].phase
  <2>1. {c \in Calls : call'[c].phase # call[c].phase} \in SUBSET Calls OBVIOUS
  <2> QED BY <2>1
<1>2. \A c \in D : call[c].phase = "open" /\ call'[c].phase = "dropped" BY <1>1 DEF LetGo
<1>3. \A c \in Calls : call'[c].phase = IF c \in D THEN "dropped" ELSE call[c].phase
  BY <1>2, <1>1
<1>4. \A c \in Calls : call'[c].answers = call[c].answers BY DEF LetGo
<1>5. Phases' = [c \in Calls |-> IF c \in D THEN "dropped" ELSE Phases[c]] BY <1>3 DEF Phases
<1>6. Answers' = Answers BY <1>4 DEF Answers
<1>7. D \subseteq Calls /\ \A c \in D : Phases[c] = "open" BY <1>2, <1>1 DEF Phases
<1>8. Promise!Drop(D) BY <1>5, <1>6, <1>7 DEF Promise!Drop, Phases, Answers
<1> QED BY <1>1, <1>8

LEMMA DyingKeepsPromise == ASSUME IInv, CrashClient PROVE Promise!Die
<1>1. Phases' = [c \in Calls |->
         IF Phases[c] # "idle" /\ c \notin Answers[c] THEN "lost" ELSE Phases[c]]
  BY CrashLoses DEF Phases, Answers
<1>2. Answers' = Answers BY CrashLoses DEF Answers
<1> QED BY <1>1, <1>2 DEF Promise!Die, Phases, Answers

LEMMA GivingKeepsPromise ==
    ASSUME IInv, PInv, NEW s \in Sessions, NEW c \in Calls, c = stub.calls[s],
           NEW k \in Calls, Routed(stub.pid, s, k),
           NEW more, more = {} \/ \E d \in Calls \ {c} : more = {d} /\ call[d].phase = "idle",
           \A d \in more : call'[d].phase = "open" /\ call'[d].answers = {},
           Given(c, k, more)
    PROVE  Promise!Answer(c)
<1>1. c \in Entries(stub) BY RpcAssumption DEF Entries
<1>2. call[c].phase \in {"open", "threw"} BY <1>1, WantedPhase DEF Given
<1>3. k \notin call[c].answers BY DEF Routed
<1>4. k = c \/ Astray(k) BY DEF Routed
<1>5. Astray(k) => k \in Promise!Astray
  <2> SUFFICES ASSUME Astray(k) PROVE k \in Promise!Astray OBVIOUS
  <2>1. PICK f \in Calls : call[f].phase = "lost" BY DEF Astray
  <2>2. Phases[k] \notin {"idle", "open"} /\ k \notin Answers[k] /\ Phases[f] = "lost"
    BY <2>1 DEF Astray, Phases, Answers
  <2> QED BY <2>2 DEF Promise!Astray, Phases, Answers
<1>6. k \in ({c} \cup Promise!Astray) \ Answers[c] BY <1>3, <1>4, <1>5 DEF Answers
<1>7. more \subseteq Calls \ {c} /\ \A d \in more : call[d].phase = "idle" /\ call[d].answers = {}
  BY DEF IInv, CallInv
<1>8. Answers' = [Answers EXCEPT ![c] = @ \cup {k}]
  <2>1. \A x \in Calls \ {c} : call'[x].answers = call[x].answers BY <1>7 DEF Given
  <2> QED BY <2>1 DEF Answers, Given
<1>9. PICK end \in {"answered", "threw"} : end = call'[c].phase BY DEF Given
<1>10. Phases' = [d \in Calls |-> IF d = c THEN end ELSE IF d \in more THEN "open" ELSE Phases[d]]
  BY <1>7, <1>9 DEF Phases, Given
<1>11. more \in {{}} \cup {{d} : d \in {e \in Calls : Phases[e] = "idle"}} BY DEF Phases
<1>12. Phases[c] \in {"open", "threw"} BY <1>2 DEF Phases
<1>13. \E d \in ({c} \cup Promise!Astray) \ Answers[c] :
          Answers' = [Answers EXCEPT ![c] = @ \cup {d}]
  BY <1>6, <1>8
<1>14. \E m \in {{}} \cup {{d} : d \in {e \in Calls : Phases[e] = "idle"}},
          e \in {"answered", "threw"} :
          Phases' = [d \in Calls |-> IF d = c THEN e ELSE IF d \in m THEN "open" ELSE Phases[d]]
  BY <1>10, <1>11
<1> QED BY <1>12, <1>13, <1>14 DEF Promise!Answer, Phases, Answers

LEMMA AnswerKeepsPromise ==
    ASSUME IInv, ~Collisions, PInv, ReceiveAnswer
    PROVE  UNCHANGED Promise!vars \/ \E c \in Calls : Promise!Answer(c)
<1>1. PICK msg : msg = chan["client"][1] OBVIOUS
<1>2. PICK ch : ch = Read(chan, "client") OBVIOUS
<1>3. chan["client"] # <<>> /\ msg.type = "MESSAGE" BY <1>1 DEF ReceiveAnswer, Reading
<1>4. msg \in Messages
  <2>1. chan["client"] \in Seq(Messages) BY DEF IInv, TypeOK, Ends
  <2> QED BY <1>1, <1>3, <2>1, ElemsTail
<1>5. PICK s \in Sessions : s = msg.session BY <1>3, <1>4, Numbered DEF Requests
<1>6. PICK c \in Calls \cup {NoCall} : c = stub.calls[s] BY DEF IInv, TypeOK, Stubs
<1>7. CASE msg.to # stub.pid \/ c = NoCall
  <2>1. call' = call BY <1>1, <1>5, <1>6, <1>7 DEF ReceiveAnswer
  <2> QED BY <2>1, Unnoticed
<1>8. CASE msg.to = stub.pid /\ c \in Calls
  <2>1. PICK k \in Calls : k = msg.call /\ Routed(stub.pid, s, k)
    BY <1>1, <1>3, <1>5, <1>6, <1>8, AnswerRouted
  <2>2. \/ Declined(c)
        \/ Given(c, k, {})
        \/ \E d \in Calls \ {c} : Given(c, k, {d}) /\ Asks(d, ch)
    BY <1>1, <1>2, <1>5, <1>6, <1>8, <2>1, AnswerOutcome
  <2>3. CASE Declined(c)
    <3>1. \A x \in Calls : call'[x].phase = call[x].phase /\ call'[x].answers = call[x].answers
      BY <1>8, <2>3 DEF Declined
    <3>2. Phases' = Phases /\ Answers' = Answers BY <3>1 DEF Phases, Answers
    <3> QED BY <3>2 DEF Promise!vars, Phases, Answers
  <2>4. CASE Given(c, k, {})
    <3>1. PICK more : more = {} OBVIOUS
    <3>2. Given(c, k, more) /\ \A d \in more : FALSE BY <2>4, <3>1
    <3>3. Promise!Answer(c) BY <1>6, <1>8, <2>1, <3>1, <3>2, GivingKeepsPromise
    <3> QED BY <1>8, <3>3
  <2>5. ASSUME NEW d \in Calls \ {c}, Given(c, k, {d}), Asks(d, ch)
        PROVE  \E x \in Calls : Promise!Answer(x)
    <3>1. call[d].phase = "idle" /\ call'[d].phase = "open" /\ call'[d].answers = {}
      BY <2>5 DEF Asks, Callable
    <3>2. PICK more : more = {d} OBVIOUS
    <3>3. Promise!Answer(c)
      BY <1>6, <1>8, <2>1, <2>5, <3>1, <3>2, GivingKeepsPromise
    <3> QED BY <1>8, <3>3
  <2> QED BY <2>2, <2>3, <2>4, <2>5
<1> QED BY <1>7, <1>8

\* Every step is a step of RpcPromise, or one that the callers do not notice.
LEMMA PromiseStep ==
    ASSUME ~Collisions, IInv, PInv, [Next]_vars
    PROVE  [Promise!Next]_(Promise!vars)
<1>1. CASE Connect \/ Break \/ CrashService \/ BeginSetup \/ SetupService \/ DestroyService \/ Cast
  <2>1. call' = call
    BY <1>1 DEF Connect, Break, CrashService, BeginSetup, SetupService, DestroyService, Cast
  <2> QED BY <2>1, Unnoticed
<1>2. CASE CrashClient
  <2>1. Promise!Die BY <1>2, DyingKeepsPromise
  <2> QED BY <2>1 DEF Promise!Next
<1>3. CASE DestroyStub
  <2>1. LetGo BY <1>3, DestroyStubLets
  <2>2. \E D \in SUBSET Calls : Promise!Drop(D) BY <2>1, LettingGoKeepsPromise
  <2> QED BY <2>2 DEF Promise!Next
<1>4. ASSUME NEW c \in Calls, Call(c) PROVE Promise!Next
  <2>1. Promise!Call(c) BY <1>4, CallKeepsPromise
  <2> QED BY <2>1 DEF Promise!Next
<1>5. ASSUME NEW c \in Calls, ReleaseLinker(c) PROVE Promise!Next
  <2>1. LetGo BY <1>5, ReleaseLinkerLets
  <2>2. \E D \in SUBSET Calls : Promise!Drop(D) BY <2>1, LettingGoKeepsPromise
  <2> QED BY <2>2 DEF Promise!Next
<1>6. CASE \E msg \in working : Reply(msg)
  <2>1. call' = call BY <1>6 DEF Reply
  <2> QED BY <2>1, Unnoticed
<1>7. CASE (\E e \in Ends : ReceiveEof(e)) \/ ReceiveRegister \/ ReceiveUnRegister \/ ReceiveRequest
  <2>1. call' = call BY <1>7 DEF ReceiveEof, ReceiveRegister, ReceiveUnRegister, ReceiveRequest
  <2> QED BY <2>1, Unnoticed
<1>8. CASE ReceiveAnswer
  <2>1. UNCHANGED Promise!vars \/ \E c \in Calls : Promise!Answer(c)
    BY <1>8, AnswerKeepsPromise
  <2> QED BY <2>1 DEF Promise!Next
<1>9. CASE UNCHANGED vars
  <2>1. call' = call BY <1>9 DEF vars
  <2> QED BY <2>1, Unnoticed
<1> QED BY <1>1, <1>2, <1>3, <1>4, <1>5, <1>6, <1>7, <1>8, <1>9 DEF Next, Receive

\* As long as a session is not used again while the call that had it is still
\* in calls_, the stub keeps its promise for any number of calls, restarts and
\* lost connections: a callback is given each answer at most once, none after its
\* caller has let go, and only the answer to its own call, except for what a
\* restart of the caller's process has led astray.
THEOREM StubKeepsPromise == ~Collisions => (Spec => Implements)
<1> SUFFICES ASSUME ~Collisions PROVE Spec => Implements OBVIOUS
<1>1. Init => IInv /\ PInv BY IInvInit, PInvInit
<1>2. IInv /\ PInv /\ [Next]_vars => IInv' /\ PInv' BY IInvStep, PInvStep
<1>3. IInv /\ PInv /\ [Next]_vars => [Promise!Next]_(Promise!vars) BY PromiseStep
<1>4. Init => Promise!Init
  <2> SUFFICES ASSUME Init PROVE Promise!Init OBVIOUS
  <2>1. \A c \in Calls : call[c].phase = "idle" /\ call[c].answers = {} BY DEF Init, NewCall
  <2> QED BY <2>1 DEF Promise!Init
<1> QED BY <1>1, <1>2, <1>3, <1>4, PTL DEF Spec, Implements, Promise!Spec

=============================================================================
