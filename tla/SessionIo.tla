----------------------------- MODULE SessionIo ------------------------------
(***************************************************************************)
(* One session's connection from the client's point of view: the bytes it  *)
(* sends, how CSession cuts them into requests (doRead, onReadHead,        *)
(* onReadBody) and answers them, and the bytes that come back through the  *)
(* write queue, among them notices from other threads.  Composes Protocol  *)
(* and WriteQueue.                                                         *)
(*                                                                         *)
(* What login, createChannel and getAllSessions answer is left open here:  *)
(* NatProxy and SessionDb model them.  Reads that complete while stop() is *)
(* called are NatProxy's too; here stop() cancels the read.                *)
(***************************************************************************)
EXTENDS Protocol, FiniteSets

CONSTANTS
    Requests,       \* the requests a client may make
    Notices,        \* ACCESS and STOPPROXY messages of other threads
    Listings,       \* what getAllSessions may return
    SessionIds,     \* ids a login may draw
    Ends,           \* source ends of channels: udp id, address and port
    MaxSends,       \* the number of requests in a behaviour
    MaxPosts        \* bound on the messages written to the client

\* A client sends what fits its packet, and no less than its function needs.  A
\* guid and a game have a byte for their length.
WellFormed(r) ==
    \/ /\ r \in [func : {"HEARTBEAT"}, body : Seq(Byte)]
       /\ IsShort(Len(r.body))
    \/ /\ r \in [func : {"LOGIN"}, guid : Seq(Byte), addr : Nat, type : Byte]
       /\ Len(r.guid) <= 255 /\ IsLong(r.addr)
    \/ /\ r \in [func : {"PROXY"}, id : Nat, dst : Nat, game : Seq(Byte)]
       /\ Len(r.game) <= 255 /\ IsLong(r.id) /\ IsLong(r.dst)
    \/ r \in [func : {"GETPROXIES"}, id : Nat] /\ IsLong(r.id)

IsEnd(e) == IsLong(e.udp) /\ IsLong(e.addr) /\ IsShort(e.port)

ASSUME RequestsAssumption == \A r \in Requests : WellFormed(r)
ASSUME NoticesAssumption ==
    \A m \in Notices :
        \/ /\ m \in [func : {"ACCESS"}, src : Nat, udp : Nat, addr : Nat, port : Nat, private : Nat]
           /\ IsEnd(m) /\ IsLong(m.src) /\ IsLong(m.private)
        \/ m \in [func : {"STOPPROXY"}, udp : Nat, addr : Nat, port : Nat] /\ IsEnd(m)
ASSUME ListingsAssumption == \A l \in Listings : l \in Seq(Byte) /\ IsShort(Len(l))
ASSUME IdsAssumption == \A i \in SessionIds : IsLong(i)
ASSUME EndsAssumption == \A e \in Ends : e \in [udp : Nat, addr : Nat, port : Nat] /\ IsEnd(e)

VARIABLES
    sent,       \* the client's requests, in order
    stream,     \* the bytes that the client has sent
    cuts,       \* cuts[n + 1]: how many of them the first n requests are
    pos,        \* how many of them reads have taken
    rbuf,       \* CSession::_rbuf
    hdr,        \* CSession::_hdr
    rd,         \* the outstanding read: "head", "body" or "none"; "thrown" when an
                \* exception has ended the thread of the session's io_context
    logined,    \* CSession::_logined
    id,         \* CSession::_id
    stype,      \* CSession::_session_type
    handled,    \* the requests that were handled, as they were understood
    history, posted, sque, writing, done, up, wire      \* the write queue

sentVars == <<sent, stream, cuts>>
stateVars == <<logined, id, stype>>
readVars == <<sentVars, pos, rbuf, hdr, rd, stateVars, handled>>
queueVars == <<history, posted, sque, writing, done, up, wire>>
vars == <<readVars, queueVars>>

\* The replies, as far as they are decided here.
LoginReply(e, i) == [func |-> "LOGIN", err |-> ErrCode[e], id |-> i]
ProxyReply(e, u, a, p) == [func |-> "PROXY", err |-> ErrCode[e], udp |-> u, addr |-> a, port |-> p]
NoProxy == ProxyReply("CREATE_UDP", 0, 0, 0)
ProxyOn(e) == ProxyReply("SUCCESS", e.udp, e.addr, e.port)
Listing(l) == [func |-> "GETPROXIES", list |-> l]

Messages ==
    Notices
    \cup {LoginReply(e, i) : e \in {"SUCCESS", "REPEAT", "FAILED"}, i \in SessionIds \cup {0}}
    \cup {NoProxy} \cup {ProxyOn(e) : e \in Ends}
    \cup {Listing(l) : l \in Listings}

Q == INSTANCE WriteQueue

\* Bytes that are not a packet of this protocol; nothing the client sends after
\* them has a meaning.
Foreign == [func |-> "FOREIGN"]
Encoded(r) == IF r.func = "FOREIGN" THEN [i \in 1 .. HdrLen |-> 1] ELSE Request(r)

\* start(): the first read is issued.
Init ==
    /\ sent = <<>>
    /\ stream = <<>>
    /\ cuts = <<0>>
    /\ pos = 0
    /\ rbuf = <<>>
    /\ hdr = Hdr([i \in 1 .. HdrLen |-> 0])
    /\ rd = "head"
    /\ logined = FALSE
    /\ id = 0
    /\ stype = SessionType["NONE"]
    /\ handled = <<>>
    /\ Q!Init

\* CIoContextPool::startThread: an exception that leaves a handler ends the only
\* thread of the io_context, and nothing that is queued there runs any more.
Running == rd # "thrown"

\* The client sends a request, without waiting for the answer to an earlier one.
Send(r) ==
    /\ Len(sent) < MaxSends /\ rd # "none"
    /\ sent' = Append(sent, r)
    /\ stream' = stream \o Encoded(r)
    /\ cuts' = Append(cuts, Len(stream'))
    /\ UNCHANGED <<pos, rbuf, hdr, rd, stateVars, handled, queueVars>>

\* onRespAccess and onRespStopProxy.  Room is kept for the replies that are due.
Notify(m) ==
    /\ Len(history) + MaxSends - Len(handled) < MaxPosts
    /\ Q!DoWrite(m)
    /\ UNCHANGED readVars

(***************************************************************************)
(* stop(), for a reason of its own (the timer, a reset connection) or      *)
(* called by the read handlers.                                            *)
(***************************************************************************)

Stop ==
    /\ Q!Disconnect
    /\ rd' = "none"

Lost ==
    /\ \/ Running /\ Stop
       \/ ~Running /\ Q!Disconnect /\ UNCHANGED rd
    /\ UNCHANGED <<sentVars, pos, rbuf, hdr, stateVars, handled>>

(***************************************************************************)
(* Reading.  async_read with transfer_exactly(n) completes when n bytes    *)
(* have come and takes no more; how they were cut on the way is not seen.  *)
(***************************************************************************)

CanTake(n) == pos + n <= Len(stream)
Taken(n) == Bytes(stream, pos, n)

OnReadHead ==
    LET b == rbuf \o Taken(HdrLen) IN
    /\ rd = "head" /\ CanTake(HdrLen)
    /\ pos' = pos + HdrLen
    /\ \/ /\ CheckHead(Hdr(b))
          /\ rbuf' = b
          /\ hdr' = Hdr(b)
          /\ rd' = "body"
          /\ UNCHANGED queueVars
       \/ /\ ~CheckHead(Hdr(b))
          /\ rbuf' = SubSeq(b, HdrLen + 1, Len(b))
          /\ hdr' = Hdr([i \in 1 .. HdrLen |-> 0])
          /\ Stop
    /\ UNCHANGED <<sentVars, stateVars, handled>>

\* A body of length 0 completes at once with 0 bytes, which counts as an error.
OnReadNoBody ==
    /\ rd = "body" /\ hdr.len = 0
    /\ Stop
    /\ UNCHANGED <<sentVars, pos, rbuf, hdr, stateVars, handled>>

\* Fault: a session that is logged in may log in again.
OnReqLoginAgain(req) ==
    /\ stype' = req.type
    /\ \/ /\ logined' = TRUE
          /\ id' \in SessionIds
          /\ Q!DoWrite(LoginReply("SUCCESS", id'))
       \/ /\ logined' = FALSE
          /\ Q!DoWrite(LoginReply("FAILED", 0))
          /\ UNCHANGED id

\* onReqLogin: the request's type is taken over before onSessionLogin decides.
\* The id a failed login may have drawn is not seen: a later one draws again.
OnReqLogin(req) ==
    \/ /\ ~logined
       /\ stype' = req.type
       /\ \/ /\ logined' = TRUE
             /\ id' \in SessionIds
             /\ Q!DoWrite(LoginReply("SUCCESS", id'))
          \/ /\ logined' = FALSE
             /\ Q!DoWrite(LoginReply("FAILED", 0))
             /\ UNCHANGED id
    \/ /\ logined
       /\ Q!DoWrite(LoginReply("REPEAT", id))
       /\ UNCHANGED stateVars

MayRequest == stype \in {SessionType["CLIENT"], SessionType["ANYONE"]}

\* onReqProxy: no channel, a channel, or the silent returns.
OnReqProxy ==
    /\ \/ Q!DoWrite(NoProxy)
       \/ \E e \in Ends : Q!DoWrite(ProxyOn(e))
       \/ UNCHANGED queueVars
    /\ UNCHANGED stateVars

OnReqGetProxies ==
    /\ \E l \in Listings : Q!DoWrite(Listing(l))
    /\ UNCHANGED stateVars

\* The switch of onReadBody.
Dispatch(req) ==
    \/ req.func = "LOGIN" /\ OnReqLogin(req)
    \/ req.func = "PROXY" /\ MayRequest /\ OnReqProxy
    \/ req.func = "GETPROXIES" /\ MayRequest /\ OnReqGetProxies
    \/ /\ req.func = "HEARTBEAT" \/ (req.func \in {"PROXY", "GETPROXIES"} /\ ~MayRequest)
       /\ UNCHANGED <<stateVars, queueVars>>

\* Fault: the header stays in the buffer.
ConsumedBody(b, h) == SubSeq(b, h.len + 1, Len(b))

\* _rbuf.consume at the end of onReadBody.
Consumed(b, h) == SubSeq(b, HdrLen + h.len + 1, Len(b))

\* PROXY and GETPROXIES are read only when the session may ask.
Unread(f) == f \in {Func["PROXY"], Func["GETPROXIES"]} /\ ~MayRequest
Skipped(f) == IF f = Func["PROXY"] THEN [func |-> "PROXY"] ELSE [func |-> "GETPROXIES"]

\* The packet is handled and leaves _rbuf, and the next header is read; or
\* deserialize() throws, and nothing of that happens.
OnReadBody ==
    LET b == rbuf \o Taken(hdr.len)
        req == IF Unread(hdr.func) THEN Skipped(hdr.func) ELSE Deserialize(hdr, b)
    IN
    /\ rd = "body" /\ hdr.len > 0 /\ CanTake(hdr.len)
    /\ pos' = pos + hdr.len
    /\ \/ /\ req # LengthError
          /\ Dispatch(req)
          /\ handled' = Append(handled, req)
          /\ rbuf' = Consumed(b, hdr)
          /\ rd' = "head"
       \/ /\ req = LengthError
          /\ rbuf' = b
          /\ rd' = "thrown"
          /\ UNCHANGED <<handled, stateVars, queueVars>>
    /\ UNCHANGED <<sentVars, hdr>>

-----------------------------------------------------------------------------

Write == Running /\ (Q!WriteImpl \/ Q!OnWriteComplete) /\ UNCHANGED readVars
Network == (Q!Sent \/ Q!SentNowhere \/ Q!SendError) /\ UNCHANGED readVars
Read == OnReadHead \/ OnReadNoBody \/ OnReadBody

Next ==
    \/ Lost
    \/ \E r \in Requests \cup {Foreign} : Send(r)
    \/ \E m \in Notices : Notify(m)
    \/ Read \/ Write \/ Network

\* The session's thread runs what is queued, and a connection that is not lost
\* carries data; without the thread nobody looks at the socket.  Nothing is
\* assumed of the client.
Spec == Init /\ [][Next]_vars /\ WF_vars(Read) /\ WF_vars(Write) /\ WF_vars(Running /\ Network)

-----------------------------------------------------------------------------

\* What a request means: a heartbeat's body means nothing, and a LOGIN without
\* a type byte comes from a client that is both.
Meaning(r) ==
    IF r.func = "HEARTBEAT" THEN [func |-> "HEARTBEAT"]
    ELSE IF r.func = "LOGIN" /\ r.type = SessionType["NONE"] THEN [r EXCEPT !.type = SessionType["ANYONE"]]
    ELSE r

\* The requests whose length byte is read as a negative number, and among them
\* those for which it wraps around in the test of the packet's length.
Overlong(r) ==
    \/ r.func = "LOGIN" /\ Len(r.guid) >= 128
    \/ r.func = "PROXY" /\ Len(r.game) >= 128
Wrapping(r) ==
    \/ r.func = "LOGIN" /\ Len(r.guid) + 5 >= 256
    \/ r.func = "PROXY" /\ Len(r.game) + 9 >= 256

\* What the session makes of a request that it reads and that does not wrap: up
\* to 127 bytes what it means; above, a LOGIN of nobody or a PROXY of no game.
Heard(r) ==
    IF ~Overlong(r) THEN Meaning(r)
    ELSE IF r.func = "LOGIN" THEN NoLogin
    ELSE [r EXCEPT !.game = <<>>]

\* What it may make of it, with the requests that it skips for its type.
Hearable(r) == {Heard(r)} \cup (IF r.func \in {"PROXY", "GETPROXIES"} THEN {[func |-> r.func]} ELSE {})

\* The session handles exactly the requests that the client made, each once and
\* in order.  It understands them with their fields, but for the lengths of 128
\* and more that deserialize() takes for negative: these requests are handled
\* too, without the name.  A length that wraps is handled in no other way than
\* by the end of the thread, and nothing else ends it.  Between two requests the
\* session has taken from the stream just those it handled: onReadHead,
\* onReadBody and the consume after them never lose the packet boundary.
InSync ==
    /\ Len(handled) <= Len(sent)
    /\ \A i \in DOMAIN handled :
           /\ handled[i] \in Hearable(sent[i])
           /\ Wrapping(sent[i]) => handled[i] = [func |-> "PROXY"]
    /\ rd = "head" => rbuf = <<>> /\ pos = cuts[Len(handled) + 1]
    /\ rd = "thrown" => Len(handled) < Len(sent) /\ Wrapping(sent[Len(handled) + 1])

\* The client reads from the bytes it receives exactly the replies and notices
\* that the server wrote, with their fields: serialize() puts every field where
\* its width says, and the header tells where the packet ends and the next begins.
Readable == \A i \in DOMAIN wire : IsPacket(Serialize(wire[i])) /\ PacketOf(Serialize(wire[i])) = wire[i]

\* The places of the answers, and of those to a LOGIN, among the messages w.
Answers(w) == {i \in DOMAIN w : w[i].func \in {"LOGIN", "PROXY", "GETPROXIES"}}
Logins(w) == {i \in DOMAIN w : w[i].func = "LOGIN"}

\* Every answer of w has a request of its own, and they are in the same order.
Matched(w, requests) ==
    \E for \in [Answers(w) -> DOMAIN requests] :
        /\ \A i \in Answers(w) : w[i].func = requests[for[i]].func
        /\ \A i, j \in Answers(w) : i < j => for[i] < for[j]

\* A repetition is what follows a success.
Repeats(w) ==
    \A i \in Logins(w) :
        w[i].err = ErrCode["REPEAT"] <=> \E j \in Logins(w) : j < i /\ w[j].err = ErrCode["SUCCESS"]

\* Replies come in the order of the requests and at most one for each, with
\* notices of other threads anywhere between them; the client sees at most one
\* LOGIN succeed, and exactly the later ones called a repetition.
AnswersInOrder == Matched(wire, sent) /\ Repeats(wire)

\* With the session's replies and the notices of other threads as its messages, the
\* write queue has at most one async_write under way, and that reads the front of
\* _sque, which keeps it alive.
WriteIsFront == Q!WriteIsFront

\* However the threads interleave their calls of doWrite with completions, the loss
\* of the connection and the end of the thread, the client receives the messages
\* in the order of the calls, each once, without a gap (Outbox).
IsOutbox == Q!IsOutbox

\* A message handed to doWrite reaches the client, unless the session stops or its
\* thread ends: none is left behind in _sque for want of somebody to write it.
AllArrive == []<>(wire = history \/ ~up \/ ~Running)

\* Every LOGIN is answered in the end, whatever other threads send at the same
\* time, unless the session stops or an exception ends its thread.
LoginAnswered == []<>(Cardinality(Logins(wire)) = Cardinality(Logins(sent)) \/ ~up \/ ~Running)
=============================================================================
