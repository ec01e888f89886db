------------------------------ MODULE NatProxy ------------------------------
(***************************************************************************)
(* The control plane of the NAT proxy server: the acceptors of CServer,    *)
(* the sessions (CSession), the registry they share (CSessionMgr) and the  *)
(* life of the relay channels (CChannel) they ask for.                     *)
(*                                                                         *)
(* Threads.  CIoContextPool gives every io_context one thread.  A session  *)
(* is bound to one context, so its handlers (read, timer, stop) never      *)
(* overlap each other: pc[s] is the point reached by the handler that runs *)
(* on behalf of s.  The coroutines and posted handlers of a channel run on *)
(* the channel's own context.  Different sessions, channels and acceptors  *)
(* interleave at every access to something they share: a mutex-protected   *)
(* container, an atomic, a weak_ptr, the socket of the other party.        *)
(***************************************************************************)
EXTENDS Integers, FiniteSets

CONSTANTS
    Sessions,       \* connection objects, each accepted at most once
    Acceptors,      \* one acceptor coroutine per listen address
    Guids,          \* the client identities that log in
    Types,          \* the session types clients announce
    Channels,       \* bound on the channels created in a behaviour
    MaxSessions,    \* CConfig maxSessions(); 0 is "no limit"
    IdSpace,        \* session ids are allocated modulo IdSpace (2^32 in C++)
    Faults,         \* what the environment may do to us, see AllFaults
    NoSession,      \* model values: absence of a session,
    NoGuid,         \*               of a guid,
    NoChannel       \*               of a channel

AllTypes == {"CLIENT", "SERVER", "ANYONE", "NONE"}

\* "lost":   a connection dies before the acceptor looks at it;
\* "reset":  remote_endpoint() fails on a socket that we have open;
\* "nobind": a channel end gets no endpoint or no UDP port;
\* "quiet":  port expiry is configured and an end stays quiet for that long.
AllFaults == {"lost", "reset", "nobind", "quiet"}

ASSUME TypesAssumption == Types \subseteq AllTypes
ASSUME LimitAssumption == MaxSessions \in Nat
ASSUME IdAssumption == IdSpace \in Nat /\ IdSpace > 1
ASSUME FaultsAssumption == Faults \subseteq AllFaults
ASSUME NoneAssumption ==
    NoSession \notin Sessions /\ NoGuid \notin Guids /\ NoChannel \notin Channels
ASSUME FiniteAssumption == IsFiniteSet(Sessions) /\ IsFiniteSet(Acceptors)

VARIABLES
    acc,        \* acc[a]: the session that acceptor a has let past the limit check
    connNum,    \* CServer::_conn_num
    pc,         \* control point of the handler running for each session
    started,    \* CSession::_started
    sockOpen,   \* the session's TCP socket is open on our side
    timer,      \* CSession::_timer: "off", "armed", "expired" (handler queued, ec = 0)
    rd,         \* the session's read: "none", "wait" (outstanding), "ready" (onReadBody queued)
    logined,    \* CSession::_logined
    guid,       \* CSession::_guid
    stype,      \* CSession::_session_type ("UNSET" is the initial 0)
    sid,        \* CSession::_id
    cur,        \* the channel the session's PROXY request is building
    guidSet,    \* CSessionMgr::_guid_set
    ssMap,      \* CSessionMgr::_ss_map (weak pointers; NoSession: no entry)
    nextId,     \* CSessionMgr::_session_id
    dir,        \* what the operations queued on CSessionDb so far amount to
    chSt,       \* life of a channel object
    chSrc,      \* session that requested the channel
    chDst,      \* session the channel leads to
    stopQ,      \* CChannel::stop handlers posted by toStop and not yet run
    endsOpen,   \* ends whose UDP socket is open and whose _owner_ss is set
    srcMap,     \* CSession::_src_channels (ids of weak pointers)
    dstMap,     \* CSession::_dst_channels
    out         \* channel notices handed to CSession::doWrite, per session

srvVars == <<acc, connNum>>
sessVars == <<started, sockOpen, timer, logined, guid, stype, sid>>
ssVars  == <<pc, rd, cur, sessVars>>
mgrVars == <<guidSet, ssMap, nextId, dir>>
chVars  == <<chSt, chSrc, chDst, stopQ, endsOpen, srcMap, dstMap, out>>
vars    == <<srvVars, ssVars, mgrVars, chVars>>

Ends == {"src", "dst"}
Ids  == 0 .. (IdSpace - 1)

LoginSteps == {"login_id", "login_map", "login_undo", "login_db", "login_ok"}
ProxySteps == {"px_init", "px_src", "px_dst", "px_run", "px_start", "px_access", "px_ok"}
StopSteps  == {"st_src", "st_dst", "st_guid", "st_db", "st_map", "st_conn"}

Points     == {"none", "dropped", "accepted", "idle"} \cup LoginSteps \cup ProxySteps \cup StopSteps

\* What a channel tells the clients of its two ends.
Notices == [func : {"PROXY", "ACCESS", "STOPPROXY"}, ch : Channels, end : Ends]

ServerTypeOK ==
    /\ acc \in [Acceptors -> Sessions \cup {NoSession}]
    /\ connNum \in Int

SessionTypeOK ==
    /\ pc \in [Sessions -> Points]
    /\ started \in [Sessions -> BOOLEAN]
    /\ sockOpen \in [Sessions -> BOOLEAN]
    /\ timer \in [Sessions -> {"off", "armed", "expired"}]
    /\ rd \in [Sessions -> {"none", "wait", "ready"}]
    /\ logined \in [Sessions -> BOOLEAN]
    /\ guid \in [Sessions -> Guids \cup {NoGuid}]
    /\ stype \in [Sessions -> AllTypes \cup {"UNSET"}]
    /\ sid \in [Sessions -> Ids]
    /\ cur \in [Sessions -> Channels \cup {NoChannel}]

RegistryTypeOK ==
    /\ guidSet \subseteq Guids
    /\ ssMap \in [Ids -> Sessions \cup {NoSession}]
    /\ nextId \in Ids
    /\ dir \subseteq Ids

ChannelTypeOK ==
    /\ chSt \in [Channels -> {"free", "made", "started", "cl_src", "cl_dst", "closed", "dropped"}]
    /\ chSrc \in [Channels -> Sessions \cup {NoSession}]
    /\ chDst \in [Channels -> Sessions \cup {NoSession}]
    /\ stopQ \in [Channels -> SUBSET Ends]
    /\ endsOpen \in [Channels -> SUBSET Ends]
    /\ srcMap \in [Sessions -> SUBSET Channels]
    /\ dstMap \in [Sessions -> SUBSET Channels]
    /\ out \in [Sessions -> SUBSET Notices]

\* Every variable of the server, the sessions, the registry and the channels
\* keeps to the values its C++ counterpart can have.
TypeOK == ServerTypeOK /\ SessionTypeOK /\ RegistryTypeOK /\ ChannelTypeOK

Init ==
    /\ acc = [a \in Acceptors |-> NoSession]
    /\ connNum = 0
    /\ pc = [s \in Sessions |-> "none"]
    /\ started = [s \in Sessions |-> FALSE]
    /\ sockOpen = [s \in Sessions |-> FALSE]
    /\ timer = [s \in Sessions |-> "off"]
    /\ rd = [s \in Sessions |-> "none"]
    /\ logined = [s \in Sessions |-> FALSE]
    /\ guid = [s \in Sessions |-> NoGuid]
    /\ stype = [s \in Sessions |-> "UNSET"]
    /\ sid = [s \in Sessions |-> 0]
    /\ cur = [s \in Sessions |-> NoChannel]
    /\ guidSet = {}
    /\ ssMap = [i \in Ids |-> NoSession]
    /\ nextId = 1
    /\ dir = {}
    /\ chSt = [c \in Channels |-> "free"]
    /\ chSrc = [c \in Channels |-> NoSession]
    /\ chDst = [c \in Channels |-> NoSession]
    /\ stopQ = [c \in Channels |-> {}]
    /\ endsOpen = [c \in Channels |-> {}]
    /\ srcMap = [s \in Sessions |-> {}]
    /\ dstMap = [s \in Sessions |-> {}]
    /\ out = [s \in Sessions |-> {}]

(***************************************************************************)
(* CServer::acceptor.                                                      *)
(***************************************************************************)

\* The test the acceptor makes before it admits a connection.
OverLimit == MaxSessions > 0 /\ connNum > MaxSessions

\* A connection is accepted but lost before the limit check (not open any
\* more, no remote endpoint), or refused by it: the object dies unstarted.
AcceptDrop(a, s) ==
    /\ acc[a] = NoSession /\ pc[s] = "none"
    /\ OverLimit \/ "lost" \in Faults
    /\ pc' = [pc EXCEPT ![s] = "dropped"]
    /\ UNCHANGED <<srvVars, mgrVars, chVars, sessVars, rd, cur>>

\* The connection passes the limit check; it is not counted yet.
AcceptCheck(a, s) ==
    /\ acc[a] = NoSession /\ pc[s] = "none" /\ ~OverLimit
    /\ acc' = [acc EXCEPT ![a] = s]
    /\ pc' = [pc EXCEPT ![s] = "accepted"]
    /\ UNCHANGED <<connNum, mgrVars, chVars, sessVars, rd, cur>>

\* _conn_num.fetch_add(1), then CSession::start: the login timer is armed and
\* the first read issued.  That set_option(no_delay) between the two throws, on a
\* socket that has just been accepted, is left out.
AcceptStart(a) ==
    LET s == acc[a] IN
    /\ s # NoSession
    /\ acc' = [acc EXCEPT ![a] = NoSession]
    /\ connNum' = connNum + 1
    /\ pc' = [pc EXCEPT ![s] = "idle"]
    /\ started' = [started EXCEPT ![s] = TRUE]
    /\ sockOpen' = [sockOpen EXCEPT ![s] = TRUE]
    /\ timer' = [timer EXCEPT ![s] = "armed"]
    /\ rd' = [rd EXCEPT ![s] = "wait"]
    /\ UNCHANGED <<logined, guid, stype, sid, cur, mgrVars, chVars>>

(***************************************************************************)
(* CSession: reading, the login timer, stop.                               *)
(***************************************************************************)

Idle(s) == pc[s] = "idle"
Goto(s, l) == pc' = [pc EXCEPT ![s] = l]

\* Cancelling revokes a pending wait; a wait that has expired has its handler
\* in the context's queue already, with a success code.
Cancelled(s) == IF timer[s] = "armed" THEN "off" ELSE timer[s]

\* Fault: the early returns of onReqProxy skip doRead().
DoReadUnlessReturned(s) ==
    rd' = [rd EXCEPT ![s] = IF started[s] /\ pc[s] # "px_run" THEN "wait" ELSE "none"]

\* doRead(): issues the next read of a running session.
DoRead(s) == rd' = [rd EXCEPT ![s] = IF started[s] THEN "wait" ELSE "none"]

\* The end of onReadBody: the handler returns after doRead().
Done(s) == Goto(s, "idle") /\ DoRead(s)

\* Fault: stop() does not test _started.
StopsAlways(s) == TRUE

\* stop(): the socket is closed whatever happens; only a started session goes
\* through the rest, and only once.
Stops(s) == started[s]

StopBegin(s) ==
    /\ sockOpen' = [sockOpen EXCEPT ![s] = FALSE]
    /\ started' = [started EXCEPT ![s] = FALSE]
    /\ Goto(s, IF Stops(s) THEN "st_src" ELSE "idle")

\* Time passes the login deadline: the handler is queued.
TimerExpire(s) ==
    /\ timer[s] = "armed"
    /\ timer' = [timer EXCEPT ![s] = "expired"]
    /\ UNCHANGED <<srvVars, mgrVars, chVars, pc, started, sockOpen, rd, logined, guid, stype, sid, cur>>

OnTimeout(s) ==
    /\ Idle(s) /\ timer[s] = "expired"
    /\ timer' = [timer EXCEPT ![s] = "off"]
    /\ StopBegin(s)
    /\ UNCHANGED <<rd, logined, guid, stype, sid, cur, srvVars, mgrVars, chVars>>

\* onReadHead accepted the header and the whole body has arrived: onReadBody is
\* queued.  From here closing the socket no longer fails the read.
ReadComplete(s) ==
    /\ rd[s] = "wait" /\ sockOpen[s]
    /\ rd' = [rd EXCEPT ![s] = "ready"]
    /\ UNCHANGED <<srvVars, mgrVars, chVars, pc, sessVars, cur>>

\* onReadHead or onReadBody stops the session: the peer is gone, the socket was
\* closed under the read, the header is not ours, the body is empty.
ReadFail(s) ==
    /\ rd[s] = "wait" /\ Idle(s)
    /\ rd' = [rd EXCEPT ![s] = "none"]
    /\ timer' = [timer EXCEPT ![s] = Cancelled(s)]
    /\ StopBegin(s)
    /\ UNCHANGED <<logined, guid, stype, sid, cur, srvVars, mgrVars, chVars>>

Request(s) == Idle(s) /\ rd[s] = "ready"

\* HEARTBEAT, GETPROXIES, an unknown function, a repeated LOGIN, a PROXY from a
\* session of the wrong type: at most a reply, then the next read.
OnReqOther(s) ==
    /\ Request(s)
    /\ Done(s)
    /\ UNCHANGED <<sessVars, cur, srvVars, mgrVars, chVars>>

(***************************************************************************)
(* LOGIN: CSession::onReqLogin and CSessionMgr::onSessionLogin.            *)
(***************************************************************************)

\* Sessions of these types are entered in _ss_map and in the directory.
Registers(s) == stype[s] \in {"SERVER", "ANYONE"}

\* Fault: any login attempt disarms the login timer.
LoginRejectedDisarms(s, g, t) ==
    /\ Request(s) /\ ~logined[s]
    /\ g \in guidSet
    /\ guid' = [guid EXCEPT ![s] = g]
    /\ stype' = [stype EXCEPT ![s] = t]
    /\ timer' = [timer EXCEPT ![s] = Cancelled(s)]
    /\ Done(s)
    /\ UNCHANGED <<started, sockOpen, logined, sid, cur, srvVars, mgrVars, chVars>>

\* CSafeSet::insert finds the guid taken: the login fails, the session keeps
\* the fields of the request and waits for the next one.
LoginRejected(s, g, t) ==
    /\ Request(s) /\ ~logined[s]
    /\ g \in guidSet
    /\ guid' = [guid EXCEPT ![s] = g]
    /\ stype' = [stype EXCEPT ![s] = t]
    /\ Done(s)
    /\ UNCHANGED <<started, sockOpen, timer, logined, sid, cur, srvVars, mgrVars, chVars>>

\* The guid is free and is now reserved.
LoginReserve(s, g, t) ==
    /\ Request(s) /\ ~logined[s]
    /\ g \notin guidSet
    /\ guidSet' = guidSet \cup {g}
    /\ guid' = [guid EXCEPT ![s] = g]
    /\ stype' = [stype EXCEPT ![s] = t]
    /\ Goto(s, "login_id")
    /\ rd' = [rd EXCEPT ![s] = "none"]
    /\ UNCHANGED <<started, sockOpen, timer, logined, sid, cur, ssMap, nextId, dir, srvVars, chVars>>

\* Faults: the id is not advanced; the counter does not wrap.
AllocSameId == nextId
AllocNoWrap == nextId + 1

\* allocSessionId(): an atomic 32-bit counter that wraps.
AllocSessionId == (nextId + 1) % IdSpace

LoginId(s) ==
    /\ pc[s] = "login_id"
    /\ sid' = [sid EXCEPT ![s] = nextId]
    /\ nextId' = AllocSessionId
    /\ Goto(s, IF Registers(s) THEN "login_map" ELSE "login_ok")
    /\ UNCHANGED <<started, sockOpen, timer, rd, logined, guid, stype, cur, guidSet, ssMap, dir, srvVars, chVars>>

\* Fault: an existing entry is overwritten.
IdFreeAlways(s) == TRUE

\* addSessionWithLock: refuses an id that has an entry.
IdFree(s) == ssMap[sid[s]] = NoSession

LoginMap(s) ==
    /\ pc[s] = "login_map"
    /\ IF IdFree(s)
         THEN ssMap' = [ssMap EXCEPT ![sid[s]] = s] /\ Goto(s, "login_db")
         ELSE ssMap' = ssMap /\ Goto(s, "login_undo")
    /\ UNCHANGED <<sessVars, rd, cur, guidSet, nextId, dir, srvVars, chVars>>

\* The id was taken: the reservation of the guid is undone.
LoginUndo(s) ==
    /\ pc[s] = "login_undo"
    /\ guidSet' = guidSet \ {guid[s]}
    /\ Done(s)
    /\ UNCHANGED <<sessVars, cur, ssMap, nextId, dir, srvVars, chVars>>

\* remote_endpoint() succeeds and the session is queued for the directory.
LoginDb(s) ==
    /\ pc[s] = "login_db" /\ sockOpen[s]
    /\ dir' = dir \cup {sid[s]}
    /\ Goto(s, "login_ok")
    /\ UNCHANGED <<sessVars, rd, cur, guidSet, ssMap, nextId, srvVars, chVars>>

\* remote_endpoint() fails (the peer has reset the connection, or we have closed
\* the socket): the login fails and nothing that was reserved is given back.
LoginNoPeer(s) ==
    /\ pc[s] = "login_db"
    /\ sockOpen[s] => "reset" \in Faults
    /\ Done(s)
    /\ UNCHANGED <<sessVars, cur, srvVars, mgrVars, chVars>>

LoginOk(s) ==
    /\ pc[s] = "login_ok"
    /\ logined' = [logined EXCEPT ![s] = TRUE]
    /\ timer' = [timer EXCEPT ![s] = Cancelled(s)]
    /\ Done(s)
    /\ UNCHANGED <<started, sockOpen, guid, stype, sid, cur, srvVars, mgrVars, chVars>>

(***************************************************************************)
(* PROXY: CSession::onReqProxy, CSessionMgr::createChannel, CChannel::init *)
(* and CChannel::start, on the thread of the requesting session.           *)
(***************************************************************************)

\* The points at which the handler of t holds a shared_ptr to its target.
Targets(t, s) ==
    /\ pc[t] \in ProxySteps \ {"px_run"}
    /\ chDst[cur[t]] = s

\* Some handler, pending operation or running request owns session s.  When
\* none does, s may be gone, or survive in a write that is still in flight.
Held(s) ==
    \/ rd[s] # "none"
    \/ timer[s] # "off"
    \/ pc[s] \notin {"none", "dropped", "idle"}
    \/ \E t \in Sessions : Targets(t, s)

MayRequest(s) == stype[s] \in {"CLIENT", "ANYONE"}

\* No entry for the id, or an entry whose session is gone: an error reply.
ProxyNotFound(s, i) ==
    /\ Request(s) /\ MayRequest(s)
    /\ ssMap[i] # NoSession => ~Held(ssMap[i])
    /\ Done(s)
    /\ UNCHANGED <<sessVars, cur, srvVars, mgrVars, chVars>>

\* The target is found and a channel object with a fresh id is made.
ProxyCreate(s, i, c) ==
    /\ Request(s) /\ MayRequest(s)
    /\ ssMap[i] # NoSession
    /\ chSt[c] = "free"
    /\ chSt' = [chSt EXCEPT ![c] = "made"]
    /\ chSrc' = [chSrc EXCEPT ![c] = s]
    /\ chDst' = [chDst EXCEPT ![c] = ssMap[i]]
    /\ cur' = [cur EXCEPT ![s] = c]
    /\ Goto(s, "px_init")
    /\ rd' = [rd EXCEPT ![s] = "none"]
    /\ UNCHANGED <<sessVars, stopQ, endsOpen, srcMap, dstMap, out, srvVars, mgrVars>>

\* CEnd::init of both ends: needs both TCP sockets.
BothConnected(s) == sockOpen[s] /\ sockOpen[chDst[cur[s]]]

ProxyInit(s) ==
    /\ pc[s] = "px_init" /\ BothConnected(s)
    /\ endsOpen' = [endsOpen EXCEPT ![cur[s]] = Ends]
    /\ Goto(s, "px_src")
    /\ UNCHANGED <<sessVars, rd, cur, chSt, chSrc, chDst, stopQ, srcMap, dstMap, out, srvVars, mgrVars>>

\* An end has no endpoint or cannot bind: the channel, never started, is
\* released and an error reply sent.
ProxyInitFail(s) ==
    /\ pc[s] = "px_init"
    /\ BothConnected(s) => "nobind" \in Faults
    /\ chSt' = [chSt EXCEPT ![cur[s]] = "dropped"]
    /\ cur' = [cur EXCEPT ![s] = NoChannel]
    /\ Done(s)
    /\ UNCHANGED <<sessVars, chSrc, chDst, stopQ, endsOpen, srcMap, dstMap, out, srvVars, mgrVars>>

\* addSrcChannel and addDstChannel.  They fail only for an id that the map has
\* already, after 2^32 channels; a channel here is its own id, and that is left out.
ProxyAddSrc(s) ==
    /\ pc[s] = "px_src"
    /\ srcMap' = [srcMap EXCEPT ![s] = @ \cup {cur[s]}]
    /\ Goto(s, "px_dst")
    /\ UNCHANGED <<sessVars, rd, cur, chSt, chSrc, chDst, stopQ, endsOpen, dstMap, out, srvVars, mgrVars>>

ProxyAddDst(s) ==
    /\ pc[s] = "px_dst"
    /\ dstMap' = [dstMap EXCEPT ![chDst[cur[s]]] = @ \cup {cur[s]}]
    /\ Goto(s, "px_run")
    /\ UNCHANGED <<sessVars, rd, cur, chSt, chSrc, chDst, stopQ, endsOpen, srcMap, out, srvVars, mgrVars>>

\* The channel's weak_ptr to its target session is locked and isRuning() asked.
TargetRunning(c) == "dst" \in endsOpen[c] /\ started[chDst[c]]

ProxyRun(s) ==
    /\ pc[s] = "px_run" /\ TargetRunning(cur[s])
    /\ Goto(s, "px_start")
    /\ UNCHANGED <<sessVars, rd, cur, srvVars, mgrVars, chVars>>

\* Otherwise onReqProxy returns without a reply; the channel object dies and
\* its entries stay in the two maps.
ProxyAbandon(s) ==
    /\ pc[s] = "px_run" /\ ~TargetRunning(cur[s])
    /\ chSt' = [chSt EXCEPT ![cur[s]] = "dropped"]
    /\ cur' = [cur EXCEPT ![s] = NoChannel]
    /\ Done(s)
    /\ UNCHANGED <<sessVars, chSrc, chDst, stopQ, endsOpen, srcMap, dstMap, out, srvVars, mgrVars>>

\* CChannel::start(): the relay coroutines are spawned.
ProxyStart(s) ==
    /\ pc[s] = "px_start"
    /\ chSt' = [chSt EXCEPT ![cur[s]] = "started"]
    /\ Goto(s, "px_access")
    /\ UNCHANGED <<sessVars, rd, cur, chSrc, chDst, stopQ, endsOpen, srcMap, dstMap, out, srvVars, mgrVars>>

Tell(s, f, c, e) == out' = [out EXCEPT ![s] = @ \cup {[func |-> f, ch |-> c, end |-> e]}]

\* onRespAccess on the target session, from this thread.
ProxyAccess(s) ==
    /\ pc[s] = "px_access"
    /\ Tell(chDst[cur[s]], "ACCESS", cur[s], "dst")
    /\ Goto(s, "px_ok")
    /\ UNCHANGED <<sessVars, rd, cur, chSt, chSrc, chDst, stopQ, endsOpen, srcMap, dstMap, srvVars, mgrVars>>

ProxyOk(s) ==
    /\ pc[s] = "px_ok"
    /\ Tell(s, "PROXY", cur[s], "src")
    /\ cur' = [cur EXCEPT ![s] = NoChannel]
    /\ Done(s)
    /\ UNCHANGED <<sessVars, chSt, chSrc, chDst, stopQ, endsOpen, srcMap, dstMap, srvVars, mgrVars>>

(***************************************************************************)
(* The rest of CSession::stop and CSessionMgr::closeSessionWithLock.       *)
(***************************************************************************)

\* The channel object still exists, so that its weak_ptr can be locked.
Alive(c) == chSt[c] \in {"made", "started", "cl_src", "cl_dst"}

\* Fault: the entries are erased before the channels are told to stop.
PostedNone(m, e) == stopQ

\* CChannelMap::stopAll: post stop to every live channel of map m, for end e.
Posted(m, e) == [c \in Channels |-> IF c \in m /\ Alive(c) THEN stopQ[c] \cup {e} ELSE stopQ[c]]

StopSrc(s) ==
    /\ pc[s] = "st_src"
    /\ stopQ' = Posted(srcMap[s], "src")
    /\ srcMap' = [srcMap EXCEPT ![s] = {}]
    /\ Goto(s, "st_dst")
    /\ UNCHANGED <<sessVars, rd, cur, chSt, chSrc, chDst, endsOpen, dstMap, out, srvVars, mgrVars>>

\* Fault: a session whose login failed is closed like one that logged in.
AttemptedLogin(s) == guid[s] # NoGuid

\* The test of closeSessionWithLock.
WasLogined(s) == logined[s]

StopDst(s) ==
    /\ pc[s] = "st_dst"
    /\ stopQ' = Posted(dstMap[s], "dst")
    /\ dstMap' = [dstMap EXCEPT ![s] = {}]
    /\ Goto(s, IF WasLogined(s) THEN "st_guid" ELSE "st_conn")
    /\ UNCHANGED <<sessVars, rd, cur, chSt, chSrc, chDst, endsOpen, srcMap, out, srvVars, mgrVars>>

CloseGuid(s) ==
    /\ pc[s] = "st_guid"
    /\ guidSet' = guidSet \ {guid[s]}
    /\ Goto(s, "st_db")
    /\ UNCHANGED <<sessVars, rd, cur, ssMap, nextId, dir, srvVars, chVars>>

\* Fault: only sessions of type SERVER are removed from the directory.
CloseDbServers(s) ==
    /\ pc[s] = "st_db"
    /\ dir' = IF stype[s] = "SERVER" THEN dir \ {sid[s]} ELSE dir
    /\ Goto(s, "st_map")
    /\ UNCHANGED <<sessVars, rd, cur, guidSet, ssMap, nextId, srvVars, chVars>>

CloseDb(s) ==
    /\ pc[s] = "st_db"
    /\ dir' = dir \ {sid[s]}
    /\ Goto(s, "st_map")
    /\ UNCHANGED <<sessVars, rd, cur, guidSet, ssMap, nextId, srvVars, chVars>>

\* The entry is erased by id, whoever it leads to.
CloseMap(s) ==
    /\ pc[s] = "st_map"
    /\ ssMap' = [ssMap EXCEPT ![sid[s]] = NoSession]
    /\ Goto(s, "st_conn")
    /\ UNCHANGED <<sessVars, rd, cur, guidSet, nextId, dir, srvVars, chVars>>

\* CServer::sessionClosed.
SessionClosed(s) ==
    /\ pc[s] = "st_conn"
    /\ connNum' = connNum - 1
    /\ Goto(s, "idle")
    /\ UNCHANGED <<sessVars, rd, cur, acc, mgrVars, chVars>>

(***************************************************************************)
(* CChannel, on the thread of the channel's context.                       *)
(***************************************************************************)

\* Fault: stop() does not test _started.
StoppableUnstarted(c) == chSt[c] \in {"made", "started"}

\* CChannel::stop() does something only to a started channel.
Stoppable(c) == chSt[c] = "started"
Stopping(c) == chSt[c] \in {"cl_src", "cl_dst"}

\* A stop handler posted by toStop runs.
PostedStop(c, e) ==
    /\ e \in stopQ[c] /\ ~Stopping(c)
    /\ stopQ' = [stopQ EXCEPT ![c] = @ \ {e}]
    /\ chSt' = [chSt EXCEPT ![c] = IF Stoppable(c) THEN "cl_src" ELSE @]
    /\ UNCHANGED <<chSrc, chDst, endsOpen, srcMap, dstMap, out, srvVars, ssVars, mgrVars>>

\* portExpiredChecker finds an end idle for too long and closes it; the owner
\* session is forgotten with the socket.
Expire(c, e) ==
    /\ "quiet" \in Faults
    /\ e \in endsOpen[c] /\ chSt[c] \in {"made", "started"}
    /\ endsOpen' = [endsOpen EXCEPT ![c] = @ \ {e}]
    /\ UNCHANGED <<chSt, chSrc, chDst, stopQ, srcMap, dstMap, out, srvVars, ssVars, mgrVars>>

\* The coroutine that reads an end finds its socket closed and calls stop().
RelayAbort(c) ==
    /\ Stoppable(c) /\ endsOpen[c] # Ends
    /\ chSt' = [chSt EXCEPT ![c] = "cl_src"]
    /\ UNCHANGED <<chSrc, chDst, stopQ, endsOpen, srcMap, dstMap, out, srvVars, ssVars, mgrVars>>

\* The weak_ptr to the session of end e cannot be locked: it was reset when the
\* end expired, or the session is gone.
Ownerless(c, e, s) == e \in endsOpen[c] => ~Held(s)

\* Fault: the session is told but keeps the entry.
CloseSrcKeeps(c) ==
    /\ chSt[c] = "cl_src"
    /\ chSt' = [chSt EXCEPT ![c] = "cl_dst"]
    /\ \/ "src" \in endsOpen[c] /\ Tell(chSrc[c], "STOPPROXY", c, "src")
       \/ Ownerless(c, "src", chSrc[c]) /\ UNCHANGED out
    /\ UNCHANGED <<chSrc, chDst, stopQ, endsOpen, srcMap, dstMap, srvVars, ssVars, mgrVars>>

\* stop(): closeSrcChannel on the owner of the source end, if it can be locked.
CloseSrc(c) ==
    /\ chSt[c] = "cl_src"
    /\ chSt' = [chSt EXCEPT ![c] = "cl_dst"]
    /\ \/ /\ "src" \in endsOpen[c]
          /\ srcMap' = [srcMap EXCEPT ![chSrc[c]] = @ \ {c}]
          /\ Tell(chSrc[c], "STOPPROXY", c, "src")
       \/ Ownerless(c, "src", chSrc[c]) /\ UNCHANGED <<srcMap, out>>
    /\ UNCHANGED <<chSrc, chDst, stopQ, endsOpen, dstMap, srvVars, ssVars, mgrVars>>

\* The same for the destination end, then both ends are closed.
CloseDst(c) ==
    /\ chSt[c] = "cl_dst"
    /\ chSt' = [chSt EXCEPT ![c] = "closed"]
    /\ endsOpen' = [endsOpen EXCEPT ![c] = {}]
    /\ \/ /\ "dst" \in endsOpen[c]
          /\ dstMap' = [dstMap EXCEPT ![chDst[c]] = @ \ {c}]
          /\ Tell(chDst[c], "STOPPROXY", c, "dst")
       \/ Ownerless(c, "dst", chDst[c]) /\ UNCHANGED <<dstMap, out>>
    /\ UNCHANGED <<chSrc, chDst, stopQ, srcMap, srvVars, ssVars, mgrVars>>

-----------------------------------------------------------------------------

Accept == \E a \in Acceptors :
    \/ \E s \in Sessions : AcceptDrop(a, s) \/ AcceptCheck(a, s)
    \/ AcceptStart(a)

LoginStep(s) ==
    LoginId(s) \/ LoginMap(s) \/ LoginUndo(s) \/ LoginDb(s) \/ LoginNoPeer(s) \/ LoginOk(s)

ProxyStep(s) ==
    \/ ProxyInit(s) \/ ProxyInitFail(s) \/ ProxyAddSrc(s) \/ ProxyAddDst(s)
    \/ ProxyRun(s) \/ ProxyAbandon(s) \/ ProxyStart(s) \/ ProxyAccess(s) \/ ProxyOk(s)

StopStep(s) ==
    StopSrc(s) \/ StopDst(s) \/ CloseGuid(s) \/ CloseDb(s) \/ CloseMap(s) \/ SessionClosed(s)

OnReadBody(s) ==
    \/ OnReqOther(s)
    \/ \E g \in Guids, t \in Types : LoginRejected(s, g, t) \/ LoginReserve(s, g, t)
    \/ \E i \in Ids : ProxyNotFound(s, i) \/ \E c \in Channels : ProxyCreate(s, i, c)

\* A request that is ready to be handled, or a handler that is under way.
Handler(s) == OnReadBody(s) \/ LoginStep(s) \/ ProxyStep(s) \/ StopStep(s)

Session(s) ==
    TimerExpire(s) \/ OnTimeout(s) \/ ReadComplete(s) \/ ReadFail(s) \/ Handler(s)

Channel(c) ==
    \/ \E e \in Ends : PostedStop(c, e) \/ Expire(c, e)
    \/ RelayAbort(c) \/ CloseSrc(c) \/ CloseDst(c)

Next == Accept \/ (\E s \in Sessions : Session(s)) \/ (\E c \in Channels : Channel(c))

Spec == Init /\ [][Next]_vars

(***************************************************************************)
(* Fairness.  Every io_context has a thread that runs its queue for ever,  *)
(* so a handler that is queued, or a step of one that is running, happens; *)
(* the queue is first-in first-out, so an expired timer's handler is not   *)
(* passed over for ever by the session's other handlers (strong fairness). *)
(* Time passes.  A read on a socket that we closed fails.  Nothing is      *)
(* assumed of clients: they need not send, stay or leave.                  *)
(***************************************************************************)
Fairness ==
    /\ \A s \in Sessions :
        /\ WF_vars(TimerExpire(s))
        /\ SF_vars(OnTimeout(s))
        /\ WF_vars(Handler(s) \/ (~sockOpen[s] /\ ReadFail(s)))
    /\ \A c \in Channels :
        WF_vars((\E e \in Ends : PostedStop(c, e)) \/ RelayAbort(c) \/ CloseSrc(c) \/ CloseDst(c))

FairSpec == Spec /\ Fairness

(***************************************************************************)
(* Properties of the registry.                                             *)
(***************************************************************************)

\* Session s has reserved its guid and has not given it back.
Holds(s) ==
    \/ pc[s] \in LoginSteps
    \/ logined[s] /\ (started[s] \/ pc[s] \in {"st_src", "st_dst", "st_guid"})

\* Two running, logged-in sessions never have the same guid, whatever logins
\* and disconnections interleave (CSessionMgr::onSessionLogin against
\* closeSessionWithLock).
GuidUnique ==
    \A s, t \in Sessions :
        s # t /\ started[s] /\ logined[s] /\ started[t] /\ logined[t] => guid[s] # guid[t]

\* A session that is reachable: logged in, of a registered type, running.
Online(s) == started[s] /\ logined[s] /\ Registers(s)

\* An online session is found under its id by getSessionWithLock and is published
\* in the directory: no other session's login failure or close removes it, not
\* even when ids wrap, unless a CLIENT (which skips the map) draws its id then.
OnlineIsFound == \A s \in Sessions : Online(s) => ssMap[sid[s]] = s /\ sid[s] \in dir

\* An id in the directory belongs to a session that is online, or is just
\* completing its login, or is on its way through closeSessionWithLock: a
\* disconnected or failed session is never left published.
PublishedIsLive ==
    \A i \in dir : \E s \in Sessions :
        /\ sid[s] = i /\ Registers(s)
        /\ \/ pc[s] = "login_ok"
           \/ logined[s] /\ (started[s] \/ pc[s] \in {"st_src", "st_dst", "st_guid", "st_db"})

\* A session whose id was queued for the directory and that has its guid still.
Publishing(s) ==
    /\ Registers(s)
    /\ pc[s] = "login_ok" \/ (logined[s] /\ (started[s] \/ pc[s] \in {"st_src", "st_dst", "st_guid"}))

Reg == INSTANCE Registrar WITH
    holds <- {<<sid[s], guid[s]>> : s \in {t \in Sessions : Publishing(t)}},
    closing <- {sid[s] : s \in {t \in Sessions : Registers(t) /\ pc[t] = "st_db"}},
    spent <- {sid[s] : s \in {t \in Sessions : logined[t] \/ Publishing(t)}}

\* Until ids wrap, logins and closes keep the order that the directory relies on,
\* though onSessionLogin and closeSessionWithLock of different sessions interleave
\* at each of their steps: no id is published twice, under a guid another holds,
\* after it was deleted, or after a CLIENT logged in with it.
IsRegistrar == Reg!Spec

\* Sessions counted by the server: started, or not yet through stop().
Counted == {s \in Sessions : started[s] \/ pc[s] \in StopSteps}

\* _conn_num is the number of live connections: every admitted session is
\* uncounted exactly once, on whichever of its stop() paths runs first.
ConnCount == connNum = Cardinality(Counted)

Admitting == {a \in Acceptors : acc[a] # NoSession}

\* However the acceptors race between the limit check and the increment, the
\* limit is passed by at most one session per acceptor.
ConnBound == MaxSessions > 0 => connNum + Cardinality(Admitting) <= MaxSessions + Cardinality(Acceptors)

\* The setting MaxSessions is the maximum number of users, 0 for no limit (the
\* comment of CConfig.hpp:230).
ConnLimit == MaxSessions > 0 => connNum <= MaxSessions

\* A started session is owned by a pending operation or handler, so ~CSession
\* never runs the body of stop(), whose shared_from_this() would throw there.
StartedIsHeld == \A s \in Sessions : started[s] => Held(s)

(***************************************************************************)
(* Properties of the channels.                                             *)
(***************************************************************************)

\* Session s has not yet stopped the channels it requested.
BeforeStopSrc(s) == started[s] \/ pc[s] = "st_src"

\* A running channel can always be stopped from the requesting side: it is in
\* the map that stopAll of a live requester will walk, or its stop is posted.
\* This also holds for a channel that started while its target was stopping.
RunningIsStoppable ==
    \A c \in Channels : chSt[c] = "started" =>
        \/ stopQ[c] # {}
        \/ BeforeStopSrc(chSrc[c]) /\ c \in srcMap[chSrc[c]]

\* A client that was told STOPPROXY is told the truth: the channel is being
\* closed and never runs again, though stop() may be posted before start().
ToldStopIsStopped ==
    \A s \in Sessions : \A n \in out[s] :
        n.func = "STOPPROXY" => chSt[n.ch] \in {"cl_dst", "closed"}

\* The life of channel c.  Until init() has bound its ends it has none to lose.
Life(c) ==
    CASE chSt[c] \in {"free", "made"} -> "made"
      [] chSt[c] = "started" -> "running"
      [] chSt[c] = "dropped" -> "given_up"
      [] OTHER -> "stopped"
Unbound(c) == chSt[c] = "free" \/ \E s \in Sessions : pc[s] = "px_init" /\ cur[s] = c
Lost(c) == IF Life(c) \in {"made", "running"} THEN {e \in Ends : ~Unbound(c) /\ e \notin endsOpen[c]} ELSE Ends

L(c) == INSTANCE ChannelLife WITH life <- Life(c), asked <- stopQ[c], lost <- Lost(c)

\* The control plane treats a channel as the relay does (Relay!IsChannelLife):
\* no stop() that was posted while onReqProxy built the channel makes start()
\* reopen it, no second stop() or abort of the relay closes it again, only an
\* unstarted channel is given up, and one that runs stops only for a reason.
IsChannelLife ==
    /\ \A c \in Channels : L(c)!Init
    /\ [][\A c \in Channels : [L(c)!Next]_(L(c)!vars)]_vars

Owner(c, e) == IF e = "src" THEN chSrc[c] ELSE chDst[c]
Listed(c, e) == IF e = "src" THEN c \in srcMap[chSrc[c]] ELSE c \in dstMap[chDst[c]]
Told(c, e) == [func |-> "STOPPROXY", ch |-> c, end |-> e] \in out[Owner(c, e)]

\* Where ports do not expire: once a channel is closed, each of its sessions
\* that still runs was told so and no longer lists the channel, though either
\* session may disconnect, and post its own stop, at any moment of stop().
ClosedIsTold ==
    "quiet" \notin Faults =>
        \A c \in Channels, e \in Ends :
            chSt[c] = "closed" /\ started[Owner(c, e)] => Told(c, e) /\ ~Listed(c, e)

\* Where ports expire the owner of an expired end is not told; it is then the
\* one that keeps the entry, and no session is told of a channel it still lists.
ListedUntilTold ==
    \A c \in Channels, e \in Ends :
        chSt[c] = "closed" /\ started[Owner(c, e)] => (Told(c, e) <=> ~Listed(c, e))

(***************************************************************************)
(* What the comments of CConfig.hpp promise of the login timeout.          *)
(***************************************************************************)

\* "expiry time of users that are not logged in", said of
\* _srv_free_session_expired: the login timer stops no logged-in session.
TimerSparesLogined == [][\A s \in Sessions : OnTimeout(s) /\ started[s] => ~logined[s]]_vars

(***************************************************************************)
(* Liveness.                                                               *)
(***************************************************************************)

\* Session s counts as a connection, but is neither running and logged in nor
\* gone: it has to log in yet, or is on its way through stop().
Unsettled(s) == s \in Counted /\ ~(started[s] /\ logined[s])

\* In the end nobody is left half-way (each session is accepted once): the login
\* timer gets rid of whoever does not log in, and stop() is gone through to its
\* end from wherever it was entered, with nothing left that holds the session.
Settles == <>[](\A s \in Sessions : ~Unsettled(s) /\ (Held(s) => s \in Counted \/ pc[s] = "accepted"))

\* When the requester stops, or the target's stop() reaches stopAll, a channel
\* that runs is closed.
StopCloses ==
    \A c \in Channels :
        (chSt[c] = "started" /\ (~started[chSrc[c]] \/ pc[chDst[c]] = "st_dst")) ~> chSt[c] = "closed"
=============================================================================
