# Formal models of nat_proxy_asio

TLA+ models of the NAT proxy server under `src/src`, the TLC configurations that
check them on small instances, and proofs that TLAPS checks. The repository has
no tests and its README is one line; the reference is the code, with the comments
of `util/CConfig.hpp` on the settings.

    cd tla
    tlc -workers 2 -config MC_proxy.cfg NatProxyMC     # any run of PROJECT.json
    tlapm NatProxyProofs.tla                           # a module of proofs

The modules of proofs are `NatProxyProofs`, `ChannelProofs`, `RelayProofs`,
`QueueFacts`, `WriteQueueProofs`, `SessionIoProofs`, `RedisClientProofs` and
`SessionDbProofs`.

`PROJECT.json` lists components, runs, faulty variants (a definition of the model
replaced by a plausible mistake that the property must catch), the map from
definitions to source lines, findings, hazards and theorems.

## The system

Clients connect over TCP, log in with a guid and a type, and ask for a proxy to
another session by its id. The server then makes a channel: two UDP ports, one
for each client, and relays datagrams between them.

| part | code | state | operations |
|---|---|---|---|
| acceptors | `CServer` | `_conn_num`, one coroutine per listen address | accept, limit test, start a session, `sessionClosed` |
| session | `CSession` | `_started`, socket, login `_timer`, pending read, `_logined`, `_guid`, `_id`, `_session_type`, `_src_channels`, `_dst_channels`, `_sque` | `start`, `doRead`, `onReadHead`, `onReadBody`, `onReqLogin`, `onReqProxy`, `onReqGetProxies`, `onTimeout`, `stop`, `doWrite` |
| registry | `CSessionMgr` | `_guid_set`, `_ss_map` (weak pointers), id counters | `onSessionLogin`, `closeSessionWithLock`, `createChannel`, `getSessionWithLock` |
| directory | `CSessionDb` | `_op_stack`, `_db`, `_out_buff`, a Redis mirror | `add`, `del`, `worker`/`operate`/`serial`, `stop` |
| channel | `CChannel`, `CChannelMap` | `_started`, two ends with socket, `_opened`, `_remote_ep`, `_owner_ss` | `init`, `start`, `toStop`, `stop`, `uploader`, `downloader`, `displayer`, `portExpiredChecker` |
| io_context pool | `CIoContextPool` | one thread per context, round-robin index | `getIoContext`, `startThread` |
| wire protocol | `CProtocol` | - | (de)serialisation of packets |
| Redis client | `redisclient/` (copied in) | connection state, command queue, reply parser | `connect`, `command`, `disconnect` |

**Threads.** Every io_context has one thread. A session's handlers run on one
context and never overlap each other; a channel lives on another context, with
its own thread; the acceptors, the directory's worker and the thread that handles
signals are further actors. What they share is protected by a mutex each
(`_ss_map`, `_guid_set`, the channel maps, `_op_stack`), or is atomic
(`_conn_num`, `_started`, the id counters), or is not protected at all (the
socket and `_owner_ss` of a channel's end, `_next_context_index`).

**Interactions.** Session -> registry by calls (login, close, create); registry
-> directory by a queue; session -> channel by calls on the session's thread
(`init`, `start`) and by posted handlers (`toStop`); channel -> session by calls
on the channel's thread (`closeSrcChannel`, `closeDstChannel`) and by `doWrite`,
which posts to the session.

**What is hard here.** A login and a close each consist of several steps that
other sessions' logins and closes may split. `stop()` is reached on several
paths. A cancelled timer or a closed socket does not revoke a completion that is
already queued. Channels are started on one thread and stopped on another, before,
during or after `start()`. Coroutines wait in several places when the sockets are
closed under them. The directory's queue, its worker, Redis and `stop()` are four
actors. The hazards, each at its line, are in `PROJECT.json`.

**What makes the parts correct.**

- acceptors: the counter is exact; the limit is passed by a known amount at most;
- session: started sessions stay owned, stop once, and who does not log in leaves;
- registry: one running session per guid; an online session can be found; nobody
  who is gone stays published;
- directory: no operation lost, doubled or reordered; the listing is the directory up
  to the size of its buffer; what is posted to Redis brings it in line as long as the
  connection lasts; the worker sleeps through no change;
- channel life: a running channel can always be stopped; STOPPROXY is never a lie;
  the sessions of a closed channel have been told and have forgotten it;
- channel relay: the handshakes come in order, data goes only where they allow, no
  direction dies alone, and after `stop()` everything is released;
- write queue: one write at a time; messages of all threads reach the client in
  the order of the calls, each once, without a gap, and none is left behind;
- wire protocol: the session never loses the packet boundary, understands what was
  meant up to the lengths its reading of a length byte allows, and writes what the
  client can read; answers come in order;
- Redis client: every reply goes to the handler of its own command; what the
  parser reads does not depend on how the stream was cut.

## Modules

| module | models | checked by |
|---|---|---|
| `NatProxy` | acceptors, sessions, registry, life of channels | `NatProxyMC` |
| `WriteQueue` | `doWrite`, `writeImpl`, `onWriteComplete` | through `SessionIo` |
| `Outbox` | what a queue of messages promises (abstract) | `SessionIo!IsOutbox`, `RedisClient!IsPipeline` |
| `Protocol` | packets as operators over bytes, with the client's side as the reference | through `SessionIo` |
| `SessionIo` | one connection, byte by byte: composes `Protocol` and `WriteQueue` | `SessionIoMC` |
| `SessionDb` | the directory | `SessionDbMC` |
| `RedisClient` | connection, command queue and reply handlers | `RedisClientMC` |
| `RedisParser` | the reply parser and `makeCommand` over bytes | `RedisParserMC` |
| `Relay` | one channel's sockets and coroutines | `RelayMC` |
| `Registrar` | what the registry promises to the directory (abstract) | `NatProxy!IsRegistrar` |
| `Tunnel` | what the upload direction of a channel promises (abstract) | `Relay!IsTunnel` |
| `ChannelLife` | the life of one channel, as control plane and relay both see it (abstract) | `NatProxy!IsChannelLife`, `Relay!IsChannelLife` |
| `NatProxyProofs`, `ChannelProofs` | theorems on `NatProxy`; the second extends the first | TLAPS |
| `RelayProofs`, `WriteQueueProofs`, `SessionIoProofs`, `RedisClientProofs`, `SessionDbProofs` | theorems; `QueueFacts` has the lemmas on queues that four of them share | TLAPS |

### NatProxy

`pc[s]` is the point that the handler running for session `s` has reached; an
action is the code between two accesses to something another thread can touch.
`onReqLogin`/`onSessionLogin` is reserve guid, allocate id, enter map, read the
peer's address and enter the directory, answer; `onReqProxy`/`createChannel`/
`CChannel::init` is find, make, bind both ends, enter both maps, test the target,
start, tell the target, tell the requester; `stop`/`closeSessionWithLock` is close
the socket, stop both channel maps, release the guid, leave directory and map,
uncount. The early returns are there as they are in the code: a login whose
`remote_endpoint()` fails keeps its guid reserved and its map entry
(`LoginNoPeer`); `onReqProxy` returns without an answer when the target has gone
(`ProxyAbandon`); a session that is stopped while its `onReadBody` is queued
still handles that request.

Left out: `set_option` throwing in `CSession::start` (`CSession.cpp:70`), which would
end the acceptor's thread and leave the session to its timer, and the failures of
`addSrcChannel` and `addDstChannel` (`CChannel.cpp:139-148`; the second tells the
requester STOPPROXY of a channel that was not started). The maps refuse only an id
they have, and channel ids repeat after 2^32 channels; the models do not let them.

Abstracted: message contents (only channel notices are kept, as a set, since
their order belongs to `WriteQueue`); the directory (`dir` is what the queued
operations amount to; `SessionDb` shows that the worker brings this about);
relaying (`Relay`). The environment's failures are the constant `Faults`.

### WriteQueue and Outbox

`doWrite` is called on any thread and only posts; `posted`, `_sque`, the writes that
are outstanding and the completions that are queued are sequences of their own, so
that a second write at a time, or a completion for a packet that has left the queue,
would be visible. A failed write leaves the rest of `_sque` where it is and later
messages only join it; the connection is lost by then, and nothing may be written past
the gap. A write on a lost connection may also complete without an error, and what it
wrote arrives nowhere (`SentNowhere`). `Outbox` is the promise: what arrives is a
prefix of what was accepted, and nothing arrives once it is cut.

### Protocol and SessionIo

`Protocol` translates every `deserialize` and `serialize` with the offsets and
sizes the code works out by hand; `Request` and `PacketOf` are the client's side,
which lays fields one behind the other, adds up their widths, and is what the code
is compared with. In `SessionIo` the client sends requests at any time (`Send`),
also bytes that are no packet of this protocol (`Foreign`); `stream` is all it has
sent, `cuts` where its requests end, `pos` how far the session has read. The
session cuts the stream as `onReadHead` and `onReadBody` do (`_rbuf`,
`transfer_exactly`, `consume`), dispatches the requests, and lets the replies out
through `WriteQueue`, among notices of other threads. `Readable` looks at what
arrives packet by packet: it demands that each header gives the length of its
packet, and with that the client cuts the stream where the server did. Whether a
login succeeds or a channel can be made is left open: `NatProxy` models that. A
heartbeat without a body is an error in `onReadBody` and stops the session
(`OnReadNoBody`).

A length byte is a `char`, signed on the platforms this is built for, and becomes a
`size_t` (`CProtocol.cpp:20`, `49`). `LoginPkt` and `ProxyPkt` keep this: up to 127 the
name is read; from 128 on the number is huge, the test of the packet's length fails
and `deserialize` returns false, which `onReadBody` ignores. A LOGIN then goes on with
the fields that `make_shared` has zeroed (no guid, type NONE), a PROXY with its ids and
no game. From 251 (LOGIN) and 247 (PROXY) the sum in the test wraps around, the test
passes, and `assign` throws. The exception leaves the handler and ends the thread of
the io_context (`rd = "thrown"`): neither reads nor writes of the session go on, nor
those of other sessions on that context, which are outside this model. The client
itself may use all 255 lengths.

Requests shorter than their function needs are left out: the tests of `deserialize`
count the header in, let them pass and read behind the packet, which is undefined.

### RedisClient and RedisParser

`RedisClient` has the worker (`isConnected`, `command`), the io thread's handlers,
`close()` on the stopping thread, the connection and Redis. No error handler is
installed, so an error of the connection is an exception that ends the io thread
(`io = "ended"`); a failed `stateValid()` is `io = "abort"`. After a lost connection
`state` stays Connected and commands pile up; `state` is Connected before AUTH is
sent, so a command of the worker may go first; and `handleAsyncConnect` sets it
without a look, which undoes a `close()` that came after its `set_option`
(`SetConnected`). All three are in the model.

`RedisParser` is the parser's state machine with its two stacks, byte by byte, and
the loop of `asyncRead` that calls it. What Redis sends, and how a command is to
look, are defined separately (`Encode` and the like) as the reference.

### SessionDb

Session threads (`Add`, `Notify`, `Release`, `Del`), the worker (`WorkerTest` to
`WorkerSerial`), Redis with its connection, and `stop()`. The lock is implicit: the
worker holds it throughout `operate()`, which is one action unless it gives a
command to Redis, where it is two and `Locked` keeps the others out. `serial()`
keeps the loop condition, the count byte modulo its width and the buffer's length.
When as many sessions are entered as the buffer has entries, the last entry and the
final zero are written past its end; the model stops there (`wpc = "overrun"`).

Redis outlives the server, so it starts with any hashes an earlier process left
(`OldHashes`); nothing clears them. `command()` only posts (`Post`): `cmds` are the
commands on their way, which Redis executes later (`RedisExecute`), in order. A
command that goes out before AUTH is refused, and AUTH itself may be; the connection
may be lost. The client's state stays Connected in all these cases (`conn` is
"unauthenticated" or "deaf"), and the worker goes on posting to nobody. How commands
are queued, written and answered is `RedisClient`'s matter; its pipeline
(`IsPipeline`) is what makes one sequence of commands enough here.

### Registrar: the registry and the directory together

`SessionDb` does not repeat logins; its sessions add an id under a guid, give the
guid back and delete the id, in an order that the directory relies on. `Registrar`
states this order on its own: an id is published at most once, under a guid that
nobody else holds, the guid is given back first and the id deleted after it, and an
id that a CLIENT logged in with is never published later. `NatProxy!IsRegistrar`
reads it off the sessions' control points: a session publishes from the step that
queues ADD to the one that releases its guid, and is closing from there to DEL.
`SessionDbProofs` reads it off the directory's sessions. One side is shown to keep
the promise, the other to allow exactly what was promised (see Proofs), so that
what is shown of the directory applies to the registry's real sequence of calls.

### Relay and Tunnel

The channel's context has one thread, so an action is the code of a coroutine
from one yield to the next. The outcome of a receive is fixed when it completes
(`Arrive`, into `got`) and seen when the coroutine resumes; closing a socket
aborts only what is outstanding. `start()` is four steps on the session's thread.
`downloader`'s `connect()` opens the socket if it was closed meanwhile, as asio
does. `Tunnel` says what this amounts to for uploads: the target joins, then a
source host, then only that host's datagrams are passed on, to that target; the
refinement mapping reads `src` and `dst` from `_opened` and `_remote_ep`.

The expiry checkers hold a raw `this`. A checker sleeps up to ten seconds and may
wake up after the channel was released; this is undefined, and the model ends at
the release (`Released`).

### ChannelLife: the control plane and the relay together

`NatProxy` has the life of a channel without its sockets and coroutines, `Relay` one
channel without the sessions. What each takes for granted of the other is in
`ChannelLife`: a channel is made and then started or given up; a stop may be posted
at any time and, when its turn comes, stops only a channel that runs; a channel
that runs stops by itself only after it lost an end; nothing runs again.
The coroutines of `Relay`, each with error paths of its own, thereby stop a channel
only where `NatProxy` expects it (`RelayAbort`: an end is lost), and neither side
starts, stops or gives up a channel in a state in which the other would not.
`NatProxy` is mapped channel by channel, so that one step of `stopAll` is a step of the life of each
channel in the map. An end counts as lost when its checker has closed it, although
`downloader`'s `connect()` may open the socket of the target's end again.

## Runs

| run | instance | shows |
|---|---|---|
| `registry` | 3 connections, 2 acceptors, 1 guid, CLIENT and ANYONE, resets and lost connections | `ConnCount`, `GuidUnique`, `PublishedIsLive`, `IsRegistrar` |
| `proxy` | 2 sessions, 1 channel, 2 guids, ids modulo 2, resets, failing binds, ports that expire | `TypeOK`, `OnlineIsFound` over id reuse, `StartedIsHeld`, `RunningIsStoppable`, `ToldStopIsStopped`, `ListedUntilTold`, `IsChannelLife` |
| `closing` | 2 sessions, 1 channel, fair | `ClosedIsTold`, `Settles`, `StopCloses` |
| `requests` | 2 requests of 8 kinds (names on both sides of the lengths 127/128 and in the range that wraps; bytes of another protocol; a heartbeat without a body), notices in between, 4 messages out, fair | `InSync`, `Readable`, `AnswersInOrder`, `WriteIsFront`, `IsOutbox`, `AllArrive`, `LoginAnswered` |
| `directory` | 3 sessions that use 1 guid in turn, any hashes in Redis at first, a buffer of 3 entries, a count modulo 3 | `QueueSound`, `ListingFits`, `RedisFollows`, `UpToDate` |
| `redis` | 4 commands, AUTH among them, fair | `WriteHeld`, `OwnReply`, `IsPipeline`, `AllAnswered` |
| `parser` | 1 or 2 replies, arrays three deep, cut at every point; damaged bytes; commands | `ReadsWhatWasSent`, `CutsDoNotMatter`, `StacksMatch` |
| `relay` | 2 hosts with 2 ports each, expiry | `RunningIsServed`, `EchoIsTrue`, `IsTunnel`, `IsChannelLife` |
| `release` | 1 client endpoint, expiry, displayer, fair | `StopReleases`, `LostEndStops` |
| `conn_limit` | 2 connections, 1 acceptor, limit 1 | violation, see Findings |
| `login_timer` | 1 session, fair | violation, see Findings |
| `redis_assert` | 2 sessions | violation, see Findings |

**Bounds.** A session object is accepted once and a channel object is made once, as in
the code, so `Sessions` and `Channels` bound the length of a behaviour. Three sessions
are the least with which a failed login can disturb a holder and a third profit; with
two acceptors and a limit of one they also pass the test of the limit together. That
the limit does not hold is the finding `conn_limit`, and how far it is passed, for any
number of acceptors, the theorem `LimitOvershoot`. One channel and two sessions give
every combination of requester, target and self-request; a second channel shares only
the maps, whose entries are independent. `IdSpace` 2 makes ids collide after two
logins; elsewhere it is larger than the number of logins, so that ids do not wrap. In
`proxy` all sessions are of a type that is entered in the map: a CLIENT, which is not,
may draw an online session's id after 2^32 logins and erase its entry when it closes
(a listed hazard).

Four messages (`MaxPosts`, `MaxCommands`) give a write under way, one that waits in
the queue, one that is posted and one that was done; the theorems are for any number.
Two requests in `requests` give a second packet to every first one, so that a lost
packet boundary shows, and a LOGIN and its repetition or a request that it allows;
more of them, in any order, are the matter of the theorems. Among the names are the
longest that is understood, the shortest that is refused and the shortest that ends
the thread. In `parser` every chunk is of any length up to `BufSize`, so that every
way of cutting the replies occurs, and payloads hold CR, LF and type bytes themselves.
In `directory` the listing is filled by three sessions that follow each other under
one guid before the worker comes to their DELs; with one or two it has room. The
buffer and the count byte are in the proportion of the code (2048 bytes of 8 each, a
count modulo 256). `OldHashes` is every content Redis can have. Two hosts and two
ports give a source that moves, a stranger and a target. Model values that the
specification treats alike are permuted (SYMMETRY) in runs without liveness.

**Deadlock** is not checked (`CHECK_DEADLOCK FALSE`): when all connections have
been used up, or the channel is released, a behaviour is at its end.

**Fairness.** Weak fairness of handlers, coroutines, posted stops, the strand of a
session and the Redis client's thread: these threads loop for ever and every queued
handler is run (an exception that ends a thread of the pool is modelled where it
arises, in `RedisClient` and `SessionIo`; the other modules assume that their threads
run). Strong fairness of `OnTimeout`: the queue is first in, first out, so an expired
timer's handler is not passed over for ever by the reads of a busy client. Timers
expire. A TCP connection that is neither lost nor closed carries data in the end, and
a Redis that is connected answers; both may be lost at any step, and the properties
say so. Nothing else is assumed of clients, of the network, of Redis or of `stop()`
being called. The directory needs no fairness: `UpToDate` says as an invariant that no
wake-up is lost, with spurious ones allowed.

## Findings

- `conn_limit`: the setting is documented as the maximum number of users
  (`CConfig.hpp:230`). The acceptor refuses a connection when `_conn_num` is *greater*
  than it, so that one more is admitted, and one more again for each acceptor that
  has tested and not yet counted. The theorem `LimitOvershoot` says how far this goes.
- `login_timer`: the setting is documented as the expiry time of users that have
  not logged in (`CConfig.hpp:233`). `onTimeout` does not look at `_logined`, and
  `cancel()` does not revoke a handler that is queued, so a session that has just
  logged in may be stopped by it.
- `redis_assert`: `CSessionDb::stop()` may disconnect between `isConnected()` and
  `command()` in the worker, and `stateValid()`'s assertion fails.

Behaviours that no comment contradicts, found while modelling, are in the models
(or, where undefined, left out) and most of them in the list of hazards: the guid
that stays reserved after a failed or late login, the silent return of
`onReqProxy`, the LOGIN with a long guid that logs in without one, the channel
limits that nothing reads, the reopened destination end, downloads before the
source has joined, the listing's 256th entry, the checker that outlives its
channel, the heartbeat without a body that ends the session, a command that is
sent before AUTH, commands that pile up after Redis is lost, hashes in Redis that
nobody removes, ACCESS and STOPPROXY
notices that a client reads before the reply to its own LOGIN or PROXY, and
`onRespAccess`, which fills in the target's own id and address.

## Proofs

For every set of sessions, acceptors, guids and channels (sessions and acceptors
finite), every set of requests and messages of any length that fits a packet, and
every configuration:

- `NatProxyProofs!TypeCorrect`: `[]TypeOK`, with the help of `CurOK` (a session that
  builds a channel has one).
- `NatProxyProofs!GuidsAreUnique`: `[]GuidUnique`. On its own it is not inductive: a
  guid is reserved long before `_logined` is set and released after `_started` is
  cleared. `GuidInv` says who *holds* a guid (from `LoginReserve` to `LoginOk`, and
  from then to `CloseGuid`), that a held guid is in `_guid_set` and that holders
  differ; `PhaseOK` ties the phases to `_logined` and `_started`, `AccOK` keeps
  acceptors apart. A failed login's session keeps its guid field and does not
  hold it, which is where the test of `_logined` in `closeSessionWithLock` matters.
- `NatProxyProofs!CountIsExact`: `[]ConnCount`, over cardinalities, from `GuidInv`.
- `NatProxyProofs!LimitOvershoot`: `[]ConnBound`, the limit is passed by at most one
  session for each acceptor, by counting the acceptors between
  the limit test and the increment.
- `RelayProofs!TypeCorrect`, `ChannelIsServed` (`[]RunningIsServed`),
  `EchoesAreTrue` (`[]EchoIsTrue`), and `RelayIsTunnel` (`Spec => IsTunnel`, the
  refinement). They rest on `Handshake`: where a coroutine waits determines what
  the handshakes have reached (no end is joined while its coroutine greets, the
  relay loops run only after the handshake, nothing was passed on while the source
  may still be dismissed), the source joins after the target, and the connected
  peer is the target.
- `WriteQueueProofs!OneWriteAtATime` (`[]WriteIsFront`) and `QueueIsOutbox` (`Spec =>
  IsOutbox`) of the queue alone, and `SessionIoProofs!OneWriteAtATime` and
  `MessagesInOrder` of the session with its queue: a step of `SessionIo` is a step of
  `WriteQueue` or leaves it alone (`QueueStep`). `WriteIsFront` says nothing of what
  is behind the front, so the invariant adds `InOrder` (strand and `_sque` together
  are the end of the history) and `NothingLost` (while the connection lasts, what has
  left the queue has arrived). `Delivered`, that what arrived is the beginning of the
  history, is what `SessionIoProofs` takes from here.
- `SessionIoProofs!RequestsUnderstood` and `RepliesLegible`: the byte level, for every
  request a client can lay out (guid and game of up to 255 bytes) and every message the
  server writes, whatever the values of the fields. Of a request, `Outcome` says what
  `deserialize()` makes of it at which length: what the client meant up to 127,
  a LOGIN of nobody or a PROXY of no game above, the exception where the length
  wraps. A field of a request
  is found where the fields before it end (lemmas on `SubSeq` of concatenations); a
  field of a reply is what `serialize()` put there and no later `Put` overwrites; the
  two byte orders are undone by arithmetic.
- `SessionIoProofs!PacketBoundary` (`[]InSync`). The invariant `ReadInv`: the stream
  is the encoded requests one behind the other and `cuts` is where they end
  (`LaidOut`); after a header, `_rbuf` and `_hdr` are those of the next request and
  the reads stand `HdrLen` behind its begin (`HalfRead`); a length that wraps is
  handled only by the end of the thread, or skipped with a PROXY the session may not
  ask for; bytes of another protocol fail `checkHead()` and end the reading.
- `SessionIoProofs!ClientReads` (`[]Readable`), from `RepliesLegible` and `Delivered`, and
  `OrderOfAnswers` (`[]AnswersInOrder`): `AnswerInv` says it of what was handed to
  `doWrite` and of the requests that were handled, with `_logined` true exactly after
  a success; `Delivered` and `InSync` carry it over to what arrived and what was sent.
- `RedisClientProofs!OneWriteAtATime` (`[]WriteHeld`), `RepliesMatch`
  (`[]OwnReply`) and `ClientIsPipeline` (`Spec => IsPipeline`). The invariant places
  every queue in the history of the commands (`Lined`, `LinedOut`) and says that
  Redis has what was written as long as the connection lasts (`Reaching`); the
  n-th reply and the n-th handler are then the same element of the history.
- `SessionDbProofs!MirrorFollows` (`[]RedisFollows`) and `QueueIsSound`
  (`[]QueueSound`). `Ledger` relates where a session stands to what the queue and
  `_db` hold for it (an ADD only for a session not yet entered, at most one DEL
  behind it, a DEL due for whoever has gone and is still entered). For Redis the
  invariant speaks of what a key *will hold* once the commands posted are executed,
  so that executing one changes nothing, and ties this to `_db` for the keys that
  were posted about while the connection lasts; what Redis held at first drops
  out with the first command for a key.
- `SessionDbProofs!WorkerIsUpToDate` (`[]UpToDate`). `Announced`: what is queued while
  the worker sleeps belongs to a session that is about to notify. `Ledger` then leaves
  nothing in the queue when nobody is, and the listing is the directory.
- `SessionDbProofs!TypeCorrect` (`[]TypeOK`): the loop of `serial()` ends, because
  `_db` is finite and the buffer is; the least number of entries that stops it is
  the listing's length (`SerialType`). `ListingIsDirectory` (`[]ListingFits`) then
  counts the sessions that are entered *now*, however many ids were handed out: below
  the buffer's number of entries the loop ends with `_db` and not with the buffer,
  the count byte has not wrapped, and the listing has to be all of `_db`; at it, and
  not before, the worker overruns the buffer.
- `NatProxyProofs!StartedStaysHeld` (`[]StartedIsHeld`). `OwnInv`: a running session
  that no handler runs for has a read outstanding or completed (`IdleReads`), and a
  stopped one whose request was still queued comes no further than the first use of
  its socket (`PastSocket`).
- `NatProxyProofs!DirectoryIsLive` (`[]PublishedIsLive`), from `OwnInv`: the six steps
  that write to the registry are looked at one by one, and all others leave alone
  who is entered where (`FrameNext`).
- `NatProxyProofs!FoundWithoutClients` (no session is a CLIENT, ids may wrap) and
  `FoundUntilWrapped` (any types, `[]~Wrapped`): `[]OnlineIsFound`. The property
  needs one of the two hypotheses, as a CLIENT is not in `_ss_map`, may draw an
  online session's id after a wrap, and erases it. `Found` is the property from the
  map entry on, so through the rest of the login and until the session's own close.
  A session that is itself in the map cannot erase another's entry, which would have
  to lead to both; `NoClash` says that no session outside the map closes under the id
  of one in it. Without CLIENTs there is no such session (`Announced`); before the
  wrap drawn ids differ (`Drawn`).
- `NatProxyProofs!ManagerIsRegistrar`: `Spec /\ []~Wrapped => IsRegistrar`. A login
  maps to `Add` (its guid is not held by `GuidInv`, its id is fresh by `Drawn`) or,
  for a CLIENT, to `Retire`; `CloseGuid` to `Release`, `CloseDb` to `Del`, all other
  steps to stutters. `SessionDbProofs!SessionsAreRegistrar` shows that the
  directory's sessions keep to `Registrar` as well, and the lemma `AddsAllowed` that
  they may add whenever `Registrar` may: the directory assumes neither more nor
  less of the registry than is proved of it.
- `ChannelProofs`: `RunningStaysStoppable`, `ToldIsTrue`, `ListedTillTold`,
  `ClosedAndTold`, and `ChannelsLive` (`Spec => IsChannelLife`, for every channel).
  None of the invariants is inductive: what is true when a channel is closed was decided when it was
  built, by another thread. `LifeInv` follows a channel from `createChannel` on:
  `Known` (who requested it, and of whom), `Built` (how far `onReqProxy` of the
  requester has come fixes the stage of the channel, so that no other session builds
  it too), `EndsStayOpen` (an end loses its owner by expiry only), `Notified` (at which
  stage who is told), `SrcSide` and `DstSide` (a session that runs lists the channel up
  to the step that tells it) and
  `RunningIsStoppable` itself. For `ChannelLife` it also shows that start() and the
  two ways of giving up, which do not look at the state of the channel, only ever
  meet one that is made, and that nobody else is binding its ends.
- `RelayProofs!RelayLives` (`Spec => IsChannelLife`). Its invariant adds `StartedOnce` (a
  channel left without coroutines was never started) and `ClosedIsLost` (before
  stop(), an end is closed by its checker only), so that the coroutines, which all
  call stop() on a closed socket, do so only after an expiry.

Proved and in no run: `ConnBound`, `TypeOK` of `Relay` and `SessionDb`, and `OnlineIsFound` with
CLIENTs among the sessions (`FoundUntilWrapped`); the run `proxy` checks it without
them over reused ids.

The named assumptions on constants are in the modules that declare them; TLC
evaluates them in the runs. `SessionDb` has `SizeAssumption` and `CountAssumption`, that
entries fill the buffer evenly and that the count byte can count a full buffer less
one entry (2048 bytes, 8 for an entry, one byte), `FiniteAssumption`, that ids are
finitely many (they are 32-bit numbers), and `OldAssumption`, that an old hash names
an id. Those of `SessionIo` are the widths of the fields: bytes, 16-bit lengths and
ports, 32-bit ids and addresses, guids and games of at most 255 bytes, which is what
their length byte can say.

Only model-checked:

- liveness (`Settles`, `StopCloses`, `AllArrive`,
  `LoginAnswered`, `AllAnswered`, `StopReleases`, `LostEndStops`): fairness is out of
  the prover's reach;
- `ReadsWhatWasSent`, `CutsDoNotMatter` and `StacksMatch` of `RedisParser`: what its
  mutually recursive functions make of every stream takes an induction over the
  stream and over the nesting of arrays, which the provers cannot do.

## Not modelled

- Process start and shutdown (`exit(0)` after a signal), configuration parsing,
  logging, formatting: input and output.
- `CIoContextPool::getIoContext`: two threads that increment the index at the same
  time may read past the vector. That is undefined, with no outcomes to enumerate.
- Packets too short for their function, which the code reads out of bounds, and what
  follows the 256th entry of a listing, which it writes out of bounds (the step that
  does so is in the model and the last of the worker).
- The acceptor's `open`, `bind` and `listen` with their errors, `set_option` throwing in
  `CSession::start`, and channel ids that repeat after 2^32 channels.
- The other sessions of an io_context whose thread an exception has ended: nothing of
  them runs any more.
- What happens after a channel is released under its checker: undefined.
- Subscriptions and the synchronous client of `redisclient/`, and `CSafeMap`: not
  used by this program.

## Plan

Done: every part above with its runs and theorems, the composition of registry and
directory through `Registrar`, of control plane and relay through `ChannelLife`, and
of protocol and write queue in `SessionIo`. What is left, in this order:

1. `RedisParser` as steps over single bytes instead of recursive functions, so that
   `StacksMatch` becomes an inductive invariant that can be proved.
2. Liveness proofs, for which the fairness rules of the prover would have to come
   first.
