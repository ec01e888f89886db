----------------------------- MODULE RedisClient -----------------------------
(***************************************************************************)
(* RedisAsyncClient and RedisClientImpl as CSessionDb uses them: connect,  *)
(* AUTH, then the commands of the worker thread, pipelined, and close()    *)
(* from the thread that stops the server.                                  *)
(*                                                                         *)
(* One io_context thread runs the handlers, one at a time.  The worker     *)
(* only tests state and posts doAsyncCommand; close() only touches the     *)
(* socket and state.  No error handler is installed, so that an error of   *)
(* the connection is an exception out of the handler, which ends the       *)
(* thread (CIoContextPool::startThread).                                   *)
(*                                                                         *)
(* A chunk that completes several replies is handled in one run of         *)
(* asyncRead; here every reply is a step of its own.  RedisParser models   *)
(* how replies are found in the chunks.                                    *)
(***************************************************************************)
EXTENDS Naturals, Sequences

CONSTANTS
    Commands,       \* what the worker sends: HMSETs and HDELs
    Auth,           \* the command that onRedisConnected sends
    MaxCommands     \* the worker stops when so many are posted

ASSUME MaxAssumption == MaxCommands \in Nat

VARIABLES
    history,    \* the commands in the order they were posted
    posted,     \* doAsyncCommand handlers queued on the strand
    queue,      \* RedisClientImpl::queue
    handlers,   \* RedisClientImpl::handlers, by the command they belong to
    writing,    \* the async_writes that are outstanding
    done,       \* asyncWrite handlers queued, by their result
    wire,       \* commands that have reached Redis and wait to be executed
    replies,    \* replies on their way, by the command they answer
    answered,   \* the commands whose handlers were called, in that order
    state,      \* RedisClientImpl::state
    sock,       \* the socket
    ipc,        \* what the io thread has reached: connect, AUTH, reading
    io,         \* the io thread runs, has ended, or an assertion has failed
    wpc,        \* control point of the worker in operate()
    cpc         \* progress of close()

queues == <<history, posted, queue, handlers, writing, done, wire, replies, answered>>
control == <<state, sock, ipc, io, wpc, cpc>>
vars == <<queues, control>>

All == Commands \cup {Auth}

QueuesOK ==
    /\ history \in Seq(All) /\ posted \in Seq(All)
    /\ queue \in Seq(All) /\ handlers \in Seq(All)
    /\ writing \in Seq(All) /\ done \in Seq({"ok", "error"})
    /\ wire \in Seq(All) /\ replies \in Seq(All) /\ answered \in Seq(All)

ControlOK ==
    /\ state \in {"NotConnected", "Connected", "Closed"}
    /\ sock \in {"opening", "open", "lost", "shut"}
    /\ ipc \in {"connecting", "established", "refused", "delayless", "auth", "reading", "off"}
    /\ io \in {"run", "ended", "abort"}
    /\ wpc \in {"idle", "command"}
    /\ cpc \in {"none", "socket", "done"}

\* Every variable of the client keeps its type.
TypeOK == QueuesOK /\ ControlOK

\* CSessionDb::start() has called connect() and created the worker.
Init ==
    /\ history = <<>> /\ posted = <<>> /\ queue = <<>> /\ handlers = <<>>
    /\ writing = <<>> /\ done = <<>> /\ wire = <<>> /\ replies = <<>> /\ answered = <<>>
    /\ state = "NotConnected"
    /\ sock = "opening"
    /\ ipc = "connecting"
    /\ io = "run"
    /\ wpc = "idle"
    /\ cpc = "none"

(***************************************************************************)
(* Commands.  command() runs on two threads: the worker's and, for AUTH,   *)
(* the io thread.                                                          *)
(***************************************************************************)

\* command(): stateValid() asserts that the client is connected; then the
\* command is made and posted.
Posted(c) ==
    IF state = "Connected"
      THEN /\ history' = Append(history, c)
           /\ posted' = Append(posted, c)
           /\ io' = io
      ELSE /\ io' = "abort"
           /\ UNCHANGED <<history, posted>>

\* operate(): isConnected().
IsConnected ==
    /\ io # "abort" /\ wpc = "idle" /\ Len(history) < MaxCommands
    /\ state = "Connected"
    /\ wpc' = "command"
    /\ UNCHANGED <<queues, state, sock, ipc, io, cpc>>

Command(c) ==
    /\ io # "abort" /\ wpc = "command"
    /\ Posted(c)
    /\ wpc' = "idle"
    /\ UNCHANGED <<queue, handlers, writing, done, wire, replies, answered, state, sock, ipc, cpc>>

(***************************************************************************)
(* The handlers of the io thread.                                          *)
(***************************************************************************)

\* The thread is between two handlers.
Free == io = "run" /\ ipc \notin {"delayless", "auth"}

\* handleAsyncConnect after a failure: the error is logged, and state stays.
HandleRefused ==
    /\ Free /\ ipc = "refused"
    /\ ipc' = "off"
    /\ UNCHANGED <<queues, state, sock, io, wpc, cpc>>

\* handleAsyncConnect after a success: set_option(no_delay), which throws when
\* close() has closed the socket.
HandleAsyncConnect ==
    /\ Free /\ ipc = "established"
    /\ IF sock = "shut"
         THEN io' = "ended" /\ UNCHANGED ipc
         ELSE ipc' = "delayless" /\ io' = io
    /\ UNCHANGED <<queues, state, sock, wpc, cpc>>

\* state is set without a look at what it was: a close() that came in between
\* is undone, and the client takes itself for connected on a closed socket.
SetConnected ==
    /\ io = "run" /\ ipc = "delayless"
    /\ state' = "Connected" /\ ipc' = "auth"
    /\ UNCHANGED <<queues, sock, io, wpc, cpc>>

\* onRedisConnected sends AUTH, and processMessage starts to read.  The worker
\* or close() may have come in between.
OnRedisConnected ==
    /\ io = "run" /\ ipc = "auth"
    /\ Posted(Auth)
    /\ ipc' = "reading"
    /\ UNCHANGED <<queue, handlers, writing, done, wire, replies, answered, state, sock, wpc, cpc>>

\* async_write reads the buffer of the item where it lies.
AsyncWriteOf(q) == writing' = Append(writing, q[1])

\* Faults: every command is written at once; only a command that is written at
\* once gets its handler queued.
DoAsyncCommandAlways ==
    /\ Free /\ posted # <<>>
    /\ posted' = Tail(posted)
    /\ queue' = Append(queue, Head(posted))
    /\ handlers' = Append(handlers, Head(posted))
    /\ writing' = Append(writing, Head(posted))
    /\ UNCHANGED <<history, done, wire, replies, answered, control>>

DoAsyncCommandNoHandler ==
    /\ Free /\ posted # <<>>
    /\ posted' = Tail(posted)
    /\ queue' = Append(queue, Head(posted))
    /\ IF Len(queue') = 1
         THEN AsyncWriteOf(queue') /\ handlers' = Append(handlers, Head(posted))
         ELSE UNCHANGED <<writing, handlers>>
    /\ UNCHANGED <<history, done, wire, replies, answered, control>>

\* doAsyncCommand: only a command that finds the queue empty starts a write.
DoAsyncCommand ==
    /\ Free /\ posted # <<>>
    /\ posted' = Tail(posted)
    /\ queue' = Append(queue, Head(posted))
    /\ handlers' = Append(handlers, Head(posted))
    /\ IF Len(queue') = 1 THEN AsyncWriteOf(queue') ELSE UNCHANGED writing
    /\ UNCHANGED <<history, done, wire, replies, answered, control>>

\* Fault: the next write is left to doAsyncCommand.
AsyncWriteWaits ==
    /\ Free /\ done # <<>>
    /\ done' = Tail(done)
    /\ IF Head(done) = "error"
         THEN io' = "ended" /\ UNCHANGED queue
         ELSE queue' = Tail(queue) /\ io' = io
    /\ UNCHANGED <<history, posted, handlers, writing, wire, replies, answered, state, sock, ipc, wpc, cpc>>

\* asyncWrite.
AsyncWrite ==
    /\ Free /\ done # <<>>
    /\ done' = Tail(done)
    /\ IF Head(done) = "error"
         THEN io' = "ended" /\ UNCHANGED <<queue, writing>>
         ELSE /\ queue' = Tail(queue)
              /\ IF queue' = <<>> THEN UNCHANGED writing ELSE AsyncWriteOf(queue')
              /\ io' = io
    /\ UNCHANGED <<history, posted, handlers, wire, replies, answered, state, sock, ipc, wpc, cpc>>

\* Fault: the newest handler is called.
AsyncReadNewest ==
    /\ Free /\ ipc = "reading" /\ replies # <<>>
    /\ replies' = Tail(replies)
    /\ IF handlers # <<>>
         THEN /\ answered' = Append(answered, handlers[Len(handlers)])
              /\ handlers' = SubSeq(handlers, 1, Len(handlers) - 1)
              /\ io' = io
         ELSE io' = "ended" /\ UNCHANGED <<answered, handlers>>
    /\ UNCHANGED <<history, posted, queue, writing, done, wire, state, sock, ipc, wpc, cpc>>

\* asyncRead and doProcessMessage: the next reply goes to the next handler;
\* without a handler it is an unexpected message, which is an error.
AsyncRead ==
    /\ Free /\ ipc = "reading" /\ replies # <<>>
    /\ replies' = Tail(replies)
    /\ IF handlers # <<>>
         THEN /\ answered' = Append(answered, Head(handlers))
              /\ handlers' = Tail(handlers)
              /\ io' = io
         ELSE io' = "ended" /\ UNCHANGED <<answered, handlers>>
    /\ UNCHANGED <<history, posted, queue, writing, done, wire, state, sock, ipc, wpc, cpc>>

\* asyncRead with an error or the end of the stream.
AsyncReadError ==
    /\ Free /\ ipc = "reading" /\ sock \in {"lost", "shut"}
    /\ io' = "ended"
    /\ UNCHANGED <<queues, state, sock, ipc, wpc, cpc>>

(***************************************************************************)
(* The network, and Redis, which executes and answers commands in order.   *)
(***************************************************************************)

Established ==
    /\ io # "abort" /\ ipc = "connecting" /\ sock = "opening"
    /\ sock' = "open" /\ ipc' = "established"
    /\ UNCHANGED <<queues, state, io, wpc, cpc>>

\* Redis cannot be reached, or close() has aborted the attempt.
Refused ==
    /\ io # "abort" /\ ipc = "connecting"
    /\ ipc' = "refused"
    /\ UNCHANGED <<queues, state, sock, io, wpc, cpc>>

Lose ==
    /\ io # "abort" /\ sock = "open"
    /\ sock' = "lost"
    /\ UNCHANGED <<queues, state, ipc, io, wpc, cpc>>

Sent ==
    /\ io # "abort" /\ writing # <<>> /\ sock = "open"
    /\ writing' = Tail(writing)
    /\ wire' = Append(wire, Head(writing))
    /\ done' = Append(done, "ok")
    /\ UNCHANGED <<history, posted, queue, handlers, replies, answered, control>>

\* A write on a lost connection fails, or succeeds and goes nowhere; one on a
\* closed socket fails.
SentNowhere(r) ==
    /\ io # "abort" /\ writing # <<>>
    /\ sock = "lost" \/ (sock = "shut" /\ r = "error")
    /\ writing' = Tail(writing)
    /\ done' = Append(done, r)
    /\ UNCHANGED <<history, posted, queue, handlers, wire, replies, answered, control>>

Serve ==
    /\ io # "abort" /\ wire # <<>>
    /\ wire' = Tail(wire)
    /\ replies' = Append(replies, Head(wire))
    /\ UNCHANGED <<history, posted, queue, handlers, writing, done, answered, control>>

(***************************************************************************)
(* CSessionDb::stop() calls disconnect(), that is close().                 *)
(***************************************************************************)

CloseSocket ==
    /\ io # "abort" /\ cpc = "none"
    /\ sock' = "shut" /\ cpc' = "socket"
    /\ UNCHANGED <<queues, state, ipc, io, wpc>>

CloseState ==
    /\ io # "abort" /\ cpc = "socket"
    /\ state' = "Closed" /\ cpc' = "done"
    /\ UNCHANGED <<queues, sock, ipc, io, wpc>>

-----------------------------------------------------------------------------

Worker == IsConnected \/ \E c \in Commands : Command(c)

IoThread ==
    \/ HandleRefused \/ HandleAsyncConnect \/ SetConnected \/ OnRedisConnected
    \/ DoAsyncCommand \/ AsyncWrite \/ AsyncRead \/ AsyncReadError

Outside == Established \/ Refused \/ Lose \/ Sent \/ (\E r \in {"ok", "error"} : SentNowhere(r)) \/ Serve

Next == Worker \/ IoThread \/ Outside \/ CloseSocket \/ CloseState

Spec == Init /\ [][Next]_vars

\* The io thread serves what is queued, a connection that is not lost carries
\* data and Redis answers.  A connection need not come about, and nobody need
\* send a command, lose the connection or stop.
FairSpec ==
    /\ Spec
    /\ WF_vars(OnRedisConnected) /\ WF_vars(DoAsyncCommand) /\ WF_vars(AsyncWrite) /\ WF_vars(AsyncRead)
    /\ WF_vars(Sent) /\ WF_vars(Serve)

-----------------------------------------------------------------------------

\* The assertion of asyncWrite that queue is not empty, and what it is there
\* for: at most one write is under way, and the buffer it reads is that of the
\* front of queue, which keeps it alive.
WriteHeld ==
    /\ Len(writing) + Len(done) <= 1
    /\ writing # <<>> => queue # <<>> /\ Head(writing) = Head(queue)
    /\ done # <<>> => queue # <<>>

\* Replies carry no name: each is taken to answer the oldest command that has no
\* answer.  Whatever threads post commands and wherever the pipeline stands, the
\* n-th reply under way finds the handler of its own command in n-th place, so
\* that no handler gets another's reply and none comes unexpected.
OwnReply ==
    \A n \in 1 .. Len(replies) + Len(wire) :
        /\ n <= Len(handlers)
        /\ handlers[n] = IF n <= Len(replies) THEN replies[n] ELSE wire[n - Len(replies)]

\* The handlers are called in the order in which the commands were posted, each
\* once and none passed over, until an error ends the io thread.
Pipeline == INSTANCE Outbox WITH Messages <- All, accepted <- history, arrived <- answered, open <- io = "run"
IsPipeline == Pipeline!Spec

\* A command that was posted is answered, unless the connection is lost or
\* closed: none waits in queue for want of somebody to write it.
AllAnswered ==
    \A n \in 1 .. MaxCommands :
        Len(history) >= n ~> (Len(answered) >= n \/ sock # "open" \/ io = "abort")
=============================================================================
