----------------------------- MODULE WriteQueue -----------------------------
(***************************************************************************)
(* The sending side of CSession: doWrite, writeImpl, write and             *)
(* onWriteComplete.                                                        *)
(*                                                                         *)
(* doWrite is called from the session's own handlers, from the threads of  *)
(* its channels (STOPPROXY) and from the threads of sessions that ask for  *)
(* a proxy to it (ACCESS); all it does is post writeImpl on the session's  *)
(* strand.  The handlers on the strand run one at a time, in the order     *)
(* they were queued.  When a write completes is up to the network, so its  *)
(* completion may come between any two posted messages: posted and done    *)
(* are kept apart and either may run next.                                 *)
(***************************************************************************)
EXTENDS Naturals, Sequences

CONSTANTS
    Messages,   \* packets; resp.serialize() makes a new one for every call
    MaxPosts    \* bound on the calls of doWrite in a behaviour

VARIABLES
    history,    \* the messages in the order of the calls of doWrite
    posted,     \* writeImpl handlers queued on the strand, by message
    sque,       \* CSession::_sque
    writing,    \* the async_writes that are outstanding, by message
    done,       \* onWriteComplete handlers queued, by their result
    up,         \* the connection can carry data: neither reset nor closed by stop()
    wire        \* the messages that have reached the client whole

vars == <<history, posted, sque, writing, done, up, wire>>

Results == {"ok", "error"}

\* Every variable of the write queue keeps its type.
TypeOK ==
    /\ history \in Seq(Messages)
    /\ posted \in Seq(Messages)
    /\ sque \in Seq(Messages)
    /\ writing \in Seq(Messages)
    /\ done \in Seq(Results)
    /\ up \in BOOLEAN
    /\ wire \in Seq(Messages)

Init ==
    /\ history = <<>>
    /\ posted = <<>>
    /\ sque = <<>>
    /\ writing = <<>>
    /\ done = <<>>
    /\ up = TRUE
    /\ wire = <<>>

\* doWrite, on whatever thread.  No packet is empty, so the test of its length
\* never stops one.
DoWrite(m) ==
    /\ Len(history) < MaxPosts
    /\ history' = Append(history, m)
    /\ posted' = Append(posted, m)
    /\ UNCHANGED <<sque, writing, done, up, wire>>

\* write(): the front of the queue is given to async_write, which reads it from
\* where it lies.
Write(q) == writing' = Append(writing, q[1])

\* Fault: every message is written at once.
WriteImplAlways ==
    /\ posted # <<>>
    /\ posted' = Tail(posted)
    /\ sque' = Append(sque, Head(posted))
    /\ Write(sque')
    /\ UNCHANGED <<history, done, up, wire>>

\* writeImpl: only a message that finds the queue empty starts a write.
WriteImpl ==
    /\ posted # <<>>
    /\ posted' = Tail(posted)
    /\ sque' = Append(sque, Head(posted))
    /\ IF Len(sque') > 1 THEN UNCHANGED writing ELSE Write(sque')
    /\ UNCHANGED <<history, done, up, wire>>

\* An outstanding write succeeds.
Sent ==
    /\ writing # <<>> /\ up
    /\ writing' = Tail(writing)
    /\ wire' = Append(wire, Head(writing))
    /\ done' = Append(done, "ok")
    /\ UNCHANGED <<history, posted, sque, up>>

\* An outstanding write fails, which it does only on a connection that is lost.
SendError ==
    /\ writing # <<>> /\ ~up
    /\ writing' = Tail(writing)
    /\ done' = Append(done, "error")
    /\ UNCHANGED <<history, posted, sque, up, wire>>

\* Or the kernel has taken the bytes already and they never arrive.
SentNowhere ==
    /\ writing # <<>> /\ ~up
    /\ writing' = Tail(writing)
    /\ done' = Append(done, "ok")
    /\ UNCHANGED <<history, posted, sque, up, wire>>

\* The peer resets the connection, or stop() closes the socket.
Disconnect ==
    /\ up
    /\ up' = FALSE
    /\ UNCHANGED <<history, posted, sque, writing, done, wire>>

\* Faults: the newest message is removed; the next write is left to writeImpl.
OnWriteCompleteBack ==
    /\ done # <<>>
    /\ done' = Tail(done)
    /\ sque' = SubSeq(sque, 1, Len(sque) - 1)
    /\ IF Head(done) = "error" \/ sque' = <<>> THEN UNCHANGED writing ELSE Write(sque')
    /\ UNCHANGED <<history, posted, up, wire>>

OnWriteCompleteWaits ==
    /\ done # <<>>
    /\ done' = Tail(done)
    /\ sque' = Tail(sque)
    /\ UNCHANGED <<history, posted, writing, up, wire>>

\* onWriteComplete: the message that was written leaves the queue; after an
\* error the rest of the queue stays where it is, and later messages only join it.
OnWriteComplete ==
    /\ done # <<>>
    /\ done' = Tail(done)
    /\ sque' = Tail(sque)
    /\ IF Head(done) = "error" \/ sque' = <<>> THEN UNCHANGED writing ELSE Write(sque')
    /\ UNCHANGED <<history, posted, up, wire>>

Next ==
    \/ \E m \in Messages : DoWrite(m)
    \/ WriteImpl \/ OnWriteComplete
    \/ Sent \/ SentNowhere \/ SendError \/ Disconnect

Spec == Init /\ [][Next]_vars

-----------------------------------------------------------------------------

\* async_write reads the packet where it lies: at most one write is under way,
\* none while a completion waits to be handled, and the packet it reads is the
\* front of _sque, which keeps it alive (write() against onWriteComplete).
WriteIsFront ==
    /\ Len(writing) + Len(done) <= 1
    /\ writing # <<>> => sque # <<>> /\ Head(writing) = Head(sque)
    /\ done # <<>> => sque # <<>>

\* However the threads interleave their calls of doWrite with completions and
\* with the loss of the connection, the client receives the messages in the
\* order of the calls, each once, without a gap.
Queue == INSTANCE Outbox WITH accepted <- history, arrived <- wire, open <- up
IsOutbox == Queue!Spec
=============================================================================
