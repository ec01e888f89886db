-------------------------- MODULE RedisClientProofs --------------------------
(***************************************************************************)
(* Proofs about the Redis client: one write at a time, of the front of the *)
(* queue; every reply meets the handler of its own command; the handlers   *)
(* are called in the order of the commands.  They hold for all commands    *)
(* and any number of them.                                                 *)
(***************************************************************************)
EXTENDS RedisClient, QueueFacts

A == Len(answered)

\* Commands that are out of queue.
Base == Len(history) - Len(posted) - Len(queue)

\* Commands that Redis has received, in so far as nothing was lost.
Received == A + Len(replies) + Len(wire)

\* Where each queue stands in the history of the commands.
Lined ==
    /\ Len(history) = A + Len(handlers) + Len(posted)
    /\ Base \in Nat
    /\ \A i \in 1 .. Len(posted) : posted[i] = history[A + Len(handlers) + i]
    /\ \A i \in 1 .. Len(handlers) : handlers[i] = history[A + i]
    /\ \A i \in 1 .. Len(queue) : queue[i] = history[Base + i]

\* ... and the replies, and the commands Redis has not executed.
LinedOut ==
    /\ \A i \in 1 .. Len(replies) : replies[i] = history[A + i]
    /\ \A i \in 1 .. Len(wire) : wire[i] = history[A + Len(replies) + i]
    /\ Received <= Len(history) - Len(posted)

\* Before the connection is lost or closed nothing is lost on the way.
Reaching ==
    sock \in {"opening", "open"} =>
        /\ Received = Base + Len(done)
        /\ \A i \in 1 .. Len(done) : done[i] = "ok"

Inv == QueuesOK /\ WriteHeld /\ Lined /\ LinedOut /\ Reaching

LEMMA InitInv == Init => Inv
  BY DEF Init, Inv, QueuesOK, WriteHeld, Lined, LinedOut, Reaching, A, Base, Received

\* The lengths of the queues are natural numbers, and 0 when they are empty.
LEMMA Lengths ==
  ASSUME QueuesOK
  PROVE  /\ Len(history) \in Nat /\ Len(posted) \in Nat /\ Len(queue) \in Nat
         /\ Len(handlers) \in Nat /\ Len(writing) \in Nat /\ Len(done) \in Nat
         /\ Len(wire) \in Nat /\ Len(replies) \in Nat /\ Len(answered) \in Nat
         /\ posted = <<>> <=> Len(posted) = 0
         /\ queue = <<>> <=> Len(queue) = 0
         /\ handlers = <<>> <=> Len(handlers) = 0
         /\ writing = <<>> <=> Len(writing) = 0
         /\ done = <<>> <=> Len(done) = 0
         /\ replies = <<>> <=> Len(replies) = 0
  <1>1. QueuesOK
    OBVIOUS
  <1>2. Len(history) \in Nat /\ Len(wire) \in Nat /\ Len(answered) \in Nat
    BY <1>1, Emptiness DEF QueuesOK
  <1>3. /\ Len(posted) \in Nat /\ (posted = <<>> <=> Len(posted) = 0)
        /\ Len(queue) \in Nat /\ (queue = <<>> <=> Len(queue) = 0)
        /\ Len(handlers) \in Nat /\ (handlers = <<>> <=> Len(handlers) = 0)
    BY <1>1, Emptiness DEF QueuesOK
  <1>4. /\ Len(writing) \in Nat /\ (writing = <<>> <=> Len(writing) = 0)
        /\ Len(done) \in Nat /\ (done = <<>> <=> Len(done) = 0)
        /\ Len(replies) \in Nat /\ (replies = <<>> <=> Len(replies) = 0)
    BY <1>1, Emptiness DEF QueuesOK
  <1> QED BY <1>2, <1>3, <1>4

\* A step that leaves the queues alone and opens no socket that was closed.
LEMMA ControlInv ==
  ASSUME Inv, UNCHANGED queues, sock' \in {"opening", "open"} => sock \in {"opening", "open"}
  PROVE  Inv'
  BY DEF queues, Inv, QueuesOK, WriteHeld, Lined, LinedOut, Reaching, A, Base, Received

\* A command is posted, on either thread.
LEMMA PostedInv ==
  ASSUME Inv, NEW c \in All, Posted(c), sock' = sock,
         UNCHANGED <<queue, handlers, writing, done, wire, replies, answered>>
  PROVE  Inv'
  <1>1. CASE UNCHANGED <<history, posted>>
    BY <1>1, ControlInv DEF queues
  <1>2. CASE history' = Append(history, c) /\ posted' = Append(posted, c)
    <2>1. /\ history' \in Seq(All) /\ IsPush(history, c, history')
          /\ posted' \in Seq(All) /\ IsPush(posted, c, posted')
      BY <1>2, Push DEF Inv, QueuesOK
    <2>2. QueuesOK' /\ WriteHeld'
      BY <2>1 DEF Inv, QueuesOK, WriteHeld
    <2>3. /\ Base' = Base /\ Base \in Nat /\ A' = A /\ A \in Nat
          /\ Received' = Received /\ Received \in Nat
          /\ Len(history)' = A + Len(handlers) + Len(posted')
          /\ Base + Len(queue) = A + Len(handlers)
      BY <2>1, Lengths DEF Inv, Lined, Base, A, Received, IsPush
    <2>4. Lined'
      <3>1. ASSUME NEW i \in 1 .. Len(queue) PROVE queue[i] = history'[Base + i]
        <4>1. Base + i \in 1 .. Len(history)
          BY <2>3, Lengths DEF Inv, Base
        <4> QED BY <2>1, <4>1 DEF Inv, Lined, IsPush
      <3>2. ASSUME NEW i \in 1 .. Len(handlers) PROVE handlers[i] = history'[A + i]
        <4>1. A + i \in 1 .. Len(history)
          BY <2>3, Lengths DEF Inv, Lined
        <4> QED BY <2>1, <4>1 DEF Inv, Lined, IsPush
      <3>3. ASSUME NEW i \in 1 .. Len(posted') PROVE posted'[i] = history'[A + Len(handlers) + i]
        <4>1. CASE i = Len(posted')
          BY <2>1, <2>3, <4>1, Lengths DEF Inv, Lined, IsPush
        <4>2. CASE i \in 1 .. Len(posted)
          <5>1. posted'[i] = history[A + Len(handlers) + i]
            BY <2>1, <4>2 DEF Inv, Lined, IsPush
          <5>2. A + Len(handlers) + i \in 1 .. Len(history)
            BY <2>3, <4>2, Lengths DEF Inv, Lined
          <5> QED BY <2>1, <5>1, <5>2 DEF IsPush
        <4> QED BY <2>1, <4>1, <4>2, Lengths DEF Inv, IsPush
      <3> QED BY <2>3, <3>1, <3>2, <3>3 DEF Lined
    <2>5. LinedOut'
      <3>1. Received <= Len(history) /\ Received' <= Len(history') - Len(posted')
        BY <2>1, <2>3, Lengths, SMTT(30) DEF Inv, LinedOut, IsPush
      <3>2. ASSUME NEW i \in 1 .. Len(replies) PROVE replies[i] = history'[A + i]
        <4>1. A + i \in 1 .. Len(history)
          BY <2>3, <3>1, Lengths DEF Inv, Received
        <4> QED BY <2>1, <4>1 DEF Inv, LinedOut, IsPush
      <3>3. ASSUME NEW i \in 1 .. Len(wire) PROVE wire[i] = history'[A + Len(replies) + i]
        <4>1. A + Len(replies) + i \in 1 .. Len(history)
          BY <2>3, <3>1, Lengths DEF Inv, Received
        <4> QED BY <2>1, <4>1 DEF Inv, LinedOut, IsPush
      <3> QED BY <2>3, <3>1, <3>2, <3>3 DEF LinedOut
    <2>6. Reaching'
      BY <2>3 DEF Inv, Reaching
    <2> QED BY <2>2, <2>4, <2>5, <2>6 DEF Inv
  <1> QED BY <1>1, <1>2 DEF Posted

LEMMA DoAsyncCommandInv ==
  ASSUME Inv, DoAsyncCommand
  PROVE  Inv'
  <1>0. /\ UNCHANGED <<history, done, wire, replies, answered>> /\ sock' = sock
        /\ posted # <<>> /\ posted' = Tail(posted)
        /\ queue' = Append(queue, Head(posted)) /\ handlers' = Append(handlers, Head(posted))
    BY DEF DoAsyncCommand, control
  <1>1. /\ Head(posted) \in All /\ posted' \in Seq(All) /\ IsPop(posted, posted')
        /\ queue' \in Seq(All) /\ IsPush(queue, Head(posted), queue')
        /\ handlers' \in Seq(All) /\ IsPush(handlers, Head(posted), handlers')
    BY <1>0, Push, Pop DEF Inv, QueuesOK
  <1>2. /\ Base' = Base /\ Base \in Nat /\ A' = A /\ A \in Nat
        /\ Received' = Received /\ Received \in Nat
        /\ Base + Len(queue) = A + Len(handlers)
        /\ Head(posted) = history[A + Len(handlers) + 1]
    <2>1. 1 \in 1 .. Len(posted) /\ Head(posted) = posted[1]
      BY <1>1, Lengths DEF Inv, IsPop
    <2>2. Head(posted) = history[A + Len(handlers) + 1]
      BY <2>1 DEF Inv, Lined
    <2>3. A' = A /\ A \in Nat /\ Received' = Received /\ Received \in Nat
      BY <1>0, Lengths DEF Inv, A, Received
    <2>4. Base' = Base /\ Base \in Nat
      BY <1>0, <1>1, Lengths, SMTT(30) DEF Inv, Lined, Base, IsPush, IsPop
    <2>5. Base + Len(queue) = A + Len(handlers)
      BY <2>3, Lengths DEF Inv, Lined, Base
    <2> QED BY <2>2, <2>3, <2>4, <2>5
  <1>3. Lined'
    <2>1. ASSUME NEW i \in 1 .. Len(queue') PROVE queue'[i] = history[Base + i]
      <3>1. CASE i = Len(queue')
        BY <1>1, <1>2, <3>1, Lengths, SMTT(30) DEF Inv, IsPush
      <3>2. CASE i \in 1 .. Len(queue)
        BY <1>1, <3>2 DEF Inv, Lined, IsPush
      <3> QED BY <1>1, <3>1, <3>2, Lengths DEF Inv, IsPush
    <2>2. ASSUME NEW i \in 1 .. Len(handlers') PROVE handlers'[i] = history[A + i]
      <3>1. CASE i = Len(handlers')
        BY <1>1, <1>2, <3>1, Lengths, SMTT(30) DEF Inv, IsPush
      <3>2. CASE i \in 1 .. Len(handlers)
        BY <1>1, <3>2 DEF Inv, Lined, IsPush
      <3> QED BY <1>1, <3>1, <3>2, Lengths DEF Inv, IsPush
    <2>3. ASSUME NEW i \in 1 .. Len(posted') PROVE posted'[i] = history[A + Len(handlers') + i]
      <3>1. i + 1 \in 1 .. Len(posted) /\ posted'[i] = posted[i + 1]
        BY <1>1, Lengths DEF Inv, IsPop
      <3>2. A + Len(handlers) + (i + 1) = A + Len(handlers') + i
        BY <1>1, <1>2, Lengths DEF Inv, IsPush
      <3> QED BY <3>1, <3>2 DEF Inv, Lined
    <2>4. Len(history) = A + Len(handlers') + Len(posted')
      BY <1>1, <1>2, Lengths DEF Inv, Lined, IsPush, IsPop
    <2> QED BY <1>0, <1>2, <2>1, <2>2, <2>3, <2>4 DEF Lined
  <1>4. LinedOut'
    <2>1. Received <= Len(history) - Len(posted')
      BY <1>1, <1>2, Lengths DEF Inv, LinedOut, IsPop
    <2> QED BY <1>0, <1>2, <2>1 DEF Inv, LinedOut
  <1>5. Reaching'
    BY <1>0, <1>2 DEF Inv, Reaching
  <1>6. CASE queue # <<>>
    <2>1. writing' = writing
      BY <1>1, <1>6, Lengths DEF DoAsyncCommand, Inv, IsPush
    <2>2. Head(queue') = Head(queue) /\ queue' # <<>>
      BY <1>1, <1>6, Lengths DEF IsPush, Inv
    <2>3. QueuesOK' /\ WriteHeld'
      BY <1>0, <1>1, <1>6, <2>1, <2>2 DEF Inv, QueuesOK, WriteHeld
    <2> QED BY <1>3, <1>4, <1>5, <2>3 DEF Inv
  <1>7. CASE queue = <<>>
    <2>1. writing = <<>> /\ done = <<>> /\ Len(done) = 0 /\ Len(queue') = 1 /\ queue'[1] \in All
      BY <1>1, <1>7, Lengths DEF Inv, WriteHeld, IsPush
    <2>2. writing' = Append(<<>>, queue'[1])
      BY <2>1 DEF DoAsyncCommand, AsyncWriteOf
    <2>3. writing' \in Seq(All) /\ IsPush(<<>>, queue'[1], writing')
      BY <2>1, <2>2, Push, EmptySeq
    <2>4. Len(writing') = 1 /\ Head(writing') = queue'[1] /\ Head(queue') = queue'[1] /\ queue' # <<>>
      BY <1>1, <2>3, EmptySeq DEF IsPush
    <2>5. QueuesOK' /\ WriteHeld'
      BY <1>0, <1>1, <2>1, <2>3, <2>4 DEF Inv, QueuesOK, WriteHeld
    <2> QED BY <1>3, <1>4, <1>5, <2>5 DEF Inv
  <1> QED BY <1>6, <1>7

LEMMA AsyncWriteInv ==
  ASSUME Inv, AsyncWrite
  PROVE  Inv'
  <1>0. /\ UNCHANGED <<history, posted, handlers, wire, replies, answered>> /\ sock' = sock
        /\ done # <<>> /\ done' = Tail(done)
    BY DEF AsyncWrite
  <1>1. /\ Head(done) \in {"ok", "error"} /\ done' \in Seq({"ok", "error"}) /\ IsPop(done, done')
        /\ queue # <<>>
    BY <1>0, Pop DEF Inv, QueuesOK, WriteHeld
  <1>2. Len(done) = 1 /\ Len(done') = 0 /\ done' = <<>> /\ Len(writing) = 0 /\ writing = <<>>
    BY <1>1, Lengths, Emptiness DEF Inv, WriteHeld, IsPop
  <1>3. A' = A /\ A \in Nat /\ Received' = Received /\ Received \in Nat
    BY <1>0, Lengths DEF Inv, A, Received
  <1>4. LinedOut'
    BY <1>0, <1>3 DEF Inv, LinedOut
  <1>5. CASE Head(done) = "error"
    <2>1. UNCHANGED <<queue, writing>>
      BY <1>5 DEF AsyncWrite
    <2>2. QueuesOK' /\ Lined'
      BY <1>0, <1>1, <1>3, <2>1 DEF Inv, QueuesOK, Lined, Base
    <2>4. WriteHeld'
      BY <1>2, <2>1 DEF WriteHeld
    <2>3. Reaching'
      BY <1>0, <1>1, <1>2, <1>5 DEF Inv, Reaching, IsPop
    <2> QED BY <1>4, <2>2, <2>3, <2>4 DEF Inv
  <1>6. CASE Head(done) # "error"
    <2>1. queue' = Tail(queue) /\ queue' \in Seq(All) /\ IsPop(queue, queue')
      BY <1>1, <1>6, Pop DEF AsyncWrite, Inv, QueuesOK
    <2>2. Base' = Base + 1 /\ Base \in Nat
      BY <1>0, <2>1, Lengths, SMTT(30) DEF Inv, Lined, Base, IsPop
    <2>3. Lined'
      <3>1. ASSUME NEW i \in 1 .. Len(queue') PROVE queue'[i] = history[Base' + i]
        <4>1. i + 1 \in 1 .. Len(queue) /\ queue'[i] = queue[i + 1] /\ Base + (i + 1) = Base' + i
          BY <2>1, <2>2, Lengths DEF Inv, IsPop
        <4> QED BY <4>1 DEF Inv, Lined
      <3> QED BY <1>0, <1>3, <2>2, <3>1 DEF Inv, Lined
    <2>4. Reaching'
      <3>1. sock \in {"opening", "open"} => Received = Base + 1
        BY <1>2 DEF Inv, Reaching
      <3>2. sock' \in {"opening", "open"} => Received' = Base' + Len(done')
        <4>1. Len(done') = 0 /\ Received' = Received /\ Base' = Base + 1 /\ Base \in Nat /\ sock' = sock
          BY <1>0, <1>2, <1>3, <2>2
        <4> QED BY <3>1, <4>1
      <3>3. 1 .. Len(done') = {}
        BY <1>2
      <3> QED BY <3>2, <3>3 DEF Reaching
    <2>5. CASE queue' = <<>>
      <3>1. writing' = writing
        BY <1>6, <2>5 DEF AsyncWrite
      <3>2. QueuesOK'
        BY <1>0, <1>1, <2>1, <3>1 DEF Inv, QueuesOK
      <3>3. WriteHeld'
        BY <1>2, <3>1 DEF WriteHeld
      <3> QED BY <1>4, <2>3, <2>4, <3>2, <3>3 DEF Inv
    <2>6. CASE queue' # <<>>
      <3>1. writing' = Append(<<>>, queue'[1])
        BY <1>2, <1>6, <2>6 DEF AsyncWrite, AsyncWriteOf
      <3>2. Len(queue') > 0 /\ queue'[1] \in All /\ Head(queue') = queue'[1]
        BY <2>1, <2>6, Pop, Emptiness DEF IsPop
      <3>3. writing' \in Seq(All) /\ IsPush(<<>>, queue'[1], writing')
        BY <3>1, <3>2, Push, EmptySeq
      <3>4. Len(writing') = 1 /\ Head(writing') = queue'[1]
        BY <3>3, EmptySeq DEF IsPush
      <3>5. QueuesOK'
        BY <1>0, <1>1, <2>1, <3>3 DEF Inv, QueuesOK
      <3>6. WriteHeld'
        BY <1>2, <2>6, <3>2, <3>4 DEF WriteHeld
      <3> QED BY <1>4, <2>3, <2>4, <3>5, <3>6 DEF Inv
    <2> QED BY <2>5, <2>6
  <1> QED BY <1>5, <1>6

\* The next reply meets the handler of its command.
LEMMA ReplyHasHandler ==
  ASSUME Inv, replies # <<>>
  PROVE  handlers # <<>> /\ Head(handlers) = history[A + 1] /\ A < Len(history)
  <1>1. Len(replies) > 0 /\ A \in Nat
    BY Lengths DEF Inv, A
  <1>2. Len(handlers) > 0 /\ A < Len(history)
    BY <1>1, Lengths DEF Inv, Lined, LinedOut, Received
  <1> QED BY <1>2, Lengths, Pop, SMTT(30) DEF Inv, Lined, QueuesOK, IsPop

LEMMA AsyncReadInv ==
  ASSUME Inv, AsyncRead
  PROVE  Inv'
  <1>0. replies # <<>> /\ handlers # <<>>
    BY ReplyHasHandler DEF AsyncRead
  <1>1. /\ UNCHANGED <<history, posted, queue, writing, done, wire>> /\ sock' = sock
        /\ replies' = Tail(replies) /\ handlers' = Tail(handlers)
        /\ answered' = Append(answered, Head(handlers))
    BY <1>0 DEF AsyncRead
  <1>2. /\ replies' \in Seq(All) /\ IsPop(replies, replies')
        /\ Head(handlers) \in All /\ handlers' \in Seq(All) /\ IsPop(handlers, handlers')
        /\ answered' \in Seq(All) /\ IsPush(answered, Head(handlers), answered')
    BY <1>0, <1>1, Pop, Push DEF Inv, QueuesOK
  <1>3. QueuesOK' /\ WriteHeld'
    BY <1>1, <1>2 DEF Inv, QueuesOK, WriteHeld
  <1>4. /\ A' = A + 1 /\ A \in Nat /\ Received' = Received /\ Received \in Nat
        /\ Base' = Base /\ Base \in Nat
    BY <1>1, <1>2, Lengths DEF Inv, Lined, A, Received, Base, IsPop, IsPush
  <1>5. Lined'
    <2>1. ASSUME NEW i \in 1 .. Len(handlers') PROVE handlers'[i] = history[A' + i]
      <3>1. i + 1 \in 1 .. Len(handlers) /\ handlers'[i] = handlers[i + 1] /\ A + (i + 1) = A' + i
        BY <1>2, <1>4, Lengths, SMTT(30) DEF Inv, IsPop
      <3> QED BY <3>1 DEF Inv, Lined
    <2>2. A' + Len(handlers') = A + Len(handlers)
      BY <1>2, <1>4, Lengths DEF Inv, IsPop
    <2> QED BY <1>1, <1>4, <2>1, <2>2 DEF Inv, Lined
  <1>6. LinedOut'
    <2>1. ASSUME NEW i \in 1 .. Len(replies') PROVE replies'[i] = history[A' + i]
      <3>1. i + 1 \in 1 .. Len(replies) /\ replies'[i] = replies[i + 1] /\ A + (i + 1) = A' + i
        BY <1>2, <1>4, Lengths, SMTT(30) DEF Inv, IsPop
      <3> QED BY <3>1 DEF Inv, LinedOut
    <2>2. A' + Len(replies') = A + Len(replies)
      BY <1>2, <1>4, Lengths DEF Inv, IsPop
    <2> QED BY <1>1, <1>4, <2>1, <2>2 DEF Inv, LinedOut
  <1>7. Reaching'
    BY <1>1, <1>4 DEF Inv, Reaching
  <1> QED BY <1>3, <1>5, <1>6, <1>7 DEF Inv

LEMMA SentInv ==
  ASSUME Inv, Sent
  PROVE  Inv'
  <1>0. /\ UNCHANGED <<history, posted, queue, handlers, replies, answered>> /\ sock' = sock
        /\ sock = "open" /\ writing # <<>> /\ writing' = Tail(writing)
        /\ wire' = Append(wire, Head(writing)) /\ done' = Append(done, "ok")
    BY DEF Sent, control
  <1>1. /\ Head(writing) \in All /\ writing' \in Seq(All) /\ IsPop(writing, writing')
        /\ wire' \in Seq(All) /\ IsPush(wire, Head(writing), wire')
        /\ done' \in Seq({"ok", "error"}) /\ IsPush(done, "ok", done')
    BY <1>0, Pop, Push DEF Inv, QueuesOK
  <1>2. Len(done) = 0 /\ Len(done') = 1 /\ Len(writing') = 0 /\ writing' = <<>> /\ done'[1] = "ok"
    BY <1>0, <1>1, Lengths, Emptiness, SMTT(30) DEF Inv, WriteHeld, IsPush, IsPop
  <1>3. QueuesOK' /\ WriteHeld'
    BY <1>0, <1>1, <1>2 DEF Inv, QueuesOK, WriteHeld
  <1>4. /\ A' = A /\ A \in Nat /\ Base' = Base /\ Base \in Nat
        /\ Received' = Received + 1 /\ Received = Base /\ Len(queue) > 0
    BY <1>0, <1>1, <1>2, Lengths DEF Inv, WriteHeld, Lined, Reaching, A, Base, Received, IsPush
  <1>5. Lined'
    BY <1>0, <1>4 DEF Inv, Lined
  <1>6. LinedOut'
    <2>1. Head(writing) = history[Base + 1]
      <3>1. Head(writing) = queue[1]
        BY <1>0, <1>4, Pop DEF Inv, WriteHeld, QueuesOK, IsPop
      <3> QED BY <1>4, <3>1, Lengths DEF Inv, Lined
    <2>2. ASSUME NEW i \in 1 .. Len(wire') PROVE wire'[i] = history[A + Len(replies) + i]
      <3>1. CASE i = Len(wire')
        <4>1. A + Len(replies) + i = Base + 1 /\ wire'[i] = Head(writing)
          <5>1. i = Len(wire) + 1 /\ wire'[i] = Head(writing)
            BY <1>1, <3>1 DEF IsPush
          <5>2. A + Len(replies) + Len(wire) = Base
            BY <1>4 DEF Received
          <5> QED BY <1>4, <5>1, <5>2, Lengths, SMTT(30) DEF Inv
        <4> QED BY <2>1, <4>1
      <3>2. CASE i \in 1 .. Len(wire)
        BY <1>1, <3>2 DEF Inv, LinedOut, IsPush
      <3> QED BY <1>1, <3>1, <3>2, Lengths DEF Inv, IsPush
    <2>3. Received' <= Len(history) - Len(posted)
      BY <1>4, Lengths DEF Inv, Base
    <2> QED BY <1>0, <1>4, <2>2, <2>3 DEF Inv, LinedOut
  <1>7. Reaching'
    BY <1>0, <1>1, <1>2, <1>4 DEF Reaching
  <1> QED BY <1>3, <1>5, <1>6, <1>7 DEF Inv

LEMMA SentNowhereInv ==
  ASSUME Inv, NEW r \in {"ok", "error"}, SentNowhere(r)
  PROVE  Inv'
  <1>0. /\ UNCHANGED <<history, posted, queue, handlers, wire, replies, answered>> /\ sock' = sock
        /\ sock \notin {"opening", "open"} /\ writing # <<>> /\ writing' = Tail(writing)
        /\ done' = Append(done, r)
    BY DEF SentNowhere, control
  <1>1. /\ writing' \in Seq(All) /\ IsPop(writing, writing')
        /\ done' \in Seq({"ok", "error"}) /\ IsPush(done, r, done')
    BY <1>0, Pop, Push DEF Inv, QueuesOK
  <1>2. Len(done') = 1 /\ Len(writing') = 0 /\ writing' = <<>>
    BY <1>0, <1>1, Lengths, Emptiness DEF Inv, WriteHeld, IsPush, IsPop
  <1>3. QueuesOK' /\ WriteHeld'
    BY <1>0, <1>1, <1>2 DEF Inv, QueuesOK, WriteHeld
  <1>4. Lined' /\ LinedOut' /\ Reaching'
    BY <1>0 DEF Inv, Lined, LinedOut, Reaching, A, Base, Received
  <1> QED BY <1>3, <1>4 DEF Inv

LEMMA ServeInv ==
  ASSUME Inv, Serve
  PROVE  Inv'
  <1>0. /\ UNCHANGED <<history, posted, queue, handlers, writing, done, answered>> /\ sock' = sock
        /\ wire # <<>> /\ wire' = Tail(wire) /\ replies' = Append(replies, Head(wire))
    BY DEF Serve, control
  <1>1. /\ Head(wire) \in All /\ wire' \in Seq(All) /\ IsPop(wire, wire')
        /\ replies' \in Seq(All) /\ IsPush(replies, Head(wire), replies')
    BY <1>0, Pop, Push DEF Inv, QueuesOK
  <1>2. QueuesOK' /\ WriteHeld'
    BY <1>0, <1>1 DEF Inv, QueuesOK, WriteHeld
  <1>3. /\ A' = A /\ A \in Nat /\ Base' = Base /\ Base \in Nat
        /\ Received' = Received /\ Received \in Nat
    BY <1>0, <1>1, Lengths DEF Inv, Lined, A, Base, Received, IsPush, IsPop
  <1>4. Lined' /\ Reaching'
    BY <1>0, <1>3 DEF Inv, Lined, Reaching
  <1>5. LinedOut'
    <2>1. Head(wire) = history[A + Len(replies) + 1]
      BY <1>1, Lengths DEF Inv, LinedOut, IsPop
    <2>2. ASSUME NEW i \in 1 .. Len(replies') PROVE replies'[i] = history[A + i]
      <3>1. CASE i = Len(replies')
        BY <1>1, <1>3, <2>1, <3>1, Lengths DEF Inv, IsPush
      <3>2. CASE i \in 1 .. Len(replies)
        BY <1>1, <3>2 DEF Inv, LinedOut, IsPush
      <3> QED BY <1>1, <3>1, <3>2, Lengths DEF Inv, IsPush
    <2>3. ASSUME NEW i \in 1 .. Len(wire') PROVE wire'[i] = history[A + Len(replies') + i]
      <3>1. /\ i + 1 \in 1 .. Len(wire) /\ wire'[i] = wire[i + 1]
            /\ A + Len(replies) + (i + 1) = A + Len(replies') + i
        BY <1>1, <1>3, Lengths DEF Inv, IsPop, IsPush
      <3> QED BY <3>1 DEF Inv, LinedOut
    <2> QED BY <1>0, <1>3, <2>2, <2>3 DEF Inv, LinedOut
  <1> QED BY <1>2, <1>4, <1>5 DEF Inv

LEMMA StepInv == Inv /\ [Next]_vars => Inv'
  <1> SUFFICES ASSUME Inv, [Next]_vars PROVE Inv'
    OBVIOUS
  <1>1. CASE UNCHANGED vars
    BY <1>1, ControlInv DEF vars, control
  <1>2. ASSUME NEW c \in Commands, Command(c)
        PROVE  Inv'
    BY <1>2, PostedInv DEF Command, All
  <1>3. CASE OnRedisConnected
    BY <1>3, PostedInv DEF OnRedisConnected, All
  <1>4. CASE IsConnected \/ HandleRefused \/ HandleAsyncConnect \/ SetConnected \/ AsyncReadError
    BY <1>4, ControlInv DEF IsConnected, HandleRefused, HandleAsyncConnect, SetConnected, AsyncReadError
  <1>5. CASE Established \/ Refused \/ Lose \/ CloseSocket \/ CloseState
    BY <1>5, ControlInv DEF Established, Refused, Lose, CloseSocket, CloseState
  <1>6. CASE DoAsyncCommand \/ AsyncWrite \/ AsyncRead
    BY <1>6, DoAsyncCommandInv, AsyncWriteInv, AsyncReadInv
  <1>7. CASE Sent \/ (\E r \in {"ok", "error"} : SentNowhere(r)) \/ Serve
    BY <1>7, SentInv, SentNowhereInv, ServeInv
  <1> QED BY <1>1, <1>2, <1>3, <1>4, <1>5, <1>6, <1>7 DEF Next, Worker, IoThread, Outside

\* The inductive invariant: every queue of the client is a stretch of the
\* history of the commands.
THEOREM Invariance == Spec => []Inv
  BY InitInv, StepInv, PTL DEF Spec

\* At most one async_write is under way, and it reads the front of queue; the
\* assertion of asyncWrite holds.
THEOREM OneWriteAtATime == Spec => []WriteHeld
  <1>1. Inv => WriteHeld
    BY DEF Inv
  <1> QED BY <1>1, Invariance, PTL

\* Every reply under way meets the handler of its own command.
THEOREM RepliesMatch == Spec => []OwnReply
  <1>1. Inv => OwnReply
    <2> SUFFICES ASSUME Inv, NEW n \in 1 .. Len(replies) + Len(wire)
                 PROVE  /\ n <= Len(handlers)
                        /\ handlers[n] = IF n <= Len(replies) THEN replies[n] ELSE wire[n - Len(replies)]
      BY DEF OwnReply
    <2>1. A \in Nat /\ n <= Len(handlers) /\ n \in 1 .. Len(handlers)
      BY Lengths DEF Inv, Lined, LinedOut, Received, A
    <2>2. handlers[n] = history[A + n]
      BY <2>1 DEF Inv, Lined
    <2>3. CASE n <= Len(replies)
      BY <2>1, <2>2, <2>3, Lengths DEF Inv, LinedOut
    <2>4. CASE ~(n <= Len(replies))
      <3>1. n - Len(replies) \in 1 .. Len(wire) /\ A + Len(replies) + (n - Len(replies)) = A + n
        BY <2>1, <2>4, Lengths DEF Inv
      <3> QED BY <2>1, <2>2, <2>4, <3>1 DEF Inv, LinedOut
    <2> QED BY <2>3, <2>4
  <1> QED BY <1>1, Invariance, PTL

\* A step of the client is a step of Outbox or changes nothing that Outbox sees.
LEMMA StepRefines == Inv /\ [Next]_vars => [Pipeline!Next]_(Pipeline!vars)
  <1> SUFFICES ASSUME Inv, [Next]_vars PROVE [Pipeline!Next]_(Pipeline!vars)
    OBVIOUS
  <1>1. CASE UNCHANGED vars
    BY <1>1 DEF vars, queues, control, Pipeline!vars
  <1>2. ASSUME NEW c \in All, Posted(c), answered' = answered
        PROVE  [Pipeline!Next]_(Pipeline!vars)
    BY <1>2 DEF Posted, Pipeline!vars, Pipeline!Next, Pipeline!Accept, Pipeline!Cut
  <1>3. ASSUME UNCHANGED <<history, answered>>, io' = io \/ (io = "run" /\ io' # "run")
        PROVE  [Pipeline!Next]_(Pipeline!vars)
    BY <1>3 DEF Pipeline!vars, Pipeline!Next, Pipeline!Cut
  <1>4. CASE \E c \in Commands : Command(c)
    BY <1>2, <1>4 DEF Command, All
  <1>5. CASE OnRedisConnected
    BY <1>2, <1>5 DEF OnRedisConnected, All
  <1>6. CASE AsyncRead
    <2>1. replies # <<>> /\ io = "run"
      BY <1>6 DEF AsyncRead, Free
    <2>2. handlers # <<>> /\ Head(handlers) = history[A + 1] /\ A < Len(history)
      BY <2>1, ReplyHasHandler
    <2>3. UNCHANGED <<history, io>> /\ answered' = Append(answered, Head(handlers))
      BY <1>6, <2>2 DEF AsyncRead
    <2> QED BY <2>1, <2>2, <2>3 DEF A, Pipeline!Next, Pipeline!Arrive
  <1>7. CASE IsConnected \/ HandleRefused \/ HandleAsyncConnect \/ SetConnected \/ AsyncReadError
    BY <1>3, <1>7 DEF IsConnected, HandleRefused, HandleAsyncConnect, SetConnected, AsyncReadError, Free, queues
  <1>8. CASE DoAsyncCommand \/ AsyncWrite
    BY <1>3, <1>8 DEF DoAsyncCommand, AsyncWrite, Free, control
  <1>9. CASE Established \/ Refused \/ Lose \/ CloseSocket \/ CloseState
    BY <1>3, <1>9 DEF Established, Refused, Lose, CloseSocket, CloseState, queues
  <1>10. CASE Sent \/ (\E r \in {"ok", "error"} : SentNowhere(r)) \/ Serve
    BY <1>3, <1>10 DEF Sent, SentNowhere, Serve, control
  <1> QED BY <1>1, <1>4, <1>5, <1>6, <1>7, <1>8, <1>9, <1>10 DEF Next, Worker, IoThread, Outside

\* The handlers are called in the order of the commands, each once, without a
\* gap, until the io thread ends.
THEOREM ClientIsPipeline == Spec => IsPipeline
  <1>1. Init => Pipeline!Init
    BY DEF Init, Pipeline!Init
  <1> QED BY <1>1, Invariance, StepRefines, PTL DEF Spec, IsPipeline, Pipeline!Spec
=============================================================================
