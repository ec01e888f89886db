-------------------------- MODULE WriteQueueProofs --------------------------
(***************************************************************************)
(* Proofs about the write queue: one write at a time, of the front of the  *)
(* queue, and the refinement of Outbox, for all messages and any number    *)
(* of calls of doWrite.                                                    *)
(***************************************************************************)
EXTENDS WriteQueue, QueueFacts

\* The number of messages that have left the queue, written or dropped.
Gone == Len(history) - Len(posted) - Len(sque)

\* The strand and the queue hold the last messages of the history, in order.
InOrder ==
    /\ Gone \in Nat
    /\ \A i \in 1 .. Len(sque) : sque[i] = history[Gone + i]
    /\ \A i \in 1 .. Len(posted) : posted[i] = history[Gone + Len(sque) + i]

\* While the connection lasts no write fails, and what has left the queue, with
\* the message whose completion waits, is what has reached the client.
NothingLost ==
    up => /\ Len(wire) = Gone + Len(done)
          /\ \A i \in 1 .. Len(done) : done[i] = "ok"

Inv == TypeOK /\ WriteIsFront /\ InOrder /\ NothingLost

LEMMA InitInv == Init => Inv
  BY DEF Init, Inv, TypeOK, WriteIsFront, InOrder, NothingLost, Gone

\* The lengths of the queues are natural numbers, and 0 when they are empty.
LEMMA Lengths ==
  ASSUME TypeOK
  PROVE  /\ Len(history) \in Nat /\ Len(posted) \in Nat /\ Len(sque) \in Nat
         /\ Len(writing) \in Nat /\ Len(done) \in Nat /\ Len(wire) \in Nat
         /\ posted = <<>> <=> Len(posted) = 0
         /\ sque = <<>> <=> Len(sque) = 0
         /\ writing = <<>> <=> Len(writing) = 0
         /\ done = <<>> <=> Len(done) = 0
  BY Emptiness DEF TypeOK

LEMMA DoWriteInv ==
  ASSUME Inv, NEW m \in Messages, DoWrite(m)
  PROVE  Inv'
  <1>1. /\ history' \in Seq(Messages) /\ IsPush(history, m, history')
        /\ posted' \in Seq(Messages) /\ IsPush(posted, m, posted')
    BY Push DEF DoWrite, Inv, TypeOK
  <1>2. TypeOK' /\ WriteIsFront'
    BY <1>1 DEF DoWrite, Inv, TypeOK, WriteIsFront
  <1>3. Gone' = Gone /\ Gone \in Nat
    BY <1>1, Lengths DEF DoWrite, Inv, InOrder, Gone, IsPush
  <1>4. InOrder'
    <2>1. ASSUME NEW i \in 1 .. Len(sque) PROVE sque[i] = history'[Gone + i]
      <3>1. Gone + i \in 1 .. Len(history)
        BY <1>3, Lengths DEF Inv, Gone
      <3> QED BY <1>1, <3>1 DEF Inv, InOrder, IsPush
    <2>2. ASSUME NEW i \in 1 .. Len(posted') PROVE posted'[i] = history'[Gone + Len(sque) + i]
      <3>1. CASE i = Len(posted')
        BY <1>1, <3>1, Lengths DEF Inv, Gone, IsPush
      <3>2. CASE i \in 1 .. Len(posted)
        <4>1. posted'[i] = history[Gone + Len(sque) + i]
          BY <1>1, <3>2 DEF Inv, InOrder, IsPush
        <4>2. Gone + Len(sque) + i \in 1 .. Len(history)
          BY <1>3, <3>2, Lengths DEF Inv, Gone
        <4> QED BY <1>1, <4>1, <4>2 DEF IsPush
      <3> QED BY <1>1, <3>1, <3>2, Lengths DEF Inv, IsPush
    <2> QED BY <1>3, <2>1, <2>2 DEF DoWrite, InOrder
  <1>5. NothingLost'
    BY <1>3 DEF DoWrite, Inv, NothingLost
  <1> QED BY <1>2, <1>4, <1>5 DEF Inv

LEMMA WriteImplInv ==
  ASSUME Inv, WriteImpl
  PROVE  Inv'
  <1>1. /\ Head(posted) \in Messages /\ posted' \in Seq(Messages) /\ IsPop(posted, posted')
        /\ sque' \in Seq(Messages) /\ IsPush(sque, Head(posted), sque')
    BY Push, Pop DEF WriteImpl, Inv, TypeOK
  <1>2. Gone' = Gone /\ Gone \in Nat
    BY <1>1, Lengths DEF WriteImpl, Inv, InOrder, Gone, IsPush, IsPop
  <1>3. InOrder'
    <2>1. ASSUME NEW i \in 1 .. Len(sque') PROVE sque'[i] = history[Gone + i]
      <3>1. CASE i = Len(sque')
        BY <1>1, <1>2, <3>1, Lengths DEF Inv, InOrder, IsPush, IsPop
      <3>2. CASE i \in 1 .. Len(sque)
        BY <1>1, <3>2 DEF Inv, InOrder, IsPush
      <3> QED BY <1>1, <3>1, <3>2, Lengths DEF Inv, IsPush
    <2>2. ASSUME NEW i \in 1 .. Len(posted') PROVE posted'[i] = history[Gone + Len(sque') + i]
      <3>1. i + 1 \in 1 .. Len(posted) /\ posted'[i] = posted[i + 1]
        BY <1>1, Lengths DEF Inv, IsPop
      <3>2. Gone + Len(sque) + (i + 1) = Gone + Len(sque') + i
        BY <1>1, <1>2, Lengths DEF Inv, IsPush
      <3> QED BY <3>1, <3>2 DEF Inv, InOrder
    <2> QED BY <1>2, <2>1, <2>2 DEF WriteImpl, InOrder
  <1>4. NothingLost'
    BY <1>2 DEF WriteImpl, Inv, NothingLost
  <1>5. CASE Len(sque') > 1
    <2>1. Head(sque') = Head(sque) /\ sque # <<>>
      BY <1>1, <1>5, Lengths DEF IsPush, Inv
    <2> QED BY <1>1, <1>3, <1>4, <1>5, <2>1 DEF WriteImpl, Inv, TypeOK, WriteIsFront
  <1>6. CASE ~(Len(sque') > 1)
    <2>1. Len(sque) = 0 /\ writing = <<>> /\ done = <<>> /\ sque'[1] \in Messages
      BY <1>1, <1>6, Lengths DEF Inv, WriteIsFront, IsPush
    <2>2. writing' = Append(<<>>, sque'[1])
      BY <1>6, <2>1 DEF WriteImpl, Write
    <2>3. writing' \in Seq(Messages) /\ IsPush(<<>>, sque'[1], writing')
      BY <2>1, <2>2, Push, EmptySeq
    <2>4. Len(writing') = 1 /\ Head(writing') = sque'[1] /\ Head(sque') = sque'[1] /\ sque' # <<>>
      BY <1>1, <2>3, EmptySeq DEF IsPush
    <2>5. Len(done') = 0 /\ done' = done
      BY <2>1, Lengths DEF Inv, WriteImpl
    <2>6. TypeOK' /\ WriteIsFront'
      BY <1>1, <2>1, <2>3, <2>4, <2>5 DEF WriteImpl, Inv, TypeOK, WriteIsFront
    <2> QED BY <1>3, <1>4, <2>6 DEF Inv
  <1> QED BY <1>5, <1>6

LEMMA OnWriteCompleteInv ==
  ASSUME Inv, OnWriteComplete
  PROVE  Inv'
  <1>1. /\ Head(done) \in Results /\ done' \in Seq(Results) /\ IsPop(done, done')
        /\ sque' \in Seq(Messages) /\ IsPop(sque, sque')
    BY Pop DEF OnWriteComplete, Inv, TypeOK, WriteIsFront
  <1>2. Len(writing) = 0 /\ writing = <<>> /\ Len(done') = 0 /\ Len(done) = 1 /\ done' = <<>>
    BY <1>1, Lengths, Emptiness DEF Inv, WriteIsFront, IsPop
  <1>3. Gone' = Gone + 1 /\ Gone \in Nat
    BY <1>1, Lengths DEF OnWriteComplete, Inv, InOrder, Gone, IsPop
  <1>4. InOrder'
    BY <1>1, <1>3, Lengths DEF OnWriteComplete, Inv, InOrder, Gone, IsPop
  <1>0. UNCHANGED <<history, posted, up, wire>>
    BY DEF OnWriteComplete
  <1>5. NothingLost'
    BY <1>0, <1>2, <1>3, Lengths DEF Inv, NothingLost
  <1>6. CASE writing' = writing
    <2>1. TypeOK'
      BY <1>0, <1>1, <1>6 DEF Inv, TypeOK
    <2>2. WriteIsFront'
      BY <1>2, <1>6 DEF WriteIsFront
    <2> QED BY <1>4, <1>5, <2>1, <2>2 DEF Inv
  <1>7. CASE sque' # <<>> /\ writing' = Append(<<>>, sque'[1])
    <2>1. Len(sque') > 0 /\ sque'[1] \in Messages /\ Head(sque') = sque'[1]
      BY <1>1, <1>7, Pop, Emptiness DEF IsPop
    <2>2. writing' \in Seq(Messages) /\ IsPush(<<>>, sque'[1], writing')
      BY <1>7, <2>1, Push, EmptySeq
    <2>3. Len(writing') = 1 /\ Head(writing') = sque'[1]
      BY <2>2, EmptySeq DEF IsPush
    <2>4. TypeOK'
      BY <1>0, <1>1, <2>2 DEF Inv, TypeOK
    <2>5. WriteIsFront'
      BY <1>2, <1>7, <2>1, <2>3 DEF WriteIsFront
    <2> QED BY <1>4, <1>5, <2>4, <2>5 DEF Inv
  <1> QED BY <1>2, <1>6, <1>7 DEF OnWriteComplete, Write

LEMMA SentInv ==
  ASSUME Inv, Sent
  PROVE  Inv'
  <1>1. /\ Head(writing) \in Messages /\ writing' \in Seq(Messages) /\ IsPop(writing, writing')
        /\ wire' \in Seq(Messages) /\ IsPush(wire, Head(writing), wire')
        /\ done' \in Seq(Results) /\ IsPush(done, "ok", done')
    BY Pop, Push DEF Sent, Inv, TypeOK, Results
  <1>2. Len(done) = 0 /\ Len(done') = 1 /\ Len(writing') = 0 /\ writing' = <<>> /\ done'[1] = "ok"
    BY <1>1, Lengths, Emptiness DEF Sent, Inv, WriteIsFront, IsPush, IsPop
  <1>3. TypeOK' /\ WriteIsFront'
    BY <1>1, <1>2 DEF Sent, Inv, TypeOK, WriteIsFront
  <1>4. InOrder' /\ Gone' = Gone /\ Gone \in Nat
    BY DEF Sent, Inv, InOrder, Gone
  <1>5. NothingLost'
    BY <1>1, <1>2, <1>4 DEF Sent, Inv, NothingLost, IsPush
  <1> QED BY <1>3, <1>4, <1>5 DEF Inv

LEMMA SendErrorInv ==
  ASSUME Inv, SendError
  PROVE  Inv'
  <1>1. /\ writing' \in Seq(Messages) /\ IsPop(writing, writing')
        /\ done' \in Seq(Results) /\ IsPush(done, "error", done')
    BY Pop, Push DEF SendError, Inv, TypeOK, Results
  <1>2. Len(done') = 1 /\ Len(writing') = 0 /\ writing' = <<>>
    BY <1>1, Lengths, Emptiness DEF SendError, Inv, WriteIsFront, IsPush, IsPop
  <1>3. TypeOK' /\ WriteIsFront'
    BY <1>1, <1>2 DEF SendError, Inv, TypeOK, WriteIsFront
  <1>4. InOrder' /\ NothingLost'
    BY DEF SendError, Inv, InOrder, Gone, NothingLost
  <1> QED BY <1>3, <1>4 DEF Inv

LEMMA SentNowhereInv ==
  ASSUME Inv, SentNowhere
  PROVE  Inv'
  <1>1. /\ writing' \in Seq(Messages) /\ IsPop(writing, writing')
        /\ done' \in Seq(Results) /\ IsPush(done, "ok", done')
    BY Pop, Push DEF SentNowhere, Inv, TypeOK, Results
  <1>2. Len(done') = 1 /\ Len(writing') = 0 /\ writing' = <<>>
    BY <1>1, Lengths, Emptiness DEF SentNowhere, Inv, WriteIsFront, IsPush, IsPop
  <1>3. TypeOK' /\ WriteIsFront'
    BY <1>1, <1>2 DEF SentNowhere, Inv, TypeOK, WriteIsFront
  <1>4. InOrder' /\ NothingLost'
    BY DEF SentNowhere, Inv, InOrder, Gone, NothingLost
  <1> QED BY <1>3, <1>4 DEF Inv

LEMMA DisconnectInv ==
  ASSUME Inv, Disconnect
  PROVE  Inv'
  BY DEF Disconnect, Inv, TypeOK, WriteIsFront, InOrder, Gone, NothingLost

LEMMA StepInv == Inv /\ [Next]_vars => Inv'
  <1> SUFFICES ASSUME Inv, [Next]_vars PROVE Inv'
    OBVIOUS
  <1>1. CASE UNCHANGED vars
    BY <1>1 DEF vars, Inv, TypeOK, WriteIsFront, InOrder, NothingLost, Gone
  <1>2. CASE Next
    BY <1>2, DoWriteInv, WriteImplInv, OnWriteCompleteInv, SentInv, SentNowhereInv, SendErrorInv, DisconnectInv DEF Next
  <1> QED BY <1>1, <1>2

\* The inductive invariant: the queues are stretches of the history.
THEOREM Invariance == Spec => []Inv
  BY InitInv, StepInv, PTL DEF Spec

\* Every variable keeps its type.
THEOREM TypeCorrect == Spec => []TypeOK
  <1>1. Inv => TypeOK
    BY DEF Inv
  <1> QED BY <1>1, Invariance, PTL

\* At most one async_write is under way, and it reads the front of _sque.
THEOREM OneWriteAtATime == Spec => []WriteIsFront
  <1>1. Inv => WriteIsFront
    BY DEF Inv
  <1> QED BY <1>1, Invariance, PTL

\* The message that reaches the client is the next one of the history.
LEMMA SentIsNext ==
  ASSUME Inv, Sent
  PROVE  Len(wire) < Len(history) /\ Head(writing) = history[Len(wire) + 1]
  <1>1. Len(wire) = Gone /\ Len(sque) > 0
    BY Lengths DEF Sent, Inv, WriteIsFront, InOrder, NothingLost
  <1>2. Head(writing) = sque[1]
    BY <1>1, Pop DEF Sent, Inv, TypeOK, WriteIsFront, IsPop
  <1> QED BY <1>1, <1>2, Lengths DEF Inv, InOrder, Gone

\* What has reached the client is the front of the history.
Delivered ==
    /\ Len(wire) <= Len(history)
    /\ \A i \in 1 .. Len(wire) : wire[i] = history[i]

LEMMA InitDelivered == Init => Delivered
  BY DEF Init, Delivered

LEMMA StepDelivered == Inv /\ Delivered /\ [Next]_vars => Delivered'
  <1> SUFFICES ASSUME Inv, Delivered, [Next]_vars PROVE Delivered'
    OBVIOUS
  <1>1. Len(history) \in Nat /\ Len(wire) \in Nat
    BY Lengths DEF Inv
  <1>2. ASSUME NEW m \in Messages, DoWrite(m) PROVE Delivered'
    <2>1. IsPush(history, m, history') /\ wire' = wire
      BY <1>2, Push DEF DoWrite, Inv, TypeOK
    <2> QED BY <1>1, <2>1 DEF Delivered, IsPush
  <1>3. CASE Sent
    <2>1. IsPush(wire, Head(writing), wire') /\ history' = history
      BY <1>3, Push, Pop DEF Sent, Inv, TypeOK
    <2>2. Len(wire) < Len(history) /\ Head(writing) = history[Len(wire) + 1]
      BY <1>3, SentIsNext
    <2> QED BY <1>1, <2>1, <2>2 DEF Delivered, IsPush
  <1>4. CASE UNCHANGED <<history, wire>>
    BY <1>4 DEF Delivered
  <1> QED BY <1>2, <1>3, <1>4 DEF Next, vars, WriteImpl, OnWriteComplete, SentNowhere, SendError, Disconnect

\* A step of the queue is a step of Outbox or changes nothing that Outbox sees.
LEMMA StepRefines == Inv /\ [Next]_vars => [Queue!Next]_(Queue!vars)
  <1> SUFFICES ASSUME Inv, [Next]_vars PROVE [Queue!Next]_(Queue!vars)
    OBVIOUS
  <1>1. CASE UNCHANGED vars
    BY <1>1 DEF vars, Queue!vars
  <1>2. ASSUME NEW m \in Messages, DoWrite(m)
        PROVE  Queue!Next
    BY <1>2 DEF DoWrite, Queue!Next, Queue!Accept
  <1>3. CASE WriteImpl \/ OnWriteComplete \/ SentNowhere \/ SendError
    BY <1>3 DEF WriteImpl, OnWriteComplete, SentNowhere, SendError, Queue!vars
  <1>4. CASE Sent
    BY <1>4, SentIsNext DEF Sent, Queue!Next, Queue!Arrive
  <1>5. CASE Disconnect
    BY <1>5 DEF Disconnect, Queue!Next, Queue!Cut
  <1> QED BY <1>1, <1>2, <1>3, <1>4, <1>5 DEF Next

\* The write queue implements Outbox: order, no repetition, no gap.
THEOREM QueueIsOutbox == Spec => IsOutbox
  <1>1. Init => Queue!Init
    BY DEF Init, Queue!Init
  <1> QED BY <1>1, Invariance, StepRefines, PTL DEF Spec, IsOutbox, Queue!Spec
=============================================================================
