--------------------------- MODULE SessionDbProofs ---------------------------
(***************************************************************************)
(* Proofs about the directory, for all sets of ids and guids: the queue    *)
(* and _db always amount to the sessions that are registered; the commands *)
(* to Redis follow _db; the listing is _db until the buffer is full.       *)
(***************************************************************************)
EXTENDS SessionDb, QueueFacts, FiniteSetTheorems

Adds(i) == \E k \in 1 .. Len(ops) : ops[k].id = i /\ ops[k].op = "ADD"
Dels(i) == \E k \in 1 .. Len(ops) : ops[k].id = i /\ ops[k].op = "DEL"

\* An ADD in the queue is that of a session which logged in and is not yet
\* entered; a DEL is that of a session which has closed.
AddsDue ==
    \A k \in 1 .. Len(ops) : ops[k].op = "ADD" =>
        /\ ops[k].guid \in Guids /\ ops[k].guid = gid[ops[k].id]
        /\ prod[ops[k].id] # "new" /\ db[ops[k].id] = NoGuid

DelsDue == \A k \in 1 .. Len(ops) : ops[k].op = "DEL" => prod[ops[k].id] \in {"deling", "gone"}

\* A session has at most an ADD and a DEL in the queue, in this order.
AddBeforeDel ==
    \A j, k \in 1 .. Len(ops) : j < k /\ ops[j].id = ops[k].id => ops[j].op = "ADD" /\ ops[k].op = "DEL"

\* Where a session stands, and what is in _db and the queue for it.
Standing ==
    \A i \in Ids :
        /\ db[i] # NoGuid => db[i] = gid[i]
        /\ prod[i] = "new" => gid[i] = NoGuid
        /\ prod[i] \in {"adding", "added"} => gid[i] # NoGuid
        /\ prod[i] \in {"adding", "added", "freed"} /\ gid[i] # NoGuid => Adds(i) \/ db[i] # NoGuid
        /\ prod[i] \in {"deling", "gone"} /\ (db[i] # NoGuid \/ Adds(i)) => Dels(i)

Ledger == AddsDue /\ DelsDue /\ AddBeforeDel /\ Standing

\* What the worker is about to send, and what Redis will hold.
Mirror ==
    /\ conn \in {"none", "unauthenticated"} => keys = {}
    /\ wpc = "cmd" => conn # "none" /\ ops # <<>> /\ (Head(ops).op = "DEL" => db[Head(ops).id] # NoGuid)
    /\ wpc = "abort" => conn = "closed"
    /\ RedisFollows

Inv == StateOK /\ (wpc # "abort" => Ledger) /\ Mirror

LEMMA InitInv == Init => Inv
  <1> SUFFICES ASSUME Init PROVE Inv
    OBVIOUS
  <1>1. StateOK
    BY OldAssumption DEF Init, StateOK
  <1>2. Ledger
    BY NoneAssumption DEF Init, Ledger, AddsDue, DelsDue, AddBeforeDel, Standing, Adds, Dels
  <1>3. Mirror
    BY DEF Init, Mirror, RedisFollows
  <1> QED BY <1>1, <1>2, <1>3 DEF Inv

\* The elements of the queue and its length.
LEMMA OpsFacts ==
  ASSUME StateOK
  PROVE  /\ Len(ops) \in Nat /\ (ops = <<>> <=> Len(ops) = 0)
         /\ \A k \in 1 .. Len(ops) : ops[k] \in Op
  BY Emptiness DEF StateOK

\* A step that leaves the queue, _db and the sessions' calls alone.
LEMMA LedgerSame ==
  ASSUME Ledger, UNCHANGED <<ops, db, prod, gid>>
  PROVE  Ledger'
  BY DEF Ledger, AddsDue, DelsDue, AddBeforeDel, Standing, Adds, Dels

\* A step that leaves _db, guids and Redis alone.  A connection comes up before any
\* key is to be changed.
LEMMA FollowsSame ==
  ASSUME RedisFollows, UNCHANGED <<db, gid, cmds, keys, rds>>, conn' = "up" => conn = "up" \/ keys = {}
  PROVE  RedisFollows'
  <1>1. \A g, v : WillHold(g, v)' <=> WillHold(g, v)
    BY DEF WillHold
  <1> QED BY <1>1 DEF RedisFollows

\* Executing a command does not change what Redis will hold.
LEMMA ExecuteHolds ==
  ASSUME StateOK, RedisExecute, NEW g \in Guids, NEW v
  PROVE  WillHold(g, v)' <=> WillHold(g, v)
  <1>0. PICK c : c = Head(cmds)
    OBVIOUS
  <1>1. cmds # <<>> /\ cmds' = Tail(cmds) /\ rds' = [rds EXCEPT ![c.guid] = c.id]
    BY <1>0 DEF RedisExecute
  <1>2. /\ Len(cmds) \in Nat /\ Len(cmds) > 0 /\ c = cmds[1] /\ c \in Cmd
        /\ Len(cmds') = Len(cmds) - 1
        /\ \A k \in 1 .. Len(cmds') : k + 1 \in 1 .. Len(cmds) /\ cmds'[k] = cmds[k + 1]
    BY <1>0, <1>1, Pop DEF StateOK, IsPop
  <1>3. \A k \in 1 .. Len(cmds) : k = 1 \/ (k - 1 \in 1 .. Len(cmds') /\ cmds'[k - 1] = cmds[k])
    BY <1>2
  <1>4. rds'[g] = IF g = c.guid THEN c.id ELSE rds[g]
    BY <1>1 DEF StateOK
  <1>5. ASSUME WillHold(g, v) PROVE WillHold(g, v)'
    <2>1. CASE v = rds[g] /\ \A k \in 1 .. Len(cmds) : cmds[k].guid # g
      BY <1>2, <1>4, <2>1 DEF WillHold
    <2>2. ASSUME NEW k \in 1 .. Len(cmds), cmds[k].guid = g, cmds[k].id = v,
                 \A j \in k + 1 .. Len(cmds) : cmds[j].guid # g
          PROVE  WillHold(g, v)'
      <3>1. CASE k = 1
        <4>1. \A j \in 1 .. Len(cmds') : cmds'[j].guid # g
          BY <1>2, <2>2, <3>1
        <4> QED BY <1>2, <1>4, <2>2, <3>1, <4>1 DEF WillHold
      <3>2. CASE k # 1
        <4>1. k - 1 \in 1 .. Len(cmds') /\ cmds'[k - 1] = cmds[k]
          BY <1>3, <3>2
        <4>2. \A j \in (k - 1) + 1 .. Len(cmds') : cmds'[j].guid # g
          BY <1>2, <2>2, <4>1
        <4> QED BY <2>2, <4>1, <4>2 DEF WillHold
      <3> QED BY <3>1, <3>2
    <2> QED BY <1>5, <2>1, <2>2 DEF WillHold
  <1>6. ASSUME WillHold(g, v)' PROVE WillHold(g, v)
    <2>1. CASE v = rds'[g] /\ \A k \in 1 .. Len(cmds') : cmds'[k].guid # g
      <3>1. \A k \in 1 .. Len(cmds) : k # 1 => cmds[k].guid # g
        BY <1>3, <2>1
      <3>2. CASE g = c.guid
        BY <1>2, <1>4, <2>1, <3>1, <3>2 DEF WillHold
      <3>3. CASE g # c.guid
        BY <1>2, <1>4, <2>1, <3>1, <3>3 DEF WillHold
      <3> QED BY <3>2, <3>3
    <2>2. ASSUME NEW k \in 1 .. Len(cmds'), cmds'[k].guid = g, cmds'[k].id = v,
                 \A j \in k + 1 .. Len(cmds') : cmds'[j].guid # g
          PROVE  WillHold(g, v)
      <3>1. k + 1 \in 1 .. Len(cmds) /\ cmds[k + 1] = cmds'[k]
        BY <1>2
      <3>2. \A j \in (k + 1) + 1 .. Len(cmds) : cmds[j].guid # g
        BY <1>2, <1>3, <2>2
      <3> QED BY <2>2, <3>1, <3>2 DEF WillHold
    <2> QED BY <1>6, <2>1, <2>2 DEF WillHold
  <1> QED BY <1>5, <1>6

\* A command that is posted decides what Redis will hold under its key.
LEMMA PostHolds ==
  ASSUME StateOK, NEW c \in Cmd, IsPush(cmds, c, cmds'), rds' = rds, NEW g \in Guids, NEW v
  PROVE  WillHold(g, v)' <=> IF g = c.guid THEN v = c.id ELSE WillHold(g, v)
  <1>1. /\ Len(cmds) \in Nat /\ Len(cmds') = Len(cmds) + 1 /\ cmds'[Len(cmds) + 1] = c
        /\ \A k \in 1 .. Len(cmds) : cmds'[k] = cmds[k]
        /\ \A k \in 1 .. Len(cmds') : k \in 1 .. Len(cmds) \/ k = Len(cmds) + 1
        /\ Len(cmds) + 1 \in 1 .. Len(cmds')
    <2>1. Len(cmds) \in Nat
      BY LenProperties DEF StateOK
    <2> QED BY <2>1 DEF IsPush
  <1>2. CASE g = c.guid
    <2>1. v = c.id => WillHold(g, v)'
      BY <1>1, <1>2 DEF WillHold
    <2>2. WillHold(g, v)' => v = c.id
      BY <1>1, <1>2 DEF WillHold
    <2> QED BY <1>2, <2>1, <2>2
  <1>3. CASE g # c.guid
    <2>1. WillHold(g, v) => WillHold(g, v)'
      BY <1>1, <1>3 DEF WillHold
    <2>2. WillHold(g, v)' => WillHold(g, v)
      BY <1>1, <1>3 DEF WillHold
    <2> QED BY <1>3, <2>1, <2>2
  <1> QED BY <1>2, <1>3

\* An operation joins the queue.
LEMMA PushLedger ==
  ASSUME StateOK, Ledger, NEW o \in Op, IsPush(ops, o, ops'), db' = db,
         \A i \in Ids : i # o.id => prod'[i] = prod[i] /\ gid'[i] = gid[i],
         \/ /\ o.op = "ADD" /\ prod[o.id] = "new" /\ prod'[o.id] = "adding"
            /\ o.guid \in Guids /\ gid'[o.id] = o.guid
         \/ /\ o.op = "DEL" /\ prod[o.id] = "freed" /\ prod'[o.id] = "deling"
            /\ gid'[o.id] = gid[o.id]
  PROVE  Ledger'
  <1>1. o.id \in Ids /\ o.op \in {"ADD", "DEL"} /\ o.guid \in Guids \cup {NoGuid} /\ o.id = o.id
    BY DEF Op
  <1>2. Len(ops) \in Nat /\ (\A k \in 1 .. Len(ops) : ops[k].id \in Ids /\ ops[k].op \in {"ADD", "DEL"})
    BY OpsFacts DEF Op
  <1>3. /\ Len(ops') = Len(ops) + 1 /\ ops'[Len(ops) + 1] = o
        /\ \A k \in 1 .. Len(ops) : ops'[k] = ops[k]
        /\ \A k \in 1 .. Len(ops') : k \in 1 .. Len(ops) \/ k = Len(ops) + 1
    BY <1>2 DEF IsPush
  <1>4. o.op = "ADD" => /\ gid[o.id] = NoGuid /\ db[o.id] = NoGuid
                        /\ \A k \in 1 .. Len(ops) : ops[k].id # o.id
    BY <1>1, <1>2, NoneAssumption DEF Ledger, AddsDue, DelsDue, Standing
  <1>5. o.op = "DEL" => \A k \in 1 .. Len(ops) : ops[k].id = o.id => ops[k].op = "ADD"
    BY <1>1, <1>2 DEF Ledger, DelsDue
  <1>6. AddsDue'
    <2> SUFFICES ASSUME NEW k \in 1 .. Len(ops'), ops'[k].op = "ADD"
                 PROVE  /\ ops'[k].guid \in Guids /\ ops'[k].guid = gid'[ops'[k].id]
                        /\ prod'[ops'[k].id] # "new" /\ db[ops'[k].id] = NoGuid
      BY DEF AddsDue
    <2>1. CASE k \in 1 .. Len(ops)
      BY <1>1, <1>2, <1>3, <1>4, <2>1 DEF Ledger, AddsDue
    <2>2. CASE k = Len(ops) + 1
      BY <1>1, <1>3, <1>4, <2>2
    <2> QED BY <1>3, <2>1, <2>2
  <1>7. DelsDue'
    BY <1>1, <1>2, <1>3, <1>4 DEF Ledger, DelsDue
  <1>8. AddBeforeDel'
    <2> SUFFICES ASSUME NEW j \in 1 .. Len(ops'), NEW k \in 1 .. Len(ops'), j < k, ops'[j].id = ops'[k].id
                 PROVE  ops'[j].op = "ADD" /\ ops'[k].op = "DEL"
      BY DEF AddBeforeDel
    <2>1. j \in 1 .. Len(ops)
      BY <1>2, <1>3
    <2>2. CASE k \in 1 .. Len(ops)
      BY <1>3, <2>1, <2>2 DEF Ledger, AddBeforeDel
    <2>3. CASE k = Len(ops) + 1
      BY <1>1, <1>3, <1>4, <1>5, <2>1, <2>3
    <2> QED BY <1>3, <2>2, <2>3
  <1>9. \A i \in Ids : (Adds(i) => Adds(i)') /\ (Dels(i) => Dels(i)')
    BY <1>2, <1>3 DEF Adds, Dels
  <1>10. \A i \in Ids : i # o.id => (Adds(i)' => Adds(i)) /\ (Dels(i)' => Dels(i))
    BY <1>3 DEF Adds, Dels
  <1>11. (o.op = "ADD" => Adds(o.id)') /\ (o.op = "DEL" => Dels(o.id)')
    BY <1>2, <1>3 DEF Adds, Dels
  <1>12. Standing'
    <2> SUFFICES ASSUME NEW i \in Ids
                 PROVE  /\ db[i] # NoGuid => db[i] = gid'[i]
                        /\ prod'[i] = "new" => gid'[i] = NoGuid
                        /\ prod'[i] \in {"adding", "added"} => gid'[i] # NoGuid
                        /\ prod'[i] \in {"adding", "added", "freed"} /\ gid'[i] # NoGuid => Adds(i)' \/ db[i] # NoGuid
                        /\ prod'[i] \in {"deling", "gone"} /\ (db[i] # NoGuid \/ Adds(i)') => Dels(i)'
      BY DEF Standing
    <2>1. CASE i # o.id
      BY <1>9, <1>10, <2>1 DEF Ledger, Standing
    <2>2. CASE i = o.id
      BY <1>1, <1>4, <1>11, <2>2, NoneAssumption DEF Ledger, Standing
    <2> QED BY <2>1, <2>2
  <1> QED BY <1>6, <1>7, <1>8, <1>12 DEF Ledger

\* The front of the queue is applied to _db.
LEMMA PopLedger ==
  ASSUME StateOK, Ledger, ops # <<>>, ops' = Tail(ops), db' = Applied(Head(ops)),
         UNCHANGED <<prod, gid>>
  PROVE  Ledger'
  <1>0. PICK o : o = Head(ops)
    OBVIOUS
  <1>1. /\ Len(ops) \in Nat /\ Len(ops) > 0 /\ o = ops[1] /\ o \in Op
        /\ Len(ops') = Len(ops) - 1
        /\ \A k \in 1 .. Len(ops') : k + 1 \in 1 .. Len(ops) /\ ops'[k] = ops[k + 1]
        /\ 1 \in 1 .. Len(ops)
    BY <1>0, Pop, OpsFacts DEF StateOK, IsPop
  <1>2. /\ o.id \in Ids /\ o.op \in {"ADD", "DEL"}
        /\ \A k \in 1 .. Len(ops) : ops[k].id \in Ids /\ ops[k].op \in {"ADD", "DEL"}
    BY <1>1, OpsFacts DEF Op
  <1>3. /\ db' \in [Ids -> Guids \cup {NoGuid}]
        /\ \A i \in Ids : i # o.id => db'[i] = db[i]
        /\ o.op = "DEL" => db'[o.id] = NoGuid
        /\ o.op = "ADD" => db'[o.id] = gid[o.id] /\ db[o.id] = NoGuid /\ gid[o.id] \in Guids
    <2>1. o.op = "ADD" => db[o.id] = NoGuid /\ o.guid = gid[o.id] /\ o.guid \in Guids
      BY <1>1, <1>2 DEF Ledger, AddsDue
    <2>2. db' = [db EXCEPT ![o.id] = IF o.op = "DEL" THEN NoGuid ELSE IF @ = NoGuid THEN o.guid ELSE @]
      BY <1>0 DEF Applied
    <2>3. db'[o.id] = IF o.op = "DEL" THEN NoGuid ELSE IF db[o.id] = NoGuid THEN o.guid ELSE db[o.id]
      BY <1>2, <2>2 DEF StateOK
    <2> QED BY <1>1, <1>2, <2>1, <2>2, <2>3 DEF StateOK, Op
  \* Behind the front, its session has at most a DEL, and only behind an ADD.
  <1>4. \A k \in 1 .. Len(ops') : ops'[k].id = o.id => o.op = "ADD" /\ ops'[k].op = "DEL"
    BY <1>1 DEF Ledger, AddBeforeDel
  <1>5. AddsDue'
    <2> SUFFICES ASSUME NEW k \in 1 .. Len(ops'), ops'[k].op = "ADD"
                 PROVE  /\ ops'[k].guid \in Guids /\ ops'[k].guid = gid[ops'[k].id]
                        /\ prod[ops'[k].id] # "new" /\ db'[ops'[k].id] = NoGuid
      BY DEF AddsDue
    <2>1. ops'[k].id # o.id /\ ops'[k].id \in Ids
      BY <1>1, <1>2, <1>4
    <2> QED BY <1>1, <1>3, <2>1 DEF Ledger, AddsDue
  <1>6. DelsDue'
    BY <1>1 DEF Ledger, DelsDue
  <1>7. AddBeforeDel'
    <2> SUFFICES ASSUME NEW j \in 1 .. Len(ops'), NEW k \in 1 .. Len(ops'), j < k, ops'[j].id = ops'[k].id
                 PROVE  ops'[j].op = "ADD" /\ ops'[k].op = "DEL"
      BY DEF AddBeforeDel
    <2>1. /\ j + 1 \in 1 .. Len(ops) /\ k + 1 \in 1 .. Len(ops) /\ j + 1 < k + 1
          /\ ops'[j] = ops[j + 1] /\ ops'[k] = ops[k + 1]
      BY <1>1
    <2> QED BY <2>1 DEF Ledger, AddBeforeDel
  <1>8. ASSUME NEW i \in Ids, i # o.id
        PROVE  (Adds(i)' <=> Adds(i)) /\ (Dels(i)' <=> Dels(i))
    <2>1. \A k \in 1 .. Len(ops) : ops[k].id = i => k - 1 \in 1 .. Len(ops') /\ ops'[k - 1] = ops[k]
      BY <1>1, <1>8
    <2>2. (Adds(i)' => Adds(i)) /\ (Dels(i)' => Dels(i))
      BY <1>1 DEF Adds, Dels
    <2>3. Adds(i) => Adds(i)'
      BY <2>1 DEF Adds
    <2>4. Dels(i) => Dels(i)'
      BY <2>1 DEF Dels
    <2> QED BY <2>2, <2>3, <2>4
  <1>9. ~Adds(o.id)' /\ (o.op = "DEL" => ~Dels(o.id)')
    BY <1>4 DEF Adds, Dels
  <1>10. o.op = "ADD" /\ Dels(o.id) => Dels(o.id)'
    <2> SUFFICES ASSUME o.op = "ADD", NEW k \in 1 .. Len(ops), ops[k].id = o.id, ops[k].op = "DEL"
                 PROVE  Dels(o.id)'
      BY DEF Dels
    <2>1. k - 1 \in 1 .. Len(ops') /\ ops'[k - 1] = ops[k]
      BY <1>1
    <2> QED BY <2>1 DEF Dels
  <1>11. (o.op = "ADD" => Adds(o.id)) /\ (o.op = "DEL" => prod[o.id] \in {"deling", "gone"})
    BY <1>1 DEF Adds, Ledger, DelsDue
  <1>12. Standing'
    <2> SUFFICES ASSUME NEW i \in Ids
                 PROVE  /\ db'[i] # NoGuid => db'[i] = gid[i]
                        /\ prod[i] = "new" => gid[i] = NoGuid
                        /\ prod[i] \in {"adding", "added"} => gid[i] # NoGuid
                        /\ prod[i] \in {"adding", "added", "freed"} /\ gid[i] # NoGuid => Adds(i)' \/ db'[i] # NoGuid
                        /\ prod[i] \in {"deling", "gone"} /\ (db'[i] # NoGuid \/ Adds(i)') => Dels(i)'
      BY DEF Standing
    <2>1. CASE i # o.id
      BY <1>3, <1>8, <2>1 DEF Ledger, Standing
    <2>2. CASE i = o.id /\ o.op = "ADD"
      BY <1>3, <1>9, <1>10, <1>11, <2>2, NoneAssumption DEF Ledger, Standing
    <2>3. CASE i = o.id /\ o.op = "DEL"
      BY <1>3, <1>9, <1>11, <2>3 DEF Ledger, Standing
    <2> QED BY <1>2, <2>1, <2>2, <2>3
  <1> QED BY <1>5, <1>6, <1>7, <1>12 DEF Ledger

\* A call of a session that touches neither the queue nor _db.
LEMMA CallLedger ==
  ASSUME StateOK, Ledger, UNCHANGED <<ops, db, gid>>, NEW i \in Ids, NEW p, prod' = [prod EXCEPT ![i] = p],
         \/ prod[i] = "adding" /\ p = "added"
         \/ prod[i] = "deling" /\ p = "gone"
         \/ prod[i] \in {"new", "added"} /\ p = "freed"
  PROVE  Ledger'
  <1>1. \A j \in Ids : prod'[j] = IF j = i THEN p ELSE prod[j]
    BY DEF StateOK
  <1>2. \A k \in 1 .. Len(ops) : ops[k].id \in Ids
    BY OpsFacts DEF Op
  <1>3. \A j \in Ids : (Adds(j)' <=> Adds(j)) /\ (Dels(j)' <=> Dels(j))
    BY DEF Adds, Dels
  <1>4. AddsDue' /\ DelsDue' /\ AddBeforeDel'
    BY <1>1, <1>2 DEF Ledger, AddsDue, DelsDue, AddBeforeDel
  <1>5. Standing'
    BY <1>1, <1>3 DEF Ledger, Standing
  <1> QED BY <1>4, <1>5 DEF Ledger

LEMMA AddInv ==
  ASSUME Inv, NEW i \in Ids, NEW g \in Guids, Add(i, g)
  PROVE  Inv'
  <1>0. /\ prod[i] = "new" /\ prod' = [prod EXCEPT ![i] = "adding"] /\ gid' = [gid EXCEPT ![i] = g]
        /\ UNCHANGED <<db, wpc, cmds, keys, rds, out, started, spc, conn>> /\ wpc # "cmd"
    BY DEF Add, Locked, workVars, redisVars, stopVars
  <1>1. PICK o \in Op : o.op = "ADD" /\ o.id = i /\ o.guid = g /\ ops' = Append(ops, o)
    BY DEF Add, Op
  <1>2. ops' \in Seq(Op) /\ IsPush(ops, o, ops')
    BY <1>1, Push DEF Inv, StateOK
  <1>3. StateOK'
    BY <1>0, <1>2 DEF Inv, StateOK
  <1>4. wpc' # "abort" => Ledger'
    <2> SUFFICES ASSUME Ledger PROVE Ledger'
      BY <1>0 DEF Inv
    <2>1. prod'[i] = "adding" /\ gid'[i] = g /\ \A j \in Ids : j # i => prod'[j] = prod[j] /\ gid'[j] = gid[j]
      BY <1>0 DEF Inv, StateOK
    <2> QED BY <1>0, <1>1, <1>2, <2>1, PushLedger DEF Inv
  <1>5. RedisFollows'
    <2> SUFFICES ASSUME conn = "up", NEW h \in keys, NEW v \in Ids
                 PROVE  /\ WillHold(h, v)' => db[v] = h
                        /\ db[v] = h /\ (\A j \in Ids \ {v} : gid'[j] # h) => WillHold(h, v)'
      BY <1>0 DEF RedisFollows
    <2>1. WillHold(h, v)' <=> WillHold(h, v)
      BY <1>0 DEF WillHold
    <2>2. gid[i] = NoGuid /\ h \in Guids
      BY <1>0 DEF Inv, Mirror, StateOK, Ledger, Standing
    <2>3. \A j \in Ids : gid'[j] # h => gid[j] # h
      BY <1>0, <2>2, NoneAssumption DEF Inv, StateOK
    <2> QED BY <2>1, <2>3 DEF Inv, Mirror, RedisFollows
  <1>6. Mirror'
    BY <1>0, <1>5 DEF Inv, Mirror
  <1> QED BY <1>3, <1>4, <1>6 DEF Inv

LEMMA DelInv ==
  ASSUME Inv, NEW i \in Ids, Del(i)
  PROVE  Inv'
  <1>0. /\ prod[i] = "freed" /\ prod' = [prod EXCEPT ![i] = "deling"] /\ gid' = gid
        /\ UNCHANGED <<db, wpc, cmds, keys, rds, out, started, spc, conn>> /\ wpc # "cmd"
    BY DEF Del, Locked, workVars, redisVars, stopVars
  <1>1. PICK o \in Op : o.op = "DEL" /\ o.id = i /\ ops' = Append(ops, o)
    BY DEF Del, Op, Pushed
  <1>2. ops' \in Seq(Op) /\ IsPush(ops, o, ops')
    BY <1>1, Push DEF Inv, StateOK
  <1>3. StateOK'
    BY <1>0, <1>2 DEF Inv, StateOK
  <1>4. wpc' # "abort" => Ledger'
    <2> SUFFICES ASSUME Ledger PROVE Ledger'
      BY <1>0 DEF Inv
    <2>1. prod'[i] = "deling" /\ gid'[i] = gid[i] /\ \A j \in Ids : j # i => prod'[j] = prod[j] /\ gid'[j] = gid[j]
      BY <1>0 DEF Inv, StateOK
    <2> QED BY <1>0, <1>1, <1>2, <2>1, PushLedger DEF Inv
  <1>5. Mirror'
    BY <1>0, FollowsSame DEF Inv, Mirror
  <1> QED BY <1>3, <1>4, <1>5 DEF Inv

LEMMA NotifyInv ==
  ASSUME Inv, NEW i \in Ids, Notify(i)
  PROVE  Inv'
  <1>0. /\ UNCHANGED <<gid, ops, db, cmds, keys, rds, out, started, spc, conn>>
        /\ wpc' = IF wpc = "wait" THEN "woken" ELSE wpc
    BY DEF Notify, Wake, redisVars, stopVars
  <1>1. PICK p : /\ prod' = [prod EXCEPT ![i] = p]
                 /\ (prod[i] = "adding" /\ p = "added") \/ (prod[i] = "deling" /\ p = "gone")
    BY DEF Notify
  <1>2. StateOK'
    BY <1>0, <1>1 DEF Inv, StateOK
  <1>3. wpc' # "abort" => Ledger'
    BY <1>0, <1>1, CallLedger DEF Inv
  <1>4. Mirror'
    BY <1>0, FollowsSame DEF Inv, Mirror
  <1> QED BY <1>2, <1>3, <1>4 DEF Inv

LEMMA ReleaseInv ==
  ASSUME Inv, NEW i \in Ids, Release(i)
  PROVE  Inv'
  <1>0. /\ UNCHANGED <<gid, ops, db, wpc, cmds, keys, rds, out, started, spc, conn>>
        /\ prod[i] \in {"new", "added"} /\ prod' = [prod EXCEPT ![i] = "freed"]
    BY DEF Release, workVars, redisVars, stopVars
  <1>1. StateOK'
    BY <1>0 DEF Inv, StateOK
  <1>2. wpc' # "abort" => Ledger'
    BY <1>0, CallLedger DEF Inv
  <1>3. Mirror'
    BY <1>0, FollowsSame DEF Inv, Mirror
  <1> QED BY <1>1, <1>2, <1>3 DEF Inv

\* The worker applies an operation and sends nothing.
LEMMA WorkerApplyInv ==
  ASSUME Inv, WorkerApply
  PROVE  Inv'
  <1>0. PICK o : o = Head(ops)
    OBVIOUS
  <1>1. /\ wpc = "op" /\ ops # <<>> /\ UNCHANGED <<cmds, keys, rds, out, prod, gid, started, spc, conn>>
        /\ o \in Op /\ o.id \in Ids
    <2>1. wpc = "op" /\ ops # <<>> /\ UNCHANGED <<cmds, keys, rds, out, prod, gid, started, spc, conn>>
      BY DEF WorkerApply, redisVars, prodVars, stopVars
    <2>2. o \in Op
      BY <1>0, <2>1, Pop DEF Inv, StateOK
    <2> QED BY <2>1, <2>2 DEF Op
  <1>2. CASE IsConnected /\ (o.op = "ADD" \/ db[o.id] # NoGuid)
    <2>1. wpc' = "cmd" /\ UNCHANGED <<ops, db>>
      BY <1>0, <1>2 DEF WorkerApply
    <2>2. StateOK' /\ Mirror'
      BY <1>0, <1>1, <1>2, <2>1, FollowsSame DEF Inv, StateOK, Mirror, IsConnected
    <2>3. Ledger'
      BY <1>1, <2>1, LedgerSame DEF Inv
    <2> QED BY <2>2, <2>3 DEF Inv
  <1>3. CASE ~(IsConnected /\ (o.op = "ADD" \/ db[o.id] # NoGuid))
    <2>1. wpc' = "serial" /\ ops' = Tail(ops) /\ db' = Applied(o)
      BY <1>0, <1>3 DEF WorkerApply, AppliedOnly
    <2>2. Ledger'
      BY <1>0, <1>1, <2>1, PopLedger DEF Inv
    <2>3. db' = [db EXCEPT ![o.id] = IF o.op = "DEL" THEN NoGuid ELSE IF @ = NoGuid THEN o.guid ELSE @]
      BY <2>1 DEF Applied
    <2>4. StateOK'
      <3>1. ops' \in Seq(Op)
        BY <1>1, <2>1, Pop DEF Inv, StateOK
      <3> QED BY <1>1, <2>1, <2>3, <3>1 DEF Inv, StateOK, Op
    <2>5. RedisFollows'
      <3>1. CASE IsConnected
        <4>1. db' = db
          BY <1>1, <1>3, <2>3, <3>1 DEF Inv, StateOK, Op
        <4> QED BY <1>1, <4>1, FollowsSame DEF Inv, Mirror
      <3>2. CASE ~IsConnected
        BY <1>1, <3>2 DEF RedisFollows, IsConnected
      <3> QED BY <3>1, <3>2
    <2>6. Mirror'
      BY <1>1, <2>1, <2>5 DEF Inv, Mirror
    <2> QED BY <2>2, <2>4, <2>6 DEF Inv
  <1> QED BY <1>2, <1>3

LEMMA WorkerCommandInv ==
  ASSUME Inv, WorkerCommand
  PROVE  Inv'
  <1>0. PICK o : o = Head(ops)
    OBVIOUS
  <1>1. /\ wpc = "cmd" /\ UNCHANGED <<rds, out, prod, gid, started, spc, conn>>
        /\ db' = [db EXCEPT ![o.id] = IF o.op = "DEL" THEN NoGuid ELSE IF @ = NoGuid THEN o.guid ELSE @]
    BY <1>0 DEF WorkerCommand, prodVars, stopVars, Applied
  <1>2. ops # <<>> /\ Ledger
    BY <1>1 DEF Inv, Mirror
  <1>3. /\ o \in Op /\ ops[1] = o /\ 1 \in 1 .. Len(ops)
        /\ Tail(ops) \in Seq(Op)
    BY <1>0, <1>2, Pop, OpsFacts DEF Inv, StateOK, IsPop
  <1>4. /\ o.id \in Ids /\ o.op \in {"ADD", "DEL"} /\ o.guid \in Guids \cup {NoGuid}
    BY <1>3 DEF Op
  <1>5. /\ o.op = "ADD" => db[o.id] = NoGuid /\ o.guid \in Guids
        /\ o.op = "DEL" => db[o.id] # NoGuid /\ db[o.id] \in Guids
    BY <1>0, <1>1, <1>2, <1>3, <1>4 DEF Ledger, AddsDue, Inv, Mirror, StateOK
  <1>6. /\ db' \in [Ids -> Guids \cup {NoGuid}]
        /\ \A i \in Ids : i # o.id => db'[i] = db[i]
        /\ o.op = "ADD" => db'[o.id] = o.guid
    BY <1>1, <1>4, <1>5 DEF Inv, StateOK
  <1>7. ASSUME NEW c \in Cmd, IsPush(cmds, c, cmds'), cmds' \in Seq(Cmd), keys' = keys \cup {c.guid}, conn = "up",
               \/ o.op = "ADD" /\ c.guid = o.guid /\ c.id = o.id
               \/ o.op = "DEL" /\ c.guid = db[o.id] /\ c.id = NoId
        PROVE  RedisFollows'
    <2> SUFFICES ASSUME NEW g \in keys', NEW i \in Ids
                 PROVE  /\ WillHold(g, i)' => db'[i] = g
                        /\ db'[i] = g /\ (\A j \in Ids \ {i} : gid[j] # g) => WillHold(g, i)'
      BY <1>1 DEF RedisFollows
    <2>0. g \in Guids /\ c.guid \in Guids
      BY <1>7 DEF Cmd, Inv, StateOK
    <2>1. WillHold(g, i)' <=> IF g = c.guid THEN i = c.id ELSE WillHold(g, i)
      BY <1>1, <1>7, <2>0, PostHolds DEF Inv
    <2>2. g # c.guid => /\ WillHold(g, i) => db[i] = g
                        /\ db[i] = g /\ (\A j \in Ids \ {i} : gid[j] # g) => WillHold(g, i)
      BY <1>7 DEF Inv, Mirror, RedisFollows
    <2>3. CASE o.op = "ADD"
      <3>1. c.guid = o.guid /\ c.id = o.id /\ db'[o.id] = o.guid /\ db[o.id] = NoGuid /\ gid[o.id] = o.guid
        BY <1>2, <1>3, <1>4, <1>5, <1>6, <1>7, <2>3 DEF Ledger, AddsDue
      <3>2. CASE i = o.id
        BY <2>0, <2>1, <2>2, <3>1, <3>2, NoneAssumption
      <3>3. CASE i # o.id
        BY <1>4, <1>6, <2>1, <2>2, <3>1, <3>3
      <3> QED BY <3>2, <3>3
    <2>4. CASE o.op = "DEL"
      <3>1. c.guid = db[o.id] /\ c.id = NoId /\ db'[o.id] = NoGuid /\ gid[o.id] = c.guid
        BY <1>1, <1>2, <1>4, <1>5, <1>7, <2>4 DEF Ledger, Standing, Inv, StateOK
      <3>2. CASE i = o.id
        BY <2>0, <2>1, <2>2, <3>1, <3>2, NoneAssumption
      <3>3. CASE i # o.id
        BY <1>4, <1>6, <2>1, <2>2, <3>1, <3>3, NoneAssumption
      <3> QED BY <3>2, <3>3
    <2> QED BY <1>4, <2>3, <2>4
  <1>8. CASE IsConnected
    <2>1. wpc' = "serial" /\ Post(o) /\ ops' = Tail(ops)
      BY <1>0, <1>8 DEF WorkerCommand
    <2>2. Ledger'
      <3>1. db' = Applied(Head(ops))
        BY DEF WorkerCommand
      <3> QED BY <1>1, <1>2, <2>1, <3>1, PopLedger DEF Inv
    <2>3. PICK c : c = CommandOf(o)
      OBVIOUS
    <2>4. /\ c \in Cmd
          /\ \/ o.op = "ADD" /\ c.guid = o.guid /\ c.id = o.id
             \/ o.op = "DEL" /\ c.guid = db[o.id] /\ c.id = NoId
      BY <1>4, <1>5, <2>3 DEF CommandOf, Cmd
    <2>5. CASE conn = "up"
      <3>1. cmds' = Append(cmds, c) /\ keys' = keys \cup {c.guid}
        BY <2>1, <2>3, <2>5 DEF Post
      <3>2. cmds' \in Seq(Cmd) /\ IsPush(cmds, c, cmds')
        BY <2>4, <3>1, Push DEF Inv, StateOK
      <3>3. keys' \in SUBSET Guids
        BY <2>4, <3>1 DEF Inv, StateOK, Cmd
      <3>4. StateOK'
        BY <1>1, <1>3, <1>6, <2>1, <3>2, <3>3 DEF Inv, StateOK
      <3>5. RedisFollows'
        BY <1>7, <2>4, <2>5, <3>1, <3>2
      <3> QED BY <1>1, <2>1, <2>2, <2>5, <3>4, <3>5 DEF Inv, Mirror
    <2>6. CASE conn # "up"
      <3>1. UNCHANGED <<cmds, keys>>
        BY <2>1, <2>6 DEF Post
      <3>2. StateOK'
        BY <1>1, <1>3, <1>6, <2>1, <3>1 DEF Inv, StateOK
      <3> QED BY <1>1, <2>1, <2>2, <2>6, <3>1, <3>2 DEF Inv, Mirror, RedisFollows
    <2> QED BY <2>5, <2>6
  \* stop() has closed the connection: the assertion fails.
  <1>9. CASE ~IsConnected
    <2>1. wpc' = "abort" /\ UNCHANGED <<cmds, keys, ops>>
      BY <1>9 DEF WorkerCommand
    <2>2. conn = "closed"
      BY <1>1, <1>9 DEF Inv, Mirror, StateOK, IsConnected
    <2>3. StateOK'
      BY <1>1, <1>6, <2>1 DEF Inv, StateOK
    <2> QED BY <1>1, <2>1, <2>2, <2>3 DEF Inv, Mirror, RedisFollows
  <1> QED BY <1>8, <1>9

LEMMA ExecuteInv ==
  ASSUME Inv, RedisExecute
  PROVE  Inv'
  <1>0. /\ UNCHANGED <<keys, db, wpc, out, ops, prod, gid, started, spc, conn>>
        /\ cmds # <<>> /\ cmds' = Tail(cmds) /\ rds' = [rds EXCEPT ![Head(cmds).guid] = Head(cmds).id]
    BY DEF RedisExecute, prodVars, stopVars
  <1>1. cmds' \in Seq(Cmd) /\ Head(cmds) \in Cmd
    BY <1>0, Pop DEF Inv, StateOK
  <1>2. Head(cmds).id \in Ids \cup {NoId}
    BY <1>1 DEF Cmd
  <1>3. StateOK'
    BY <1>0, <1>1, <1>2 DEF Inv, StateOK
  <1>4. RedisFollows'
    <2>1. \A g \in Guids, v \in Ids : WillHold(g, v)' <=> WillHold(g, v)
      BY ExecuteHolds DEF Inv
    <2> QED BY <1>0, <2>1 DEF Inv, StateOK, Mirror, RedisFollows
  <1> QED BY <1>0, <1>3, <1>4, LedgerSame DEF Inv, Mirror

\* The other steps of the worker, of the connection and of stop().
LEMMA OtherInv ==
  ASSUME Inv, UNCHANGED <<ops, db, cmds, keys, rds, prod, gid>>,
         \/ /\ UNCHANGED <<started, spc, conn>> /\ wpc # "cmd" /\ wpc # "abort"
            /\ wpc' \in {"test", "op", "wait", "woken", "serial", "exit", "overrun"}
         \/ RedisConnected \/ RedisAuth \/ RedisLost \/ StopFlag \/ StopDisconnect \/ StopNotify
  PROVE  Inv'
  <1>1. CASE /\ UNCHANGED <<started, spc, conn>> /\ wpc # "cmd" /\ wpc # "abort"
             /\ wpc' \in {"test", "op", "wait", "woken", "serial", "exit", "overrun"}
    <2>1. StateOK' /\ Mirror'
      BY <1>1, FollowsSame DEF Inv, StateOK, Mirror
    <2> QED BY <1>1, <2>1, LedgerSame DEF Inv
  <1>2. CASE RedisConnected \/ RedisAuth \/ RedisLost \/ StopFlag \/ StopDisconnect \/ StopNotify
    <2>1. (wpc' = wpc) \/ (wpc = "wait" /\ wpc' = "woken")
      BY <1>2 DEF RedisConnected, RedisAuth, RedisLost, StopFlag, StopDisconnect, StopNotify, Wake, workVars
    <2>2. \/ UNCHANGED conn
          \/ conn \in {"none", "unauthenticated"} /\ conn' \in {"unauthenticated", "up", "deaf"}
          \/ conn' \in {"deaf", "closed"} /\ (conn # "closed" \/ conn' = "closed")
      BY <1>2 DEF RedisConnected, RedisAuth, RedisLost, StopFlag, StopDisconnect, StopNotify
    <2>3. started' \in BOOLEAN /\ spc' \in {"run", "flagged", "closed", "done"}
      BY <1>2 DEF RedisConnected, RedisAuth, RedisLost, StopFlag, StopDisconnect, StopNotify, Inv, StateOK
    <2>4. StateOK'
      BY <2>1, <2>2, <2>3 DEF Inv, StateOK
    <2>5. RedisFollows'
      BY <2>2, FollowsSame DEF Inv, Mirror
    <2>6. Mirror'
      BY <2>1, <2>2, <2>5 DEF Inv, Mirror
    <2> QED BY <2>1, <2>4, <2>6, LedgerSame DEF Inv
  <1> QED BY <1>1, <1>2

LEMMA StepInv == Inv /\ [Next]_vars => Inv'
  <1> SUFFICES ASSUME Inv, [Next]_vars PROVE Inv'
    OBVIOUS
  <1>1. CASE UNCHANGED vars
    <2>1. StateOK' /\ Mirror'
      BY <1>1, FollowsSame DEF vars, redisVars, Inv, StateOK, Mirror
    <2> QED BY <1>1, <2>1, LedgerSame DEF vars, Inv
  <1>2. ASSUME NEW i \in Ids, Session(i)
        PROVE  Inv'
    BY <1>2, AddInv, NotifyInv, ReleaseInv, DelInv DEF Session
  <1>3. CASE WorkerTest \/ WorkerWait \/ WorkerWoken \/ WorkerSpurious
    BY <1>3, OtherInv DEF WorkerTest, WorkerWait, WorkerWoken, WorkerSpurious, redisVars, prodVars, stopVars
  <1>4. CASE WorkerSerial
    BY <1>4, OtherInv DEF WorkerSerial, redisVars, prodVars, stopVars
  <1>5. CASE WorkerApply \/ WorkerCommand
    BY <1>5, WorkerApplyInv, WorkerCommandInv
  <1>6. CASE RedisConnected \/ RedisAuth \/ RedisLost \/ StopFlag \/ StopDisconnect \/ StopNotify
    <2>1. UNCHANGED <<ops, db, cmds, keys, rds, prod, gid>>
      BY <1>6 DEF RedisConnected, RedisAuth, RedisLost, StopFlag, StopDisconnect, StopNotify,
                  prodVars, workVars, redisVars
    <2> QED BY <1>6, <2>1, OtherInv
  <1> QED BY <1>1, <1>2, <1>3, <1>4, <1>5, <1>6, ExecuteInv DEF Next, Worker, Stop, Redis

\* The inductive invariant: for every session, where it stands, what the queue
\* holds and what _db holds belong together.
THEOREM Invariance == Spec => []Inv
  BY InitInv, StepInv, PTL DEF Spec

\* While the connection lasts, the commands posted bring the keys they are about in
\* line with _db, whatever Redis held when the server started.
THEOREM MirrorFollows == Spec => []RedisFollows
  <1>1. Inv => RedisFollows
    BY DEF Inv, Mirror
  <1> QED BY <1>1, Invariance, PTL

\* The queue and _db together always amount to the registered sessions: no
\* operation is lost, applied twice or overtaken.
THEOREM QueueIsSound == Spec => []QueueSound
  <1>1. Inv => QueueSound
    <2> SUFFICES ASSUME Inv, wpc # "abort", NEW i \in Ids
                 PROVE  WillBeEntered(i) <=>
                          prod[i] \in {"adding", "added"} \/ (prod[i] = "freed" /\ gid[i] # NoGuid)
      BY DEF QueueSound
    <2>1. Ledger /\ StateOK /\ Len(ops) \in Nat /\ DOMAIN ops = 1 .. Len(ops)
      BY OpsFacts, LenProperties DEF Inv, StateOK
    <2>2. \A k \in Queued(i) : k \in 1 .. Len(ops) /\ ops[k].id = i /\ ops[k].op \in {"ADD", "DEL"}
      BY <2>1, OpsFacts DEF Queued, Op
    <2>3. \A k \in 1 .. Len(ops) : ops[k].id = i => k \in Queued(i)
      BY <2>1 DEF Queued
    <2>4. prod[i] \in {"new", "adding", "added", "freed", "deling", "gone"}
      BY <2>1 DEF StateOK
    <2>5. CASE Queued(i) = {}
      <3>1. ~Adds(i) /\ ~Dels(i)
        BY <2>3, <2>5 DEF Adds, Dels
      <3> QED BY <2>1, <2>4, <2>5, <3>1 DEF WillBeEntered, Ledger, Standing
    <2>6. CASE Dels(i)
      <3>1. PICK k \in 1 .. Len(ops) : ops[k].id = i /\ ops[k].op = "DEL"
        BY <2>6 DEF Dels
      <3>2. prod[i] \in {"deling", "gone"}
        BY <2>1, <3>1 DEF Ledger, DelsDue
      <3>3. ~(\E j \in Queued(i) : ops[j].op = "ADD" /\ \A m \in Queued(i) : m <= j)
        <4> SUFFICES ASSUME NEW j \in Queued(i), ops[j].op = "ADD", \A m \in Queued(i) : m <= j
                     PROVE  FALSE
          OBVIOUS
        <4>1. k < j /\ j \in 1 .. Len(ops) /\ ops[j].id = ops[k].id
          BY <2>1, <2>2, <2>3, <3>1
        <4> QED BY <2>1, <3>1, <4>1 DEF Ledger, AddBeforeDel
      <3> QED BY <2>3, <3>1, <3>2, <3>3 DEF WillBeEntered
    <2>7. CASE Queued(i) # {} /\ ~Dels(i)
      <3>1. PICK k \in Queued(i) : TRUE
        BY <2>7
      <3>2. \A j \in Queued(i) : ops[j].op = "ADD"
        BY <2>2, <2>7 DEF Dels
      <3>3. \A j \in Queued(i) : j = k
        <4> SUFFICES ASSUME NEW j \in Queued(i), j # k PROVE FALSE
          OBVIOUS
        <4>1. j \in 1 .. Len(ops) /\ k \in 1 .. Len(ops) /\ ops[j].id = ops[k].id /\ (j < k \/ k < j)
          BY <2>1, <2>2
        <4> QED BY <2>1, <3>2, <4>1 DEF Ledger, AddBeforeDel
      <3>4. WillBeEntered(i)
        BY <2>2, <2>7, <3>2, <3>3 DEF WillBeEntered
      <3>5. Adds(i) /\ gid[i] # NoGuid /\ prod[i] # "new"
        BY <2>1, <2>2, <3>1, <3>2, NoneAssumption DEF Adds, Ledger, AddsDue
      <3>6. prod[i] \notin {"deling", "gone"}
        BY <2>1, <2>7, <3>5 DEF Ledger, Standing
      <3> QED BY <2>4, <3>4, <3>5, <3>6
    <2> QED BY <2>5, <2>6, <2>7
  <1> QED BY <1>1, Invariance, PTL
-----------------------------------------------------------------------------
(***************************************************************************)
(* The listing.  The loop of serial() always ends, and it stops early only *)
(* when the buffer is full.                                                *)
(***************************************************************************)

\* Every non-empty set of naturals has a least element.
LEMMA LeastNatural ==
  ASSUME NEW T, T \subseteq Nat, T # {}
  PROVE  \E n \in T : \A m \in T : n <= m
  <1>1. PICK n \in T : \A m \in T : <<m, n>> \notin OpToRel(<, Nat)
    BY NatLessThanWellFounded, WFMin
  <1>2. \A m \in T : ~(m < n)
    BY <1>1 DEF OpToRel
  <1> QED BY <1>2

LEMMA WrittenType ==
  ASSUME NEW k \in Nat
  PROVE  Written(k) \in 0 .. k /\ ~More(Written(k), k)
  <1> DEFINE T == {n \in 0 .. k : ~More(n, k)}
  <1>1. k \in T
    BY DEF More
  <1>2. T \subseteq Nat /\ T # {}
    BY <1>1
  <1> HIDE DEF T
  <1>3. PICK n \in T : \A m \in T : n <= m
    BY <1>2, LeastNatural
  <1>4. n \in 0 .. k /\ ~More(n, k)
    BY <1>3 DEF T
  <1>5. \A m \in 0 .. (n - 1) : More(m, k)
    BY <1>3, <1>4 DEF T
  <1>6. \E j \in 0 .. k : ~More(j, k) /\ \A m \in 0 .. (j - 1) : More(m, k)
    BY <1>4, <1>5
  <1> QED BY <1>6 DEF Written

\* The bytes of fewer entries than the buffer holds leave room for the count.
LEMMA Room ==
  ASSUME NEW n \in Nat, n < Capacity
  PROVE  EntrySize * n \in Nat /\ EntrySize * n + EntrySize <= MaxLength
  <1>1. Capacity \in Nat /\ EntrySize * Capacity <= MaxLength
    BY SizeAssumption DEF Capacity
  <1>2. EntrySize * (n + 1) <= EntrySize * Capacity
    BY <1>1, SizeAssumption
  <1>3. EntrySize * (n + 1) = EntrySize * n + EntrySize /\ EntrySize * n \in Nat
    BY SizeAssumption
  <1> QED BY <1>1, <1>2, <1>3, SizeAssumption

\* The loop goes on while there are entries and room for another.
LEMMA LoopGoesOn ==
  ASSUME NEW k \in Nat, NEW n \in Nat, n < k, n < Capacity
  PROVE  More(n, k)
  <1>1. 1 + EntrySize * n < MaxLength
    BY Room, SizeAssumption
  <1>2. n % CountMod < Capacity
    BY CountAssumption, SizeAssumption DEF Capacity
  <1> QED BY <1>1, <1>2 DEF More

\* All of the entries are written, or as many as there is room for.
LEMMA AllWritten ==
  ASSUME NEW k \in Nat
  PROVE  /\ Written(k) \in Nat /\ Written(k) <= k
         /\ Written(k) = k \/ Written(k) >= Capacity
  <1>1. Written(k) \in 0 .. k /\ ~More(Written(k), k)
    BY WrittenType
  <1>2. Capacity \in Nat
    BY SizeAssumption DEF Capacity
  <1> QED BY <1>1, <1>2, LoopGoesOn

\* They overrun the buffer exactly when there are Capacity of them.
LEMMA Overrun ==
  ASSUME NEW n \in Nat
  PROVE  1 + EntrySize * n < MaxLength <=> n < Capacity
  <1>1. CASE n < Capacity
    BY <1>1, Room, SizeAssumption
  <1>2. CASE n >= Capacity
    <2>1. Capacity \in Nat /\ EntrySize * Capacity = MaxLength
      BY SizeAssumption DEF Capacity
    <2>2. EntrySize * Capacity <= EntrySize * n
      BY <1>2, <2>1, SizeAssumption
    <2> QED BY <1>2, <2>1, <2>2, SizeAssumption
  <1>3. Capacity \in Nat
    BY SizeAssumption DEF Capacity
  <1> QED BY <1>1, <1>2, <1>3

LEMMA EnteredFinite == IsFiniteSet(Entered) /\ Cardinality(Entered) \in Nat /\ Cardinality(Entered) <= Cardinality(Ids)
  BY FiniteAssumption, FS_Subset, FS_CardinalityType DEF Entered

OutOK == out \in [ids : SUBSET Ids, count : Nat, len : Nat]

LEMMA SerialType == ASSUME WorkerSerial, OutOK PROVE OutOK'
  <1> DEFINE n == Written(Cardinality(Entered))
  <1>1. n \in Nat
    BY EnteredFinite, AllWritten
  <1>2. n % CountMod \in Nat /\ 1 + EntrySize * n \in Nat
    BY <1>1, SizeAssumption
  <1>3. \/ UNCHANGED out
        \/ \E S \in SUBSET Entered : out' = [ids |-> S, count |-> n % CountMod, len |-> 1 + EntrySize * n]
    BY DEF WorkerSerial
  <1> QED BY <1>2, <1>3 DEF OutOK, Entered

LEMMA SerialFits == ASSUME WorkerSerial PROVE ListingFits'
  <1> DEFINE k == Cardinality(Entered)
             n == Written(k)
  <1>0. k \in Nat /\ n \in Nat /\ n <= k /\ (n = k \/ n >= Capacity) /\ Capacity \in Nat
    BY EnteredFinite, AllWritten, SizeAssumption DEF Capacity
  <1>1. db' = db /\ Entered' = Entered
    BY DEF WorkerSerial, Entered
  <1>2. CASE 1 + EntrySize * n < MaxLength
    <2>1. n < Capacity /\ n = k
      BY <1>0, <1>2, Overrun
    <2>2. /\ wpc' = "test"
          /\ \E S \in SUBSET Entered : /\ Cardinality(S) = n
                                      /\ out' = [ids |-> S, count |-> n % CountMod, len |-> 1 + EntrySize * n]
      BY <1>2 DEF WorkerSerial
    <2>3. PICK S \in SUBSET Entered : /\ Cardinality(S) = n
                                      /\ out' = [ids |-> S, count |-> n % CountMod, len |-> 1 + EntrySize * n]
      BY <2>2
    <2>4. S = Entered
      BY <2>1, <2>3, EnteredFinite, FS_Subset
    <2>5. n % CountMod = n
      BY <1>0, <2>1, CountAssumption, SizeAssumption DEF Capacity
    <2> QED BY <1>1, <1>2, <2>1, <2>2, <2>3, <2>4, <2>5 DEF ListingFits
  <1>3. CASE ~(1 + EntrySize * n < MaxLength)
    <2>1. n >= Capacity
      BY <1>0, <1>3, Overrun
    <2>2. wpc' = "overrun"
      BY <1>3 DEF WorkerSerial
    <2> QED BY <1>0, <1>1, <2>1, <2>2 DEF ListingFits
  <1> QED BY <1>2, <1>3

\* Only serial() writes the listing.
LEMMA OutNext == [Next]_vars => WorkerSerial \/ UNCHANGED out
  BY DEF Next, vars, Session, Add, Notify, Release, Del, Worker, WorkerTest, WorkerWait, WorkerWoken, WorkerApply,
         WorkerCommand, WorkerSpurious, Redis, RedisConnected, RedisAuth, RedisLost, RedisExecute,
         Stop, StopFlag, StopDisconnect, StopNotify, workVars

\* Once an operation has changed _db, serial() comes next.
LEMMA ListedNext ==
  [Next]_vars => \/ WorkerSerial
                 \/ wpc' \in {"serial", "abort"}
                 \/ UNCHANGED db /\ wpc \notin {"serial", "abort"} /\ (wpc' = "overrun" <=> wpc = "overrun")
  <1> SUFFICES ASSUME [Next]_vars
               PROVE  \/ WorkerSerial
                      \/ wpc' \in {"serial", "abort"}
                      \/ UNCHANGED db /\ wpc \notin {"serial", "abort"} /\ (wpc' = "overrun" <=> wpc = "overrun")
    OBVIOUS
  <1>1. ASSUME NEW i \in Ids, Session(i) PROVE UNCHANGED db /\ (wpc' = wpc \/ (wpc = "wait" /\ wpc' = "woken"))
    BY <1>1 DEF Session, Add, Notify, Wake, Release, Del, workVars
  <1>2. CASE WorkerTest \/ WorkerWait \/ WorkerWoken \/ WorkerSpurious
    BY <1>2 DEF WorkerTest, WorkerWait, WorkerWoken, WorkerSpurious
  <1>3. CASE WorkerApply \/ WorkerCommand
    BY <1>3 DEF WorkerApply, AppliedOnly, WorkerCommand
  <1>4. CASE Redis \/ Stop
    <2>1. UNCHANGED db /\ (wpc' = wpc \/ (wpc = "wait" /\ wpc' = "woken"))
      BY <1>4 DEF Redis, RedisConnected, RedisAuth, RedisLost, RedisExecute, Stop, StopFlag, StopDisconnect,
                  StopNotify, Wake, workVars
    <2> QED BY <2>1
  <1>5. CASE UNCHANGED vars
    BY <1>5 DEF vars
  <1> QED BY <1>1, <1>2, <1>3, <1>4, <1>5 DEF Next, Worker

\* Type correctness of the directory, the listing included: serial() terminates.
THEOREM TypeCorrect == Spec => []TypeOK
  <1>1. Init => OutOK
    BY DEF Init, OutOK
  <1>2. OutOK /\ [Next]_vars => OutOK'
    BY SerialType, OutNext DEF OutOK
  <1>3. Inv /\ OutOK => TypeOK
    BY DEF Inv, OutOK, TypeOK
  <1> QED BY <1>1, <1>2, <1>3, Invariance, PTL DEF Spec

\* The listing is _db, except for the operation in hand, with the right count and
\* inside the buffer; the buffer is overrun only when Capacity sessions are entered
\* at once.
THEOREM ListingIsDirectory == Spec => []ListingFits
  <1>1. Init => ListingFits
    <2>1. Init => Entered = {} /\ wpc = "test" /\ out = [ids |-> {}, count |-> 0, len |-> 0]
      BY DEF Init, Entered
    <2> QED BY <2>1, FS_EmptySet, SizeAssumption DEF ListingFits
  <1>2. ListingFits /\ [Next]_vars => ListingFits'
    <2> SUFFICES ASSUME ListingFits, [Next]_vars PROVE ListingFits'
      OBVIOUS
    <2>1. CASE WorkerSerial
      BY <2>1, SerialFits
    <2>2. CASE wpc' \in {"serial", "abort"}
      BY <2>2 DEF ListingFits
    <2>3. CASE UNCHANGED <<db, out>> /\ wpc \notin {"serial", "abort"} /\ (wpc' = "overrun" <=> wpc = "overrun")
      <3>1. Entered' = Entered
        BY <2>3 DEF Entered
      <3> QED BY <2>3, <3>1 DEF ListingFits
    <2> QED BY <2>1, <2>2, <2>3, OutNext, ListedNext
  <1> QED BY <1>1, <1>2, PTL DEF Spec

\* What is queued while the worker sleeps has its notification still to come.
Announced == wpc = "wait" => \A k \in 1 .. Len(ops) : prod[ops[k].id] \in {"adding", "deling"}

LEMMA QueuedAnnounced ==
  ASSUME StateOK, Announced, NEW o \in Op, ops' = Append(ops, o), wpc' = wpc,
         NEW p \in {"adding", "deling"}, prod' = [prod EXCEPT ![o.id] = p]
  PROVE  Announced'
  <1> SUFFICES ASSUME wpc = "wait", NEW k \in 1 .. Len(ops') PROVE prod'[ops'[k].id] \in {"adding", "deling"}
    BY DEF Announced
  <1>1. ops \in Seq(Op) /\ Len(ops) \in Nat /\ prod \in [Ids -> {"new", "adding", "added", "freed", "deling", "gone"}]
    BY LenProperties DEF StateOK
  <1>2. Len(ops') = Len(ops) + 1 /\ ops'[Len(ops) + 1] = o /\ \A j \in 1 .. Len(ops) : ops'[j] = ops[j]
    BY <1>1, AppendProperties
  <1>3. CASE k = Len(ops) + 1
    BY <1>1, <1>2, <1>3 DEF Op
  <1>4. CASE k \in 1 .. Len(ops)
    <2>1. ops'[k] = ops[k] /\ ops[k].id \in Ids /\ prod[ops[k].id] \in {"adding", "deling"}
      BY <1>1, <1>2, <1>4, OpsFacts DEF Announced, Op
    <2> QED BY <1>1, <2>1
  <1> QED BY <1>1, <1>2, <1>3, <1>4

LEMMA AnnouncedNext == StateOK /\ Announced /\ [Next]_vars => Announced'
  <1> SUFFICES ASSUME StateOK, Announced, [Next]_vars PROVE Announced'
    OBVIOUS
  <1>1. ASSUME NEW i \in Ids, NEW g \in Guids, Add(i, g) PROVE Announced'
    <2>1. [op |-> "ADD", id |-> i, guid |-> g] \in Op
      BY DEF Op
    <2> QED BY <1>1, <2>1, QueuedAnnounced DEF Add, workVars
  <1>2. ASSUME NEW i \in Ids, Del(i) PROVE Announced'
    <2>1. [op |-> "DEL", id |-> i, guid |-> NoGuid] \in Op
      BY DEF Op
    <2> QED BY <1>2, <2>1, QueuedAnnounced DEF Del, Pushed, workVars
  <1>3. ASSUME NEW i \in Ids, Notify(i) PROVE Announced'
    BY <1>3 DEF Notify, Wake, Announced
  <1>4. ASSUME NEW i \in Ids, Release(i) PROVE Announced'
    <2>1. wpc' = wpc /\ ops' = ops /\ \A j \in Ids : prod[j] \in {"adding", "deling"} => prod'[j] = prod[j]
      BY <1>4 DEF Release, workVars, StateOK
    <2> QED BY <2>1, OpsFacts DEF Announced, StateOK, Op
  <1>5. CASE WorkerWait
    <2>1. ops' = <<>>
      BY <1>5 DEF WorkerWait
    <2> QED BY <2>1 DEF Announced
  <1>6. CASE WorkerTest \/ WorkerWoken \/ WorkerApply \/ WorkerCommand \/ WorkerSerial \/ WorkerSpurious
    <2>1. wpc' # "wait"
      BY <1>6 DEF WorkerTest, WorkerWoken, WorkerApply, AppliedOnly, WorkerCommand, WorkerSerial, WorkerSpurious
    <2> QED BY <2>1 DEF Announced
  <1>7. CASE Redis \/ Stop \/ UNCHANGED vars
    <2>1. UNCHANGED <<ops, prod>> /\ (wpc' = wpc \/ wpc' = "woken")
      BY <1>7 DEF Redis, RedisConnected, RedisAuth, RedisLost, RedisExecute, Stop, StopFlag, StopDisconnect,
                  StopNotify, Wake, workVars, prodVars, vars
    <2> QED BY <2>1 DEF Announced
  <1> QED BY <1>1, <1>2, <1>3, <1>4, <1>5, <1>6, <1>7 DEF Next, Session, Worker

\* No wake-up is lost between the queue, the condition variable and the sessions
\* that notify it without the lock: a worker that sleeps with nobody about to wake
\* it has published just the registered sessions.
THEOREM WorkerIsUpToDate == Spec => []UpToDate
  <1>1. Init => Announced
    BY DEF Init, Announced
  <1>2. StateOK /\ Announced /\ QueueSound /\ ListingFits => UpToDate
    <2> SUFFICES ASSUME StateOK, Announced, QueueSound, ListingFits, wpc = "wait",
                        \A i \in Ids : prod[i] \notin {"adding", "deling"}
                 PROVE  /\ ops = <<>>
                        /\ out.ids = {i \in Ids : prod[i] = "added" \/ (prod[i] = "freed" /\ gid[i] # NoGuid)}
      BY DEF UpToDate
    <2>1. \A k \in 1 .. Len(ops) : FALSE
      BY OpsFacts DEF Announced, StateOK, Op
    <2>2. ops = <<>>
      <3>1. ops \in Seq(Op) /\ Len(ops) \in Nat
        BY LenProperties DEF StateOK
      <3>2. Len(ops) = 0
        BY <2>1, <3>1
      <3> QED BY <3>1, <3>2, EmptySeq
    <2>3. ASSUME NEW i \in Ids PROVE WillBeEntered(i) <=> db[i] # NoGuid
      BY <2>2 DEF WillBeEntered, Queued
    <2>4. out.ids = Entered
      BY DEF ListingFits
    <2>5. ASSUME NEW i \in Ids
          PROVE  db[i] # NoGuid <=> prod[i] = "added" \/ (prod[i] = "freed" /\ gid[i] # NoGuid)
      BY <2>3 DEF QueueSound
    <2> QED BY <2>2, <2>4, <2>5 DEF Entered
  <1>3. Inv => StateOK
    BY DEF Inv
  <1> QED BY <1>1, <1>2, <1>3, AnnouncedNext, Invariance, QueueIsSound, ListingIsDirectory, PTL DEF Spec
-----------------------------------------------------------------------------
(***************************************************************************)
(* The sessions of this module stand for CSessionMgr.  What they may do is *)
(* exactly what Registrar allows, which is what CSessionMgr is proved to   *)
(* keep to (NatProxyProofs).                                               *)
(***************************************************************************)

Publishing == {i \in Ids : prod[i] \in {"adding", "added"}}

Reg == INSTANCE Registrar WITH
    holds <- {<<i, gid[i]>> : i \in Publishing},
    closing <- {i \in Ids : prod[i] = "freed" /\ gid[i] # NoGuid},
    spent <- {i \in Ids : prod[i] # "new"}

\* The directory allows every add() that Registrar allows, when the queue is
\* not locked.
LEMMA AddsAllowed ==
  ASSUME NEW i \in Ids, NEW g \in Guids
  PROVE  Reg!MayAdd(i, g) <=> prod[i] = "new" /\ g \notin Taken
  <1> DEFINE Holds == {<<j, gid[j]>> : j \in Publishing}
  <1>1. (\A h \in Holds : h[2] # g) <=> (\A j \in Publishing : gid[j] # g)
    <2>1. ASSUME \A h \in Holds : h[2] # g, NEW j \in Publishing PROVE gid[j] # g
      <3>1. PICK h \in Holds : h = <<j, gid[j]>>
        OBVIOUS
      <3>2. h[2] = gid[j]
        BY <3>1
      <3> HIDE DEF Holds
      <3> QED BY <2>1, <3>2
    <2>2. ASSUME \A j \in Publishing : gid[j] # g, NEW h \in Holds PROVE h[2] # g
      <3>1. PICK j \in Publishing : h = <<j, gid[j]>>
        OBVIOUS
      <3> QED BY <2>2, <3>1
    <2> QED BY <2>1, <2>2
  <1>2. g \notin Taken <=> (\A j \in Publishing : gid[j] # g)
    BY DEF Taken, Publishing
  <1>3. i \notin {j \in Ids : prod[j] # "new"} <=> prod[i] = "new"
    OBVIOUS
  <1> QED BY <1>1, <1>2, <1>3 DEF Reg!MayAdd

\* A session gets its guid when it is published, and nobody else has it then.
GuidsApart ==
    /\ \A i \in Ids : prod[i] = "new" => gid[i] = NoGuid
    /\ \A i \in Publishing : gid[i] \in Guids
    /\ \A i, j \in Publishing : i # j => gid[i] # gid[j]

\* The other steps leave prod and gid alone.
LEMMA SessionsOnly == [Next]_vars => (\E i \in Ids : Session(i)) \/ UNCHANGED <<prod, gid>>
  BY DEF Next, vars, Worker, WorkerTest, WorkerWait, WorkerWoken, WorkerApply, WorkerCommand, WorkerSerial,
         WorkerSpurious, Redis, RedisConnected, RedisAuth, RedisLost, RedisExecute,
         Stop, StopFlag, StopDisconnect, StopNotify, prodVars

LEMMA ApartNext == Inv /\ GuidsApart /\ [Next]_vars => GuidsApart'
  <1> SUFFICES ASSUME Inv, GuidsApart, [Next]_vars PROVE GuidsApart'
    OBVIOUS
  <1> USE DEF Inv, StateOK, GuidsApart, Publishing
  <1>1. ASSUME NEW i \in Ids, NEW g \in Guids, Add(i, g) PROVE GuidsApart'
    BY <1>1 DEF Add, Taken
  <1>2. ASSUME NEW i \in Ids, Notify(i) \/ Release(i) \/ Del(i) PROVE GuidsApart'
    BY <1>2 DEF Notify, Release, Del
  <1>3. CASE UNCHANGED <<prod, gid>>
    BY <1>3
  <1> QED BY <1>1, <1>2, <1>3, SessionsOnly DEF Session

LEMMA RegNext == Inv /\ GuidsApart /\ [Next]_vars => [Reg!Next]_(Reg!vars)
  <1> SUFFICES ASSUME Inv, GuidsApart, [Next]_vars PROVE Reg!Next \/ UNCHANGED Reg!vars
    OBVIOUS
  <1> USE DEF Inv, StateOK, Publishing, Reg!vars
  <1>1. ASSUME NEW i \in Ids, NEW g \in Guids, Add(i, g) PROVE Reg!Next
    <2>1. prod[i] = "new" /\ prod' = [prod EXCEPT ![i] = "adding"] /\ gid' = [gid EXCEPT ![i] = g] /\ g \notin Taken
      BY <1>1 DEF Add
    <2>2. Reg!MayAdd(i, g)
      BY <2>1, AddsAllowed
    <2>3. Reg!Add(i, g)
      BY <2>1, <2>2 DEF Reg!Add
    <2> QED BY <2>3 DEF Reg!Next
  <1>2. ASSUME NEW i \in Ids, Notify(i) PROVE UNCHANGED Reg!vars
    BY <1>2 DEF Notify
  <1>3. ASSUME NEW i \in Ids, Release(i) PROVE Reg!Next \/ UNCHANGED Reg!vars
    <2>1. prod[i] \in {"new", "added"} /\ prod' = [prod EXCEPT ![i] = "freed"] /\ gid' = gid
      BY <1>3 DEF Release
    <2>2. CASE prod[i] = "new"
      <3>1. gid[i] = NoGuid
        BY <2>2 DEF GuidsApart
      <3>2. Reg!Retire(i)
        BY <2>1, <2>2, <3>1 DEF Reg!Retire
      <3> QED BY <3>2 DEF Reg!Next
    <2>3. CASE prod[i] = "added"
      <3>1. PICK g \in Guids : g = gid[i]
        BY <2>3 DEF GuidsApart
      <3>2. \A j \in Publishing : j # i => gid[j] # g
        BY <2>3, <3>1 DEF GuidsApart
      <3>3. Reg!Release(i, g)
        BY <2>1, <2>3, <3>1, <3>2, NoneAssumption DEF Reg!Release
      <3> QED BY <3>3 DEF Reg!Next
    <2> QED BY <2>1, <2>2, <2>3
  <1>4. ASSUME NEW i \in Ids, Del(i) PROVE Reg!Next \/ UNCHANGED Reg!vars
    <2>1. prod[i] = "freed" /\ prod' = [prod EXCEPT ![i] = "deling"] /\ gid' = gid
      BY <1>4 DEF Del
    <2>2. CASE gid[i] = NoGuid
      BY <2>1, <2>2
    <2>3. CASE gid[i] # NoGuid
      <3>1. Reg!Del(i)
        BY <2>1, <2>3 DEF Reg!Del
      <3> QED BY <3>1 DEF Reg!Next
    <2> QED BY <2>2, <2>3
  <1>5. CASE UNCHANGED <<prod, gid>>
    BY <1>5
  <1> QED BY <1>1, <1>2, <1>3, <1>4, <1>5, SessionsOnly DEF Session

\* The sessions that the directory is modelled with keep to Registrar: with
\* AddsAllowed, the directory assumes of CSessionMgr what it is proved to promise.
THEOREM SessionsAreRegistrar == Spec => Reg!Spec
  <1>1. Init => Reg!Init /\ GuidsApart
    BY DEF Init, Reg!Init, GuidsApart, Publishing
  <1> QED BY <1>1, Invariance, ApartNext, RegNext, PTL DEF Spec, Reg!Spec
=============================================================================
