----------------------------- MODULE SessionDb -----------------------------
(***************************************************************************)
(* CSessionDb: the directory of registered sessions.  Session threads queue*)
(* ADD and DEL operations under _op_mutex; one worker thread applies them  *)
(* to _db, mirrors them to Redis and publishes the listing that answers    *)
(* GETPROXIES.  stop() is called from the thread that handles signals.     *)
(*                                                                         *)
(* The sessions appear as CSessionMgr drives the directory: add on login,  *)
(* and on close the guid is released first and the DEL queued after it.    *)
(*                                                                         *)
(* Redis outlives the server: it starts with whatever hashes an earlier    *)
(* process has left, and nobody clears them.  A command is only posted and *)
(* executed later; RedisClient models what happens in between.             *)
(***************************************************************************)
EXTENDS Integers, Sequences, FiniteSets

CONSTANTS
    Ids,            \* the session ids handed out, each to one session
    Guids,          \* identities
    NoGuid, NoId,   \* absence of either
    OldHashes,      \* what an earlier process may have left under a key of Redis
    MaxLength,      \* size of the buffer _buff
    EntrySize,      \* bytes of one entry of the listing
    CountMod        \* the count byte is kept modulo CountMod (256 in C++)

ASSUME NoneAssumption == NoGuid \notin Guids /\ NoId \notin Ids
ASSUME OldAssumption == OldHashes \subseteq Ids \cup {NoId}
\* 2048 bytes are 256 entries of 8 bytes each.
ASSUME SizeAssumption ==
    /\ MaxLength \in Nat \ {0} /\ EntrySize \in Nat \ {0, 1} /\ CountMod \in Nat \ {0}
    /\ MaxLength % EntrySize = 0
\* The count byte can count a full buffer less one entry (255).
ASSUME CountAssumption == MaxLength \div EntrySize <= CountMod
\* Ids are 32-bit numbers.
ASSUME FiniteAssumption == IsFiniteSet(Ids)

VARIABLES
    prod,       \* progress of each session through its calls to the directory
    gid,        \* the guid a session logged in with (NoGuid: not registered)
    ops,        \* _op_stack, consumed from the front
    db,         \* _db: guid under which an id is entered
    wpc,        \* control point of the worker thread
    started,    \* _started
    spc,        \* progress of stop()
    conn,       \* the Redis connection, see IsConnected
    cmds,       \* commands posted that Redis is still to execute
    keys,       \* history: the guids whose keys Redis has been or will be told to change
    rds,        \* Redis: the id stored under each guid's key
    out         \* _out_buff: ids listed, count byte, length

redisVars == <<cmds, keys, rds>>
vars == <<prod, gid, ops, db, wpc, started, spc, conn, redisVars, out>>
prodVars == <<prod, gid>>
workVars == <<db, wpc, redisVars, out>>
stopVars == <<started, spc, conn>>

Op == [op : {"ADD", "DEL"}, id : Ids, guid : Guids \cup {NoGuid}]

\* HMSET of a guid's key to an id, or, with NoId, HDEL.
Cmd == [guid : Guids, id : Ids \cup {NoId}]

StateOK ==
    /\ prod \in [Ids -> {"new", "adding", "added", "freed", "deling", "gone"}]
    /\ gid \in [Ids -> Guids \cup {NoGuid}]
    /\ ops \in Seq(Op)
    /\ db \in [Ids -> Guids \cup {NoGuid}]
    /\ wpc \in {"test", "op", "wait", "woken", "cmd", "serial", "exit", "abort", "overrun"}
    /\ started \in BOOLEAN
    /\ spc \in {"run", "flagged", "closed", "done"}
    /\ conn \in {"none", "unauthenticated", "up", "deaf", "closed"}
    /\ cmds \in Seq(Cmd)
    /\ keys \in SUBSET Guids
    /\ rds \in [Guids -> Ids \cup {NoId}]

\* Every variable of the directory keeps its type.
TypeOK == StateOK /\ out \in [ids : SUBSET Ids, count : Nat, len : Nat]

\* start(): the worker is created and the connection to Redis requested.  Ids
\* begin anew with every process, so an old hash may name any of them.
Init ==
    /\ prod = [i \in Ids |-> "new"]
    /\ gid = [i \in Ids |-> NoGuid]
    /\ ops = <<>>
    /\ db = [i \in Ids |-> NoGuid]
    /\ wpc = "test"
    /\ started = TRUE
    /\ spc = "run"
    /\ conn = "none"
    /\ cmds = <<>>
    /\ keys = {}
    /\ rds \in [Guids -> OldHashes]
    /\ out = [ids |-> {}, count |-> 0, len |-> 0]

(***************************************************************************)
(* The session threads.                                                    *)
(***************************************************************************)

\* The worker keeps _op_mutex from the test of the queue to the end of
\* operate(), except while it waits on the condition.
Locked == wpc = "cmd"

\* _guid_set excludes the guids of sessions that have not released theirs.
Taken == {gid[i] : i \in {j \in Ids : prod[j] \in {"adding", "added"}}}

\* add(): the operation is queued under the lock...
Add(i, g) ==
    /\ prod[i] = "new" /\ g \notin Taken /\ ~Locked
    /\ prod' = [prod EXCEPT ![i] = "adding"]
    /\ gid' = [gid EXCEPT ![i] = g]
    /\ ops' = Append(ops, [op |-> "ADD", id |-> i, guid |-> g])
    /\ UNCHANGED <<workVars, stopVars>>

\* Fault: the notification is left out.
NoWake == wpc' = wpc

\* notify_all() wakes the worker if it waits at this moment.
Wake == wpc' = IF wpc = "wait" THEN "woken" ELSE wpc

\* ... and the condition notified after the lock is released.
Notify(i) ==
    /\ \/ prod[i] = "adding" /\ prod' = [prod EXCEPT ![i] = "added"]
       \/ prod[i] = "deling" /\ prod' = [prod EXCEPT ![i] = "gone"]
    /\ Wake
    /\ UNCHANGED <<gid, ops, db, redisVars, out, stopVars>>

\* closeSessionWithLock: the guid is free for others before DEL is queued.  A
\* session of type CLIENT comes here without having been added.
Release(i) ==
    /\ prod[i] \in {"new", "added"}
    /\ prod' = [prod EXCEPT ![i] = "freed"]
    /\ UNCHANGED <<gid, ops, workVars, stopVars>>

\* Fault: the queue is used as the stack its name suggests.
PushedFront(o) == <<o>> \o ops

\* _op_stack.push_back.
Pushed(o) == Append(ops, o)

\* del().
Del(i) ==
    /\ prod[i] = "freed" /\ ~Locked
    /\ prod' = [prod EXCEPT ![i] = "deling"]
    /\ ops' = Pushed([op |-> "DEL", id |-> i, guid |-> NoGuid])
    /\ UNCHANGED <<gid, workVars, stopVars>>

(***************************************************************************)
(* The worker: worker(), operate(), serial().                              *)
(***************************************************************************)

WorkerTest ==
    /\ wpc = "test"
    /\ wpc' = IF started THEN "op" ELSE "exit"
    /\ UNCHANGED <<db, redisVars, out, ops, prodVars, stopVars>>

WorkerWait ==
    /\ wpc = "op" /\ ops = <<>>
    /\ wpc' = "wait"
    /\ UNCHANGED <<db, redisVars, out, ops, prodVars, stopVars>>

\* A condition variable may also wake for no reason.
WorkerSpurious ==
    /\ wpc = "wait"
    /\ wpc' = "woken"
    /\ UNCHANGED <<db, redisVars, out, ops, prodVars, stopVars>>

WorkerWoken ==
    /\ wpc = "woken"
    /\ wpc' = IF started THEN "op" ELSE "serial"
    /\ UNCHANGED <<db, redisVars, out, ops, prodVars, stopVars>>

\* The operation at the front is applied to _db; insert() leaves an existing
\* entry alone, a DEL of an unknown id does nothing more.
Applied(o) ==
    [db EXCEPT ![o.id] = IF o.op = "DEL" THEN NoGuid ELSE IF @ = NoGuid THEN o.guid ELSE @]

\* isConnected(): the client's state is Connected.  It is so before AUTH is sent,
\* and remains so when AUTH is refused or the connection is lost ("deaf").
IsConnected == conn \in {"unauthenticated", "up", "deaf"}

\* Fault: the listing is not renewed after an operation that is not mirrored.
AppliedUnlisted(o) == wpc' = "test" /\ ops' = Tail(ops) /\ db' = Applied(o)

AppliedOnly(o) == wpc' = "serial" /\ ops' = Tail(ops) /\ db' = Applied(o)

WorkerApply ==
    LET o == Head(ops)
        known == db[o.id] # NoGuid
    IN
    /\ wpc = "op" /\ ops # <<>>
    /\ IF IsConnected /\ (o.op = "ADD" \/ known)
         THEN wpc' = "cmd" /\ UNCHANGED <<ops, db>>
         ELSE AppliedOnly(o)
    /\ UNCHANGED <<redisVars, out, prodVars, stopVars>>

\* HMSET of the guid's key, or HDEL of the key that the entry names.
CommandOf(o) ==
    IF o.op = "ADD" THEN [guid |-> o.guid, id |-> o.id] ELSE [guid |-> db[o.id], id |-> NoId]

\* Fault: DEL is not mirrored.
PostAdds(o) ==
    /\ cmds' = IF conn = "up" /\ o.op = "ADD" THEN Append(cmds, CommandOf(o)) ELSE cmds
    /\ keys' = IF conn = "up" /\ o.op = "ADD" THEN keys \cup {CommandOf(o).guid} ELSE keys

\* command() posts the command.  One that goes out before AUTH is refused, one
\* that is posted after the connection was lost goes nowhere.
Post(o) ==
    /\ cmds' = IF conn = "up" THEN Append(cmds, CommandOf(o)) ELSE cmds
    /\ keys' = IF conn = "up" THEN keys \cup {CommandOf(o).guid} ELSE keys

\* The command follows the test of isConnected(); stop() may come between, and
\* then the assertion of RedisAsyncClient::stateValid() fails.
WorkerCommand ==
    /\ wpc = "cmd"
    /\ db' = Applied(Head(ops))
    /\ IF IsConnected
         THEN wpc' = "serial" /\ Post(Head(ops)) /\ ops' = Tail(ops)
         ELSE wpc' = "abort" /\ UNCHANGED <<cmds, keys, ops>>
    /\ UNCHANGED <<rds, out, prodVars, stopVars>>

\* The entries that the buffer has room for, max_cnt.
Capacity == MaxLength \div EntrySize

\* The loop condition of serial() after n of k entries were written.
More(n, k) == n < k /\ 1 + EntrySize * n < MaxLength /\ n % CountMod < Capacity

\* How many entries serial() writes.
Written(k) == CHOOSE n \in 0 .. k : ~More(n, k) /\ \A m \in 0 .. (n - 1) : More(m, k)

Entered == {i \in Ids : db[i] # NoGuid}

\* The listing, in an order that the hash table chooses.  With Capacity entries
\* the last one, and the zero behind it, are written past the end of _buff, over
\* _buff_len; this is undefined, and the worker's part ends here.
WorkerSerial ==
    LET n == Written(Cardinality(Entered))
        len == 1 + EntrySize * n
    IN
    /\ wpc = "serial"
    /\ IF len < MaxLength
         THEN /\ wpc' = "test"
              /\ \E S \in SUBSET Entered :
                    /\ Cardinality(S) = n
                    /\ out' = [ids |-> S, count |-> n % CountMod, len |-> len]
         ELSE wpc' = "overrun" /\ UNCHANGED out
    /\ UNCHANGED <<db, redisVars, ops, prodVars, stopVars>>

(***************************************************************************)
(* The Redis connection, and stop().                                       *)
(***************************************************************************)

\* handleAsyncConnect sets the state.  A Redis without a password takes commands
\* from now on.
RedisConnected ==
    /\ conn = "none"
    /\ conn' \in {"unauthenticated", "up"}
    /\ UNCHANGED <<started, spc, ops, prodVars, workVars>>

\* onRedisConnected posts AUTH; the password may be wrong, and nobody looks at the
\* answer.
RedisAuth ==
    /\ conn = "unauthenticated"
    /\ conn' \in {"up", "deaf"}
    /\ UNCHANGED <<started, spc, ops, prodVars, workVars>>

\* The connection is lost, or an error ends the thread that serves it.
RedisLost ==
    /\ conn \in {"unauthenticated", "up"}
    /\ conn' = "deaf"
    /\ UNCHANGED <<started, spc, ops, prodVars, workVars>>

\* Redis executes commands in the order in which they were posted.
RedisExecute ==
    /\ conn = "up" /\ cmds # <<>>
    /\ cmds' = Tail(cmds)
    /\ rds' = [rds EXCEPT ![Head(cmds).guid] = Head(cmds).id]
    /\ UNCHANGED <<keys, db, wpc, out, ops, prodVars, stopVars>>

StopFlag ==
    /\ spc = "run"
    /\ started' = FALSE
    /\ spc' = "flagged"
    /\ UNCHANGED <<conn, ops, prodVars, workVars>>

\* close(); a handleAsyncConnect that is under way may then set the state back to
\* Connected, over the closed socket.
StopDisconnect ==
    /\ spc = "flagged"
    /\ conn' \in {"closed"} \cup (IF conn = "none" THEN {"deaf"} ELSE {})
    /\ spc' = "closed"
    /\ UNCHANGED <<started, ops, prodVars, workVars>>

\* The notification is given without the lock.
StopNotify ==
    /\ spc = "closed"
    /\ spc' = "done"
    /\ Wake
    /\ UNCHANGED <<started, conn, ops, db, redisVars, out, prodVars>>

-----------------------------------------------------------------------------

Session(i) == (\E g \in Guids : Add(i, g)) \/ Notify(i) \/ Release(i) \/ Del(i)

Worker ==
    WorkerTest \/ WorkerWait \/ WorkerWoken \/ WorkerApply \/ WorkerCommand \/ WorkerSerial

Stop == StopFlag \/ StopDisconnect \/ StopNotify

Redis == RedisConnected \/ RedisAuth \/ RedisLost \/ RedisExecute

Next == (\E i \in Ids : Session(i)) \/ Worker \/ WorkerSpurious \/ Redis \/ Stop

Spec == Init /\ [][Next]_vars

-----------------------------------------------------------------------------

\* The operations queued for id i.
Queued(i) == {k \in DOMAIN ops : ops[k].id = i}

\* What _db will hold for i once the queue is drained.
WillBeEntered(i) ==
    IF Queued(i) = {} THEN db[i] # NoGuid
    ELSE \E k \in Queued(i) : ops[k].op = "ADD" /\ \A j \in Queued(i) : j <= k

\* The queue and _db together always amount to the sessions that are
\* registered: no interleaving of logins, closes and the worker loses an
\* operation, applies one twice or applies a DEL before its ADD.
QueueSound ==
    wpc # "abort" =>
        \A i \in Ids : WillBeEntered(i) <=>
            prod[i] \in {"adding", "added"} \/ (prod[i] = "freed" /\ gid[i] # NoGuid)

\* The listing that answers GETPROXIES is _db, except for the operation in hand:
\* it has every entry, its count byte is right, not having wrapped, and it lies
\* in the buffer with its final zero.  The buffer is overrun only when as many
\* sessions are entered at once as it has entries (256), and not before.
ListingFits ==
    /\ wpc \notin {"serial", "abort", "overrun"} =>
         out.ids = Entered /\ out.count = Cardinality(Entered) /\ out.len < MaxLength
    /\ wpc = "overrun" => Cardinality(Entered) >= Capacity

\* No wake-up is lost: whenever the worker sleeps and nobody is on the way to wake
\* it, between the unlock and the notification of add() or del(), every operation
\* has been applied, and the listing shows just the sessions that are registered.
UpToDate ==
    wpc = "wait" /\ (\A i \in Ids : prod[i] \notin {"adding", "deling"}) =>
        /\ ops = <<>>
        /\ out.ids = {i \in Ids : prod[i] = "added" \/ (prod[i] = "freed" /\ gid[i] # NoGuid)}

\* v is what Redis holds under the key of g when it has executed cmds.
WillHold(g, v) ==
    \/ v = rds[g] /\ \A k \in 1 .. Len(cmds) : cmds[k].guid # g
    \/ \E k \in 1 .. Len(cmds) :
         cmds[k].guid = g /\ cmds[k].id = v /\ \A j \in k + 1 .. Len(cmds) : cmds[j].guid # g

\* As long as the connection to Redis lasts, the commands posted bring the keys they
\* are about in line with _db, whatever an earlier process has left there and
\* whatever happened before AUTH: no key comes to name a session that is not
\* entered under its guid, and a session that did not share its guid with another
\* comes to be named by its key.  (The HDEL of a session that has released its
\* guid takes the hash of the next one that uses it.)
RedisFollows ==
    conn = "up" => \A g \in keys, i \in Ids :
        /\ WillHold(g, i) => db[i] = g
        /\ db[i] = g /\ (\A j \in Ids \ {i} : gid[j] # g) => WillHold(g, i)

\* The assertion of RedisAsyncClient::stateValid(): a command is given only on
\* an open connection.
CommandConnected == wpc # "abort"
=============================================================================
