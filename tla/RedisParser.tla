----------------------------- MODULE RedisParser -----------------------------
(***************************************************************************)
(* RedisParser, the loop of RedisClientImpl::asyncRead that drives it, and *)
(* RedisClientImpl::makeCommand.                                           *)
(*                                                                         *)
(* What Redis sends arrives in chunks that respect no boundary: a chunk    *)
(* may end inside a length, a payload or an array in an array, and one may *)
(* hold several replies.  Between chunks the parser keeps where it is in   *)
(* state, buf, bulkSize and two stacks.  Bytes are numbers 0 .. 255;       *)
(* lengths stay far below the width of long.                               *)
(***************************************************************************)
EXTENDS Integers, Sequences, SequencesExt

CONSTANTS
    Replies,    \* sequences of values that Redis may send
    Damaged,    \* those of them that may be damaged on the way
    Commands,   \* sequences of arguments, each a string of bytes
    Damage,     \* bytes that may replace one byte of them
    BufSize     \* size of the buffer a chunk is read into (4096 in C++)

CR == 13
LF == 10
Minus == 45
Digits == 48 .. 57

\* A RedisValue: bytes holds a text or one number, items the elements.
Value(type, bytes, items) == [type |-> type, bytes |-> bytes, items |-> items]
Str(b) == Value("string", b, <<>>)
Err(b) == Value("error", b, <<>>)
Num(n) == Value("int", <<n>>, <<>>)
Nil == Value("nil", <<>>, <<>>)
Arr(vs) == Value("array", <<>>, vs)

(***************************************************************************)
(* Conversions.                                                            *)
(***************************************************************************)

RECURSIVE Decimal(_)
Decimal(n) == IF n < 10 THEN <<48 + n>> ELSE Append(Decimal(n \div 10), 48 + (n % 10))

RECURSIVE Prefix(_, _)
Prefix(b, acc) ==
    IF b # <<>> /\ Head(b) \in Digits THEN Prefix(Tail(b), 10 * acc + Head(b) - 48) ELSE acc

\* strtol: an optional sign and the digits that follow, 0 when there are none.
Strtol(b) == IF b # <<>> /\ Head(b) = Minus THEN -Prefix(Tail(b), 0) ELSE Prefix(b, 0)

\* isChar(c) && !isControl(c); bytes from 128 on are negative as char.
Printable(c) == c \in 32 .. 126

(***************************************************************************)
(* The parser.  A parser p is what the object keeps between calls; a call  *)
(* returns the bytes consumed, the ParseResult and the parser.             *)
(***************************************************************************)

New == [state |-> "Start", buf |-> <<>>, bulkSize |-> 0, arrayStack |-> <<>>, valueStack |-> <<>>]

Result(n, r, p) == [n |-> n, r |-> r, p |-> p]

PushValue(p, v) == [p EXCEPT !.valueStack = Append(@, v)]
TopValue(p) == Last(p.valueStack)

\* Fault: the value is read and stays.
PopValueKept(p) == p

PopValue(p) == [p EXCEPT !.valueStack = Front(@)]

\* Fault: the outer array goes below the inner ones.
PushArrayBelow(p, size, v) ==
    [p EXCEPT !.arrayStack = <<size>> \o @, !.valueStack = <<v>> \o @]

\* An array that still lacks size elements.
PushArray(p, size, v) == PushValue([p EXCEPT !.arrayStack = Append(@, size)], v)

Extended(v, e) == Arr(Append(v.items, e))

\* Start: the first byte of a value tells its kind.
Kinds == 43 :> "String" @@ 45 :> "ErrorString" @@ 58 :> "Integer" @@ 36 :> "BulkSize" @@ 42 :> "ArraySize"

\* The states that read up to a CR, and where the CR leads.
Texts == {"String", "ErrorString"}
Numbers == {"Integer", "BulkSize", "ArraySize"}
AtCR == [String |-> "StringLF", ErrorString |-> "ErrorLF", Integer |-> "IntegerLF",
         BulkSize |-> "BulkSizeLF", ArraySize |-> "ArraySizeLF", BulkCR |-> "BulkLF"]

RECURSIVE ParseChunk(_, _, _), ParseArray(_, _), Elements(_, _, _, _, _)

\* parse().
Parse(p, s) == IF p.arrayStack # <<>> THEN ParseArray(p, s) ELSE ParseChunk(p, s, 0)

\* The loop of parseArray: v lacks left elements, i bytes of s are consumed.
Elements(p, s, i, left, v) ==
    LET e == Parse(p, SubSeq(s, i + 1, Len(s))) IN
    CASE left = 0 -> Result(i, "Completed", PushValue(p, v))
      [] left > 0 /\ e.r = "Error" -> Result(i + e.n, "Error", e.p)
      [] left > 0 /\ e.r = "Incompleted" -> Result(i + e.n, "Incompleted", PushArray(e.p, left, v))
      [] left > 0 /\ e.r = "Completed" ->
            Elements(PopValue(e.p), s, i + e.n, left - 1, Extended(v, TopValue(e.p)))

\* parseArray: the outermost array is on top.  It first lets the array below
\* it, its unfinished element, go on, and then reads its other elements; the
\* loop finds nothing to read when that element used up the chunk.
ParseArray(p, s) ==
    LET size == Last(p.arrayStack)
        v == TopValue(p)
        q == PopValue([p EXCEPT !.arrayStack = Front(@)])
        inner == ParseArray(q, s)
    IN
    CASE q.arrayStack = <<>> -> Elements(q, s, 0, size, v)
      [] q.arrayStack # <<>> /\ inner.r # "Completed" ->
            Result(inner.n, inner.r, PushArray(inner.p, size, v))
      [] q.arrayStack # <<>> /\ inner.r = "Completed" ->
            Elements(PopValue(inner.p), s, inner.n, size - 1, Extended(v, TopValue(inner.p)))

\* Fault: what the chunk holds of a bulk string is not counted off.
BulkBeginUncounted(p, s, i, n) ==
    LET canRead == IF n < Len(s) - i THEN n ELSE Len(s) - i
        q == [p EXCEPT !.bulkSize = n, !.buf = SubSeq(s, i + 1, i + canRead)]
    IN
    IF n > Len(s) - i
      THEN Result(i + canRead, "Incompleted", [q EXCEPT !.state = "Bulk"])
      ELSE ParseChunk([q EXCEPT !.state = "BulkCR"], s, i + canRead)

\* BulkSizeLF with a positive length n: as much as the chunk has is taken.
BulkBegin(p, s, i, n) ==
    LET canRead == IF n < Len(s) - i THEN n ELSE Len(s) - i
        q == [p EXCEPT !.bulkSize = n, !.buf = SubSeq(s, i + 1, i + canRead)]
    IN
    IF n > Len(s) - i
      THEN Result(i + canRead, "Incompleted", [q EXCEPT !.state = "Bulk", !.bulkSize = n - canRead])
      ELSE ParseChunk([q EXCEPT !.state = "BulkCR"], s, i + canRead)

\* Bulk: the next part, at the start of a later chunk.
BulkMore(p, s, i) ==
    LET canRead == IF p.bulkSize < Len(s) - i THEN p.bulkSize ELSE Len(s) - i
        q == [p EXCEPT !.bulkSize = @ - canRead, !.buf = @ \o SubSeq(s, i + 1, canRead)]
    IN
    IF q.bulkSize > 0
      THEN Result(i + canRead, "Incompleted", q)
      ELSE ParseChunk([q EXCEPT !.state = "BulkCR"], s, i + canRead)

\* ArraySizeLF with a positive size: the elements that are there are read.
ArrayBegin(p, s, i, n) ==
    LET q == PushArray(p, n, Arr(<<>>))
        rest == ParseArray(q, SubSeq(s, i + 1, Len(s)))
    IN
    IF i = Len(s) THEN Result(i, "Incompleted", q) ELSE [rest EXCEPT !.n = @ + i]

\* An LF where one is due, at s[i]; p is back in Start.
Ended(state, p, s, i) ==
    LET n == Strtol(p.buf)
        cleared == [p EXCEPT !.buf = <<>>]
        completed(q, v) == Result(i, "Completed", PushValue(q, v))
    IN
    CASE state \in {"StringLF", "BulkLF"} -> completed(p, Str(p.buf))
      [] state = "ErrorLF" -> completed(p, Err(p.buf))
      [] state = "IntegerLF" -> completed(cleared, Num(n))
      [] state = "BulkSizeLF" /\ n = -1 -> completed([cleared EXCEPT !.bulkSize = n], Nil)
      [] state = "BulkSizeLF" /\ n = 0 ->
            ParseChunk([cleared EXCEPT !.bulkSize = n, !.state = "BulkCR"], s, i)
      [] state = "BulkSizeLF" /\ n > 0 -> BulkBegin(cleared, s, i, n)
      [] state = "ArraySizeLF" /\ n \in {-1, 0} -> completed(cleared, Arr(<<>>))
      [] state = "ArraySizeLF" /\ n > 0 -> ArrayBegin(cleared, s, i, n)
      [] OTHER -> Result(i, "Error", cleared)

\* parseChunk: one value, from the byte after s[i] on.
ParseChunk(p, s, i) ==
    LET c == s[i + 1]
        goto(q, state) == ParseChunk([q EXCEPT !.state = state], s, i + 1)
        stored == ParseChunk([p EXCEPT !.buf = Append(@, c)], s, i + 1)
        failed == Result(i + 1, "Error", [p EXCEPT !.state = "Start"])
    IN
    IF i = Len(s) THEN Result(i, "Incompleted", p)
    ELSE IF p.state = "Start"
      THEN IF c \in DOMAIN Kinds THEN goto([p EXCEPT !.buf = <<>>], Kinds[c]) ELSE failed
    ELSE IF p.state = "Bulk" THEN BulkMore(p, s, i)
    ELSE IF p.state \in DOMAIN AtCR /\ c = CR
      THEN IF p.state \in Numbers /\ p.buf = <<>> THEN failed ELSE goto(p, AtCR[p.state])
    ELSE IF p.state \in Texts THEN IF Printable(c) THEN stored ELSE failed
    ELSE IF p.state \in Numbers THEN IF c \in Digits \cup {Minus} THEN stored ELSE failed
    ELSE IF p.state # "BulkCR" /\ c = LF THEN Ended(p.state, [p EXCEPT !.state = "Start"], s, i + 1)
    ELSE failed

RECURSIVE AsyncRead(_, _, _)

\* The loop of asyncRead over a chunk: every value completed goes to
\* doProcessMessage; the parser's other results end the loop.
AsyncRead(p, s, got) ==
    LET e == Parse(p, s) IN
    CASE s = <<>> -> [p |-> p, got |-> got, ok |-> TRUE]
      [] s # <<>> /\ e.r = "Completed" ->
            AsyncRead(PopValue(e.p), SubSeq(s, e.n + 1, Len(s)), Append(got, TopValue(e.p)))
      [] s # <<>> /\ e.r = "Incompleted" -> [p |-> e.p, got |-> got, ok |-> TRUE]
      [] s # <<>> /\ e.r = "Error" -> [p |-> e.p, got |-> got, ok |-> FALSE]

Line(first, b) == <<first>> \o b \o <<CR, LF>>

\* makeCommand: an array of bulk strings.
MakeCommand(items) ==
    Line(42, Decimal(Len(items))) \o
    FlattenSeq([k \in DOMAIN items |-> Line(36, Decimal(Len(items[k]))) \o items[k] \o <<CR, LF>>])

(***************************************************************************)
(* Redis, and the connection.                                              *)
(***************************************************************************)

\* The protocol of Redis: simple is a text sent on a line, string one sent with
\* its length; nil and the null array have the length -1.
RECURSIVE Encode(_)
Encode(v) ==
    CASE v.type = "simple" -> Line(43, v.bytes)
      [] v.type = "error" -> Line(45, v.bytes)
      [] v.type = "int" ->
            Line(58, IF v.bytes[1] < 0 THEN <<Minus>> \o Decimal(-v.bytes[1]) ELSE Decimal(v.bytes[1]))
      [] v.type = "string" -> Line(36, Decimal(Len(v.bytes))) \o v.bytes \o <<CR, LF>>
      [] v.type = "nil" -> Line(36, <<Minus, 49>>)
      [] v.type = "null array" -> Line(42, <<Minus, 49>>)
      [] v.type = "array" ->
            Line(42, Decimal(Len(v.items))) \o FlattenSeq([k \in DOMAIN v.items |-> Encode(v.items[k])])

\* What the program is to make of it: both kinds of text are strings, and the
\* null array is an empty one.
RECURSIVE Meaning(_)
Meaning(v) ==
    CASE v.type = "simple" -> Str(v.bytes)
      [] v.type = "null array" -> Arr(<<>>)
      [] v.type = "array" -> Arr([k \in DOMAIN v.items |-> Meaning(v.items[k])])
      [] OTHER -> v

EncodeAll(vs) == FlattenSeq([k \in DOMAIN vs |-> Encode(vs[k])])

VARIABLES
    stream,     \* the bytes on the connection
    sent,       \* the values they stand for (<<>> when damaged)
    intact,     \* no byte of the stream was damaged
    pos,        \* bytes delivered so far
    parser,     \* the parser object
    got,        \* the values handed to doProcessMessage
    ok          \* errorHandler was not called

vars == <<stream, sent, intact, pos, parser, got, ok>>

Init ==
    /\ \/ \E vs \in Replies : sent = vs /\ stream = EncodeAll(vs) /\ intact = TRUE
       \/ \E items \in Commands :
            /\ sent = <<Arr([k \in DOMAIN items |-> Str(items[k])])>>
            /\ stream = MakeCommand(items) /\ intact = TRUE
       \/ \E vs \in Damaged, b \in Damage : \E k \in DOMAIN EncodeAll(vs) :
            sent = <<>> /\ stream = [EncodeAll(vs) EXCEPT ![k] = b] /\ intact = FALSE
    /\ pos = 0
    /\ parser = New
    /\ got = <<>>
    /\ ok = TRUE

\* A read completes with the next n bytes.  After an error nothing is read.
Read(n) ==
    LET a == AsyncRead(parser, SubSeq(stream, pos + 1, pos + n), got) IN
    /\ ok /\ n <= Len(stream) - pos
    /\ pos' = pos + n
    /\ parser' = a.p
    /\ got' = a.got
    /\ ok' = a.ok
    /\ UNCHANGED <<stream, sent, intact>>

Next == \E n \in 1 .. BufSize : Read(n)

Spec == Init /\ [][Next]_vars

-----------------------------------------------------------------------------

\* From a stream as Redis sends it the program has, after every read and however
\* the reads cut it, exactly the values that have arrived whole: none is missed,
\* made up or altered.  A command built by makeCommand reads back as the array of
\* its arguments, even when they hold CR, LF or the marks of the protocol.
ReadsWhatWasSent ==
    intact =>
        /\ ok
        /\ got = [k \in DOMAIN got |-> Meaning(sent[k])]
        /\ \A k \in DOMAIN sent : Len(got) >= k <=> Len(EncodeAll(SubSeq(sent, 1, k))) <= pos

\* Where the reads cut a stream makes no difference, not even for one with a
\* wrong byte: the values passed on and the verdict are those of a single read
\* of everything delivered so far.
CutsDoNotMatter ==
    LET once == AsyncRead(New, SubSeq(stream, 1, pos), <<>>) IN got = once.got /\ ok = once.ok

\* The assertions of parseArray and result(): between reads every array that is
\* still open has its length on one stack and its elements so far on the other,
\* and no value is left over.
StacksMatch ==
    ok => /\ Len(parser.arrayStack) = Len(parser.valueStack)
          /\ \A k \in DOMAIN parser.arrayStack :
                parser.arrayStack[k] > 0 /\ parser.valueStack[k].type = "array"
          /\ parser.state = "Bulk" => parser.bulkSize > 0
=============================================================================
