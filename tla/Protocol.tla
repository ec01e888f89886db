------------------------------ MODULE Protocol ------------------------------
(***************************************************************************)
(* The packets of CProtocol as operators over sequences of bytes: how the  *)
(* server reads requests (deserialize) and writes replies and notices      *)
(* (serialize), and, as the reference to compare them with, the client's   *)
(* side, which lays fields one behind the other.                           *)
(*                                                                         *)
(* A request that is shorter than its function needs is left out: the      *)
(* tests of deserialize count the header in and let it read past the       *)
(* packet, which is undefined.  A length byte of 128 or more is not: char  *)
(* is signed, and what the conversion to size_t does to it is modelled.    *)
(***************************************************************************)
EXTENDS Integers, Sequences

\* sizeof(TagPktHdr).
HdrLen == 8

H1 == 221
H2 == 5
NoEncryp == 2
Encryp == 4

Func == [HEARTBEAT |-> 0, LOGIN |-> 1, PROXY |-> 2, GETPROXIES |-> 3, ACCESS |-> 4, STOPPROXY |-> 5]
ErrCode == [SUCCESS |-> 0, REPEAT |-> 1, FAILED |-> 2, CREATE_UDP |-> 5]
SessionType == [NONE |-> 0, CLIENT |-> 1, SERVER |-> 2, ANYONE |-> 3]

Byte == {v \in Nat : v < 256}
IsShort(v) == v \in Nat /\ v < 65536
IsLong(v) == v \in Nat /\ v \div 16777216 \in Byte

\* The memory images of a uint16_t and a uint32_t on a little-endian host.
Le2(v) == <<v % 256, v \div 256>>
Le4(v) == <<v % 256, (v \div 256) % 256, (v \div 65536) % 256, v \div 16777216>>
UnLe2(b) == b[1] + 256 * b[2]
UnLe4(b) == b[1] + 256 * b[2] + 65536 * b[3] + 16777216 * b[4]

\* host_to_network_short, which swaps the bytes.
Htons(v) == (v % 256) * 256 + v \div 256

\* memcpy of n bytes from offset o.
Bytes(b, o, n) == SubSeq(b, o + 1, o + n)

\* A header as TagPktHdr sees it.
Hdr(b) ==
    [h1 |-> b[1], h2 |-> b[2], prt |-> b[3], svr |-> b[4], func |-> b[5], key |-> b[6], len |-> UnLe2(Bytes(b, 6, 2))]

\* CSession::checkHead.
CheckHead(h) == h.h1 = H1 /\ h.h2 = H2 /\ h.svr \in {Encryp, NoEncryp}

(***************************************************************************)
(* Requests, as the server reads them from the packet b.                   *)
(***************************************************************************)

\* Clients that send no type are of type ANYONE.
LoginType(h, len, p) ==
    IF h.len = 1 + len + 4 THEN SessionType["ANYONE"]
    ELSE IF h.len > 1 + len + 4 THEN p[len + 6]
    ELSE SessionType["NONE"]

\* A char as a number, and n < size where size was reckoned in size_t: a negative
\* one stands for 2^64 more and n is below it; a sum that wrapped is not negative.
Signed(v) == IF v < 128 THEN v ELSE v - 256
IsBelow(n, size) == size < 0 \/ n < size

\* assign() of a length that no string has throws std::length_error.
LengthError == [func |-> "LENGTH_ERROR"]

\* What a LOGIN is before it is read: make_shared has zeroed its fields.
NoLogin == [func |-> "LOGIN", guid |-> <<>>, addr |-> 0, type |-> SessionType["NONE"]]

\* CReqLoginPkt::deserialize.  It returns false where the length is too large,
\* and nobody looks at that.
LoginPkt(b) ==
    LET p == SubSeq(b, HdrLen + 1, Len(b))
        len == Signed(p[1])
    IN CASE IsBelow(Len(b), len + 5) -> NoLogin
         [] ~IsBelow(Len(b), len + 5) /\ len < 0 -> LengthError
         [] OTHER -> [func |-> "LOGIN", guid |-> Bytes(p, 1, len), addr |-> UnLe4(Bytes(p, 1 + len, 4)),
                      type |-> LoginType(Hdr(b), len, p)]

\* CReqProxyPkt::deserialize, in the same way; the ids come before the length.
ProxyPkt(b) ==
    LET p == SubSeq(b, HdrLen + 1, Len(b))
        len == Signed(p[9])
        pkt(game) == [func |-> "PROXY", id |-> UnLe4(Bytes(p, 0, 4)), dst |-> UnLe4(Bytes(p, 4, 4)), game |-> game]
    IN CASE IsBelow(Len(b), len + 9) -> pkt(<<>>)
         [] ~IsBelow(Len(b), len + 9) /\ len < 0 -> LengthError
         [] OTHER -> pkt(Bytes(p, 9, len))

\* CReqGetProxiesPkt::deserialize.
GetProxiesPkt(b) == [func |-> "GETPROXIES", id |-> UnLe4(Bytes(b, HdrLen, 4))]

\* The switch of CSession::onReadBody over _hdr.ucFunc, where it reads the packet.
Deserialize(h, b) ==
    CASE h.func = Func["LOGIN"] -> LoginPkt(b)
      [] h.func = Func["PROXY"] -> ProxyPkt(b)
      [] h.func = Func["GETPROXIES"] -> GetProxiesPkt(b)
      [] OTHER -> [func |-> "HEARTBEAT"]

(***************************************************************************)
(* Replies and notices, as the server writes them.                         *)
(***************************************************************************)

\* memcpy of bytes to offset o of buffer b.
Put(b, o, bytes) == [i \in DOMAIN b |-> IF i - o \in DOMAIN bytes THEN bytes[i - o] ELSE b[i]]

\* The start of every serialize(): a zeroed buffer for the header and n bytes
\* of body, the header of the request or notice, and the length of the body.
Buffer(func, n) ==
    LET head == <<H1, H2, 1, NoEncryp, Func[func], 0, 0, 0>>
    IN Put(Put([i \in 1 .. HdrLen + n |-> 0], 0, head), 6, Le2(n))

\* Fault: the offsets of PROXY, which has an error byte, are used for ACCESS.
SerializeAccessShifted(m) ==
    Put(Put(Put(Put(Put(Buffer("ACCESS", 18), 8, Le4(m.src)), 9, Le4(m.udp)), 13, Le4(m.addr)),
        17, Le2(Htons(m.port))), 22, Le4(m.private))

SerializeLogin(m) == Put(Put(Buffer("LOGIN", 5), 8, <<m.err>>), 9, Le4(m.id))

SerializeProxy(m) ==
    Put(Put(Put(Put(Buffer("PROXY", 11), 8, <<m.err>>), 9, Le4(m.udp)), 13, Le4(m.addr)),
        17, Le2(Htons(m.port)))

SerializeAccess(m) ==
    Put(Put(Put(Put(Put(Buffer("ACCESS", 18), 8, Le4(m.src)), 12, Le4(m.udp)), 16, Le4(m.addr)),
        20, Le2(Htons(m.port))), 22, Le4(m.private))

SerializeGetProxies(m) == Put(Buffer("GETPROXIES", Len(m.list)), 8, m.list)

SerializeStopProxy(m) ==
    Put(Put(Put(Buffer("STOPPROXY", 10), 8, Le4(m.udp)), 12, Le4(m.addr)), 16, Le2(Htons(m.port)))

Serialize(m) ==
    CASE m.func = "LOGIN" -> SerializeLogin(m)
      [] m.func = "PROXY" -> SerializeProxy(m)
      [] m.func = "ACCESS" -> SerializeAccess(m)
      [] m.func = "GETPROXIES" -> SerializeGetProxies(m)
      [] m.func = "STOPPROXY" -> SerializeStopProxy(m)

(***************************************************************************)
(* The client's side, from the field lists in CProtocol.hpp.               *)
(***************************************************************************)

Be(b) == b[1] * 256 + b[2]

\* The body of a request: its fields one behind the other.  type is NONE where
\* the client sends no type byte.
Body(r) ==
    CASE r.func = "HEARTBEAT" -> r.body
      [] r.func = "LOGIN" ->
            <<Len(r.guid)>> \o r.guid \o Le4(r.addr)
                \o (IF r.type = SessionType["NONE"] THEN <<>> ELSE <<r.type>>)
      [] r.func = "PROXY" -> Le4(r.id) \o Le4(r.dst) \o <<Len(r.game)>> \o r.game
      [] r.func = "GETPROXIES" -> Le4(r.id)

Request(r) == <<H1, H2, 1, NoEncryp, Func[r.func], 0>> \o Le2(Len(Body(r))) \o Body(r)

\* Field k of a body whose fields have the widths ws: the fields before it are
\* added up, not counted by hand.
Offset(ws, k) ==
    CASE k = 1 -> 0
      [] k = 2 -> ws[1]
      [] k = 3 -> ws[1] + ws[2]
      [] k = 4 -> ws[1] + ws[2] + ws[3]
      [] k = 5 -> ws[1] + ws[2] + ws[3] + ws[4]
Field(b, ws, k) == Bytes(b, Offset(ws, k), ws[k])

Reply(func, b) ==
    CASE func = Func["LOGIN"] ->
            LET f(k) == Field(b, <<1, 4>>, k)
            IN [func |-> "LOGIN", err |-> f(1)[1], id |-> UnLe4(f(2))]
      [] func = Func["PROXY"] ->
            LET f(k) == Field(b, <<1, 4, 4, 2>>, k)
            IN [func |-> "PROXY", err |-> f(1)[1], udp |-> UnLe4(f(2)), addr |-> UnLe4(f(3)), port |-> Be(f(4))]
      [] func = Func["ACCESS"] ->
            LET f(k) == Field(b, <<4, 4, 4, 2, 4>>, k)
            IN [func |-> "ACCESS", src |-> UnLe4(f(1)), udp |-> UnLe4(f(2)), addr |-> UnLe4(f(3)),
                port |-> Be(f(4)), private |-> UnLe4(f(5))]
      [] func = Func["GETPROXIES"] -> [func |-> "GETPROXIES", list |-> b]
      [] func = Func["STOPPROXY"] ->
            LET f(k) == Field(b, <<4, 4, 2>>, k)
            IN [func |-> "STOPPROXY", udp |-> UnLe4(f(1)), addr |-> UnLe4(f(2)), port |-> Be(f(3))]

\* What the client makes of the bytes b as one packet.
IsPacket(b) == Len(b) >= HdrLen /\ CheckHead(Hdr(b)) /\ Len(b) = HdrLen + Hdr(b).len
PacketOf(b) == Reply(Hdr(b).func, SubSeq(b, HdrLen + 1, Len(b)))
=============================================================================
