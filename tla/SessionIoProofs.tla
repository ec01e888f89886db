--------------------------- MODULE SessionIoProofs --------------------------
(***************************************************************************)
(* Proofs about a connection, for all requests, replies and notices that   *)
(* fit their packets and any number of them: the session never loses the   *)
(* packet boundary and understands what its length bytes allow, the client *)
(* can read what it receives, and answers come in the order of requests.   *)
(***************************************************************************)
EXTENDS SessionIo, QueueFacts

(***************************************************************************)
(* Parts of sequences of bytes.                                            *)
(***************************************************************************)

\* A part of a sequence, by its elements.
LEMMA Part ==
  ASSUME NEW b \in Seq(Byte), NEW o \in Nat, NEW n \in Nat, o + n <= Len(b)
  PROVE  /\ Bytes(b, o, n) \in Seq(Byte)
         /\ Len(Bytes(b, o, n)) = n
         /\ \A i \in 1 .. n : Bytes(b, o, n)[i] = b[o + i]
  <1>1. Len(b) \in Nat /\ \A i \in 1 .. Len(b) : b[i] \in Byte
    BY LenProperties, ElementOfSeq
  <1>2. \A i \in o + 1 .. o + n : b[i] \in Byte
    BY <1>1
  <1>3. /\ SubSeq(b, o + 1, o + n) \in Seq(Byte)
        /\ Len(SubSeq(b, o + 1, o + n)) = IF o + 1 <= o + n THEN (o + n) - (o + 1) + 1 ELSE 0
        /\ \A i \in 1 .. (o + n) - (o + 1) + 1 : SubSeq(b, o + 1, o + n)[i] = b[(o + 1) + i - 1]
    BY <1>2, SubSeqProperties
  <1> QED BY <1>3 DEF Bytes

\* A part that has the elements of x is x.
LEMMA PartIs ==
  ASSUME NEW b \in Seq(Byte), NEW o \in Nat, NEW x \in Seq(Byte), o + Len(x) <= Len(b),
         \A i \in 1 .. Len(x) : b[o + i] = x[i]
  PROVE  Bytes(b, o, Len(x)) = x
  <1>1. Len(x) \in Nat
    BY LenProperties
  <1>2. /\ Bytes(b, o, Len(x)) \in Seq(Byte)
        /\ Len(Bytes(b, o, Len(x))) = Len(x)
        /\ \A i \in 1 .. Len(x) : Bytes(b, o, Len(x))[i] = x[i]
    BY <1>1, Part
  <1> QED BY <1>2, SeqEqual

\* A sequence that is followed by another.
LEMMA Joined ==
  ASSUME NEW s \in Seq(Byte), NEW t \in Seq(Byte)
  PROVE  /\ s \o t \in Seq(Byte)
         /\ Len(s) \in Nat /\ Len(t) \in Nat
         /\ Len(s \o t) = Len(s) + Len(t)
         /\ \A i \in 1 .. Len(s) : (s \o t)[i] = s[i]
         /\ \A i \in 1 .. Len(t) : (s \o t)[Len(s) + i] = t[i]
  <1>1. Len(s) \in Nat /\ Len(t) \in Nat
    BY LenProperties
  <1>2. /\ s \o t \in Seq(Byte)
        /\ Len(s \o t) = Len(s) + Len(t)
        /\ \A i \in 1 .. Len(s) + Len(t) : (s \o t)[i] = IF i <= Len(s) THEN s[i] ELSE t[i - Len(s)]
    BY ConcatProperties
  <1>3. ASSUME NEW i \in 1 .. Len(t) PROVE (s \o t)[Len(s) + i] = t[i]
    <2>1. Len(s) + i \in 1 .. Len(s) + Len(t) /\ ~(Len(s) + i <= Len(s)) /\ Len(s) + i - Len(s) = i
      BY <1>1
    <2> QED BY <1>2, <2>1
  <1> QED BY <1>1, <1>2, <1>3

\* A byte as a bounded integer: the form in which the provers reckon with it.
LEMMA ByteIs ==
  ASSUME NEW v
  PROVE  v \in Byte <=> v \in Int /\ 0 <= v /\ v <= 255
  BY DEF Byte

LEMMA ShortIs ==
  ASSUME NEW v
  PROVE  IsShort(v) <=> v \in Int /\ 0 <= v /\ v <= 65535
  BY DEF IsShort

\* The bytes of a number of two bytes, and of one whose bytes are swapped.
LEMMA Halves ==
  ASSUME NEW v \in Int, 0 <= v, v <= 65535
  PROVE  /\ v % 256 \in Int /\ 0 <= v % 256 /\ v % 256 <= 255
         /\ v \div 256 \in Int /\ 0 <= v \div 256 /\ v \div 256 <= 255
         /\ v = (v % 256) + 256 * (v \div 256)
  OBVIOUS

LEMMA Swapped ==
  ASSUME NEW lo \in Int, 0 <= lo, lo <= 255, NEW hi \in Int, 0 <= hi, hi <= 255,
         NEW w \in Int, w = lo * 256 + hi
  PROVE  0 <= w /\ w <= 65535 /\ w % 256 = hi /\ w \div 256 = lo
  OBVIOUS

\* A number of two or four bytes is read as it was written.
LEMMA Shorts ==
  ASSUME NEW v, IsShort(v)
  PROVE  /\ Le2(v) \in Seq(Byte) /\ Len(Le2(v)) = 2
         /\ UnLe2(Le2(v)) = v
         /\ IsShort(Htons(v)) /\ Be(Le2(Htons(v))) = v
  <1> DEFINE lo == v % 256
             hi == v \div 256
             w == lo * 256 + hi
  <1>1. v \in Int /\ 0 <= v /\ v <= 65535
    BY ShortIs
  <1>2. Le2(v) = <<lo, hi>> /\ Htons(v) = w
    BY DEF Le2, Htons
  <1>3. /\ lo \in Int /\ 0 <= lo /\ lo <= 255
        /\ hi \in Int /\ 0 <= hi /\ hi <= 255
        /\ v = lo + 256 * hi
    BY <1>1, Halves
  <1> HIDE DEF lo, hi
  <1>4. w \in Int /\ 0 <= w /\ w <= 65535 /\ w % 256 = hi /\ w \div 256 = lo
    BY <1>3, Swapped
  <1>5. Le2(w) = <<hi, lo>>
    BY <1>4 DEF Le2
  <1> HIDE DEF w
  <1>6. Le2(v) \in Seq(Byte) /\ Len(Le2(v)) = 2
    BY <1>2, <1>3, ByteIs
  <1>7. UnLe2(Le2(v)) = v
    BY <1>2, <1>3 DEF UnLe2
  <1>8. Be(Le2(w)) = hi * 256 + lo
    BY <1>5 DEF Be
  <1>9. hi * 256 + lo = v /\ IsShort(w)
    BY <1>3, <1>4, ShortIs
  <1> QED BY <1>2, <1>6, <1>7, <1>8, <1>9

LEMMA Longs ==
  ASSUME NEW v, IsLong(v)
  PROVE  /\ Le4(v) \in Seq(Byte) /\ Len(Le4(v)) = 4
         /\ UnLe4(Le4(v)) = v
  <1> DEFINE a == v % 256
             b == (v \div 256) % 256
             c == (v \div 65536) % 256
             d == v \div 16777216
  <1>1. v \in Int /\ 0 <= v /\ d \in Int /\ 0 <= d /\ d <= 255
    BY ByteIs DEF IsLong
  <1>2. /\ v \div 256 \in Int /\ v = a + 256 * (v \div 256) /\ a \in Int /\ 0 <= a /\ a <= 255
        /\ v \div 65536 \in Int /\ v \div 256 = b + 256 * (v \div 65536) /\ b \in Int /\ 0 <= b /\ b <= 255
        /\ v \div 65536 = c + 256 * d /\ c \in Int /\ 0 <= c /\ c <= 255
    BY <1>1
  <1>3. Le4(v) = <<a, b, c, d>>
    BY DEF Le4
  <1> HIDE DEF a, b, c, d
  <1>5. v = a + 256 * b + 65536 * c + 16777216 * d
    BY <1>1, <1>2
  <1>6. Le4(v) \in Seq(Byte) /\ Len(Le4(v)) = 4
    BY <1>1, <1>2, <1>3, ByteIs
  <1>7. UnLe4(Le4(v)) = a + 256 * b + 65536 * c + 16777216 * d
    BY <1>3 DEF UnLe4
  <1> QED BY <1>5, <1>6, <1>7

LEMMA OneByte ==
  ASSUME NEW v \in Byte
  PROVE  <<v>> \in Seq(Byte) /\ Len(<<v>>) = 1 /\ <<v>>[1] = v
  OBVIOUS

\* Of two sequences the second follows the first: as parts.
LEMMA Beside ==
  ASSUME NEW s \in Seq(Byte), NEW t \in Seq(Byte)
  PROVE  Bytes(s \o t, 0, Len(s)) = s /\ Bytes(s \o t, Len(s), Len(t)) = t
  <1>1. \A i \in 1 .. Len(s) : (s \o t)[0 + i] = s[i]
    BY Joined
  <1>2. s \o t \in Seq(Byte) /\ 0 + Len(s) <= Len(s \o t) /\ Len(s) + Len(t) <= Len(s \o t) /\ Len(s) \in Nat
    BY Joined
  <1>3. Bytes(s \o t, 0, Len(s)) = s
    BY <1>1, <1>2, PartIs
  <1>4. \A i \in 1 .. Len(t) : (s \o t)[Len(s) + i] = t[i]
    BY Joined
  <1>5. Bytes(s \o t, Len(s), Len(t)) = t
    BY <1>2, <1>4, PartIs
  <1> QED BY <1>3, <1>5

\* A part of the first of them is a part of both.
LEMMA Within ==
  ASSUME NEW s \in Seq(Byte), NEW t \in Seq(Byte), NEW o \in Nat, NEW n \in Nat, o + n <= Len(s)
  PROVE  Bytes(s \o t, o, n) = Bytes(s, o, n)
  <1>1. /\ Bytes(s, o, n) \in Seq(Byte)
        /\ Len(Bytes(s, o, n)) = n
        /\ \A i \in 1 .. n : Bytes(s, o, n)[i] = s[o + i]
    BY Part
  <1>2. \A i \in 1 .. n : (s \o t)[o + i] = Bytes(s, o, n)[i]
    <2>1. \A i \in 1 .. n : o + i \in 1 .. Len(s)
      BY LenProperties
    <2> QED BY <1>1, <2>1, Joined
  <1> DEFINE u == s \o t
             x == Bytes(s, o, n)
  <1>3. u \in Seq(Byte) /\ o + n <= Len(u)
    BY Joined
  <1> HIDE DEF u, x
  <1>4. x \in Seq(Byte) /\ Len(x) = n /\ \A i \in 1 .. Len(x) : u[o + i] = x[i]
    BY <1>1, <1>2 DEF u, x
  <1>5. Bytes(u, o, Len(x)) = x
    BY <1>3, <1>4, PartIs
  <1> QED BY <1>4, <1>5 DEF u, x

\* u is s with t behind it.
IsJoin(s, t, u) ==
    /\ u \in Seq(Byte)
    /\ Len(s) \in Nat /\ Len(t) \in Nat /\ Len(u) = Len(s) + Len(t)
    /\ \A i \in 1 .. Len(s) : u[i] = s[i]
    /\ \A i \in 1 .. Len(t) : u[Len(s) + i] = t[i]
    /\ Bytes(u, 0, Len(s)) = s
    /\ Bytes(u, Len(s), Len(t)) = t
    /\ \A o, n \in Nat : o + n <= Len(s) => Bytes(u, o, n) = Bytes(s, o, n)

LEMMA Join ==
  ASSUME NEW s \in Seq(Byte), NEW t \in Seq(Byte)
  PROVE  IsJoin(s, t, s \o t)
  BY Joined, Beside, Within DEF IsJoin

\* A part of a part.
LEMMA Nested ==
  ASSUME NEW b \in Seq(Byte), NEW o \in Nat, NEW n \in Nat, o + n <= Len(b),
         NEW p \in Nat, NEW k \in Nat, p + k <= n
  PROVE  Bytes(Bytes(b, o, n), p, k) = Bytes(b, o + p, k)
  <1> DEFINE d == Bytes(b, o, n)
             e == Bytes(b, o + p, k)
  <1>1. d \in Seq(Byte) /\ Len(d) = n /\ \A i \in 1 .. n : d[i] = b[o + i]
    BY Part
  <1>2. o + p \in Nat /\ (o + p) + k <= Len(b)
    BY LenProperties
  <1>3. e \in Seq(Byte) /\ Len(e) = k /\ \A i \in 1 .. k : e[i] = b[(o + p) + i]
    BY <1>2, Part
  <1> HIDE DEF d, e
  <1>4. ASSUME NEW i \in 1 .. k PROVE d[p + i] = e[i]
    <2>1. p + i \in 1 .. n /\ o + (p + i) = (o + p) + i
      OBVIOUS
    <2> QED BY <1>1, <1>3, <2>1
  <1>5. Bytes(d, p, k) = e
    BY <1>1, <1>3, <1>4, PartIs
  <1> QED BY <1>5 DEF d, e

\* A sequence is the join of its two parts.
LEMMA Rejoined ==
  ASSUME NEW b \in Seq(Byte), NEW k \in Nat, k <= Len(b)
  PROVE  Bytes(b, 0, k) \o Bytes(b, k, Len(b) - k) = b
  <1> DEFINE s == Bytes(b, 0, k)
             n == Len(b) - k
             t == Bytes(b, k, n)
  <1>1. Len(b) \in Nat /\ n \in Nat /\ 0 + k <= Len(b) /\ k + n <= Len(b) /\ k + n = Len(b)
    BY LenProperties
  <1> HIDE DEF n
  <1>2. s \in Seq(Byte) /\ Len(s) = k /\ \A i \in 1 .. k : s[i] = b[0 + i]
    BY <1>1, Part
  <1>3. t \in Seq(Byte) /\ Len(t) = n /\ \A i \in 1 .. n : t[i] = b[k + i]
    BY <1>1, Part
  <1> HIDE DEF s, t
  <1>4. IsJoin(s, t, s \o t)
    BY <1>2, <1>3, Join
  <1> DEFINE u == s \o t
  <1> HIDE DEF u
  <1>5. u \in Seq(Byte) /\ Len(u) = Len(b)
    BY <1>1, <1>2, <1>3, <1>4 DEF IsJoin, u
  <1>6. (\A i \in 1 .. k : u[i] = s[i]) /\ \A i \in 1 .. n : u[k + i] = t[i]
    BY <1>2, <1>3, <1>4 DEF IsJoin, u
  <1>7. ASSUME NEW i \in 1 .. Len(b) PROVE u[i] = b[i]
    <2>1. CASE i <= k
      BY <1>2, <1>6, <2>1
    <2>2. CASE i > k
      <3>1. i - k \in 1 .. n /\ k + (i - k) = i
        BY <1>1, <2>2
      <3> QED BY <1>3, <1>6, <3>1
    <2> QED BY <1>1, <2>1, <2>2
  <1>8. u = b
    BY <1>5, <1>7, SeqEqual
  <1> QED BY <1>8 DEF u, s, t, n

(***************************************************************************)
(* The header.                                                             *)
(***************************************************************************)

\* The header by the bytes that it is read from.
LEMMA HdrIs ==
  ASSUME NEW b \in Seq(Byte), Len(b) >= HdrLen
  PROVE  Hdr(b) = [h1 |-> b[1], h2 |-> b[2], prt |-> b[3], svr |-> b[4], func |-> b[5], key |-> b[6],
                   len |-> b[7] + 256 * b[8]]
  <1>1. 6 + 2 <= Len(b)
    BY LenProperties DEF HdrLen
  <1>2. \A i \in 1 .. 2 : Bytes(b, 6, 2)[i] = b[6 + i]
    BY <1>1, Part
  <1>3. UnLe2(Bytes(b, 6, 2)) = b[7] + 256 * b[8]
    BY <1>2 DEF UnLe2
  <1> QED BY <1>3 DEF Hdr

\* b is a packet with function f and this body.
Framed(b, f, body) ==
    /\ b \in Seq(Byte)
    /\ Len(b) = HdrLen + Len(body)
    /\ b[1] = H1 /\ b[2] = H2 /\ b[4] = NoEncryp /\ b[5] = f
    /\ b[7] + 256 * b[8] = Len(body)
    /\ SubSeq(b, HdrLen + 1, Len(b)) = body

\* The header is read from the front of the packet.
LEMMA FrontHdr ==
  ASSUME NEW b \in Seq(Byte), HdrLen <= Len(b)
  PROVE  /\ Bytes(b, 0, HdrLen) \in Seq(Byte) /\ Len(Bytes(b, 0, HdrLen)) = HdrLen
         /\ Hdr(Bytes(b, 0, HdrLen)) = Hdr(b)
  <1> DEFINE f == Bytes(b, 0, 8)
  <1>1. 0 + 8 <= Len(b)
    BY LenProperties DEF HdrLen
  <1>2. \A i \in 1 .. 8 : f[i] = b[0 + i]
    BY <1>1, Part
  <1>5. f \in Seq(Byte) /\ Len(f) = 8
    <2>1. ASSUME NEW n \in Nat, 0 + n <= Len(b)
          PROVE  Bytes(b, 0, n) \in Seq(Byte) /\ Len(Bytes(b, 0, n)) = n
      BY <2>1, Part
    <2> QED BY <1>1, <2>1
  <1> HIDE DEF f
  <1>3. /\ f[1] = b[1] /\ f[2] = b[2] /\ f[3] = b[3] /\ f[4] = b[4]
        /\ f[5] = b[5] /\ f[6] = b[6] /\ f[7] = b[7] /\ f[8] = b[8]
    BY <1>2
  <1>4. /\ Hdr(f) = [h1 |-> f[1], h2 |-> f[2], prt |-> f[3], svr |-> f[4], func |-> f[5], key |-> f[6],
                     len |-> f[7] + 256 * f[8]]
        /\ Hdr(b) = [h1 |-> b[1], h2 |-> b[2], prt |-> b[3], svr |-> b[4], func |-> b[5], key |-> b[6],
                     len |-> b[7] + 256 * b[8]]
    <2>1. Len(f) >= HdrLen /\ Len(b) >= HdrLen
      BY <1>5, LenProperties DEF HdrLen
    <2> QED BY <1>5, <2>1, HdrIs
  <1> QED BY <1>3, <1>4, <1>5 DEF f, HdrLen

\* What the header of such a packet says.
LEMMA FramedHdr ==
  ASSUME NEW b, NEW f, NEW body \in Seq(Byte), Framed(b, f, body)
  PROVE  CheckHead(Hdr(b)) /\ Hdr(b).func = f /\ Hdr(b).len = Len(body)
  <1>1. Len(b) >= HdrLen /\ b \in Seq(Byte)
    BY LenProperties DEF Framed, HdrLen
  <1>0. Hdr(b) = [h1 |-> b[1], h2 |-> b[2], prt |-> b[3], svr |-> b[4], func |-> b[5], key |-> b[6],
                  len |-> b[7] + 256 * b[8]]
    BY <1>1, HdrIs
  <1>2. /\ Hdr(b).h1 = H1 /\ Hdr(b).h2 = H2 /\ Hdr(b).svr = NoEncryp
        /\ Hdr(b).func = f /\ Hdr(b).len = Len(body)
    BY <1>0 DEF Framed
  <1> QED BY <1>2 DEF CheckHead

\* The client's way to lay out a packet.
LEMMA Laid ==
  ASSUME NEW f \in Byte, NEW body \in Seq(Byte), IsShort(Len(body))
  PROVE  Framed(<<H1, H2, 1, NoEncryp, f, 0>> \o Le2(Len(body)) \o body, f, body)
  <1> DEFINE h == <<H1, H2, 1, NoEncryp, f, 0>>
             l == Le2(Len(body))
             b == (h \o l) \o body
  <1>0. H1 \in Byte /\ H2 \in Byte /\ NoEncryp \in Byte /\ 0 \in Byte /\ 1 \in Byte
    BY DEF H1, H2, NoEncryp, Byte
  <1>1. h \in Seq(Byte) /\ Len(h) = 6
    BY <1>0
  <1>2. l \in Seq(Byte) /\ Len(l) = 2 /\ l[1] + 256 * l[2] = Len(body)
    BY Shorts DEF UnLe2
  <1>3. h[1] = H1 /\ h[2] = H2 /\ h[4] = NoEncryp /\ h[5] = f
    OBVIOUS
  <1> HIDE DEF h, l
  <1>4. /\ h \o l \in Seq(Byte) /\ Len(h \o l) = 8
        /\ (h \o l)[1] = h[1] /\ (h \o l)[2] = h[2] /\ (h \o l)[4] = h[4] /\ (h \o l)[5] = h[5]
        /\ (h \o l)[7] = l[1] /\ (h \o l)[8] = l[2]
    <2>1. h \in Seq(Byte) /\ l \in Seq(Byte)
      BY <1>1, <1>2
    <2>2. /\ h \o l \in Seq(Byte) /\ Len(h \o l) = Len(h) + Len(l)
          /\ \A i \in 1 .. Len(h) : (h \o l)[i] = h[i]
          /\ \A i \in 1 .. Len(l) : (h \o l)[Len(h) + i] = l[i]
      BY <2>1, Joined
    <2>3. (h \o l)[1] = h[1] /\ (h \o l)[2] = h[2] /\ (h \o l)[4] = h[4] /\ (h \o l)[5] = h[5]
      BY <1>1, <2>2
    <2>4. (h \o l)[7] = l[1] /\ (h \o l)[8] = l[2]
      BY <1>1, <1>2, <2>2
    <2> QED BY <1>1, <1>2, <2>2, <2>3, <2>4
  <1>5. /\ b \in Seq(Byte) /\ Len(b) = 8 + Len(body) /\ Len(body) \in Nat
        /\ b[1] = (h \o l)[1] /\ b[2] = (h \o l)[2] /\ b[4] = (h \o l)[4] /\ b[5] = (h \o l)[5]
        /\ b[7] = (h \o l)[7] /\ b[8] = (h \o l)[8]
        /\ Bytes(b, 8, Len(body)) = body
    <2> DEFINE hl == h \o l
    <2>1. hl \in Seq(Byte) /\ Len(hl) = 8
      BY <1>4
    <2> HIDE DEF hl
    <2>2. IsJoin(hl, body, hl \o body)
      BY <2>1, Join
    <2>3. IsJoin(hl, body, b)
      BY <2>2 DEF hl
    <2> HIDE DEF b
    <2>4. /\ b \in Seq(Byte) /\ Len(body) \in Nat /\ Len(b) = Len(hl) + Len(body)
          /\ \A i \in 1 .. Len(hl) : b[i] = hl[i]
          /\ Bytes(b, Len(hl), Len(body)) = body
      BY <2>3 DEF IsJoin
    <2>5. /\ b[1] = hl[1] /\ b[2] = hl[2] /\ b[4] = hl[4] /\ b[5] = hl[5] /\ b[7] = hl[7] /\ b[8] = hl[8]
      BY <2>1, <2>4
    <2>6. b \in Seq(Byte) /\ Len(b) = 8 + Len(body) /\ Len(body) \in Nat /\ Bytes(b, 8, Len(body)) = body
      BY <2>1, <2>4
    <2> QED BY <2>5, <2>6 DEF hl
  <1> HIDE DEF b
  <1>7. SubSeq(b, HdrLen + 1, Len(b)) = body
    BY <1>5 DEF Bytes, HdrLen
  <1>8. b[1] = H1 /\ b[2] = H2 /\ b[4] = NoEncryp /\ b[5] = f /\ b[7] = l[1] /\ b[8] = l[2]
    BY <1>3, <1>4, <1>5
  <1>9. Framed(b, f, body)
    BY <1>2, <1>5, <1>7, <1>8 DEF Framed, HdrLen
  <1> QED BY <1>9 DEF b, h, l

(***************************************************************************)
(* Requests: what CReq*Pkt::deserialize makes of the client's bytes.       *)
(***************************************************************************)

LEMMA Functions == \A f \in DOMAIN Func : Func[f] \in Byte
  BY DEF Func, Byte

\* The body of a LOGIN, and what is read from it; t is the type byte or nothing.
IsLoginBody(p, guid, addr, t) ==
    /\ p \in Seq(Byte) /\ Len(p) = 5 + Len(guid) + Len(t)
    /\ p[1] = Len(guid)
    /\ Bytes(p, 1, Len(guid)) = guid
    /\ Bytes(p, 1 + Len(guid), 4) = Le4(addr)
    /\ Len(t) = 1 => p[Len(guid) + 6] = t[1]

LEMMA LoginBody ==
  ASSUME NEW guid \in Seq(Byte), Len(guid) <= 255, NEW addr, IsLong(addr), NEW t \in Seq(Byte)
  PROVE  IsLoginBody(<<Len(guid)>> \o guid \o Le4(addr) \o t, guid, addr, t)
  <1> DEFINE p == <<Len(guid)>> \o guid \o Le4(addr) \o t
  <1> DEFINE l == <<Len(guid)>>
             a == Le4(addr)
  <1>1. Len(guid) \in Nat /\ Len(guid) \in Byte /\ Len(t) \in Nat
    BY LenProperties DEF Byte
  <1>2. l \in Seq(Byte) /\ Len(l) = 1 /\ l[1] = Len(guid)
    BY <1>1, OneByte
  <1>3. a \in Seq(Byte) /\ Len(a) = 4
    BY Longs
  <1>4. p = ((l \o guid) \o a) \o t
    OBVIOUS
  <1> HIDE DEF l, a, p
  <1> DEFINE q == l \o guid
             u == q \o a
  <1>5. IsJoin(l, guid, q)
    BY <1>2, Join
  <1>6. IsJoin(q, a, u)
    <2>1. q \in Seq(Byte)
      BY <1>5 DEF IsJoin
    <2> QED BY <1>3, <2>1, Join
  <1>7. IsJoin(u, t, p)
    <2>1. u \in Seq(Byte)
      BY <1>6 DEF IsJoin
    <2>2. IsJoin(u, t, u \o t)
      BY <2>1, Join
    <2> QED BY <1>4, <2>2
  <1> HIDE DEF q, u
  <1>8. Len(q) = 1 + Len(guid) /\ q[1] = Len(guid) /\ Bytes(q, 1, Len(guid)) = guid
    BY <1>2, <1>5 DEF IsJoin
  <1>9. Len(u) = 5 + Len(guid) /\ u[1] = q[1] /\ Bytes(u, 1 + Len(guid), 4) = a
    BY <1>1, <1>3, <1>6, <1>8 DEF IsJoin
  <1>10. Bytes(u, 1, Len(guid)) = guid
    BY <1>1, <1>6, <1>8 DEF IsJoin
  <1>11. p \in Seq(Byte) /\ Len(p) = 5 + Len(guid) + Len(t) /\ p[1] = u[1]
    BY <1>1, <1>7, <1>9 DEF IsJoin
  <1>12. \A o, n \in Nat : o + n <= Len(u) => Bytes(p, o, n) = Bytes(u, o, n)
    BY <1>7 DEF IsJoin
  <1>13. Bytes(p, 1, Len(guid)) = Bytes(u, 1, Len(guid))
    <2>1. 1 \in Nat /\ 1 + Len(guid) <= Len(u)
      BY <1>1, <1>9
    <2> QED BY <1>1, <1>12, <2>1
  <1>15. Bytes(p, 1 + Len(guid), 4) = Bytes(u, 1 + Len(guid), 4)
    <2>1. 4 \in Nat /\ 1 + Len(guid) \in Nat /\ (1 + Len(guid)) + 4 <= Len(u)
      BY <1>1, <1>9
    <2> QED BY <1>12, <2>1
  <1>14. ASSUME Len(t) = 1 PROVE p[Len(guid) + 6] = t[1]
    <2>0. \A i \in 1 .. Len(t) : p[Len(u) + i] = t[i]
      BY <1>7 DEF IsJoin
    <2>3. 1 \in 1 .. Len(t)
      BY <1>14
    <2>1. p[Len(u) + 1] = t[1]
      BY <2>0, <2>3
    <2>2. Len(u) + 1 = Len(guid) + 6
      BY <1>1, <1>9
    <2> QED BY <2>1, <2>2
  <1> QED BY <1>8, <1>9, <1>10, <1>11, <1>13, <1>14, <1>15 DEF IsLoginBody, a, p

\* The body of a PROXY, and what is read from it.
IsProxyBody(p, to, dst, game) ==
    /\ p \in Seq(Byte) /\ Len(p) = 9 + Len(game)
    /\ Bytes(p, 0, 4) = Le4(to)
    /\ Bytes(p, 4, 4) = Le4(dst)
    /\ p[9] = Len(game)
    /\ Bytes(p, 9, Len(game)) = game

LEMMA ProxyBody ==
  ASSUME NEW to, IsLong(to), NEW dst, IsLong(dst), NEW game \in Seq(Byte), Len(game) <= 255
  PROVE  IsProxyBody(Le4(to) \o Le4(dst) \o <<Len(game)>> \o game, to, dst, game)
  <1> DEFINE p == Le4(to) \o Le4(dst) \o <<Len(game)>> \o game
  <1> DEFINE i == Le4(to)
             d == Le4(dst)
             l == <<Len(game)>>
  <1>1. Len(game) \in Nat /\ Len(game) \in Byte
    BY LenProperties DEF Byte
  <1>2. l \in Seq(Byte) /\ Len(l) = 1 /\ l[1] = Len(game)
    BY <1>1, OneByte
  <1>3. i \in Seq(Byte) /\ Len(i) = 4 /\ d \in Seq(Byte) /\ Len(d) = 4
    BY Longs
  <1>4. p = ((i \o d) \o l) \o game
    OBVIOUS
  <1> HIDE DEF l, i, d, p
  <1> DEFINE q == i \o d
             u == q \o l
  <1>5. IsJoin(i, d, q)
    BY <1>3, Join
  <1>6. IsJoin(q, l, u)
    <2>1. q \in Seq(Byte)
      BY <1>5 DEF IsJoin
    <2> QED BY <1>2, <2>1, Join
  <1>7. IsJoin(u, game, p)
    <2>1. u \in Seq(Byte)
      BY <1>6 DEF IsJoin
    <2>2. IsJoin(u, game, u \o game)
      BY <2>1, Join
    <2> QED BY <1>4, <2>2
  <1> HIDE DEF q, u
  <1>8. Len(q) = 8 /\ Bytes(q, 0, 4) = i /\ Bytes(q, 4, 4) = d
    BY <1>3, <1>5 DEF IsJoin
  <1>9. Len(u) = 9 /\ u[9] = Len(game)
    BY <1>2, <1>6, <1>8 DEF IsJoin
  <1>10. Bytes(u, 0, 4) = i /\ Bytes(u, 4, 4) = d
    BY <1>6, <1>8 DEF IsJoin
  <1>11. p \in Seq(Byte) /\ Len(p) = 9 + Len(game) /\ Bytes(p, 9, Len(game)) = game
    BY <1>1, <1>7, <1>9 DEF IsJoin
  <1>13. p[9] = u[9]
    <2>1. \A k \in 1 .. Len(u) : p[k] = u[k]
      BY <1>7 DEF IsJoin
    <2>2. 9 \in 1 .. Len(u)
      BY <1>9
    <2> QED BY <2>1, <2>2
  <1>12. Bytes(p, 0, 4) = i /\ Bytes(p, 4, 4) = d
    <2>1. \A o, n \in Nat : o + n <= Len(u) => Bytes(p, o, n) = Bytes(u, o, n)
      BY <1>7 DEF IsJoin
    <2>2. 0 + 4 <= Len(u) /\ 4 + 4 <= Len(u)
      BY <1>9
    <2>3. Bytes(p, 0, 4) = Bytes(u, 0, 4) /\ Bytes(p, 4, 4) = Bytes(u, 4, 4)
      BY <2>1, <2>2
    <2> QED BY <1>10, <2>3
  <1> QED BY <1>9, <1>11, <1>12, <1>13 DEF IsProxyBody, i, d, p

\* What deserialize() does with a request.
Outcome(r) == IF Wrapping(r) THEN LengthError ELSE Heard(r)

\* r travels in a packet of its own, and that is what deserialize() does with it.
Understood(r) ==
    /\ Body(r) \in Seq(Byte)
    /\ Framed(Request(r), Func[r.func], Body(r))
    /\ Deserialize(Hdr(Request(r)), Request(r)) = Outcome(r)

\* A length byte v: what it is read as, and when a packet of length n passes the
\* test, which adds k.
ReadsLength(v, n, k) ==
    /\ v < 128 => Signed(v) = v /\ ~IsBelow(n, Signed(v) + k) /\ ~(Signed(v) < 0)
    /\ v >= 128 => Signed(v) < 0
    /\ v >= 128 /\ v + k < 256 => IsBelow(n, Signed(v) + k)
    /\ v >= 128 /\ v + k >= 256 => ~IsBelow(n, Signed(v) + k)

LEMMA LengthByte ==
  ASSUME NEW v \in Nat, v <= 255, NEW n \in Nat, NEW k \in Nat, k <= 9, v + k <= n
  PROVE  ReadsLength(v, n, k)
  <1> USE DEF ReadsLength
  <1>1. CASE v < 128
    <2>1. Signed(v) = v
      BY <1>1 DEF Signed
    <2> QED BY <1>1, <2>1 DEF IsBelow
  <1>2. CASE v >= 128
    <2>1. Signed(v) = v - 256
      BY <1>2 DEF Signed
    <2> QED BY <1>2, <2>1 DEF IsBelow
  <1> QED BY <1>1, <1>2

\* The packet of a request whose body fits.
LEMMA RequestFramed ==
  ASSUME NEW r, r.func \in DOMAIN Func, Body(r) \in Seq(Byte), IsShort(Len(Body(r)))
  PROVE  /\ Framed(Request(r), Func[r.func], Body(r))
         /\ Hdr(Request(r)).func = Func[r.func] /\ Hdr(Request(r)).len = Len(Body(r))
         /\ SubSeq(Request(r), HdrLen + 1, Len(Request(r))) = Body(r)
         /\ Len(Request(r)) = HdrLen + Len(Body(r))
  <1>1. Framed(Request(r), Func[r.func], Body(r))
    BY Functions, Laid DEF Request
  <1>2. Hdr(Request(r)).func = Func[r.func] /\ Hdr(Request(r)).len = Len(Body(r))
    BY <1>1, FramedHdr
  <1>3. /\ SubSeq(Request(r), HdrLen + 1, Len(Request(r))) = Body(r)
        /\ Len(Request(r)) = HdrLen + Len(Body(r))
    BY <1>1 DEF Framed
  <1> QED BY <1>1, <1>2, <1>3

LEMMA HeartbeatUnderstood ==
  ASSUME NEW r \in [func : {"HEARTBEAT"}, body : Seq(Byte)], IsShort(Len(r.body))
  PROVE  Understood(r)
  <1>1. r.func = "HEARTBEAT" /\ r.func \in DOMAIN Func /\ Func[r.func] = 0
    BY DEF Func
  <1>2. Body(r) = r.body /\ r.body \in Seq(Byte)
    BY <1>1 DEF Body
  <1>3. Framed(Request(r), Func[r.func], Body(r)) /\ Hdr(Request(r)).func = 0
    BY <1>1, <1>2, RequestFramed
  <1>4. Deserialize(Hdr(Request(r)), Request(r)) = [func |-> "HEARTBEAT"]
    BY <1>3 DEF Deserialize, Func
  <1>5. Outcome(r) = [func |-> "HEARTBEAT"]
    BY <1>1 DEF Outcome, Wrapping, Heard, Overlong, Meaning
  <1> QED BY <1>2, <1>3, <1>4, <1>5 DEF Understood

LEMMA LoginUnderstood ==
  ASSUME NEW g \in Seq(Byte), Len(g) <= 255, NEW a, IsLong(a), NEW ty \in Byte,
         NEW r, r = [func |-> "LOGIN", guid |-> g, addr |-> a, type |-> ty]
  PROVE  Understood(r)
  <1> DEFINE t == IF ty = SessionType["NONE"] THEN <<>> ELSE <<ty>>
             p == Body(r)
             b == Request(r)
             type == IF ty = SessionType["NONE"] THEN SessionType["ANYONE"] ELSE ty
  <1>1. r.func = "LOGIN" /\ r.func \in DOMAIN Func /\ Func[r.func] = 1
    BY DEF Func
  <1>2. p = <<Len(g)>> \o g \o Le4(a) \o t
    BY <1>1 DEF Body
  <1>3. t \in Seq(Byte) /\ Len(t) = IF ty = SessionType["NONE"] THEN 0 ELSE 1
    BY OneByte, EmptySeq
  <1>4. ty # SessionType["NONE"] => t[1] = ty
    OBVIOUS
  <1> HIDE DEF t, p
  <1>5. Len(t) <= 1 /\ g \in Seq(Byte) /\ Len(g) \in Nat
    BY <1>3, LenProperties
  <1>6. /\ p \in Seq(Byte) /\ Len(p) = 5 + Len(g) + Len(t)
        /\ p[1] = Len(g)
        /\ Bytes(p, 1, Len(g)) = g
        /\ Bytes(p, 1 + Len(g), 4) = Le4(a)
        /\ Len(t) = 1 => p[Len(g) + 6] = t[1]
    <2>1. IsLoginBody(<<Len(g)>> \o g \o Le4(a) \o t, g, a, t)
      BY <1>3, LoginBody
    <2>2. IsLoginBody(p, g, a, t)
      BY <1>2, <2>1
    <2> QED BY <2>2 DEF IsLoginBody
  <1>7. IsShort(Len(p))
    BY <1>3, <1>5, <1>6 DEF IsShort
  <1>8. /\ Framed(b, Func[r.func], p) /\ Hdr(b).func = 1 /\ Hdr(b).len = Len(p)
        /\ SubSeq(b, HdrLen + 1, Len(b)) = p
    BY <1>1, <1>6, <1>7, RequestFramed DEF p
  <1>9. LoginType(Hdr(b), Len(g), p) = type
    <2>1. CASE ty = SessionType["NONE"]
      BY <1>3, <1>5, <1>6, <1>8, <2>1 DEF LoginType
    <2>2. CASE ty # SessionType["NONE"]
      <3>1. Len(t) = 1
        BY <1>3, <2>2
      <3>2. Hdr(b).len = 6 + Len(g) /\ p[Len(g) + 6] = ty
        BY <1>4, <1>5, <1>6, <1>8, <2>2, <3>1
      <3> QED BY <1>5, <2>2, <3>2 DEF LoginType
    <2> QED BY <2>1, <2>2
  <1>10. UnLe4(Le4(a)) = a
    BY Longs
  <1>11. Len(b) \in Nat /\ Len(g) + 5 <= Len(b)
    BY <1>3, <1>5, <1>6, <1>8 DEF Framed, HdrLen
  <1>12. r.guid = g /\ r.type = ty
    OBVIOUS
  <1>13. LoginPkt(b) = Outcome(r)
    <2> DEFINE len == Signed(Len(g))
    <2>1. LoginPkt(b) = CASE IsBelow(Len(b), len + 5) -> NoLogin
                          [] ~IsBelow(Len(b), len + 5) /\ len < 0 -> LengthError
                          [] OTHER -> [func |-> "LOGIN", guid |-> Bytes(p, 1, len),
                                       addr |-> UnLe4(Bytes(p, 1 + len, 4)), type |-> LoginType(Hdr(b), len, p)]
      BY <1>6, <1>8 DEF LoginPkt
    <2>2. /\ Len(g) < 128 => len = Len(g) /\ ~IsBelow(Len(b), len + 5) /\ ~(len < 0)
          /\ Len(g) >= 128 => len < 0
          /\ Len(g) >= 128 /\ Len(g) + 5 < 256 => IsBelow(Len(b), len + 5)
          /\ Len(g) >= 128 /\ Len(g) + 5 >= 256 => ~IsBelow(Len(b), len + 5)
      <3> HIDE DEF b
      <3>1. Len(b) \in Nat /\ Len(g) \in Nat /\ Len(g) <= 255 /\ Len(g) + 5 <= Len(b) /\ 5 \in Nat /\ 5 <= 9
        BY <1>5, <1>11
      <3>2. ReadsLength(Len(g), Len(b), 5)
        BY ONLY <3>1, LengthByte
      <3> QED BY ONLY <3>2 DEF ReadsLength
    <2> HIDE DEF len
    <2>3. Overlong(r) <=> Len(g) >= 128
      BY <1>1, <1>12 DEF Overlong
    <2>4. Wrapping(r) <=> Len(g) + 5 >= 256
      BY <1>1, <1>12 DEF Wrapping
    <2>5. CASE Len(g) < 128
      <3>1. LoginPkt(b) = [func |-> "LOGIN", guid |-> g, addr |-> a, type |-> type]
        BY <1>6, <1>9, <1>10, <2>1, <2>2, <2>5
      <3>2. Meaning(r) = [func |-> "LOGIN", guid |-> g, addr |-> a, type |-> type]
        BY <1>1 DEF Meaning
      <3>3. ~Overlong(r) /\ ~Wrapping(r)
        BY <1>5, <2>3, <2>4, <2>5
      <3> QED BY <3>1, <3>2, <3>3 DEF Outcome, Heard
    <2>6. CASE Len(g) >= 128 /\ Len(g) + 5 < 256
      <3>1. LoginPkt(b) = NoLogin
        BY <2>1, <2>2, <2>6
      <3>2. Overlong(r) /\ ~Wrapping(r)
        BY <1>5, <2>3, <2>4, <2>6
      <3> QED BY <1>1, <3>1, <3>2 DEF Outcome, Heard
    <2>7. CASE Len(g) >= 128 /\ Len(g) + 5 >= 256
      <3>1. LoginPkt(b) = LengthError
        BY <2>1, <2>2, <2>7
      <3> QED BY <2>4, <2>7, <3>1 DEF Outcome
    <2> QED BY <1>5, <2>5, <2>6, <2>7
  <1>14. Deserialize(Hdr(b), b) = LoginPkt(b)
    BY <1>8 DEF Deserialize, Func
  <1> QED BY <1>6, <1>8, <1>13, <1>14 DEF Understood, p

LEMMA ProxyUnderstood ==
  ASSUME NEW i, IsLong(i), NEW d, IsLong(d), NEW g \in Seq(Byte), Len(g) <= 255,
         NEW r, r = [func |-> "PROXY", id |-> i, dst |-> d, game |-> g]
  PROVE  Understood(r)
  <1> DEFINE p == Body(r)
             b == Request(r)
  <1>1. r.func = "PROXY" /\ r.func \in DOMAIN Func /\ Func[r.func] = 2
    BY DEF Func
  <1>2. p = Le4(i) \o Le4(d) \o <<Len(g)>> \o g
    BY <1>1 DEF Body
  <1> HIDE DEF p
  <1>3. g \in Seq(Byte) /\ Len(g) \in Nat
    BY LenProperties
  <1>4. /\ p \in Seq(Byte) /\ Len(p) = 9 + Len(g)
        /\ Bytes(p, 0, 4) = Le4(i)
        /\ Bytes(p, 4, 4) = Le4(d)
        /\ p[9] = Len(g)
        /\ Bytes(p, 9, Len(g)) = g
    <2>1. IsProxyBody(Le4(i) \o Le4(d) \o <<Len(g)>> \o g, i, d, g)
      BY ProxyBody
    <2>2. IsProxyBody(p, i, d, g)
      BY <1>2, <2>1
    <2> QED BY <2>2 DEF IsProxyBody
  <1>5. IsShort(Len(p))
    BY <1>3, <1>4 DEF IsShort
  <1>6. Framed(b, Func[r.func], p) /\ Hdr(b).func = 2 /\ SubSeq(b, HdrLen + 1, Len(b)) = p
    BY <1>1, <1>4, <1>5, RequestFramed DEF p
  <1>7. UnLe4(Le4(i)) = i /\ UnLe4(Le4(d)) = d
    BY Longs
  <1>8. Len(b) \in Nat /\ Len(g) + 9 <= Len(b)
    BY <1>3, <1>4, <1>6 DEF Framed, HdrLen
  <1>9. r.game = g
    OBVIOUS
  <1>10. ProxyPkt(b) = Outcome(r)
    <2> DEFINE len == Signed(Len(g))
               pkt(game) == [func |-> "PROXY", id |-> i, dst |-> d, game |-> game]
    <2>1. ProxyPkt(b) = CASE IsBelow(Len(b), len + 9) -> pkt(<<>>)
                          [] ~IsBelow(Len(b), len + 9) /\ len < 0 -> LengthError
                          [] OTHER -> pkt(Bytes(p, 9, len))
      BY <1>4, <1>6, <1>7 DEF ProxyPkt
    <2>2. /\ Len(g) < 128 => len = Len(g) /\ ~IsBelow(Len(b), len + 9) /\ ~(len < 0)
          /\ Len(g) >= 128 => len < 0
          /\ Len(g) >= 128 /\ Len(g) + 9 < 256 => IsBelow(Len(b), len + 9)
          /\ Len(g) >= 128 /\ Len(g) + 9 >= 256 => ~IsBelow(Len(b), len + 9)
      <3> HIDE DEF b
      <3>1. Len(b) \in Nat /\ Len(g) \in Nat /\ Len(g) <= 255 /\ Len(g) + 9 <= Len(b) /\ 9 \in Nat /\ 9 <= 9
        BY <1>3, <1>8
      <3>2. ReadsLength(Len(g), Len(b), 9)
        BY ONLY <3>1, LengthByte
      <3> QED BY ONLY <3>2 DEF ReadsLength
    <2> HIDE DEF len
    <2>3. Overlong(r) <=> Len(g) >= 128
      BY <1>1, <1>9 DEF Overlong
    <2>4. Wrapping(r) <=> Len(g) + 9 >= 256
      BY <1>1, <1>9 DEF Wrapping
    <2>5. CASE Len(g) < 128
      <3>1. ProxyPkt(b) = pkt(g)
        BY <1>4, <2>1, <2>2, <2>5
      <3>2. Meaning(r) = pkt(g)
        BY <1>1 DEF Meaning
      <3>3. ~Overlong(r) /\ ~Wrapping(r)
        BY <1>3, <2>3, <2>4, <2>5
      <3> QED BY <3>1, <3>2, <3>3 DEF Outcome, Heard
    <2>6. CASE Len(g) >= 128 /\ Len(g) + 9 < 256
      <3>1. ProxyPkt(b) = pkt(<<>>)
        BY <2>1, <2>2, <2>6
      <3>2. Overlong(r) /\ ~Wrapping(r)
        BY <1>3, <2>3, <2>4, <2>6
      <3> QED BY <1>1, <3>1, <3>2 DEF Outcome, Heard
    <2>7. CASE Len(g) >= 128 /\ Len(g) + 9 >= 256
      <3>1. ProxyPkt(b) = LengthError
        BY <2>1, <2>2, <2>7
      <3> QED BY <2>4, <2>7, <3>1 DEF Outcome
    <2> QED BY <1>3, <2>5, <2>6, <2>7
  <1>11. Deserialize(Hdr(b), b) = ProxyPkt(b)
    BY <1>6 DEF Deserialize, Func
  <1> QED BY <1>4, <1>6, <1>10, <1>11 DEF Understood, p

LEMMA GetProxiesUnderstood ==
  ASSUME NEW r \in [func : {"GETPROXIES"}, id : Nat], IsLong(r.id)
  PROVE  Understood(r)
  <1> DEFINE p == Body(r)
             b == Request(r)
  <1>1. r.func = "GETPROXIES" /\ r.func \in DOMAIN Func /\ Func[r.func] = 3
    BY DEF Func
  <1>2. p = Le4(r.id)
    BY <1>1 DEF Body
  <1>3. p \in Seq(Byte) /\ Len(p) = 4 /\ UnLe4(p) = r.id
    BY <1>2, Longs
  <1> HIDE DEF p
  <1>4. IsShort(Len(p))
    BY <1>3 DEF IsShort
  <1>5. /\ Framed(b, Func[r.func], p) /\ Hdr(b).func = 3 /\ SubSeq(b, HdrLen + 1, Len(b)) = p
        /\ Len(b) = HdrLen + 4
    BY <1>1, <1>3, <1>4, RequestFramed DEF p
  <1>6. Bytes(b, HdrLen, 4) = p
    BY <1>5 DEF Bytes, HdrLen
  <1>7. GetProxiesPkt(b) = [func |-> "GETPROXIES", id |-> r.id]
    BY <1>3, <1>6 DEF GetProxiesPkt
  <1>8. Outcome(r) = [func |-> "GETPROXIES", id |-> r.id]
    BY <1>1 DEF Outcome, Wrapping, Heard, Overlong, Meaning
  <1>9. Deserialize(Hdr(b), b) = GetProxiesPkt(b)
    BY <1>5 DEF Deserialize, Func
  <1> QED BY <1>3, <1>5, <1>7, <1>8, <1>9 DEF Understood, p

\* What deserialize() does with every request that fits its packet, for names of
\* up to 255 bytes: as it was meant up to 127, without the name or the login's
\* fields above, and an exception where the length byte wraps around.
THEOREM RequestsUnderstood == \A r : WellFormed(r) => Understood(r)
  <1> SUFFICES ASSUME NEW r, WellFormed(r) PROVE Understood(r)
    OBVIOUS
  <1>1. CASE r \in [func : {"HEARTBEAT"}, body : Seq(Byte)] /\ IsShort(Len(r.body))
    BY <1>1, HeartbeatUnderstood
  <1>2. CASE /\ r \in [func : {"LOGIN"}, guid : Seq(Byte), addr : Nat, type : Byte]
             /\ Len(r.guid) <= 255 /\ IsLong(r.addr)
    <2>1. r = [func |-> "LOGIN", guid |-> r.guid, addr |-> r.addr, type |-> r.type]
      BY <1>2
    <2>2. r.guid \in Seq(Byte) /\ r.type \in Byte
      BY <1>2
    <2> QED BY <1>2, <2>1, <2>2, LoginUnderstood
  <1>3. CASE /\ r \in [func : {"PROXY"}, id : Nat, dst : Nat, game : Seq(Byte)]
             /\ Len(r.game) <= 255 /\ IsLong(r.id) /\ IsLong(r.dst)
    <2>1. r = [func |-> "PROXY", id |-> r.id, dst |-> r.dst, game |-> r.game] /\ r.game \in Seq(Byte)
      BY <1>3
    <2> QED BY <1>3, <2>1, ProxyUnderstood
  <1>4. CASE r \in [func : {"GETPROXIES"}, id : Nat] /\ IsLong(r.id)
    BY <1>4, GetProxiesUnderstood
  <1> QED BY <1>1, <1>2, <1>3, <1>4 DEF WellFormed

(***************************************************************************)
(* Replies and notices: what the client makes of the bytes of serialize(). *)
(***************************************************************************)

\* c is b with x at offset o.
IsPut(b, o, x, c) ==
    /\ c \in Seq(Byte) /\ Len(c) = Len(b)
    /\ Bytes(c, o, Len(x)) = x
    /\ \A i \in 1 .. o : c[i] = b[i]
    /\ \A p, n \in Nat : p + n <= Len(b) /\ (p + n <= o \/ o + Len(x) <= p) => Bytes(c, p, n) = Bytes(b, p, n)

LEMMA PutIs ==
  ASSUME NEW b \in Seq(Byte), NEW o \in Nat, NEW x \in Seq(Byte), o + Len(x) <= Len(b)
  PROVE  IsPut(b, o, x, Put(b, o, x))
  <1> DEFINE c == Put(b, o, x)
  <1>1. /\ Len(b) \in Nat /\ DOMAIN b = 1 .. Len(b) /\ Len(x) \in Nat /\ DOMAIN x = 1 .. Len(x)
        /\ \A i \in 1 .. Len(b) : b[i] \in Byte
        /\ \A i \in 1 .. Len(x) : x[i] \in Byte
    BY LenProperties, ElementOfSeq
  <1>2. c = [i \in 1 .. Len(b) |-> IF i - o \in 1 .. Len(x) THEN x[i - o] ELSE b[i]]
    BY <1>1 DEF Put
  <1>3. \A i \in 1 .. Len(b) : c[i] = (IF i - o \in 1 .. Len(x) THEN x[i - o] ELSE b[i]) /\ c[i] \in Byte
    BY <1>1, <1>2
  <1>4. c \in Seq(Byte) /\ Len(c) = Len(b)
    <2>1. c \in [1 .. Len(b) -> Byte]
      BY <1>2, <1>3
    <2>2. c \in Seq(Byte)
      BY <1>1, <2>1, SeqDef
    <2>3. Len(c) \in Nat /\ 1 .. Len(c) = 1 .. Len(b)
      BY <2>1, <2>2, LenProperties
    <2> QED BY <1>1, <2>2, <2>3
  <1> HIDE DEF c
  <1>5. \A i \in 1 .. Len(x) : c[o + i] = x[i]
    <2> SUFFICES ASSUME NEW i \in 1 .. Len(x) PROVE c[o + i] = x[i]
      OBVIOUS
    <2>1. o + i \in 1 .. Len(b) /\ (o + i) - o = i
      BY <1>1
    <2> QED BY <1>3, <2>1
  <1>6. \A i \in 1 .. Len(b) : i <= o \/ o + Len(x) < i => c[i] = b[i]
    <2> SUFFICES ASSUME NEW i \in 1 .. Len(b), i <= o \/ o + Len(x) < i PROVE c[i] = b[i]
      OBVIOUS
    <2>1. i - o \notin 1 .. Len(x)
      BY <1>1
    <2> QED BY <1>3, <2>1
  <1>7. Bytes(c, o, Len(x)) = x
    BY <1>4, <1>5, PartIs
  <1>8. \A i \in 1 .. o : c[i] = b[i]
    BY <1>1, <1>6
  <1>9. ASSUME NEW p \in Nat, NEW n \in Nat, p + n <= Len(b), p + n <= o \/ o + Len(x) <= p
        PROVE  Bytes(c, p, n) = Bytes(b, p, n)
    <2>1. /\ Bytes(b, p, n) \in Seq(Byte)
          /\ Len(Bytes(b, p, n)) = n
          /\ \A i \in 1 .. n : Bytes(b, p, n)[i] = b[p + i]
      BY <1>9, Part
    <2>2. ASSUME NEW i \in 1 .. n PROVE c[p + i] = Bytes(b, p, n)[i]
      <3>1. p + i \in 1 .. Len(b) /\ (p + i <= o \/ o + Len(x) < p + i)
        BY <1>1, <1>9
      <3>2. c[p + i] = b[p + i]
        BY <1>6, <3>1
      <3> QED BY <2>1, <3>2
    <2> QED BY <1>4, <1>9, <2>1, <2>2, PartIs
  <1> QED BY <1>4, <1>7, <1>8, <1>9 DEF IsPut, c

\* b starts with the header of a packet with function f and a body of n bytes.
HasHead(b, f, n) ==
    /\ b \in Seq(Byte) /\ Len(b) = HdrLen + n
    /\ b[1] = H1 /\ b[2] = H2 /\ b[4] = NoEncryp /\ b[5] = f
    /\ b[7] + 256 * b[8] = n

\* A field that is put into the body leaves the header alone.
LEMMA PutHead ==
  ASSUME NEW b, NEW f, NEW n \in Nat, HasHead(b, f, n),
         NEW o \in Nat, HdrLen <= o, NEW x \in Seq(Byte), o + Len(x) <= HdrLen + n
  PROVE  HasHead(Put(b, o, x), f, n) /\ IsPut(b, o, x, Put(b, o, x))
  <1> DEFINE c == Put(b, o, x)
  <1>1. IsPut(b, o, x, c)
    BY PutIs DEF HasHead
  <1> HIDE DEF c
  <1>2. \A i \in 1 .. o : c[i] = b[i]
    BY <1>1 DEF IsPut
  <1>3. c[1] = b[1] /\ c[2] = b[2] /\ c[4] = b[4] /\ c[5] = b[5] /\ c[7] = b[7] /\ c[8] = b[8]
    BY <1>2 DEF HdrLen
  <1>4. c \in Seq(Byte) /\ Len(c) = Len(b)
    BY <1>1 DEF IsPut
  <1>5. HasHead(c, f, n)
    BY <1>3, <1>4 DEF HasHead
  <1> QED BY <1>1, <1>5 DEF c

\* The start of every serialize().
LEMMA BufferHead ==
  ASSUME NEW f \in DOMAIN Func, NEW n, IsShort(n)
  PROVE  HasHead(Buffer(f, n), Func[f], n)
  <1> DEFINE h == <<H1, H2, 1, NoEncryp, Func[f], 0, 0, 0>>
             z == [i \in 1 .. HdrLen + n |-> 0]
             b == Put(z, 0, h)
             l == Le2(n)
             c == Put(b, 6, l)
  <1>1. n \in Nat
    BY DEF IsShort
  <1>2. H1 \in Byte /\ H2 \in Byte /\ NoEncryp \in Byte /\ 0 \in Byte /\ 1 \in Byte /\ Func[f] \in Byte
    BY Functions DEF H1, H2, NoEncryp, Byte
  <1>3. h \in Seq(Byte) /\ Len(h) = 8
    BY <1>2
  <1>4. h[1] = H1 /\ h[2] = H2 /\ h[4] = NoEncryp /\ h[5] = Func[f]
    OBVIOUS
  <1>5. z \in Seq(Byte) /\ Len(z) = HdrLen + n
    <2>1. z \in [1 .. HdrLen + n -> Byte] /\ HdrLen + n \in Nat
      BY <1>1, <1>2 DEF HdrLen
    <2> QED BY <2>1, SeqDef, LenProperties
  <1>6. l \in Seq(Byte) /\ Len(l) = 2 /\ l[1] + 256 * l[2] = n
    BY Shorts DEF UnLe2
  <1> HIDE DEF h, z, l
  <1>7. IsPut(z, 0, h, b)
    <2>1. 0 + Len(h) <= Len(z)
      BY <1>1, <1>3, <1>5 DEF HdrLen
    <2> QED BY <1>3, <1>5, <2>1, PutIs
  <1>8. b \in Seq(Byte) /\ Len(b) = HdrLen + n /\ Bytes(b, 0, 8) = h
    BY <1>3, <1>5, <1>7 DEF IsPut
  <1> HIDE DEF b
  <1>9. \A i \in 1 .. 8 : h[i] = b[0 + i]
    <2>1. b \in Seq(Byte) /\ 0 + 8 <= Len(b)
      BY <1>1, <1>8 DEF HdrLen
    <2>2. \A i \in 1 .. 8 : Bytes(b, 0, 8)[i] = b[0 + i]
      BY <2>1, Part
    <2> QED BY <1>8, <2>2
  <1>10. IsPut(b, 6, l, c)
    <2>1. 6 + Len(l) <= Len(b)
      BY <1>1, <1>6, <1>8 DEF HdrLen
    <2> QED BY <1>6, <1>8, <2>1, PutIs
  <1>11. c \in Seq(Byte) /\ Len(c) = HdrLen + n /\ Bytes(c, 6, 2) = l
    BY <1>6, <1>8, <1>10 DEF IsPut
  <1>12. \A i \in 1 .. 6 : c[i] = b[i]
    BY <1>10 DEF IsPut
  <1> HIDE DEF c
  <1>13. \A i \in 1 .. 2 : l[i] = c[6 + i]
    <2>1. c \in Seq(Byte) /\ 6 + 2 <= Len(c)
      BY <1>1, <1>11 DEF HdrLen
    <2>2. \A i \in 1 .. 2 : Bytes(c, 6, 2)[i] = c[6 + i]
      BY <2>1, Part
    <2> QED BY <1>11, <2>2
  <1>14. c[7] + 256 * c[8] = n
    BY <1>6, <1>13
  <1>15. c[1] = H1 /\ c[2] = H2 /\ c[4] = NoEncryp /\ c[5] = Func[f]
    BY <1>4, <1>9, <1>12
  <1>16. HasHead(c, Func[f], n)
    BY <1>11, <1>14, <1>15 DEF HasHead
  <1> QED BY <1>16 DEF Buffer, c, b, z, h, l

\* What the client sees of a packet with such a header.
LEMMA HeadIsPacket ==
  ASSUME NEW b, NEW f, NEW n \in Nat, HasHead(b, f, n)
  PROVE  /\ IsPacket(b) /\ PacketOf(b) = Reply(f, SubSeq(b, HdrLen + 1, Len(b)))
         /\ SubSeq(b, HdrLen + 1, Len(b)) = Bytes(b, HdrLen, n)
         /\ \A o, w \in Nat : o + w <= n => Bytes(Bytes(b, HdrLen, n), o, w) = Bytes(b, HdrLen + o, w)
  <1>1. b \in Seq(Byte) /\ Len(b) = HdrLen + n /\ Len(b) >= HdrLen /\ HdrLen \in Nat
    BY DEF HasHead, HdrLen
  <1>0. Hdr(b) = [h1 |-> b[1], h2 |-> b[2], prt |-> b[3], svr |-> b[4], func |-> b[5], key |-> b[6],
                  len |-> b[7] + 256 * b[8]]
    BY <1>1, HdrIs
  <1>2. /\ Hdr(b).h1 = H1 /\ Hdr(b).h2 = H2 /\ Hdr(b).svr = NoEncryp
        /\ Hdr(b).func = f /\ Hdr(b).len = n
    BY <1>0 DEF HasHead
  <1>3. IsPacket(b) /\ PacketOf(b) = Reply(f, SubSeq(b, HdrLen + 1, Len(b)))
    BY <1>1, <1>2 DEF IsPacket, PacketOf, CheckHead
  <1>4. SubSeq(b, HdrLen + 1, Len(b)) = Bytes(b, HdrLen, n)
    BY <1>1 DEF Bytes
  <1>6. ASSUME NEW o \in Nat, NEW w \in Nat, o + w <= n
        PROVE  Bytes(Bytes(b, HdrLen, n), o, w) = Bytes(b, HdrLen + o, w)
    <2>1. HdrLen + n <= Len(b)
      BY <1>1
    <2>2. b \in Seq(Byte) /\ HdrLen \in Nat
      BY <1>1
    <2> QED BY <1>6, <2>1, <2>2, Nested
  <1> QED BY <1>3, <1>4, <1>6

\* A field of w bytes is put behind those that are there.
IsField(b, o, w, x, c) ==
    /\ Bytes(c, o, w) = x
    /\ \A p, k \in Nat : p + k <= o => Bytes(c, p, k) = Bytes(b, p, k)

LEMMA PutField ==
  ASSUME NEW b, NEW f, NEW n \in Nat, HasHead(b, f, n), NEW o \in Nat, 8 <= o,
         NEW x \in Seq(Byte), NEW w \in Nat, Len(x) = w, o + w <= 8 + n
  PROVE  HasHead(Put(b, o, x), f, n) /\ IsField(b, o, w, x, Put(b, o, x))
  <1> DEFINE c == Put(b, o, x)
  <1>1. HasHead(c, f, n) /\ IsPut(b, o, x, c)
    BY PutHead DEF HdrLen
  <1> HIDE DEF c
  <1>2. o <= Len(b) /\ Len(b) \in Nat
    BY DEF HasHead, HdrLen
  <1>3. ASSUME NEW p \in Nat, NEW k \in Nat, p + k <= o PROVE Bytes(c, p, k) = Bytes(b, p, k)
    BY <1>1, <1>2, <1>3 DEF IsPut
  <1>4. Bytes(c, o, w) = x
    BY <1>1 DEF IsPut
  <1> QED BY <1>1, <1>3, <1>4 DEF IsField, c

LEMMA PutByte ==
  ASSUME NEW b, NEW f, NEW n \in Nat, HasHead(b, f, n), NEW o \in Nat, 8 <= o, o + 1 <= 8 + n, NEW v \in Byte
  PROVE  HasHead(Put(b, o, <<v>>), f, n) /\ IsField(b, o, 1, <<v>>, Put(b, o, <<v>>))
  <1> DEFINE x == <<v>>
  <1>1. x \in Seq(Byte) /\ Len(x) = 1
    BY OneByte
  <1> HIDE DEF x
  <1>2. HasHead(Put(b, o, x), f, n) /\ IsField(b, o, 1, x, Put(b, o, x))
    BY <1>1, PutField
  <1> QED BY <1>2 DEF x

LEMMA PutShort ==
  ASSUME NEW b, NEW f, NEW n \in Nat, HasHead(b, f, n), NEW o \in Nat, 8 <= o, o + 2 <= 8 + n, NEW v, IsShort(v)
  PROVE  HasHead(Put(b, o, Le2(v)), f, n) /\ IsField(b, o, 2, Le2(v), Put(b, o, Le2(v)))
  BY Shorts, PutField

LEMMA PutLong ==
  ASSUME NEW b, NEW f, NEW n \in Nat, HasHead(b, f, n), NEW o \in Nat, 8 <= o, o + 4 <= 8 + n, NEW v, IsLong(v)
  PROVE  HasHead(Put(b, o, Le4(v)), f, n) /\ IsField(b, o, 4, Le4(v), Put(b, o, Le4(v)))
  BY Longs, PutField

LEMMA Kept ==
  ASSUME NEW b, NEW o, NEW w, NEW x, NEW c, IsField(b, o, w, x, c), NEW p \in Nat, NEW k \in Nat, p + k <= o
  PROVE  Bytes(c, p, k) = Bytes(b, p, k)
  BY DEF IsField

\* A field of the body, in the packet.
LEMMA InBody ==
  ASSUME NEW b, NEW f, NEW n \in Nat, HasHead(b, f, n), NEW o \in Nat, NEW w \in Nat, o + w <= n
  PROVE  Bytes(Bytes(b, HdrLen, n), o, w) = Bytes(b, 8 + o, w)
  BY HeadIsPacket DEF HdrLen

\* The client reads the packet of m as m.
Legible(m) == IsPacket(Serialize(m)) /\ PacketOf(Serialize(m)) = m

LEMMA LoginLegible ==
  ASSUME NEW e \in Byte, NEW i, IsLong(i),
         NEW m, m = [func |-> "LOGIN", err |-> e, id |-> i]
  PROVE  Legible(m)
  <1> DEFINE b0 == Buffer("LOGIN", 5)
             b1 == Put(b0, 8, <<e>>)
             b2 == Put(b1, 9, Le4(i))
             y == Bytes(b2, HdrLen, 5)
  <1>1. UnLe4(Le4(i)) = i
    BY Longs
  <1>2. HasHead(b0, 1, 5)
    BY BufferHead DEF IsShort, Func
  <1>3. Serialize(m) = b2
    BY DEF Serialize, SerializeLogin
  <1> HIDE DEF b0
  <1>4. HasHead(b1, 1, 5) /\ IsField(b0, 8, 1, <<e>>, b1)
    BY <1>2, PutByte
  <1> HIDE DEF b1
  <1>5. HasHead(b2, 1, 5) /\ IsField(b1, 9, 4, Le4(i), b2)
    BY <1>4, PutLong
  <1> HIDE DEF b2
  <1>6. /\ Bytes(b2, 8, 1) = <<e>>
        /\ Bytes(b2, 9, 4) = Le4(i)
    <2>1. /\ Bytes(b2, 8, 1) = Bytes(b1, 8, 1)
      BY <1>5, Kept
    <2> QED BY <1>4, <1>5, <2>1 DEF IsField
  <1>7. IsPacket(b2) /\ PacketOf(b2) = Reply(1, y)
    BY <1>5, HeadIsPacket
  <1>8. /\ Bytes(y, 0, 1) = Bytes(b2, 8 + 0, 1)
        /\ Bytes(y, 1, 4) = Bytes(b2, 8 + 1, 4)
    BY <1>5, InBody
  <1> HIDE DEF y
  <1>9. Reply(1, y) = [func |-> "LOGIN", err |-> Bytes(y, 0, 1)[1], id |-> UnLe4(Bytes(y, 1, 4))]
    BY DEF Reply, Func, Field, Offset
  <1>10. /\ Bytes(y, 0, 1)[1] = e
         /\ UnLe4(Bytes(y, 1, 4)) = i
    BY <1>1, <1>6, <1>8
  <1> QED BY <1>3, <1>7, <1>9, <1>10 DEF Legible

LEMMA ProxyLegible ==
  ASSUME NEW e \in Byte, NEW u, IsLong(u), NEW a, IsLong(a), NEW q, IsShort(q),
         NEW m, m = [func |-> "PROXY", err |-> e, udp |-> u, addr |-> a, port |-> q]
  PROVE  Legible(m)
  <1> DEFINE b0 == Buffer("PROXY", 11)
             b1 == Put(b0, 8, <<e>>)
             b2 == Put(b1, 9, Le4(u))
             b3 == Put(b2, 13, Le4(a))
             b4 == Put(b3, 17, Le2(Htons(q)))
             y == Bytes(b4, HdrLen, 11)
  <1>1. UnLe4(Le4(u)) = u /\ UnLe4(Le4(a)) = a /\ IsShort(Htons(q)) /\ Be(Le2(Htons(q))) = q
    BY Longs, Shorts
  <1>2. HasHead(b0, 2, 11)
    BY BufferHead DEF IsShort, Func
  <1>3. Serialize(m) = b4
    BY DEF Serialize, SerializeProxy
  <1> HIDE DEF b0
  <1>4. HasHead(b1, 2, 11) /\ IsField(b0, 8, 1, <<e>>, b1)
    BY <1>2, PutByte
  <1> HIDE DEF b1
  <1>5. HasHead(b2, 2, 11) /\ IsField(b1, 9, 4, Le4(u), b2)
    BY <1>4, PutLong
  <1> HIDE DEF b2
  <1>6. HasHead(b3, 2, 11) /\ IsField(b2, 13, 4, Le4(a), b3)
    BY <1>5, PutLong
  <1> HIDE DEF b3
  <1>7. HasHead(b4, 2, 11) /\ IsField(b3, 17, 2, Le2(Htons(q)), b4)
    BY <1>1, <1>6, PutShort
  <1> HIDE DEF b4
  <1>8. /\ Bytes(b4, 8, 1) = <<e>>
        /\ Bytes(b4, 9, 4) = Le4(u)
        /\ Bytes(b4, 13, 4) = Le4(a)
        /\ Bytes(b4, 17, 2) = Le2(Htons(q))
    <2>1. /\ Bytes(b2, 8, 1) = Bytes(b1, 8, 1)
          /\ Bytes(b3, 8, 1) = Bytes(b2, 8, 1)
          /\ Bytes(b4, 8, 1) = Bytes(b3, 8, 1)
      BY <1>5, <1>6, <1>7, Kept
    <2>2. /\ Bytes(b3, 9, 4) = Bytes(b2, 9, 4)
          /\ Bytes(b4, 9, 4) = Bytes(b3, 9, 4)
      BY <1>6, <1>7, Kept
    <2>3. /\ Bytes(b4, 13, 4) = Bytes(b3, 13, 4)
      BY <1>7, Kept
    <2> QED BY <1>4, <1>5, <1>6, <1>7, <2>1, <2>2, <2>3 DEF IsField
  <1>9. IsPacket(b4) /\ PacketOf(b4) = Reply(2, y)
    BY <1>7, HeadIsPacket
  <1>10. /\ Bytes(y, 0, 1) = Bytes(b4, 8 + 0, 1)
         /\ Bytes(y, 1, 4) = Bytes(b4, 8 + 1, 4)
         /\ Bytes(y, 5, 4) = Bytes(b4, 8 + 5, 4)
         /\ Bytes(y, 9, 2) = Bytes(b4, 8 + 9, 2)
    BY <1>7, InBody
  <1> HIDE DEF y
  <1>11. Reply(2, y) = [func |-> "PROXY", err |-> Bytes(y, 0, 1)[1], udp |-> UnLe4(Bytes(y, 1, 4)),
                        addr |-> UnLe4(Bytes(y, 5, 4)), port |-> Be(Bytes(y, 9, 2))]
    BY DEF Reply, Func, Field, Offset
  <1>12. /\ Bytes(y, 0, 1)[1] = e
         /\ UnLe4(Bytes(y, 1, 4)) = u
         /\ UnLe4(Bytes(y, 5, 4)) = a
         /\ Be(Bytes(y, 9, 2)) = q
    BY <1>1, <1>8, <1>10
  <1> QED BY <1>3, <1>9, <1>11, <1>12 DEF Legible

LEMMA AccessLegible ==
  ASSUME NEW s, IsLong(s), NEW u, IsLong(u), NEW a, IsLong(a), NEW q, IsShort(q), NEW t, IsLong(t),
         NEW m, m = [func |-> "ACCESS", src |-> s, udp |-> u, addr |-> a, port |-> q, private |-> t]
  PROVE  Legible(m)
  <1> DEFINE b0 == Buffer("ACCESS", 18)
             b1 == Put(b0, 8, Le4(s))
             b2 == Put(b1, 12, Le4(u))
             b3 == Put(b2, 16, Le4(a))
             b4 == Put(b3, 20, Le2(Htons(q)))
             b5 == Put(b4, 22, Le4(t))
             y == Bytes(b5, HdrLen, 18)
  <1>1. UnLe4(Le4(s)) = s /\ UnLe4(Le4(u)) = u /\ UnLe4(Le4(a)) = a /\ IsShort(Htons(q)) /\ Be(Le2(Htons(q))) = q /\ UnLe4(Le4(t)) = t
    BY Longs, Shorts
  <1>2. HasHead(b0, 4, 18)
    BY BufferHead DEF IsShort, Func
  <1>3. Serialize(m) = b5
    BY DEF Serialize, SerializeAccess
  <1> HIDE DEF b0
  <1>4. HasHead(b1, 4, 18) /\ IsField(b0, 8, 4, Le4(s), b1)
    BY <1>2, PutLong
  <1> HIDE DEF b1
  <1>5. HasHead(b2, 4, 18) /\ IsField(b1, 12, 4, Le4(u), b2)
    BY <1>4, PutLong
  <1> HIDE DEF b2
  <1>6. HasHead(b3, 4, 18) /\ IsField(b2, 16, 4, Le4(a), b3)
    BY <1>5, PutLong
  <1> HIDE DEF b3
  <1>7. HasHead(b4, 4, 18) /\ IsField(b3, 20, 2, Le2(Htons(q)), b4)
    BY <1>1, <1>6, PutShort
  <1> HIDE DEF b4
  <1>8. HasHead(b5, 4, 18) /\ IsField(b4, 22, 4, Le4(t), b5)
    BY <1>7, PutLong
  <1> HIDE DEF b5
  <1>9. /\ Bytes(b5, 8, 4) = Le4(s)
        /\ Bytes(b5, 12, 4) = Le4(u)
        /\ Bytes(b5, 16, 4) = Le4(a)
        /\ Bytes(b5, 20, 2) = Le2(Htons(q))
        /\ Bytes(b5, 22, 4) = Le4(t)
    <2>1. /\ Bytes(b2, 8, 4) = Bytes(b1, 8, 4)
          /\ Bytes(b3, 8, 4) = Bytes(b2, 8, 4)
          /\ Bytes(b4, 8, 4) = Bytes(b3, 8, 4)
          /\ Bytes(b5, 8, 4) = Bytes(b4, 8, 4)
      BY <1>5, <1>6, <1>7, <1>8, Kept
    <2>2. /\ Bytes(b3, 12, 4) = Bytes(b2, 12, 4)
          /\ Bytes(b4, 12, 4) = Bytes(b3, 12, 4)
          /\ Bytes(b5, 12, 4) = Bytes(b4, 12, 4)
      BY <1>6, <1>7, <1>8, Kept
    <2>3. /\ Bytes(b4, 16, 4) = Bytes(b3, 16, 4)
          /\ Bytes(b5, 16, 4) = Bytes(b4, 16, 4)
      BY <1>7, <1>8, Kept
    <2>4. /\ Bytes(b5, 20, 2) = Bytes(b4, 20, 2)
      BY <1>8, Kept
    <2> QED BY <1>4, <1>5, <1>6, <1>7, <1>8, <2>1, <2>2, <2>3, <2>4 DEF IsField
  <1>10. IsPacket(b5) /\ PacketOf(b5) = Reply(4, y)
    BY <1>8, HeadIsPacket
  <1>11. /\ Bytes(y, 0, 4) = Bytes(b5, 8 + 0, 4)
         /\ Bytes(y, 4, 4) = Bytes(b5, 8 + 4, 4)
         /\ Bytes(y, 8, 4) = Bytes(b5, 8 + 8, 4)
         /\ Bytes(y, 12, 2) = Bytes(b5, 8 + 12, 2)
         /\ Bytes(y, 14, 4) = Bytes(b5, 8 + 14, 4)
    BY <1>8, InBody
  <1> HIDE DEF y
  <1>12. Reply(4, y) = [func |-> "ACCESS", src |-> UnLe4(Bytes(y, 0, 4)), udp |-> UnLe4(Bytes(y, 4, 4)),
                        addr |-> UnLe4(Bytes(y, 8, 4)), port |-> Be(Bytes(y, 12, 2)),
                        private |-> UnLe4(Bytes(y, 14, 4))]
    BY DEF Reply, Func, Field, Offset
  <1>13. /\ UnLe4(Bytes(y, 0, 4)) = s
         /\ UnLe4(Bytes(y, 4, 4)) = u
         /\ UnLe4(Bytes(y, 8, 4)) = a
         /\ Be(Bytes(y, 12, 2)) = q
         /\ UnLe4(Bytes(y, 14, 4)) = t
    BY <1>1, <1>9, <1>11
  <1> QED BY <1>3, <1>10, <1>12, <1>13 DEF Legible

LEMMA StopProxyLegible ==
  ASSUME NEW u, IsLong(u), NEW a, IsLong(a), NEW q, IsShort(q),
         NEW m, m = [func |-> "STOPPROXY", udp |-> u, addr |-> a, port |-> q]
  PROVE  Legible(m)
  <1> DEFINE b0 == Buffer("STOPPROXY", 10)
             b1 == Put(b0, 8, Le4(u))
             b2 == Put(b1, 12, Le4(a))
             b3 == Put(b2, 16, Le2(Htons(q)))
             y == Bytes(b3, HdrLen, 10)
  <1>1. UnLe4(Le4(u)) = u /\ UnLe4(Le4(a)) = a /\ IsShort(Htons(q)) /\ Be(Le2(Htons(q))) = q
    BY Longs, Shorts
  <1>2. HasHead(b0, 5, 10)
    BY BufferHead DEF IsShort, Func
  <1>3. Serialize(m) = b3
    BY DEF Serialize, SerializeStopProxy
  <1> HIDE DEF b0
  <1>4. HasHead(b1, 5, 10) /\ IsField(b0, 8, 4, Le4(u), b1)
    BY <1>2, PutLong
  <1> HIDE DEF b1
  <1>5. HasHead(b2, 5, 10) /\ IsField(b1, 12, 4, Le4(a), b2)
    BY <1>4, PutLong
  <1> HIDE DEF b2
  <1>6. HasHead(b3, 5, 10) /\ IsField(b2, 16, 2, Le2(Htons(q)), b3)
    BY <1>1, <1>5, PutShort
  <1> HIDE DEF b3
  <1>7. /\ Bytes(b3, 8, 4) = Le4(u)
        /\ Bytes(b3, 12, 4) = Le4(a)
        /\ Bytes(b3, 16, 2) = Le2(Htons(q))
    <2>1. /\ Bytes(b2, 8, 4) = Bytes(b1, 8, 4)
          /\ Bytes(b3, 8, 4) = Bytes(b2, 8, 4)
      BY <1>5, <1>6, Kept
    <2>2. /\ Bytes(b3, 12, 4) = Bytes(b2, 12, 4)
      BY <1>6, Kept
    <2> QED BY <1>4, <1>5, <1>6, <2>1, <2>2 DEF IsField
  <1>8. IsPacket(b3) /\ PacketOf(b3) = Reply(5, y)
    BY <1>6, HeadIsPacket
  <1>9. /\ Bytes(y, 0, 4) = Bytes(b3, 8 + 0, 4)
        /\ Bytes(y, 4, 4) = Bytes(b3, 8 + 4, 4)
        /\ Bytes(y, 8, 2) = Bytes(b3, 8 + 8, 2)
    BY <1>6, InBody
  <1> HIDE DEF y
  <1>10. Reply(5, y) = [func |-> "STOPPROXY", udp |-> UnLe4(Bytes(y, 0, 4)), addr |-> UnLe4(Bytes(y, 4, 4)),
                        port |-> Be(Bytes(y, 8, 2))]
    BY DEF Reply, Func, Field, Offset
  <1>11. /\ UnLe4(Bytes(y, 0, 4)) = u
         /\ UnLe4(Bytes(y, 4, 4)) = a
         /\ Be(Bytes(y, 8, 2)) = q
    BY <1>1, <1>7, <1>9
  <1> QED BY <1>3, <1>8, <1>10, <1>11 DEF Legible

LEMMA GetProxiesLegible ==
  ASSUME NEW l \in Seq(Byte), IsShort(Len(l)), NEW m, m = [func |-> "GETPROXIES", list |-> l]
  PROVE  Legible(m)
  <1> DEFINE n == Len(l)
             b0 == Buffer("GETPROXIES", n)
             b1 == Put(b0, 8, l)
             y == Bytes(b1, HdrLen, n)
  <1>1. n \in Nat
    BY LenProperties
  <1>2. HasHead(b0, 3, n)
    BY BufferHead DEF Func
  <1>3. Serialize(m) = b1
    BY DEF Serialize, SerializeGetProxies
  <1> HIDE DEF b0
  <1>4. HasHead(b1, 3, n) /\ IsField(b0, 8, n, l, b1)
    BY <1>1, <1>2, PutField
  <1> HIDE DEF b1
  <1>5. y = l
    BY <1>4 DEF IsField, HdrLen
  <1>6. IsPacket(b1) /\ PacketOf(b1) = Reply(3, y)
    BY <1>1, <1>4, HeadIsPacket
  <1>7. Reply(3, y) = [func |-> "GETPROXIES", list |-> y]
    BY DEF Reply, Func
  <1> QED BY <1>3, <1>5, <1>6, <1>7 DEF Legible

\* Every message that the server writes is read as it was meant.
THEOREM RepliesLegible == \A m \in Messages : Legible(m)
  <1> SUFFICES ASSUME NEW m \in Messages PROVE Legible(m)
    OBVIOUS
  <1>1. /\ ErrCode["SUCCESS"] \in Byte /\ ErrCode["REPEAT"] \in Byte
        /\ ErrCode["FAILED"] \in Byte /\ ErrCode["CREATE_UDP"] \in Byte
    BY DEF ErrCode, Byte
  <1>2. IsLong(0) /\ IsShort(0)
    BY DEF IsLong, IsShort, Byte
  <1>3. CASE m \in Notices
    <2>1. CASE /\ m \in [func : {"ACCESS"}, src : Nat, udp : Nat, addr : Nat, port : Nat, private : Nat]
               /\ IsEnd(m) /\ IsLong(m.src) /\ IsLong(m.private)
      <3>1. m = [func |-> "ACCESS", src |-> m.src, udp |-> m.udp, addr |-> m.addr, port |-> m.port,
                 private |-> m.private]
        BY <2>1
      <3>2. IsLong(m.udp) /\ IsLong(m.addr) /\ IsShort(m.port)
        BY <2>1 DEF IsEnd
      <3> QED BY <2>1, <3>1, <3>2, AccessLegible
    <2>2. CASE m \in [func : {"STOPPROXY"}, udp : Nat, addr : Nat, port : Nat] /\ IsEnd(m)
      <3>1. m = [func |-> "STOPPROXY", udp |-> m.udp, addr |-> m.addr, port |-> m.port]
        BY <2>2
      <3>2. IsLong(m.udp) /\ IsLong(m.addr) /\ IsShort(m.port)
        BY <2>2 DEF IsEnd
      <3> QED BY <3>1, <3>2, StopProxyLegible
    <2> QED BY <1>3, <2>1, <2>2, NoticesAssumption
  <1>4. ASSUME NEW e \in {"SUCCESS", "REPEAT", "FAILED"}, NEW i \in SessionIds \cup {0}, m = LoginReply(e, i)
        PROVE  Legible(m)
    <2>1. ErrCode[e] \in Byte /\ IsLong(i)
      BY <1>1, <1>2, IdsAssumption
    <2>2. m = [func |-> "LOGIN", err |-> ErrCode[e], id |-> i]
      BY <1>4 DEF LoginReply
    <2> QED BY <2>1, <2>2, LoginLegible
  <1>5. CASE m = NoProxy
    <2>1. m = [func |-> "PROXY", err |-> ErrCode["CREATE_UDP"], udp |-> 0, addr |-> 0, port |-> 0]
      BY <1>5 DEF NoProxy, ProxyReply
    <2> QED BY <1>1, <1>2, <2>1, ProxyLegible
  <1>6. ASSUME NEW e \in Ends, m = ProxyOn(e) PROVE Legible(m)
    <2>1. IsLong(e.udp) /\ IsLong(e.addr) /\ IsShort(e.port)
      BY EndsAssumption DEF IsEnd
    <2>2. m = [func |-> "PROXY", err |-> ErrCode["SUCCESS"], udp |-> e.udp, addr |-> e.addr, port |-> e.port]
      BY <1>6 DEF ProxyOn, ProxyReply
    <2> QED BY <1>1, <2>1, <2>2, ProxyLegible
  <1>7. ASSUME NEW l \in Listings, m = Listing(l) PROVE Legible(m)
    <2>1. l \in Seq(Byte) /\ IsShort(Len(l))
      BY ListingsAssumption
    <2>2. m = [func |-> "GETPROXIES", list |-> l]
      BY <1>7 DEF Listing
    <2> QED BY <2>1, <2>2, GetProxiesLegible
  <1> QED BY <1>3, <1>4, <1>5, <1>6, <1>7 DEF Messages

(***************************************************************************)
(* The write queue of the connection: what WriteQueueProofs shows of it.   *)
(***************************************************************************)

QP == INSTANCE WriteQueueProofs

\* What the client's requests may be handled as.
Heards == UNION {Hearable(r) : r \in Requests}

\* The types of what the session keeps and of the histories.
Types ==
    /\ sent \in Seq(Requests \cup {Foreign})
    /\ stream \in Seq(Byte)
    /\ cuts \in Seq(Nat)
    /\ pos \in Nat
    /\ logined \in BOOLEAN
    /\ id \in SessionIds \cup {0}
    /\ handled \in Seq(Heards)

QueueInv == QP!Inv /\ QP!Delivered

\* What the handlers write is a message.
LEMMA AreMessages ==
  ASSUME Types
  PROVE  /\ \A m \in Notices : m \in Messages
         /\ \A i \in SessionIds : LoginReply("SUCCESS", i) \in Messages
         /\ LoginReply("FAILED", 0) \in Messages
         /\ LoginReply("REPEAT", id) \in Messages
         /\ NoProxy \in Messages
         /\ \A e \in Ends : ProxyOn(e) \in Messages
         /\ \A l \in Listings : Listing(l) \in Messages
  BY DEF Messages, Types

\* Of a step the queue sees one of its own steps or nothing.
LEMMA QueueStep == Types /\ Types' /\ [Next]_vars => [QP!Next]_(QP!vars)
  <1> SUFFICES ASSUME Types, Types', [Next]_vars PROVE [QP!Next]_(QP!vars)
    OBVIOUS
  <1>1. ASSUME NEW m \in Messages, Q!DoWrite(m) PROVE QP!Next
    <2>1. QP!DoWrite(m)
      BY <1>1 DEF Q!DoWrite, QP!DoWrite
    <2> QED BY <2>1 DEF QP!Next
  <1>2. CASE UNCHANGED queueVars
    BY <1>2 DEF queueVars, QP!vars
  <1>3. CASE Q!Disconnect
    BY <1>3 DEF Q!Disconnect, QP!Disconnect, QP!Next
  <1>4. CASE Q!WriteImpl
    BY <1>4 DEF Q!WriteImpl, Q!Write, QP!WriteImpl, QP!Write, QP!Next
  <1>5. CASE Q!OnWriteComplete
    BY <1>5 DEF Q!OnWriteComplete, Q!Write, QP!OnWriteComplete, QP!Write, QP!Next
  <1>6. CASE Q!Sent \/ Q!SentNowhere \/ Q!SendError
    BY <1>6 DEF Q!Sent, QP!Sent, Q!SentNowhere, QP!SentNowhere, Q!SendError, QP!SendError, QP!Next
  <1>7. CASE UNCHANGED vars
    BY <1>2, <1>7 DEF vars
  <1>8. CASE Lost \/ OnReadNoBody
    BY <1>3, <1>8 DEF Lost, OnReadNoBody, Stop
  <1>9. ASSUME NEW r \in Requests \cup {Foreign}, Send(r) PROVE [QP!Next]_(QP!vars)
    BY <1>2, <1>9 DEF Send
  <1>10. ASSUME NEW m \in Notices, Notify(m) PROVE [QP!Next]_(QP!vars)
    BY <1>1, <1>10, AreMessages DEF Notify
  <1>11. CASE OnReadHead
    BY <1>2, <1>3, <1>11 DEF OnReadHead, Stop
  <1>12. CASE OnReadBody
    <2> SUFFICES ASSUME NEW req, Dispatch(req) PROVE [QP!Next]_(QP!vars)
      BY <1>2, <1>12 DEF OnReadBody
    <2>2. CASE OnReqLogin(req)
      <3>1. CASE \E i \in SessionIds : Q!DoWrite(LoginReply("SUCCESS", i))
        BY <1>1, <3>1, AreMessages
      <3>2. CASE Q!DoWrite(LoginReply("FAILED", 0)) \/ Q!DoWrite(LoginReply("REPEAT", id))
        BY <1>1, <3>2, AreMessages
      <3> QED BY <2>2, <3>1, <3>2 DEF OnReqLogin
    <2>3. CASE OnReqProxy
      BY <1>1, <1>2, <2>3, AreMessages DEF OnReqProxy
    <2>4. CASE OnReqGetProxies
      BY <1>1, <2>4, AreMessages DEF OnReqGetProxies
    <2> QED BY <1>2, <2>2, <2>3, <2>4 DEF Dispatch
  <1>13. CASE Write \/ Network
    BY <1>4, <1>5, <1>6, <1>13 DEF Write, Network
  <1> QED BY <1>7, <1>8, <1>9, <1>10, <1>11, <1>12, <1>13 DEF Next, Read

LEMMA InitQueue == Init => QueueInv
  <1>1. Q!Init => QP!Init
    BY DEF Q!Init, QP!Init
  <1> QED BY <1>1, QP!InitInv, QP!InitDelivered DEF Init, QueueInv

LEMMA StepQueue == QueueInv /\ Types /\ Types' /\ [Next]_vars => QueueInv'
  BY QueueStep, QP!StepInv, QP!StepDelivered DEF QueueInv

(***************************************************************************)
(* Reading: the stream is cut where the client's packets end.              *)
(***************************************************************************)

\* A request of the client, its packet and what becomes of it.
LEMMA RequestFacts ==
  ASSUME NEW r \in Requests
  PROVE  /\ Encoded(r) = Request(r) /\ Request(r) \in Seq(Byte)
         /\ Len(Body(r)) \in Nat /\ Len(Request(r)) = HdrLen + Len(Body(r))
         /\ CheckHead(Hdr(Request(r))) /\ Hdr(Request(r)).len = Len(Body(r))
         /\ Hdr(Request(r)).func = Func[r.func]
         /\ Deserialize(Hdr(Request(r)), Request(r)) = Outcome(r)
         /\ r.func \in {"HEARTBEAT", "LOGIN", "PROXY", "GETPROXIES"} /\ r # Foreign
         /\ \A h \in Hearable(r) : h.func = r.func /\ h # LengthError
  <1>1. WellFormed(r) /\ Understood(r)
    BY RequestsAssumption, RequestsUnderstood
  <1>2. r.func \in {"HEARTBEAT", "LOGIN", "PROXY", "GETPROXIES"}
    BY <1>1 DEF WellFormed
  <1>3. Encoded(r) = Request(r) /\ r # Foreign
    BY <1>2 DEF Encoded, Foreign
  <1>4. Body(r) \in Seq(Byte) /\ Framed(Request(r), Func[r.func], Body(r))
    BY <1>1 DEF Understood
  <1>5. CheckHead(Hdr(Request(r))) /\ Hdr(Request(r)).len = Len(Body(r)) /\ Hdr(Request(r)).func = Func[r.func]
    BY <1>4, FramedHdr
  <1>6. Heard(r).func = r.func
    <2>1. CASE r.func = "LOGIN"
      <3>1. r \in [func : {"LOGIN"}, guid : Seq(Byte), addr : Nat, type : Byte]
        BY <1>1, <2>1 DEF WellFormed
      <3> QED BY <2>1, <3>1 DEF Heard, Meaning, NoLogin
    <2>2. CASE r.func = "PROXY"
      <3>1. r \in [func : {"PROXY"}, id : Nat, dst : Nat, game : Seq(Byte)]
        BY <1>1, <2>2 DEF WellFormed
      <3> QED BY <2>2, <3>1 DEF Heard, Meaning
    <2>3. CASE r.func \in {"HEARTBEAT", "GETPROXIES"}
      BY <2>3 DEF Heard, Overlong, Meaning
    <2> QED BY <1>2, <2>1, <2>2, <2>3
  <1>7. ASSUME NEW h \in Hearable(r) PROVE h.func = r.func /\ h # LengthError
    <2>1. h = Heard(r) \/ h = [func |-> r.func]
      BY <1>7 DEF Hearable
    <2>2. h.func = r.func
      BY <1>6, <2>1
    <2> QED BY <1>2, <2>2 DEF LengthError
  <1> QED BY <1>1, <1>2, <1>3, <1>4, <1>5, <1>7, LenProperties DEF Framed, Understood

\* Bytes that are no packet are told by their header.
LEMMA ForeignFacts ==
  /\ Encoded(Foreign) \in Seq(Byte) /\ Len(Encoded(Foreign)) = HdrLen
  /\ ~CheckHead(Hdr(Encoded(Foreign)))
  <1> DEFINE z == [i \in 1 .. HdrLen |-> 1]
  <1>1. Encoded(Foreign) = z
    BY DEF Encoded, Foreign
  <1>2. z \in [1 .. HdrLen -> Byte] /\ HdrLen \in Nat
    BY DEF HdrLen, Byte
  <1>3. z \in Seq(Byte) /\ Len(z) = HdrLen
    BY <1>2, SeqDef, LenProperties
  <1>4. z[1] = 1
    BY DEF HdrLen
  <1> HIDE DEF z
  <1>5. Hdr(z).h1 = z[1]
    BY DEF Hdr
  <1>6. ~CheckHead(Hdr(z))
    BY <1>4, <1>5 DEF CheckHead, H1
  <1> QED BY <1>1, <1>3, <1>6

LEMMA EncodedIsBytes ==
  ASSUME NEW r \in Requests \cup {Foreign}
  PROVE  Encoded(r) \in Seq(Byte) /\ Len(Encoded(r)) \in Nat /\ HdrLen <= Len(Encoded(r))
  <1>1. CASE r \in Requests
    BY <1>1, RequestFacts DEF HdrLen
  <1>2. CASE r = Foreign
    BY <1>2, ForeignFacts DEF HdrLen
  <1> QED BY <1>1, <1>2

\* The stream is the requests one behind the other, and cuts is where they end.
Place(i) ==
    /\ cuts[i] \in Nat
    /\ cuts[i + 1] = cuts[i] + Len(Encoded(sent[i]))
    /\ cuts[i + 1] <= Len(stream)
    /\ Bytes(stream, cuts[i], Len(Encoded(sent[i]))) = Encoded(sent[i])

LaidOut ==
    /\ Len(cuts) = Len(sent) + 1
    /\ cuts[1] = 0
    /\ cuts[Len(sent) + 1] = Len(stream)
    /\ \A i \in 1 .. Len(sent) : Place(i)

LEMMA SendLaidOut ==
  ASSUME Types, LaidOut, NEW r \in Requests \cup {Foreign}, Send(r)
  PROVE  /\ sent' \in Seq(Requests \cup {Foreign}) /\ IsPush(sent, r, sent')
         /\ stream' \in Seq(Byte)
         /\ cuts' \in Seq(Nat) /\ \A i \in 1 .. Len(sent) + 1 : cuts'[i] = cuts[i]
         /\ LaidOut'
  <1> DEFINE x == Encoded(r)
  <1>1. x \in Seq(Byte) /\ Len(x) \in Nat
    BY EncodedIsBytes
  <1>2. Len(sent) \in Nat /\ Len(cuts) = Len(sent) + 1 /\ Len(stream) \in Nat
    BY LenProperties DEF Types, LaidOut
  <1>3. sent' \in Seq(Requests \cup {Foreign}) /\ IsPush(sent, r, sent')
    BY Push DEF Types, Send
  <1>4. IsJoin(stream, x, stream')
    BY <1>1, Join DEF Types, Send
  <1> HIDE DEF x
  <1>5. stream' \in Seq(Byte) /\ Len(stream') = Len(stream) + Len(x) /\ Len(stream') \in Nat
    BY <1>1, <1>2, <1>4 DEF IsJoin
  <1>6. cuts' \in Seq(Nat) /\ IsPush(cuts, Len(stream'), cuts')
    BY <1>5, Push DEF Types, Send
  <1>7. Len(cuts') = Len(sent') + 1 /\ cuts'[Len(sent') + 1] = Len(stream')
    BY <1>2, <1>3, <1>6 DEF IsPush
  <1>8. \A i \in 1 .. Len(sent) + 1 : cuts'[i] = cuts[i]
    BY <1>2, <1>6 DEF IsPush
  <1>9. cuts'[1] = 0
    BY <1>2, <1>8 DEF LaidOut
  <1>10. ASSUME NEW i \in 1 .. Len(sent) PROVE Place(i)'
    <2> DEFINE n == Len(Encoded(sent[i]))
    <2>1. sent'[i] = sent[i] /\ cuts'[i] = cuts[i] /\ cuts'[i + 1] = cuts[i + 1]
      BY <1>2, <1>3, <1>8 DEF IsPush
    <2>2. Place(i)
      BY DEF LaidOut
    <2>3. sent[i] \in Requests \cup {Foreign}
      BY ElementOfSeq DEF Types
    <2>4. n \in Nat /\ cuts[i] \in Nat /\ cuts[i] + n <= Len(stream)
      BY <2>2, <2>3, EncodedIsBytes DEF Place
    <2> HIDE DEF n
    <2>5. Bytes(stream', cuts[i], n) = Bytes(stream, cuts[i], n)
      BY <1>4, <2>4 DEF IsJoin
    <2>6. cuts'[i + 1] <= Len(stream')
      BY <1>1, <1>2, <1>5, <2>1, <2>2, <2>4 DEF Place, n
    <2> QED BY <2>1, <2>2, <2>5, <2>6 DEF Place, n
  <1>11. ASSUME NEW k, k = Len(sent) + 1 PROVE Place(k)'
    <2>1. sent'[k] = r /\ cuts'[k] = Len(stream) /\ cuts'[k + 1] = Len(stream')
      BY <1>2, <1>3, <1>7, <1>8, <1>11 DEF IsPush, LaidOut
    <2>2. Bytes(stream', Len(stream), Len(x)) = x
      BY <1>4 DEF IsJoin
    <2> QED BY <1>2, <1>5, <2>1, <2>2 DEF Place, x
  <1>12. ASSUME NEW i \in 1 .. Len(sent') PROVE Place(i)'
    <2>1. i \in 1 .. Len(sent) \/ i = Len(sent) + 1
      BY <1>2, <1>3 DEF IsPush
    <2> QED BY <1>10, <1>11, <2>1
  <1>13. LaidOut'
    BY <1>7, <1>9, <1>12 DEF LaidOut
  <1> QED BY <1>3, <1>5, <1>6, <1>8, <1>13

\* Half read: the header of the next request is in _rbuf and _hdr.
HalfRead(k) ==
    /\ k <= Len(sent) /\ sent[k] \in Requests
    /\ rbuf = Bytes(Request(sent[k]), 0, HdrLen)
    /\ hdr = Hdr(Request(sent[k]))
    /\ pos = cuts[k] + HdrLen

\* h is what the session may have made of the request r.
HeardAs(r, h) == h \in Hearable(r) /\ (Wrapping(r) => h = [func |-> "PROXY"])

\* What was handled are the first requests, and the reads stand behind them; the
\* next request ended the thread if any did.
Reading ==
    /\ Len(handled) <= Len(sent)
    /\ \A i \in 1 .. Len(handled) : sent[i] \in Requests /\ HeardAs(sent[i], handled[i])
    /\ rd = "head" => rbuf = <<>> /\ pos = cuts[Len(handled) + 1]
    /\ rd = "body" => HalfRead(Len(handled) + 1)
    /\ rd = "thrown" => Len(handled) < Len(sent) /\ Wrapping(sent[Len(handled) + 1])

ReadInv == Types /\ LaidOut /\ Reading

LEMMA ReadLengths ==
  ASSUME Types
  PROVE  Len(sent) \in Nat /\ Len(handled) \in Nat /\ Len(stream) \in Nat
  BY LenProperties DEF Types

LEMMA InitRead == Init => ReadInv
  <1> SUFFICES ASSUME Init PROVE ReadInv
    OBVIOUS
  <1>4. <<0>> \in Seq(Nat)
    OBVIOUS
  <1>1. Types
    BY <1>4, EmptySeq DEF Init, Types
  <1>2. LaidOut
    <2>1. Len(sent) = 0 /\ Len(stream) = 0 /\ Len(cuts) = 1 /\ cuts[1] = 0
      BY DEF Init
    <2> QED BY <2>1 DEF LaidOut
  <1>3. Reading
    BY DEF Init, Reading
  <1> QED BY <1>1, <1>2, <1>3 DEF ReadInv

\* A request that the client sends comes behind what is read.
LEMMA SendRead ==
  ASSUME ReadInv, NEW r \in Requests \cup {Foreign}, Send(r)
  PROVE  ReadInv'
  <1>1. /\ sent' \in Seq(Requests \cup {Foreign}) /\ IsPush(sent, r, sent')
        /\ stream' \in Seq(Byte)
        /\ cuts' \in Seq(Nat) /\ \A i \in 1 .. Len(sent) + 1 : cuts'[i] = cuts[i]
        /\ LaidOut'
    BY SendLaidOut DEF ReadInv
  <1>2. UNCHANGED <<pos, rbuf, hdr, rd, logined, id, handled>>
    BY DEF Send, stateVars
  <1>3. Types'
    BY <1>1, <1>2 DEF ReadInv, Types
  <1>4. Len(sent) \in Nat /\ Len(handled) \in Nat /\ Len(handled) <= Len(sent)
    BY ReadLengths DEF ReadInv, Reading
  <1>5. Len(handled) <= Len(sent') /\ \A i \in 1 .. Len(handled) : sent'[i] = sent[i]
    BY <1>1, <1>4 DEF IsPush
  <1>6. cuts'[Len(handled) + 1] = cuts[Len(handled) + 1]
    BY <1>1, <1>4
  <1>7. ASSUME NEW k, k = Len(handled) + 1, HalfRead(k) PROVE HalfRead(k)'
    <2>1. k <= Len(sent') /\ sent'[k] = sent[k] /\ cuts'[k] = cuts[k]
      BY <1>1, <1>4, <1>7 DEF IsPush, HalfRead
    <2> QED BY <1>2, <1>7, <2>1 DEF HalfRead
  <1>9. ASSUME NEW k, k = Len(handled) + 1, Len(handled) < Len(sent) PROVE Len(handled) < Len(sent') /\ sent'[k] = sent[k]
    BY <1>1, <1>4, <1>9 DEF IsPush
  <1>8. Reading'
    BY <1>2, <1>5, <1>6, <1>7, <1>9 DEF ReadInv, Reading
  <1> QED BY <1>1, <1>3, <1>8 DEF ReadInv

\* What leaves the reads alone, or ends them.
LEMMA RestRead ==
  ASSUME ReadInv, UNCHANGED <<sentVars, handled>>,
         UNCHANGED <<pos, rbuf, hdr, rd>> \/ (rd' = "none" /\ pos' \in Nat),
         logined' \in BOOLEAN, id' \in SessionIds \cup {0}
  PROVE  ReadInv'
  <1>1. Types'
    BY DEF ReadInv, Types, sentVars
  <1>2. LaidOut'
    BY DEF ReadInv, LaidOut, Place, sentVars
  <1>3. Reading'
    BY DEF ReadInv, Reading, HalfRead, sentVars
  <1> QED BY <1>1, <1>2, <1>3 DEF ReadInv

\* A header is read where a request begins.
LEMMA HeadRead ==
  ASSUME ReadInv, OnReadHead
  PROVE  ReadInv'
  <1> DEFINE k == Len(handled) + 1
             r == sent[k]
             x == Encoded(r)
             b == rbuf \o Taken(HdrLen)
  <1>1. Len(sent) \in Nat /\ Len(handled) \in Nat /\ Len(stream) \in Nat /\ HdrLen = 8
    BY ReadLengths DEF ReadInv, HdrLen
  <1>2. rbuf = <<>> /\ pos = cuts[k] /\ pos + HdrLen <= Len(stream)
    BY DEF OnReadHead, CanTake, ReadInv, Reading
  <1>3. k \in 1 .. Len(sent)
    BY <1>1, <1>2 DEF ReadInv, Reading, LaidOut, Types
  <1>4. Place(k) /\ r \in Requests \cup {Foreign}
    BY <1>3, ElementOfSeq DEF ReadInv, LaidOut, Types
  <1>5. x \in Seq(Byte) /\ Len(x) \in Nat /\ HdrLen <= Len(x)
    BY <1>4, EncodedIsBytes
  <1>6. Bytes(stream, pos, Len(x)) = x /\ pos \in Nat /\ pos + Len(x) <= Len(stream) /\ stream \in Seq(Byte)
    BY <1>2, <1>4 DEF Place, ReadInv, Types
  <1>7. Bytes(stream, pos + 0, HdrLen) = Bytes(x, 0, HdrLen)
    <2>1. 0 + HdrLen <= Len(x) /\ 0 \in Nat /\ HdrLen \in Nat
      BY <1>1, <1>5
    <2> QED BY <1>5, <1>6, <2>1, Nested
  <1>8. Bytes(x, 0, HdrLen) \in Seq(Byte) /\ Hdr(Bytes(x, 0, HdrLen)) = Hdr(x)
    BY <1>5, FrontHdr
  <1>9. b = Bytes(x, 0, HdrLen) /\ Hdr(b) = Hdr(x)
    <2>1. pos + 0 = pos
      BY <1>6
    <2>2. Taken(HdrLen) = Bytes(x, 0, HdrLen)
      BY <1>7, <2>1 DEF Taken
    <2>3. <<>> \o Bytes(x, 0, HdrLen) = Bytes(x, 0, HdrLen)
      BY <1>8, ConcatEmptySeq
    <2> QED BY <1>2, <1>8, <2>2, <2>3
  <1>10. UNCHANGED <<sentVars, stateVars, handled>> /\ pos' = pos + HdrLen /\ pos' \in Nat
    BY <1>1, <1>6 DEF OnReadHead
  <1>11. logined' \in BOOLEAN /\ id' \in SessionIds \cup {0}
    BY <1>10 DEF stateVars, ReadInv, Types
  <1>12. CASE ~CheckHead(Hdr(b))
    <2>1. rd' = "none"
      BY <1>12 DEF OnReadHead, Stop
    <2> QED BY <1>10, <1>11, <2>1, RestRead
  <1>13. CASE CheckHead(Hdr(b))
    <2>1. rbuf' = b /\ hdr' = Hdr(b) /\ rd' = "body"
      BY <1>13 DEF OnReadHead
    <2>2. r \in Requests
      BY <1>4, <1>9, <1>13, ForeignFacts
    <2>3. x = Request(r)
      BY <2>2, RequestFacts
    <2> HIDE DEF b
    <2>4. UNCHANGED <<sent, cuts, stream, handled, logined, id>>
      BY <1>10 DEF sentVars, stateVars
    <2>5. Types' /\ LaidOut'
      BY <1>10, <2>4 DEF ReadInv, Types, LaidOut, Place
    <2>6. ASSUME NEW n, n = k PROVE HalfRead(n)'
      BY <1>2, <1>3, <1>9, <1>10, <2>1, <2>2, <2>3, <2>4, <2>6 DEF HalfRead
    <2>7. Reading'
      BY <2>1, <2>4, <2>6 DEF ReadInv, Reading
    <2> QED BY <2>5, <2>7 DEF ReadInv
  <1> QED BY <1>12, <1>13

\* The handler ran to its end, having made req of the request k.
Handles(k, req) ==
    /\ HeardAs(sent[k], req) /\ Dispatch(req)
    /\ handled' = Append(handled, req)
    /\ rbuf' = <<>> /\ pos' = cuts[k + 1] /\ rd' = "head"

\* The request k made it throw.
Throws(k) ==
    /\ Wrapping(sent[k])
    /\ rd' = "thrown"
    /\ UNCHANGED <<handled, stateVars, queueVars>>

\* A body is read to where the request ends, and the request is handled or throws.
LEMMA BodyIs ==
  ASSUME ReadInv, OnReadBody
  PROVE  LET k == Len(handled) + 1 IN
         /\ k \in 1 .. Len(sent) /\ sent[k] \in Requests
         /\ (\E req : Handles(k, req)) \/ Throws(k)
         /\ pos' \in Nat /\ UNCHANGED sentVars
  <1> DEFINE k == Len(handled) + 1
             r == sent[k]
             x == Request(r)
             n == Len(Body(r))
             b == rbuf \o Taken(hdr.len)
  <1>1. Len(sent) \in Nat /\ Len(handled) \in Nat /\ Len(stream) \in Nat /\ HdrLen = 8
    BY ReadLengths DEF ReadInv, HdrLen
  <1>2. HalfRead(k)
    BY DEF OnReadBody, ReadInv, Reading
  <1>3. k \in 1 .. Len(sent) /\ r \in Requests
    BY <1>1, <1>2 DEF HalfRead
  <1>4. /\ Encoded(r) = x /\ x \in Seq(Byte) /\ n \in Nat /\ Len(x) = HdrLen + n
        /\ Hdr(x).len = n /\ Hdr(x).func = Func[r.func]
        /\ Deserialize(Hdr(x), x) = Outcome(r)
        /\ r.func \in {"HEARTBEAT", "LOGIN", "PROXY", "GETPROXIES"}
        /\ \A h \in Hearable(r) : h # LengthError
    BY <1>3, RequestFacts
  <1>5. Place(k)
    BY <1>3 DEF ReadInv, LaidOut
  <1>6. hdr = Hdr(x) /\ hdr.len = n /\ rbuf = Bytes(x, 0, HdrLen) /\ pos = cuts[k] + HdrLen
    BY <1>2, <1>4 DEF HalfRead
  <1>7. /\ Bytes(stream, cuts[k], Len(x)) = x /\ cuts[k] \in Nat /\ cuts[k + 1] = cuts[k] + Len(x)
        /\ cuts[k] + Len(x) <= Len(stream) /\ stream \in Seq(Byte)
    BY <1>4, <1>5 DEF Place, ReadInv, Types
  <1>8. Bytes(stream, cuts[k] + HdrLen, n) = Bytes(x, HdrLen, n)
    <2>1. HdrLen \in Nat /\ HdrLen + n <= Len(x) /\ Len(x) \in Nat
      BY <1>1, <1>4
    <2> QED BY <1>4, <1>7, <2>1, Nested
  <1>9. Bytes(x, 0, HdrLen) \o Bytes(x, HdrLen, n) = x
    <2>1. HdrLen \in Nat /\ HdrLen <= Len(x) /\ Len(x) - HdrLen = n
      BY <1>1, <1>4
    <2> QED BY <1>4, <2>1, Rejoined
  <1>10. b = x
    BY <1>6, <1>8, <1>9 DEF Taken
  <1> DEFINE req == IF Unread(hdr.func) THEN Skipped(hdr.func) ELSE Deserialize(hdr, b)
  <1>11. \/ HeardAs(r, req) /\ req # LengthError
         \/ req = LengthError /\ Wrapping(r)
    <2>1. CASE Unread(hdr.func)
      <3>1. hdr.func = Func[r.func] /\ hdr.func \in {Func["PROXY"], Func["GETPROXIES"]}
        BY <1>4, <1>6, <2>1 DEF Unread
      <3>2. r.func \in {"PROXY", "GETPROXIES"} /\ Skipped(hdr.func) = [func |-> r.func]
        BY <1>4, <3>1 DEF Func, Skipped
      <3>3. req \in Hearable(r) /\ req = [func |-> r.func]
        BY <2>1, <3>2 DEF Hearable
      <3>4. Wrapping(r) => r.func = "PROXY"
        BY <3>2 DEF Wrapping
      <3> QED BY <1>4, <3>3, <3>4 DEF HeardAs
    <2>2. CASE ~Unread(hdr.func)
      <3>1. req = Outcome(r)
        BY <1>4, <1>6, <1>10, <2>2
      <3>2. Heard(r) \in Hearable(r)
        BY DEF Hearable
      <3> QED BY <1>4, <3>1, <3>2 DEF Outcome, HeardAs
    <2> QED BY <2>1, <2>2
  <1>12. /\ \/ /\ req # LengthError /\ Dispatch(req) /\ handled' = Append(handled, req)
               /\ rbuf' = Consumed(b, hdr) /\ rd' = "head"
            \/ /\ req = LengthError /\ rd' = "thrown"
               /\ UNCHANGED <<handled, stateVars, queueVars>>
         /\ UNCHANGED sentVars
    BY DEF OnReadBody
  <1> HIDE DEF req
  <1>13. Consumed(b, hdr) = <<>>
    <2>1. Consumed(b, hdr) = SubSeq(x, HdrLen + n + 1, Len(x))
      BY <1>6, <1>10 DEF Consumed
    <2>2. HdrLen + n + 1 > Len(x) /\ HdrLen + n + 1 \in Int /\ Len(x) \in Int
      BY <1>1, <1>4
    <2> QED BY <1>4, <2>1, <2>2, SubSeqEmpty
  <1>14. pos' = cuts[k + 1] /\ pos' \in Nat
    <2>1. pos' = (cuts[k] + HdrLen) + n
      BY <1>6 DEF OnReadBody
    <2>2. cuts[k + 1] = cuts[k] + (HdrLen + n)
      BY <1>4, <1>7
    <2>3. cuts[k] \in Nat /\ n \in Nat /\ HdrLen \in Nat
      BY <1>1, <1>4, <1>7
    <2>4. ASSUME NEW c \in Nat, NEW h \in Nat, NEW l \in Nat PROVE (c + h) + l = c + (h + l) /\ (c + h) + l \in Nat
      OBVIOUS
    <2> QED BY <2>1, <2>2, <2>3, <2>4
  <1>15. CASE req = LengthError
    BY <1>3, <1>11, <1>12, <1>14, <1>15 DEF Throws
  <1>16. CASE req # LengthError
    <2>1. Handles(k, req)
      BY <1>11, <1>12, <1>13, <1>14, <1>16 DEF Handles
    <2> QED BY <1>3, <1>12, <1>14, <2>1
  <1> QED BY <1>15, <1>16

LEMMA BodyRead ==
  ASSUME ReadInv, OnReadBody
  PROVE  ReadInv'
  <1> DEFINE k == Len(handled) + 1
             r == sent[k]
  <1>1. /\ k \in 1 .. Len(sent) /\ r \in Requests
        /\ (\E req : Handles(k, req)) \/ Throws(k)
        /\ pos' \in Nat /\ UNCHANGED sentVars
    BY BodyIs
  <1>2. Len(sent) \in Nat /\ Len(handled) \in Nat
    BY ReadLengths DEF ReadInv
  <1>3. logined \in BOOLEAN /\ id \in SessionIds \cup {0}
    BY DEF ReadInv, Types
  <1>4. CASE Throws(k)
    <2>1. UNCHANGED <<sent, stream, cuts, handled, logined, id>> /\ rd' = "thrown" /\ Wrapping(r)
      BY <1>1, <1>4 DEF Throws, sentVars, stateVars
    <2>2. Types' /\ LaidOut'
      BY <1>1, <2>1 DEF ReadInv, Types, LaidOut, Place
    <2>3. Len(handled) < Len(sent)
      BY <1>1, <1>2
    <2>4. Reading'
      BY <2>1, <2>3 DEF ReadInv, Reading
    <2> QED BY <2>2, <2>4 DEF ReadInv
  <1>5. ASSUME NEW req, Handles(k, req) PROVE ReadInv'
    <2>0. /\ HeardAs(r, req) /\ Dispatch(req) /\ handled' = Append(handled, req)
          /\ rbuf' = <<>> /\ pos' = cuts[k + 1] /\ rd' = "head"
      BY <1>5 DEF Handles
    <2>1. req \in Heards
      BY <1>1, <2>0 DEF HeardAs, Heards
    <2>2. handled' \in Seq(Heards) /\ IsPush(handled, req, handled')
      BY <2>0, <2>1, Push DEF ReadInv, Types
    <2>3. logined' \in BOOLEAN /\ id' \in SessionIds \cup {0}
      <3>1. CASE UNCHANGED stateVars
        BY <1>3, <3>1 DEF stateVars
      <3>2. CASE OnReqLogin(req)
        BY <1>3, <3>1, <3>2 DEF OnReqLogin
      <3> QED BY <2>0, <3>1, <3>2 DEF Dispatch, OnReqProxy, OnReqGetProxies
    <2>4. Types' /\ LaidOut'
      BY <1>1, <2>2, <2>3 DEF ReadInv, Types, LaidOut, Place, sentVars
    <2>5. Reading'
      <3>1. Len(handled') = k /\ k <= Len(sent) /\ UNCHANGED <<sent, cuts>>
        BY <1>1, <1>2, <2>2 DEF IsPush, sentVars
      <3>2. ASSUME NEW i \in 1 .. Len(handled') PROVE sent[i] \in Requests /\ HeardAs(sent[i], handled'[i])
        <4>1. CASE i = k
          BY <1>1, <2>0, <2>2, <4>1 DEF IsPush
        <4>2. CASE i \in 1 .. Len(handled)
          BY <2>2, <4>2 DEF IsPush, ReadInv, Reading
        <4> QED BY <1>2, <3>1, <4>1, <4>2
      <3>3. rbuf' = <<>> /\ pos' = cuts'[Len(handled') + 1]
        BY <2>0, <3>1
      <3> QED BY <2>0, <3>1, <3>2, <3>3 DEF Reading
    <2> QED BY <2>4, <2>5 DEF ReadInv
  <1> QED BY <1>1, <1>4, <1>5

LEMMA StepRead == ReadInv /\ [Next]_vars => ReadInv'
  <1> SUFFICES ASSUME ReadInv, [Next]_vars PROVE ReadInv'
    OBVIOUS
  <1>1. pos \in Nat /\ logined \in BOOLEAN /\ id \in SessionIds \cup {0}
    BY DEF ReadInv, Types
  <1>2. CASE UNCHANGED readVars
    BY <1>1, <1>2, RestRead DEF readVars, stateVars
  <1>3. CASE Lost \/ OnReadNoBody
    BY <1>1, <1>3, RestRead DEF Lost, OnReadNoBody, Stop, stateVars
  <1>4. ASSUME NEW r \in Requests \cup {Foreign}, Send(r) PROVE ReadInv'
    BY <1>4, SendRead
  <1>5. ASSUME NEW m \in Notices, Notify(m) PROVE ReadInv'
    BY <1>2, <1>5 DEF Notify
  <1>6. CASE Write \/ Network
    BY <1>2, <1>6 DEF Write, Network
  <1>7. CASE UNCHANGED vars
    BY <1>2, <1>7 DEF vars
  <1> QED BY <1>3, <1>4, <1>5, <1>6, <1>7, HeadRead, BodyRead DEF Next, Read

LEMMA ReadInvariance == Spec => []ReadInv
  BY InitRead, StepRead, PTL DEF Spec

\* The session handles each request once and in order, with its fields where the
\* length byte is below 128, without the name above, and it takes from the
\* stream just the requests it handles; only a length that wraps ends its thread.
THEOREM PacketBoundary == Spec => []InSync
  <1>1. ReadInv => InSync
    BY LenProperties DEF ReadInv, Types, Reading, HeardAs, InSync
  <1> QED BY <1>1, ReadInvariance, PTL

\* The client reads each message that reaches it as the server meant it.
THEOREM ClientReads == Spec => []Readable
  <1>1. ReadInv => Types
    BY DEF ReadInv
  <1>2. Spec => []QueueInv
    BY <1>1, InitQueue, StepQueue, InitRead, StepRead, PTL DEF Spec
  <1>3. QueueInv => Readable
    <2> SUFFICES ASSUME QueueInv, NEW i \in DOMAIN wire PROVE Legible(wire[i])
      BY DEF Readable, Legible
    <2>1. wire \in Seq(Messages)
      BY DEF QueueInv, QP!Inv, QP!TypeOK
    <2>2. wire[i] \in Messages
      BY <2>1
    <2> QED BY <2>2, RepliesLegible
  <1> QED BY <1>2, <1>3, PTL

(***************************************************************************)
(* Answers: how Matched and Repeats grow with the messages and requests.   *)
(***************************************************************************)

Asking == {"LOGIN", "PROXY", "GETPROXIES"}

\* A request without an answer.
LEMMA MatchedRequest ==
  ASSUME NEW w, NEW R, NEW q \in Seq(R), NEW p, NEW r, IsPush(q, r, p), DOMAIN p = 1 .. Len(p), Matched(w, q)
  PROVE  Matched(w, p)
  <1>1. PICK for \in [Answers(w) -> DOMAIN q] :
            /\ \A i \in Answers(w) : w[i].func = q[for[i]].func
            /\ \A i, j \in Answers(w) : i < j => for[i] < for[j]
    BY DEF Matched
  <1>2. Len(q) \in Nat /\ DOMAIN q = 1 .. Len(q)
    BY LenProperties
  <1>3. for \in [Answers(w) -> DOMAIN p]
    BY <1>1, <1>2 DEF IsPush
  <1>4. \A i \in Answers(w) : p[for[i]] = q[for[i]]
    BY <1>1, <1>2 DEF IsPush
  <1>5. \A i \in Answers(w) : w[i].func = p[for[i]].func
    BY <1>1, <1>4
  <1> QED BY <1>1, <1>3, <1>5 DEF Matched

\* A message that is no answer.
LEMMA MatchedNotice ==
  ASSUME NEW M, NEW w \in Seq(M), NEW v, NEW m, IsPush(w, m, v), DOMAIN v = 1 .. Len(v),
         m.func \notin Asking, NEW q, Matched(w, q)
  PROVE  Matched(v, q)
  <1>1. Len(w) \in Nat /\ DOMAIN w = 1 .. Len(w)
    BY LenProperties
  <1>2. Answers(v) = Answers(w) /\ \A i \in Answers(w) : v[i] = w[i]
    BY <1>1 DEF Answers, IsPush, Asking
  <1> QED BY <1>2 DEF Matched

\* The answer to the newest request.
LEMMA MatchedAnswer ==
  ASSUME NEW M, NEW w \in Seq(M), NEW v, NEW m, IsPush(w, m, v), DOMAIN v = 1 .. Len(v),
         NEW R, NEW q \in Seq(R), NEW p, NEW r, IsPush(q, r, p), DOMAIN p = 1 .. Len(p),
         m.func = r.func, m.func \in Asking, Matched(w, q)
  PROVE  Matched(v, p)
  <1>1. PICK for \in [Answers(w) -> DOMAIN q] :
            /\ \A i \in Answers(w) : w[i].func = q[for[i]].func
            /\ \A i, j \in Answers(w) : i < j => for[i] < for[j]
    BY DEF Matched
  <1>2. Len(q) \in Nat /\ DOMAIN q = 1 .. Len(q) /\ Len(w) \in Nat /\ DOMAIN w = 1 .. Len(w)
    BY LenProperties
  <1> DEFINE n == Len(w) + 1
             l == Len(q) + 1
             g == [i \in Answers(v) |-> IF i = n THEN l ELSE for[i]]
  <1>3. v[n] = m /\ p[l] = r /\ Len(v) = n /\ Len(p) = l
    BY DEF IsPush
  <1>4. Answers(v) = Answers(w) \cup {n} /\ n \notin Answers(w)
    BY <1>2, <1>3 DEF Answers, IsPush, Asking
  <1>5. \A i \in Answers(w) : i \in 1 .. Len(w) /\ v[i] = w[i]
    BY <1>2 DEF Answers, IsPush
  <1>6. \A i \in Answers(w) : for[i] \in 1 .. Len(q) /\ p[for[i]] = q[for[i]]
    BY <1>1, <1>2 DEF IsPush
  <1>7. g[n] = l /\ \A i \in Answers(w) : g[i] = for[i]
    BY <1>4
  <1>8. g \in [Answers(v) -> DOMAIN p]
    BY <1>2, <1>3, <1>4, <1>6
  <1> HIDE DEF g
  <1>9. ASSUME NEW i \in Answers(v) PROVE v[i].func = p[g[i]].func
    <2>1. CASE i = n
      BY <1>3, <1>7, <2>1
    <2>2. CASE i \in Answers(w)
      BY <1>1, <1>5, <1>6, <1>7, <2>2
    <2> QED BY <1>4, <2>1, <2>2
  <1>10. ASSUME NEW i \in Answers(v), NEW j \in Answers(v), i < j PROVE g[i] < g[j]
    <2>1. CASE j = n
      <3>1. i \in Answers(w)
        BY <1>2, <1>4, <1>10, <2>1
      <3> QED BY <1>2, <1>6, <1>7, <2>1, <3>1
    <2>2. CASE j \in Answers(w)
      <3>1. i \in Answers(w)
        BY <1>2, <1>4, <1>5, <1>10, <2>2
      <3> QED BY <1>1, <1>7, <1>10, <2>2, <3>1
    <2> QED BY <1>4, <2>1, <2>2
  <1> QED BY <1>8, <1>9, <1>10 DEF Matched

\* What has come of the messages, against the same requests as they were sent.
LEMMA MatchedFront ==
  ASSUME NEW M, NEW w \in Seq(M), NEW v \in Seq(M), Len(v) <= Len(w), \A i \in 1 .. Len(v) : v[i] = w[i],
         NEW R, NEW q \in Seq(R), NEW P, NEW p \in Seq(P), Len(q) <= Len(p),
         \A i \in 1 .. Len(q) : p[i].func = q[i].func,
         Matched(w, q)
  PROVE  Matched(v, p)
  <1>1. PICK for \in [Answers(w) -> DOMAIN q] :
            /\ \A i \in Answers(w) : w[i].func = q[for[i]].func
            /\ \A i, j \in Answers(w) : i < j => for[i] < for[j]
    BY DEF Matched
  <1>2. /\ Len(q) \in Nat /\ DOMAIN q = 1 .. Len(q) /\ Len(w) \in Nat /\ DOMAIN w = 1 .. Len(w)
        /\ Len(p) \in Nat /\ DOMAIN p = 1 .. Len(p) /\ Len(v) \in Nat /\ DOMAIN v = 1 .. Len(v)
    BY LenProperties
  <1>3. \A i \in Answers(v) : i \in Answers(w) /\ v[i] = w[i]
    BY <1>2 DEF Answers
  <1> DEFINE g == [i \in Answers(v) |-> for[i]]
  <1>4. \A i \in Answers(v) : g[i] = for[i] /\ g[i] \in DOMAIN p /\ p[g[i]].func = q[for[i]].func
    BY <1>1, <1>2, <1>3
  <1>5. g \in [Answers(v) -> DOMAIN p]
    BY <1>4
  <1> HIDE DEF g
  <1>6. \A i \in Answers(v) : v[i].func = p[g[i]].func
    BY <1>1, <1>3, <1>4
  <1>7. \A i, j \in Answers(v) : i < j => g[i] < g[j]
    BY <1>1, <1>3, <1>4
  <1> QED BY <1>5, <1>6, <1>7 DEF Matched

\* A LOGIN has succeeded.
Succeeded(w) == \E j \in Logins(w) : w[j].err = ErrCode["SUCCESS"]

LEMMA RepeatsOther ==
  ASSUME NEW M, NEW w \in Seq(M), NEW v, NEW m, IsPush(w, m, v), DOMAIN v = 1 .. Len(v),
         m.func # "LOGIN", Repeats(w)
  PROVE  Repeats(v) /\ (Succeeded(v) <=> Succeeded(w))
  <1>1. Len(w) \in Nat /\ DOMAIN w = 1 .. Len(w)
    BY LenProperties
  <1>2. Logins(v) = Logins(w) /\ \A i \in Logins(w) : v[i] = w[i]
    BY <1>1 DEF Logins, IsPush
  <1> QED BY <1>2 DEF Repeats, Succeeded

LEMMA RepeatsLogin ==
  ASSUME NEW M, NEW w \in Seq(M), NEW v, NEW m, IsPush(w, m, v), DOMAIN v = 1 .. Len(v),
         m.func = "LOGIN", m.err = ErrCode["REPEAT"] <=> Succeeded(w), Repeats(w)
  PROVE  Repeats(v) /\ (Succeeded(v) <=> Succeeded(w) \/ m.err = ErrCode["SUCCESS"])
  <1> DEFINE n == Len(w) + 1
  <1>1. Len(w) \in Nat /\ DOMAIN w = 1 .. Len(w) /\ v[n] = m /\ Len(v) = n
    BY LenProperties DEF IsPush
  <1>2. Logins(v) = Logins(w) \cup {n}
    BY <1>1 DEF Logins, IsPush
  <1>3. \A i \in Logins(w) : v[i] = w[i] /\ i \in Nat /\ i < n
    BY <1>1 DEF Logins, IsPush
  <1>4. Succeeded(v) <=> Succeeded(w) \/ m.err = ErrCode["SUCCESS"]
    BY <1>1, <1>2, <1>3 DEF Succeeded
  <1>5. ASSUME NEW i \in Logins(v)
        PROVE  v[i].err = ErrCode["REPEAT"] <=> \E j \in Logins(v) : j < i /\ v[j].err = ErrCode["SUCCESS"]
    <2>1. CASE i = n
      <3>1. (\E j \in Logins(v) : j < i /\ v[j].err = ErrCode["SUCCESS"]) <=> Succeeded(w)
        BY <1>1, <1>2, <1>3, <2>1 DEF Succeeded
      <3> QED BY <1>1, <2>1, <3>1
    <2>2. CASE i \in Logins(w)
      <3>1. \A j \in Logins(v) : j < i <=> j \in Logins(w) /\ j < i
        BY <1>1, <1>2, <1>3, <2>2
      <3>2. (\E j \in Logins(v) : j < i /\ v[j].err = ErrCode["SUCCESS"])
              <=> \E j \in Logins(w) : j < i /\ w[j].err = ErrCode["SUCCESS"]
        BY <1>2, <1>3, <3>1
      <3> QED BY <1>3, <2>2, <3>2 DEF Repeats
    <2> QED BY <1>2, <2>1, <2>2
  <1> QED BY <1>4, <1>5 DEF Repeats

LEMMA RepeatsFront ==
  ASSUME NEW M, NEW w \in Seq(M), NEW v \in Seq(M), Len(v) <= Len(w), \A i \in 1 .. Len(v) : v[i] = w[i],
         Repeats(w)
  PROVE  Repeats(v)
  <1>1. Len(w) \in Nat /\ DOMAIN w = 1 .. Len(w) /\ Len(v) \in Nat /\ DOMAIN v = 1 .. Len(v)
    BY LenProperties
  <1>2. \A i \in Logins(v) : i \in Logins(w) /\ v[i] = w[i] /\ i \in 1 .. Len(v)
    BY <1>1 DEF Logins
  <1>3. \A i \in Logins(v) : \A j \in Logins(w) : j < i => j \in Logins(v)
    BY <1>1, <1>2 DEF Logins
  <1>4. ASSUME NEW i \in Logins(v)
        PROVE  v[i].err = ErrCode["REPEAT"] <=> \E j \in Logins(v) : j < i /\ v[j].err = ErrCode["SUCCESS"]
    <2>1. w[i].err = ErrCode["REPEAT"] <=> \E j \in Logins(w) : j < i /\ w[j].err = ErrCode["SUCCESS"]
      BY <1>2 DEF Repeats
    <2>2. (\E j \in Logins(w) : j < i /\ w[j].err = ErrCode["SUCCESS"])
            <=> \E j \in Logins(v) : j < i /\ v[j].err = ErrCode["SUCCESS"]
      BY <1>2, <1>3
    <2> QED BY <1>2, <2>1, <2>2
  <1> QED BY <1>4 DEF Repeats

\* The answers that were given are those to the requests that were handled, and
\* _logined tells whether one of them was a success.
AnswerInv ==
    /\ Matched(history, handled)
    /\ Repeats(history)
    /\ logined <=> Succeeded(history)

LEMMA InitAnswer == Init => AnswerInv
  <1> SUFFICES ASSUME Init PROVE AnswerInv
    OBVIOUS
  <1>1. history = <<>> /\ handled = <<>> /\ logined = FALSE
    BY DEF Init, Q!Init
  <1>2. Answers(history) = {} /\ Logins(history) = {}
    BY <1>1 DEF Answers, Logins
  <1>3. Repeats(history) /\ ~Succeeded(history)
    BY <1>2 DEF Repeats, Succeeded
  <1>4. Matched(history, handled)
    <2> DEFINE g == [i \in Answers(history) |-> i]
    <2>1. g \in [Answers(history) -> DOMAIN handled]
      BY <1>2
    <2> QED BY <1>2, <2>1 DEF Matched
  <1> QED BY <1>1, <1>3, <1>4 DEF AnswerInv

\* What doWrite adds to the history.
LEMMA Written ==
  ASSUME history \in Seq(Messages), NEW m \in Messages, Q!DoWrite(m)
  PROVE  history' \in Seq(Messages) /\ IsPush(history, m, history') /\ DOMAIN history' = 1 .. Len(history')
  <1>1. history' = Append(history, m)
    BY DEF Q!DoWrite
  <1>2. history' \in Seq(Messages) /\ IsPush(history, m, history')
    BY <1>1, Push
  <1> QED BY <1>2, LenProperties

LEMMA NotifyAnswer ==
  ASSUME Types, QueueInv, AnswerInv, NEW m \in Notices, Notify(m)
  PROVE  AnswerInv'
  <1>1. history \in Seq(Messages)
    BY DEF QueueInv, QP!Inv, QP!TypeOK
  <1>2. IsPush(history, m, history') /\ DOMAIN history' = 1 .. Len(history')
    BY <1>1, AreMessages, Written DEF Notify
  <1>3. m.func \in {"ACCESS", "STOPPROXY"}
    BY NoticesAssumption
  <1>4. m.func \notin Asking /\ m.func # "LOGIN"
    BY <1>3 DEF Asking
  <1>5. Matched(history', handled) /\ Repeats(history') /\ (Succeeded(history') <=> Succeeded(history))
    BY <1>1, <1>2, <1>4, MatchedNotice, RepeatsOther DEF AnswerInv
  <1>6. UNCHANGED <<handled, logined>>
    BY DEF Notify, readVars, stateVars
  <1> QED BY <1>5, <1>6 DEF AnswerInv

LEMMA BodyAnswer ==
  ASSUME ReadInv, QueueInv, AnswerInv, OnReadBody
  PROVE  AnswerInv'
  <1> DEFINE k == Len(handled) + 1
             H == Heards
  <1>0. CASE Throws(k)
    BY <1>0 DEF Throws, AnswerInv, stateVars, queueVars
  <1> SUFFICES ASSUME NEW r, Handles(k, r) PROVE AnswerInv'
    BY <1>0, BodyIs
  <1>1. sent[k] \in Requests /\ Dispatch(r) /\ handled' = Append(handled, r) /\ r \in Hearable(sent[k])
    BY BodyIs DEF Handles, HeardAs
  <1>2. handled \in Seq(H) /\ handled' \in Seq(H) /\ IsPush(handled, r, handled')
    <2>1. r \in H
      BY <1>1 DEF Heards
    <2> QED BY <1>1, <2>1, Push DEF ReadInv, Types
  <1>3. DOMAIN handled' = 1 .. Len(handled')
    BY <1>2, LenProperties
  <1>4. history \in Seq(Messages) /\ Types
    BY DEF QueueInv, QP!Inv, QP!TypeOK, ReadInv
  <1> HIDE DEF H
  <1>5. ASSUME NEW m \in Messages, Q!DoWrite(m), m.func = r.func, m.func \in Asking
        PROVE  Matched(history', handled')
    <2>1. IsPush(history, m, history') /\ DOMAIN history' = 1 .. Len(history')
      BY <1>4, <1>5, Written
    <2> QED BY <1>2, <1>3, <1>4, <1>5, <2>1, MatchedAnswer DEF AnswerInv
  <1>6. ASSUME NEW m \in Messages, Q!DoWrite(m), m.func = r.func, m.func \in {"PROXY", "GETPROXIES"},
               UNCHANGED stateVars
        PROVE  AnswerInv'
    <2>1. IsPush(history, m, history') /\ DOMAIN history' = 1 .. Len(history')
      BY <1>4, <1>6, Written
    <2>2. Repeats(history') /\ (Succeeded(history') <=> Succeeded(history))
      BY <1>4, <1>6, <2>1, RepeatsOther DEF AnswerInv
    <2>3. Matched(history', handled')
      BY <1>5, <1>6 DEF Asking
    <2> QED BY <1>6, <2>2, <2>3 DEF AnswerInv, stateVars
  <1>7. ASSUME NEW m \in Messages, Q!DoWrite(m), r.func = "LOGIN", m.func = "LOGIN",
               m.err = ErrCode["REPEAT"] <=> logined,
               logined' <=> logined \/ m.err = ErrCode["SUCCESS"]
        PROVE  AnswerInv'
    <2>1. IsPush(history, m, history') /\ DOMAIN history' = 1 .. Len(history')
      BY <1>4, <1>7, Written
    <2>2. Repeats(history') /\ (Succeeded(history') <=> Succeeded(history) \/ m.err = ErrCode["SUCCESS"])
      BY <1>4, <1>7, <2>1, RepeatsLogin DEF AnswerInv
    <2>3. Matched(history', handled')
      BY <1>5, <1>7 DEF Asking
    <2> QED BY <1>7, <2>2, <2>3 DEF AnswerInv
  <1>8. CASE UNCHANGED <<stateVars, queueVars>>
    <2>1. Matched(history, handled')
      BY <1>2, <1>3, MatchedRequest DEF AnswerInv
    <2> QED BY <1>8, <2>1 DEF AnswerInv, stateVars, queueVars
  <1>9. CASE r.func = "LOGIN" /\ OnReqLogin(r)
    <2>1. ASSUME NEW e \in {"SUCCESS", "REPEAT", "FAILED"}, NEW i
          PROVE  /\ LoginReply(e, i).func = "LOGIN"
                 /\ LoginReply(e, i).err = ErrCode["REPEAT"] <=> e = "REPEAT"
                 /\ LoginReply(e, i).err = ErrCode["SUCCESS"] <=> e = "SUCCESS"
      BY DEF LoginReply, ErrCode
    <2>2. ASSUME ~logined, logined' = TRUE, NEW i \in SessionIds, Q!DoWrite(LoginReply("SUCCESS", i))
          PROVE  AnswerInv'
      BY <1>4, <1>7, <1>9, <2>1, <2>2, AreMessages
    <2>3. CASE ~logined /\ logined' = FALSE /\ Q!DoWrite(LoginReply("FAILED", 0))
      BY <1>4, <1>7, <1>9, <2>1, <2>3, AreMessages
    <2>4. CASE logined /\ logined' = logined /\ Q!DoWrite(LoginReply("REPEAT", id))
      BY <1>4, <1>7, <1>9, <2>1, <2>4, AreMessages
    <2> QED BY <1>9, <2>2, <2>3, <2>4 DEF OnReqLogin, stateVars
  <1>10. CASE r.func = "PROXY" /\ OnReqProxy
    <2>1. NoProxy.func = "PROXY" /\ \A e \in Ends : ProxyOn(e).func = "PROXY"
      BY DEF NoProxy, ProxyOn, ProxyReply
    <2> QED BY <1>4, <1>6, <1>8, <1>10, <2>1, AreMessages DEF OnReqProxy
  <1>11. CASE r.func = "GETPROXIES" /\ OnReqGetProxies
    <2>1. \A l \in Listings : Listing(l).func = "GETPROXIES"
      BY DEF Listing
    <2> QED BY <1>4, <1>6, <1>11, <2>1, AreMessages DEF OnReqGetProxies
  <1> QED BY <1>1, <1>8, <1>9, <1>10, <1>11 DEF Dispatch

LEMMA StepAnswer == ReadInv /\ QueueInv /\ AnswerInv /\ [Next]_vars => AnswerInv'
  <1> SUFFICES ASSUME ReadInv, QueueInv, AnswerInv, [Next]_vars PROVE AnswerInv'
    OBVIOUS
  <1>1. CASE UNCHANGED <<history, handled, logined>>
    BY <1>1 DEF AnswerInv
  <1>2. CASE Write \/ Network
    BY <1>1, <1>2 DEF Write, Network, Q!WriteImpl, Q!OnWriteComplete, Q!Sent, Q!SentNowhere, Q!SendError, readVars, stateVars
  <1>3. CASE Lost \/ OnReadNoBody \/ OnReadHead
    BY <1>1, <1>3 DEF Lost, OnReadNoBody, OnReadHead, Stop, Q!Disconnect, stateVars, queueVars
  <1>4. ASSUME NEW r \in Requests \cup {Foreign}, Send(r) PROVE AnswerInv'
    BY <1>1, <1>4 DEF Send, stateVars, queueVars
  <1>5. ASSUME NEW m \in Notices, Notify(m) PROVE AnswerInv'
    BY <1>5, NotifyAnswer DEF ReadInv
  <1>6. CASE OnReadBody
    BY <1>6, BodyAnswer
  <1>7. CASE UNCHANGED vars
    BY <1>1, <1>7 DEF vars, readVars, stateVars, queueVars
  <1> QED BY <1>2, <1>3, <1>4, <1>5, <1>6, <1>7 DEF Next, Read

\* Answers come in the order of the requests, at most one for each, and of the
\* LOGINs one succeeds and the later ones are repetitions.
THEOREM OrderOfAnswers == Spec => []AnswersInOrder
  <1>1. ReadInv => Types
    BY DEF ReadInv
  <1>2. Spec => [](ReadInv /\ QueueInv /\ AnswerInv)
    BY <1>1, InitQueue, StepQueue, InitRead, StepRead, InitAnswer, StepAnswer, PTL DEF Spec
  <1>3. ReadInv /\ QueueInv /\ AnswerInv => AnswersInOrder
    <2> SUFFICES ASSUME ReadInv, QueueInv, AnswerInv PROVE AnswersInOrder
      OBVIOUS
    <2>1. /\ history \in Seq(Messages) /\ wire \in Seq(Messages)
          /\ Len(wire) <= Len(history) /\ \A i \in 1 .. Len(wire) : wire[i] = history[i]
      BY DEF QueueInv, QP!Inv, QP!TypeOK, QP!Delivered
    <2>2. /\ sent \in Seq(Requests \cup {Foreign}) /\ handled \in Seq(Heards)
          /\ Len(handled) <= Len(sent)
      BY DEF ReadInv, Types, Reading
    <2>3. ASSUME NEW i \in 1 .. Len(handled) PROVE sent[i].func = handled[i].func
      <3>1. sent[i] \in Requests /\ handled[i] \in Hearable(sent[i])
        BY DEF ReadInv, Reading, HeardAs
      <3> QED BY <3>1, RequestFacts
    <2>4. Matched(wire, sent)
      BY <2>1, <2>2, <2>3, MatchedFront DEF AnswerInv
    <2>5. Repeats(wire)
      BY <2>1, RepeatsFront DEF AnswerInv
    <2> QED BY <2>4, <2>5 DEF AnswersInOrder
  <1> QED BY <1>2, <1>3, PTL

(***************************************************************************)
(* The write queue inside the session.                                     *)
(***************************************************************************)

\* Whatever the session answers and other threads notify, one async_write at a
\* time, of the front of _sque.
THEOREM OneWriteAtATime == Spec => []WriteIsFront
  <1>1. ReadInv => Types
    BY DEF ReadInv
  <1>2. Spec => [](ReadInv /\ QueueInv)
    BY <1>1, InitQueue, StepQueue, InitRead, StepRead, PTL DEF Spec
  <1>3. QueueInv => WriteIsFront
    BY DEF QueueInv, QP!Inv, QP!WriteIsFront, WriteIsFront, Q!WriteIsFront
  <1> QED BY <1>2, <1>3, PTL

\* The session's connection implements Outbox: the client gets the messages in
\* order, each once, without a gap.
THEOREM MessagesInOrder == Spec => IsOutbox
  <1>1. ReadInv => Types
    BY DEF ReadInv
  <1>2. Spec => [](ReadInv /\ QueueInv)
    BY <1>1, InitQueue, StepQueue, InitRead, StepRead, PTL DEF Spec
  <1>3. Init => Q!Queue!Init
    BY DEF Init, Q!Init, Q!Queue!Init
  <1>4. QueueInv /\ Types /\ Types' /\ [Next]_vars => [Q!Queue!Next]_(Q!Queue!vars)
    <2>1. QueueInv /\ Types /\ Types' /\ [Next]_vars => [QP!Queue!Next]_(QP!Queue!vars)
      BY QueueStep, QP!StepRefines DEF QueueInv
    <2> QED BY <2>1 DEF Q!Queue!Next, Q!Queue!vars, Q!Queue!Accept, Q!Queue!Arrive, Q!Queue!Cut,
                        QP!Queue!Next, QP!Queue!vars, QP!Queue!Accept, QP!Queue!Arrive, QP!Queue!Cut
  <1> QED BY <1>1, <1>2, <1>3, <1>4, PTL DEF Spec, IsOutbox, Q!IsOutbox, Q!Queue!Spec
=============================================================================
