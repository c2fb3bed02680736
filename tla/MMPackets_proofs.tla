---------------------------- MODULE MMPackets_proofs ----------------------------
EXTENDS MMContents_proofs
LOCAL INSTANCE FiniteSetsExt
LOCAL INSTANCE SequencesExt

---------------------------------------------------------------------------
(* Where the frames are on a line that disturbs nothing *)

\* The pause comes behind the first frame.
Gap(p, k) == IF p /\ k = 1 THEN 1 ELSE 0

\* Where the frames of the packets s end on a line: e[k] is the place of the last byte of the
\* k-th, or of the pause behind it.
Laid(W, e, s, p) ==
    /\ e \in [0..Len(s) -> Nat] /\ e[0] = 0 /\ \A k \in 0..Len(s) : e[k] <= e[Len(s)]
    /\ \A k \in 1..Len(s) : e[k] = (e[k - 1] + Len(Frame(s[k]))) + Gap(p, k)
    /\ \A k \in 1..Len(s) : \A i \in 1..Len(Frame(s[k])) : W[e[k - 1] + i] = Frame(s[k])[i]
    /\ p => W[e[1]] = GAP
    /\ Len(W) = e[Len(s)] + 1 /\ W[e[Len(s)] + 1] = GAP

\* A line that disturbs nothing has the frames one behind the other.
LEMMA LineLaid ==
  ASSUME NEW s, NEW n \in Nat \ {0}, Len(s) = n, \A i \in 1..n : IsPacket(s[i]),
         NEW p \in BOOLEAN
  PROVE  \E e : Laid(Line(s, None, p), e, s, p)
<1> DEFINE T == Byte \cup {GAP}
           first == Frame(s[1])
           m == n - 1
           frames == [i \in 1..m |-> Frame(s[i + 1])]
           rest == FlattenSeq(frames)
           gap == IF p THEN <<GAP>> ELSE <<>>
           end == <<GAP>>
           x == first \o gap
           y == x \o rest
           W == y \o end
<1>1. HoldsBytes(T) /\ end \in Seq(T) /\ Len(end) = 1 /\ end[1] = GAP
  BY DEF HoldsBytes
<1>2. gap \in Seq(T) /\ Len(gap) = Gap(p, 1) /\ (p => gap[1] = GAP)
  <2>1. <<>> \in Seq(T) /\ Len(<<>>) = 0
    BY EmptySeq
  <2>2. CASE p
    <3>1. gap = end /\ Gap(p, 1) = 1
      BY <2>2 DEF Gap
    <3>2. QED
      BY <1>1, <3>1
  <2>3. CASE ~p
    BY <2>1, <2>3 DEF Gap
  <2>4. QED
    BY <2>2, <2>3
<1>3. m \in Nat /\ 1 \in 1..n /\ \A i \in 1..m : i + 1 \in 1..n
  OBVIOUS
<1>4. first \in Seq(Byte) /\ \A i \in 1..m : Frame(s[i + 1]) \in Seq(Byte)
  <2>1. \A k \in 1..n : Frame(s[k]) \in Seq(Byte)
    BY FrameParts
  <2> HIDE DEF m
  <2>2. QED
    BY <1>3, <2>1
<1>5. frames \in Seq(Seq(Byte)) /\ Len(frames) = m /\ \A i \in 1..m : frames[i] = Frame(s[i + 1])
  <2> HIDE DEF m
  <2>1. QED
    BY <1>3, <1>4
<1>6. Line(s, None, p) = W
  BY DEF Line, Disturbed
<1> HIDE DEF T, first, m, frames, rest, gap, end
<1>7. rest \in Seq(Byte)
  BY <1>5, FlattenType DEF rest
<1>8. PICK r \in [0..m -> Nat] : EndsAt(r, rest, frames)
  BY <1>5, FlattenPlaces DEF rest
<1>9. /\ r[0] = 0 /\ r[m] = Len(rest) /\ \A k \in 0..m : r[k] <= Len(rest)
      /\ \A k \in 1..m : r[k] = r[k - 1] + Len(frames[k])
      /\ \A k \in 1..m : \A i \in 1..Len(frames[k]) : rest[r[k - 1] + i] = frames[k][i]
  BY <1>5, <1>8 DEF EndsAt
<1>10. first \in Seq(T) /\ rest \in Seq(T)
  BY <1>1, <1>4, <1>7, BytesIn
<1> DEFINE lf == Len(first)
           lg == Len(gap)
           lr == Len(rest)
<1>11. lf \in Nat /\ lg \in Nat /\ lr \in Nat
  BY <1>2, <1>10, LenProperties
<1>12. x \in Seq(T) /\ Len(x) = lf + lg /\ Joins(x, first, lf, gap, lg)
  BY <1>2, <1>10, Joined
<1> HIDE DEF x
<1>13. y \in Seq(T) /\ Len(y) = (lf + lg) + lr /\ Joins(y, x, lf + lg, rest, lr)
  <2>1. /\ x \o rest \in Seq(T) /\ Len(x \o rest) = Len(x) + Len(rest)
        /\ Joins(x \o rest, x, Len(x), rest, Len(rest))
    BY <1>10, <1>12, Joined
  <2> HIDE DEF y
  <2>2. y \in Seq(T) /\ Len(y) = Len(x) + lr /\ Joins(y, x, Len(x), rest, lr)
    BY <2>1 DEF y
  <2>3. QED
    BY <2>2, <1>12
<1> HIDE DEF y
<1>14. W \in Seq(T) /\ Len(W) = ((lf + lg) + lr) + 1 /\ Joins(W, y, (lf + lg) + lr, end, 1)
  <2>1. /\ y \o end \in Seq(T) /\ Len(y \o end) = Len(y) + Len(end)
        /\ Joins(y \o end, y, Len(y), end, Len(end))
    BY <1>1, <1>13, Joined
  <2> HIDE DEF W
  <2>2. W \in Seq(T) /\ Len(W) = Len(y) + 1 /\ Joins(W, y, Len(y), end, 1)
    BY <2>1, <1>1 DEF W
  <2>3. QED
    BY <2>2, <1>13
<1> HIDE DEF W, lf, lg, lr
<1>15. \A i \in 1..lf : W[i] = first[i]
  <2> SUFFICES ASSUME NEW i \in 1..lf PROVE W[i] = first[i]
    OBVIOUS
  <2>1. i \in 1..lf + lg /\ i \in 1..(lf + lg) + lr
    BY <1>11
  <2>2. W[i] = y[i] /\ y[i] = x[i] /\ x[i] = first[i]
    BY <2>1, <1>12, <1>13, <1>14 DEF Joins
  <2>3. QED
    BY <2>2
<1>16. p => W[lf + lg] = GAP
  <2> SUFFICES ASSUME p PROVE W[lf + lg] = GAP
    OBVIOUS
  <2>1. lg = 1 /\ gap[1] = GAP
    BY <1>2 DEF Gap, lg
  <2>2. lf + lg \in 1..lf + lg /\ lf + lg \in 1..(lf + lg) + lr /\ 1 \in 1..lg /\ lf + lg = lf + 1
    BY <1>11, <2>1
  <2>3. W[lf + lg] = y[lf + lg] /\ y[lf + lg] = x[lf + lg]
    BY <2>2, <1>13, <1>14 DEF Joins
  <2>4. x[lf + 1] = gap[1]
    BY <2>2, <1>12 DEF Joins
  <2>5. QED
    BY <2>1, <2>2, <2>3, <2>4
<1>17. ASSUME NEW j \in 1..lr PROVE W[(lf + lg) + j] = rest[j]
  <2>1. (lf + lg) + j \in 1..(lf + lg) + lr
    BY <1>11
  <2>2. W[(lf + lg) + j] = y[(lf + lg) + j] /\ y[(lf + lg) + j] = rest[j]
    BY <2>1, <1>13, <1>14 DEF Joins
  <2>3. QED
    BY <2>2
<1>18. W[((lf + lg) + lr) + 1] = GAP
  <2>1. 1 \in 1..1
    OBVIOUS
  <2>2. QED
    BY <2>1, <1>1, <1>14 DEF Joins
<1> DEFINE e == [k \in 0..n |-> IF k = 0 THEN 0 ELSE (lf + lg) + r[k - 1]]
<1>19. /\ e \in [0..n -> Nat] /\ e[0] = 0
       /\ \A k \in 1..n : k - 1 \in 0..m /\ e[k] = (lf + lg) + r[k - 1]
  <2>1. \A k \in 1..n : k - 1 \in 0..m
    BY DEF m
  <2>2. \A k \in 0..m : r[k] \in Nat
    BY <1>8
  <2>3. QED
    BY <2>1, <2>2, <1>11
<1> HIDE DEF e
<1>20. ASSUME NEW k \in 1..n
       PROVE  /\ e[k] = (e[k - 1] + Len(Frame(s[k]))) + Gap(p, k)
              /\ \A i \in 1..Len(Frame(s[k])) : W[e[k - 1] + i] = Frame(s[k])[i]
  <2>1. CASE k = 1
    <3>1. e[k] = lf + lg /\ e[k - 1] = 0 /\ Frame(s[k]) = first
      BY <2>1, <1>9, <1>11, <1>19 DEF first
    <3>2. Len(Frame(s[k])) = lf /\ Gap(p, k) = lg
      BY <3>1, <2>1, <1>2 DEF lf, lg
    <3>3. \A i \in 1..lf : W[0 + i] = first[i]
      BY <1>11, <1>15
    <3>4. QED
      BY <3>1, <3>2, <3>3, <1>11
  <2>2. CASE k # 1
    <3> DEFINE j == k - 1
    <3>1. j \in 1..m /\ j \in 0..m /\ j \in 1..n /\ j - 1 \in 0..m /\ j + 1 = k
      BY <2>2, <1>3 DEF m
    <3> HIDE DEF j
    <3>2. e[k] = (lf + lg) + r[j] /\ e[j] = (lf + lg) + r[j - 1]
      BY <3>1, <1>19 DEF j
    <3>3. frames[j] = Frame(s[k]) /\ Gap(p, k) = 0
      BY <3>1, <2>2, <1>5 DEF Gap
    <3>4. Len(frames[j]) \in Nat /\ r[j] \in Nat /\ r[j - 1] \in Nat /\ r[j] <= lr
      <4>1. frames[j] \in Seq(Byte)
        BY <3>1, <1>5, ElementOfSeq
      <4>2. QED
        BY <4>1, <3>1, <1>8, <1>9, LenProperties DEF lr
    <3>5. r[j] = r[j - 1] + Len(frames[j])
      BY <3>1, <1>9
    <3>6. e[k] = (e[j] + Len(frames[j])) + 0
      BY <3>2, <3>4, <3>5, <1>11
    <3>7. ASSUME NEW i \in 1..Len(frames[j]) PROVE W[e[j] + i] = frames[j][i]
      <4>1. r[j - 1] + i \in 1..lr /\ e[j] + i = (lf + lg) + (r[j - 1] + i)
        <5>1. PICK v : v = r[j - 1]
          OBVIOUS
        <5>2. PICK l : l = Len(frames[j])
          OBVIOUS
        <5>3. v \in Nat /\ l \in Nat /\ v + l <= lr /\ i \in 1..l /\ lr \in Nat
          BY <5>1, <5>2, <3>4, <3>5, <1>11
        <5>4. v + i \in 1..lr
          BY <5>3
        <5>5. e[j] = (lf + lg) + v /\ lf \in Nat /\ lg \in Nat
          BY <5>1, <3>2, <1>11
        <5>6. (lf + lg) + v + i = (lf + lg) + (v + i)
          BY <5>3, <5>5
        <5>7. QED
          BY <5>1, <5>4, <5>5, <5>6
      <4>2. W[(lf + lg) + (r[j - 1] + i)] = rest[r[j - 1] + i]
        BY <4>1, <1>17
      <4>3. QED
        BY <4>1, <4>2, <3>1, <1>9
    <3>8. QED
      BY <3>3, <3>6, <3>7 DEF j
  <2>3. QED
    BY <2>1, <2>2
<1>21. p => W[e[1]] = GAP
  <2>1. e[1] = (lf + lg) + r[1 - 1] /\ 1 - 1 = 0
    BY <1>3, <1>19
  <2>2. e[1] = lf + lg
    BY <2>1, <1>9, <1>11
  <2>3. QED
    BY <2>2, <1>16
<1>22. e[n] = (lf + lg) + lr
  <2>1. n \in 1..n /\ n - 1 = m
    BY DEF m
  <2>2. QED
    BY <2>1, <1>9, <1>19 DEF lr
<1>23. Len(W) = e[n] + 1 /\ W[e[n] + 1] = GAP
  BY <1>14, <1>18, <1>22
<1>24. ASSUME NEW k \in 0..n PROVE e[k] <= e[n]
  <2>1. CASE k = 0
    BY <2>1, <1>11, <1>19, <1>22
  <2>2. CASE k # 0
    <3>1. k \in 1..n
      BY <2>2
    <3>2. k - 1 \in 0..m /\ e[k] = (lf + lg) + r[k - 1]
      BY <3>1, <1>19
    <3>3. r[k - 1] \in Nat /\ r[k - 1] <= lr
      BY <3>2, <1>8, <1>9 DEF lr
    <3>4. QED
      BY <3>2, <3>3, <1>11, <1>22
  <2>3. QED
    BY <2>1, <2>2
<1>25. Laid(W, e, s, p)
  BY <1>19, <1>20, <1>21, <1>23, <1>24 DEF Laid
<1>26. QED
  BY <1>6, <1>25

---------------------------------------------------------------------------
(* A line that disturbs nothing *)

\* The checksum that goes out with a packet.
SentCrc(p) == crc16(0, <<START_BYTE, p.flags, (Len(p.payload) + 5) % 256>> \o p.payload)

\* The two bytes of a frame before its last are its checksum, low byte first.
LEMMA FrameChecksum ==
  ASSUME NEW p, IsPacket(p)
  PROVE  /\ SentCrc(p) \in Checksum
         /\ Frame(p)[Len(p.payload) + 4] = SentCrc(p) % 256
         /\ Frame(p)[Len(p.payload) + 5] = SentCrc(p) \div 256
<1> DEFINE n == Len(p.payload)
           l == (n + 5) % 256
           head == <<START_BYTE, p.flags, l>>
           body == head \o p.payload
           crc == crc16(0, body)
           tail == <<crc % 256, crc \div 256, STOP_BYTE>>
<1>1. n \in Nat /\ p.payload \in Seq(Byte) /\ p.flags \in Byte
  BY LenProperties DEF IsPacket
<1>2. l \in Byte /\ START_BYTE \in Byte /\ STOP_BYTE \in Byte
  <2>1. n + 5 \in Nat
    BY <1>1
  <2> HIDE DEF n
  <2>2. (n + 5) % 256 \in Byte
    BY <2>1, RemainderType
  <2>3. QED
    BY <2>2, ByteDef DEF START_BYTE, STOP_BYTE
<1>3. Frame(p) = body \o tail /\ SentCrc(p) = crc
  BY DEF Frame, SentCrc
<1> HIDE DEF l
<1>4. head \in Seq(Byte) /\ Len(head) = 3
  BY <1>1, <1>2
<1> HIDE DEF head, n
<1>5. body \in Seq(Byte) /\ Len(body) = 3 + n
  <2>1. head \o p.payload \in Seq(Byte) /\ Len(head \o p.payload) = Len(head) + Len(p.payload)
    BY <1>1, <1>4, ConcatProperties
  <2> HIDE DEF body
  <2>2. body \in Seq(Byte) /\ Len(body) = Len(head) + n
    BY <2>1 DEF body, n
  <2>3. QED
    BY <2>2, <1>4
<1>6. crc \in Checksum
  <2>1. 0 \in Checksum
    BY ChecksumDef
  <2> HIDE DEF body
  <2>2. QED
    BY <1>5, <2>1, CrcType
<1> HIDE DEF body, crc
<1>7. crc % 256 \in Byte /\ crc \div 256 \in Byte
  BY <1>6, QuotientType
<1>8. /\ tail \in Seq(Byte) /\ Len(tail) = 3
      /\ tail[1] = crc % 256 /\ tail[2] = crc \div 256
  BY <1>2, <1>7
<1> HIDE DEF tail
<1>9. Joins(body \o tail, body, 3 + n, tail, 3)
  <2>1. Joins(body \o tail, body, Len(body), tail, Len(tail))
    BY <1>5, <1>8, Joined
  <2>2. QED
    BY <2>1, <1>5, <1>8
<1>10. 1 \in 1..3 /\ 2 \in 1..3 /\ (3 + n) + 1 = n + 4 /\ (3 + n) + 2 = n + 5
  BY <1>1
<1>11. (body \o tail)[(3 + n) + 1] = tail[1] /\ (body \o tail)[(3 + n) + 2] = tail[2]
  BY <1>9, <1>10 DEF Joins
<1>12. QED
  BY <1>3, <1>6, <1>8, <1>10, <1>11 DEF n

\* A packet that the length byte can tell the length of, and not an empty one.
Fits(p) == IsPacket(p) /\ Len(p.payload) \in 5..250

\* receive_mm_packet has taken the first m bytes of the frame of p.
ReceiverAt(p, m) ==
    /\ m \in 1..Len(p.payload) + 5
    /\ m = 1 => l2_state = "flags"
    /\ m = 2 => l2_state = "length"
    /\ m \in 3..Len(p.payload) + 2 =>
          /\ l2_state = "data" /\ Len(pkt.payload) = m - 3
          /\ \A i \in 1..m - 3 : pkt.payload[i] = p.payload[i]
    /\ m = Len(p.payload) + 3 => l2_state = "crc0"
    /\ m = Len(p.payload) + 4 => l2_state = "crc1" /\ pkt.crc = SentCrc(p) % 256
    /\ m = Len(p.payload) + 5 => l2_state = "stop" /\ status = {}
    /\ m >= 2 => pkt.flags = p.flags
    /\ m >= 3 => pkt.pktlen = Len(p.payload) + 5
    /\ m >= Len(p.payload) + 3 => pkt.payload = p.payload

\* All states of the receiver but the last.
TakesByte(byte) ==
    \/ SearchForStart(byte) \/ GetFlags(byte) \/ GetLength(byte) \/ AccumulateData(byte)
    \/ GetCrc0(byte) \/ GetCrc1(byte)

\* The START byte.
LEMMA FirstByte ==
  ASSUME NEW p, Fits(p), l2_state = "start", NEW byte, byte = Frame(p)[1], TakesByte(byte)
  PROVE  ReceiverAt(p, 1)'
<1> DEFINE l == Len(p.payload)
<1>1. byte = START_BYTE /\ l \in 5..250
  BY FrameParts DEF Fits
<1>2. l2_state' = "flags"
  BY <1>1 DEF TakesByte, SearchForStart, GetFlags, GetLength, AccumulateData, GetCrc0, GetCrc1
<1> HIDE DEF l
<1>3. QED
  BY <1>1, <1>2 DEF ReceiverAt, l

\* The flags.
LEMMA FlagsByte ==
  ASSUME FramingInv, NEW p, Fits(p), ReceiverAt(p, 1), NEW byte, byte = Frame(p)[2], TakesByte(byte)
  PROVE  ReceiverAt(p, 2)'
<1> DEFINE l == Len(p.payload)
<1>1. byte = p.flags /\ l \in 5..250
  BY FrameParts DEF Fits
<1>2. l2_state = "flags" /\ pkt \in Pkts
  BY DEF ReceiverAt, FramingInv, PacketAt
<1>3. l2_state' = "length" /\ pkt'.flags = byte
  BY <1>2 DEF TakesByte, SearchForStart, GetFlags, GetLength, AccumulateData, GetCrc0, GetCrc1, Pkts
<1> HIDE DEF l
<1>4. QED
  BY <1>1, <1>3 DEF ReceiverAt, l

\* The length, which asks for data.
LEMMA LengthByte ==
  ASSUME FramingInv, NEW p, Fits(p), ReceiverAt(p, 2), NEW byte, byte = Frame(p)[3], TakesByte(byte)
  PROVE  ReceiverAt(p, 3)'
<1> DEFINE l == Len(p.payload)
<1>1. byte = (l + 5) % 256 /\ l \in 5..250
  BY FrameParts DEF Fits
<1> HIDE DEF l
<1>2. byte = l + 5 /\ byte > 5
  BY <1>1
<1>3. l2_state = "length" /\ pkt \in Pkts /\ pkt.flags = p.flags /\ pkt.payload = <<>>
  BY DEF ReceiverAt, FramingInv, PacketAt
<1>4. /\ l2_state' = "data" /\ pkt'.pktlen = byte
      /\ pkt'.flags = pkt.flags /\ pkt'.payload = pkt.payload
  BY <1>2, <1>3
     DEF TakesByte, SearchForStart, GetFlags, GetLength, AccumulateData, GetCrc0, GetCrc1, Pkts
<1>5. Len(pkt'.payload) = 0
  BY <1>3, <1>4
<1>6. /\ l2_state' = "data" /\ pkt'.flags = p.flags /\ pkt'.pktlen = l + 5
      /\ Len(pkt'.payload) = 3 - 3 /\ \A i \in 1..3 - 3 : pkt'.payload[i] = p.payload[i]
  BY <1>2, <1>3, <1>4, <1>5
<1>7. 3 \in 1..l + 5 /\ 3 # 1 /\ 3 # 2 /\ 3 < l + 3 /\ 3 # l + 4 /\ 3 # l + 5
  BY <1>1
<1>8. QED
  BY <1>1, <1>6, <1>7 DEF ReceiverAt, l

\* A byte of the payload: the last one, and no other, ends the data.
LEMMA DataByte ==
  ASSUME FramingInv, NEW p, Fits(p), NEW m \in 3..Len(p.payload) + 2, ReceiverAt(p, m),
         NEW byte \in Byte, byte = Frame(p)[m + 1], TakesByte(byte)
  PROVE  ReceiverAt(p, m + 1)'
<1> DEFINE l == Len(p.payload)
           j == m - 2
           data == pkt.payload
           next == Append(data, byte)
<1>1. l \in 5..250 /\ \A i \in 1..l : Frame(p)[i + 3] = p.payload[i]
  BY FrameParts DEF Fits
<1>2. /\ l2_state = "data" /\ pkt \in Pkts /\ Len(data) = m - 3
      /\ pkt.flags = p.flags /\ pkt.pktlen = l + 5
      /\ \A i \in 1..m - 3 : data[i] = p.payload[i]
  BY DEF ReceiverAt, FramingInv, PacketAt
<1>3. /\ pkt'.payload = next /\ pkt'.flags = pkt.flags /\ pkt'.pktlen = pkt.pktlen
      /\ l2_state' = IF Len(data) + 1 = pkt.pktlen - 5 THEN "crc0" ELSE "data"
  BY <1>2 DEF TakesByte, SearchForStart, GetFlags, GetLength, AccumulateData, GetCrc0, GetCrc1, Pkts
<1>4. data \in Seq(Byte)
  BY <1>2 DEF Pkts
<1> HIDE DEF l, data
<1>5. j \in 1..l /\ Len(data) = j - 1 /\ m + 1 = j + 3 /\ m \in Nat
  BY <1>1, <1>2 DEF l
<1>6. byte = p.payload[j]
  BY <1>1, <1>5
<1>7. next \in Seq(Byte) /\ Len(next) = j /\ \A i \in 1..j : next[i] = p.payload[i]
  <2>1. /\ next \in Seq(Byte) /\ Len(next) = Len(data) + 1
        /\ \A i \in 1..Len(data) : next[i] = data[i]
        /\ next[Len(data) + 1] = byte
    BY <1>4, AppendProperties
  <2> HIDE DEF next
  <2>2. ASSUME NEW i \in 1..j PROVE next[i] = p.payload[i]
    <3>1. CASE i = j
      BY <3>1, <2>1, <1>5, <1>6
    <3>2. CASE i # j
      <4>1. i \in 1..m - 3 /\ i \in 1..Len(data)
        BY <3>2, <1>5
      <4>2. QED
        BY <4>1, <2>1, <1>2
    <3>3. QED
      BY <3>1, <3>2
  <2>3. QED
    BY <2>1, <2>2, <1>5
<1> HIDE DEF next, j
<1>8. CASE j = l
  <2>1. l2_state' = "crc0"
    BY <1>1, <1>2, <1>3, <1>5, <1>8
  <2>2. next = p.payload
    <3>1. p.payload \in Seq(Byte) /\ Len(p.payload) = l
      BY DEF Fits, IsPacket, l
    <3>2. QED
      BY <1>7, <1>8, <3>1, SeqEqual
  <2>3. /\ m + 1 \in 1..l + 5 /\ m + 1 # 1 /\ m + 1 # 2 /\ m + 1 = l + 3 /\ m + 1 # l + 4
             /\ m + 1 # l + 5
        /\ m + 1 \notin 3..l + 2
    BY <1>1, <1>5, <1>8
  <2>4. QED
    BY <2>1, <2>2, <2>3, <1>2, <1>3 DEF ReceiverAt, l
<1>9. CASE j # l
  <2>1. l2_state' = "data"
    BY <1>1, <1>2, <1>3, <1>5, <1>9
  <2>2. Len(next) = (m + 1) - 3 /\ \A i \in 1..(m + 1) - 3 : next[i] = p.payload[i]
    <3>1. (m + 1) - 3 = j
      BY <1>5
    <3>2. QED
      BY <3>1, <1>7
  <2>3. /\ m + 1 \in 1..l + 5 /\ m + 1 # 1 /\ m + 1 # 2 /\ m + 1 # l + 3 /\ m + 1 # l + 4
             /\ m + 1 # l + 5
        /\ ~(m + 1 >= l + 3)
    BY <1>1, <1>5, <1>9
  <2>4. QED
    BY <2>1, <2>2, <2>3, <1>2, <1>3 DEF ReceiverAt, l
<1>10. QED
  BY <1>8, <1>9

\* The lower byte of the checksum.
LEMMA Crc0Byte ==
  ASSUME FramingInv, NEW p, Fits(p), NEW m, m = Len(p.payload) + 3, ReceiverAt(p, m),
         NEW byte, byte = Frame(p)[m + 1], TakesByte(byte)
  PROVE  ReceiverAt(p, m + 1)'
<1> DEFINE l == Len(p.payload)
           c == SentCrc(p) % 256
<1>1. l \in 5..250 /\ Frame(p)[l + 4] = c
  BY FrameChecksum DEF Fits
<1>2. /\ l2_state = "crc0" /\ pkt \in Pkts /\ pkt.flags = p.flags /\ pkt.pktlen = l + 5
      /\ pkt.payload = p.payload
  BY <1>1 DEF ReceiverAt, FramingInv, PacketAt
<1>3. /\ pkt'.payload = pkt.payload /\ pkt'.flags = pkt.flags /\ pkt'.pktlen = pkt.pktlen
      /\ l2_state' = "crc1" /\ pkt'.crc = byte
  BY <1>2 DEF TakesByte, SearchForStart, GetFlags, GetLength, AccumulateData, GetCrc0, GetCrc1, Pkts
<1> HIDE DEF l, c
<1>4. m + 1 = l + 4
  BY <1>1 DEF l
<1>5. pkt'.crc = c
  BY <1>1, <1>3, <1>4
<1>6. /\ m + 1 \in 1..l + 5 /\ m + 1 # 1 /\ m + 1 # 2 /\ m + 1 # l + 3 /\ m + 1 # l + 5
      /\ m + 1 \notin 3..l + 2
  BY <1>1, <1>4
<1>7. QED
  BY <1>2, <1>3, <1>5, <1>6 DEF ReceiverAt, l, c

\* The two bytes of a number put together again.
LEMMA WordOfHalves ==
  ASSUME NEW n \in Checksum
  PROVE  Word(n % 256, n \div 256) = n
<1>1. n \in Nat
  BY ChecksumDef
<1>2. QED
  BY <1>1 DEF Word

\* What receive_mm_packet calculates over the parts of a packet is what was sent with it.
LEMMA CalculatedIsSent ==
  ASSUME NEW p, Fits(p), NEW q, q.flags = p.flags, q.pktlen = Len(p.payload) + 5,
         q.payload = p.payload
  PROVE  Calculated(q) = SentCrc(p)
<1> DEFINE l == Len(p.payload)
           head == <<START_BYTE, p.flags, l + 5>>
<1>1. l \in 5..250 /\ p.payload \in Seq(Byte) /\ p.flags \in Byte
  BY DEF Fits, IsPacket
<1> HIDE DEF l
<1>2. (l + 5) % 256 = l + 5 /\ l + 5 \in Byte
  <2>1. (l + 5) % 256 = l + 5
    BY <1>1
  <2>2. l + 5 \in Nat /\ l + 5 < 256
    BY <1>1
  <2>3. QED
    BY <2>1, <2>2, ByteDef
<1>3. SentCrc(p) = crc16(0, head \o p.payload)
  BY <1>2 DEF SentCrc, l
<1>4. Calculated(q) = crc16(crc16(0, head), p.payload)
  <2>1. <<START_BYTE, q.flags, q.pktlen>> = head
    BY DEF l
  <2> HIDE DEF head
  <2>2. QED
    BY <2>1 DEF Calculated
<1>5. START_BYTE \in Byte /\ 0 \in Checksum
  <2>1. START_BYTE \in Byte
    BY ByteDef DEF START_BYTE
  <2>2. 0 \in Checksum
    BY ChecksumDef
  <2>3. QED
    BY <2>1, <2>2
<1>6. head \in Seq(Byte)
  BY <1>1, <1>2, <1>5
<1> HIDE DEF head
<1>7. QED
  BY <1>1, <1>3, <1>4, <1>5, <1>6, CrcInParts

\* The higher byte of the checksum, which is what receive_mm_packet has calculated.
LEMMA Crc1Byte ==
  ASSUME FramingInv, NEW p, Fits(p), NEW m, m = Len(p.payload) + 4, ReceiverAt(p, m),
         NEW byte, byte = Frame(p)[m + 1], TakesByte(byte)
  PROVE  ReceiverAt(p, m + 1)'
<1> DEFINE l == Len(p.payload)
           c == SentCrc(p)
<1>1. l \in 5..250 /\ Frame(p)[l + 5] = c \div 256 /\ c \in Checksum
  BY FrameChecksum DEF Fits
<1>2. /\ l2_state = "crc1" /\ pkt \in Pkts /\ pkt.flags = p.flags /\ pkt.pktlen = l + 5
      /\ pkt.payload = p.payload /\ pkt.crc = c % 256
  BY <1>1 DEF ReceiverAt, FramingInv, PacketAt
<1>3. /\ pkt'.payload = pkt.payload /\ pkt'.flags = pkt.flags /\ pkt'.pktlen = pkt.pktlen
      /\ l2_state' = "stop" /\ status' = CrcStatus(pkt, Word(pkt.crc, byte))
  BY <1>2 DEF TakesByte, SearchForStart, GetFlags, GetLength, AccumulateData, GetCrc0, GetCrc1, Pkts
<1>4. Calculated(pkt) = c
  BY <1>2, CalculatedIsSent
<1> HIDE DEF l, c
<1>5. m + 1 = l + 5
  BY <1>1 DEF l
<1>6. Word(pkt.crc, byte) = c
  BY <1>1, <1>2, <1>5, WordOfHalves
<1>7. status' = {}
  BY <1>3, <1>4, <1>6 DEF CrcStatus
<1>8. /\ m + 1 \in 1..l + 5 /\ m + 1 # 1 /\ m + 1 # 2 /\ m + 1 # l + 3 /\ m + 1 # l + 4
      /\ m + 1 \notin 3..l + 2
  BY <1>1, <1>5
<1>9. QED
  BY <1>2, <1>3, <1>5, <1>7, <1>8 DEF ReceiverAt, l

\* Byte by byte, receive_mm_packet gets along in the frame.
LEMMA ReceiverAdvances ==
  ASSUME FramingInv, NEW p, Fits(p), NEW m \in 1..Len(p.payload) + 4, ReceiverAt(p, m),
         NEW byte \in Byte, byte = Frame(p)[m + 1], TakesByte(byte)
  PROVE  ReceiverAt(p, m + 1)'
<1> DEFINE l == Len(p.payload)
<1>1. l \in 5..250
  BY DEF Fits
<1>2. m = 1 \/ m = 2 \/ m \in 3..l + 2 \/ m = l + 3 \/ m = l + 4
  BY <1>1
<1>3. CASE m = 1
  <2>1. m + 1 = 2
    BY <1>3
  <2>2. QED
    BY <1>3, <2>1, FlagsByte
<1>4. CASE m = 2
  <2>1. m + 1 = 3
    BY <1>4
  <2>2. QED
    BY <1>4, <2>1, LengthByte
<1>5. CASE m \in 3..l + 2
  BY <1>5, DataByte
<1>6. CASE m = l + 3
  BY <1>6, Crc0Byte
<1>7. CASE m = l + 4
  BY <1>7, Crc1Byte
<1>8. QED
  BY <1>2, <1>3, <1>4, <1>5, <1>6, <1>7

\* What is still on the line is what W has behind its first pos places.
Rests(W, pos) ==
    /\ pos \in Nat /\ pos < Len(W) /\ Len(wire) = Len(W) - pos
    /\ \A i \in 1..Len(wire) : wire[i] = W[pos + i]

\* Behind the first g packets: the line is at the pause behind the first frame, between two
\* frames, or within one.
Coming(W, e, pos, g) ==
    /\ Laid(W, e, sent, pause) /\ Rests(W, pos)
    /\ \/ pause /\ g = 1 /\ pos + 1 = e[1] /\ l2_state = "start"
       \/ pos = e[g] /\ l2_state = "start"
       \/ /\ g < Len(sent)
          /\ \E m \in 1..Len(sent[g + 1].payload) + 5 :
                pos = e[g] + m /\ ReceiverAt(sent[g + 1], m)

\* Of the first g packets, those behind the one with the number first have been received as
\* they were sent, all of them intact, and d other packets more than first have come before.
GotIsSent(first, d, g) ==
    /\ g \in first..Len(sent) /\ Len(got) = g + d
    /\ \A k \in first + 1..g : Sent(got[k + d]) = sent[k] /\ IsIntact(got[k + d])

Skew(first, d) == first \in Nat /\ d \in Int /\ 0 <= first + d

\* The receiver is in step with the line behind its first packets: what has been received is
\* what was sent, and the rest of it is still on the line.
InStep(first, d) ==
    \E g \in Nat :
        /\ GotIsSent(first, d, g)
        /\ \/ wire = <<>> /\ g = Len(sent)
           \/ \E W, e, pos : Coming(W, e, pos, g)

\* Unless a frame is disturbed, the receiver is in step from the start.
CleanInv == noise = None => InStep(0, 0)

\* The line loses its first byte.
LEMMA WireMoves ==
  ASSUME FramingInv, NEW W, NEW pos, Len(W) \in Nat, Rests(W, pos), wire' = Tail(wire)
  PROVE  /\ Head(wire) = W[pos + 1]
         /\ pos + 1 < Len(W) => Rests(W, pos + 1)'
         /\ pos + 1 = Len(W) => wire' = <<>>
<1> DEFINE T == Byte \cup {GAP}
           l == Len(W)
           w == Len(wire)
<1>1. wire \in Seq(T)
  BY DEF FramingInv
<1>2. pos \in Nat /\ pos < l /\ w = l - pos /\ l \in Nat /\ \A i \in 1..w : wire[i] = W[pos + i]
  BY DEF Rests
<1> HIDE DEF T, l
<1>3. w \in Nat /\ w # 0 /\ wire # <<>>
  <2>1. w \in Nat /\ w # 0
    BY <1>2
  <2>2. QED
    BY <2>1, EmptySeq
<1>4. /\ Head(wire) = wire[1] /\ Tail(wire) \in Seq(T) /\ Len(Tail(wire)) = w - 1
      /\ \A i \in 1..w - 1 : Tail(wire)[i] = wire[i + 1]
  <2>1. Head(wire) = wire[1] /\ Tail(wire) \in Seq(T) /\ Len(Tail(wire)) = w - 1
    BY <1>1, <1>3, HeadTailProperties
  <2>2. \A i \in 1..Len(Tail(wire)) : Tail(wire)[i] = wire[i + 1]
    BY <1>1, <1>3, HeadTailProperties
  <2>3. QED
    BY <2>1, <2>2
<1> HIDE DEF w
<1>5. Head(wire) = W[pos + 1]
  <2>1. 1 \in 1..w
    BY <1>3
  <2>2. QED
    BY <2>1, <1>2, <1>4
<1>6. ASSUME pos + 1 < l PROVE Rests(W, pos + 1)'
  <2>1. Len(wire') = l - (pos + 1) /\ pos + 1 \in Nat /\ Len(wire') = w - 1
    BY <1>2, <1>3, <1>4
  <2>2. ASSUME NEW i \in 1..w - 1 PROVE wire'[i] = W[(pos + 1) + i]
    <3>1. wire'[i] = wire[i + 1]
      BY <1>4
    <3>2. i + 1 \in 1..w /\ pos + (i + 1) = (pos + 1) + i
      BY <1>2, <1>3
    <3>3. wire[i + 1] = W[pos + (i + 1)]
      BY <3>2, <1>2
    <3>4. QED
      BY <3>1, <3>2, <3>3
  <2>3. QED
    BY <2>1, <2>2, <1>6 DEF Rests, l
<1>7. ASSUME pos + 1 = l PROVE wire' = <<>>
  <2>1. wire' \in Seq(T) /\ Len(wire') = w - 1
    BY <1>4
  <2>2. w - 1 = 0
    BY <1>2, <1>7
  <2>3. QED
    BY <2>1, <2>2, EmptySeq
<1>8. QED
  BY <1>5, <1>6, <1>7 DEF l

\* The packets of a terminal fit.
LEMMA SentFits ==
  ASSUME SentIs, NEW k \in 1..Len(sent)
  PROVE  Fits(sent[k]) /\ sent[k] = [flags |-> sent[k].flags, payload |-> sent[k].payload]
<1>1. PackedRight(sent[k], setup.id)
  BY SentRight
<1>2. PICK p : p = sent[k]
  OBVIOUS
<1>3. PICK n : n = Len(p.payload)
  OBVIOUS
<1>4. /\ p.flags \in Byte /\ p.payload \in Seq(Byte)
      /\ p = [flags |-> p.flags, payload |-> p.payload]
  BY <1>1, <1>2 DEF PackedRight
<1>5. n <= 250 /\ n >= 5
  BY <1>1, <1>2, <1>3 DEF PackedRight, PKT_TABLE_ID_OFFSET
<1>6. n \in Nat
  BY <1>3, <1>4, LenProperties
<1>7. n \in 5..250
  BY <1>5, <1>6
<1>8. QED
  BY <1>2, <1>3, <1>4, <1>7, Zenon DEF Fits, IsPacket

\* The place behind the first m bytes of the k-th frame has its next byte.
LEMMA ByteInFrame ==
  ASSUME SentIs, NEW W, NEW e, Laid(W, e, sent, pause), pause \in BOOLEAN, NEW k \in 1..Len(sent),
         NEW m \in 0..Len(sent[k].payload) + 5, NEW pos, pos = e[k - 1] + m
  PROVE  /\ W[pos + 1] = Frame(sent[k])[m + 1] /\ W[pos + 1] \in Byte
         /\ pos \in Nat /\ Len(W) \in Nat /\ pos + 1 < Len(W)
         /\ m = Len(sent[k].payload) + 5 => e[k] = (pos + 1) + Gap(pause, k) /\ e[k] < Len(W)
<1> DEFINE n == Len(sent)
           F == Frame(sent[k])
           l == Len(sent[k].payload)
<1>1. Fits(sent[k]) /\ n \in Nat
  BY SentFits, SentRight
<1>2. F \in Seq(Byte) /\ Len(F) = l + 6 /\ l \in Nat
  <2>1. IsPacket(sent[k]) /\ l \in 5..250
    BY <1>1, Zenon DEF Fits
  <2>2. F \in Seq(Byte) /\ Len(F) = l + 6
    BY <2>1, FrameParts
  <2>3. QED
    BY <2>1, <2>2
<1>3. /\ e \in [0..n -> Nat] /\ \A j \in 0..n : e[j] <= e[n]
      /\ e[k] = (e[k - 1] + Len(F)) + Gap(pause, k)
      /\ \A i \in 1..Len(F) : W[e[k - 1] + i] = F[i]
      /\ Len(W) = e[n] + 1
  BY DEF Laid
<1> HIDE DEF n, F, l
<1>4. k - 1 \in 0..n /\ k \in 0..n /\ n \in 0..n
  BY <1>1 DEF n
<1>5. e[k - 1] \in Nat /\ e[k] \in Nat /\ e[n] \in Nat /\ e[k] <= e[n]
  BY <1>3, <1>4
<1>6. Gap(pause, k) \in Nat
  BY DEF Gap
<1> DEFINE a == e[k - 1]
           b == e[k]
           c == e[n]
           g == Gap(pause, k)
           h == Len(F)
<1>13. a \in Nat /\ b \in Nat /\ c \in Nat /\ b <= c /\ g \in Nat /\ h = l + 6 /\ b = (a + h) + g
  BY <1>2, <1>3, <1>5, <1>6
<1>14. Len(W) = c + 1 /\ pos = a + m /\ m \in 0..l + 5
  BY <1>3 DEF l
<1> HIDE DEF a, b, c, g, h
<1>7. m \in Nat /\ m <= l + 5 /\ m + 1 \in 1..h /\ pos + 1 = a + (m + 1)
  BY <1>2, <1>13, <1>14
<1>8. W[pos + 1] = F[m + 1]
  <2>1. W[a + (m + 1)] = F[m + 1]
    BY <1>3, <1>7 DEF a, h
  <2>2. QED
    BY <2>1, <1>7
<1>9. F[m + 1] \in Byte
  BY <1>2, <1>7, ElementOfSeq DEF h
<1>10. pos \in Nat /\ Len(W) \in Nat /\ pos + 1 < Len(W)
  BY <1>2, <1>7, <1>13, <1>14
<1>11. m = l + 5 => b = (pos + 1) + g /\ b < Len(W)
  BY <1>2, <1>7, <1>13, <1>14
<1>12. QED
  BY <1>8, <1>9, <1>10, <1>11 DEF F, l, b, g

\* What the line holds does not change while it is being received.
LEMMA LaidKept ==
  ASSUME UNCHANGED lineVars, NEW W, NEW e, Laid(W, e, sent, pause)
  PROVE  Laid(W, e, sent, pause)'
BY DEF lineVars, Laid

\* A byte before the last of a packet.
LEMMA CleanTakes ==
  ASSUME FramingInv, SentIs, pause \in BOOLEAN, NEW first, NEW d, Skew(first, d),
         NEW g, GotIsSent(first, d, g),
         NEW W, NEW e, NEW pos, Coming(W, e, pos, g), NEW byte \in Byte, TakesByte(byte)
  PROVE  InStep(first, d)'
<1> DEFINE n == Len(sent)
           q == pos + 1
<1>1. /\ Takes(byte) /\ got' = got /\ l2_state # "stop"
  BY DEF TakesByte, SearchForStart, GetFlags, GetLength, AccumulateData, GetCrc0, GetCrc1
<1>2. wire' = Tail(wire) /\ byte = Head(wire) /\ byte # GAP /\ UNCHANGED lineVars
  BY <1>1 DEF Takes
<1>3. sent' = sent /\ noise' = noise /\ pause' = pause /\ Laid(W, e, sent, pause)'
  BY <1>2, LaidKept DEF lineVars, Coming
<1>4. g \in Nat /\ n \in Nat /\ g <= n
  BY SentRight DEF GotIsSent, Skew
<1>5. Laid(W, e, sent, pause) /\ Rests(W, pos)
  BY DEF Coming
<1>6. /\ (pause => W[e[1]] = GAP) /\ W[e[n] + 1] = GAP /\ Len(W) = e[n] + 1
      /\ \A j \in 0..n : e[j] \in Nat
  <2>1. /\ e \in [0..n -> Nat]
        /\ (pause => W[e[1]] = GAP) /\ W[e[n] + 1] = GAP /\ Len(W) = e[n] + 1
    BY <1>5 DEF Laid
  <2> HIDE DEF n
  <2>2. QED
    BY <2>1
<1> HIDE DEF n
<1>7. Len(W) \in Nat /\ e[g] \in Nat
  BY <1>4, <1>6
<1>8. byte = W[q]
  BY <1>2, <1>5, <1>7, WireMoves
<1>9. PICK k : k = g + 1
  OBVIOUS
<1>10. PICK p : p = sent[k]
  OBVIOUS
<1>11. g < n /\ \E m \in Nat : /\ pos = e[g] + m
                              /\ \/ m = 0 /\ l2_state = "start"
                                 \/ m \in 1..Len(p.payload) + 4 /\ ReceiverAt(p, m)
  <2>1. ~(pause /\ g = 1 /\ pos + 1 = e[1])
    BY <1>2, <1>6, <1>8
  <2>2. CASE pos = e[g] /\ l2_state = "start"
    <3>1. g # n
      BY <2>2, <1>2, <1>6, <1>8
    <3>2. g < n
      BY <3>1, <1>4
    <3>3. pos = e[g] + 0 /\ 0 \in Nat
      BY <2>2, <1>7
    <3>4. QED
      BY <3>2, <3>3, <2>2
  <2>3. CASE g < n /\ \E m \in 1..Len(p.payload) + 5 : pos = e[g] + m /\ ReceiverAt(p, m)
    <3> DEFINE l == Len(p.payload)
    <3>1. PICK m \in 1..l + 5 : pos = e[g] + m /\ ReceiverAt(p, m)
      BY <2>3
    <3>2. l \in 5..250
      <4>1. k \in 1..n
        BY <2>3, <1>4, <1>9
      <4>2. Fits(p)
        BY <4>1, <1>10, SentFits DEF n
      <4>3. QED
        BY <4>2 DEF Fits
    <3>3. m # l + 5
      BY <3>1, <1>1 DEF ReceiverAt
    <3>4. m \in 1..l + 4 /\ m \in Nat
      <4> HIDE DEF l
      <4>1. QED
        BY <3>1, <3>2, <3>3
    <3>5. QED
      BY <2>3, <3>1, <3>4
  <2>4. QED
    BY <2>1, <2>2, <2>3, <1>9, <1>10 DEF Coming, n
<1>12. PICK m \in Nat : /\ pos = e[g] + m
                        /\ \/ m = 0 /\ l2_state = "start"
                           \/ m \in 1..Len(p.payload) + 4 /\ ReceiverAt(p, m)
  BY <1>11
<1>13. k \in 1..n /\ k - 1 = g /\ Fits(p)
  <2>1. k \in 1..n /\ k - 1 = g
    BY <1>4, <1>9, <1>11
  <2>2. QED
    BY <2>1, <1>10, SentFits DEF n
<1>14. m \in 0..Len(p.payload) + 5 /\ m + 1 \in 1..Len(p.payload) + 5
  <2> DEFINE l == Len(p.payload)
  <2>1. l \in 5..250 /\ (m = 0 \/ m \in 1..l + 4)
    BY <1>12, <1>13 DEF Fits
  <2> HIDE DEF l
  <2>2. m \in 0..l + 5 /\ m + 1 \in 1..l + 5
    BY <2>1
  <2>3. QED
    BY <2>2 DEF l
<1>15. byte = Frame(p)[m + 1] /\ pos \in Nat /\ q < Len(W)
  <2>1. pos = e[k - 1] + m /\ k \in 1..Len(sent) /\ m \in 0..Len(sent[k].payload) + 5
    BY <1>10, <1>12, <1>13, <1>14 DEF n
  <2>2. W[pos + 1] = Frame(sent[k])[m + 1] /\ pos \in Nat /\ pos + 1 < Len(W)
    BY <2>1, <1>5, ByteInFrame
  <2>3. QED
    BY <2>2, <1>8, <1>10
<1>16. ReceiverAt(p, m + 1)'
  <2>1. CASE m = 0
    <3>1. l2_state = "start" /\ m + 1 = 1
      BY <2>1, <1>12
    <3>2. QED
      BY <3>1, <1>13, <1>15, FirstByte
  <2>2. CASE m # 0
    BY <2>2, <1>12, <1>13, <1>15, ReceiverAdvances
  <2>3. QED
    BY <2>1, <2>2
<1>17. Rests(W, q)'
  BY <1>2, <1>5, <1>7, <1>15, WireMoves
<1>18. q = e[g] + (m + 1)
  BY <1>7, <1>12
<1>19. Coming(W, e, q, g)'
  <2>1. sent' = sent /\ sent[g + 1] = p
    BY <1>3, <1>9, <1>10
  <2>2. g < Len(sent') /\ q = e[g] + (m + 1)
    BY <2>1, <1>11, <1>18 DEF n
  <2>3. m + 1 \in 1..Len(sent'[g + 1].payload) + 5
    BY <2>1, <1>14
  <2>4. ReceiverAt(sent[g + 1], m + 1)'
    BY <2>1, <1>16
  <2>5. QED
    BY <2>2, <2>3, <2>4, <1>3, <1>17 DEF Coming
<1>20. GotIsSent(first, d, g)'
  BY <1>1, <1>3 DEF GotIsSent
<1>21. QED
  BY <1>4, <1>19, <1>20 DEF InStep

\* The last byte of a packet.
LEMMA CleanStops ==
  ASSUME FramingInv, SentIs, pause \in BOOLEAN, NEW first, NEW d, Skew(first, d),
         NEW g, GotIsSent(first, d, g),
         NEW W, NEW e, NEW pos, Coming(W, e, pos, g), NEW byte \in Byte, GetStop(byte)
  PROVE  InStep(first, d)'
<1> DEFINE n == Len(sent)
           q == pos + 1
           flagged == (IF HasFlag(pkt.flags, FLAG_RETRY) THEN {"retry"} ELSE {})
                     \cup (IF HasFlag(pkt.flags, FLAG_DISCONNECT) THEN {"disconnect"} ELSE {})
           framing == IF byte = STOP_BYTE THEN {} ELSE {"framing"}
           r == [record |-> Record(pkt, byte), status |-> status \cup framing \cup flagged]
<1>1. Takes(byte) /\ got' = Append(got, r) /\ l2_state = "stop" /\ l2_state' = "start"
  BY DEF GetStop, Reset
<1>2. wire' = Tail(wire) /\ byte = Head(wire) /\ UNCHANGED lineVars
  BY <1>1 DEF Takes
<1>3. sent' = sent /\ noise' = noise /\ pause' = pause /\ Laid(W, e, sent, pause)'
  BY <1>2, LaidKept DEF lineVars, Coming
<1>4. g \in Nat /\ n \in Nat /\ g <= n
  BY SentRight DEF GotIsSent, Skew
<1>5. Laid(W, e, sent, pause) /\ Rests(W, pos)
  BY DEF Coming
<1>6. PICK k : k = g + 1
  OBVIOUS
<1>7. PICK p : p = sent[k]
  OBVIOUS
<1>8. g < n /\ \E m \in 1..Len(p.payload) + 5 : pos = e[g] + m /\ ReceiverAt(p, m)
  BY <1>1, <1>6, <1>7 DEF Coming
<1>9. PICK m \in 1..Len(p.payload) + 5 : pos = e[g] + m /\ ReceiverAt(p, m)
  BY <1>8
<1> HIDE DEF n, flagged, framing
<1>10. k \in 1..n /\ k - 1 = g /\ Fits(p) /\ p = [flags |-> p.flags, payload |-> p.payload]
  <2>1. k \in 1..n /\ k - 1 = g
    BY <1>4, <1>6, <1>8
  <2>2. QED
    BY <2>1, <1>7, SentFits DEF n
<1>11. m = Len(p.payload) + 5
  <2> DEFINE l == Len(p.payload)
  <2>1. l \in 5..250
    BY <1>10 DEF Fits
  <2>2. m # 1 /\ m # 2 /\ m \notin 3..l + 2 /\ m # l + 3 /\ m # l + 4
    BY <1>1, <1>9 DEF ReceiverAt
  <2>3. m \in 1..l + 5
    BY <1>9
  <2> HIDE DEF l
  <2>4. m = l + 5
    BY <2>1, <2>2, <2>3
  <2>5. QED
    BY <2>4 DEF l
<1>12. status = {} /\ pkt.flags = p.flags /\ pkt.payload = p.payload
  <2> DEFINE l == Len(p.payload)
  <2>1. l \in 5..250
    BY <1>10 DEF Fits
  <2>2. m >= 2 /\ m >= l + 3 /\ m = l + 5
    <3>1. m = l + 5
      BY <1>11
    <3> HIDE DEF l
    <3>2. QED
      BY <2>1, <3>1
  <2>3. QED
    BY <2>2, <1>9 DEF ReceiverAt
<1>13. /\ W[q] = Frame(p)[m + 1] /\ pos \in Nat /\ Len(W) \in Nat /\ q < Len(W)
       /\ e[k] = q + Gap(pause, k) /\ e[k] < Len(W)
  <2>1. pos = e[k - 1] + m /\ k \in 1..Len(sent) /\ m \in 0..Len(sent[k].payload) + 5
    <3>1. m \in 0..Len(p.payload) + 5
      <4> DEFINE l == Len(p.payload)
      <4>1. l \in 5..250 /\ m = l + 5
        BY <1>10, <1>11 DEF Fits
      <4> HIDE DEF l
      <4>2. m \in 0..l + 5
        BY <4>1
      <4>3. QED
        BY <4>2 DEF l
    <3>2. QED
      BY <3>1, <1>7, <1>9, <1>10 DEF n
  <2>2. m = Len(sent[k].payload) + 5
    BY <1>7, <1>11
  <2>3. W[pos + 1] = Frame(sent[k])[m + 1] /\ pos \in Nat /\ Len(W) \in Nat /\ pos + 1 < Len(W)
    BY <2>1, <1>5, ByteInFrame
  <2>4. e[k] = (pos + 1) + Gap(pause, k) /\ e[k] < Len(W)
    BY <2>1, <2>2, <1>5, ByteInFrame
  <2>5. QED
    BY <2>3, <2>4, <1>7
<1>14. byte = STOP_BYTE
  <2>1. byte = W[q]
    BY <1>2, <1>5, <1>13, WireMoves
  <2>2. Frame(p)[Len(p.payload) + 6] = STOP_BYTE
    BY <1>10, FrameParts DEF Fits
  <2>3. m + 1 = Len(p.payload) + 6
    <3> DEFINE l == Len(p.payload)
    <3>1. l \in 5..250 /\ m = l + 5
      BY <1>10, <1>11 DEF Fits
    <3> HIDE DEF l
    <3>2. m + 1 = l + 6
      BY <3>1
    <3>3. QED
      BY <3>2 DEF l
  <2>4. QED
    BY <2>1, <2>2, <2>3, <1>13
<1>15. r.record.flags = p.flags /\ r.record.payload = p.payload /\ r.status = flagged
  BY <1>12, <1>14 DEF Record, framing
<1>16. Sent(r) = p /\ IsIntact(r)
  <2>1. Sent(r) = p
    BY <1>10, <1>15 DEF Sent
  <2>2. flagged \cap {"crc", "framing"} = {}
    BY DEF flagged
  <2>3. QED
    BY <2>1, <2>2, <1>15 DEF IsIntact
<1>17. PICK l : l = Len(got)
  OBVIOUS
<1>18. /\ l \in Nat /\ Len(got') = l + 1 /\ got'[l + 1] = r
       /\ \A j \in 1..l : got'[j] = got[j]
  <2> DEFINE T == Received \cup {r}
  <2>1. got \in Seq(Received) /\ l \in Nat
    BY <1>17, LenProperties DEF FramingInv
  <2>2. r \in T /\ \A x \in Received : x \in T
    OBVIOUS
  <2> HIDE DEF T, r
  <2>3. got \in Seq(T)
    <3>1. got \in [1..l -> Received]
      BY <2>1, <1>17, LenProperties
    <3>2. got \in [1..l -> T]
      BY <3>1, <2>2
    <3>3. QED
      BY <3>2, <2>1
  <2>4. /\ Len(Append(got, r)) = Len(got) + 1 /\ Append(got, r)[Len(got) + 1] = r
        /\ \A j \in 1..Len(got) : Append(got, r)[j] = got[j]
    BY <2>2, <2>3, AppendProperties
  <2>5. QED
    BY <2>1, <2>4, <1>1, <1>17
<1> HIDE DEF r
<1>19. /\ first \in Nat /\ d \in Int /\ 0 <= first + d /\ first <= g /\ l = g + d
       /\ \A j \in first + 1..g : Sent(got[j + d]) = sent[j] /\ IsIntact(got[j + d])
  BY <1>17 DEF GotIsSent, Skew
<1>20. GotIsSent(first, d, k)'
  <2>1. k \in first..Len(sent') /\ Len(got') = k + d
    BY <1>3, <1>4, <1>6, <1>8, <1>18, <1>19 DEF n
  <2>2. ASSUME NEW j \in first + 1..k PROVE Sent(got'[j + d]) = sent'[j] /\ IsIntact(got'[j + d])
    <3>1. CASE j = k
      <4>1. j + d = l + 1
        BY <3>1, <1>4, <1>6, <1>19
      <4>2. QED
        BY <3>1, <4>1, <1>3, <1>7, <1>16, <1>18
    <3>2. CASE j # k
      <4>1. j \in first + 1..g
        BY <3>2, <1>4, <1>6, <1>19
      <4>2. j + d \in 1..l
        BY <4>1, <1>4, <1>19
      <4>3. Sent(got[j + d]) = sent[j] /\ IsIntact(got[j + d])
        BY <4>1, <1>19
      <4>4. QED
        BY <4>2, <4>3, <1>3, <1>18
    <3>3. QED
      BY <3>1, <3>2
  <2>3. QED
    BY <2>1, <2>2 DEF GotIsSent
<1>21. Rests(W, q)'
  BY <1>2, <1>5, <1>13, WireMoves
<1>22. (pause' /\ k = 1 /\ q + 1 = e[1]) \/ q = e[k]
  <2>1. CASE pause /\ k = 1
    <3>1. e[1] = q + 1
      BY <2>1, <1>13 DEF Gap
    <3>2. QED
      BY <3>1, <2>1, <1>3
  <2>2. CASE ~(pause /\ k = 1)
    <3>1. e[k] = q + 0
      BY <2>2, <1>13 DEF Gap
    <3>2. q + 0 = q
      BY <1>13
    <3>3. QED
      BY <3>1, <3>2
  <2>3. QED
    BY <2>1, <2>2
<1>23. Coming(W, e, q, k)'
  BY <1>1, <1>3, <1>21, <1>22 DEF Coming
<1>24. k \in Nat
  BY <1>4, <1>6
<1>25. QED
  BY <1>20, <1>23, <1>24 DEF InStep

\* A pause on the line.
LEMMA CleanPauses ==
  ASSUME FramingInv, SentIs, pause \in BOOLEAN, GAP \notin Byte, NEW first, NEW d,
         Skew(first, d), NEW g, GotIsSent(first, d, g),
         NEW W, NEW e, NEW pos, Coming(W, e, pos, g), Timeout
  PROVE  InStep(first, d)'
<1> DEFINE n == Len(sent)
           q == pos + 1
<1>1. /\ wire' = Tail(wire) /\ Head(wire) = GAP /\ got' = got /\ l2_state' = "start"
      /\ UNCHANGED lineVars
  BY DEF Timeout, Reset
<1>2. sent' = sent /\ noise' = noise /\ pause' = pause /\ Laid(W, e, sent, pause)'
  BY <1>1, LaidKept DEF lineVars, Coming
<1>3. g \in Nat /\ n \in Nat /\ g <= n
  BY SentRight DEF GotIsSent, Skew
<1>4. Laid(W, e, sent, pause) /\ Rests(W, pos)
  BY DEF Coming
<1>5. Len(W) = e[n] + 1 /\ \A j \in 0..n : e[j] \in Nat /\ e[j] <= e[n]
  <2>1. e \in [0..n -> Nat] /\ Len(W) = e[n] + 1 /\ \A j \in 0..n : e[j] <= e[n]
    BY <1>4 DEF Laid
  <2> HIDE DEF n
  <2>2. QED
    BY <2>1
<1>6. GotIsSent(first, d, g)'
  BY <1>1, <1>2 DEF GotIsSent
<1> HIDE DEF n
<1>7. Len(W) \in Nat /\ e[n] \in Nat /\ e[g] \in Nat
  BY <1>3, <1>5
<1>8. W[q] = GAP
  BY <1>1, <1>4, <1>7, WireMoves
<1>9. CASE pause /\ g = 1 /\ q = e[1]
  <2>1. q < Len(W)
    <3>1. e[1] <= e[n]
      BY <1>3, <1>5, <1>9
    <3>2. QED
      BY <3>1, <1>3, <1>5, <1>7, <1>9
  <2>2. Rests(W, q)'
    BY <2>1, <1>1, <1>4, <1>7, WireMoves
  <2>3. Coming(W, e, q, g)'
    BY <2>2, <1>1, <1>2, <1>9 DEF Coming
  <2>4. QED
    BY <2>3, <1>3, <1>6 DEF InStep
<1>10. CASE pos = e[g] /\ g = n
  <2>1. wire' = <<>>
    BY <1>1, <1>4, <1>5, <1>7, <1>10, WireMoves
  <2>2. g = Len(sent')
    BY <1>2, <1>10 DEF n
  <2>3. QED
    BY <2>1, <2>2, <1>3, <1>6 DEF InStep
<1>11. ASSUME g < n, NEW m \in 0..Len(sent[g + 1].payload) + 5, pos = e[g] + m PROVE FALSE
  <2>1. PICK k : k = g + 1
    OBVIOUS
  <2>2. k \in 1..n /\ k - 1 = g
    BY <2>1, <1>3, <1>11
  <2>3. pos = e[k - 1] + m /\ k \in 1..Len(sent) /\ m \in 0..Len(sent[k].payload) + 5
    BY <2>1, <2>2, <1>11 DEF n
  <2>4. W[pos + 1] \in Byte
    BY <2>3, <1>4, ByteInFrame
  <2>5. QED
    BY <2>4, <1>8
<1>12. CASE pos = e[g] /\ g # n
  <2> DEFINE l == Len(sent[g + 1].payload)
  <2>1. g < n /\ pos = e[g] + 0
    <3>1. PICK v : v = e[g]
      OBVIOUS
    <3>2. v \in Nat /\ v + 0 = v
      BY <3>1, <1>3, <1>7
    <3>3. g < n
      BY <1>3, <1>12
    <3>4. QED
      BY <3>1, <3>2, <3>3, <1>12
  <2>2. l \in 5..250
    <3>1. g + 1 \in 1..n
      BY <2>1, <1>3
    <3>2. Fits(sent[g + 1])
      BY <3>1, SentFits DEF n
    <3>3. QED
      BY <3>2, Zenon DEF Fits
  <2>3. 0 \in 0..l + 5
    <3> HIDE DEF l
    <3>1. QED
      BY <2>2
  <2>4. QED
    BY <2>1, <2>3, <1>11
<1>13. CASE g < n /\ \E m \in 1..Len(sent[g + 1].payload) + 5 : pos = e[g] + m
  <2>1. PICK m \in 1..Len(sent[g + 1].payload) + 5 : pos = e[g] + m
    BY <1>13
  <2>2. m \in 0..Len(sent[g + 1].payload) + 5
    BY <2>1
  <2>3. QED
    BY <2>1, <2>2, <1>11, <1>13
<1>14. QED
  BY <1>9, <1>10, <1>12, <1>13 DEF Coming, n

PauseType == pause \in BOOLEAN

\* Behind a disturbed frame the pause is still to come, at the t-th place of the line, and
\* behind that all that a line that disturbs nothing has there.
Pausing(W, e, t) ==
    /\ Laid(W, e, sent, pause) /\ pause /\ Len(sent) > 0
    /\ t \in 1..Len(wire) /\ wire[t] = GAP /\ \A i \in 1..t - 1 : wire[i] # GAP
    /\ Len(wire) = t + (Len(W) - e[1])
    /\ \A i \in 1..Len(W) - e[1] : wire[t + i] = W[e[1] + i]

\* A pause behind a disturbed frame puts the receiver in step.
PauseInv ==
    noise # None /\ pause =>
        \/ \E W, e, t : Pausing(W, e, t)
        \/ \E d \in Int : 0 <= 1 + d /\ InStep(1, d)

ArrivalInv == PauseType /\ CleanInv /\ PauseInv

\* What is in front of the pause behind a disturbed frame is taken, byte by byte.
LEMMA PauseNears ==
  ASSUME FramingInv, SentIs, NEW W, NEW e, NEW t, Pausing(W, e, t),
         wire' = Tail(wire), UNCHANGED lineVars, Head(wire) # GAP
  PROVE  Pausing(W, e, t - 1)'
<1> DEFINE T == Byte \cup {GAP}
           w == Len(wire)
           r == Len(W) - e[1]
<1>1. wire \in Seq(T) /\ w \in Nat
  BY LenProperties DEF FramingInv
<1>2. /\ t \in 1..w /\ wire[t] = GAP /\ \A i \in 1..t - 1 : wire[i] # GAP
      /\ w = t + r /\ \A i \in 1..r : wire[t + i] = W[e[1] + i]
  BY DEF Pausing
<1>3. r \in Int
  <2>1. PICK n : n = Len(sent)
    OBVIOUS
  <2>2. /\ e \in [0..n -> Nat] /\ Len(W) = e[n] + 1 /\ n \in Nat /\ n > 0
    BY <2>1, SentRight DEF Pausing, Laid
  <2>3. e[n] \in Nat /\ e[1] \in Nat
    BY <2>2
  <2>4. QED
    BY <2>2, <2>3
<1> HIDE DEF T, r
<1>4. w # 0 /\ wire # <<>>
  <2>1. w # 0
    BY <1>1, <1>2
  <2>2. QED
    BY <2>1, EmptySeq
<1>5. /\ Head(wire) = wire[1] /\ Len(wire') = w - 1
      /\ \A i \in 1..w - 1 : wire'[i] = wire[i + 1]
  <2>1. Head(wire) = wire[1] /\ Len(Tail(wire)) = w - 1
    BY <1>1, <1>4, HeadTailProperties
  <2>2. \A i \in 1..Len(Tail(wire)) : Tail(wire)[i] = wire[i + 1]
    BY <1>1, <1>4, HeadTailProperties
  <2>3. QED
    BY <2>1, <2>2
<1> HIDE DEF w
<1>6. t # 1
  BY <1>2, <1>5
<1> DEFINE u == t - 1
<1>7. u \in 1..w - 1 /\ u + 1 = t /\ w - 1 = u + r /\ t \in Nat /\ w \in Nat
  BY <1>1, <1>2, <1>3, <1>6
<1> HIDE DEF u
<1>8. wire'[u] = GAP
  BY <1>2, <1>5, <1>7
<1>9. ASSUME NEW i \in 1..u - 1 PROVE wire'[i] # GAP
  <2>1. i \in 1..w - 1 /\ i + 1 \in 1..t - 1
    BY <1>7
  <2>2. QED
    BY <2>1, <1>2, <1>5
<1>10. ASSUME NEW i \in 1..r PROVE wire'[u + i] = W[e[1] + i]
  <2>1. u + i \in 1..w - 1 /\ (u + i) + 1 = t + i
    BY <1>3, <1>7
  <2>2. QED
    BY <2>1, <1>2, <1>5
<1>11. Laid(W, e, sent, pause)' /\ pause' /\ Len(sent') > 0
  BY LaidKept DEF Pausing, lineVars
<1>12. Pausing(W, e, u)'
  BY <1>5, <1>7, <1>8, <1>9, <1>10, <1>11 DEF Pausing, r
<1>13. QED
  BY <1>12 DEF u

\* The pause itself puts the receiver in step with what is behind it.
LEMMA PauseEnds ==
  ASSUME FramingInv, SentIs, NEW W, NEW e, NEW t, Pausing(W, e, t), Timeout
  PROVE  \E d \in Int : 0 <= 1 + d /\ InStep(1, d)'
<1> DEFINE T == Byte \cup {GAP}
           w == Len(wire)
           c == e[1]
           m == Len(W)
<1>1. wire \in Seq(T) /\ w \in Nat /\ Len(got) \in Nat
  BY LenProperties DEF FramingInv
<1>2. /\ t \in 1..w /\ wire[t] = GAP /\ \A i \in 1..t - 1 : wire[i] # GAP
      /\ w = t + (m - c) /\ \A i \in 1..m - c : wire[t + i] = W[c + i]
  BY DEF Pausing
<1>3. /\ wire' = Tail(wire) /\ Head(wire) = GAP /\ wire # <<>> /\ got' = got
      /\ l2_state' = "start" /\ UNCHANGED lineVars
  BY DEF Timeout, Reset
<1>4. Laid(W, e, sent, pause)' /\ sent' = sent
  BY <1>3, LaidKept DEF Pausing, lineVars
<1>5. Len(sent) \in Nat /\ Len(sent) > 0
  BY SentRight DEF Pausing
<1>6. m \in Nat /\ c \in Nat /\ c < m
  <2>1. PICK n : n = Len(sent)
    OBVIOUS
  <2>2. /\ e \in [0..n -> Nat] /\ Len(W) = e[n] + 1 /\ n \in Nat /\ n > 0
        /\ \A k \in 0..n : e[k] <= e[n]
    BY <2>1, <1>5 DEF Pausing, Laid
  <2>3. e[n] \in Nat /\ e[1] \in Nat /\ e[1] <= e[n]
    BY <2>2
  <2>4. QED
    BY <2>2, <2>3
<1> HIDE DEF T, c, m
<1>7. /\ Head(wire) = wire[1] /\ Len(wire') = w - 1
      /\ \A i \in 1..w - 1 : wire'[i] = wire[i + 1]
  <2>1. Head(wire) = wire[1] /\ Len(Tail(wire)) = w - 1
    BY <1>1, <1>3, HeadTailProperties
  <2>2. \A i \in 1..Len(Tail(wire)) : Tail(wire)[i] = wire[i + 1]
    BY <1>1, <1>3, HeadTailProperties
  <2>3. QED
    BY <2>1, <2>2, <1>3
<1> HIDE DEF w
<1>8. t = 1
  <2>1. 1 \notin 1..t - 1
    BY <1>2, <1>3, <1>7
  <2>2. QED
    BY <2>1, <1>1, <1>2
<1>9. Rests(W, c)'
  <2>1. Len(wire') = m - c /\ c \in Nat /\ c < m
    BY <1>1, <1>2, <1>6, <1>7, <1>8
  <2>2. ASSUME NEW i \in 1..m - c PROVE wire'[i] = W[c + i]
    <3>1. i \in 1..w - 1 /\ i + 1 = t + i
      BY <1>1, <1>2, <1>6, <1>8
    <3>2. QED
      BY <3>1, <1>2, <1>7
  <2>3. QED
    BY <2>1, <2>2 DEF Rests, m
<1>10. Coming(W, e, c, 1)'
  BY <1>3, <1>4, <1>9 DEF Coming, c
<1>11. PICK d \in Int : 0 <= 1 + d /\ Len(got) = 1 + d
  <2> DEFINE d == Len(got) - 1
  <2>1. d \in Int /\ 0 <= 1 + d /\ Len(got) = 1 + d
    BY <1>1
  <2>2. QED
    BY <2>1
<1>12. GotIsSent(1, d, 1)'
  <2>1. 1 \in 1..Len(sent') /\ Len(got') = 1 + d
    BY <1>3, <1>4, <1>5, <1>11
  <2>2. \A k \in 1 + 1..1 : FALSE
    OBVIOUS
  <2>3. QED
    BY <2>1, <2>2 DEF GotIsSent
<1>13. InStep(1, d)'
  BY <1>10, <1>12 DEF InStep
<1>14. QED
  BY <1>11, <1>13

\* Two lines with the same frames behind the first, and a pause in between.
LEMMA SameBehind ==
  ASSUME NEW T, GAP \in T, NEW a \in Seq(T), NEW r \in Seq(T), NEW c,
         c = ((a \o <<GAP>>) \o r) \o <<GAP>>
  PROVE  /\ Len(c) = (Len(a) + 1) + (Len(r) + 1) /\ c[Len(a) + 1] = GAP
         /\ \A i \in 1..Len(a) : c[i] = a[i]
         /\ \A i \in 1..Len(r) + 1 : c[(Len(a) + 1) + i] = (r \o <<GAP>>)[i]
<1> DEFINE end == <<GAP>>
           x == a \o end
           y == r \o end
<1>1. end \in Seq(T) /\ Len(end) = 1 /\ end[1] = GAP
  OBVIOUS
<1> HIDE DEF end
<1>2. x \in Seq(T) /\ Len(x) = Len(a) + 1 /\ Joins(x, a, Len(a), end, 1)
  BY <1>1, Joined
<1>3. y \in Seq(T) /\ Len(y) = Len(r) + 1
  BY <1>1, Joined
<1>4. c = x \o y
  <2> HIDE DEF x
  <2>1. Regroups(x, r, end)
    BY <1>1, <1>2, Regroup
  <2>2. QED
    BY <2>1 DEF Regroups, end, x, y
<1>5. Len(a) \in Nat /\ Len(r) \in Nat
  BY LenProperties
<1> HIDE DEF x
<1>6. Len(x \o y) = Len(x) + Len(y) /\ Joins(x \o y, x, Len(x), y, Len(y))
  <2> HIDE DEF y
  <2>1. QED
    BY <1>2, <1>3, Joined
<1> HIDE DEF y
<1>7. Len(c) = (Len(a) + 1) + (Len(r) + 1)
  BY <1>2, <1>3, <1>4, <1>6
<1>8. c[Len(a) + 1] = GAP /\ \A i \in 1..Len(a) : c[i] = a[i]
  <2>1. \A i \in 1..Len(a) + 1 : c[i] = x[i]
    BY <1>2, <1>4, <1>6 DEF Joins
  <2>2. x[Len(a) + 1] = GAP /\ \A i \in 1..Len(a) : x[i] = a[i]
    <3>1. 1 \in 1..1
      OBVIOUS
    <3>2. QED
      BY <3>1, <1>1, <1>2 DEF Joins
  <2>3. Len(a) + 1 \in 1..Len(a) + 1 /\ \A i \in 1..Len(a) : i \in 1..Len(a) + 1
    BY <1>5
  <2>4. QED
    BY <2>1, <2>2, <2>3
<1>9. \A i \in 1..Len(r) + 1 : c[(Len(a) + 1) + i] = y[i]
  BY <1>2, <1>3, <1>4, <1>6 DEF Joins
<1>10. QED
  BY <1>7, <1>8, <1>9 DEF y, end

\* A disturbed frame and a pause: the line at the start.
LEMMA PauseStarts ==
  ASSUME SentIs, Len(sent) > 0, pause = TRUE, noise \in NoisesOf(Frame(sent[1])),
         wire = Line(sent, noise, pause)
  PROVE  \E W, e, t : Pausing(W, e, t)
<1> DEFINE n == Len(sent)
           T == Byte \cup {GAP}
           W == Line(sent, None, pause)
           F == Frame(sent[1])
           a == Disturbed(F, noise)
           m == n - 1
           frames == [i \in 1..n - 1 |-> Frame(sent[i + 1])]
           r == FlattenSeq(frames)
<1>1. n \in Nat /\ n > 0 /\ \A i \in 1..n : IsPacket(sent[i])
  BY SentRight, SentFits DEF Fits
<1>2. PICK e : Laid(W, e, sent, pause)
  <2>1. n \in Nat \ {0} /\ pause \in BOOLEAN
    BY <1>1
  <2> HIDE DEF n
  <2>2. QED
    BY <2>1, <1>1, LineLaid DEF n
<1>3. F \in Seq(Byte)
  <2>1. IsPacket(sent[1])
    BY <1>1
  <2>2. QED
    BY <2>1, FrameParts
<1>4. a \in Seq(Byte)
  <2> HIDE DEF F
  <2>1. QED
    BY <1>3, DisturbedType DEF F
<1>5. r \in Seq(Byte)
  <2> HIDE DEF n
  <2>1. m \in Nat /\ \A i \in 1..m : i + 1 \in 1..n
    BY <1>1
  <2>2. \A i \in 1..m : Frame(sent[i + 1]) \in Seq(Byte)
    BY <2>1, <1>1, FrameParts
  <2> HIDE DEF m
  <2> DEFINE pieces == [i \in 1..m |-> Frame(sent[i + 1])]
  <2>3. pieces \in Seq(Seq(Byte))
    BY <2>1, <2>2
  <2>4. pieces = frames
    BY DEF m, n
  <2> HIDE DEF pieces, frames
  <2>5. QED
    BY <2>3, <2>4, FlattenType
<1>6. wire = ((a \o <<GAP>>) \o r) \o <<GAP>> /\ W = ((F \o <<GAP>>) \o r) \o <<GAP>>
  <2>1. \A x : Line(sent, x, pause) = ((Disturbed(F, x) \o <<GAP>>) \o r) \o <<GAP>>
    BY DEF Line
  <2>2. Disturbed(F, None) = F
    BY DEF Disturbed
  <2> HIDE DEF F, r
  <2>3. QED
    BY <2>1, <2>2
<1>7. HoldsBytes(T) /\ GAP \in T
  BY DEF HoldsBytes
<1> HIDE DEF T, W, F, a, r
<1>8. a \in Seq(T) /\ F \in Seq(T) /\ r \in Seq(T) /\ Len(a) \in Nat /\ Len(r) \in Nat
      /\ Len(F) \in Nat
  BY <1>3, <1>4, <1>5, <1>7, BytesIn, LenProperties
<1> DEFINE l == Len(a)
           k == Len(r) + 1
           y == r \o <<GAP>>
<1>9. /\ Len(wire) = (l + 1) + k /\ wire[l + 1] = GAP
      /\ \A i \in 1..l : wire[i] = a[i]
      /\ \A i \in 1..k : wire[(l + 1) + i] = y[i]
  BY <1>6, <1>7, <1>8, SameBehind
<1>10. /\ Len(W) = (Len(F) + 1) + k /\ \A i \in 1..k : W[(Len(F) + 1) + i] = y[i]
  BY <1>6, <1>7, <1>8, SameBehind
<1>11. e[1] = Len(F) + 1
  <2>1. e[0] = 0 /\ e[1] = (e[1 - 1] + Len(F)) + Gap(pause, 1)
    <3>1. 1 \in 1..n
      BY <1>1
    <3>2. QED
      BY <3>1, <1>2 DEF Laid, F
  <2>2. Gap(pause, 1) = 1
    BY DEF Gap
  <2>3. e[1 - 1] = 0
    BY <2>1
  <2>4. PICK f \in Nat : f = Len(F)
    BY <1>8
  <2>5. e[1] = (0 + f) + 1
    BY <2>1, <2>2, <2>3, <2>4
  <2>6. QED
    BY <2>4, <2>5
<1>12. l \in Nat /\ k \in Nat /\ \A i \in 1..l : a[i] # GAP
  <2>1. \A i \in 1..l : a[i] \in Byte
    BY <1>4, ElementOfSeq
  <2>2. GAP \notin Byte
    BY SetupsAssumption
  <2>3. QED
    BY <2>1, <2>2, <1>8
<1> HIDE DEF l, k, y, n
<1> DEFINE t == l + 1
<1>13. t \in 1..Len(wire) /\ t - 1 = l /\ Len(W) - e[1] = k
  <2>1. PICK f \in Nat : f = Len(F)
    BY <1>8
  <2>2. Len(W) = (f + 1) + k /\ e[1] = f + 1
    BY <2>1, <1>10, <1>11
  <2>3. QED
    BY <2>2, <1>9, <1>12
<1>14. Pausing(W, e, t)
  <2>1. \A i \in 1..t - 1 : wire[i] # GAP
    BY <1>9, <1>12, <1>13
  <2>2. Len(wire) = t + (Len(W) - e[1])
    BY <1>9, <1>13
  <2>3. \A i \in 1..Len(W) - e[1] : wire[t + i] = W[e[1] + i]
    BY <1>9, <1>10, <1>11, <1>13
  <2>4. QED
    BY <2>1, <2>2, <2>3, <1>1, <1>2, <1>9, <1>13 DEF Pausing, n
<1>15. QED
  BY <1>14

\* At the start nothing has been received, or all of it.
LEMMA ArrivalStarts == ASSUME Init PROVE ArrivalInv
<1> DEFINE n == Len(sent)
<1>1. SentIs
  BY DEF Init, SentIs
<1>2. n \in Nat /\ n = Len(setup.packed)
  BY <1>1, SentRight
<1>3. CASE setup.arrived
  <2>1. /\ ReceiverInit /\ noise = None /\ pause = FALSE /\ wire = <<>>
        /\ got = [i \in 1..n |-> [record |-> converted[i], status |-> {}]]
        /\ converted = [i \in 1..n |-> [flags |-> sent[i].flags, payload |-> sent[i].payload,
             end |-> STOP_BYTE,
                                        crc |-> crc16(0,
                                          <<START_BYTE, sent[i].flags, Len(sent[i].payload) + 5>>
                                                           \o sent[i].payload)]]
    BY <1>3 DEF Init, ArrivedInit
  <2>2. Len(got) = n
    BY <2>1, <1>2
  <2>3. ASSUME NEW k \in 1..n PROVE Sent(got[k]) = sent[k] /\ IsIntact(got[k])
    <3>1. got[k].status = {} /\ got[k].record = converted[k]
      BY <2>1
    <3>2. converted[k].flags = sent[k].flags /\ converted[k].payload = sent[k].payload
      BY <2>1
    <3>3. sent[k] = [flags |-> sent[k].flags, payload |-> sent[k].payload]
      BY <1>1, SentFits
    <3>4. QED
      BY <3>1, <3>2, <3>3 DEF Sent, IsIntact
  <2> HIDE DEF n
  <2>4. n \in 0..n /\ n + 0 = n /\ \A k \in 0 + 1..n : k + 0 = k /\ k \in 1..n
    BY <1>2
  <2>5. GotIsSent(0, 0, n)
    BY <2>2, <2>3, <2>4 DEF GotIsSent, n
  <2>6. InStep(0, 0)
    BY <2>1, <2>5, <1>2 DEF InStep, n
  <2>7. QED
    BY <2>1, <2>6 DEF ArrivalInv, CleanInv, PauseInv, PauseType
<1>4. CASE ~setup.arrived
  <2>1. /\ pause \in BOOLEAN /\ ReceiverInit /\ wire = Line(sent, noise, pause) /\ got = <<>>
        /\ noise \in Noises(Frame(sent[1]))
    BY <1>4 DEF Init, FramingInit
  <2>2. l2_state = "start"
    BY <2>1 DEF ReceiverInit
  <2>3. Len(got) = 0
    BY <2>1
  <2>4. IsTerminal(setup)
    BY <1>1, TheSetup DEF SentIs
  <2>5. n # 0
    <3>1. setup.packed # <<>>
            /\ setup.packed \in Seq([flags : Byte, tables : Seq([id : Byte, fill : Byte])])
      BY <1>4, <2>4 DEF IsTerminal
    <3>2. QED
      BY <3>1, <1>2, EmptySeq
  <2>6. n \in Nat \ {0} /\ \A i \in 1..n : IsPacket(sent[i])
    BY <2>5, <1>1, <1>2, SentFits DEF Fits
  <2>7. ASSUME noise = None PROVE InStep(0, 0)
    <3> DEFINE W == Line(sent, None, pause)
    <3>1. PICK e : Laid(W, e, sent, pause)
      <4> HIDE DEF n
      <4>1. QED
        BY <2>1, <2>6, LineLaid DEF n
    <3>2. wire = W
      BY <2>1, <2>7
    <3> HIDE DEF W
    <3>3. Len(W) = e[n] + 1 /\ e[n] \in Nat /\ e[0] = 0
      <4>1. e \in [0..n -> Nat] /\ Len(W) = e[n] + 1 /\ e[0] = 0
        BY <3>1 DEF Laid
      <4> HIDE DEF n
      <4>2. QED
        BY <4>1, <1>2
    <3>4. Rests(W, 0)
      <4>1. 0 < Len(W) /\ Len(W) = Len(W) - 0 /\ \A i \in 1..Len(W) : 0 + i = i
        BY <3>3
      <4>2. QED
        BY <3>2, <4>1 DEF Rests
    <3>5. Coming(W, e, 0, 0)
      BY <2>2, <3>1, <3>3, <3>4 DEF Coming
    <3>6. GotIsSent(0, 0, 0)
      <4>1. 0 \in 0..n /\ 0 + 0 = 0 /\ \A k \in 0 + 1..0 : FALSE
        BY <1>2
      <4>2. QED
        BY <4>1, <2>3 DEF GotIsSent
    <3>7. QED
      BY <3>5, <3>6 DEF InStep
  <2>8. ASSUME pause PROVE \E W, e, t : Pausing(W, e, t)
    <3>1. noise \in NoisesOf(Frame(sent[1]))
      <4>1. 1 \in 1..n
        BY <2>6
      <4>2. sent[1] = Packed(setup, setup.packed[1])
        BY <4>1, <1>1, <1>2 DEF SentIs
      <4>3. Noises(Frame(sent[1])) \subseteq NoisesOf(Frame(sent[1]))
        BY <1>4, <2>4, <4>2 DEF IsTerminal, NoisesOf
      <4>4. QED
        BY <4>3, <2>1
    <3>2. pause = TRUE /\ Len(sent) > 0
      BY <2>1, <2>6, <2>8
    <3>3. QED
      BY <3>1, <3>2, <1>1, <2>1, PauseStarts
  <2>9. QED
    BY <2>1, <2>7, <2>8 DEF ArrivalInv, CleanInv, PauseInv, PauseType
<1>5. QED
  BY <1>3, <1>4

\* A receiver that is in step with the line stays so.
LEMMA StepKept ==
  ASSUME FramingInv, SentIs, PauseType, NEW first, NEW d, Skew(first, d), InStep(first, d),
         ReceiveByte \/ Timeout
  PROVE  InStep(first, d)'
<1>1. wire # <<>> /\ GAP \notin Byte
  BY SetupsAssumption DEF ReceiveByte, Timeout, SearchForStart, GetFlags, GetLength,
     AccumulateData, GetCrc0, GetCrc1, GetStop, Takes
<1>2. PICK g \in Nat : GotIsSent(first, d, g) /\ \E W, e, pos : Coming(W, e, pos, g)
  BY <1>1 DEF InStep
<1>3. PICK W, e, pos : Coming(W, e, pos, g)
  BY <1>2
<1>4. CASE Timeout
  BY <1>1, <1>2, <1>3, <1>4, CleanPauses DEF PauseType
<1>5. CASE ReceiveByte
  <2>1. PICK byte \in Byte : TakesByte(byte) \/ GetStop(byte)
    BY <1>5 DEF ReceiveByte, TakesByte
  <2>2. QED
    BY <1>2, <1>3, <2>1, CleanTakes, CleanStops DEF PauseType
<1>6. QED
  BY <1>4, <1>5

\* No step breaks that invariant.
LEMMA ArrivalKept ==
  SentIs /\ FramingInv /\ ArrivalInv /\ [Next]_vars => ArrivalInv'
<1> SUFFICES ASSUME SentIs, FramingInv, ArrivalInv, [Next]_vars PROVE ArrivalInv'
  OBVIOUS
<1>1. PauseType /\ CleanInv /\ PauseInv
  BY DEF ArrivalInv
<1>2. CASE UNCHANGED framingVars
  <2>1. /\ sent' = sent /\ noise' = noise /\ pause' = pause /\ wire' = wire /\ got' = got
        /\ l2_state' = l2_state /\ pkt' = pkt /\ status' = status /\ UNCHANGED lineVars
    BY <1>2 DEF framingVars, lineVars
  <2>2. ASSUME NEW W, NEW e, NEW pos, NEW g, Coming(W, e, pos, g) PROVE Coming(W, e, pos, g)'
    <3>1. Laid(W, e, sent, pause)' /\ Rests(W, pos)'
      BY <2>1, <2>2, LaidKept DEF Coming, Rests
    <3>2. ASSUME NEW p, NEW m, ReceiverAt(p, m) PROVE ReceiverAt(p, m)'
      BY <2>1, <3>2 DEF ReceiverAt
    <3>3. PICK p : p = sent[g + 1]
      OBVIOUS
    <3>4. \A m : ReceiverAt(sent[g + 1], m) => ReceiverAt(sent[g + 1], m)'
      BY <2>1, <3>2, <3>3
    <3>5. QED
      BY <2>1, <2>2, <3>1, <3>4 DEF Coming
  <2>3. ASSUME NEW first, NEW d, InStep(first, d) PROVE InStep(first, d)'
    <3>1. PICK g \in Nat :
            /\ GotIsSent(first, d, g)
            /\ (wire = <<>> /\ g = Len(sent)) \/ \E W, e, pos : Coming(W, e, pos, g)
      BY <2>3 DEF InStep
    <3>2. GotIsSent(first, d, g)'
      BY <2>1, <3>1 DEF GotIsSent
    <3>3. QED
      BY <2>1, <2>2, <3>1, <3>2 DEF InStep
  <2>4. ASSUME NEW W, NEW e, NEW t, Pausing(W, e, t) PROVE Pausing(W, e, t)'
    BY <2>1, <2>4, LaidKept DEF Pausing
  <2>5. QED
    BY <2>1, <2>3, <2>4, <1>1 DEF ArrivalInv, CleanInv, PauseInv, PauseType
<1>3. CASE ReceiveByte \/ Timeout
  <2>1. UNCHANGED lineVars
    BY <1>3 DEF ReceiveByte, Timeout, SearchForStart, GetFlags, GetLength, AccumulateData, GetCrc0,
                GetCrc1, GetStop, Takes
  <2>2. PauseType'
    BY <2>1, <1>1 DEF lineVars, PauseType
  <2>3. CleanInv'
    <3>1. Skew(0, 0)
      BY DEF Skew
    <3>2. ASSUME noise = None PROVE InStep(0, 0)'
      BY <3>1, <3>2, <1>1, <1>3, StepKept DEF CleanInv
    <3>3. QED
      BY <3>2, <2>1 DEF CleanInv, lineVars
  <2>4. PauseInv'
    <3> SUFFICES ASSUME noise # None, pause
                 PROVE  \/ \E W, e, t : Pausing(W, e, t)'
                        \/ \E d \in Int : 0 <= 1 + d /\ InStep(1, d)'
      BY <2>1 DEF PauseInv, lineVars
    <3>1. CASE \E d \in Int : 0 <= 1 + d /\ InStep(1, d)
      <4>1. PICK d \in Int : 0 <= 1 + d /\ InStep(1, d)
        BY <3>1
      <4>2. Skew(1, d)
        BY <4>1 DEF Skew
      <4>3. InStep(1, d)'
        BY <4>1, <4>2, <1>1, <1>3, StepKept
      <4>4. QED
        BY <4>1, <4>3
    <3>2. ASSUME NEW W, NEW e, NEW t, Pausing(W, e, t)
          PROVE  \/ \E W1, e1, t1 : Pausing(W1, e1, t1)'
                 \/ \E d \in Int : 0 <= 1 + d /\ InStep(1, d)'
      <4>1. CASE Timeout
        BY <3>2, <4>1, PauseEnds
      <4>2. CASE ReceiveByte
        <5>1. wire' = Tail(wire) /\ Head(wire) # GAP
          BY <4>2 DEF ReceiveByte, SearchForStart, GetFlags, GetLength, AccumulateData, GetCrc0,
                      GetCrc1, GetStop, Takes
        <5>2. QED
          BY <5>1, <3>2, <2>1, PauseNears
      <4>3. QED
        BY <1>3, <4>1, <4>2
    <3>3. QED
      BY <3>1, <3>2, <1>1 DEF PauseInv
  <2>5. QED
    BY <2>2, <2>3, <2>4 DEF ArrivalInv
<1>4. QED
  BY <1>2, <1>3, OnlyReceives

\* The terminal, what it sends and what the line does to it are what they were.
LEMMA LineKept ==
  ASSUME [Next]_vars
  PROVE  setup' = setup /\ sent' = sent /\ noise' = noise
<1>1. setup' = setup
  <2>1. CASE Receive
    BY <2>1 DEF Receive
  <2>2. CASE Take
    BY <2>2 DEF Take
  <2>3. ASSUME NEW id, NEW answer, Handle(id, answer) PROVE setup' = setup
    BY <2>3 DEF Handle
  <2>4. CASE TimeSyncReq
    BY <2>3, <2>4 DEF TimeSyncReq
  <2>5. CASE AtnReqTabUpd
    BY <2>3, <2>5 DEF AtnReqTabUpd
  <2>6. CASE Alarm
    BY <2>3, <2>6 DEF Alarm
  <2>7. CASE MaintReq
    BY <2>3, <2>7 DEF MaintReq
  <2>8. CASE CallDetails
    BY <2>3, <2>8 DEF CallDetails
  <2>9. CASE BeginUpload
    BY <2>3, <2>9 DEF BeginUpload
  <2>10. CASE CashBoxCollection
    BY <2>3, <2>10 DEF CashBoxCollection
  <2>11. CASE Report
    BY <2>3, <2>11 DEF Report
  <2>12. CASE SwVersion
    BY <2>3, <2>12 DEF SwVersion
  <2>13. CASE RateRequest
    BY <2>3, <2>13 DEF RateRequest
  <2>14. CASE FunfCardAuth
    BY <2>3, <2>14 DEF FunfCardAuth
  <2>15. CASE EndData
    BY <2>3, <2>15 DEF EndData
  <2>16. CASE TableUpdAck
    BY <2>3, <2>16 DEF TableUpdAck
  <2>17. CASE Unhandled
    BY <2>17 DEF Unhandled
  <2>18. CASE Reply
    BY <2>18 DEF Reply
  <2>19. CASE Download
    BY <2>19 DEF Download
  <2>20. CASE EndDownload
    BY <2>20 DEF EndDownload
  <2>21. CASE UNCHANGED vars
    BY <2>21 DEF vars
  <2>22. QED
    BY <2>1, <2>2, <2>4, <2>5, <2>6, <2>7, <2>8, <2>9, <2>10, <2>11, <2>12, <2>13, <2>14,
       <2>15, <2>16, <2>17, <2>18, <2>19, <2>20, <2>21 DEF Next
<1>2. UNCHANGED lineVars
  <2>1. CASE UNCHANGED framingVars
    BY <2>1 DEF framingVars
  <2>2. CASE ReceiveByte \/ Timeout
    BY <2>2 DEF ReceiveByte, Timeout, SearchForStart, GetFlags, GetLength, AccumulateData, GetCrc0,
                GetCrc1, GetStop, Takes
  <2>3. QED
    BY <2>1, <2>2, OnlyReceives
<1>3. QED
  BY <1>1, <1>2 DEF lineVars

\* What a terminal sends is settled at the start.
LEMMA SentIsKept == SentIs /\ [Next]_vars => SentIs'
BY LineKept, SentKept

\* What has been received is intact and was sent, in this order.
LEMMA CleanIsSent == SentIs /\ CleanInv /\ noise = None => IntactIsSent
<1> SUFFICES ASSUME SentIs, CleanInv, noise = None PROVE IntactIsSent
  OBVIOUS
<1> DEFINE n == Len(sent)
           places == [i \in Intact |-> i]
<1>1. PICK g \in Nat : GotIsSent(0, 0, g)
  BY DEF CleanInv, InStep
<1>2. n \in Nat /\ g <= n /\ Len(got) = g
  BY <1>1, SentRight DEF GotIsSent
<1>3. \A k \in 1..g : Sent(got[k]) = sent[k]
  <2>1. \A k \in 1..g : k \in 0 + 1..g /\ k + 0 = k
    BY <1>2
  <2>2. QED
    BY <2>1, <1>1 DEF GotIsSent
<1>4. \A k \in Intact : k \in 1..g
  BY <1>2 DEF Intact
<1> HIDE DEF n
<1>5. \A k \in Intact : k \in 1..n
  BY <1>2, <1>4
<1>6. places \in [Intact -> 1..n] /\ \A i \in Intact : places[i] = i
  BY <1>5
<1> HIDE DEF places
<1>7. \A i, j \in Intact : i < j => places[i] < places[j]
  BY <1>6
<1>8. \A i \in Intact : Sent(got[i]) = sent[places[i]]
  BY <1>3, <1>4, <1>6
<1>9. QED
  BY <1>6, <1>7, <1>8 DEF IntactIsSent, n

\* With nothing left on the line, a receiver in step has received all that was sent behind the
\* first packets.
LEMMA StepArrives ==
  ASSUME SentIs, NEW first, NEW d, Skew(first, d), InStep(first, d), wire = <<>>,
         NEW i \in 1..Len(sent), i > first
  PROVE  \E k \in Intact : Sent(got[k]) = sent[i]
<1>1. PICK g \in Nat :
        /\ GotIsSent(first, d, g)
        /\ (wire = <<>> /\ g = Len(sent)) \/ \E W, e, pos : Coming(W, e, pos, g)
  BY DEF InStep
<1>2. g = Len(sent)
  <2>1. SUFFICES ASSUME NEW W, NEW e, NEW pos, Coming(W, e, pos, g) PROVE FALSE
    BY <1>1
  <2>2. pos \in Nat /\ pos < Len(W) /\ Len(wire) = Len(W) - pos
    BY <2>1 DEF Coming, Rests
  <2>3. Len(W) \in Nat
    <3>1. PICK n : n = Len(sent)
      OBVIOUS
    <3>2. e \in [0..n -> Nat] /\ Len(W) = e[n] + 1 /\ n \in Nat
      BY <2>1, <3>1, SentRight DEF Coming, Laid
    <3>3. QED
      BY <3>2
  <2>4. Len(wire) = 0
    OBVIOUS
  <2>5. QED
    BY <2>2, <2>3, <2>4
<1>3. /\ first \in Nat /\ d \in Int /\ 0 <= first + d /\ Len(got) = g + d
      /\ \A k \in first + 1..g : Sent(got[k + d]) = sent[k] /\ IsIntact(got[k + d])
  BY <1>1 DEF GotIsSent, Skew
<1>4. i \in first + 1..g /\ i + d \in 1..Len(got)
  BY <1>2, <1>3
<1>5. Sent(got[i + d]) = sent[i] /\ i + d \in Intact
  BY <1>3, <1>4 DEF Intact
<1>6. QED
  BY <1>5

\* Every frame that came through whole arrives.
LEMMA Arrives == SentIs /\ ArrivalInv => UndamagedArrives
<1> SUFFICES ASSUME SentIs, ArrivalInv, wire = <<>>, NEW i \in 1..Len(sent),
                    noise = None \/ (i > 1 /\ pause)
             PROVE  \E k \in Intact : Sent(got[k]) = sent[i]
  BY DEF UndamagedArrives
<1>1. CASE noise = None
  <2>1. Skew(0, 0) /\ InStep(0, 0) /\ i > 0
    BY <1>1 DEF Skew, ArrivalInv, CleanInv
  <2>2. QED
    BY <2>1, StepArrives
<1>2. CASE noise # None
  <2>1. i > 1 /\ pause
    BY <1>2
  <2>2. ASSUME NEW W, NEW e, NEW t, Pausing(W, e, t) PROVE FALSE
    <3>1. t \in 1..Len(wire) /\ Len(wire) = 0
      BY <2>2 DEF Pausing
    <3>2. QED
      BY <3>1
  <2>3. PICK d \in Int : 0 <= 1 + d /\ InStep(1, d)
    BY <2>1, <2>2, <1>2 DEF ArrivalInv, PauseInv
  <2>4. Skew(1, d)
    BY <2>3 DEF Skew
  <2>5. QED
    BY <2>1, <2>3, <2>4, StepArrives
<1>3. QED
  BY <1>1, <1>2

\* The receiver is in step with the line: from the start, when no frame is disturbed, and
\* behind a disturbed one from the pause on.
THEOREM ArrivalInvariant == Spec => [](SentIs /\ FramingInv /\ ArrivalInv)
<1> DEFINE Inv == SentIs /\ FramingInv /\ ArrivalInv
<1>1. Init => Inv
  BY FramingStarts, ArrivalStarts DEF Init, SentIs
<1>2. Inv /\ [Next]_vars => Inv'
  BY SentIsKept, FramingPreserved, ArrivalKept
<1> HIDE DEF Inv
<1>3. Spec => []Inv
  BY <1>1, <1>2, PTL DEF Spec
<1>4. QED
  BY <1>3 DEF Inv

\* When the line has fallen silent, receive_mm_packet has returned every packet whose frame
\* came through whole, if none was disturbed before it or the terminal paused behind the one
\* that was: whatever is in the packets, and wherever in the first frame a byte was changed,
\* lost or added.
THEOREM UndamagedPacketsArrive == Spec => []UndamagedArrives
<1>1. SentIs /\ FramingInv /\ ArrivalInv => UndamagedArrives
  BY Arrives
<1>2. QED
  BY <1>1, ArrivalInvariant, PTL

\* Unless the line disturbs a frame, the packets that receive_mm_packet returns are those of
\* the terminal, intact and in their order.
THEOREM CleanLine == Spec => [](noise = None => IntactIsSent)
<1>1. SentIs /\ FramingInv /\ ArrivalInv => (noise = None => IntactIsSent)
  BY CleanIsSent DEF ArrivalInv
<1>2. QED
  BY <1>1, ArrivalInvariant, PTL

---------------------------------------------------------------------------
(* Where the fields are in a table *)

\* The size of the first fields of a layout.
SizeOfFirst(struct, m) == SizeOf(SubSeq(struct, 1, m))

\* The first fields of a layout have the size that they have in it.
LEMMA FirstFields ==
  ASSUME NEW F, NEW struct \in Seq(F \X Nat), NEW m \in 0..Len(struct),
         NEW f \in [0..Len(struct) -> Nat], SumsUp(f, struct)
  PROVE  SizeOfFirst(struct, m) = f[m]
<1> DEFINE n == Len(struct)
           T == F \X Nat
           z == 0
           part == SubSeq(struct, z + 1, z + m)
<1>1. n \in Nat /\ m \in Nat /\ z \in Nat /\ z + m <= n
  BY LenProperties
<1>2. part \in Seq(T) /\ Len(part) = m /\ Piece(part, struct, z, m)
  <2> HIDE DEF z, n, T
  <2>1. struct \in Seq(T)
    BY DEF T
  <2>2. QED
    BY <2>1, <1>1, Cut DEF n
<1>3. part = SubSeq(struct, 1, m)
  OBVIOUS
<1>4. \A k \in 1..m : part[k] = struct[k]
  BY <1>2 DEF Piece
<1> HIDE DEF part, z
<1>5. IsStruct(part)
  BY <1>2 DEF IsStruct
<1>6. PICK g \in [0..m -> Nat] : SumsUp(g, part)
  BY <1>2, <1>5, SizeParts
<1>7. g[0] = 0 /\ g[m] = SizeOf(part) /\ \A k \in 1..m : g[k] = g[k - 1] + struct[k][2]
  BY <1>2, <1>4, <1>6 DEF SumsUp
<1>8. f[0] = 0 /\ \A k \in 1..m : f[k] = f[k - 1] + struct[k][2]
  <2>1. \A k \in 1..m : k \in 1..n
    BY <1>1
  <2>2. f[0] = 0 /\ \A k \in 1..n : f[k] = f[k - 1] + struct[k][2]
    BY DEF SumsUp
  <2> HIDE DEF n
  <2>3. QED
    BY <2>1, <2>2
<1> HIDE DEF n
<1> DEFINE S == {k \in 0..m : g[k] = f[k]}
<1>9. 0 \in S /\ \A k \in 0..m - 1 : k \in S => k + 1 \in S
  <2>1. \A k \in 0..m - 1 : k + 1 \in 1..m /\ (k + 1) - 1 = k /\ k + 1 \in 0..m
    BY <1>1
  <2>2. QED
    BY <2>1, <1>1, <1>7, <1>8
<1>10. g[m] = f[m]
  <2> HIDE DEF S
  <2>1. \A k \in 0..m : k \in S
    BY <1>1, <1>9, UpTo
  <2>2. m \in S
    BY <2>1, <1>1
  <2>3. QED
    BY <2>2 DEF S
<1>11. QED
  BY <1>3, <1>7, <1>10 DEF SizeOfFirst

\* A field behind the first is within its table, and behind the number of the table.
LEMMA FieldInside ==
  ASSUME NEW struct, IsTable(struct), NEW field, struct[1][1] # field,
         \E k \in 1..Len(struct) : struct[k][1] = field
  PROVE  /\ Offset(struct, field) \in Nat \ {0} /\ Width(struct, field) \in Nat
         /\ Offset(struct, field) + Width(struct, field) <= SizeOf(struct)
<1> DEFINE i == CHOOSE k \in 1..Len(struct) : struct[k][1] = field
           n == Len(struct)
<1>0. PICK F : struct \in Seq(F \X Nat)
  BY DEF IsTable, IsStruct
<1>1. i \in 1..n /\ struct[i][1] = field
  OBVIOUS
<1>2. Offset(struct, field) = SizeOf(SubSeq(struct, 1, i - 1))
        /\ Width(struct, field) = struct[i][2]
  BY DEF Offset, Width
<1> HIDE DEF i
<1> DEFINE T == F \X Nat
<1>3. n \in Nat /\ \A k \in 1..n : struct[k][2] \in Nat
  <2>1. \A k \in 1..n : struct[k] \in T
    <3> HIDE DEF T
    <3>1. struct \in Seq(T)
      BY <1>0 DEF T
    <3>2. QED
      BY <3>1, ElementOfSeq
  <2>2. n \in Nat
    BY <1>0, LenProperties
  <2>3. QED
    BY <2>1, <2>2
<1>4. PICK f \in [0..n -> Nat] : SumsUp(f, struct)
  BY SizeParts DEF IsTable
<1>5. f[0] = 0 /\ f[n] = SizeOf(struct) /\ \A k \in 1..n : f[k] = f[k - 1] + struct[k][2]
  BY <1>4 DEF SumsUp
<1>6. i - 1 \in 1..n - 1 /\ i - 1 \in 0..n
  <2>1. i # 1
    BY <1>1
  <2>2. QED
    BY <2>1, <1>1, <1>3
<1>7. SizeOf(SubSeq(struct, 1, i - 1)) = f[i - 1]
  <2>1. PICK m : m = i - 1
    OBVIOUS
  <2>2. m \in 0..n
    BY <2>1, <1>6
  <2>3. SizeOfFirst(struct, m) = f[m]
    BY <2>2, <1>0, <1>4, FirstFields
  <2>4. QED
    BY <2>1, <2>3 DEF SizeOfFirst
<1>8. struct[1][2] = 1
  BY DEF IsTable
<1> HIDE DEF n, T
<1>9. \A k \in 0..n : f[k] \in Nat
  BY <1>4
<1> DEFINE W(k) == struct[k][2]
<1>10. \A k \in 1..n : f[k] = f[k - 1] + W(k) /\ W(k) \in Nat
  BY <1>3, <1>5
<1> HIDE DEF W
<1> DEFINE a == i - 1
           b == n - a
           S == {k \in 0..a - 1 : f[k + 1] > 0}
           R == {d \in 0..b : f[a + d] >= f[a]}
<1>11. a \in Nat /\ a - 1 \in Nat /\ b \in Nat /\ a + b = n /\ a + 1 = i /\ a + 1 \in 1..n /\ a \in 0..n
         /\ b - 1 \in Nat
  BY <1>1, <1>3, <1>6
<1> HIDE DEF a, b
<1>12. f[a] > 0
  <2>1. 0 \in S
    <3>1. 0 + 1 = 1 /\ 1 - 1 = 0 /\ 1 \in 1..n /\ 0 \in 0..a - 1
      BY <1>11
    <3>2. f[1] = f[0] + W(1) /\ W(1) = 1
      BY <3>1, <1>8, <1>10 DEF W
    <3>3. QED
      BY <3>1, <3>2, <1>5
  <2>2. ASSUME NEW k \in 0..(a - 1) - 1, k \in S PROVE k + 1 \in S
    <3>1. /\ k + 1 \in 0..a - 1 /\ (k + 1) + 1 \in 1..n /\ ((k + 1) + 1) - 1 = k + 1
          /\ k + 1 \in 0..n
      BY <1>3, <1>11
    <3>2. f[(k + 1) + 1] = f[k + 1] + W((k + 1) + 1) /\ W((k + 1) + 1) \in Nat
      BY <3>1, <1>10
    <3>3. f[k + 1] > 0 /\ f[k + 1] \in Nat
      BY <3>1, <2>2, <1>9
    <3>4. QED
      BY <3>1, <3>2, <3>3
  <2> HIDE DEF S
  <2>3. \A k \in 0..a - 1 : k \in S
    BY <1>11, <2>1, <2>2, UpTo
  <2>4. a - 1 \in S /\ (a - 1) + 1 = a
    BY <2>3, <1>11
  <2>5. QED
    BY <2>4 DEF S
<1>13. f[a + 1] <= f[n]
  <2> DEFINE c == a + 1
             e == b - 1
             Q == {d \in 0..e : f[c] <= f[c + d]}
  <2>1. c \in 1..n /\ c \in 0..n /\ e \in Nat /\ c + e = n /\ c + 0 = c
    BY <1>11
  <2> HIDE DEF c, e
  <2>2. 0 \in Q
    <3>1. f[c] \in Nat
      BY <2>1, <1>9
    <3>2. QED
      BY <3>1, <2>1
  <2>3. ASSUME NEW d \in 0..e - 1, d \in Q PROVE d + 1 \in Q
    <3>1. d + 1 \in 0..e /\ c + (d + 1) \in 1..n /\ (c + (d + 1)) - 1 = c + d /\ c + d \in 0..n
      BY <1>3, <2>1
    <3>2. f[c + (d + 1)] = f[c + d] + W(c + (d + 1)) /\ W(c + (d + 1)) \in Nat /\ f[c + d] \in Nat
      BY <3>1, <1>9, <1>10
    <3>3. f[c] <= f[c + d] /\ f[c] \in Nat
      BY <2>1, <2>3, <1>9
    <3>4. f[c] <= f[c + (d + 1)]
      BY <3>2, <3>3
    <3>5. QED
      BY <3>1, <3>4
  <2> HIDE DEF Q
  <2>4. \A d \in 0..e : d \in Q
    BY <2>1, <2>2, <2>3, UpTo
  <2>5. e \in Q
    BY <2>1, <2>4
  <2>6. QED
    BY <2>1, <2>5 DEF Q, c
<1>14. f[a + 1] = f[a] + W(a + 1) /\ f[a] \in Nat /\ W(a + 1) \in Nat
  <2>1. (a + 1) - 1 = a
    BY <1>11
  <2>2. QED
    BY <2>1, <1>9, <1>10, <1>11
<1>15. QED
  BY <1>2, <1>5, <1>7, <1>11, <1>12, <1>13, <1>14 DEF W, a

\* The fields that the manager answers with, or rates a call by.
LEMMA TheFields ==
  /\ Offset(dlog_mt_alarm_t, "alarm_id") \in Nat \ {0}
  /\ Offset(dlog_mt_alarm_t, "alarm_id") + 1 <= SizeOf(dlog_mt_alarm_t)
  /\ Width(dlog_mt_alarm_t, "alarm_id") = 1
  /\ Offset(dlog_mt_maint_req_t, "type") \in Nat \ {0}
  /\ Offset(dlog_mt_maint_req_t, "type") + 2 <= SizeOf(dlog_mt_maint_req_t)
  /\ Width(dlog_mt_maint_req_t, "type") = 2
  /\ Offset(dlog_mt_call_details_t, "seq") \in Nat \ {0}
  /\ Offset(dlog_mt_call_details_t, "seq") + 2 <= SizeOf(dlog_mt_call_details_t)
  /\ Width(dlog_mt_call_details_t, "seq") = 2
  /\ Offset(dlog_mt_rate_request_t, "phone_number") \in Nat \ {0}
  /\ Offset(dlog_mt_rate_request_t, "phone_number") + 10 <= SizeOf(dlog_mt_rate_request_t)
  /\ Width(dlog_mt_rate_request_t, "phone_number") = 10
<1>1. /\ IsTable(dlog_mt_alarm_t) /\ IsTable(dlog_mt_maint_req_t)
      /\ IsTable(dlog_mt_call_details_t) /\ IsTable(dlog_mt_rate_request_t)
  BY Layouts
<1>2. /\ dlog_mt_alarm_t[1][1] # "alarm_id" /\ Width(dlog_mt_alarm_t, "alarm_id") = 1
      /\ \E k \in 1..Len(dlog_mt_alarm_t) : dlog_mt_alarm_t[k][1] = "alarm_id"
  <2> DEFINE s == dlog_mt_alarm_t
  <2>1. Len(s) = 3 /\ s[1][1] # "alarm_id" /\ s[2][1] # "alarm_id" /\ s[3] = <<"alarm_id", 1>>
    BY DEF dlog_mt_alarm_t
  <2>2. \A k \in 1..3 : k \in {1, 2, 3}
    OBVIOUS
  <2> HIDE DEF s
  <2>3. \A k \in 1..Len(s) : s[k][1] = "alarm_id" <=> k = 3
    BY <2>1, <2>2
  <2>4. 3 \in 1..Len(s)
    BY <2>1
  <2>5. (CHOOSE k \in 1..Len(s) : s[k][1] = "alarm_id") = 3
    BY <2>3, <2>4
  <2>6. QED
    BY <2>1, <2>3, <2>4, <2>5 DEF Width, s
<1>3. /\ dlog_mt_maint_req_t[1][1] # "type" /\ Width(dlog_mt_maint_req_t, "type") = 2
      /\ \E k \in 1..Len(dlog_mt_maint_req_t) : dlog_mt_maint_req_t[k][1] = "type"
  <2> DEFINE s == dlog_mt_maint_req_t
  <2>1. Len(s) = 3 /\ s[1][1] # "type" /\ s[3][1] # "type" /\ s[2] = <<"type", 2>>
    BY DEF dlog_mt_maint_req_t
  <2>2. \A k \in 1..3 : k \in {1, 2, 3}
    OBVIOUS
  <2> HIDE DEF s
  <2>3. \A k \in 1..Len(s) : s[k][1] = "type" <=> k = 2
    BY <2>1, <2>2
  <2>4. 2 \in 1..Len(s)
    BY <2>1
  <2>5. (CHOOSE k \in 1..Len(s) : s[k][1] = "type") = 2
    BY <2>3, <2>4
  <2>6. QED
    BY <2>1, <2>3, <2>4, <2>5 DEF Width, s
<1>4. /\ dlog_mt_call_details_t[1][1] # "seq" /\ Width(dlog_mt_call_details_t, "seq") = 2
      /\ \E k \in 1..Len(dlog_mt_call_details_t) : dlog_mt_call_details_t[k][1] = "seq"
  <2> DEFINE s == dlog_mt_call_details_t
  <2>1. /\ Len(s) = 14 /\ s[7] = <<"seq", 2>>
        /\ s[1][1] # "seq" /\ s[2][1] # "seq" /\ s[3][1] # "seq" /\ s[4][1] # "seq"
        /\ s[5][1] # "seq" /\ s[6][1] # "seq" /\ s[8][1] # "seq" /\ s[9][1] # "seq"
        /\ s[10][1] # "seq" /\ s[11][1] # "seq" /\ s[12][1] # "seq" /\ s[13][1] # "seq"
        /\ s[14][1] # "seq"
    BY DEF dlog_mt_call_details_t
  <2>2. \A k \in 1..14 : k \in {1, 2, 3, 4, 5, 6, 7, 8, 9, 10, 11, 12, 13, 14}
    OBVIOUS
  <2> HIDE DEF s
  <2>3. \A k \in 1..Len(s) : s[k][1] = "seq" <=> k = 7
    BY <2>1, <2>2
  <2>4. 7 \in 1..Len(s)
    BY <2>1
  <2>5. (CHOOSE k \in 1..Len(s) : s[k][1] = "seq") = 7
    BY <2>3, <2>4
  <2>6. QED
    BY <2>1, <2>3, <2>4, <2>5 DEF Width, s
<1>5. /\ dlog_mt_rate_request_t[1][1] # "phone_number"
      /\ Width(dlog_mt_rate_request_t, "phone_number") = 10
      /\ \E k \in 1..Len(dlog_mt_rate_request_t) : dlog_mt_rate_request_t[k][1] = "phone_number"
  <2> DEFINE s == dlog_mt_rate_request_t
  <2>1. /\ Len(s) = 10 /\ s[4] = <<"phone_number", 10>>
        /\ s[1][1] # "phone_number" /\ s[2][1] # "phone_number" /\ s[3][1] # "phone_number"
        /\ s[5][1] # "phone_number" /\ s[6][1] # "phone_number" /\ s[7][1] # "phone_number"
        /\ s[8][1] # "phone_number" /\ s[9][1] # "phone_number" /\ s[10][1] # "phone_number"
    BY DEF dlog_mt_rate_request_t
  <2>2. \A k \in 1..10 : k \in {1, 2, 3, 4, 5, 6, 7, 8, 9, 10}
    OBVIOUS
  <2> HIDE DEF s
  <2>3. \A k \in 1..Len(s) : s[k][1] = "phone_number" <=> k = 4
    BY <2>1, <2>2
  <2>4. 4 \in 1..Len(s)
    BY <2>1
  <2>5. (CHOOSE k \in 1..Len(s) : s[k][1] = "phone_number") = 4
    BY <2>3, <2>4
  <2>6. QED
    BY <2>1, <2>3, <2>4, <2>5 DEF Width, s
<1>6. QED
  BY <1>1, <1>2, <1>3, <1>4, <1>5, FieldInside

---------------------------------------------------------------------------
(* Where the tables are in a packet *)

LineTables == Seq([id : Byte, fill : Byte])

\* The tables of a packet lie one behind the other, from the number of the terminal on.
LEMMA PutParts ==
  ASSUME NEW tables, Len(tables) \in Nat
  PROVE  /\ PutAt(tables, 0) = PKT_TABLE_ID_OFFSET + 1
         /\ \A k \in 1..Len(tables) :
               PutAt(tables, k) = PutAt(tables, k - 1) + SizeOnLine(tables[k].id)
         /\ \A k \in 0..Len(tables) : PutAt(tables, k) \in Nat \ {0}
<1> DEFINE n == Len(tables)
           z == PKT_TABLE_ID_OFFSET + 1
           V == Nat \ {0}
           D == [k \in 1..n |-> [v \in V |-> v + SizeOnLine(tables[k].id)]]
           Step(f, i) == IF i = 0 THEN z ELSE f[i - 1] + SizeOnLine(tables[i].id)
           Is(f) == f = [i \in 0..n |-> Step(f, i)]
           place[i \in 0..n] ==
             IF i = 0 THEN PKT_TABLE_ID_OFFSET + 1 ELSE place[i - 1] + SizeOnLine(tables[i].id)
<1>1. n \in Nat /\ z \in V /\ \A k \in 1..n : SizeOnLine(tables[k].id) \in V
  BY SizeOnLineType DEF PKT_TABLE_ID_OFFSET
<1>2. \A k : PutAt(tables, k) = place[k]
  BY DEF PutAt
<1> HIDE DEF place, n
<1>3. D \in [1..n -> [V -> V]]
  <2> SUFFICES ASSUME NEW k \in 1..n, NEW v \in V PROVE v + SizeOnLine(tables[k].id) \in V
    OBVIOUS
  <2>1. QED
    BY <1>1
<1>4. PICK f \in [0..n -> V] : Chain(f, z, n, D)
  <2>1. n \in Nat
    BY <1>1
  <2> HIDE DEF V, D, z
  <2>2. QED
    BY <2>1, <1>1, <1>3, Iterates
<1>5. f[0] = z /\ \A k \in 1..n : f[k] = f[k - 1] + SizeOnLine(tables[k].id)
  <2>1. f[0] = z /\ \A k \in 1..n : f[k] = D[k][f[k - 1]]
    BY <1>4 DEF Chain
  <2>2. \A k \in 1..n : f[k - 1] \in V
    BY <1>1
  <2> HIDE DEF V, z
  <2>3. QED
    BY <2>1, <2>2
<1>6. Is(f)
  <2>1. \A k \in 0..n : f[k] = Step(f, k)
    BY <1>1, <1>5
  <2> HIDE DEF Step
  <2>2. QED
    BY <2>1
<1>7. Is(place)
  <2> HIDE DEF V, Step
  <2>1. \E g : Is(g)
    BY <1>6
  <2>2. QED
    BY <2>1 DEF place, Step
<1>8. place[0] = z /\ \A k \in 1..n : place[k] = place[k - 1] + SizeOnLine(tables[k].id)
  <2>1. \A k \in 0..n : place[k] = Step(place, k)
    BY <1>7
  <2>2. 0 \in 0..n /\ \A k \in 1..n : k \in 0..n /\ k # 0
    BY <1>1
  <2> HIDE DEF z
  <2>3. QED
    BY <2>1, <2>2
<1> DEFINE S == {m \in 0..n : place[m] \in V}
<1>9. 0 \in S /\ \A m \in 0..n - 1 : m \in S => m + 1 \in S
  <2>1. 0 \in S
    BY <1>1, <1>8
  <2>2. ASSUME NEW m \in 0..n - 1, m \in S PROVE m + 1 \in S
    <3>1. m + 1 \in 1..n /\ (m + 1) - 1 = m /\ m + 1 \in 0..n
      BY <1>1
    <3> DEFINE z1 == SizeOnLine(tables[m + 1].id)
    <3>2. place[m + 1] = place[m] + z1 /\ z1 \in V /\ place[m] \in V
      BY <3>1, <2>2, <1>1, <1>8
    <3> HIDE DEF z1
    <3>3. place[m + 1] \in V
      BY <3>2
    <3>4. QED
      BY <3>1, <3>3
  <2>3. QED
    BY <2>1, <2>2
<1>10. \A k \in 0..n : place[k] \in V
  <2> HIDE DEF S
  <2>1. \A m \in 0..n : m \in S
    BY <1>1, <1>9, UpTo
  <2>2. QED
    BY <2>1 DEF S
<1>11. QED
  BY <1>2, <1>8, <1>10 DEF n

\* The bytes of the tables are where PutAt says.
Placed(s, tables, payload) ==
    LET n == Len(tables)
    IN  /\ tables \in LineTables /\ n \in Nat
        /\ \A k \in 1..n : tables[k].id \in Byte /\ tables[k].fill \in Byte
        /\ payload \in Seq(Byte) /\ Len(payload) = PutAt(tables, n) - 1
        /\ \A k \in 0..n : PutAt(tables, k) <= PutAt(tables, n)
        /\ \A k \in 1..n : \A i \in 1..SizeOnLine(tables[k].id) :
               payload[(PutAt(tables, k - 1) + i) - 1] = TableBytes(s, tables[k], k)[i]

\* They are in every packet of the terminal.
LEMMA PackedPlaced ==
  ASSUME NEW s, IsTerminal(s), NEW i \in 1..Len(s.packed)
  PROVE  Placed(s, s.packed[i].tables, Packed(s, s.packed[i]).payload)
<1> DEFINE p == s.packed[i]
           tables == p.tables
           n == Len(tables)
           q == Packed(s, p)
           parts == [k \in 1..n |-> TableBytes(s, tables[k], k)]
           all == FlattenSeq(parts)
           R == [id : Byte, fill : Byte]
           W == Nat
           o == PKT_TABLE_ID_OFFSET
<1>1. p \in [flags : Byte, tables : Seq(R)]
  BY ElementOfSeq DEF IsTerminal
<1>2. tables \in Seq(R)
  BY <1>1
<1>3. n \in Nat /\ \A k \in 1..n : tables[k] \in R
  <2> HIDE DEF R
  <2>1. QED
    BY <1>2, LenProperties, ElementOfSeq
<1>4. \A k \in 1..n : tables[k].id \in Byte /\ tables[k].fill \in Byte
  BY <1>3
<1>40. tables \in LineTables
  BY <1>2 DEF LineTables
<1>5. s.id \in Seq(Byte) /\ Len(s.id) = o
  BY DEF IsTerminal
<1>6. q.payload = s.id \o all /\ q.payload \in Seq(Byte)
  <2>1. PackedRight(q, s.id)
    BY PackedType
  <2>2. q.payload = s.id \o all
    BY DEF Packed
  <2>3. QED
    BY <2>1, <2>2 DEF PackedRight
<1> HIDE DEF q, n, tables, R
<1>7. HoldsBytes(W) /\ W = Nat
  BY ByteDef DEF HoldsBytes
<1> HIDE DEF W
<1>8. \A k \in 1..n : /\ TableBytes(s, tables[k], k) \in Seq(W)
                      /\ Len(TableBytes(s, tables[k], k)) = SizeOnLine(tables[k].id)
  <2> SUFFICES ASSUME NEW k \in 1..n
               PROVE  /\ TableBytes(s, tables[k], k) \in Seq(W)
                      /\ Len(TableBytes(s, tables[k], k)) = SizeOnLine(tables[k].id)
    OBVIOUS
  <2> DEFINE t == tables[k]
  <2>1. k \in W /\ t.id \in Byte /\ t.fill \in Byte
    BY <1>4, <1>7
  <2> HIDE DEF t
  <2>2. TableBytes(s, t, k) \in Seq(W) /\ Len(TableBytes(s, t, k)) = SizeOnLine(t.id)
    BY <1>7, <2>1, TableBytesType
  <2>3. QED
    BY <2>2 DEF t
<1>9. parts \in Seq(Seq(W)) /\ Len(parts) = n /\ \A k \in 1..n : parts[k] = TableBytes(s, tables[k], k)
  BY <1>3, <1>8
<1> HIDE DEF parts
<1>10. PICK e \in [0..n -> Nat] : EndsAt(e, all, parts)
  BY <1>9, FlattenPlaces
<1>11. /\ e[0] = 0 /\ e[n] = Len(all) /\ \A k \in 0..n : e[k] <= e[n]
       /\ \A k \in 1..n : e[k] = e[k - 1] + SizeOnLine(tables[k].id)
       /\ \A k \in 1..n : \A j \in 1..SizeOnLine(tables[k].id) :
             all[e[k - 1] + j] = TableBytes(s, tables[k], k)[j]
  BY <1>8, <1>9, <1>10 DEF EndsAt
<1>12. /\ PutAt(tables, 0) = o + 1
       /\ \A k \in 1..n : PutAt(tables, k) = PutAt(tables, k - 1) + SizeOnLine(tables[k].id)
  BY <1>3, PutParts DEF n
<1>13. o \in Nat
  BY DEF PKT_TABLE_ID_OFFSET
<1>14. s.id \in Seq(W) /\ all \in Seq(W)
  BY <1>5, <1>7, <1>9, BytesIn, FlattenType
<1> HIDE DEF all, o
<1> DEFINE P(k) == PutAt(tables, k)
           Z(k) == SizeOnLine(tables[k].id)
           S == {m \in 0..n : P(m) = (e[m] + o) + 1}
<1>15. 0 \in S /\ \A m \in 0..n - 1 : m \in S => m + 1 \in S
  <2>1. \A m \in 0..n - 1 : m + 1 \in 1..n /\ (m + 1) - 1 = m /\ m + 1 \in 0..n /\ m \in 0..n
    BY <1>3
  <2>2. \A k \in 1..n : Z(k) \in Nat
    BY SizeOnLineType
  <2>3. /\ P(0) = o + 1
        /\ \A k \in 1..n : P(k) = P(k - 1) + Z(k) /\ e[k] = e[k - 1] + Z(k)
    BY <1>11, <1>12
  <2>4. \A k \in 0..n : e[k] \in Nat
    BY <1>10
  <2> HIDE DEF P, Z
  <2>5. 0 \in S
    BY <1>3, <1>11, <1>13, <2>3
  <2>6. ASSUME NEW m \in 0..n - 1, m \in S PROVE m + 1 \in S
    <3>1. P(m + 1) = P(m) + Z(m + 1) /\ e[m + 1] = e[m] + Z(m + 1)
      BY <2>1, <2>3
    <3>2. P(m) = (e[m] + o) + 1
      BY <2>6
    <3>3. e[m] \in Nat /\ Z(m + 1) \in Nat
      BY <2>1, <2>2, <2>4
    <3>4. P(m + 1) = (e[m + 1] + o) + 1
      BY <3>1, <3>2, <3>3, <1>13
    <3>5. QED
      BY <2>1, <3>4
  <2>7. QED
    BY <2>5, <2>6
<1>16. \A k \in 0..n : PutAt(tables, k) = (e[k] + o) + 1
  <2> HIDE DEF S
  <2>1. \A m \in 0..n : m \in S
    BY <1>3, <1>15, UpTo
  <2>2. QED
    BY <2>1 DEF S
<1> DEFINE w == s.id \o all
           l == Len(all)
<1>17. w = q.payload /\ Len(w) = o + l /\ Joins(w, s.id, o, all, l) /\ l \in Nat
  <2>1. l \in Nat
    BY <1>14, LenProperties
  <2>2. Len(s.id \o all) = Len(s.id) + Len(all) /\ Joins(s.id \o all, s.id, Len(s.id), all, Len(all))
    BY <1>14, Joined
  <2>3. QED
    BY <2>1, <2>2, <1>5, <1>6
<1> HIDE DEF w, l
<1>18. Len(w) = PutAt(tables, n) - 1
  <2>1. n \in 0..n /\ e[n] = l
    BY <1>3, <1>11 DEF l
  <2>2. QED
    BY <2>1, <1>13, <1>16, <1>17
<1>19. \A k \in 0..n : PutAt(tables, k) <= PutAt(tables, n)
  <2>1. n \in 0..n /\ \A k \in 0..n : e[k] \in Nat /\ e[k] <= e[n]
    BY <1>3, <1>10, <1>11
  <2>2. QED
    BY <2>1, <1>13, <1>16
<1>20. ASSUME NEW k \in 1..n, NEW j \in 1..SizeOnLine(tables[k].id)
       PROVE  w[(PutAt(tables, k - 1) + j) - 1] = TableBytes(s, tables[k], k)[j]
  <2> DEFINE a == e[k - 1] + j
  <2>1. k - 1 \in 0..n /\ k \in 0..n
    BY <1>3
  <2>2. e[k - 1] \in Nat /\ e[k] <= l /\ e[k] = e[k - 1] + SizeOnLine(tables[k].id) /\ e[k] \in Nat
    BY <2>1, <1>10, <1>11 DEF l
  <2>3. SizeOnLine(tables[k].id) \in Nat
    BY SizeOnLineType
  <2>4. a \in 1..l /\ (PutAt(tables, k - 1) + j) - 1 = o + a
    <3> DEFINE b == e[k - 1]
               m == SizeOnLine(tables[k].id)
               u == PutAt(tables, k - 1)
    <3>1. b \in Nat /\ m \in Nat /\ b + m <= l /\ j \in 1..m /\ a = b + j
      BY <2>2, <2>3
    <3>2. u = (b + o) + 1
      BY <2>1, <1>16
    <3> HIDE DEF b, m, u, a
    <3>3. a \in 1..l /\ (u + j) - 1 = o + a
      BY <3>1, <3>2, <1>13, <1>17
    <3>4. QED
      BY <3>3 DEF u
  <2>5. all[a] = TableBytes(s, tables[k], k)[j]
    BY <1>11
  <2> HIDE DEF a
  <2>6. w[o + a] = all[a]
    BY <2>4, <1>17 DEF Joins
  <2>7. QED
    BY <2>4, <2>5, <2>6
<1>21. w \in Seq(Byte)
  BY <1>6, <1>17
<1>22. Placed(s, tables, w)
  BY <1>3, <1>4, <1>40, <1>18, <1>19, <1>20, <1>21 DEF Placed, n
<1>23. QED
  BY <1>17, <1>22 DEF tables, p, q

\* The tables of the packet at hand.
TablesOf(s, packed, payload) ==
    LET i == CHOOSE k \in 1..Len(packed) : packed[k].payload = payload IN s.packed[i].tables

\* The packet at hand is one of the terminal's, and its tables are where it put them.
LEMMA InPacket ==
  ASSUME ContentsInv, pc # "receive"
  PROVE  Placed(setup, PackedTables, Current.payload)
<1> DEFINE i == CHOOSE k \in 1..Len(sent) : sent[k].payload = Current.payload
<1>1. SentIs /\ \E k \in 1..Len(sent) : sent[k].payload = Current.payload
  BY DEF ContentsInv, WalkInv
<1>2. i \in 1..Len(sent) /\ sent[i].payload = Current.payload
  BY <1>1
<1>3. PackedTables = setup.packed[i].tables
  BY DEF PackedTables
<1> HIDE DEF i
<1>4. IsTerminal(setup) /\ Len(sent) = Len(setup.packed)
  BY <1>1, TheSetup, SentRight DEF SentIs
<1>5. sent[i] = Packed(setup, setup.packed[i])
  BY <1>1, <1>2, <1>4 DEF SentIs
<1>6. QED
  BY <1>2, <1>3, <1>4, <1>5, PackedPlaced

\* The tables at hand, and those known of them, in the next state.
LEMMA TablesKept ==
  ASSUME UNCHANGED <<setup, sent, got, taken>>
  PROVE  PackedTables' = PackedTables /\ Current' = Current
<1>1. Current' = Current
  BY DEF Current
<1>2. PackedTables = TablesOf(setup, sent, Current.payload)
  BY DEF PackedTables, TablesOf
<1>3. PackedTables' = TablesOf(setup', sent', Current'.payload)
  BY DEF PackedTables, TablesOf
<1>4. QED
  BY <1>1, <1>2, <1>3

\* What the walk reads within the packet is the packet.
LEMMA AtInside ==
  ASSUME ContentsInv, pc = "process", NEW i \in 1..Len(Current.payload)
  PROVE  At(i) = Current.payload[i]
<1> DEFINE tail == <<Current.crc % 256, Current.crc \div 256, Current.end>>
           body == Current.payload
           whole == body \o tail
<1>1. Current \in Records
  <2>1. got \in Seq(Received) /\ taken \in 1..Len(got)
    BY InWalkFacts
  <2>2. got[taken] \in Received
    BY <2>1, ElementOfSeq
  <2>3. QED
    BY <2>2 DEF Current, Received
<1>2. body \in Seq(Byte) /\ Current.crc \in Checksum /\ Current.end \in Byte
  BY <1>1 DEF Records
<1>3. Current.crc % 256 \in Byte /\ Current.crc \div 256 \in Byte
  BY <1>2, QuotientType
<1>4. tail \in Seq(Byte)
  BY <1>2, <1>3
<1>5. At(i) = IF i <= Len(whole) THEN whole[i] ELSE 0
  BY DEF At
<1> HIDE DEF tail, body
<1>6. Len(whole) = Len(body) + Len(tail) /\ Joins(whole, body, Len(body), tail, Len(tail))
  BY <1>2, <1>4, Joined
<1>7. Len(body) \in Nat /\ Len(tail) \in Nat
  BY <1>2, <1>4, LenProperties
<1>8. i \in 1..Len(body)
  BY DEF body
<1> HIDE DEF whole
<1>9. i <= Len(whole) /\ whole[i] = body[i]
  BY <1>6, <1>7, <1>8 DEF Joins
<1>10. QED
  BY <1>5, <1>9 DEF body

---------------------------------------------------------------------------
(* The tables are handled in their order *)

\* The first k tables are known to the manager.
Known(tables, k) == \A i \in 1..k : tables[i].id \in Understood

\* How far the walk has come: the tables handled are the first of the packet, and the walk
\* stands behind them, as long as it has not met one that it does not know.
InOrder(tables, done, place) ==
    /\ done \in Seq(Nat \X Nat)
    /\ \A k \in 1..Len(tables) : Known(tables, k) /\ k <= Len(done) =>
           done[k] = <<tables[k].id, PutAt(tables, k - 1)>>
    /\ \A k \in 1..Len(tables) : Known(tables, k) /\ Len(done) = k - 1 =>
           place = PutAt(tables, k - 1)
    /\ Known(tables, Len(tables)) =>
           Len(done) <= Len(tables) /\ place = PutAt(tables, Len(done))

OrderInv == pc = "process" => InOrder(PackedTables, handled, at)

\* The bytes of a table: its number, what the manager reads of it, and what it does not.
LEMMA TableByte ==
  ASSUME NEW s, NEW t, NEW number, NEW i \in 1..SizeOnLine(t.id)
  PROVE  LET seq == Offset(dlog_mt_call_details_t, "seq")
             dialed == Offset(dlog_mt_rate_request_t, "phone_number")
             numbered == t.id = CALL_DETAILS /\ i = seq + 1
             ofDialed == t.id = RATE_REQUEST /\ i - dialed \in 1..10
         IN  /\ i = 1 => TableBytes(s, t, number)[i] = t.id
             /\ i # 1 /\ numbered => TableBytes(s, t, number)[i] = number
             /\ i # 1 /\ ofDialed => TableBytes(s, t, number)[i] = s.dialed[i - dialed]
             /\ i # 1 /\ ~numbered /\ ~ofDialed => TableBytes(s, t, number)[i] = t.fill
<1> DEFINE seq == Offset(dlog_mt_call_details_t, "seq")
           dialed == Offset(dlog_mt_rate_request_t, "phone_number")
           n == SizeOnLine(t.id)
           D(j) == s.dialed[j]
           B(j) == CASE j = 1 -> t.id
                     [] t.id = CALL_DETAILS /\ j = seq + 1 -> number
                     [] t.id = RATE_REQUEST /\ j - dialed \in 1..10 -> D(j - dialed)
                     [] OTHER -> t.fill
<1>1. TableBytes(s, t, number) = [j \in 1..n |-> B(j)]
  BY DEF TableBytes
<1>2. CALL_DETAILS # RATE_REQUEST
  BY DEF CALL_DETAILS, RATE_REQUEST
<1> HIDE DEF n, B
<1>3. TableBytes(s, t, number)[i] = B(i)
  BY <1>1 DEF n
<1>4. D(i - dialed) = s.dialed[i - dialed]
  OBVIOUS
<1> HIDE DEF seq, dialed, D
<1>5. /\ i = 1 => B(i) = t.id
      /\ i # 1 /\ t.id = CALL_DETAILS /\ i = seq + 1 => B(i) = number
      /\ i # 1 /\ t.id = RATE_REQUEST /\ i - dialed \in 1..10 => B(i) = D(i - dialed)
      /\ i # 1 /\ ~(t.id = CALL_DETAILS /\ i = seq + 1)
             /\ ~(t.id = RATE_REQUEST /\ i - dialed \in 1..10) => B(i) = t.fill
  <2>1. seq # 0 /\ dialed # 0 /\ seq \in Nat /\ dialed \in Nat
    BY TheFields DEF seq, dialed
  <2>2. i = 1 => i # seq + 1 /\ i - dialed \notin 1..10
    BY <2>1
  <2> DEFINE numbered == t.id = CALL_DETAILS /\ i = seq + 1
             ofDialed == t.id = RATE_REQUEST /\ i - dialed \in 1..10
  <2>3. ~(numbered /\ ofDialed) /\ (i = 1 => ~numbered /\ ~ofDialed)
    BY <1>2, <2>2
  <2>4. B(i) = CASE i = 1 -> t.id [] numbered -> number [] ofDialed -> D(i - dialed) [] OTHER -> t.fill
    BY DEF B
  <2> HIDE DEF B, numbered, ofDialed, D
  <2>5. /\ i = 1 => B(i) = t.id
        /\ i # 1 /\ numbered => B(i) = number
        /\ i # 1 /\ ofDialed => B(i) = D(i - dialed)
        /\ i # 1 /\ ~numbered /\ ~ofDialed => B(i) = t.fill
    BY <2>3, <2>4
  <2>6. QED
    BY <2>5 DEF numbered, ofDialed
<1>6. QED
  BY <1>3, <1>4, <1>5 DEF seq, dialed

\* A table begins with its number, where PutAt says.
LEMMA TableBegins ==
  ASSUME NEW s, NEW tables, NEW payload, Placed(s, tables, payload), NEW k \in 1..Len(tables)
  PROVE  /\ PutAt(tables, k - 1) \in 1..Len(payload)
         /\ payload[PutAt(tables, k - 1)] = tables[k].id
         /\ PutAt(tables, k) = PutAt(tables, k - 1) + SizeOnLine(tables[k].id)
<1> DEFINE n == Len(tables)
           z == SizeOnLine(tables[k].id)
           a == PutAt(tables, k - 1)
           b == PutAt(tables, k)
           c == PutAt(tables, n)
           one == 1
<1>1. n \in Nat /\ Len(payload) = c - 1 /\ b <= c /\ k \in 1..n
  <2>1. n \in Nat /\ Len(payload) = c - 1 /\ \A i \in 0..n : PutAt(tables, i) <= c
    BY DEF Placed
  <2>2. k \in 0..n
    BY <2>1
  <2>3. QED
    BY <2>1, <2>2
<1>2. a \in Nat \ {0} /\ b = a + z /\ z \in Nat \ {0} /\ c \in Nat \ {0}
  <2>1. k - 1 \in 0..n /\ n \in 0..n
    BY <1>1
  <2>2. QED
    BY <1>1, <2>1, PutParts, SizeOnLineType
<1>3. one \in 1..z /\ payload[(a + one) - 1] = TableBytes(s, tables[k], k)[one]
  <2>1. one \in 1..z
    BY <1>2
  <2>2. \A i \in 1..z : payload[(a + i) - 1] = TableBytes(s, tables[k], k)[i]
    BY DEF Placed
  <2>3. QED
    BY <2>1, <2>2
<1>4. TableBytes(s, tables[k], k)[one] = tables[k].id
  BY <1>3, TableByte
<1>5. (a + one) - 1 = a
  BY <1>2
<1> HIDE DEF n, z, a, b, c
<1>6. a \in 1..Len(payload)
  BY <1>1, <1>2
<1>7. payload[a] = tables[k].id
  BY <1>3, <1>4, <1>5
<1>8. QED
  BY <1>2, <1>6, <1>7 DEF a, b, z

\* The next table is the one that the walk finds.
LEMMA NextTable ==
  ASSUME ContentsInv, OrderInv, pc = "process",
         NEW k \in 1..Len(PackedTables), Known(PackedTables, k), Len(handled) = k - 1
  PROVE  at = PutAt(PackedTables, k - 1) /\ At(at) = PackedTables[k].id
<1> DEFINE tables == PackedTables
           payload == Current.payload
<1>1. Placed(setup, tables, payload)
  BY InPacket
<1>2. at = PutAt(tables, k - 1)
  BY DEF OrderInv, InOrder
<1> HIDE DEF tables
<1>3. at \in 1..Len(payload) /\ payload[at] = tables[k].id
  BY <1>1, <1>2, TableBegins DEF tables
<1>4. At(at) = payload[at]
  BY <1>3, AtInside
<1>5. QED
  BY <1>2, <1>3, <1>4 DEF tables

\* The walk ends behind the last table, and not before.
LEMMA WalkDone ==
  ASSUME ContentsInv, OrderInv, pc = "process", Known(PackedTables, Len(PackedTables))
  PROVE  /\ Len(PackedTables) \in Nat /\ Len(handled) \in 0..Len(PackedTables)
         /\ at <= Len(Current.payload) <=> Len(handled) # Len(PackedTables)
<1> DEFINE tables == PackedTables
           payload == Current.payload
           n == Len(tables)
           j == Len(handled)
           P(k) == PutAt(tables, k)
<1>1. Placed(setup, tables, payload)
  BY InPacket
<1>2. n \in Nat /\ Len(payload) = P(n) - 1
  BY <1>1 DEF Placed
<1>3. j \in 0..n /\ at = P(j)
  <2>1. handled \in Seq(Nat \X Nat) /\ j <= n /\ at = P(j)
    BY DEF OrderInv, InOrder
  <2> DEFINE T == Nat \X Nat
  <2>2. handled \in Seq(T)
    BY <2>1
  <2> HIDE DEF T
  <2>3. j \in Nat
    BY <2>2, LenProperties
  <2>4. QED
    BY <1>2, <2>1, <2>3
<1>4. j # n => P(j) \in 1..Len(payload)
  <2> SUFFICES ASSUME j # n PROVE P(j) \in 1..Len(payload)
    OBVIOUS
  <2>1. j + 1 \in 1..n /\ (j + 1) - 1 = j
    BY <1>2, <1>3
  <2> HIDE DEF tables, n, j
  <2>2. PutAt(tables, (j + 1) - 1) \in 1..Len(payload)
    BY <1>1, <2>1, TableBegins DEF n
  <2>3. QED
    BY <2>1, <2>2
<1>5. P(n) \in Nat
  BY <1>2, PutParts
<1> HIDE DEF n, j, tables, P
<1>6. at <= Len(payload) <=> j # n
  BY <1>2, <1>3, <1>4, <1>5
<1>7. QED
  BY <1>2, <1>3, <1>6 DEF n, j, tables

\* A table that is handled, and is the next, keeps the order.
LEMMA OneMoreInOrder ==
  ASSUME NEW tables, Len(tables) \in Nat, NEW done, NEW place \in Nat, InOrder(tables, done, place),
         NEW id \in Understood, id \in Nat,
         \A k \in 1..Len(tables) : Known(tables, k) /\ Len(done) = k - 1 => tables[k].id = id,
         Known(tables, Len(tables)) => Len(done) # Len(tables)
  PROVE  InOrder(tables, Append(done, <<id, place>>), place + Size[id])
<1> DEFINE T == Nat \X Nat
           e == <<id, place>>
           n == Len(tables)
           j == Len(done)
           more == Append(done, e)
           there == place + Size[id]
<1>1. done \in Seq(T) /\ e \in T
  BY DEF InOrder
<1>2. /\ \A k \in 1..n : Known(tables, k) /\ k <= j => done[k] = <<tables[k].id, PutAt(tables, k - 1)>>
      /\ \A k \in 1..n : Known(tables, k) /\ j = k - 1 => place = PutAt(tables, k - 1)
      /\ Known(tables, n) => j <= n /\ place = PutAt(tables, j)
  BY DEF InOrder
<1>3. \A k \in 1..n : Known(tables, k) /\ j = k - 1 => tables[k].id = id
  OBVIOUS
<1>4. Known(tables, n) => j # n
  OBVIOUS
<1>5. \A k \in 1..n : PutAt(tables, k) = PutAt(tables, k - 1) + SizeOnLine(tables[k].id)
  BY PutParts
<1>6. n \in Nat
  OBVIOUS
<1> HIDE DEF T, n, e
<1>7. j \in Nat /\ more \in Seq(T) /\ Len(more) = j + 1 /\ more[j + 1] = e /\ \A k \in 1..j : more[k] = done[k]
  BY <1>1, LenProperties
<1> HIDE DEF j, more
<1>8. \A k \in 1..n : \A i \in 1..k : i \in 1..n /\ (Known(tables, k) => Known(tables, i))
  BY <1>6 DEF Known
<1>9. ASSUME NEW k \in 1..n, Known(tables, k), k <= j + 1
      PROVE  more[k] = <<tables[k].id, PutAt(tables, k - 1)>>
  <2>1. CASE k <= j
    <3>1. more[k] = done[k]
      BY <2>1, <1>6, <1>7
    <3>2. QED
      BY <3>1, <2>1, <1>2, <1>9
  <2>2. CASE ~(k <= j)
    <3>1. k = j + 1 /\ j = k - 1
      BY <2>2, <1>6, <1>7, <1>9
    <3>2. place = PutAt(tables, k - 1) /\ tables[k].id = id
      BY <3>1, <1>2, <1>3, <1>9
    <3>3. more[k] = e
      BY <3>1, <1>7
    <3>4. QED
      BY <3>2, <3>3 DEF e
  <2>3. QED
    BY <2>1, <2>2
<1>10. ASSUME j + 1 \in 1..n, Known(tables, j + 1)
       PROVE  there = PutAt(tables, j + 1)
  <2> DEFINE k == j + 1
  <2>1. k \in 1..n /\ j = k - 1 /\ Known(tables, k)
    BY <1>7, <1>10
  <2> HIDE DEF k
  <2>2. place = PutAt(tables, k - 1) /\ tables[k].id = id
    BY <2>1, <1>2, <1>3
  <2>3. SizeOnLine(tables[k].id) = Size[id]
    BY <2>2 DEF SizeOnLine
  <2>4. PutAt(tables, k) = place + Size[id]
    BY <2>1, <2>2, <2>3, <1>5
  <2>5. QED
    BY <2>4 DEF k
<1>11. ASSUME NEW k \in 1..n, Known(tables, k), j + 1 = k - 1
       PROVE  there = PutAt(tables, k - 1)
  <2>1. j + 1 \in 1..k /\ j + 1 \in 1..n
    BY <1>6, <1>7, <1>11
  <2>2. Known(tables, j + 1)
    BY <2>1, <1>8, <1>11
  <2>3. QED
    BY <2>1, <2>2, <1>10, <1>11
<1>12. ASSUME Known(tables, n)
       PROVE  j + 1 <= n /\ there = PutAt(tables, j + 1)
  <2>1. j <= n /\ j # n
    BY <1>2, <1>4, <1>12
  <2>2. j + 1 \in 1..n /\ n \in 1..n
    BY <2>1, <1>6, <1>7
  <2>3. Known(tables, j + 1)
    BY <2>2, <1>8, <1>12
  <2>4. QED
    BY <2>2, <2>3, <1>10
<1> HIDE DEF there
<1>13. InOrder(tables, more, there)
  BY <1>7, <1>9, <1>11, <1>12 DEF InOrder, n, T
<1>14. QED
  BY <1>13 DEF more, there, e

\* A case of the switch keeps the order.
LEMMA HandledInOrder ==
  ASSUME ContentsInv, OrderInv, NEW id \in Understood, NEW answer, Handle(id, answer)
  PROVE  OrderInv'
<1> DEFINE tables == PackedTables
<1>1. /\ pc = "process" /\ at <= Len(Current.payload) /\ At(at) = id /\ at' = at + Size[id]
      /\ handled' = Append(handled, <<id, at>>) /\ UNCHANGED <<setup, sent, got, taken>>
  BY DEF Handle, InWalk, Skip, framingVars, lineVars
<1>2. PackedTables' = tables
  BY <1>1, TablesKept
<1>3. id \in Nat /\ at \in Nat
  <2>1. At(at) \in Byte /\ at \in Nat
    BY <1>1, InWalkFacts, AtType
  <2>2. QED
    BY <1>1, <2>1, ByteDef
<1>4. Len(tables) \in Nat
  BY <1>1, InPacket DEF Placed
<1>5. \A k \in 1..Len(tables) : Known(tables, k) /\ Len(handled) = k - 1 => tables[k].id = id
  BY <1>1, NextTable
<1>6. Known(tables, Len(tables)) => Len(handled) # Len(tables)
  BY <1>1, WalkDone
<1>7. InOrder(tables, handled, at)
  BY <1>1 DEF OrderInv
<1> HIDE DEF tables
<1>8. InOrder(tables, Append(handled, <<id, at>>), at + Size[id])
  BY <1>3, <1>4, <1>5, <1>6, <1>7, OneMoreInOrder
<1>9. QED
  BY <1>1, <1>2, <1>8 DEF OrderInv

\* Every case of the switch handles a table that the manager knows.
Handles ==
    \/ TimeSyncReq \/ AtnReqTabUpd \/ Alarm \/ MaintReq \/ CallDetails \/ BeginUpload
    \/ CashBoxCollection \/ Report \/ SwVersion \/ RateRequest \/ FunfCardAuth \/ EndData
    \/ TableUpdAck

LEMMA HandlesKnown ==
  ASSUME Handles
  PROVE  \E id \in Understood : \E answer : Handle(id, answer)
<1>1. CASE BeginUpload
  <2>1. PICK id \in {ATN_REQ_CDR_UPL, CALL_IN, CALL_BACK} : Handle(id, <<TRANS_DATA>>)
    BY <1>1 DEF BeginUpload
  <2>2. id \in Understood
    BY DEF Understood
  <2>3. QED
    BY <2>1, <2>2
<1>2. CASE Report
  <2>1. PICK id \in Unanswered : Handle(id, <<>>)
    BY <1>2 DEF Report
  <2>2. id \in Understood
    BY DEF Unanswered, Understood
  <2>3. QED
    BY <2>1, <2>2
<1>3. CASE TimeSyncReq \/ AtnReqTabUpd \/ Alarm \/ MaintReq \/ CallDetails
  <2>1. /\ TIME_SYNC_REQ \in Understood /\ ATN_REQ_TAB_UPD \in Understood /\ ALARM \in Understood
        /\ MAINT_REQ \in Understood /\ CALL_DETAILS \in Understood
    BY DEF Understood
  <2>2. CASE TimeSyncReq
    <3>1. \E answer : Handle(TIME_SYNC_REQ, answer)
      BY <2>2 DEF TimeSyncReq
    <3>2. QED
      BY <2>1, <3>1
  <2>3. CASE AtnReqTabUpd
    <3>1. \E answer : Handle(ATN_REQ_TAB_UPD, answer)
      BY <2>3 DEF AtnReqTabUpd
    <3>2. QED
      BY <2>1, <3>1
  <2>4. CASE Alarm
    BY <2>1, <2>4 DEF Alarm
  <2>5. CASE MaintReq
    BY <2>1, <2>5 DEF MaintReq
  <2>6. CASE CallDetails
    <3>1. \E answer : Handle(CALL_DETAILS, answer)
      BY <2>6 DEF CallDetails
    <3>2. QED
      BY <2>1, <3>1
  <2>7. QED
    BY <1>3, <2>2, <2>3, <2>4, <2>5, <2>6
<1>4. CASE CashBoxCollection \/ SwVersion \/ RateRequest \/ FunfCardAuth \/ EndData \/ TableUpdAck
  <2>1. /\ CASH_BOX_COLLECTION \in Understood /\ SW_VERSION \in Understood
        /\ RATE_REQUEST \in Understood /\ FUNF_CARD_AUTH \in Understood
        /\ END_DATA \in Understood /\ TABLE_UPD_ACK \in Understood
    BY DEF Understood
  <2>2. CASE CashBoxCollection
    BY <2>1, <2>2 DEF CashBoxCollection
  <2>3. CASE SwVersion
    BY <2>1, <2>3 DEF SwVersion
  <2>4. CASE RateRequest
    <3>1. \E answer : Handle(RATE_REQUEST, answer)
      BY <2>4 DEF RateRequest
    <3>2. QED
      BY <2>1, <3>1
  <2>5. CASE FunfCardAuth
    <3>1. \E answer : Handle(FUNF_CARD_AUTH, answer)
      BY <2>5 DEF FunfCardAuth
    <3>2. QED
      BY <2>1, <3>1
  <2>6. CASE EndData
    BY <2>1, <2>6 DEF EndData
  <2>7. CASE TableUpdAck
    BY <2>1, <2>7 DEF TableUpdAck
  <2>8. QED
    BY <1>4, <2>2, <2>3, <2>4, <2>5, <2>6, <2>7
<1>5. QED
  BY <1>1, <1>2, <1>3, <1>4 DEF Handles

\* What the walk does not know comes behind all that it does: it does not disturb the order.
LEMMA UnhandledInOrder ==
  ASSUME ContentsInv, OrderInv, Unhandled
  PROVE  OrderInv'
<1> DEFINE tables == PackedTables
           n == Len(tables)
<1>1. /\ pc = "process" /\ at <= Len(Current.payload) /\ At(at) \notin Understood
      /\ handled' = handled /\ UNCHANGED <<setup, sent, got, taken>>
  BY DEF Unhandled, InWalk, framingVars, lineVars
<1>2. PackedTables' = tables
  BY <1>1, TablesKept
<1>3. n \in Nat
  BY <1>1, InPacket DEF Placed
<1>4. \A k \in 1..n : Known(tables, k) => Len(handled) # k - 1
  <2> SUFFICES ASSUME NEW k \in 1..n, Known(tables, k), Len(handled) = k - 1 PROVE FALSE
    OBVIOUS
  <2>1. At(at) = tables[k].id
    BY <1>1, NextTable
  <2>2. k \in 1..k
    BY <1>3
  <2> HIDE DEF tables
  <2>3. tables[k].id \in Understood
    BY <2>2 DEF Known
  <2>4. QED
    BY <1>1, <2>1, <2>3
<1>5. ~Known(tables, n)
  <2> SUFFICES ASSUME Known(tables, n) PROVE FALSE
    OBVIOUS
  <2> DEFINE j == Len(handled)
             k == j + 1
  <2>1. j \in 0..n /\ j # n
    BY <1>1, WalkDone
  <2>2. k \in 1..n /\ j = k - 1 /\ \A i \in 1..k : i \in 1..n
    BY <2>1, <1>3
  <2> HIDE DEF j, k, tables, n
  <2>3. Known(tables, k)
    BY <2>2 DEF Known, n
  <2>4. QED
    BY <2>2, <2>3, <1>4 DEF j
<1>6. /\ handled \in Seq(Nat \X Nat)
      /\ \A k \in 1..n : Known(tables, k) /\ k <= Len(handled) =>
             handled[k] = <<tables[k].id, PutAt(tables, k - 1)>>
  BY <1>1 DEF OrderInv, InOrder
<1> HIDE DEF tables, n
<1>7. InOrder(tables, handled, at')
  BY <1>4, <1>5, <1>6 DEF InOrder, n
<1>8. QED
  BY <1>1, <1>2, <1>7 DEF OrderInv

\* The walk begins with the first table.
LEMMA TakeInOrder ==
  ASSUME ContentsInv, IntactIsSent, Take
  PROVE  OrderInv'
<1> SUFFICES ASSUME pc' = "process" PROVE InOrder(PackedTables', <<>>, PKT_TABLE_ID_OFFSET + 1)
  <2>1. pc = "receive"
    BY DEF Take
  <2>2. pc' = "process" => at' = PKT_TABLE_ID_OFFSET + 1 /\ handled' = <<>>
    BY <2>1 DEF Take
  <2>3. QED
    BY <2>2 DEF OrderInv
<1> DEFINE i == CHOOSE k \in 1..Len(sent') : sent'[k].payload = Current'.payload
<1>1. ContentsInv'
  BY TakeKeeps
<1>2. SentIs' /\ \E k \in 1..Len(sent') : Current'.payload = sent'[k].payload
  BY <1>1 DEF ContentsInv, WalkInv
<1>3. i \in 1..Len(sent')
  BY <1>2
<1>4. PackedTables' = setup'.packed[i].tables
  BY DEF PackedTables
<1> HIDE DEF i
<1>5. setup' = setup /\ sent' = sent
  BY DEF Take, framingVars, lineVars
<1> DEFINE tables == setup.packed[i].tables
           R == [id : Byte, fill : Byte]
<1>6. i \in 1..Len(setup.packed) /\ IsTerminal(setup)
  <2>1. SentIs
    BY DEF ContentsInv
  <2>2. QED
    BY <1>3, <1>5, <2>1, SentRight, TheSetup DEF SentIs
<1>7. Placed(setup, tables, Packed(setup, setup.packed[i]).payload)
  BY <1>6, PackedPlaced
<1>8. Len(tables) \in Nat
  BY <1>7 DEF Placed
<1> HIDE DEF tables
<1> DEFINE E == <<>>
           T == Nat \X Nat
           z == PKT_TABLE_ID_OFFSET + 1
           n == Len(tables)
<1>9. E \in Seq(T) /\ Len(E) = 0
  BY EmptySeq
<1>10. PutAt(tables, 0) = z
  BY <1>8, PutParts
<1>11. n \in Nat
  BY <1>8
<1> HIDE DEF E, z, n, T
<1>12. \A k \in 1..n : ~(k <= 0) /\ (k - 1 = 0 => PutAt(tables, k - 1) = z)
  BY <1>10, <1>11
<1>13. InOrder(tables, E, z)
  BY <1>9, <1>10, <1>11, <1>12 DEF InOrder, n, T
<1>14. QED
  BY <1>4, <1>5, <1>13 DEF tables, E, z

\* Nothing else is a step of the walk.
LEMMA OnlyWalks ==
  ASSUME [Next]_vars, pc' = "process", ~Take, ~Handles, ~Unhandled
  PROVE  pc = "process" /\ UNCHANGED vars
<1>1. CASE UNCHANGED vars
  BY <1>1 DEF vars
<1>2. CASE Receive
  BY <1>2 DEF Receive
<1>3. CASE Reply
  BY <1>3 DEF Reply
<1>4. CASE Download
  BY <1>4 DEF Download
<1>5. CASE EndDownload
  BY <1>5 DEF EndDownload
<1>6. QED
  BY <1>1, <1>2, <1>3, <1>4, <1>5 DEF Next, Handles

\* No step breaks the order.
LEMMA OrderKept == ContentsInv /\ IntactIsSent /\ OrderInv /\ [Next]_vars => OrderInv'
<1> SUFFICES ASSUME ContentsInv, IntactIsSent, OrderInv, [Next]_vars PROVE OrderInv'
  OBVIOUS
<1>1. CASE Take
  BY <1>1, TakeInOrder
<1>2. CASE Handles
  BY <1>2, HandlesKnown, HandledInOrder
<1>3. CASE Unhandled
  BY <1>3, UnhandledInOrder
<1>4. CASE pc' = "process" /\ ~Take /\ ~Handles /\ ~Unhandled
  <2>1. pc = "process" /\ UNCHANGED vars
    BY <1>4, OnlyWalks
  <2>2. UNCHANGED <<setup, sent, got, taken>> /\ handled' = handled /\ at' = at
    BY <2>1 DEF vars, framingVars, lineVars, walkVars
  <2>3. PackedTables' = PackedTables
    BY <2>2, TablesKept
  <2>4. InOrder(PackedTables, handled, at)
    BY <2>1 DEF OrderInv
  <2>5. QED
    BY <2>2, <2>3, <2>4 DEF OrderInv
<1>5. QED
  BY <1>1, <1>2, <1>3, <1>4 DEF OrderInv

\* The first tables of a sequence are known when each of them is.
LEMMA KnownFirst ==
  ASSUME NEW tables \in LineTables, NEW k \in 0..Len(tables)
  PROVE  AllUnderstood(SubSeq(tables, 1, k)) <=> Known(tables, k)
<1> DEFINE R == [id : Byte, fill : Byte]
           z == 0
           n == Len(tables)
<1>1. tables \in Seq(R) /\ z \in Nat
  BY DEF LineTables
<1> HIDE DEF R, z
<1>2. n \in Nat
  BY <1>1, LenProperties
<1>3. k \in Nat /\ z + k <= n
  BY <1>2 DEF z
<1> DEFINE c == SubSeq(tables, z + 1, z + k)
<1>4. Len(c) = k /\ Piece(c, tables, z, k)
  <2> HIDE DEF n
  <2>1. QED
    BY <1>1, <1>3, Cut DEF n
<1>5. SubSeq(tables, 1, k) = c
  BY DEF z
<1> HIDE DEF c
<1>6. \A i \in 1..k : c[i] = tables[i]
  BY <1>4 DEF Piece, z
<1>7. AllUnderstood(c) <=> Known(tables, k)
  BY <1>4, <1>6 DEF AllUnderstood, Known
<1>8. QED
  BY <1>5, <1>7

\* The invariant says that the tables are handled where the terminal put them.
LEMMA OrderRight == ContentsInv /\ OrderInv => TablesInOrder
<1> SUFFICES ASSUME ContentsInv, OrderInv, pc = "process" PROVE TablesInOrder
  BY DEF TablesInOrder
<1> DEFINE tables == PackedTables
           n == Len(tables)
           placed == [k \in 1..n |-> <<tables[k].id, PutAt(tables, k - 1)>>]
<1>1. n \in Nat /\ tables \in LineTables
  BY InPacket DEF Placed
<1>2. /\ handled \in Seq(Nat \X Nat)
      /\ \A k \in 1..n : Known(tables, k) /\ k <= Len(handled) => handled[k] = placed[k]
  <2>1. /\ handled \in Seq(Nat \X Nat)
        /\ \A k \in 1..n : Known(tables, k) /\ k <= Len(handled) =>
               handled[k] = <<tables[k].id, PutAt(tables, k - 1)>>
    BY DEF OrderInv, InOrder
  <2> HIDE DEF tables, n
  <2>2. QED
    BY <2>1
<1>3. ASSUME NEW k \in 1..n, AllUnderstood(SubSeq(tables, 1, k)), k <= Len(handled)
      PROVE  handled[k] = placed[k]
  <2>1. k \in 0..n
    BY <1>1
  <2> HIDE DEF tables, placed
  <2>2. Known(tables, k)
    BY <2>1, <1>1, <1>3, KnownFirst
  <2>3. QED
    BY <2>2, <1>2, <1>3
<1>4. ASSUME WalkEnds, AllUnderstood(tables) PROVE handled = placed
  <2>1. Known(tables, n)
    BY <1>4 DEF AllUnderstood, Known
  <2>2. ~(at <= Len(Current.payload))
    <3>1. at \in Nat /\ Current.payload \in Seq(Byte)
      BY InWalkFacts, InPacket DEF Placed
    <3>2. Len(Current.payload) \in Nat /\ at > Len(Current.payload)
      BY <3>1, <1>4, LenProperties DEF WalkEnds
    <3>3. QED
      BY <3>1, <3>2
  <2>3. Len(handled) = n
    BY <2>1, <2>2, WalkDone
  <2> HIDE DEF tables, placed, n
  <2>4. \A k \in 1..n : Known(tables, k) /\ k <= n
    BY <2>1, <1>1 DEF Known
  <2>5. \A k \in 1..n : handled[k] = placed[k]
    BY <2>3, <2>4, <1>2
  <2> DEFINE T == Nat \X Nat
  <2>6. handled \in Seq(T)
    BY <1>2
  <2> HIDE DEF T
  <2>7. handled \in [1..n -> T]
    BY <2>3, <2>6, LenProperties
  <2>8. handled = [k \in 1..n |-> placed[k]]
    BY <2>5, <2>7
  <2>9. placed = [k \in 1..n |-> placed[k]]
    BY DEF placed
  <2>10. QED
    BY <2>8, <2>9
<1>5. QED
  BY <1>3, <1>4 DEF TablesInOrder

\* process_mm_table handles the tables of a packet where the terminal put them, each once and
\* in their order, for every packet that a terminal can send: ppayload never stands within a
\* table that the manager knows.
THEOREM TablesHandledInOrder == Spec /\ []IntactIsSent => []TablesInOrder
<1>1. Init => OrderInv
  BY DEF Init, OrderInv
<1>2. Spec /\ []IntactIsSent => []OrderInv
  BY <1>1, OrderKept, ContentsInvariant, PTL DEF Spec
<1>3. QED
  BY <1>2, OrderRight, ContentsInvariant, PTL

---------------------------------------------------------------------------
(* The answers to the tables handled *)

\* The table that the walk has come to, when it knows all of the packet.
InHand == PackedTables[Len(handled) + 1]
AllKnown == Known(PackedTables, Len(PackedTables))

\* The bytes at ppayload are those of this table.
LEMMA InHandBytes ==
  ASSUME ContentsInv, OrderInv, InWalk, AllKnown
  PROVE  /\ Len(PackedTables) \in Nat /\ Len(handled) \in 0..Len(PackedTables) - 1
         /\ \A k \in 1..Len(PackedTables) : PackedTables[k].fill \in Nat
         /\ InHand.id = At(at) /\ InHand.id \in Understood /\ InHand.id \in Byte /\ InHand.fill \in Byte
         /\ \A i \in 1..SizeOnLine(InHand.id) :
               At((at + i) - 1) = TableBytes(setup, InHand, Len(handled) + 1)[i]
<1> DEFINE tables == PackedTables
           n == Len(tables)
           k == Len(handled) + 1
           payload == Current.payload
           P(m) == PutAt(tables, m)
<1>1. pc = "process" /\ at <= Len(payload)
  BY DEF InWalk
<1>2. Placed(setup, tables, payload)
  BY <1>1, InPacket
<1>3. n \in Nat /\ Len(handled) \in 0..n /\ Len(handled) # n
  BY <1>1, WalkDone DEF AllKnown
<1>4. k \in 1..n /\ k - 1 = Len(handled) /\ Len(handled) \in 0..n - 1 /\ k - 1 \in 0..n /\ k \in 0..n
  BY <1>3
<1>5. \A i \in 1..n : tables[i].id \in Byte /\ tables[i].fill \in Byte
  BY <1>2 DEF Placed
<1>6. \A i \in 1..n : tables[i].fill \in Nat
  BY <1>5, ByteDef
<1>7. Known(tables, k) /\ tables[k].id \in Understood
  <2>1. \A i \in 1..n : tables[i].id \in Understood
    BY DEF AllKnown, Known
  <2>2. \A i \in 1..k : i \in 1..n
    BY <1>4
  <2> HIDE DEF n, k, tables
  <2>3. QED
    BY <2>1, <2>2, <1>4 DEF Known
<1>8. at = P(k - 1) /\ At(at) = tables[k].id
  BY <1>1, <1>4, <1>7, NextTable
<1>9. P(k) = P(k - 1) + SizeOnLine(tables[k].id)
  <2> HIDE DEF n, k, tables
  <2>1. k \in 1..Len(tables)
    BY <1>4 DEF n
  <2>2. PutAt(tables, k) = PutAt(tables, k - 1) + SizeOnLine(tables[k].id)
    BY <2>1, <1>2, TableBegins
  <2>3. QED
    BY <2>2
<1>10. /\ P(k) <= P(n) /\ Len(payload) = P(n) - 1 /\ P(k - 1) \in Nat \ {0} /\ P(n) \in Nat
       /\ SizeOnLine(tables[k].id) \in Nat
  <2>1. P(k) <= P(n) /\ Len(payload) = P(n) - 1
    BY <1>2, <1>4 DEF Placed
  <2>2. P(k - 1) \in Nat \ {0} /\ P(n) \in Nat
    BY <1>3, <1>4, PutParts
  <2>3. SizeOnLine(tables[k].id) \in Nat
    BY SizeOnLineType
  <2>4. QED
    BY <2>1, <2>2, <2>3
<1>11. \A i \in 1..SizeOnLine(tables[k].id) :
          payload[(P(k - 1) + i) - 1] = TableBytes(setup, tables[k], k)[i]
  BY <1>2, <1>4 DEF Placed
<1>12. ASSUME NEW i \in 1..SizeOnLine(tables[k].id)
       PROVE  At((at + i) - 1) = TableBytes(setup, tables[k], k)[i]
  <2> DEFINE l == Len(payload)
             size == SizeOnLine(tables[k].id)
  <2>1. size \in Nat /\ at \in Nat \ {0} /\ at + size <= l + 1 /\ l \in Int
    BY <1>8, <1>9, <1>10
  <2> HIDE DEF l, size
  <2>2. i \in 1..size
    BY DEF size
  <2>3. (at + i) - 1 \in 1..l
    BY <2>1, <2>2
  <2>4. At((at + i) - 1) = payload[(at + i) - 1]
    BY <2>3, <1>1, AtInside DEF l
  <2>5. QED
    BY <2>4, <1>8, <1>11
<1>13. QED
  BY <1>3, <1>4, <1>5, <1>6, <1>7, <1>8, <1>12 DEF InHand

\* A field of this table.
LEMMA InHandField ==
  ASSUME ContentsInv, OrderInv, InWalk, AllKnown, NEW struct, NEW name, NEW o \in Nat \ {0}, NEW w \in Nat,
         Offset(struct, name) = o, Width(struct, name) = w, o + w <= SizeOnLine(InHand.id)
  PROVE  /\ Field(struct, name) = [i \in 1..w |-> At((at + o) + i - 1)]
         /\ \A i \in 1..w : At((at + o) + i - 1) = TableBytes(setup, InHand, Len(handled) + 1)[o + i]
<1>1. Field(struct, name) = [i \in 1..w |-> At((at + o) + i - 1)]
  BY DEF Field
<1>2. ASSUME NEW i \in 1..w
      PROVE At((at + o) + i - 1) = TableBytes(setup, InHand, Len(handled) + 1)[o + i]
  <2> DEFINE size == SizeOnLine(InHand.id)
             B(j) == TableBytes(setup, InHand, Len(handled) + 1)[j]
  <2>1. size \in Nat /\ o + w <= size
    BY SizeOnLineType
  <2>2. at \in Nat
    BY InWalkFacts DEF InWalk
  <2>3. \A j \in 1..size : At((at + j) - 1) = B(j)
    BY InHandBytes
  <2> HIDE DEF size, B
  <2>4. o + i \in 1..size /\ (at + (o + i)) - 1 = (at + o) + i - 1
    BY <2>1, <2>2
  <2>5. At((at + (o + i)) - 1) = B(o + i)
    BY <2>3, <2>4
  <2>6. QED
    BY <2>4, <2>5 DEF B
<1>3. QED
  BY <1>1, <1>2

\* A field of a table that is neither a call record nor a rate request has the byte with
\* which its terminal filled it.
LEMMA FilledField ==
  ASSUME ContentsInv, OrderInv, InWalk, AllKnown, NEW struct, NEW name, NEW o \in Nat \ {0}, NEW w \in Nat,
         Offset(struct, name) = o, Width(struct, name) = w, o + w <= SizeOnLine(InHand.id),
         InHand.id # CALL_DETAILS, InHand.id # RATE_REQUEST
  PROVE  Field(struct, name) = [i \in 1..w |-> InHand.fill]
<1> DEFINE t == InHand
           B(j) == TableBytes(setup, t, Len(handled) + 1)[j]
           A(i) == At((at + o) + i - 1)
<1>1. Field(struct, name) = [i \in 1..w |-> A(i)] /\ \A i \in 1..w : A(i) = B(o + i)
  BY InHandField
<1>2. ASSUME NEW i \in 1..w PROVE B(o + i) = t.fill
  <2>1. SizeOnLine(t.id) \in Nat
    BY SizeOnLineType
  <2>2. o + i \in 1..SizeOnLine(t.id) /\ o + i # 1
    BY <2>1
  <2> HIDE DEF t
  <2>3. TableBytes(setup, t, Len(handled) + 1)[o + i] = t.fill
    BY <2>2, TableByte DEF t
  <2>4. QED
    BY <2>3
<1> HIDE DEF A, B, t
<1>3. \A i \in 1..w : A(i) = t.fill
  BY <1>1, <1>2
<1>4. [i \in 1..w |-> A(i)] = [i \in 1..w |-> t.fill]
  BY <1>3
<1>5. QED
  BY <1>1, <1>4 DEF t

\* A number with a field behind it.
LEMMA Behind ==
  ASSUME NEW x \in Nat, NEW f \in Seq(Nat)
  PROVE  /\ <<x>> \o f \in Seq(Nat) /\ Len(<<x>> \o f) = 1 + Len(f)
         /\ (<<x>> \o f)[1] = x /\ \A i \in 1..Len(f) : (<<x>> \o f)[1 + i] = f[i]
<1> DEFINE c == <<x>> \o f
           l == <<x>>
           m == 1
<1>1. l \in Seq(Nat) /\ Len(l) = m /\ l[m] = x /\ m \in 1..m
  OBVIOUS
<1>2. c = l \o f
  OBVIOUS
<1> HIDE DEF l, c, m
<1>3. c \in Seq(Nat) /\ Len(c) = Len(l) + Len(f) /\ Joins(c, l, Len(l), f, Len(f))
  BY <1>1, <1>2, Joined
<1>4. c \in Seq(Nat) /\ Len(c) = m + Len(f) /\ c[m] = x /\ \A i \in 1..Len(f) : c[m + i] = f[i]
  BY <1>1, <1>3 DEF Joins
<1>5. QED
  BY <1>4 DEF c, m

\* In the walk, the number at ppayload is that of the table in hand.
LEMMA HandleInHand ==
  ASSUME ContentsInv, OrderInv, AllKnown, NEW id, NEW answer, Handle(id, answer)
  PROVE  InWalk /\ InHand.id = id /\ out' = out \o answer
<1>1. InWalk /\ At(at) = id /\ out' = out \o answer
  BY DEF Handle
<1>2. InHand.id = At(at)
  BY <1>1, InHandBytes
<1>3. QED
  BY <1>1, <1>2

\* What the terminal waits for when it has reported.
LEMMA AckIs ==
  ASSUME NEW t, NEW k
  PROVE  /\ t.id = ALARM => Ack(t, k) = <<ALARM_ACK, t.fill>>
         /\ t.id = MAINT_REQ => Ack(t, k) = <<MAINT_ACK, t.fill, t.fill>>
         /\ t.id = CALL_DETAILS => Ack(t, k) = <<CDR_DETAILS_ACK, k, t.fill>>
<1> DEFINE a == <<ALARM_ACK, t.fill>>
           m == <<MAINT_ACK, t.fill, t.fill>>
           r == <<CDR_DETAILS_ACK, k, t.fill>>
<1>1. Ack(t, k) = CASE t.id = ALARM -> a [] t.id = MAINT_REQ -> m [] t.id = CALL_DETAILS -> r
  BY DEF Ack
<1> HIDE DEF a, m, r
<1>2. /\ t.id = ALARM => Ack(t, k) = a
      /\ t.id = MAINT_REQ => Ack(t, k) = m
      /\ t.id = CALL_DETAILS => Ack(t, k) = r
  BY <1>1 DEF ALARM, MAINT_REQ, CALL_DETAILS
<1>3. QED
  BY <1>2 DEF a, m, r

\* How many bytes the tables have that have something to answer with.
LEMMA SizesRead ==
  /\ SizeOnLine(ATN_REQ_TAB_UPD) = 2
  /\ SizeOnLine(ALARM) = SizeOf(dlog_mt_alarm_t)
  /\ SizeOnLine(MAINT_REQ) = SizeOf(dlog_mt_maint_req_t)
  /\ SizeOnLine(CALL_DETAILS) = SizeOf(dlog_mt_call_details_t)
  /\ SizeOnLine(RATE_REQUEST) = SizeOf(dlog_mt_rate_request_t)
<1> DEFINE S(struct) == SizeOf(struct)
           F(id) ==
             CASE id \in {TIME_SYNC_REQ, CALL_IN, CALL_BACK, END_DATA} -> 1
               [] id \in {ATN_REQ_TAB_UPD, ATN_REQ_CDR_UPL, TABLE_UPD_ACK} -> 2
               [] id = ALARM -> S(dlog_mt_alarm_t)
               [] id = MAINT_REQ -> S(dlog_mt_maint_req_t)
               [] id = CALL_DETAILS -> S(dlog_mt_call_details_t)
               [] id = CASH_BOX_COLLECTION -> S(dlog_mt_cash_box_collection_t)
               [] id = TERM_STATUS -> S(dlog_mt_term_status_t)
               [] id = TERM_ERR_REP -> 97
               [] id = SW_VERSION -> S(dlog_mt_sw_version_t)
               [] id = CASH_BOX_STATUS -> S(cashbox_status_univ_t)
               [] id = PERF_STATS_MSG -> S(dlog_mt_perf_stats_record_t)
               [] id = CARRIER_CALL_STATS -> S(dlog_mt_carrier_call_stats_t)
               [] id = CARRIER_STATS_EXP -> S(dlog_mt_carrier_stats_exp_t)
               [] id = SUMMARY_CALL_STATS -> S(dlog_mt_summary_call_stats_t)
               [] id = RATE_REQUEST -> S(dlog_mt_rate_request_t)
               [] id = FUNF_CARD_AUTH -> S(dlog_mt_funf_card_auth_t)
<1>1. Size = [id \in Understood |-> F(id)]
  BY DEF Size
<1>2. \A id \in {ATN_REQ_TAB_UPD, ALARM, MAINT_REQ, CALL_DETAILS, RATE_REQUEST} : id \in Understood
  BY DEF Understood
<1>3. ASSUME NEW id \in {ATN_REQ_TAB_UPD, ALARM, MAINT_REQ, CALL_DETAILS, RATE_REQUEST} PROVE SizeOnLine(id) = F(id)
  <2> HIDE DEF F
  <2>1. QED
    BY <1>1, <1>2, <1>3 DEF SizeOnLine
<1> HIDE DEF S
<1> USE DEF RATE_REQUEST, MAINT_REQ, TIME_SYNC_REQ, CALL_IN, CALL_BACK, END_DATA,
         ATN_REQ_TAB_UPD, ATN_REQ_CDR_UPL, TABLE_UPD_ACK, ALARM, CALL_DETAILS, CASH_BOX_COLLECTION,
         TERM_STATUS, TERM_ERR_REP, SW_VERSION, CASH_BOX_STATUS, PERF_STATS_MSG, CARRIER_CALL_STATS,
         CARRIER_STATS_EXP, SUMMARY_CALL_STATS, FUNF_CARD_AUTH
<1>9. F(ATN_REQ_TAB_UPD) = 2
  OBVIOUS
<1>4. F(ALARM) = S(dlog_mt_alarm_t)
  OBVIOUS
<1>5. F(MAINT_REQ) = S(dlog_mt_maint_req_t)
  OBVIOUS
<1>6. F(CALL_DETAILS) = S(dlog_mt_call_details_t)
  OBVIOUS
<1>7. F(RATE_REQUEST) = S(dlog_mt_rate_request_t)
  OBVIOUS
<1> HIDE DEF F
<1>8. QED
  BY <1>3, <1>4, <1>5, <1>6, <1>7, <1>9 DEF S

\* The acknowledgement of an alarm has its number.
LEMMA AlarmAck ==
  ASSUME ContentsInv, OrderInv, InWalk, AllKnown, InHand.id = ALARM, NEW k
  PROVE  LET a == <<ALARM_ACK>> \o Field(dlog_mt_alarm_t, "alarm_id")
         IN  a \in Seq(Nat) /\ Len(a) = 2 /\ a[1] = ALARM_ACK /\ a = Ack(InHand, k)
<1> DEFINE f == Field(dlog_mt_alarm_t, "alarm_id")
           a == <<ALARM_ACK>> \o f
           o == Offset(dlog_mt_alarm_t, "alarm_id")
           x == InHand.fill
<1>1. x \in Nat /\ ALARM_ACK \in Nat
  BY InHandBytes, ByteDef DEF ALARM_ACK
<1>2. f = [i \in 1..1 |-> x]
  <2> DEFINE w == 1
  <2>1. SizeOnLine(InHand.id) = SizeOf(dlog_mt_alarm_t)
    BY SizesRead
  <2>2. o \in Nat \ {0} /\ w \in Nat /\ Width(dlog_mt_alarm_t, "alarm_id") = w
        /\ o + w <= SizeOnLine(InHand.id)
    BY <2>1, TheFields
  <2>3. InHand.id # CALL_DETAILS /\ InHand.id # RATE_REQUEST
    BY DEF ALARM, CALL_DETAILS, RATE_REQUEST
  <2> HIDE DEF w
  <2>4. f = [i \in 1..w |-> x]
    BY <2>2, <2>3, FilledField
  <2>5. QED
    BY <2>4 DEF w
<1> HIDE DEF f, x
<1>3. f \in Seq(Nat) /\ Len(f) = 1 /\ f[1] = x
  <2> DEFINE w == 1
  <2>1. w \in Nat /\ f \in [1..w -> Nat] /\ f[1] = x
    BY <1>1, <1>2
  <2> HIDE DEF w
  <2>2. f \in Seq(Nat) /\ Len(f) = w
    BY <2>1, Sequence
  <2>3. QED
    BY <2>1, <2>2 DEF w
<1>4. a \in Seq(Nat) /\ Len(a) = 2 /\ a[1] = ALARM_ACK /\ a[2] = x
  <2>1. /\ a \in Seq(Nat) /\ Len(a) = 1 + Len(f)
        /\ a[1] = ALARM_ACK /\ \A i \in 1..Len(f) : a[1 + i] = f[i]
    BY <1>1, <1>3, Behind
  <2> HIDE DEF a
  <2>2. 1 \in 1..Len(f)
    BY <1>3
  <2>3. a[1 + 1] = f[1]
    BY <2>1, <2>2
  <2>4. QED
    BY <2>1, <2>3, <1>3
<1> HIDE DEF a
<1>5. a = <<ALARM_ACK, x>>
  BY <1>4
<1>6. Ack(InHand, k) = <<ALARM_ACK, x>>
  BY AckIs DEF x
<1>7. QED
  BY <1>4, <1>5, <1>6 DEF a, f

\* The acknowledgement of a maintenance report has its type.
LEMMA MaintAck ==
  ASSUME ContentsInv, OrderInv, InWalk, AllKnown, InHand.id = MAINT_REQ, NEW k
  PROVE  LET a == <<MAINT_ACK>> \o Field(dlog_mt_maint_req_t, "type")
         IN  a \in Seq(Nat) /\ Len(a) = 3 /\ a[1] = MAINT_ACK /\ a = Ack(InHand, k)
<1> DEFINE f == Field(dlog_mt_maint_req_t, "type")
           a == <<MAINT_ACK>> \o f
           o == Offset(dlog_mt_maint_req_t, "type")
           x == InHand.fill
<1>1. x \in Nat /\ MAINT_ACK \in Nat
  BY InHandBytes, ByteDef DEF MAINT_ACK
<1>2. f = [i \in 1..2 |-> x]
  <2> DEFINE w == 2
  <2>1. SizeOnLine(InHand.id) = SizeOf(dlog_mt_maint_req_t)
    BY SizesRead
  <2>2. o \in Nat \ {0} /\ w \in Nat /\ Width(dlog_mt_maint_req_t, "type") = w
        /\ o + w <= SizeOnLine(InHand.id)
    BY <2>1, TheFields
  <2>3. InHand.id # CALL_DETAILS /\ InHand.id # RATE_REQUEST
    BY DEF MAINT_REQ, CALL_DETAILS, RATE_REQUEST
  <2> HIDE DEF w
  <2>4. f = [i \in 1..w |-> x]
    BY <2>2, <2>3, FilledField
  <2>5. QED
    BY <2>4 DEF w
<1> HIDE DEF f, x
<1>3. f \in Seq(Nat) /\ Len(f) = 2 /\ f[1] = x /\ f[2] = x
  <2> DEFINE w == 2
  <2>1. w \in Nat /\ f \in [1..w -> Nat] /\ f[1] = x /\ f[2] = x
    BY <1>1, <1>2
  <2> HIDE DEF w
  <2>2. f \in Seq(Nat) /\ Len(f) = w
    BY <2>1, Sequence
  <2>3. QED
    BY <2>1, <2>2 DEF w
<1>4. a \in Seq(Nat) /\ Len(a) = 3 /\ a[1] = MAINT_ACK /\ a[2] = x /\ a[3] = x
  <2>1. /\ a \in Seq(Nat) /\ Len(a) = 1 + Len(f)
        /\ a[1] = MAINT_ACK /\ \A i \in 1..Len(f) : a[1 + i] = f[i]
    BY <1>1, <1>3, Behind
  <2> HIDE DEF a
  <2>2. 1 \in 1..Len(f) /\ 2 \in 1..Len(f)
    BY <1>3
  <2>3. a[1 + 1] = f[1] /\ a[1 + 2] = f[2]
    BY <2>1, <2>2
  <2>4. QED
    BY <2>1, <2>3, <1>3
<1> HIDE DEF a
<1>5. a = <<MAINT_ACK, x, x>>
  BY <1>4
<1>6. Ack(InHand, k) = <<MAINT_ACK, x, x>>
  BY AckIs DEF x
<1>7. QED
  BY <1>4, <1>5, <1>6 DEF a, f

\* The acknowledgement of a call record has its number.
LEMMA RecordAck ==
  ASSUME ContentsInv, OrderInv, InWalk, AllKnown, InHand.id = CALL_DETAILS
  PROVE  LET a == <<CDR_DETAILS_ACK>> \o Field(dlog_mt_call_details_t, "seq")
         IN  /\ a \in Seq(Nat) /\ Len(a) = 3 /\ a[1] = CDR_DETAILS_ACK
             /\ a = Ack(InHand, Len(handled) + 1)
<1> DEFINE f == Field(dlog_mt_call_details_t, "seq")
           a == <<CDR_DETAILS_ACK>> \o f
           o == Offset(dlog_mt_call_details_t, "seq")
           x == InHand.fill
           k == Len(handled) + 1
           A(i) == At((at + o) + i - 1)
           t == InHand
<1>1. x \in Nat /\ CDR_DETAILS_ACK \in Nat /\ k \in Nat
  BY InHandBytes, ByteDef DEF CDR_DETAILS_ACK
<1>2. f = [i \in 1..2 |-> IF i = 1 THEN k ELSE x]
  <2> DEFINE w == 2
             B(j) == TableBytes(setup, t, k)[j]
  <2>1. SizeOnLine(InHand.id) = SizeOf(dlog_mt_call_details_t)
    BY SizesRead
  <2>2. o \in Nat \ {0} /\ w \in Nat /\ Width(dlog_mt_call_details_t, "seq") = w
        /\ o + w <= SizeOnLine(InHand.id)
    BY <2>1, TheFields
  <2> HIDE DEF w
  <2>3. f = [i \in 1..w |-> A(i)] /\ \A i \in 1..w : A(i) = B(o + i)
    BY <2>2, InHandField
  <2>4. B(o + 1) = k
    <3>1. o + 1 \in 1..SizeOnLine(t.id) /\ o + 1 # 1
      BY <2>2, SizeOnLineType DEF w
    <3>2. t.id = CALL_DETAILS
      OBVIOUS
    <3> HIDE DEF t, k
    <3>3. TableBytes(setup, t, k)[o + 1] = k
      BY <3>1, <3>2, TableByte
    <3>4. QED
      BY <3>3
  <2>5. B(o + 2) = x
    <3>1. o + 2 \in 1..SizeOnLine(t.id) /\ o + 2 # 1 /\ o + 2 # o + 1
      BY <2>2, SizeOnLineType DEF w
    <3>2. t.id = CALL_DETAILS /\ t.id # RATE_REQUEST /\ x = t.fill
      BY DEF CALL_DETAILS, RATE_REQUEST
    <3> HIDE DEF t, k, x
    <3>3. TableBytes(setup, t, k)[o + 2] = t.fill
      BY <3>1, <3>2, TableByte
    <3>4. QED
      BY <3>2, <3>3
  <2> HIDE DEF A, B, o, k, x, t
  <2>6. \A i \in 1..w : A(i) = IF i = 1 THEN k ELSE x
    BY <2>3, <2>4, <2>5 DEF w
  <2>7. [i \in 1..w |-> A(i)] = [i \in 1..w |-> IF i = 1 THEN k ELSE x]
    BY <2>6
  <2>8. QED
    BY <2>3, <2>7 DEF w
<1>6. Ack(InHand, k) = <<CDR_DETAILS_ACK, k, x>>
  BY AckIs DEF x
<1> HIDE DEF f, x, k, t
<1>3. f \in Seq(Nat) /\ Len(f) = 2 /\ f[1] = k /\ f[2] = x
  <2> DEFINE w == 2
  <2>1. w \in Nat /\ f \in [1..w -> Nat] /\ f[1] = k /\ f[2] = x
    BY <1>1, <1>2
  <2> HIDE DEF w
  <2>2. f \in Seq(Nat) /\ Len(f) = w
    BY <2>1, Sequence
  <2>3. QED
    BY <2>1, <2>2 DEF w
<1>4. a \in Seq(Nat) /\ Len(a) = 3 /\ a[1] = CDR_DETAILS_ACK /\ a[2] = k /\ a[3] = x
  <2>1. /\ a \in Seq(Nat) /\ Len(a) = 1 + Len(f)
        /\ a[1] = CDR_DETAILS_ACK /\ \A i \in 1..Len(f) : a[1 + i] = f[i]
    BY <1>1, <1>3, Behind
  <2> HIDE DEF a
  <2>2. 1 \in 1..Len(f) /\ 2 \in 1..Len(f)
    BY <1>3
  <2>3. a[1 + 1] = f[1] /\ a[1 + 2] = f[2]
    BY <2>1, <2>2
  <2>4. QED
    BY <2>1, <2>3, <1>3
<1> HIDE DEF a
<1>5. a = <<CDR_DETAILS_ACK, k, x>>
  BY <1>4
<1>7. a = Ack(InHand, k)
  BY <1>5, <1>6
<1>8. QED
  BY <1>4, <1>7 DEF a, f, k

\* The number in a rate request is that dialed.
LEMMA DialedField ==
  ASSUME ContentsInv, OrderInv, InWalk, AllKnown, InHand.id = RATE_REQUEST
  PROVE  Field(dlog_mt_rate_request_t, "phone_number") = setup.dialed
<1> DEFINE f == Field(dlog_mt_rate_request_t, "phone_number")
           o == Offset(dlog_mt_rate_request_t, "phone_number")
           k == Len(handled) + 1
           t == InHand
           A(i) == At((at + o) + i - 1)
           B(j) == TableBytes(setup, t, k)[j]
           w == 10
           d == setup.dialed
<1>1. SizeOnLine(InHand.id) = SizeOf(dlog_mt_rate_request_t)
  BY SizesRead
<1>2. o \in Nat \ {0} /\ w \in Nat /\ Width(dlog_mt_rate_request_t, "phone_number") = w
      /\ o + w <= SizeOnLine(InHand.id)
  BY <1>1, TheFields
<1>3. d \in Seq(Byte) /\ Len(d) = w
  BY TheSetup DEF ContentsInv, SentIs, IsTerminal
<1> HIDE DEF w, d
<1>4. f = [i \in 1..w |-> A(i)] /\ \A i \in 1..w : A(i) = B(o + i)
  BY <1>2, InHandField
<1>5. ASSUME NEW i \in 1..w PROVE B(o + i) = d[i]
  <2>1. o + i \in 1..SizeOnLine(t.id) /\ o + i # 1 /\ (o + i) - o = i /\ i \in 1..10
    BY <1>2, SizeOnLineType DEF w
  <2>2. t.id = RATE_REQUEST /\ ~(t.id = CALL_DETAILS)
    BY DEF RATE_REQUEST, CALL_DETAILS
  <2> HIDE DEF t, k
  <2>3. TableBytes(setup, t, k)[o + i] = setup.dialed[(o + i) - o]
    BY <2>1, <2>2, TableByte
  <2>4. QED
    BY <2>1, <2>3 DEF d
<1> HIDE DEF A, B, o, f
<1>6. \A i \in 1..w : A(i) = d[i]
  BY <1>4, <1>5
<1>7. [i \in 1..w |-> A(i)] = [i \in 1..w |-> d[i]]
  BY <1>6
<1>8. d = [i \in 1..w |-> d[i]]
  BY <1>3
<1>9. f = d
  BY <1>4, <1>7, <1>8
<1>10. QED
  BY <1>9 DEF f, d

\* The cases of the switch that do not touch what waits for the end of an upload.
Ordinary ==
    \/ TimeSyncReq \/ AtnReqTabUpd \/ Alarm \/ MaintReq \/ BeginUpload \/ CashBoxCollection
    \/ Report \/ SwVersion \/ RateRequest \/ FunfCardAuth \/ TableUpdAck

Adds(bytes) == AddsFor(setup, InHand, Len(handled) + 1, bytes)

\* They append the answers to the table in hand.
DoesAdd ==
    \E id \in Understood \ {CALL_DETAILS} : \E bytes : Handle(id, bytes) /\ Adds(bytes)

\* An answer of one byte.
LEMMA ByteAdds ==
  ASSUME NEW r \in {END_DATA, TABLE_UPD, TRANS_DATA}, AnswersTo(InHand) = <<r>>,
         InHand.id # ALARM, InHand.id # MAINT_REQ
  PROVE  Adds(<<r>>)
<1> DEFINE a == <<r>>
           t == InHand
           k == Len(handled) + 1
<1>1. a \in Seq(Nat) /\ IsWhole(a) /\ a[1] = r
  BY ByteWhole
<1>2. r # CDR_DETAILS_ACK /\ r # ALARM_ACK /\ r # MAINT_ACK /\ r # RATE_RESPONSE
  BY DEF END_DATA, TABLE_UPD, TRANS_DATA, CDR_DETAILS_ACK, ALARM_ACK, MAINT_ACK, RATE_RESPONSE
<1>3. t.id # ALARM /\ t.id # MAINT_REQ /\ AnswersTo(t) = <<a[1]>>
  BY <1>1
<1> HIDE DEF a, t, k
<1>4. AddsFor(setup, t, k, a)
  BY <1>1, <1>2, <1>3, SingleAdds
<1>5. QED
  BY <1>4 DEF Adds, a, t, k

\* The numbers of the tables that are answered.
LEMMA AnsweredTables ==
  /\ \A id \in {TIME_SYNC_REQ, ATN_REQ_TAB_UPD, ALARM, MAINT_REQ, ATN_REQ_CDR_UPL, CALL_IN, CALL_BACK,
                CASH_BOX_COLLECTION, SW_VERSION, RATE_REQUEST, FUNF_CARD_AUTH, TABLE_UPD_ACK} :
        id \in Understood \ {CALL_DETAILS}
  /\ \A id \in Unanswered : id \in Understood \ {CALL_DETAILS}
<1>1. CALL_DETAILS \notin {TIME_SYNC_REQ, ATN_REQ_TAB_UPD, ALARM, MAINT_REQ, ATN_REQ_CDR_UPL, CALL_IN, CALL_BACK,
                CASH_BOX_COLLECTION, SW_VERSION, RATE_REQUEST, FUNF_CARD_AUTH, TABLE_UPD_ACK}
  BY DEF CALL_DETAILS, TIME_SYNC_REQ, ATN_REQ_TAB_UPD, ALARM, MAINT_REQ, ATN_REQ_CDR_UPL, CALL_IN, CALL_BACK,
         CASH_BOX_COLLECTION, SW_VERSION, RATE_REQUEST, FUNF_CARD_AUTH, TABLE_UPD_ACK
<1>2. CALL_DETAILS \notin Unanswered
  BY DEF CALL_DETAILS, Unanswered, TERM_STATUS, TERM_ERR_REP, CASH_BOX_STATUS, PERF_STATS_MSG,
         CARRIER_CALL_STATS, CARRIER_STATS_EXP, SUMMARY_CALL_STATS
<1>3. Unanswered \subseteq Understood
  BY DEF Unanswered, Understood
<1>4. {TIME_SYNC_REQ, ATN_REQ_TAB_UPD, ALARM, MAINT_REQ, ATN_REQ_CDR_UPL, CALL_IN, CALL_BACK,
                CASH_BOX_COLLECTION, SW_VERSION, RATE_REQUEST, FUNF_CARD_AUTH, TABLE_UPD_ACK} \subseteq Understood
  BY DEF Understood
<1>5. QED
  BY <1>1, <1>2, <1>3, <1>4

\* An upload begins, the cash box was collected, a table update is acknowledged: one byte.
LEMMA BytesAdded ==
  ASSUME ContentsInv, OrderInv, AllKnown, BeginUpload \/ CashBoxCollection \/ TableUpdAck
  PROVE  DoesAdd
<1>1. ASSUME NEW id \in {ATN_REQ_CDR_UPL, CALL_IN, CALL_BACK, TABLE_UPD_ACK}, Handle(id, <<TRANS_DATA>>)
      PROVE  DoesAdd
  <2>1. InHand.id = id
    BY <1>1, HandleInHand
  <2>2. AnswersTo(InHand) = <<TRANS_DATA>>
    BY <2>1, Asked
  <2>3. id # ALARM /\ id # MAINT_REQ
    BY DEF ATN_REQ_CDR_UPL, CALL_IN, CALL_BACK, TABLE_UPD_ACK, ALARM, MAINT_REQ
  <2>4. Adds(<<TRANS_DATA>>)
    BY <2>1, <2>2, <2>3, ByteAdds
  <2>5. id \in Understood \ {CALL_DETAILS}
    BY AnsweredTables
  <2>6. QED
    BY <1>1, <2>4, <2>5 DEF DoesAdd
<1>2. CASE CashBoxCollection
  <2>0. Handle(CASH_BOX_COLLECTION, <<END_DATA>>)
    BY <1>2 DEF CashBoxCollection
  <2>1. InHand.id = CASH_BOX_COLLECTION
    BY <2>0, HandleInHand
  <2>2. AnswersTo(InHand) = <<END_DATA>>
    BY <2>1, Asked
  <2>3. CASH_BOX_COLLECTION # ALARM /\ CASH_BOX_COLLECTION # MAINT_REQ
    BY DEF CASH_BOX_COLLECTION, ALARM, MAINT_REQ
  <2>4. Adds(<<END_DATA>>)
    BY <2>1, <2>2, <2>3, ByteAdds
  <2>5. CASH_BOX_COLLECTION \in Understood \ {CALL_DETAILS}
    BY AnsweredTables
  <2>6. QED
    BY <2>0, <2>4, <2>5 DEF DoesAdd
<1>3. CASE BeginUpload
  <2>1. PICK id \in {ATN_REQ_CDR_UPL, CALL_IN, CALL_BACK} : Handle(id, <<TRANS_DATA>>)
    BY <1>3 DEF BeginUpload
  <2>2. QED
    BY <2>1, <1>1
<1>4. CASE TableUpdAck
  <2>1. Handle(TABLE_UPD_ACK, <<TRANS_DATA>>)
    BY <1>4 DEF TableUpdAck
  <2>2. QED
    BY <2>1, <1>1
<1>5. QED
  BY <1>2, <1>3, <1>4

\* Reports are not answered.
LEMMA NothingAdded ==
  ASSUME ContentsInv, OrderInv, AllKnown, Report \/ SwVersion
  PROVE  DoesAdd
<1>1. ASSUME NEW id \in Unanswered \cup {SW_VERSION}, Handle(id, <<>>)
      PROVE  DoesAdd
  <2>1. InHand.id = id
    BY <1>1, HandleInHand
  <2>2. AnswersTo(InHand) = <<>>
    BY <2>1, Asked
  <2>3. id # ALARM /\ id # MAINT_REQ
    <3>1. id \in {10, 83, 38, 37, 57, 71, 56, 60}
      BY DEF Unanswered, SW_VERSION, TERM_STATUS, TERM_ERR_REP, CASH_BOX_STATUS, PERF_STATS_MSG,
             CARRIER_CALL_STATS, CARRIER_STATS_EXP, SUMMARY_CALL_STATS
    <3>2. QED
      BY <3>1 DEF ALARM, MAINT_REQ
  <2>4. Adds(<<>>)
    BY <2>1, <2>2, <2>3, NoneAdds DEF Adds
  <2>5. id \in Understood \ {CALL_DETAILS}
    BY AnsweredTables
  <2>6. QED
    BY <1>1, <2>4, <2>5 DEF DoesAdd
<1>2. CASE Report
  <2>1. PICK id \in Unanswered : Handle(id, <<>>)
    BY <1>2 DEF Report
  <2>2. QED
    BY <2>1, <1>1
<1>3. CASE SwVersion
  <2>1. Handle(SW_VERSION, <<>>)
    BY <1>3 DEF SwVersion
  <2>2. QED
    BY <2>1, <1>1
<1>4. QED
  BY <1>2, <1>3

\* An alarm and a maintenance report are acknowledged.
LEMMA AcksAdded ==
  ASSUME ContentsInv, OrderInv, AllKnown, Alarm \/ MaintReq
  PROVE  DoesAdd
<1> DEFINE k == Len(handled) + 1
<1>1. CASE Alarm
  <2> DEFINE a == <<ALARM_ACK>> \o Field(dlog_mt_alarm_t, "alarm_id")
  <2>0. Handle(ALARM, a)
    BY <1>1 DEF Alarm
  <2>1. InHand.id = ALARM /\ InWalk
    BY <2>0, HandleInHand
  <2>2. AnswersTo(InHand) = <<ALARM_ACK>>
    BY <2>1, Asked
  <2>3. a \in Seq(Nat) /\ Len(a) = 2 /\ a[1] = ALARM_ACK /\ a = Ack(InHand, k)
    BY <2>1, AlarmAck
  <2> HIDE DEF a
  <2>4. IsWhole(a)
    BY <2>3, AnswerSizes DEF IsWhole
  <2>5. ALARM # MAINT_REQ /\ ALARM_ACK # CDR_DETAILS_ACK /\ ALARM_ACK # MAINT_ACK /\ ALARM_ACK # RATE_RESPONSE
    BY DEF ALARM, MAINT_REQ, ALARM_ACK, MAINT_ACK, CDR_DETAILS_ACK, RATE_RESPONSE
  <2> HIDE DEF k
  <2>6. AddsFor(setup, InHand, k, a)
    BY <2>1, <2>2, <2>3, <2>4, <2>5, SingleAdds
  <2>7. ALARM \in Understood \ {CALL_DETAILS}
    BY AnsweredTables
  <2>8. QED
    BY <2>0, <2>6, <2>7 DEF DoesAdd, Adds, k
<1>2. CASE MaintReq
  <2> DEFINE a == <<MAINT_ACK>> \o Field(dlog_mt_maint_req_t, "type")
  <2>0. Handle(MAINT_REQ, a)
    BY <1>2 DEF MaintReq
  <2>1. InHand.id = MAINT_REQ /\ InWalk
    BY <2>0, HandleInHand
  <2>2. AnswersTo(InHand) = <<MAINT_ACK>>
    BY <2>1, Asked
  <2>3. a \in Seq(Nat) /\ Len(a) = 3 /\ a[1] = MAINT_ACK /\ a = Ack(InHand, k)
    BY <2>1, MaintAck
  <2> HIDE DEF a
  <2>4. IsWhole(a)
    BY <2>3, AnswerSizes DEF IsWhole
  <2>5. ALARM # MAINT_REQ /\ MAINT_ACK # CDR_DETAILS_ACK /\ ALARM_ACK # MAINT_ACK /\ MAINT_ACK # RATE_RESPONSE
    BY DEF ALARM, MAINT_REQ, ALARM_ACK, MAINT_ACK, CDR_DETAILS_ACK, RATE_RESPONSE
  <2> HIDE DEF k
  <2>6. AddsFor(setup, InHand, k, a)
    BY <2>1, <2>2, <2>3, <2>4, <2>5, SingleAdds
  <2>7. MAINT_REQ \in Understood \ {CALL_DETAILS}
    BY AnsweredTables
  <2>8. QED
    BY <2>0, <2>6, <2>7 DEF DoesAdd, Adds, k
<1>3. QED
  BY <1>1, <1>2

\* The time, and a table update with or without the cash box: two answers or one.
LEMMA TimeAdded ==
  ASSUME ContentsInv, OrderInv, AllKnown, TimeSyncReq
  PROVE  DoesAdd
<1> DEFINE now == setup.now
           k == Len(handled) + 1
           t == InHand
           a == <<TIME_SYNC, now.year, now.month, now.day, now.hour, now.min, now.sec, now.wday + 1>>
           b == <<END_DATA>>
           c == <<TIME_SYNC, now.year, now.month, now.day, now.hour, now.min, now.sec, now.wday + 1, END_DATA>>
<1>1. Handle(TIME_SYNC_REQ, c)
  BY DEF TimeSyncReq
<1>2. IsTime(now)
  BY TheSetup DEF ContentsInv, SentIs
<1>3. InHand.id = TIME_SYNC_REQ
  BY <1>1, HandleInHand
<1>4. AnswersTo(InHand) = <<TIME_SYNC, END_DATA>>
  BY <1>3, Asked
<1>5. a \in Seq(Nat) /\ IsWhole(a) /\ a[1] = TIME_SYNC /\ c = a \o b
  <2> HIDE DEF now
  <2>1. QED
    BY <1>2, TimeWhole
<1>6. b \in Seq(Nat) /\ IsWhole(b) /\ b[1] = END_DATA
  BY ByteWhole
<1>7. TIME_SYNC_REQ # ALARM /\ TIME_SYNC_REQ # MAINT_REQ
      /\ TIME_SYNC \notin {CDR_DETAILS_ACK, ALARM_ACK, MAINT_ACK, RATE_RESPONSE}
      /\ END_DATA \notin {CDR_DETAILS_ACK, ALARM_ACK, MAINT_ACK, RATE_RESPONSE}
  BY DEF TIME_SYNC_REQ, ALARM, MAINT_REQ, TIME_SYNC, END_DATA, CDR_DETAILS_ACK, ALARM_ACK, MAINT_ACK,
         RATE_RESPONSE
<1>8. t.id # ALARM /\ t.id # MAINT_REQ /\ AnswersTo(t) = <<a[1], b[1]>>
  <2> HIDE DEF a, b
  <2>1. QED
    BY <1>3, <1>4, <1>5, <1>6, <1>7
<1> HIDE DEF a, b, c, k, t, now
<1>9. AddsFor(setup, t, k, a \o b)
  BY <1>5, <1>6, <1>7, <1>8, TwoAdd
<1>10. Adds(c)
  BY <1>5, <1>9 DEF Adds, t, k
<1>11. TIME_SYNC_REQ \in Understood \ {CALL_DETAILS}
  BY AnsweredTables
<1>12. QED
  BY <1>1, <1>10, <1>11 DEF DoesAdd

\* A table that asks for an update has its reason in its second byte.
LEMMA ReasonInHand ==
  ASSUME ContentsInv, OrderInv, AllKnown, InWalk, InHand.id = ATN_REQ_TAB_UPD
  PROVE  At(at + 1) = InHand.fill
<1> DEFINE t == InHand
           k == Len(handled) + 1
           j == 2
<1>1. SizeOnLine(t.id) = 2
  BY SizesRead
<1>2. t.id # CALL_DETAILS /\ t.id # RATE_REQUEST
  BY DEF ATN_REQ_TAB_UPD, CALL_DETAILS, RATE_REQUEST
<1>3. at \in Nat /\ (at + j) - 1 = at + 1 /\ j \in 1..SizeOnLine(t.id) /\ j # 1
  <2>1. at \in Nat
    BY InWalkFacts DEF InWalk
  <2> HIDE DEF t
  <2>2. QED
    BY <2>1, <1>1
<1>4. \A i \in 1..SizeOnLine(t.id) : At((at + i) - 1) = TableBytes(setup, t, k)[i]
  BY InHandBytes
<1> HIDE DEF t, k, j
<1>5. At((at + j) - 1) = TableBytes(setup, t, k)[j]
  BY <1>3, <1>4
<1>6. TableBytes(setup, t, k)[j] = t.fill
  BY <1>2, <1>3, TableByte
<1>7. QED
  BY <1>3, <1>5, <1>6 DEF t

\* An update is answered, and with the cash box if that is the reason.
LEMMA UpdateAdded ==
  ASSUME ContentsInv, OrderInv, AllKnown, AtnReqTabUpd
  PROVE  DoesAdd
<1> DEFINE k == Len(handled) + 1
           t == InHand
           h == HasFlag(At(at + 1), TTBLREQ_CASHBOX_STATUS)
           b == <<TABLE_UPD>>
<1>1. Handle(ATN_REQ_TAB_UPD, b \o (IF h THEN CashBox ELSE <<>>))
  BY DEF AtnReqTabUpd
<1>2. InHand.id = ATN_REQ_TAB_UPD /\ InWalk
  BY <1>1, HandleInHand
<1>3. h = HasFlag(InHand.fill, TTBLREQ_CASHBOX_STATUS)
  <2>1. At(at + 1) = InHand.fill
    BY <1>2, ReasonInHand
  <2>2. QED
    BY <2>1
<1>4. b \in Seq(Nat) /\ IsWhole(b) /\ b[1] = TABLE_UPD
  BY ByteWhole
<1>5. ATN_REQ_TAB_UPD # ALARM /\ ATN_REQ_TAB_UPD # MAINT_REQ
      /\ TABLE_UPD \notin {CDR_DETAILS_ACK, ALARM_ACK, MAINT_ACK, RATE_RESPONSE}
      /\ CASH_BOX_STATUS \notin {CDR_DETAILS_ACK, ALARM_ACK, MAINT_ACK, RATE_RESPONSE}
  BY DEF ATN_REQ_TAB_UPD, ALARM, MAINT_REQ, TABLE_UPD, CASH_BOX_STATUS, CDR_DETAILS_ACK, ALARM_ACK,
         MAINT_ACK, RATE_RESPONSE
<1>6. ATN_REQ_TAB_UPD \in Understood \ {CALL_DETAILS}
  BY AnsweredTables
<1>7. AnswersTo(InHand) = IF HasFlag(InHand.fill, TTBLREQ_CASHBOX_STATUS) THEN <<TABLE_UPD, CASH_BOX_STATUS>>
                          ELSE <<TABLE_UPD>>
  BY <1>2, Asked
<1>8. CASE h
  <2> DEFINE a == CashBox
             p == TABLE_UPD
             q == CASH_BOX_STATUS
  <2>1. a \in Seq(Nat) /\ IsWhole(a) /\ a[1] = q
    BY CashBoxWhole
  <2>2. AnswersTo(t) = <<p, q>>
    BY <1>3, <1>7, <1>8
  <2>3. t.id # ALARM /\ t.id # MAINT_REQ
    BY <1>2, <1>5
  <2> HIDE DEF h, b, k, t, a
  <2>4. AnswersTo(t) = <<b[1], a[1]>>
    BY <2>1, <2>2, <1>4
  <2>5. AddsFor(setup, t, k, b \o a)
    BY <1>4, <1>5, <2>1, <2>3, <2>4, TwoAdd
  <2>6. Handle(ATN_REQ_TAB_UPD, b \o a)
    BY <1>1, <1>8 DEF a
  <2>7. Adds(b \o a)
    BY <2>5 DEF Adds, t, k
  <2>8. QED
    BY <1>6, <2>6, <2>7 DEF DoesAdd
<1>9. CASE ~h
  <2>1. Adds(b)
    <3>1. AnswersTo(InHand) = <<TABLE_UPD>>
      BY <1>3, <1>7, <1>9
    <3>2. QED
      BY <1>2, <1>5, <3>1, ByteAdds
  <2>2. Handle(ATN_REQ_TAB_UPD, b \o <<>>)
    <3> HIDE DEF h, b
    <3>1. QED
      BY <1>1, <1>9
  <2> HIDE DEF b
  <2>3. b \o <<>> = b
    BY <1>4
  <2>4. QED
    BY <1>6, <2>1, <2>2, <2>3 DEF DoesAdd
<1>10. QED
  BY <1>8, <1>9

\* A card is authorized.
LEMMA AuthAdded ==
  ASSUME ContentsInv, OrderInv, AllKnown, FunfCardAuth
  PROVE  DoesAdd
<1> DEFINE k == Len(handled) + 1
           raw == setup.now.raw
           a == <<AUTH_RESP_CODE, 0>> \o raw \o [i \in 1..12 |-> IF i <= 10 THEN 47 + i ELSE 54 + i]
<1>1. Handle(FUNF_CARD_AUTH, a)
  BY DEF FunfCardAuth
<1>2. raw \in Seq(Byte) /\ Len(raw) = 8
  BY TheSetup DEF ContentsInv, SentIs, IsTime
<1>3. InHand.id = FUNF_CARD_AUTH
  BY <1>1, HandleInHand
<1>4. AnswersTo(InHand) = <<AUTH_RESP_CODE>>
  BY <1>3, Asked
<1>5. a \in Seq(Nat) /\ IsWhole(a) /\ a[1] = AUTH_RESP_CODE
  <2> HIDE DEF raw
  <2>1. QED
    BY <1>2, AuthWhole
<1>6. /\ FUNF_CARD_AUTH # ALARM /\ FUNF_CARD_AUTH # MAINT_REQ
      /\ AUTH_RESP_CODE # CDR_DETAILS_ACK /\ AUTH_RESP_CODE # ALARM_ACK
      /\ AUTH_RESP_CODE # MAINT_ACK /\ AUTH_RESP_CODE # RATE_RESPONSE
  BY DEF FUNF_CARD_AUTH, ALARM, MAINT_REQ, AUTH_RESP_CODE, CDR_DETAILS_ACK, ALARM_ACK, MAINT_ACK, RATE_RESPONSE
<1> HIDE DEF a, k
<1>7. AddsFor(setup, InHand, k, a)
  BY <1>3, <1>4, <1>5, <1>6, SingleAdds
<1>8. FUNF_CARD_AUTH \in Understood \ {CALL_DETAILS}
  BY AnsweredTables
<1>9. QED
  BY <1>1, <1>7, <1>8 DEF DoesAdd, Adds, k

\* A rate request is answered with the charge of the number dialed, in the rating test mode.
LEMMA RateAdded ==
  ASSUME ContentsInv, OrderInv, AllKnown, RateRequest
  PROVE  DoesAdd
<1> DEFINE k == Len(handled) + 1
           f == Field(dlog_mt_rate_request_t, "phone_number")
           p == phone_num_to_string(f, 21)
           charge == initial_charge(p)
           rate == IF setup.rating THEN <<60, charge, 0, 0>> ELSE <<240, 100, 60, 25>>
           a == <<RATE_RESPONSE, 7>> \o LE16s(rate) \o Zeros(2 * 8)
<1>1. Handle(RATE_REQUEST, a)
  BY DEF RateRequest
<1>2. InHand.id = RATE_REQUEST /\ InWalk
  BY <1>1, HandleInHand
<1>3. f = setup.dialed
  BY <1>2, DialedField
<1>4. AnswersTo(InHand) = <<RATE_RESPONSE>>
  BY <1>2, Asked
<1>5. p \in Seq(Digit16)
  <2>1. f \in Seq(Byte)
    BY <1>3, TheSetup DEF ContentsInv, SentIs, IsTerminal
  <2>2. 21 \in Nat \ {0}
    OBVIOUS
  <2> HIDE DEF f
  <2>3. QED
    BY <2>1, <2>2, PhoneType
<1> HIDE DEF p
<1>6. charge \in Checksum
  BY <1>5, ChargeType
<1>7. rate \in Seq(Checksum) /\ Len(rate) = 4 /\ (setup.rating => rate[2] = charge)
  <2>1. \A n \in {60, 0, 240, 100, 25} : n \in Checksum
    BY ChecksumDef
  <2> HIDE DEF charge
  <2>2. <<60, charge, 0, 0>> \in Seq(Checksum) /\ Len(<<60, charge, 0, 0>>) = 4 /\ <<60, charge, 0, 0>>[2] = charge
    BY <2>1, <1>6
  <2>3. <<240, 100, 60, 25>> \in Seq(Checksum) /\ Len(<<240, 100, 60, 25>>) = 4
    BY <2>1
  <2>4. QED
    BY <2>2, <2>3
<1> HIDE DEF rate
<1>8. a \in Seq(Nat) /\ IsWhole(a) /\ a[1] = RATE_RESPONSE
      /\ a[5] = rate[2] % 256 /\ a[6] = rate[2] \div 256
  <2>1. IsRate(a, rate)
    BY <1>7, RateWhole
  <2> HIDE DEF a
  <2>2. QED
    BY <2>1 DEF IsRate
<1> HIDE DEF a
<1>9. ChargesDialed(setup, a)
  <2> DEFINE d == phone_num_to_string(setup.dialed, 21)
  <2>1. d = p
    BY <1>3 DEF p
  <2>2. ASSUME setup.rating, Len(p) = 10
        PROVE  Word(a[5], a[6]) = p[7] * 1000 + p[8] * 100 + p[9] * 10 + p[10]
    <3>1. /\ charge = p[7] * 1000 + p[8] * 100 + p[9] * 10 + p[10]
          /\ Word(charge % 256, charge \div 256) = charge
      BY <1>5, <2>2, ChargeOfDigits
    <3>2. a[5] = charge % 256 /\ a[6] = charge \div 256
      BY <1>7, <1>8, <2>2
    <3> HIDE DEF charge
    <3>3. QED
      BY <3>1, <3>2
  <2> HIDE DEF d
  <2>3. setup.rating /\ Len(d) = 10 => Word(a[5], a[6]) = d[7] * 1000 + d[8] * 100 + d[9] * 10 + d[10]
    BY <2>1, <2>2
  <2>4. QED
    BY <2>3 DEF ChargesDialed, d
<1>10. /\ RATE_REQUEST # ALARM /\ RATE_REQUEST # MAINT_REQ
       /\ RATE_RESPONSE # CDR_DETAILS_ACK /\ RATE_RESPONSE # ALARM_ACK /\ RATE_RESPONSE # MAINT_ACK
  BY DEF RATE_REQUEST, ALARM, MAINT_REQ, RATE_RESPONSE, CDR_DETAILS_ACK, ALARM_ACK, MAINT_ACK
<1> HIDE DEF k
<1>11. AddsFor(setup, InHand, k, a)
  BY <1>2, <1>4, <1>8, <1>9, <1>10, SingleAdds
<1>12. RATE_REQUEST \in Understood \ {CALL_DETAILS}
  BY AnsweredTables
<1>13. QED
  BY <1>1, <1>11, <1>12 DEF DoesAdd, Adds, k

\* So every one of these cases appends the answers to the table in hand.
LEMMA OrdinaryAdds ==
  ASSUME ContentsInv, OrderInv, AllKnown, Ordinary
  PROVE  DoesAdd
BY BytesAdded, NothingAdded, AcksAdded, TimeAdded, UpdateAdded, AuthAdded, RateAdded DEF Ordinary

\* What waits for the end of an upload are acknowledgements of call records, and nothing waits
\* when there is no upload.
QueueInv ==
    /\ \E w : Waits(cdr_ack_buffer, w)
    /\ ~trans_data_in_progress => cdr_ack_buffer = <<>>

\* The acknowledgements that wait when a call begins.
LEMMA QueueOfSetup ==
  ASSUME NEW q \in Seq(Byte), IsQueue(q)
  PROVE  \E w : Waits(q, w)
<1> DEFINE b == Len(q) \div 3
           zero == 0
           three == 3
           P(m) == SubSeq(q, 1, 3 * m)
           S == {m \in 0..b : \E w : Waits(P(m), w)}
<1>1. Len(q) \in Nat
  BY LenProperties
<1>2. b \in Nat /\ 3 * b = Len(q)
  <2>1. Len(q) % 3 = 0
    BY DEF IsQueue
  <2>2. QED
    BY <1>1, <2>1
<1>3. P(b) = q
  <2>1. P(b) = SubSeq(q, 1, Len(q))
    BY <1>2
  <2> DEFINE l == Len(q)
             c == SubSeq(q, zero + 1, zero + l)
  <2>2. l \in Nat /\ zero \in Nat /\ zero + l <= Len(q) /\ zero + 1 = 1 /\ zero + l = l
    BY <1>1
  <2> HIDE DEF zero, l
  <2>3. c \in Seq(Byte) /\ Len(c) = l /\ Piece(c, q, zero, l)
    BY <2>2, Cut DEF l
  <2>4. \A i \in 1..l : c[i] = q[i]
    <3>1. \A i \in 1..l : zero + i = i
      BY <2>2 DEF zero
    <3>2. QED
      BY <2>3, <3>1 DEF Piece
  <2> HIDE DEF c
  <2>5. c = q
    BY <2>3, <2>4, SeqEqual DEF l
  <2>6. c = SubSeq(q, 1, l)
    BY <2>2 DEF c
  <2>7. QED
    BY <2>1, <2>5, <2>6 DEF l
<1>4. 0 \in S
  <2>1. P(0) = <<>>
    BY DEF P
  <2>2. 0 \in 0..b
    BY <1>2
  <2> HIDE DEF P
  <2>3. Waits(P(0), <<>>)
    BY <2>1, WaitsNone
  <2>4. QED
    BY <2>2, <2>3
<1>5. ASSUME NEW m \in 0..b - 1, m \in S PROVE m + 1 \in S
  <2> DEFINE a == 3 * m
             c == SubSeq(q, a + 1, a + three)
  <2>1. a \in Nat /\ three \in Nat /\ a + three <= Len(q) /\ m + 1 \in 0..b /\ 3 * (m + 1) = a + three
        /\ three = 3
    BY <1>2
  <2>2. a + 1 \in 1..Len(q) /\ (a + 1) % 3 = 1
    <3>1. a + 1 \in 1..Len(q)
      BY <2>1, <1>1
    <3>2. (a + 1) % 3 = 1
      BY <1>2
    <3>3. QED
      BY <3>1, <3>2
  <2>3. q[a + 1] = CDR_DETAILS_ACK
    BY <2>2 DEF IsQueue
  <2> HIDE DEF a, three
  <2>4. c \in Seq(Byte) /\ Len(c) = three /\ Piece(c, q, a, three)
    BY <2>1, Cut
  <2>5. SubSeq(q, 1, a) \o c = SubSeq(q, 1, a + three)
    BY <2>1, SubSeqJoins
  <2> HIDE DEF c
  <2>6. c[1] = CDR_DETAILS_ACK
    <3>1. 1 \in 1..three
      BY <2>1
    <3>2. QED
      BY <3>1, <2>3, <2>4 DEF Piece
  <2>7. Waits(c, <<c>>)
    <3>1. c \in Seq(Nat)
      BY <2>4, BytesNat
    <3>2. Len(c) = 3
      BY <2>1, <2>4
    <3>3. QED
      BY <3>1, <3>2, <2>6, WaitsOne
  <2>8. P(m) = SubSeq(q, 1, a) /\ P(m + 1) = SubSeq(q, 1, a + three)
    BY <2>1 DEF a
  <2>9. PICK w : Waits(P(m), w)
    BY <1>5
  <2> HIDE DEF P
  <2>10. Waits(P(m) \o c, w \o <<c>>)
    BY <2>7, <2>9, WaitsJoin
  <2>11. P(m) \o c = P(m + 1)
    BY <2>5, <2>8
  <2>12. \E v : Waits(P(m + 1), v)
    BY <2>10, <2>11
  <2>13. QED
    BY <2>1, <2>12
<1>6. b \in S
  <2> HIDE DEF S, b
  <2>1. \A m \in 0..b : m \in S
    BY <1>2, <1>4, <1>5, UpTo
  <2>2. b \in 0..b
    BY <1>2
  <2>3. QED
    BY <2>1, <2>2
<1> HIDE DEF P, b
<1>7. \E w : Waits(P(b), w)
  BY <1>6
<1>8. QED
  BY <1>3, <1>7

\* It is so in the beginning.
LEMMA QueueBegins == Init => QueueInv
<1> SUFFICES ASSUME Init PROVE QueueInv
  OBVIOUS
<1>1. setup \in Setups /\ cdr_ack_buffer = setup.queue /\ trans_data_in_progress = (setup.queue # <<>>)
  BY DEF Init
<1>2. setup.queue \in Seq(Byte) /\ IsQueue(setup.queue)
  BY <1>1, SetupsAssumption
<1>3. \E w : Waits(cdr_ack_buffer, w)
  BY <1>1, <1>2, QueueOfSetup
<1>4. QED
  BY <1>1, <1>3 DEF QueueInv

\* The acknowledgement of a call record, whatever the bytes at ppayload are.
LEMMA AckOfRecord ==
  ASSUME ContentsInv, pc = "process"
  PROVE  LET a == <<CDR_DETAILS_ACK>> \o Field(dlog_mt_call_details_t, "seq")
         IN  a \in Seq(Nat) /\ Len(a) = 3 /\ a[1] = CDR_DETAILS_ACK
<1> DEFINE s == dlog_mt_call_details_t
           f == Field(s, "seq")
           x == CDR_DETAILS_ACK
<1>1. IsTable(s) /\ Width(s, "seq") = 2
  BY Layouts, TheFields
<1>2. \E k \in 1..Len(s) : s[k][1] = "seq"
  <2>1. Len(s) = 14 /\ s[7][1] = "seq"
    BY DEF dlog_mt_call_details_t
  <2>2. 7 \in 1..Len(s)
    BY <2>1
  <2>3. QED
    BY <2>1, <2>2
<1> HIDE DEF s
<1>3. f \in Seq(Byte)
  BY <1>1, <1>2, InWalkFacts, FieldType
<1>4. f \in Seq(Nat)
  <2> HIDE DEF f
  <2>1. QED
    BY <1>3, BytesNat
<1>5. Len(f) = 2
  <2> DEFINE o == Offset(s, "seq")
             w == Width(s, "seq")
             A(i) == At(at + o + i - 1)
  <2>1. f = [i \in 1..w |-> A(i)] /\ w = 2
    BY <1>1 DEF Field
  <2> HIDE DEF w, A
  <2>2. QED
    BY <2>1
<1>6. x \in Nat
  BY DEF CDR_DETAILS_ACK
<1> HIDE DEF f, x
<1>7. <<x>> \o f \in Seq(Nat) /\ Len(<<x>> \o f) = 1 + Len(f) /\ (<<x>> \o f)[1] = x
  BY <1>4, <1>6, Behind
<1>8. Len(<<x>> \o f) = 3
  BY <1>5, <1>7
<1>9. QED
  BY <1>7, <1>8 DEF x, f, s

\* What waits when one acknowledgement more is put there: it waits too, if there is room.
LEMMA QueueGrows ==
  ASSUME NEW ack \in Seq(Nat), Len(ack) = 3, ack[1] = CDR_DETAILS_ACK, NEW w, Waits(cdr_ack_buffer, w)
  PROVE  LET v == IF Len(cdr_ack_buffer) + Len(ack) > PKT_TABLE_DATA_LEN_MAX THEN w ELSE w \o <<ack>>
         IN  Waits(append_to_cdr_ack_buffer(ack), v)
<1> DEFINE full == Len(cdr_ack_buffer) + Len(ack) > PKT_TABLE_DATA_LEN_MAX
           one == <<ack>>
<1>1. Waits(ack, one)
  BY WaitsOne
<1> HIDE DEF one
<1>2. Waits(cdr_ack_buffer \o ack, w \o one)
  BY <1>1, WaitsJoin
<1>3. append_to_cdr_ack_buffer(ack) = IF full THEN cdr_ack_buffer ELSE cdr_ack_buffer \o ack
  BY DEF append_to_cdr_ack_buffer
<1> HIDE DEF full
<1>4. Waits(append_to_cdr_ack_buffer(ack), IF full THEN w ELSE w \o one)
  BY <1>2, <1>3
<1>5. QED
  BY <1>4 DEF full, one

\* No step breaks it.
LEMMA QueueKept == ContentsInv /\ QueueInv /\ [Next]_vars => QueueInv'
<1> SUFFICES ASSUME ContentsInv, QueueInv, [Next]_vars PROVE QueueInv'
  OBVIOUS
<1>1. CASE CallDetails
  <2> DEFINE ack == <<CDR_DETAILS_ACK>> \o Field(dlog_mt_call_details_t, "seq")
             answer == IF trans_data_in_progress THEN <<>> ELSE ack
  <2>1. /\ Handle(CALL_DETAILS, answer)
        /\ cdr_ack_buffer' = IF trans_data_in_progress THEN append_to_cdr_ack_buffer(ack) ELSE cdr_ack_buffer
        /\ trans_data_in_progress' = trans_data_in_progress
    BY <1>1 DEF CallDetails
  <2> HIDE DEF answer
  <2>2. pc = "process"
    BY <2>1, HandledPc
  <2>3. ack \in Seq(Nat) /\ Len(ack) = 3 /\ ack[1] = CDR_DETAILS_ACK
    BY <2>2, AckOfRecord
  <2> HIDE DEF ack
  <2>4. PICK w : Waits(cdr_ack_buffer, w)
    BY DEF QueueInv
  <2>5. \E v : Waits(append_to_cdr_ack_buffer(ack), v)
    BY <2>3, <2>4, QueueGrows
  <2>6. QED
    BY <2>1, <2>5 DEF QueueInv
<1>2. CASE EndData
  <2>1. cdr_ack_buffer' = <<>>
    BY <1>2 DEF EndData
  <2>2. QED
    BY <2>1, WaitsNone DEF QueueInv
<1>3. CASE BeginUpload
  <2>1. cdr_ack_buffer' = cdr_ack_buffer /\ trans_data_in_progress' = TRUE
    BY <1>3 DEF BeginUpload
  <2>2. QED
    BY <2>1 DEF QueueInv
<1>4. ASSUME UNCHANGED <<cdr_ack_buffer, trans_data_in_progress>> PROVE QueueInv'
  BY <1>4 DEF QueueInv
<1>5. CASE Receive \/ Take \/ Reply \/ Download \/ EndDownload \/ Unhandled \/ UNCHANGED vars
  <2>1. UNCHANGED contextVars
    BY <1>5 DEF Receive, Take, Reply, Download, EndDownload, Unhandled, Kept, vars
  <2>2. QED
    BY <2>1, <1>4 DEF contextVars
<1>6. CASE TimeSyncReq \/ AtnReqTabUpd \/ Alarm \/ MaintReq \/ CashBoxCollection \/ Report
  <2>1. UNCHANGED contextVars
    BY <1>6 DEF TimeSyncReq, AtnReqTabUpd, Alarm, MaintReq, CashBoxCollection, Report, Kept
  <2>2. QED
    BY <2>1, <1>4 DEF contextVars
<1>7. CASE RateRequest \/ FunfCardAuth \/ TableUpdAck
  <2>1. UNCHANGED contextVars
    BY <1>7 DEF RateRequest, FunfCardAuth, TableUpdAck, Kept
  <2>2. QED
    BY <2>1, <1>4 DEF contextVars
<1>8. CASE SwVersion
  BY <1>8, <1>4 DEF SwVersion
<1>9. QED
  BY <1>1, <1>2, <1>3, <1>5, <1>6, <1>7, <1>8 DEF Next

\* The reply so far, read as answers to the first tables of the packet.
HasReplied(s, tables, j, reply, queue, old, answers, waiting, before) ==
    /\ Answered(reply, answers) /\ Waits(queue, waiting) /\ Waits(old, before)
    /\ Answering(tables, j, answers, waiting, before)
    /\ Charges(s, Of(answers, RATE_RESPONSE))

ReplyInv ==
    pc = "process" /\ AllKnown =>
        \E answers, waiting, before :
            HasReplied(setup, PackedTables, Len(handled), out, cdr_ack_buffer, queued,
                       answers, waiting, before)

\* What was waiting, with what is due, is answered or waits on.
Moves(new, waiting, more, due) ==
    3 * (Len(waiting) + Len(due)) <= PKT_TABLE_DATA_LEN_MAX =>
        Of(new, CDR_DETAILS_ACK) \o more = waiting \o due

\* The charges of answers joined.
LEMMA ChargesJoin ==
  ASSUME NEW s, NEW a \in Seq(Seq(Nat)), NEW b \in Seq(Seq(Nat)), Charges(s, a), Charges(s, b)
  PROVE  Charges(s, a \o b)
<1> DEFINE T == Seq(Nat)
           c == a \o b
           m == Len(a)
           n == Len(b)
<1> HIDE DEF T
<1>1. a \in Seq(T) /\ b \in Seq(T)
  BY DEF T
<1>2. c \in Seq(T) /\ Len(c) = m + n /\ Joins(c, a, m, b, n) /\ m \in Nat /\ n \in Nat
  BY <1>1, Joined, LenProperties
<1> HIDE DEF c
<1>3. ASSUME NEW i \in 1..Len(c) PROVE ChargesDialed(s, c[i])
  <2>1. CASE i <= m
    <3>1. i \in 1..m
      BY <2>1, <1>2
    <3>2. c[i] = a[i] /\ ChargesDialed(s, a[i])
      BY <3>1, <1>2 DEF Joins, Charges
    <3>3. QED
      BY <3>2
  <2>2. CASE ~(i <= m)
    <3> DEFINE k == i - m
    <3>1. k \in 1..n /\ m + k = i
      BY <2>2, <1>2
    <3> HIDE DEF k
    <3>2. c[m + k] = b[k] /\ ChargesDialed(s, b[k])
      BY <3>1, <1>2 DEF Joins, Charges
    <3>3. QED
      BY <3>1, <3>2
  <2>3. QED
    BY <2>1, <2>2
<1>4. QED
  BY <1>3 DEF Charges, c

\* A table handled is a table answered.
LEMMA ReplyGrows ==
  ASSUME ContentsInv, OrderInv, AllKnown, NEW id, NEW bytes, Handle(id, bytes),
         NEW answers, NEW waiting, NEW before,
         HasReplied(setup, PackedTables, Len(handled), out, cdr_ack_buffer, queued, answers, waiting, before),
         NEW new, NEW more, Answered(bytes, new), NewFor(InHand, Len(handled) + 1, new),
         Charges(setup, Of(new, RATE_RESPONSE)), Waits(cdr_ack_buffer', more),
         Moves(new, waiting, more, DueFor(InHand, CALL_DETAILS, Len(handled) + 1))
  PROVE  ReplyInv'
<1> DEFINE tables == PackedTables
           n == Len(tables)
           j == Len(handled)
           t == tables[j + 1]
<1>1. /\ InWalk /\ out' = out \o bytes /\ handled' = Append(handled, <<id, at>>) /\ queued' = queued
      /\ UNCHANGED <<setup, sent, got, taken>>
  BY DEF Handle, framingVars, lineVars
<1>2. PackedTables' = tables
  BY <1>1, TablesKept
<1>3. n \in Nat /\ j \in 0..n - 1 /\ \A k \in 1..n : tables[k].fill \in Nat
  BY <1>1, InHandBytes
<1>4. Len(handled') = j + 1
  <2>1. handled \in Seq(Nat \X Nat)
    BY <1>1 DEF OrderInv, InOrder, InWalk
  <2>2. QED
    BY <1>1, <2>1
<1>5. /\ Answered(out, answers) /\ Waits(cdr_ack_buffer, waiting) /\ Waits(queued, before)
      /\ Answering(tables, j, answers, waiting, before) /\ Charges(setup, Of(answers, RATE_RESPONSE))
  BY DEF HasReplied
<1>6. waiting \in Seq(Seq(Nat)) /\ more \in Seq(Seq(Nat)) /\ before \in Seq(Seq(Nat))
  BY <1>5, WaitsLength
<1>7. NewFor(t, j + 1, new) /\ Moves(new, waiting, more, DueFor(t, CALL_DETAILS, j + 1))
  BY DEF InHand
<1> HIDE DEF tables, n, j, t
<1>8. RoomFor(tables, j + 1, before) /\ 3 * (Len(waiting) + Len(DueFor(t, CALL_DETAILS, j + 1))) <= 245 =>
          Of(new, CDR_DETAILS_ACK) \o more = waiting \o DueFor(t, CALL_DETAILS, j + 1)
  BY <1>7 DEF Moves, PKT_TABLE_DATA_LEN_MAX
<1>9. Answered(out \o bytes, answers \o new) /\ Answering(tables, j + 1, answers \o new, more, before)
  BY <1>3, <1>5, <1>6, <1>7, <1>8, AnswerOneMore DEF t
<1>10. Charges(setup, Of(answers \o new, RATE_RESPONSE))
  <2>1. OfJoins(answers, new, RATE_RESPONSE)
    BY <1>5, AnsweredJoin
  <2>2. Of(answers, RATE_RESPONSE) \in Seq(Seq(Nat)) /\ Of(new, RATE_RESPONSE) \in Seq(Seq(Nat))
    BY <1>5 DEF Answered
  <2>3. Charges(setup, Of(answers, RATE_RESPONSE) \o Of(new, RATE_RESPONSE))
    BY <2>2, <1>5, ChargesJoin
  <2>4. QED
    BY <2>1, <2>3 DEF OfJoins
<1>11. HasReplied(setup, tables, j + 1, out \o bytes, cdr_ack_buffer', queued, answers \o new, more, before)
  BY <1>5, <1>9, <1>10 DEF HasReplied
<1>12. HasReplied(setup', PackedTables', Len(handled'), out', cdr_ack_buffer', queued', answers \o new, more, before)
  BY <1>1, <1>2, <1>4, <1>11
<1>13. QED
  BY <1>12 DEF ReplyInv

\* The cases that do not touch what waits.
LEMMA OrdinaryReplies ==
  ASSUME ContentsInv, OrderInv, ReplyInv, AllKnown, Ordinary
  PROVE  ReplyInv'
<1> DEFINE t == InHand
           k == Len(handled) + 1
<1>0. PICK id \in Understood \ {CALL_DETAILS} : \E bytes : Handle(id, bytes) /\ Adds(bytes)
  BY OrdinaryAdds DEF DoesAdd
<1>1. PICK bytes : Handle(id, bytes) /\ Adds(bytes)
  BY <1>0
<1>2. InWalk /\ InHand.id = id
  BY <1>1, HandleInHand
<1>3. PICK answers, waiting, before :
        HasReplied(setup, PackedTables, Len(handled), out, cdr_ack_buffer, queued, answers, waiting, before)
  BY <1>2 DEF ReplyInv, InWalk
<1>4. PICK new : /\ Answered(bytes, new) /\ NewFor(t, k, new)
                 /\ Of(new, CDR_DETAILS_ACK) = <<>> /\ Charges(setup, Of(new, RATE_RESPONSE))
  BY <1>1 DEF Adds, AddsFor
<1>5. cdr_ack_buffer' = cdr_ack_buffer
  <2>1. UNCHANGED contextVars => cdr_ack_buffer' = cdr_ack_buffer
    BY DEF contextVars
  <2>2. CASE TimeSyncReq \/ AtnReqTabUpd \/ Alarm \/ MaintReq \/ CashBoxCollection \/ Report
    BY <2>1, <2>2 DEF TimeSyncReq, AtnReqTabUpd, Alarm, MaintReq, CashBoxCollection, Report, Kept
  <2>3. CASE RateRequest \/ FunfCardAuth \/ TableUpdAck
    BY <2>1, <2>3 DEF RateRequest, FunfCardAuth, TableUpdAck, Kept
  <2>4. CASE SwVersion \/ BeginUpload
    BY <2>4 DEF SwVersion, BeginUpload
  <2>5. QED
    BY <2>2, <2>3, <2>4 DEF Ordinary
<1>6. Waits(cdr_ack_buffer, waiting)
  BY <1>3 DEF HasReplied
<1>7. Waits(cdr_ack_buffer', waiting) /\ waiting \in Seq(Seq(Nat))
  BY <1>5, <1>6, WaitsLength
<1>8. DueFor(t, CALL_DETAILS, k) = <<>>
  BY <1>2 DEF DueFor
<1>9. <<>> \o waiting = waiting \o <<>>
  BY <1>7
<1>10. Moves(new, waiting, waiting, DueFor(t, CALL_DETAILS, k))
  BY <1>4, <1>8, <1>9 DEF Moves
<1>11. QED
  BY <1>1, <1>3, <1>4, <1>7, <1>10, ReplyGrows

\* A call record is acknowledged, at once or at the end of the upload.
LEMMA RecordReplies ==
  ASSUME ContentsInv, OrderInv, QueueInv, ReplyInv, AllKnown, CallDetails
  PROVE  ReplyInv'
<1> DEFINE t == InHand
           k == Len(handled) + 1
           ack == <<CDR_DETAILS_ACK>> \o Field(dlog_mt_call_details_t, "seq")
           bytes == IF trans_data_in_progress THEN <<>> ELSE ack
           due == DueFor(t, CALL_DETAILS, k)
           one == <<ack>>
           none == <<>>
<1>1. /\ Handle(CALL_DETAILS, bytes)
      /\ cdr_ack_buffer' = IF trans_data_in_progress THEN append_to_cdr_ack_buffer(ack) ELSE cdr_ack_buffer
  BY DEF CallDetails
<1> HIDE DEF bytes
<1>2. InWalk /\ InHand.id = CALL_DETAILS
  BY <1>1, HandleInHand
<1>3. PICK answers, waiting, before :
        HasReplied(setup, PackedTables, Len(handled), out, cdr_ack_buffer, queued, answers, waiting, before)
  BY <1>2 DEF ReplyInv, InWalk
<1>4. Waits(cdr_ack_buffer, waiting)
  BY <1>3 DEF HasReplied
<1>5. ack \in Seq(Nat) /\ Len(ack) = 3 /\ ack[1] = CDR_DETAILS_ACK /\ ack = Ack(t, k)
  BY <1>2, RecordAck
<1> HIDE DEF ack
<1>6. due = one
  BY <1>2, <1>5 DEF DueFor
<1>7. AnswersTo(t) = none
  BY <1>2, Asked
<1>8. t.id # ALARM /\ t.id # MAINT_REQ
  BY <1>2 DEF CALL_DETAILS, ALARM, MAINT_REQ
<1>9. ASSUME NEW new, Kinds(new) = <<>>, Of(new, ALARM_ACK) = <<>>, Of(new, MAINT_ACK) = <<>>,
             Of(new, RATE_RESPONSE) = <<>>
      PROVE  NewFor(t, k, new) /\ Charges(setup, Of(new, RATE_RESPONSE))
  BY <1>7, <1>8, <1>9, NoCharge DEF NewFor, DueFor
<1>10. /\ Len(cdr_ack_buffer) = 3 * Len(waiting) /\ Len(waiting) \in Nat /\ waiting \in Seq(Seq(Nat))
  BY <1>4, WaitsLength
<1>11. CDR_DETAILS_ACK # ALARM_ACK /\ CDR_DETAILS_ACK # MAINT_ACK /\ CDR_DETAILS_ACK # RATE_RESPONSE
  BY DEF CDR_DETAILS_ACK, ALARM_ACK, MAINT_ACK, RATE_RESPONSE
<1> HIDE DEF t, k, due, one, none
<1>12. CASE trans_data_in_progress
  <2> DEFINE full == Len(cdr_ack_buffer) + Len(ack) > PKT_TABLE_DATA_LEN_MAX
             more == IF full THEN waiting ELSE waiting \o one
  <2>1. Waits(append_to_cdr_ack_buffer(ack), more)
    BY <1>4, <1>5, QueueGrows DEF one
  <2>2. Waits(cdr_ack_buffer', more) /\ bytes = none
    BY <2>1, <1>1, <1>12 DEF bytes, none
  <2>3. Answered(none, none) /\ Kinds(none) = <<>> /\ \A id : Of(none, id) = <<>>
    BY AnsweredNone DEF none
  <2>4. NewFor(t, k, none) /\ Charges(setup, Of(none, RATE_RESPONSE))
    BY <2>3, <1>9
  <2>5. Moves(none, waiting, more, due)
    <3>1. SUFFICES ASSUME 3 * (Len(waiting) + Len(due)) <= PKT_TABLE_DATA_LEN_MAX
                   PROVE  Of(none, CDR_DETAILS_ACK) \o more = waiting \o due
      BY DEF Moves
    <3>2. Len(due) = 1
      BY <1>6 DEF one
    <3>3. ~full
      BY <3>1, <3>2, <1>5, <1>10 DEF PKT_TABLE_DATA_LEN_MAX
    <3> HIDE DEF full
    <3>4. more = waiting \o one
      BY <3>3
    <3>5. waiting \o one \in Seq(Seq(Nat))
      <4>1. one \in Seq(Seq(Nat))
        BY <1>5 DEF one
      <4>2. QED
        BY <4>1, <1>10
    <3> DEFINE y == waiting \o one
    <3> HIDE DEF y, more
    <3>6. <<>> \o y = y
      BY <3>5 DEF y
    <3>7. QED
      BY <3>4, <3>6, <2>3, <1>6 DEF y
  <2> HIDE DEF more
  <2>6. Answered(bytes, none)
    BY <2>2, <2>3
  <2>7. QED
    BY <1>1, <1>3, <2>2, <2>4, <2>5, <2>6, ReplyGrows DEF t, k, due
<1>13. CASE ~trans_data_in_progress
  <2>1. cdr_ack_buffer' = cdr_ack_buffer /\ bytes = ack /\ cdr_ack_buffer = <<>>
    BY <1>1, <1>13 DEF bytes, QueueInv
  <2>2. waiting = none
    BY <2>1, <1>4, WaitsNot DEF none
  <2>3. /\ Answered(ack, one) /\ Kinds(one) = <<>>
        /\ \A id : Of(one, id) = IF CDR_DETAILS_ACK = id THEN one ELSE <<>>
    <3>1. IsWhole(ack)
      BY <1>5, AnswerSizes DEF IsWhole
    <3>2. QED
      BY <3>1, <1>5, OneAnswer DEF one
  <2>4. NewFor(t, k, one) /\ Charges(setup, Of(one, RATE_RESPONSE))
    BY <2>3, <1>9, <1>11
  <2>5. Moves(one, waiting, none, due)
    <3>1. one \in Seq(Seq(Nat))
      BY <1>5 DEF one
    <3>2. one \o <<>> = <<>> \o one
      BY <3>1
    <3>3. Of(one, CDR_DETAILS_ACK) = one
      BY <2>3
    <3>4. QED
      BY <3>2, <3>3, <2>2, <1>6 DEF Moves, none
  <2>6. Waits(cdr_ack_buffer', none) /\ Answered(bytes, one)
    BY <2>1, <2>3, WaitsNone DEF none
  <2>7. QED
    BY <1>1, <1>3, <2>4, <2>5, <2>6, ReplyGrows DEF t, k, due
<1>14. QED
  BY <1>12, <1>13

\* At the end of an upload, all that wait are acknowledged.
LEMMA EndDataReplies ==
  ASSUME ContentsInv, OrderInv, ReplyInv, AllKnown, EndData
  PROVE  ReplyInv'
<1> DEFINE t == InHand
           k == Len(handled) + 1
           bytes == <<END_DATA>> \o cdr_ack_buffer
           due == DueFor(t, CALL_DETAILS, k)
           end == <<END_DATA>>
           one == <<end>>
           none == <<>>
<1>1. Handle(END_DATA, bytes) /\ cdr_ack_buffer' = none
  BY DEF EndData
<1>2. InWalk /\ InHand.id = END_DATA
  BY <1>1, HandleInHand
<1>3. PICK answers, waiting, before :
        HasReplied(setup, PackedTables, Len(handled), out, cdr_ack_buffer, queued, answers, waiting, before)
  BY <1>2 DEF ReplyInv, InWalk
<1>4. Waits(cdr_ack_buffer, waiting)
  BY <1>3 DEF HasReplied
<1>5. AnswersTo(t) = end
  BY <1>2, Asked
<1>6. t.id # ALARM /\ t.id # MAINT_REQ /\ t.id # CALL_DETAILS
  BY <1>2 DEF END_DATA, CALL_DETAILS, ALARM, MAINT_REQ
<1>7. /\ DueFor(t, ALARM, k) = none /\ DueFor(t, MAINT_REQ, k) = none /\ due = none
  BY <1>6 DEF DueFor
<1>8. END_DATA \notin {CDR_DETAILS_ACK, ALARM_ACK, MAINT_ACK, RATE_RESPONSE}
  BY DEF END_DATA, CDR_DETAILS_ACK, ALARM_ACK, MAINT_ACK, RATE_RESPONSE
<1>9. CDR_DETAILS_ACK \notin {ALARM_ACK, MAINT_ACK, RATE_RESPONSE}
  BY DEF CDR_DETAILS_ACK, ALARM_ACK, MAINT_ACK, RATE_RESPONSE
<1>10. end \in Seq(Nat) /\ IsWhole(end) /\ end[1] = END_DATA
  BY ByteWhole
<1>11. waiting \in Seq(Seq(Nat)) /\ Waits(none, none)
  BY <1>4, WaitsLength, WaitsNone
<1>12. bytes = end \o cdr_ack_buffer
  OBVIOUS
<1> HIDE DEF t, k, bytes, due, end
<1>13. Answered(end, one) /\ Kinds(one) = end /\ \A id : Of(one, id) = IF END_DATA = id THEN one ELSE <<>>
  <2>1. /\ Answered(end, <<end>>)
        /\ Kinds(<<end>>) = IF end[1] = CDR_DETAILS_ACK THEN <<>> ELSE <<end[1]>>
        /\ \A id : Of(<<end>>, id) = IF end[1] = id THEN <<end>> ELSE <<>>
    BY <1>10, OneAnswer
  <2>2. end = <<END_DATA>>
    BY DEF end
  <2>3. QED
    BY <2>1, <2>2, <1>8, <1>10
<1> DEFINE new == one \o waiting
<1>14. Answered(bytes, new) /\ KindsJoins(one, waiting) /\ \A id : OfJoins(one, waiting, id)
  <2>1. Answered(cdr_ack_buffer, waiting)
    BY <1>4 DEF Waits
  <2> HIDE DEF one
  <2>2. QED
    BY <2>1, <1>12, <1>13, AnsweredJoin
<1>15. Kinds(waiting) = <<>> /\ Of(waiting, CDR_DETAILS_ACK) = waiting
       /\ \A id : id # CDR_DETAILS_ACK => Of(waiting, id) = <<>>
  BY <1>4 DEF Waits
<1>16. Kinds(new) = AnswersTo(t)
  <2>1. end \o <<>> = end
    BY <1>10
  <2>2. Kinds(new) = Kinds(one) \o Kinds(waiting)
    BY <1>14 DEF KindsJoins
  <2> HIDE DEF new, one
  <2>3. QED
    BY <2>1, <2>2, <1>5, <1>13, <1>15
<1>17. Of(new, CDR_DETAILS_ACK) = waiting
  <2>1. Of(new, CDR_DETAILS_ACK) = Of(one, CDR_DETAILS_ACK) \o Of(waiting, CDR_DETAILS_ACK)
    BY <1>14 DEF OfJoins
  <2>2. Of(one, CDR_DETAILS_ACK) = <<>>
    BY <1>8, <1>13
  <2>3. <<>> \o waiting = waiting
    BY <1>11
  <2> HIDE DEF new, one
  <2>4. QED
    BY <2>1, <2>2, <2>3, <1>15
<1>18. \A id \in {ALARM_ACK, MAINT_ACK, RATE_RESPONSE} : Of(new, id) = none
  <2> SUFFICES ASSUME NEW id \in {ALARM_ACK, MAINT_ACK, RATE_RESPONSE} PROVE Of(new, id) = none
    OBVIOUS
  <2>1. Of(new, id) = Of(one, id) \o Of(waiting, id)
    BY <1>14 DEF OfJoins
  <2>2. Of(one, id) = <<>>
    BY <1>8, <1>13
  <2>3. Of(waiting, id) = <<>>
    BY <1>9, <1>15
  <2>4. <<>> \o <<>> = <<>>
    OBVIOUS
  <2> HIDE DEF new, one
  <2>5. QED
    BY <2>1, <2>2, <2>3, <2>4
<1>19. waiting \o none = waiting
  BY <1>11
<1> HIDE DEF new, one, none
<1>20. NewFor(t, k, new) /\ Charges(setup, Of(new, RATE_RESPONSE))
  BY <1>7, <1>16, <1>18, NoCharge DEF NewFor, none
<1>21. Moves(new, waiting, none, due)
  BY <1>7, <1>17, <1>19 DEF Moves
<1>22. Waits(cdr_ack_buffer', none)
  BY <1>1, <1>11
<1>23. QED
  BY <1>1, <1>3, <1>14, <1>20, <1>21, <1>22, ReplyGrows DEF t, k, due

\* The reply to a packet begins with nothing, and what waits is what waited when it came.
LEMMA TakeReplies ==
  ASSUME ContentsInv, IntactIsSent, QueueInv, Take
  PROVE  ReplyInv'
<1> SUFFICES ASSUME pc' = "process"
             PROVE  \E answers, waiting, before :
                        HasReplied(setup', PackedTables', 0, <<>>, cdr_ack_buffer, cdr_ack_buffer,
                                   answers, waiting, before)
  <2>1. pc = "receive" /\ cdr_ack_buffer' = cdr_ack_buffer
    BY DEF Take, contextVars
  <2>2. pc' = "process" => handled' = <<>> /\ out' = <<>> /\ queued' = cdr_ack_buffer
    BY <2>1 DEF Take
  <2>3. Len(<<>>) = 0
    OBVIOUS
  <2>4. QED
    BY <2>1, <2>2, <2>3 DEF ReplyInv
<1> DEFINE tables == PackedTables'
           n == Len(tables)
           none == <<>>
<1>1. ContentsInv'
  BY TakeKeeps
<1>2. tables \in LineTables
  <2> DEFINE i == CHOOSE k \in 1..Len(sent') : sent'[k].payload = Current'.payload
  <2>1. SentIs' /\ \E k \in 1..Len(sent') : Current'.payload = sent'[k].payload
    BY <1>1 DEF ContentsInv, WalkInv
  <2>2. i \in 1..Len(sent')
    BY <2>1
  <2>3. tables = setup'.packed[i].tables
    BY DEF PackedTables
  <2> HIDE DEF i, tables
  <2>4. setup' = setup /\ sent' = sent /\ SentIs
    BY DEF Take, framingVars, lineVars, ContentsInv
  <2>5. i \in 1..Len(setup.packed) /\ IsTerminal(setup)
    BY <2>2, <2>4, SentRight, TheSetup DEF SentIs
  <2>6. Placed(setup, setup.packed[i].tables, Packed(setup, setup.packed[i]).payload)
    BY <2>5, PackedPlaced
  <2>7. QED
    BY <2>3, <2>4, <2>6 DEF Placed
<1>3. n \in Nat /\ \A k \in 1..n : tables[k].fill \in Nat
  <2> DEFINE R == [id : Byte, fill : Byte]
  <2>1. tables \in Seq(R)
    BY <1>2 DEF LineTables
  <2>2. \A r \in R : r.fill \in Nat
    BY ByteDef
  <2> HIDE DEF R
  <2>3. QED
    BY <2>1, <2>2, ElementOfSeq, LenProperties
<1>4. PICK w : Waits(cdr_ack_buffer, w)
  BY DEF QueueInv
<1>5. Answered(none, none) /\ Kinds(none) = none /\ \A id : Of(none, id) = none
  BY AnsweredNone
<1> HIDE DEF tables, n, none
<1>6. FirstAnswers(tables, 0) = none
  BY FirstAnswersNext DEF none
<1>7. \A id \in {ALARM, MAINT_REQ, CALL_DETAILS} : FirstDue(tables, id, 0) = none
  <2> SUFFICES ASSUME NEW id \in {ALARM, MAINT_REQ, CALL_DETAILS} PROVE FirstDue(tables, id, 0) = none
    OBVIOUS
  <2>1. 0 \in 0..n
    BY <1>3
  <2>2. QED
    BY <2>1, <1>3, FirstDueNext DEF none
<1>8. none \o w = w \o none
  <2>1. w \in Seq(Seq(Nat))
    BY <1>4, WaitsLength
  <2>2. QED
    BY <2>1 DEF none
<1>9. Answering(tables, 0, none, w, w)
  BY <1>5, <1>6, <1>7, <1>8 DEF Answering
<1>10. Charges(setup', Of(none, RATE_RESPONSE))
  BY <1>5, NoCharge DEF none
<1>11. HasReplied(setup', tables, 0, none, cdr_ack_buffer, cdr_ack_buffer, none, w, w)
  BY <1>4, <1>5, <1>9, <1>10 DEF HasReplied
<1>12. QED
  BY <1>11 DEF tables, none

\* No step breaks what is known of the reply.
LEMMA ReplyKept ==
  ContentsInv /\ IntactIsSent /\ OrderInv /\ QueueInv /\ ReplyInv /\ [Next]_vars => ReplyInv'
<1> SUFFICES ASSUME ContentsInv, IntactIsSent, OrderInv, QueueInv, ReplyInv, [Next]_vars,
                    pc' = "process", AllKnown'
             PROVE  ReplyInv'
  BY DEF ReplyInv
<1>1. CASE Take
  BY <1>1, TakeReplies
<1>2. CASE Handles
  <2>1. PICK id, answer : Handle(id, answer)
    BY <1>2, HandlesKnown
  <2>2. pc = "process" /\ UNCHANGED <<setup, sent, got, taken>>
    BY <2>1 DEF Handle, InWalk, framingVars, lineVars
  <2>3. PackedTables' = PackedTables
    BY <2>2, TablesKept
  <2>4. AllKnown
    BY <2>3 DEF AllKnown
  <2>5. Ordinary \/ CallDetails \/ EndData
    BY <1>2 DEF Handles, Ordinary
  <2>6. QED
    BY <2>4, <2>5, OrdinaryReplies, RecordReplies, EndDataReplies
<1>3. CASE Unhandled
  <2>1. /\ InWalk /\ At(at) \notin Understood /\ UNCHANGED <<setup, sent, got, taken>>
    BY <1>3 DEF Unhandled, framingVars, lineVars
  <2>2. pc = "process"
    BY <2>1 DEF InWalk
  <2>3. PackedTables' = PackedTables
    BY <2>1, <2>2, TablesKept
  <2>4. AllKnown
    BY <2>3 DEF AllKnown
  <2>5. InHand.id = At(at) /\ InHand.id \in Understood
    BY <2>1, <2>4, InHandBytes
  <2>6. QED
    BY <2>1, <2>5
<1>4. CASE ~Take /\ ~Handles /\ ~Unhandled
  <2>1. pc = "process" /\ UNCHANGED vars
    BY <1>4, OnlyWalks
  <2>2. /\ UNCHANGED <<setup, sent, got, taken>> /\ handled' = handled /\ out' = out /\ queued' = queued
        /\ cdr_ack_buffer' = cdr_ack_buffer
    BY <2>1 DEF vars, framingVars, lineVars, walkVars, contextVars
  <2>3. PackedTables' = PackedTables
    BY <2>1, <2>2, TablesKept
  <2>4. AllKnown
    BY <2>3 DEF AllKnown
  <2>5. \E answers, waiting, before :
            HasReplied(setup, PackedTables, Len(handled), out, cdr_ack_buffer, queued, answers, waiting, before)
    BY <2>1, <2>4 DEF ReplyInv
  <2>6. QED
    BY <2>2, <2>3, <2>5 DEF ReplyInv
<1>5. QED
  BY <1>1, <1>2, <1>3, <1>4

\* At the end of the walk, all tables are answered, when the manager knows them all.
LEMMA AllAnswered ==
  ASSUME ContentsInv, OrderInv, ReplyInv, WalkEnds, AllUnderstood(PackedTables)
  PROVE  \E answers, waiting, before :
             /\ HasReplied(setup, PackedTables, Len(PackedTables), out, cdr_ack_buffer, queued,
                           answers, waiting, before)
             /\ Read(out) = answers /\ Read(cdr_ack_buffer) = waiting /\ Read(queued) = before
<1> DEFINE tables == PackedTables
           n == Len(tables)
<1>1. pc = "process" /\ at > Len(Current.payload)
  BY DEF WalkEnds
<1>2. AllKnown
  BY DEF AllKnown, AllUnderstood, Known
<1>3. PICK answers, waiting, before :
        HasReplied(setup, tables, Len(handled), out, cdr_ack_buffer, queued, answers, waiting, before)
  BY <1>1, <1>2 DEF ReplyInv
<1>4. Len(handled) = n
  <2>1. at \in Nat /\ Current.payload \in Seq(Byte)
    BY <1>1, InWalkFacts, InPacket DEF Placed
  <2>2. Len(Current.payload) \in Nat
    BY <2>1, LenProperties
  <2>3. ~(at <= Len(Current.payload))
    BY <2>1, <2>2, <1>1
  <2>4. QED
    BY <2>3, <1>1, <1>2, WalkDone DEF AllKnown
<1> HIDE DEF tables
<1>5. Answered(out, answers) /\ Answered(cdr_ack_buffer, waiting) /\ Answered(queued, before)
  BY <1>3 DEF HasReplied, Waits
<1>6. Read(out) = answers /\ Read(cdr_ack_buffer) = waiting /\ Read(queued) = before
  BY <1>5, ReadIs
<1>7. HasReplied(setup, tables, n, out, cdr_ack_buffer, queued, answers, waiting, before)
  BY <1>3, <1>4
<1>8. QED
  BY <1>6, <1>7 DEF tables

\* What is known of the reply says that it acknowledges once all there is to acknowledge.
LEMMA AcksRight == ContentsInv /\ OrderInv /\ ReplyInv => AcksOnce
<1> SUFFICES ASSUME ContentsInv, OrderInv, ReplyInv, WalkEnds, AllUnderstood(PackedTables)
             PROVE  AcksOnce
  BY DEF AcksOnce
<1> DEFINE tables == PackedTables
           n == Len(tables)
           due == FirstDue(tables, CALL_DETAILS, n)
<1>1. PICK answers, waiting, before :
          /\ HasReplied(setup, tables, n, out, cdr_ack_buffer, queued, answers, waiting, before)
          /\ Read(out) = answers /\ Read(cdr_ack_buffer) = waiting /\ Read(queued) = before
  BY AllAnswered
<1> DEFINE records == before \o due
           room == PKT_TABLE_DATA_LEN_MAX
           cdr == Of(answers, CDR_DETAILS_ACK)
<1>2. pc = "process"
  BY DEF WalkEnds
<1>3. n \in Nat /\ \A k \in 1..n : tables[k].fill \in Nat
  <2> DEFINE R == [id : Byte, fill : Byte]
  <2>1. tables \in Seq(R)
    BY <1>2, InPacket DEF Placed, LineTables
  <2>2. \A r \in R : r.fill \in Nat
    BY ByteDef
  <2> HIDE DEF R, tables
  <2>3. QED
    BY <2>1, <2>2, ElementOfSeq, LenProperties
<1> HIDE DEF tables
<1>4. Answers(tables) = FirstAnswers(tables, n) /\ \A id : Due(tables, id) = FirstDue(tables, id, n)
  BY DEF Answers, FirstAnswers, Due, FirstDue, DueFor
<1>5. /\ Answered(out, answers) /\ Waits(cdr_ack_buffer, waiting) /\ Waits(queued, before)
      /\ Answering(tables, n, answers, waiting, before)
  BY <1>1 DEF HasReplied
<1>6. /\ out = FlattenSeq(answers) /\ \A k \in 1..Len(answers) : IsWhole(answers[k])
      /\ Len(out) = SpaceFor(Kinds(answers)) + 3 * Len(cdr)
      /\ cdr \in Seq(Seq(Nat)) /\ Kinds(answers) \in Seq(Replies)
  BY <1>5 DEF Answered
<1>7. /\ Kinds(answers) = FirstAnswers(tables, n)
      /\ Of(answers, ALARM_ACK) = FirstDue(tables, ALARM, n)
      /\ Of(answers, MAINT_ACK) = FirstDue(tables, MAINT_REQ, n)
      /\ RoomFor(tables, n, before) => cdr \o waiting = before \o due
  BY <1>5 DEF Answering
<1>8. before \in Seq(Seq(Nat)) /\ waiting \in Seq(Seq(Nat)) /\ due \in Seq(Seq(Nat))
  <2>1. n \in 0..n
    BY <1>3
  <2>2. due \in Seq(Seq(Nat))
    BY <2>1, <1>3, FirstDueNext
  <2>3. QED
    BY <2>2, <1>5, WaitsLength
<1>9. Len(records) = Len(before) + Len(due) /\ Len(cdr \o waiting) = Len(cdr) + Len(waiting)
      /\ Len(before) \in Nat /\ Len(due) \in Nat /\ Len(cdr) \in Nat /\ Len(waiting) \in Nat
  <2> DEFINE T == Seq(Nat)
  <2>1. before \in Seq(T) /\ waiting \in Seq(T) /\ due \in Seq(T) /\ cdr \in Seq(T)
    BY <1>6, <1>8
  <2> HIDE DEF T, due, cdr
  <2>2. QED
    BY <2>1, ConcatProperties, LenProperties
<1>10. SpaceFor(Kinds(answers)) \in Nat
  BY <1>6, SpaceJoin
<1>11. room = 245 /\ (RoomFor(tables, n, before) <=> 3 * (Len(before) + Len(due)) <= room)
  BY DEF RoomFor, PKT_TABLE_DATA_LEN_MAX
<1> HIDE DEF room, due, cdr, records, n
<1>12. 3 * Len(records) <= room => cdr \o waiting = records
  BY <1>7, <1>9, <1>11 DEF records
<1>13. SpaceFor(Answers(tables)) + 3 * Len(records) <= room => Len(out) <= room
  <2> SUFFICES ASSUME SpaceFor(Answers(tables)) + 3 * Len(records) <= room PROVE Len(out) <= room
    OBVIOUS
  <2> DEFINE a == SpaceFor(Kinds(answers))
             c == Len(cdr)
             w == Len(waiting)
             q == Len(records)
  <2>1. a + 3 * q <= room /\ a \in Nat /\ q \in Nat /\ c \in Nat /\ w \in Nat /\ Len(out) = a + 3 * c
    BY <1>4, <1>6, <1>7, <1>9, <1>10
  <2> HIDE DEF a, c, w, q
  <2>2. 3 * q <= room
    BY <2>1, <1>11
  <2>3. q = c + w
    BY <2>2, <1>12, <1>9 DEF q, c, w
  <2>4. QED
    BY <2>1, <2>3, <1>11
<1>14. /\ \A k \in 1..Len(Read(out)) : IsWhole(Read(out)[k])
       /\ FlattenSeq(Read(out)) = out
       /\ Kinds(Read(out)) = Answers(tables)
       /\ Acks(out, ALARM_ACK) = Due(tables, ALARM)
       /\ Acks(out, MAINT_ACK) = Due(tables, MAINT_REQ)
  BY <1>1, <1>4, <1>6, <1>7 DEF Acks
<1>15. Read(queued) \o Due(tables, CALL_DETAILS) = records
  BY <1>1, <1>4 DEF records, due
<1>16. 3 * Len(records) <= room => Acks(out, CDR_DETAILS_ACK) \o Read(cdr_ack_buffer) = records
  BY <1>1, <1>12 DEF Acks, cdr
<1>17. QED
  BY <1>13, <1>14, <1>15, <1>16 DEF AcksOnce, room, tables

\* It says so of the charges, too.
LEMMA RatesRight == ContentsInv /\ OrderInv /\ ReplyInv => RatedAsDialed
<1> SUFFICES ASSUME ContentsInv, OrderInv, ReplyInv, WalkEnds, setup.rating, AllUnderstood(PackedTables)
             PROVE  RatedAsDialed
  BY DEF RatedAsDialed
<1>1. PICK answers, waiting, before :
          /\ HasReplied(setup, PackedTables, Len(PackedTables), out, cdr_ack_buffer, queued,
                        answers, waiting, before)
          /\ Read(out) = answers
  BY AllAnswered
<1> DEFINE charged == Acks(out, RATE_RESPONSE)
<1>2. Charges(setup, charged)
  BY <1>1 DEF HasReplied, Acks
<1> HIDE DEF charged
<1>3. \A i \in 1..Len(charged) : ChargesDialed(setup, charged[i])
  BY <1>2 DEF Charges
<1>4. QED
  BY <1>3 DEF RatedAsDialed, ChargesDialed, charged

\* While the packets that pass are the terminal's, all that is known of the reply stays true.
LEMMA ReplyInvariant == Spec /\ []IntactIsSent => [](ContentsInv /\ OrderInv /\ ReplyInv)
<1>1. Init => OrderInv /\ ReplyInv
  BY DEF Init, OrderInv, ReplyInv
<1>2. Init => QueueInv
  BY QueueBegins
<1>3. Spec /\ []IntactIsSent => []OrderInv
  BY <1>1, OrderKept, ContentsInvariant, PTL DEF Spec
<1>4. Spec /\ []IntactIsSent => []QueueInv
  BY <1>2, QueueKept, ContentsInvariant, PTL DEF Spec
<1>5. Spec /\ []IntactIsSent => []ReplyInv
  BY <1>1, <1>3, <1>4, ReplyKept, ContentsInvariant, PTL DEF Spec
<1>6. QED
  BY <1>3, <1>5, ContentsInvariant, PTL

\* For every packet of tables that the manager knows, its reply reads as whole answers, one for
\* each that the tables ask for and in their order; every alarm, report and call record is
\* acknowledged once by its own number, the records now or at the end of the upload, as long as
\* there is room for them; and the reply fits into its buffer when what is asked for does.
THEOREM AcknowledgedOnce == Spec /\ []IntactIsSent => []AcksOnce
BY ReplyInvariant, AcksRight, PTL

\* In the rating test mode, every call to a ten-digit number is charged its last four digits,
\* whatever else is in the packet, and whatever digits they are.
THEOREM ChargedAsDialed == Spec /\ []IntactIsSent => []RatedAsDialed
BY ReplyInvariant, RatesRight, PTL

---------------------------------------------------------------------------
(* Calls on a line that disturbs nothing *)

\* On a line that disturbs nothing, all that is proved of a call while the packets that pass
\* are the terminal's holds of every call: the types, the replies and tables that reach the
\* caller, the packets that make up its tables, the order in which its tables are handled, the
\* acknowledgements and charges it is sent, and the forms of the tables.
THEOREM CleanCall ==
    Spec /\ noise = None => [](/\ TypeOK /\ ReplyToCaller /\ ChunksRebuild
                               /\ CallsTwiceDaily /\ NumbersKept /\ FormsMatch
                               /\ TablesInOrder /\ AcksOnce /\ RatedAsDialed)
<1>1. noise = None /\ [Next]_vars => (noise = None)'
  BY LineKept
<1>2. Spec /\ noise = None => [](noise = None)
  BY <1>1, PTL DEF Spec
<1>3. Spec /\ noise = None => []IntactIsSent
  BY <1>2, CleanLine, PTL
<1>4. QED
  BY <1>3, TypeCorrect, RepliesReachCaller, PacketsRebuildTables, CalledTwiceDaily, OptionsKept,
     FormsOfVersion, TablesHandledInOrder, AcknowledgedOnce, ChargedAsDialed, PTL

================================================================================
