---------------------------- MODULE MMContents_proofs ----------------------------
EXTENDS MMContents, MMCodec_proofs
LOCAL INSTANCE FiniteSetsExt
LOCAL INSTANCE SequencesExt

---------------------------------------------------------------------------
(* FlattenSeq *)

\* What FlattenSeq has made of the first k sequences.
Flattens(f, s) ==
    /\ f[0] = <<>>
    /\ \A k \in 1..Len(s) : f[k] = f[k - 1] \o s[k]
    /\ f[Len(s)] = FlattenSeq(s)

\* FlattenSeq joins one sequence after the other.
LEMMA FlattenParts ==
  ASSUME NEW T, NEW s \in Seq(Seq(T))
  PROVE  \E f \in [0..Len(s) -> Seq(T)] : Flattens(f, s)
<1> DEFINE n == Len(s)
           Step(f, i) == IF i = 1 THEN s[i] ELSE f[i-1] \o s[i]
           Is(f) == f = [i \in 1..n |-> Step(f, i)]
           flatten[i \in 1..n] == IF i = 1 THEN s[i] ELSE flatten[i-1] \o s[i]
           V == Seq(T)
           D == [k \in 1..n |-> [v \in V |-> v \o s[k]]]
           E == <<>>
<1>1. n \in Nat /\ \A i \in 1..n : s[i] \in V
  BY LenProperties, ElementOfSeq
<1>2. E \in V
  BY EmptySeq
<1>3. n # 0 => FlattenSeq(s) = flatten[n]
  BY DEF FlattenSeq
<1>4. n = 0 => FlattenSeq(s) = E
  <2> SUFFICES ASSUME n = 0 PROVE FlattenSeq(s) = E
    OBVIOUS
  <2>1. s = <<>>
    BY EmptySeq
  <2>2. QED
    BY <2>1 DEF FlattenSeq
<1> HIDE DEF flatten, n
<1>5. D \in [1..n -> [V -> V]]
  <2> SUFFICES ASSUME NEW k \in 1..n, NEW v \in V PROVE v \o s[k] \in V
    OBVIOUS
  <2>1. QED
    BY <1>1, ConcatProperties
<1>6. PICK f \in [0..n -> V] : Chain(f, E, n, D)
  <2>1. n \in Nat
    BY <1>1
  <2> HIDE DEF V, D, E
  <2>2. QED
    BY <2>1, <1>2, <1>5, Iterates
<1>7. f[0] = E /\ \A k \in 1..n : f[k] = f[k - 1] \o s[k]
  <2>1. f[0] = E /\ \A k \in 1..n : f[k] = D[k][f[k - 1]]
    BY <1>6 DEF Chain
  <2>2. \A k \in 1..n : f[k - 1] \in V
    BY <1>1
  <2> HIDE DEF V, E
  <2>3. QED
    BY <2>1, <2>2
<1> DEFINE g == [i \in 1..n |-> f[i]]
<1>8. ASSUME NEW i \in 1..n PROVE g[i] = Step(g, i)
  <2>1. CASE i = 1
    <3>0. 1 \in 1..n /\ 1 - 1 = 0
      BY <2>1
    <3>1. f[1] = E \o s[1] /\ s[1] \in V
      <4> HIDE DEF V, E
      <4>1. QED
        BY <1>1, <1>7, <3>0
    <3>2. E \o s[1] = s[1]
      BY <3>1, ConcatEmptySeq
    <3>3. QED
      BY <3>1, <3>2, <2>1
  <2>2. CASE i # 1
    <3>1. i - 1 \in 1..n
      BY <2>2, <1>1
    <3> HIDE DEF E
    <3>2. QED
      BY <3>1, <1>7, <2>2
  <2>3. QED
    BY <2>1, <2>2
<1>9. Is(flatten)
  <2>1. Is(g)
    <3> HIDE DEF Step
    <3>1. QED
      BY <1>8
  <2> HIDE DEF g
  <2>2. QED
    BY <2>1, Zenon DEF flatten
<1>10. \A i \in 1..n : flatten[i] = Step(flatten, i)
  <2> HIDE DEF Step
  <2>1. QED
    BY <1>9
<1> DEFINE S == {m \in 0..n : m = 0 \/ flatten[m] = f[m]}
<1>11. 0 \in S
  BY <1>1
<1>12. ASSUME NEW m \in 0..n - 1, m \in S PROVE m + 1 \in S
  <2>1. m + 1 \in 1..n /\ m + 1 \in 0..n /\ (m + 1) - 1 = m /\ (m + 1 = 1 <=> m = 0)
    BY <1>1
  <2>2. CASE m = 0
    <3>1. flatten[1] = s[1] /\ g[1] = s[1] /\ 1 \in 1..n
      BY <1>8, <1>10, <2>1, <2>2
    <3>2. QED
      BY <3>1, <2>1, <2>2
  <2>3. CASE m # 0
    <3>1. flatten[m + 1] = flatten[m] \o s[m + 1]
      BY <1>10, <2>1, <2>3
    <3>2. f[m + 1] = f[m] \o s[m + 1]
      BY <1>7, <2>1
    <3>3. flatten[m] = f[m]
      BY <1>12, <2>3
    <3>4. QED
      BY <3>1, <3>2, <3>3, <2>1
  <2>4. QED
    BY <2>2, <2>3
<1>13. n # 0 => flatten[n] = f[n]
  <2> HIDE DEF S
  <2>1. \A m \in 0..n : m \in S
    BY <1>1, <1>11, <1>12, UpTo
  <2>2. n \in S
    BY <2>1, <1>1
  <2>3. QED
    BY <2>2 DEF S
<1>14. f[n] = FlattenSeq(s)
  BY <1>3, <1>4, <1>7, <1>13
<1>15. QED
  BY <1>6, <1>7, <1>14 DEF Flattens, n

---------------------------------------------------------------------------
(* The receiver, and the parser of mm_dlog2pcap *)

Pkts == [flags : Byte, pktlen : Byte, payload : Seq(Byte), crc : Checksum]

\* A packet that has come so far: its data fit into the buffer because their length is one
\* less than the length byte has asked for at most, and that is 250.
PacketAt(state, p) ==
    /\ state \in States /\ p \in Pkts /\ Len(p.payload) <= 250
    /\ state = "start" => p = NoPacket
    /\ state \in {"flags", "length"} => p.payload = <<>>
    /\ state = "data" => Len(p.payload) + 5 < p.pktlen
    /\ state = "crc1" => p.crc \in Byte

\* The receiver may start with no packet.
LEMMA NoPacketAt == PacketAt("start", NoPacket)
<1>1. 0 \in Byte /\ 0 \in Checksum
  BY ByteDef, ChecksumDef
<1>2. <<>> \in Seq(Byte) /\ Len(<<>>) = 0
  BY EmptySeq
<1>3. QED
  BY <1>1, <1>2 DEF PacketAt, Pkts, NoPacket, States

\* Two bytes make a number of 16 bits.
LEMMA WordType ==
  ASSUME NEW low \in Byte, NEW high \in Byte
  PROVE  Word(low, high) \in Checksum
<1>1. low \in Nat /\ low < 256 /\ high \in Nat /\ high < 256
  BY ByteDef
<1>2. high * 256 + low \in Nat /\ high * 256 + low < 65536
  BY <1>1
<1>3. QED
  BY <1>2, ChecksumDef DEF Word

\* What a parser that has come to a state with a packet is.
LEMMA ParserAt ==
  ASSUME NEW q, NEW state \in States, NEW r \in Pkts, q = [state |-> state, pkt |-> r],
         PacketAt(state, r)
  PROVE  q \in [state : States, pkt : Pkts] /\ PacketAt(q.state, q.pkt)
<1>1. q.state = state /\ q.pkt = r
  OBVIOUS
<1>2. QED
  BY <1>1

\* One byte on, in a packet that is not at its end.
LEMMA ParsedAt ==
  ASSUME NEW p \in [state : States, pkt : Pkts], PacketAt(p.state, p.pkt), p.state # "stop",
         NEW byte \in Byte
  PROVE  /\ mm_parse_byte(p, byte) \in [state : States, pkt : Pkts]
         /\ PacketAt(mm_parse_byte(p, byte).state, mm_parse_byte(p, byte).pkt)
<1> DEFINE q == mm_parse_byte(p, byte)
           E == <<>>
<1>1. byte \in Nat /\ byte < 256 /\ byte \in Checksum
  BY ByteDef, ChecksumDef
<1>2. E \in Seq(Byte) /\ Len(E) = 0
  BY EmptySeq
<1>3. p.pkt.payload \in Seq(Byte) /\ Len(p.pkt.payload) \in Nat /\ p.pkt.pktlen \in Nat
        /\ p.pkt.pktlen < 256
      /\ Len(p.pkt.payload) <= 250
  BY LenProperties, ByteDef DEF Pkts, PacketAt
<1>4. CASE p.state = "start"
  <2>1. CASE byte = START_BYTE
    <3>1. q = [p EXCEPT !.state = "flags", !.pkt.payload = E]
      BY <1>4, <2>1 DEF mm_parse_byte
    <3> HIDE DEF E
    <3>2. q \in [state : States, pkt : Pkts] /\ q.state = "flags" /\ q.pkt.payload = E
      <4>1. q = [state |-> "flags", pkt |-> [p.pkt EXCEPT !.payload = E]]
        BY <3>1
      <4>2. [p.pkt EXCEPT !.payload = E] \in Pkts
        BY <1>2 DEF Pkts
      <4>3. [p.pkt EXCEPT !.payload = E].payload = E
        BY DEF Pkts
      <4> HIDE DEF q
      <4>4. QED
        BY <4>1, <4>2, <4>3 DEF States
    <3>3. Len(q.pkt.payload) <= 250
      BY <3>2, <1>2
    <3> HIDE DEF q
    <3>4. PacketAt(q.state, q.pkt)
      BY <3>2, <3>3 DEF PacketAt, E
    <3>5. QED
      BY <3>2, <3>4 DEF q
  <2>2. CASE byte # START_BYTE
    BY <1>4, <2>2 DEF mm_parse_byte
  <2>3. QED
    BY <2>1, <2>2
<1>5. CASE p.state = "flags"
  <2>1. q = [p EXCEPT !.state = "length", !.pkt.flags = byte]
    BY <1>5 DEF mm_parse_byte
  <2> DEFINE r == [p.pkt EXCEPT !.flags = byte]
  <2>2. q = [state |-> "length", pkt |-> r]
    BY <2>1
  <2>3. r \in Pkts /\ r.payload = p.pkt.payload
    BY DEF Pkts
  <2>4. p.pkt.payload = E
    BY <1>5 DEF PacketAt
  <2>5. "length" \in States
    BY DEF States
  <2> HIDE DEF q, r
  <2>6. PacketAt("length", r)
    BY <2>3, <2>4, <2>5, <1>2 DEF PacketAt
  <2>7. QED
    BY <2>2, <2>3, <2>5, <2>6, ParserAt DEF q
<1>6. CASE p.state = "length"
  <2>1. q = [p EXCEPT !.state = IF byte > 5 THEN "data" ELSE "crc0", !.pkt.pktlen = byte]
    BY <1>6 DEF mm_parse_byte
  <2>2. p.pkt.payload = E
    BY <1>6 DEF PacketAt
  <2> DEFINE next == IF byte > 5 THEN "data" ELSE "crc0"
  <2>3. next \in {"data", "crc0"} /\ (next = "data" => 0 + 5 < byte)
    BY <1>1
  <2> HIDE DEF E, next
  <2>4. q \in [state : States, pkt : Pkts] /\ q.state = next /\ q.pkt.payload = E
          /\ q.pkt.pktlen = byte
    <3> DEFINE r == [p.pkt EXCEPT !.pktlen = byte]
    <3>1. q = [state |-> next, pkt |-> r]
      BY <2>1 DEF next
    <3>2. r \in Pkts /\ r.payload = E /\ r.pktlen = byte
      BY <2>2 DEF Pkts
    <3> HIDE DEF q, r
    <3>3. QED
      BY <2>3, <3>1, <3>2 DEF States
  <2>5. Len(q.pkt.payload) = 0
    BY <2>4, <1>2
  <2> HIDE DEF q
  <2>6. PacketAt(q.state, q.pkt)
    BY <2>3, <2>4, <2>5 DEF PacketAt
  <2>7. QED
    BY <2>4, <2>6 DEF q
<1>7. CASE p.state = "data"
  <2> DEFINE next == IF Len(p.pkt.payload) + 1 = p.pkt.pktlen - 5 THEN "crc0" ELSE "data"
             data == Append(p.pkt.payload, byte)
  <2>1. q = [p EXCEPT !.state = next, !.pkt.payload = data]
    BY <1>7 DEF mm_parse_byte
  <2>2. data \in Seq(Byte) /\ Len(data) = Len(p.pkt.payload) + 1
    BY <1>3, AppendProperties
  <2>3. Len(p.pkt.payload) + 5 < p.pkt.pktlen
    BY <1>7 DEF PacketAt
  <2>4. next = "data" => Len(data) + 5 < p.pkt.pktlen
    BY <1>3, <2>2, <2>3
  <2>5. Len(data) <= 250 /\ next \in {"crc0", "data"}
    BY <1>3, <2>2, <2>3
  <2> HIDE DEF next, data
  <2>6. q \in [state : States, pkt : Pkts] /\ q.state = next /\ q.pkt.payload = data
          /\ q.pkt.pktlen = p.pkt.pktlen
    <3> DEFINE r == [p.pkt EXCEPT !.payload = data]
    <3>1. q = [state |-> next, pkt |-> r]
      BY <2>1
    <3>2. r \in Pkts /\ r.payload = data /\ r.pktlen = p.pkt.pktlen
      BY <2>2 DEF Pkts
    <3> HIDE DEF q, r
    <3>3. QED
      BY <2>5, <3>1, <3>2 DEF States
  <2> HIDE DEF q
  <2>7. PacketAt(q.state, q.pkt)
    BY <2>4, <2>5, <2>6 DEF PacketAt
  <2>8. QED
    BY <2>6, <2>7 DEF q
<1>8. CASE p.state = "crc0"
  <2>1. q = [p EXCEPT !.state = "crc1", !.pkt.crc = byte]
    BY <1>8 DEF mm_parse_byte
  <2> DEFINE r == [p.pkt EXCEPT !.crc = byte]
  <2>2. q = [state |-> "crc1", pkt |-> r]
    BY <2>1
  <2>3. r \in Pkts /\ r.payload = p.pkt.payload /\ r.crc = byte
    BY <1>1 DEF Pkts
  <2>4. "crc1" \in States
    BY DEF States
  <2> HIDE DEF q, r
  <2>5. PacketAt("crc1", r)
    BY <2>3, <2>4, <1>3 DEF PacketAt
  <2>6. QED
    BY <2>2, <2>3, <2>4, <2>5, ParserAt DEF q
<1>9. CASE p.state = "crc1"
  <2>1. q = [p EXCEPT !.state = "stop", !.pkt.crc = Word(p.pkt.crc, byte)]
    BY <1>9 DEF mm_parse_byte
  <2>2. Word(p.pkt.crc, byte) \in Checksum
    BY <1>9, WordType DEF PacketAt
  <2> DEFINE word == Word(p.pkt.crc, byte)
             r == [p.pkt EXCEPT !.crc = word]
  <2>3. q = [state |-> "stop", pkt |-> r]
    BY <2>1
  <2> HIDE DEF word
  <2>4. r \in Pkts /\ r.payload = p.pkt.payload
    BY <2>2 DEF Pkts, word
  <2>5. "stop" \in States
    BY DEF States
  <2> HIDE DEF q, r
  <2>6. PacketAt("stop", r)
    BY <2>4, <2>5, <1>3 DEF PacketAt
  <2>7. QED
    BY <2>3, <2>4, <2>5, <2>6, ParserAt DEF q
<1>10. QED
  BY <1>4, <1>5, <1>6, <1>7, <1>8, <1>9 DEF States

Statuses == {"crc", "framing", "retry", "disconnect"}
Records == [flags : Byte, payload : Seq(Byte), crc : Checksum, end : Byte]
Received == [record : Records, status : SUBSET Statuses]

Receiver == [state |-> l2_state, pkt |-> pkt]

\* Without a pause within a frame, the two parsers are at the same place of the same packet,
\* and have recorded the same ones.
Lockstep == ~split => parser = Receiver /\ converted = [i \in 1..Len(got) |-> got[i].record]

FramingInv ==
    /\ PacketAt(l2_state, pkt)
    /\ parser \in [state : States, pkt : Pkts] /\ PacketAt(parser.state, parser.pkt)
    /\ status \subseteq {"crc"} /\ connected \in BOOLEAN /\ split \in BOOLEAN
    /\ wire \in Seq(Byte \cup {GAP})
    /\ got \in Seq(Received)
    /\ Lockstep

\* In every state but the last, receive_mm_packet does what mm_parse_byte does.
ParsesByte(byte) ==
    /\ l2_state # "stop" /\ Takes(byte)
    /\ Receiver' = mm_parse_byte(Receiver, byte)
    /\ status' \subseteq {"crc"}
    /\ UNCHANGED <<connected, got>>

\* Until the last byte, receive_mm_packet does what mm_parse_byte of mm_dlog2pcap does.
LEMMA ReceiverParses ==
  ASSUME FramingInv, NEW byte \in Byte,
         SearchForStart(byte) \/ GetFlags(byte) \/ GetLength(byte) \/ AccumulateData(byte)
           \/ GetCrc0(byte) \/ GetCrc1(byte)
  PROVE  ParsesByte(byte)
<1>1. pkt \in Pkts /\ status \subseteq {"crc"}
  BY DEF FramingInv, PacketAt
<1>2. CASE SearchForStart(byte)
  <2>1. CASE byte = START_BYTE
    BY <1>1, <1>2, <2>1 DEF SearchForStart, ParsesByte, Receiver, mm_parse_byte, Pkts
  <2>2. CASE byte # START_BYTE
    BY <1>1, <1>2, <2>2 DEF SearchForStart, ParsesByte, Receiver, mm_parse_byte
  <2>3. QED
    BY <2>1, <2>2
<1>3. CASE GetFlags(byte)
  BY <1>1, <1>3 DEF GetFlags, ParsesByte, Receiver, mm_parse_byte, Pkts
<1>4. CASE GetLength(byte)
  BY <1>1, <1>4 DEF GetLength, ParsesByte, Receiver, mm_parse_byte, Pkts
<1>5. CASE AccumulateData(byte)
  BY <1>1, <1>5 DEF AccumulateData, ParsesByte, Receiver, mm_parse_byte, Pkts
<1>6. CASE GetCrc0(byte)
  BY <1>1, <1>6 DEF GetCrc0, ParsesByte, Receiver, mm_parse_byte, Pkts
<1>7. CASE GetCrc1(byte)
  <2>1. status' \subseteq {"crc"}
    BY <1>7 DEF GetCrc1, CrcStatus
  <2>2. QED
    BY <1>1, <1>7, <2>1 DEF GetCrc1, ParsesByte, Receiver, mm_parse_byte, Pkts
<1>8. QED
  BY <1>2, <1>3, <1>4, <1>5, <1>6, <1>7

\* The records of the packets received, with one more.
LEMMA AppendRecords ==
  ASSUME NEW s \in Seq(Received), NEW g \in Received
  PROVE  [i \in 1..Len(Append(s, g)) |-> Append(s, g)[i].record]
           = Append([i \in 1..Len(s) |-> s[i].record], g.record)
<1> DEFINE n == Len(s)
           a == Append(s, g)
           r == [i \in 1..n |-> s[i].record]
           l == [i \in 1..Len(a) |-> a[i].record]
<1>1. n \in Nat /\ Len(a) = n + 1 /\ a[n + 1] = g /\ \A i \in 1..n : a[i] = s[i]
        /\ s[i] \in Received
  BY AppendProperties, LenProperties, ElementOfSeq
<1>2. r \in Seq(Records) /\ Len(r) = n /\ g.record \in Records
  <2>1. \A i \in 1..n : s[i].record \in Records
    BY <1>1 DEF Received
  <2> HIDE DEF n
  <2>2. QED
    BY <1>1, <2>1, SeqDef, LenProperties DEF Received
<1>3. Append(r, g.record) \in Seq(Records) /\ Len(Append(r, g.record)) = n + 1
      /\ Append(r, g.record)[n + 1] = g.record /\ \A i \in 1..n : Append(r, g.record)[i] = r[i]
  <2> HIDE DEF r, n
  <2>1. QED
    BY <1>2, AppendProperties
<1>4. l \in Seq(Records) /\ Len(l) = n + 1
  <2>1. \A i \in 1..n + 1 : a[i].record \in Records
    BY <1>1 DEF Received
  <2> HIDE DEF n, a
  <2>2. QED
    BY <1>1, <2>1
<1>5. ASSUME NEW i \in 1..n + 1 PROVE l[i] = Append(r, g.record)[i]
  <2>1. CASE i = n + 1
    BY <2>1, <1>1, <1>3
  <2>2. CASE i # n + 1
    <3>1. i \in 1..n
      BY <2>2, <1>1
    <3>2. QED
      BY <3>1, <1>1, <1>3
  <2>3. QED
    BY <2>1, <2>2
<1>6. QED
  <2> HIDE DEF l, r, n, a
  <2>1. l = Append(r, g.record)
    BY <1>3, <1>4, <1>5, SeqEqual
  <2>2. QED
    BY <2>1 DEF l, r, a, n

\* The line with its first byte taken off.
LEMMA WireTail ==
  ASSUME wire \in Seq(Byte \cup {GAP}), wire # <<>>
  PROVE  Tail(wire) \in Seq(Byte \cup {GAP}) /\ Head(wire) \in Byte \cup {GAP}
<1> DEFINE T == Byte \cup {GAP}
<1> HIDE DEF T
<1>1. wire \in Seq(T) /\ wire # <<>>
  BY DEF T
<1>2. Tail(wire) \in Seq(T) /\ Head(wire) \in T
  BY <1>1, HeadTailProperties
<1>3. QED
  BY <1>2 DEF T

\* What the parser of the transcript makes of a byte.
LEMMA TranscribedType ==
  ASSUME FramingInv, NEW byte \in Byte, Transcribed(byte)
  PROVE  parser' \in [state : States, pkt : Pkts] /\ PacketAt(parser'.state, parser'.pkt)
<1>1. CASE parser.state = "stop"
  <2>1. parser' = [state |-> "start", pkt |-> NoPacket]
    BY <1>1 DEF Transcribed, mm_parser_reset, NoParser
  <2>2. QED
    BY <2>1, NoPacketAt DEF PacketAt
<1>2. CASE parser.state # "stop"
  BY <1>2, ParsedAt DEF Transcribed, FramingInv
<1>3. QED
  BY <1>1, <1>2

\* A byte before the last leaves the two parsers at the same place.
LEMMA ByteParsed ==
  ASSUME FramingInv, NEW byte \in Byte, ParsesByte(byte)
  PROVE  FramingInv'
<1>1. Receiver \in [state : States, pkt : Pkts] /\ Receiver.state # "stop"
      /\ PacketAt(Receiver.state, Receiver.pkt)
  BY DEF FramingInv, Receiver, ParsesByte, PacketAt
<1>2. Receiver' \in [state : States, pkt : Pkts] /\ PacketAt(Receiver'.state, Receiver'.pkt)
  BY <1>1, ParsedAt DEF ParsesByte
<1>3. Receiver'.state = l2_state' /\ Receiver'.pkt = pkt'
  BY DEF Receiver
<1>4. parser' \in [state : States, pkt : Pkts] /\ PacketAt(parser'.state, parser'.pkt)
  BY TranscribedType DEF ParsesByte, Takes
<1>5. wire' \in Seq(Byte \cup {GAP})
  BY WireTail DEF ParsesByte, Takes, FramingInv
<1>6. Lockstep'
  <2>1. split' = split /\ got' = got
    BY DEF ParsesByte, Takes
  <2>2. CASE split
    BY <2>1, <2>2 DEF Lockstep
  <2>3. CASE ~split
    <3>1. parser = Receiver /\ converted = [i \in 1..Len(got) |-> got[i].record]
      BY <2>3 DEF FramingInv, Lockstep
    <3>2. parser' = mm_parse_byte(Receiver, byte) /\ converted' = converted
      BY <1>1, <3>1 DEF ParsesByte, Takes, Transcribed
    <3>3. parser' = Receiver'
      BY <3>2 DEF ParsesByte
    <3>4. QED
      BY <3>1, <3>2, <3>3, <2>1 DEF Lockstep
  <2>4. QED
    BY <2>2, <2>3
<1>7. QED
  BY <1>2, <1>3, <1>4, <1>5, <1>6 DEF FramingInv, ParsesByte, Takes

\* With the last byte both record the same packet, right or wrong, and start anew.
LEMMA PacketEnds ==
  ASSUME FramingInv, NEW byte \in Byte, GetStop(byte)
  PROVE  FramingInv'
<1> DEFINE flagged == (IF HasFlag(pkt.flags, FLAG_RETRY) THEN {"retry"} ELSE {})
                     \cup (IF HasFlag(pkt.flags, FLAG_DISCONNECT) THEN {"disconnect"} ELSE {})
           framing == IF byte = STOP_BYTE THEN {} ELSE {"framing"}
           g == [record |-> Record(pkt, byte), status |-> status \cup framing \cup flagged]
<1>1. /\ l2_state = "stop" /\ Takes(byte) /\ got' = Append(got, g)
      /\ connected' = ("disconnect" \notin flagged)
      /\ l2_state' = "start" /\ pkt' = NoPacket /\ status' = {}
  BY DEF GetStop, Reset
<1>2. g \in Received
  <2>1. Record(pkt, byte) \in Records
    BY DEF Record, Records, FramingInv, PacketAt, Pkts
  <2>2. status \cup framing \cup flagged \in SUBSET Statuses
    BY DEF FramingInv, Statuses
  <2> HIDE DEF framing, flagged
  <2>3. QED
    BY <2>1, <2>2 DEF Received
<1>3. connected' \in BOOLEAN
  BY <1>1
<1> HIDE DEF g, flagged, framing
<1>4. got' \in Seq(Received)
  BY <1>1, <1>2, AppendProperties DEF FramingInv
<1>5. parser' \in [state : States, pkt : Pkts] /\ PacketAt(parser'.state, parser'.pkt)
  BY <1>1, TranscribedType DEF Takes
<1>6. wire' \in Seq(Byte \cup {GAP})
  BY <1>1, WireTail DEF Takes, FramingInv
<1>7. Lockstep'
  <2>1. split' = split
    BY <1>1 DEF Takes
  <2>2. CASE split
    BY <2>1, <2>2 DEF Lockstep
  <2>3. CASE ~split
    <3>1. parser = Receiver /\ converted = [i \in 1..Len(got) |-> got[i].record]
      BY <2>3 DEF FramingInv, Lockstep
    <3>2. parser.state = "stop" /\ parser.pkt = pkt
      BY <3>1, <1>1 DEF Receiver
    <3>3. parser' = [state |-> "start", pkt |-> NoPacket]
            /\ converted' = Append(converted, Record(pkt, byte))
      BY <3>2, <1>1 DEF Takes, Transcribed, mm_parser_reset, NoParser
    <3>4. g.record = Record(pkt, byte)
      BY DEF g
    <3>5. converted' = [i \in 1..Len(got') |-> got'[i].record]
      BY <3>1, <3>3, <3>4, <1>1, <1>2, AppendRecords DEF FramingInv
    <3>6. parser' = Receiver'
      BY <3>3, <1>1 DEF Receiver
    <3>7. QED
      BY <3>5, <3>6 DEF Lockstep
  <2>4. QED
    BY <2>2, <2>3
<1>8. split' \in BOOLEAN
  BY <1>1 DEF Takes, FramingInv
<1>9. QED
  BY <1>1, <1>3, <1>4, <1>5, <1>6, <1>7, <1>8, NoPacketAt DEF FramingInv

\* A pause within a frame is what makes the two differ, and split tells of it.
LEMMA PauseKeeps ==
  ASSUME FramingInv, Timeout
  PROVE  FramingInv'
<1>1. /\ l2_state' = "start" /\ pkt' = NoPacket /\ status' = {}
           /\ split' = (split \/ l2_state # "start")
      /\ wire # <<>> /\ wire' = Tail(wire)
      /\ connected' = connected /\ got' = got /\ parser' = parser /\ converted' = converted
  BY DEF Timeout, Reset
<1>2. wire' \in Seq(Byte \cup {GAP})
  BY <1>1, WireTail DEF FramingInv
<1>3. Lockstep'
  <2>1. CASE split'
    BY <2>1 DEF Lockstep
  <2>2. CASE ~split'
    <3>1. l2_state = "start" /\ ~split
      BY <1>1, <2>2
    <3>2. pkt = NoPacket
      BY <3>1 DEF FramingInv, PacketAt
    <3>3. Receiver' = Receiver
      BY <1>1, <3>1, <3>2 DEF Receiver
    <3>4. QED
      BY <1>1, <3>1, <3>3 DEF FramingInv, Lockstep
  <2>3. QED
    BY <2>1, <2>2
<1>4. split' \in BOOLEAN
  BY <1>1 DEF FramingInv
<1>5. QED
  BY <1>1, <1>2, <1>3, <1>4, NoPacketAt DEF FramingInv

\* Nothing that comes from the line breaks the invariant of the receiver.
LEMMA FramingStep ==
  ASSUME FramingInv, ReceiveByte \/ Timeout
  PROVE  FramingInv'
<1>1. CASE ReceiveByte
  <2>1. PICK byte \in Byte :
            \/ SearchForStart(byte) \/ GetFlags(byte) \/ GetLength(byte) \/ AccumulateData(byte)
            \/ GetCrc0(byte) \/ GetCrc1(byte) \/ GetStop(byte)
    BY <1>1 DEF ReceiveByte
  <2>2. CASE GetStop(byte)
    BY <2>2, PacketEnds
  <2>3. CASE ~GetStop(byte)
    BY <2>1, <2>3, ReceiverParses, ByteParsed
  <2>4. QED
    BY <2>2, <2>3
<1>2. QED
  BY <1>1, PauseKeeps

---------------------------------------------------------------------------
(* Frames *)

\* Joined sequences have the elements that the sequences have.
LEMMA FlattenType ==
  ASSUME NEW T, NEW s \in Seq(Seq(T))
  PROVE  FlattenSeq(s) \in Seq(T)
<1>1. PICK f \in [0..Len(s) -> Seq(T)] : Flattens(f, s)
  BY FlattenParts
<1>2. Len(s) \in 0..Len(s)
  BY LenProperties
<1>3. QED
  BY <1>1, <1>2 DEF Flattens

IsPacket(p) == p.flags \in Byte /\ p.payload \in Seq(Byte)

\* The lower byte of a number is a byte.
LEMMA RemainderType == ASSUME NEW n \in Nat PROVE n % 256 \in Byte
<1>1. n % 256 \in Nat /\ n % 256 < 256
  OBVIOUS
<1>2. QED
  BY <1>1, ByteDef

\* A number of 16 bits has two bytes.
LEMMA QuotientType == ASSUME NEW n \in Checksum PROVE n \div 256 \in Byte /\ n % 256 \in Byte
<1>1. n \in Nat /\ n < 65536
  BY ChecksumDef
<1>2. n \div 256 \in Nat /\ n \div 256 < 256
  BY <1>1
<1>3. QED
  BY <1>1, <1>2, ByteDef, RemainderType

\* A frame: three bytes, the payload, and three bytes more.
LEMMA FrameParts ==
  ASSUME NEW p, IsPacket(p)
  PROVE  /\ Frame(p) \in Seq(Byte) /\ Len(Frame(p)) = Len(p.payload) + 6
         /\ Frame(p)[1] = START_BYTE /\ Frame(p)[2] = p.flags
         /\ Frame(p)[3] = (Len(p.payload) + 5) % 256
         /\ \A i \in 1..Len(p.payload) : Frame(p)[i + 3] = p.payload[i]
         /\ Frame(p)[Len(p.payload) + 6] = STOP_BYTE
<1> DEFINE n == Len(p.payload)
           l == (n + 5) % 256
           head == <<START_BYTE, p.flags, l>>
           body == head \o p.payload
           crc == crc16(0, body)
           tail == <<crc % 256, crc \div 256, STOP_BYTE>>
<1>1. n \in Nat /\ p.payload \in Seq(Byte) /\ p.flags \in Byte
  BY LenProperties DEF IsPacket
<1>2. l \in Byte /\ START_BYTE \in Byte /\ STOP_BYTE \in Byte
  <2>1. n + 5 \in Nat
    BY <1>1
  <2> HIDE DEF n
  <2>2. (n + 5) % 256 \in Byte
    BY <2>1, RemainderType
  <2>3. QED
    BY <2>2, ByteDef DEF START_BYTE, STOP_BYTE
<1>3. Frame(p) = body \o tail
  BY DEF Frame
<1> HIDE DEF l
<1>4. head \in Seq(Byte) /\ Len(head) = 3 /\ head[1] = START_BYTE /\ head[2] = p.flags
        /\ head[3] = l
  BY <1>1, <1>2
<1> HIDE DEF head, n
<1>5. /\ body \in Seq(Byte) /\ Len(body) = 3 + n
      /\ \A i \in 1..3 : body[i] = head[i]
      /\ \A i \in 1..n : body[3 + i] = p.payload[i]
  <2>1. /\ head \o p.payload \in Seq(Byte) /\ Len(head \o p.payload) = Len(head) + Len(p.payload)
        /\ Joins(head \o p.payload, head, Len(head), p.payload, Len(p.payload))
    BY <1>1, <1>4, Joined
  <2> HIDE DEF body
  <2>2. body \in Seq(Byte) /\ Len(body) = 3 + n /\ Joins(body, head, 3, p.payload, n)
    BY <2>1, <1>4 DEF n, body
  <2>3. QED
    BY <2>2 DEF Joins
<1>6. crc \in Checksum
  <2>1. 0 \in Checksum
    BY ChecksumDef
  <2> HIDE DEF body
  <2>2. QED
    BY <1>5, <2>1, CrcType
<1>7. crc % 256 \in Byte /\ crc \div 256 \in Byte
  <2> HIDE DEF crc
  <2>1. QED
    BY <1>6, QuotientType
<1>8. tail \in Seq(Byte) /\ Len(tail) = 3 /\ tail[3] = STOP_BYTE
  <2> HIDE DEF crc
  <2>1. QED
    BY <1>2, <1>7
<1> HIDE DEF body, tail
<1>9. /\ body \o tail \in Seq(Byte) /\ Len(body \o tail) = (3 + n) + 3
      /\ \A i \in 1..3 + n : (body \o tail)[i] = body[i]
      /\ \A i \in 1..3 : (body \o tail)[(3 + n) + i] = tail[i]
  <2>1. /\ body \o tail \in Seq(Byte) /\ Len(body \o tail) = Len(body) + Len(tail)
        /\ Joins(body \o tail, body, Len(body), tail, Len(tail))
    BY <1>5, <1>8, Joined
  <2>2. Joins(body \o tail, body, 3 + n, tail, 3)
    BY <2>1, <1>5, <1>8
  <2>3. QED
    BY <2>1, <2>2, <1>5, <1>8 DEF Joins
<1>10. /\ 1 \in 1..3 + n /\ 2 \in 1..3 + n /\ 3 \in 1..3 + n /\ (3 + n) + 3 = n + 6
       /\ \A i \in 1..n : 3 + i \in 1..3 + n /\ 3 + i = i + 3
  BY <1>1
<1>11. Frame(p)[1] = START_BYTE /\ Frame(p)[2] = p.flags /\ Frame(p)[3] = l
  BY <1>3, <1>4, <1>5, <1>9, <1>10
<1>12. Frame(p)[n + 6] = STOP_BYTE
  BY <1>3, <1>8, <1>9, <1>10
<1>13. \A i \in 1..n : Frame(p)[i + 3] = p.payload[i]
  BY <1>3, <1>5, <1>9, <1>10
<1>14. QED
  BY <1>3, <1>9, <1>10, <1>11, <1>12, <1>13 DEF n, l

\* The terminal takes the payload out of a frame as it was put in, if the length byte can
\* tell how long it is.
LEMMA PayloadOfFrame ==
  ASSUME NEW p, IsPacket(p), Len(p.payload) <= 250, p = [flags |-> p.flags, payload |-> p.payload]
  PROVE  Payload(Frame(p)) = p.payload
<1> DEFINE f == Frame(p)
           n == Len(p.payload)
           end == f[3] + 1
           part == SubSeq(f, 4, end - 3)
<1>1. n \in Nat /\ n <= 250 /\ p.payload \in Seq(Byte) /\ p.flags \in Byte
  BY LenProperties DEF IsPacket
<1>2. /\ f \in Seq(Byte) /\ Len(f) = n + 6 /\ f[1] = START_BYTE /\ f[2] = p.flags
      /\ f[3] = (n + 5) % 256 /\ f[n + 6] = STOP_BYTE
      /\ \A i \in 1..n : f[i + 3] = p.payload[i]
  <2> HIDE DEF end, part
  <2>1. /\ Frame(p) \in Seq(Byte) /\ Len(Frame(p)) = Len(p.payload) + 6
        /\ Frame(p)[1] = START_BYTE /\ Frame(p)[2] = p.flags
        /\ Frame(p)[3] = (Len(p.payload) + 5) % 256
        /\ \A i \in 1..Len(p.payload) : Frame(p)[i + 3] = p.payload[i]
        /\ Frame(p)[Len(p.payload) + 6] = STOP_BYTE
    <3> HIDE DEF f, n
    <3>1. QED
      BY FrameParts
  <2>2. QED
    BY <2>1
<1> HIDE DEF f
<1>3. (n + 5) % 256 = n + 5
  BY <1>1
<1>4. end = n + 6 /\ end - 3 = n + 3 /\ end = Len(f)
  BY <1>1, <1>2, <1>3
<1> HIDE DEF n
<1>5. part = p.payload
  <2>1. 3 + n <= Len(f) /\ 3 + 1 = 4 /\ 3 + n = end - 3 /\ 3 \in Nat
    <3> HIDE DEF end
    <3>1. Len(f) = n + 6 /\ end = n + 6
      BY <1>2, <1>4
    <3>2. QED
      BY <1>1, <3>1
  <2> DEFINE cut == SubSeq(f, 3 + 1, 3 + n)
  <2>2. cut \in Seq(Byte) /\ Len(cut) = n /\ \A i \in 1..n : cut[i] = f[3 + i]
    <3> DEFINE k == 3
    <3>1. k \in Nat /\ k + n <= Len(f)
      BY <2>1
    <3> HIDE DEF k
    <3>2. /\ SubSeq(f, k + 1, k + n) \in Seq(Byte) /\ Len(SubSeq(f, k + 1, k + n)) = n
          /\ Piece(SubSeq(f, k + 1, k + n), f, k, n)
      BY <1>1, <1>2, <3>1, Cut
    <3>3. cut = SubSeq(f, k + 1, k + n)
      BY DEF k
    <3> HIDE DEF cut
    <3>4. cut \in Seq(Byte) /\ Len(cut) = n /\ Piece(cut, f, k, n)
      BY <3>2, <3>3
    <3>5. QED
      BY <3>4 DEF Piece, k
  <2>3. part = cut
    BY <2>1
  <2> HIDE DEF part, cut
  <2>4. \A i \in 1..n : 3 + i = i + 3
    BY <1>1
  <2>5. Len(part) = n /\ part \in Seq(Byte)
    BY <2>2, <2>3
  <2>6. ASSUME NEW i \in 1..n PROVE part[i] = p.payload[i]
    <3>1. part[i] = f[3 + i] /\ 3 + i = i + 3
      BY <2>2, <2>3, <2>4
    <3>2. f[i + 3] = p.payload[i]
      BY <1>2
    <3>3. QED
      BY <3>1, <3>2
  <2>7. Len(p.payload) = n
    BY DEF n
  <2>8. QED
    BY <1>1, <2>5, <2>6, <2>7, SeqEqual
<1>6. Frame([flags |-> f[2], payload |-> part]) = f
  BY <1>2, <1>5 DEF f
<1> HIDE DEF part, end
<1>7. end = Len(f) /\ f[end] = STOP_BYTE
  BY <1>2, <1>4
<1>8. Payload(f) = part
  BY <1>6, <1>7 DEF Payload, part, end
<1>9. QED
  BY <1>5, <1>8 DEF f

---------------------------------------------------------------------------
(* Sizes and places *)

IsStruct(struct) == \E F : struct \in Seq(F \X Nat)

SumsUp(f, struct) ==
    /\ f[0] = 0 /\ f[Len(struct)] = SizeOf(struct)
    /\ \A k \in 1..Len(struct) : f[k] = f[k - 1] + struct[k][2]

\* The size of a layout is the sum of the widths of its fields.
LEMMA SizeParts ==
  ASSUME NEW struct, IsStruct(struct)
  PROVE  \E f \in [0..Len(struct) -> Nat] : SumsUp(f, struct)
<1> DEFINE n == Len(struct)
           V == Nat
           E == 0
           D == [k \in 1..n |-> [v \in V |-> v + struct[k][2]]]
           Step(f, k) == IF k = 0 THEN 0 ELSE f[k - 1] + struct[k][2]
           Is(f) == f = [k \in 0..n |-> Step(f, k)]
           size[k \in 0..n] == IF k = 0 THEN 0 ELSE size[k - 1] + struct[k][2]
<1>1. n \in Nat /\ \A k \in 1..n : struct[k][2] \in Nat
  <2>1. PICK F : struct \in Seq(F \X Nat)
    BY DEF IsStruct
  <2>2. QED
    BY <2>1, LenProperties, ElementOfSeq
<1>2. SizeOf(struct) = size[n]
  BY DEF SizeOf
<1> HIDE DEF size, n
<1>3. D \in [1..n -> [V -> V]] /\ E \in V
  BY <1>1
<1>4. PICK f \in [0..n -> V] : Chain(f, E, n, D)
  <2>1. n \in Nat
    BY <1>1
  <2> HIDE DEF V, D, E
  <2>2. QED
    BY <2>1, <1>3, Iterates
<1>5. f[0] = 0 /\ \A k \in 1..n : f[k] = f[k - 1] + struct[k][2]
  <2>1. f[0] = E /\ \A k \in 1..n : f[k] = D[k][f[k - 1]]
    BY <1>4 DEF Chain
  <2>2. \A k \in 1..n : f[k - 1] \in V
    BY <1>1
  <2> HIDE DEF V
  <2>3. QED
    BY <2>1, <2>2
<1>6. Is(f)
  <2>1. \A k \in 0..n : f[k] = Step(f, k)
    BY <1>1, <1>5
  <2> HIDE DEF Step
  <2>2. QED
    BY <2>1
<1>7. Is(size)
  <2> HIDE DEF V, Step
  <2>1. \E g : Is(g)
    BY <1>6
  <2>2. QED
    BY <2>1 DEF size, Step
<1>8. size[0] = 0 /\ \A k \in 1..n : size[k] = size[k - 1] + struct[k][2]
  BY <1>1, <1>7
<1> DEFINE S == {m \in 0..n : size[m] = f[m]}
<1>9. 0 \in S /\ \A m \in 0..n - 1 : m \in S => m + 1 \in S
  <2>1. \A m \in 0..n - 1 : m + 1 \in 1..n /\ (m + 1) - 1 = m
    BY <1>1
  <2>2. QED
    BY <2>1, <1>1, <1>5, <1>8
<1>10. size[n] = f[n]
  <2> HIDE DEF S
  <2>1. \A m \in 0..n : m \in S
    BY <1>1, <1>9, UpTo
  <2>2. n \in S
    BY <2>1, <1>1
  <2>3. QED
    BY <2>2 DEF S
<1>11. QED
  BY <1>2, <1>4, <1>5, <1>10 DEF SumsUp, n

\* A table has at least the byte with its number.
LEMMA SizeOfType ==
  ASSUME NEW struct, IsStruct(struct)
  PROVE  SizeOf(struct) \in Nat /\ (Len(struct) > 0 /\ struct[1][2] > 0 => SizeOf(struct) > 0)
<1> DEFINE n == Len(struct)
<1>1. PICK f \in [0..n -> Nat] : SumsUp(f, struct)
  BY SizeParts
<1>2. n \in Nat /\ \A k \in 1..n : struct[k][2] \in Nat
  <2>1. PICK F : struct \in Seq(F \X Nat)
    BY DEF IsStruct
  <2>2. QED
    BY <2>1, LenProperties, ElementOfSeq
<1>3. f[0] = 0 /\ f[n] = SizeOf(struct) /\ \A k \in 1..n : f[k] = f[k - 1] + struct[k][2]
  BY <1>1 DEF SumsUp
<1> HIDE DEF n
<1>4. f[n] \in Nat
  BY <1>1, <1>2
<1>5. ASSUME n > 0, struct[1][2] > 0 PROVE f[n] > 0
  <2> DEFINE S == {m \in 0..n - 1 : f[m + 1] > 0}
  <2>1. 0 \in S
    <3>1. 0 + 1 = 1 /\ 1 \in 1..n /\ 0 \in 0..n - 1 /\ 1 - 1 = 0
      BY <1>2, <1>5
    <3>2. f[1] = struct[1][2]
      BY <3>1, <1>2, <1>3
    <3>3. QED
      BY <3>1, <3>2, <1>5
  <2>2. ASSUME NEW m \in 0..(n - 1) - 1, m \in S PROVE m + 1 \in S
    <3>1. m + 1 \in 0..n - 1 /\ (m + 1) + 1 \in 1..n /\ ((m + 1) + 1) - 1 = m + 1 /\ m + 1 \in 0..n
      BY <1>2
    <3>2. f[(m + 1) + 1] = f[m + 1] + struct[(m + 1) + 1][2]
      BY <3>1, <1>3
    <3>3. f[m + 1] > 0 /\ f[m + 1] \in Nat /\ struct[(m + 1) + 1][2] \in Nat
      BY <3>1, <2>2, <1>1, <1>2
    <3>4. QED
      BY <3>1, <3>2, <3>3
  <2>3. n - 1 \in S
    <3> HIDE DEF S
    <3> DEFINE b == n - 1
    <3>1. b \in Nat
      BY <1>2, <1>5
    <3>2. \A m \in 0..b - 1 : m \in S => m + 1 \in S
      BY <2>2
    <3> HIDE DEF b
    <3>3. \A m \in 0..b : m \in S
      BY <2>1, <3>1, <3>2, UpTo
    <3>4. b \in 0..b
      BY <3>1
    <3>5. QED
      BY <3>3, <3>4 DEF b
  <2>4. (n - 1) + 1 = n
    BY <1>2
  <2>5. QED
    BY <2>3, <2>4
<1>6. QED
  BY <1>3, <1>4, <1>5 DEF n

\* The layouts are layouts: each begins with the byte of the number of its table.
IsTable(struct) == IsStruct(struct) /\ Len(struct) > 0 /\ struct[1][2] = 1

\* A table has a size, and it is not 0.
LEMMA TableSize ==
  ASSUME NEW struct, IsTable(struct)
  PROVE  SizeOf(struct) \in Nat \ {0}
BY SizeOfType DEF IsTable

\* The layouts of the tables that are processed by their fields are layouts.
LEMMA Layouts ==
  /\ IsTable(dlog_mt_alarm_t)
  /\ IsTable(dlog_mt_maint_req_t)
  /\ IsTable(dlog_mt_call_details_t)
  /\ IsTable(dlog_mt_cash_box_collection_t)
  /\ IsTable(cashbox_status_univ_t)
  /\ IsTable(dlog_mt_perf_stats_record_t)
  /\ IsTable(dlog_mt_summary_call_stats_t)
  /\ IsTable(carrier_stats_entry_t)
  /\ IsTable(carrier_stats_exp_entry_t)
  /\ IsTable(dlog_mt_sw_version_t)
  /\ IsTable(dlog_mt_rate_request_t)
  /\ IsTable(dlog_mt_funf_card_auth_t)
  /\ IsTable(dlog_mt_term_status_t)
<1>1. IsTable(dlog_mt_alarm_t)
  <2> DEFINE F == {"id", "timestamp", "alarm_id"}
  <2>1. dlog_mt_alarm_t \in Seq(F \X Nat)
    BY DEF dlog_mt_alarm_t
  <2>2. Len(dlog_mt_alarm_t) > 0 /\ dlog_mt_alarm_t[1][2] = 1
    BY DEF dlog_mt_alarm_t
  <2> HIDE DEF F
  <2>3. QED
    BY <2>1, <2>2 DEF IsTable, IsStruct
<1>2. IsTable(dlog_mt_maint_req_t)
  <2> DEFINE F == {"id", "type", "access_pin"}
  <2>1. dlog_mt_maint_req_t \in Seq(F \X Nat)
    BY DEF dlog_mt_maint_req_t
  <2>2. Len(dlog_mt_maint_req_t) > 0 /\ dlog_mt_maint_req_t[1][2] = 1
    BY DEF dlog_mt_maint_req_t
  <2> HIDE DEF F
  <2>3. QED
    BY <2>1, <2>2 DEF IsTable, IsStruct
<1>3. IsTable(dlog_mt_call_details_t)
  <2> DEFINE F == {"id", "rate_type", "called_num", "carrier_code", "card_num", "call_cost",
          "seq", "start_timestamp", "call_duration", "call_type", "auth_code", "flags",
          "card_ref", "unknown"}
  <2>1. dlog_mt_call_details_t \in Seq(F \X Nat)
    BY DEF dlog_mt_call_details_t
  <2>2. Len(dlog_mt_call_details_t) > 0 /\ dlog_mt_call_details_t[1][2] = 1
    BY DEF dlog_mt_call_details_t
  <2> HIDE DEF F
  <2>3. QED
    BY <2>1, <2>2 DEF IsTable, IsStruct
<1>4. IsTable(dlog_mt_cash_box_collection_t)
  <2> DEFINE F == {"id", "pad", "timestamp", "pad2", "status", "percent_full", "currency_value",
          "pad3", "coin_count", "spare"}
  <2>1. dlog_mt_cash_box_collection_t \in Seq(F \X Nat)
    BY DEF dlog_mt_cash_box_collection_t, COIN_COUNT_MAX
  <2>2. Len(dlog_mt_cash_box_collection_t) > 0 /\ dlog_mt_cash_box_collection_t[1][2] = 1
    BY DEF dlog_mt_cash_box_collection_t, COIN_COUNT_MAX
  <2> HIDE DEF F
  <2>3. QED
    BY <2>1, <2>2 DEF IsTable, IsStruct
<1>5. IsTable(cashbox_status_univ_t)
  <2> DEFINE F == {"id", "timestamp", "pad", "status", "percent_full", "currency_value", "pad2",
          "coin_count", "spare"}
  <2>1. cashbox_status_univ_t \in Seq(F \X Nat)
    BY DEF cashbox_status_univ_t, COIN_COUNT_MAX
  <2>2. Len(cashbox_status_univ_t) > 0 /\ cashbox_status_univ_t[1][2] = 1
    BY DEF cashbox_status_univ_t, COIN_COUNT_MAX
  <2> HIDE DEF F
  <2>3. QED
    BY <2>1, <2>2 DEF IsTable, IsStruct
<1>6. IsTable(dlog_mt_perf_stats_record_t)
  <2> DEFINE F == {"id", "timestamp", "timestamp2", "stats"}
  <2>1. dlog_mt_perf_stats_record_t \in Seq(F \X Nat)
    BY DEF dlog_mt_perf_stats_record_t, PERF_STATS_MAX
  <2>2. Len(dlog_mt_perf_stats_record_t) > 0 /\ dlog_mt_perf_stats_record_t[1][2] = 1
    BY DEF dlog_mt_perf_stats_record_t, PERF_STATS_MAX
  <2> HIDE DEF F
  <2>3. QED
    BY <2>1, <2>2 DEF IsTable, IsStruct
<1>7. IsTable(dlog_mt_summary_call_stats_t)
  <2> DEFINE F == {"id", "timestamps", "stats", "rep_dialer_peg_count", "total_call_duration",
          "total_time_off_hook", "counts"}
  <2>1. dlog_mt_summary_call_stats_t \in Seq(F \X Nat)
    BY DEF dlog_mt_summary_call_stats_t
  <2>2. Len(dlog_mt_summary_call_stats_t) > 0 /\ dlog_mt_summary_call_stats_t[1][2] = 1
    BY DEF dlog_mt_summary_call_stats_t
  <2> HIDE DEF F
  <2>3. QED
    BY <2>1, <2>2 DEF IsTable, IsStruct
<1>8. IsTable(carrier_stats_entry_t)
  <2> DEFINE F == {"carrier_ref", "stats"}
  <2>1. carrier_stats_entry_t \in Seq(F \X Nat)
    BY DEF carrier_stats_entry_t
  <2>2. Len(carrier_stats_entry_t) > 0 /\ carrier_stats_entry_t[1][2] = 1
    BY DEF carrier_stats_entry_t
  <2> HIDE DEF F
  <2>3. QED
    BY <2>1, <2>2 DEF IsTable, IsStruct
<1>9. IsTable(carrier_stats_exp_entry_t)
  <2> DEFINE F == {"carrier_ref", "stats", "call_counts", "total_call_duration", "mode_calls",
          "spare_counter"}
  <2>1. carrier_stats_exp_entry_t \in Seq(F \X Nat)
    BY DEF carrier_stats_exp_entry_t
  <2>2. Len(carrier_stats_exp_entry_t) > 0 /\ carrier_stats_exp_entry_t[1][2] = 1
    BY DEF carrier_stats_exp_entry_t
  <2> HIDE DEF F
  <2>3. QED
    BY <2>1, <2>2 DEF IsTable, IsStruct
<1>10. IsTable(dlog_mt_sw_version_t)
  <2> DEFINE F == {"id", "control_rom_edition", "control_version", "telephony_rom_edition",
          "telephony_version", "term_type", "validator_sw_ver", "validator_hw_ver"}
  <2>1. dlog_mt_sw_version_t \in Seq(F \X Nat)
    BY DEF dlog_mt_sw_version_t
  <2>2. Len(dlog_mt_sw_version_t) > 0 /\ dlog_mt_sw_version_t[1][2] = 1
    BY DEF dlog_mt_sw_version_t
  <2> HIDE DEF F
  <2>3. QED
    BY <2>1, <2>2 DEF IsTable, IsStruct
<1>11. IsTable(dlog_mt_rate_request_t)
  <2> DEFINE F == {"id", "telco_id", "pad", "phone_number", "timestamp", "pad2", "call_type",
          "pad3", "rate_type", "pad4"}
  <2>1. dlog_mt_rate_request_t \in Seq(F \X Nat)
    BY DEF dlog_mt_rate_request_t
  <2>2. Len(dlog_mt_rate_request_t) > 0 /\ dlog_mt_rate_request_t[1][2] = 1
    BY DEF dlog_mt_rate_request_t
  <2> HIDE DEF F
  <2>3. QED
    BY <2>1, <2>2 DEF IsTable, IsStruct
<1>12. IsTable(dlog_mt_funf_card_auth_t)
  <2> DEFINE F == {"id", "control_flag", "phone_number", "carrier_ref", "card_number",
          "service_code", "unknown", "exp_yy", "exp_mm", "unknown2", "pin", "call_type",
          "card_ref_num", "seq"}
  <2>1. dlog_mt_funf_card_auth_t \in Seq(F \X Nat)
    BY DEF dlog_mt_funf_card_auth_t
  <2>2. Len(dlog_mt_funf_card_auth_t) > 0 /\ dlog_mt_funf_card_auth_t[1][2] = 1
    BY DEF dlog_mt_funf_card_auth_t
  <2> HIDE DEF F
  <2>3. QED
    BY <2>1, <2>2 DEF IsTable, IsStruct
<1>13. IsTable(dlog_mt_term_status_t)
  <2> DEFINE F == {"id", "serialnum", "status"}
  <2>1. dlog_mt_term_status_t \in Seq(F \X Nat)
    BY DEF dlog_mt_term_status_t
  <2>2. Len(dlog_mt_term_status_t) > 0 /\ dlog_mt_term_status_t[1][2] = 1
    BY DEF dlog_mt_term_status_t
  <2> HIDE DEF F
  <2>3. QED
    BY <2>1, <2>2 DEF IsTable, IsStruct
<1>14. QED
  BY <1>1, <1>2, <1>3, <1>4, <1>5, <1>6, <1>7, <1>8, <1>9, <1>10, <1>11, <1>12, <1>13

\* So are those that hold the entries of other layouts.
LEMMA CarrierLayouts == IsTable(dlog_mt_carrier_call_stats_t)
        /\ IsTable(dlog_mt_carrier_stats_exp_t)
<1> DEFINE a == SizeOf(carrier_stats_entry_t)
           b == SizeOf(carrier_stats_exp_entry_t)
<1>1. a \in Nat /\ b \in Nat
  BY Layouts, TableSize
<1> HIDE DEF a, b
<1>2. 3 * a \in Nat /\ CARRIER_STATS_EXP_MAX_CARRIERS * b \in Nat
  BY <1>1 DEF CARRIER_STATS_EXP_MAX_CARRIERS
<1>3. dlog_mt_carrier_call_stats_t
        = <<<<"id", 1>>, <<"timestamp", 6>>, <<"timestamp2", 6>>, <<"carrier_stats", 3 * a>>>>
  BY DEF dlog_mt_carrier_call_stats_t, a
<1>4. dlog_mt_carrier_stats_exp_t
        = <<<<"id", 1>>, <<"timestamp", 6>>, <<"timestamp2", 6>>, <<"stats_vintage", 1>>,
            <<"carrier", CARRIER_STATS_EXP_MAX_CARRIERS * b>>>>
  BY DEF dlog_mt_carrier_stats_exp_t, b
<1> DEFINE F == {"id", "timestamp", "timestamp2", "stats_vintage", "carrier", "carrier_stats"}
<1>5. dlog_mt_carrier_call_stats_t \in Seq(F \X Nat)
        /\ dlog_mt_carrier_stats_exp_t \in Seq(F \X Nat)
  BY <1>2, <1>3, <1>4
<1>6. /\ Len(dlog_mt_carrier_call_stats_t) > 0 /\ dlog_mt_carrier_call_stats_t[1][2] = 1
      /\ Len(dlog_mt_carrier_stats_exp_t) > 0 /\ dlog_mt_carrier_stats_exp_t[1][2] = 1
  BY <1>3, <1>4
<1> HIDE DEF F
<1>7. QED
  BY <1>5, <1>6 DEF IsTable, IsStruct

\* Every table that process_mm_table knows has a size that is not 0: the walk gets on.
LEMMA SizeType == Size \in [Understood -> Nat \ {0}]
<1> DEFINE V == Nat \ {0}
<1>1. /\ SizeOf(dlog_mt_alarm_t) \in V /\ SizeOf(dlog_mt_maint_req_t) \in V
      /\ SizeOf(dlog_mt_call_details_t) \in V /\ SizeOf(dlog_mt_cash_box_collection_t) \in V
      /\ SizeOf(dlog_mt_term_status_t) \in V /\ SizeOf(dlog_mt_sw_version_t) \in V
      /\ SizeOf(cashbox_status_univ_t) \in V /\ SizeOf(dlog_mt_perf_stats_record_t) \in V
      /\ SizeOf(dlog_mt_summary_call_stats_t) \in V /\ SizeOf(dlog_mt_rate_request_t) \in V
      /\ SizeOf(dlog_mt_funf_card_auth_t) \in V
  BY Layouts, TableSize
<1>2. SizeOf(dlog_mt_carrier_call_stats_t) \in V /\ SizeOf(dlog_mt_carrier_stats_exp_t) \in V
  BY CarrierLayouts, TableSize
<1>3. 1 \in V /\ 2 \in V /\ 97 \in V
  OBVIOUS
<1> HIDE DEF V
<1>4. ASSUME NEW id \in Understood PROVE Size[id] \in V
  BY <1>1, <1>2, <1>3 DEF Size, Understood
<1>5. QED
  BY <1>4 DEF Size, V

\* So does any table a terminal sends.
LEMMA SizeOnLineType == ASSUME NEW id PROVE SizeOnLine(id) \in Nat \ {0}
BY SizeType DEF SizeOnLine, UNKNOWN_SIZE

\* A field is somewhere in its table.
LEMMA FieldPlace ==
  ASSUME NEW struct, IsTable(struct), NEW field, \E k \in 1..Len(struct) : struct[k][1] = field
  PROVE  Offset(struct, field) \in Nat /\ Width(struct, field) \in Nat
<1> DEFINE i == CHOOSE k \in 1..Len(struct) : struct[k][1] = field
<1>0. PICK F : struct \in Seq(F \X Nat)
  BY DEF IsTable, IsStruct
<1> DEFINE T == F \X Nat
<1>1. i \in 1..Len(struct)
  OBVIOUS
<1>2. Offset(struct, field) = SizeOf(SubSeq(struct, 1, i - 1))
        /\ Width(struct, field) = struct[i][2]
  BY DEF Offset, Width
<1> HIDE DEF i
<1>3. struct[i][2] \in Nat
  BY <1>0, <1>1, ElementOfSeq
<1> DEFINE n == i - 1
           z == 0
<1>4. n \in Nat /\ z \in Nat /\ z + n <= Len(struct) /\ z + 1 = 1 /\ z + n = n
  BY <1>0, <1>1, LenProperties
<1> HIDE DEF n, z, T
<1>5. SubSeq(struct, z + 1, z + n) \in Seq(T)
  BY <1>0, <1>4, Cut DEF T
<1>6. IsStruct(SubSeq(struct, 1, n))
  BY <1>4, <1>5 DEF IsStruct, T
<1>7. QED
  BY <1>2, <1>3, <1>6, SizeOfType DEF n

---------------------------------------------------------------------------
(* Bytes of tables *)

Bytes(b, n) == b \in Seq(Byte) /\ Len(b) = n

\* Bytes behind bytes are as many as both.
LEMMA BytesJoined ==
  ASSUME NEW a, NEW b, NEW m \in Nat, NEW n \in Nat, Bytes(a, m), Bytes(b, n)
  PROVE  Bytes(a \o b, m + n)
BY Joined DEF Bytes

\* A piece in the middle is found where it was put.
LEMMA Middle ==
  ASSUME NEW T, NEW a \in Seq(T), NEW b \in Seq(T), NEW c \in Seq(T),
         NEW m \in Nat, NEW n \in Nat, Len(a) = m, Len(b) = n
  PROVE  SubSeq((a \o b) \o c, m + 1, m + n) = b
<1> DEFINE ab == a \o b
           s == ab \o c
           cut == SubSeq(s, m + 1, m + n)
           l == Len(c)
<1>1. l \in Nat
  BY LenProperties
<1>2. ab \in Seq(T) /\ Len(ab) = m + n /\ Joins(ab, a, m, b, n)
  BY Joined
<1> HIDE DEF ab
<1>3. s \in Seq(T) /\ Len(s) = (m + n) + l /\ Joins(s, ab, m + n, c, l)
  <2>1. s \in Seq(T) /\ Len(s) = Len(ab) + Len(c) /\ Joins(s, ab, Len(ab), c, Len(c))
    BY <1>2, Joined
  <2> HIDE DEF s
  <2>2. QED
    BY <2>1, <1>2
<1> HIDE DEF s, l
<1>4. m + n <= Len(s)
  BY <1>1, <1>3
<1>5. cut \in Seq(T) /\ Len(cut) = n /\ Piece(cut, s, m, n)
  BY <1>3, <1>4, Cut
<1> HIDE DEF cut
<1>6. ASSUME NEW i \in 1..n PROVE cut[i] = b[i]
  <2>1. m + i \in 1..m + n
    OBVIOUS
  <2>2. cut[i] = s[m + i]
    BY <1>5 DEF Piece
  <2>3. s[m + i] = ab[m + i]
    BY <2>1, <1>3 DEF Joins
  <2>4. ab[m + i] = b[i]
    BY <1>2 DEF Joins
  <2>5. QED
    BY <2>2, <2>3, <2>4
<1>7. cut = b
  BY <1>5, <1>6, SeqEqual
<1>8. QED
  BY <1>7 DEF cut, s, ab

\* A number of 16 bits goes out as two bytes.
LEMMA LE16Type ==
  ASSUME NEW n \in Checksum
  PROVE  LE16(n) \in Seq(Byte)
<1>1. n % 256 \in Byte /\ n \div 256 \in Byte
  BY QuotientType
<1>2. QED
  BY <1>1 DEF LE16

\* So do several.
LEMMA LE16sType ==
  ASSUME NEW words \in Seq(Checksum)
  PROVE  LE16s(words) \in Seq(Byte)
<1> DEFINE n == Len(words)
           s == [i \in 1..n |-> LE16(words[i])]
<1>1. n \in Nat /\ \A i \in 1..n : words[i] \in Checksum
  BY LenProperties, ElementOfSeq
<1>2. LE16s(words) = FlattenSeq(s)
  BY DEF LE16s
<1> HIDE DEF n
<1>3. \A i \in 1..n : LE16(words[i]) \in Seq(Byte)
  BY <1>1, LE16Type
<1>4. s \in Seq(Seq(Byte))
  BY <1>1, <1>3
<1> HIDE DEF s
<1>5. QED
  BY <1>2, <1>4, FlattenType

\* The numbers of the tables are bytes.
LEMMA SmallBytes == \A n \in 0..151 : n \in Byte
<1>1. SUFFICES ASSUME NEW n \in 0..151 PROVE n \in Nat /\ n < 256
  BY ByteDef
<1>2. QED
  OBVIOUS

\* Zeros are bytes.
LEMMA ZerosType ==
  ASSUME NEW n \in Nat
  PROVE  Bytes(Zeros(n), n)
<1>1. 0 \in Byte
  BY ByteDef
<1>2. [i \in 1..n |-> 0] \in Seq(Byte) /\ Len([i \in 1..n |-> 0]) = n
  BY <1>1
<1>3. QED
  BY <1>2 DEF Bytes, Zeros

\* One byte is a sequence of bytes.
LEMMA OneByte == ASSUME NEW b \in Byte PROVE Bytes(<<b>>, 1) /\ <<b>>[1] = b
BY DEF Bytes

Regroups(a, b, c) == (a \o b) \o c = a \o (b \o c)

\* It does not matter which of three sequences are joined first.
LEMMA Regroup ==
  ASSUME NEW T, NEW a \in Seq(T), NEW b \in Seq(T), NEW c \in Seq(T)
  PROVE  Regroups(a, b, c)
<1>1. (a \o b) \o c = a \o (b \o c)
  OBVIOUS
<1>2. QED
  BY <1>1 DEF Regroups

TableIs(t, id, x, m, y, n, l) ==
    /\ Bytes(t, ((1 + m) + n) + l) /\ t[1] = id
    /\ SubSeq(t, 2, 1 + m) = x
    /\ SubSeq(t, (1 + m) + 1, (1 + m) + n) = y

\* A table: its number, and two fields behind it.
LEMMA TableParts ==
  ASSUME NEW id \in Byte, NEW m \in Nat, NEW x, Bytes(x, m), NEW n \in Nat, NEW y, Bytes(y, n),
         NEW l \in Nat, NEW r, Bytes(r, l),
         NEW t, t = ((<<id>> \o x) \o y) \o r
  PROVE  TableIs(t, id, x, m, y, n, l)
<1> DEFINE h == <<id>>
           hx == h \o x
           hxy == hx \o y
           one == 1
<1>1. one \in Nat /\ Bytes(h, one) /\ h[1] = id
  BY OneByte
<1> HIDE DEF h, one
<1>2. one + m \in Nat /\ (one + m) + n \in Nat
  BY <1>1
<1>3. Bytes(hx, one + m)
  BY <1>1, BytesJoined
<1> HIDE DEF hx
<1>4. Bytes(hxy, (one + m) + n)
  BY <1>2, <1>3, BytesJoined
<1> HIDE DEF hxy
<1>5. t = hxy \o r
  BY DEF h, hx, hxy
<1>6. Bytes(t, ((one + m) + n) + l)
  BY <1>2, <1>4, <1>5, BytesJoined
<1>7. t[1] = id
  <2>1. /\ Joins(hx, h, Len(h), x, Len(x)) /\ Joins(hxy, hx, Len(hx), y, Len(y))
        /\ Joins(hxy \o r, hxy, Len(hxy), r, Len(r))
    <3>1. Joins(hx, h, Len(h), x, Len(x))
      BY <1>1, Joined DEF Bytes, hx
    <3>2. Joins(hxy, hx, Len(hx), y, Len(y))
      BY <1>3, Joined DEF Bytes, hxy
    <3>3. Joins(hxy \o r, hxy, Len(hxy), r, Len(r))
      BY <1>4, Joined DEF Bytes
    <3>4. QED
      BY <3>1, <3>2, <3>3
  <2>2. 1 \in 1..Len(h) /\ 1 \in 1..Len(hx) /\ 1 \in 1..Len(hxy)
    BY <1>1, <1>3, <1>4 DEF Bytes, one
  <2>3. h[1] = hx[1] /\ hx[1] = hxy[1] /\ hxy[1] = (hxy \o r)[1]
    BY <2>1, <2>2 DEF Joins
  <2>4. QED
    BY <2>3, <1>1, <1>5
<1>8. SubSeq(t, one + 1, one + m) = x
  <2> DEFINE yr == y \o r
  <2>1. Bytes(yr, n + l)
    BY BytesJoined
  <2>2. t = hx \o yr
    <3>1. hx \in Seq(Byte) /\ y \in Seq(Byte) /\ r \in Seq(Byte)
      BY <1>3 DEF Bytes
    <3> HIDE DEF yr
    <3>2. Regroups(hx, y, r)
      BY <3>1, Regroup
    <3>3. QED
      BY <3>2, <1>5 DEF hxy, yr, Regroups
  <2> HIDE DEF yr
  <2>3. SubSeq((h \o x) \o yr, one + 1, one + m) = x
    BY <1>1, <2>1, Middle DEF Bytes
  <2>4. QED
    BY <2>2, <2>3 DEF hx
<1>9. SubSeq(t, (one + m) + 1, (one + m) + n) = y
  <2>1. SubSeq((hx \o y) \o r, (one + m) + 1, (one + m) + n) = y
    <3> DEFINE k == one + m
    <3>1. k \in Nat /\ hx \in Seq(Byte) /\ Len(hx) = k /\ y \in Seq(Byte) /\ Len(y) = n
            /\ r \in Seq(Byte)
      BY <1>2, <1>3 DEF Bytes
    <3> HIDE DEF k
    <3>2. SubSeq((hx \o y) \o r, k + 1, k + n) = y
      BY <3>1, Middle
    <3>3. QED
      BY <3>2 DEF k
  <2>2. QED
    BY <2>1, <1>5 DEF hxy
<1>10. QED
  BY <1>6, <1>7, <1>8, <1>9 DEF one, TableIs

\* The access code fills its four bytes, and is read as the option said.
LEMMA AccessCode ==
  ASSUME NEW digits \in Seq(Decimal), Len(digits) \in {0, 7}
  PROVE  /\ Bytes(access_code(digits), 4)
         /\ digits # <<>> => phone_num_to_string(access_code(digits), 8) = digits
<1>1. CASE digits = <<>>
  <2>1. 39 \in Byte /\ 55 \in Byte /\ 142 \in Byte
    BY SmallBytes
  <2>2. access_code(digits) = <<39, 39, 55, 142>>
    BY <1>1 DEF access_code
  <2>3. QED
    BY <2>1, <2>2, <1>1 DEF Bytes
<1>2. CASE digits # <<>>
  <2> DEFINE n == 4
             room == 8
  <2>0. Len(digits) = 7
    BY <1>2, EmptySeq
  <2>1. Len(digits) + 1 = 2 * n /\ n \in Nat /\ room \in Nat /\ Len(digits) <= room - 1
    BY <2>0
  <2> HIDE DEF n, room
  <2>2. /\ Pack(Append(digits, END_OF_NUMBER)) \in Seq(Byte)
        /\ Len(Pack(Append(digits, END_OF_NUMBER))) = n
        /\ phone_num_to_string(Pack(Append(digits, END_OF_NUMBER)), room) = digits
    BY <2>1, OddNumberKept
  <2>3. access_code(digits) = Pack(Append(digits, END_OF_NUMBER))
    BY <1>2 DEF access_code
  <2>4. QED
    BY <2>2, <2>3 DEF Bytes, n, room
<1>3. QED
  BY <1>1, <1>2

\* The key card number fills its five bytes, and is read as the option said.
LEMMA KeyCardNumber ==
  ASSUME NEW digits \in Seq(Decimal), Len(digits) \in {0, 10}
  PROVE  /\ Bytes(key_card_number(digits), 5)
         /\ digits # <<>> => phone_num_to_string(key_card_number(digits), 11) = digits
<1>1. CASE digits = <<>>
  <2>1. 64 \in Byte /\ 18 \in Byte /\ 136 \in Byte
    BY SmallBytes
  <2>2. key_card_number(digits) = <<64, 18, 136, 136, 136>>
    BY <1>1 DEF key_card_number
  <2>3. QED
    BY <2>1, <2>2, <1>1 DEF Bytes
<1>2. CASE digits # <<>>
  <2> DEFINE n == 5
             room == 11
  <2>1. Len(digits) = 2 * n /\ n \in Nat /\ room \in Nat /\ 2 * n <= room - 1
    BY <1>2, EmptySeq
  <2> HIDE DEF n, room
  <2>2. /\ Pack(digits) \in Seq(Byte) /\ Len(Pack(digits)) = n
        /\ phone_num_to_string(Pack(digits), room) = digits
    BY <2>1, EvenNumberKept
  <2>3. key_card_number(digits) = Pack(digits)
    BY <1>2 DEF key_card_number
  <2>4. QED
    BY <2>2, <2>3 DEF Bytes, n, room
<1>3. QED
  BY <1>1, <1>2

\* The table of installation parameters begins with its number, and holds both.
LEMMA InstallParameters ==
  ASSUME NEW access \in Seq(Decimal), Len(access) \in {0, 7},
         NEW key \in Seq(Decimal), Len(key) \in {0, 10},
         NEW t, t = generate_install_parameters(access, key)
  PROVE  /\ t \in Seq(Byte) /\ t # <<>> /\ t[1] = INSTALL_PARAMS
         /\ access # <<>> => phone_num_to_string(SubSeq(t, 2, 5), 8) = access
         /\ key # <<>> => phone_num_to_string(SubSeq(t, 6, 10), 11) = key
<1> DEFINE x == access_code(access)
           y == key_card_number(key)
           a == <<0, 10, rx_packet_gap, 40, 0>>
           b == LE16(150)
           c == <<10, 0, 0, 0, 10, 0, 0, 0>>
           d == Zeros(12)
           h == <<INSTALL_PARAMS>>
           r == ((a \o b) \o c) \o d
           hxy == (h \o x) \o y
<1>1. Bytes(x, 4) /\ Bytes(y, 5)
  BY AccessCode, KeyCardNumber
<1>2. 0 \in Byte /\ 10 \in Byte /\ 40 \in Byte /\ rx_packet_gap \in Byte /\ INSTALL_PARAMS \in Byte
  BY SmallBytes DEF rx_packet_gap, INSTALL_PARAMS
<1>3. a \in Seq(Byte) /\ c \in Seq(Byte) /\ h \in Seq(Byte)
  BY <1>2
<1>4. b \in Seq(Byte)
  <2>1. 150 \in Checksum
    BY ChecksumDef
  <2>2. QED
    BY <2>1, LE16Type
<1>5. d \in Seq(Byte)
  BY ZerosType DEF Bytes
<1>6. t = ((((h \o x) \o y) \o a) \o b) \o c \o d
  BY DEF generate_install_parameters
<1> HIDE DEF x, y, a, b, c, d, h
<1>7. hxy \in Seq(Byte)
  BY <1>1, <1>3, ConcatProperties DEF Bytes
<1> HIDE DEF hxy
<1>8. a \o b \in Seq(Byte) /\ (a \o b) \o c \in Seq(Byte) /\ r \in Seq(Byte)
  BY <1>3, <1>4, <1>5, ConcatProperties
<1>9. /\ (hxy \o a) \o b = hxy \o (a \o b)
      /\ (hxy \o (a \o b)) \o c = hxy \o ((a \o b) \o c)
      /\ (hxy \o ((a \o b) \o c)) \o d = hxy \o r
  <2> DEFINE ab == a \o b
             abc == ab \o c
  <2>1. ab \in Seq(Byte) /\ abc \in Seq(Byte)
    BY <1>8
  <2>2. Regroups(hxy, a, b)
    BY <1>3, <1>4, <1>7, Regroup
  <2> HIDE DEF ab
  <2>3. Regroups(hxy, ab, c)
    BY <1>3, <1>7, <2>1, Regroup
  <2> HIDE DEF abc
  <2>4. Regroups(hxy, abc, d)
    BY <1>5, <1>7, <2>1, Regroup
  <2>5. QED
    BY <2>2, <2>3, <2>4 DEF Regroups, ab, abc
<1>10. t = hxy \o r
  BY <1>6, <1>9 DEF hxy
<1> HIDE DEF r
<1> DEFINE m == 4
           n == 5
           l == Len(r)
           id == INSTALL_PARAMS
<1>11. m \in Nat /\ n \in Nat /\ l \in Nat /\ Bytes(x, m) /\ Bytes(y, n) /\ Bytes(r, l)
         /\ id \in Byte
       /\ t = ((<<id>> \o x) \o y) \o r
  BY <1>1, <1>2, <1>8, <1>10, LenProperties DEF Bytes, hxy, h
<1> HIDE DEF m, n, l, id
<1>12. TableIs(t, id, x, m, y, n, l)
  BY <1>11, TableParts
<1>13. t # <<>>
  BY <1>11, <1>12, EmptySeq DEF Bytes, TableIs
<1>14. SubSeq(t, 2, 5) = x /\ SubSeq(t, 6, 10) = y
  BY <1>12 DEF m, n, TableIs
<1>15. QED
  BY <1>12, <1>13, <1>14, AccessCode, KeyCardNumber DEF x, y, id, Bytes, TableIs

TermParmsAre(t, id, x, y, n, l) ==
    /\ Bytes(t, (6 + 2 * n) + l) /\ t[1] = NCC_TERM_PARAMS
    /\ SubSeq(t, 2, 6) = id
    /\ SubSeq(t, 7, 6 + n) = x
    /\ SubSeq(t, 7 + n, 6 + 2 * n) = y

\* Where the two numbers are in DLOG_MT_NCC_TERM_PARAMS, short or long.
LEMMA TermParts ==
  ASSUME NEW id, Bytes(id, 5), NEW n \in Nat, NEW x, Bytes(x, n), NEW y, Bytes(y, n),
         NEW l \in Nat, NEW r, Bytes(r, l),
         NEW t, t = (((<<NCC_TERM_PARAMS>> \o id) \o x) \o y) \o r
  PROVE  TermParmsAre(t, id, x, y, n, l)
<1> DEFINE h == <<NCC_TERM_PARAMS>>
           hi == h \o id
           hix == hi \o x
           yr == y \o r
           five == 5
           one == 1
           b == NCC_TERM_PARAMS
           six == one + five
<1>1. b \in Byte
  BY SmallBytes DEF NCC_TERM_PARAMS
<1>2. five \in Nat /\ one \in Nat /\ six \in Nat /\ Bytes(id, five)
  OBVIOUS
<1>3. Bytes(h, one)
  BY <1>1, OneByte
<1> HIDE DEF h, five, one
<1>4. Bytes(hi, six)
  BY <1>2, <1>3, BytesJoined
<1> HIDE DEF hi, six
<1>5. Bytes(hix, six + n) /\ six + n \in Nat
  BY <1>2, <1>4, BytesJoined
<1>6. Bytes(yr, n + l) /\ n + l \in Nat
  BY BytesJoined
<1> HIDE DEF hix, yr
<1>7. t = (hix \o y) \o r
  BY DEF hix, hi, h
<1>8. t = hix \o yr
  <2>1. Regroups(hix, y, r)
    BY <1>5, Regroup DEF Bytes
  <2>2. QED
    BY <2>1, <1>7 DEF Regroups, yr
<1> HIDE DEF b
<1>9. TableIs(t, b, id, five, x, n, n + l)
  <2>1. t = ((<<b>> \o id) \o x) \o yr
    BY <1>8 DEF hix, hi, h, b
  <2>2. QED
    BY <2>1, <1>1, <1>2, <1>6, TableParts
<1>10. SubSeq(t, (six + n) + 1, (six + n) + n) = y
  <2> DEFINE k == six + n
  <2>1. k \in Nat /\ hix \in Seq(Byte) /\ Len(hix) = k /\ y \in Seq(Byte) /\ Len(y) = n
          /\ r \in Seq(Byte)
    BY <1>5 DEF Bytes
  <2> HIDE DEF k
  <2>2. SubSeq((hix \o y) \o r, k + 1, k + n) = y
    BY <2>1, Middle
  <2>3. QED
    BY <2>2, <1>7 DEF k
<1>11. /\ Bytes(t, ((1 + 5) + n) + (n + l)) /\ t[1] = NCC_TERM_PARAMS
       /\ SubSeq(t, 2, 1 + 5) = id
       /\ SubSeq(t, (1 + 5) + 1, (1 + 5) + n) = x
  BY <1>9 DEF TableIs, b, five
<1>12. SubSeq(t, ((1 + 5) + n) + 1, ((1 + 5) + n) + n) = y
  BY <1>10 DEF six, one, five
<1>13. /\ ((1 + 5) + n) + (n + l) = (6 + 2 * n) + l /\ 1 + 5 = 6 /\ (1 + 5) + 1 = 7
       /\ (1 + 5) + n = 6 + n /\ ((1 + 5) + n) + 1 = 7 + n /\ ((1 + 5) + n) + n = 6 + 2 * n
  OBVIOUS
<1>14. QED
  BY <1>11, <1>12, <1>13 DEF TermParmsAre

\* The parameters of the terminal: its number, and two numbers of the manager.
LEMMA TermAccessParameters ==
  ASSUME NEW number, Bytes(TerminalBytes(number), 5), NEW ncc, ncc[1] \in Seq(Decimal),
           ncc[2] \in Seq(Decimal)
  PROVE  /\ TermParmsAre(generate_term_access_parameters(number, ncc), TerminalBytes(number),
                         string_to_bcd_a(ncc[1], 10), string_to_bcd_a(ncc[2], 10), 10, 22)
         /\ TermParmsAre(generate_term_access_parameters_mtr1(number, ncc), TerminalBytes(number),
                         string_to_bcd_a(ncc[1], 6), string_to_bcd_a(ncc[2], 6), 6, 0)
<1> DEFINE id == TerminalBytes(number)
           E == <<>>
           long == 10
           short == 6
           rest == 22
           none == 0
           Z == Zeros(rest)
           x10 == string_to_bcd_a(ncc[1], long)
           y10 == string_to_bcd_a(ncc[2], long)
           x6 == string_to_bcd_a(ncc[1], short)
           y6 == string_to_bcd_a(ncc[2], short)
           t10 == generate_term_access_parameters(number, ncc)
           t6 == generate_term_access_parameters_mtr1(number, ncc)
           h == <<NCC_TERM_PARAMS>>
<1>1. t10 = (((h \o id) \o x10) \o y10) \o Z
  BY DEF generate_term_access_parameters
<1>2. t6 = ((h \o id) \o x6) \o y6
  BY DEF generate_term_access_parameters_mtr1
<1>3. long \in Nat /\ short \in Nat /\ rest \in Nat /\ none \in Nat
  OBVIOUS
<1>4. Bytes(E, none)
  BY EmptySeq DEF Bytes
<1>5. Bytes(h, 1) 
  BY SmallBytes, OneByte DEF NCC_TERM_PARAMS
<1> HIDE DEF long, short, rest, none, t10, t6, E
<1>6. Bytes(x10, long) /\ Bytes(y10, long) /\ Bytes(x6, short) /\ Bytes(y6, short)
  BY <1>3, BcdType DEF Bytes
<1>7. Bytes(Z, rest)
  BY <1>3, ZerosType
<1> HIDE DEF x10, y10, x6, y6, id, Z
<1>8. TermParmsAre(t10, id, x10, y10, long, rest)
  BY <1>1, <1>3, <1>6, <1>7, TermParts DEF id
<1>9. t6 = (((h \o id) \o x6) \o y6) \o E
  <2>1. h \o id \in Seq(Byte)
    BY <1>5, ConcatProperties DEF Bytes, id
  <2>2. (h \o id) \o x6 \in Seq(Byte)
    BY <2>1, <1>6, ConcatProperties DEF Bytes
  <2>3. ((h \o id) \o x6) \o y6 \in Seq(Byte)
    BY <2>2, <1>6, ConcatProperties DEF Bytes
  <2>4. QED
    BY <2>3, <1>2, ConcatEmptySeq DEF E
<1>10. TermParmsAre(t6, id, x6, y6, short, none)
  BY <1>9, <1>3, <1>4, <1>6, TermParts DEF id
<1>11. QED
  BY <1>8, <1>10 DEF long, short, rest, none, t10, t6, x10, y10, x6, y6, id

\* Tables that are short lists of numbers.
LEMMA CallInParameters ==
  ASSUME NEW now, IsTime(now)
  PROVE  LET t == generate_call_in_parameters(now)
         IN  /\ t \in Seq(Byte) /\ t[1] = CALL_IN_PARMS
             /\ t[2] = now.year /\ t[5] = CallInHour(now.hour) /\ t[9] = 12
             /\ t[14] = now.year + 1 /\ t[15] = now.month /\ t[16] = now.day
<1> DEFINE t == generate_call_in_parameters(now)
           hour == CallInHour(now.hour)
           a == <<CALL_IN_PARMS, now.year, now.month, now.day, hour, now.min, now.sec>>
           b == <<0, 12, 0, 15, 0, 30, now.year + 1, now.month, now.day, 2, 0, 0, 0, 0>>
<1>1. t = a \o b
  BY DEF generate_call_in_parameters
<1>2. /\ now.year \in Nat /\ now.year < 255 /\ now.month \in 0..151 /\ now.min \in 0..151
      /\ now.sec \in 0..151 /\ now.hour \in 0..23
  <2> DEFINE year == 254
  <2>1. now.year \in 0..year /\ year \in Nat /\ year + 1 = 255
    BY DEF IsTime
  <2>2. now.year \in Nat /\ now.year < 255
    <3> HIDE DEF year
    <3>1. now.year \in Nat /\ now.year <= year
      BY <2>1
    <3>2. QED
      BY <3>1 DEF year
  <2>3. QED
    BY <2>2 DEF IsTime
<1>3. now.day \in 0..151
  <2>1. PICK d \in {28, 29, 30, 31} : DaysIn(now.month, now.year) = d
    BY DEF DaysIn
  <2>2. now.day \in 1..d
    BY <2>1 DEF IsTime
  <2>3. QED
    BY <2>2
<1>4. hour \in 0..151
  BY <1>2 DEF CallInHour
<1>5. now.year \in Byte /\ now.year + 1 \in Byte
  BY <1>2, ByteDef
<1>6. /\ CALL_IN_PARMS \in Byte /\ now.month \in Byte /\ now.day \in Byte /\ hour \in Byte
           /\ now.min \in Byte
      /\ now.sec \in Byte /\ 0 \in Byte /\ 12 \in Byte /\ 15 \in Byte /\ 30 \in Byte /\ 2 \in Byte
  BY <1>2, <1>3, <1>4, SmallBytes DEF CALL_IN_PARMS
<1> HIDE DEF hour
<1>7. a \in Seq(Byte) /\ Len(a) = 7
  BY <1>5, <1>6
<1>8. b \in Seq(Byte) /\ Len(b) = 14
  BY <1>5, <1>6
<1>9. a[1] = CALL_IN_PARMS /\ a[2] = now.year /\ a[5] = hour
  OBVIOUS
<1>10. b[2] = 12 /\ b[7] = now.year + 1 /\ b[8] = now.month /\ b[9] = now.day
  OBVIOUS
<1> HIDE DEF a, b, t
<1>11. t \in Seq(Byte) /\ Joins(t, a, 7, b, 14)
  BY <1>1, <1>7, <1>8, Joined
<1>12. t[1] = a[1] /\ t[2] = a[2] /\ t[5] = a[5]
  BY <1>11 DEF Joins
<1>13. t[7 + 2] = b[2] /\ t[7 + 7] = b[7] /\ t[7 + 8] = b[8] /\ t[7 + 9] = b[9]
  BY <1>11 DEF Joins
<1>14. QED
  BY <1>9, <1>10, <1>11, <1>12, <1>13 DEF hour, t

\* The other tables are just bytes, with their number in front.
Begins(t, id) == t \in Seq(Byte) /\ t # <<>> /\ t[1] = id

\* A table that is put together begins with its number.
LEMMA NumberedTable ==
  ASSUME NEW id \in Byte, NEW x \in Seq(Byte), NEW t, t = <<id>> \o x
  PROVE  Begins(t, id) /\ Len(t) = 1 + Len(x)
<1> DEFINE h == <<id>>
<1>1. h \in Seq(Byte) /\ Len(h) = 1 /\ h[1] = id /\ Len(x) \in Nat
  BY OneByte, LenProperties DEF Bytes
<1> HIDE DEF h
<1>2. h \o x \in Seq(Byte) /\ Len(h \o x) = Len(h) + Len(x) /\ Joins(h \o x, h, Len(h), x, Len(x))
  BY <1>1, Joined
<1>3. (h \o x)[1] = id
  BY <1>1, <1>2 DEF Joins
<1>4. h \o x # <<>>
  BY <1>1, <1>2, EmptySeq
<1>5. QED
  BY <1>1, <1>2, <1>3, <1>4 DEF Begins, h

\* It still does with more bytes behind it.
LEMMA BeginsMore ==
  ASSUME NEW a, NEW id, Begins(a, id), NEW x \in Seq(Byte)
  PROVE  Begins(a \o x, id) /\ Len(a \o x) = Len(a) + Len(x)
<1> DEFINE m == Len(a)
           n == Len(x)
           c == a \o x
<1>1. a \in Seq(Byte) /\ m \in Nat /\ m # 0 /\ n \in Nat
  BY EmptySeq, LenProperties DEF Begins
<1>2. c \in Seq(Byte) /\ Len(c) = m + n /\ Joins(c, a, m, x, n)
  BY <1>1, Joined
<1> HIDE DEF m, n, c
<1>3. 1 \in 1..m /\ Len(c) # 0
  BY <1>1, <1>2
<1>4. c[1] = a[1]
  BY <1>2, <1>3 DEF Joins
<1>5. c # <<>>
  BY <1>3, EmptySeq
<1>6. Begins(c, id)
  BY <1>2, <1>4, <1>5 DEF Begins
<1>7. QED
  BY <1>2, <1>6 DEF c, m, n

\* generate_call_stat_parameters makes DLOG_MT_CALL_STAT_PARMS.
LEMMA CallStatParameters == Begins(generate_call_stat_parameters, CALL_STAT_PARMS)
<1> DEFINE a == <<CALL_STAT_PARMS, 0, 0, 1, 1>>
           b == Zeros(4 * 2)
           c == <<6, 40, 0, 0, 255, 0>>
<1>1. CALL_STAT_PARMS \in Byte /\ 0 \in Byte /\ 1 \in Byte /\ 6 \in Byte /\ 40 \in Byte
  BY SmallBytes DEF CALL_STAT_PARMS
<1>2. 255 \in Byte
  BY ByteDef
<1>3. a \in Seq(Byte) /\ c \in Seq(Byte)
  BY <1>1, <1>2
<1>4. Begins(a, CALL_STAT_PARMS)
  BY <1>3 DEF Begins
<1>5. b \in Seq(Byte)
  BY ZerosType DEF Bytes
<1> HIDE DEF a, b, c
<1>6. Begins(a \o b, CALL_STAT_PARMS)
  BY <1>4, <1>5, BeginsMore
<1>7. Begins((a \o b) \o c, CALL_STAT_PARMS)
  BY <1>6, <1>3, BeginsMore
<1>8. QED
  BY <1>7 DEF generate_call_stat_parameters, a, b, c

\* generate_comm_stat_parameters makes DLOG_MT_COMM_STAT_PARMS.
LEMMA CommStatParameters == Begins(generate_comm_stat_parameters, COMM_STAT_PARMS)
<1> DEFINE a == <<COMM_STAT_PARMS>>
           words == <<100, 50, 100, 50, 0, 0, 10, 5, 600, 100>>
           b == LE16s(words)
           c == <<1, 0, 0, 1>>
           d == Zeros(4 * 2)
<1>1. COMM_STAT_PARMS \in Byte /\ 0 \in Byte /\ 1 \in Byte
  BY SmallBytes DEF COMM_STAT_PARMS
<1>2. a \in Seq(Byte) /\ c \in Seq(Byte)
  BY <1>1
<1>3. Begins(a, COMM_STAT_PARMS)
  BY <1>2 DEF Begins
<1>4. b \in Seq(Byte)
  <2>1. \A n \in {100, 50, 0, 10, 5, 600} : n \in Checksum
    BY ChecksumDef
  <2>2. words \in Seq(Checksum)
    BY <2>1
  <2> HIDE DEF words
  <2>3. QED
    BY <2>2, LE16sType
<1>5. d \in Seq(Byte)
  BY ZerosType DEF Bytes
<1> HIDE DEF a, b, c, d
<1>6. Begins(a \o b, COMM_STAT_PARMS)
  BY <1>3, <1>4, BeginsMore
<1>7. Begins((a \o b) \o c, COMM_STAT_PARMS)
  BY <1>6, <1>2, BeginsMore
<1>8. Begins(((a \o b) \o c) \o d, COMM_STAT_PARMS)
  BY <1>7, <1>5, BeginsMore
<1>9. QED
  BY <1>8 DEF generate_comm_stat_parameters, a, b, c, d

\* generate_user_if_parameters makes DLOG_MT_USER_IF_PARMS.
LEMMA UserIfParameters == Begins(generate_user_if_parameters, USER_IF_PARMS)
<1> DEFINE a == <<USER_IF_PARMS>>
           v == <<450, 450, 450, 450, 450, 3000, 4500, 300, 1100, 100, 1000, 200, 1200>>
           w == <<450, 400, 300, 450, 4000, 6000, 50, 300, 30, 5, 200, 125, 125, 0, 0, 600, 600,
                  15000, 45, 10>>
           b == LE16s(v)
           c == <<3>>
           d == LE16s(w)
<1>1. USER_IF_PARMS \in Byte /\ 3 \in Byte
  BY SmallBytes DEF USER_IF_PARMS
<1>2. a \in Seq(Byte) /\ c \in Seq(Byte)
  BY <1>1
<1>3. Begins(a, USER_IF_PARMS)
  BY <1>2 DEF Begins
<1>4. b \in Seq(Byte) /\ d \in Seq(Byte)
  <2>1. \A n \in {450, 3000, 4500, 300, 1100, 100, 1000, 200, 1200, 400, 4000, 6000, 50, 30, 5,
          125, 0,
                  600, 15000, 45, 10} : n \in Checksum
    BY ChecksumDef
  <2>2. v \in Seq(Checksum)
    BY <2>1
  <2>3. w \in Seq(Checksum)
    BY <2>1
  <2> HIDE DEF v, w
  <2>4. QED
    BY <2>2, <2>3, LE16sType
<1> HIDE DEF a, b, c, d
<1>5. Begins(a \o b, USER_IF_PARMS)
  BY <1>3, <1>4, BeginsMore
<1>6. Begins((a \o b) \o c, USER_IF_PARMS)
  BY <1>5, <1>2, BeginsMore
<1>7. Begins(((a \o b) \o c) \o d, USER_IF_PARMS)
  BY <1>6, <1>4, BeginsMore
<1>8. QED
  BY <1>7 DEF generate_user_if_parameters, a, b, c, d

IsPadded(id, version, size) ==
    id = CALL_SCREEN_LIST /\ MTR_1_9 <= version /\ version < MTR_1_20 /\ size + 1 = 3061

\* A table loaded from a file begins with its number, and has the size of the file and one byte,
\* or 340 more where the terminal wants a table longer than the file is.
LEMMA LoadedTable ==
  ASSUME NEW id \in Byte, NEW version, NEW size \in Nat, NEW byte \in Byte
  PROVE  /\ Begins(load_mm_table(id, version, size, byte), id)
         /\ Len(load_mm_table(id, version, size, byte))
              = (1 + size) + (IF IsPadded(id, version, size) THEN 340 ELSE 0)
<1> DEFINE padded == id = CALL_SCREEN_LIST /\ MTR_1_9 <= version /\ version < MTR_1_20
             /\ size + 1 = 3061
           n == IF padded THEN 340 ELSE 0
           h == <<id>>
           f == [i \in 1..size |-> byte]
           z == Zeros(n)
<1>1. load_mm_table(id, version, size, byte) = (h \o f) \o z
  BY DEF load_mm_table
<1> HIDE DEF padded
<1>2. n \in Nat
  OBVIOUS
<1> HIDE DEF n
<1>3. z \in Seq(Byte) /\ Len(z) = n
  BY <1>2, ZerosType DEF Bytes
<1>4. Begins(h, id) /\ Len(h) = 1
  BY DEF Begins
<1>5. f \in Seq(Byte) /\ Len(f) = size
  OBVIOUS
<1> HIDE DEF h, f, z
<1>6. Begins(h \o f, id) /\ Len(h \o f) = 1 + size
  BY <1>4, <1>5, BeginsMore
<1>7. Begins((h \o f) \o z, id) /\ Len((h \o f) \o z) = (1 + size) + n
  BY <1>3, <1>6, BeginsMore
<1>8. QED
  BY <1>1, <1>7 DEF n, padded, IsPadded

\* The model is written over a byte that is there.
LEMMA ModelType == Model \in Nat
<1> DEFINE models == {m \in Models : terminal_type \in OfModel[m]}
<1>1. models = {} \/ (CHOOSE m \in models : TRUE) \in Models
  OBVIOUS
<1>2. \A m \in Models : m \in Nat
  BY DEF Models, TERM_COIN_BASIC, TERM_INMATE, TERM_DESK, TERM_CARD
<1>3. QED
  BY <1>1, <1>2 DEF Model, term_type_to_model, TERM_INVALID, TERM_MULTIPAY

\* The version of the tables is one of those there are, or unknown.
LEMMA VersionType == Version \in Versions \cup {MTR_UNKNOWN}
BY DEF Version, term_type_to_mtr

\* What the download changes for the model of the terminal changes neither number nor size.
LEMMA OfModelKept ==
  ASSUME NEW t, NEW id, Begins(t, id)
  PROVE  /\ Begins(OfModelSent(t), id) /\ Len(OfModelSent(t)) = Len(t)
         /\ id # FCONFIG_OPTS => OfModelSent(t) = t
<1>1. t \in Seq(Byte) /\ t # <<>> /\ t[1] = id /\ Len(t) \in Nat
  BY LenProperties DEF Begins
<1>2. CASE t[1] # FCONFIG_OPTS
  BY <1>1, <1>2 DEF OfModelSent, Begins
<1>3. CASE t[1] = FCONFIG_OPTS
  <2> DEFINE b == Model % 16
             n == Len(t)
             u == [t EXCEPT ![2] = b]
  <2>1. b \in Byte
    <3>1. b \in Nat /\ b < 256
      BY ModelType
    <3>2. QED
      BY <3>1, ByteDef
  <2> HIDE DEF b
  <2>2. t \in [1..n -> Byte] /\ n # 0
    BY <1>1, LenProperties, EmptySeq
  <2>3. n \in Nat /\ 1 \in 1..n
    BY <1>1, <2>2
  <2>4. u \in [1..n -> Byte] /\ u[1] = t[1]
    <3>1. t \in [1..n -> Byte] /\ b \in Byte /\ 1 \in 1..n
      BY <2>1, <2>2, <2>3
    <3> HIDE DEF n
    <3>2. u \in [1..n -> Byte]
      BY <3>1
    <3>3. u[1] = t[1]
      BY <3>1
    <3>4. QED
      BY <3>2, <3>3
  <2> HIDE DEF n, u
  <2>5. u \in Seq(Byte) /\ Len(u) = n
    BY <2>3, <2>4
  <2>6. u # <<>>
    BY <2>2, <2>5, EmptySeq
  <2>7. OfModelSent(t) = u
    BY <1>3 DEF OfModelSent, u, b
  <2>8. QED
    BY <1>1, <1>3, <2>4, <2>5, <2>6, <2>7 DEF Begins, n
<1>4. QED
  BY <1>2, <1>3

\* A sequence with a length that is not 0 has an element.
LEMMA NotEmpty ==
  ASSUME NEW T, NEW s \in Seq(T), Len(s) \in Nat \ {0}
  PROVE  s # <<>>
BY EmptySeq

\* The numbers to call are digits, however many the options gave.
LEMMA NccNumbers ==
  ASSUME NEW ncc \in Seq(Seq(Decimal)), Len(ncc) <= 2
  PROVE  ncc_number(ncc)[1] \in Seq(Decimal) /\ ncc_number(ncc)[2] \in Seq(Decimal)
<1> DEFINE T == Seq(Decimal)
           E == <<>>
<1>1. E \in T
  BY EmptySeq
<1> HIDE DEF T, E
<1>2. Len(ncc) \in {0, 1, 2} /\ \A i \in 1..Len(ncc) : ncc[i] \in T
  <2>1. ncc \in Seq(T)
    BY DEF T
  <2>2. \A i \in 1..Len(ncc) : ncc[i] \in T
    BY <2>1, ElementOfSeq
  <2>3. Len(ncc) \in Nat
    BY <2>1, LenProperties
  <2>4. Len(ncc) \in {0, 1, 2}
    <3> DEFINE n == Len(ncc)
    <3>1. n \in Nat /\ n <= 2
      BY <2>3
    <3> HIDE DEF n
    <3>2. n \in {0, 1, 2}
      BY <3>1
    <3>3. QED
      BY <3>2 DEF n
  <2>5. QED
    BY <2>2, <2>4
<1>3. CASE Len(ncc) = 0
  <2>1. ncc_number(ncc) = <<E, E>>
    BY <1>3 DEF ncc_number, E
  <2>2. QED
    BY <2>1, <1>1 DEF T
<1>4. CASE Len(ncc) = 1
  <2>1. ncc_number(ncc) = <<ncc[1], ncc[1]>>
    BY <1>4 DEF ncc_number
  <2>2. QED
    BY <2>1, <1>2, <1>4 DEF T
<1>5. CASE Len(ncc) = 2
  <2>1. ncc_number(ncc) = ncc
    BY <1>5 DEF ncc_number
  <2>2. QED
    BY <2>1, <1>2, <1>5 DEF T
<1>6. QED
  BY <1>2, <1>3, <1>4, <1>5

\* What main lets pass, and what there is for a download.
LEMMA TheSetup ==
  ASSUME setup \in Setups
  PROVE  /\ IsTerminal(setup) /\ HasOptions(setup) /\ IsTime(setup.now)
         /\ setup.queue \in Seq(Byte) /\ Len(setup.queue) <= PKT_TABLE_DATA_LEN_MAX
BY SetupsAssumption

\* A table that is loaded has a file, and the file a size.
LEMMA FileSizeType ==
  ASSUME setup \in Setups, NEW id, HasFile(id)
  PROVE  id \in Byte /\ FileSizes[setup.dir][id] \in Nat
<1>1. setup.dir \in DOMAIN FileSizes
  BY TheSetup DEF HasOptions
<1>2. QED
  BY <1>1, SetupsAssumption DEF HasFile

\* Each table of the download is made by the generator for its number.
LEMMA TableMade ==
  ASSUME setup \in Setups
  PROVE  /\ TableFor(INSTALL_PARAMS) = generate_install_parameters(setup.access, setup.key)
         /\ TableFor(CALL_IN_PARMS) = generate_call_in_parameters(setup.now)
         /\ HasShortNumbers => TableFor(NCC_TERM_PARAMS)
                                 = generate_term_access_parameters_mtr1(terminal_id,
                                   ncc_number(setup.ncc))
         /\ ~HasShortNumbers => TableFor(NCC_TERM_PARAMS)
                                 = generate_term_access_parameters(terminal_id,
                                   ncc_number(setup.ncc))
         /\ TableFor(CALL_STAT_PARMS) = generate_call_stat_parameters
         /\ TableFor(COMM_STAT_PARMS) = generate_comm_stat_parameters
         /\ TableFor(END_DATA) = generate_dlog_mt_end_data
         /\ ~HasFile(USER_IF_PARMS) => TableFor(USER_IF_PARMS) = generate_user_if_parameters
         /\ \A id : HasFile(id) /\ id \notin Generated =>
                TableFor(id) = load_mm_table(id, Version, FileSizes[setup.dir][id], FILE_BYTE)
<1> USE DEF INSTALL_PARAMS, CALL_IN_PARMS, NCC_TERM_PARAMS, CALL_STAT_PARMS, COMM_STAT_PARMS,
              END_DATA,
            USER_IF_PARMS
<1>1. TableFor(INSTALL_PARAMS) = generate_install_parameters(setup.access, setup.key)
  BY DEF TableFor
<1>2. TableFor(CALL_IN_PARMS) = generate_call_in_parameters(setup.now)
  BY DEF TableFor
<1>3. HasShortNumbers => TableFor(NCC_TERM_PARAMS)
                           = generate_term_access_parameters_mtr1(terminal_id,
                             ncc_number(setup.ncc))
  BY DEF TableFor
<1>4. ~HasShortNumbers => TableFor(NCC_TERM_PARAMS)
                           = generate_term_access_parameters(terminal_id, ncc_number(setup.ncc))
  BY DEF TableFor
<1>5. TableFor(CALL_STAT_PARMS) = generate_call_stat_parameters
  BY DEF TableFor
<1>6. TableFor(COMM_STAT_PARMS) = generate_comm_stat_parameters
  BY DEF TableFor
<1>7. TableFor(END_DATA) = generate_dlog_mt_end_data
  BY DEF TableFor
<1>8. ~HasFile(USER_IF_PARMS) => TableFor(USER_IF_PARMS) = generate_user_if_parameters
  BY DEF TableFor
<1>9. \A id : HasFile(id) /\ id \notin Generated =>
                TableFor(id) = load_mm_table(id, Version, FileSizes[setup.dir][id], FILE_BYTE)
  BY DEF TableFor, Generated
<1>10. QED
  BY <1>1, <1>2, <1>3, <1>4, <1>5, <1>6, <1>7, <1>8, <1>9

\* Whatever table the download makes begins with its number.
LEMMA TableForBegins ==
  ASSUME setup \in Setups, Bytes(TerminalBytes(terminal_id), 5), NEW id, Available(id)
  PROVE  Begins(TableFor(id), id)
<1>1. CASE id = INSTALL_PARAMS
  <2> DEFINE t == generate_install_parameters(setup.access, setup.key)
  <2>1. /\ setup.access \in Seq(Decimal) /\ Len(setup.access) \in {0, 7}
        /\ setup.key \in Seq(Decimal) /\ Len(setup.key) \in {0, 10}
    BY TheSetup DEF HasOptions
  <2>2. t \in Seq(Byte) /\ t # <<>> /\ t[1] = INSTALL_PARAMS
    BY <2>1, InstallParameters
  <2>3. QED
    BY <2>2, <1>1, TableMade DEF Begins
<1>2. CASE id = CALL_IN_PARMS
  <2> DEFINE t == generate_call_in_parameters(setup.now)
  <2>1. t \in Seq(Byte) /\ t[1] = CALL_IN_PARMS
    BY TheSetup, CallInParameters
  <2>2. t # <<>>
    <3>1. t = <<CALL_IN_PARMS, setup.now.year, setup.now.month, setup.now.day,
            CallInHour(setup.now.hour),
                setup.now.min, setup.now.sec>>
              \o <<0, 12, 0, 15, 0, 30, setup.now.year + 1, setup.now.month, setup.now.day, 2, 0,
                0, 0, 0>>
      BY DEF generate_call_in_parameters
    <3>2. QED
      BY <3>1
  <2>3. QED
    BY <2>1, <2>2, <1>2, TableMade DEF Begins
<1>3. CASE id = NCC_TERM_PARAMS
  <2> DEFINE ncc == ncc_number(setup.ncc)
             a == generate_term_access_parameters(terminal_id, ncc)
             b == generate_term_access_parameters_mtr1(terminal_id, ncc)
  <2>1. ncc[1] \in Seq(Decimal) /\ ncc[2] \in Seq(Decimal)
    BY TheSetup, NccNumbers DEF HasOptions
  <2>2. TableFor(id) = a \/ TableFor(id) = b
    BY <1>3, TableMade
  <2> HIDE DEF ncc
  <2>3. /\ Bytes(a, (6 + 2 * 10) + 22) /\ a[1] = NCC_TERM_PARAMS
        /\ Bytes(b, (6 + 2 * 6) + 0) /\ b[1] = NCC_TERM_PARAMS
    BY <2>1, TermAccessParameters DEF TermParmsAre
  <2> HIDE DEF a, b
  <2>4. a # <<>> /\ b # <<>>
    <3>1. Len(a) = 48 /\ Len(b) = 18 /\ a \in Seq(Byte) /\ b \in Seq(Byte)
      BY <2>3 DEF Bytes
    <3>2. Len(a) \in Nat \ {0} /\ Len(b) \in Nat \ {0}
      BY <3>1
    <3>3. a # <<>> /\ b # <<>>
      BY <3>1, <3>2, NotEmpty
    <3>4. QED
      BY <3>3
  <2>5. QED
    BY <1>3, <2>2, <2>3, <2>4 DEF Begins, Bytes
<1>4. CASE id = CALL_STAT_PARMS
  BY <1>4, CallStatParameters, TableMade
<1>5. CASE id = COMM_STAT_PARMS
  BY <1>5, CommStatParameters, TableMade
<1>6. CASE id = END_DATA
  <2>1. END_DATA \in Byte
    BY SmallBytes DEF END_DATA
  <2>2. Begins(<<END_DATA>>, END_DATA)
    BY <2>1 DEF Begins
  <2>3. QED
    BY <2>2, <1>6, TableMade DEF generate_dlog_mt_end_data
<1>7. CASE id = USER_IF_PARMS /\ ~HasFile(id)
  BY <1>7, UserIfParameters, TableMade
<1>8. CASE HasFile(id) /\ id \notin Generated
  <2>1. id \in Byte /\ FileSizes[setup.dir][id] \in Nat
    BY <1>8, FileSizeType
  <2>2. FILE_BYTE \in Byte
    BY SmallBytes DEF FILE_BYTE
  <2> DEFINE size == FileSizes[setup.dir][id]
  <2>3. size \in Nat
    BY <2>1
  <2>4. TableFor(id) = load_mm_table(id, Version, size, FILE_BYTE)
    BY <1>8, TableMade
  <2> HIDE DEF size
  <2>5. Begins(load_mm_table(id, Version, size, FILE_BYTE), id)
    BY <2>1, <2>2, <2>3, LoadedTable
  <2>6. QED
    BY <2>4, <2>5
<1>9. QED
  BY <1>1, <1>2, <1>3, <1>4, <1>5, <1>6, <1>7, <1>8 DEF Available, Generated

\* A piece and the one behind it make a longer piece.
LEMMA SubSeqJoins ==
  ASSUME NEW T, NEW s \in Seq(T), NEW a \in Nat, NEW n \in Nat, a + n <= Len(s)
  PROVE  SubSeq(s, 1, a) \o SubSeq(s, a + 1, a + n) = SubSeq(s, 1, a + n)
<1> DEFINE l == Len(s)
           zero == 0
           c == SubSeq(s, zero + 1, zero + a)
           d == SubSeq(s, a + 1, a + n)
           e == SubSeq(s, zero + 1, zero + (a + n))
           cd == c \o d
<1>1. zero \in Nat /\ a + n \in Nat /\ l \in Nat /\ zero + a <= l /\ zero + (a + n) <= l
  BY LenProperties
<1> HIDE DEF zero, l
<1>2. c \in Seq(T) /\ Len(c) = a /\ Piece(c, s, zero, a)
  BY <1>1, Cut DEF l
<1>3. d \in Seq(T) /\ Len(d) = n /\ Piece(d, s, a, n)
  BY <1>1, Cut DEF l
<1>4. e \in Seq(T) /\ Len(e) = a + n /\ Piece(e, s, zero, a + n)
  <2> DEFINE k == a + n
  <2>1. k \in Nat /\ zero + k <= l
    BY <1>1
  <2> HIDE DEF k
  <2>2. SubSeq(s, zero + 1, zero + k) \in Seq(T) /\ Len(SubSeq(s, zero + 1, zero + k)) = k
        /\ Piece(SubSeq(s, zero + 1, zero + k), s, zero, k)
    BY <2>1, <1>1, Cut DEF l
  <2>3. QED
    BY <2>2 DEF k
<1> HIDE DEF c, d, e
<1>5. cd \in Seq(T) /\ Len(cd) = a + n /\ Joins(cd, c, a, d, n)
  BY <1>2, <1>3, Joined
<1> HIDE DEF cd
<1>6. ASSUME NEW i \in 1..a + n PROVE cd[i] = e[i]
  <2>1. e[i] = s[i]
    BY <1>4 DEF Piece, zero
  <2>2. CASE i <= a
    <3>1. cd[i] = c[i] /\ c[i] = s[i]
      BY <2>2, <1>2, <1>5 DEF Piece, Joins, zero
    <3>2. QED
      BY <2>1, <3>1
  <2>3. CASE ~(i <= a)
    <3> DEFINE j == i - a
    <3>1. j \in 1..n /\ a + j = i
      BY <2>3
    <3> HIDE DEF j
    <3>2. cd[a + j] = d[j] /\ d[j] = s[a + j]
      BY <3>1, <1>3, <1>5 DEF Piece, Joins
    <3>3. QED
      BY <2>1, <3>1, <3>2
  <2>4. QED
    BY <2>2, <2>3
<1>7. cd = e
  BY <1>4, <1>5, <1>6, SeqEqual
<1>8. c = SubSeq(s, 1, a) /\ e = SubSeq(s, 1, a + n)
  BY DEF c, e, zero
<1>9. QED
  BY <1>7, <1>8 DEF cd, d

---------------------------------------------------------------------------
(* The packets of a table *)

Count(n) == (n + ChunkSize - 1) \div ChunkSize
ChunkOf(bytes, i) == SubSeq(bytes, (i - 1) * ChunkSize + 1, Min({i * ChunkSize, Len(bytes)}))

\* send_mm_table, to a terminal with a number of these bytes.
PacketsOf(id, bytes) ==
    [i \in 1..Count(Len(bytes)) |-> Frame([flags |-> 0, payload |-> id \o ChunkOf(bytes, i)])]

\* Where a piece begins, and how long it is.
IsPlace(n, i, m) ==
    /\ (i - 1) * ChunkSize \in Nat
    /\ Min({i * ChunkSize, n}) = (i - 1) * ChunkSize + m
    /\ (i - 1) * ChunkSize + m <= n

\* Where the i-th packet of a table begins, and how far it goes.
LEMMA ChunkPlace ==
  ASSUME NEW n \in Nat, NEW i \in 1..Count(n)
  PROVE  \E m \in 1..ChunkSize : IsPlace(n, i, m)
<1> DEFINE S == {i * ChunkSize, n}
           l == Min(S)
           a == (i - 1) * ChunkSize
<1>0. ChunkSize = 245
  BY DEF ChunkSize, PKT_TABLE_DATA_LEN_MAX
<1>1. i \in Nat /\ i >= 1 /\ a \in Nat /\ a < n /\ i * ChunkSize = a + 245
  <2>1. i \in Nat /\ i >= 1 /\ i <= (n + 244) \div 245
    BY <1>0 DEF Count
  <2>2. a = 245 * (i - 1) /\ i * ChunkSize = 245 * i
    BY <2>1, <1>0
  <2>3. 245 * ((n + 244) \div 245) <= n + 244
    OBVIOUS
  <2>4. QED
    BY <2>1, <2>2, <2>3
<1>2. S \subseteq Nat /\ S # {} /\ i * ChunkSize \in S /\ n \in S
  BY <1>1
<1> HIDE DEF a
<1>3. l \in S /\ l <= n /\ l <= i * ChunkSize
  <2> HIDE DEF S
  <2>1. QED
    BY <1>2, MinProperties
<1> HIDE DEF l
<1>4. l \in {a + 245, n} /\ l <= n /\ l <= a + 245
  BY <1>1, <1>3
<1>5. l - a \in 1..245 /\ a + (l - a) = l
  BY <1>1, <1>4
<1>6. QED
  BY <1>0, <1>1, <1>4, <1>5 DEF a, l, IsPlace

\* A packet holds from 1 to ChunkSize bytes of a table.
LEMMA ChunkCut ==
  ASSUME NEW bytes \in Seq(Byte), NEW i \in 1..Count(Len(bytes))
  PROVE  ChunkOf(bytes, i) \in Seq(Byte) /\ Len(ChunkOf(bytes, i)) \in 1..ChunkSize
<1> DEFINE n == Len(bytes)
           a == (i - 1) * ChunkSize
<1>1. n \in Nat /\ i \in 1..Count(n)
  BY LenProperties
<1>20. PICK m \in 1..ChunkSize : IsPlace(n, i, m)
  <2> HIDE DEF n
  <2>1. QED
    BY <1>1, ChunkPlace
<1>2. a \in Nat /\ Min({i * ChunkSize, n}) = a + m /\ a + m <= n
  BY <1>20 DEF IsPlace
<1>3. m \in Nat /\ ChunkOf(bytes, i) = SubSeq(bytes, a + 1, a + m)
  <2>1. ChunkSize \in Nat
    BY DEF ChunkSize, PKT_TABLE_DATA_LEN_MAX
  <2>2. ChunkOf(bytes, i) = SubSeq(bytes, a + 1, Min({i * ChunkSize, n}))
    BY DEF ChunkOf
  <2>3. m \in Nat
    BY <2>1
  <2>4. Min({i * ChunkSize, n}) = a + m
    BY <1>2
  <2> HIDE DEF a, n
  <2>5. QED
    BY <2>2, <2>3, <2>4
<1>4. a \in Nat /\ a + m <= Len(bytes)
  BY <1>2
<1> HIDE DEF a
<1>5. SubSeq(bytes, a + 1, a + m) \in Seq(Byte) /\ Len(SubSeq(bytes, a + 1, a + m)) = m
  BY <1>3, <1>4, Cut
<1>6. QED
  BY <1>2, <1>3, <1>5

\* The pieces put together are the table.
LEMMA ChunksFlatten ==
  ASSUME NEW bytes \in Seq(Byte)
  PROVE  FlattenSeq([i \in 1..Count(Len(bytes)) |-> ChunkOf(bytes, i)]) = bytes
<1> DEFINE n == Len(bytes)
           c == Count(n)
           s == [i \in 1..c |-> ChunkOf(bytes, i)]
           b == ChunkSize
<1>1. n \in Nat /\ c \in Nat /\ b = 245 /\ n <= c * b
  <2>1. n \in Nat /\ c = (n + 244) \div 245
    BY LenProperties DEF Count, ChunkSize, PKT_TABLE_DATA_LEN_MAX
  <2>2. n <= 245 * ((n + 244) \div 245) /\ (n + 244) \div 245 \in Nat
    BY <2>1
  <2> HIDE DEF c, n
  <2>3. QED
    BY <2>1, <2>2 DEF ChunkSize, PKT_TABLE_DATA_LEN_MAX
<1>2. \A i \in 1..c : ChunkOf(bytes, i) \in Seq(Byte)
  BY ChunkCut
<1> HIDE DEF c
<1>3. s \in Seq(Seq(Byte)) /\ Len(s) = c /\ \A i \in 1..c : s[i] = ChunkOf(bytes, i)
  BY <1>1, <1>2
<1> HIDE DEF s
<1>4. PICK f \in [0..c -> Seq(Byte)] : Flattens(f, s)
  BY <1>3, FlattenParts
<1>5. f[0] = <<>> /\ f[c] = FlattenSeq(s) /\ \A k \in 1..c : f[k] = f[k - 1] \o ChunkOf(bytes, k)
  BY <1>3, <1>4 DEF Flattens
<1>6. \A k \in 1..c : k * b < n + b
  <2>1. SUFFICES ASSUME NEW k \in 1..c PROVE 245 * k < n + 245
    BY <1>1
  <2>2. k <= (n + 244) \div 245 /\ k \in Nat
    BY DEF c, Count, ChunkSize, PKT_TABLE_DATA_LEN_MAX
  <2>3. 245 * ((n + 244) \div 245) <= n + 244
    BY <1>1
  <2>4. QED
    BY <2>2, <2>3, <1>1
<1> DEFINE upto(k) == Min({k * b, n})
           S == {k \in 0..c : f[k] = SubSeq(bytes, 1, upto(k))}
<1>7. upto(0) = 0 /\ upto(c) = n /\ \A k \in 0..c - 1 : upto(k) = k * b /\ k * b \in Nat
  <2>1. ASSUME NEW x \in Nat, NEW y \in Nat, x <= y PROVE Min({x, y}) = x /\ Min({y, x}) = x
    <3>1. {x, y} \subseteq Nat /\ {x, y} # {} /\ {y, x} = {x, y}
      OBVIOUS
    <3>2. Min({x, y}) \in {x, y} /\ Min({x, y}) <= x
      BY <3>1, MinProperties
    <3>3. Min({x, y}) = x
      BY <3>2, <2>1
    <3>4. QED
      BY <3>1, <3>3
  <2>2. 0 * b = 0 /\ c * b \in Nat
    BY <1>1
  <2>3. upto(0) = 0 /\ upto(c) = n
    <3> DEFINE z == 0
               e == c * b
    <3>0. z \in Nat /\ z <= n /\ e \in Nat /\ n <= e /\ n \in Nat
      BY <2>2, <1>1
    <3> HIDE DEF z, e, n
    <3>3. Min({z, n}) = z
      BY <2>1, <3>0
    <3>4. Min({e, n}) = n
      BY <2>1, <3>0
    <3>1. Min({0, n}) = 0 /\ Min({c * b, n}) = n
      BY <3>3, <3>4 DEF z, e
    <3>2. QED
      BY <3>1, <2>2
  <2>4. ASSUME NEW k \in 0..c - 1 PROVE upto(k) = k * b /\ k * b \in Nat
    <3>1. k + 1 \in 1..c /\ k \in Nat
      BY <1>1
    <3>2. (k + 1) * b < n + b
      BY <3>1, <1>6
    <3>3. k * b \in Nat /\ k * b <= n
      BY <3>1, <3>2, <1>1
    <3>4. Min({k * b, n}) = k * b
      <4> DEFINE z == k * b
      <4>1. z \in Nat /\ n \in Nat /\ z <= n
        BY <3>3, <1>1
      <4> HIDE DEF z, n, b
      <4>2. Min({z, n}) = z
        BY <4>1, <2>1
      <4>3. QED
        BY <4>2 DEF z
    <3>5. QED
      BY <3>3, <3>4
  <2>5. QED
    BY <2>3, <2>4
<1>8. 0 \in S
  <2>1. SubSeq(bytes, 1, 0) = <<>>
    <3> DEFINE e == SubSeq(bytes, 0 + 1, 0 + 0)
    <3>1. 0 \in Nat /\ 0 + 0 <= Len(bytes)
      BY <1>1
    <3>2. e \in Seq(Byte) /\ Len(e) = 0
      BY <3>1, Cut
    <3>3. e = <<>>
      BY <3>2, EmptySeq
    <3>4. QED
      BY <3>3
  <2> HIDE DEF upto
  <2>2. f[0] = SubSeq(bytes, 1, upto(0))
    BY <2>1, <1>5, <1>7
  <2>3. QED
    BY <2>2, <1>1
<1>9. ASSUME NEW k \in 0..c - 1, k \in S PROVE k + 1 \in S
  <2> DEFINE a == k * b
             i == k + 1
  <2>1. i \in 1..c /\ i \in 0..c /\ i - 1 = k /\ i \in Nat
    BY <1>1
  <2>2. a \in Nat /\ upto(k) = a
    BY <1>7
  <2>3. f[i] = f[k] \o ChunkOf(bytes, i)
    BY <1>5, <2>1
  <2> HIDE DEF i
  <2>30. PICK m \in 1..b : IsPlace(n, i, m)
    <3> HIDE DEF n
    <3>1. QED
      BY <1>1, <2>1, ChunkPlace DEF c
  <2>4. upto(i) = (i - 1) * b + m /\ (i - 1) * b + m <= n
    BY <2>30 DEF IsPlace
  <2>5. upto(i) = a + m /\ a + m <= n /\ m \in Nat
    BY <2>1, <2>4, <1>1
  <2>6. ChunkOf(bytes, i) = SubSeq(bytes, a + 1, a + m)
    BY <2>1, <2>5 DEF ChunkOf
  <2> HIDE DEF upto, a, n
  <2>7. f[k] = SubSeq(bytes, 1, a)
    BY <1>9, <2>2
  <2>8. SubSeq(bytes, 1, a) \o SubSeq(bytes, a + 1, a + m) = SubSeq(bytes, 1, a + m)
    BY <2>2, <2>5, SubSeqJoins DEF n
  <2>9. f[i] = SubSeq(bytes, 1, upto(i))
    BY <2>3, <2>5, <2>6, <2>7, <2>8
  <2>10. QED
    BY <2>1, <2>9 DEF i
<1>10. c \in S
  <2> HIDE DEF S
  <2>1. \A k \in 0..c : k \in S
    BY <1>1, <1>8, <1>9, UpTo
  <2>2. QED
    BY <2>1, <1>1
<1>11. f[c] = SubSeq(bytes, 1, Len(bytes))
  BY <1>10, <1>7
<1>12. SubSeq(bytes, 1, Len(bytes)) = bytes
  BY SubSeqFull
<1>13. QED
  BY <1>5, <1>11, <1>12 DEF s, c

Splits(s, m, a, n, b) == SubSeq(s, 1, m) = a /\ SubSeq(s, m + 1, m + n) = b

\* Joined sequences can be cut where they were joined.
LEMMA Halves ==
  ASSUME NEW T, NEW a \in Seq(T), NEW b \in Seq(T), NEW m \in Nat, NEW n \in Nat,
         Len(a) = m, Len(b) = n
  PROVE  Splits(a \o b, m, a, n, b)
<1> DEFINE E == <<>>
           zero == 0
           ab == a \o b
<1>1. E \in Seq(T) /\ Len(E) = zero /\ zero \in Nat
  BY EmptySeq
<1> HIDE DEF zero, E
<1>2. ab \in Seq(T)
  BY ConcatProperties
<1>3. (E \o a) \o b = ab /\ ab \o E = ab
  BY <1>2, ConcatEmptySeq DEF E
<1>4. SubSeq((E \o a) \o b, zero + 1, zero + m) = a
  BY <1>1, Middle
<1>5. SubSeq((a \o b) \o E, m + 1, m + n) = b
  BY <1>1, Middle
<1>6. SubSeq(ab, zero + 1, zero + m) = a /\ SubSeq(ab, m + 1, m + n) = b
  BY <1>3, <1>4, <1>5
<1> HIDE DEF ab
<1>7. SubSeq(ab, 1, m) = a
  BY <1>6 DEF zero
<1>8. QED
  BY <1>6, <1>7 DEF Splits, ab

Opened(p, id, bytes) ==
    /\ Len(p) = Count(Len(bytes)) /\ Len(p) \in Nat
    /\ \A k \in 1..Len(p) :
           LET payload == Payload(p[k])
           IN  /\ payload \in Seq(Byte) /\ Len(payload) > PKT_TABLE_ID_OFFSET
               /\ SubSeq(payload, 1, PKT_TABLE_ID_OFFSET) = id
               /\ SubSeq(payload, PKT_TABLE_ID_OFFSET + 1, Len(payload)) = ChunkOf(bytes, k)

\* The terminal finds its own number in each packet, and behind it the piece of the table.
LEMMA PacketsOpened ==
  ASSUME NEW id, Bytes(id, 5), NEW bytes \in Seq(Byte)
  PROVE  Opened(PacketsOf(id, bytes), id, bytes)
<1> DEFINE p == PacketsOf(id, bytes)
           c == Count(Len(bytes))
           m == PKT_TABLE_ID_OFFSET
<1>1. c \in Nat
  <2>1. Len(bytes) \in Nat
    BY LenProperties
  <2>2. QED
    BY <2>1 DEF Count, ChunkSize, PKT_TABLE_DATA_LEN_MAX
<1>2. id \in Seq(Byte) /\ Len(id) = m /\ m \in Nat /\ m = 5
  BY DEF Bytes, PKT_TABLE_ID_OFFSET
<1>3. 0 \in Byte
  BY ByteDef
<1>4. p = [i \in 1..c |-> Frame([flags |-> 0, payload |-> id \o ChunkOf(bytes, i)])]
  BY DEF PacketsOf
<1> HIDE DEF p
<1>5. ASSUME NEW k \in 1..c
      PROVE  /\ Payload(p[k]) \in Seq(Byte) /\ Len(Payload(p[k])) > m
             /\ SubSeq(Payload(p[k]), 1, m) = id
             /\ SubSeq(Payload(p[k]), m + 1, Len(Payload(p[k]))) = ChunkOf(bytes, k)
  <2> DEFINE b == ChunkOf(bytes, k)
             n == Len(b)
             ab == id \o b
             q == [flags |-> 0, payload |-> ab]
  <2>1. b \in Seq(Byte) /\ n \in 1..ChunkSize
    BY ChunkCut
  <2>0. ChunkSize \in Nat /\ ChunkSize = 245
    BY DEF ChunkSize, PKT_TABLE_DATA_LEN_MAX
  <2> HIDE DEF b
  <2>2. n \in Nat /\ n > 0 /\ n <= 245
    <3> HIDE DEF n
    <3>1. QED
      BY <2>0, <2>1
  <2>3. ab \in Seq(Byte) /\ Len(ab) = m + n
    <3>1. ab \in Seq(Byte) /\ Len(ab) = Len(id) + Len(b)
      BY <1>2, <2>1, ConcatProperties
    <3> HIDE DEF ab
    <3>2. QED
      BY <3>1, <1>2
  <2> HIDE DEF m
  <2>4. Splits(ab, m, id, n, b)
    <3> DEFINE l == n
    <3>1. l \in Nat /\ Len(b) = l /\ b \in Seq(Byte)
      BY <2>1, <2>2
    <3> HIDE DEF l
    <3>2. Splits(id \o b, m, id, l, b)
      BY <1>2, <3>1, Halves
    <3>3. QED
      BY <3>2 DEF l
  <2> HIDE DEF ab, n
  <2>5. IsPacket(q) /\ Len(q.payload) <= 250 /\ q = [flags |-> q.flags, payload |-> q.payload]
          /\ q.payload = ab
    BY <1>2, <1>3, <2>2, <2>3 DEF IsPacket
  <2>6. p[k] = Frame(q)
    BY <1>4 DEF ab, b
  <2> HIDE DEF q
  <2>7. Payload(p[k]) = ab
    BY <2>5, <2>6, PayloadOfFrame
  <2>8. Len(ab) > m
    BY <1>2, <2>2, <2>3
  <2>9. QED
    BY <2>3, <2>4, <2>7, <2>8 DEF Splits, b
<1>6. Len(p) = c
  BY <1>1, <1>4
<1>7. QED
  BY <1>1, <1>5, <1>6 DEF Opened, m, p

Rebuilt(p, bytes) ==
    FlattenSeq([k \in 1..Len(p) |->
        SubSeq(Payload(p[k]), PKT_TABLE_ID_OFFSET + 1, Len(Payload(p[k])))]) = bytes

\* The pieces put together are the table.
LEMMA PacketsRebuild ==
  ASSUME NEW id, Bytes(id, 5), NEW bytes \in Seq(Byte)
  PROVE  Rebuilt(PacketsOf(id, bytes), bytes)
<1> DEFINE p == PacketsOf(id, bytes)
           c == Count(Len(bytes))
           s == [k \in 1..Len(p) |-> SubSeq(Payload(p[k]), PKT_TABLE_ID_OFFSET + 1,
             Len(Payload(p[k])))]
           t == [k \in 1..c |-> ChunkOf(bytes, k)]
<1>1. Opened(p, id, bytes)
  BY PacketsOpened
<1> HIDE DEF p
<1>2. Len(p) = c
        /\ \A k \in 1..c : SubSeq(Payload(p[k]), PKT_TABLE_ID_OFFSET + 1, Len(Payload(p[k])))
                                     = ChunkOf(bytes, k)
  BY <1>1 DEF Opened
<1> HIDE DEF c
<1>3. s = t
  BY <1>2
<1>4. FlattenSeq(t) = bytes
  BY ChunksFlatten DEF c
<1>5. FlattenSeq(s) = bytes
  BY <1>3, <1>4
<1>6. QED
  BY <1>5 DEF Rebuilt, p

\* send_mm_table sends the packets that the table makes for the current terminal.
LEMMA SendsPackets ==
  ASSUME NEW bytes
  PROVE  send_mm_table(bytes) = PacketsOf(TerminalBytes(terminal_id), bytes)
BY DEF send_mm_table, send_mm_packet, PacketsOf, Count, ChunkOf

---------------------------------------------------------------------------
(* What is read from a packet, and what is answered *)

\* What the walk reads is a byte, behind the end of the packet too.
LEMMA AtType ==
  ASSUME got \in Seq(Received), taken \in 1..Len(got), NEW i \in Nat \ {0}
  PROVE  At(i) \in Byte
<1> DEFINE tail == <<Current.crc % 256, Current.crc \div 256, Current.end>>
           payload == Current.payload \o tail
<1>1. Current \in Records
  <2>1. got[taken] \in Received
    BY ElementOfSeq
  <2>2. QED
    BY <2>1 DEF Current, Received
<1>2. Current.payload \in Seq(Byte) /\ Current.crc \in Checksum /\ Current.end \in Byte
  BY <1>1 DEF Records
<1>3. Current.crc % 256 \in Byte /\ Current.crc \div 256 \in Byte
  BY <1>2, QuotientType
<1>4. tail \in Seq(Byte)
  BY <1>2, <1>3
<1> HIDE DEF tail
<1>5. payload \in Seq(Byte)
  BY <1>2, <1>4, ConcatProperties
<1>6. At(i) = IF i <= Len(payload) THEN payload[i] ELSE 0
  BY DEF At, tail
<1> HIDE DEF payload
<1>7. CASE i <= Len(payload)
  <2>1. i \in 1..Len(payload)
    BY <1>5, <1>7, LenProperties
  <2>2. QED
    BY <1>5, <1>6, <1>7, <2>1, ElementOfSeq
<1>8. CASE ~(i <= Len(payload))
  <2>1. 0 \in Byte
    BY ByteDef
  <2>2. QED
    BY <1>6, <1>8, <2>1
<1>9. QED
  BY <1>7, <1>8

\* A field that the walk reads is a sequence of bytes.
LEMMA FieldType ==
  ASSUME got \in Seq(Received), taken \in 1..Len(got), at \in Nat \ {0},
         NEW struct, IsTable(struct), NEW name, \E k \in 1..Len(struct) : struct[k][1] = name
  PROVE  Field(struct, name) \in Seq(Byte)
<1> DEFINE o == Offset(struct, name)
           w == Width(struct, name)
           f == [i \in 1..w |-> At(at + o + i - 1)]
<1>1. o \in Nat /\ w \in Nat
  BY FieldPlace
<1>2. Field(struct, name) = f
  BY DEF Field
<1> HIDE DEF o, w
<1>3. \A i \in 1..w : At(at + o + i - 1) \in Byte
  <2> SUFFICES ASSUME NEW i \in 1..w PROVE At(at + o + i - 1) \in Byte
    OBVIOUS
  <2>1. at + o + i - 1 \in Nat \ {0}
    BY <1>1
  <2>2. QED
    BY <2>1, AtType
<1>4. f \in Seq(Byte)
  BY <1>1, <1>3
<1>5. QED
  BY <1>2, <1>4

\* An answer: bytes, the first of which is the number of a reply, if there are any.
IsAnswer(s) == s \in Seq(Byte) /\ (s = <<>> \/ s[1] \in Replies)

\* The numbers of the replies are bytes.
LEMMA ReplyBytes == \A id \in Replies : id \in Byte
BY SmallBytes DEF Replies, TIME_SYNC, END_DATA, TABLE_UPD, CASH_BOX_STATUS, ALARM_ACK, MAINT_ACK,
   CDR_DETAILS_ACK, TRANS_DATA, RATE_RESPONSE, AUTH_RESP_CODE

\* No reply is one.
LEMMA NoAnswer == IsAnswer(<<>>)
<1>1. <<>> \in Seq(Byte)
  BY EmptySeq
<1>2. QED
  BY <1>1 DEF IsAnswer

\* An answer begins with a reply, and has any bytes behind it.
LEMMA AnswerMore ==
  ASSUME NEW id \in Replies, NEW x \in Seq(Byte)
  PROVE  IsAnswer(<<id>> \o x)
<1>1. id \in Byte
  BY ReplyBytes
<1>2. Begins(<<id>> \o x, id)
  BY <1>1, NumberedTable
<1>3. QED
  BY <1>2 DEF IsAnswer, Begins

\* Replies joined are one.
LEMMA AnswersJoined ==
  ASSUME NEW a, NEW b, IsAnswer(a), IsAnswer(b)
  PROVE  IsAnswer(a \o b)
<1>1. a \in Seq(Byte) /\ b \in Seq(Byte)
  BY DEF IsAnswer
<1>2. CASE a = <<>>
  BY <1>1, <1>2, ConcatEmptySeq
<1>3. CASE a # <<>>
  <2>1. Begins(a, a[1])
    BY <1>1, <1>3 DEF Begins
  <2>2. Begins(a \o b, a[1])
    BY <1>1, <2>1, BeginsMore
  <2>3. a[1] \in Replies
    BY <1>3 DEF IsAnswer
  <2>4. QED
    BY <2>2, <2>3 DEF IsAnswer, Begins
<1>4. QED
  BY <1>2, <1>3

\* The number of a reply alone is one.
LEMMA SingleAnswers ==
  \A id \in Replies : IsAnswer(<<id>>)
<1> SUFFICES ASSUME NEW id \in Replies PROVE IsAnswer(<<id>>)
  OBVIOUS
<1>1. id \in Byte
  BY ReplyBytes
<1>2. QED
  BY <1>1 DEF IsAnswer

\* The time is one: the year since 1900, month, day and time fit into bytes.
LEMMA TimeSyncAnswer ==
  ASSUME NEW now, IsTime(now)
  PROVE  IsAnswer(<<TIME_SYNC, now.year, now.month, now.day, now.hour, now.min, now.sec,
           now.wday + 1, END_DATA>>)
<1> DEFINE s == <<TIME_SYNC, now.year, now.month, now.day, now.hour, now.min, now.sec,
             now.wday + 1, END_DATA>>
<1>1. now.year \in Byte
  <2> DEFINE year == 254
  <2>1. now.year \in 0..year /\ year \in Nat /\ year < 256
    BY DEF IsTime
  <2> HIDE DEF year
  <2>2. now.year \in Nat /\ now.year < 256
    BY <2>1
  <2>3. QED
    BY <2>2, ByteDef
<1>2. now.day \in 0..151
  <2>1. PICK d \in {28, 29, 30, 31} : DaysIn(now.month, now.year) = d
    BY DEF DaysIn
  <2>2. now.day \in 1..d
    BY <2>1 DEF IsTime
  <2>3. QED
    BY <2>2
<1>3. /\ now.month \in 0..151 /\ now.hour \in 0..151 /\ now.min \in 0..151 /\ now.sec \in 0..151
      /\ now.wday + 1 \in 0..151
  <2>1. now.month \in 1..12 /\ now.hour \in 0..23
    BY DEF IsTime
  <2>2. now.min \in 0..59
    BY DEF IsTime
  <2>3. now.sec \in 0..60 /\ now.wday \in 0..6
    BY DEF IsTime
  <2>4. now.month \in 0..151 /\ now.hour \in 0..151
    BY <2>1
  <2>5. now.min \in 0..151
    BY <2>2
  <2>6. now.sec \in 0..151 /\ now.wday + 1 \in 0..151
    BY <2>3
  <2>7. QED
    BY <2>4, <2>5, <2>6
<1>4. TIME_SYNC \in Replies /\ END_DATA \in Replies
  BY DEF Replies
<1>5. s \in Seq(Byte)
  BY <1>1, <1>2, <1>3, <1>4, SmallBytes, ReplyBytes
<1>6. s[1] = TIME_SYNC
  OBVIOUS
<1>7. QED
  BY <1>4, <1>5, <1>6 DEF IsAnswer

\* The emptied cash box is one.
LEMMA CashBoxAnswer == IsAnswer(CashBox)
<1> DEFINE a == <<CASH_BOX_STATUS, 90, 1, 1>>
           n == SizeOf(cashbox_status_univ_t) - 4
           z == Zeros(n)
<1>1. n \in Int
  BY Layouts, TableSize
<1> HIDE DEF n
<1>2. z \in Seq(Byte)
  <2>1. 0 \in Byte
    BY ByteDef
  <2>2. CASE n \in Nat
    BY <2>2, ZerosType DEF Bytes
  <2>3. CASE n \notin Nat
    <3>1. 1..n = 1..0
      BY <1>1, <2>3
    <3>2. z = Zeros(0)
      BY <3>1 DEF Zeros
    <3>3. QED
      BY <3>2, ZerosType DEF Bytes
  <2>4. QED
    BY <2>2, <2>3
<1>3. CASH_BOX_STATUS \in Replies
  BY DEF Replies
<1>4. CASH_BOX_STATUS \in Byte /\ 90 \in Byte /\ 1 \in Byte
  BY <1>3, SmallBytes, ReplyBytes
<1>5. Begins(a, CASH_BOX_STATUS)
  <2>1. a \in Seq(Byte)
    BY <1>4
  <2>2. QED
    BY <2>1 DEF Begins
<1> HIDE DEF a, z
<1>6. Begins(a \o z, CASH_BOX_STATUS)
  BY <1>2, <1>5, BeginsMore
<1>7. QED
  BY <1>3, <1>6 DEF CashBox, a, z, n, Begins, IsAnswer

\* The initial charge of a number dialed is one of 16 bits.
LEMMA ChargeType ==
  ASSUME NEW digits \in Seq(Digit16)
  PROVE  initial_charge(digits) \in Checksum
<1> DEFINE Digit(i) == IF i <= Len(digits) THEN digits[i] ELSE 65536 - 48
           sum == Digit(7) * 1000 + Digit(8) * 100 + Digit(9) * 10 + Digit(10)
<1>1. \A i \in Nat \ {0} : Digit(i) \in Nat
  <2> SUFFICES ASSUME NEW i \in Nat \ {0} PROVE Digit(i) \in Nat
    OBVIOUS
  <2>1. Len(digits) \in Nat
    BY LenProperties
  <2>2. CASE i <= Len(digits)
    <3>1. i \in 1..Len(digits)
      BY <2>1, <2>2
    <3>2. digits[i] \in Digit16
      BY <3>1, ElementOfSeq
    <3>3. QED
      BY <3>2, <2>2 DEF Digit16
  <2>3. CASE ~(i <= Len(digits))
    BY <2>3
  <2>4. QED
    BY <2>2, <2>3
<1>2. initial_charge(digits) = sum % 65536
  BY DEF initial_charge
<1>3. Digit(7) \in Nat /\ Digit(8) \in Nat /\ Digit(9) \in Nat /\ Digit(10) \in Nat
  BY <1>1
<1> HIDE DEF Digit
<1>4. sum \in Nat
  <2>1. PICK a, b, c, d : a = Digit(7) /\ b = Digit(8) /\ c = Digit(9) /\ d = Digit(10)
    OBVIOUS
  <2>2. a \in Nat /\ b \in Nat /\ c \in Nat /\ d \in Nat
    BY <1>3, <2>1
  <2>3. sum = a * 1000 + b * 100 + c * 10 + d
    BY <2>1
  <2> HIDE DEF sum
  <2>4. QED
    BY <2>2, <2>3
<1> HIDE DEF sum
<1>5. sum % 65536 \in Nat /\ sum % 65536 < 65536
  BY <1>4
<1>6. QED
  BY <1>2, <1>5, ChecksumDef

\* The rate is one, whether main rates calls or not.
LEMMA RateAnswer ==
  ASSUME NEW charge \in Checksum, NEW rating \in BOOLEAN
  PROVE  IsAnswer(<<RATE_RESPONSE, 7>>
           \o LE16s(IF rating THEN <<60, charge, 0, 0>> ELSE <<240, 100, 60, 25>>)
                    \o Zeros(2 * 8))
<1> DEFINE a == <<RATE_RESPONSE, 7>>
           rate == IF rating THEN <<60, charge, 0, 0>> ELSE <<240, 100, 60, 25>>
           b == LE16s(rate)
           z == Zeros(2 * 8)
<1>1. RATE_RESPONSE \in Replies
  BY DEF Replies
<1>2. RATE_RESPONSE \in Byte /\ 7 \in Byte
  BY <1>1, SmallBytes, ReplyBytes
<1>3. Begins(a, RATE_RESPONSE)
  <2>1. a \in Seq(Byte)
    BY <1>2
  <2>2. QED
    BY <2>1 DEF Begins
<1>4. rate \in Seq(Checksum)
  <2>1. \A n \in {60, 0, 240, 100, 25} : n \in Checksum
    BY ChecksumDef
  <2>2. <<60, charge, 0, 0>> \in Seq(Checksum)
    BY <2>1
  <2>3. <<240, 100, 60, 25>> \in Seq(Checksum)
    BY <2>1
  <2>4. QED
    BY <2>2, <2>3
<1> HIDE DEF rate
<1>5. b \in Seq(Byte)
  BY <1>4, LE16sType
<1>6. z \in Seq(Byte)
  BY ZerosType DEF Bytes
<1> HIDE DEF a, b, z
<1>7. Begins(a \o b, RATE_RESPONSE)
  BY <1>3, <1>5, BeginsMore
<1>8. Begins((a \o b) \o z, RATE_RESPONSE)
  BY <1>6, <1>7, BeginsMore
<1>9. QED
  BY <1>1, <1>8 DEF Begins, IsAnswer, a, b, z, rate

\* The authorization of a card is one.
LEMMA AuthAnswer ==
  ASSUME NEW raw \in Seq(Byte)
  PROVE  IsAnswer(<<AUTH_RESP_CODE, 0>> \o raw
           \o [i \in 1..12 |-> IF i <= 10 THEN 47 + i ELSE 54 + i])
<1> DEFINE a == <<AUTH_RESP_CODE, 0>>
           z == [i \in 1..12 |-> IF i <= 10 THEN 47 + i ELSE 54 + i]
<1>1. AUTH_RESP_CODE \in Replies
  BY DEF Replies
<1>2. AUTH_RESP_CODE \in Byte /\ 0 \in Byte
  BY <1>1, SmallBytes, ReplyBytes
<1>3. Begins(a, AUTH_RESP_CODE)
  <2>1. a \in Seq(Byte)
    BY <1>2
  <2>2. QED
    BY <2>1 DEF Begins
<1>4. z \in Seq(Byte)
  <2>1. \A i \in 1..12 : 47 + i \in Byte /\ 54 + i \in Byte
    BY ByteDef
  <2>2. QED
    BY <2>1
<1> HIDE DEF a, z
<1>5. Begins(a \o raw, AUTH_RESP_CODE)
  BY <1>3, BeginsMore
<1>6. Begins((a \o raw) \o z, AUTH_RESP_CODE)
  BY <1>4, <1>5, BeginsMore
<1>7. QED
  BY <1>1, <1>6 DEF Begins, IsAnswer, a, z

---------------------------------------------------------------------------
(* What the terminal sends *)

\* Sequences that are not empty make a sequence that is at least as long as there are of them.
LEMMA FlattenGrows ==
  ASSUME NEW T, NEW s \in Seq(Seq(T)), \A k \in 1..Len(s) : Len(s[k]) > 0
  PROVE  Len(FlattenSeq(s)) >= Len(s)
<1> DEFINE n == Len(s)
<1>1. n \in Nat
  BY LenProperties
<1>2. \A k \in 1..n : s[k] \in Seq(T) /\ Len(s[k]) > 0
  BY ElementOfSeq
<1>3. PICK f \in [0..n -> Seq(T)] : Flattens(f, s)
  BY FlattenParts
<1>4. f[0] = <<>> /\ f[n] = FlattenSeq(s) /\ \A k \in 1..n : f[k] = f[k - 1] \o s[k]
  BY <1>3 DEF Flattens
<1>30. \A k \in 0..n : f[k] \in Seq(T)
  <2>1. f \in [0..n -> Seq(T)]
    BY <1>3
  <2> HIDE DEF n
  <2>2. QED
    BY <2>1
<1> HIDE DEF n
<1> DEFINE S == {k \in 0..n : Len(f[k]) >= k}
<1>5. 0 \in S
  <2>1. Len(f[0]) = 0
    BY <1>4
  <2>2. QED
    BY <2>1, <1>1
<1>6. ASSUME NEW k \in 0..n - 1, k \in S PROVE k + 1 \in S
  <2>1. k + 1 \in 1..n /\ k + 1 \in 0..n /\ (k + 1) - 1 = k
    BY <1>1
  <2>2. f[k + 1] = f[k] \o s[k + 1] /\ s[k + 1] \in Seq(T) /\ Len(s[k + 1]) > 0 /\ f[k] \in Seq(T)
    <3>1. k \in 0..n
      BY <1>1
    <3>2. f[k] \in Seq(T)
      BY <3>1, <1>30
    <3>3. f[k + 1] = f[k] \o s[k + 1] /\ s[k + 1] \in Seq(T) /\ Len(s[k + 1]) > 0
      BY <1>2, <1>4, <2>1
    <3>4. QED
      BY <3>2, <3>3
  <2>3. Len(f[k + 1]) = Len(f[k]) + Len(s[k + 1]) /\ Len(f[k]) \in Nat /\ Len(s[k + 1]) \in Nat
    BY <2>2, ConcatProperties, LenProperties
  <2>4. Len(f[k + 1]) >= k + 1
    BY <2>2, <2>3, <1>6
  <2>5. QED
    BY <2>1, <2>4
<1>7. n \in S
  <2> HIDE DEF S
  <2>1. \A k \in 0..n : k \in S
    BY <1>1, <1>5, <1>6, UpTo
  <2>2. QED
    BY <2>1, <1>1
<1>8. QED
  BY <1>4, <1>7 DEF n

\* A sequence of bytes is one of whatever bytes are.
HoldsBytes(T) == \A b \in Byte : b \in T

\* Bytes are elements of any set that has the bytes.
LEMMA BytesIn ==
  ASSUME NEW T, HoldsBytes(T), NEW s \in Seq(Byte)
  PROVE  s \in Seq(T)
<1> DEFINE n == Len(s)
<1>1. n \in Nat /\ s \in [1..n -> Byte]
  BY LenProperties
<1> HIDE DEF n
<1>2. s \in [1..n -> T]
  BY <1>1 DEF HoldsBytes
<1>3. QED
  BY <1>1, <1>2

\* A table of a terminal has as many bytes as process_mm_table expects of it.
LEMMA TableBytesType ==
  ASSUME NEW T, HoldsBytes(T), NEW s, IsTerminal(s), NEW t, t.id \in Byte, t.fill \in Byte,
           NEW number \in T
  PROVE  TableBytes(s, t, number) \in Seq(T) /\ Len(TableBytes(s, t, number)) = SizeOnLine(t.id)
<1> DEFINE seq == Offset(dlog_mt_call_details_t, "seq")
           dialed == Offset(dlog_mt_rate_request_t, "phone_number")
           n == SizeOnLine(t.id)
           D(j) == s.dialed[j]
           B(i) == CASE i = 1 -> t.id
                     [] t.id = CALL_DETAILS /\ i = seq + 1 -> number
                     [] t.id = RATE_REQUEST /\ i - dialed \in 1..10 -> D(i - dialed)
                     [] OTHER -> t.fill
<1>1. n \in Nat
  BY SizeOnLineType
<1>2. TableBytes(s, t, number) = [i \in 1..n |-> B(i)]
  BY DEF TableBytes
<1>3. \A j \in 1..10 : D(j) \in Byte
  BY ElementOfSeq DEF IsTerminal
<1> HIDE DEF seq, dialed, D
<1>4. ASSUME NEW i \in 1..n PROVE B(i) \in T
  BY <1>3 DEF HoldsBytes
<1> HIDE DEF B, n
<1>5. [i \in 1..n |-> B(i)] \in Seq(T) /\ Len([i \in 1..n |-> B(i)]) = n
  BY <1>1, <1>4
<1>6. QED
  BY <1>2, <1>5 DEF n

PackedRight(p, id) ==
    /\ p.flags \in Byte /\ p.payload \in Seq(Byte) /\ Len(p.payload) <= 250
    /\ p = [flags |-> p.flags, payload |-> p.payload]
    /\ Len(p.payload) >= PKT_TABLE_ID_OFFSET
    /\ SubSeq(p.payload, 1, PKT_TABLE_ID_OFFSET) = id

\* A packet of a terminal begins with its number, and is not too long for the length byte.
LEMMA PackedType ==
  ASSUME NEW s, IsTerminal(s), NEW i \in 1..Len(s.packed)
  PROVE  PackedRight(Packed(s, s.packed[i]), s.id)
<1> DEFINE p == s.packed[i]
           tables == p.tables
           n == Len(tables)
           q == Packed(s, p)
           parts == [k \in 1..n |-> TableBytes(s, tables[k], k)]
           all == FlattenSeq(parts)
           R == [id : Byte, fill : Byte]
<1>1. p \in [flags : Byte, tables : Seq(R)]
  BY ElementOfSeq DEF IsTerminal
<1>2. p.flags \in Byte /\ tables \in Seq(R)
  BY <1>1
<1>3. n \in Nat /\ \A k \in 1..n : tables[k] \in R
  <2> HIDE DEF R
  <2>1. QED
    BY <1>2, LenProperties, ElementOfSeq
<1>4. \A k \in 1..n : tables[k].id \in Byte /\ tables[k].fill \in Byte
  BY <1>3
<1>5. s.id \in Seq(Byte) /\ Len(s.id) = PKT_TABLE_ID_OFFSET
  BY DEF IsTerminal
<1>6. q = [flags |-> p.flags, payload |-> s.id \o all] /\ Len(q.payload) <= 250
  BY DEF Packed, IsTerminal
<1> HIDE DEF q, n, tables, R
<1> DEFINE W == Nat
<1>7. HoldsBytes(W) /\ W = Nat
  BY ByteDef DEF HoldsBytes
<1> HIDE DEF W
<1>8. \A k \in 1..n : TableBytes(s, tables[k], k) \in Seq(W) /\ Len(TableBytes(s, tables[k], k)) > 0
  <2> SUFFICES ASSUME NEW k \in 1..n
               PROVE  TableBytes(s, tables[k], k) \in Seq(W) /\ Len(TableBytes(s, tables[k], k)) > 0
    OBVIOUS
  <2> DEFINE t == tables[k]
  <2>1. k \in W /\ t.id \in Byte /\ t.fill \in Byte
    BY <1>4, <1>7
  <2> HIDE DEF t
  <2>2. TableBytes(s, t, k) \in Seq(W) /\ Len(TableBytes(s, t, k)) = SizeOnLine(t.id)
    BY <1>7, <2>1, TableBytesType
  <2>3. SizeOnLine(t.id) \in Nat \ {0}
    BY SizeOnLineType
  <2>4. QED
    BY <2>2, <2>3 DEF t
<1>9. parts \in Seq(Seq(W)) /\ Len(parts) = n /\ \A k \in 1..n : Len(parts[k]) > 0
  BY <1>3, <1>8
<1>10. all \in Seq(W) /\ Len(all) >= n
  <2> HIDE DEF parts
  <2>1. QED
    BY <1>9, FlattenType, FlattenGrows
<1>11. n <= 250
  <2> HIDE DEF all
  <2>1. s.id \in Seq(W) /\ Len(s.id) \in Nat
    <3>1. Len(s.id) \in Nat
      BY <1>5 DEF PKT_TABLE_ID_OFFSET
    <3>2. QED
      BY <3>1, <1>5, <1>7, BytesIn
  <2>2. Len(s.id \o all) = Len(s.id) + Len(all) /\ Len(all) \in Nat
    BY <2>1, <1>10, ConcatProperties, LenProperties
  <2>3. QED
    BY <2>1, <2>2, <1>3, <1>6, <1>10
<1>12. \A k \in 1..n : TableBytes(s, tables[k], k) \in Seq(Byte)
  <2> SUFFICES ASSUME NEW k \in 1..n PROVE TableBytes(s, tables[k], k) \in Seq(Byte)
    OBVIOUS
  <2>0. HoldsBytes(Byte)
    BY DEF HoldsBytes
  <2>1. k \in Byte
    BY <1>3, <1>11, ByteDef
  <2>2. tables[k].id \in Byte /\ tables[k].fill \in Byte
    BY <1>4
  <2>3. QED
    BY <2>0, <2>1, <2>2, TableBytesType
<1>13. all \in Seq(Byte)
  <2>1. parts \in Seq(Seq(Byte))
    BY <1>3, <1>12
  <2> HIDE DEF parts
  <2>2. QED
    BY <2>1, FlattenType
<1> DEFINE m == PKT_TABLE_ID_OFFSET
           l == Len(all)
<1>14. m \in Nat /\ l \in Nat
  BY <1>13, LenProperties DEF PKT_TABLE_ID_OFFSET
<1> HIDE DEF all, m, l
<1>15. Splits(s.id \o all, m, s.id, l, all)
  BY <1>5, <1>13, <1>14, Halves DEF m, l
<1>16. s.id \o all \in Seq(Byte) /\ Len(s.id \o all) >= m
  <2>1. s.id \o all \in Seq(Byte) /\ Len(s.id \o all) = Len(s.id) + Len(all)
    BY <1>5, <1>13, ConcatProperties
  <2>2. QED
    BY <2>1, <1>5, <1>14 DEF l, m
<1>17. q.flags = p.flags /\ q.payload = s.id \o all
  BY <1>6
<1>18. QED
  BY <1>2, <1>6, <1>15, <1>16, <1>17 DEF PackedRight, Splits, m, q, p

---------------------------------------------------------------------------
(* Sequences joined *)

\* Where each of the sequences ends when they are joined.
EndsAt(e, whole, s) ==
    /\ e[0] = 0 /\ e[Len(s)] = Len(whole) /\ \A k \in 0..Len(s) : e[k] <= Len(whole)
    /\ \A k \in 1..Len(s) : e[k] = e[k - 1] + Len(s[k])
    /\ \A k \in 1..Len(s) : \A i \in 1..Len(s[k]) : whole[e[k - 1] + i] = s[k][i]

\* A sequence begins with another.
StartsWith(s, a) == Len(a) <= Len(s) /\ \A i \in 1..Len(a) : s[i] = a[i]

\* Joined sequences begin with what the first k of them make.
LEMMA FlattensOn ==
  ASSUME NEW T, NEW s \in Seq(Seq(T)), NEW f \in [0..Len(s) -> Seq(T)], Flattens(f, s),
         NEW k \in 0..Len(s)
  PROVE  StartsWith(f[Len(s)], f[k])
<1> DEFINE n == Len(s)
           b == n - k
           S == {d \in 0..b : StartsWith(f[k + d], f[k])}
<1>1. n \in Nat /\ b \in Nat /\ k \in Nat /\ k \in 0..n
  BY LenProperties
<1>2. \A j \in 1..n : s[j] \in Seq(T)
  BY ElementOfSeq
<1>3. \A j \in 1..n : f[j] = f[j - 1] \o s[j]
  BY DEF Flattens
<1>4. \A j \in 0..n : f[j] \in Seq(T)
  <2> HIDE DEF n
  <2>1. f \in [0..n -> Seq(T)]
    BY DEF n
  <2>2. QED
    BY <2>1
<1> HIDE DEF n
<1>5. 0 \in S
  <2>1. k + 0 = k
    BY <1>1
  <2>2. Len(f[k]) \in Nat
    BY <1>1, <1>4, LenProperties
  <2>3. QED
    BY <1>1, <2>1, <2>2 DEF StartsWith
<1>6. ASSUME NEW d \in 0..b - 1, d \in S PROVE d + 1 \in S
  <2>1. /\ k + d \in 0..n /\ k + (d + 1) \in 1..n /\ k + (d + 1) \in 0..n
        /\ (k + (d + 1)) - 1 = k + d /\ d + 1 \in 0..b
    BY <1>1
  <2>2. f[k + (d + 1)] = f[k + d] \o s[k + (d + 1)]
    BY <2>1, <1>3
  <2> DEFINE x == f[k + d]
             y == s[k + (d + 1)]
  <2>3. x \in Seq(T) /\ y \in Seq(T) /\ f[k] \in Seq(T)
    BY <2>1, <1>1, <1>2, <1>4
  <2>4. StartsWith(x, f[k])
    BY <1>6
  <2> HIDE DEF x, y
  <2>5. Len(x \o y) = Len(x) + Len(y) /\ Joins(x \o y, x, Len(x), y, Len(y))
    BY <2>3, Joined
  <2>6. Len(x) \in Nat /\ Len(y) \in Nat /\ Len(f[k]) \in Nat
    BY <2>3, LenProperties
  <2>7. \A i \in 1..Len(f[k]) : i \in 1..Len(x)
    BY <2>4, <2>6 DEF StartsWith
  <2>8. StartsWith(x \o y, f[k])
    BY <2>4, <2>5, <2>6, <2>7 DEF StartsWith, Joins
  <2>9. QED
    BY <2>1, <2>2, <2>8 DEF x, y
<1>7. b \in S
  <2> HIDE DEF S, b
  <2>1. \A d \in 0..b : d \in S
    BY <1>1, <1>5, <1>6, UpTo
  <2>2. QED
    BY <2>1, <1>1
<1>8. k + b = n
  BY <1>1
<1>9. QED
  BY <1>7, <1>8 DEF n

\* Each of the sequences is somewhere in what they make together.
LEMMA FlattenPlaces ==
  ASSUME NEW T, NEW s \in Seq(Seq(T))
  PROVE  \E e \in [0..Len(s) -> Nat] : EndsAt(e, FlattenSeq(s), s)
<1> DEFINE n == Len(s)
           F == FlattenSeq(s)
<1>1. PICK f \in [0..n -> Seq(T)] : Flattens(f, s)
  BY FlattenParts
<1>2. n \in Nat /\ \A k \in 1..n : s[k] \in Seq(T)
  BY LenProperties, ElementOfSeq
<1>3. f[0] = <<>> /\ f[n] = F /\ \A k \in 1..n : f[k] = f[k - 1] \o s[k]
  BY <1>1 DEF Flattens
<1>4. \A k \in 0..n : StartsWith(F, f[k])
  BY <1>1, <1>3, FlattensOn
<1> HIDE DEF n, F
<1>5. \A k \in 0..n : f[k] \in Seq(T) /\ Len(f[k]) \in Nat
  <2>1. \A k \in 0..n : f[k] \in Seq(T)
    BY <1>1
  <2>2. QED
    BY <2>1, LenProperties
<1> DEFINE e == [k \in 0..n |-> Len(f[k])]
<1>6. e \in [0..n -> Nat] /\ \A k \in 0..n : e[k] = Len(f[k])
  BY <1>5
<1> HIDE DEF e
<1>7. e[0] = 0 /\ e[n] = Len(F)
  <2>1. 0 \in 0..n /\ n \in 0..n
    BY <1>2
  <2>2. Len(f[0]) = 0
    BY <1>3
  <2>3. QED
    BY <2>1, <2>2, <1>3, <1>6
<1>8. ASSUME NEW k \in 1..n
      PROVE  /\ e[k] = e[k - 1] + Len(s[k])
             /\ \A i \in 1..Len(s[k]) : F[e[k - 1] + i] = s[k][i]
  <2>1. k - 1 \in 0..n /\ k \in 0..n
    BY <1>2
  <2> DEFINE x == f[k - 1]
             y == s[k]
  <2>2. f[k] = x \o y /\ x \in Seq(T) /\ y \in Seq(T) /\ e[k - 1] = Len(x) /\ e[k] = Len(f[k])
    BY <2>1, <1>2, <1>3, <1>5, <1>6
  <2>3. StartsWith(F, f[k])
    BY <2>1, <1>4
  <2> HIDE DEF x
  <2>4. Len(x \o y) = Len(x) + Len(y) /\ Joins(x \o y, x, Len(x), y, Len(y))
    BY <2>2, Joined
  <2>5. Len(x) \in Nat /\ Len(y) \in Nat
    BY <2>2, LenProperties
  <2>6. ASSUME NEW i \in 1..Len(y) PROVE F[e[k - 1] + i] = y[i]
    <3>1. Len(x) + i \in 1..Len(f[k])
      BY <2>2, <2>4, <2>5
    <3>2. F[Len(x) + i] = f[k][Len(x) + i]
      BY <3>1, <2>3 DEF StartsWith
    <3>3. (x \o y)[Len(x) + i] = y[i]
      BY <2>4 DEF Joins
    <3>4. QED
      BY <3>2, <3>3, <2>2
  <2>7. QED
    BY <2>2, <2>4, <2>6
<1>9. EndsAt(e, F, s)
  <2>1. \A k \in 0..n : e[k] <= Len(F)
    BY <1>4, <1>6 DEF StartsWith
  <2>2. QED
    BY <2>1, <1>7, <1>8 DEF EndsAt, n
<1>10. QED
  BY <1>6, <1>9 DEF n, F

\* A function on the first numbers is a sequence.
LEMMA Sequence ==
  ASSUME NEW T, NEW w \in Nat, NEW f \in [1..w -> T]
  PROVE  f \in Seq(T) /\ Len(f) = w
  OBVIOUS

MadeSame(f, g, m) == f[m] = g[m]
BeginAlike(s, t, m) == m <= Len(s) /\ m <= Len(t) /\ \A k \in 1..m : s[k] = t[k]

\* What FlattenSeq has made of the first sequences is the same for sequences that begin alike.
LEMMA FlattenSame ==
  ASSUME NEW s, NEW t, Len(s) \in Nat, Len(t) \in Nat, NEW f, NEW g,
         Flattens(f, s), Flattens(g, t), NEW m \in Nat, BeginAlike(s, t, m)
  PROVE  MadeSame(f, g, m)
<1> DEFINE S == {k \in 0..m : f[k] = g[k]}
<1>1. Len(s) \in Nat /\ Len(t) \in Nat
  OBVIOUS
<1>2. \A k \in 1..m : k \in 1..Len(s) /\ k \in 1..Len(t)
  BY <1>1 DEF BeginAlike
<1>3. f[0] = <<>> /\ g[0] = <<>> /\ \A k \in 1..m : f[k] = f[k - 1] \o s[k] /\ g[k] = g[k - 1] \o t[k]
  BY <1>2 DEF Flattens
<1>4. 0 \in S
  BY <1>3
<1>5. ASSUME NEW k \in 0..m - 1, k \in S PROVE k + 1 \in S
  <2>1. k + 1 \in 1..m /\ (k + 1) - 1 = k /\ k + 1 \in 0..m
    OBVIOUS
  <2>2. f[k + 1] = f[k] \o s[k + 1] /\ g[k + 1] = g[k] \o t[k + 1] /\ s[k + 1] = t[k + 1]
    BY <2>1, <1>3 DEF BeginAlike
  <2>3. f[k] = g[k]
    BY <1>5
  <2>4. f[k + 1] = g[k + 1]
    BY <2>2, <2>3
  <2>5. QED
    BY <2>1, <2>4
<1>6. m \in S
  <2> HIDE DEF S
  <2>1. \A k \in 0..m : k \in S
    BY <1>4, <1>5, UpTo
  <2>2. QED
    BY <2>1
<1>7. QED
  BY <1>6 DEF MadeSame

\* FlattenSeq of no sequences.
LEMMA FlattenNone == FlattenSeq(<<>>) = <<>>
BY DEF FlattenSeq

\* The first sequences joined, and then the others.
LEMMA FlattenJoins ==
  ASSUME NEW T, NEW s \in Seq(Seq(T)), NEW a \in Seq(Seq(T)), NEW b \in Seq(Seq(T)),
         Len(s) = Len(a) + Len(b), Joins(s, a, Len(a), b, Len(b))
  PROVE  FlattenSeq(s) = FlattenSeq(a) \o FlattenSeq(b)
<1> DEFINE m == Len(a)
           n == Len(b)
<1>1. m \in Nat /\ n \in Nat /\ Len(s) = m + n
  BY LenProperties
<1>2. PICK f \in [0..Len(s) -> Seq(T)] : Flattens(f, s)
  BY FlattenParts
<1>3. PICK g \in [0..n -> Seq(T)] : Flattens(g, b)
  BY FlattenParts
<1>4. PICK h \in [0..m -> Seq(T)] : Flattens(h, a)
  BY FlattenParts
<1>5. (\A k \in 1..m : s[k] = a[k]) /\ \A k \in 1..n : s[m + k] = b[k]
  BY DEF Joins
<1>6. /\ f[m + n] = FlattenSeq(s) /\ \A k \in 1..m + n : f[k] = f[k - 1] \o s[k]
      /\ g[0] = <<>> /\ g[n] = FlattenSeq(b) /\ \A k \in 1..n : g[k] = g[k - 1] \o b[k]
      /\ h[m] = FlattenSeq(a)
  BY <1>1, <1>2, <1>3, <1>4 DEF Flattens
<1>7. f[m] = h[m]
  <2>1. BeginAlike(s, a, m)
    BY <1>1, <1>5 DEF BeginAlike
  <2>2. PICK j \in Nat : j = m
    BY <1>1
  <2>3. Flattens(f, s) /\ Flattens(h, a) /\ Len(s) \in Nat /\ Len(a) \in Nat /\ BeginAlike(s, a, j)
    BY <2>1, <2>2, <1>1, <1>2, <1>4
  <2>4. MadeSame(f, h, j)
    BY <2>3, FlattenSame
  <2>5. QED
    BY <2>2, <2>4 DEF MadeSame
<1> DEFINE x == f[m]
           S == {k \in 0..n : f[m + k] = x \o g[k]}
<1>8. \A k \in 0..m + n : f[k] \in Seq(T)
  <2>1. f \in [0..m + n -> Seq(T)]
    BY <1>1, <1>2
  <2> HIDE DEF m, n
  <2>2. QED
    BY <2>1
<1>9. \A k \in 0..n : g[k] \in Seq(T)
  <2>1. g \in [0..n -> Seq(T)]
    BY <1>3
  <2> HIDE DEF n
  <2>2. QED
    BY <2>1
<1>10. \A k \in 1..n : b[k] \in Seq(T)
  BY ElementOfSeq
<1> HIDE DEF m, n
<1>11. x \in Seq(T)
  BY <1>1, <1>8
<1> HIDE DEF x
<1>12. 0 \in S
  <2>1. f[m] = x
    BY DEF x
  <2>2. x \o g[0] = x
    BY <1>6, <1>11, ConcatEmptySeq
  <2>3. m + 0 = m /\ 0 \in 0..n
    BY <1>1
  <2>4. QED
    BY <2>1, <2>2, <2>3
<1>13. ASSUME NEW k \in 0..n - 1, k \in S PROVE k + 1 \in S
  <2>1. /\ k + 1 \in 1..n /\ (k + 1) - 1 = k /\ k + 1 \in 0..n /\ k \in 0..n
        /\ m + (k + 1) \in 1..m + n /\ (m + (k + 1)) - 1 = m + k
    BY <1>1
  <2> DEFINE y == g[k]
             z == b[k + 1]
             u == f[m + k]
  <2>2. y \in Seq(T) /\ z \in Seq(T) /\ u = x \o y
    BY <2>1, <1>9, <1>10, <1>13
  <2>3. f[m + (k + 1)] = u \o s[m + (k + 1)] /\ s[m + (k + 1)] = z
    BY <2>1, <1>5, <1>6
  <2>4. g[k + 1] = y \o z
    BY <2>1, <1>6
  <2> HIDE DEF y, z, u
  <2>5. Regroups(x, y, z)
    BY <2>2, <1>11, Regroup
  <2>6. f[m + (k + 1)] = x \o g[k + 1]
    BY <2>2, <2>3, <2>4, <2>5 DEF Regroups
  <2>7. QED
    BY <2>1, <2>6
<1>14. n \in S
  <2> HIDE DEF S
  <2>1. \A k \in 0..n : k \in S
    BY <1>1, <1>12, <1>13, UpTo
  <2>2. QED
    BY <2>1, <1>1
<1>15. f[m + n] = x \o g[n]
  BY <1>14
<1>16. QED
  BY <1>15, <1>6, <1>7 DEF x

\* FlattenSeq of two sequences of sequences joined.
LEMMA FlattenJoin ==
  ASSUME NEW T, NEW a \in Seq(Seq(T)), NEW b \in Seq(Seq(T))
  PROVE  FlattenSeq(a \o b) = FlattenSeq(a) \o FlattenSeq(b)
<1> DEFINE U == Seq(T)
<1>1. a \in Seq(U) /\ b \in Seq(U)
  OBVIOUS
<1> HIDE DEF U
<1>2. a \o b \in Seq(U) /\ Len(a \o b) = Len(a) + Len(b) /\ Joins(a \o b, a, Len(a), b, Len(b))
  BY <1>1, Joined
<1>3. QED
  BY <1>2, FlattenJoins DEF U

\* FlattenSeq of one sequence.
LEMMA FlattenOne ==
  ASSUME NEW T, NEW x \in Seq(T)
  PROVE  FlattenSeq(<<x>>) = x
<1> DEFINE s == <<x>>
<1>1. s \in Seq(Seq(T)) /\ Len(s) = 1 /\ s[1] = x
  OBVIOUS
<1> HIDE DEF s
<1>2. PICK f \in [0..Len(s) -> Seq(T)] : Flattens(f, s)
  BY <1>1, FlattenParts
<1>3. f[0] = <<>> /\ f[1] = FlattenSeq(s) /\ \A k \in 1..1 : f[k] = f[k - 1] \o s[k]
  BY <1>1, <1>2 DEF Flattens
<1>4. 1 \in 1..1 /\ 1 - 1 = 0
  OBVIOUS
<1>5. f[1] = f[0] \o x
  BY <1>1, <1>3, <1>4
<1>6. <<>> \o x = x
  BY ConcatEmptySeq
<1>7. QED
  BY <1>3, <1>5, <1>6 DEF s

\* FlattenSeq of one sequence more.
LEMMA FlattenNext ==
  ASSUME NEW T, NEW s \in Seq(Seq(T)), NEW t \in Seq(Seq(T)), Len(s) = Len(t) + 1,
         \A k \in 1..Len(t) : s[k] = t[k]
  PROVE  FlattenSeq(s) = FlattenSeq(t) \o s[Len(s)]
<1> DEFINE n == Len(s)
           m == Len(t)
           x == s[n]
           b == <<x>>
<1>1. n \in Nat /\ m \in Nat /\ n = m + 1
  BY LenProperties
<1>2. x \in Seq(T)
  BY <1>1, ElementOfSeq
<1> HIDE DEF n, x
<1>3. b \in Seq(Seq(T)) /\ Len(b) = 1 /\ b[1] = x
  BY <1>2
<1>4. FlattenSeq(b) = x
  BY <1>2, FlattenOne
<1> HIDE DEF b
<1>5. Joins(s, t, m, b, Len(b))
  <2>1. \A k \in 1..Len(b) : k = 1 /\ m + k = n
    BY <1>1, <1>3
  <2>2. \A k \in 1..Len(b) : s[m + k] = b[k]
    BY <2>1, <1>3 DEF x
  <2>3. QED
    BY <2>2 DEF Joins
<1>6. Len(s) = Len(t) + Len(b)
  BY <1>1, <1>3 DEF n
<1>7. FlattenSeq(s) = FlattenSeq(t) \o FlattenSeq(b)
  BY <1>3, <1>5, <1>6, FlattenJoins
<1>8. QED
  BY <1>4, <1>7 DEF x, n

---------------------------------------------------------------------------
(* What a reply is made of *)

OfJoins(a, b, id) == Of(a \o b, id) = Of(a, id) \o Of(b, id)

\* The answers of one kind in two sequences of answers joined.
LEMMA OfJoin ==
  ASSUME NEW T, NEW a \in Seq(T), NEW b \in Seq(T), NEW id
  PROVE  OfJoins(a, b, id)
<1> DEFINE c == a \o b
           P(x) == [k \in 1..Len(x) |-> IF x[k][1] = id THEN <<x[k]>> ELSE <<>>]
           s == P(c)
           p == P(a)
           q == P(b)
<1>1. c \in Seq(T) /\ Len(c) = Len(a) + Len(b) /\ Joins(c, a, Len(a), b, Len(b))
  BY Joined
<1>2. Len(a) \in Nat /\ Len(b) \in Nat
  BY LenProperties
<1> HIDE DEF c
<1>3. ASSUME NEW x \in Seq(T) PROVE P(x) \in Seq(Seq(T)) /\ Len(P(x)) = Len(x)
  <2>1. Len(x) \in Nat /\ \A k \in 1..Len(x) : x[k] \in T
    BY <1>3, LenProperties, ElementOfSeq
  <2>2. \A k \in 1..Len(x) : (IF x[k][1] = id THEN <<x[k]>> ELSE <<>>) \in Seq(T)
    <3> SUFFICES ASSUME NEW k \in 1..Len(x) PROVE (IF x[k][1] = id THEN <<x[k]>> ELSE <<>>) \in Seq(T)
      OBVIOUS
    <3>1. <<x[k]>> \in Seq(T) /\ <<>> \in Seq(T)
      BY <2>1
    <3>2. QED
      BY <3>1
  <2> DEFINE U == Seq(T)
  <2>3. P(x) \in [1..Len(x) -> U]
    BY <2>2
  <2> HIDE DEF U
  <2>4. P(x) \in Seq(U) /\ Len(P(x)) = Len(x)
    BY <2>1, <2>3
  <2>5. QED
    BY <2>4 DEF U
<1>4. s \in Seq(Seq(T)) /\ Len(s) = Len(a) + Len(b)
  BY <1>1, <1>3
<1>5. p \in Seq(Seq(T)) /\ Len(p) = Len(a) /\ q \in Seq(Seq(T)) /\ Len(q) = Len(b)
  BY <1>3
<1>6. (\A k \in 1..Len(a) : s[k] = p[k]) /\ \A k \in 1..Len(b) : s[Len(a) + k] = q[k]
  <2>1. \A k \in 1..Len(a) : k \in 1..Len(c) /\ c[k] = a[k]
    <3>1. \A k \in 1..Len(a) : c[k] = a[k]
      BY <1>1 DEF Joins
    <3>2. \A k \in 1..Len(a) : k \in 1..Len(c)
      BY <1>1, <1>2
    <3>3. QED
      BY <3>1, <3>2
  <2>2. \A k \in 1..Len(b) : Len(a) + k \in 1..Len(c) /\ c[Len(a) + k] = b[k]
    BY <1>1, <1>2 DEF Joins
  <2>3. QED
    BY <2>1, <2>2
<1>7. Of(c, id) = FlattenSeq(s) /\ Of(a, id) = FlattenSeq(p) /\ Of(b, id) = FlattenSeq(q)
  BY DEF Of
<1> HIDE DEF P, s, p, q
<1>8. Joins(s, p, Len(p), q, Len(q))
  BY <1>5, <1>6 DEF Joins
<1>9. FlattenSeq(s) = FlattenSeq(p) \o FlattenSeq(q)
  <2>1. Len(s) = Len(p) + Len(q)
    BY <1>4, <1>5
  <2>2. QED
    BY <2>1, <1>4, <1>5, <1>8, FlattenJoins
<1>10. QED
  BY <1>7, <1>9 DEF OfJoins, c

KindsJoins(a, b) == Kinds(a \o b) = Kinds(a) \o Kinds(b)

\* The kinds of answers in two sequences joined.
LEMMA KindsJoin ==
  ASSUME NEW T, NEW a \in Seq(T), NEW b \in Seq(T)
  PROVE  KindsJoins(a, b)
<1> DEFINE c == a \o b
           V == {x[1] : x \in T}
           P(x) == [k \in 1..Len(x) |-> IF x[k][1] = CDR_DETAILS_ACK THEN <<>> ELSE <<x[k][1]>>]
           s == P(c)
           p == P(a)
           q == P(b)
<1>1. c \in Seq(T) /\ Len(c) = Len(a) + Len(b) /\ Joins(c, a, Len(a), b, Len(b))
  BY Joined
<1>2. Len(a) \in Nat /\ Len(b) \in Nat
  BY LenProperties
<1> HIDE DEF c
<1>3. ASSUME NEW x \in Seq(T) PROVE P(x) \in Seq(Seq(V)) /\ Len(P(x)) = Len(x)
  <2>1. Len(x) \in Nat /\ \A k \in 1..Len(x) : x[k][1] \in V
    BY <1>3, LenProperties, ElementOfSeq
  <2> HIDE DEF V
  <2>2. \A k \in 1..Len(x) : (IF x[k][1] = CDR_DETAILS_ACK THEN <<>> ELSE <<x[k][1]>>) \in Seq(V)
    <3> SUFFICES ASSUME NEW k \in 1..Len(x)
                 PROVE (IF x[k][1] = CDR_DETAILS_ACK THEN <<>> ELSE <<x[k][1]>>) \in Seq(V)
      OBVIOUS
    <3>1. <<x[k][1]>> \in Seq(V) /\ <<>> \in Seq(V)
      BY <2>1
    <3>2. QED
      BY <3>1
  <2> DEFINE U == Seq(V)
  <2>3. P(x) \in [1..Len(x) -> U]
    BY <2>2
  <2> HIDE DEF U
  <2>4. P(x) \in Seq(U) /\ Len(P(x)) = Len(x)
    BY <2>1, <2>3
  <2>5. QED
    BY <2>4 DEF U
<1> HIDE DEF V
<1>4. s \in Seq(Seq(V)) /\ Len(s) = Len(a) + Len(b)
  BY <1>1, <1>3
<1>5. p \in Seq(Seq(V)) /\ Len(p) = Len(a) /\ q \in Seq(Seq(V)) /\ Len(q) = Len(b)
  BY <1>3
<1>6. (\A k \in 1..Len(a) : s[k] = p[k]) /\ \A k \in 1..Len(b) : s[Len(a) + k] = q[k]
  <2>1. \A k \in 1..Len(a) : k \in 1..Len(c) /\ c[k] = a[k]
    <3>1. \A k \in 1..Len(a) : c[k] = a[k]
      BY <1>1 DEF Joins
    <3>2. \A k \in 1..Len(a) : k \in 1..Len(c)
      BY <1>1, <1>2
    <3>3. QED
      BY <3>1, <3>2
  <2>2. \A k \in 1..Len(b) : Len(a) + k \in 1..Len(c) /\ c[Len(a) + k] = b[k]
    BY <1>1, <1>2 DEF Joins
  <2>3. QED
    BY <2>1, <2>2
<1>7. Kinds(c) = FlattenSeq(s) /\ Kinds(a) = FlattenSeq(p) /\ Kinds(b) = FlattenSeq(q)
  BY DEF Kinds
<1> HIDE DEF P, s, p, q
<1>8. Joins(s, p, Len(p), q, Len(q))
  BY <1>5, <1>6 DEF Joins
<1>9. FlattenSeq(s) = FlattenSeq(p) \o FlattenSeq(q)
  <2>1. Len(s) = Len(p) + Len(q)
    BY <1>4, <1>5
  <2>2. QED
    BY <2>1, <1>4, <1>5, <1>8, FlattenJoins
<1>10. QED
  BY <1>7, <1>9 DEF KindsJoins, c

\* The sizes of the replies are natural numbers.
LEMMA ReplySizes == \A id \in Replies : ReplySize[id] \in Nat \ {0}
<1> SUFFICES ASSUME NEW id \in Replies PROVE ReplySize[id] \in Nat \ {0}
  OBVIOUS
<1>1. SizeOf(cashbox_status_univ_t) \in Nat \ {0}
  BY Layouts, TableSize
<1>2. QED
  BY <1>1 DEF ReplySize, Replies

SpacesJoin(a, b) == SpaceFor(a \o b) = SpaceFor(a) + SpaceFor(b)

\* The space for two sequences of kinds joined.
LEMMA SpaceJoin ==
  ASSUME NEW a \in Seq(Replies), NEW b \in Seq(Replies)
  PROVE  SpacesJoin(a, b) /\ SpaceFor(a) \in Nat
<1> DEFINE T == Replies
           c == a \o b
           V == Byte
           P(x) == [k \in 1..Len(x) |-> Zeros(ReplySize[x[k]])]
           s == P(c)
           p == P(a)
           q == P(b)
<1>1. c \in Seq(T) /\ Len(c) = Len(a) + Len(b) /\ Joins(c, a, Len(a), b, Len(b))
  <2> HIDE DEF T
  <2>1. QED
    BY Joined DEF T
<1>2. Len(a) \in Nat /\ Len(b) \in Nat
  BY LenProperties
<1> HIDE DEF c
<1>3. ASSUME NEW x \in Seq(T) PROVE P(x) \in Seq(Seq(V)) /\ Len(P(x)) = Len(x)
  <2>1. Len(x) \in Nat /\ \A k \in 1..Len(x) : x[k] \in T
    BY <1>3, LenProperties, ElementOfSeq
  <2> HIDE DEF V
  <2>2. \A k \in 1..Len(x) : Zeros(ReplySize[x[k]]) \in Seq(V)
    <3> SUFFICES ASSUME NEW k \in 1..Len(x) PROVE Zeros(ReplySize[x[k]]) \in Seq(V)
      OBVIOUS
    <3>1. ReplySize[x[k]] \in Nat
      BY <2>1, ReplySizes
    <3>2. QED
      BY <3>1, ZerosType DEF Bytes, V
  <2> DEFINE U == Seq(V)
  <2>3. P(x) \in [1..Len(x) -> U]
    BY <2>2
  <2> HIDE DEF U
  <2>4. P(x) \in Seq(U) /\ Len(P(x)) = Len(x)
    BY <2>1, <2>3
  <2>5. QED
    BY <2>4 DEF U
<1>4. s \in Seq(Seq(V)) /\ Len(s) = Len(a) + Len(b)
  BY <1>1, <1>3
<1>5. p \in Seq(Seq(V)) /\ Len(p) = Len(a) /\ q \in Seq(Seq(V)) /\ Len(q) = Len(b)
  BY <1>3
<1> HIDE DEF V
<1>6. (\A k \in 1..Len(a) : s[k] = p[k]) /\ \A k \in 1..Len(b) : s[Len(a) + k] = q[k]
  <2>1. \A k \in 1..Len(a) : k \in 1..Len(c) /\ c[k] = a[k]
    <3>1. \A k \in 1..Len(a) : c[k] = a[k]
      BY <1>1 DEF Joins
    <3>2. \A k \in 1..Len(a) : k \in 1..Len(c)
      BY <1>1, <1>2
    <3>3. QED
      BY <3>1, <3>2
  <2>2. \A k \in 1..Len(b) : Len(a) + k \in 1..Len(c) /\ c[Len(a) + k] = b[k]
    BY <1>1, <1>2 DEF Joins
  <2>3. QED
    BY <2>1, <2>2
<1>7. /\ SpaceFor(c) = Len(FlattenSeq(s)) /\ SpaceFor(a) = Len(FlattenSeq(p))
      /\ SpaceFor(b) = Len(FlattenSeq(q))
  BY DEF SpaceFor
<1> HIDE DEF P, s, p, q
<1>8. Joins(s, p, Len(p), q, Len(q))
  BY <1>5, <1>6 DEF Joins
<1>9. FlattenSeq(s) = FlattenSeq(p) \o FlattenSeq(q)
  <2>1. Len(s) = Len(p) + Len(q)
    BY <1>4, <1>5
  <2>2. QED
    BY <2>1, <1>4, <1>5, <1>8, FlattenJoins
<1>10. FlattenSeq(p) \in Seq(V) /\ FlattenSeq(q) \in Seq(V)
  BY <1>5, FlattenType
<1>11. QED
  BY <1>7, <1>9, <1>10, ConcatProperties, LenProperties DEF SpacesJoin, c

\* A reply that is a sequence of whole answers, with the space it takes.
Answered(bytes, answers) ==
    /\ answers \in Seq(Seq(Nat)) /\ bytes = FlattenSeq(answers) /\ bytes \in Seq(Nat)
    /\ \A k \in 1..Len(answers) : IsWhole(answers[k])
    /\ Kinds(answers) \in Seq(Replies)
    /\ \A id : Of(answers, id) \in Seq(Seq(Nat))
    /\ Len(bytes) = SpaceFor(Kinds(answers)) + 3 * Len(Of(answers, CDR_DETAILS_ACK))

\* Two replies joined have the answers of both.
LEMMA AnsweredJoin ==
  ASSUME NEW x, NEW a, NEW y, NEW b, Answered(x, a), Answered(y, b)
  PROVE  Answered(x \o y, a \o b) /\ KindsJoins(a, b) /\ \A id : OfJoins(a, b, id)
<1> DEFINE T == Seq(Nat)
           c == a \o b
<1>1. /\ a \in Seq(T) /\ x = FlattenSeq(a) /\ x \in T
      /\ b \in Seq(T) /\ y = FlattenSeq(b) /\ y \in T
  BY DEF Answered
<1>2. x \o y = FlattenSeq(c)
  BY <1>1, FlattenJoin
<1>3. x \o y \in T /\ Len(x \o y) = Len(x) + Len(y)
  BY <1>1, ConcatProperties
<1> HIDE DEF T
<1>4. c \in Seq(T) /\ Len(c) = Len(a) + Len(b) /\ Joins(c, a, Len(a), b, Len(b))
  BY <1>1, Joined
<1>5. KindsJoins(a, b) /\ \A id : OfJoins(a, b, id)
  BY <1>1, KindsJoin, OfJoin
<1> HIDE DEF c
<1>6. \A k \in 1..Len(c) : IsWhole(c[k])
  <2> SUFFICES ASSUME NEW k \in 1..Len(c) PROVE IsWhole(c[k])
    OBVIOUS
  <2>1. Len(a) \in Nat /\ Len(b) \in Nat
    BY <1>1, LenProperties
  <2>2. CASE k <= Len(a)
    <3>1. k \in 1..Len(a)
      BY <2>1, <2>2
    <3>2. c[k] = a[k] /\ IsWhole(a[k])
      BY <3>1, <1>4 DEF Joins, Answered
    <3>3. QED
      BY <3>2
  <2>3. CASE ~(k <= Len(a))
    <3>1. PICK j \in 1..Len(b) : k = Len(a) + j
      <4>1. k - Len(a) \in 1..Len(b) /\ k = Len(a) + (k - Len(a))
        BY <2>1, <2>3, <1>4
      <4>2. QED
        BY <4>1
    <3>2. c[k] = b[j] /\ IsWhole(b[j])
      BY <3>1, <1>4 DEF Joins, Answered
    <3>3. QED
      BY <3>2
  <2>4. QED
    BY <2>2, <2>3
<1> DEFINE k1 == Kinds(a)
           k2 == Kinds(b)
<1>7. k1 \in Seq(Replies) /\ k2 \in Seq(Replies) /\ Kinds(c) = k1 \o k2
  BY <1>5 DEF Answered, KindsJoins, c
<1> HIDE DEF k1, k2
<1>8. /\ Kinds(c) \in Seq(Replies) /\ SpaceFor(Kinds(c)) = SpaceFor(k1) + SpaceFor(k2)
      /\ SpaceFor(k1) \in Nat /\ SpaceFor(k2) \in Nat
  <2>1. k1 \o k2 \in Seq(Replies)
    <3> DEFINE R == Replies
    <3> HIDE DEF R
    <3>1. k1 \in Seq(R) /\ k2 \in Seq(R)
      BY <1>7 DEF R
    <3>2. k1 \o k2 \in Seq(R)
      BY <3>1, ConcatProperties
    <3>3. QED
      BY <3>2 DEF R
  <2>2. SpacesJoin(k1, k2) /\ SpaceFor(k1) \in Nat /\ SpaceFor(k2) \in Nat
    BY <1>7, SpaceJoin
  <2>3. QED
    BY <2>1, <2>2, <1>7 DEF SpacesJoin
<1>9. ASSUME NEW id
      PROVE  /\ Of(c, id) = Of(a, id) \o Of(b, id) /\ Of(c, id) \in Seq(T)
             /\ Len(Of(c, id)) = Len(Of(a, id)) + Len(Of(b, id))
             /\ Len(Of(a, id)) \in Nat /\ Len(Of(b, id)) \in Nat
  <2> DEFINE o == Of(a, id)
             q == Of(b, id)
  <2>1. o \in Seq(T) /\ q \in Seq(T)
    BY DEF Answered, T
  <2>2. Of(c, id) = o \o q
    BY <1>5 DEF OfJoins, c
  <2> HIDE DEF o, q
  <2>3. o \o q \in Seq(T) /\ Len(o \o q) = Len(o) + Len(q) /\ Len(o) \in Nat /\ Len(q) \in Nat
    BY <2>1, ConcatProperties, LenProperties
  <2>4. QED
    BY <2>2, <2>3 DEF o, q
<1>10. Len(x \o y) = SpaceFor(Kinds(c)) + 3 * Len(Of(c, CDR_DETAILS_ACK))
  <2> DEFINE m == Len(Of(a, CDR_DETAILS_ACK))
             n == Len(Of(b, CDR_DETAILS_ACK))
  <2>1. Len(x) = SpaceFor(k1) + 3 * m /\ Len(y) = SpaceFor(k2) + 3 * n
    BY DEF Answered, k1, k2
  <2>2. Len(Of(c, CDR_DETAILS_ACK)) = m + n /\ m \in Nat /\ n \in Nat
    BY <1>9
  <2> HIDE DEF m, n
  <2>3. QED
    BY <2>1, <2>2, <1>3, <1>8
<1>11. \A id : Of(c, id) \in Seq(Seq(Nat))
  BY <1>9 DEF T
<1>12. c \in Seq(Seq(Nat)) /\ x \o y \in Seq(Nat)
  BY <1>3, <1>4 DEF T
<1>13. Answered(x \o y, c)
  BY <1>2, <1>6, <1>8, <1>10, <1>11, <1>12 DEF Answered
<1>14. QED
  BY <1>5, <1>13 DEF c

\* The space for none, and for one.
LEMMA SpaceForOne ==
  /\ SpaceFor(<<>>) = 0
  /\ \A id \in Replies : SpaceFor(<<id>>) = ReplySize[id]
<1>1. SpaceFor(<<>>) = 0
  <2> DEFINE s == [k \in 1..Len(<<>>) |-> Zeros(ReplySize[<<>>[k]])]
  <2>1. s = <<>>
    OBVIOUS
  <2>2. SpaceFor(<<>>) = Len(FlattenSeq(s))
    BY DEF SpaceFor
  <2> HIDE DEF s
  <2>3. QED
    BY <2>1, <2>2, FlattenNone
<1>2. ASSUME NEW id \in Replies PROVE SpaceFor(<<id>>) = ReplySize[id]
  <2> DEFINE n == ReplySize[id]
             z == Zeros(n)
             s == [k \in 1..Len(<<id>>) |-> Zeros(ReplySize[<<id>>[k]])]
  <2>1. n \in Nat
    BY ReplySizes
  <2>2. z \in Seq(Byte) /\ Len(z) = n
    <3> HIDE DEF n
    <3>1. QED
      BY <2>1, ZerosType DEF Bytes
  <2>3. s = <<z>>
    <3>1. \A k \in 1..1 : <<id>>[k] = id
      OBVIOUS
    <3>2. s = [k \in 1..1 |-> Zeros(ReplySize[<<id>>[k]])]
      OBVIOUS
    <3> HIDE DEF s, z
    <3>3. s = [k \in 1..1 |-> z]
      BY <3>1, <3>2 DEF z, n
    <3>4. QED
      BY <3>3
  <2>4. SpaceFor(<<id>>) = Len(FlattenSeq(s))
    BY DEF SpaceFor
  <2> HIDE DEF s, z, n
  <2>5. FlattenSeq(<<z>>) = z
    BY <2>2, FlattenOne
  <2>6. QED
    BY <2>2, <2>3, <2>4, <2>5 DEF n
<1>3. QED
  BY <1>1, <1>2

\* How many bytes the answers have.
LEMMA AnswerSizes ==
  /\ \A id \in {END_DATA, TABLE_UPD, TRANS_DATA} : id \in Replies /\ ReplySize[id] = 1
  /\ ALARM_ACK \in Replies /\ ReplySize[ALARM_ACK] = 2
  /\ \A id \in {MAINT_ACK, CDR_DETAILS_ACK} : id \in Replies /\ ReplySize[id] = 3
  /\ TIME_SYNC \in Replies /\ ReplySize[TIME_SYNC] = 8
  /\ CASH_BOX_STATUS \in Replies /\ ReplySize[CASH_BOX_STATUS] = SizeOf(cashbox_status_univ_t)
  /\ RATE_RESPONSE \in Replies /\ ReplySize[RATE_RESPONSE] = 26
  /\ AUTH_RESP_CODE \in Replies /\ ReplySize[AUTH_RESP_CODE] = 22
<1> DEFINE c == SizeOf(cashbox_status_univ_t)
<1>1. ASSUME NEW id \in Replies
      PROVE  ReplySize[id] =
               CASE id \in {END_DATA, TABLE_UPD, TRANS_DATA} -> 1
                 [] id = ALARM_ACK -> 2
                 [] id \in {MAINT_ACK, CDR_DETAILS_ACK} -> 3
                 [] id = TIME_SYNC -> 8
                 [] id = CASH_BOX_STATUS -> c
                 [] id = RATE_RESPONSE -> 26
                 [] id = AUTH_RESP_CODE -> 22
  BY DEF ReplySize
<1> HIDE DEF c
<1>2. /\ \A id \in {END_DATA, TABLE_UPD, TRANS_DATA} : id \in Replies
      /\ ALARM_ACK \in Replies /\ MAINT_ACK \in Replies /\ CDR_DETAILS_ACK \in Replies
      /\ TIME_SYNC \in Replies /\ CASH_BOX_STATUS \in Replies /\ RATE_RESPONSE \in Replies
      /\ AUTH_RESP_CODE \in Replies
  BY DEF Replies
<1>3. QED
  BY <1>1, <1>2
     DEF TIME_SYNC, END_DATA, TABLE_UPD, CASH_BOX_STATUS, ALARM_ACK, MAINT_ACK, CDR_DETAILS_ACK,
         TRANS_DATA, RATE_RESPONSE, AUTH_RESP_CODE, c

\* Nothing is the reply without an answer.
LEMMA AnsweredNone ==
  Answered(<<>>, <<>>) /\ Kinds(<<>>) = <<>> /\ \A id : Of(<<>>, id) = <<>>
<1> DEFINE none == <<>>
<1>1. Kinds(none) = <<>>
  <2> DEFINE s == [k \in 1..Len(none) |-> IF none[k][1] = CDR_DETAILS_ACK THEN <<>> ELSE <<none[k][1]>>]
  <2>1. s = <<>>
    OBVIOUS
  <2>2. Kinds(none) = FlattenSeq(s)
    BY DEF Kinds
  <2> HIDE DEF s
  <2>3. QED
    BY <2>1, <2>2, FlattenNone
<1>2. ASSUME NEW id PROVE Of(none, id) = <<>>
  <2> DEFINE s == [k \in 1..Len(none) |-> IF none[k][1] = id THEN <<none[k]>> ELSE <<>>]
  <2>1. s = <<>>
    OBVIOUS
  <2>2. Of(none, id) = FlattenSeq(s)
    BY DEF Of
  <2> HIDE DEF s
  <2>3. QED
    BY <2>1, <2>2, FlattenNone
<1>3. SpaceFor(<<>>) = 0
  BY SpaceForOne
<1>4. none \in Seq(Seq(Nat)) /\ none \in Seq(Nat) /\ none \in Seq(Replies) /\ Len(none) = 0
  OBVIOUS
<1> HIDE DEF none
<1>5. none = FlattenSeq(none)
  BY FlattenNone DEF none
<1>6. SpaceFor(Kinds(none)) = 0 /\ \A id : Len(Of(none, id)) = 0
  BY <1>1, <1>2, <1>3, <1>4 DEF none
<1>7. Kinds(none) \in Seq(Replies) /\ \A id : Of(none, id) \in Seq(Seq(Nat))
  BY <1>1, <1>2, <1>4 DEF none
<1>8. Answered(none, none)
  BY <1>4, <1>5, <1>6, <1>7 DEF Answered
<1>9. QED
  BY <1>1, <1>2, <1>8 DEF none

\* A reply of one answer.
LEMMA OneAnswer ==
  ASSUME NEW a \in Seq(Nat), IsWhole(a)
  PROVE  /\ Answered(a, <<a>>)
         /\ Kinds(<<a>>) = IF a[1] = CDR_DETAILS_ACK THEN <<>> ELSE <<a[1]>>
         /\ \A id : Of(<<a>>, id) = IF a[1] = id THEN <<a>> ELSE <<>>
<1> DEFINE T == Seq(Nat)
           one == <<a>>
           V == {x[1] : x \in T}
<1>1. one \in Seq(T) /\ Len(one) = 1 /\ one[1] = a
  OBVIOUS
<1>2. a[1] \in Replies /\ Len(a) = ReplySize[a[1]] /\ a[1] \in V
  BY DEF IsWhole
<1>3. FlattenSeq(one) = a
  BY FlattenOne
<1> HIDE DEF V
<1>4. Kinds(one) = IF a[1] = CDR_DETAILS_ACK THEN <<>> ELSE <<a[1]>>
  <2> DEFINE x == IF a[1] = CDR_DETAILS_ACK THEN <<>> ELSE <<a[1]>>
             s == [k \in 1..Len(one) |-> IF one[k][1] = CDR_DETAILS_ACK THEN <<>> ELSE <<one[k][1]>>]
  <2>1. x \in Seq(V)
    BY <1>2
  <2>2. s = <<x>>
    BY <1>1
  <2>3. Kinds(one) = FlattenSeq(s)
    BY DEF Kinds
  <2> HIDE DEF s, x
  <2>4. FlattenSeq(<<x>>) = x
    BY <2>1, FlattenOne
  <2>5. QED
    BY <2>2, <2>3, <2>4 DEF x
<1>5. ASSUME NEW id PROVE Of(one, id) = IF a[1] = id THEN one ELSE <<>>
  <2> DEFINE x == IF a[1] = id THEN one ELSE <<>>
             s == [k \in 1..Len(one) |-> IF one[k][1] = id THEN <<one[k]>> ELSE <<>>]
  <2>1. x \in Seq(T)
    BY <1>1
  <2>2. s = <<x>>
    BY <1>1
  <2>3. Of(one, id) = FlattenSeq(s)
    BY DEF Of
  <2> HIDE DEF s, x
  <2>4. FlattenSeq(<<x>>) = x
    BY <2>1, FlattenOne
  <2>5. QED
    BY <2>2, <2>3, <2>4 DEF x
<1>6. \A k \in 1..Len(one) : IsWhole(one[k])
  BY <1>1
<1> HIDE DEF one
<1>7. Kinds(one) \in Seq(Replies) /\ \A id : Of(one, id) \in Seq(T)
  <2>1. Kinds(one) \in Seq(Replies)
    <3> DEFINE R == Replies
    <3>1. a[1] \in R
      BY <1>2
    <3> HIDE DEF R
    <3>2. <<>> \in Seq(R) /\ <<a[1]>> \in Seq(R)
      BY <3>1
    <3>3. Kinds(one) \in Seq(R)
      BY <3>2, <1>4
    <3>4. QED
      BY <3>3 DEF R
  <2> HIDE DEF T
  <2>2. ASSUME NEW id PROVE Of(one, id) \in Seq(T)
    <3>1. Of(one, id) = one \/ Of(one, id) = <<>>
      BY <1>5
    <3>2. <<>> \in Seq(T)
      OBVIOUS
    <3>3. QED
      BY <3>1, <3>2, <1>1
  <2>3. QED
    BY <2>1, <2>2
<1>8. Len(a) = SpaceFor(Kinds(one)) + 3 * Len(Of(one, CDR_DETAILS_ACK))
  <2>1. CASE a[1] = CDR_DETAILS_ACK
    <3>1. Len(a) = 3
      BY <1>2, <2>1, AnswerSizes
    <3>2. Kinds(one) = <<>> /\ SpaceFor(<<>>) = 0
      BY <2>1, <1>4, SpaceForOne
    <3>3. Of(one, CDR_DETAILS_ACK) = one
      BY <2>1, <1>5
    <3>4. QED
      BY <3>1, <3>2, <3>3, <1>1
  <2>2. CASE a[1] # CDR_DETAILS_ACK
    <3>1. SpaceFor(<<a[1]>>) = ReplySize[a[1]] /\ Kinds(one) = <<a[1]>>
      BY <2>2, <1>2, <1>4, SpaceForOne
    <3>2. Of(one, CDR_DETAILS_ACK) = <<>> /\ Len(<<>>) = 0
      BY <2>2, <1>5
    <3>3. ReplySize[a[1]] \in Nat
      BY <1>2, ReplySizes
    <3>4. QED
      BY <3>1, <3>2, <3>3, <1>2
  <2>3. QED
    BY <2>1, <2>2
<1>9. Answered(a, one)
  BY <1>1, <1>3, <1>6, <1>7, <1>8 DEF Answered
<1>10. QED
  BY <1>4, <1>5, <1>9 DEF one

\* Acknowledgements of call records that wait, one behind the other.
Waits(bytes, w) ==
    /\ Answered(bytes, w) /\ Kinds(w) = <<>> /\ Of(w, CDR_DETAILS_ACK) = w
    /\ \A id : id # CDR_DETAILS_ACK => Of(w, id) = <<>>

\* They wait together.
LEMMA WaitsJoin ==
  ASSUME NEW x, NEW v, NEW y, NEW w, Waits(x, v), Waits(y, w)
  PROVE  Waits(x \o y, v \o w)
<1>1. Answered(x \o y, v \o w) /\ KindsJoins(v, w) /\ \A id : OfJoins(v, w, id)
  BY AnsweredJoin DEF Waits
<1>2. Kinds(v \o w) = <<>> \o <<>>
  BY <1>1 DEF Waits, KindsJoins
<1>3. Of(v \o w, CDR_DETAILS_ACK) = v \o w
  BY <1>1 DEF Waits, OfJoins
<1>4. \A id : id # CDR_DETAILS_ACK => Of(v \o w, id) = <<>> \o <<>>
  BY <1>1 DEF Waits, OfJoins
<1>5. <<>> \o <<>> = <<>>
  OBVIOUS
<1>6. QED
  BY <1>1, <1>2, <1>3, <1>4, <1>5 DEF Waits

\* No acknowledgement waits.
LEMMA WaitsNone == Waits(<<>>, <<>>)
BY AnsweredNone DEF Waits

\* One acknowledgement waits.
LEMMA WaitsOne ==
  ASSUME NEW a \in Seq(Nat), Len(a) = 3, a[1] = CDR_DETAILS_ACK
  PROVE  Waits(a, <<a>>)
<1>1. IsWhole(a)
  BY AnswerSizes DEF IsWhole
<1>2. QED
  BY <1>1, OneAnswer DEF Waits

\* How many wait.
LEMMA WaitsLength ==
  ASSUME NEW bytes, NEW w, Waits(bytes, w)
  PROVE  Len(bytes) = 3 * Len(w) /\ Len(w) \in Nat /\ w \in Seq(Seq(Nat)) /\ bytes \in Seq(Nat)
<1>1. Len(bytes) = SpaceFor(<<>>) + 3 * Len(w) /\ w \in Seq(Seq(Nat)) /\ bytes \in Seq(Nat)
  BY DEF Waits, Answered
<1>2. SpaceFor(<<>>) = 0 /\ Len(w) \in Nat
  BY <1>1, SpaceForOne, LenProperties
<1>3. QED
  BY <1>1, <1>2

\* If no byte waits, no acknowledgement does.
LEMMA WaitsNot ==
  ASSUME NEW w, Waits(<<>>, w)
  PROVE  w = <<>>
<1>1. Len(<<>>) = 3 * Len(w) /\ Len(w) \in Nat /\ w \in Seq(Seq(Nat))
  BY WaitsLength
<1>2. Len(<<>>) = 0
  OBVIOUS
<1>3. Len(w) = 0
  BY <1>1, <1>2
<1> DEFINE T == Seq(Nat)
<1>4. w \in Seq(T)
  BY <1>1
<1> HIDE DEF T
<1>5. QED
  BY <1>3, <1>4, EmptySeq

\* What is asked for by the first tables of a packet.
FirstAnswers(tables, j) == FlattenSeq([k \in 1..j |-> AnswersTo(tables[k])])
DueFor(t, id, k) == IF t.id = id THEN <<Ack(t, k)>> ELSE <<>>
FirstDue(tables, id, j) == FlattenSeq([k \in 1..j |-> DueFor(tables[k], id, k)])

\* The answers to a table are replies.
LEMMA AnswersType == ASSUME NEW t PROVE AnswersTo(t) \in Seq(Replies)
<1> DEFINE R == Replies
<1>1. \A id \in {END_DATA, TABLE_UPD, TRANS_DATA, ALARM_ACK, MAINT_ACK, TIME_SYNC, CASH_BOX_STATUS,
                 RATE_RESPONSE, AUTH_RESP_CODE} : id \in R
  BY DEF Replies
<1> HIDE DEF R
<1>2. /\ \A id \in {END_DATA, TABLE_UPD, TRANS_DATA, ALARM_ACK, MAINT_ACK, RATE_RESPONSE, AUTH_RESP_CODE} :
            <<id>> \in Seq(R)
      /\ <<TIME_SYNC, END_DATA>> \in Seq(R) /\ <<TABLE_UPD, CASH_BOX_STATUS>> \in Seq(R)
      /\ <<>> \in Seq(R)
  BY <1>1
<1> DEFINE S == Seq(R)
<1>3. /\ <<END_DATA>> \in S /\ <<TABLE_UPD>> \in S /\ <<TRANS_DATA>> \in S /\ <<ALARM_ACK>> \in S
      /\ <<MAINT_ACK>> \in S /\ <<RATE_RESPONSE>> \in S /\ <<AUTH_RESP_CODE>> \in S
      /\ <<TIME_SYNC, END_DATA>> \in S /\ <<TABLE_UPD, CASH_BOX_STATUS>> \in S /\ <<>> \in S
  BY <1>2
<1> HIDE DEF S
<1>4. AnswersTo(t) \in S
  BY <1>3 DEF AnswersTo
<1>5. QED
  BY <1>4 DEF S, R

\* What the next table asks for comes behind.
LEMMA FirstAnswersNext ==
  ASSUME NEW tables, NEW j \in Nat
  PROVE  /\ FirstAnswers(tables, 0) = <<>>
         /\ FirstAnswers(tables, j) \in Seq(Replies)
         /\ FirstAnswers(tables, j + 1) = FirstAnswers(tables, j) \o AnswersTo(tables[j + 1])
<1> DEFINE R == Replies
           P(n) == [k \in 1..n |-> AnswersTo(tables[k])]
           s == P(j + 1)
           t == P(j)
<1>1. \A k : AnswersTo(tables[k]) \in Seq(R)
  BY AnswersType
<1> HIDE DEF R
<1>2. ASSUME NEW n \in Nat PROVE P(n) \in Seq(Seq(R)) /\ Len(P(n)) = n
  <2> DEFINE U == Seq(R)
  <2>1. \A k : AnswersTo(tables[k]) \in U
    BY <1>1
  <2> HIDE DEF U
  <2>2. P(n) \in [1..n -> U]
    BY <2>1
  <2>3. P(n) \in Seq(U) /\ Len(P(n)) = n
    BY <2>2
  <2>4. QED
    BY <2>3 DEF U
<1>3. s \in Seq(Seq(R)) /\ t \in Seq(Seq(R)) /\ Len(s) = j + 1 /\ Len(t) = j
  BY <1>2
<1>4. (\A k \in 1..Len(t) : s[k] = t[k]) /\ s[j + 1] = AnswersTo(tables[j + 1])
  BY <1>3
<1>5. FirstAnswers(tables, 0) = <<>>
  <2> DEFINE z == P(0)
  <2>1. z = <<>> /\ FirstAnswers(tables, 0) = FlattenSeq(z)
    BY DEF FirstAnswers
  <2> HIDE DEF z
  <2>2. QED
    BY <2>1, FlattenNone
<1>6. FirstAnswers(tables, j + 1) = FlattenSeq(s) /\ FirstAnswers(tables, j) = FlattenSeq(t)
  BY DEF FirstAnswers
<1> HIDE DEF s, t, P
<1>7. FlattenSeq(s) = FlattenSeq(t) \o s[Len(s)] /\ FlattenSeq(t) \in Seq(R)
  BY <1>3, <1>4, FlattenNext, FlattenType
<1>8. QED
  BY <1>3, <1>4, <1>5, <1>6, <1>7 DEF R

\* The acknowledgement of a record or report is a sequence of numbers.
LEMMA DueType ==
  ASSUME NEW t, t.fill \in Nat, NEW k \in Nat, NEW id \in {ALARM, MAINT_REQ, CALL_DETAILS}
  PROVE  DueFor(t, id, k) \in Seq(Seq(Nat))
<1> DEFINE T == Seq(Nat)
<1>1. t.id = id => Ack(t, k) \in T
  <2> DEFINE f == t.fill
  <2>1. f \in Nat /\ ALARM_ACK \in Nat /\ MAINT_ACK \in Nat /\ CDR_DETAILS_ACK \in Nat
    BY DEF ALARM_ACK, MAINT_ACK, CDR_DETAILS_ACK
  <2> HIDE DEF f
  <2>2. <<ALARM_ACK, f>> \in T /\ <<MAINT_ACK, f, f>> \in T /\ <<CDR_DETAILS_ACK, k, f>> \in T
    BY <2>1
  <2> HIDE DEF T
  <2>3. QED
    BY <2>2 DEF Ack, f, ALARM, MAINT_REQ, CALL_DETAILS
<1> HIDE DEF T
<1>2. CASE t.id = id
  <2> DEFINE a == Ack(t, k)
  <2>1. a \in T
    BY <1>1, <1>2
  <2> HIDE DEF a
  <2>2. <<a>> \in Seq(T)
    BY <2>1
  <2>3. QED
    BY <2>2, <1>2 DEF DueFor, T, a
<1>3. CASE t.id # id
  <2>1. <<>> \in Seq(T)
    OBVIOUS
  <2>2. QED
    BY <2>1, <1>3 DEF DueFor, T
<1>4. QED
  BY <1>2, <1>3

\* What is due for the next table comes behind.
LEMMA FirstDueNext ==
  ASSUME NEW tables, NEW n \in Nat, \A k \in 1..n : tables[k].fill \in Nat, NEW j \in 0..n,
         NEW id \in {ALARM, MAINT_REQ, CALL_DETAILS}
  PROVE  /\ FirstDue(tables, id, 0) = <<>>
         /\ FirstDue(tables, id, j) \in Seq(Seq(Nat))
         /\ j < n => FirstDue(tables, id, j + 1) = FirstDue(tables, id, j) \o DueFor(tables[j + 1], id, j + 1)
<1> DEFINE T == Seq(Nat)
           P(m) == [k \in 1..m |-> DueFor(tables[k], id, k)]
<1>1. ASSUME NEW k \in 1..n PROVE DueFor(tables[k], id, k) \in Seq(T)
  <2> DEFINE u == tables[k]
  <2>1. u.fill \in Nat /\ k \in Nat
    OBVIOUS
  <2> HIDE DEF u
  <2>2. DueFor(u, id, k) \in Seq(Seq(Nat))
    BY <2>1, DueType
  <2>3. QED
    BY <2>2 DEF u
<1> HIDE DEF T
<1>2. ASSUME NEW m \in 0..n PROVE P(m) \in Seq(Seq(T)) /\ Len(P(m)) = m
  <2> DEFINE U == Seq(T)
  <2>1. \A k \in 1..m : DueFor(tables[k], id, k) \in U
    BY <1>1
  <2> HIDE DEF U
  <2>2. P(m) \in [1..m -> U]
    BY <2>1
  <2>3. P(m) \in Seq(U) /\ Len(P(m)) = m
    BY <2>2
  <2>4. QED
    BY <2>3 DEF U
<1>3. FirstDue(tables, id, 0) = <<>>
  <2> DEFINE z == P(0)
  <2>1. z = <<>> /\ FirstDue(tables, id, 0) = FlattenSeq(z)
    BY DEF FirstDue
  <2> HIDE DEF z
  <2>2. QED
    BY <2>1, FlattenNone
<1> DEFINE t == P(j)
<1>4. t \in Seq(Seq(T)) /\ Len(t) = j /\ FirstDue(tables, id, j) = FlattenSeq(t)
  BY <1>2 DEF FirstDue
<1>5. FirstDue(tables, id, j) \in Seq(T)
  <2> HIDE DEF t
  <2>1. FlattenSeq(t) \in Seq(T)
    BY <1>4, FlattenType
  <2>2. QED
    BY <2>1, <1>4
<1>6. ASSUME j < n
      PROVE FirstDue(tables, id, j + 1) = FirstDue(tables, id, j) \o DueFor(tables[j + 1], id, j + 1)
  <2> DEFINE s == P(j + 1)
  <2>1. j + 1 \in 0..n /\ j \in Nat
    BY <1>6
  <2>2. s \in Seq(Seq(T)) /\ Len(s) = j + 1
    BY <2>1, <1>2
  <2>3. (\A k \in 1..Len(t) : s[k] = t[k]) /\ s[j + 1] = DueFor(tables[j + 1], id, j + 1)
    BY <1>4, <2>1
  <2>4. FirstDue(tables, id, j + 1) = FlattenSeq(s)
    BY DEF FirstDue
  <2> HIDE DEF s, t, P
  <2>5. Len(s) = Len(t) + 1
    BY <1>4, <2>2
  <2>6. FlattenSeq(s) = FlattenSeq(t) \o s[Len(s)]
    BY <2>2, <2>3, <2>5, <1>4, FlattenNext
  <2>7. QED
    BY <1>4, <2>2, <2>3, <2>4, <2>6
<1>7. QED
  BY <1>3, <1>5, <1>6 DEF T

---------------------------------------------------------------------------
(* What is answered while the tables are handled *)

\* The last four digits of the number dialed, in an answer to a rate request.
ChargesDialed(s, answer) ==
    LET dialed == phone_num_to_string(s.dialed, 21)
    IN  s.rating /\ Len(dialed) = 10 =>
            Word(answer[5], answer[6]) = dialed[7] * 1000 + dialed[8] * 100 + dialed[9] * 10 + dialed[10]

Charges(s, answers) == \A i \in 1..Len(answers) : ChargesDialed(s, answers[i])

\* There was room for the records that waited and those in the first tables.
RoomFor(tables, j, before) ==
    3 * (Len(before) + Len(FirstDue(tables, CALL_DETAILS, j))) <= PKT_TABLE_DATA_LEN_MAX

\* The answers so far are those to the first j tables, with those that wait.
Answering(tables, j, answers, waiting, before) ==
    /\ Kinds(answers) = FirstAnswers(tables, j)
    /\ Of(answers, ALARM_ACK) = FirstDue(tables, ALARM, j)
    /\ Of(answers, MAINT_ACK) = FirstDue(tables, MAINT_REQ, j)
    /\ RoomFor(tables, j, before) =>
          Of(answers, CDR_DETAILS_ACK) \o waiting = before \o FirstDue(tables, CALL_DETAILS, j)

\* The answers new to one table, and what waits behind it.
NewFor(t, k, new) ==
    /\ Kinds(new) = AnswersTo(t)
    /\ Of(new, ALARM_ACK) = DueFor(t, ALARM, k)
    /\ Of(new, MAINT_ACK) = DueFor(t, MAINT_REQ, k)

\* With the next table answered, one table more is.
LEMMA AnswerOneMore ==
  ASSUME NEW tables, NEW n \in Nat, \A k \in 1..n : tables[k].fill \in Nat, NEW j \in 0..n - 1,
         NEW x, NEW answers, NEW y, NEW new, NEW waiting, NEW more, NEW before,
         Answered(x, answers), Answered(y, new),
         waiting \in Seq(Seq(Nat)), more \in Seq(Seq(Nat)), before \in Seq(Seq(Nat)),
         Answering(tables, j, answers, waiting, before),
         NewFor(tables[j + 1], j + 1, new),
         RoomFor(tables, j + 1, before) /\ 3 * (Len(waiting) + Len(DueFor(tables[j + 1], CALL_DETAILS, j + 1))) <= 245 =>
             Of(new, CDR_DETAILS_ACK) \o more = waiting \o DueFor(tables[j + 1], CALL_DETAILS, j + 1)
  PROVE  Answered(x \o y, answers \o new) /\ Answering(tables, j + 1, answers \o new, more, before)
<1> DEFINE T == Seq(Nat)
           t == tables[j + 1]
           d == DueFor(t, CALL_DETAILS, j + 1)
           D == FirstDue(tables, CALL_DETAILS, j)
           D1 == FirstDue(tables, CALL_DETAILS, j + 1)
           o == Of(answers, CDR_DETAILS_ACK)
           p == Of(new, CDR_DETAILS_ACK)
<1>1. Answered(x \o y, answers \o new) /\ KindsJoins(answers, new) /\ \A id : OfJoins(answers, new, id)
  BY AnsweredJoin
<1>2. j \in 0..n /\ j \in Nat /\ j < n /\ j + 1 \in 1..n /\ j + 1 \in Nat /\ t.fill \in Nat
  BY DEF t
<1>3. \A id \in {ALARM, MAINT_REQ, CALL_DETAILS} :
         /\ FirstDue(tables, id, j) \in Seq(T)
         /\ FirstDue(tables, id, j + 1) = FirstDue(tables, id, j) \o DueFor(tables[j + 1], id, j + 1)
  BY <1>2, FirstDueNext
<1>4. Kinds(answers \o new) = FirstAnswers(tables, j + 1)
  <2>1. FirstAnswers(tables, j + 1) = FirstAnswers(tables, j) \o AnswersTo(tables[j + 1])
    BY <1>2, FirstAnswersNext
  <2>2. Kinds(answers \o new) = Kinds(answers) \o Kinds(new)
    BY <1>1 DEF KindsJoins
  <2>3. QED
    BY <2>1, <2>2 DEF Answering, NewFor
<1>5. Of(answers \o new, ALARM_ACK) = FirstDue(tables, ALARM, j + 1)
  <2>1. Of(answers \o new, ALARM_ACK) = Of(answers, ALARM_ACK) \o Of(new, ALARM_ACK)
    BY <1>1 DEF OfJoins
  <2>2. QED
    BY <2>1, <1>3 DEF Answering, NewFor
<1>6. Of(answers \o new, MAINT_ACK) = FirstDue(tables, MAINT_REQ, j + 1)
  <2>1. Of(answers \o new, MAINT_ACK) = Of(answers, MAINT_ACK) \o Of(new, MAINT_ACK)
    BY <1>1 DEF OfJoins
  <2>2. QED
    BY <2>1, <1>3 DEF Answering, NewFor
<1>7. ASSUME RoomFor(tables, j + 1, before)
      PROVE  Of(answers \o new, CDR_DETAILS_ACK) \o more = before \o FirstDue(tables, CALL_DETAILS, j + 1)
  <2>1. Of(answers \o new, CDR_DETAILS_ACK) = o \o p
    BY <1>1 DEF OfJoins
  <2>2. D \in Seq(T) /\ D1 = D \o d /\ d \in Seq(T)
    <3>1. d \in Seq(Seq(Nat))
      BY <1>2, DueType
    <3>2. QED
      BY <3>1, <1>3 DEF d, t
  <2>3. o \in Seq(T) /\ p \in Seq(T)
    BY DEF Answered
  <2>4. waiting \in Seq(T) /\ more \in Seq(T) /\ before \in Seq(T)
    OBVIOUS
  <2>5. RoomFor(tables, j, before) => o \o waiting = before \o D
    BY DEF Answering
  <2>6. 3 * (Len(before) + Len(D1)) <= 245
    BY <1>7 DEF RoomFor, PKT_TABLE_DATA_LEN_MAX
  <2>7. RoomFor(tables, j, before) <=> 3 * (Len(before) + Len(D)) <= 245
    BY DEF RoomFor, PKT_TABLE_DATA_LEN_MAX
  <2>8. 3 * (Len(waiting) + Len(d)) <= 245 => p \o more = waiting \o d
    BY <1>7 DEF d, t
  <2> HIDE DEF T, t, d, D, D1, o, p
  <2>9. /\ Len(D1) = Len(D) + Len(d) /\ Len(D) \in Nat /\ Len(d) \in Nat /\ Len(before) \in Nat
        /\ Len(o) \in Nat /\ Len(waiting) \in Nat
        /\ Len(o \o waiting) = Len(o) + Len(waiting) /\ Len(before \o D) = Len(before) + Len(D)
    BY <2>2, <2>3, <2>4, ConcatProperties, LenProperties
  <2> DEFINE lb == Len(before)
             lD == Len(D)
             ld == Len(d)
             lo == Len(o)
             lw == Len(waiting)
  <2>20. /\ lb \in Nat /\ lD \in Nat /\ ld \in Nat /\ lo \in Nat /\ lw \in Nat
         /\ 3 * (lb + (lD + ld)) <= 245
    BY <2>6, <2>9
  <2>10. o \o waiting = before \o D
    <3>1. 3 * (lb + lD) <= 245 => o \o waiting = before \o D
      BY <2>5, <2>7
    <3> HIDE DEF lb, lD, ld, lo, lw
    <3>2. 3 * (lb + lD) <= 245
      BY <2>20
    <3>3. QED
      BY <3>1, <3>2
  <2>11. lo + lw = lb + lD
    BY <2>9, <2>10
  <2>12. p \o more = waiting \o d
    <3>1. 3 * (lw + ld) <= 245 => p \o more = waiting \o d
      BY <2>8
    <3> HIDE DEF lb, lD, ld, lo, lw
    <3>2. 3 * (lw + ld) <= 245
      BY <2>20, <2>11
    <3>3. QED
      BY <3>1, <3>2
  <2>13. /\ Regroups(o, p, more) /\ Regroups(o, waiting, d) /\ Regroups(before, D, d)
    BY <2>2, <2>3, <2>4, Regroup
  <2>14. (o \o p) \o more = before \o D1
    BY <2>2, <2>10, <2>12, <2>13 DEF Regroups
  <2>15. QED
    BY <2>1, <2>14 DEF D1
<1>8. QED
  BY <1>1, <1>4, <1>5, <1>6, <1>7 DEF Answering

\* What is appended to the reply has the answers to one table, and no call record's.
AddsFor(s, t, k, bytes) ==
    \E new :
        /\ Answered(bytes, new) /\ NewFor(t, k, new)
        /\ Of(new, CDR_DETAILS_ACK) = <<>> /\ Charges(s, Of(new, RATE_RESPONSE))

\* No answer charges nothing.
LEMMA NoCharge == ASSUME NEW s PROVE Charges(s, <<>>)
  BY DEF Charges

\* Nothing to answer.
LEMMA NoneAdds ==
  ASSUME NEW s, NEW t, NEW k, AnswersTo(t) = <<>>, t.id # ALARM, t.id # MAINT_REQ
  PROVE  AddsFor(s, t, k, <<>>)
<1> DEFINE new == <<>>
<1>1. Answered(<<>>, new) /\ Kinds(new) = <<>> /\ \A id : Of(new, id) = <<>>
  BY AnsweredNone
<1> HIDE DEF new
<1>2. NewFor(t, k, new)
  BY <1>1 DEF NewFor, DueFor
<1>3. Charges(s, Of(new, RATE_RESPONSE))
  BY <1>1, NoCharge
<1>4. QED
  BY <1>1, <1>2, <1>3 DEF AddsFor

\* One answer.
LEMMA SingleAdds ==
  ASSUME NEW s, NEW t, NEW k, NEW a \in Seq(Nat), IsWhole(a), a[1] # CDR_DETAILS_ACK,
         AnswersTo(t) = <<a[1]>>,
         t.id = ALARM <=> a[1] = ALARM_ACK, t.id = MAINT_REQ <=> a[1] = MAINT_ACK,
         t.id \in {ALARM, MAINT_REQ} => a = Ack(t, k),
         a[1] = RATE_RESPONSE => ChargesDialed(s, a)
  PROVE  AddsFor(s, t, k, a)
<1> DEFINE new == <<a>>
<1>1. Answered(a, new) /\ Kinds(new) = <<a[1]>> /\ \A id : Of(new, id) = IF a[1] = id THEN <<a>> ELSE <<>>
  BY OneAnswer
<1>2. Len(new) = 1 /\ new[1] = a
  OBVIOUS
<1>3. a[1] = RATE_RESPONSE => Charges(s, new)
  BY <1>2 DEF Charges
<1> HIDE DEF new
<1>4. Charges(s, Of(new, RATE_RESPONSE))
  <2>1. CASE a[1] = RATE_RESPONSE
    <3>1. Of(new, RATE_RESPONSE) = new
      BY <2>1, <1>1 DEF new
    <3>2. QED
      BY <3>1, <2>1, <1>3
  <2>2. CASE a[1] # RATE_RESPONSE
    <3>1. Of(new, RATE_RESPONSE) = <<>>
      BY <2>2, <1>1
    <3>2. QED
      BY <3>1, NoCharge
  <2>3. QED
    BY <2>1, <2>2
<1>5. Of(new, ALARM_ACK) = DueFor(t, ALARM, k)
  BY <1>1 DEF DueFor
<1>6. Of(new, MAINT_ACK) = DueFor(t, MAINT_REQ, k)
  BY <1>1 DEF DueFor
<1>7. Of(new, CDR_DETAILS_ACK) = <<>>
  BY <1>1
<1>8. NewFor(t, k, new)
  BY <1>1, <1>5, <1>6 DEF NewFor
<1>9. QED
  BY <1>1, <1>4, <1>7, <1>8 DEF AddsFor

\* Two answers.
LEMMA TwoAdd ==
  ASSUME NEW s, NEW t, NEW k, NEW a \in Seq(Nat), NEW b \in Seq(Nat), IsWhole(a), IsWhole(b),
         a[1] \notin {CDR_DETAILS_ACK, ALARM_ACK, MAINT_ACK, RATE_RESPONSE},
         b[1] \notin {CDR_DETAILS_ACK, ALARM_ACK, MAINT_ACK, RATE_RESPONSE},
         AnswersTo(t) = <<a[1], b[1]>>, t.id # ALARM, t.id # MAINT_REQ
  PROVE  AddsFor(s, t, k, a \o b)
<1> DEFINE v == <<a>>
           w == <<b>>
           new == v \o w
           p == <<a[1]>>
           q == <<b[1]>>
<1>1. Answered(a, v) /\ Kinds(v) = p /\ \A id : Of(v, id) = IF a[1] = id THEN <<a>> ELSE <<>>
  BY OneAnswer
<1>2. Answered(b, w) /\ Kinds(w) = q /\ \A id : Of(w, id) = IF b[1] = id THEN <<b>> ELSE <<>>
  BY OneAnswer
<1>3. p \o q = <<a[1], b[1]>>
  <2> DEFINE x == a[1]
             y == b[1]
  <2>1. x \in Nat /\ y \in Nat
    BY ReplyBytes, ByteDef DEF IsWhole
  <2> HIDE DEF x, y
  <2> DEFINE c == <<x>> \o <<y>>
             l == <<x>>
             r == <<y>>
  <2>4. l \in Seq(Nat) /\ r \in Seq(Nat) /\ Len(l) = 1 /\ Len(r) = 1 /\ l[1] = x /\ r[1] = y
    BY <2>1
  <2>5. c = l \o r
    OBVIOUS
  <2> HIDE DEF l, r, c
  <2>6. c \in Seq(Nat) /\ Len(c) = 2 /\ c[1] = l[1] /\ c[2] = r[1]
    <3> DEFINE m == 1
               n == Len(r)
    <3>1. c \in Seq(Nat) /\ Len(c) = Len(l) + Len(r) /\ Joins(c, l, Len(l), r, Len(r))
      BY <2>4, <2>5, Joined
    <3>2. Len(l) = m /\ n = m /\ m \in 1..m /\ m = 1
      BY <2>4
    <3> HIDE DEF m, n
    <3>3. c[m] = l[m] /\ c[m + m] = r[m]
      BY <3>1, <3>2 DEF Joins, n
    <3>4. m + m = 2
      BY <3>2
    <3>5. QED
      BY <3>1, <3>2, <3>3, <3>4 DEF n
  <2>7. c = <<c[1], c[2]>>
    BY <2>6
  <2>2. <<x>> \o <<y>> = <<x, y>>
    BY <2>4, <2>6, <2>7 DEF c
  <2>3. QED
    BY <2>2 DEF x, y
<1> HIDE DEF v, w, p, q
<1>4. Answered(a \o b, new) /\ KindsJoins(v, w) /\ \A id : OfJoins(v, w, id)
  BY <1>1, <1>2, AnsweredJoin
<1>5. Kinds(new) = AnswersTo(t)
  BY <1>1, <1>2, <1>3, <1>4 DEF KindsJoins
<1>6. ASSUME NEW id \in {CDR_DETAILS_ACK, ALARM_ACK, MAINT_ACK, RATE_RESPONSE} PROVE Of(new, id) = <<>>
  <2>1. Of(v, id) = <<>> /\ Of(w, id) = <<>>
    BY <1>1, <1>2
  <2>2. Of(new, id) = Of(v, id) \o Of(w, id)
    BY <1>4 DEF OfJoins
  <2>3. <<>> \o <<>> = <<>>
    OBVIOUS
  <2>4. QED
    BY <2>1, <2>2, <2>3
<1> HIDE DEF new
<1>7. NewFor(t, k, new)
  BY <1>5, <1>6 DEF NewFor, DueFor
<1>8. Charges(s, Of(new, RATE_RESPONSE))
  BY <1>6, NoCharge
<1>9. Answered(a \o b, new)
  BY <1>4 DEF new
<1>10. QED
  BY <1>6, <1>7, <1>8, <1>9 DEF AddsFor

\* What a table asks for.
LEMMA Asked ==
  ASSUME NEW t
  PROVE  /\ t.id = TIME_SYNC_REQ => AnswersTo(t) = <<TIME_SYNC, END_DATA>>
         /\ t.id = ATN_REQ_TAB_UPD =>
               AnswersTo(t) = IF HasFlag(t.fill, TTBLREQ_CASHBOX_STATUS) THEN <<TABLE_UPD, CASH_BOX_STATUS>>
                              ELSE <<TABLE_UPD>>
         /\ t.id \in {ATN_REQ_CDR_UPL, CALL_IN, CALL_BACK, TABLE_UPD_ACK} => AnswersTo(t) = <<TRANS_DATA>>
         /\ t.id \in {CASH_BOX_COLLECTION, END_DATA} => AnswersTo(t) = <<END_DATA>>
         /\ t.id = ALARM => AnswersTo(t) = <<ALARM_ACK>>
         /\ t.id = MAINT_REQ => AnswersTo(t) = <<MAINT_ACK>>
         /\ t.id = RATE_REQUEST => AnswersTo(t) = <<RATE_RESPONSE>>
         /\ t.id = FUNF_CARD_AUTH => AnswersTo(t) = <<AUTH_RESP_CODE>>
         /\ t.id \in Unanswered \cup {SW_VERSION, CALL_DETAILS} => AnswersTo(t) = <<>>
<1> DEFINE h == HasFlag(t.fill, TTBLREQ_CASHBOX_STATUS)
<1>1. AnswersTo(t) =
        CASE t.id = TIME_SYNC_REQ -> <<TIME_SYNC, END_DATA>>
          [] t.id = ATN_REQ_TAB_UPD /\ h -> <<TABLE_UPD, CASH_BOX_STATUS>>
          [] t.id = ATN_REQ_TAB_UPD /\ ~h -> <<TABLE_UPD>>
          [] t.id \in {ATN_REQ_CDR_UPL, CALL_IN, CALL_BACK, TABLE_UPD_ACK} -> <<TRANS_DATA>>
          [] t.id \in {CASH_BOX_COLLECTION, END_DATA} -> <<END_DATA>>
          [] t.id = ALARM -> <<ALARM_ACK>>
          [] t.id = MAINT_REQ -> <<MAINT_ACK>>
          [] t.id = RATE_REQUEST -> <<RATE_RESPONSE>>
          [] t.id = FUNF_CARD_AUTH -> <<AUTH_RESP_CODE>>
          [] OTHER -> <<>>
  BY DEF AnswersTo
<1> HIDE DEF h
<1> USE DEF TIME_SYNC_REQ, ATN_REQ_TAB_UPD, ATN_REQ_CDR_UPL, CALL_IN, CALL_BACK, TABLE_UPD_ACK,
            CASH_BOX_COLLECTION, END_DATA, ALARM, MAINT_REQ, RATE_REQUEST, FUNF_CARD_AUTH
<1>2. /\ t.id = TIME_SYNC_REQ => AnswersTo(t) = <<TIME_SYNC, END_DATA>>
      /\ t.id = ATN_REQ_TAB_UPD =>
            AnswersTo(t) = IF h THEN <<TABLE_UPD, CASH_BOX_STATUS>> ELSE <<TABLE_UPD>>
      /\ t.id \in {ATN_REQ_CDR_UPL, CALL_IN, CALL_BACK, TABLE_UPD_ACK} => AnswersTo(t) = <<TRANS_DATA>>
  BY <1>1
<1>3. /\ t.id \in {CASH_BOX_COLLECTION, END_DATA} => AnswersTo(t) = <<END_DATA>>
      /\ t.id = ALARM => AnswersTo(t) = <<ALARM_ACK>>
      /\ t.id = MAINT_REQ => AnswersTo(t) = <<MAINT_ACK>>
      /\ t.id = RATE_REQUEST => AnswersTo(t) = <<RATE_RESPONSE>>
      /\ t.id = FUNF_CARD_AUTH => AnswersTo(t) = <<AUTH_RESP_CODE>>
  BY <1>1
<1>4. ASSUME t.id \in Unanswered \cup {SW_VERSION, CALL_DETAILS} PROVE AnswersTo(t) = <<>>
  <2>1. t.id \in {10, 83, 38, 37, 57, 71, 56, 60, 53}
    BY <1>4 DEF Unanswered, SW_VERSION, CALL_DETAILS, TERM_STATUS, TERM_ERR_REP, CASH_BOX_STATUS,
                PERF_STATS_MSG, CARRIER_CALL_STATS, CARRIER_STATS_EXP, SUMMARY_CALL_STATS
  <2>2. t.id \notin {36, 44, 42, 8, 9, 14, 51, 13, 7, 6, 63, 2}
    BY <2>1
  <2>3. QED
    BY <2>2, <1>1
<1>5. QED
  BY <1>2, <1>3, <1>4 DEF h

\* Bytes are numbers.
LEMMA BytesNat == ASSUME NEW b \in Seq(Byte) PROVE b \in Seq(Nat)
<1>1. \A x \in Byte : x \in Nat
  BY ByteDef
<1> DEFINE n == Len(b)
<1>2. n \in Nat /\ b \in [1..n -> Byte]
  BY LenProperties
<1> HIDE DEF n
<1>3. b \in [1..n -> Nat]
  BY <1>1, <1>2
<1>4. QED
  BY <1>2, <1>3, Sequence

\* One byte is an answer that is whole, if it is to be one byte.
LEMMA ByteWhole ==
  ASSUME NEW id \in {END_DATA, TABLE_UPD, TRANS_DATA}
  PROVE  <<id>> \in Seq(Nat) /\ IsWhole(<<id>>) /\ <<id>>[1] = id
<1> DEFINE a == <<id>>
<1>1. id \in Replies /\ ReplySize[id] = 1 /\ id \in Nat
  BY AnswerSizes, ReplyBytes, ByteDef
<1>2. a \in Seq(Nat) /\ Len(a) = 1 /\ a[1] = id
  BY <1>1
<1> HIDE DEF a
<1>3. IsWhole(a)
  BY <1>1, <1>2 DEF IsWhole
<1>4. QED
  BY <1>2, <1>3 DEF a

\* So are the fields of the time, before the byte of DLOG_MT_END_DATA.
LEMMA TimeWhole ==
  ASSUME NEW now, IsTime(now)
  PROVE  LET a == <<TIME_SYNC, now.year, now.month, now.day, now.hour, now.min, now.sec, now.wday + 1>>
         IN  /\ a \in Seq(Nat) /\ IsWhole(a) /\ a[1] = TIME_SYNC
             /\ <<TIME_SYNC, now.year, now.month, now.day, now.hour, now.min, now.sec, now.wday + 1, END_DATA>>
                  = a \o <<END_DATA>>
<1> DEFINE c1 == TIME_SYNC
           c2 == now.year
           c3 == now.month
           c4 == now.day
           c5 == now.hour
           c6 == now.min
           c7 == now.sec
           c8 == now.wday + 1
           c9 == END_DATA
           a == <<c1, c2, c3, c4, c5, c6, c7, c8>>
           b == <<c9>>
           d == <<c1, c2, c3, c4, c5, c6, c7, c8, c9>>
           c == a \o b
           l == 8
<1>1. /\ c1 \in Nat /\ c2 \in Nat /\ c3 \in Nat /\ c4 \in Nat /\ c5 \in Nat /\ c6 \in Nat /\ c7 \in Nat
      /\ c8 \in Nat /\ c9 \in Nat
  <2>1. c1 \in Nat /\ c9 \in Nat
    BY DEF TIME_SYNC, END_DATA
  <2>2. c2 \in Nat /\ c3 \in Nat /\ c5 \in Nat /\ c6 \in Nat
    <3>1. c2 \in 0..254 /\ c3 \in 1..12
      BY DEF IsTime
    <3>2. c5 \in 0..23 /\ c6 \in 0..59
      BY DEF IsTime
    <3> HIDE DEF c2, c3, c5, c6
    <3>3. QED
      BY <3>1, <3>2
  <2>3. c7 \in Nat /\ c8 \in Nat
    <3> DEFINE w == now.wday
    <3>1. c7 \in 0..60 /\ w \in 0..6 /\ c8 = w + 1
      BY DEF IsTime
    <3> HIDE DEF c7, c8, w
    <3>2. QED
      BY <3>1
  <2>4. c4 \in Nat
    <3>1. now.day \in 1..DaysIn(now.month, now.year) /\ DaysIn(now.month, now.year) \in {28, 29, 30, 31}
      BY DEF IsTime, DaysIn
    <3>2. QED
      BY <3>1
  <2>5. QED
    BY <2>1, <2>2, <2>3, <2>4
<1> HIDE DEF c1, c2, c3, c4, c5, c6, c7, c8, c9
<1>2. /\ a \in Seq(Nat) /\ Len(a) = l /\ a[1] = c1 /\ a[2] = c2 /\ a[3] = c3 /\ a[4] = c4 /\ a[5] = c5
      /\ a[6] = c6 /\ a[7] = c7 /\ a[8] = c8 /\ l = 8
  BY <1>1
<1>3. b \in Seq(Nat) /\ Len(b) = 1 /\ b[1] = c9
  BY <1>1
<1>4. /\ d \in Seq(Nat) /\ Len(d) = 9 /\ d[1] = c1 /\ d[2] = c2 /\ d[3] = c3 /\ d[4] = c4 /\ d[5] = c5
      /\ d[6] = c6 /\ d[7] = c7 /\ d[8] = c8 /\ d[9] = c9
  BY <1>1
<1> HIDE DEF a, b, d, l
<1>5. c \in Seq(Nat) /\ Len(c) = Len(a) + Len(b) /\ Joins(c, a, Len(a), b, Len(b))
  BY <1>2, <1>3, Joined
<1> HIDE DEF c
<1>6. Len(c) = 9 /\ (\A i \in 1..l : c[i] = a[i]) /\ \A i \in 1..1 : c[l + i] = b[i]
  BY <1>2, <1>3, <1>5 DEF Joins
<1>7. \A i \in 1..9 : c[i] = d[i]
  <2>1. c[9] = d[9]
    <3>1. l + 1 = 9 /\ 1 \in 1..1
      BY <1>2
    <3>2. QED
      BY <3>1, <1>3, <1>4, <1>6
  <2>2. \A i \in 1..l : c[i] = d[i]
    <3>1. \A i \in 1..l : i \in {1, 2, 3, 4, 5, 6, 7, 8}
      BY <1>2
    <3>2. \A i \in 1..l : a[i] = d[i]
      BY <3>1, <1>2, <1>4
    <3>3. QED
      BY <3>2, <1>6
  <2>3. \A i \in 1..9 : i \in 1..l \/ i = 9
    BY <1>2
  <2>4. QED
    BY <2>1, <2>2, <2>3
<1>8. c = d
  BY <1>4, <1>5, <1>6, <1>7, SeqEqual
<1>9. IsWhole(a)
  BY <1>2, AnswerSizes DEF IsWhole, c1
<1>10. QED
  BY <1>2, <1>8, <1>9 DEF a, b, c, d, c1, c2, c3, c4, c5, c6, c7, c8, c9

\* So is the cash box.
LEMMA CashBoxWhole == CashBox \in Seq(Nat) /\ IsWhole(CashBox) /\ CashBox[1] = CASH_BOX_STATUS
<1> DEFINE s == cashbox_status_univ_t
           size == SizeOf(s)
           n == size - 4
           a == <<CASH_BOX_STATUS, 90, 1, 1>>
           z == Zeros(n)
<1>1. size \in Nat /\ size >= 4
  <2>1. IsStruct(s)
    BY Layouts DEF IsTable
  <2>2. Len(s) = 9 /\ s[1][2] = 1 /\ s[2][2] = 6
    BY DEF cashbox_status_univ_t
  <2> HIDE DEF s
  <2>3. PICK f \in [0..Len(s) -> Nat] : SumsUp(f, s)
    BY <2>1, SizeParts
  <2>4. \A k \in 1..9 : s[k][2] \in Nat
    <3>1. PICK F : s \in Seq(F \X Nat)
      BY <2>1 DEF IsStruct
    <3>2. \A k \in 1..9 : s[k] \in F \X Nat
      BY <3>1, <2>2, ElementOfSeq
    <3>3. QED
      BY <3>2
  <2>5. /\ f[0] = 0 /\ f[1] = f[0] + s[1][2] /\ f[2] = f[1] + s[2][2] /\ f[3] = f[2] + s[3][2]
        /\ f[4] = f[3] + s[4][2] /\ f[5] = f[4] + s[5][2] /\ f[6] = f[5] + s[6][2] /\ f[7] = f[6] + s[7][2]
        /\ f[8] = f[7] + s[8][2] /\ f[9] = f[8] + s[9][2] /\ f[9] = SizeOf(s)
    <3>1. /\ f[0] = 0 /\ f[9] = SizeOf(s) /\ \A k \in 1..9 : f[k] = f[k - 1] + s[k][2]
      BY <2>2, <2>3 DEF SumsUp
    <3>2. QED
      BY <3>1
  <2> DEFINE W(k) == s[k][2]
  <2>6. /\ W(3) \in Nat /\ W(4) \in Nat /\ W(5) \in Nat /\ W(6) \in Nat /\ W(7) \in Nat /\ W(8) \in Nat
        /\ W(9) \in Nat /\ W(1) = 1 /\ W(2) = 6
    BY <2>2, <2>4
  <2>7. SizeOf(s) = 0 + W(1) + W(2) + W(3) + W(4) + W(5) + W(6) + W(7) + W(8) + W(9)
    BY <2>5
  <2> HIDE DEF W
  <2>8. SizeOf(s) \in Nat /\ SizeOf(s) >= 4
    <3>1. PICK w3, w4, w5, w6, w7, w8, w9 :
             /\ w3 = W(3) /\ w4 = W(4) /\ w5 = W(5) /\ w6 = W(6) /\ w7 = W(7) /\ w8 = W(8) /\ w9 = W(9)
      OBVIOUS
    <3>2. /\ w3 \in Nat /\ w4 \in Nat /\ w5 \in Nat /\ w6 \in Nat /\ w7 \in Nat /\ w8 \in Nat /\ w9 \in Nat
      BY <2>6, <3>1
    <3>3. SizeOf(s) = 0 + 1 + 6 + w3 + w4 + w5 + w6 + w7 + w8 + w9
      BY <2>6, <2>7, <3>1
    <3>4. QED
      BY <3>2, <3>3
  <2>9. QED
    BY <2>8 DEF size
<1> HIDE DEF size
<1>2. n \in Nat /\ 4 + n = size
  BY <1>1
<1>3. a \in Seq(Nat) /\ Len(a) = 4 /\ a[1] = CASH_BOX_STATUS
  <2>1. CASH_BOX_STATUS \in Nat
    BY DEF CASH_BOX_STATUS
  <2>2. QED
    BY <2>1
<1> HIDE DEF n
<1>4. z \in Seq(Nat) /\ Len(z) = n
  <2>1. z \in Seq(Byte) /\ Len(z) = n
    BY <1>2, ZerosType DEF Bytes
  <2>2. QED
    BY <2>1, BytesNat
<1> HIDE DEF a, z
<1>5. a \o z \in Seq(Nat) /\ Len(a \o z) = Len(a) + Len(z) /\ Joins(a \o z, a, Len(a), z, Len(z))
  BY <1>3, <1>4, Joined
<1>6. (a \o z)[1] = a[1]
  <2>1. 1 \in 1..Len(a)
    BY <1>3
  <2>2. QED
    BY <2>1, <1>5 DEF Joins
<1>7. CashBox = a \o z
  BY DEF CashBox, a, z, n, size, s
<1>8. CashBox \in Seq(Nat) /\ CashBox[1] = CASH_BOX_STATUS /\ Len(CashBox) = size
  <2>1. Len(a \o z) = size
    BY <1>2, <1>3, <1>4, <1>5
  <2>2. QED
    BY <2>1, <1>3, <1>5, <1>6, <1>7
<1>9. CASH_BOX_STATUS \in Replies /\ ReplySize[CASH_BOX_STATUS] = size
  BY AnswerSizes DEF size, s
<1>10. QED
  BY <1>8, <1>9 DEF IsWhole

IsJoin(c, a, b) == c = a \o b

\* Four numbers go out as eight bytes, the second as the third and fourth.
LEMMA FourLE16 ==
  ASSUME NEW rate \in Seq(Checksum), Len(rate) = 4
  PROVE  /\ LE16s(rate) \in Seq(Byte) /\ Len(LE16s(rate)) = 8
         /\ LE16s(rate)[3] = rate[2] % 256 /\ LE16s(rate)[4] = rate[2] \div 256
<1> DEFINE T == Byte
           s == [i \in 1..Len(rate) |-> LE16(rate[i])]
<1>1. LE16s(rate) = FlattenSeq(s) /\ LE16s(rate) \in Seq(T)
  BY LE16sType DEF LE16s
<1>2. \A i \in 1..4 : rate[i] \in Checksum
  BY ElementOfSeq
<1>3. \A i \in 1..4 : LE16(rate[i]) \in Seq(T)
  BY <1>2, LE16Type
<1>4. \A i \in 1..4 : Len(LE16(rate[i])) = 2 /\ LE16(rate[i])[1] = rate[i] % 256 /\ LE16(rate[i])[2] = rate[i] \div 256
  BY DEF LE16
<1> HIDE DEF T
<1>5. s \in Seq(Seq(T)) /\ Len(s) = 4 /\ \A i \in 1..4 : s[i] = LE16(rate[i])
  <2> DEFINE U == Seq(T)
             n == Len(rate)
  <2>1. n = 4 /\ n \in Nat /\ \A i \in 1..n : LE16(rate[i]) \in U
    BY <1>3
  <2> HIDE DEF U, n
  <2>2. [i \in 1..n |-> LE16(rate[i])] \in [1..n -> U]
    BY <2>1
  <2>3. [i \in 1..n |-> LE16(rate[i])] \in Seq(U) /\ Len([i \in 1..n |-> LE16(rate[i])]) = n
    BY <2>1, <2>2, Sequence
  <2>4. QED
    BY <2>1, <2>3 DEF n, U
<1> HIDE DEF s
<1>6. PICK f \in [0..Len(s) -> Seq(T)] : Flattens(f, s)
  BY <1>5, FlattenParts
<1> DEFINE two == 2
           four == 4
           six == 6
<1>7. /\ f[0] = <<>> /\ f[4] = FlattenSeq(s)
      /\ IsJoin(f[1], f[0], s[1]) /\ IsJoin(f[2], f[1], s[2]) /\ IsJoin(f[3], f[2], s[3])
      /\ IsJoin(f[4], f[3], s[4])
  <2>1. f[0] = <<>> /\ f[4] = FlattenSeq(s) /\ \A k \in 1..4 : f[k] = f[k - 1] \o s[k]
    BY <1>5, <1>6 DEF Flattens
  <2>2. ASSUME NEW k \in 1..4 PROVE IsJoin(f[k], f[k - 1], s[k])
    BY <2>1 DEF IsJoin
  <2>3. \A k \in 1..4 : IsJoin(f[k], f[k - 1], s[k])
    BY <2>2
  <2>4. 1 - 1 = 0 /\ 2 - 1 = 1 /\ 3 - 1 = 2 /\ 4 - 1 = 3
    OBVIOUS
  <2>5. QED
    BY <2>1, <2>3, <2>4
<1>8. ASSUME NEW a \in Seq(T), NEW b \in Seq(T), NEW m \in Nat, Len(a) = m, Len(b) = 2,
             NEW c, IsJoin(c, a, b)
      PROVE  /\ c \in Seq(T) /\ Len(c) = m + 2 /\ (\A i \in 1..m : c[i] = a[i])
             /\ c[m + 1] = b[1] /\ c[m + 2] = b[2]
  <2>1. c \in Seq(T) /\ Len(c) = Len(a) + Len(b) /\ Joins(c, a, Len(a), b, Len(b))
    BY <1>8, Joined DEF IsJoin
  <2>2. 1 \in 1..2 /\ 2 \in 1..2
    OBVIOUS
  <2>3. c[m + 1] = b[1] /\ c[m + 2] = b[2] /\ \A i \in 1..m : c[i] = a[i]
    BY <2>1, <2>2, <1>8 DEF Joins
  <2>4. Len(c) = m + 2
    BY <2>1, <1>8
  <2>5. QED
    BY <2>1, <2>3, <2>4
<1>9. \A i \in 1..4 : s[i] \in Seq(T) /\ Len(s[i]) = 2
  BY <1>3, <1>4, <1>5
<1>90. s[1] \in Seq(T) /\ Len(s[1]) = 2 /\ s[2] \in Seq(T) /\ Len(s[2]) = 2
       /\ s[3] \in Seq(T) /\ Len(s[3]) = 2 /\ s[4] \in Seq(T) /\ Len(s[4]) = 2
  BY <1>9
<1>10. f[0] \in Seq(T) /\ Len(f[0]) = 0
  BY <1>7, EmptySeq
<1>11. f[1] \in Seq(T) /\ Len(f[1]) = two
  <2>1. f[1] = f[0] \o s[1] /\ f[0] = <<>> /\ s[1] \in Seq(T)
    BY <1>7, <1>90 DEF IsJoin
  <2>2. \A x \in Seq(T) : <<>> \o x = x
    OBVIOUS
  <2>3. f[1] = s[1]
    BY <2>1, <2>2
  <2>4. QED
    BY <2>3, <1>90
<1>110. two \in Nat /\ two + 2 = four /\ two + 1 = 3 /\ four \in Nat /\ four + 2 = six /\ six \in Nat
        /\ six + 2 = 8 /\ 3 \in 1..four /\ 4 \in 1..four /\ 3 \in 1..six /\ 4 \in 1..six /\ four = 4
  OBVIOUS
<1> HIDE DEF two, four, six
<1>12. f[2] \in Seq(T) /\ Len(f[2]) = four /\ f[2][3] = s[2][1] /\ f[2][4] = s[2][2]
  <2>1. f[2] \in Seq(T) /\ Len(f[2]) = two + 2 /\ f[2][two + 1] = s[2][1] /\ f[2][two + 2] = s[2][2]
    BY <1>7, <1>8, <1>11, <1>90, <1>110
  <2>2. QED
    BY <2>1, <1>110
<1>13. f[3] \in Seq(T) /\ Len(f[3]) = six /\ f[3][3] = s[2][1] /\ f[3][4] = s[2][2]
  <2>1. f[3] \in Seq(T) /\ Len(f[3]) = four + 2 /\ \A i \in 1..four : f[3][i] = f[2][i]
    <3>1. /\ IsJoin(f[3], f[2], s[3]) /\ f[2] \in Seq(T) /\ Len(f[2]) = four /\ four \in Nat
          /\ s[3] \in Seq(T) /\ Len(s[3]) = 2
      BY <1>7, <1>12, <1>90, <1>110
    <3>2. QED
      BY <3>1, <1>8
  <2>2. QED
    BY <2>1, <1>12, <1>110
<1>14. f[4] \in Seq(T) /\ Len(f[4]) = 8 /\ f[4][3] = s[2][1] /\ f[4][4] = s[2][2]
  <2>1. f[4] \in Seq(T) /\ Len(f[4]) = six + 2 /\ \A i \in 1..six : f[4][i] = f[3][i]
    BY <1>7, <1>8, <1>13, <1>90, <1>110
  <2>2. QED
    BY <2>1, <1>13, <1>110
<1>15. LE16s(rate) = f[4] /\ s[2][1] = rate[2] % 256 /\ s[2][2] = rate[2] \div 256
  BY <1>1, <1>4, <1>5, <1>7
<1>16. QED
  BY <1>14, <1>15 DEF T

\* A rate, with its charge as the fifth and sixth byte.
IsRate(a, rate) ==
    /\ a \in Seq(Nat) /\ IsWhole(a) /\ a[1] = RATE_RESPONSE
    /\ a[5] = rate[2] % 256 /\ a[6] = rate[2] \div 256

\* A rate is an answer that is whole, with the charge in its fifth and sixth byte.
LEMMA RateWhole ==
  ASSUME NEW rate \in Seq(Checksum), Len(rate) = 4
  PROVE  IsRate(<<RATE_RESPONSE, 7>> \o LE16s(rate) \o Zeros(2 * 8), rate)
<1> DEFINE h == <<RATE_RESPONSE, 7>>
           b == LE16s(rate)
           z == Zeros(2 * 8)
           hb == h \o b
           a == hb \o z
<1>1. h \in Seq(Nat) /\ Len(h) = 2 /\ h[1] = RATE_RESPONSE
  <2>1. RATE_RESPONSE \in Nat
    BY DEF RATE_RESPONSE
  <2>2. QED
    BY <2>1
<1>2. b \in Seq(Nat) /\ Len(b) = 8 /\ b[3] = rate[2] % 256 /\ b[4] = rate[2] \div 256
  BY FourLE16, BytesNat
<1>3. z \in Seq(Nat) /\ Len(z) = 16
  <2>1. 2 * 8 = 16 /\ 16 \in Nat
    OBVIOUS
  <2>2. z \in Seq(Byte) /\ Len(z) = 16
    BY <2>1, ZerosType DEF Bytes
  <2>3. QED
    BY <2>2, BytesNat
<1> HIDE DEF h, b, z
<1>4. hb \in Seq(Nat) /\ Len(hb) = Len(h) + Len(b) /\ Joins(hb, h, Len(h), b, Len(b))
  BY <1>1, <1>2, Joined
<1> HIDE DEF hb
<1>5. a \in Seq(Nat) /\ Len(a) = Len(hb) + Len(z) /\ Joins(a, hb, Len(hb), z, Len(z))
  BY <1>3, <1>4, Joined
<1> HIDE DEF a
<1>6. Len(hb) = 10 /\ Len(a) = 26
  BY <1>1, <1>2, <1>3, <1>4, <1>5
<1>7. a[1] = hb[1] /\ a[5] = hb[5] /\ a[6] = hb[6]
  <2>1. 1 \in 1..Len(hb) /\ 5 \in 1..Len(hb) /\ 6 \in 1..Len(hb)
    BY <1>6
  <2>2. QED
    BY <2>1, <1>5 DEF Joins
<1>8. hb[1] = h[1] /\ hb[5] = b[3] /\ hb[6] = b[4]
  <2>1. 1 \in 1..Len(h) /\ 3 \in 1..Len(b) /\ 4 \in 1..Len(b) /\ Len(h) + 3 = 5 /\ Len(h) + 4 = 6
    BY <1>1, <1>2
  <2>2. hb[Len(h) + 3] = b[3] /\ hb[Len(h) + 4] = b[4] /\ hb[1] = h[1]
    BY <2>1, <1>4 DEF Joins
  <2>3. QED
    BY <2>1, <2>2
<1>9. IsWhole(a)
  BY <1>1, <1>6, <1>7, <1>8, AnswerSizes DEF IsWhole
<1>10. QED
  <2>1. IsRate(a, rate)
    BY <1>1, <1>2, <1>5, <1>7, <1>8, <1>9 DEF IsRate
  <2>2. QED
    BY <2>1 DEF a, hb, h, b, z

\* The authorization of a card is an answer that is whole.
LEMMA AuthWhole ==
  ASSUME NEW raw \in Seq(Byte), Len(raw) = 8
  PROVE  LET a == <<AUTH_RESP_CODE, 0>> \o raw \o [i \in 1..12 |-> IF i <= 10 THEN 47 + i ELSE 54 + i]
         IN  a \in Seq(Nat) /\ IsWhole(a) /\ a[1] = AUTH_RESP_CODE
<1> DEFINE h == <<AUTH_RESP_CODE, 0>>
           z == [i \in 1..12 |-> IF i <= 10 THEN 47 + i ELSE 54 + i]
           hb == h \o raw
           a == hb \o z
<1>1. h \in Seq(Nat) /\ Len(h) = 2 /\ h[1] = AUTH_RESP_CODE
  <2>1. AUTH_RESP_CODE \in Nat
    BY DEF AUTH_RESP_CODE
  <2>2. QED
    BY <2>1
<1>2. raw \in Seq(Nat)
  BY BytesNat
<1>3. z \in Seq(Nat) /\ Len(z) = 12
  <2> DEFINE w == 12
  <2>1. w \in Nat /\ z \in [1..w -> Nat]
    OBVIOUS
  <2> HIDE DEF w, z
  <2>2. z \in Seq(Nat) /\ Len(z) = w
    BY <2>1, Sequence
  <2>3. QED
    BY <2>2 DEF w
<1> HIDE DEF h, z
<1>4. hb \in Seq(Nat) /\ Len(hb) = Len(h) + Len(raw) /\ Joins(hb, h, Len(h), raw, Len(raw))
  BY <1>1, <1>2, Joined
<1> HIDE DEF hb
<1>5. a \in Seq(Nat) /\ Len(a) = Len(hb) + Len(z) /\ Joins(a, hb, Len(hb), z, Len(z))
  BY <1>3, <1>4, Joined
<1> HIDE DEF a
<1>6. Len(hb) = 10 /\ Len(a) = 22
  BY <1>1, <1>3, <1>4, <1>5
<1>7. a[1] = hb[1]
  <2>1. 1 \in 1..Len(hb)
    BY <1>6
  <2>2. QED
    BY <2>1, <1>5 DEF Joins
<1>8. hb[1] = h[1]
  <2>1. 1 \in 1..Len(h)
    BY <1>1
  <2>2. QED
    BY <2>1, <1>4 DEF Joins
<1>9. IsWhole(a)
  BY <1>1, <1>6, <1>7, <1>8, AnswerSizes DEF IsWhole
<1>10. QED
  BY <1>1, <1>5, <1>7, <1>8, <1>9 DEF a, hb, h, z

\* A number of ten digits is charged its last four: they make less than 16 bits.
LEMMA ChargeOfDigits ==
  ASSUME NEW p \in Seq(Digit16), Len(p) = 10
  PROVE  /\ initial_charge(p) = p[7] * 1000 + p[8] * 100 + p[9] * 10 + p[10]
         /\ Word(initial_charge(p) % 256, initial_charge(p) \div 256) = initial_charge(p)
<1> DEFINE D(i) == IF i <= Len(p) THEN p[i] ELSE 65536 - 48
           sum == p[7] * 1000 + p[8] * 100 + p[9] * 10 + p[10]
<1>1. p[7] \in 0..15 /\ p[8] \in 0..15 /\ p[9] \in 0..15 /\ p[10] \in 0..15
  <2>1. \A i \in 1..10 : p[i] \in 0..15
    BY ElementOfSeq DEF Digit16
  <2>2. QED
    BY <2>1
<1>2. initial_charge(p) = (D(7) * 1000 + D(8) * 100 + D(9) * 10 + D(10)) % 65536
  BY DEF initial_charge
<1>3. D(7) = p[7] /\ D(8) = p[8] /\ D(9) = p[9] /\ D(10) = p[10]
  OBVIOUS
<1> HIDE DEF D
<1>4. initial_charge(p) = sum % 65536
  BY <1>2, <1>3
<1>5. sum \in Nat /\ sum < 65536
  <2>1. PICK a, b, c, d : a = p[7] /\ b = p[8] /\ c = p[9] /\ d = p[10]
    OBVIOUS
  <2>2. a \in 0..15 /\ b \in 0..15 /\ c \in 0..15 /\ d \in 0..15
    BY <1>1, <2>1
  <2>3. sum = a * 1000 + b * 100 + c * 10 + d
    BY <2>1
  <2> HIDE DEF sum
  <2>4. QED
    BY <2>2, <2>3
<1> HIDE DEF sum
<1>6. initial_charge(p) = sum
  BY <1>4, <1>5
<1>7. (sum \div 256) * 256 + (sum % 256) = sum
  BY <1>5
<1>8. QED
  BY <1>6, <1>7 DEF Word, sum

---------------------------------------------------------------------------
(* How the terminal reads a reply *)

\* It reads one answer further, as Read does.
Further(bytes, r) ==
    IF r.at > Len(bytes) THEN r
    ELSE LET size == IF bytes[r.at] \in Replies THEN ReplySize[bytes[r.at]] ELSE Len(bytes)
             end == Min({r.at + size - 1, Len(bytes)})
         IN  [at |-> end + 1, answers |-> Append(r.answers, SubSeq(bytes, r.at, end))]

\* The first m of the answers.
FirstOf(answers, m) == [i \in 1..m |-> answers[i]]

\* The smaller of two numbers.
LEMMA Smaller ==
  ASSUME NEW x \in Nat, NEW y \in Nat, x <= y
  PROVE  Min({x, y}) = x
<1> DEFINE S == {x, y}
<1>1. S \subseteq Nat /\ S # {} /\ x \in S /\ \A v \in S : x <= v
  OBVIOUS
<1> HIDE DEF S
<1>2. Min(S) \in S /\ Min(S) <= x /\ x <= Min(S)
  BY <1>1, MinProperties
<1>3. Min(S) \in Nat
  BY <1>1, <1>2
<1>4. Min(S) = x
  BY <1>2, <1>3
<1>5. QED
  BY <1>4 DEF S

\* The bytes of one answer.
LEMMA CutAnswer ==
  ASSUME NEW bytes \in Seq(Nat), NEW a \in Seq(Nat), NEW b \in Nat, b + Len(a) <= Len(bytes),
         \A i \in 1..Len(a) : bytes[b + i] = a[i]
  PROVE  SubSeq(bytes, b + 1, b + Len(a)) = a
<1> DEFINE T == Nat
           z == Len(a)
           c == SubSeq(bytes, b + 1, b + z)
<1>1. z \in Nat /\ bytes \in Seq(T) /\ a \in Seq(T) /\ b + z <= Len(bytes)
  BY LenProperties
<1> HIDE DEF T, z
<1>2. c \in Seq(T) /\ Len(c) = z /\ Piece(c, bytes, b, z)
  BY <1>1, Cut
<1>3. \A i \in 1..z : c[i] = a[i]
  BY <1>2 DEF Piece, z
<1> HIDE DEF c
<1>4. c = a
  BY <1>1, <1>2, <1>3, SeqEqual DEF z
<1>5. QED
  BY <1>4 DEF c, z

\* One answer read further.
ReadsOne(bytes, b, z, first) ==
    Further(bytes, [at |-> b + 1, answers |-> first])
        = [at |-> (b + z) + 1, answers |-> Append(first, SubSeq(bytes, b + 1, b + z))]

\* What is read next, when the answer is whole.
LEMMA FurtherIs ==
  ASSUME NEW bytes \in Seq(Nat), NEW b \in Nat, NEW z \in Nat, z >= 1, b + z <= Len(bytes),
         bytes[b + 1] \in Replies, ReplySize[bytes[b + 1]] = z, NEW first
  PROVE  ReadsOne(bytes, b, z, first)
<1> DEFINE l == Len(bytes)
           p == b + 1
           r == [at |-> p, answers |-> first]
           size == IF bytes[r.at] \in Replies THEN ReplySize[bytes[r.at]] ELSE l
           end == Min({r.at + size - 1, l})
<1>1. l \in Nat /\ b + z <= l
  BY LenProperties
<1>2. r.at = p /\ r.answers = first /\ size = z
  OBVIOUS
<1>3. ~(r.at > l)
  BY <1>1
<1>4. Further(bytes, r) = [at |-> end + 1, answers |-> Append(r.answers, SubSeq(bytes, r.at, end))]
  BY <1>3 DEF Further
<1> HIDE DEF r, size, l
<1>5. end = b + z
  <2>1. r.at + size - 1 = b + z
    BY <1>2
  <2>2. b + z \in Nat /\ l \in Nat /\ b + z <= l
    BY <1>1
  <2>3. end = Min({b + z, l})
    BY <2>1
  <2>4. QED
    BY <2>2, <2>3, Smaller
<1> HIDE DEF end
<1>6. QED
  BY <1>2, <1>4, <1>5 DEF r, ReadsOne

\* The first answers, and one more.
LEMMA FirstGrows ==
  ASSUME NEW T, NEW answers \in Seq(T), NEW m \in 0..Len(answers) - 1
  PROVE  Append(FirstOf(answers, m), answers[m + 1]) = FirstOf(answers, m + 1)
<1> DEFINE n == Len(answers)
           a == answers[m + 1]
           f == FirstOf(answers, m)
           g == FirstOf(answers, m + 1)
           h == Append(f, a)
<1>1. n \in Nat /\ m \in Nat /\ m + 1 \in 1..n /\ m + 1 \in Nat /\ m + 1 \in 1..m + 1
      /\ (\A i \in 1..m : i \in 1..n) /\ \A i \in 1..m + 1 : i \in 1..n /\ (i \in 1..m \/ i = m + 1)
  BY LenProperties
<1>2. \A i \in 1..n : answers[i] \in T
  BY ElementOfSeq
<1>3. f \in [1..m -> T] /\ \A i \in 1..m : f[i] = answers[i]
  BY <1>1, <1>2 DEF FirstOf
<1>4. g \in [1..m + 1 -> T] /\ \A i \in 1..m + 1 : g[i] = answers[i]
  BY <1>1, <1>2 DEF FirstOf
<1>5. a \in T
  BY <1>1, <1>2
<1> HIDE DEF f, g
<1>6. f \in Seq(T) /\ Len(f) = m
  BY <1>1, <1>3, Sequence
<1>7. g \in Seq(T) /\ Len(g) = m + 1
  BY <1>1, <1>4, Sequence
<1>8. h \in Seq(T) /\ Len(h) = m + 1 /\ h[m + 1] = a /\ \A i \in 1..m : h[i] = f[i]
  <2> HIDE DEF a
  <2>1. QED
    BY <1>5, <1>6, AppendProperties
<1>9. \A i \in 1..m + 1 : h[i] = g[i]
  <2>1. g[m + 1] = a
    BY <1>1, <1>4
  <2> HIDE DEF h, a
  <2>2. QED
    BY <2>1, <1>1, <1>3, <1>4, <1>8
<1> HIDE DEF h
<1>10. h = g
  BY <1>7, <1>8, <1>9, SeqEqual
<1>11. QED
  BY <1>10 DEF f, g, h, a

\* The answers that make up the bytes are what is read next.
LEMMA ReadsNext ==
  ASSUME NEW bytes \in Seq(Nat), NEW answers \in Seq(Seq(Nat)),
         \A k \in 1..Len(answers) : IsWhole(answers[k]),
         NEW e \in [0..Len(answers) -> Nat], EndsAt(e, bytes, answers),
         NEW m \in 0..Len(answers) - 1
  PROVE  Further(bytes, [at |-> e[m] + 1, answers |-> FirstOf(answers, m)])
             = [at |-> e[m + 1] + 1, answers |-> FirstOf(answers, m + 1)]
<1> DEFINE T == Seq(Nat)
           n == Len(answers)
           l == Len(bytes)
           a == answers[m + 1]
           z == Len(a)
           b == e[m]
           first == FirstOf(answers, m)
           r == [at |-> b + 1, answers |-> first]
<1>1. n \in Nat /\ l \in Nat /\ m + 1 \in 1..n /\ (m + 1) - 1 = m /\ m \in 0..n /\ m \in Nat
  BY LenProperties
<1>2. a \in Seq(Nat) /\ z \in Nat /\ a[1] \in Replies /\ z = ReplySize[a[1]]
  <2>1. answers \in Seq(T)
    OBVIOUS
  <2> HIDE DEF T
  <2>2. a \in T
    BY <2>1, <1>1, ElementOfSeq
  <2>3. IsWhole(a)
    BY <1>1
  <2>4. a \in Seq(Nat)
    BY <2>2 DEF T
  <2> HIDE DEF a
  <2>5. QED
    BY <2>3, <2>4, LenProperties DEF IsWhole
<1>3. z >= 1
  BY <1>2, ReplySizes
<1>4. b \in Nat /\ e[m + 1] = b + z /\ b + z <= l /\ \A i \in 1..z : bytes[b + i] = a[i]
  <2>1. m + 1 \in 0..n
    BY <1>1
  <2>2. \A k \in 0..n : e[k] <= l
    BY DEF EndsAt
  <2>3. e[m + 1] = e[(m + 1) - 1] + Len(answers[m + 1])
        /\ \A i \in 1..Len(answers[m + 1]) : bytes[e[(m + 1) - 1] + i] = answers[m + 1][i]
    BY <1>1 DEF EndsAt
  <2>4. QED
    BY <2>1, <2>2, <2>3, <1>1
<1>5. bytes[b + 1] = a[1]
  BY <1>3, <1>4, <1>2
<1>6. Append(first, a) = FirstOf(answers, m + 1)
  <2>1. answers \in Seq(T)
    OBVIOUS
  <2> HIDE DEF T
  <2>2. QED
    BY <2>1, FirstGrows
<1>7. SubSeq(bytes, b + 1, b + z) = a
  <2> HIDE DEF a, b
  <2>1. QED
    BY <1>2, <1>4, CutAnswer
<1> HIDE DEF first, a, z, b
<1>8. Further(bytes, r) = [at |-> (b + z) + 1, answers |-> Append(first, SubSeq(bytes, b + 1, b + z))]
  <2>1. /\ bytes \in Seq(Nat) /\ b \in Nat /\ z \in Nat /\ z >= 1 /\ b + z <= Len(bytes)
        /\ bytes[b + 1] \in Replies /\ ReplySize[bytes[b + 1]] = z
    BY <1>2, <1>3, <1>4, <1>5
  <2>2. ReadsOne(bytes, b, z, first)
    BY <2>1, FurtherIs
  <2>3. QED
    BY <2>2 DEF ReadsOne
<1>9. QED
  BY <1>4, <1>6, <1>7, <1>8 DEF b, first, a

\* What has been read, step by step, when the bytes are answers that end at these places.
HasRead(e, answers, m) == [at |-> e[m] + 1, answers |-> FirstOf(answers, m)]
Upto(n, i) == IF i <= n THEN i ELSE n

\* Read begins at the first byte, goes on while there are bytes, and then stays.
LEMMA ReadSteps ==
  ASSUME NEW bytes \in Seq(Nat), NEW answers \in Seq(Seq(Nat)),
         \A k \in 1..Len(answers) : IsWhole(answers[k]),
         NEW e \in [0..Len(answers) -> Nat], EndsAt(e, bytes, answers), NEW i \in Nat
  PROVE  /\ HasRead(e, answers, 0) = [at |-> 1, answers |-> <<>>]
         /\ Further(bytes, HasRead(e, answers, Upto(Len(answers), i)))
                = HasRead(e, answers, Upto(Len(answers), i + 1))
<1> DEFINE n == Len(answers)
<1>1. n \in Nat /\ Len(bytes) \in Nat
  BY LenProperties
<1>2. e[0] = 0 /\ e[n] = Len(bytes)
  BY DEF EndsAt
<1>3. HasRead(e, answers, 0) = [at |-> 1, answers |-> <<>>]
  <2>1. FirstOf(answers, 0) = <<>>
    BY DEF FirstOf
  <2>2. QED
    BY <2>1, <1>2 DEF HasRead
<1>4. CASE i < n
  <2>1. i \in 0..n - 1 /\ Upto(n, i) = i /\ Upto(n, i + 1) = i + 1
    BY <1>1, <1>4 DEF Upto
  <2>2. Further(bytes, [at |-> e[i] + 1, answers |-> FirstOf(answers, i)])
            = [at |-> e[i + 1] + 1, answers |-> FirstOf(answers, i + 1)]
    BY <2>1, ReadsNext
  <2>3. QED
    BY <2>1, <2>2, <1>3 DEF HasRead
<1>5. CASE ~(i < n)
  <2>1. Upto(n, i) = n /\ Upto(n, i + 1) = n
    BY <1>1, <1>5 DEF Upto
  <2> DEFINE r == HasRead(e, answers, n)
  <2>2. r.at = Len(bytes) + 1
    BY <1>2 DEF HasRead
  <2> HIDE DEF r
  <2>3. r.at > Len(bytes)
    BY <2>2, <1>1
  <2>4. Further(bytes, r) = r
    BY <2>3 DEF Further
  <2>5. QED
    BY <2>1, <2>4, <1>3 DEF r
<1>6. QED
  BY <1>4, <1>5

\* The terminal reads the answers that the reply was made of.
LEMMA ReadIs ==
  ASSUME NEW bytes, NEW answers, Answered(bytes, answers)
  PROVE  Read(bytes) = answers
<1> DEFINE n == Len(answers)
           l == Len(bytes)
           start == [at |-> 1, answers |-> <<>>]
           T == Seq(Nat)
           Step(f, i) == IF i = 0 THEN start ELSE Further(bytes, f[i - 1])
           Is(f) == f = [i \in 0..l |-> Step(f, i)]
           read[i \in 0..l] == IF i = 0 THEN start ELSE Further(bytes, read[i - 1])
<1>1. bytes \in Seq(Nat) /\ answers \in Seq(Seq(Nat)) /\ bytes = FlattenSeq(answers)
      /\ \A k \in 1..Len(answers) : IsWhole(answers[k])
  BY DEF Answered
<1>2. Read(bytes) = read[l].answers
  BY DEF Read, Further
<1> HIDE DEF read
<1>3. PICK e \in [0..n -> Nat] : EndsAt(e, bytes, answers)
  BY <1>1, FlattenPlaces
<1>4. n \in Nat /\ l \in Nat
  BY <1>1, LenProperties
<1>5. n <= l
  <2>1. \A k \in 1..n : Len(answers[k]) > 0
    <3>1. \A a : IsWhole(a) => Len(a) \in Nat \ {0}
      BY ReplySizes DEF IsWhole
    <3>2. \A z \in Nat \ {0} : z > 0
      OBVIOUS
    <3>3. \A k \in 1..n : Len(answers[k]) \in Nat \ {0}
      BY <1>1, <3>1
    <3>4. QED
      BY <3>2, <3>3
  <2> DEFINE U == Nat
  <2>2. answers \in Seq(Seq(U))
    BY <1>1
  <2> HIDE DEF U
  <2>3. Len(FlattenSeq(answers)) >= Len(answers)
    BY <2>1, <2>2, FlattenGrows
  <2>4. QED
    BY <2>3, <1>1, <1>4
<1>6. /\ HasRead(e, answers, 0) = start
      /\ \A i \in Nat : Further(bytes, HasRead(e, answers, Upto(n, i))) = HasRead(e, answers, Upto(n, i + 1))
  BY <1>1, <1>3, ReadSteps
<1> HIDE DEF l, start
<1> DEFINE g == [i \in 0..l |-> HasRead(e, answers, Upto(n, i))]
<1>7. \A i \in 0..l : g[i] = Step(g, i)
  <2> SUFFICES ASSUME NEW i \in 0..l PROVE g[i] = Step(g, i)
    OBVIOUS
  <2>1. CASE i = 0
    <3>1. Upto(n, 0) = 0
      BY <1>4 DEF Upto
    <3> HIDE DEF n
    <3>2. g[i] = start
      BY <3>1, <2>1, <1>6
    <3>3. QED
      BY <3>2, <2>1
  <2>2. CASE i # 0
    <3> DEFINE j == i - 1
    <3>1. j \in Nat /\ j \in 0..l /\ j + 1 = i
      BY <2>2, <1>4
    <3> HIDE DEF j, n
    <3>2. g[j] = HasRead(e, answers, Upto(n, j)) /\ g[i] = HasRead(e, answers, Upto(n, j + 1))
      BY <3>1
    <3> HIDE DEF g
    <3>3. g[i] = Further(bytes, g[j])
      BY <3>1, <3>2, <1>6
    <3>4. QED
      BY <3>3, <2>2 DEF j
  <2>3. QED
    BY <2>1, <2>2
<1>8. Is(g)
  <2>1. g = [i \in 0..l |-> g[i]]
    BY DEF g
  <2> HIDE DEF g, Step
  <2>2. QED
    BY <2>1, <1>7
<1> HIDE DEF g
<1>9. Is(read)
  <2> HIDE DEF Step
  <2>1. \E f : Is(f)
    BY <1>8
  <2>2. QED
    BY <2>1 DEF read, Step
<1> DEFINE S == {i \in 0..l : read[i] = g[i]}
<1>10. 0 \in S /\ \A i \in 0..l - 1 : i \in S => i + 1 \in S
  <2>1. \A i \in 0..l : read[i] = Step(read, i)
    <3> HIDE DEF Step
    <3>1. QED
      BY <1>9
  <2>2. 0 \in S
    <3>1. 0 \in 0..l
      BY <1>4
    <3>2. Step(read, 0) = start /\ Step(g, 0) = start
      OBVIOUS
    <3> HIDE DEF Step
    <3>3. QED
      BY <3>1, <3>2, <2>1, <1>7
  <2>3. ASSUME NEW i \in 0..l - 1, i \in S PROVE i + 1 \in S
    <3>1. i + 1 \in 0..l /\ i + 1 # 0 /\ (i + 1) - 1 = i
      BY <1>4
    <3>2. Step(read, i + 1) = Further(bytes, read[i]) /\ Step(g, i + 1) = Further(bytes, g[i])
      BY <3>1
    <3> HIDE DEF Step
    <3>3. read[i + 1] = Further(bytes, read[i]) /\ g[i + 1] = Further(bytes, g[i])
      BY <3>1, <3>2, <2>1, <1>7
    <3>4. read[i] = g[i]
      BY <2>3
    <3>5. QED
      BY <3>1, <3>3, <3>4
  <2>4. QED
    BY <2>2, <2>3
<1>11. read[l] = g[l]
  <2> HIDE DEF S
  <2>1. l \in S
    <3>1. \A i \in 0..l : i \in S
      BY <1>4, <1>10, UpTo
    <3>2. l \in 0..l
      BY <1>4
    <3>3. QED
      BY <3>1, <3>2
  <2>2. QED
    BY <2>1 DEF S
<1>12. g[l].answers = FirstOf(answers, n)
  <2>1. Upto(n, l) = n /\ l \in 0..l
    BY <1>4, <1>5 DEF Upto
  <2> HIDE DEF n
  <2>2. g[l] = HasRead(e, answers, n)
    BY <2>1 DEF g
  <2>3. QED
    BY <2>2 DEF HasRead
<1>13. FirstOf(answers, n) = answers
  <2>1. answers \in Seq(T)
    BY <1>1
  <2> HIDE DEF T
  <2>2. answers = [i \in 1..n |-> answers[i]]
    BY <2>1
  <2>3. QED
    BY <2>2 DEF FirstOf
<1>14. QED
  BY <1>2, <1>11, <1>12, <1>13

---------------------------------------------------------------------------
(* The line at the start *)

\* The two ends of a sequence.
LEMMA EndsType ==
  ASSUME NEW T, NEW s \in Seq(T), NEW a \in Nat, a <= Len(s)
  PROVE  SubSeq(s, 1, a) \in Seq(T) /\ SubSeq(s, a + 1, Len(s)) \in Seq(T)
<1> DEFINE l == Len(s)
           zero == 0
           n == l - a
<1>1. l \in Nat /\ n \in Nat /\ zero \in Nat /\ zero + a <= l /\ a + n <= l /\ a + n = l
  BY LenProperties
<1> HIDE DEF l, n, zero
<1>2. SubSeq(s, zero + 1, zero + a) \in Seq(T)
  BY <1>1, Cut DEF l
<1>3. SubSeq(s, a + 1, a + n) \in Seq(T)
  BY <1>1, Cut DEF l
<1>4. SubSeq(s, 1, a) \in Seq(T)
  BY <1>2 DEF zero
<1>5. QED
  BY <1>1, <1>3, <1>4 DEF l

NoisesOf(frame) == {None} \cup [kind : {"changed", "lost", "added"}, at : 1..Len(frame),
  byte : Byte]

\* A frame with a byte changed, lost or too many is still bytes.
LEMMA DisturbedType ==
  ASSUME NEW frame \in Seq(Byte), NEW n \in NoisesOf(frame)
  PROVE  Disturbed(frame, n) \in Seq(Byte)
<1> DEFINE l == Len(frame)
<1>1. CASE n = None
  BY <1>1 DEF Disturbed
<1>2. CASE n # None
  <2> DEFINE i == n.at
             b == n.byte
             before == i - 1
  <2>1. n \in [kind : {"changed", "lost", "added"}, at : 1..l, byte : Byte]
    BY <1>2 DEF NoisesOf
  <2>2. i \in 1..l /\ b \in Byte /\ n.kind \in {"changed", "lost", "added"} /\ l \in Nat
    BY <2>1, LenProperties
  <2>3. before \in Nat /\ before <= l /\ before + 1 = i /\ i \in Nat /\ i <= l
    BY <2>2
  <2> HIDE DEF before
  <2>4. SubSeq(frame, 1, before) \in Seq(Byte) /\ SubSeq(frame, before + 1, l) \in Seq(Byte)
    BY <2>3, EndsType
  <2>5. SubSeq(frame, i + 1, l) \in Seq(Byte)
    <3> HIDE DEF i
    <3>1. QED
      BY <2>3, EndsType
  <2>6. CASE n.kind = "changed"
    <3>1. Disturbed(frame, n) = [frame EXCEPT ![i] = b]
      BY <1>2, <2>6 DEF Disturbed
    <3>2. frame \in [1..l -> Byte]
      BY LenProperties
    <3> HIDE DEF l, i, b
    <3>3. [frame EXCEPT ![i] = b] \in [1..l -> Byte]
      BY <2>2, <3>2
    <3>4. QED
      BY <2>2, <3>1, <3>3
  <2>7. CASE n.kind = "lost"
    <3>1. Disturbed(frame, n) = SubSeq(frame, 1, i - 1) \o SubSeq(frame, i + 1, l)
      BY <1>2, <2>7 DEF Disturbed, RemoveAt
    <3>2. QED
      BY <2>4, <2>5, <3>1, ConcatProperties DEF before
  <2>8. CASE n.kind = "added"
    <3> DEFINE one == <<b>>
    <3>1. Disturbed(frame, n) = (SubSeq(frame, 1, i - 1) \o one) \o SubSeq(frame, i, l)
      BY <1>2, <2>8 DEF Disturbed, InsertAt
    <3>2. one \in Seq(Byte)
      BY <2>2
    <3> HIDE DEF one
    <3>3. SubSeq(frame, 1, i - 1) \o one \in Seq(Byte)
      BY <2>4, <3>2, ConcatProperties DEF before
    <3>4. SubSeq(frame, i, l) \in Seq(Byte)
      BY <2>3, <2>4
    <3>5. QED
      BY <3>1, <3>3, <3>4, ConcatProperties
  <2>9. QED
    BY <2>2, <2>6, <2>7, <2>8
<1>3. QED
  BY <1>1, <1>2

\* What is on the line at the start: bytes and pauses.
LEMMA LineType ==
  ASSUME NEW packets1, NEW n \in Nat \ {0}, Len(packets1) = n,
           \A i \in 1..n : IsPacket(packets1[i]),
         NEW noise1 \in NoisesOf(Frame(packets1[1])), NEW pause1 \in BOOLEAN
  PROVE  Line(packets1, noise1, pause1) \in Seq(Byte \cup {GAP})
<1> DEFINE T == Byte \cup {GAP}
           first == Disturbed(Frame(packets1[1]), noise1)
           frames == [i \in 1..Len(packets1) - 1 |-> Frame(packets1[i + 1])]
           rest == FlattenSeq(frames)
           gap == IF pause1 THEN <<GAP>> ELSE <<>>
           end == <<GAP>>
<1>1. HoldsBytes(T) /\ end \in Seq(T)
  BY DEF HoldsBytes
<1>2. gap \in Seq(T)
  <2>1. <<>> \in Seq(T)
    BY EmptySeq
  <2>2. QED
    BY <1>1, <2>1
<1>3. first \in Seq(Byte)
  <2>1. 1 \in 1..n
    OBVIOUS
  <2>2. Frame(packets1[1]) \in Seq(Byte)
    BY <2>1, FrameParts
  <2>3. PICK frame : frame = Frame(packets1[1])
    OBVIOUS
  <2>4. Disturbed(frame, noise1) \in Seq(Byte)
    BY <2>2, <2>3, DisturbedType
  <2>5. QED
    BY <2>3, <2>4
<1>4. rest \in Seq(Byte)
  <2> DEFINE m == Len(packets1) - 1
  <2>1. m \in Nat /\ \A i \in 1..m : i + 1 \in 1..n
    OBVIOUS
  <2>2. \A i \in 1..m : Frame(packets1[i + 1]) \in Seq(Byte)
    BY <2>1, FrameParts
  <2> HIDE DEF m
  <2>3. frames \in Seq(Seq(Byte))
    <3>1. frames = [i \in 1..m |-> Frame(packets1[i + 1])]
      BY DEF m
    <3>2. QED
      BY <3>1, <2>1, <2>2
  <2> HIDE DEF frames
  <2>4. QED
    BY <2>3, FlattenType
<1>5. Line(packets1, noise1, pause1) = ((first \o gap) \o rest) \o end
  BY DEF Line
<1> HIDE DEF T, first, frames, rest, gap, end
<1>6. first \in Seq(T) /\ rest \in Seq(T)
  BY <1>1, <1>3, <1>4, BytesIn
<1>7. first \o gap \in Seq(T)
  BY <1>2, <1>6, ConcatProperties
<1>8. (first \o gap) \o rest \in Seq(T)
  BY <1>6, <1>7, ConcatProperties
<1>9. ((first \o gap) \o rest) \o end \in Seq(T)
  BY <1>1, <1>8, ConcatProperties
<1>10. QED
  BY <1>5, <1>9 DEF T

---------------------------------------------------------------------------
(* The start *)

SentIs == /\ setup \in Setups
          /\ sent = [i \in 1..Len(setup.packed) |-> Packed(setup, setup.packed[i])]

\* What is sent in the state are such packets.
LEMMA SentRight ==
  ASSUME SentIs
  PROVE  /\ Len(sent) = Len(setup.packed) /\ Len(sent) \in Nat
         /\ \A i \in 1..Len(sent) : PackedRight(sent[i], setup.id)
<1> DEFINE n == Len(setup.packed)
<1>1. IsTerminal(setup)
  BY TheSetup DEF SentIs
<1>2. n \in Nat
  BY <1>1, LenProperties DEF IsTerminal
<1>3. \A i \in 1..n : PackedRight(Packed(setup, setup.packed[i]), setup.id)
  BY <1>1, PackedType
<1>4. sent = [i \in 1..n |-> Packed(setup, setup.packed[i])]
  BY DEF SentIs
<1> HIDE DEF n
<1>5. Len(sent) = n /\ \A i \in 1..n : sent[i] = Packed(setup, setup.packed[i])
  BY <1>2, <1>4
<1>6. QED
  BY <1>2, <1>3, <1>5 DEF n

\* A packet that has come before the start is one that can come.
LEMMA ArrivedType ==
  ASSUME NEW p, PackedRight(p, setup.id)
  PROVE  [flags |-> p.flags, payload |-> p.payload, end |-> STOP_BYTE,
          crc |-> crc16(0, <<START_BYTE, p.flags, Len(p.payload) + 5>> \o p.payload)] \in Records
<1> DEFINE head == <<START_BYTE, p.flags, Len(p.payload) + 5>>
<1>1. p.flags \in Byte /\ p.payload \in Seq(Byte) /\ Len(p.payload) <= 250
  BY DEF PackedRight
<1>2. Len(p.payload) + 5 \in Byte
  <2>1. Len(p.payload) \in Nat
    BY <1>1, LenProperties
  <2>2. QED
    BY <1>1, <2>1, ByteDef
<1>3. START_BYTE \in Byte /\ STOP_BYTE \in Byte /\ 0 \in Checksum
  BY SmallBytes, ChecksumDef DEF START_BYTE, STOP_BYTE
<1>4. head \in Seq(Byte)
  BY <1>1, <1>2, <1>3
<1> HIDE DEF head
<1>5. head \o p.payload \in Seq(Byte)
  BY <1>1, <1>4, ConcatProperties
<1>6. crc16(0, head \o p.payload) \in Checksum
  BY <1>3, <1>5, CrcType
<1>7. QED
  BY <1>1, <1>3, <1>6 DEF Records, head

\* Receiver and parser at the start.
LEMMA ReceiverStarts ==
  ASSUME ReceiverInit
  PROVE  /\ PacketAt(l2_state, pkt) /\ parser \in [state : States, pkt : Pkts]
              /\ PacketAt(parser.state, parser.pkt)
         /\ status \subseteq {"crc"} /\ connected \in BOOLEAN /\ split \in BOOLEAN
              /\ parser = Receiver
<1>1. /\ l2_state = "start" /\ pkt = NoPacket /\ status = {} /\ connected = TRUE
      /\ parser = [state |-> "start", pkt |-> NoPacket] /\ split = FALSE
  BY DEF ReceiverInit, NoParser
<1>2. "start" \in States
  BY DEF States
<1>3. NoPacket \in Pkts
  BY NoPacketAt DEF PacketAt
<1>4. parser.state = "start" /\ parser.pkt = NoPacket /\ parser \in [state : States, pkt : Pkts]
  BY <1>1, <1>2, <1>3
<1>5. QED
  BY <1>1, <1>4, NoPacketAt DEF Receiver

\* The invariant of the receiver holds at the start.
LEMMA FramingStarts ==
  ASSUME Init
  PROVE  FramingInv
<1>1. SentIs
  BY DEF Init, SentIs
<1>2. Len(sent) \in Nat /\ Len(sent) = Len(setup.packed)
        /\ \A i \in 1..Len(sent) : PackedRight(sent[i], setup.id)
  BY <1>1, SentRight
<1>3. IsTerminal(setup)
  BY <1>1, TheSetup DEF SentIs
<1> DEFINE E == <<>>
<1>4. CASE setup.arrived
  <2> DEFINE Came(p) == [flags |-> p.flags, payload |-> p.payload, end |-> STOP_BYTE,
                         crc |-> crc16(0, <<START_BYTE, p.flags, Len(p.payload) + 5>> \o p.payload)]
             n == Len(sent)
  <2>1. /\ ReceiverInit /\ wire = <<>> /\ converted = [i \in 1..n |-> Came(sent[i])]
        /\ got = [i \in 1..n |-> [record |-> converted[i], status |-> {}]]
    BY <1>4 DEF Init, ArrivedInit
  <2>2. \A i \in 1..n : Came(sent[i]) \in Records
    BY <1>2, ArrivedType
  <2>3. n \in Nat
    BY <1>2
  <2> HIDE DEF Came, n
  <2>4. \A i \in 1..n : got[i] = [record |-> converted[i], status |-> {}]
          /\ converted[i] \in Records
    BY <2>1, <2>2
  <2>5. got \in Seq(Received) /\ Len(got) = n
    <3>1. \A i \in 1..n : [record |-> converted[i], status |-> {}] \in Received
      BY <2>4 DEF Received
    <3>2. QED
      BY <2>1, <2>3, <3>1
  <2>6. converted = [i \in 1..Len(got) |-> got[i].record]
    <3>1. converted = [i \in 1..n |-> converted[i]]
      BY <2>1
    <3>2. QED
      BY <2>4, <2>5, <3>1
  <2>7. wire \in Seq(Byte \cup {GAP})
    BY <2>1, EmptySeq
  <2>8. QED
    BY <2>1, <2>5, <2>6, <2>7, ReceiverStarts DEF FramingInv, Lockstep
<1>5. CASE ~setup.arrived
  <2>1. noise \in Noises(Frame(sent[1])) /\ pause \in BOOLEAN /\ FramingInit
    BY <1>5 DEF Init
  <2>2. ReceiverInit /\ wire = Line(sent, noise, pause) /\ got = <<>> /\ converted = <<>>
    BY <2>1 DEF FramingInit
  <2>3. setup.packed # <<>> /\ Len(sent) # 0
    <3>1. setup.packed # <<>>
            /\ setup.packed \in Seq([flags : Byte, tables : Seq([id : Byte, fill : Byte])])
      BY <1>3, <1>5 DEF IsTerminal
    <3>2. QED
      BY <3>1, <1>2, EmptySeq
  <2>4. noise \in NoisesOf(Frame(sent[1]))
    <3>1. 1 \in 1..Len(setup.packed)
      BY <2>3, <1>2
    <3>2. sent[1] = Packed(setup, setup.packed[1])
      BY <3>1, <1>1 DEF SentIs
    <3>3. Noises(Frame(Packed(setup, setup.packed[1])))
            \subseteq NoisesOf(Frame(Packed(setup, setup.packed[1])))
      BY <1>3, <1>5 DEF IsTerminal, NoisesOf
    <3>4. QED
      BY <2>1, <3>2, <3>3
  <2>5. \A i \in 1..Len(sent) : IsPacket(sent[i])
    BY <1>2 DEF PackedRight, IsPacket
  <2>6. wire \in Seq(Byte \cup {GAP})
    <3> DEFINE n == Len(sent)
    <3>1. n \in Nat \ {0} /\ \A i \in 1..n : IsPacket(sent[i])
      BY <1>2, <2>3, <2>5
    <3> HIDE DEF n
    <3>2. Line(sent, noise, pause) \in Seq(Byte \cup {GAP})
      BY <2>1, <2>4, <3>1, LineType DEF n
    <3>3. QED
      BY <2>2, <3>2
  <2>7. got \in Seq(Received) /\ Len(got) = 0
    BY <2>2, EmptySeq
  <2>8. converted = [i \in 1..Len(got) |-> got[i].record]
    BY <2>2, <2>7
  <2>9. QED
    BY <2>2, <2>6, <2>7, <2>8, ReceiverStarts DEF FramingInv, Lockstep
<1>6. QED
  BY <1>4, <1>5

---------------------------------------------------------------------------
(* The two parsers agree *)

\* It depends on nothing but the line and the receiver.
LEMMA FramingKept ==
  ASSUME FramingInv, UNCHANGED framingVars
  PROVE  FramingInv'
<1>1. /\ wire' = wire /\ l2_state' = l2_state /\ pkt' = pkt /\ status' = status
           /\ connected' = connected
      /\ got' = got /\ parser' = parser /\ converted' = converted /\ split' = split
  BY DEF framingVars
<1>2. Lockstep'
  BY <1>1 DEF FramingInv, Lockstep, Receiver
<1>3. QED
  BY <1>1, <1>2 DEF FramingInv

\* No other action than Receive touches the line, the receiver or the transcript.
LEMMA OnlyReceives ==
  ASSUME [Next]_vars
  PROVE  (Receive /\ (ReceiveByte \/ Timeout)) \/ UNCHANGED framingVars
<1>1. CASE Receive
  BY <1>1 DEF Receive
<1>2. CASE Take
  BY <1>2 DEF Take
<1>3. ASSUME NEW id, NEW answer, Handle(id, answer) PROVE UNCHANGED framingVars
  BY <1>3 DEF Handle
<1>4. CASE TimeSyncReq
  BY <1>3, <1>4 DEF TimeSyncReq
<1>5. CASE AtnReqTabUpd
  BY <1>3, <1>5 DEF AtnReqTabUpd
<1>6. CASE Alarm
  BY <1>3, <1>6 DEF Alarm
<1>7. CASE MaintReq
  BY <1>3, <1>7 DEF MaintReq
<1>8. CASE CallDetails
  BY <1>3, <1>8 DEF CallDetails
<1>9. CASE BeginUpload
  BY <1>3, <1>9 DEF BeginUpload
<1>10. CASE CashBoxCollection
  BY <1>3, <1>10 DEF CashBoxCollection
<1>11. CASE Report
  BY <1>3, <1>11 DEF Report
<1>12. CASE SwVersion
  BY <1>3, <1>12 DEF SwVersion
<1>13. CASE RateRequest
  BY <1>3, <1>13 DEF RateRequest
<1>14. CASE FunfCardAuth
  BY <1>3, <1>14 DEF FunfCardAuth
<1>15. CASE EndData
  BY <1>3, <1>15 DEF EndData
<1>16. CASE TableUpdAck
  BY <1>3, <1>16 DEF TableUpdAck
<1>17. CASE Unhandled
  BY <1>17 DEF Unhandled
<1>18. CASE Reply
  BY <1>18 DEF Reply
<1>19. CASE Download
  BY <1>19 DEF Download
<1>20. CASE EndDownload
  BY <1>20 DEF EndDownload
<1>21. CASE UNCHANGED vars
  BY <1>21 DEF vars
<1>22. QED
  BY <1>1, <1>2, <1>4, <1>5, <1>6, <1>7, <1>8, <1>9, <1>10, <1>11, <1>12, <1>13, <1>14, <1>15,
     <1>16,
     <1>17, <1>18, <1>19, <1>20, <1>21 DEF Next

\* No step of the program breaks it.
LEMMA FramingPreserved ==
  FramingInv /\ [Next]_vars => FramingInv'
<1> SUFFICES ASSUME FramingInv, [Next]_vars PROVE FramingInv'
  OBVIOUS
<1>1. QED
  BY OnlyReceives, FramingStep, FramingKept

\* Whatever the line does, the receiver is in a state that the bytes so far explain: its buffer
\* never takes more than 250 bytes, and the parser of the transcript is at the same place of the
\* same packet, unless a pause fell within a frame.
THEOREM FramingInvariant == Spec => []FramingInv
BY FramingStarts, FramingPreserved, PTL DEF Spec

\* The capture that mm_dlog2pcap makes of a transcript has the packets that receive_mm_packet
\* recorded, damaged ones included, for any packets, any disturbance and any pause between
\* frames.
THEOREM TranscriptsAgree == Spec => []TranscriptAgrees
<1>1. FramingInv => TranscriptAgrees
  BY DEF FramingInv, Lockstep, TranscriptAgrees
<1>2. QED
  BY <1>1, FramingInvariant, PTL

---------------------------------------------------------------------------
(* The walk and the download *)

WalkInv ==
    /\ pc \in {"receive", "process", "download"}
    /\ taken \in 0..Len(got)
    /\ taken < Len(got) /\ IsIntact(got[taken + 1]) => Len(got) = taken + 1
    /\ pc # "receive" =>
          /\ taken = Len(got) /\ taken # 0 /\ terminal_id = phone_num_to_string(setup.id, 11)
          /\ \E i \in 1..Len(sent) : Current.payload = sent[i].payload
    /\ terminal_id \in Seq(Digit16) /\ at \in Nat \ {0} /\ IsAnswer(out)

ContextInv ==
    /\ cdr_ack_buffer \in Seq(Byte) /\ Len(cdr_ack_buffer) <= PKT_TABLE_DATA_LEN_MAX
    /\ trans_data_in_progress \in BOOLEAN /\ terminal_type \in Byte

\* A table that the download makes.
IsMade(bytes) == \E id : ~Skips(id) /\ bytes = OfModelSent(TableFor(id))

SendInv ==
    /\ table \in Seq(Byte) /\ packets = PacketsOf(setup.id, table)
    /\ table = <<>> \/ table[1] \in Replies \/ (pc = "download" /\ IsMade(table))

ContentsInv == SentIs /\ FramingInv /\ WalkInv /\ ContextInv /\ SendInv

\* The number of a terminal is put back into the bytes it came in.
LEMMA NumberOfTerminal ==
  ASSUME SentIs
  PROVE  /\ TerminalBytes(phone_num_to_string(setup.id, 11)) = setup.id
         /\ Bytes(setup.id, 5)
         /\ phone_num_to_string(setup.id, 11) \in Seq(Digit16)
<1>1. IsTerminal(setup)
  BY TheSetup DEF SentIs
<1>2. setup.id \in Seq(Byte) /\ Len(setup.id) = 5
  BY <1>1 DEF IsTerminal, PKT_TABLE_ID_OFFSET
<1>3. \A i \in 1..10 : Nibble(setup.id, i) # END_OF_NUMBER
  <2>1. 2 * PKT_TABLE_ID_OFFSET = 10
    BY DEF PKT_TABLE_ID_OFFSET
  <2>2. \A i \in 1..10 : Nibble(setup.id, i) \in Decimal
    BY <1>1, <2>1 DEF IsTerminal
  <2>3. QED
    BY <2>2, DecimalDigit
<1>4. TerminalBytes(phone_num_to_string(setup.id, 11)) = setup.id
  BY <1>2, <1>3, TerminalBytesKept
<1>5. phone_num_to_string(setup.id, 11) \in Seq(Digit16)
  <2> DEFINE room == 11
  <2>1. room \in Nat \ {0}
    OBVIOUS
  <2> HIDE DEF room
  <2>2. phone_num_to_string(setup.id, room) \in Seq(Digit16)
    BY <2>1, <1>2, PhoneType
  <2>3. QED
    BY <2>2 DEF room
<1>6. QED
  BY <1>2, <1>4, <1>5 DEF Bytes

\* An empty table makes no packet.
LEMMA NoPackets == ASSUME NEW id PROVE PacketsOf(id, <<>>) = <<>>
<1>1. Len(<<>>) = 0 /\ Count(0) = 0
  BY DEF Count, ChunkSize, PKT_TABLE_DATA_LEN_MAX
<1>2. PacketsOf(id, <<>>)
        = [i \in 1..0 |-> Frame([flags |-> 0, payload |-> id \o ChunkOf(<<>>, i)])]
  BY <1>1 DEF PacketsOf
<1>3. QED
  BY <1>2

\* The invariant of the walk and the download holds at the start.
LEMMA ContentsStarts ==
  ASSUME Init
  PROVE  ContentsInv
<1>1. SentIs /\ FramingInv
  BY FramingStarts DEF Init, SentIs
<1>2. <<>> \in Seq(Byte) /\ <<>> \in Seq(Digit16)
  BY EmptySeq
<1>3. WalkInv
  <2>1. /\ pc = "receive" /\ taken = 0 /\ terminal_id = <<>> /\ at = 1 /\ out = <<>>
    BY DEF Init
  <2>2. Len(got) \in Nat
    BY <1>1, LenProperties DEF FramingInv
  <2>3. taken < Len(got) => Len(got) = 1
    <3>1. CASE setup.arrived
      <4>1. Len(setup.packed) = 1
        BY <1>1, <3>1, TheSetup DEF SentIs, IsTerminal
      <4>2. Len(sent) = 1
        BY <1>1, <4>1, SentRight
      <4>3. got = [i \in 1..1 |-> [record |-> converted[i], status |-> {}]]
        BY <3>1, <4>2 DEF Init, ArrivedInit
      <4>4. QED
        BY <4>3
    <3>2. CASE ~setup.arrived
      <4>1. got = <<>>
        BY <3>2 DEF Init, FramingInit
      <4>2. QED
        BY <4>1, <2>1
    <3>3. QED
      BY <3>1, <3>2
  <2>4. QED
    BY <1>2, <2>1, <2>2, <2>3, NoAnswer DEF WalkInv
<1>4. ContextInv
  <2>1. setup.queue \in Seq(Byte) /\ Len(setup.queue) <= PKT_TABLE_DATA_LEN_MAX
    BY <1>1, TheSetup DEF SentIs
  <2>2. cdr_ack_buffer = setup.queue /\ trans_data_in_progress \in BOOLEAN /\ terminal_type = 0
    BY DEF Init
  <2>3. 0 \in Byte
    BY ByteDef
  <2>4. QED
    BY <2>1, <2>2, <2>3 DEF ContextInv
<1>5. SendInv
  BY <1>2, NoPackets DEF Init, SendInv
<1>6. QED
  BY <1>1, <1>3, <1>4, <1>5 DEF ContentsInv

\* What is sent stays what it is.
LEMMA SentKept ==
  ASSUME SentIs, setup' = setup, sent' = sent
  PROVE  SentIs'
<1> DEFINE All(s) == [i \in 1..Len(s.packed) |-> Packed(s, s.packed[i])]
<1>1. sent = All(setup) /\ setup \in Setups
  BY DEF SentIs
<1>2. sent' = All(setup') /\ setup' \in Setups
  <2> HIDE DEF All
  <2>1. QED
    BY <1>1
<1>3. QED
  BY <1>2 DEF SentIs

\* What a step of the walk leaves alone.
LEMMA WalkKeeps ==
  ASSUME ContentsInv, pc = "process",
           UNCHANGED <<framingVars, setup, pc, taken, terminal_id, sendVars>>,
         at' \in Nat \ {0}, IsAnswer(out'), ContextInv'
  PROVE  ContentsInv'
<1>1. /\ setup' = setup /\ pc' = pc /\ taken' = taken /\ terminal_id' = terminal_id
      /\ table' = table /\ packets' = packets /\ sent' = sent /\ got' = got
  BY DEF framingVars, lineVars, sendVars
<1>2. SentIs'
  <2>1. SentIs
    BY DEF ContentsInv
  <2>2. QED
    BY <1>1, <2>1, SentKept
<1>3. FramingInv'
  BY FramingKept DEF ContentsInv
<1>4. Current' = Current
  BY <1>1 DEF Current
<1>5. WalkInv'
  BY <1>1, <1>4 DEF ContentsInv, WalkInv
<1>6. SendInv'
  BY <1>1 DEF ContentsInv, SendInv
<1>7. QED
  BY <1>2, <1>3, <1>5, <1>6 DEF ContentsInv

\* What the walk relies on.
LEMMA InWalkFacts ==
  ASSUME ContentsInv, pc = "process"
  PROVE  /\ got \in Seq(Received) /\ taken \in 1..Len(got) /\ at \in Nat \ {0} /\ setup \in Setups
         /\ IsAnswer(out) /\ ContextInv
<1>1. got \in Seq(Received) /\ Len(got) \in Nat
  BY LenProperties DEF ContentsInv, FramingInv
<1>2. QED
  BY <1>1 DEF ContentsInv, WalkInv, SentIs

\* A table that is handled with an answer keeps the invariant.
LEMMA Handled ==
  ASSUME ContentsInv, NEW id \in Understood, NEW answer, IsAnswer(answer), Handle(id, answer),
           ContextInv'
  PROVE  ContentsInv'
<1>1. /\ pc = "process" /\ at' = at + Size[id] /\ out' = out \o answer
      /\ UNCHANGED <<framingVars, setup, pc, taken, terminal_id, sendVars>>
  BY DEF Handle, InWalk, Skip
<1>2. Size[id] \in Nat \ {0}
  BY SizeType
<1>3. at' \in Nat \ {0}
  BY <1>1, <1>2, InWalkFacts
<1>4. IsAnswer(out')
  BY <1>1, InWalkFacts, AnswersJoined
<1>5. QED
  BY <1>1, <1>3, <1>4, WalkKeeps

\* What the walk does not change.
LEMMA ContextKept ==
  ASSUME ContentsInv, UNCHANGED contextVars
  PROVE  ContextInv'
BY DEF ContentsInv, ContextInv, contextVars

\* Tables are handled in the walk only.
LEMMA HandledPc == ASSUME NEW id, NEW answer, Handle(id, answer) PROVE pc = "process"
BY DEF Handle, InWalk

\* DLOG_MT_TIME_SYNC_REQ.
LEMMA TimeSyncReqKeeps == ASSUME ContentsInv, TimeSyncReq PROVE ContentsInv'
<1> DEFINE now == setup.now
           answer == <<TIME_SYNC, now.year, now.month, now.day, now.hour, now.min, now.sec,
             now.wday + 1, END_DATA>>
<1>1. Handle(TIME_SYNC_REQ, answer) /\ UNCHANGED contextVars
  BY DEF TimeSyncReq, Kept
<1>2. IsTime(now)
  BY TheSetup DEF ContentsInv, SentIs
<1> HIDE DEF now
<1>3. IsAnswer(answer)
  BY <1>2, TimeSyncAnswer
<1>4. TIME_SYNC_REQ \in Understood
  BY DEF Understood
<1> HIDE DEF answer
<1>5. QED
  BY <1>1, <1>3, <1>4, ContextKept, Handled

\* DLOG_MT_ATN_REQ_TAB_UPD.
LEMMA AtnReqTabUpdKeeps == ASSUME ContentsInv, AtnReqTabUpd PROVE ContentsInv'
<1> DEFINE asked == IF HasFlag(At(at + 1), TTBLREQ_CASHBOX_STATUS) THEN CashBox ELSE <<>>
           answer == <<TABLE_UPD>> \o asked
<1>1. Handle(ATN_REQ_TAB_UPD, answer) /\ UNCHANGED contextVars
  BY DEF AtnReqTabUpd
<1>2. IsAnswer(asked)
  BY CashBoxAnswer, NoAnswer
<1>3. IsAnswer(answer)
  <2>1. TABLE_UPD \in Replies
    BY DEF Replies
  <2>2. asked \in Seq(Byte)
    BY <1>2 DEF IsAnswer
  <2> HIDE DEF asked
  <2>3. QED
    BY <2>1, <2>2, AnswerMore
<1>4. ATN_REQ_TAB_UPD \in Understood
  BY DEF Understood
<1> HIDE DEF answer
<1>5. QED
  BY <1>1, <1>3, <1>4, ContextKept, Handled

\* An answer that gives a field back is one.
LEMMA FieldAnswer ==
  ASSUME ContentsInv, pc = "process", NEW id \in Replies, NEW struct, IsTable(struct),
         NEW name, \E k \in 1..Len(struct) : struct[k][1] = name
  PROVE  IsAnswer(<<id>> \o Field(struct, name)) /\ Field(struct, name) \in Seq(Byte)
<1>1. Field(struct, name) \in Seq(Byte)
  BY InWalkFacts, FieldType
<1>2. QED
  BY <1>1, AnswerMore

\* DLOG_MT_ALARM.
LEMMA AlarmKeeps == ASSUME ContentsInv, Alarm PROVE ContentsInv'
<1> DEFINE answer == <<ALARM_ACK>> \o Field(dlog_mt_alarm_t, "alarm_id")
<1>1. Handle(ALARM, answer) /\ UNCHANGED contextVars
  BY DEF Alarm, Kept
<1>2. IsAnswer(answer)
  <2>1. \E k \in 1..Len(dlog_mt_alarm_t) : dlog_mt_alarm_t[k][1] = "alarm_id"
    <3>1. Len(dlog_mt_alarm_t) = 3 /\ dlog_mt_alarm_t[3][1] = "alarm_id"
      BY DEF dlog_mt_alarm_t
    <3>2. QED
      BY <3>1
  <2>2. ALARM_ACK \in Replies
    BY DEF Replies
  <2>3. QED
    BY <1>1, <2>1, <2>2, HandledPc, Layouts, FieldAnswer
<1>3. ALARM \in Understood
  BY DEF Understood
<1> HIDE DEF answer
<1>4. QED
  BY <1>1, <1>2, <1>3, ContextKept, Handled

\* DLOG_MT_MAINT_REQ.
LEMMA MaintReqKeeps == ASSUME ContentsInv, MaintReq PROVE ContentsInv'
<1> DEFINE answer == <<MAINT_ACK>> \o Field(dlog_mt_maint_req_t, "type")
<1>1. Handle(MAINT_REQ, answer) /\ UNCHANGED contextVars
  BY DEF MaintReq, Kept
<1>2. IsAnswer(answer)
  <2>1. \E k \in 1..Len(dlog_mt_maint_req_t) : dlog_mt_maint_req_t[k][1] = "type"
    <3>1. Len(dlog_mt_maint_req_t) = 3 /\ dlog_mt_maint_req_t[2][1] = "type"
      BY DEF dlog_mt_maint_req_t
    <3>2. QED
      BY <3>1
  <2>2. MAINT_ACK \in Replies
    BY DEF Replies
  <2>3. QED
    BY <1>1, <2>1, <2>2, HandledPc, Layouts, FieldAnswer
<1>3. MAINT_REQ \in Understood
  BY DEF Understood
<1> HIDE DEF answer
<1>4. QED
  BY <1>1, <1>2, <1>3, ContextKept, Handled

\* DLOG_MT_CALL_DETAILS: what is queued for an acknowledgement has room in one packet.
LEMMA CallDetailsKeeps == ASSUME ContentsInv, CallDetails PROVE ContentsInv'
<1> DEFINE ack == <<CDR_DETAILS_ACK>> \o Field(dlog_mt_call_details_t, "seq")
           answer == IF trans_data_in_progress THEN <<>> ELSE ack
<1>1. /\ Handle(CALL_DETAILS, answer)
      /\ cdr_ack_buffer' = IF trans_data_in_progress THEN append_to_cdr_ack_buffer(ack)
           ELSE cdr_ack_buffer
      /\ trans_data_in_progress' = trans_data_in_progress /\ terminal_type' = terminal_type
  BY DEF CallDetails
<1>2. IsAnswer(ack)
  <2>1. \E k \in 1..Len(dlog_mt_call_details_t) : dlog_mt_call_details_t[k][1] = "seq"
    <3>1. Len(dlog_mt_call_details_t) = 14 /\ dlog_mt_call_details_t[7][1] = "seq"
      BY DEF dlog_mt_call_details_t
    <3>2. QED
      BY <3>1
  <2>2. CDR_DETAILS_ACK \in Replies
    BY DEF Replies
  <2>3. QED
    BY <1>1, <2>1, <2>2, HandledPc, Layouts, FieldAnswer
<1> HIDE DEF ack
<1>3. IsAnswer(answer)
  BY <1>2, NoAnswer
<1>4. CALL_DETAILS \in Understood
  BY DEF Understood
<1>5. ContextInv'
  <2>1. cdr_ack_buffer \in Seq(Byte) /\ Len(cdr_ack_buffer) <= PKT_TABLE_DATA_LEN_MAX
          /\ ack \in Seq(Byte)
    BY <1>2 DEF ContentsInv, ContextInv, IsAnswer
  <2>2. cdr_ack_buffer \o ack \in Seq(Byte)
          /\ Len(cdr_ack_buffer \o ack) = Len(cdr_ack_buffer) + Len(ack)
    BY <2>1, ConcatProperties
  <2>3. Len(cdr_ack_buffer) \in Nat /\ Len(ack) \in Nat /\ PKT_TABLE_DATA_LEN_MAX \in Nat
    BY <2>1, LenProperties DEF PKT_TABLE_DATA_LEN_MAX
  <2>4. cdr_ack_buffer' \in Seq(Byte) /\ Len(cdr_ack_buffer') <= PKT_TABLE_DATA_LEN_MAX
    BY <1>1, <2>1, <2>2, <2>3 DEF append_to_cdr_ack_buffer
  <2>5. QED
    BY <1>1, <2>4 DEF ContentsInv, ContextInv
<1> HIDE DEF answer
<1>6. QED
  BY <1>1, <1>3, <1>4, <1>5, Handled

\* DLOG_MT_ATN_REQ_CDR_UPL.
LEMMA BeginUploadKeeps == ASSUME ContentsInv, BeginUpload PROVE ContentsInv'
<1>1. PICK id \in {ATN_REQ_CDR_UPL, CALL_IN, CALL_BACK} : Handle(id, <<TRANS_DATA>>)
  BY DEF BeginUpload
<1>2. id \in Understood /\ TRANS_DATA \in Replies
  BY DEF Understood, Replies
<1>3. IsAnswer(<<TRANS_DATA>>)
  BY <1>2, SingleAnswers
<1>4. ContextInv'
  BY DEF BeginUpload, ContentsInv, ContextInv
<1>5. QED
  BY <1>1, <1>2, <1>3, <1>4, Handled

\* DLOG_MT_CASH_BOX_COLLECTION.
LEMMA CashBoxCollectionKeeps == ASSUME ContentsInv, CashBoxCollection PROVE ContentsInv'
<1>1. Handle(CASH_BOX_COLLECTION, <<END_DATA>>) /\ UNCHANGED contextVars
  BY DEF CashBoxCollection, Kept
<1>2. CASH_BOX_COLLECTION \in Understood /\ END_DATA \in Replies
  BY DEF Understood, Replies
<1>3. IsAnswer(<<END_DATA>>)
  BY <1>2, SingleAnswers
<1>4. QED
  BY <1>1, <1>2, <1>3, ContextKept, Handled

\* The tables that are only saved.
LEMMA ReportKeeps == ASSUME ContentsInv, Report PROVE ContentsInv'
<1>1. PICK id \in Unanswered : Handle(id, <<>>) /\ UNCHANGED contextVars
  BY DEF Report, Kept
<1>2. id \in Understood
  BY DEF Unanswered, Understood
<1>3. QED
  BY <1>1, <1>2, NoAnswer, ContextKept, Handled

\* DLOG_MT_SW_VERSION: the type of the terminal is a byte.
LEMMA SwVersionKeeps == ASSUME ContentsInv, SwVersion PROVE ContentsInv'
<1>1. Handle(SW_VERSION, <<>>)
  BY DEF SwVersion
<1>2. SW_VERSION \in Understood
  BY DEF Understood
<1>3. setup.type \in Byte
  BY TheSetup DEF ContentsInv, SentIs, IsTerminal
<1>4. ContextInv'
  BY <1>3 DEF SwVersion, ContentsInv, ContextInv
<1>5. QED
  BY <1>1, <1>2, <1>4, NoAnswer, Handled

\* DLOG_MT_RATE_REQUEST.
LEMMA RateRequestKeeps == ASSUME ContentsInv, RateRequest PROVE ContentsInv'
<1> DEFINE field == Field(dlog_mt_rate_request_t, "phone_number")
           room == 21
           phone_number == phone_num_to_string(field, room)
           charge == initial_charge(phone_number)
           rating == setup.rating
           answer == <<RATE_RESPONSE, 7>>
             \o LE16s(IF rating THEN <<60, charge, 0, 0>> ELSE <<240, 100, 60, 25>>)
                       \o Zeros(2 * 8)
<1>1. Handle(RATE_REQUEST, answer) /\ UNCHANGED contextVars
  BY DEF RateRequest, Kept
<1>2. field \in Seq(Byte)
  <2>1. \E k \in 1..Len(dlog_mt_rate_request_t) : dlog_mt_rate_request_t[k][1] = "phone_number"
    <3>1. Len(dlog_mt_rate_request_t) = 10 /\ dlog_mt_rate_request_t[4][1] = "phone_number"
      BY DEF dlog_mt_rate_request_t
    <3>2. QED
      BY <3>1
  <2>2. pc = "process"
    <3> HIDE DEF answer
    <3>1. QED
      BY <1>1, HandledPc
  <2>3. QED
    BY <2>1, <2>2, InWalkFacts, Layouts, FieldType
<1>3. room \in Nat \ {0}
  OBVIOUS
<1> HIDE DEF field, room
<1>4. phone_number \in Seq(Digit16)
  BY <1>2, <1>3, PhoneType
<1> HIDE DEF phone_number
<1>5. charge \in Checksum
  BY <1>4, ChargeType
<1>6. rating \in BOOLEAN
  BY TheSetup DEF ContentsInv, SentIs, HasOptions
<1> HIDE DEF charge, rating
<1>7. IsAnswer(answer)
  BY <1>5, <1>6, RateAnswer
<1>8. RATE_REQUEST \in Understood
  BY DEF Understood
<1> HIDE DEF answer
<1>9. QED
  BY <1>1, <1>7, <1>8, ContextKept, Handled

\* DLOG_MT_FUNF_CARD_AUTH.
LEMMA FunfCardAuthKeeps == ASSUME ContentsInv, FunfCardAuth PROVE ContentsInv'
<1> DEFINE raw == setup.now.raw
           answer == <<AUTH_RESP_CODE, 0>> \o raw
             \o [i \in 1..12 |-> IF i <= 10 THEN 47 + i ELSE 54 + i]
<1>1. Handle(FUNF_CARD_AUTH, answer) /\ UNCHANGED contextVars
  BY DEF FunfCardAuth, Kept
<1>2. raw \in Seq(Byte)
  BY TheSetup DEF ContentsInv, SentIs, IsTime
<1> HIDE DEF raw
<1>3. IsAnswer(answer)
  BY <1>2, AuthAnswer
<1>4. FUNF_CARD_AUTH \in Understood
  BY DEF Understood
<1> HIDE DEF answer
<1>5. QED
  BY <1>1, <1>3, <1>4, ContextKept, Handled

\* DLOG_MT_END_DATA: the acknowledgements that were queued are bytes and fit.
LEMMA EndDataKeeps == ASSUME ContentsInv, EndData PROVE ContentsInv'
<1> DEFINE answer == <<END_DATA>> \o cdr_ack_buffer
<1>1. /\ Handle(END_DATA, answer) /\ trans_data_in_progress' = FALSE /\ cdr_ack_buffer' = <<>>
      /\ terminal_type' = terminal_type
  BY DEF EndData
<1>2. END_DATA \in Understood /\ END_DATA \in Replies
  BY DEF Understood, Replies
<1>3. IsAnswer(answer)
  BY <1>2, AnswerMore DEF ContentsInv, ContextInv
<1>4. ContextInv'
  <2>1. <<>> \in Seq(Byte) /\ Len(<<>>) = 0
    BY EmptySeq
  <2>2. PKT_TABLE_DATA_LEN_MAX \in Nat
    BY DEF PKT_TABLE_DATA_LEN_MAX
  <2> DEFINE E == <<>>
  <2>3. /\ E \in Seq(Byte) /\ Len(E) <= PKT_TABLE_DATA_LEN_MAX /\ cdr_ack_buffer' = E
        /\ trans_data_in_progress' = FALSE /\ terminal_type' = terminal_type
    BY <1>1, <2>1, <2>2
  <2> HIDE DEF E
  <2>4. terminal_type \in Byte
    BY DEF ContentsInv, ContextInv
  <2>5. QED
    BY <2>3, <2>4 DEF ContextInv
<1> HIDE DEF answer
<1>5. QED
  BY <1>1, <1>2, <1>3, <1>4, Handled

\* DLOG_MT_TABLE_UPD_ACK.
LEMMA TableUpdAckKeeps == ASSUME ContentsInv, TableUpdAck PROVE ContentsInv'
<1>1. Handle(TABLE_UPD_ACK, <<TRANS_DATA>>) /\ UNCHANGED contextVars
  BY DEF TableUpdAck, Kept
<1>2. TABLE_UPD_ACK \in Understood /\ TRANS_DATA \in Replies
  BY DEF Understood, Replies
<1>3. IsAnswer(<<TRANS_DATA>>)
  BY <1>2, SingleAnswers
<1>4. QED
  BY <1>1, <1>2, <1>3, ContextKept, Handled

\* A table with a number that process_mm_table does not know.
LEMMA UnhandledKeeps == ASSUME ContentsInv, Unhandled PROVE ContentsInv'
<1>1. /\ pc = "process" /\ at' = at + 1 /\ out' = out /\ UNCHANGED contextVars
      /\ UNCHANGED <<framingVars, setup, pc, taken, terminal_id, sendVars>>
  BY DEF Unhandled, InWalk, Kept
<1>2. at' \in Nat \ {0} /\ IsAnswer(out')
  BY <1>1, InWalkFacts
<1>3. QED
  BY <1>1, <1>2, ContextKept, WalkKeeps

\* A step of the receiver adds a packet to those received, or none.
LEMMA OneMore ==
  ASSUME ReceiveByte \/ Timeout
  PROVE  got' = got \/ \E r : got' = Append(got, r)
<1>1. CASE Timeout
  BY <1>1 DEF Timeout
<1>2. CASE ReceiveByte
  BY <1>2 DEF ReceiveByte, SearchForStart, GetFlags, GetLength, AccumulateData, GetCrc0, GetCrc1,
     GetStop
<1>3. QED
  BY <1>1, <1>2

\* A byte or a pause from the line.
LEMMA ReceiveKeeps ==
  ASSUME ContentsInv, Receive
  PROVE  ContentsInv'
<1>1. /\ pc = "receive" /\ Waiting /\ (ReceiveByte \/ Timeout)
      /\ UNCHANGED <<setup, pc, taken, walkVars, contextVars, table_download_pending, sendVars>>
  BY DEF Receive
<1>2. /\ pc' = pc /\ taken' = taken /\ terminal_id' = terminal_id /\ at' = at /\ out' = out
      /\ table' = table /\ packets' = packets /\ setup' = setup
  BY <1>1 DEF walkVars, sendVars
<1>3. sent' = sent
  <2>1. CASE Timeout
    BY <2>1 DEF Timeout, lineVars
  <2>2. CASE ReceiveByte
    BY <2>2 DEF ReceiveByte, SearchForStart, GetFlags, GetLength, AccumulateData, GetCrc0,
       GetCrc1, GetStop, Takes, lineVars
  <2>3. QED
    BY <1>1, <2>1, <2>2
<1>4. SentIs'
  BY <1>2, <1>3, SentKept DEF ContentsInv
<1>5. FramingInv'
  BY <1>1, FramingStep DEF ContentsInv
<1>6. WalkInv'
  <2>1. got \in Seq(Received) /\ Len(got) \in Nat
    BY LenProperties DEF ContentsInv, FramingInv
  <2>2. taken \in 0..Len(got) /\ terminal_id \in Seq(Digit16) /\ at \in Nat \ {0} /\ IsAnswer(out)
    BY DEF ContentsInv, WalkInv
  <2>3. CASE got' = got
    <3>1. (taken < Len(got) /\ IsIntact(got[taken + 1])) => Len(got) = taken + 1
      BY DEF ContentsInv, WalkInv
    <3>2. QED
      BY <1>1, <1>2, <2>2, <2>3, <3>1 DEF WalkInv
  <2>4. ASSUME NEW r, got' = Append(got, r) PROVE WalkInv'
    <3>1. Len(got') = Len(got) + 1 /\ \A k \in 1..Len(got) : got'[k] = got[k]
      BY <2>1, <2>4
    <3>2. taken' \in 0..Len(got')
      BY <1>2, <2>1, <2>2, <3>1
    <3>3. ASSUME taken' < Len(got'), IsIntact(got'[taken' + 1]) PROVE Len(got') = taken' + 1
      <4>1. CASE taken = Len(got)
        BY <1>2, <3>1, <4>1
      <4>2. CASE taken # Len(got)
        <5>1. taken < Len(got) /\ taken + 1 \in 1..Len(got)
          BY <2>1, <2>2, <4>2
        <5>2. ~IsIntact(got[taken + 1]) /\ got'[taken + 1] = got[taken + 1]
          BY <1>1, <3>1, <5>1 DEF Waiting
        <5>3. QED
          BY <1>2, <3>3, <5>2
      <4>3. QED
        BY <4>1, <4>2
    <3>4. QED
      BY <1>1, <1>2, <2>2, <3>2, <3>3 DEF WalkInv
  <2>5. QED
    BY <1>1, <2>3, <2>4, OneMore
<1>7. ContextInv'
  BY <1>1, ContextKept
<1>8. SendInv'
  <2>1. table \in Seq(Byte) /\ packets = PacketsOf(setup.id, table)
          /\ (table = <<>> \/ table[1] \in Replies)
    BY <1>1 DEF ContentsInv, SendInv
  <2>2. QED
    BY <1>2, <2>1 DEF SendInv
<1>9. QED
  BY <1>4, <1>5, <1>6, <1>7, <1>8 DEF ContentsInv

\* The packet to be looked at is one that the terminal sent.
LEMMA NextSent ==
  ASSUME ContentsInv, IntactIsSent, pc = "receive", ~Waiting
  PROVE  /\ Len(got) = taken + 1 /\ taken \in Nat
         /\ \E i \in 1..Len(sent) : got[taken + 1].record.payload = sent[i].payload
<1>1. taken < Len(got) /\ IsIntact(got[taken + 1])
  BY DEF Waiting
<1>2. got \in Seq(Received) /\ Len(got) \in Nat /\ taken \in 0..Len(got)
  BY LenProperties DEF ContentsInv, FramingInv, WalkInv
<1>3. Len(got) = taken + 1 /\ taken \in Nat
  BY <1>1, <1>2 DEF ContentsInv, WalkInv
<1>4. taken + 1 \in Intact
  BY <1>1, <1>3 DEF Intact
<1>5. PICK places \in [Intact -> 1..Len(sent)] : \A i \in Intact : Sent(got[i]) = sent[places[i]]
  BY DEF IntactIsSent
<1>6. places[taken + 1] \in 1..Len(sent) /\ Sent(got[taken + 1]) = sent[places[taken + 1]]
  BY <1>4, <1>5
<1>7. Sent(got[taken + 1]).payload = got[taken + 1].record.payload
  BY DEF Sent
<1>8. QED
  BY <1>3, <1>6, <1>7

\* A packet that is taken to be processed, if it is one of the terminal's.
LEMMA TakeKeeps ==
  ASSUME ContentsInv, IntactIsSent, Take
  PROVE  ContentsInv'
<1> DEFINE next == got[taken + 1]
<1>1. /\ pc = "receive" /\ ~Waiting /\ taken' = taken + 1
      /\ UNCHANGED <<framingVars, setup, contextVars, sendVars>>
      /\ \/ /\ pc' = "process"
            /\ terminal_id'
                 = phone_num_to_string(SubSeq(next.record.payload, 1, PKT_TABLE_ID_OFFSET), 11)
            /\ at' = PKT_TABLE_ID_OFFSET + 1 /\ out' = <<>>
         \/ UNCHANGED <<pc, walkVars>>
  BY DEF Take
<1>2. got' = got /\ sent' = sent /\ setup' = setup /\ table' = table /\ packets' = packets
  BY <1>1 DEF framingVars, lineVars, sendVars
<1>3. SentIs /\ SentIs'
  BY <1>2, SentKept DEF ContentsInv
<1>4. FramingInv'
  BY <1>1, FramingKept DEF ContentsInv
<1>5. Len(got) = taken + 1 /\ taken \in Nat
  BY <1>1, NextSent
<1>6. WalkInv'
  <2>1. taken' \in 0..Len(got') /\ taken' = Len(got') /\ taken' # 0 /\ ~(taken' < Len(got'))
    BY <1>1, <1>2, <1>5
  <2>2. terminal_id \in Seq(Digit16) /\ at \in Nat \ {0} /\ IsAnswer(out)
    BY DEF ContentsInv, WalkInv
  <2>3. CASE UNCHANGED <<pc, walkVars>>
    BY <1>1, <2>1, <2>2, <2>3 DEF WalkInv, walkVars
  <2>4. CASE /\ pc' = "process"
             /\ terminal_id'
                  = phone_num_to_string(SubSeq(next.record.payload, 1, PKT_TABLE_ID_OFFSET), 11)
             /\ at' = PKT_TABLE_ID_OFFSET + 1 /\ out' = <<>>
    <3>1. PICK i \in 1..Len(sent) : next.record.payload = sent[i].payload
      BY <1>1, NextSent
    <3>2. SubSeq(next.record.payload, 1, PKT_TABLE_ID_OFFSET) = setup.id
      BY <1>3, <3>1, SentRight DEF PackedRight
    <3>3. terminal_id' = phone_num_to_string(setup'.id, 11) /\ terminal_id' \in Seq(Digit16)
      <4>1. phone_num_to_string(setup.id, 11) \in Seq(Digit16)
        BY <1>3, NumberOfTerminal
      <4> DEFINE Number(id) == phone_num_to_string(id, 11)
      <4>2. terminal_id' = Number(SubSeq(next.record.payload, 1, PKT_TABLE_ID_OFFSET))
              /\ Number(setup.id) \in Seq(Digit16)
        BY <2>4, <4>1
      <4> HIDE DEF Number
      <4>3. terminal_id' = Number(setup'.id) /\ terminal_id' \in Seq(Digit16)
        BY <1>2, <3>2, <4>2
      <4>4. QED
        BY <4>3 DEF Number
    <3>4. Current'.payload = sent'[i].payload
      BY <1>1, <1>2, <3>1 DEF Current
    <3>5. at' \in Nat \ {0} /\ IsAnswer(out')
      BY <2>4, NoAnswer DEF PKT_TABLE_ID_OFFSET
    <3>6. \E k \in 1..Len(sent') : Current'.payload = sent'[k].payload
      BY <1>2, <3>4
    <3>7. pc' = "process"
      BY <2>4
    <3> HIDE DEF next
    <3>8. QED
      BY <2>1, <3>3, <3>5, <3>6, <3>7 DEF WalkInv
  <2>5. QED
    BY <1>1, <2>3, <2>4
<1>7. ContextInv'
  BY <1>1, ContextKept
<1>8. SendInv'
  <2>1. table \in Seq(Byte) /\ packets = PacketsOf(setup.id, table)
          /\ (table = <<>> \/ table[1] \in Replies)
    BY <1>1 DEF ContentsInv, SendInv
  <2>2. QED
    BY <1>2, <2>1 DEF SendInv
<1>9. QED
  BY <1>3, <1>4, <1>6, <1>7, <1>8 DEF ContentsInv

\* In process_mm_table and the download, terminal_id is the number of the caller.
LEMMA ToCaller ==
  ASSUME ContentsInv, pc # "receive"
  PROVE  /\ TerminalBytes(terminal_id) = setup.id /\ Bytes(setup.id, 5) /\ setup \in Setups
         /\ \A bytes : send_mm_table(bytes) = PacketsOf(setup.id, bytes)
<1>1. SentIs /\ terminal_id = phone_num_to_string(setup.id, 11) /\ setup \in Setups
  BY DEF ContentsInv, WalkInv, SentIs
<1>2. TerminalBytes(terminal_id) = setup.id /\ Bytes(setup.id, 5)
  BY <1>1, NumberOfTerminal
<1>3. QED
  BY <1>1, <1>2, SendsPackets

\* What Reply and the download leave alone.
LEMMA SendKeeps ==
  ASSUME ContentsInv, UNCHANGED <<framingVars, setup, taken, walkVars, contextVars>>,
           pc # "receive",
         pc' \in {"receive", "download"}, SendInv'
  PROVE  ContentsInv'
<1>1. /\ taken' = taken /\ terminal_id' = terminal_id /\ at' = at /\ out' = out
      /\ sent' = sent /\ got' = got /\ setup' = setup
  BY DEF framingVars, lineVars, walkVars
<1>2. SentIs'
  BY <1>1, SentKept DEF ContentsInv
<1>3. FramingInv'
  BY FramingKept DEF ContentsInv
<1>4. Current' = Current
  BY <1>1 DEF Current
<1>5. WalkInv'
  BY <1>1, <1>4 DEF ContentsInv, WalkInv
<1>6. ContextInv'
  BY ContextKept
<1>7. QED
  BY <1>2, <1>3, <1>5, <1>6 DEF ContentsInv

\* The reply after the walk.
LEMMA ReplyKeeps == ASSUME ContentsInv, Reply PROVE ContentsInv'
<1>1. /\ pc = "process" /\ table' = out /\ packets' = send_mm_table(out)
           /\ pc' \in {"receive", "download"}
      /\ UNCHANGED <<framingVars, setup, taken, walkVars, contextVars>>
  BY DEF Reply, WalkEnds
<1>2. packets' = PacketsOf(setup'.id, table')
  BY <1>1, ToCaller
<1>3. IsAnswer(table')
  BY <1>1, InWalkFacts
<1>4. SendInv'
  BY <1>2, <1>3 DEF SendInv, IsAnswer
<1>5. QED
  BY <1>1, <1>4, SendKeeps

\* The end of the download.
LEMMA EndDownloadKeeps == ASSUME ContentsInv, EndDownload PROVE ContentsInv'
<1>1. /\ pc = "download" /\ table' = <<>> /\ packets' = <<>> /\ pc' = "receive"
      /\ UNCHANGED <<framingVars, setup, taken, walkVars, contextVars>>
  BY DEF EndDownload
<1> DEFINE E == <<>>
<1>2. /\ E \in Seq(Byte) /\ PacketsOf(setup'.id, E) = E /\ table' = E /\ packets' = E
  BY <1>1, NoPackets, EmptySeq
<1> HIDE DEF E
<1>3. table' \in Seq(Byte) /\ packets' = PacketsOf(setup'.id, table')
  BY <1>2
<1>4. SendInv'
  BY <1>1, <1>3 DEF SendInv
<1>5. QED
  BY <1>1, <1>4, SendKeeps

\* What a download makes is the same until the terminal or its type changes.
LEMMA MadeKept ==
  ASSUME UNCHANGED <<setup, terminal_id, terminal_type>>, NEW bytes
  PROVE  IsMade(bytes)' <=> IsMade(bytes)
BY DEF IsMade, Skips, Available, HasFile, OfModelSent, TableFor, Model, Version, HasShortNumbers

\* A table of the download.
LEMMA DownloadKeeps == ASSUME ContentsInv, Download PROVE ContentsInv'
<1> DEFINE id == Head(todo)
<1>1. /\ pc = "download" /\ pc' = pc
      /\ UNCHANGED <<framingVars, setup, taken, walkVars, contextVars>>
      /\ \/ Skips(id) /\ table' = <<>> /\ packets' = <<>>
         \/ ~Skips(id) /\ table' = OfModelSent(TableFor(id)) /\ packets' = send_mm_table(table')
  BY DEF Download
<1>2. UNCHANGED <<setup, terminal_id, terminal_type>>
  BY <1>1 DEF walkVars, contextVars
<1>3. CASE Skips(id) /\ table' = <<>> /\ packets' = <<>>
  <2> DEFINE E == <<>>
  <2>1. /\ E \in Seq(Byte) /\ PacketsOf(setup'.id, E) = E /\ table' = E /\ packets' = E
    BY <1>3, NoPackets, EmptySeq
  <2>2. table' \in Seq(Byte) /\ packets' = PacketsOf(setup'.id, table')
    <3> HIDE DEF E
    <3>1. QED
      BY <2>1
  <2>3. SendInv'
    BY <1>3, <2>2 DEF SendInv
  <2>4. QED
    BY <1>1, <2>3, SendKeeps
<1>4. CASE ~Skips(id) /\ table' = OfModelSent(TableFor(id)) /\ packets' = send_mm_table(table')
  <2> DEFINE t == TableFor(id)
  <2>1. Available(id)
    BY <1>4 DEF Skips
  <2>2. Begins(t, id)
    BY <1>1, <2>1, ToCaller, TableForBegins
  <2>3. table' \in Seq(Byte)
    <3> HIDE DEF t
    <3>1. table' = OfModelSent(t)
      BY <1>4 DEF t
    <3>2. QED
      BY <2>2, <3>1, OfModelKept DEF Begins
  <2>4. packets' = PacketsOf(setup'.id, table')
    BY <1>1, <1>4, ToCaller
  <2>5. IsMade(OfModelSent(t))
    BY <1>4 DEF IsMade
  <2>6. IsMade(table)'
    <3>1. \E b : b = OfModelSent(t)
      OBVIOUS
    <3>2. PICK b : b = OfModelSent(t)
      BY <3>1
    <3>3. IsMade(b) /\ b = table'
      BY <1>4, <2>5, <3>2
    <3>4. IsMade(b)'
      BY <1>2, <3>3, MadeKept
    <3> HIDE DEF t
    <3>5. QED
      BY <3>3, <3>4 DEF IsMade
  <2>7. SendInv'
    BY <1>1, <2>3, <2>4, <2>6 DEF SendInv
  <2>8. QED
    BY <1>1, <2>7, SendKeeps
<1>5. QED
  BY <1>1, <1>3, <1>4

\* A step of something else.
LEMMA NothingKeeps == ASSUME ContentsInv, UNCHANGED vars PROVE ContentsInv'
<1>1. /\ UNCHANGED framingVars /\ setup' = setup /\ taken' = taken /\ pc' = pc
           /\ terminal_id' = terminal_id
      /\ at' = at /\ out' = out /\ UNCHANGED contextVars /\ table' = table /\ packets' = packets
      /\ sent' = sent /\ got' = got /\ terminal_type' = terminal_type
  BY DEF vars, walkVars, sendVars, framingVars, lineVars, contextVars
<1>2. SentIs'
  BY <1>1, SentKept DEF ContentsInv
<1>3. FramingInv'
  BY <1>1, FramingKept DEF ContentsInv
<1>4. Current' = Current
  BY <1>1 DEF Current
<1>5. WalkInv'
  BY <1>1, <1>4 DEF ContentsInv, WalkInv
<1>6. ContextInv'
  BY <1>1, ContextKept
<1>7. SendInv'
  <2>1. CASE table = <<>> \/ table[1] \in Replies
    BY <1>1, <2>1 DEF ContentsInv, SendInv
  <2>2. CASE pc = "download" /\ IsMade(table)
    <3>1. IsMade(table)'
      BY <1>1, <2>2, MadeKept
    <3>2. QED
      BY <1>1, <2>2, <3>1 DEF ContentsInv, SendInv
  <2>3. QED
    BY <2>1, <2>2 DEF ContentsInv, SendInv
<1>8. QED
  BY <1>2, <1>3, <1>5, <1>6, <1>7 DEF ContentsInv

\* No step breaks the invariant as long as what passes for intact was sent.
LEMMA ContentsKept ==
  ContentsInv /\ IntactIsSent /\ [Next]_vars => ContentsInv'
<1> SUFFICES ASSUME ContentsInv, IntactIsSent, [Next]_vars PROVE ContentsInv'
  OBVIOUS
<1>1. QED
  BY ReceiveKeeps, TakeKeeps, TimeSyncReqKeeps, AtnReqTabUpdKeeps, AlarmKeeps, MaintReqKeeps,
     CallDetailsKeeps,
     BeginUploadKeeps, CashBoxCollectionKeeps, ReportKeeps, SwVersionKeeps, RateRequestKeeps,
       FunfCardAuthKeeps,
     EndDataKeeps, TableUpdAckKeeps, UnhandledKeeps, ReplyKeeps, DownloadKeeps, EndDownloadKeeps,
       NothingKeeps
  DEF Next

\* The invariant of the calls: who the packet at hand is from, where the walk stands in it, and
\* that what is being sent is a reply or a table of the download, in packets for the caller.
THEOREM ContentsInvariant == Spec /\ []IntactIsSent => []ContentsInv
BY ContentsStarts, ContentsKept, PTL DEF Spec

\* The invariant has the types.
LEMMA TypesRight == ContentsInv => TypeOK
<1> SUFFICES ASSUME ContentsInv PROVE TypeOK
  OBVIOUS
<1>1. FramingTypeOK
  BY DEF ContentsInv, FramingInv, FramingTypeOK, Lockstep, PacketAt, Pkts
<1>2. taken \in 0..Len(got) /\ (pc # "receive" => taken = Len(got))
  BY DEF ContentsInv, WalkInv
<1>3. terminal_id \in Seq(0..15)
  BY DEF ContentsInv, WalkInv, Digit16
<1>4. QED
  BY <1>1, <1>2, <1>3 DEF ContentsInv, WalkInv, ContextInv, SendInv, TypeOK, IsAnswer

\* The variables of the walk and the download have their types, the initial charge and the queue
\* of acknowledgements included.
THEOREM TypeCorrect == Spec /\ []IntactIsSent => []TypeOK
BY TypesRight, ContentsInvariant, PTL

\* What was sent last, if it is no reply, is a table that the download made.
LEMMA MadeTable ==
  ASSUME ContentsInv, table # <<>>, table[1] \notin Replies
  PROVE  /\ setup \in Setups /\ TerminalBytes(terminal_id) = setup.id /\ Bytes(setup.id, 5)
         /\ pc = "download" /\ ~Skips(table[1]) /\ Available(table[1])
         /\ Begins(TableFor(table[1]), table[1])
         /\ table = OfModelSent(TableFor(table[1]))
         /\ table[1] # FCONFIG_OPTS => table = TableFor(table[1])
<1>1. pc = "download" /\ IsMade(table)
  BY DEF ContentsInv, SendInv
<1>2. PICK id : ~Skips(id) /\ table = OfModelSent(TableFor(id))
  BY <1>1 DEF IsMade
<1>3. setup \in Setups /\ TerminalBytes(terminal_id) = setup.id /\ Bytes(setup.id, 5)
  BY <1>1, ToCaller
<1>4. Available(id)
  BY <1>2 DEF Skips
<1> DEFINE t == TableFor(id)
<1>5. Begins(t, id)
  BY <1>3, <1>4, TableForBegins
<1>6. table = OfModelSent(t)
  BY <1>2
<1> HIDE DEF t
<1>7. Begins(table, id) /\ (id # FCONFIG_OPTS => table = t)
  BY <1>5, <1>6, OfModelKept
<1>8. table[1] = id
  BY <1>7 DEF Begins
<1>9. QED
  BY <1>1, <1>2, <1>3, <1>4, <1>5, <1>7, <1>8 DEF t

\* The numbers to call in the table that is being sent.
LEMMA NccTable ==
  ASSUME ContentsInv, table # <<>>, table[1] = NCC_TERM_PARAMS
  PROVE  LET x == ncc_number(setup.ncc)
         IN  /\ x[1] \in Seq(Decimal) /\ x[2] \in Seq(Decimal)
             /\ HasShortNumbers =>
                  TermParmsAre(table, setup.id, string_to_bcd_a(x[1], 6),
                    string_to_bcd_a(x[2], 6), 6, 0)
             /\ ~HasShortNumbers =>
                  TermParmsAre(table, setup.id, string_to_bcd_a(x[1], 10),
                    string_to_bcd_a(x[2], 10), 10, 22)
<1> DEFINE x == ncc_number(setup.ncc)
           id == TerminalBytes(terminal_id)
<1>1. NCC_TERM_PARAMS \notin Replies /\ NCC_TERM_PARAMS # FCONFIG_OPTS
  BY DEF NCC_TERM_PARAMS, FCONFIG_OPTS, Replies, TIME_SYNC, END_DATA, TABLE_UPD, CASH_BOX_STATUS,
     ALARM_ACK, MAINT_ACK, CDR_DETAILS_ACK, TRANS_DATA, RATE_RESPONSE, AUTH_RESP_CODE
<1>2. setup \in Setups /\ table = TableFor(NCC_TERM_PARAMS) /\ id = setup.id /\ Bytes(id, 5)
  BY <1>1, MadeTable
<1>3. x[1] \in Seq(Decimal) /\ x[2] \in Seq(Decimal)
  BY <1>2, TheSetup, NccNumbers DEF HasOptions
<1>4. /\ TermParmsAre(generate_term_access_parameters(terminal_id, x), id,
                      string_to_bcd_a(x[1], 10), string_to_bcd_a(x[2], 10), 10, 22)
      /\ TermParmsAre(generate_term_access_parameters_mtr1(terminal_id, x), id,
                      string_to_bcd_a(x[1], 6), string_to_bcd_a(x[2], 6), 6, 0)
  BY <1>2, <1>3, TermAccessParameters
<1>5. /\ HasShortNumbers => table = generate_term_access_parameters_mtr1(terminal_id, x)
      /\ ~HasShortNumbers => table = generate_term_access_parameters(terminal_id, x)
  BY <1>2, TableMade
<1> HIDE DEF x, id
<1>6. QED
  BY <1>2, <1>3, <1>4, <1>5 DEF x

\* A packet that goes out begins with the number that the call began with.
LEMMA CallerAddressed == ContentsInv => ReplyToCaller
<1> SUFFICES ASSUME ContentsInv PROVE ReplyToCaller
  OBVIOUS
<1>1. Bytes(setup.id, 5) /\ table \in Seq(Byte) /\ packets = PacketsOf(setup.id, table)
  BY NumberOfTerminal DEF ContentsInv, SendInv
<1>2. Opened(packets, setup.id, table)
  BY <1>1, PacketsOpened
<1>3. \A k \in 1..Len(packets) : SubSeq(Payload(packets[k]), 1, PKT_TABLE_ID_OFFSET) = setup.id
  BY <1>2 DEF Opened
<1>4. table # <<>> /\ table[1] = NCC_TERM_PARAMS => SubSeq(table, 2, 6) = setup.id
  BY NccTable DEF TermParmsAre
<1>5. QED
  BY <1>3, <1>4 DEF ReplyToCaller

\* A reply or a table is sent to the terminal that called, in its own number of five bytes:
\* process_mm_table's string for the number of the terminal is packed back into the bytes it had.
THEOREM RepliesReachCaller == Spec /\ []IntactIsSent => []ReplyToCaller
BY CallerAddressed, ContentsInvariant, PTL

\* The packets that go out make up the table.
LEMMA Rebuilds == ContentsInv => ChunksRebuild
<1> SUFFICES ASSUME ContentsInv PROVE ChunksRebuild
  OBVIOUS
<1>1. Bytes(setup.id, 5) /\ table \in Seq(Byte) /\ packets = PacketsOf(setup.id, table)
  BY NumberOfTerminal DEF ContentsInv, SendInv
<1>2. Opened(packets, setup.id, table) /\ Rebuilt(packets, table)
  BY <1>1, PacketsOpened, PacketsRebuild
<1>3. \A k \in 1..Len(packets) : Len(Payload(packets[k])) > PKT_TABLE_ID_OFFSET
  BY <1>2 DEF Opened
<1>4. QED
  BY <1>2, <1>3 DEF ChunksRebuild, Rebuilt

\* The packets that send_mm_table makes of a table are at most ChunkSize bytes each, and put
\* together they are the table again, for a table of any size.
THEOREM PacketsRebuildTables == Spec /\ []IntactIsSent => []ChunksRebuild
BY Rebuilds, ContentsInvariant, PTL

\* The terminal is told to call twice a day.
LEMMA CallIns == ContentsInv => CallsTwiceDaily
<1> SUFFICES ASSUME ContentsInv, table # <<>>, table[1] = CALL_IN_PARMS
             PROVE  /\ table[5] + table[9] < 24 /\ table[5] + 2 * table[9] >= 24
                    /\ table[14] = table[2] + 1
                    /\ (setup.now.month = 2 /\ setup.now.day = 29)
                         \/ table[16] \in 1..DaysIn(table[15], table[14])
  BY DEF CallsTwiceDaily
<1> DEFINE now == setup.now
<1>1. CALL_IN_PARMS \notin Replies /\ CALL_IN_PARMS # FCONFIG_OPTS
  BY DEF CALL_IN_PARMS, FCONFIG_OPTS, Replies, TIME_SYNC, END_DATA, TABLE_UPD, CASH_BOX_STATUS,
     ALARM_ACK, MAINT_ACK, CDR_DETAILS_ACK, TRANS_DATA, RATE_RESPONSE, AUTH_RESP_CODE
<1>2. setup \in Setups /\ table = generate_call_in_parameters(now)
  BY <1>1, MadeTable, TableMade
<1>3. IsTime(now)
  BY <1>2, TheSetup
<1> HIDE DEF now
<1>4. /\ table[2] = now.year /\ table[5] = CallInHour(now.hour) /\ table[9] = 12
      /\ table[14] = now.year + 1 /\ table[15] = now.month /\ table[16] = now.day
  BY <1>2, <1>3, CallInParameters
<1>5. now.hour \in 0..23 /\ now.year \in 0..254 /\ now.month \in 1..12
        /\ now.day \in 1..DaysIn(now.month, now.year)
  BY <1>3, Zenon DEF IsTime
<1>6. CallInHour(now.hour) \in 0..11
  <2>1. \A hour \in 0..23 : CallInHour(hour) \in 0..11
    BY DEF CallInHour
  <2>2. QED
    BY <1>5, <2>1
<1>7. table[5] + table[9] < 24 /\ table[5] + 2 * table[9] >= 24
  BY <1>4, <1>6
<1>8. (now.month = 2 /\ now.day = 29) \/ now.day \in 1..DaysIn(now.month, now.year + 1)
  <2>1. \A month \in 1..12, year \in 0..254 : \A day \in 1..DaysIn(month, year) :
            (month = 2 /\ day = 29) \/ day \in 1..DaysIn(month, year + 1)
    BY DEF DaysIn
  <2>2. QED
    BY <1>5, <2>1, Zenon
<1>9. QED
  BY <1>4, <1>7, <1>8 DEF now

\* A terminal is told to call in again, and to call back, at the times that the manager meant.
THEOREM CalledTwiceDaily == Spec /\ []IntactIsSent => []CallsTwiceDaily
BY CallIns, ContentsInvariant, PTL

\* The number of the manager is read as it was given, as far as there is room for it.
ReadsAs(n, bytes, room) ==
    callscrn_num_to_string(bytes, 21) = SubSeq(n, 1, Min({Len(n), 2 * room}))

\* A number that string_to_bcd_a has packed is read as it was, as far as there was room.
LEMMA NccRead ==
  ASSUME NEW n \in Seq(Decimal), NEW room \in {6, 10}
  PROVE  ReadsAs(n, string_to_bcd_a(n, room), room)
<1> DEFINE max == 21
<1>1. room \in Nat /\ max \in Nat /\ 2 * room <= max - 1
  OBVIOUS
<1> HIDE DEF max
<1>2. callscrn_num_to_string(string_to_bcd_a(n, room), max) = SubSeq(n, 1, Min({Len(n), 2 * room}))
  BY <1>1, NumberKept
<1>3. QED
  BY <1>2 DEF max, ReadsAs

\* Both numbers, in a table with this much room for each.
BothRead(x, room) ==
    \A k \in 1..2 : ReadsAs(x[k], SubSeq(table, 7 + (k - 1) * room, 6 + k * room), room)

\* Where the table has the two numbers they are read.
LEMMA NccPlaces ==
  ASSUME NEW x, x[1] \in Seq(Decimal), x[2] \in Seq(Decimal), NEW room \in {6, 10}, NEW id, NEW l,
         TermParmsAre(table, id, string_to_bcd_a(x[1], room), string_to_bcd_a(x[2], room), room, l)
  PROVE  BothRead(x, room)
<1> DEFINE a == string_to_bcd_a(x[1], room)
           b == string_to_bcd_a(x[2], room)
<1>1. ReadsAs(x[1], a, room) /\ ReadsAs(x[2], b, room)
  BY NccRead
<1>2. SubSeq(table, 7, 6 + room) = a /\ SubSeq(table, 7 + room, 6 + 2 * room) = b
  BY DEF TermParmsAre
<1> HIDE DEF a, b
<1>3. \A k \in 1..2 : ReadsAs(x[k], SubSeq(table, 7 + (k - 1) * room, 6 + k * room), room)
  <2>1. 7 + (1 - 1) * room = 7 /\ 6 + 1 * room = 6 + room /\ 7 + (2 - 1) * room = 7 + room
    OBVIOUS
  <2>2. ReadsAs(x[1], SubSeq(table, 7 + (1 - 1) * room, 6 + 1 * room), room)
    BY <1>1, <1>2, <2>1
  <2>3. ReadsAs(x[2], SubSeq(table, 7 + (2 - 1) * room, 6 + 2 * room), room)
    BY <1>1, <1>2, <2>1
  <2>4. \A k \in 1..2 : k = 1 \/ k = 2
    OBVIOUS
  <2>5. QED
    BY <2>2, <2>3, <2>4
<1>4. QED
  BY <1>3 DEF BothRead

\* The numbers of the options are read in the tables that carry them.
LEMMA Numbers == ContentsInv => NumbersKept
<1> SUFFICES ASSUME ContentsInv PROVE NumbersKept
  OBVIOUS
<1> DEFINE x == ncc_number(setup.ncc)
           space == IF Len(table) = 18 THEN 6 ELSE 10
<1>1. ASSUME table # <<>>, table[1] = NCC_TERM_PARAMS
      PROVE  BothRead(x, space)
  <2>1. x[1] \in Seq(Decimal) /\ x[2] \in Seq(Decimal)
    BY <1>1, NccTable
  <2> DEFINE long == 10
             short == 6
  <2>2. HasShortNumbers =>
          /\ TermParmsAre(table, setup.id, string_to_bcd_a(x[1], short),
               string_to_bcd_a(x[2], short), short, 0)
          /\ Len(table) = 18
    <3>1. HasShortNumbers =>
          TermParmsAre(table, setup.id, string_to_bcd_a(x[1], short),
            string_to_bcd_a(x[2], short), short, 0)
      BY <1>1, NccTable
    <3> HIDE DEF x
    <3>2. Len(table) = 6 + 2 * short + 0 \/ ~HasShortNumbers
      <4> HIDE DEF short
      <4>1. QED
        BY <3>1 DEF TermParmsAre, Bytes
    <3>3. QED
      BY <3>1, <3>2
  <2>3. ~HasShortNumbers =>
          /\ TermParmsAre(table, setup.id, string_to_bcd_a(x[1], long),
               string_to_bcd_a(x[2], long), long, 22)
          /\ Len(table) = 48
    <3>1. ~HasShortNumbers =>
          TermParmsAre(table, setup.id, string_to_bcd_a(x[1], long), string_to_bcd_a(x[2], long),
            long, 22)
      BY <1>1, NccTable
    <3> HIDE DEF x
    <3>2. Len(table) = 6 + 2 * long + 22 \/ HasShortNumbers
      <4> HIDE DEF long
      <4>1. QED
        BY <3>1 DEF TermParmsAre, Bytes
    <3>3. QED
      BY <3>1, <3>2
  <2>4. (HasShortNumbers => space = short) /\ (~HasShortNumbers => space = long)
    BY <2>2, <2>3
  <2>5. short \in {6, 10} /\ long \in {6, 10}
    OBVIOUS
  <2> HIDE DEF x, short, long, space
  <2>6. BothRead(x, short) \/ ~HasShortNumbers
    BY <2>1, <2>2, <2>5, NccPlaces
  <2>7. BothRead(x, long) \/ HasShortNumbers
    BY <2>1, <2>3, <2>5, NccPlaces
  <2>8. QED
    BY <2>4, <2>6, <2>7
<1>2. ASSUME table # <<>>, table[1] = INSTALL_PARAMS
      PROVE  /\ setup.access # <<>> => phone_num_to_string(SubSeq(table, 2, 5), 8) = setup.access
             /\ setup.key # <<>> => phone_num_to_string(SubSeq(table, 6, 10), 11) = setup.key
  <2>1. INSTALL_PARAMS \notin Replies /\ INSTALL_PARAMS # FCONFIG_OPTS
    BY DEF INSTALL_PARAMS, FCONFIG_OPTS, Replies, TIME_SYNC, END_DATA, TABLE_UPD, CASH_BOX_STATUS,
       ALARM_ACK, MAINT_ACK, CDR_DETAILS_ACK, TRANS_DATA, RATE_RESPONSE, AUTH_RESP_CODE
  <2>2. setup \in Setups /\ table = generate_install_parameters(setup.access, setup.key)
    BY <1>2, <2>1, MadeTable, TableMade
  <2>3. /\ setup.access \in Seq(Decimal) /\ Len(setup.access) \in {0, 7}
        /\ setup.key \in Seq(Decimal) /\ Len(setup.key) \in {0, 10}
    BY <2>2, TheSetup DEF HasOptions
  <2>4. QED
    BY <2>2, <2>3, InstallParameters
<1>3. QED
  BY <1>1, <1>2, Zenon DEF NumbersKept, BothRead, ReadsAs

\* The access code, the key card number and the numbers to call that main was given can be read
\* in the tables that go out, digit by digit.
THEOREM OptionsKept == Spec /\ []IntactIsSent => []NumbersKept
BY Numbers, ContentsInvariant, PTL

---------------------------------------------------------------------------
(* The lists of tables *)

Listed(s) == {s[i] : i \in 1..Len(s)}
Distinct(s) == \A i, j \in 1..Len(s) : s[i] = s[j] => i = j

\* A list of the tables of a set, each once.
Lists(s, S) == s \in Seq(Nat) /\ Listed(s) = S /\ Distinct(s)

\* Two lists that have no table in common make a list that has none twice.
LEMMA ListsJoined ==
  ASSUME NEW a, NEW b, NEW A, NEW B, Lists(a, A), Lists(b, B), \A x \in A : x \notin B
  PROVE  Lists(a \o b, A \cup B)
<1> DEFINE s == a \o b
           m == Len(a)
           n == Len(b)
<1>1. a \in Seq(Nat) /\ b \in Seq(Nat) /\ m \in Nat /\ n \in Nat
  BY LenProperties DEF Lists
<1>2. /\ s \in Seq(Nat) /\ Len(s) = m + n
      /\ \A i \in 1..m : s[i] = a[i]
      /\ \A i \in m + 1..m + n : s[i] = b[i - m]
  BY <1>1
<1>3. \A x : x \in A <=> \E i \in 1..m : x = a[i]
  BY DEF Lists, Listed
<1>4. \A x : x \in B <=> \E i \in 1..n : x = b[i]
  BY DEF Lists, Listed
<1>5. \A i, j \in 1..m : a[i] = a[j] => i = j
  BY DEF Lists, Distinct
<1>6. \A i, j \in 1..n : b[i] = b[j] => i = j
  BY DEF Lists, Distinct
<1> HIDE DEF s, m, n
<1>7. ASSUME NEW i \in 1..Len(s)
      PROVE  \/ i \in 1..m /\ s[i] = a[i] /\ s[i] \in A
             \/ i \in m + 1..m + n /\ i - m \in 1..n /\ s[i] = b[i - m] /\ s[i] \in B
  <2>1. i \in 1..m \/ (i \in m + 1..m + n /\ i - m \in 1..n)
    BY <1>1, <1>2
  <2>2. CASE i \in 1..m
    BY <2>2, <1>2, <1>3
  <2>3. CASE i \in m + 1..m + n /\ i - m \in 1..n
    <3>1. s[i] = b[i - m]
      BY <2>3, <1>2
    <3>2. b[i - m] \in B
      BY <2>3, <1>4
    <3>3. QED
      BY <2>3, <3>1, <3>2
  <2>4. QED
    BY <2>1, <2>2, <2>3
<1>8. \A x \in A : \E i \in 1..Len(s) : s[i] = x
  <2> SUFFICES ASSUME NEW x \in A PROVE \E i \in 1..Len(s) : s[i] = x
    OBVIOUS
  <2>1. PICK i \in 1..m : x = a[i]
    BY <1>3
  <2>2. i \in 1..Len(s)
    BY <1>1, <1>2
  <2>3. QED
    BY <1>2, <2>1, <2>2
<1>9. \A x \in B : \E i \in 1..Len(s) : s[i] = x
  <2> SUFFICES ASSUME NEW x \in B PROVE \E i \in 1..Len(s) : s[i] = x
    OBVIOUS
  <2>1. PICK i \in 1..n : x = b[i]
    BY <1>4
  <2>2. m + i \in m + 1..m + n /\ m + i \in 1..Len(s) /\ (m + i) - m = i
    BY <1>1, <1>2
  <2>3. QED
    BY <1>2, <2>1, <2>2
<1>10. Listed(s) = A \cup B
  BY <1>7, <1>8, <1>9 DEF Listed
<1>11. Distinct(s)
  <2> SUFFICES ASSUME NEW i \in 1..Len(s), NEW j \in 1..Len(s), s[i] = s[j] PROVE i = j
    BY DEF Distinct
  <2>1. CASE i \in 1..m /\ s[i] \in A /\ s[i] = a[i]
    <3>1. j \in 1..m /\ s[j] = a[j]
      BY <1>7, <2>1
    <3>2. QED
      BY <1>5, <2>1, <3>1
  <2>2. CASE i \in m + 1..m + n /\ i - m \in 1..n /\ s[i] = b[i - m] /\ s[i] \in B
    <3>1. j \in m + 1..m + n /\ j - m \in 1..n /\ s[j] = b[j - m]
      BY <1>7, <2>2
    <3>2. i - m = j - m
      BY <1>6, <2>2, <3>1
    <3>3. QED
      BY <1>1, <2>2, <3>1, <3>2
  <2>3. QED
    BY <1>7, <2>1, <2>2
<1>12. QED
  BY <1>2, <1>10, <1>11 DEF Lists, s

\* Tables with numbers in a row.
LEMMA ListsRow ==
  ASSUME NEW n \in Nat, NEW from \in Nat, NEW s, s = [i \in 1..n |-> from + i]
  PROVE  Lists(s, from + 1..from + n)
<1>1. s \in Seq(Nat) /\ Len(s) = n /\ \A i \in 1..n : s[i] = from + i
  OBVIOUS
<1>2. \A x \in from + 1..from + n : \E i \in 1..n : x = from + i
  <2> SUFFICES ASSUME NEW x \in from + 1..from + n PROVE \E i \in 1..n : x = from + i
    OBVIOUS
  <2>1. x - from \in 1..n /\ x = from + (x - from)
    OBVIOUS
  <2>2. QED
    BY <2>1
<1>3. Listed(s) = from + 1..from + n
  BY <1>1, <1>2 DEF Listed
<1>4. Distinct(s)
  BY <1>1 DEF Distinct
<1>5. QED
  BY <1>1, <1>3, <1>4 DEF Lists

\* A list of one table.
LEMMA ListsOne ==
  ASSUME NEW x \in Nat
  PROVE  Lists(<<x>>, {x})
BY DEF Lists, Listed, Distinct

\* The tables of parameters.
LEMMA ParameterTablesListed ==
  Lists(ParameterTables, {29, 30, 31, 32, 33, 34, 35, 50, 55, 58})
<1> DEFINE s == ParameterTables
           Place(x) == IF x = 29 THEN 1 ELSE IF x = 30 THEN 2 ELSE IF x = 31 THEN 3 ELSE IF x = 32
             THEN 4 ELSE IF x = 33 THEN 5 ELSE IF x = 34 THEN 6 ELSE IF x = 35 THEN 7
             ELSE IF x = 50 THEN 8 ELSE IF x = 55 THEN 9 ELSE 10
<1>1. /\ s \in Seq(Nat) /\ Len(s) = 10
      /\ s[1] = 29 /\ s[2] = 30 /\ s[3] = 31 /\ s[4] = 32 /\ s[5] = 33 /\ s[6] = 34
      /\ s[7] = 35 /\ s[8] = 50 /\ s[9] = 55 /\ s[10] = 58
  BY DEF ParameterTables, ADVERT_PROMPTS, USER_IF_PARMS, INSTALL_PARAMS, COMM_STAT_PARMS,
     MODEM_PARMS, CALL_STAT_PARMS, CALL_IN_PARMS, COIN_VAL_TABLE, REP_DIAL_LIST, LIMSERV_DATA
<1> HIDE DEF s
<1>2. Listed(s) = {29, 30, 31, 32, 33, 34, 35, 50, 55, 58}
  BY <1>1 DEF Listed
<1>3. \A i \in 1..Len(s) : Place(s[i]) = i
  <2>1. \A i \in 1..10 :
          i = 1 \/ i = 2 \/ i = 3 \/ i = 4 \/ i = 5 \/ i = 6 \/ i = 7 \/ i = 8 \/ i = 9
          \/ i = 10
    OBVIOUS
  <2>2. /\ Place(29) = 1 /\ Place(30) = 2 /\ Place(31) = 3 /\ Place(32) = 4 /\ Place(33) = 5
        /\ Place(34) = 6 /\ Place(35) = 7 /\ Place(50) = 8 /\ Place(55) = 9 /\ Place(58) = 10
    OBVIOUS
  <2> HIDE DEF Place
  <2>3. SUFFICES ASSUME NEW i \in 1..10 PROVE Place(s[i]) = i
    BY <1>1
  <2>4. QED
    BY <1>1, <2>1, <2>2
<1> HIDE DEF Place
<1>4. Distinct(s)
  BY <1>3 DEF Distinct
<1>5. QED
  BY <1>1, <1>2, <1>4 DEF Lists, s

\* The tables of prompts.
LEMMA PromptTablesListed ==
  Lists(PromptTables, {27, 28})
<1> DEFINE s == PromptTables
<1>1. /\ s \in Seq(Nat) /\ Len(s) = 2
      /\ s[1] = 27 /\ s[2] = 28
  BY DEF PromptTables, VIS_PROMPTS_L1, VIS_PROMPTS_L2
<1> HIDE DEF s
<1>2. Listed(s) = {27, 28}
  BY <1>1 DEF Listed
<1>3. Distinct(s)
  BY <1>1 DEF Distinct
<1>4. QED
  BY <1>1, <1>2, <1>3 DEF Lists, s

\* How the lists of 1.7 begin.
LEMMA FirstOfTwo ==
  Lists(<<NCC_TERM_PARAMS, FCONFIG_OPTS>>, {21, 26})
<1> DEFINE s == <<NCC_TERM_PARAMS, FCONFIG_OPTS>>
<1>1. /\ s \in Seq(Nat) /\ Len(s) = 2
      /\ s[1] = 21 /\ s[2] = 26
  BY DEF NCC_TERM_PARAMS, FCONFIG_OPTS
<1> HIDE DEF s
<1>2. Listed(s) = {21, 26}
  BY <1>1 DEF Listed
<1>3. Distinct(s)
  BY <1>1 DEF Distinct
<1>4. QED
  BY <1>1, <1>2, <1>3 DEF Lists, s

\* How the list of 1.9 begins.
LEMMA FirstOfFour ==
  Lists(<<NCC_TERM_PARAMS, CARD_TABLE, CARRIER_TABLE, FCONFIG_OPTS>>, {21, 22, 23, 26})
<1> DEFINE s == <<NCC_TERM_PARAMS, CARD_TABLE, CARRIER_TABLE, FCONFIG_OPTS>>
<1>1. /\ s \in Seq(Nat) /\ Len(s) = 4
      /\ s[1] = 21 /\ s[2] = 22 /\ s[3] = 23 /\ s[4] = 26
  BY DEF NCC_TERM_PARAMS, CARD_TABLE, CARRIER_TABLE, FCONFIG_OPTS
<1> HIDE DEF s
<1>2. Listed(s) = {21, 22, 23, 26}
  BY <1>1 DEF Listed
<1>3. Distinct(s)
  BY <1>1 DEF Distinct
<1>4. QED
  BY <1>1, <1>2, <1>3 DEF Lists, s

\* How the others begin.
LEMMA FirstOfFive ==
  Lists(<<NCC_TERM_PARAMS, CARD_TABLE, CARRIER_TABLE, CALLSCRN_UNIVERSAL, FCONFIG_OPTS>>,
    {21, 22, 23, 24, 26})
<1> DEFINE s == <<NCC_TERM_PARAMS, CARD_TABLE, CARRIER_TABLE, CALLSCRN_UNIVERSAL, FCONFIG_OPTS>>
<1>1. /\ s \in Seq(Nat) /\ Len(s) = 5
      /\ s[1] = 21 /\ s[2] = 22 /\ s[3] = 23 /\ s[4] = 24 /\ s[5] = 26
  BY DEF NCC_TERM_PARAMS, CARD_TABLE, CARRIER_TABLE, CALLSCRN_UNIVERSAL, FCONFIG_OPTS
<1> HIDE DEF s
<1>2. Listed(s) = {21, 22, 23, 24, 26}
  BY <1>1 DEF Listed
<1>3. Distinct(s)
  BY <1>1 DEF Distinct
<1>4. QED
  BY <1>1, <1>2, <1>3 DEF Lists, s

\* The numbering plan and the tables around it in 2.x.
LEMMA Plan2X ==
  Lists(<<NUM_PLAN_TABLE, SPARE_TABLE, RATE_TABLE, EXP_VIS_PROPTS_L1, EXP_VIS_PROPTS_L2,
    CALL_SCREEN_LIST, SCARD_PARM_TABLE, CARD_TABLE_EXP, CARRIER_TABLE_EXP>>,
    {62, 72, 73, 85, 86, 92, 93, 134, 135})
<1> DEFINE s == <<NUM_PLAN_TABLE, SPARE_TABLE, RATE_TABLE, EXP_VIS_PROPTS_L1, EXP_VIS_PROPTS_L2,
             CALL_SCREEN_LIST, SCARD_PARM_TABLE, CARD_TABLE_EXP, CARRIER_TABLE_EXP>>
           Place(x) == IF x = 62 THEN 1 ELSE IF x = 72 THEN 2 ELSE IF x = 73 THEN 3 ELSE IF x = 85
             THEN 4 ELSE IF x = 86 THEN 5 ELSE IF x = 92 THEN 6 ELSE IF x = 93 THEN 7
             ELSE IF x = 134 THEN 8 ELSE 9
<1>1. /\ s \in Seq(Nat) /\ Len(s) = 9
      /\ s[1] = 62 /\ s[2] = 72 /\ s[3] = 73 /\ s[4] = 85 /\ s[5] = 86 /\ s[6] = 92
      /\ s[7] = 93 /\ s[8] = 134 /\ s[9] = 135
  BY DEF NUM_PLAN_TABLE, SPARE_TABLE, RATE_TABLE, EXP_VIS_PROPTS_L1, EXP_VIS_PROPTS_L2,
     CALL_SCREEN_LIST, SCARD_PARM_TABLE, CARD_TABLE_EXP, CARRIER_TABLE_EXP
<1> HIDE DEF s
<1>2. Listed(s) = {62, 72, 73, 85, 86, 92, 93, 134, 135}
  BY <1>1 DEF Listed
<1>3. \A i \in 1..Len(s) : Place(s[i]) = i
  <2>1. \A i \in 1..9 :
          i = 1 \/ i = 2 \/ i = 3 \/ i = 4 \/ i = 5 \/ i = 6 \/ i = 7 \/ i = 8 \/ i = 9
    OBVIOUS
  <2>2. /\ Place(62) = 1 /\ Place(72) = 2 /\ Place(73) = 3 /\ Place(85) = 4 /\ Place(86) = 5
        /\ Place(92) = 6 /\ Place(93) = 7 /\ Place(134) = 8 /\ Place(135) = 9
    OBVIOUS
  <2> HIDE DEF Place
  <2>3. SUFFICES ASSUME NEW i \in 1..9 PROVE Place(s[i]) = i
    BY <1>1
  <2>4. QED
    BY <1>1, <2>1, <2>2
<1> HIDE DEF Place
<1>4. Distinct(s)
  BY <1>3 DEF Distinct
<1>5. QED
  BY <1>1, <1>2, <1>4 DEF Lists, s

\* The same in 1.20.
LEMMA Plan120 ==
  Lists(<<NUM_PLAN_TABLE, RATE_TABLE, CALL_SCREEN_LIST, SCARD_PARM_TABLE, CARD_TABLE_EXP,
    CARRIER_TABLE_EXP>>, {62, 73, 92, 93, 134, 135})
<1> DEFINE s == <<NUM_PLAN_TABLE, RATE_TABLE, CALL_SCREEN_LIST, SCARD_PARM_TABLE, CARD_TABLE_EXP,
             CARRIER_TABLE_EXP>>
           Place(x) == IF x = 62 THEN 1 ELSE IF x = 73 THEN 2 ELSE IF x = 92 THEN 3 ELSE IF x = 93
             THEN 4 ELSE IF x = 134 THEN 5 ELSE 6
<1>1. /\ s \in Seq(Nat) /\ Len(s) = 6
      /\ s[1] = 62 /\ s[2] = 73 /\ s[3] = 92 /\ s[4] = 93 /\ s[5] = 134 /\ s[6] = 135
  BY DEF NUM_PLAN_TABLE, RATE_TABLE, CALL_SCREEN_LIST, SCARD_PARM_TABLE, CARD_TABLE_EXP,
     CARRIER_TABLE_EXP
<1> HIDE DEF s
<1>2. Listed(s) = {62, 73, 92, 93, 134, 135}
  BY <1>1 DEF Listed
<1>3. \A i \in 1..Len(s) : Place(s[i]) = i
  <2>1. \A i \in 1..6 :
          i = 1 \/ i = 2 \/ i = 3 \/ i = 4 \/ i = 5 \/ i = 6
    OBVIOUS
  <2>2. /\ Place(62) = 1 /\ Place(73) = 2 /\ Place(92) = 3 /\ Place(93) = 4 /\ Place(134) = 5
        /\ Place(135) = 6
    OBVIOUS
  <2> HIDE DEF Place
  <2>3. SUFFICES ASSUME NEW i \in 1..6 PROVE Place(s[i]) = i
    BY <1>1
  <2>4. QED
    BY <1>1, <2>1, <2>2
<1> HIDE DEF Place
<1>4. Distinct(s)
  BY <1>3 DEF Distinct
<1>5. QED
  BY <1>1, <1>2, <1>4 DEF Lists, s

\* The same in 1.9.
LEMMA Plan19 ==
  Lists(<<NUM_PLAN_TABLE, RATE_TABLE, CALL_SCREEN_LIST, SCARD_PARM_TABLE>>, {62, 73, 92, 93})
<1> DEFINE s == <<NUM_PLAN_TABLE, RATE_TABLE, CALL_SCREEN_LIST, SCARD_PARM_TABLE>>
<1>1. /\ s \in Seq(Nat) /\ Len(s) = 4
      /\ s[1] = 62 /\ s[2] = 73 /\ s[3] = 92 /\ s[4] = 93
  BY DEF NUM_PLAN_TABLE, RATE_TABLE, CALL_SCREEN_LIST, SCARD_PARM_TABLE
<1> HIDE DEF s
<1>2. Listed(s) = {62, 73, 92, 93}
  BY <1>1 DEF Listed
<1>3. Distinct(s)
  BY <1>1 DEF Distinct
<1>4. QED
  BY <1>1, <1>2, <1>3 DEF Lists, s

\* The same in 1.7.
LEMMA Plan17 ==
  Lists(<<NUM_PLAN_TABLE, RATE_TABLE>>, {62, 73})
<1> DEFINE s == <<NUM_PLAN_TABLE, RATE_TABLE>>
<1>1. /\ s \in Seq(Nat) /\ Len(s) = 2
      /\ s[1] = 62 /\ s[2] = 73
  BY DEF NUM_PLAN_TABLE, RATE_TABLE
<1> HIDE DEF s
<1>2. Listed(s) = {62, 73}
  BY <1>1 DEF Listed
<1>3. Distinct(s)
  BY <1>1 DEF Distinct
<1>4. QED
  BY <1>1, <1>2, <1>3 DEF Lists, s

\* The same in the international 1.7.
LEMMA PlanIntl ==
  Lists(<<CALLSCRN_EXP, NUM_PLAN_TABLE, RATE_TABLE>>, {59, 62, 73})
<1> DEFINE s == <<CALLSCRN_EXP, NUM_PLAN_TABLE, RATE_TABLE>>
<1>1. /\ s \in Seq(Nat) /\ Len(s) = 3
      /\ s[1] = 59 /\ s[2] = 62 /\ s[3] = 73
  BY DEF CALLSCRN_EXP, NUM_PLAN_TABLE, RATE_TABLE
<1> HIDE DEF s
<1>2. Listed(s) = {59, 62, 73}
  BY <1>1 DEF Listed
<1>3. Distinct(s)
  BY <1>1 DEF Distinct
<1>4. QED
  BY <1>1, <1>2, <1>3 DEF Lists, s

\* The last tables of rates, and DLOG_MT_END_DATA.
LEMMA LastRatesListed ==
  Lists(<<NPA_SBR_TABLE, INTL_SBR_TABLE, NPA_NXX_TABLE(15), NPA_NXX_TABLE(16), END_DATA>>,
    {150, 151, 160, 161, 13})
<1> DEFINE s == <<NPA_SBR_TABLE, INTL_SBR_TABLE, NPA_NXX_TABLE(15), NPA_NXX_TABLE(16), END_DATA>>
<1>1. /\ s \in Seq(Nat) /\ Len(s) = 5
      /\ s[1] = 150 /\ s[2] = 151 /\ s[3] = 160 /\ s[4] = 161 /\ s[5] = 13
  BY DEF NPA_SBR_TABLE, INTL_SBR_TABLE, NPA_NXX_TABLE, END_DATA
<1> HIDE DEF s
<1>2. Listed(s) = {150, 151, 160, 161, 13}
  BY <1>1 DEF Listed
<1>3. Distinct(s)
  BY <1>1 DEF Distinct
<1>4. QED
  BY <1>1, <1>2, <1>3 DEF Lists, s

\* The LCD tables.
LEMMA LcdTablesListed ==
  Lists([n \in 1..10 |-> LCD_TABLE(n)], {74, 75, 76, 77, 78, 79, 80, 81, 90, 91})
<1> DEFINE s == [n \in 1..10 |-> LCD_TABLE(n)]
           Place(x) == IF x = 74 THEN 1 ELSE IF x = 75 THEN 2 ELSE IF x = 76 THEN 3 ELSE IF x = 77
             THEN 4 ELSE IF x = 78 THEN 5 ELSE IF x = 79 THEN 6 ELSE IF x = 80 THEN 7
             ELSE IF x = 81 THEN 8 ELSE IF x = 90 THEN 9 ELSE 10
<1>1. /\ s \in Seq(Nat) /\ Len(s) = 10
      /\ s[1] = 74 /\ s[2] = 75 /\ s[3] = 76 /\ s[4] = 77 /\ s[5] = 78 /\ s[6] = 79
      /\ s[7] = 80 /\ s[8] = 81 /\ s[9] = 90 /\ s[10] = 91
  BY DEF LCD_TABLE
<1> HIDE DEF s
<1>2. Listed(s) = {74, 75, 76, 77, 78, 79, 80, 81, 90, 91}
  BY <1>1 DEF Listed
<1>3. \A i \in 1..Len(s) : Place(s[i]) = i
  <2>1. \A i \in 1..10 :
          i = 1 \/ i = 2 \/ i = 3 \/ i = 4 \/ i = 5 \/ i = 6 \/ i = 7 \/ i = 8 \/ i = 9
          \/ i = 10
    OBVIOUS
  <2>2. /\ Place(74) = 1 /\ Place(75) = 2 /\ Place(76) = 3 /\ Place(77) = 4 /\ Place(78) = 5
        /\ Place(79) = 6 /\ Place(80) = 7 /\ Place(81) = 8 /\ Place(90) = 9 /\ Place(91) = 10
    OBVIOUS
  <2> HIDE DEF Place
  <2>3. SUFFICES ASSUME NEW i \in 1..10 PROVE Place(s[i]) = i
    BY <1>1
  <2>4. QED
    BY <1>1, <2>1, <2>2
<1> HIDE DEF Place
<1>4. Distinct(s)
  BY <1>3 DEF Distinct
<1>5. QED
  BY <1>1, <1>2, <1>4 DEF Lists, s

\* The tables that come in rows.
LEMMA RowsListed ==
  /\ Lists(NpaNxxTables, 136..149)
  /\ Lists([n \in 1..7 |-> COMP_LCD_TABLE(n)], 101..107)
  /\ Lists([n \in 1..7 |-> LCD_TABLE(n)], 74..80)
<1>1. ASSUME NEW n \in Nat, NEW from \in Nat
      PROVE  Lists([i \in 1..n |-> from + i], from + 1..from + n)
  BY ListsRow
<1>2. /\ Lists([i \in 1..14 |-> 135 + i], 136..149)
      /\ Lists([i \in 1..7 |-> 100 + i], 101..107)
      /\ Lists([i \in 1..7 |-> 73 + i], 74..80)
  <2> DEFINE a == 14  b == 135  c == 7  d == 100  e == 73
  <2>1. a \in Nat /\ b \in Nat /\ c \in Nat /\ d \in Nat /\ e \in Nat
    OBVIOUS
  <2>2. b + 1 = 136 /\ b + a = 149 /\ d + 1 = 101 /\ d + c = 107 /\ e + 1 = 74 /\ e + c = 80
    OBVIOUS
  <2> HIDE DEF a, b, c, d, e
  <2>3. /\ Lists([i \in 1..a |-> b + i], b + 1..b + a)
        /\ Lists([i \in 1..c |-> d + i], d + 1..d + c)
        /\ Lists([i \in 1..c |-> e + i], e + 1..e + c)
    BY <1>1, <2>1
  <2>4. /\ Lists([i \in 1..a |-> b + i], 136..149)
        /\ Lists([i \in 1..c |-> d + i], 101..107)
        /\ Lists([i \in 1..c |-> e + i], 74..80)
    BY <2>2, <2>3
  <2>5. QED
    BY <2>4 DEF a, b, c, d, e
<1>3. /\ NpaNxxTables = [i \in 1..14 |-> 135 + i]
      /\ [n \in 1..7 |-> COMP_LCD_TABLE(n)] = [i \in 1..7 |-> 100 + i]
      /\ [n \in 1..7 |-> LCD_TABLE(n)] = [i \in 1..7 |-> 73 + i]
  BY DEF NpaNxxTables, NPA_NXX_TABLE, COMP_LCD_TABLE, LCD_TABLE
<1>4. QED
  BY <1>2, <1>3

\* A list that ends with a table, and has it only there.
Ends(s, x) == Len(s) > 0 /\ s[Len(s)] = x

\* A list that ends with a table still does behind another.
LEMMA EndsJoined ==
  ASSUME NEW a, NEW b, NEW A, NEW B, Lists(a, A), Lists(b, B), NEW x, Ends(b, x)
  PROVE  Ends(a \o b, x)
<1> DEFINE m == Len(a)
           n == Len(b)
<1>1. a \in Seq(Nat) /\ b \in Seq(Nat) /\ m \in Nat /\ n \in Nat /\ n > 0 /\ b[n] = x
  BY LenProperties DEF Lists, Ends
<1>2. Len(a \o b) = m + n /\ (a \o b)[m + n] = b[(m + n) - m]
  BY <1>1
<1> HIDE DEF m, n
<1>3. (m + n) - m = n /\ m + n > 0
  BY <1>1
<1>4. QED
  BY <1>1, <1>2, <1>3 DEF Ends

\* DLOG_MT_END_DATA alone.
LEMMA EndListed == Lists(<<END_DATA>>, {13}) /\ Ends(<<END_DATA>>, END_DATA)
<1>1. END_DATA = 13 /\ END_DATA \in Nat
  BY DEF END_DATA
<1>2. Lists(<<END_DATA>>, {END_DATA})
  BY <1>1, ListsOne
<1>3. Ends(<<END_DATA>>, END_DATA)
  BY DEF Ends
<1>4. QED
  BY <1>1, <1>2, <1>3

\* The tables of rates end every list.
LEMMA RatingTablesListed ==
  Lists(RatingTables, 136..149 \cup {150, 151, 160, 161, 13}) /\ Ends(RatingTables, END_DATA)
<1> DEFINE b == <<NPA_SBR_TABLE, INTL_SBR_TABLE, NPA_NXX_TABLE(15), NPA_NXX_TABLE(16), END_DATA>>
           A == 136..149
           B == {150, 151, 160, 161, 13}
<1>1. \A x \in A : x \notin B
  OBVIOUS
<1>2. Lists(NpaNxxTables, A) /\ Lists(b, B)
  BY RowsListed, LastRatesListed
<1>3. Ends(b, END_DATA)
  <2>1. Len(b) = 5 /\ b[5] = END_DATA
    OBVIOUS
  <2>2. QED
    BY <2>1 DEF Ends
<1>4. RatingTables = NpaNxxTables \o b
  BY DEF RatingTables
<1> HIDE DEF b, A, B
<1>5. Lists(RatingTables, A \cup B) /\ Ends(RatingTables, END_DATA)
  BY <1>1, <1>2, <1>3, <1>4, ListsJoined, EndsJoined
<1>6. QED
  BY <1>5 DEF A, B

\* What the code asks of a list.
IsTableList(list, expanded, compressed) ==
    /\ list \in Seq(Nat) /\ Distinct(list) /\ Ends(list, END_DATA)
    /\ CARD_TABLE_EXP \in Listed(list) <=> expanded
    /\ COMP_LCD_TABLE(1) \in Listed(list) <=> compressed

\* The list of 2.x.
LEMMA TableList2X == IsTableList(table_list_mtr_2x, TRUE, FALSE)
<1> DEFINE s1 == <<NCC_TERM_PARAMS, FCONFIG_OPTS>>
           s2 == ParameterTables
           s3 == <<NUM_PLAN_TABLE, SPARE_TABLE, RATE_TABLE, EXP_VIS_PROPTS_L1, EXP_VIS_PROPTS_L2,
             CALL_SCREEN_LIST, SCARD_PARM_TABLE, CARD_TABLE_EXP, CARRIER_TABLE_EXP>>
           s4 == RatingTables
           S1 == {21, 26}
           S2 == {29, 30, 31, 32, 33, 34, 35, 50, 55, 58}
           S3 == {62, 72, 73, 85, 86, 92, 93, 134, 135}
           S4 == 136..149 \cup {150, 151, 160, 161, 13}
           T2 == S1 \cup S2
           T3 == T2 \cup S3
           T4 == T3 \cup S4
           t2 == s1 \o s2
           t3 == t2 \o s3
           t4 == t3 \o s4
<1>1. /\ Lists(s1, S1)
      /\ Lists(s2, S2)
      /\ Lists(s3, S3)
      /\ Lists(s4, S4)
      /\ Ends(s4, END_DATA)
  BY FirstOfTwo, ParameterTablesListed, Plan2X, RatingTablesListed
<1>2. table_list_mtr_2x = t4
  BY DEF table_list_mtr_2x
<1>3. /\ \A x \in S1 : x \notin S2
      /\ \A x \in T2 : x \notin S3
      /\ \A x \in T3 : x \notin S4
  OBVIOUS
<1>4. (134 \in T4 <=> TRUE) /\ (101 \in T4 <=> FALSE)
  OBVIOUS
<1> HIDE DEF s1, s2, s3, s4, S1, S2, S3, S4
<1>5. Lists(t2, T2)
  BY <1>1, <1>3, ListsJoined
<1> HIDE DEF t2, T2
<1>6. Lists(t3, T3)
  BY <1>1, <1>3, <1>5, ListsJoined
<1> HIDE DEF t3, T3
<1>7. Lists(t4, T4)
  BY <1>1, <1>3, <1>6, ListsJoined
<1>8. Ends(t4, END_DATA)
  BY <1>1, <1>6, EndsJoined
<1> HIDE DEF t4, T4
<1>9. CARD_TABLE_EXP = 134 /\ COMP_LCD_TABLE(1) = 101
  BY DEF CARD_TABLE_EXP, COMP_LCD_TABLE
<1>10. QED
  BY <1>2, <1>4, <1>7, <1>8, <1>9 DEF IsTableList, Lists

\* The list of 1.20.
LEMMA TableList120 == IsTableList(table_list_mtr_120, TRUE, FALSE)
<1> DEFINE s1 == <<NCC_TERM_PARAMS, FCONFIG_OPTS>>
           s2 == PromptTables
           s3 == ParameterTables
           s4 == <<NUM_PLAN_TABLE, RATE_TABLE, CALL_SCREEN_LIST, SCARD_PARM_TABLE, CARD_TABLE_EXP,
             CARRIER_TABLE_EXP>>
           s5 == RatingTables
           S1 == {21, 26}
           S2 == {27, 28}
           S3 == {29, 30, 31, 32, 33, 34, 35, 50, 55, 58}
           S4 == {62, 73, 92, 93, 134, 135}
           S5 == 136..149 \cup {150, 151, 160, 161, 13}
           T2 == S1 \cup S2
           T3 == T2 \cup S3
           T4 == T3 \cup S4
           T5 == T4 \cup S5
           t2 == s1 \o s2
           t3 == t2 \o s3
           t4 == t3 \o s4
           t5 == t4 \o s5
<1>1. /\ Lists(s1, S1)
      /\ Lists(s2, S2)
      /\ Lists(s3, S3)
      /\ Lists(s4, S4)
      /\ Lists(s5, S5)
      /\ Ends(s5, END_DATA)
  BY FirstOfTwo, PromptTablesListed, ParameterTablesListed, Plan120, RatingTablesListed
<1>2. table_list_mtr_120 = t5
  BY DEF table_list_mtr_120
<1>3. /\ \A x \in S1 : x \notin S2
      /\ \A x \in T2 : x \notin S3
      /\ \A x \in T3 : x \notin S4
      /\ \A x \in T4 : x \notin S5
  OBVIOUS
<1>4. (134 \in T5 <=> TRUE) /\ (101 \in T5 <=> FALSE)
  OBVIOUS
<1> HIDE DEF s1, s2, s3, s4, s5, S1, S2, S3, S4, S5
<1>5. Lists(t2, T2)
  BY <1>1, <1>3, ListsJoined
<1> HIDE DEF t2, T2
<1>6. Lists(t3, T3)
  BY <1>1, <1>3, <1>5, ListsJoined
<1> HIDE DEF t3, T3
<1>7. Lists(t4, T4)
  BY <1>1, <1>3, <1>6, ListsJoined
<1> HIDE DEF t4, T4
<1>8. Lists(t5, T5)
  BY <1>1, <1>3, <1>7, ListsJoined
<1>9. Ends(t5, END_DATA)
  BY <1>1, <1>7, EndsJoined
<1> HIDE DEF t5, T5
<1>10. CARD_TABLE_EXP = 134 /\ COMP_LCD_TABLE(1) = 101
  BY DEF CARD_TABLE_EXP, COMP_LCD_TABLE
<1>11. QED
  BY <1>2, <1>4, <1>8, <1>9, <1>10 DEF IsTableList, Lists

\* The list of 1.9.
LEMMA TableList19 == IsTableList(table_list_mtr19, FALSE, TRUE)
<1> DEFINE s1 == <<NCC_TERM_PARAMS, CARD_TABLE, CARRIER_TABLE, FCONFIG_OPTS>>
           s2 == PromptTables
           s3 == ParameterTables
           s4 == <<NUM_PLAN_TABLE, RATE_TABLE, CALL_SCREEN_LIST, SCARD_PARM_TABLE>>
           s5 == [n \in 1..7 |-> COMP_LCD_TABLE(n)]
           s6 == <<END_DATA>>
           S1 == {21, 22, 23, 26}
           S2 == {27, 28}
           S3 == {29, 30, 31, 32, 33, 34, 35, 50, 55, 58}
           S4 == {62, 73, 92, 93}
           S5 == 101..107
           S6 == {13}
           T2 == S1 \cup S2
           T3 == T2 \cup S3
           T4 == T3 \cup S4
           T5 == T4 \cup S5
           T6 == T5 \cup S6
           t2 == s1 \o s2
           t3 == t2 \o s3
           t4 == t3 \o s4
           t5 == t4 \o s5
           t6 == t5 \o s6
<1>1. /\ Lists(s1, S1)
      /\ Lists(s2, S2)
      /\ Lists(s3, S3)
      /\ Lists(s4, S4)
      /\ Lists(s5, S5)
      /\ Lists(s6, S6)
      /\ Ends(s6, END_DATA)
  BY FirstOfFour, PromptTablesListed, ParameterTablesListed, Plan19, RowsListed, EndListed
<1>2. table_list_mtr19 = t6
  BY DEF table_list_mtr19
<1>3. /\ \A x \in S1 : x \notin S2
      /\ \A x \in T2 : x \notin S3
      /\ \A x \in T3 : x \notin S4
      /\ \A x \in T4 : x \notin S5
      /\ \A x \in T5 : x \notin S6
  OBVIOUS
<1>4. (134 \in T6 <=> FALSE) /\ (101 \in T6 <=> TRUE)
  OBVIOUS
<1> HIDE DEF s1, s2, s3, s4, s5, s6, S1, S2, S3, S4, S5, S6
<1>5. Lists(t2, T2)
  BY <1>1, <1>3, ListsJoined
<1> HIDE DEF t2, T2
<1>6. Lists(t3, T3)
  BY <1>1, <1>3, <1>5, ListsJoined
<1> HIDE DEF t3, T3
<1>7. Lists(t4, T4)
  BY <1>1, <1>3, <1>6, ListsJoined
<1> HIDE DEF t4, T4
<1>8. Lists(t5, T5)
  BY <1>1, <1>3, <1>7, ListsJoined
<1> HIDE DEF t5, T5
<1>9. Lists(t6, T6)
  BY <1>1, <1>3, <1>8, ListsJoined
<1>10. Ends(t6, END_DATA)
  BY <1>1, <1>8, EndsJoined
<1> HIDE DEF t6, T6
<1>11. CARD_TABLE_EXP = 134 /\ COMP_LCD_TABLE(1) = 101
  BY DEF CARD_TABLE_EXP, COMP_LCD_TABLE
<1>12. QED
  BY <1>2, <1>4, <1>9, <1>10, <1>11 DEF IsTableList, Lists

\* The list of 1.7.
LEMMA TableList17 == IsTableList(table_list_mtr17, FALSE, FALSE)
<1> DEFINE s1 == <<NCC_TERM_PARAMS, CARD_TABLE, CARRIER_TABLE, CALLSCRN_UNIVERSAL, FCONFIG_OPTS>>
           s2 == PromptTables
           s3 == ParameterTables
           s4 == <<NUM_PLAN_TABLE, RATE_TABLE>>
           s5 == [n \in 1..10 |-> LCD_TABLE(n)]
           s6 == <<END_DATA>>
           S1 == {21, 22, 23, 24, 26}
           S2 == {27, 28}
           S3 == {29, 30, 31, 32, 33, 34, 35, 50, 55, 58}
           S4 == {62, 73}
           S5 == {74, 75, 76, 77, 78, 79, 80, 81, 90, 91}
           S6 == {13}
           T2 == S1 \cup S2
           T3 == T2 \cup S3
           T4 == T3 \cup S4
           T5 == T4 \cup S5
           T6 == T5 \cup S6
           t2 == s1 \o s2
           t3 == t2 \o s3
           t4 == t3 \o s4
           t5 == t4 \o s5
           t6 == t5 \o s6
<1>1. /\ Lists(s1, S1)
      /\ Lists(s2, S2)
      /\ Lists(s3, S3)
      /\ Lists(s4, S4)
      /\ Lists(s5, S5)
      /\ Lists(s6, S6)
      /\ Ends(s6, END_DATA)
  BY FirstOfFive, PromptTablesListed, ParameterTablesListed, Plan17, LcdTablesListed, EndListed
<1>2. table_list_mtr17 = t6
  BY DEF table_list_mtr17
<1>3. /\ \A x \in S1 : x \notin S2
      /\ \A x \in T2 : x \notin S3
      /\ \A x \in T3 : x \notin S4
      /\ \A x \in T4 : x \notin S5
      /\ \A x \in T5 : x \notin S6
  OBVIOUS
<1>4. (134 \in T6 <=> FALSE) /\ (101 \in T6 <=> FALSE)
  OBVIOUS
<1> HIDE DEF s1, s2, s3, s4, s5, s6, S1, S2, S3, S4, S5, S6
<1>5. Lists(t2, T2)
  BY <1>1, <1>3, ListsJoined
<1> HIDE DEF t2, T2
<1>6. Lists(t3, T3)
  BY <1>1, <1>3, <1>5, ListsJoined
<1> HIDE DEF t3, T3
<1>7. Lists(t4, T4)
  BY <1>1, <1>3, <1>6, ListsJoined
<1> HIDE DEF t4, T4
<1>8. Lists(t5, T5)
  BY <1>1, <1>3, <1>7, ListsJoined
<1> HIDE DEF t5, T5
<1>9. Lists(t6, T6)
  BY <1>1, <1>3, <1>8, ListsJoined
<1>10. Ends(t6, END_DATA)
  BY <1>1, <1>8, EndsJoined
<1> HIDE DEF t6, T6
<1>11. CARD_TABLE_EXP = 134 /\ COMP_LCD_TABLE(1) = 101
  BY DEF CARD_TABLE_EXP, COMP_LCD_TABLE
<1>12. QED
  BY <1>2, <1>4, <1>9, <1>10, <1>11 DEF IsTableList, Lists

\* The list of the international 1.7.
LEMMA TableList17Intl == IsTableList(table_list_mtr17_intl, FALSE, FALSE)
<1> DEFINE s1 == <<NCC_TERM_PARAMS, CARD_TABLE, CARRIER_TABLE, FCONFIG_OPTS>>
           s2 == PromptTables
           s3 == ParameterTables
           s4 == <<CALLSCRN_EXP, NUM_PLAN_TABLE, RATE_TABLE>>
           s5 == [n \in 1..7 |-> LCD_TABLE(n)]
           s6 == <<END_DATA>>
           S1 == {21, 22, 23, 26}
           S2 == {27, 28}
           S3 == {29, 30, 31, 32, 33, 34, 35, 50, 55, 58}
           S4 == {59, 62, 73}
           S5 == 74..80
           S6 == {13}
           T2 == S1 \cup S2
           T3 == T2 \cup S3
           T4 == T3 \cup S4
           T5 == T4 \cup S5
           T6 == T5 \cup S6
           t2 == s1 \o s2
           t3 == t2 \o s3
           t4 == t3 \o s4
           t5 == t4 \o s5
           t6 == t5 \o s6
<1>1. /\ Lists(s1, S1)
      /\ Lists(s2, S2)
      /\ Lists(s3, S3)
      /\ Lists(s4, S4)
      /\ Lists(s5, S5)
      /\ Lists(s6, S6)
      /\ Ends(s6, END_DATA)
  BY FirstOfFour, PromptTablesListed, ParameterTablesListed, PlanIntl, RowsListed, EndListed
<1>2. table_list_mtr17_intl = t6
  BY DEF table_list_mtr17_intl
<1>3. /\ \A x \in S1 : x \notin S2
      /\ \A x \in T2 : x \notin S3
      /\ \A x \in T3 : x \notin S4
      /\ \A x \in T4 : x \notin S5
      /\ \A x \in T5 : x \notin S6
  OBVIOUS
<1>4. (134 \in T6 <=> FALSE) /\ (101 \in T6 <=> FALSE)
  OBVIOUS
<1> HIDE DEF s1, s2, s3, s4, s5, s6, S1, S2, S3, S4, S5, S6
<1>5. Lists(t2, T2)
  BY <1>1, <1>3, ListsJoined
<1> HIDE DEF t2, T2
<1>6. Lists(t3, T3)
  BY <1>1, <1>3, <1>5, ListsJoined
<1> HIDE DEF t3, T3
<1>7. Lists(t4, T4)
  BY <1>1, <1>3, <1>6, ListsJoined
<1> HIDE DEF t4, T4
<1>8. Lists(t5, T5)
  BY <1>1, <1>3, <1>7, ListsJoined
<1> HIDE DEF t5, T5
<1>9. Lists(t6, T6)
  BY <1>1, <1>3, <1>8, ListsJoined
<1>10. Ends(t6, END_DATA)
  BY <1>1, <1>8, EndsJoined
<1> HIDE DEF t6, T6
<1>11. CARD_TABLE_EXP = 134 /\ COMP_LCD_TABLE(1) = 101
  BY DEF CARD_TABLE_EXP, COMP_LCD_TABLE
<1>12. QED
  BY <1>2, <1>4, <1>9, <1>10, <1>11 DEF IsTableList, Lists

\* The list for a version, with the card table and the rates in the form it understands.
LEMMA TableListOf ==
  ASSUME NEW version \in Versions \cup {MTR_UNKNOWN}
  PROVE  IsTableList(table_list(version), version > MTR_1_13, MTR_1_9 <= version
           /\ version < MTR_1_20)
<1> USE DEF MTR_UNKNOWN, MTR_1_6, MTR_1_7, MTR_1_7_INTL, MTR_1_9, MTR_1_10, MTR_1_11, MTR_1_13,
              MTR_1_20, MTR_2_X
<1>1. version \in {0, 1060, 1070, 1080, 1090, 1100, 1110, 1130, 1200, 2000}
  BY DEF Versions
<1>2. /\ version = 2000 => table_list(version) = table_list_mtr_2x
      /\ version = 1200 => table_list(version) = table_list_mtr_120
      /\ version \in {1090, 1100, 1110, 1130} => table_list(version) = table_list_mtr19
      /\ version = 1080 => table_list(version) = table_list_mtr17_intl
      /\ version \in {0, 1060, 1070} => table_list(version) = table_list_mtr17
  BY DEF table_list
<1>3. IsTableList(table_list(version), version \in {1200, 2000},
        version \in {1090, 1100, 1110, 1130})
  BY <1>1, <1>2, TableList2X, TableList120, TableList19, TableList17, TableList17Intl
     DEF IsTableList
<1>4. /\ version \in {1200, 2000} <=> version > MTR_1_13
      /\ version \in {1090, 1100, 1110, 1130} <=> MTR_1_9 <= version /\ version < MTR_1_20
  BY <1>1
<1>5. QED
  BY <1>3, <1>4 DEF IsTableList

\* The lists of mm_download_tables, for the terminal on the line.
LEMMA TheList ==
  LET list == table_list(Version)
  IN  /\ list \in Seq(Nat) /\ Distinct(list) /\ Ends(list, END_DATA)
      /\ CARD_TABLE_EXP \in Listed(list) <=> ~HasShortNumbers
      /\ COMP_LCD_TABLE(1) \in Listed(list) <=> MTR_1_9 <= Version /\ Version < MTR_1_20
<1>1. Version \in Versions \cup {MTR_UNKNOWN}
  BY VersionType
<1>2. Version \in Nat /\ MTR_1_13 \in Nat
  BY <1>1 DEF Versions, MTR_UNKNOWN, MTR_1_6, MTR_1_7, MTR_1_7_INTL, MTR_1_9, MTR_1_10, MTR_1_11,
     MTR_1_13, MTR_1_20, MTR_2_X
<1>3. (Version > MTR_1_13) <=> ~HasShortNumbers
  BY <1>2 DEF HasShortNumbers
<1>4. IsTableList(table_list(Version), Version > MTR_1_13, MTR_1_9 <= Version /\ Version < MTR_1_20)
  BY <1>1, TableListOf
<1>5. QED
  BY <1>3, <1>4 DEF IsTableList

\* The tables of a download have the forms of the version of the terminal.
LEMMA FormsRight == ContentsInv => FormsMatch
<1> DEFINE list == table_list(Version)
<1> SUFFICES ASSUME ContentsInv, table # <<>>
             PROVE  /\ table[1] = NCC_TERM_PARAMS =>
                         Len(table) = IF CARD_TABLE_EXP \in Listed(list) THEN 48 ELSE 18
                    /\ table[1] = CALL_SCREEN_LIST
                         /\ FileSizes[setup.dir][CALL_SCREEN_LIST] = 3060 =>
                         (Len(table) = 3401 <=> COMP_LCD_TABLE(1) \in Listed(list))
  BY DEF FormsMatch, Listed
<1>1. /\ CARD_TABLE_EXP \in Listed(list) <=> ~HasShortNumbers
      /\ COMP_LCD_TABLE(1) \in Listed(list) <=> MTR_1_9 <= Version /\ Version < MTR_1_20
  BY TheList
<1> HIDE DEF list
<1>2. ASSUME table[1] = NCC_TERM_PARAMS
      PROVE  Len(table) = IF CARD_TABLE_EXP \in Listed(list) THEN 48 ELSE 18
  <2>1. HasShortNumbers => Len(table) = 18
    BY <1>2, NccTable DEF TermParmsAre, Bytes
  <2>2. ~HasShortNumbers => Len(table) = 48
    BY <1>2, NccTable DEF TermParmsAre, Bytes
  <2>3. QED
    BY <1>1, <2>1, <2>2
<1>3. ASSUME table[1] = CALL_SCREEN_LIST, FileSizes[setup.dir][CALL_SCREEN_LIST] = 3060
      PROVE  Len(table) = 3401 <=> COMP_LCD_TABLE(1) \in Listed(list)
  <2> DEFINE id == CALL_SCREEN_LIST
             size == 3060
  <2>1. id \notin Replies /\ id # FCONFIG_OPTS
    BY DEF CALL_SCREEN_LIST, FCONFIG_OPTS, Replies, TIME_SYNC, END_DATA, TABLE_UPD,
       CASH_BOX_STATUS, ALARM_ACK, MAINT_ACK, CDR_DETAILS_ACK, TRANS_DATA, RATE_RESPONSE,
       AUTH_RESP_CODE
  <2>2. id \notin Generated /\ id # USER_IF_PARMS
    BY DEF CALL_SCREEN_LIST, Generated, INSTALL_PARAMS, CALL_IN_PARMS, NCC_TERM_PARAMS,
       CALL_STAT_PARMS, COMM_STAT_PARMS, END_DATA, USER_IF_PARMS
  <2>3. table = TableFor(id) /\ Available(id) /\ setup \in Setups
    BY <1>3, <2>1, MadeTable
  <2>4. HasFile(id)
    BY <2>2, <2>3 DEF Available
  <2>5. table = load_mm_table(id, Version, size, FILE_BYTE)
    BY <1>3, <2>2, <2>3, <2>4, TableMade
  <2>6. id \in Byte /\ FILE_BYTE \in Byte /\ size \in Nat
    BY SmallBytes DEF CALL_SCREEN_LIST, FILE_BYTE
  <2>7. IsPadded(id, Version, size) <=> MTR_1_9 <= Version /\ Version < MTR_1_20
    BY DEF IsPadded
  <2>8. (1 + size) + 340 = 3401 /\ (1 + size) + 0 # 3401
    OBVIOUS
  <2> HIDE DEF id, size
  <2>9. Len(table) = (1 + size) + (IF IsPadded(id, Version, size) THEN 340 ELSE 0)
    BY <2>5, <2>6, LoadedTable
  <2>10. QED
    BY <1>1, <2>7, <2>8, <2>9
<1>4. QED
  BY <1>2, <1>3

\* A download has the tables in the form that the software of the terminal understands.
THEOREM FormsOfVersion == Spec /\ []IntactIsSent => []FormsMatch
BY FormsRight, ContentsInvariant, PTL

---------------------------------------------------------------------------
(* What a download sends *)

\* The tables of the list so far: none twice, and none left out but those it skips.
Downloaded(list, n) ==
    /\ n \in 0..Len(list)
    /\ todo \in Seq(Nat) /\ Len(todo) = Len(list) - n
         /\ \A i \in 1..Len(todo) : todo[i] = list[n + i]
    /\ downloaded \in Seq(Nat) /\ Distinct(downloaded)
    /\ Listed(downloaded) = {id \in {list[i] : i \in 1..n} : ~Skips(id)}
    /\ n = Len(list) => Ends(downloaded, END_DATA)

DownloadInv == pc = "download" => \E n \in Nat : Downloaded(table_list(Version), n)

\* No download skips DLOG_MT_END_DATA.
LEMMA EndSent == ~Skips(END_DATA)
<1>1. ~Unsuited(END_DATA, Model)
  BY DEF Unsuited, END_DATA, CARD_TABLE, CARD_TABLE_EXP, COIN_VAL_TABLE
<1>2. END_DATA \in Mandatory
  BY DEF Mandatory
<1>3. Available(END_DATA)
  BY DEF Available, Generated
<1>4. QED
  BY <1>1, <1>2, <1>3 DEF Skips

\* A download begins with a list of which nothing is done.
LEMMA DownloadBegins ==
  ASSUME NEW list \in Seq(Nat), Ends(list, END_DATA), todo' = list, downloaded' = <<>>
  PROVE  Downloaded(list, 0)'
<1> DEFINE E == <<>>
<1>1. Len(list) \in Nat /\ Len(list) > 0
  BY LenProperties DEF Ends
<1>2. E \in Seq(Nat) /\ Len(E) = 0
  BY EmptySeq
<1> HIDE DEF E
<1>3. downloaded' \in Seq(Nat) /\ Len(downloaded') = 0
  BY <1>2 DEF E
<1>4. Distinct(downloaded') /\ Listed(downloaded') = {}
  BY <1>3 DEF Distinct, Listed
<1>5. {list[i] : i \in 1..0} = {}
  OBVIOUS
<1>6. {id \in {list[i] : i \in 1..0} : ~Skips(id)'} = {}
  BY <1>5
<1>7. QED
  BY <1>1, <1>3, <1>4, <1>6 DEF Downloaded

\* One more table, which was not among them.
LEMMA DistinctAppended ==
  ASSUME NEW s \in Seq(Nat), Distinct(s), NEW x \in Nat, x \notin Listed(s)
  PROVE  LET t == Append(s, x)
         IN  t \in Seq(Nat) /\ Distinct(t) /\ Listed(t) = Listed(s) \cup {x} /\ Ends(t, x)
<1>1. Lists(s, Listed(s)) /\ Lists(<<x>>, {x})
  BY ListsOne DEF Lists
<1>2. Ends(<<x>>, x)
  BY DEF Ends
<1>3. \A y \in Listed(s) : y \notin {x}
  OBVIOUS
<1>4. Append(s, x) = s \o <<x>>
  OBVIOUS
<1> DEFINE one == <<x>>
           X == {x}
<1> HIDE DEF one, X
<1>5. Lists(s \o one, Listed(s) \cup X) /\ Ends(s \o one, x)
  BY <1>1, <1>2, <1>3, ListsJoined, EndsJoined DEF one, X
<1>6. QED
  BY <1>4, <1>5 DEF Lists, one, X

\* Going on in the list, a table is skipped or sent.
LEMMA DownloadGoesOn ==
  ASSUME NEW list \in Seq(Nat), Distinct(list), Ends(list, END_DATA),
         NEW n \in Nat, Downloaded(list, n), todo # <<>>, todo' = Tail(todo),
         \A id : Skips(id)' <=> Skips(id),
         IF Skips(Head(todo)) THEN downloaded' = downloaded
           ELSE downloaded' = Append(downloaded, Head(todo))
  PROVE  Downloaded(list, n + 1)'
<1> DEFINE l == Len(list)
           x == Head(todo)
<1>1. /\ n \in 0..l /\ l \in Nat
      /\ todo \in Seq(Nat) /\ Len(todo) = l - n /\ \A i \in 1..Len(todo) : todo[i] = list[n + i]
      /\ downloaded \in Seq(Nat) /\ Distinct(downloaded)
      /\ Listed(downloaded) = {id \in {list[i] : i \in 1..n} : ~Skips(id)}
  BY LenProperties DEF Downloaded
<1>2. /\ Len(todo) > 0 /\ x = todo[1]
      /\ todo' \in Seq(Nat) /\ Len(todo') = Len(todo) - 1
      /\ \A i \in 1..Len(todo) - 1 : todo'[i] = todo[i + 1]
  BY <1>1, EmptySeq, HeadTailProperties
<1> HIDE DEF l, x
<1>3. n + 1 \in 0..l /\ n + 1 \in 1..l /\ x = list[n + 1]
  BY <1>1, <1>2
<1>11. Len(todo') = l - (n + 1)
  BY <1>1, <1>2
<1>4. \A i \in 1..Len(todo') : todo'[i] = list[(n + 1) + i]
  <2> SUFFICES ASSUME NEW i \in 1..Len(todo') PROVE todo'[i] = list[(n + 1) + i]
    OBVIOUS
  <2>1. i \in 1..Len(todo) - 1 /\ i + 1 \in 1..Len(todo) /\ n + (i + 1) = (n + 1) + i
    <3>1. PICK k : k = Len(todo)
      OBVIOUS
    <3>2. PICK j : j = Len(todo')
      OBVIOUS
    <3>3. k \in Nat /\ j = k - 1 /\ i \in 1..j
      BY <1>2, <3>1, <3>2, LenProperties, <1>1
    <3>4. i \in 1..k - 1 /\ i + 1 \in 1..k /\ n + (i + 1) = (n + 1) + i
      BY <3>3
    <3>5. QED
      BY <3>1, <3>4
  <2>2. QED
    BY <1>1, <1>2, <2>1
<1>5. x \in Nat
  BY <1>1, <1>2
<1>6. \A i \in 1..n : list[i] # x
  <2>1. \A i \in 1..n : i \in 1..Len(list) /\ i # n + 1
    BY <1>1 DEF l
  <2>2. n + 1 \in 1..Len(list)
    BY <1>3 DEF l
  <2>3. QED
    BY <1>3, <2>1, <2>2 DEF Distinct
<1>7. {list[i] : i \in 1..n + 1} = {list[i] : i \in 1..n} \cup {x}
  <2>1. \A i : i \in 1..n + 1 <=> i \in 1..n \/ i = n + 1
    BY <1>1
  <2>2. QED
    BY <1>3, <2>1
<1>8. CASE Skips(x)
  <2>1. downloaded' = downloaded
    BY <1>8 DEF x
  <2>2. Listed(downloaded') = {id \in {list[i] : i \in 1..n + 1} : ~Skips(id)'}
    BY <1>1, <1>7, <1>8, <2>1
  <2>3. n + 1 # l
    BY <1>3, <1>8, EndSent DEF Ends, l
  <2>4. QED
    BY <1>1, <1>2, <1>3, <1>4, <1>11, <2>1, <2>2, <2>3 DEF Downloaded, l
<1>9. CASE ~Skips(x)
  <2>1. downloaded' = Append(downloaded, x)
    BY <1>9 DEF x
  <2>2. x \notin Listed(downloaded)
    BY <1>1, <1>6
  <2>3. /\ downloaded' \in Seq(Nat) /\ Distinct(downloaded')
        /\ Listed(downloaded') = Listed(downloaded) \cup {x} /\ Ends(downloaded', x)
    BY <1>1, <1>5, <2>1, <2>2, DistinctAppended
  <2>4. Listed(downloaded') = {id \in {list[i] : i \in 1..n + 1} : ~Skips(id)'}
    BY <1>1, <1>7, <1>9, <2>3
  <2>5. n + 1 = l => Ends(downloaded', END_DATA)
    BY <1>3, <2>3 DEF Ends, l
  <2>6. QED
    BY <1>2, <1>3, <1>4, <1>11, <2>3, <2>4, <2>5 DEF Downloaded, l
<1>10. QED
  BY <1>8, <1>9

\* What skips a table is the same all through the download.
LEMMA SkipsKept ==
  ASSUME UNCHANGED <<setup, terminal_type>>
  PROVE  Version' = Version /\ \A id : Skips(id)' <=> Skips(id)
BY DEF Version, Skips, Model, Available, HasFile

\* What is done of a download stays done.
LEMMA DownloadedKept ==
  ASSUME NEW list, NEW n, Downloaded(list, n), UNCHANGED <<setup, terminal_type, todo, downloaded>>
  PROVE  Downloaded(list, n)'
<1>1. \A id : Skips(id)' <=> Skips(id)
  BY SkipsKept
<1>2. todo' = todo /\ downloaded' = downloaded
  OBVIOUS
<1>3. {id \in {list[i] : i \in 1..n} : ~Skips(id)'} = {id \in {list[i] : i \in 1..n} : ~Skips(id)}
  BY <1>1
<1>4. QED
  BY <1>2, <1>3 DEF Downloaded

\* Only Reply begins a download, and only Download goes on with it.
LEMMA OnlyDownloads ==
  ASSUME [Next]_vars, pc' = "download"
  PROVE  Reply \/ Download \/ (pc = "download" /\ UNCHANGED vars)
<1>1. CASE Receive
  BY <1>1 DEF Receive
<1>2. CASE Take
  BY <1>2 DEF Take
<1>3. ASSUME NEW id, NEW answer, Handle(id, answer) PROVE FALSE
  BY <1>3 DEF Handle, InWalk
<1>4. CASE TimeSyncReq
  BY <1>3, <1>4 DEF TimeSyncReq
<1>5. CASE AtnReqTabUpd
  BY <1>3, <1>5 DEF AtnReqTabUpd
<1>6. CASE Alarm
  BY <1>3, <1>6 DEF Alarm
<1>7. CASE MaintReq
  BY <1>3, <1>7 DEF MaintReq
<1>8. CASE CallDetails
  BY <1>3, <1>8 DEF CallDetails
<1>9. CASE BeginUpload
  BY <1>3, <1>9 DEF BeginUpload
<1>10. CASE CashBoxCollection
  BY <1>3, <1>10 DEF CashBoxCollection
<1>11. CASE Report
  BY <1>3, <1>11 DEF Report
<1>12. CASE SwVersion
  BY <1>3, <1>12 DEF SwVersion
<1>13. CASE RateRequest
  BY <1>3, <1>13 DEF RateRequest
<1>14. CASE FunfCardAuth
  BY <1>3, <1>14 DEF FunfCardAuth
<1>15. CASE EndData
  BY <1>3, <1>15 DEF EndData
<1>16. CASE TableUpdAck
  BY <1>3, <1>16 DEF TableUpdAck
<1>17. CASE Unhandled
  BY <1>17 DEF Unhandled, InWalk
<1>18. CASE EndDownload
  BY <1>18 DEF EndDownload
<1>19. CASE UNCHANGED vars
  BY <1>19 DEF vars
<1>20. QED
  BY <1>1, <1>2, <1>4, <1>5, <1>6, <1>7, <1>8, <1>9, <1>10, <1>11, <1>12, <1>13, <1>14, <1>15,
     <1>16,
     <1>17, <1>18, <1>19 DEF Next

\* No step breaks the invariant of the download.
LEMMA DownloadKept == DownloadInv /\ [Next]_vars => DownloadInv'
<1> SUFFICES ASSUME DownloadInv, [Next]_vars, pc' = "download" PROVE DownloadInv'
  BY Zenon DEF DownloadInv
<1>1. UNCHANGED <<setup, terminal_type>>
  BY OnlyDownloads DEF Reply, Download, vars, contextVars
<1>2. \E l : l = table_list(Version)
  OBVIOUS
<1>3. PICK list : list = table_list(Version)
  BY <1>2
<1>4. table_list(Version)' = list
  BY <1>1, <1>3, SkipsKept
<1>5. list \in Seq(Nat) /\ Distinct(list) /\ Ends(list, END_DATA)
  BY <1>3, TheList
<1>6. \E n \in Nat : Downloaded(list, n)'
  <2>1. CASE Reply
    <3>1. todo' = list /\ downloaded' = <<>>
      BY <1>3, <2>1 DEF Reply
    <3>2. Downloaded(list, 0)'
      BY <1>5, <3>1, DownloadBegins
    <3>3. QED
      BY <3>2
  <2>2. CASE Download
    <3>1. PICK n \in Nat : Downloaded(list, n)
      BY <1>3, <2>2 DEF DownloadInv, Download
    <3>2. /\ todo # <<>> /\ todo' = Tail(todo)
          /\ IF Skips(Head(todo)) THEN downloaded' = downloaded
             ELSE downloaded' = Append(downloaded, Head(todo))
      BY <2>2 DEF Download
    <3>3. Downloaded(list, n + 1)'
      BY <1>1, <1>5, <3>1, <3>2, SkipsKept, DownloadGoesOn
    <3>4. QED
      BY <3>3
  <2>3. CASE pc = "download" /\ UNCHANGED vars
    <3>1. PICK n \in Nat : Downloaded(list, n)
      BY <1>3, <2>3 DEF DownloadInv
    <3>2. UNCHANGED <<setup, terminal_type, todo, downloaded>>
      BY <2>3 DEF vars, contextVars, sendVars
    <3>3. QED
      BY <3>1, <3>2, DownloadedKept
  <2>4. QED
    BY <2>1, <2>2, <2>3, OnlyDownloads
<1>7. PICK n \in Nat : Downloaded(list, n)'
  BY <1>6
<1>8. Downloaded(table_list(Version), n)'
  BY <1>4, <1>7 DEF Downloaded
<1>9. QED
  BY <1>8 DEF DownloadInv

\* The tables that are required are among those no option leaves out.
LEMMA RequiredAreMandatory == \A id \in Required : id \in Mandatory
BY DEF Required, Mandatory

\* At the end of a download the required tables of the list have been sent.
LEMMA RequiredAreSent == DownloadInv => RequiredSent
<1> SUFFICES ASSUME DownloadInv, pc = "download", todo = <<>> PROVE RequiredSent
  BY DEF RequiredSent
<1> DEFINE list == table_list(Version)
<1>1. list \in Seq(Nat) /\ Len(list) \in Nat
  BY TheList, LenProperties
<1>2. PICK n \in Nat : Downloaded(list, n)
  BY DEF DownloadInv
<1> HIDE DEF list
<1>3. /\ n \in 0..Len(list) /\ Len(todo) = Len(list) - n
      /\ downloaded \in Seq(Nat) /\ Distinct(downloaded) /\ Len(downloaded) \in Nat
      /\ Listed(downloaded) = {id \in {list[i] : i \in 1..n} : ~Skips(id)}
      /\ n = Len(list) => Ends(downloaded, END_DATA)
  BY <1>2, LenProperties DEF Downloaded
<1>4. n = Len(list)
  <2>1. Len(todo) = 0
    BY EmptySeq
  <2>2. QED
    BY <1>1, <1>3, <2>1
<1>5. {i \in 1..Len(downloaded) : downloaded[i] = END_DATA} = {Len(downloaded)}
  <2>1. Len(downloaded) \in 1..Len(downloaded) /\ downloaded[Len(downloaded)] = END_DATA
    BY <1>3, <1>4 DEF Ends
  <2>2. \A i \in 1..Len(downloaded) : downloaded[i] = END_DATA => i = Len(downloaded)
    BY <1>3, <2>1 DEF Distinct
  <2>3. QED
    BY <2>1, <2>2
<1>6. {id \in Listed(list) \cap Required : Available(id) /\ ~Unsuited(id, Model)}
        \subseteq Listed(downloaded)
  <2> SUFFICES ASSUME NEW id \in Listed(list), id \in Required, Available(id), ~Unsuited(id, Model)
               PROVE  id \in Listed(downloaded)
    OBVIOUS
  <2>1. ~Skips(id)
    BY RequiredAreMandatory DEF Skips
  <2>2. id \in {list[i] : i \in 1..n}
    BY <1>4 DEF Listed
  <2>3. QED
    BY <1>3, <2>1, <2>2
<1>7. \A i, j \in 1..Len(downloaded) : downloaded[i] = downloaded[j] => i = j
  BY <1>3 DEF Distinct
<1>8. QED
  BY <1>5, <1>6, <1>7 DEF RequiredSent, Listed, list

\* A download that is over has sent every required table of the list, none of them twice, and
\* DLOG_MT_END_DATA at the end; this holds whatever the line has done.
THEOREM RequiredTablesSent == Spec => []RequiredSent
<1>1. Init => DownloadInv
  BY DEF Init, DownloadInv
<1>2. QED
  BY <1>1, DownloadKept, RequiredAreSent, PTL DEF Spec

================================================================================
