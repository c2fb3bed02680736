------------------------------- MODULE MMFraming -------------------------------
(***************************************************************************)
(* Packets as bytes (receive_mm_packet and send_mm_packet of mm_proto.c),  *)
(* and what the two kinds of packet capture make of them: the manager's    *)
(* own, written by receive_mm_packet, and the one mm_dlog2pcap makes of a  *)
(* transcript of the line, with a parser of its own that sees the bytes    *)
(* but not the pauses between them.                                        *)
(*                                                                         *)
(*   START  FLAGS  LENGTH  DATA...  CRC (low, high)  STOP                   *)
(*                                                                         *)
(* The terminal sends a few packets, the first perhaps with one byte       *)
(* changed, lost or too many.  Between the first two it may pause longer   *)
(* than receive_mm_packet waits (PKT_TIMEOUT_MAX reads): GAP on the line.  *)
(* The acknowledgements in between are those of MMLink.                    *)
(***************************************************************************)
EXTENDS MMCodec
LOCAL INSTANCE SequencesExt

CONSTANTS None, GAP

VARIABLES
    \* what the terminal sends, what happens to the first frame, is there a pause after it?
    sent, noise, pause,
    \* the line: bytes still to come, and pauses
    wire,
    \* receive_mm_packet: its state, packet and status; is the call up?
    l2_state, pkt, status, connected,
    \* the packets it returned: with what it recorded of them, and the status
    got,
    \* mm_dlog2pcap: the parser of the terminal's bytes, and the packets it recorded
    parser, converted,
    \* history: a pause fell within a frame
    split

lineVars == <<sent, noise, pause>>
framingVars == <<lineVars, wire, l2_state, pkt, status, connected, got, parser, converted, split>>

START_BYTE == 2
STOP_BYTE == 3
FLAG_RETRY == 4
FLAG_DISCONNECT == 32
HasFlag(flags, flag) == (flags \div flag) % 2 = 1

States == {"start", "flags", "length", "data", "crc0", "crc1", "stop"}
NoPacket == [flags |-> 0, pktlen |-> 0, payload |-> <<>>, crc |-> 0]
NoParser == [state |-> "start", pkt |-> NoPacket]
Word(low, high) == high * 256 + low

\* send_mm_packet, and the terminal: the length counts all but the STOP byte, in one byte.
Frame(p) ==
    LET body == <<START_BYTE, p.flags, (Len(p.payload) + 5) % 256>> \o p.payload
        crc == crc16(0, body)
    IN  body \o <<crc % 256, crc \div 256, STOP_BYTE>>

\* What the line makes of a frame.
Disturbed(frame, n) ==
    IF n = None THEN frame
    ELSE CASE n.kind = "changed" -> [frame EXCEPT ![n.at] = n.byte]
           [] n.kind = "lost" -> RemoveAt(frame, n.at)
           [] n.kind = "added" -> InsertAt(frame, n.at, n.byte)

Line(packets, n, p) ==
    LET Rest == FlattenSeq([i \in 1..Len(packets) - 1 |-> Frame(packets[i + 1])])
    IN  Disturbed(Frame(packets[1]), n) \o (IF p THEN <<GAP>> ELSE <<>>) \o Rest \o <<GAP>>

FramingTypeOK ==
    /\ l2_state \in States
    /\ pkt \in [flags : Byte, pktlen : Byte, payload : Seq(Byte), crc : Checksum]
    /\ Len(pkt.payload) <= 250
    /\ status \subseteq {"crc"} /\ connected \in BOOLEAN
    /\ wire \in Seq(Byte \cup {GAP})
    /\ parser.state \in States /\ Len(parser.pkt.payload) <= 250
    /\ split \in BOOLEAN

ReceiverInit ==
    /\ l2_state = "start" /\ pkt = NoPacket /\ status = {} /\ connected = TRUE
    /\ parser = NoParser /\ split = FALSE

\* The packets are on the line, or they have been received already.
FramingInit ==
    /\ ReceiverInit
    /\ wire = Line(sent, noise, pause) /\ got = <<>> /\ converted = <<>>

ArrivedInit ==
    LET Came(p) == [flags |-> p.flags, payload |-> p.payload, end |-> STOP_BYTE,
                    crc |-> crc16(0, <<START_BYTE, p.flags, Len(p.payload) + 5>> \o p.payload)]
    IN  /\ ReceiverInit /\ noise = None /\ pause = FALSE
        /\ wire = <<>> /\ converted = [i \in 1..Len(sent) |-> Came(sent[i])]
        /\ got = [i \in 1..Len(sent) |-> [record |-> converted[i], status |-> {}]]

---------------------------------------------------------------------------
(* mm_dlog2pcap: a byte at a time, and a new packet after each STOP, right or wrong. *)

mm_parse_byte(p, byte) ==
    CASE p.state = "start" ->
           IF byte = START_BYTE THEN [p EXCEPT !.state = "flags", !.pkt.payload = <<>>] ELSE p
      [] p.state = "flags" -> [p EXCEPT !.state = "length", !.pkt.flags = byte]
      [] p.state = "length" ->
           [p EXCEPT !.state = IF byte > 5 THEN "data" ELSE "crc0", !.pkt.pktlen = byte]
      [] p.state = "data" ->
           [p EXCEPT !.state = IF Len(p.pkt.payload) + 1 = p.pkt.pktlen - 5 THEN "crc0" ELSE "data",
                     !.pkt.payload = Append(@, byte)]
      [] p.state = "crc0" -> [p EXCEPT !.state = "crc1", !.pkt.crc = byte]
      [] p.state = "crc1" -> [p EXCEPT !.state = "stop", !.pkt.crc = Word(@, byte)]
      [] p.state = "stop" -> p

Record(p, end) == [flags |-> p.flags, payload |-> p.payload, crc |-> p.crc, end |-> end]

mm_parser_reset(p) == NoParser

Transcribed_OnlyGood(byte) ==
    IF parser.state = "stop"
    THEN /\ converted' = IF byte = STOP_BYTE THEN Append(converted, Record(parser.pkt, byte)) ELSE converted
         /\ parser' = mm_parser_reset(parser)
    ELSE parser' = mm_parse_byte(parser, byte) /\ UNCHANGED converted

Transcribed(byte) ==
    IF parser.state = "stop"
    THEN /\ converted' = Append(converted, Record(parser.pkt, byte))
         /\ parser' = mm_parser_reset(parser)
    ELSE parser' = mm_parse_byte(parser, byte) /\ UNCHANGED converted

---------------------------------------------------------------------------
(* receive_mm_packet: one action per state.  Whatever byte comes, the transcript has it. *)

Takes(byte) ==
    /\ wire # <<>> /\ byte = Head(wire) /\ byte # GAP
    /\ connected
    /\ wire' = Tail(wire)
    /\ Transcribed(byte)
    /\ UNCHANGED <<lineVars, split>>

SearchForStart(byte) ==
    /\ l2_state = "start" /\ Takes(byte)
    /\ IF byte = START_BYTE
       THEN l2_state' = "flags" /\ pkt' = [pkt EXCEPT !.payload = <<>>]
       ELSE UNCHANGED <<l2_state, pkt>>
    /\ UNCHANGED <<status, connected, got>>

GetFlags(byte) ==
    /\ l2_state = "flags" /\ Takes(byte)
    /\ l2_state' = "length" /\ pkt' = [pkt EXCEPT !.flags = byte]
    /\ UNCHANGED <<status, connected, got>>

GetLength(byte) ==
    /\ l2_state = "length" /\ Takes(byte)
    /\ l2_state' = IF byte > 5 THEN "data" ELSE "crc0"
    /\ pkt' = [pkt EXCEPT !.pktlen = byte]
    /\ UNCHANGED <<status, connected, got>>

AccumulateData(byte) ==
    /\ l2_state = "data" /\ Takes(byte)
    /\ pkt' = [pkt EXCEPT !.payload = Append(@, byte)]
    /\ l2_state' = IF Len(pkt.payload) + 1 = pkt.pktlen - 5 THEN "crc0" ELSE "data"
    /\ UNCHANGED <<status, connected, got>>

GetCrc0(byte) ==
    /\ l2_state = "crc0" /\ Takes(byte)
    /\ l2_state' = "crc1" /\ pkt' = [pkt EXCEPT !.crc = byte]
    /\ UNCHANGED <<status, connected, got>>

\* The checksum over the header, carried on over the data.
Calculated(p) == crc16(crc16(0, <<START_BYTE, p.flags, p.pktlen>>), p.payload)
CrcStatus_Ignored(p, crc) == {}
CrcStatus(p, crc) == IF crc = Calculated(p) THEN {} ELSE {"crc"}

GetCrc1(byte) ==
    /\ l2_state = "crc1" /\ Takes(byte)
    /\ l2_state' = "stop" /\ pkt' = [pkt EXCEPT !.crc = Word(@, byte)]
    /\ status' = CrcStatus(pkt, Word(pkt.crc, byte))
    /\ UNCHANGED <<connected, got>>

\* The packet is recorded and its flags are looked at, however it came.  The next call
\* starts with nothing.
Reset == l2_state' = "start" /\ pkt' = NoPacket /\ status' = {}

GetStop(byte) ==
    LET flagged == (IF HasFlag(pkt.flags, FLAG_RETRY) THEN {"retry"} ELSE {})
                     \cup (IF HasFlag(pkt.flags, FLAG_DISCONNECT) THEN {"disconnect"} ELSE {})
        framing == IF byte = STOP_BYTE THEN {} ELSE {"framing"}
    IN  /\ l2_state = "stop" /\ Takes(byte)
        /\ got' = Append(got, [record |-> Record(pkt, byte), status |-> status \cup framing \cup flagged])
        /\ connected' = ("disconnect" \notin flagged)
        /\ Reset

ReceiveByte ==
    \E byte \in Byte :
        \/ SearchForStart(byte) \/ GetFlags(byte) \/ GetLength(byte) \/ AccumulateData(byte)
        \/ GetCrc0(byte) \/ GetCrc1(byte) \/ GetStop(byte)

Timeout_Keeps ==
    /\ wire # <<>> /\ Head(wire) = GAP /\ connected
    /\ wire' = Tail(wire)
    /\ split' = (split \/ l2_state # "start")
    /\ UNCHANGED <<lineVars, l2_state, pkt, status, connected, got, parser, converted>>

\* PKT_ERROR_TIMEOUT: what came so far is forgotten.
Timeout ==
    /\ wire # <<>> /\ Head(wire) = GAP /\ connected
    /\ wire' = Tail(wire)
    /\ split' = (split \/ l2_state # "start")
    /\ Reset
    /\ UNCHANGED <<lineVars, connected, got, parser, converted>>

---------------------------------------------------------------------------
(* Properties. *)

Sent(r) == [flags |-> r.record.flags, payload |-> r.record.payload]
IsIntact(r) == r.status \cap {"crc", "framing"} = {}
Intact == {k \in 1..Len(got) : IsIntact(got[k])}

\* The packets received without an error are packets the terminal sent, in their order:
\* no byte changed, lost or added makes another packet of a frame, or of two, that passes
\* for one of the terminal's (the checksum and the STOP byte in receive_mm_packet).
IntactIsSent ==
    \E places \in [Intact -> 1..Len(sent)] :
        /\ \A i, j \in Intact : i < j => places[i] < places[j]
        /\ \A i \in Intact : Sent(got[i]) = sent[places[i]]

\* When the line has fallen silent with the call still up, every packet whose frame came
\* through whole has been received, once the frames before it did or the terminal paused
\* after them: a damaged frame takes at most the frames sent right behind it with it, as
\* receive_mm_packet starts every packet anew and gives up a packet that stops coming.
UndamagedArrives ==
    wire = <<>> /\ connected =>
        \A i \in 1..Len(sent) :
            (noise = None \/ (i > 1 /\ pause)) => \E k \in Intact : Sent(got[k]) = sent[i]

\* As long as no pause falls within a frame, the capture made of a transcript holds the
\* same packets as the manager's own, byte by byte, errors included: the two parsers agree
\* on where each packet begins and ends.
TranscriptAgrees ==
    ~split => converted = [i \in 1..Len(got) |-> got[i].record]
================================================================================
