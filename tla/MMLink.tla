------------------------------- MODULE MMLink -------------------------------
(***************************************************************************)
(* The link layer of MMProto talking to one payphone over a telephone line *)
(* that loses and damages packets, at most MaxFaults of them between two   *)
(* packets the manager is done with, while mm_download_tables sends tables *)
(* and waits for each to be acknowledged.                                  *)
(*                                                                         *)
(* The terminal is not part of the repository: it is modelled from what    *)
(* mm_proto.c expects of it.  It takes a data packet with the sequence of  *)
(* the last one it accepted for a retransmission, which it acknowledges    *)
(* and drops; it NACKs a damaged packet; asked to retry, it repeats the    *)
(* packet of its own that is not acknowledged, or answers with a NACK when *)
(* there is none; it sends DLOG_MT_TABLE_UPD_ACK for a table it has whole. *)
(* The line is half duplex and the terminal prompt: the eleven silent      *)
(* seconds of a manager timeout pass only when nothing is on its way.      *)
(***************************************************************************)
EXTENDS MMProto, Sequences

CONSTANTS
    Replies,        \* tables of one packet that no DLOG_MT_TABLE_UPD_ACK answers: replies
                    \* to the terminal's own tables, and DLOG_MT_END_DATA
    MaxFaults       \* bound: packets lost or damaged while the manager is at one packet

ASSUME LinkAssumption == Replies \subseteq Tables /\ MaxFaults \in Nat

SizeOf(t) == IF t \in Replies THEN 1 ELSE MaxChunks

VARIABLES
    toTerm, toMgr,      \* packets on the line; toMgr as receive_mm_packet reports them
    lastseq,            \* terminal: sequence of the last data packet accepted, or None
    tseq,               \* terminal: sequence of its next packet
    pending,            \* terminal: its packet that is not acknowledged, or None
    faults,             \* packets lost or damaged since the manager's last packet ended
    got                 \* history: packets accepted since send_mm_table was called

termVars == <<lastseq, tseq, pending>>
lineVars == <<toTerm, toMgr>>
linkVars == <<vars, lineVars, faults, termVars, got>>

NoSeq == SEQ_MOD        \* before the first data packet of a call

TermData(s, upd) == Result({}, FALSE, s, "data", upd)
TermAck(s)  == Result({}, TRUE, s, "empty", None)
TermNack(s) == Result({}, FALSE, s, "empty", None)
Damaged == Result({"CRC"}, FALSE, 0, "empty", None)

\* What the terminal may get: a packet of the manager, intact or not.
Kinds == {"DATA", "ACK", "NACK", "RETRY"}
LinePackets == [pkt : Kinds, seq : Seqs, ok : BOOLEAN, table : Tables \cup {None},
                chunk : 0..MaxChunks]

LinkTypeOK ==
    /\ toTerm \in Seq(LinePackets)
    /\ toMgr \in Seq(Results)
    /\ Len(toTerm) <= 2 /\ Len(toMgr) <= 2
    /\ lastseq \in Seqs \cup {NoSeq}
    /\ tseq \in Seqs
    /\ pending \in Results \cup {None}
    /\ got \in Seq(Tables \X (1..MaxChunks))
    /\ faults \in 0..MaxFaults

LinkInit ==
    /\ Init
    /\ toTerm = <<>> /\ toMgr = <<>>
    /\ lastseq = NoSeq /\ tseq = 0 /\ pending = None
    /\ got = <<>> /\ faults = 0

----------------------------------------------------------------------------
(* The line. *)

OnLine(p, ok) == [pkt |-> p.kind, seq |-> p.seq, ok |-> ok, table |-> p.table, chunk |-> p.chunk]

\* The line did harm to n of the packets sent in this step, after `before` others.
Harm(before, n) ==
    /\ before + n <= MaxFaults
    /\ faults' = before + n

\* What the manager's step put on the line follows `queue`, intact, damaged or not at all.
ManagerSends(queue) ==
    LET before == IF done' = done THEN faults ELSE 0
    IN  IF ~connected' THEN toTerm' = <<>> /\ Harm(before, 0)
        ELSE IF out' = NoPacket THEN toTerm' = queue /\ Harm(before, 0)
        ELSE \/ toTerm' = Append(queue, OnLine(out', TRUE)) /\ Harm(before, 0)
             \/ toTerm' \in {Append(queue, OnLine(out', FALSE)), queue} /\ Harm(before, 1)

\* The same for the terminal's answer.
TerminalSends(r) ==
    \/ toMgr' = Append(toMgr, r) /\ Harm(faults, 0)
    \/ toMgr' \in {Append(toMgr, Damaged), toMgr} /\ Harm(faults, 1)

\* The manager's blocking read returns r.
ManagerReads(r) ==
    /\ Resume(r)
    /\ ManagerSends(toTerm)
    /\ UNCHANGED <<termVars, got>>

ManagerReceives ==
    /\ toMgr # <<>> /\ ManagerReads(Head(toMgr))
    /\ toMgr' = IF connected' THEN Tail(toMgr) ELSE <<>>

ManagerTimesOut ==
    /\ toMgr = <<>> /\ toTerm = <<>>
    /\ ManagerReads(Result({"TIMEOUT"}, FALSE, 0, "empty", None))
    /\ UNCHANGED toMgr

\* Carrier drops, the read fails, or the terminal's last packet hangs up.
LineDrops ==
    \E s \in {{"FAILURE"}, {"NO_CARRIER"}, {"DISCONNECT"}} :
        /\ Result(s, FALSE, 0, "empty", None) \in Results
        /\ ManagerReads(Result(s, FALSE, 0, "empty", None))
        /\ toMgr' = <<>>

----------------------------------------------------------------------------
(* The manager's client: main, process_mm_table and mm_download_tables. *)

\* A terminal calls and asks for its tables.
Call(t) ==
    /\ Connect(t)
    /\ toTerm' = <<>>
    /\ lastseq' = NoSeq /\ tseq' = 1
    /\ pending' = TermData(0, None)
    /\ \/ toMgr' = <<pending'>> /\ faults' = 0
       \/ MaxFaults > 0 /\ toMgr' \in {<<Damaged>>, <<>>} /\ faults' = 1
    /\ UNCHANGED got

HangUp ==
    /\ Disconnect
    /\ toTerm' = <<>> /\ toMgr' = <<>>
    /\ UNCHANGED <<termVars, got, faults>>

\* The reply to the request comes first, then the tables, each once the one before it is
\* acknowledged, or could not be sent.
Download(t) ==
    /\ op = "receive" => t \in Replies
    /\ op = "send" => ret # {} \/ table \in Replies
    /\ StartSend(t, SizeOf(t)) \/ StartSendDown(t, SizeOf(t))
    /\ got' = <<>>
    /\ ManagerSends(toTerm)
    /\ UNCHANGED <<toMgr, termVars>>

AwaitAck(t) ==
    /\ t \notin Replies
    /\ StartTableAck(t) \/ StartTableAckDown(t)
    /\ UNCHANGED <<lineVars, faults, termVars, got>>

Receive ==
    /\ StartReceive
    /\ UNCHANGED <<lineVars, faults, termVars, got>>

----------------------------------------------------------------------------
(* The terminal. *)

Arrived == Head(toTerm)
Takes == toTerm # <<>> /\ toTerm' = Tail(toTerm)

\* A packet that is not a retransmission; the last one of a table is followed by the
\* acknowledgement of the table.
TermAccepts ==
    /\ Takes /\ Arrived.ok /\ Arrived.pkt = "DATA" /\ Arrived.seq # lastseq
    /\ lastseq' = Arrived.seq
    /\ got' = Append(got, <<Arrived.table, Arrived.chunk>>)
    /\ IF Arrived.table \notin Replies /\ Arrived.chunk = MaxChunks
       THEN LET upd == TermData(tseq, Arrived.table) IN
            /\ pending' = upd /\ tseq' = NextSeq(tseq)
            /\ \E a \in {<<TermAck(Arrived.seq)>>, <<Damaged>>, <<>>},
                  u \in {<<upd>>, <<Damaged>>, <<>>} :
                   /\ toMgr' = toMgr \o a \o u
                   /\ Harm(faults, (IF a = <<TermAck(Arrived.seq)>> THEN 0 ELSE 1)
                                     + (IF u = <<upd>> THEN 0 ELSE 1))
       ELSE TerminalSends(TermAck(Arrived.seq)) /\ UNCHANGED <<pending, tseq>>
    /\ UNCHANGED vars

TermDropsDuplicate ==
    /\ Takes /\ Arrived.ok /\ Arrived.pkt = "DATA" /\ Arrived.seq = lastseq
    /\ TerminalSends(TermAck(Arrived.seq))
    /\ UNCHANGED <<vars, termVars, got>>

TermNacks ==
    /\ Takes /\ ~Arrived.ok
    /\ IF Arrived.pkt = "DATA" THEN TerminalSends(TermNack(Arrived.seq))
       ELSE UNCHANGED <<toMgr, faults>>
    /\ UNCHANGED <<vars, termVars, got>>

TermAcked ==
    /\ Takes /\ Arrived.ok /\ Arrived.pkt = "ACK"
    /\ pending' = None
    /\ UNCHANGED <<vars, toMgr, lastseq, tseq, got, faults>>

TermRetries ==
    /\ Takes /\ Arrived.ok /\ Arrived.pkt \in {"NACK", "RETRY"}
    /\ TerminalSends(IF pending = None THEN TermNack(Arrived.seq) ELSE pending)
    /\ UNCHANGED <<vars, termVars, got>>

Terminal ==
    TermAccepts \/ TermDropsDuplicate \/ TermNacks \/ TermAcked \/ TermRetries

Manager ==
    \/ ManagerReceives \/ ManagerTimesOut \/ LineDrops
    \/ \E t \in Terminals : Call(t)
    \/ HangUp \/ Receive
    \/ \E t \in Tables : Download(t) \/ AwaitAck(t)

LinkNext == Manager \/ Terminal

LinkSpec == LinkInit /\ [][LinkNext]_linkVars

----------------------------------------------------------------------------
(* Properties *)

Sending == op = "send"

Transfer == INSTANCE MMTransfer WITH
    state <- IF ~Sending THEN "idle"
             ELSE IF pc = "TxAck" THEN "sending"
             ELSE IF ret = {} THEN "sent" ELSE "failed",
    size <- IF Sending THEN nchunks ELSE 0,
    got <- IF Sending
           THEN [i \in 1..Len(got) |-> IF got[i][1] = table THEN got[i][2] ELSE 0]
           ELSE <<>>

\* send_mm_table implements the transfer: over a line that loses and damages packets both
\* ways, the terminal accepts each packet of the table once and in order, and success
\* means that it has them all.
ImplementsTransfer == Transfer!Spec

\* "Returns PKT_SUCCESS on success" (send_mm_packet): a table reported as sent is at the
\* terminal.
SuccessMeansDelivered ==
    Sending /\ pc = "Idle" /\ ret = {} =>
        got = [i \in 1..nchunks |-> <<table, i>>]
=============================================================================
