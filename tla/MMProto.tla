------------------------------ MODULE MMProto ------------------------------
(***************************************************************************)
(* The link layer of mm_manager (src/src/mm_proto.c) at the granularity of *)
(* packets.  The program is single threaded and blocks in                  *)
(* receive_mm_packet, so a step of this module runs from one return of     *)
(* receive_mm_packet to the next blocking call, or to the return of the    *)
(* link operation (receive_mm_table, send_mm_table, wait_for_table_ack) to *)
(* process_mm_table and mm_download_tables, the clients.  In each step the *)
(* manager puts at most one packet on the line: out.                       *)
(*                                                                         *)
(* pc says where the thread is:                                            *)
(*   Idle     in the client, no link operation is running                  *)
(*   RxTable  receive_mm_table blocked in receive_mm_packet                *)
(*   RxNak    receive_mm_table, after its NACK, in wait_for_mm_ack         *)
(*   TxAck    send_mm_packet (of send_mm_table) in wait_for_mm_ack         *)
(*   TblAck   wait_for_table_ack blocked in receive_mm_packet              *)
(*   TblNak   wait_for_table_ack, after its retry request, in              *)
(*            wait_for_mm_ack                                              *)
(*                                                                         *)
(* A pkt_status_t is the set of the names of its bits: {} is PKT_SUCCESS.  *)
(* Sequence numbers are kept modulo FLAG_SEQUENCE + 1, because every use   *)
(* of the uint8_t counters is masked and 256 is a multiple of 4.           *)
(*                                                                         *)
(* A definition whose name ends in _Word is the one named before the       *)
(* underscore with a plausible defect; nothing here uses it: it shows that *)
(* the properties below would notice that defect.                          *)
(***************************************************************************)
EXTENDS Naturals

CONSTANTS
    Tables,         \* table ids the manager downloads and asks to be acknowledged
    Terminals,      \* the payphones that may call
    None,           \* no terminal, no table
    MonitorCarrier, \* proto->monitor_carrier: look at the carrier while receiving
    MaxChunks,      \* bound: packets a table is cut into
    MaxPackets      \* bound: data packets the manager starts in one call

ASSUME ConstantsAssumption ==
    /\ None \notin Tables \cup Terminals
    /\ MonitorCarrier \in BOOLEAN
    /\ MaxChunks \in Nat \ {0}
    /\ MaxPackets \in Nat

PKT_MAX_RETRIES == 5
SEQ_MOD == 4            \* FLAG_SEQUENCE + 1
Seqs == 0..(SEQ_MOD - 1)
NextSeq_Unmasked(s) == s + 1
NextSeq(s) == (s + 1) % SEQ_MOD

\* Status bits that a byte-wide variable keeps, and the two it loses.
LowStatus  == {"RETRY", "DISCONNECT", "CRC", "FRAMING", "TIMEOUT", "NACK", "WRONG_TABLE"}
HighStatus == {"NO_CARRIER", "FAILURE"}
Status == SUBSET (LowStatus \cup HighStatus)

(***************************************************************************)
(* What receive_mm_packet may hand to its caller: a packet whose RETRY and *)
(* DISCONNECT flags, CRC check and stop byte decide the status bits, or a  *)
(* line fault with nothing usable in the packet.  len tells apart an empty *)
(* payload, one shorter than the phone number, and a table; upd is the     *)
(* table a DLOG_MT_TABLE_UPD_ACK names.                                    *)
(***************************************************************************)
Result(status, ack, seq, len, upd) ==
    [status |-> status, ack |-> ack, seq |-> seq, len |-> len, upd |-> upd]

Lens == {"empty", "short", "data"}
Carrier == IF MonitorCarrier THEN {"NO_CARRIER"} ELSE {}

\* The ACK flag is read of an empty packet only, upd is about a table.
SoundResults ==
    {r \in [status : SUBSET {"RETRY", "DISCONNECT"}, ack : BOOLEAN, seq : Seqs,
            len : Lens, upd : Tables \cup {None}] :
        /\ r.upd # None => r.len = "data"
        /\ r.ack => r.len = "empty"}

\* Nothing of a damaged packet but RETRY and DISCONNECT is read, and nothing of a fault.
BadStatus ==
    {d \cup f : d \in {{"CRC"}, {"FRAMING"}, {"CRC", "FRAMING"}},
               f \in SUBSET {"RETRY", "DISCONNECT"}}
    \cup {{bit} : bit \in {"TIMEOUT", "FAILURE"} \cup Carrier}

Results == SoundResults \cup {Result(s, FALSE, 0, "empty", None) : s \in BadStatus}

\* What it returns at once when the call is already down.
DownStatus == {{"DISCONNECT"}} \cup {{bit} : bit \in Carrier}

Intact(r)  == r.status \in {{}, {"RETRY"}}
HangsUp(r) == r.status \cap {"DISCONNECT", "NO_CARRIER", "FAILURE"} # {}

AckStatus_NoNack(r) ==
    IF r.status \in {{}, {"DISCONNECT"}} THEN {} ELSE r.status

\* wait_for_mm_ack: any table counts as an acknowledgement, no sequence is compared.
AckStatus(r) ==
    IF r.status \in {{}, {"DISCONNECT"}}
    THEN IF r.len = "empty" /\ ~r.ack THEN {"NACK"} ELSE {}
    ELSE r.status

\* process_mm_table keeps the status in a uint8_t and goes on when that is zero.
Processes(status) == status \cap LowStatus = {}

----------------------------------------------------------------------------
VARIABLES
    \* mm_proto_t
    connected, tx_seq, rx_seq, waiting_for_ack, terminal_id,
    \* the running link operation, its arguments and locals, and what the last returned
    pc, op, table, chunk, nchunks, retries, ret,
    \* the client's mm_table_t: what is in the packet it is about to process
    buf,
    \* the line: the packet the last step sent, and the terminal that called
    out, caller,
    \* history: data packets ended in this call, chunks of the table answered
    done, answered

protoVars == <<connected, tx_seq, rx_seq, waiting_for_ack, terminal_id>>
callVars  == <<op, table, chunk, nchunks, retries>>
histVars  == <<done, answered>>
vars == <<protoVars, callVars, pc, ret, buf, out, caller, histVars>>

Bufs == {"none", "good", "short", "damaged", "partial"}

Packets == [kind : {"NONE", "DATA", "ACK", "NACK", "RETRY"}, seq : Seqs,
            to : Terminals \cup {None}, table : Tables \cup {None}, chunk : 0..MaxChunks]
Packet(kind, seq, to, tbl, c) ==
    [kind |-> kind, seq |-> seq, to |-> to, table |-> tbl, chunk |-> c]
NoPacket == Packet("NONE", 0, None, None, 0)
Control(kind, seq) == Packet(kind, seq, None, None, 0)
Data(seq, tbl, c) == Packet("DATA", seq, terminal_id, tbl, c)

TypeOK ==
    /\ connected \in BOOLEAN
    /\ tx_seq \in Seqs
    /\ rx_seq \in Seqs
    /\ waiting_for_ack \in BOOLEAN
    /\ terminal_id \in Terminals \cup {None}
    /\ pc \in {"Idle", "RxTable", "RxNak", "TxAck", "TblAck", "TblNak"}
    /\ op \in {"none", "receive", "send", "tableack"}
    /\ table \in Tables \cup {None}
    /\ nchunks \in 0..MaxChunks
    /\ chunk \in 0..MaxChunks
    /\ retries \in 0..(PKT_MAX_RETRIES - 1)
    /\ ret \in Status
    /\ buf \in Bufs
    /\ out \in Packets
    /\ caller \in Terminals \cup {None}
    /\ done \in 0..MaxPackets
    /\ answered \in 0..MaxChunks

\* calloc'ed context, before the first call.
Init ==
    /\ connected = FALSE /\ waiting_for_ack = FALSE
    /\ tx_seq = 0 /\ rx_seq = 0
    /\ terminal_id = None /\ caller = None
    /\ pc = "Idle" /\ op = "none" /\ ret = {} /\ buf = "none"
    /\ table = None /\ chunk = 0 /\ nchunks = 0 /\ retries = 0
    /\ out = NoPacket
    /\ done = 0 /\ answered = 0

----------------------------------------------------------------------------
(* Pieces shared by the operations. *)

\* receive_mm_packet hangs up (proto_disconnect) when the packet or the line says so.
Survives(r) == connected /\ ~HangsUp(r)
TxSeqAfter(r) == IF HangsUp(r) THEN 0 ELSE tx_seq

LineState(r) ==
    /\ connected' = Survives(r)
    /\ tx_seq' = TxSeqAfter(r)

\* phone_num_to_string on the start of a table: who is on the line.
NoteTerminal_Skipped == UNCHANGED terminal_id
NoteTerminal == terminal_id' = caller

\* send_mm_ack on a live call: flags with rx_seq, which then moves on.
SendAck(kind, seq) ==
    /\ out' = Control(kind, seq)
    /\ rx_seq' = NextSeq(seq)

\* The locals of the operation that returned last are gone.
NoLocals ==
    /\ table' = None /\ chunk' = 0 /\ nchunks' = 0 /\ retries' = 0
    /\ answered' = 0 /\ ret' = {}

\* An operation returns to its client.
Return(status) ==
    /\ pc' = "Idle"
    /\ ret' = status
    /\ waiting_for_ack' = FALSE

\* process_mm_table is working on the packet: a short one holds no table to answer.
Processing == buf \in {"good", "damaged", "partial"}

----------------------------------------------------------------------------
(* The call. *)

Connect_KeepsSeq(t) ==
    /\ pc = "Idle" /\ ~connected
    /\ connected' = TRUE
    /\ caller' = t
    /\ op' = "none" /\ buf' = "none" /\ out' = NoPacket
    /\ done' = 0
    /\ NoLocals
    /\ UNCHANGED <<tx_seq, rx_seq, waiting_for_ack, terminal_id, pc>>

\* proto_connect, when mm_connection_wait sees CONNECT.
Connect(t) ==
    /\ pc = "Idle" /\ ~connected
    /\ connected' = TRUE
    /\ tx_seq' = 0
    /\ caller' = t
    /\ op' = "none" /\ buf' = "none" /\ out' = NoPacket
    /\ done' = 0
    /\ NoLocals
    /\ UNCHANGED <<rx_seq, waiting_for_ack, terminal_id, pc>>

\* proto_disconnect, by main when the loop over the tables of a call ends.
Disconnect ==
    /\ pc = "Idle" /\ connected
    /\ connected' = FALSE
    /\ tx_seq' = 0
    /\ op' = "none" /\ buf' = "none" /\ out' = NoPacket
    /\ NoLocals
    /\ UNCHANGED <<rx_seq, waiting_for_ack, terminal_id, pc, caller, done>>

----------------------------------------------------------------------------
(* receive_mm_table *)

StartReceive ==
    /\ pc = "Idle" /\ connected
    /\ pc' = "RxTable" /\ op' = "receive"
    /\ buf' = "none" /\ out' = NoPacket
    /\ NoLocals
    /\ UNCHANGED <<protoVars, caller, done>>

\* An intact table: note who sent it, acknowledge it, return.
ReceiveData(r) ==
    /\ pc = "RxTable" /\ Intact(r) /\ r.len = "data"
    /\ NoteTerminal
    /\ SendAck("ACK", r.seq)
    /\ Return(r.status)
    /\ buf' = IF Processes(r.status) THEN "good" ELSE "none"
    /\ UNCHANGED <<connected, tx_seq, callVars, caller, done, answered>>

\* An intact packet too short for a table: return 0, send nothing.
ReceiveShort(r) ==
    /\ pc = "RxTable" /\ Intact(r) /\ r.len # "data"
    /\ rx_seq' = r.seq
    /\ Return({})
    /\ buf' = "short" /\ out' = NoPacket
    /\ UNCHANGED <<connected, tx_seq, terminal_id, callVars, caller, histVars>>

\* Anything else on a call that is still up: NACK, then wait for an answer to it.
ReceiveBad(r) ==
    /\ pc = "RxTable" /\ ~Intact(r) /\ Survives(r)
    /\ SendAck("NACK", rx_seq)
    /\ pc' = "RxNak" /\ waiting_for_ack' = TRUE
    /\ buf' = IF r.status = {"TIMEOUT"} THEN "partial" ELSE "damaged"
    /\ LineState(r)
    /\ UNCHANGED <<terminal_id, callVars, ret, caller, done, answered>>

\* The call is gone: return the status, whatever is in the packet.
ReceiveDown(r) ==
    /\ pc = "RxTable" /\ ~Intact(r) /\ ~Survives(r)
    /\ Return(r.status)
    /\ buf' = IF Processes(r.status) THEN "partial" ELSE "none"
    /\ out' = NoPacket
    /\ LineState(r)
    /\ UNCHANGED <<rx_seq, terminal_id, callVars, caller, done, answered>>

NackAnswered_GoesRound(r) ==
    /\ pc = "RxNak"
    /\ IF AckStatus(r) = {} /\ Survives(r)
       THEN pc' = "RxTable" /\ waiting_for_ack' = FALSE /\ UNCHANGED ret
       ELSE Return(AckStatus(r))
    /\ buf' = "none" /\ out' = NoPacket
    /\ LineState(r)
    /\ UNCHANGED <<rx_seq, terminal_id, callVars, caller, done, answered>>

\* The answer to the NACK becomes the status of the table that was NACKed.
NackAnswered(r) ==
    /\ pc = "RxNak"
    /\ Return(AckStatus(r))
    /\ buf' = IF Processes(AckStatus(r)) THEN buf ELSE "none"
    /\ out' = NoPacket
    /\ LineState(r)
    /\ UNCHANGED <<rx_seq, terminal_id, callVars, caller, done, answered>>

----------------------------------------------------------------------------
(* send_mm_table and send_mm_packet *)

\* The client replies to, or downloads tables after, a table it is processing.
StartSend(t, n) ==
    /\ pc = "Idle" /\ connected /\ Processing
    /\ done + n <= MaxPackets
    /\ op' = "send" /\ table' = t /\ nchunks' = n
    /\ chunk' = 1 /\ retries' = 0 /\ answered' = 0
    /\ out' = Data(tx_seq, t, 1)
    /\ pc' = "TxAck" /\ waiting_for_ack' = TRUE /\ ret' = {}
    /\ UNCHANGED <<connected, tx_seq, rx_seq, terminal_id, buf, caller, done>>

\* The reply to a packet taken for a table when the call dropped: nothing is sent.
StartSendDown(t, n) ==
    /\ pc = "Idle" /\ ~connected /\ Processing /\ op = "receive"
    /\ op' = "send" /\ table' = t /\ nchunks' = n
    /\ chunk' = 1 /\ retries' = 0 /\ answered' = 0
    /\ ret' = {"DISCONNECT"} /\ out' = NoPacket
    /\ UNCHANGED <<protoVars, pc, buf, caller, done>>

\* The packet is answered and the table has another one: send that.
ChunkAcked(r) ==
    /\ pc = "TxAck" /\ AckStatus(r) = {} /\ chunk < nchunks /\ Survives(r)
    /\ tx_seq' = NextSeq(tx_seq)
    /\ done' = done + 1 /\ answered' = answered + 1
    /\ chunk' = chunk + 1 /\ retries' = 0
    /\ out' = Data(tx_seq', table, chunk')
    /\ UNCHANGED <<connected, rx_seq, waiting_for_ack, terminal_id, op, table, nchunks,
                   pc, ret, buf, caller>>

SentStatus_Unchecked == {}
SentStatus == IF chunk = nchunks THEN {} ELSE {"DISCONNECT"}

\* The last packet is answered, or the answer also hung up the call.
TableSent(r) ==
    /\ pc = "TxAck" /\ AckStatus(r) = {} /\ (chunk = nchunks \/ ~Survives(r))
    /\ connected' = Survives(r)
    /\ tx_seq' = NextSeq(TxSeqAfter(r))
    /\ done' = done + 1 /\ answered' = answered + 1
    /\ Return(SentStatus)
    /\ out' = NoPacket
    /\ UNCHANGED <<rx_seq, terminal_id, callVars, buf, caller>>

\* Not acknowledged: the same packet again, with the same sequence and no RETRY flag.
Retransmit(r) ==
    /\ pc = "TxAck" /\ AckStatus(r) # {} /\ retries < PKT_MAX_RETRIES - 1 /\ Survives(r)
    /\ retries' = retries + 1
    /\ out' = Data(tx_seq, table, chunk)
    /\ UNCHANGED <<connected, tx_seq, rx_seq, waiting_for_ack, terminal_id, op, table,
                   chunk, nchunks, pc, ret, buf, caller, done, answered>>

\* The call dropped before the last attempt: the loop bails out, tx_seq stays reset.
SendDropped(r) ==
    /\ pc = "TxAck" /\ AckStatus(r) # {} /\ retries < PKT_MAX_RETRIES - 1 /\ ~Survives(r)
    /\ LineState(r)
    /\ Return({"DISCONNECT"})
    /\ out' = NoPacket
    /\ UNCHANGED <<rx_seq, terminal_id, callVars, buf, caller, done, answered>>

\* tx_seq moves on past a packet that was never answered, too.
GiveUpSeq_OnlyIfSent(r) == TxSeqAfter(r)
GiveUpSeq(r) == NextSeq(TxSeqAfter(r))

\* The last attempt fails: give up on the packet, and so on the table.
GiveUp(r) ==
    /\ pc = "TxAck" /\ AckStatus(r) # {} /\ retries = PKT_MAX_RETRIES - 1
    /\ connected' = Survives(r)
    /\ tx_seq' = GiveUpSeq(r)
    /\ done' = done + 1
    /\ Return(AckStatus(r) \cup {"FAILURE"})
    /\ out' = NoPacket
    /\ UNCHANGED <<rx_seq, terminal_id, callVars, buf, caller, answered>>

----------------------------------------------------------------------------
(* wait_for_table_ack *)

\* mm_download_tables waits for a table it has sent.
StartTableAck(t) ==
    /\ pc = "Idle" /\ connected /\ Processing
    /\ op = "send" /\ ret = {} /\ table = t
    /\ op' = "tableack" /\ table' = t
    /\ pc' = "TblAck" /\ ret' = {} /\ out' = NoPacket
    /\ chunk' = 0 /\ nchunks' = 0 /\ retries' = 0 /\ answered' = 0
    /\ UNCHANGED <<protoVars, buf, caller, done>>

\* The answer to its last packet was the terminal hanging up.
StartTableAckDown(t) ==
    /\ pc = "Idle" /\ ~connected /\ Processing
    /\ op = "send" /\ ret = {} /\ table = t
    /\ op' = "tableack" /\ table' = t
    /\ ret' \in DownStatus /\ out' = NoPacket
    /\ chunk' = 0 /\ nchunks' = 0 /\ retries' = 0 /\ answered' = 0
    /\ UNCHANGED <<protoVars, pc, buf, caller, done>>

\* The acknowledgement of the awaited table.
TableAcked(r) ==
    /\ pc = "TblAck" /\ Intact(r) /\ r.upd = table
    /\ NoteTerminal
    /\ SendAck("ACK", r.seq)
    /\ Return({})
    /\ UNCHANGED <<connected, tx_seq, callVars, buf, caller, done, answered>>

\* Another table: return -1 and leave it unacknowledged.
WrongTable(r) ==
    /\ pc = "TblAck" /\ Intact(r) /\ r.len = "data" /\ r.upd # table
    /\ NoteTerminal
    /\ rx_seq' = r.seq
    /\ Return({"WRONG_TABLE"})
    /\ out' = NoPacket
    /\ UNCHANGED <<connected, tx_seq, callVars, buf, caller, done, answered>>

\* A packet too short for a table is dropped and the loop goes round.
ShortIgnored(r) ==
    /\ pc = "TblAck" /\ Intact(r) /\ r.len # "data"
    /\ rx_seq' = r.seq
    /\ out' = NoPacket
    /\ UNCHANGED <<connected, tx_seq, waiting_for_ack, terminal_id, callVars, pc, ret,
                   buf, caller, histVars>>

\* A damaged packet or a timeout: ask for a retry and wait for the answer.
AskRetry(r) ==
    /\ pc = "TblAck" /\ ~Intact(r) /\ Survives(r)
    /\ SendAck("RETRY", rx_seq)
    /\ pc' = "TblNak" /\ waiting_for_ack' = TRUE
    /\ LineState(r)
    /\ UNCHANGED <<terminal_id, callVars, ret, buf, caller, done, answered>>

TableAckDown(r) ==
    /\ pc = "TblAck" /\ ~Intact(r) /\ ~Survives(r)
    /\ LineState(r)
    /\ Return(r.status)
    /\ out' = NoPacket
    /\ UNCHANGED <<rx_seq, terminal_id, callVars, buf, caller, done, answered>>

RetryAnswered_Unguarded(r) ==
    /\ pc = "TblNak"
    /\ SendAck("ACK", rx_seq)
    /\ pc' = "TblAck" /\ waiting_for_ack' = FALSE
    /\ LineState(r)
    /\ UNCHANGED <<terminal_id, callVars, ret, buf, caller, done, answered>>

\* Whatever answered, acknowledge it and go round again: retries is never decremented.
RetryAnswered(r) ==
    /\ pc = "TblNak" /\ Survives(r)
    /\ SendAck("ACK", rx_seq)
    /\ pc' = "TblAck" /\ waiting_for_ack' = FALSE
    /\ LineState(r)
    /\ UNCHANGED <<terminal_id, callVars, ret, buf, caller, done, answered>>

\* The answer hung up: the next receive_mm_packet fails at once and the loop breaks.
RetryDown(r) ==
    /\ pc = "TblNak" /\ ~Survives(r)
    /\ LineState(r)
    /\ \E s \in DownStatus : Return(s)
    /\ out' = NoPacket
    /\ UNCHANGED <<rx_seq, terminal_id, callVars, buf, caller, done, answered>>

----------------------------------------------------------------------------
\* receive_mm_packet returns r to the operation blocked in it.
Resume(r) ==
    \/ ReceiveData(r) \/ ReceiveShort(r) \/ ReceiveBad(r) \/ ReceiveDown(r)
    \/ NackAnswered(r)
    \/ ChunkAcked(r) \/ TableSent(r) \/ Retransmit(r) \/ SendDropped(r) \/ GiveUp(r)
    \/ TableAcked(r) \/ WrongTable(r) \/ ShortIgnored(r) \/ AskRetry(r)
    \/ TableAckDown(r) \/ RetryAnswered(r) \/ RetryDown(r)

Client ==
    \/ \E t \in Terminals : Connect(t)
    \/ Disconnect
    \/ StartReceive
    \/ \E t \in Tables, n \in 1..MaxChunks : StartSend(t, n) \/ StartSendDown(t, n)
    \/ \E t \in Tables : StartTableAck(t) \/ StartTableAckDown(t)

Line == pc # "Idle" /\ \E r \in Results : Resume(r)

Next == Client \/ Line

Spec == Init /\ [][Next]_vars

----------------------------------------------------------------------------
(* Properties *)

\* In a call tx_seq counts the data packets the manager is done with, answered or given
\* up, and a packet on the line carries the number of those before it: a retransmission
\* repeats the sequence, the next packet never does, and every call starts from 0,
\* though a call may end with tx_seq at 1 (send_mm_packet increments after the
\* disconnect reset it).
TxSeqNumbersPackets ==
    /\ connected => tx_seq = done % SEQ_MOD
    /\ out.kind = "DATA" => out.seq = done % SEQ_MOD

\* send_mm_table returns success exactly when each packet of the table was answered:
\* no packet after one that failed, no failure when the last answer hangs up.
SendStatusHonest ==
    pc = "Idle" /\ op = "send" => (ret = {} <=> answered = nchunks)

\* What is sent in reply to an intact table goes to the terminal on the line, not to the
\* one of an earlier call that terminal_id still names when this call begins.
RepliesAddressCaller ==
    out.kind = "DATA" /\ buf = "good" => out.to = caller

\* After the packet, the read error or the loss of carrier that hangs up, no operation
\* puts anything more on the line: no ACK, retry request or rest of a table.
SilentWhenDown == out # NoPacket => connected

=============================================================================
