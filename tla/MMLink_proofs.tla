---------------------------- MODULE MMLink_proofs ----------------------------
(***************************************************************************)
(* Machine-checked, for every set of tables and terminals, every number of *)
(* packets in a table and in a call, and with or without carrier           *)
(* monitoring: the safety of the link layer (MMProto); and that over a     *)
(* line that harms fewer packets than the manager has attempts at one,     *)
(* send_mm_table implements the transfer of MMTransfer (MMLink).           *)
(***************************************************************************)
EXTENDS MMLink, SequenceTheorems, TLAPS

----------------------------------------------------------------------------
(* The link layer alone. *)

AckWaits == {"RxNak", "TxAck", "TblNak"}

\* An operation blocks only on a live call, and waiting_for_ack says in which wait.
Blocked ==
    /\ pc # "Idle" => connected
    /\ waiting_for_ack <=> pc \in AckWaits
    /\ pc \in {"RxTable", "RxNak"} => op = "receive"
    /\ pc \in {"TblAck", "TblNak"} => op = "tableack"

\* While send_mm_table runs, the packets before the current one are answered, and the
\* rest of the table fits under the bound on packets.
SendProgress ==
    pc = "TxAck" =>
        /\ op = "send"
        /\ 1 <= chunk /\ chunk <= nchunks
        /\ answered = chunk - 1
        /\ done + (nchunks - chunk) + 1 <= MaxPackets

\* Packets are addressed to terminal_id, and an intact table set it.
Addressing ==
    /\ out.kind = "DATA" => out.to = terminal_id
    /\ buf = "good" => terminal_id = caller

\* The inductive invariant.
IInv ==
    /\ TypeOK
    /\ Blocked
    /\ SendProgress
    /\ Addressing
    /\ TxSeqNumbersPackets
    /\ SendStatusHonest
    /\ SilentWhenDown

----------------------------------------------------------------------------
(* What receive_mm_packet returns. *)

\* The status bits are known ones, the sequence is two bits wide.
LEMMA ResultFields ==
    ASSUME NEW r \in Results
    PROVE  /\ r.status \in Status
           /\ r.seq \in Seqs
           /\ r.upd \in Tables \cup {None}
           /\ AckStatus(r) \in Status
<1>1. CASE r \in SoundResults
  BY <1>1 DEF SoundResults, Status, LowStatus, HighStatus, AckStatus
<1>2. CASE r \in {Result(s, FALSE, 0, "empty", None) : s \in BadStatus}
  <2>1. PICK s \in BadStatus : r = Result(s, FALSE, 0, "empty", None)
    BY <1>2
  <2>2. s \in Status
    <3>1. CASE \E d \in {{"CRC"}, {"FRAMING"}, {"CRC", "FRAMING"}},
                  f \in SUBSET {"RETRY", "DISCONNECT"} : s = d \cup f
      BY <3>1 DEF Status, LowStatus, HighStatus
    <3>2. CASE \E bit \in {"TIMEOUT", "FAILURE"} \cup Carrier : s = {bit}
      BY <3>2 DEF Status, LowStatus, HighStatus, Carrier
    <3> QED
      BY <3>1, <3>2 DEF BadStatus
  <2> QED
    BY <2>1, <2>2 DEF Result, Seqs, SEQ_MOD, AckStatus, Status, LowStatus
<1> QED
  BY <1>1, <1>2 DEF Results

\* Sequence numbers stay in two bits and follow the count of packets.
LEMMA SeqArithmetic ==
    ASSUME NEW n \in Nat
    PROVE  /\ n % SEQ_MOD \in Seqs
           /\ NextSeq(n % SEQ_MOD) = (n + 1) % SEQ_MOD
           /\ \A s \in Seqs : NextSeq(s) \in Seqs
BY DEF SEQ_MOD, Seqs, NextSeq

\* Every packet a step can put on the line is well formed.
LEMMA ControlPacket ==
    ASSUME NEW k \in {"ACK", "NACK", "RETRY"}, NEW s \in Seqs
    PROVE  Control(k, s) \in Packets /\ Control(k, s).kind = k
BY ConstantsAssumption DEF Control, Packet, Packets

LEMMA DataPacket ==
    ASSUME TypeOK, NEW s \in Seqs, NEW t \in Tables \cup {None}, NEW c \in 0..MaxChunks
    PROVE  /\ Data(s, t, c) \in Packets
           /\ Data(s, t, c).kind = "DATA"
           /\ Data(s, t, c).seq = s
           /\ Data(s, t, c).to = terminal_id
BY DEF TypeOK, Data, Packet, Packets

LEMMA Silence ==
    /\ NoPacket \in Packets
    /\ NoPacket.kind = "NONE"
    /\ {} \in Status
    /\ {"DISCONNECT"} \in Status
    /\ {"WRONG_TABLE"} \in Status
    /\ DownStatus \subseteq Status
    /\ 0 \in Seqs
<1>1. 0 \in Seqs
  BY DEF Seqs, SEQ_MOD
<1>2. NoPacket \in Packets /\ NoPacket.kind = "NONE"
  BY <1>1, ConstantsAssumption DEF NoPacket, Packet, Packets
<1>3. {} \in Status /\ {"DISCONNECT"} \in Status /\ {"WRONG_TABLE"} \in Status
  BY DEF Status, LowStatus
<1>4. DownStatus \subseteq Status
  BY DEF DownStatus, Carrier, Status, LowStatus, HighStatus
<1> QED
  BY <1>1, <1>2, <1>3, <1>4

LEMMA InitIInv == Init => IInv
<1> SUFFICES ASSUME Init PROVE IInv
  OBVIOUS
<1> USE ConstantsAssumption
<1>1. TypeOK
  <2>1. 0 \in Seqs /\ 0 \in 0..MaxChunks /\ 0 \in 0..MaxPackets
        /\ 0 \in 0..(PKT_MAX_RETRIES - 1)
    BY DEF Seqs, SEQ_MOD, PKT_MAX_RETRIES
  <2>2. out \in Packets
    BY Silence DEF Init
  <2>3. ret \in Status /\ buf \in Bufs
    BY DEF Init, Status, Bufs
  <2>4. connected \in BOOLEAN /\ waiting_for_ack \in BOOLEAN
    BY DEF Init
  <2> QED
    BY <2>1, <2>2, <2>3, <2>4 DEF Init, TypeOK
<1>2. Blocked /\ SendProgress
  BY DEF Init, Blocked, AckWaits, SendProgress
<1>3. Addressing /\ TxSeqNumbersPackets /\ SendStatusHonest /\ SilentWhenDown
  <2>1. out = NoPacket /\ out.kind = "NONE"
    BY Silence DEF Init
  <2> QED
    BY <2>1 DEF Init, Addressing, TxSeqNumbersPackets, SendStatusHonest, SilentWhenDown
<1> QED
  BY <1>1, <1>2, <1>3 DEF IInv

----------------------------------------------------------------------------
(* receive_mm_table *)

LEMMA ReceiveDataStep ==
    ASSUME IInv, NEW r \in Results, ReceiveData(r)
    PROVE  IInv'
<1> USE DEF IInv, ReceiveData, NoteTerminal, Return, SendAck, callVars
<1>1. TypeOK'
  BY Silence, ControlPacket, ResultFields, SeqArithmetic, ConstantsAssumption
     DEF TypeOK, Bufs, Blocked
<1>2. Blocked' /\ SendProgress'
  BY DEF Blocked, SendProgress, AckWaits
<1>3. Addressing' /\ SilentWhenDown'
  BY Silence, ControlPacket, ResultFields DEF Addressing, SilentWhenDown, TypeOK, Blocked
<1>4. TxSeqNumbersPackets' /\ SendStatusHonest'
  BY Silence, ControlPacket, ResultFields
     DEF TxSeqNumbersPackets, SendStatusHonest, TypeOK, Blocked
<1> QED
  BY <1>1, <1>2, <1>3, <1>4

LEMMA ReceiveShortStep ==
    ASSUME IInv, NEW r \in Results, ReceiveShort(r)
    PROVE  IInv'
<1> USE DEF IInv, ReceiveShort, Return, callVars, histVars
<1>1. TypeOK'
  BY Silence, ResultFields, ConstantsAssumption
     DEF TypeOK, Bufs, Blocked
<1>2. Blocked' /\ SendProgress'
  BY DEF Blocked, SendProgress, AckWaits
<1>3. Addressing' /\ SilentWhenDown'
  BY Silence DEF Addressing, SilentWhenDown, TypeOK, Blocked
<1>4. TxSeqNumbersPackets' /\ SendStatusHonest'
  BY Silence
     DEF TxSeqNumbersPackets, SendStatusHonest, TypeOK, Blocked
<1> QED
  BY <1>1, <1>2, <1>3, <1>4

LEMMA ReceiveBadStep ==
    ASSUME IInv, NEW r \in Results, ReceiveBad(r)
    PROVE  IInv'
<1> USE DEF IInv, ReceiveBad, LineState, Survives, SendAck, callVars, TxSeqAfter
<1>1. TypeOK'
  BY Silence, ControlPacket, ResultFields, SeqArithmetic, ConstantsAssumption
     DEF TypeOK, Bufs, Blocked
<1>2. Blocked' /\ SendProgress'
  BY DEF Blocked, SendProgress, AckWaits
<1>3. Addressing' /\ SilentWhenDown'
  BY Silence, ControlPacket, ResultFields DEF Addressing, SilentWhenDown, TypeOK, Blocked
<1>4. TxSeqNumbersPackets' /\ SendStatusHonest'
  BY Silence, ControlPacket, ResultFields
     DEF TxSeqNumbersPackets, SendStatusHonest, TypeOK, Blocked
<1> QED
  BY <1>1, <1>2, <1>3, <1>4

LEMMA ReceiveDownStep ==
    ASSUME IInv, NEW r \in Results, ReceiveDown(r)
    PROVE  IInv'
<1> USE DEF IInv, ReceiveDown, Return, LineState, Survives, callVars, TxSeqAfter
<1>1. TypeOK'
  BY Silence, ResultFields, ConstantsAssumption
     DEF TypeOK, Bufs, Blocked
<1>2. Blocked' /\ SendProgress'
  BY DEF Blocked, SendProgress, AckWaits
<1>3. Addressing' /\ SilentWhenDown'
  BY Silence DEF Addressing, SilentWhenDown, TypeOK, Blocked
<1>4. TxSeqNumbersPackets' /\ SendStatusHonest'
  BY Silence
     DEF TxSeqNumbersPackets, SendStatusHonest, TypeOK, Blocked
<1> QED
  BY <1>1, <1>2, <1>3, <1>4

LEMMA NackAnsweredStep ==
    ASSUME IInv, NEW r \in Results, NackAnswered(r)
    PROVE  IInv'
<1> USE DEF IInv, NackAnswered, Return, LineState, callVars, Survives, TxSeqAfter
<1>1. TypeOK'
  BY Silence, ResultFields, ConstantsAssumption
     DEF TypeOK, Bufs, Blocked
<1>2. Blocked' /\ SendProgress'
  BY DEF Blocked, SendProgress, AckWaits
<1>3. Addressing' /\ SilentWhenDown'
  BY Silence DEF Addressing, SilentWhenDown, TypeOK, Blocked
<1>4. TxSeqNumbersPackets' /\ SendStatusHonest'
  BY Silence
     DEF TxSeqNumbersPackets, SendStatusHonest, TypeOK, Blocked
<1> QED
  BY <1>1, <1>2, <1>3, <1>4

LEMMA TableAckedStep ==
    ASSUME IInv, NEW r \in Results, TableAcked(r)
    PROVE  IInv'
<1> USE DEF IInv, TableAcked, NoteTerminal, Return, SendAck, callVars
<1>1. TypeOK'
  BY Silence, ControlPacket, ResultFields, SeqArithmetic, ConstantsAssumption
     DEF TypeOK, Bufs, Blocked
<1>2. Blocked' /\ SendProgress'
  BY DEF Blocked, SendProgress, AckWaits
<1>3. Addressing' /\ SilentWhenDown'
  BY Silence, ControlPacket, ResultFields DEF Addressing, SilentWhenDown, TypeOK, Blocked
<1>4. TxSeqNumbersPackets' /\ SendStatusHonest'
  BY Silence, ControlPacket, ResultFields
     DEF TxSeqNumbersPackets, SendStatusHonest, TypeOK, Blocked
<1> QED
  BY <1>1, <1>2, <1>3, <1>4

LEMMA WrongTableStep ==
    ASSUME IInv, NEW r \in Results, WrongTable(r)
    PROVE  IInv'
<1> USE DEF IInv, WrongTable, NoteTerminal, Return, callVars
<1>1. TypeOK'
  BY Silence, ResultFields, ConstantsAssumption
     DEF TypeOK, Bufs, Blocked
<1>2. Blocked' /\ SendProgress'
  BY DEF Blocked, SendProgress, AckWaits
<1>3. Addressing' /\ SilentWhenDown'
  BY Silence DEF Addressing, SilentWhenDown, TypeOK, Blocked
<1>4. TxSeqNumbersPackets' /\ SendStatusHonest'
  BY Silence
     DEF TxSeqNumbersPackets, SendStatusHonest, TypeOK, Blocked
<1> QED
  BY <1>1, <1>2, <1>3, <1>4

LEMMA ShortIgnoredStep ==
    ASSUME IInv, NEW r \in Results, ShortIgnored(r)
    PROVE  IInv'
<1> USE DEF IInv, ShortIgnored, callVars, histVars
<1>1. TypeOK'
  BY Silence, ResultFields, ConstantsAssumption
     DEF TypeOK, Bufs, Blocked
<1>2. Blocked' /\ SendProgress'
  BY DEF Blocked, SendProgress, AckWaits
<1>3. Addressing' /\ SilentWhenDown'
  BY Silence DEF Addressing, SilentWhenDown, TypeOK, Blocked
<1>4. TxSeqNumbersPackets' /\ SendStatusHonest'
  BY Silence
     DEF TxSeqNumbersPackets, SendStatusHonest, TypeOK, Blocked
<1> QED
  BY <1>1, <1>2, <1>3, <1>4

LEMMA AskRetryStep ==
    ASSUME IInv, NEW r \in Results, AskRetry(r)
    PROVE  IInv'
<1> USE DEF IInv, AskRetry, LineState, Survives, SendAck, callVars, TxSeqAfter
<1>1. TypeOK'
  BY Silence, ControlPacket, ResultFields, SeqArithmetic, ConstantsAssumption
     DEF TypeOK, Bufs, Blocked
<1>2. Blocked' /\ SendProgress'
  BY DEF Blocked, SendProgress, AckWaits
<1>3. Addressing' /\ SilentWhenDown'
  BY Silence, ControlPacket, ResultFields DEF Addressing, SilentWhenDown, TypeOK, Blocked
<1>4. TxSeqNumbersPackets' /\ SendStatusHonest'
  BY Silence, ControlPacket, ResultFields
     DEF TxSeqNumbersPackets, SendStatusHonest, TypeOK, Blocked
<1> QED
  BY <1>1, <1>2, <1>3, <1>4

LEMMA TableAckDownStep ==
    ASSUME IInv, NEW r \in Results, TableAckDown(r)
    PROVE  IInv'
<1> USE DEF IInv, TableAckDown, Return, LineState, Survives, callVars, TxSeqAfter
<1>1. TypeOK'
  BY Silence, ResultFields, ConstantsAssumption
     DEF TypeOK, Bufs, Blocked
<1>2. Blocked' /\ SendProgress'
  BY DEF Blocked, SendProgress, AckWaits
<1>3. Addressing' /\ SilentWhenDown'
  BY Silence DEF Addressing, SilentWhenDown, TypeOK, Blocked
<1>4. TxSeqNumbersPackets' /\ SendStatusHonest'
  BY Silence
     DEF TxSeqNumbersPackets, SendStatusHonest, TypeOK, Blocked
<1> QED
  BY <1>1, <1>2, <1>3, <1>4

LEMMA RetryAnsweredStep ==
    ASSUME IInv, NEW r \in Results, RetryAnswered(r)
    PROVE  IInv'
<1> USE DEF IInv, RetryAnswered, LineState, Survives, SendAck, callVars, TxSeqAfter
<1>1. TypeOK'
  BY Silence, ControlPacket, ResultFields, SeqArithmetic, ConstantsAssumption
     DEF TypeOK, Bufs, Blocked
<1>2. Blocked' /\ SendProgress'
  BY DEF Blocked, SendProgress, AckWaits
<1>3. Addressing' /\ SilentWhenDown'
  BY Silence, ControlPacket, ResultFields DEF Addressing, SilentWhenDown, TypeOK, Blocked
<1>4. TxSeqNumbersPackets' /\ SendStatusHonest'
  BY Silence, ControlPacket, ResultFields
     DEF TxSeqNumbersPackets, SendStatusHonest, TypeOK, Blocked
<1> QED
  BY <1>1, <1>2, <1>3, <1>4

LEMMA RetryDownStep ==
    ASSUME IInv, NEW r \in Results, RetryDown(r)
    PROVE  IInv'
<1> USE DEF IInv, RetryDown, Return, LineState, Survives, callVars, TxSeqAfter
<1>1. TypeOK'
  BY Silence, ResultFields, ConstantsAssumption
     DEF TypeOK, Bufs, Blocked
<1>2. Blocked' /\ SendProgress'
  BY DEF Blocked, SendProgress, AckWaits
<1>3. Addressing' /\ SilentWhenDown'
  BY Silence DEF Addressing, SilentWhenDown, TypeOK, Blocked
<1>4. TxSeqNumbersPackets' /\ SendStatusHonest'
  BY Silence
     DEF TxSeqNumbersPackets, SendStatusHonest, TypeOK, Blocked
<1> QED
  BY <1>1, <1>2, <1>3, <1>4

\* The answers to a data packet move tx_seq and the count of packets together.
LEMMA AfterPacket ==
    ASSUME IInv, pc = "TxAck"
    PROVE  /\ tx_seq = done % SEQ_MOD
           /\ NextSeq(tx_seq) = (done + 1) % SEQ_MOD
           /\ NextSeq(tx_seq) \in Seqs /\ NextSeq(0) \in Seqs
           /\ done + 1 \in 0..MaxPackets
           /\ answered + 1 \in 0..MaxChunks
           /\ chunk \in 1..nchunks
           /\ nchunks \in 1..MaxChunks
<1>1. connected
  BY DEF IInv, Blocked
<1>2. tx_seq = done % SEQ_MOD /\ done \in Nat
  BY <1>1 DEF IInv, TypeOK, TxSeqNumbersPackets
<1>3. done + 1 \in 0..MaxPackets /\ answered + 1 \in 0..MaxChunks
      /\ chunk \in 1..nchunks /\ nchunks \in 1..MaxChunks
  BY ConstantsAssumption DEF IInv, TypeOK, SendProgress
<1> QED
  BY <1>2, <1>3, SeqArithmetic, Silence

LEMMA ChunkAckedStep ==
    ASSUME IInv, NEW r \in Results, ChunkAcked(r)
    PROVE  IInv'
<1> USE DEF ChunkAcked
<1>1. /\ out' \in Packets
      /\ out'.kind = "DATA" /\ out'.seq = tx_seq' /\ out'.to = terminal_id
  <2>1. chunk' \in 0..MaxChunks /\ table \in Tables \cup {None} /\ tx_seq' \in Seqs
    BY AfterPacket, ConstantsAssumption DEF IInv, TypeOK
  <2> QED
    BY <2>1, DataPacket DEF IInv
<1>2. TypeOK'
  BY <1>1, AfterPacket, ConstantsAssumption DEF IInv, TypeOK, PKT_MAX_RETRIES
<1>3. Blocked' /\ SendProgress'
  BY AfterPacket, ConstantsAssumption DEF IInv, Blocked, SendProgress, AckWaits, TypeOK
<1>4. Addressing' /\ SilentWhenDown' /\ SendStatusHonest'
  BY <1>1 DEF IInv, Addressing, SilentWhenDown, SendStatusHonest, Blocked, Survives
<1>5. TxSeqNumbersPackets'
  BY <1>1, AfterPacket DEF IInv, TxSeqNumbersPackets
<1> QED
  BY <1>2, <1>3, <1>4, <1>5 DEF IInv

LEMMA RetransmitStep ==
    ASSUME IInv, NEW r \in Results, Retransmit(r)
    PROVE  IInv'
<1> USE DEF Retransmit
<1>1. /\ out' \in Packets
      /\ out'.kind = "DATA" /\ out'.seq = tx_seq /\ out'.to = terminal_id
  <2>1. chunk \in 0..MaxChunks /\ table \in Tables \cup {None} /\ tx_seq \in Seqs
    BY AfterPacket, ConstantsAssumption DEF IInv, TypeOK
  <2> QED
    BY <2>1, DataPacket DEF IInv
<1>2. TypeOK'
  BY <1>1, AfterPacket, ConstantsAssumption DEF IInv, TypeOK, PKT_MAX_RETRIES
<1>3. Blocked' /\ SendProgress'
  BY AfterPacket, ConstantsAssumption DEF IInv, Blocked, SendProgress, AckWaits, TypeOK
<1>4. Addressing' /\ SilentWhenDown' /\ SendStatusHonest'
  BY <1>1 DEF IInv, Addressing, SilentWhenDown, SendStatusHonest, Blocked, Survives
<1>5. TxSeqNumbersPackets'
  BY <1>1, AfterPacket DEF IInv, TxSeqNumbersPackets
<1> QED
  BY <1>2, <1>3, <1>4, <1>5 DEF IInv

LEMMA TableSentStep ==
    ASSUME IInv, NEW r \in Results, TableSent(r)
    PROVE  IInv'
<1> USE DEF TableSent, SentStatus, Return, callVars
<1>1. TypeOK'
  <2>1. ret' \in Status
    BY ResultFields, Silence DEF Status, HighStatus
  <2>2. tx_seq' \in Seqs /\ connected' \in BOOLEAN
    BY AfterPacket, Silence DEF IInv, TypeOK, TxSeqAfter, Survives, LineState
  <2> QED
    BY <2>1, <2>2, AfterPacket, Silence DEF IInv, TypeOK
<1>2. Blocked' /\ SendProgress' /\ SilentWhenDown'
  BY DEF IInv, Blocked, SendProgress, AckWaits, SilentWhenDown
<1>3. Addressing'
  BY Silence DEF IInv, Addressing
<1>4. SendStatusHonest'
  BY AfterPacket DEF IInv, SendStatusHonest, SendProgress, TypeOK
<1>5. TxSeqNumbersPackets'
  BY AfterPacket, Silence DEF IInv, TxSeqNumbersPackets, TxSeqAfter, Survives, LineState
<1> QED
  BY <1>1, <1>2, <1>3, <1>4, <1>5 DEF IInv

LEMMA SendDroppedStep ==
    ASSUME IInv, NEW r \in Results, SendDropped(r)
    PROVE  IInv'
<1> USE DEF SendDropped, Return, callVars
<1>1. TypeOK'
  <2>1. ret' \in Status
    BY ResultFields, Silence DEF Status, HighStatus
  <2>2. tx_seq' \in Seqs /\ connected' \in BOOLEAN
    BY AfterPacket, Silence DEF IInv, TypeOK, TxSeqAfter, Survives, LineState
  <2> QED
    BY <2>1, <2>2, AfterPacket, Silence DEF IInv, TypeOK
<1>2. Blocked' /\ SendProgress' /\ SilentWhenDown'
  BY DEF IInv, Blocked, SendProgress, AckWaits, SilentWhenDown
<1>3. Addressing'
  BY Silence DEF IInv, Addressing
<1>4. SendStatusHonest'
  BY AfterPacket DEF IInv, SendStatusHonest, SendProgress, TypeOK
<1>5. TxSeqNumbersPackets'
  BY AfterPacket, Silence DEF IInv, TxSeqNumbersPackets, TxSeqAfter, Survives, LineState
<1> QED
  BY <1>1, <1>2, <1>3, <1>4, <1>5 DEF IInv

LEMMA GiveUpStep ==
    ASSUME IInv, NEW r \in Results, GiveUp(r)
    PROVE  IInv'
<1> USE DEF GiveUp, GiveUpSeq, Return, callVars
<1>1. TypeOK'
  <2>1. ret' \in Status
    BY ResultFields, Silence DEF Status, HighStatus
  <2>2. tx_seq' \in Seqs /\ connected' \in BOOLEAN
    BY AfterPacket, Silence DEF IInv, TypeOK, TxSeqAfter, Survives, LineState
  <2> QED
    BY <2>1, <2>2, AfterPacket, Silence DEF IInv, TypeOK
<1>2. Blocked' /\ SendProgress' /\ SilentWhenDown'
  BY DEF IInv, Blocked, SendProgress, AckWaits, SilentWhenDown
<1>3. Addressing'
  BY Silence DEF IInv, Addressing
<1>4. SendStatusHonest'
  BY AfterPacket DEF IInv, SendStatusHonest, SendProgress, TypeOK
<1>5. TxSeqNumbersPackets'
  BY AfterPacket, Silence DEF IInv, TxSeqNumbersPackets, TxSeqAfter, Survives, LineState
<1> QED
  BY <1>1, <1>2, <1>3, <1>4, <1>5 DEF IInv

LEMMA StartSendStep ==
    ASSUME IInv, NEW t \in Tables, NEW n \in 1..MaxChunks, StartSend(t, n)
    PROVE  IInv'
<1> USE DEF StartSend
<1>1. /\ out' \in Packets
      /\ out'.kind = "DATA" /\ out'.seq = tx_seq /\ out'.to = terminal_id
  <2>1. 1 \in 0..MaxChunks /\ tx_seq \in Seqs
    BY ConstantsAssumption DEF IInv, TypeOK
  <2> QED
    BY <2>1, DataPacket DEF IInv
<1>2. TypeOK'
  BY <1>1, Silence, ConstantsAssumption DEF IInv, TypeOK, PKT_MAX_RETRIES
<1>3. Blocked' /\ SendProgress'
  BY ConstantsAssumption DEF IInv, Blocked, SendProgress, AckWaits, TypeOK
<1>4. Addressing' /\ SilentWhenDown' /\ SendStatusHonest'
  BY <1>1 DEF IInv, Addressing, SilentWhenDown, SendStatusHonest
<1>5. TxSeqNumbersPackets'
  BY <1>1 DEF IInv, TxSeqNumbersPackets
<1> QED
  BY <1>2, <1>3, <1>4, <1>5 DEF IInv

LEMMA StartSendDownStep ==
    ASSUME IInv, NEW t \in Tables, NEW n \in 1..MaxChunks, StartSendDown(t, n)
    PROVE  IInv'
<1> USE DEF IInv, StartSendDown, protoVars
<1>1. TypeOK'
  BY Silence, ConstantsAssumption
     DEF TypeOK, Bufs, Blocked, PKT_MAX_RETRIES
<1>2. Blocked' /\ SendProgress'
  BY DEF Blocked, SendProgress, AckWaits
<1>3. Addressing' /\ SilentWhenDown'
  BY Silence DEF Addressing, SilentWhenDown, TypeOK, Blocked
<1>4. TxSeqNumbersPackets' /\ SendStatusHonest'
  BY Silence
     DEF TxSeqNumbersPackets, SendStatusHonest, TypeOK, Blocked
<1> QED
  BY <1>1, <1>2, <1>3, <1>4

LEMMA StartTableAckStep ==
    ASSUME IInv, NEW t \in Tables, StartTableAck(t)
    PROVE  IInv'
<1> USE DEF IInv, StartTableAck, protoVars
<1>1. TypeOK'
  BY Silence, ConstantsAssumption
     DEF TypeOK, Bufs, Blocked, PKT_MAX_RETRIES
<1>2. Blocked' /\ SendProgress'
  BY DEF Blocked, SendProgress, AckWaits
<1>3. Addressing' /\ SilentWhenDown'
  BY Silence DEF Addressing, SilentWhenDown, TypeOK, Blocked
<1>4. TxSeqNumbersPackets' /\ SendStatusHonest'
  BY Silence
     DEF TxSeqNumbersPackets, SendStatusHonest, TypeOK, Blocked
<1> QED
  BY <1>1, <1>2, <1>3, <1>4

LEMMA StartTableAckDownStep ==
    ASSUME IInv, NEW t \in Tables, StartTableAckDown(t)
    PROVE  IInv'
<1> USE DEF IInv, StartTableAckDown, protoVars
<1>1. TypeOK'
  BY Silence, ConstantsAssumption
     DEF TypeOK, Bufs, Blocked, PKT_MAX_RETRIES
<1>2. Blocked' /\ SendProgress'
  BY DEF Blocked, SendProgress, AckWaits
<1>3. Addressing' /\ SilentWhenDown'
  BY Silence DEF Addressing, SilentWhenDown, TypeOK, Blocked
<1>4. TxSeqNumbersPackets' /\ SendStatusHonest'
  BY Silence
     DEF TxSeqNumbersPackets, SendStatusHonest, TypeOK, Blocked
<1> QED
  BY <1>1, <1>2, <1>3, <1>4

LEMMA ConnectStep ==
    ASSUME IInv, NEW t \in Terminals, Connect(t)
    PROVE  IInv'
<1> USE DEF Connect, NoLocals
<1>1. TypeOK'
  BY Silence, ConstantsAssumption DEF IInv, TypeOK, Bufs, PKT_MAX_RETRIES
<1>2. Blocked' /\ SendProgress'
  BY DEF IInv, Blocked, SendProgress, AckWaits
<1>3. Addressing' /\ SilentWhenDown' /\ SendStatusHonest'
  BY Silence DEF Addressing, SilentWhenDown, SendStatusHonest
<1>4. TxSeqNumbersPackets'
  BY Silence DEF TxSeqNumbersPackets, SEQ_MOD
<1> QED
  BY <1>1, <1>2, <1>3, <1>4 DEF IInv

LEMMA DisconnectStep ==
    ASSUME IInv, Disconnect
    PROVE  IInv'
<1> USE DEF Disconnect, NoLocals
<1>1. TypeOK'
  <2>1. 0 \in 0..MaxChunks /\ 0 \in 0..(PKT_MAX_RETRIES - 1) /\ "none" \in Bufs
    BY ConstantsAssumption DEF Bufs, PKT_MAX_RETRIES
  <2> QED
    BY <2>1, Silence DEF IInv, TypeOK
<1>2. Blocked' /\ SendProgress'
  BY DEF IInv, Blocked, SendProgress, AckWaits
<1>3. Addressing' /\ SilentWhenDown' /\ SendStatusHonest'
  BY Silence DEF Addressing, SilentWhenDown, SendStatusHonest
<1>4. TxSeqNumbersPackets'
  BY Silence DEF TxSeqNumbersPackets, SEQ_MOD
<1> QED
  BY <1>1, <1>2, <1>3, <1>4 DEF IInv

LEMMA StartReceiveStep ==
    ASSUME IInv, StartReceive
    PROVE  IInv'
<1> USE DEF IInv, StartReceive, NoLocals, protoVars
<1>1. TypeOK'
  BY Silence, ConstantsAssumption
     DEF TypeOK, Bufs, Blocked, PKT_MAX_RETRIES
<1>2. Blocked' /\ SendProgress'
  BY DEF Blocked, SendProgress, AckWaits
<1>3. Addressing' /\ SilentWhenDown'
  BY Silence DEF Addressing, SilentWhenDown, TypeOK, Blocked
<1>4. TxSeqNumbersPackets' /\ SendStatusHonest'
  BY Silence
     DEF TxSeqNumbersPackets, SendStatusHonest, TypeOK, Blocked
<1> QED
  BY <1>1, <1>2, <1>3, <1>4

----------------------------------------------------------------------------
(* Every step, and the theorems. *)

LEMMA NextIInv == IInv /\ [Next]_vars => IInv'
<1> SUFFICES ASSUME IInv, [Next]_vars PROVE IInv'
  OBVIOUS
<1>1. CASE Client
  <2>1. ASSUME NEW t \in Terminals, Connect(t) PROVE IInv'
    BY <2>1, ConnectStep
  <2>2. CASE Disconnect
    BY <2>2, DisconnectStep
  <2>3. CASE StartReceive
    BY <2>3, StartReceiveStep
  <2>4. ASSUME NEW t \in Tables, NEW n \in 1..MaxChunks,
               StartSend(t, n) \/ StartSendDown(t, n)
        PROVE  IInv'
    BY <2>4, StartSendStep, StartSendDownStep
  <2>5. ASSUME NEW t \in Tables, StartTableAck(t) \/ StartTableAckDown(t) PROVE IInv'
    BY <2>5, StartTableAckStep, StartTableAckDownStep
  <2> QED
    BY <1>1, <2>1, <2>2, <2>3, <2>4, <2>5 DEF Client
<1>2. CASE Line
  <2>1. PICK r \in Results : Resume(r)
    BY <1>2 DEF Line
  <2>2. CASE ReceiveData(r) \/ ReceiveShort(r) \/ ReceiveBad(r) \/ ReceiveDown(r)
             \/ NackAnswered(r)
    BY <2>2, ReceiveDataStep, ReceiveShortStep, ReceiveBadStep, ReceiveDownStep,
       NackAnsweredStep
  <2>3. CASE ChunkAcked(r) \/ TableSent(r) \/ Retransmit(r) \/ SendDropped(r) \/ GiveUp(r)
    BY <2>3, ChunkAckedStep, TableSentStep, RetransmitStep, SendDroppedStep, GiveUpStep
  <2>4. CASE TableAcked(r) \/ WrongTable(r) \/ ShortIgnored(r) \/ AskRetry(r)
             \/ TableAckDown(r) \/ RetryAnswered(r) \/ RetryDown(r)
    BY <2>4, TableAckedStep, WrongTableStep, ShortIgnoredStep, AskRetryStep,
       TableAckDownStep, RetryAnsweredStep, RetryDownStep
  <2> QED
    BY <2>1, <2>2, <2>3, <2>4 DEF Resume
<1>3. CASE UNCHANGED vars
  BY <1>3 DEF vars, protoVars, callVars, histVars, IInv, TypeOK, Blocked, SendProgress,
     Addressing, TxSeqNumbersPackets, SendStatusHonest, SilentWhenDown
<1> QED
  BY <1>1, <1>2, <1>3 DEF Next

THEOREM InductiveInvariant == Spec => []IInv
BY InitIInv, NextIInv, PTL DEF Spec

\* The variables keep the types of the code's fields, and retries and tables their bounds.
THEOREM TypeCorrect == Spec => []TypeOK
<1>1. IInv => TypeOK
  BY DEF IInv
<1> QED
  BY <1>1, InductiveInvariant, PTL

\* A retransmission repeats the sequence of its packet, a new packet takes the next, and
\* each call begins at 0.
THEOREM SequencesNumberPackets == Spec => []TxSeqNumbersPackets
<1>1. IInv => TxSeqNumbersPackets
  BY DEF IInv
<1> QED
  BY <1>1, InductiveInvariant, PTL

\* send_mm_table returns success exactly when every packet of the table was answered.
THEOREM SendStatusIsHonest == Spec => []SendStatusHonest
<1>1. IInv => SendStatusHonest
  BY DEF IInv
<1> QED
  BY <1>1, InductiveInvariant, PTL

\* A reply to an intact table goes to the terminal of this call.
THEOREM RepliesReachCaller == Spec => []RepliesAddressCaller
<1>1. IInv => RepliesAddressCaller
  BY DEF IInv, Addressing, RepliesAddressCaller
<1> QED
  BY <1>1, InductiveInvariant, PTL

\* Nothing is sent on a call that is down.
THEOREM NothingSentWhenDown == Spec => []SilentWhenDown
<1>1. IInv => SilentWhenDown
  BY DEF IInv
<1> QED
  BY <1>1, InductiveInvariant, PTL

----------------------------------------------------------------------------
(* The manager, the terminal and the line. *)

\* The line does less harm to a packet than send_mm_table makes attempts at it.
FewFaults == MaxFaults < PKT_MAX_RETRIES

----------------------------------------------------------------------------
(* The inductive invariant. *)

\* What cannot come to count as an acknowledgement of the manager's packet.
BadData == {p \in LinePackets : p.pkt = "DATA" /\ ~p.ok}
BadResults == {r \in Results : AckStatus(r) # {}}

\* How many of the at most two packets of a queue are in S.
At(q, i, S) == IF i <= Len(q) /\ q[i] \in S THEN 1 ELSE 0
Count(q, S) == At(q, 1, S) + At(q, 2, S)

\* The terminal has accepted the manager's packet.
Accepted == lastseq = tx_seq

\* The terminal acknowledges the table right behind the packet.
IsLast(t, c) == t \notin Replies /\ c = MaxChunks

AllAre(kinds) == \A i \in 1..Len(toTerm) : toTerm[i].pkt \in kinds

\* A dead line carries nothing; between calls of the client the rest is as they left it.
Calm ==
    /\ ~connected => toTerm = <<>> /\ toMgr = <<>>
    /\ op = "none" => buf = "none"
    /\ connected /\ pc = "Idle" /\ op = "send" => ret = {}

\* The table that send_mm_table is sending, and how much of it the terminal has.
Progress ==
    pc = "TxAck" =>
        /\ table \in Tables /\ nchunks = SizeOf(table)
        /\ got = [i \in 1..(IF Accepted THEN chunk ELSE chunk - 1) |-> <<table, i>>]

\* All data packets on the line are the current one, until the client calls again a
\* retransmission of it; and the terminal takes those for one.
Current ==
    connected => \A i \in 1..Len(toTerm) : toTerm[i].pkt = "DATA" =>
        IF pc = "TxAck"
        THEN toTerm[i].seq = tx_seq /\ toTerm[i].table = table /\ toTerm[i].chunk = chunk
        ELSE toTerm[i].seq = lastseq

\* Before the terminal accepts the packet nothing on its way acknowledges it; the manager's
\* own acknowledgement of a packet of the terminal may still be in front of it.
Unaccepted ==
    pc = "TxAck" /\ ~Accepted =>
        /\ toMgr # <<>> => toTerm = <<>> /\ Len(toMgr) = 1 /\ toMgr[1] \in BadResults
        /\ Len(toTerm) <= 2
        /\ AllAre({"ACK", "DATA"})
        /\ Len(toTerm) = 2 => toTerm[1].pkt = "ACK" /\ toTerm[2].pkt = "DATA"

\* Once it has, the packets on the line are retransmissions and answers to them.
Answered ==
    pc = "TxAck" /\ Accepted =>
        /\ AllAre({"DATA"})
        /\ Len(toTerm) + Len(toMgr) <= IF IsLast(table, chunk) THEN 2 ELSE 1

\* Each attempt but the present one failed by a fault of its own, and so did the present
\* one when nothing is left of it.
Paid ==
    pc = "TxAck" =>
        /\ retries + Count(toTerm, BadData) + Count(toMgr, BadResults) <= faults
        /\ toMgr = <<>> /\ AllAre(Kinds \ {"DATA"}) => retries + 1 <= faults

\* Between two packets at most one packet is on the line, and none that could be taken for
\* an answer when the next table starts.
Settled == pc = "Idle" /\ op # "none" /\ (op = "send" => table \in Replies)
Between ==
    connected /\ pc # "TxAck" =>
        /\ ~Accepted
        /\ Len(toTerm) + Len(toMgr) <= 1
        /\ Settled => toMgr = <<>> /\ AllAre({"ACK"})

\* The inductive invariant: that of MMProto, and what is on the line.
LineInv ==
    /\ LinkTypeOK
    /\ Calm
    /\ Progress
    /\ Current
    /\ Unaccepted
    /\ Answered
    /\ Paid
    /\ Between
    /\ SuccessMeansDelivered

LinkIInv == IInv /\ LineInv

----------------------------------------------------------------------------
(* Queues of at most two packets. *)

LEMMA SmallNumbers == \A n \in Nat : (n <= 1 => n \in 0..1) /\ (n <= 2 => n \in 0..2)
OBVIOUS

LEMMA SmallLengths ==
    /\ \A n \in 0..1 : n \in Nat /\ n <= 1
    /\ \A n \in Nat \ {0} : n <= 2 => n \in 1..2 /\ 1 \in 1..n
OBVIOUS

LEMMA TailOf ==
    ASSUME NEW T, NEW q \in Seq(T), q # <<>>
    PROVE  /\ Len(q) \in Nat \ {0}
           /\ Head(q) = q[1] /\ Head(q) \in T
           /\ Tail(q) \in Seq(T)
           /\ Len(Tail(q)) = Len(q) - 1
           /\ \A i \in 1..(Len(q) - 1) : Tail(q)[i] = q[i + 1]
           /\ \A i \in 1..Len(Tail(q)) : i + 1 \in 1..Len(q) /\ Tail(q)[i] = q[i + 1]
<1>1. Len(q) \in Nat \ {0}
  BY EmptySeq
<1>2. Head(q) = q[1] /\ Head(q) \in T /\ Tail(q) \in Seq(T) /\ Len(Tail(q)) = Len(q) - 1
      /\ \A i \in 1..Len(Tail(q)) : Tail(q)[i] = q[i + 1]
  BY HeadTailProperties
<1> QED
  BY <1>1, <1>2

LEMMA AppendTo ==
    ASSUME NEW T, NEW q \in Seq(T), NEW e \in T
    PROVE  /\ Append(q, e) \in Seq(T)
           /\ Append(q, e) # <<>>
           /\ Len(q) \in Nat
           /\ Len(Append(q, e)) = Len(q) + 1
           /\ \A i \in 1..Len(q) : Append(q, e)[i] = q[i]
           /\ Append(q, e)[Len(q) + 1] = e
           /\ \A i \in 1..Len(Append(q, e)) :
                  (i \in 1..Len(q) /\ Append(q, e)[i] = q[i]) \/ Append(q, e)[i] = e
<1>1. Len(q) \in Nat
  BY LenProperties
<1>2. Append(q, e) \in Seq(T) /\ Append(q, e) # <<>> /\ Len(Append(q, e)) = Len(q) + 1
      /\ \A i \in 1..Len(q) : Append(q, e)[i] = q[i]
      /\ Append(q, e)[Len(q) + 1] = e
  BY AppendProperties
<1> QED
  BY <1>1, <1>2

LEMMA Empty == Len(<<>>) = 0 /\ \A T : <<>> \in Seq(T)
BY EmptySeq

LEMMA CountType ==
    ASSUME NEW q, NEW S
    PROVE  Count(q, S) \in 0..2
BY DEF Count, At

LEMMA CountEmpty == \A S : Count(<<>>, S) = 0
BY Empty DEF Count, At

LEMMA CountTail ==
    ASSUME NEW T, NEW S, NEW q \in Seq(T), q # <<>>, Len(q) <= 2
    PROVE  Count(Tail(q), S) = Count(q, S) - (IF Head(q) \in S THEN 1 ELSE 0)
<1> DEFINE t == Tail(q)
<1>1. /\ Len(q) \in Nat \ {0} /\ Head(q) = q[1] /\ Len(t) = Len(q) - 1
      /\ \A i \in 1..(Len(q) - 1) : t[i] = q[i + 1]
  BY TailOf, Zenon
<1> HIDE DEF t
<1>2. Len(q) = 1 \/ Len(q) = 2
  BY ONLY <1>1, Len(q) <= 2
<1>3. CASE Len(q) = 1
  <2>1. Len(t) = 0
    BY ONLY <1>1, <1>3
  <2>2. At(t, 1, S) = 0 /\ At(t, 2, S) = 0 /\ At(q, 2, S) = 0
    BY ONLY <1>3, <2>1 DEF At
  <2>3. At(q, 1, S) = IF q[1] \in S THEN 1 ELSE 0
    BY ONLY <1>3 DEF At
  <2> QED
    BY ONLY <1>1, <2>2, <2>3 DEF Count, t
<1>4. CASE Len(q) = 2
  <2>1. Len(t) = 1 /\ t[1] = q[2]
    BY ONLY <1>1, <1>4
  <2>2. At(t, 1, S) = At(q, 2, S) /\ At(t, 2, S) = 0
    BY ONLY <1>4, <2>1 DEF At
  <2>3. At(q, 1, S) = IF q[1] \in S THEN 1 ELSE 0
    BY ONLY <1>4 DEF At
  <2>4. At(q, 2, S) \in Nat
    BY ONLY DEF At
  <2> QED
    BY ONLY <1>1, <2>2, <2>3, <2>4 DEF Count, t
<1> QED
  BY ONLY <1>2, <1>3, <1>4

LEMMA CountAppend ==
    ASSUME NEW T, NEW S, NEW q \in Seq(T), NEW e \in T, Len(q) <= 1
    PROVE  Count(Append(q, e), S) = Count(q, S) + (IF e \in S THEN 1 ELSE 0)
<1> DEFINE a == Append(q, e)
<1>1. Len(q) \in Nat /\ Len(a) = Len(q) + 1 /\ a[Len(q) + 1] = e
  BY AppendTo
<1>a. \A i \in 1..Len(q) : a[i] = q[i]
  BY AppendTo
<1> HIDE DEF a
<1>2. Len(q) = 0 \/ Len(q) = 1
  <2> DEFINE n == Len(q)
  <2>1. n \in Nat /\ n <= 1
    BY <1>1
  <2> HIDE DEF n
  <2>2. n = 0 \/ n = 1
    BY ONLY <2>1
  <2> QED
    BY <2>2 DEF n
<1>3. CASE Len(q) = 0
  <2>1. Len(a) = 1 /\ a[1] = e
    BY ONLY <1>1, <1>3
  <2> QED
    BY ONLY <1>3, <2>1 DEF Count, At, a
<1>4. CASE Len(q) = 1
  <2>1. Len(a) = 2 /\ a[1] = q[1] /\ a[2] = e
    BY ONLY <1>1, <1>a, <1>4
  <2> QED
    BY ONLY <1>4, <2>1 DEF Count, At, a
<1> QED
  BY ONLY <1>2, <1>3, <1>4

----------------------------------------------------------------------------
(* Arithmetic of attempts (a), faults before and after (f, f2), and bad packets among two. *)

LEMMA FaultSum ==
    \A a, f, f2 \in Nat : \A t, t2, n \in 0..2 :
        a + 1 + t + n <= f =>
            /\ f + t2 <= f2 + t => a + 1 + t2 + n <= f2
            /\ f + 1 <= f2 => a + 1 + 1 <= f2
OBVIOUS

LEMMA FirstFaults ==
    \A b, f \in Nat : \A t \in 0..2 :
        /\ b + t <= f + 0 => 0 + t + 0 <= f
        /\ b + 1 <= f => 0 + 1 <= f
OBVIOUS

LEMMA ChunkNumber ==
    \A m \in Nat : \A c \in 0..m : 1 <= c => c \in 1..m /\ c - 1 \in 0..m
OBVIOUS

----------------------------------------------------------------------------
(* What goes over the line. *)

LEMMA Answers ==
    ASSUME NEW s \in Seqs, NEW u \in Tables \cup {None}
    PROVE  /\ TermAck(s) \in Results /\ TermNack(s) \in Results
           /\ TermData(s, u) \in Results /\ Damaged \in Results
           /\ Damaged \in BadResults /\ TermNack(s) \in BadResults
           /\ TermAck(s) \notin BadResults /\ TermData(s, u) \notin BadResults
<1>1. TermAck(s) \in SoundResults
  BY DEF TermAck, Result, SoundResults, Lens
<1>2. TermNack(s) \in SoundResults
  BY DEF TermNack, Result, SoundResults, Lens
<1>3. TermData(s, u) \in SoundResults
  BY DEF TermData, Result, SoundResults, Lens
<1>4. {"CRC"} \in BadStatus
  <2> DEFINE Harms == {{"CRC"}, {"FRAMING"}, {"CRC", "FRAMING"}}
             Bits == SUBSET {"RETRY", "DISCONNECT"}
  <2>1. {"CRC"} \in Harms /\ {} \in Bits /\ {"CRC"} = {"CRC"} \cup {}
    OBVIOUS
  <2> HIDE DEF Harms, Bits
  <2>2. {"CRC"} \in {d \cup f : d \in Harms, f \in Bits}
    BY <2>1
  <2> QED
    BY <2>2 DEF BadStatus, Harms, Bits
<1>5. Damaged \in Results
  BY <1>4 DEF Damaged, Results
<1>6. AckStatus(Damaged) # {} /\ AckStatus(TermNack(s)) # {}
  BY DEF AckStatus, Damaged, TermNack, Result
<1>7. AckStatus(TermAck(s)) = {} /\ AckStatus(TermData(s, u)) = {}
  BY DEF AckStatus, TermAck, TermData, Result
<1> QED
  BY <1>1, <1>2, <1>3, <1>5, <1>6, <1>7 DEF Results, BadResults

LEMMA Silent ==
    LET r == Result({"TIMEOUT"}, FALSE, 0, "empty", None)
    IN  r \in Results /\ AckStatus(r) # {}
<1>1. {"TIMEOUT"} \in BadStatus
  BY DEF BadStatus
<1>2. AckStatus(Result({"TIMEOUT"}, FALSE, 0, "empty", None)) # {}
  BY DEF AckStatus, Result
<1> QED
  BY <1>1, <1>2 DEF Results

LEMMA PacketOnLine ==
    ASSUME NEW p \in Packets, p.kind \in Kinds, NEW ok \in BOOLEAN
    PROVE  /\ OnLine(p, ok) \in LinePackets
           /\ OnLine(p, ok).pkt = p.kind /\ OnLine(p, ok).ok = ok
           /\ OnLine(p, ok).seq = p.seq
           /\ OnLine(p, ok).table = p.table /\ OnLine(p, ok).chunk = p.chunk
BY DEF OnLine, LinePackets, Kinds, Packets

----------------------------------------------------------------------------
(* The reads of the manager. *)

LEMMA IntactUp == \A r : Intact(r) => ~HangsUp(r)
BY DEF Intact, HangsUp

\* A packet from the line, silence on it, or the end of the call.
Reads(r) ==
    /\ ManagerReads(r)
    /\ \/ toMgr # <<>> /\ r = Head(toMgr) /\ toMgr' = IF connected' THEN Tail(toMgr) ELSE <<>>
       \/ toMgr = <<>> /\ toTerm = <<>> /\ AckStatus(r) # {} /\ toMgr' = <<>>
       \/ HangsUp(r) /\ AckStatus(r) # {} /\ toMgr' = <<>>

LEMMA ReadCases ==
    ASSUME LinkTypeOK, ManagerReceives \/ ManagerTimesOut \/ LineDrops
    PROVE  \E r \in Results : Reads(r)
<1>1. CASE ManagerReceives
  <2>1. toMgr # <<>> /\ toMgr \in Seq(Results)
    BY <1>1 DEF ManagerReceives, LinkTypeOK
  <2>2. Head(toMgr) \in Results
    BY <2>1, TailOf, Zenon
  <2> QED
    BY <1>1, <2>1, <2>2 DEF ManagerReceives, Reads
<1>2. CASE ManagerTimesOut
  <2> DEFINE r == Result({"TIMEOUT"}, FALSE, 0, "empty", None)
  <2>1. r \in Results /\ AckStatus(r) # {}
    BY Silent
  <2>2. toMgr = <<>> /\ toTerm = <<>> /\ ManagerReads(r) /\ toMgr' = toMgr
    BY <1>2 DEF ManagerTimesOut
  <2> HIDE DEF r
  <2> QED
    BY <2>1, <2>2 DEF Reads
<1>3. CASE LineDrops
  <2>1. PICK s \in {{"FAILURE"}, {"NO_CARRIER"}, {"DISCONNECT"}} :
             /\ Result(s, FALSE, 0, "empty", None) \in Results
             /\ ManagerReads(Result(s, FALSE, 0, "empty", None))
             /\ toMgr' = <<>>
    BY <1>3 DEF LineDrops
  <2> DEFINE r == Result(s, FALSE, 0, "empty", None)
  <2>2. HangsUp(r) /\ AckStatus(r) # {}
    BY <2>1 DEF HangsUp, AckStatus, Result
  <2> HIDE DEF r
  <2>3. r \in Results /\ ManagerReads(r)
    BY <2>1 DEF r
  <2> QED
    BY <2>1, <2>2, <2>3 DEF Reads
<1> QED
  BY <1>1, <1>2, <1>3

\* The operation that reads goes on with the same table, on a call that is up unless the
\* packet hung up.
LEMMA ResumeKeeps ==
    ASSUME IInv, NEW r \in Results, Resume(r)
    PROVE  /\ pc # "Idle" /\ connected /\ op # "none"
           /\ connected' = Survives(r)
           /\ UNCHANGED <<op, table, nchunks>>
<1>1. pc # "Idle"
  BY DEF Resume, ReceiveData, ReceiveShort, ReceiveBad, ReceiveDown, NackAnswered, ChunkAcked,
     TableSent, Retransmit, SendDropped, GiveUp, TableAcked, WrongTable, ShortIgnored, AskRetry,
     TableAckDown, RetryAnswered, RetryDown
<1>2. connected /\ connected \in BOOLEAN /\ op # "none"
  BY <1>1 DEF IInv, Blocked, TypeOK, SendProgress
<1>3. CASE ReceiveData(r) \/ ReceiveShort(r) \/ TableAcked(r) \/ WrongTable(r) \/ ShortIgnored(r)
  <2>1. Survives(r) = TRUE
    BY <1>2, <1>3, IntactUp DEF Survives, ReceiveData, ReceiveShort, TableAcked, WrongTable,
       ShortIgnored
  <2> QED
    BY <1>1, <1>2, <1>3, <2>1 DEF ReceiveData, ReceiveShort, TableAcked, WrongTable,
       ShortIgnored, callVars
<1>4. CASE ReceiveBad(r) \/ ReceiveDown(r) \/ NackAnswered(r) \/ AskRetry(r) \/ TableAckDown(r)
           \/ RetryAnswered(r) \/ RetryDown(r)
  BY <1>1, <1>2, <1>4 DEF ReceiveBad, ReceiveDown, NackAnswered, AskRetry, TableAckDown,
     RetryAnswered, RetryDown, callVars, LineState
<1>5. CASE ChunkAcked(r) \/ Retransmit(r)
  <2>1. Survives(r) = TRUE
    BY <1>2, <1>5 DEF Survives, ChunkAcked, Retransmit
  <2> QED
    BY <1>1, <1>2, <1>5, <2>1 DEF ChunkAcked, Retransmit
<1>6. CASE TableSent(r) \/ SendDropped(r) \/ GiveUp(r)
  BY <1>1, <1>2, <1>6 DEF TableSent, SendDropped, GiveUp, callVars, LineState
<1> QED
  BY <1>3, <1>4, <1>5, <1>6 DEF Resume

\* Outside send_mm_table a read sends at most a control packet, an acknowledgement if the
\* operation returns, and leaves tx_seq alone on a call that stays up.
LEMMA ResumeQuiet ==
    ASSUME IInv, NEW r \in Results, Resume(r), pc # "TxAck", connected'
    PROVE  /\ pc' # "TxAck" /\ tx_seq' = tx_seq /\ done' = done
           /\ out' = NoPacket \/ out'.kind \in {"ACK", "NACK", "RETRY"}
           /\ pc' = "Idle" => out' = NoPacket \/ out'.kind = "ACK"
<1>1. Survives(r) /\ TxSeqAfter(r) = tx_seq
  BY ResumeKeeps DEF Survives, TxSeqAfter
<1>2. r.seq \in Seqs /\ rx_seq \in Seqs
  BY ResultFields DEF IInv, TypeOK
<1>3. CASE ReceiveData(r) \/ TableAcked(r)
  <2>1. out' = Control("ACK", r.seq)
    BY <1>3 DEF ReceiveData, TableAcked, SendAck
  <2>2. out'.kind = "ACK"
    BY <2>1, <1>2, ControlPacket
  <2> QED
    BY <1>3, <2>2 DEF ReceiveData, TableAcked, SendAck, Return
<1>4. CASE ReceiveShort(r) \/ WrongTable(r) \/ ShortIgnored(r)
  BY <1>4 DEF ReceiveShort, WrongTable, ShortIgnored, Return, histVars
<1>5. CASE ReceiveBad(r)
  <2>1. out' = Control("NACK", rx_seq)
    BY <1>5 DEF ReceiveBad, SendAck
  <2>2. out'.kind = "NACK"
    BY <2>1, <1>2, ControlPacket
  <2> QED
    BY <1>1, <1>5, <2>2 DEF ReceiveBad, LineState
<1>6. CASE NackAnswered(r)
  BY <1>1, <1>6 DEF NackAnswered, LineState, Return
<1>7. CASE AskRetry(r)
  <2>1. out' = Control("RETRY", rx_seq)
    BY <1>7 DEF AskRetry, SendAck
  <2>2. out'.kind = "RETRY"
    BY <2>1, <1>2, ControlPacket
  <2> QED
    BY <1>1, <1>7, <2>2 DEF AskRetry, LineState
<1>8. CASE RetryAnswered(r)
  <2>1. out' = Control("ACK", rx_seq)
    BY <1>8 DEF RetryAnswered, SendAck
  <2>2. out'.kind = "ACK"
    BY <2>1, <1>2, ControlPacket
  <2> QED
    BY <1>1, <1>8, <2>2 DEF RetryAnswered, LineState
<1>9. CASE ReceiveDown(r) \/ TableAckDown(r) \/ RetryDown(r)
  BY <1>1, <1>9 DEF ReceiveDown, TableAckDown, RetryDown
<1>10. CASE ChunkAcked(r) \/ TableSent(r) \/ Retransmit(r) \/ SendDropped(r) \/ GiveUp(r)
  BY <1>10 DEF ChunkAcked, TableSent, Retransmit, SendDropped, GiveUp
<1> QED
  BY <1>3, <1>4, <1>5, <1>6, <1>7, <1>8, <1>9, <1>10 DEF Resume

\* What the manager's step put on the line, with the damage done to it.
LEMMA ManagerSent ==
    ASSUME ManagerSends(toTerm), connected',
           NEW b, b = IF done' = done THEN faults ELSE 0
    PROVE  /\ faults' <= MaxFaults
           /\ \/ out' = NoPacket /\ toTerm' = toTerm /\ faults' = b + 0
              \/ out' # NoPacket /\ toTerm' = Append(toTerm, OnLine(out', TRUE)) /\ faults' = b + 0
              \/ out' # NoPacket /\ toTerm' = Append(toTerm, OnLine(out', FALSE)) /\ faults' = b + 1
              \/ out' # NoPacket /\ toTerm' = toTerm /\ faults' = b + 1
BY Zenon DEF ManagerSends, Harm

LEMMA ManagerSentDown ==
    ASSUME ManagerSends(toTerm), ~connected', faults \in 0..MaxFaults
    PROVE  toTerm' = <<>> /\ faults' \in 0..MaxFaults
<1>1. toTerm' = <<>> /\ Harm(IF done' = done THEN faults ELSE 0, 0)
  BY Zenon DEF ManagerSends
<1> QED
  BY <1>1, LinkAssumption DEF Harm

\* A line that went dead holds nothing, and no operation waits on it.
LEMMA DeadLine ==
    ASSUME IInv', ~connected', toTerm' = <<>>, toMgr' = <<>>, LinkTypeOK',
           op' = "none" => buf' = "none", SuccessMeansDelivered'
    PROVE  LineInv'
<1>1. pc' = "Idle"
  BY DEF IInv, Blocked
<1> QED
  BY <1>1 DEF LineInv, Calm, Progress, Current, Unaccepted, Answered, Paid, Between

----------------------------------------------------------------------------
(* Reads outside send_mm_table. *)

\* At most one packet was on the line, and the manager has read it.
LEMMA OnePacket ==
    ASSUME LinkTypeOK, Len(toTerm) + Len(toMgr) <= 1, NEW r, Reads(r), connected', ~HangsUp(r)
    PROVE  toTerm = <<>> /\ toMgr' = <<>>
<1>1. toTerm \in Seq(LinePackets) /\ toMgr \in Seq(Results)
  BY DEF LinkTypeOK
<1>2. CASE toMgr # <<>>
  <2>1. toMgr' = Tail(toMgr)
    BY <1>2 DEF Reads
  <2>2. /\ Len(toMgr) \in Nat \ {0} /\ Tail(toMgr) \in Seq(Results)
        /\ Len(Tail(toMgr)) = Len(toMgr) - 1
    BY <1>1, <1>2, TailOf, Zenon
  <2>3. Len(toTerm) \in Nat
    BY <1>1, LenProperties
  <2>4. Len(Tail(toMgr)) = 0 /\ Len(toTerm) = 0
    BY <2>2, <2>3
  <2> QED
    BY <1>1, <2>1, <2>2, <2>4, EmptySeq
<1>3. CASE toMgr = <<>>
  BY <1>3 DEF Reads
<1> QED
  BY <1>2, <1>3

LEMMA BetweenReads ==
    ASSUME IInv, IInv', LineInv, NEW r \in Results, Reads(r), pc # "TxAck"
    PROVE  LineInv'
<1>1. /\ Resume(r) /\ ManagerSends(toTerm) /\ UNCHANGED <<lastseq, tseq, pending, got>>
  BY DEF Reads, ManagerReads, termVars
<1>2. /\ connected /\ op # "none" /\ connected' = Survives(r)
      /\ UNCHANGED <<op, table, nchunks>> /\ op # "send"
  <2>1. /\ connected /\ op # "none" /\ connected' = Survives(r) /\ UNCHANGED <<op, table, nchunks>>
        /\ pc # "Idle"
    BY <1>1, ResumeKeeps
  <2>2. pc \in {"RxTable", "RxNak", "TblAck", "TblNak"}
    BY <2>1 DEF IInv, TypeOK
  <2> QED
    BY <2>1, <2>2 DEF IInv, Blocked
<1>3. SuccessMeansDelivered' /\ (op' = "none" => buf' = "none")
  BY <1>2 DEF SuccessMeansDelivered, Sending
<1>4. CASE ~connected'
  <2>1. toTerm' = <<>> /\ faults' \in 0..MaxFaults /\ toMgr' = <<>>
    BY <1>1, <1>4, ManagerSentDown DEF LineInv, LinkTypeOK, Reads
  <2>2. LinkTypeOK'
    BY <1>1, <2>1, Empty DEF LineInv, LinkTypeOK
  <2> QED
    BY <1>3, <1>4, <2>1, <2>2, DeadLine
<1>5. CASE connected'
  <2>1. ~HangsUp(r)
    BY <1>2, <1>5 DEF Survives
  <2>2. toTerm = <<>> /\ toMgr' = <<>>
    BY <1>2, <1>5, <2>1, OnePacket DEF LineInv, Between
  <2>3. /\ pc' # "TxAck" /\ tx_seq' = tx_seq /\ done' = done
        /\ out' = NoPacket \/ out'.kind \in {"ACK", "NACK", "RETRY"}
        /\ pc' = "Idle" => out' = NoPacket \/ out'.kind = "ACK"
    BY <1>1, <1>5, ResumeQuiet
  <2>4. /\ faults' \in 0..MaxFaults
        /\ \/ toTerm' = <<>>
           \/ out' # NoPacket /\ \E ok \in BOOLEAN : toTerm' = Append(<<>>, OnLine(out', ok))
    <3>1. faults \in 0..MaxFaults
      BY DEF LineInv, LinkTypeOK
    <3>2. faults = IF done' = done THEN faults ELSE 0
      BY <2>3
    <3>3. /\ faults' <= MaxFaults
          /\ \/ out' = NoPacket /\ toTerm' = toTerm /\ faults' = faults + 0
             \/ /\ out' # NoPacket /\ toTerm' = Append(toTerm, OnLine(out', TRUE))
                /\ faults' = faults + 0
             \/ /\ out' # NoPacket /\ toTerm' = Append(toTerm, OnLine(out', FALSE))
                /\ faults' = faults + 1
             \/ out' # NoPacket /\ toTerm' = toTerm /\ faults' = faults + 1
      BY <1>1, <1>5, <3>2, ManagerSent, Zenon
    <3>4. faults' = faults + 0 \/ faults' = faults + 1
      BY <3>3, Zenon
    <3>5. faults' \in 0..MaxFaults
      BY <3>1, <3>3, <3>4, LinkAssumption
    <3> QED
      BY <2>2, <3>3, <3>5, Zenon
  <2>5. \/ toTerm' = <<>>
        \/ /\ toTerm' \in Seq(LinePackets) /\ Len(toTerm') = 1
           /\ toTerm'[1].pkt \in {"ACK", "NACK", "RETRY"}
           /\ pc' = "Idle" => toTerm'[1].pkt = "ACK"
    <3>1. ASSUME NEW ok \in BOOLEAN, out' # NoPacket, toTerm' = Append(<<>>, OnLine(out', ok))
          PROVE  /\ toTerm' \in Seq(LinePackets) /\ Len(toTerm') = 1
                 /\ toTerm'[1] = OnLine(out', ok)
                 /\ OnLine(out', ok).pkt = out'.kind
      <4>1. out' \in Packets /\ out'.kind \in Kinds
        BY <2>3, <3>1 DEF IInv, TypeOK, Kinds
      <4>2. OnLine(out', ok) \in LinePackets /\ OnLine(out', ok).pkt = out'.kind
        BY <4>1, PacketOnLine
      <4>3. <<>> \in Seq(LinePackets) /\ Len(<<>>) = 0
        BY Empty
      <4> QED
        BY <3>1, <4>2, <4>3, AppendTo
    <3> QED
      BY <2>3, <2>4, <3>1
  <2>7. /\ Len(toTerm') \in 0..1
        /\ \A i \in 1..Len(toTerm') : toTerm'[i].pkt \in {"ACK", "NACK", "RETRY"}
    BY <2>5, Empty
  <2>6. LinkTypeOK'
    <3>0. <<>> \in Seq(LinePackets) /\ <<>> \in Seq(Results) /\ Len(<<>>) = 0
      BY Empty
    <3>1. toTerm' \in Seq(LinePackets)
      BY <2>5, <3>0, Zenon
    <3>4. Len(toTerm') <= 2
      BY <2>7
    <3>2. toMgr' \in Seq(Results) /\ Len(toMgr') <= 2
      BY <2>2, <3>0
    <3>3. LinkTypeOK
      BY DEF LineInv
    <3> QED
      BY <1>1, <2>4, <3>1, <3>2, <3>3, <3>4 DEF LinkTypeOK
  <2>8. Between'
    <3>1. ~Accepted'
      BY <1>1, <1>2, <2>3 DEF LineInv, Between, Accepted
    <3>2. pc' = "Idle" => AllAre({"ACK"})'
      BY <2>5, Empty DEF AllAre
    <3> QED
      BY <2>2, <2>7, <3>1, <3>2, Empty DEF Between, Settled
  <2>9. Calm' /\ Current'
    BY <1>2, <1>5, <2>3, <2>7 DEF Calm, Current
  <2> QED
    BY <1>3, <2>3, <2>6, <2>8, <2>9 DEF LineInv, Progress, Unaccepted, Answered, Paid
<1> QED
  BY <1>4, <1>5

----------------------------------------------------------------------------
(* Reads of send_mm_table. *)

\* What send_mm_table reads as an acknowledgement came from the terminal, which sends none
\* before it has accepted the packet.
LEMMA AckedIsAccepted ==
    ASSUME LineInv, NEW r, Reads(r), pc = "TxAck", AckStatus(r) = {}
    PROVE  /\ Accepted
           /\ toMgr # <<>> /\ toMgr' = IF connected' THEN Tail(toMgr) ELSE <<>>
<1>1. toMgr # <<>> /\ r = Head(toMgr) /\ toMgr' = IF connected' THEN Tail(toMgr) ELSE <<>>
  BY DEF Reads
<1>2. toMgr \in Seq(Results)
  BY DEF LineInv, LinkTypeOK
<1>3. r = toMgr[1]
  BY <1>1, <1>2, TailOf, Zenon
<1>4. r \notin BadResults
  BY DEF BadResults
<1> QED
  BY <1>1, <1>3, <1>4 DEF LineInv, Unaccepted

LEMMA TypesHold ==
    ASSUME IInv, LineInv
    PROVE  /\ toTerm \in Seq(LinePackets) /\ toMgr \in Seq(Results)
           /\ Len(toTerm) \in 0..2 /\ Len(toMgr) \in 0..2
           /\ faults \in 0..MaxFaults /\ faults \in Nat /\ MaxFaults \in Nat
           /\ retries \in 0..(PKT_MAX_RETRIES - 1) /\ retries \in Nat
           /\ lastseq \in Seqs \cup {NoSeq} /\ tx_seq \in Seqs
           /\ chunk \in 0..MaxChunks /\ nchunks \in 0..MaxChunks /\ MaxChunks \in Nat \ {0}
<1>1. /\ toTerm \in Seq(LinePackets) /\ toMgr \in Seq(Results)
      /\ Len(toTerm) <= 2 /\ Len(toMgr) <= 2
      /\ faults \in 0..MaxFaults /\ lastseq \in Seqs \cup {NoSeq}
  BY DEF LineInv, LinkTypeOK
<1>2. Len(toTerm) \in Nat /\ Len(toMgr) \in Nat
  BY <1>1, LenProperties
<1>3. Len(toTerm) \in 0..2 /\ Len(toMgr) \in 0..2
  BY <1>1, <1>2, SmallNumbers, Zenon
<1>4. /\ retries \in 0..(PKT_MAX_RETRIES - 1) /\ tx_seq \in Seqs
      /\ chunk \in 0..MaxChunks /\ nchunks \in 0..MaxChunks
  BY DEF IInv, TypeOK
<1> QED
  BY <1>1, <1>3, <1>4, LinkAssumption, ConstantsAssumption DEF PKT_MAX_RETRIES

\* An attempt that failed was paid for with a fault.
LEMMA FailedAttempt ==
    ASSUME IInv, LineInv, NEW r, Reads(r), pc = "TxAck", AckStatus(r) # {}, r \in Results,
           connected', ~HangsUp(r)
    PROVE  /\ toMgr' \in Seq(Results) /\ Len(toMgr') \in 0..2
           /\ retries + 1 + Count(toTerm, BadData) + Count(toMgr', BadResults) <= faults
           /\ ~Accepted => toTerm = <<>> /\ toMgr' = <<>>
           /\ Accepted => Len(toTerm) + Len(toMgr') <= IF IsLast(table, chunk) THEN 1 ELSE 0
<1> DEFINE t == Count(toTerm, BadData)
           m == Count(toMgr, BadResults)
           n == Count(toMgr', BadResults)
           l == Len(toTerm)
           k == Len(toMgr)
           j == Len(toMgr')
<1>1. t \in 0..2 /\ m \in 0..2 /\ n \in 0..2
  BY CountType
<1>2. retries \in Nat /\ faults \in Nat /\ retries + t + m <= faults /\ l \in 0..2 /\ k \in 0..2
  BY TypesHold DEF LineInv, Paid
<1>a. toMgr \in Seq(Results)
  BY TypesHold
<1>c. Len(toMgr) <= 2
  BY DEF LineInv, LinkTypeOK
<1>b. Accepted => l + k <= IF IsLast(table, chunk) THEN 2 ELSE 1
  BY DEF LineInv, Answered
<1>3. CASE toMgr # <<>>
  <2>1. r = Head(toMgr) /\ toMgr' = Tail(toMgr)
    BY <1>3 DEF Reads
  <2>2. r \in BadResults
    BY DEF BadResults
  <2>3. n = m - 1
    <3>1. Len(toMgr) <= 2
      BY <1>c
    <3>2. Count(Tail(toMgr), BadResults) = m - (IF Head(toMgr) \in BadResults THEN 1 ELSE 0)
      BY <1>3, <1>a, <3>1, CountTail, Zenon
    <3> QED
      BY <2>1, <2>2, <3>2
  <2>4. toMgr' \in Seq(Results) /\ j = k - 1
    BY <1>a, <1>3, <2>1, TailOf, Zenon
  <2>5. 1 <= k
    <3>1. k \in Nat \ {0}
      BY <1>a, <1>3, TailOf, Zenon
    <3> QED
      BY <3>1
  <2>6. ~Accepted => toTerm = <<>> /\ k = 1
    BY <1>3 DEF LineInv, Unaccepted
  <2>7. ~Accepted => toMgr' = <<>>
    <3> HIDE DEF j, k
    <3>1. ~Accepted => j = 0
      BY <2>4, <2>6
    <3> QED
      BY <2>4, <3>1, EmptySeq DEF j
  <2> HIDE DEF t, m, n, l, k, j
  <2>8. retries + 1 + t + n <= faults /\ j \in 0..2
    BY <1>1, <1>2, <2>3, <2>4, <2>5
  <2>9. Accepted => l + j <= IF IsLast(table, chunk) THEN 1 ELSE 0
    BY <1>b, <1>2, <2>4, <2>5
  <2> QED
    BY <2>4, <2>6, <2>7, <2>8, <2>9 DEF t, n, l, j
<1>4. CASE toMgr = <<>>
  <2>1. toTerm = <<>> /\ toMgr' = <<>>
    BY <1>4 DEF Reads
  <2>2. t = 0 /\ n = 0 /\ l = 0 /\ j = 0 /\ toMgr' \in Seq(Results)
    BY <2>1, CountEmpty, Empty, <1>a, <1>4
  <2>3. AllAre(Kinds \ {"DATA"})
    BY <2>2 DEF AllAre
  <2>4. retries + 1 <= faults
    BY <1>4, <2>3 DEF LineInv, Paid
  <2> HIDE DEF t, m, n, l, k, j
  <2>5. retries + 1 + t + n <= faults /\ l + j <= IF IsLast(table, chunk) THEN 1 ELSE 0
    BY <1>2, <2>2, <2>4
  <2> QED
    BY <2>1, <2>2, <2>5 DEF t, n, l, j
<1> QED
  BY <1>3, <1>4

LEMMA DataFields ==
    ASSUME NEW s, NEW t, NEW c
    PROVE  /\ Data(s, t, c).kind = "DATA" /\ Data(s, t, c).seq = s
           /\ Data(s, t, c).table = t /\ Data(s, t, c).chunk = c
BY DEF Data, Packet

\* A data packet that follows at most one other packet on the line.
LEMMA DataSent ==
    ASSUME ManagerSends(toTerm), connected', toTerm \in Seq(LinePackets), Len(toTerm) <= 1,
           out' \in Packets, out'.kind = "DATA", faults \in Nat,
           NEW b \in Nat, b = IF done' = done THEN faults ELSE 0
    PROVE  /\ faults' \in 0..MaxFaults
           /\ toTerm' \in Seq(LinePackets) /\ Len(toTerm') \in Len(toTerm)..(Len(toTerm) + 1)
           /\ \A i \in 1..Len(toTerm') :
                  \/ i \in 1..Len(toTerm) /\ toTerm'[i] = toTerm[i]
                  \/ /\ toTerm'[i].pkt = "DATA" /\ toTerm'[i].seq = out'.seq
                     /\ toTerm'[i].table = out'.table /\ toTerm'[i].chunk = out'.chunk
           /\ \A i \in 1..Len(toTerm) : toTerm'[i] = toTerm[i]
           /\ Len(toTerm') = Len(toTerm) \/ toTerm'[Len(toTerm) + 1].pkt = "DATA"
           /\ b + Count(toTerm', BadData) <= faults' + Count(toTerm, BadData)
           /\ AllAre(Kinds \ {"DATA"})' => b + 1 <= faults'
<1>1. out' # NoPacket
  BY Silence
<1> DEFINE good == OnLine(out', TRUE)
           bad == OnLine(out', FALSE)
<1>2. /\ good \in LinePackets /\ good.pkt = "DATA" /\ good.seq = out'.seq
      /\ good.table = out'.table /\ good.chunk = out'.chunk /\ good.ok = TRUE
      /\ bad \in LinePackets /\ bad.pkt = "DATA" /\ bad.seq = out'.seq
      /\ bad.table = out'.table /\ bad.chunk = out'.chunk /\ bad.ok = FALSE
  BY PacketOnLine DEF Kinds
<1>3. good \notin BadData
  BY <1>2 DEF BadData
<1> HIDE DEF good, bad
<1>4. /\ faults' <= MaxFaults
      /\ \/ toTerm' = Append(toTerm, good) /\ faults' = b + 0
         \/ toTerm' = Append(toTerm, bad) /\ faults' = b + 1
         \/ toTerm' = toTerm /\ faults' = b + 1
  BY <1>1, ManagerSent, Zenon DEF good, bad
<1>5. faults' \in Nat /\ (faults' = b \/ faults' = b + 1)
  BY <1>4
<1>6. faults' \in 0..MaxFaults
  BY <1>4, <1>5, LinkAssumption
<1>7. CASE toTerm' = toTerm /\ faults' = b + 1
  <2>1. Len(toTerm) \in Nat /\ Count(toTerm, BadData) \in 0..2
    BY LenProperties, CountType
  <2> QED
    BY <1>5, <1>6, <1>7, <2>1
<1>8. ASSUME NEW e \in LinePackets, toTerm' = Append(toTerm, e), e.pkt = "DATA",
             e.seq = out'.seq, e.table = out'.table, e.chunk = out'.chunk,
             b + (IF e \in BadData THEN 1 ELSE 0) <= faults'
      PROVE  /\ toTerm' \in Seq(LinePackets) /\ Len(toTerm') \in Len(toTerm)..(Len(toTerm) + 1)
             /\ \A i \in 1..Len(toTerm') :
                  \/ i \in 1..Len(toTerm) /\ toTerm'[i] = toTerm[i]
                  \/ /\ toTerm'[i].pkt = "DATA" /\ toTerm'[i].seq = out'.seq
                     /\ toTerm'[i].table = out'.table /\ toTerm'[i].chunk = out'.chunk
             /\ \A i \in 1..Len(toTerm) : toTerm'[i] = toTerm[i]
             /\ toTerm'[Len(toTerm) + 1].pkt = "DATA"
             /\ b + Count(toTerm', BadData) <= faults' + Count(toTerm, BadData)
             /\ ~AllAre(Kinds \ {"DATA"})'
  <2>a. /\ toTerm' \in Seq(LinePackets) /\ Len(toTerm) \in Nat /\ Len(toTerm') = Len(toTerm) + 1
        /\ toTerm'[Len(toTerm) + 1] = e
    BY <1>8, AppendTo
  <2>b. \A i \in 1..Len(toTerm) : toTerm'[i] = toTerm[i]
    BY <1>8, AppendTo
  <2>c. \A i \in 1..Len(toTerm') :
               (i \in 1..Len(toTerm) /\ toTerm'[i] = toTerm[i]) \/ toTerm'[i] = e
    BY <1>8, AppendTo
  <2>1. /\ toTerm' \in Seq(LinePackets) /\ Len(toTerm) \in Nat /\ Len(toTerm') = Len(toTerm) + 1
        /\ \A i \in 1..Len(toTerm) : toTerm'[i] = toTerm[i]
        /\ toTerm'[Len(toTerm) + 1] = e
        /\ \A i \in 1..Len(toTerm') :
               (i \in 1..Len(toTerm) /\ toTerm'[i] = toTerm[i]) \/ toTerm'[i] = e
    BY <2>a, <2>b, <2>c
  <2>2. Count(toTerm', BadData) = Count(toTerm, BadData) + (IF e \in BadData THEN 1 ELSE 0)
    BY <1>8, CountAppend
  <2>3. Count(toTerm, BadData) \in 0..2
    BY CountType
  <2>4. b + Count(toTerm', BadData) <= faults' + Count(toTerm, BadData)
    BY <1>5, <1>8, <2>2, <2>3
  <2>5. Len(toTerm) + 1 \in 1..Len(toTerm') /\ Len(toTerm') \in Len(toTerm)..(Len(toTerm) + 1)
    BY <2>1
  <2>6. ~AllAre(Kinds \ {"DATA"})'
    BY <1>8, <2>1, <2>5 DEF AllAre
  <2> QED
    BY <1>8, <2>1, <2>4, <2>5, <2>6
<1>9. CASE toTerm' = Append(toTerm, good) /\ faults' = b + 0
  <2>1. b + (IF good \in BadData THEN 1 ELSE 0) <= faults'
    BY <1>3, <1>5, <1>9
  <2> QED
    BY <1>2, <1>6, <1>8, <1>9, <2>1
<1>10. CASE toTerm' = Append(toTerm, bad) /\ faults' = b + 1
  <2>1. b + (IF bad \in BadData THEN 1 ELSE 0) <= faults'
    BY <1>5, <1>10
  <2> QED
    BY <1>2, <1>6, <1>8, <1>10, <2>1
<1> QED
  BY <1>4, <1>7, <1>9, <1>10

LEMMA RetransmitLine ==
    ASSUME IInv, IInv', LineInv, NEW r \in Results, Reads(r), Retransmit(r)
    PROVE  LineInv'
<1>1. /\ ManagerSends(toTerm) /\ UNCHANGED <<lastseq, tseq, pending, got>>
      /\ pc = "TxAck" /\ AckStatus(r) # {} /\ Survives(r) /\ connected /\ connected'
      /\ retries' = retries + 1 /\ out' = Data(tx_seq, table, chunk)
      /\ UNCHANGED <<connected, tx_seq, op, table, chunk, nchunks, pc, ret, buf, done>>
  BY DEF Reads, ManagerReads, termVars, Retransmit, Survives
<1>2. /\ toMgr' \in Seq(Results) /\ Len(toMgr') \in 0..2
      /\ retries + 1 + Count(toTerm, BadData) + Count(toMgr', BadResults) <= faults
      /\ ~Accepted => toTerm = <<>> /\ toMgr' = <<>>
      /\ Accepted => Len(toTerm) + Len(toMgr') <= IF IsLast(table, chunk) THEN 1 ELSE 0
  BY <1>1, FailedAttempt DEF Survives
<1>3. /\ out' \in Packets /\ out'.kind = "DATA" /\ out'.seq = tx_seq
      /\ out'.table = table /\ out'.chunk = chunk
  BY <1>1, DataFields DEF IInv, TypeOK
<1> DEFINE l == Len(toTerm)
           l2 == Len(toTerm')
           j == Len(toMgr')
<1>4. toTerm \in Seq(LinePackets) /\ faults \in Nat /\ l \in Nat /\ retries \in Nat /\ j \in 0..2
  BY <1>2, TypesHold
<1>5. l <= 1
  <2>1. CASE ~Accepted
    BY <1>2, <2>1, Empty
  <2>2. CASE Accepted
    <3>1. l + j <= 1
      BY <1>2, <2>2, <1>4
    <3> HIDE DEF l, j
    <3> QED
      BY <3>1, <1>4
  <2> QED
    BY <2>1, <2>2
<1>6. /\ faults' \in 0..MaxFaults
      /\ toTerm' \in Seq(LinePackets) /\ l2 \in l..(l + 1)
      /\ \A i \in 1..l2 :
             \/ i \in 1..l /\ toTerm'[i] = toTerm[i]
             \/ /\ toTerm'[i].pkt = "DATA" /\ toTerm'[i].seq = tx_seq
                /\ toTerm'[i].table = table /\ toTerm'[i].chunk = chunk
      /\ l2 = l \/ toTerm'[l + 1].pkt = "DATA"
      /\ faults + Count(toTerm', BadData) <= faults' + Count(toTerm, BadData)
      /\ AllAre(Kinds \ {"DATA"})' => faults + 1 <= faults'
  BY <1>1, <1>3, <1>4, <1>5, DataSent
<1> HIDE DEF l, l2, j
<1>7. LinkTypeOK'
  <2>1. l2 <= 2 /\ j <= 2
    BY <1>4, <1>5, <1>6
  <2> QED
    BY <1>1, <1>2, <1>6, <2>1 DEF LineInv, LinkTypeOK, l2, j
<1>8. Current'
  BY <1>1, <1>6 DEF LineInv, Current, l, l2
<1>9. Accepted' = Accepted
  BY <1>1 DEF Accepted
<1>10. Unaccepted'
  <2> SUFFICES ASSUME ~Accepted
               PROVE  /\ toMgr' = <<>> /\ l2 <= 2
                      /\ AllAre({"ACK", "DATA"})'
                      /\ l2 # 2
    BY <1>9, <1>1 DEF Unaccepted, l2
  <2>1. toTerm = <<>> /\ toMgr' = <<>> /\ l = 0
    BY <1>2, Empty DEF l
  <2>2. l2 \in 0..1
    BY <1>6, <2>1
  <2>3. \A i \in 1..l2 : toTerm'[i].pkt = "DATA"
    BY <1>6, <2>1
  <2> QED
    BY <2>1, <2>2, <2>3 DEF AllAre, l2
<1>11. Answered'
  <2> SUFFICES ASSUME Accepted
               PROVE  /\ AllAre({"DATA"})'
                      /\ l2 + j <= IF IsLast(table, chunk) THEN 2 ELSE 1
    BY <1>9, <1>1 DEF Answered, l2, j, IsLast
  <2>1. AllAre({"DATA"})
    BY <1>1 DEF LineInv, Answered
  <2>2. l + j <= IF IsLast(table, chunk) THEN 1 ELSE 0
    BY <1>2 DEF l, j
  <2> QED
    BY <1>4, <1>6, <2>1, <2>2 DEF AllAre, l, l2
<1>12. Paid'
  <2> DEFINE t == Count(toTerm, BadData)
             t2 == Count(toTerm', BadData)
             n == Count(toMgr', BadResults)
  <2>1. t \in 0..2 /\ t2 \in 0..2 /\ n \in 0..2
    BY CountType
  <2>2. retries + 1 + t + n <= faults /\ faults + t2 <= faults' + t /\ faults' \in Nat
    BY <1>2, <1>6
  <2>a. AllAre(Kinds \ {"DATA"})' => faults + 1 <= faults'
    BY <1>6
  <2> HIDE DEF t, t2, n
  <2>b. retries \in Nat /\ faults \in Nat
    BY <1>4
  <2>3. retries + 1 + t2 + n <= faults'
    BY <2>1, <2>2, <2>b, FaultSum
  <2>d. faults + 1 <= faults' => retries + 1 + 1 <= faults'
    BY <2>1, <2>2, <2>b, FaultSum
  <2>4. AllAre(Kinds \ {"DATA"})' => retries + 1 + 1 <= faults'
    BY <2>a, <2>d, Zenon
  <2> QED
    BY <1>1, <2>3, <2>4 DEF Paid, t2, n
<1>13. Calm' /\ Progress' /\ Between' /\ SuccessMeansDelivered'
  BY <1>1, <1>9 DEF LineInv, Calm, Progress, Between, SuccessMeansDelivered, Sending
<1> QED
  BY <1>7, <1>8, <1>10, <1>11, <1>12, <1>13 DEF LineInv

\* A call that dropped: whatever send_mm_table returns then is not success, unless the
\* whole table is at the terminal.
LEMMA SendDownLine ==
    ASSUME IInv, IInv', LineInv, NEW r \in Results, Reads(r), ~connected',
           SendDropped(r) \/ GiveUp(r) \/ TableSent(r)
    PROVE  LineInv'
<1>1. /\ pc = "TxAck" /\ op = "send" /\ op' = "send" /\ UNCHANGED <<table, nchunks, got>>
  BY DEF SendDropped, GiveUp, TableSent, callVars, IInv, SendProgress, Reads, ManagerReads
<1>2. /\ ManagerSends(toTerm) /\ UNCHANGED <<lastseq, tseq, pending, got>> /\ toMgr' = <<>>
  BY DEF Reads, ManagerReads, termVars
<1>3. toTerm' = <<>> /\ faults' \in 0..MaxFaults
  BY <1>2, ManagerSentDown DEF LineInv, LinkTypeOK
<1>4. LinkTypeOK'
  <2>1. <<>> \in Seq(LinePackets) /\ <<>> \in Seq(Results) /\ Len(<<>>) = 0
    BY Empty
  <2> QED
    BY <1>2, <1>3, <2>1 DEF LineInv, LinkTypeOK
<1>5. SuccessMeansDelivered'
  <2>1. CASE SendDropped(r) \/ GiveUp(r)
    <3>1. ret' # {}
      BY <2>1 DEF SendDropped, GiveUp, Return
    <3> QED
      BY <3>1 DEF SuccessMeansDelivered
  <2>2. CASE TableSent(r)
    <3>1. ret' = SentStatus /\ AckStatus(r) = {}
      BY <2>2 DEF TableSent, Return
    <3>2. ret' = {} => chunk = nchunks
      BY <3>1 DEF SentStatus
    <3>3. Accepted
      BY <1>1, <3>1, AckedIsAccepted
    <3>4. got = [i \in 1..chunk |-> <<table, i>>]
      BY <1>1, <3>3 DEF LineInv, Progress
    <3> QED
      BY <1>1, <3>2, <3>4 DEF SuccessMeansDelivered
  <2> QED
    BY <2>1, <2>2
<1> QED
  BY <1>1, <1>2, <1>3, <1>4, <1>5, DeadLine

\* The packets of a table up to the n-th, as the terminal collects them.
LEMMA Pieces ==
    ASSUME NEW t \in Tables, NEW n \in 0..MaxChunks
    PROVE  /\ [i \in 1..n |-> <<t, i>>] \in Seq(Tables \X (1..MaxChunks))
           /\ Len([i \in 1..n |-> <<t, i>>]) = n
<1> DEFINE g == [i \in 1..n |-> <<t, i>>]
           T == Tables \X (1..MaxChunks)
<1>1. n \in Nat /\ \A i \in 1..n : i \in 1..MaxChunks
  BY ConstantsAssumption
<1>2. g \in [1..n -> T]
  BY <1>1
<1>3. g \in Seq(T)
  BY <1>1, <1>2, SeqDef
<1>4. Len(g) = n
  BY <1>1, <1>2, <1>3, LenProperties
<1> QED
  BY <1>3, <1>4

\* A packet the manager has not sent before: in front of it is at most an acknowledgement.
LEMMA FreshPacket ==
    ASSUME IInv, IInv', ManagerSends(toTerm), connected',
           toTerm \in Seq(LinePackets), Len(toTerm) <= 1, AllAre({"ACK"}), faults \in Nat,
           toMgr' = <<>>, out'.kind = "DATA", out'.seq = tx_seq',
           out'.table = table', out'.chunk = chunk', retries' = 0,
           pc' = "TxAck", table' \in Tables, nchunks' = SizeOf(table'),
           got' = [i \in 1..(chunk' - 1) |-> <<table', i>>],
           lastseq' \in Seqs \cup {NoSeq}, lastseq' # tx_seq', tseq' \in Seqs,
           pending' \in Results \cup {None}
    PROVE  LineInv'
<1>a. out' \in Packets /\ chunk' \in 0..MaxChunks
  BY DEF IInv, TypeOK
<1>b. op' = "send" /\ 1 <= chunk'
  BY DEF IInv, SendProgress
<1>c. MaxChunks \in Nat
  BY ConstantsAssumption
<1>1. /\ out' \in Packets /\ chunk' \in 1..MaxChunks /\ op' = "send"
      /\ chunk' - 1 \in 0..MaxChunks
  BY <1>a, <1>b, <1>c, ChunkNumber
<1> DEFINE b == IF done' = done THEN faults ELSE 0
           l == Len(toTerm)
           l2 == Len(toTerm')
<1>2. b \in Nat /\ b = IF done' = done THEN faults ELSE 0
  OBVIOUS
<1> HIDE DEF b
<1>3. /\ faults' \in 0..MaxFaults
      /\ toTerm' \in Seq(LinePackets) /\ l2 \in l..(l + 1)
      /\ \A i \in 1..l2 :
             \/ i \in 1..l /\ toTerm'[i] = toTerm[i]
             \/ /\ toTerm'[i].pkt = "DATA" /\ toTerm'[i].seq = tx_seq'
                /\ toTerm'[i].table = table' /\ toTerm'[i].chunk = chunk'
      /\ \A i \in 1..l : toTerm'[i] = toTerm[i]
      /\ l2 = l \/ toTerm'[l + 1].pkt = "DATA"
      /\ b + Count(toTerm', BadData) <= faults' + Count(toTerm, BadData)
      /\ AllAre(Kinds \ {"DATA"})' => b + 1 <= faults'
  BY <1>1, <1>2, DataSent
<1>4. l \in 0..1 /\ l2 \in 0..2 /\ (l2 = 2 => l = 1)
  <2>1. l \in Nat /\ l <= 1
    BY LenProperties
  <2> HIDE DEF l, l2
  <2> QED
    BY <1>3, <2>1
<1>5. \A i \in 1..l : toTerm[i].pkt = "ACK"
  BY DEF AllAre
<1> HIDE DEF l, l2
<1>6. Count(toTerm, BadData) = 0
  <2>1. At(toTerm, 1, BadData) = 0
    BY <1>4, <1>5 DEF At, BadData, l
  <2>2. At(toTerm, 2, BadData) = 0
    BY <1>4 DEF At, l
  <2> QED
    BY <2>1, <2>2 DEF Count
<1>7. toMgr' \in Seq(Results) /\ Len(toMgr') = 0 /\ Count(toMgr', BadResults) = 0
  BY Empty, CountEmpty
<1>8. LinkTypeOK'
  <2>1. got' \in Seq(Tables \X (1..MaxChunks))
    BY <1>1, Pieces
  <2> QED
    BY <1>3, <1>4, <1>7, <2>1 DEF LinkTypeOK, l2
<1>9. Current'
  BY <1>3, <1>5 DEF Current, l2
<1>10. Unaccepted'
  <2>1. AllAre({"ACK", "DATA"})'
    BY <1>3, <1>5 DEF AllAre, l2
  <2>2. l2 = 2 => toTerm'[1].pkt = "ACK" /\ toTerm'[2].pkt = "DATA"
    BY <1>3, <1>4, <1>5
  <2>3. l2 <= 2
    BY <1>4
  <2> QED
    BY <2>1, <2>2, <2>3 DEF Unaccepted, l2
<1>11. Paid'
  <2> DEFINE t2 == Count(toTerm', BadData)
             n == Count(toMgr', BadResults)
  <2>1. t2 \in 0..2 /\ n = 0
    BY CountType, <1>7
  <2>2. b + t2 <= faults' + 0 /\ faults' \in Nat
    BY <1>3, <1>6
  <2> HIDE DEF t2, n
  <2>3. 0 + t2 + 0 <= faults'
    BY <2>1, <2>2, <1>2, FirstFaults
  <2>4. AllAre(Kinds \ {"DATA"})' => 0 + 1 <= faults'
    BY <1>2, <1>3, <2>1, <2>2, FirstFaults
  <2>5. Count(toMgr', BadResults) = 0
    BY <1>7
  <2> QED
    BY <2>3, <2>4, <2>5 DEF Paid, t2
<1>12. Progress' /\ Calm' /\ Answered' /\ Between' /\ SuccessMeansDelivered'
  <2>1. ~Accepted'
    BY DEF Accepted
  <2> QED
    BY <1>1, <2>1 DEF Progress, Calm, Answered, Between, SuccessMeansDelivered
<1> QED
  BY <1>8, <1>9, <1>10, <1>11, <1>12 DEF LineInv

\* The next packet of a table: the acknowledgement of the one before emptied the line.
LEMMA ChunkAckedLine ==
    ASSUME IInv, IInv', LineInv, NEW r \in Results, Reads(r), ChunkAcked(r)
    PROVE  LineInv'
<1>1. /\ ManagerSends(toTerm) /\ UNCHANGED <<lastseq, tseq, pending, got>>
      /\ pc = "TxAck" /\ AckStatus(r) = {} /\ ~HangsUp(r) /\ connected'
      /\ chunk < nchunks /\ retries' = 0 /\ chunk' = chunk + 1
      /\ tx_seq' = NextSeq(tx_seq) /\ out' = Data(tx_seq', table, chunk')
      /\ UNCHANGED <<connected, op, table, nchunks, pc>>
  BY DEF Reads, ManagerReads, termVars, ChunkAcked, Survives
<1>2. Accepted
  BY <1>1, AckedIsAccepted
<1>3. /\ table \in Tables /\ nchunks = SizeOf(table)
      /\ got = [i \in 1..chunk |-> <<table, i>>]
  BY <1>1, <1>2 DEF LineInv, Progress
<1>4. chunk \in Nat /\ nchunks \in 0..MaxChunks /\ MaxChunks \in Nat /\ 1 <= chunk
  BY <1>1, TypesHold DEF IInv, SendProgress
<1>5. ~IsLast(table, chunk)
  <2>1. table \notin Replies
    BY <1>1, <1>3, <1>4 DEF SizeOf
  <2>2. chunk # MaxChunks
    BY <1>1, <1>4
  <2> QED
    BY <2>1, <2>2 DEF IsLast
<1>6. toTerm = <<>> /\ toMgr' = <<>>
  <2>1. Len(toTerm) + Len(toMgr) <= 1
    BY <1>1, <1>2, <1>5 DEF LineInv, Answered
  <2> QED
    BY <1>1, <2>1, OnePacket DEF LineInv
<1>7. toTerm \in Seq(LinePackets) /\ Len(toTerm) = 0 /\ AllAre({"ACK"}) /\ faults \in Nat
  BY <1>6, TypesHold, Empty DEF AllAre
<1>8. lastseq' # tx_seq'
  BY <1>1, <1>2, TypesHold DEF Accepted, NextSeq, Seqs, SEQ_MOD
<1>9. chunk' - 1 = chunk
  BY <1>1, <1>4
<1>10. /\ out'.kind = "DATA" /\ out'.seq = tx_seq' /\ out'.table = table'
       /\ out'.chunk = chunk'
  BY <1>1, DataFields
<1>11. Len(toTerm) <= 1
  BY <1>7
<1>12. lastseq' \in Seqs \cup {NoSeq} /\ tseq' \in Seqs /\ pending' \in Results \cup {None}
  BY <1>1 DEF LineInv, LinkTypeOK
<1>13. table' \in Tables /\ nchunks' = SizeOf(table') /\ pc' = "TxAck"
       /\ got' = [i \in 1..(chunk' - 1) |-> <<table', i>>]
  BY <1>1, <1>3, <1>9
<1> QED
  BY <1>1, <1>6, <1>7, <1>8, <1>10, <1>11, <1>12, <1>13, FreshPacket

\* The last packet of a table is acknowledged; the acknowledgement of the table, or a
\* retransmission, may still be on its way.
LEMMA TableSentLine ==
    ASSUME IInv, IInv', LineInv, NEW r \in Results, Reads(r), TableSent(r), connected'
    PROVE  LineInv'
<1>1. /\ ManagerSends(toTerm) /\ UNCHANGED <<lastseq, tseq, pending, got>>
      /\ pc = "TxAck" /\ AckStatus(r) = {} /\ ~HangsUp(r) /\ chunk = nchunks
      /\ tx_seq' = NextSeq(tx_seq) /\ pc' = "Idle" /\ ret' = {} /\ out' = NoPacket
      /\ op = "send" /\ UNCHANGED <<op, table, chunk, nchunks>>
  BY DEF Reads, ManagerReads, termVars, TableSent, Survives, TxSeqAfter, SentStatus, Return,
     callVars, IInv, SendProgress
<1>2. /\ Accepted /\ toMgr # <<>> /\ toMgr' = Tail(toMgr)
  BY <1>1, AckedIsAccepted
<1>3. /\ table \in Tables /\ nchunks = SizeOf(table)
      /\ got = [i \in 1..chunk |-> <<table, i>>]
  BY <1>1, <1>2 DEF LineInv, Progress
<1>4. toTerm' = toTerm /\ faults' \in 0..MaxFaults
  <2> DEFINE b == IF done' = done THEN faults ELSE 0
  <2>1. b \in 0..MaxFaults
    BY TypesHold
  <2>2. b = IF done' = done THEN faults ELSE 0
    OBVIOUS
  <2> HIDE DEF b
  <2>3. toTerm' = toTerm /\ faults' = b + 0
    BY <1>1, <2>2, ManagerSent, Zenon
  <2> QED
    BY <2>1, <2>3, LinkAssumption
<1> DEFINE l == Len(toTerm)
           k == Len(toMgr)
           j == Len(toMgr')
<1>5. l \in 0..2 /\ k \in 0..2 /\ toMgr \in Seq(Results) /\ toTerm \in Seq(LinePackets)
  BY TypesHold
<1>6. toMgr' \in Seq(Results) /\ j = k - 1 /\ k # 0
  BY <1>2, <1>5, TailOf, Zenon
<1>7. l + k <= IF IsLast(table, chunk) THEN 2 ELSE 1
  BY <1>1, <1>2 DEF LineInv, Answered
<1>8. l + j <= 1 /\ j <= 2 /\ (~IsLast(table, chunk) => l = 0 /\ j = 0)
  <2> HIDE DEF l, k, j
  <2> QED
    BY <1>5, <1>6, <1>7
<1>9. LinkTypeOK'
  BY <1>1, <1>4, <1>6, <1>8 DEF LineInv, LinkTypeOK
<1>10. Current'
  BY <1>1, <1>2, <1>4 DEF LineInv, Current, Accepted, IInv, Blocked
<1>11. Between'
  <2>1. ~Accepted'
    BY <1>1, <1>2, TypesHold DEF Accepted, NextSeq, Seqs, SEQ_MOD
  <2>2. Settled' => toMgr' = <<>> /\ AllAre({"ACK"})'
    <3> SUFFICES ASSUME Settled' PROVE toMgr' = <<>> /\ AllAre({"ACK"})'
      OBVIOUS
    <3>1. ~IsLast(table, chunk)
      BY <1>1 DEF Settled, IsLast
    <3>2. l = 0 /\ j = 0
      BY <1>8, <3>1
    <3>3. toMgr' = <<>>
      BY <1>6, <3>2, EmptySeq
    <3>4. AllAre({"ACK"})'
      BY <1>4, <3>2 DEF AllAre
    <3> QED
      BY <3>3, <3>4
  <2>3. Len(toTerm') + Len(toMgr') <= 1
    BY <1>4, <1>8
  <2> QED
    BY <2>1, <2>2, <2>3 DEF Between
<1>12. Calm' /\ SuccessMeansDelivered'
  BY <1>1, <1>3 DEF Calm, SuccessMeansDelivered
<1> QED
  BY <1>1, <1>9, <1>10, <1>11, <1>12 DEF LineInv, Progress, Unaccepted, Answered, Paid

\* The attempts at a packet run out only when the call drops.
LEMMA GivesUpDown ==
    ASSUME IInv, LineInv, FewFaults, NEW r \in Results, Reads(r), GiveUp(r)
    PROVE  ~connected'
<1> SUFFICES ASSUME connected' PROVE FALSE
  OBVIOUS
<1>1. pc = "TxAck" /\ AckStatus(r) # {} /\ retries = PKT_MAX_RETRIES - 1 /\ ~HangsUp(r)
  BY DEF GiveUp, Survives
<1> DEFINE t == Count(toTerm, BadData)
           n == Count(toMgr', BadResults)
<1>2. retries + 1 + t + n <= faults
  BY <1>1, FailedAttempt
<1>3. t \in 0..2 /\ n \in 0..2
  BY CountType
<1>4. retries = 4 /\ faults \in Nat /\ MaxFaults \in Nat /\ faults <= MaxFaults /\ MaxFaults < 5
  BY <1>1, TypesHold DEF FewFaults, PKT_MAX_RETRIES
<1> HIDE DEF t, n
<1> QED
  BY ONLY <1>2, <1>3, <1>4

\* Whatever a blocking read of the manager returns.
LEMMA ReadLine ==
    ASSUME IInv, IInv', LineInv, FewFaults, ManagerReceives \/ ManagerTimesOut \/ LineDrops
    PROVE  LineInv'
<1>1. PICK r \in Results : Reads(r)
  BY ReadCases DEF LineInv
<1>2. CASE pc # "TxAck"
  BY <1>1, <1>2, BetweenReads
<1>3. CASE pc = "TxAck"
  <2>1. ChunkAcked(r) \/ TableSent(r) \/ Retransmit(r) \/ SendDropped(r) \/ GiveUp(r)
    BY <1>1, <1>3 DEF Reads, ManagerReads, Resume, ReceiveData, ReceiveShort, ReceiveBad,
       ReceiveDown, NackAnswered, TableAcked, WrongTable, ShortIgnored, AskRetry, TableAckDown,
       RetryAnswered, RetryDown
  <2>2. SendDropped(r) => ~connected'
    BY DEF SendDropped, LineState
  <2>3. GiveUp(r) => ~connected'
    BY <1>1, GivesUpDown
  <2> QED
    BY <1>1, <2>1, <2>2, <2>3, ChunkAckedLine, TableSentLine, RetransmitLine, SendDownLine
<1> QED
  BY <1>2, <1>3

----------------------------------------------------------------------------
(* The manager's client. *)

\* A call starts with the terminal's request on its way.
LEMMA CallLine ==
    ASSUME IInv, IInv', LineInv, NEW t \in Terminals, Call(t)
    PROVE  LineInv'
<1>1. /\ pc = "Idle" /\ connected' /\ tx_seq' = 0 /\ op' = "none" /\ buf' = "none" /\ pc' = "Idle"
      /\ toTerm' = <<>> /\ lastseq' = NoSeq /\ tseq' = 1 /\ got' = got
      /\ pending' = TermData(0, None)
      /\ \/ toMgr' = <<pending'>> /\ faults' = 0
         \/ MaxFaults > 0 /\ toMgr' \in {<<Damaged>>, <<>>} /\ faults' = 1
  BY DEF Call, Connect
<1>2. pending' \in Results /\ Damaged \in Results
  BY <1>1, Answers DEF Seqs, SEQ_MOD
<1>3. faults' \in 0..MaxFaults
  BY <1>1, LinkAssumption
<1>4. toMgr' \in Seq(Results) /\ Len(toMgr') \in 0..1
  <2>1. CASE toMgr' = <<>>
    BY <2>1, Empty
  <2>2. CASE toMgr' = <<pending'>>
    BY <1>2, <2>2
  <2>3. CASE toMgr' = <<Damaged>>
    BY <1>2, <2>3
  <2> QED
    BY <1>1, <2>1, <2>2, <2>3
<1>5. toTerm' \in Seq(LinePackets) /\ Len(toTerm') = 0
  BY <1>1, Empty
<1>8. Len(toTerm') + Len(toMgr') <= 1 /\ Len(toTerm') <= 2 /\ Len(toMgr') <= 2
  <2> DEFINE l == Len(toTerm')
             k == Len(toMgr')
  <2> HIDE DEF l, k
  <2>1. l = 0 /\ k \in 0..1 => l + k <= 1 /\ l <= 2 /\ k <= 2
    OBVIOUS
  <2> QED
    BY <1>4, <1>5, <2>1 DEF l, k
<1>6. LinkTypeOK'
  <2>1. 1 \in Seqs
    BY DEF Seqs, SEQ_MOD
  <2>2. got \in Seq(Tables \X (1..MaxChunks))
    BY DEF LineInv, LinkTypeOK
  <2> QED
    BY <1>1, <1>2, <1>3, <1>4, <1>5, <1>8, <2>1, <2>2 DEF LinkTypeOK
<1>7. ~Accepted'
  BY <1>1 DEF Accepted, NoSeq, SEQ_MOD
<1> QED
  BY <1>1, <1>5, <1>6, <1>7, <1>8 DEF LineInv, Calm, Progress, Current, Unaccepted, Answered, Paid,
     Between, Settled, SuccessMeansDelivered, Sending

LEMMA HangUpLine ==
    ASSUME IInv, IInv', LineInv, HangUp
    PROVE  LineInv'
<1>1. /\ ~connected' /\ op' = "none" /\ buf' = "none" /\ toTerm' = <<>> /\ toMgr' = <<>>
      /\ UNCHANGED <<lastseq, tseq, pending, got, faults>>
  BY DEF HangUp, Disconnect, termVars
<1>2. LinkTypeOK'
  <2>1. <<>> \in Seq(LinePackets) /\ <<>> \in Seq(Results) /\ Len(<<>>) = 0
    BY Empty
  <2> QED
    BY <1>1, <2>1 DEF LineInv, LinkTypeOK
<1> QED
  BY <1>1, <1>2, DeadLine DEF SuccessMeansDelivered, Sending

\* The manager goes on to wait for the terminal, with the line as it is.
LEMMA WaitLine ==
    ASSUME IInv, IInv', LineInv, Receive \/ \E t \in Tables : AwaitAck(t)
    PROVE  LineInv'
<1>1. /\ UNCHANGED <<toTerm, toMgr, faults, lastseq, tseq, pending, got, connected, tx_seq>>
      /\ pc = "Idle" /\ op' \in {"receive", "tableack"} /\ (connected => pc' # "Idle")
      /\ pc' # "TxAck"
  BY DEF Receive, AwaitAck, StartReceive, StartTableAck, StartTableAckDown, lineVars, termVars,
     protoVars
<1>2. LinkTypeOK' /\ Accepted' = Accepted
  BY <1>1 DEF LineInv, LinkTypeOK, Accepted
<1> QED
  BY <1>1, <1>2 DEF LineInv, Calm, Progress, Current, Unaccepted, Answered, Paid, Between, Settled,
     SuccessMeansDelivered, Sending, AllAre

LEMMA DownloadLine ==
    ASSUME IInv, IInv', LineInv, NEW t \in Tables, Download(t)
    PROVE  LineInv'
<1>1. /\ op = "send" => ret # {} \/ table \in Replies
      /\ StartSend(t, SizeOf(t)) \/ StartSendDown(t, SizeOf(t))
      /\ got' = <<>> /\ ManagerSends(toTerm)
      /\ UNCHANGED <<toMgr, lastseq, tseq, pending>>
  BY DEF Download, termVars
<1>2. CASE StartSendDown(t, SizeOf(t))
  <2>1. ~connected' /\ ~connected /\ op' = "send" /\ ret' = {"DISCONNECT"}
    BY <1>2 DEF StartSendDown, protoVars
  <2>2. toTerm' = <<>> /\ toMgr' = <<>> /\ faults' \in 0..MaxFaults
    BY <1>1, <2>1, ManagerSentDown DEF LineInv, LinkTypeOK, Calm
  <2>3. LinkTypeOK'
    <3>1. /\ <<>> \in Seq(LinePackets) /\ <<>> \in Seq(Results) /\ Len(<<>>) = 0
          /\ <<>> \in Seq(Tables \X (1..MaxChunks))
      BY Empty
    <3> QED
      BY <1>1, <2>2, <3>1 DEF LineInv, LinkTypeOK
  <2> QED
    BY <2>1, <2>2, <2>3, DeadLine DEF SuccessMeansDelivered
<1>3. CASE StartSend(t, SizeOf(t))
  <2>1. /\ pc = "Idle" /\ connected /\ Processing /\ connected' /\ pc' = "TxAck" /\ retries' = 0
        /\ table' = t /\ nchunks' = SizeOf(t) /\ chunk' = 1 /\ out' = Data(tx_seq, t, 1)
        /\ tx_seq' = tx_seq
    BY <1>3 DEF StartSend
  <2>2. op # "none" /\ (op = "send" => table \in Replies)
    BY <1>1, <2>1 DEF LineInv, Calm, Processing
  <2>3. toMgr = <<>> /\ AllAre({"ACK"}) /\ ~Accepted /\ Len(toTerm) + Len(toMgr) <= 1
    BY <2>1, <2>2 DEF LineInv, Between, Settled
  <2>4. Len(toTerm) <= 1
    <3>1. Len(toMgr) = 0
      BY <2>3, Empty
    <3>2. Len(toTerm) \in 0..2
      BY TypesHold
    <3> QED
      BY <2>3, <3>1, <3>2
  <2>5. out'.kind = "DATA" /\ out'.seq = tx_seq' /\ out'.table = table' /\ out'.chunk = chunk'
    BY <2>1, DataFields
  <2>6. /\ lastseq' \in Seqs \cup {NoSeq} /\ tseq' \in Seqs /\ pending' \in Results \cup {None}
        /\ lastseq' # tx_seq'
    BY <1>1, <2>1, <2>3 DEF LineInv, LinkTypeOK, Accepted
  <2>7. got' = [i \in 1..(chunk' - 1) |-> <<table', i>>]
    <3>1. chunk' - 1 = 0 /\ 0 \in 0..MaxChunks
      BY <2>1, ConstantsAssumption
    <3>2. /\ [i \in 1..0 |-> <<t, i>>] \in Seq(Tables \X (1..MaxChunks))
          /\ Len([i \in 1..0 |-> <<t, i>>]) = 0
      BY <3>1, Pieces
    <3>3. [i \in 1..0 |-> <<t, i>>] = <<>>
      BY <3>2, EmptySeq
    <3> QED
      BY <1>1, <2>1, <3>1, <3>3
  <2>8. toTerm \in Seq(LinePackets) /\ faults \in Nat
    BY TypesHold
  <2>9. table' \in Tables /\ nchunks' = SizeOf(table') /\ toMgr' = <<>>
    BY <1>1, <2>1, <2>3
  <2> QED
    BY <1>1, <2>1, <2>3, <2>4, <2>5, <2>6, <2>7, <2>8, <2>9, FreshPacket
<1> QED
  BY <1>1, <1>2, <1>3

----------------------------------------------------------------------------
(* The terminal. *)

\* The terminal takes the first packet off the line.
LEMMA Arrival ==
    ASSUME LineInv, Takes
    PROVE  /\ connected
           /\ Arrived = toTerm[1] /\ Arrived \in LinePackets
           /\ toTerm' \in Seq(LinePackets)
           /\ Len(toTerm) \in 1..2 /\ Len(toTerm') = Len(toTerm) - 1
           /\ \A i \in 1..Len(toTerm') : i + 1 \in 1..Len(toTerm) /\ toTerm'[i] = toTerm[i + 1]
           /\ 1 \in 1..Len(toTerm)
           /\ Count(toTerm', BadData) =
                  Count(toTerm, BadData) - (IF Arrived \in BadData THEN 1 ELSE 0)
<1>1. toTerm # <<>> /\ toTerm' = Tail(toTerm) /\ Arrived = Head(toTerm)
  BY DEF Takes, Arrived
<1>2. toTerm \in Seq(LinePackets) /\ Len(toTerm) <= 2 /\ (~connected => toTerm = <<>>)
  BY DEF LineInv, LinkTypeOK, Calm
<1>3. /\ Len(toTerm) \in Nat \ {0}
      /\ Head(toTerm) = toTerm[1] /\ Head(toTerm) \in LinePackets
      /\ Tail(toTerm) \in Seq(LinePackets)
      /\ Len(Tail(toTerm)) = Len(toTerm) - 1
      /\ \A i \in 1..Len(Tail(toTerm)) : i + 1 \in 1..Len(toTerm) /\ Tail(toTerm)[i] = toTerm[i + 1]
  BY <1>1, <1>2, TailOf, Zenon
<1>4. Count(Tail(toTerm), BadData) =
          Count(toTerm, BadData) - (IF Head(toTerm) \in BadData THEN 1 ELSE 0)
  BY <1>1, <1>2, CountTail, Zenon
<1>5. Len(toTerm) \in 1..2 /\ 1 \in 1..Len(toTerm)
  BY <1>2, <1>3, SmallLengths, Zenon
<1> QED
  BY <1>1, <1>2, <1>3, <1>4, <1>5

\* The terminal's answer, with the damage done to it.
LEMMA TerminalSent ==
    ASSUME toMgr \in Seq(Results), Len(toMgr) \in 0..1, faults \in Nat,
           NEW r \in Results, TerminalSends(r)
    PROVE  /\ faults' \in 0..MaxFaults
           /\ toMgr' \in Seq(Results) /\ Len(toMgr') \in Len(toMgr)..(Len(toMgr) + 1)
           /\ faults + Count(toMgr', BadResults)
                  <= faults' + Count(toMgr, BadResults) + (IF r \in BadResults THEN 1 ELSE 0)
           /\ toMgr' = <<>> => faults + 1 <= faults'
           /\ \A i \in 1..Len(toMgr') : i \in 1..Len(toMgr) \/ toMgr'[i] \in {r, Damaged}
<1> DEFINE d == IF r \in BadResults THEN 1 ELSE 0
           m == Count(toMgr, BadResults)
           m2 == Count(toMgr', BadResults)
           l == Len(toMgr)
           l2 == Len(toMgr')
<1>1. Damaged \in Results /\ Damaged \in BadResults
  BY Answers DEF Seqs, SEQ_MOD
<1>2. m \in 0..2 /\ m2 \in 0..2 /\ d \in 0..1 /\ l \in 0..1 /\ MaxFaults \in Nat
  BY CountType, LinkAssumption
<1>3. /\ faults' <= MaxFaults
      /\ \/ toMgr' = Append(toMgr, r) /\ faults' = faults + 0
         \/ toMgr' = Append(toMgr, Damaged) /\ faults' = faults + 1
         \/ toMgr' = toMgr /\ faults' = faults + 1
  BY Zenon DEF TerminalSends, Harm
<1>4. ASSUME NEW e \in Results, toMgr' = Append(toMgr, e)
      PROVE  /\ toMgr' \in Seq(Results) /\ toMgr' # <<>> /\ l2 = l + 1
             /\ m2 = m + (IF e \in BadResults THEN 1 ELSE 0)
             /\ \A i \in 1..l2 : i \in 1..l \/ toMgr'[i] = e
  <2>1. /\ toMgr' \in Seq(Results) /\ toMgr' # <<>> /\ l2 = l + 1
        /\ \A i \in 1..l2 : i \in 1..l \/ toMgr'[i] = e
    BY <1>4, AppendTo
  <2>2. l <= 1
    BY <1>2, SmallLengths, Zenon
  <2>3. m2 = m + (IF e \in BadResults THEN 1 ELSE 0)
    BY <1>4, <2>2, CountAppend
  <2> QED
    BY <2>1, <2>3
<1>5. CASE toMgr' = Append(toMgr, r) /\ faults' = faults + 0
  <2>1. /\ toMgr' \in Seq(Results) /\ toMgr' # <<>> /\ l2 = l + 1 /\ m2 = m + d
        /\ \A i \in 1..l2 : i \in 1..l \/ toMgr'[i] = r
    BY <1>4, <1>5
  <2> HIDE DEF m, m2, d, l, l2
  <2> QED
    BY <1>2, <1>3, <1>5, <2>1 DEF m, m2, d, l, l2
<1>6. CASE toMgr' = Append(toMgr, Damaged) /\ faults' = faults + 1
  <2>1. /\ toMgr' \in Seq(Results) /\ toMgr' # <<>> /\ l2 = l + 1 /\ m2 = m + 1
        /\ \A i \in 1..l2 : i \in 1..l \/ toMgr'[i] = Damaged
    BY <1>1, <1>4, <1>6
  <2> HIDE DEF m, m2, d, l, l2
  <2> QED
    BY <1>2, <1>3, <1>6, <2>1 DEF m, m2, d, l, l2
<1>7. CASE toMgr' = toMgr /\ faults' = faults + 1
  <2>1. m2 = m /\ l2 = l
    BY <1>7
  <2>2. toMgr' \in Seq(Results) /\ \A i \in 1..l2 : i \in 1..l
    BY <1>7
  <2> HIDE DEF m, m2, d, l, l2
  <2> QED
    BY <1>2, <1>3, <1>7, <2>1, <2>2 DEF m, m2, d, l, l2
<1> QED
  BY <1>3, <1>5, <1>6, <1>7

\* Between two packets of the manager the terminal answers the one packet on the line.
LEMMA TerminalBetween ==
    ASSUME IInv, LineInv, Terminal, pc # "TxAck"
    PROVE  LineInv'
<1>1. UNCHANGED vars /\ Takes
  BY DEF Terminal, TermAccepts, TermDropsDuplicate, TermNacks, TermAcked, TermRetries
<1>2. /\ connected /\ Arrived = toTerm[1] /\ Arrived \in LinePackets
      /\ toTerm' \in Seq(LinePackets) /\ Len(toTerm) \in 1..2 /\ Len(toTerm') = Len(toTerm) - 1
      /\ 1 \in 1..Len(toTerm)
  BY <1>1, Arrival
<1>3. /\ ~Accepted /\ Len(toTerm) + Len(toMgr) <= 1
      /\ Settled => toMgr = <<>> /\ AllAre({"ACK"})
  BY <1>2 DEF LineInv, Between
<1>4. Len(toTerm) = 1 /\ Len(toMgr) = 0 /\ Len(toTerm') = 0
  <2> DEFINE l == Len(toTerm)
             k == Len(toMgr)
  <2>1. l \in 1..2 /\ k \in 0..2 /\ l + k <= 1
    BY <1>2, <1>3, TypesHold
  <2> HIDE DEF l, k
  <2>2. l = 1 /\ k = 0
    BY <2>1
  <2> QED
    BY <1>2, <2>2 DEF l, k
<1>5. toMgr = <<>> /\ toTerm' = <<>> /\ toMgr \in Seq(Results) /\ Len(toMgr) \in 0..1
  BY <1>2, <1>4, EmptySeq DEF LineInv, LinkTypeOK
<1>6. Arrived.pkt = "DATA" => Arrived.seq = lastseq
  BY <1>2 DEF LineInv, Current
<1>7. Arrived.seq \in Seqs /\ faults \in Nat /\ faults \in 0..MaxFaults
  BY <1>2, TypesHold DEF LinePackets
<1>8. \A r \in Results : TerminalSends(r) =>
          faults' \in 0..MaxFaults /\ toMgr' \in Seq(Results) /\ Len(toMgr') \in 0..1
  <2> SUFFICES ASSUME NEW r \in Results, TerminalSends(r)
               PROVE  faults' \in 0..MaxFaults /\ toMgr' \in Seq(Results) /\ Len(toMgr') \in 0..1
    OBVIOUS
  <2>1. /\ faults' \in 0..MaxFaults /\ toMgr' \in Seq(Results)
        /\ Len(toMgr') \in Len(toMgr)..(Len(toMgr) + 1)
    BY <1>5, <1>7, TerminalSent
  <2> QED
    BY <1>4, <2>1
<1>9. /\ faults' \in 0..MaxFaults /\ toMgr' \in Seq(Results) /\ Len(toMgr') \in 0..1
      /\ UNCHANGED <<lastseq, tseq, got>> /\ pending' \in Results \cup {None}
      /\ Settled => toMgr' = <<>>
  <2>1. pending \in Results \cup {None}
    BY DEF LineInv, LinkTypeOK
  <2>2. Settled => Arrived.pkt = "ACK"
    BY <1>2, <1>3 DEF AllAre
  <2>3. /\ TermAck(Arrived.seq) \in Results /\ TermNack(Arrived.seq) \in Results
        /\ (pending # None => pending \in Results)
    BY <1>7, <2>1, Answers
  <2>4. CASE TermAccepts
    BY <1>6, <2>4 DEF TermAccepts
  <2>5. CASE TermDropsDuplicate
    BY <1>8, <2>1, <2>2, <2>3, <2>5 DEF TermDropsDuplicate, termVars
  <2>6. CASE TermNacks
    <3>1. UNCHANGED <<lastseq, tseq, got, pending>>
      BY <2>6 DEF TermNacks, termVars
    <3>2. CASE Arrived.pkt = "DATA"
      BY <1>8, <2>1, <2>2, <2>3, <2>6, <3>1, <3>2 DEF TermNacks
    <3>3. CASE Arrived.pkt # "DATA"
      BY <1>5, <1>7, <2>1, <2>6, <3>1, <3>3 DEF TermNacks
    <3> QED
      BY <3>2, <3>3
  <2>7. CASE TermAcked
    BY <1>5, <1>7, <2>7 DEF TermAcked
  <2>8. CASE TermRetries
    <3>1. TerminalSends(IF pending = None THEN TermNack(Arrived.seq) ELSE pending)
          /\ UNCHANGED <<lastseq, tseq, got, pending>> /\ Arrived.pkt # "ACK"
      BY <2>8 DEF TermRetries, termVars
    <3>2. (IF pending = None THEN TermNack(Arrived.seq) ELSE pending) \in Results
      BY <2>3
    <3> QED
      BY <1>8, <2>1, <2>2, <3>1, <3>2
  <2> QED
    BY <2>4, <2>5, <2>6, <2>7, <2>8 DEF Terminal
<1>10. /\ UNCHANGED <<connected, tx_seq, op, table, chunk, nchunks, retries, pc, ret, buf>>
  BY <1>1 DEF vars, protoVars, callVars
<1>11. Accepted' = Accepted /\ Settled' = Settled
  BY <1>9, <1>10 DEF Accepted, Settled
<1>12. /\ Len(toMgr') <= 2 /\ Len(toTerm') <= 2 /\ Len(toTerm') + Len(toMgr') <= 1
       /\ \A i \in 1..Len(toTerm') : FALSE
  <2> DEFINE k == Len(toMgr')
             l == Len(toTerm')
  <2>1. k \in 0..1 /\ l = 0
    BY <1>4, <1>9
  <2> HIDE DEF k, l
  <2>2. k <= 2 /\ l <= 2 /\ l + k <= 1 /\ \A i \in 1..l : FALSE
    BY <2>1
  <2> QED
    BY <2>2 DEF k, l
<1>13. LinkTypeOK'
  BY <1>2, <1>9, <1>12 DEF LineInv, LinkTypeOK
<1>14. Between' /\ Current' /\ Calm' /\ SuccessMeansDelivered'
  BY <1>2, <1>3, <1>9, <1>10, <1>11, <1>12 DEF LineInv, Between, Current, Calm, AllAre,
     SuccessMeansDelivered, Sending
<1> QED
  BY <1>10, <1>13, <1>14 DEF LineInv, Progress, Unaccepted, Answered, Paid

\* An answer that does not acknowledge the packet is paid for by the damage to the packet.
LEMMA AnswerPaid ==
    ASSUME IInv, LineInv, Takes, UNCHANGED vars, pc = "TxAck", Len(toMgr) \in 0..1,
           NEW r \in Results, TerminalSends(r), r \in BadResults => Arrived \in BadData
    PROVE  Paid'
<1> DEFINE t == Count(toTerm, BadData)
           t2 == Count(toTerm', BadData)
           m == Count(toMgr, BadResults)
           m2 == Count(toMgr', BadResults)
           d == IF Arrived \in BadData THEN 1 ELSE 0
           e == IF r \in BadResults THEN 1 ELSE 0
<1>1. t2 = t - d
  BY Arrival
<1>2. faults + m2 <= faults' + m + e /\ faults' \in Nat /\ (toMgr' = <<>> => faults + 1 <= faults')
  <2>1. toMgr \in Seq(Results) /\ faults \in Nat
    BY TypesHold
  <2> QED
    BY <2>1, TerminalSent
<1>3. retries + t + m <= faults /\ retries \in Nat /\ faults \in Nat
  BY TypesHold DEF LineInv, Paid
<1>4. t \in 0..2 /\ m \in 0..2 /\ t2 \in 0..2 /\ m2 \in 0..2 /\ d \in 0..1 /\ e \in 0..1 /\ e <= d
  BY CountType
<1>5. retries' = retries
  BY DEF vars, callVars
<1>6. \A a, f, f2 \in Nat : \A x, x2, y, y2 \in 0..2 : \A v, w \in 0..1 :
          a + x + y <= f /\ f + y2 <= f2 + y + w /\ x2 = x - v /\ w <= v =>
              a + x2 + y2 <= f2 /\ (f + 1 <= f2 => a + 1 <= f2)
  OBVIOUS
<1> HIDE DEF t, t2, m, m2, d, e
<1>7. retries + t2 + m2 <= faults' /\ (faults + 1 <= faults' => retries + 1 <= faults')
  BY <1>1, <1>2, <1>3, <1>4, <1>6
<1> QED
  BY <1>2, <1>5, <1>7 DEF Paid, t2, m2

\* A retransmission of the packet the terminal has: it acknowledges it again.
LEMMA TerminalRepeats ==
    ASSUME IInv, LineInv, Terminal, pc = "TxAck", Accepted
    PROVE  LineInv'
<1>1. UNCHANGED vars /\ Takes
  BY DEF Terminal, TermAccepts, TermDropsDuplicate, TermNacks, TermAcked, TermRetries
<1>2. /\ connected /\ Arrived = toTerm[1] /\ Arrived \in LinePackets
      /\ toTerm' \in Seq(LinePackets) /\ Len(toTerm) \in 1..2 /\ Len(toTerm') = Len(toTerm) - 1
      /\ 1 \in 1..Len(toTerm)
      /\ \A i \in 1..Len(toTerm') : i + 1 \in 1..Len(toTerm) /\ toTerm'[i] = toTerm[i + 1]
  BY <1>1, Arrival
<1>3. /\ AllAre({"DATA"})
      /\ Len(toTerm) + Len(toMgr) <= IF IsLast(table, chunk) THEN 2 ELSE 1
  BY DEF LineInv, Answered
<1>4. Arrived.pkt = "DATA" /\ Arrived.seq = lastseq /\ Arrived.seq \in Seqs
  BY <1>2, <1>3 DEF LineInv, Current, AllAre, Accepted, LinePackets
<1>5. /\ UNCHANGED <<lastseq, tseq, pending, got>>
      /\ \/ Arrived.ok /\ TerminalSends(TermAck(Arrived.seq))
         \/ ~Arrived.ok /\ TerminalSends(TermNack(Arrived.seq))
  BY <1>4 DEF Terminal, TermAccepts, TermDropsDuplicate, TermNacks, TermAcked, TermRetries, termVars
<1>6. PICK r \in Results : TerminalSends(r) /\ (r \in BadResults => Arrived \in BadData)
  BY <1>2, <1>4, <1>5, Answers DEF BadData
<1> DEFINE l == Len(toTerm)
           l2 == Len(toTerm')
           k == Len(toMgr)
           k2 == Len(toMgr')
<1>7. k \in 0..1
  <2>1. k \in 0..2 /\ l \in 1..2 /\ l + k <= 2
    BY <1>2, <1>3, TypesHold
  <2> HIDE DEF k, l
  <2> QED
    BY <2>1
<1>8. Paid'
  BY <1>1, <1>6, <1>7, AnswerPaid
<1>9. faults' \in 0..MaxFaults /\ toMgr' \in Seq(Results) /\ k2 \in k..(k + 1)
  BY <1>6, <1>7, TerminalSent, TypesHold
<1>10. k2 <= 2 /\ l2 <= 2 /\ l2 + k2 <= IF IsLast(table, chunk) THEN 2 ELSE 1
  <2>1. /\ l \in 1..2 /\ l2 = l - 1
        /\ l + k <= IF IsLast(table, chunk) THEN 2 ELSE 1
    BY <1>2, <1>3
  <2> HIDE DEF l, l2, k, k2
  <2> QED
    BY <1>7, <1>9, <2>1
<1>11. UNCHANGED <<connected, tx_seq, op, table, chunk, nchunks, retries, pc, ret, buf>>
  BY <1>1 DEF vars, protoVars, callVars
<1>12. LinkTypeOK'
  BY <1>2, <1>5, <1>9, <1>10 DEF LineInv, LinkTypeOK
<1>13. Accepted'
  BY <1>5, <1>11 DEF Accepted
<1>14. Current'
  BY <1>2, <1>11 DEF LineInv, Current
<1>15. Answered'
  <2>1. AllAre({"DATA"})'
    BY <1>2, <1>3 DEF AllAre
  <2> QED
    BY <1>10, <1>11, <2>1 DEF Answered, IsLast
<1>16. Calm' /\ Progress' /\ SuccessMeansDelivered'
  BY <1>2, <1>5, <1>11, <1>13 DEF LineInv, Calm, Progress, SuccessMeansDelivered, Sending
<1> QED
  BY <1>8, <1>11, <1>12, <1>13, <1>14, <1>15, <1>16 DEF LineInv, Unaccepted, Between

\* Before it has the packet the terminal gets the manager's acknowledgement of its own
\* packet, which it does not answer.
LEMMA TerminalAcked ==
    ASSUME IInv, LineInv, Terminal, pc = "TxAck", ~Accepted, Arrived.pkt # "DATA"
    PROVE  LineInv'
<1>1. UNCHANGED vars /\ Takes
  BY DEF Terminal, TermAccepts, TermDropsDuplicate, TermNacks, TermAcked, TermRetries
<1>2. /\ connected /\ Arrived = toTerm[1] /\ Arrived \in LinePackets
      /\ toTerm' \in Seq(LinePackets) /\ Len(toTerm) \in 1..2 /\ Len(toTerm') = Len(toTerm) - 1
      /\ 1 \in 1..Len(toTerm)
      /\ \A i \in 1..Len(toTerm') : i + 1 \in 1..Len(toTerm) /\ toTerm'[i] = toTerm[i + 1]
      /\ Count(toTerm', BadData) = Count(toTerm, BadData) - (IF Arrived \in BadData THEN 1 ELSE 0)
  BY <1>1, Arrival
<1>3. /\ toMgr # <<>> => toTerm = <<>>
      /\ AllAre({"ACK", "DATA"})
      /\ Len(toTerm) = 2 => toTerm[1].pkt = "ACK" /\ toTerm[2].pkt = "DATA"
  BY DEF LineInv, Unaccepted
<1>4. toMgr = <<>>
  BY <1>1, <1>3 DEF Takes
<1>5. Arrived.pkt = "ACK"
  BY <1>2, <1>3 DEF AllAre
<1>6. toMgr' = toMgr /\ UNCHANGED <<lastseq, tseq, got, faults>> /\ pending' \in Results \cup {None}
  <2>1. pending \in Results \cup {None}
    BY DEF LineInv, LinkTypeOK
  <2> QED
    BY <1>5, <2>1 DEF Terminal, TermAccepts, TermDropsDuplicate, TermNacks, TermAcked, TermRetries,
       termVars
<1>7. Count(toTerm', BadData) = Count(toTerm, BadData)
  <2>1. Arrived \notin BadData
    BY <1>5 DEF BadData
  <2>2. Count(toTerm, BadData) \in 0..2
    BY CountType
  <2> QED
    BY <1>2, <2>1, <2>2
<1>8. UNCHANGED <<connected, tx_seq, op, table, chunk, nchunks, retries, pc, ret, buf>>
  BY <1>1 DEF vars, protoVars, callVars
<1> DEFINE l == Len(toTerm)
           l2 == Len(toTerm')
<1>9. l2 \in 0..1 /\ (l2 # 0 => l = 2 /\ l2 = 1)
  <2>1. l \in 1..2 /\ l2 = l - 1
    BY <1>2
  <2> HIDE DEF l, l2
  <2> QED
    BY <2>1
<1>10. \A i \in 1..l2 : toTerm'[i].pkt = "DATA"
  <2> SUFFICES ASSUME NEW i \in 1..l2 PROVE toTerm'[i].pkt = "DATA"
    OBVIOUS
  <2>1. l2 = 1 /\ l = 2 /\ i = 1
    <3> HIDE DEF l, l2
    <3> QED
      BY <1>9
  <2>2. i + 1 = 2 /\ toTerm'[i] = toTerm[i + 1]
    BY <1>2, <2>1
  <2>3. toTerm[2].pkt = "DATA"
    BY <1>3, <2>1
  <2> QED
    BY <2>2, <2>3
<1>11. l2 <= 2
  BY <1>9, SmallLengths
<1>12. LinkTypeOK'
  BY <1>2, <1>4, <1>6, <1>11 DEF LineInv, LinkTypeOK
<1>13. ~Accepted'
  BY <1>6, <1>8 DEF Accepted
<1>14. Current'
  BY <1>2, <1>8 DEF LineInv, Current
<1>15. Unaccepted'
  <2>1. AllAre({"ACK", "DATA"})'
    BY <1>10 DEF AllAre
  <2>2. l2 # 2
    BY <1>9
  <2> QED
    BY <1>4, <1>6, <1>11, <2>1, <2>2 DEF Unaccepted
<1>16. Paid'
  <2>1. AllAre(Kinds \ {"DATA"})' => AllAre(Kinds \ {"DATA"})
    <3> SUFFICES ASSUME AllAre(Kinds \ {"DATA"})' PROVE AllAre(Kinds \ {"DATA"})
      OBVIOUS
    <3>1. l2 = 0
      BY <1>9, <1>10 DEF AllAre
    <3>2. l = 1
      <4> HIDE DEF l, l2
      <4> QED
        BY <1>2, <3>1 DEF l, l2
    <3> QED
      BY <1>2, <1>5, <3>2 DEF AllAre, Kinds
  <2> QED
    BY <1>4, <1>6, <1>7, <1>8, <2>1 DEF LineInv, Paid
<1>17. Calm' /\ Progress' /\ SuccessMeansDelivered'
  BY <1>2, <1>6, <1>8, <1>13 DEF LineInv, Calm, Progress, SuccessMeansDelivered, Sending, Accepted
<1> QED
  BY <1>8, <1>12, <1>13, <1>14, <1>15, <1>16, <1>17 DEF LineInv, Answered, Between

\* The packet reaches the terminal with nothing else on the line.
LEMMA FirstArrival ==
    ASSUME IInv, LineInv, Takes, pc = "TxAck", ~Accepted, Arrived.pkt = "DATA"
    PROVE  /\ connected /\ Arrived \in LinePackets
           /\ Arrived.seq = tx_seq /\ Arrived.table = table /\ Arrived.chunk = chunk
           /\ toMgr = <<>> /\ toTerm' = <<>>
           /\ Count(toTerm', BadData) =
                  Count(toTerm, BadData) - (IF Arrived \in BadData THEN 1 ELSE 0)
<1>1. /\ connected /\ Arrived = toTerm[1] /\ Arrived \in LinePackets
      /\ toTerm' \in Seq(LinePackets) /\ Len(toTerm) \in 1..2 /\ Len(toTerm') = Len(toTerm) - 1
      /\ 1 \in 1..Len(toTerm)
      /\ Count(toTerm', BadData) = Count(toTerm, BadData) - (IF Arrived \in BadData THEN 1 ELSE 0)
  BY Arrival
<1>2. /\ toMgr # <<>> => toTerm = <<>>
      /\ Len(toTerm) = 2 => toTerm[1].pkt = "ACK" /\ toTerm[2].pkt = "DATA"
  BY DEF LineInv, Unaccepted
<1>3. Len(toTerm') = 0
  BY <1>1, <1>2
<1>4. toTerm' = <<>> /\ toMgr = <<>>
  BY <1>1, <1>2, <1>3, EmptySeq DEF Takes
<1> QED
  BY <1>1, <1>4 DEF LineInv, Current

\* It comes damaged, and the terminal asks for it again.
LEMMA TerminalNacked ==
    ASSUME IInv, LineInv, TermNacks, pc = "TxAck", ~Accepted, Arrived.pkt = "DATA"
    PROVE  LineInv'
<1>1. /\ UNCHANGED vars /\ Takes /\ ~Arrived.ok /\ TerminalSends(TermNack(Arrived.seq))
      /\ UNCHANGED <<lastseq, tseq, pending, got>>
  BY DEF TermNacks, termVars
<1>2. connected /\ Arrived \in LinePackets /\ toMgr = <<>> /\ toTerm' = <<>>
  BY <1>1, FirstArrival
<1>3. /\ TermNack(Arrived.seq) \in Results /\ TermNack(Arrived.seq) \in BadResults
      /\ Damaged \in BadResults /\ Arrived \in BadData
  BY <1>1, <1>2, Answers DEF LinePackets, BadData
<1>4. toMgr \in Seq(Results) /\ Len(toMgr) = 0 /\ Len(toMgr) \in 0..1 /\ faults \in Nat
  BY <1>2, Empty, TypesHold
<1>5. Paid'
  BY <1>1, <1>3, <1>4, AnswerPaid
<1>6. /\ faults' \in 0..MaxFaults /\ toMgr' \in Seq(Results)
      /\ Len(toMgr') \in Len(toMgr)..(Len(toMgr) + 1)
      /\ \A i \in 1..Len(toMgr') :
             i \in 1..Len(toMgr) \/ toMgr'[i] \in {TermNack(Arrived.seq), Damaged}
  BY <1>1, <1>3, <1>4, TerminalSent
<1>7. /\ Len(toMgr') \in 0..1 /\ Len(toMgr') <= 2
      /\ toMgr' # <<>> => Len(toMgr') = 1 /\ toMgr'[1] \in BadResults
  <2>1. Len(toMgr') \in 0..1
    BY <1>4, <1>6
  <2>2. toMgr' # <<>> => Len(toMgr') = 1
    BY <1>6, <2>1, EmptySeq
  <2>3. Len(toMgr') = 1 => toMgr'[1] \in BadResults
    BY <1>3, <1>4, <1>6
  <2>4. Len(toMgr') <= 2
    BY <2>1
  <2> QED
    BY <2>1, <2>2, <2>3, <2>4
<1>8. UNCHANGED <<connected, tx_seq, op, table, chunk, nchunks, retries, pc, ret, buf>>
  BY <1>1 DEF vars, protoVars, callVars
<1>9. toTerm' \in Seq(LinePackets) /\ Len(toTerm') = 0
  BY <1>2, Empty
<1>10. LinkTypeOK'
  BY <1>1, <1>6, <1>7, <1>9 DEF LineInv, LinkTypeOK
<1>11. ~Accepted'
  BY <1>1, <1>8 DEF Accepted
<1>12. Unaccepted' /\ Current'
  BY <1>2, <1>7, <1>9 DEF Unaccepted, Current, AllAre
<1>13. Calm' /\ Progress' /\ SuccessMeansDelivered'
  BY <1>1, <1>2, <1>8, <1>11 DEF LineInv, Calm, Progress, SuccessMeansDelivered, Sending, Accepted
<1> QED
  BY <1>5, <1>8, <1>10, <1>11, <1>12, <1>13 DEF LineInv, Answered, Between

\* One of the two answers to the last packet of a table, as it comes over the line.
LEMMA OneAnswer ==
    ASSUME NEW r \in Results, r \notin BadResults, NEW a \in {<<r>>, <<Damaged>>, <<>>}
    PROVE  /\ a \in Seq(Results) /\ Len(a) \in 0..1
           /\ Count(a, BadResults) <= IF a = <<r>> THEN 0 ELSE 1
           /\ a = <<>> => a # <<r>>
<1>1. Damaged \in Results
  BY Answers DEF Seqs, SEQ_MOD
<1>2. CASE a = <<>>
  <2>1. a \in Seq(Results) /\ Len(a) = 0 /\ Count(a, BadResults) = 0
    BY <1>2, Empty, CountEmpty
  <2>2. Len(<<r>>) = 1
    OBVIOUS
  <2> QED
    BY <2>1, <2>2
<1>3. CASE a = <<r>>
  <2>1. Len(a) = 1 /\ a[1] = r /\ a \in Seq(Results) /\ a # <<>>
    BY <1>3
  <2>2. Count(a, BadResults) = 0
    BY <2>1 DEF Count, At
  <2> QED
    BY <1>3, <2>1, <2>2
<1>4. CASE a = <<Damaged>> /\ a # <<r>>
  <2>1. Len(a) = 1 /\ a \in Seq(Results) /\ a # <<>>
    BY <1>1, <1>4
  <2>2. At(a, 2, BadResults) = 0 /\ At(a, 1, BadResults) \in 0..1
    BY <2>1 DEF At
  <2>3. Count(a, BadResults) <= 1
    BY <2>2 DEF Count
  <2> QED
    BY <1>4, <2>1, <2>3
<1> QED
  BY <1>2, <1>3, <1>4

LEMMA CountConcat ==
    ASSUME NEW T, NEW S, NEW p \in Seq(T), NEW q \in Seq(T), Len(p) \in 0..1, Len(q) \in 0..1
    PROVE  /\ p \o q \in Seq(T) /\ Len(p \o q) = Len(p) + Len(q)
           /\ Count(p \o q, S) = Count(p, S) + Count(q, S)
           /\ p \o q = <<>> => p = <<>> /\ q = <<>>
<1>1. /\ p \o q \in Seq(T) /\ Len(p \o q) = Len(p) + Len(q)
      /\ \A i \in 1..(Len(p) + Len(q)) :
             (p \o q)[i] = IF i <= Len(p) THEN p[i] ELSE q[i - Len(p)]
  BY ConcatProperties
<1>2. p \o q = <<>> => p = <<>> /\ q = <<>>
  <2> SUFFICES ASSUME p \o q = <<>> PROVE p = <<>> /\ q = <<>>
    OBVIOUS
  <2>1. Len(p \o q) = 0
    BY Empty
  <2>2. Len(p) = 0 /\ Len(q) = 0
    BY <1>1, <2>1
  <2> QED
    BY <2>2, EmptySeq
<1> DEFINE c == p \o q
<1>3. Count(c, S) = Count(p, S) + Count(q, S)
  <2> HIDE DEF c
  <2>1. CASE Len(p) = 0
    <3>1. Len(c) = Len(q) /\ \A i \in 1..Len(q) : c[i] = q[i]
      BY <1>1, <2>1 DEF c
    <3>2. Count(p, S) = 0
      BY <2>1 DEF Count, At
    <3>3. Len(q) = 0 \/ Len(q) = 1
      OBVIOUS
    <3>4. Count(c, S) = Count(q, S)
      BY <3>1, <3>3 DEF Count, At
    <3>5. Count(q, S) \in 0..2
      BY CountType
    <3> QED
      BY <3>2, <3>4, <3>5
  <2>2. CASE Len(p) = 1
    <3>1. Len(c) = Len(q) + 1 /\ c[1] = p[1] /\ (Len(q) = 1 => c[2] = q[1])
      BY <1>1, <2>2 DEF c
    <3>2. Len(q) = 0 \/ Len(q) = 1
      OBVIOUS
    <3>3. CASE Len(q) = 0
      <4>1. Len(c) = 1
        BY <3>1, <3>3
      <4> QED
        BY <2>2, <3>1, <3>3, <4>1 DEF Count, At
    <3>4. CASE Len(q) = 1
      <4>1. Len(c) = 2
        BY <3>1, <3>4
      <4> QED
        BY <2>2, <3>1, <3>4, <4>1 DEF Count, At
    <3> QED
      BY <3>2, <3>3, <3>4
  <2> QED
    BY <2>1, <2>2
<1> QED
  BY <1>1, <1>2, <1>3

\* What the terminal answers to a packet it accepts: the damage pays for what is missing.
LEMMA AcceptAnswered ==
    ASSUME IInv, LineInv, TermAccepts, toMgr = <<>>, Arrived.seq \in Seqs,
           Arrived.table \in Tables \cup {None}
    PROVE  /\ faults' \in 0..MaxFaults
           /\ toMgr' \in Seq(Results)
           /\ Len(toMgr') \in 0..(IF IsLast(Arrived.table, Arrived.chunk) THEN 2 ELSE 1)
           /\ faults + Count(toMgr', BadResults) <= faults'
           /\ toMgr' = <<>> => faults + 1 <= faults'
           /\ tseq' \in Seqs /\ pending' \in Results \cup {None}
<1> DEFINE k == TermAck(Arrived.seq)
           upd == TermData(tseq, Arrived.table)
<1>1. faults \in Nat /\ tseq \in Seqs /\ pending \in Results \cup {None} /\ MaxFaults \in Nat
  BY TypesHold DEF LineInv, LinkTypeOK
<1>2. k \in Results /\ k \notin BadResults /\ upd \in Results /\ upd \notin BadResults
  BY <1>1, Answers
<1>3. NextSeq(tseq) \in Seqs
  BY <1>1 DEF NextSeq, Seqs, SEQ_MOD
<1>4. /\ Len(toMgr) = 0 /\ toMgr \in Seq(Results) /\ Len(toMgr) \in 0..1
      /\ Count(toMgr, BadResults) = 0
  BY Empty, CountEmpty
<1>5. CASE ~IsLast(Arrived.table, Arrived.chunk)
  <2>1. TerminalSends(k) /\ UNCHANGED <<pending, tseq>>
    BY <1>5 DEF TermAccepts, IsLast
  <2> DEFINE m2 == Count(toMgr', BadResults)
             l2 == Len(toMgr')
  <2>2. /\ faults' \in 0..MaxFaults /\ toMgr' \in Seq(Results) /\ l2 \in 0..1
        /\ faults + m2 <= faults' + 0 + 0 /\ (toMgr' = <<>> => faults + 1 <= faults')
    <3> HIDE DEF k, upd
    <3>1. /\ faults' \in 0..MaxFaults
          /\ toMgr' \in Seq(Results) /\ Len(toMgr') \in Len(toMgr)..(Len(toMgr) + 1)
          /\ faults + Count(toMgr', BadResults)
                 <= faults' + Count(toMgr, BadResults) + (IF k \in BadResults THEN 1 ELSE 0)
          /\ toMgr' = <<>> => faults + 1 <= faults'
      BY <1>1, <1>2, <1>4, <2>1, TerminalSent
    <3>2. (IF k \in BadResults THEN 1 ELSE 0) = 0
      BY <1>2
    <3>3. l2 \in 0..1
      <4> DEFINE l == Len(toMgr)
      <4>1. l = 0 /\ l2 \in l..(l + 1)
        BY <1>4, <3>1
      <4> HIDE DEF l, l2
      <4> QED
        BY ONLY <4>1
    <3> QED
      BY <1>4, <3>1, <3>2, <3>3
  <2>3. m2 \in 0..2
    BY CountType
  <2>4. \A f, f2 \in Nat : \A m \in 0..2 : f + m <= f2 + 0 + 0 => f + m <= f2
    OBVIOUS
  <2>5. faults' \in Nat
    BY <2>2
  <2> HIDE DEF m2, l2
  <2>6. faults + m2 <= faults'
    BY <1>1, <2>2, <2>3, <2>4, <2>5
  <2> QED
    BY <1>1, <1>5, <2>1, <2>2, <2>6 DEF m2, l2
<1>6. CASE IsLast(Arrived.table, Arrived.chunk)
  <2>1. /\ pending' = upd /\ tseq' = NextSeq(tseq)
        /\ \E a \in {<<k>>, <<Damaged>>, <<>>}, u \in {<<upd>>, <<Damaged>>, <<>>} :
               /\ toMgr' = toMgr \o a \o u
               /\ Harm(faults, (IF a = <<k>> THEN 0 ELSE 1) + (IF u = <<upd>> THEN 0 ELSE 1))
    BY <1>6 DEF TermAccepts, IsLast
  <2>2. PICK a \in {<<k>>, <<Damaged>>, <<>>}, u \in {<<upd>>, <<Damaged>>, <<>>} :
               /\ toMgr' = toMgr \o a \o u
               /\ Harm(faults, (IF a = <<k>> THEN 0 ELSE 1) + (IF u = <<upd>> THEN 0 ELSE 1))
    BY <2>1
  <2> DEFINE x == IF a = <<k>> THEN 0 ELSE 1
             y == IF u = <<upd>> THEN 0 ELSE 1
             ca == Count(a, BadResults)
             cu == Count(u, BadResults)
             m2 == Count(toMgr', BadResults)
             l2 == Len(toMgr')
  <2> HIDE DEF k, upd
  <2>3. a \in Seq(Results) /\ Len(a) \in 0..1 /\ ca <= x /\ (a = <<>> => x = 1)
    BY <1>2, OneAnswer
  <2>4. u \in Seq(Results) /\ Len(u) \in 0..1 /\ cu <= y /\ (u = <<>> => y = 1)
    BY <1>2, OneAnswer
  <2>5. toMgr' = a \o u
    <3>1. <<>> \o a = a
      BY <2>3, ConcatEmptySeq
    <3> QED
      BY <2>2, <3>1
  <2>6. /\ toMgr' \in Seq(Results) /\ l2 = Len(a) + Len(u) /\ m2 = ca + cu
        /\ toMgr' = <<>> => a = <<>> /\ u = <<>>
    BY <2>3, <2>4, <2>5, CountConcat
  <2>7. faults + (x + y) <= MaxFaults /\ faults' = faults + (x + y)
    BY <2>2 DEF Harm
  <2>8. x \in 0..1 /\ y \in 0..1 /\ ca \in 0..2 /\ cu \in 0..2
    BY CountType
  <2> DEFINE la == Len(a)
             lu == Len(u)
  <2>9. la \in 0..1 /\ lu \in 0..1 /\ l2 = la + lu /\ ca <= x /\ cu <= y
    BY <2>3, <2>4, <2>6
  <2>10. toMgr' = <<>> => x = 1 /\ y = 1
    BY <2>3, <2>4, <2>6
  <2> HIDE DEF x, y, ca, cu, m2, l2, la, lu
  <2>11. l2 \in 0..2 /\ faults' \in 0..MaxFaults
    BY <1>1, <2>7, <2>8, <2>9
  <2>12. faults + m2 <= faults' /\ (x = 1 /\ y = 1 => faults + 1 <= faults')
    BY <1>1, <2>6, <2>7, <2>8, <2>9
  <2> QED
    BY <1>2, <1>3, <1>6, <2>1, <2>6, <2>10, <2>11, <2>12 DEF m2, l2
<1> QED
  BY <1>5, <1>6

\* The terminal accepts the packet, which it had not got before.
LEMMA TerminalTakes ==
    ASSUME IInv, LineInv, TermAccepts, pc = "TxAck", ~Accepted
    PROVE  LineInv'
<1>1. /\ UNCHANGED vars /\ Takes /\ Arrived.ok /\ Arrived.pkt = "DATA"
      /\ lastseq' = Arrived.seq /\ got' = Append(got, <<Arrived.table, Arrived.chunk>>)
  BY DEF TermAccepts
<1>2. /\ connected /\ Arrived \in LinePackets
      /\ Arrived.seq = tx_seq /\ Arrived.table = table /\ Arrived.chunk = chunk
      /\ toMgr = <<>> /\ toTerm' = <<>>
      /\ Count(toTerm', BadData) = Count(toTerm, BadData) - (IF Arrived \in BadData THEN 1 ELSE 0)
  BY <1>1, FirstArrival
<1>3. UNCHANGED <<connected, tx_seq, op, table, chunk, nchunks, retries, pc, ret, buf>>
  BY <1>1 DEF vars, protoVars, callVars
<1>4. /\ table \in Tables /\ nchunks = SizeOf(table)
      /\ got = [i \in 1..(chunk - 1) |-> <<table, i>>]
  BY DEF LineInv, Progress
<1>5. chunk \in 1..MaxChunks /\ chunk - 1 \in 0..MaxChunks
  <2>1. chunk \in 0..MaxChunks /\ 1 <= chunk /\ MaxChunks \in Nat
    BY TypesHold DEF IInv, SendProgress
  <2> QED
    BY <2>1, ChunkNumber
<1> DEFINE l2 == Len(toMgr')
           m2 == Count(toMgr', BadResults)
<1>6. /\ faults' \in 0..MaxFaults /\ toMgr' \in Seq(Results)
      /\ l2 \in 0..(IF IsLast(table, chunk) THEN 2 ELSE 1)
      /\ faults + m2 <= faults' /\ (toMgr' = <<>> => faults + 1 <= faults')
      /\ tseq' \in Seqs /\ pending' \in Results \cup {None}
  BY <1>2, <1>4, AcceptAnswered DEF LinePackets
<1>7. got' = [i \in 1..chunk |-> <<table, i>>]
  <2> DEFINE g == [i \in 1..(chunk - 1) |-> <<table, i>>]
             h == [i \in 1..chunk |-> <<table, i>>]
             T == Tables \X (1..MaxChunks)
             e == <<table, chunk>>
             n == chunk - 1
  <2>1. g \in Seq(T) /\ Len(g) = n /\ h \in Seq(T) /\ Len(h) = chunk /\ e \in T
    BY <1>4, <1>5, Pieces, ConstantsAssumption
  <2>2. \A i \in 1..n : g[i] = <<table, i>>
    OBVIOUS
  <2>3. \A i \in 1..chunk : h[i] = <<table, i>>
    OBVIOUS
  <2>4. chunk \in Nat /\ n + 1 = chunk /\ n \in Nat
    BY <1>5
  <2>5. got' = Append(g, e)
    BY <1>1, <1>2, <1>4
  <2> HIDE DEF g, h, T
  <2>6. /\ Append(g, e) \in Seq(T) /\ Len(Append(g, e)) = chunk
        /\ Append(g, e)[chunk] = e
        /\ \A i \in 1..n : Append(g, e)[i] = <<table, i>>
    <3>1. Len(Append(g, e)) = Len(g) + 1 /\ Append(g, e) \in Seq(T)
      BY <2>1, AppendTo
    <3>2. Append(g, e)[Len(g) + 1] = e
      BY <2>1, AppendTo
    <3>3. \A i \in 1..Len(g) : Append(g, e)[i] = g[i]
      BY <2>1, AppendTo
    <3> QED
      BY <2>1, <2>2, <2>4, <3>1, <3>2, <3>3
  <2>7. \A i \in 1..chunk : i \in 1..n \/ i = chunk
    BY <2>4
  <2>8. \A i \in 1..chunk : Append(g, e)[i] = h[i]
    BY <2>3, <2>6, <2>7
  <2>9. Append(g, e) = h
    BY <2>1, <2>6, <2>8, SeqEqual
  <2> QED
    BY <2>5, <2>9 DEF h
<1>8. Accepted'
  BY <1>1, <1>2, <1>3 DEF Accepted
<1>9. toTerm' \in Seq(LinePackets) /\ Len(toTerm') = 0 /\ Count(toTerm', BadData) = 0
  BY <1>2, Empty, CountEmpty
<1>10. l2 \in 0..2 /\ l2 <= 2 /\ Len(toTerm') + l2 <= IF IsLast(table, chunk) THEN 2 ELSE 1
  <2> HIDE DEF l2
  <2> QED
    BY <1>6, <1>9
<1>11. LinkTypeOK'
  <2>1. got' \in Seq(Tables \X (1..MaxChunks))
    <3>1. chunk \in 0..MaxChunks
      BY TypesHold
    <3> QED
      BY <1>4, <1>7, <3>1, Pieces
  <2>2. lastseq' \in Seqs
    BY <1>1, <1>2, TypesHold
  <2>3. Len(toTerm') <= 2
    BY <1>9
  <2> QED
    BY <1>6, <1>9, <1>10, <2>1, <2>2, <2>3 DEF LinkTypeOK
<1>12. Answered' /\ Current'
  BY <1>3, <1>9, <1>10 DEF Answered, Current, AllAre, IsLast
<1>13. Paid'
  <2> DEFINE t == Count(toTerm, BadData)
             m == Count(toMgr, BadResults)
  <2>1. t \in 0..2 /\ m \in 0..2 /\ m2 \in 0..2
    BY CountType
  <2>2. retries + t + m <= faults /\ retries \in Nat /\ faults \in Nat /\ faults' \in Nat
    BY <1>6, TypesHold DEF LineInv, Paid
  <2>3. \A a, f, f2 \in Nat : \A x, y, z \in 0..2 :
            a + x + y <= f /\ f + z <= f2 => a + 0 + z <= f2 /\ (f + 1 <= f2 => a + 1 <= f2)
    OBVIOUS
  <2> HIDE DEF t, m, m2
  <2>4. retries + 0 + m2 <= faults' /\ (faults + 1 <= faults' => retries + 1 <= faults')
    BY <1>6, <2>1, <2>2, <2>3
  <2> QED
    BY <1>3, <1>6, <1>9, <2>4 DEF Paid, m2
<1>14. Calm' /\ Progress' /\ SuccessMeansDelivered'
  BY <1>2, <1>3, <1>4, <1>7, <1>8 DEF LineInv, Calm, Progress, SuccessMeansDelivered, Sending
<1> QED
  BY <1>3, <1>8, <1>11, <1>12, <1>13, <1>14 DEF LineInv, Unaccepted, Between

LEMMA TerminalLine ==
    ASSUME IInv, LineInv, Terminal
    PROVE  LineInv'
<1>1. CASE pc # "TxAck"
  BY <1>1, TerminalBetween
<1>2. CASE pc = "TxAck" /\ Accepted
  BY <1>2, TerminalRepeats
<1>3. CASE pc = "TxAck" /\ ~Accepted /\ Arrived.pkt # "DATA"
  BY <1>3, TerminalAcked
<1>4. CASE pc = "TxAck" /\ ~Accepted /\ Arrived.pkt = "DATA"
  <2>1. Takes
    BY DEF Terminal, TermAccepts, TermDropsDuplicate, TermNacks, TermAcked, TermRetries
  <2>2. Arrived.seq # lastseq
    BY <1>4, <2>1, FirstArrival DEF Accepted
  <2>3. TermAccepts \/ TermNacks
    BY <1>4, <2>2 DEF Terminal, TermDropsDuplicate, TermAcked, TermRetries
  <2> QED
    BY <1>4, <2>3, TerminalTakes, TerminalNacked
<1> QED
  BY <1>1, <1>2, <1>3, <1>4

----------------------------------------------------------------------------
(* The theorems. *)

LEMMA LinkInitInv == LinkInit => LinkIInv
<1> SUFFICES ASSUME LinkInit PROVE LinkIInv
  OBVIOUS
<1>1. IInv
  BY InitIInv DEF LinkInit
<1>2. /\ toTerm = <<>> /\ toMgr = <<>> /\ lastseq = NoSeq /\ tseq = 0 /\ pending = None
      /\ got = <<>> /\ faults = 0 /\ ~connected /\ pc = "Idle" /\ op = "none" /\ buf = "none"
  BY DEF LinkInit, Init
<1>3. LinkTypeOK
  <2>1. /\ <<>> \in Seq(LinePackets) /\ <<>> \in Seq(Results) /\ Len(<<>>) = 0
        /\ <<>> \in Seq(Tables \X (1..MaxChunks))
    BY Empty
  <2>2. 0 \in 0..MaxFaults /\ 0 \in Seqs
    BY LinkAssumption DEF Seqs, SEQ_MOD
  <2> QED
    BY <1>2, <2>1, <2>2 DEF LinkTypeOK
<1> QED
  BY <1>1, <1>2, <1>3 DEF LinkIInv, LineInv, Calm, Progress, Current, Unaccepted, Answered, Paid,
     Between, SuccessMeansDelivered, Sending

LEMMA SizeOfTable == \A t \in Tables : SizeOf(t) \in 1..MaxChunks
BY ConstantsAssumption DEF SizeOf

\* Every step of the manager on the line is one MMProto allows, and the terminal takes none.
LEMMA LinkStepsProto ==
    ASSUME LinkTypeOK, [LinkNext]_linkVars
    PROVE  [Next]_vars
<1>1. CASE ManagerReceives \/ ManagerTimesOut \/ LineDrops
  <2>1. PICK r \in Results : Reads(r)
    BY <1>1, ReadCases
  <2>2. Resume(r)
    BY <2>1 DEF Reads, ManagerReads
  <2>3. pc # "Idle"
    BY <2>2 DEF Resume, ReceiveData, ReceiveShort, ReceiveBad, ReceiveDown, NackAnswered,
       ChunkAcked, TableSent, Retransmit, SendDropped, GiveUp, TableAcked, WrongTable,
       ShortIgnored, AskRetry, TableAckDown, RetryAnswered, RetryDown
  <2> QED
    BY <2>2, <2>3 DEF Next, Line
<1>2. ASSUME NEW t \in Terminals, Call(t) PROVE Next
  BY <1>2 DEF Call, Next, Client
<1>3. CASE HangUp \/ Receive
  BY <1>3 DEF HangUp, Receive, Next, Client
<1>4. ASSUME NEW t \in Tables, Download(t) PROVE Next
  <2>1. SizeOf(t) \in 1..MaxChunks /\ (StartSend(t, SizeOf(t)) \/ StartSendDown(t, SizeOf(t)))
    BY <1>4, SizeOfTable DEF Download
  <2> QED
    BY <2>1 DEF Next, Client
<1>5. ASSUME NEW t \in Tables, AwaitAck(t) PROVE Next
  BY <1>5 DEF AwaitAck, Next, Client
<1>6. CASE Terminal
  BY <1>6 DEF Terminal, TermAccepts, TermDropsDuplicate, TermNacks, TermAcked, TermRetries
<1>7. CASE UNCHANGED linkVars
  BY <1>7 DEF linkVars
<1> QED
  BY <1>1, <1>2, <1>3, <1>4, <1>5, <1>6, <1>7 DEF LinkNext, Manager

LEMMA LinkNextInv == FewFaults /\ LinkIInv /\ [LinkNext]_linkVars => LinkIInv'
<1> SUFFICES ASSUME FewFaults, LinkIInv, [LinkNext]_linkVars PROVE LinkIInv'
  OBVIOUS
<1>1. IInv /\ LineInv /\ LinkTypeOK
  BY DEF LinkIInv, LineInv
<1>2. IInv'
  BY <1>1, LinkStepsProto, NextIInv
<1>3. CASE ManagerReceives \/ ManagerTimesOut \/ LineDrops
  BY <1>1, <1>2, <1>3, ReadLine DEF LinkIInv
<1>4. ASSUME NEW t \in Terminals, Call(t) PROVE LinkIInv'
  BY <1>1, <1>2, <1>4, CallLine DEF LinkIInv
<1>5. CASE HangUp
  BY <1>1, <1>2, <1>5, HangUpLine DEF LinkIInv
<1>6. CASE Receive \/ \E t \in Tables : AwaitAck(t)
  BY <1>1, <1>2, <1>6, WaitLine DEF LinkIInv
<1>7. ASSUME NEW t \in Tables, Download(t) PROVE LinkIInv'
  BY <1>1, <1>2, <1>7, DownloadLine DEF LinkIInv
<1>8. CASE Terminal
  BY <1>1, <1>2, <1>8, TerminalLine DEF LinkIInv
<1>9. CASE UNCHANGED linkVars
  BY <1>1, <1>2, <1>9 DEF linkVars, vars, protoVars, callVars, lineVars, termVars, LinkIInv,
     LineInv, LinkTypeOK, Calm, Progress, Current, Unaccepted, Answered, Paid, Between, Settled,
     SuccessMeansDelivered, Sending, Accepted, AllAre, IsLast
<1> QED
  BY <1>3, <1>4, <1>5, <1>6, <1>7, <1>8, <1>9 DEF LinkNext, Manager

\* The inductive invariant holds.
THEOREM LinkInvariant ==
    ASSUME FewFaults
    PROVE  LinkSpec => []LinkIInv
<1>1. LinkIInv /\ [LinkNext]_linkVars => LinkIInv'
  BY LinkNextInv
<1> QED
  BY <1>1, LinkInitInv, PTL DEF LinkSpec

\* What is on the line, what the terminal knows and what it has got are what they should be;
\* the line never holds more than two packets a way.
THEOREM LinkTypeCorrect ==
    ASSUME FewFaults
    PROVE  LinkSpec => []LinkTypeOK
<1>1. LinkIInv => LinkTypeOK
  BY DEF LinkIInv, LineInv
<1> QED
  BY <1>1, LinkInvariant, PTL

\* When send_mm_table returns success, the terminal has each packet of the table, once and
\* in order, although the acknowledgements carry no number that the manager looks at.
THEOREM SuccessIsDelivered ==
    ASSUME FewFaults
    PROVE  LinkSpec => []SuccessMeansDelivered
<1>1. LinkIInv => SuccessMeansDelivered
  BY DEF LinkIInv, LineInv
<1> QED
  BY <1>1, LinkInvariant, PTL

----------------------------------------------------------------------------
(* send_mm_table implements the transfer. *)

\* The numbers of the packets of the table that the terminal has, as the mapping of MMLink
\* takes them from the history.
Reached == [i \in 1..Len(got) |-> IF got[i][1] = table THEN got[i][2] ELSE 0]

\* Numbers in place of the packets of the table that the terminal has collected.
LEMMA ReachedPieces ==
    ASSUME NEW n \in 0..MaxChunks, table \in Tables, got = [i \in 1..n |-> <<table, i>>]
    PROVE  Reached = [i \in 1..n |-> i]
<1>1. Len(got) = n
  BY Pieces
<1>2. \A i \in 1..n : got[i][1] = table /\ got[i][2] = i
  OBVIOUS
<1> QED
  BY <1>1, <1>2 DEF Reached

LEMMA UpTo ==
    ASSUME NEW n \in Nat
    PROVE  /\ [i \in 1..n |-> i] \in Seq(Nat) /\ Len([i \in 1..n |-> i]) = n
           /\ Append([i \in 1..n |-> i], n + 1) = [i \in 1..(n + 1) |-> i]
<1> DEFINE f(k) == [i \in 1..k |-> i]
<1>1. \A k \in Nat : f(k) \in Seq(Nat) /\ Len(f(k)) = k /\ \A i \in 1..k : f(k)[i] = i
  <2> SUFFICES ASSUME NEW k \in Nat
               PROVE  f(k) \in Seq(Nat) /\ Len(f(k)) = k /\ \A i \in 1..k : f(k)[i] = i
    OBVIOUS
  <2>1. f(k) \in [1..k -> Nat]
    OBVIOUS
  <2>2. f(k) \in Seq(Nat)
    BY <2>1, SeqDef
  <2>3. Len(f(k)) = k
    BY <2>1, <2>2, LenProperties
  <2> QED
    BY <2>2, <2>3
<1> HIDE DEF f
<1>2. n + 1 \in Nat /\ f(n) \in Seq(Nat) /\ Len(f(n)) = n
  BY <1>1
<1>3. /\ Append(f(n), n + 1) \in Seq(Nat) /\ Len(Append(f(n), n + 1)) = n + 1
      /\ Append(f(n), n + 1)[n + 1] = n + 1
  BY <1>2, AppendTo
<1>4. \A i \in 1..n : Append(f(n), n + 1)[i] = i
  BY <1>1, <1>2, AppendTo
<1>5. \A i \in 1..(n + 1) : i \in 1..n \/ i = n + 1
  OBVIOUS
<1>6. \A i \in 1..(n + 1) : Append(f(n), n + 1)[i] = f(n + 1)[i]
  BY <1>1, <1>2, <1>3, <1>4, <1>5
<1>7. Append(f(n), n + 1) = f(n + 1)
  BY <1>1, <1>2, <1>3, <1>6, SeqEqual
<1> QED
  BY <1>2, <1>7 DEF f

\* A step that sends no table and ends no sending one is a stutter or a reset of it.
LEMMA SameTransfer ==
    ASSUME UNCHANGED <<op, pc, ret, nchunks, table, got>>
    PROVE  UNCHANGED Transfer!vars
BY DEF Transfer!vars, Sending

\* A read of send_mm_table sends on, or ends the table.
LEMMA TransferRead ==
    ASSUME IInv, LineInv, NEW r \in Results, Reads(r), pc = "TxAck"
    PROVE  [Transfer!Next]_(Transfer!vars)
<1>1. /\ op = "send" /\ UNCHANGED <<op, table, nchunks, got>>
      /\ chunk \in 1..nchunks
  <2>1. op = "send" /\ 1 <= chunk /\ chunk <= nchunks /\ chunk \in 0..MaxChunks
        /\ nchunks \in 0..MaxChunks
    BY TypesHold DEF IInv, SendProgress
  <2>2. chunk \in 1..nchunks
    BY <2>1
  <2> QED
    BY <2>1, <2>2, ResumeKeeps DEF Reads, ManagerReads
<1>2. ChunkAcked(r) \/ TableSent(r) \/ Retransmit(r) \/ SendDropped(r) \/ GiveUp(r)
  BY DEF Reads, ManagerReads, Resume, ReceiveData, ReceiveShort, ReceiveBad, ReceiveDown,
     NackAnswered, TableAcked, WrongTable, ShortIgnored, AskRetry, TableAckDown, RetryAnswered,
     RetryDown
<1>3. CASE ChunkAcked(r) \/ Retransmit(r)
  BY <1>1, <1>3, SameTransfer DEF ChunkAcked, Retransmit
<1>4. CASE pc' = "Idle" /\ ret' # {}
  <2>1. Transfer!Fail
    BY <1>1, <1>4 DEF Transfer!Fail, Sending
  <2> QED
    BY <2>1 DEF Transfer!Next
<1>5. CASE TableSent(r) /\ ret' = {}
  <2>1. AckStatus(r) = {} /\ chunk = nchunks /\ pc' = "Idle"
    BY <1>5 DEF TableSent, Return, SentStatus
  <2>2. Accepted
    BY <2>1, AckedIsAccepted
  <2>3. table \in Tables /\ got = [i \in 1..chunk |-> <<table, i>>]
    BY <2>2 DEF LineInv, Progress
  <2>4. Reached = [i \in 1..chunk |-> i] /\ Len(Reached) = nchunks
    <3>1. chunk \in 0..MaxChunks /\ chunk \in Nat
      BY TypesHold
    <3>2. Reached = [i \in 1..chunk |-> i]
      BY <2>3, <3>1, ReachedPieces
    <3> QED
      BY <2>1, <3>1, <3>2, UpTo
  <2>5. Transfer!Succeed
    BY <1>1, <1>5, <2>1, <2>4 DEF Transfer!Succeed, Sending, Reached
  <2> QED
    BY <2>5 DEF Transfer!Next
<1>6. SendDropped(r) \/ GiveUp(r) => pc' = "Idle" /\ ret' # {}
  BY DEF SendDropped, GiveUp, Return
<1>7. TableSent(r) => pc' = "Idle"
  BY DEF TableSent, Return
<1> QED
  BY <1>2, <1>3, <1>4, <1>5, <1>6, <1>7

\* What the terminal accepts is the next packet of the table being sent.
LEMMA TransferAccept ==
    ASSUME IInv, LineInv, LineInv', TermAccepts
    PROVE  Transfer!Accept
<1>1. /\ UNCHANGED vars /\ Takes /\ Arrived.pkt = "DATA" /\ Arrived.seq # lastseq
      /\ lastseq' = Arrived.seq
  BY DEF TermAccepts
<1>2. connected /\ Arrived = toTerm[1] /\ 1 \in 1..Len(toTerm)
  BY <1>1, Arrival
<1>3. pc = "TxAck" /\ Arrived.seq = tx_seq
  BY <1>1, <1>2 DEF LineInv, Current
<1>4. ~Accepted
  BY <1>1, <1>3 DEF Accepted
<1>5. UNCHANGED <<tx_seq, op, table, chunk, nchunks, pc, ret>>
  BY <1>1 DEF vars, protoVars, callVars
<1>6. Accepted'
  BY <1>1, <1>3, <1>5 DEF Accepted
<1>7. /\ table \in Tables /\ got = [i \in 1..(chunk - 1) |-> <<table, i>>]
      /\ got' = [i \in 1..chunk |-> <<table, i>>]
  BY <1>3, <1>4, <1>5, <1>6 DEF LineInv, Progress
<1>8. /\ chunk - 1 \in 0..MaxChunks /\ chunk \in 0..MaxChunks /\ chunk - 1 \in Nat
      /\ chunk - 1 + 1 = chunk /\ chunk - 1 < nchunks /\ op = "send"
  <2>1. /\ chunk \in 0..MaxChunks /\ nchunks \in 0..MaxChunks /\ MaxChunks \in Nat
        /\ 1 <= chunk /\ chunk <= nchunks /\ op = "send"
    BY <1>3, TypesHold DEF IInv, SendProgress
  <2> QED
    BY <2>1, ChunkNumber
<1>9. Reached = [i \in 1..(chunk - 1) |-> i]
  BY <1>7, <1>8, ReachedPieces
<1>10. Reached' = [i \in 1..chunk |-> i]
  <2>1. Len(got') = chunk
    BY <1>7, <1>8, Pieces
  <2>2. \A i \in 1..chunk : got'[i][1] = table /\ got'[i][2] = i
    BY <1>7
  <2> QED
    BY <1>5, <2>1, <2>2 DEF Reached
<1>11. Len(Reached) = chunk - 1 /\ Reached' = Append(Reached, Len(Reached) + 1)
  <2> DEFINE n == chunk - 1
  <2>1. n \in Nat /\ n + 1 = chunk
    BY <1>8
  <2> HIDE DEF n
  <2>2. Len([i \in 1..n |-> i]) = n /\ Append([i \in 1..n |-> i], n + 1) = [i \in 1..(n + 1) |-> i]
    BY <2>1, UpTo
  <2>3. Reached = [i \in 1..n |-> i]
    BY <1>9 DEF n
  <2> QED
    BY <1>10, <2>1, <2>2, <2>3 DEF n
<1> QED
  BY <1>3, <1>5, <1>8, <1>11 DEF Transfer!Accept, Sending, Reached

LEMMA LinkStepsTransfer ==
    ASSUME LinkIInv, LinkIInv', [LinkNext]_linkVars
    PROVE  [Transfer!Next]_(Transfer!vars)
<1>1. IInv /\ LineInv /\ LineInv' /\ LinkTypeOK
  BY DEF LinkIInv, LineInv
<1>2. CASE ManagerReceives \/ ManagerTimesOut \/ LineDrops
  <2>1. PICK r \in Results : Reads(r)
    BY <1>1, <1>2, ReadCases
  <2>2. CASE pc = "TxAck"
    BY <1>1, <2>1, <2>2, TransferRead
  <2>3. CASE pc # "TxAck"
    <3>1. pc # "Idle" /\ UNCHANGED op
      BY <1>1, <2>1, ResumeKeeps DEF Reads, ManagerReads
    <3>2. pc \in {"RxTable", "RxNak", "TblAck", "TblNak"}
      BY <1>1, <2>3, <3>1 DEF IInv, TypeOK
    <3>3. op # "send"
      BY <1>1, <3>2 DEF IInv, Blocked
    <3> QED
      BY <3>1, <3>3 DEF Transfer!vars, Sending
  <2> QED
    BY <2>2, <2>3
<1>3. CASE HangUp \/ Receive \/ (\E t \in Terminals : Call(t)) \/ \E t \in Tables : AwaitAck(t)
  <2>1. pc = "Idle" /\ op' # "send"
    BY <1>3 DEF HangUp, Receive, Call, AwaitAck, Disconnect, StartReceive, Connect, StartTableAck,
       StartTableAckDown
  <2>2. Transfer!Forget
    BY <2>1 DEF Transfer!Forget, Sending
  <2> QED
    BY <2>2 DEF Transfer!Next
<1>4. ASSUME NEW t \in Tables, Download(t) PROVE Transfer!Next
  <2>1. got' = <<>> /\ (StartSend(t, SizeOf(t)) \/ StartSendDown(t, SizeOf(t)))
    BY <1>4 DEF Download
  <2>2. Reached' = <<>>
    <3>1. Len(got') = 0
      BY <2>1, Empty
    <3>2. Reached' \in [1..0 -> Nat]
      BY <3>1 DEF Reached
    <3>3. Reached' \in Seq(Nat) /\ Len(Reached') = 0
      BY <3>2, SeqDef, LenProperties
    <3> QED
      BY <3>3, EmptySeq
  <2>3. SizeOf(t) \in Nat \ {0}
    BY SizeOfTable, ConstantsAssumption
  <2>4. CASE StartSend(t, SizeOf(t))
    <3>1. pc = "Idle" /\ op' = "send" /\ pc' = "TxAck" /\ nchunks' = SizeOf(t)
      BY <2>4 DEF StartSend
    <3>2. Transfer!Start
      BY <2>2, <2>3, <3>1 DEF Transfer!Start, Sending, Reached
    <3> QED
      BY <3>2 DEF Transfer!Next
  <2>5. CASE StartSendDown(t, SizeOf(t))
    <3>1. pc = "Idle" /\ op' = "send" /\ pc' = "Idle" /\ nchunks' = SizeOf(t) /\ ret' # {}
      BY <2>5 DEF StartSendDown
    <3>2. Transfer!Refuse
      BY <2>2, <2>3, <3>1 DEF Transfer!Refuse, Sending, Reached
    <3> QED
      BY <3>2 DEF Transfer!Next
  <2> QED
    BY <2>1, <2>4, <2>5
<1>5. CASE TermAccepts
  BY <1>1, <1>5, TransferAccept DEF Transfer!Next
<1>6. CASE TermDropsDuplicate \/ TermNacks \/ TermAcked \/ TermRetries
  BY <1>6, SameTransfer DEF TermDropsDuplicate, TermNacks, TermAcked, TermRetries, vars, protoVars,
     callVars
<1>7. CASE UNCHANGED linkVars
  BY <1>7, SameTransfer DEF linkVars, vars, protoVars, callVars
<1> QED
  BY <1>2, <1>3, <1>4, <1>5, <1>6, <1>7 DEF LinkNext, Manager, Terminal

\* send_mm_table on a line that loses and damages packets both ways implements the transfer:
\* the terminal accepts each packet of the table once and in order, and success means that
\* it has accepted the last.
THEOREM TransferImplemented ==
    ASSUME FewFaults
    PROVE  LinkSpec => ImplementsTransfer
<1>1. LinkInit => Transfer!Init
  <2> SUFFICES ASSUME LinkInit PROVE Transfer!Init
    OBVIOUS
  <2>1. ~Sending
    BY DEF LinkInit, Init, Sending
  <2> QED
    BY <2>1 DEF Transfer!Init
<1>2. LinkIInv /\ LinkIInv' /\ [LinkNext]_linkVars => [Transfer!Next]_(Transfer!vars)
  BY LinkStepsTransfer
<1>3. LinkSpec => []LinkIInv
  BY LinkInvariant
<1> QED
  BY <1>1, <1>2, <1>3, PTL DEF LinkSpec, ImplementsTransfer, Transfer!Spec

\* The manager of MMLink is the one of MMProto, and all that is proved of that one holds of it.
THEOREM LinkImplementsProto ==
    ASSUME FewFaults
    PROVE  LinkSpec => Spec
<1>1. LinkInit => Init
  BY DEF LinkInit
<1>2. LinkIInv /\ [LinkNext]_linkVars => [Next]_vars
  BY LinkStepsProto DEF LinkIInv, LineInv
<1>3. LinkSpec => []LinkIInv
  BY LinkInvariant
<1> QED
  BY <1>1, <1>2, <1>3, PTL DEF LinkSpec, Spec
==============================================================================
