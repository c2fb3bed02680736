------------------------------- MODULE MMContents -------------------------------
(***************************************************************************)
(* What is in the packets: process_mm_table walks over the tables that the *)
(* terminal packed into one packet and builds its reply to all of them in  *)
(* one buffer; mm_download_tables makes each table of its list; and        *)
(* send_mm_table cuts both into packets.  The packets come from the        *)
(* receiver of MMFraming.                                                  *)
(*                                                                         *)
(* A table in the walk is one step, and so is a table of the download.     *)
(* Packets and acknowledgements in between, and calls that drop, are those *)
(* of MMProto, MMLink and MMSession; what is kept of a table is that of    *)
(* MMAccounting; which file is read, and when none is, that of MMDownload. *)
(***************************************************************************)
EXTENDS MMFraming, MMTables
LOCAL INSTANCE FiniteSetsExt
LOCAL INSTANCE SequencesExt

CONSTANTS
    Setups,         \* the situations to look at
    FileSizes,      \* for a table directory: the tables that have a file, and its size
    Noises(_)       \* what may happen to a frame

VARIABLES
    setup,          \* the situation: never changes
    pc,
    taken,          \* how many of the packets received have been looked at
    terminal_id,    \* in process_mm_table, and in proto: both are read from the same bytes
    at,             \* ppayload
    out,            \* ack_payload, up to pack_payload
    cdr_ack_buffer, trans_data_in_progress, terminal_type, table_download_pending,
    todo,           \* the rest of the list of tables
    table, packets, \* what the last step sent: a table or a reply, and the packets of it
    handled,        \* history: the tables of this packet handled, with their places
    queued,         \* history: cdr_ack_buffer as it was when this packet came
    downloaded      \* history: the tables of the download

walkVars == <<terminal_id, at, out, handled, queued>>
contextVars == <<cdr_ack_buffer, trans_data_in_progress, terminal_type>>
sendVars == <<todo, table, packets, downloaded>>
vars == <<framingVars, setup, pc, taken, walkVars, contextVars, table_download_pending, sendVars>>

PKT_TABLE_DATA_LEN_MAX == 245
PKT_TABLE_ID_OFFSET == 5
TTBLREQ_CASHBOX_STATUS == 128

TypeOK ==
    /\ FramingTypeOK
    /\ pc \in {"receive", "process", "download"}
    /\ taken \in 0..Len(got) /\ (pc # "receive" => taken = Len(got))
    /\ terminal_id \in Seq(0..15)
    /\ out \in Seq(Byte) /\ cdr_ack_buffer \in Seq(Byte)
    /\ Len(cdr_ack_buffer) <= PKT_TABLE_DATA_LEN_MAX
    /\ trans_data_in_progress \in BOOLEAN /\ terminal_type \in Byte
    /\ table \in Seq(Byte)

---------------------------------------------------------------------------
(* What the terminal packs into a packet: behind its number tables, each with a byte that
   fills their fields, but a call record with its number in the packet and a rate request
   with the number dialed.  A table that the manager does not know has some size. *)

Understood == {TIME_SYNC_REQ, CALL_IN, CALL_BACK, END_DATA, ATN_REQ_TAB_UPD, ATN_REQ_CDR_UPL,
               TABLE_UPD_ACK, ALARM, MAINT_REQ, CALL_DETAILS, CASH_BOX_COLLECTION, TERM_STATUS,
               TERM_ERR_REP, SW_VERSION, CASH_BOX_STATUS, PERF_STATS_MSG, CARRIER_CALL_STATS,
               CARRIER_STATS_EXP, SUMMARY_CALL_STATS, RATE_REQUEST, FUNF_CARD_AUTH}

Size ==
    [id \in Understood |->
        CASE id \in {TIME_SYNC_REQ, CALL_IN, CALL_BACK, END_DATA} -> 1
          [] id \in {ATN_REQ_TAB_UPD, ATN_REQ_CDR_UPL, TABLE_UPD_ACK} -> 2
          [] id = ALARM -> SizeOf(dlog_mt_alarm_t)
          [] id = MAINT_REQ -> SizeOf(dlog_mt_maint_req_t)
          [] id = CALL_DETAILS -> SizeOf(dlog_mt_call_details_t)
          [] id = CASH_BOX_COLLECTION -> SizeOf(dlog_mt_cash_box_collection_t)
          [] id = TERM_STATUS -> SizeOf(dlog_mt_term_status_t)
          [] id = TERM_ERR_REP -> 97
          [] id = SW_VERSION -> SizeOf(dlog_mt_sw_version_t)
          [] id = CASH_BOX_STATUS -> SizeOf(cashbox_status_univ_t)
          [] id = PERF_STATS_MSG -> SizeOf(dlog_mt_perf_stats_record_t)
          [] id = CARRIER_CALL_STATS -> SizeOf(dlog_mt_carrier_call_stats_t)
          [] id = CARRIER_STATS_EXP -> SizeOf(dlog_mt_carrier_stats_exp_t)
          [] id = SUMMARY_CALL_STATS -> SizeOf(dlog_mt_summary_call_stats_t)
          [] id = RATE_REQUEST -> SizeOf(dlog_mt_rate_request_t)
          [] id = FUNF_CARD_AUTH -> SizeOf(dlog_mt_funf_card_auth_t)]

UNKNOWN_SIZE == 6

SizeOnLine(id) == IF id \in Understood THEN Size[id] ELSE UNKNOWN_SIZE

TableBytes(s, t, number) ==
    LET seq == Offset(dlog_mt_call_details_t, "seq")
        dialed == Offset(dlog_mt_rate_request_t, "phone_number")
    IN  [i \in 1..SizeOnLine(t.id) |->
            CASE i = 1 -> t.id
              [] t.id = CALL_DETAILS /\ i = seq + 1 -> number
              [] t.id = RATE_REQUEST /\ i - dialed \in 1..10 -> s.dialed[i - dialed]
              [] OTHER -> t.fill]

Packed(s, p) ==
    [flags |-> p.flags,
     payload |-> s.id \o FlattenSeq([k \in 1..Len(p.tables) |-> TableBytes(s, p.tables[k], k)])]

---------------------------------------------------------------------------
(* The situations: a terminal with a number of ten digits, that fills no packet with more
   than the length byte can tell of; the time of the computer; and the options as the
   usage has them: an access code of 7 digits, a key card number of 10, up to two numbers to
   call. *)

DaysIn(month, year) ==
    IF month = 2 THEN (IF year % 4 = 0 THEN 29 ELSE 28) ELSE IF month \in {4, 6, 9, 11} THEN 30 ELSE 31

IsTime(now) ==
    /\ now.year \in 0..254 /\ now.month \in 1..12 /\ now.day \in 1..DaysIn(now.month, now.year)
    /\ now.hour \in 0..23 /\ now.min \in 0..59 /\ now.sec \in 0..60 /\ now.wday \in 0..6
    /\ now.raw \in Seq(Byte) /\ Len(now.raw) = 8

IsTerminal(s) ==
    /\ s.id \in Seq(Byte) /\ Len(s.id) = PKT_TABLE_ID_OFFSET
    /\ \A i \in 1..2 * PKT_TABLE_ID_OFFSET : Nibble(s.id, i) \in Decimal
    /\ s.type \in Byte /\ s.dialed \in Seq(Byte) /\ Len(s.dialed) = 10
    /\ s.packed \in Seq([flags : Byte, tables : Seq([id : Byte, fill : Byte])])
    /\ \A i \in 1..Len(s.packed) : Len(Packed(s, s.packed[i]).payload) <= 250
    /\ s.arrived \in BOOLEAN /\ (s.arrived => Len(s.packed) = 1)
    /\ ~s.arrived =>
          /\ s.packed # <<>>
          /\ LET frame == Frame(Packed(s, s.packed[1]))
             IN  Noises(frame) \subseteq
                    {None} \cup [kind : {"changed", "lost", "added"}, at : 1..Len(frame), byte : Byte]

HasOptions(s) ==
    /\ s.rating \in BOOLEAN /\ s.minimal \in BOOLEAN /\ s.dir \in DOMAIN FileSizes
    /\ s.access \in Seq(Decimal) /\ Len(s.access) \in {0, 7}
    /\ s.key \in Seq(Decimal) /\ Len(s.key) \in {0, 10}
    /\ s.ncc \in Seq(Seq(Decimal)) /\ Len(s.ncc) <= 2

\* Acknowledgements of call records, as append_to_cdr_ack_buffer puts them one behind the other.
IsQueue(bytes) ==
    /\ Len(bytes) % 3 = 0
    /\ \A i \in 1..Len(bytes) : i % 3 = 1 => bytes[i] = CDR_DETAILS_ACK

ASSUME SetupsAssumption ==
    /\ \A s \in Setups :
           /\ IsTerminal(s) /\ HasOptions(s) /\ IsTime(s.now)
           /\ s.queue \in Seq(Byte) /\ Len(s.queue) <= PKT_TABLE_DATA_LEN_MAX /\ IsQueue(s.queue)
    /\ \A dir \in DOMAIN FileSizes :
           /\ DOMAIN FileSizes[dir] \subseteq Byte
           /\ \A id \in DOMAIN FileSizes[dir] : FileSizes[dir][id] \in Nat
    /\ None \notin Byte /\ GAP \notin Byte

Init ==
    /\ setup \in Setups
    /\ sent = [i \in 1..Len(setup.packed) |-> Packed(setup, setup.packed[i])]
    /\ IF setup.arrived THEN ArrivedInit
       ELSE noise \in Noises(Frame(sent[1])) /\ pause \in BOOLEAN /\ FramingInit
    /\ pc = "receive" /\ taken = 0
    /\ terminal_id = <<>> /\ at = 1 /\ out = <<>> /\ handled = <<>> /\ queued = <<>>
    /\ cdr_ack_buffer = setup.queue /\ trans_data_in_progress = (setup.queue # <<>>)
    /\ terminal_type = 0 /\ table_download_pending = FALSE
    /\ todo = <<>> /\ table = <<>> /\ packets = <<>> /\ downloaded = <<>>

---------------------------------------------------------------------------
(* From receive_mm_table to process_mm_table: the bytes behind the payload are the checksum
   and the STOP byte, for the rest of the packet is cleared. *)

Current == got[taken].record
At(i) ==
    LET payload == Current.payload \o <<Current.crc % 256, Current.crc \div 256, Current.end>>
    IN  IF i <= Len(payload) THEN payload[i] ELSE 0
Field(struct, name) ==
    [i \in 1..Width(struct, name) |-> At(at + Offset(struct, name) + i - 1)]

\* A damaged packet is answered with a NACK, and what comes of it depends on the answer to
\* that (MMProto): the packets that follow it are received, but not looked at here.
Waiting == taken < Len(got) => ~IsIntact(got[taken + 1])

Receive ==
    /\ pc = "receive" /\ Waiting
    /\ ReceiveByte \/ Timeout
    /\ UNCHANGED <<setup, pc, taken, walkVars, contextVars, table_download_pending, sendVars>>

\* A packet that the terminal marks as sent before, or that hangs up, is not processed; an
\* acknowledgement has nothing to process.
Take ==
    /\ pc = "receive" /\ ~Waiting
    /\ taken' = taken + 1
    /\ LET next == got[taken + 1]
       IN  IF next.status = {} /\ Len(next.record.payload) >= PKT_TABLE_ID_OFFSET
           THEN /\ pc' = "process"
                /\ terminal_id' = phone_num_to_string(SubSeq(next.record.payload, 1, PKT_TABLE_ID_OFFSET), 11)
                /\ at' = PKT_TABLE_ID_OFFSET + 1 /\ out' = <<>> /\ handled' = <<>>
                /\ queued' = cdr_ack_buffer
                /\ table_download_pending' = FALSE
           ELSE UNCHANGED <<pc, walkVars, table_download_pending>>
    /\ UNCHANGED <<framingVars, setup, contextVars, sendVars>>

---------------------------------------------------------------------------
(* process_mm_table: a case of its switch, with what it appends to the reply. *)

Skip_Short(id) == IF id = CASH_BOX_STATUS THEN Size[id] - 1 ELSE Size[id]
Skip(id) == Size[id]

InWalk == pc = "process" /\ at <= Len(Current.payload)
WalkEnds == pc = "process" /\ at > Len(Current.payload)

Handle(id, answer) ==
    /\ InWalk /\ At(at) = id
    /\ at' = at + Skip(id)
    /\ out' = out \o answer
    /\ handled' = Append(handled, <<id, at>>)
    /\ UNCHANGED <<framingVars, setup, pc, taken, terminal_id, queued, sendVars>>

Kept == UNCHANGED <<contextVars, table_download_pending>>

TimeSyncReq ==
    LET now == setup.now
    IN  /\ Handle(TIME_SYNC_REQ, <<TIME_SYNC, now.year, now.month, now.day, now.hour, now.min, now.sec,
                                   now.wday + 1, END_DATA>>)
        /\ Kept

\* mm_acct_load_TCASHST, for a terminal that has reported none.
CashBox == <<CASH_BOX_STATUS, 90, 1, 1>> \o Zeros(SizeOf(cashbox_status_univ_t) - 4)

AtnReqTabUpd ==
    LET terminal_upd_reason == At(at + 1)
        asked == IF HasFlag(terminal_upd_reason, TTBLREQ_CASHBOX_STATUS) THEN CashBox ELSE <<>>
    IN  /\ Handle(ATN_REQ_TAB_UPD, <<TABLE_UPD>> \o asked)
        /\ table_download_pending' = TRUE
        /\ UNCHANGED contextVars

Alarm == Handle(ALARM, <<ALARM_ACK>> \o Field(dlog_mt_alarm_t, "alarm_id")) /\ Kept

MaintReq == Handle(MAINT_REQ, <<MAINT_ACK>> \o Field(dlog_mt_maint_req_t, "type")) /\ Kept

append_to_cdr_ack_buffer(ack) ==
    IF Len(cdr_ack_buffer) + Len(ack) > PKT_TABLE_DATA_LEN_MAX THEN cdr_ack_buffer
    ELSE cdr_ack_buffer \o ack

CallDetails ==
    LET ack == <<CDR_DETAILS_ACK>> \o Field(dlog_mt_call_details_t, "seq")
    IN  /\ Handle(CALL_DETAILS, IF trans_data_in_progress THEN <<>> ELSE ack)
        /\ cdr_ack_buffer' = IF trans_data_in_progress THEN append_to_cdr_ack_buffer(ack) ELSE cdr_ack_buffer
        /\ UNCHANGED <<trans_data_in_progress, terminal_type, table_download_pending>>

\* DLOG_MT_ATN_REQ_CDR_UPL, DLOG_MT_CALL_IN and DLOG_MT_CALL_BACK.
BeginUpload ==
    /\ \E id \in {ATN_REQ_CDR_UPL, CALL_IN, CALL_BACK} : Handle(id, <<TRANS_DATA>>)
    /\ trans_data_in_progress' = TRUE
    /\ UNCHANGED <<cdr_ack_buffer, terminal_type, table_download_pending>>

CashBoxCollection == Handle(CASH_BOX_COLLECTION, <<END_DATA>>) /\ Kept

\* Kept or printed, and not answered.
Unanswered == {TERM_STATUS, TERM_ERR_REP, CASH_BOX_STATUS, PERF_STATS_MSG, CARRIER_CALL_STATS,
               CARRIER_STATS_EXP, SUMMARY_CALL_STATS}
Report == (\E id \in Unanswered : Handle(id, <<>>)) /\ Kept

\* The type is looked up by the edition of the control ROM (MMLifecycle).
SwVersion ==
    /\ Handle(SW_VERSION, <<>>)
    /\ terminal_type' = setup.type
    /\ UNCHANGED <<cdr_ack_buffer, trans_data_in_progress, table_download_pending>>

initial_charge_Wide(digits) ==
    LET Digit(i) == IF i <= Len(digits) THEN digits[i] ELSE 65536 - 48
    IN  Digit(7) * 1000 + Digit(8) * 100 + Digit(9) * 10 + Digit(10)

initial_charge_Early(digits) ==
    LET Digit(i) == IF i <= Len(digits) THEN digits[i] ELSE 65536 - 48
    IN  (Digit(6) * 1000 + Digit(7) * 100 + Digit(8) * 10 + Digit(9)) % 65536

\* In the rating test mode, the seventh to tenth digit are the charge.  Behind the end of a
\* shorter number are zero bytes: '\0' - '0', in 16 bits.
initial_charge(digits) ==
    LET Digit(i) == IF i <= Len(digits) THEN digits[i] ELSE 65536 - 48
    IN  (Digit(7) * 1000 + Digit(8) * 100 + Digit(9) * 10 + Digit(10)) % 65536

RateRequest ==
    LET phone_number == phone_num_to_string(Field(dlog_mt_rate_request_t, "phone_number"), 21)
        rate == IF setup.rating THEN <<60, initial_charge(phone_number), 0, 0>> ELSE <<240, 100, 60, 25>>
    IN  Handle(RATE_REQUEST, <<RATE_RESPONSE, 7>> \o LE16s(rate) \o Zeros(2 * 8)) /\ Kept

FunfCardAuth ==
    /\ Handle(FUNF_CARD_AUTH,
              <<AUTH_RESP_CODE, 0>> \o setup.now.raw \o [i \in 1..12 |-> IF i <= 10 THEN 47 + i ELSE 54 + i])
    /\ Kept

EndData_KeepsQueue ==
    /\ Handle(END_DATA, <<END_DATA>> \o cdr_ack_buffer)
    /\ trans_data_in_progress' = FALSE
    /\ UNCHANGED <<cdr_ack_buffer, terminal_type, table_download_pending>>

EndData ==
    /\ Handle(END_DATA, <<END_DATA>> \o cdr_ack_buffer)
    /\ trans_data_in_progress' = FALSE /\ cdr_ack_buffer' = <<>>
    /\ UNCHANGED <<terminal_type, table_download_pending>>

TableUpdAck == Handle(TABLE_UPD_ACK, <<TRANS_DATA>>) /\ Kept

\* A table that is not handled: one byte on.
Unhandled ==
    /\ InWalk /\ At(at) \notin Understood
    /\ at' = at + 1
    /\ UNCHANGED <<framingVars, setup, pc, taken, terminal_id, out, handled, queued, sendVars>>
    /\ Kept

---------------------------------------------------------------------------
(* send_mm_table and send_mm_packet: as many packets as it takes, with the number of the
   terminal in front. *)

send_mm_packet(bytes) == Frame([flags |-> 0, payload |-> TerminalBytes(terminal_id) \o bytes])

ChunkSize_Payload == 250
ChunkSize == PKT_TABLE_DATA_LEN_MAX

send_mm_table(bytes) ==
    LET Chunk(i) == SubSeq(bytes, (i - 1) * ChunkSize + 1, Min({i * ChunkSize, Len(bytes)}))
    IN  [i \in 1..(Len(bytes) + ChunkSize - 1) \div ChunkSize |-> send_mm_packet(Chunk(i))]

Version == term_type_to_mtr(terminal_type)
Model == term_type_to_model(terminal_type)

Reply ==
    /\ WalkEnds
    /\ table' = out /\ packets' = send_mm_table(out)
    /\ IF table_download_pending THEN pc' = "download" /\ todo' = table_list(Version) /\ downloaded' = <<>>
       ELSE pc' = "receive" /\ UNCHANGED <<todo, downloaded>>
    /\ UNCHANGED <<framingVars, setup, taken, walkVars, contextVars, table_download_pending>>

---------------------------------------------------------------------------
(* mm_download_tables *)

HasFile(id) == id \in DOMAIN FileSizes[setup.dir]
Generated == {INSTALL_PARAMS, CALL_IN_PARMS, NCC_TERM_PARAMS, CALL_STAT_PARMS, COMM_STAT_PARMS, END_DATA}

Available(id) == id \in Generated \/ id = USER_IF_PARMS \/ HasFile(id)
Skips(id) == Unsuited(id, Model) \/ (setup.minimal /\ id \notin Mandatory) \/ ~Available(id)

HasShortNumbers_Before == Version < MTR_1_13
HasShortNumbers == Version <= MTR_1_13

FILE_BYTE == 85

TableFor(id) ==
    CASE id = INSTALL_PARAMS -> generate_install_parameters(setup.access, setup.key)
      [] id = CALL_IN_PARMS -> generate_call_in_parameters(setup.now)
      [] id = NCC_TERM_PARAMS /\ HasShortNumbers ->
           generate_term_access_parameters_mtr1(terminal_id, ncc_number(setup.ncc))
      [] id = NCC_TERM_PARAMS /\ ~HasShortNumbers ->
           generate_term_access_parameters(terminal_id, ncc_number(setup.ncc))
      [] id = CALL_STAT_PARMS -> generate_call_stat_parameters
      [] id = COMM_STAT_PARMS -> generate_comm_stat_parameters
      [] id = END_DATA -> generate_dlog_mt_end_data
      [] id = USER_IF_PARMS /\ ~HasFile(id) -> generate_user_if_parameters
      [] OTHER -> load_mm_table(id, Version, FileSizes[setup.dir][id], FILE_BYTE)

\* The model in DLOG_MT_FCONFIG_OPTS.
OfModelSent(bytes) == IF bytes[1] = FCONFIG_OPTS THEN [bytes EXCEPT ![2] = Model % 16] ELSE bytes

Download ==
    /\ pc = "download" /\ todo # <<>>
    /\ todo' = Tail(todo)
    /\ LET id == Head(todo)
       IN  IF Skips(id) THEN table' = <<>> /\ packets' = <<>> /\ UNCHANGED downloaded
           ELSE /\ table' = OfModelSent(TableFor(id))
                /\ packets' = send_mm_table(table')
                /\ downloaded' = Append(downloaded, id)
    /\ UNCHANGED <<framingVars, setup, pc, taken, walkVars, contextVars, table_download_pending>>

EndDownload ==
    /\ pc = "download" /\ todo = <<>>
    /\ pc' = "receive" /\ table' = <<>> /\ packets' = <<>>
    /\ UNCHANGED <<framingVars, setup, taken, walkVars, contextVars, table_download_pending, todo, downloaded>>

Next ==
    \/ Receive \/ Take
    \/ TimeSyncReq \/ AtnReqTabUpd \/ Alarm \/ MaintReq \/ CallDetails \/ BeginUpload
    \/ CashBoxCollection \/ Report \/ SwVersion \/ RateRequest \/ FunfCardAuth \/ EndData
    \/ TableUpdAck \/ Unhandled \/ Reply
    \/ Download \/ EndDownload

Spec == Init /\ [][Next]_vars

---------------------------------------------------------------------------
(* Properties of the replies. *)

PackedTables ==
    LET i == CHOOSE k \in 1..Len(sent) : sent[k].payload = Current.payload IN setup.packed[i].tables

AllUnderstood(tables) == \A k \in 1..Len(tables) : tables[k].id \in Understood

\* Where the terminal put the table behind the first k.
PutAt(tables, k) ==
    LET place[i \in 0..Len(tables)] ==
            IF i = 0 THEN PKT_TABLE_ID_OFFSET + 1 ELSE place[i - 1] + SizeOnLine(tables[i].id)
    IN  place[k]

\* process_mm_table handles the tables of a packet at the places where the terminal put
\* them, each once and in their order, up to the first that it does not know, and all of
\* them when it knows them all, however much their bytes look like other tables: every
\* case of the switch moves ppayload by the size of its table.
TablesInOrder ==
    pc = "process" =>
        LET tables == PackedTables
            placed == [k \in 1..Len(tables) |-> <<tables[k].id, PutAt(tables, k - 1)>>]
        IN  /\ \A k \in 1..Len(tables) :
                   AllUnderstood(SubSeq(tables, 1, k)) /\ k <= Len(handled) => handled[k] = placed[k]
            /\ WalkEnds /\ AllUnderstood(tables) => handled = placed

\* How the terminal reads a reply: table after table, by their sizes.
Replies == {TIME_SYNC, END_DATA, TABLE_UPD, CASH_BOX_STATUS, ALARM_ACK, MAINT_ACK, CDR_DETAILS_ACK,
            TRANS_DATA, RATE_RESPONSE, AUTH_RESP_CODE}
ReplySize ==
    [id \in Replies |->
        CASE id \in {END_DATA, TABLE_UPD, TRANS_DATA} -> 1
          [] id = ALARM_ACK -> 2
          [] id \in {MAINT_ACK, CDR_DETAILS_ACK} -> 3
          [] id = TIME_SYNC -> 8
          [] id = CASH_BOX_STATUS -> SizeOf(cashbox_status_univ_t)
          [] id = RATE_RESPONSE -> 26
          [] id = AUTH_RESP_CODE -> 22]

Read(bytes) ==
    LET Further(r) ==
            IF r.at > Len(bytes) THEN r
            ELSE LET size == IF bytes[r.at] \in Replies THEN ReplySize[bytes[r.at]] ELSE Len(bytes)
                     end == Min({r.at + size - 1, Len(bytes)})
                 IN  [at |-> end + 1, answers |-> Append(r.answers, SubSeq(bytes, r.at, end))]
        read[n \in 0..Len(bytes)] ==
            IF n = 0 THEN [at |-> 1, answers |-> <<>>] ELSE Further(read[n - 1])
    IN  read[Len(bytes)].answers

IsWhole(answer) == answer[1] \in Replies /\ Len(answer) = ReplySize[answer[1]]

\* The answers of one kind, and the kinds of all that are no acknowledgements of call records.
Of(answers, id) ==
    FlattenSeq([k \in 1..Len(answers) |-> IF answers[k][1] = id THEN <<answers[k]>> ELSE <<>>])
Kinds(answers) ==
    FlattenSeq([k \in 1..Len(answers) |->
        IF answers[k][1] = CDR_DETAILS_ACK THEN <<>> ELSE <<answers[k][1]>>])
Acks(bytes, id) == Of(Read(bytes), id)

\* What the terminal waits for: the kinds of answers to a table, and the acknowledgement of
\* a record or report that is the table with this number in the packet.
AnswersTo(t) ==
    CASE t.id = TIME_SYNC_REQ -> <<TIME_SYNC, END_DATA>>
      [] t.id = ATN_REQ_TAB_UPD /\ HasFlag(t.fill, TTBLREQ_CASHBOX_STATUS) ->
           <<TABLE_UPD, CASH_BOX_STATUS>>
      [] t.id = ATN_REQ_TAB_UPD /\ ~HasFlag(t.fill, TTBLREQ_CASHBOX_STATUS) -> <<TABLE_UPD>>
      [] t.id \in {ATN_REQ_CDR_UPL, CALL_IN, CALL_BACK, TABLE_UPD_ACK} -> <<TRANS_DATA>>
      [] t.id \in {CASH_BOX_COLLECTION, END_DATA} -> <<END_DATA>>
      [] t.id = ALARM -> <<ALARM_ACK>>
      [] t.id = MAINT_REQ -> <<MAINT_ACK>>
      [] t.id = RATE_REQUEST -> <<RATE_RESPONSE>>
      [] t.id = FUNF_CARD_AUTH -> <<AUTH_RESP_CODE>>
      [] OTHER -> <<>>
Ack(t, number) ==
    CASE t.id = ALARM -> <<ALARM_ACK, t.fill>>
      [] t.id = MAINT_REQ -> <<MAINT_ACK, t.fill, t.fill>>
      [] t.id = CALL_DETAILS -> <<CDR_DETAILS_ACK, number, t.fill>>

Answers(tables) == FlattenSeq([k \in 1..Len(tables) |-> AnswersTo(tables[k])])
Due(tables, id) ==
    FlattenSeq([k \in 1..Len(tables) |-> IF tables[k].id = id THEN <<Ack(tables[k], k)>> ELSE <<>>])
SpaceFor(kinds) == Len(FlattenSeq([k \in 1..Len(kinds) |-> Zeros(ReplySize[kinds[k]])]))

\* The reply reads as a sequence of whole answers, those that the tables of the packet ask
\* for, in their order.  The records and reports of the packet are each acknowledged once,
\* in their order and by their own numbers: an alarm and a maintenance report in the reply,
\* a call record in the reply or behind those that wait for the end of the upload, which
\* are kept until then, as long as there is room for them all.  The reply fits into the
\* buffer it is built in, if what is asked for does, with all the records that wait
\* (process_mm_table, from its declarations to the end of its walk).
AcksOnce ==
    WalkEnds /\ AllUnderstood(PackedTables) =>
        LET tables == PackedTables
            records == Read(queued) \o Due(tables, CALL_DETAILS)
        IN  /\ \A k \in 1..Len(Read(out)) : IsWhole(Read(out)[k])
            /\ FlattenSeq(Read(out)) = out
            /\ Kinds(Read(out)) = Answers(tables)
            /\ Acks(out, ALARM_ACK) = Due(tables, ALARM)
            /\ Acks(out, MAINT_ACK) = Due(tables, MAINT_REQ)
            /\ 3 * Len(records) <= PKT_TABLE_DATA_LEN_MAX =>
                  Acks(out, CDR_DETAILS_ACK) \o Read(cdr_ack_buffer) = records
            /\ SpaceFor(Answers(tables)) + 3 * Len(records) <= PKT_TABLE_DATA_LEN_MAX =>
                  Len(out) <= PKT_TABLE_DATA_LEN_MAX

\* What the terminal takes from a packet: nothing, if it does not pass.
Payload(frame) ==
    LET end == frame[3] + 1
    IN  IF end = Len(frame) /\ frame[end] = STOP_BYTE /\ Frame([flags |-> frame[2], payload |-> SubSeq(frame, 4, end - 3)]) = frame
        THEN SubSeq(frame, 4, end - 3) ELSE <<>>

\* Every packet is addressed to the terminal that is on the line, in the very bytes with
\* which it gave its ten-digit number: process_mm_table and receive_mm_table turn them
\* into characters, and send_mm_packet and the parameters for the terminal turn these back.
ReplyToCaller ==
    /\ \A k \in 1..Len(packets) : SubSeq(Payload(packets[k]), 1, PKT_TABLE_ID_OFFSET) = setup.id
    /\ table # <<>> /\ table[1] = NCC_TERM_PARAMS => SubSeq(table, 2, 6) = setup.id

\* The packets put together are the table, byte by byte, for every length of a table:
\* no packet is empty, and no length runs over its byte (send_mm_table).
ChunksRebuild ==
    /\ FlattenSeq([k \in 1..Len(packets) |->
           SubSeq(Payload(packets[k]), PKT_TABLE_ID_OFFSET + 1, Len(Payload(packets[k])))]) = table
    /\ \A k \in 1..Len(packets) : Len(Payload(packets[k])) > PKT_TABLE_ID_OFFSET

\* In the rating test mode, every call to a ten-digit number is charged its last four
\* digits, as -r promises (mm_display_help), whatever else is in the packet.
RatedAsDialed ==
    WalkEnds /\ setup.rating /\ AllUnderstood(PackedTables) =>
        LET dialed == phone_num_to_string(setup.dialed, 21)
            charged == Acks(out, RATE_RESPONSE)
        IN  Len(dialed) = 10 =>
                \A i \in 1..Len(charged) :
                    Word(charged[i][5], charged[i][6])
                        = dialed[7] * 1000 + dialed[8] * 100 + dialed[9] * 10 + dialed[10]

---------------------------------------------------------------------------
(* Properties of the downloads. *)

\* The tables that the lists in mm_manager.c mark as required.
Required ==
    {NCC_TERM_PARAMS, FCONFIG_OPTS, INSTALL_PARAMS, COIN_VAL_TABLE, NUM_PLAN_TABLE, RATE_TABLE,
     CALL_SCREEN_LIST, SCARD_PARM_TABLE, CARD_TABLE_EXP, CARRIER_TABLE_EXP}

\* With -s or without, for every type of terminal, a download ends with DLOG_MT_END_DATA,
\* has no table twice, and has every table of the list that the list says is required, that
\* there is, and that the terminal has a use for.
RequiredSent ==
    pc = "download" /\ todo = <<>> =>
        LET sentTables == {downloaded[i] : i \in 1..Len(downloaded)}
            listed == {table_list(Version)[i] : i \in 1..Len(table_list(Version))}
        IN  /\ {i \in 1..Len(downloaded) : downloaded[i] = END_DATA} = {Len(downloaded)}
            /\ {id \in listed \cap Required : Available(id) /\ ~Unsuited(id, Model)} \subseteq sentTables
            /\ \A i, j \in 1..Len(downloaded) : downloaded[i] = downloaded[j] => i = j

\* The places that look at the version of the terminal agree on what it understands: one
\* that gets the card table of the first versions gets its numbers in the short form, and
\* one with compressed tables for the rates in its list gets 200 numbers in its call
\* screening list, when the file has 180 (the list says how long it has to be), and no
\* other does.
FormsMatch ==
    table # <<>> /\ pc = "download" =>
        LET listed == {table_list(Version)[i] : i \in 1..Len(table_list(Version))}
        IN  /\ table[1] = NCC_TERM_PARAMS =>
                   Len(table) = IF CARD_TABLE_EXP \in listed THEN 48 ELSE 18
            /\ table[1] = CALL_SCREEN_LIST /\ FileSizes[setup.dir][CALL_SCREEN_LIST] = 3060 =>
                   (Len(table) = 3401 <=> COMP_LCD_TABLE(1) \in listed)

\* The numbers of the options are those that the terminal reads: the access code, the key
\* card number and the number of the manager, of which the first versions have room for
\* twelve digits.
NumbersKept ==
    /\ table # <<>> /\ table[1] = NCC_TERM_PARAMS =>
           LET room == IF Len(table) = 18 THEN 6 ELSE 10
               Number(k) == SubSeq(table, 7 + (k - 1) * room, 6 + k * room)
           IN  \A k \in 1..2 :
                   LET number == ncc_number(setup.ncc)[k]
                   IN  callscrn_num_to_string(Number(k), 21) = SubSeq(number, 1, Min({Len(number), 2 * room}))
    /\ table # <<>> /\ table[1] = INSTALL_PARAMS =>
           /\ setup.access # <<>> => phone_num_to_string(SubSeq(table, 2, 5), 8) = setup.access
           /\ setup.key # <<>> => phone_num_to_string(SubSeq(table, 6, 10), 11) = setup.key

\* The terminal is told to call in twice a day, as generate_call_in_parameters says it
\* wants: the second call is still on the same day, the third would not be.  The table
\* expires on a day there is, in a year, unless it is made on a 29 February.
CallsTwiceDaily ==
    table # <<>> /\ table[1] = CALL_IN_PARMS =>
        LET hour == table[5]  interval == table[9]
        IN  /\ hour + interval < 24 /\ hour + 2 * interval >= 24
            /\ table[14] = table[2] + 1
            /\ (setup.now.month = 2 /\ setup.now.day = 29) \/ table[16] \in 1..DaysIn(table[15], table[14])
================================================================================
