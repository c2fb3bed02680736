----------------------------- MODULE MMSession ------------------------------
(***************************************************************************)
(* The session of mm_manager: main's loop over calls, process_mm_table     *)
(* with its queue of call detail record (CDR) acknowledgements, the loop   *)
(* of mm_download_tables, and SIGINT at any moment.                        *)
(*                                                                         *)
(* The link operations appear by their outcomes, which MMProto derives: a  *)
(* table arrives or not, a reply arrives or not, and each may find the     *)
(* call up or down afterwards.  A packet is a sequence of tables.  Packets *)
(* that process_mm_table should not be handed and is, because they broke   *)
(* off or came damaged, are among them, as far as the damage is in a CDR,  *)
(* behind what the database knows it by.                                   *)
(*                                                                         *)
(* pc says where the thread is:                                            *)
(*   wait      mm_connection_wait, in wait_for_modem_response              *)
(*   call      main, at the top of the loop over the tables of a call      *)
(*   receive   process_mm_table, in receive_mm_table                       *)
(*   table     process_mm_table, in the loop over the tables of a packet   *)
(*   download  mm_download_tables, at the top of its loop                  *)
(*   ack       wait_for_table_ack, in receive_mm_packet                    *)
(*   retry     wait_for_table_ack, in wait_for_mm_ack                      *)
(*   down      mm_shutdown                                                 *)
(***************************************************************************)
EXTENDS Naturals, Sequences

CONSTANTS
    Terminals,      \* the payphones that may call
    CDRs,           \* sequence numbers of the records every terminal has to upload
    None,           \* no terminal, no record
    AckRoom,        \* acknowledgements that cdr_ack_buffer holds
    TableCount      \* tables in the list of mm_download_tables

ASSUME SessionAssumption ==
    /\ None \notin Terminals \cup CDRs
    /\ AckRoom \in Nat
    /\ TableCount \in Nat \ {0}

MAX_FAILURES == 3       \* receives that may fail in a row before main hangs up

\* What the tables of a terminal do to the state of the session.
Cdr(s) == [kind |-> "cdr", seq |-> s]           \* DLOG_MT_CALL_DETAILS
Upload == [kind |-> "upload", seq |-> None]     \* ATN_REQ_CDR_UPL, CALL_IN, CALL_BACK
EndData == [kind |-> "end", seq |-> None]       \* DLOG_MT_END_DATA
Update == [kind |-> "update", seq |-> None]     \* DLOG_MT_ATN_REQ_TAB_UPD
Other == [kind |-> "other", seq |-> None]       \* the tables that change none of it

\* A CDR that has its number and start time, and not all of the rest: it is cut off, and the
\* rest zero, or damaged.
SpoiltCdr(s) == [kind |-> "spoilt", seq |-> s]

Table == {Cdr(s) : s \in CDRs} \cup {SpoiltCdr(s) : s \in CDRs} \cup {Upload, EndData, Update, Other}

\* An acknowledgement names a record by its number only; `from` is history.
Acks == [from : Terminals, seq : CDRs]
NoReply == [some |-> FALSE, acks |-> {}]

VARIABLES
    \* mm_context_t, main
    running, connected, retries, trans_data_in_progress, cdr_ack_buffer,
    \* process_mm_table and mm_download_tables
    pc, todo, reply, table_download_pending, left,
    \* the database: the CDRs of TCDR, and those of them that came spoilt
    saved, spoilt,
    \* the terminals: who is calling, whether it is uploading, the records each still holds
    caller, uploading, held

mainVars == <<running, connected, retries>>
cdrVars == <<trans_data_in_progress, cdr_ack_buffer>>
dbVars == <<saved, spoilt>>
tableVars == <<todo, reply, table_download_pending, left>>
termVars == <<caller, uploading, held>>
vars == <<mainVars, cdrVars, tableVars, pc, dbVars, termVars>>

TypeOK ==
    /\ running \in BOOLEAN /\ connected \in BOOLEAN
    /\ retries \in 0..MAX_FAILURES
    /\ trans_data_in_progress \in BOOLEAN
    /\ cdr_ack_buffer \in Seq(Acks) /\ Len(cdr_ack_buffer) <= AckRoom
    /\ pc \in {"wait", "call", "receive", "table", "download", "ack", "retry", "down"}
    /\ todo \in Seq(Table)
    /\ reply \in [some : BOOLEAN, acks : SUBSET Acks]
    /\ table_download_pending \in BOOLEAN
    /\ left \in 0..TableCount
    /\ saved \subseteq Terminals \X CDRs /\ spoilt \subseteq saved
    /\ caller \in Terminals \cup {None}
    /\ uploading \in BOOLEAN
    /\ held \in [Terminals -> SUBSET CDRs]

Init ==
    /\ running = TRUE /\ connected = FALSE /\ retries = 0
    /\ trans_data_in_progress = FALSE /\ cdr_ack_buffer = <<>>
    /\ pc = "wait" /\ todo = <<>> /\ reply = NoReply
    /\ table_download_pending = FALSE /\ left = 0
    /\ saved = {} /\ spoilt = {}
    /\ caller = None /\ uploading = FALSE
    /\ held = [t \in Terminals |-> CDRs]

----------------------------------------------------------------------------
(* SIGINT, and main. *)

Interrupt ==
    /\ running /\ pc # "down"
    /\ running' = FALSE
    /\ UNCHANGED <<connected, retries, cdrVars, tableVars, pc, dbVars, termVars>>

\* CONNECT: the upload state of an earlier call is not reset.
Call(t) ==
    /\ pc = "wait"
    /\ connected' = TRUE
    /\ pc' = "call"
    /\ caller' = t
    /\ UNCHANGED <<running, retries, cdrVars, tableVars, dbVars, uploading, held>>

\* The modem fails.
ModemError ==
    /\ pc = "wait"
    /\ running' = FALSE
    /\ pc' = "down"
    /\ UNCHANGED <<connected, retries, cdrVars, tableVars, dbVars, termVars>>

\* No call in the time of a read: look at manager_running and wait again.
NoCall ==
    /\ pc = "wait" /\ ~running
    /\ pc' = "down"
    /\ UNCHANGED <<mainVars, cdrVars, tableVars, dbVars, termVars>>

GoesOn_InCall == connected /\ retries < MAX_FAILURES
GoesOn == connected /\ running /\ retries < MAX_FAILURES

NextTable ==
    /\ pc = "call" /\ GoesOn
    /\ retries' = retries + 1
    /\ pc' = "receive"
    /\ UNCHANGED <<running, connected, cdrVars, tableVars, dbVars, termVars>>

EndCall ==
    /\ pc = "call" /\ ~GoesOn
    /\ connected' = FALSE /\ retries' = 0
    /\ pc' = IF running THEN "wait" ELSE "down"
    /\ caller' = None /\ uploading' = FALSE
    /\ UNCHANGED <<running, cdrVars, tableVars, dbVars, held>>

----------------------------------------------------------------------------
(* process_mm_table *)

\* A terminal uploads its records between ATN_REQ_CDR_UPL and END_DATA; outside an upload
\* it reports single calls, as of a credit card, and asks for its tables.
Cards == {<<Cdr(s)>> : s \in held[caller]}
Sends ==
    IF uploading
    THEN Cards \cup {<<Cdr(s), Cdr(u)>> : s, u \in held[caller]}
         \cup {<<EndData>>, <<Other>>} \cup {<<Cdr(s), EndData>> : s \in held[caller]}
    ELSE Cards \cup {<<Upload>>, <<Update>>, <<Other>>} \cup {<<Other, Cdr(s)>> : s \in held[caller]}

UploadsAfter(tables) ==
    IF tables = <<Upload>> THEN TRUE
    ELSE uploading /\ tables[Len(tables)] # EndData

Starts(tables) ==
    /\ pc' = "table" /\ todo' = tables
    /\ UNCHANGED <<reply, table_download_pending, left>>

\* The packet arrives and is acknowledged at the link.
Received ==
    /\ pc = "receive"
    /\ \E tables \in Sends : Starts(tables) /\ uploading' = UploadsAfter(tables)
    /\ UNCHANGED <<mainVars, cdrVars, dbVars, caller, held>>

\* What is left of a packet after n tables of it: they, and what had come of a CDR.
BrokenOff(tables, n) ==
    {SubSeq(tables, 1, n)} \cup
    {Append(SubSeq(tables, 1, n), SpoiltCdr(s)) : s \in {u \in CDRs : tables[n + 1] = Cdr(u)}}

\* The call drops in the middle of a packet, and the status is one a uint8_t loses: what
\* had arrived is processed.
ReceivedPartly ==
    /\ pc = "receive"
    /\ \E tables \in Sends, n \in 0..1 :
          n < Len(tables) /\ \E part \in BrokenOff(tables, n) : Starts(part)
    /\ connected' = FALSE
    /\ UNCHANGED <<running, retries, cdrVars, dbVars, termVars>>

\* The packet is damaged, and anything but a NACK answers the manager's NACK, be it the packet
\* again: the terminal goes on, and process_mm_table has the damaged one.
ReceivedDamaged ==
    /\ pc = "receive"
    /\ \E tables \in Sends : \E i \in 1..Len(tables) :
          /\ tables[i].kind = "cdr"
          /\ Starts([tables EXCEPT ![i] = SpoiltCdr(@.seq)])
          /\ uploading' = UploadsAfter(tables)
    /\ UNCHANGED <<mainVars, cdrVars, dbVars, caller, held>>

\* A packet shorter than a phone number: success, and nothing in it.
ReceivedShort ==
    /\ pc = "receive"
    /\ Starts(<<>>)
    /\ UNCHANGED <<mainVars, cdrVars, dbVars, termVars>>

\* Damaged, timed out, hung up, or flagged RETRY.
NotReceived ==
    /\ pc = "receive"
    /\ connected' \in BOOLEAN
    /\ pc' = "call"
    /\ UNCHANGED <<running, retries, cdrVars, tableVars, dbVars, termVars>>

ThisTable(kind) ==
    /\ pc = "table" /\ todo # <<>> /\ Head(todo).kind = kind
    /\ todo' = Tail(todo)
    /\ UNCHANGED <<mainVars, pc, left, termVars>>

Save_OnlyAtOnce(a) ==
    /\ saved' = IF trans_data_in_progress THEN saved ELSE saved \cup {<<a.from, a.seq>>}
    /\ UNCHANGED spoilt

\* mm_acct_save_TCDR: a record the database has already, whole or spoilt, is ignored, as
\* the two have the same terminal, number and start time.
Save(a) ==
    /\ saved' = saved \cup {<<a.from, a.seq>>}
    /\ spoilt' = IF Head(todo).kind = "spoilt" /\ <<a.from, a.seq>> \notin saved
              THEN spoilt \cup {<<a.from, a.seq>>} ELSE spoilt

QueueAck_Unbounded(a) == cdr_ack_buffer' = Append(cdr_ack_buffer, a)

\* append_to_cdr_ack_buffer: an acknowledgement that finds no room is lost.
QueueAck(a) ==
    cdr_ack_buffer' = IF Len(cdr_ack_buffer) < AckRoom THEN Append(cdr_ack_buffer, a)
                      ELSE cdr_ack_buffer

\* The acknowledgement waits for the end of the upload, or goes into this reply.
SaveCDR ==
    /\ ThisTable("cdr") \/ ThisTable("spoilt")
    /\ LET a == [from |-> caller, seq |-> Head(todo).seq] IN
       /\ Save(a)
       /\ \/ trans_data_in_progress /\ QueueAck(a) /\ UNCHANGED reply
          \/ /\ ~trans_data_in_progress
             /\ reply' = [some |-> TRUE, acks |-> reply.acks \cup {a}]
             /\ UNCHANGED cdr_ack_buffer
    /\ UNCHANGED <<trans_data_in_progress, table_download_pending>>

BeginUpload_NotMarked ==
    /\ ThisTable("upload")
    /\ reply' = [reply EXCEPT !.some = TRUE]
    /\ UNCHANGED <<cdrVars, table_download_pending, dbVars>>

BeginUpload ==
    /\ ThisTable("upload")
    /\ trans_data_in_progress' = TRUE
    /\ reply' = [reply EXCEPT !.some = TRUE]
    /\ UNCHANGED <<cdr_ack_buffer, table_download_pending, dbVars>>

Queued == {cdr_ack_buffer[i] : i \in 1..Len(cdr_ack_buffer)}

\* The whole queue goes into the reply, whoever it was queued for.
EndUpload ==
    /\ ThisTable("end")
    /\ trans_data_in_progress' = FALSE
    /\ reply' = [some |-> TRUE, acks |-> reply.acks \cup Queued]
    /\ cdr_ack_buffer' = <<>>
    /\ UNCHANGED <<table_download_pending, dbVars>>

RequestTables ==
    /\ ThisTable("update")
    /\ table_download_pending' = TRUE
    /\ reply' = [reply EXCEPT !.some = TRUE]
    /\ UNCHANGED <<cdrVars, dbVars>>

\* Time, rates, card authorizations and alarms are answered; statistics are not.
OtherTable ==
    /\ ThisTable("other")
    /\ \E b \in BOOLEAN : reply' = [reply EXCEPT !.some = @ \/ b]
    /\ UNCHANGED <<cdrVars, table_download_pending, dbVars>>

\* The terminal drops the records it finds acknowledged, by number.
Drop(acks) == held' = [held EXCEPT ![caller] = @ \ {a.seq : a \in acks}]

\* The end of process_mm_table: send what there is to send; the result is not looked at.
Reply ==
    /\ pc = "table" /\ todo = <<>>
    /\ IF reply.some /\ connected
       THEN /\ connected' \in BOOLEAN
            /\ Drop(reply.acks) \/ UNCHANGED held
       ELSE UNCHANGED <<connected, held>>
    /\ IF table_download_pending
       THEN pc' = "download" /\ left' = TableCount /\ UNCHANGED retries
       ELSE pc' = "call" /\ retries' = 0 /\ UNCHANGED left
    /\ reply' = NoReply /\ table_download_pending' = FALSE
    /\ UNCHANGED <<running, cdrVars, todo, dbVars, caller, uploading>>

----------------------------------------------------------------------------
(* mm_download_tables and wait_for_table_ack *)

LinkMayDrop == connected' \in IF connected THEN BOOLEAN ELSE {FALSE}

\* A table that is skipped, or cannot be loaded or sent; the last one, DLOG_MT_END_DATA,
\* is not acknowledged.
NotAwaited ==
    /\ pc = "download" /\ running /\ connected /\ left > 0
    /\ LinkMayDrop
    /\ left' = left - 1
    /\ UNCHANGED <<running, retries, cdrVars, pc, todo, reply, table_download_pending, dbVars, termVars>>

Sent ==
    /\ pc = "download" /\ running /\ connected /\ left > 1
    /\ LinkMayDrop
    /\ left' = left - 1
    /\ pc' = "ack"
    /\ UNCHANGED <<running, retries, cdrVars, todo, reply, table_download_pending, dbVars, termVars>>

EndDownload ==
    /\ pc = "download" /\ (~running \/ ~connected \/ left = 0)
    /\ pc' = "call" /\ retries' = 0 /\ left' = 0
    /\ UNCHANGED <<running, connected, cdrVars, todo, reply, table_download_pending, dbVars,
                   termVars>>

\* The awaited acknowledgement, that of another table, or a call that is gone.
TableAckEnds ==
    /\ pc = "ack"
    /\ LinkMayDrop
    /\ pc' = "download"
    /\ UNCHANGED <<running, retries, cdrVars, tableVars, dbVars, termVars>>

AskRetry ==
    /\ pc = "ack" /\ connected
    /\ pc' = "retry"
    /\ UNCHANGED <<mainVars, cdrVars, tableVars, dbVars, termVars>>

\* Whatever the answer, the loop goes round, unless it hung up.
RetryAnswered ==
    /\ pc = "retry"
    /\ LinkMayDrop
    /\ pc' = IF connected' THEN "ack" ELSE "download"
    /\ UNCHANGED <<running, retries, cdrVars, tableVars, dbVars, termVars>>

----------------------------------------------------------------------------
Receive == Received \/ ReceivedPartly \/ ReceivedDamaged \/ ReceivedShort \/ NotReceived
ProcessTable == SaveCDR \/ BeginUpload \/ EndUpload \/ RequestTables \/ OtherTable
Download == NotAwaited \/ Sent \/ EndDownload \/ TableAckEnds \/ AskRetry \/ RetryAnswered

Manager ==
    \/ NoCall \/ ModemError \/ NextTable \/ EndCall
    \/ Receive \/ ProcessTable \/ Reply \/ Download

Next == Interrupt \/ (\E t \in Terminals : Call(t)) \/ Manager

Spec == Init /\ [][Next]_vars

----------------------------------------------------------------------------
(* Properties *)

\* An acknowledgement that is queued or in the reply is of a record that its terminal sent
\* and that is in the database, over dropped calls and full buffers.
SavedBeforeAcked ==
    \A a \in reply.acks \cup Queued : <<a.from, a.seq>> \in saved

\* "If terminal is transferring multiple tables, queue the CDR response for later, after
\* receiving DLOG_MT_END_DATA" (process_mm_table): while a terminal uploads, no reply
\* acknowledges a record.
UploadAcksWait == uploading /\ pc = "table" => reply.acks = {}

\* What that queue is for: a record that a terminal has dropped, because it was
\* acknowledged, is in the database, if not whole.
NoRecordLost == \A t \in Terminals : \A s \in CDRs \ held[t] : <<t, s>> \in saved

\* "Retry unless the terminal disconnected." (receive_mm_table): a packet that came damaged is
\* received again, and one that broke off in a call that is lost is given up, so that what the
\* database has of a record its terminal has dropped is the record that was sent.
FiledWhole == \A t \in Terminals : \A s \in CDRs \ held[t] : <<t, s>> \notin spoilt

=============================================================================
