# Verification of mm_manager

mm_manager answers the telephone calls of Nortel Millennium payphones: over a modem it
exchanges packets with one payphone at a time, stores the records the payphone uploads
in an SQLite database, and downloads configuration tables to it.  This directory holds
TLA+ modules that model the program from its source, TLC configurations that check them
and proofs for TLAPS.  Source paths below are relative to the repository.

## The system

The program is one thread (`main`), interrupted only by SIGINT.

| component | state | operations | interacts with |
|---|---|---|---|
| link layer (`src/mm_proto.c`) | `mm_proto_t`: `connected`, `tx_seq`, `rx_seq`, `waiting_for_ack`, `terminal_id` | `proto_connect/disconnect`, `receive_mm_table`, `send_mm_table`, `wait_for_table_ack`; inside: `receive_mm_packet`, `send_mm_packet`, `wait_for_mm_ack` | reads and writes the serial port, hangs up the modem, called by the session |
| session (`src/mm_manager.c`: `main`, `process_mm_table`) | `mm_context_t`: `trans_data_in_progress`, `cdr_ack_buffer`, `terminal_upd_reason`, `terminal_type`; `manager_running` | one loop per call, one table of the terminal per turn; replies | link layer, accounting, download |
| table download (`mm_download_tables`, `load_mm_table`, `generate_*`, `check_mm_table_is_newer`, `update_terminal_download_time`) | table files, one `table_update.log` per terminal | choose, load and send each table, wait for its acknowledgement | link layer, file system |
| connection (`src/mm_connection.c`), modem (`src/mm_modem.c`) | serial context, streams | open, wait for CONNECT, close; AT commands, hang-up | serial port, `manager_running` |
| accounting (`src/mm_accounting.c`, `src/mm_sqlite3.c`, `src/mm_tables.c`, `src/mm_config.c`) | database tables TCASHST, TCOLLST, TCDR, TSTATUS, TSWVERS ... | save each record, load the cash box | session |
| conversions (`src/mm_util.c`) | none | phone numbers, BCD, CRC-16, terminal types | all |
| capture and mirror (`src/mm_pcap.c`, `src/mm_udp.c`) | output files, socket | record each packet | link layer |
| offline tools (`src/mm_dlog2pcap.c`, table printers, converters, card check, Python generators, Wireshark dissector) | none shared with the manager | one file in, one file out | none |

What is hard in this code, and what would make each component correct:

* **Link layer.**  Packets and acknowledgements are lost, damaged and repeated; an
  acknowledgement is recognised by being a packet, not by its sequence; errors hang up
  the call in the middle of nested calls.  Correct means: sequences number the packets of
  a call, a table is delivered once and in order, success is reported only of a table that
  has arrived, nothing is sent on a dead call, every operation ends.
* **Session.**  State of one call (`trans_data_in_progress`, queued CDR
  acknowledgements) must not reach the next; a record that was saved must be
  acknowledged, and one that was not must not be; partial packets must not be processed;
  a shutdown request must be obeyed.
* **Download.**  A table that was not delivered must not be taken for up to date later.
* **Accounting.**  A report is in the database before its terminal drops it, over crashes and
  statements that fail; a report that comes again is not filed twice; a terminal is told of
  its own last cash box.
* **Connection and modem.**  What is opened is closed, once; no CONNECT is overlooked; the
  modem that waits for calls is initialized; SIGINT ends the program.
* **Contents.**  The tables of a packet are handled where they lie, and each record is
  acknowledged once; a damaged frame never passes; a table arrives byte by byte; every type of
  terminal gets the tables it needs, in the form it reads.

## Modules

| module | role |
|---|---|
| `MMProto` | the link layer, one action per way an operation continues after `receive_mm_packet` returns |
| `MMReceive` | `MMProto` over the single reads of `receive_mm_packet`: its time-out, and noise on the line |
| `MMTransfer` | abstract: what `send_mm_table` promises |
| `MMLink` | `MMProto`, a payphone and a faulty line, driven as `mm_download_tables` does |
| `MMLink_proofs` | theorems about `MMProto` and `MMLink`, the refinement of `MMTransfer` among them, and their proofs |
| `MMSession` | calls, the tables of a terminal, the queue of CDR acknowledgements, SIGINT |
| `MMSession_proofs` | theorems about `MMSession` and their proofs |
| `MMShutdown` | `MMSession` on a line with noise: what becomes of SIGINT |
| `MMDownload` | the table files, the download log, what a download sends and skips |
| `MMDownload_proofs` | theorems about `MMDownload` and their proofs |
| `MMAccounting` | what is saved of each table, the uniqueness rules of the database, crashes and refused statements |
| `MMLedger` | abstract: what the accounting promises a terminal |
| `MMAccounting_proofs` | theorems about `MMAccounting` and their proofs |
| `MMModem` | the modem, the port, AT commands and responses |
| `MMLifecycle` | `MMModem` and the program from its command line to `mm_shutdown` |
| `MMLifecycle_proofs` | theorems about `MMLifecycle` and their proofs |
| `MMCodec` | CRC-16, packed numbers, terminal types, as operators |
| `MMCodec_proofs` | what these operators compute, for all their arguments: lemmas and their proofs |
| `MMTables` | layouts and lists of tables, and the contents of those that are generated, as operators |
| `MMFraming` | packets as bytes: `receive_mm_packet`, and the parser of `mm_dlog2pcap` |
| `MMContents` | `MMFraming` and `MMTables` composed: `process_mm_table` over the bytes of a packet, the reply, and every table of a download |
| `MMContents_proofs` | theorems about `MMContents`, its packets and downloads, and what of `MMFraming` they rest on, lemmas about replies, and their proofs |
| `MMPackets_proofs` | theorems about `MMFraming` on the line and about the walk of `MMContents` and its replies, and their proofs |
| `MMDownloadMC`, `MMAccountingMC`, `MMLifecycleMC`, `MMContentsMC` | values for the functions and sets among the constants |

### MMProto

The thread blocks in one place only, `receive_mm_packet`.  A step goes from one return of
that function to the next call of it, or to the return of the link operation.  `pc` names
the blocked operation and where in it, `op`, `table`, `chunk`, `nchunks` and `retries` are
its arguments and locals, `ret` is what it returned.  `out` is the packet the step sent.
The result of `receive_mm_packet` is chosen freely from `Results`: every combination of
RETRY and DISCONNECT flags, CRC and framing errors, payload length class, sequence, and
the line faults (time-out, lost carrier, failed read).

| code | actions |
|---|---|
| `proto_connect`, end of the loop in `main` | `Connect`, `Disconnect` |
| `receive_mm_table` | `StartReceive`, `ReceiveData`, `ReceiveShort`, `ReceiveBad`, `ReceiveDown`, `NackAnswered` |
| `send_mm_table`, `send_mm_packet` | `StartSend`, `StartSendDown`, `ChunkAcked`, `TableSent`, `Retransmit`, `SendDropped`, `GiveUp` |
| `wait_for_table_ack` | `StartTableAck`, `StartTableAckDown`, `TableAcked`, `WrongTable`, `ShortIgnored`, `AskRetry`, `TableAckDown`, `RetryAnswered`, `RetryDown` |

`buf` is what the client has in its `mm_table_t`: a good table, a short packet, a damaged
packet or a partial one.  `process_mm_table` keeps the status in a `uint8_t`, which loses
the two highest bits; `Processes` models that, and is why a partial packet may be
processed after the carrier was lost.

Sequence counters are kept modulo 4: the code masks every use of them and 4 divides 256.
Error injection (a debugging option) is a damaged packet and needs no action of its own.

### MMReceive

How long an operation of `MMProto` stays blocked.  The loop of `receive_mm_packet` reads byte
after byte; a read ends after a second (VTIME on the tty) with a byte or without, and eleven
reads in a row without one end the loop.  But every byte sets `timeout` back to 0
(`mm_proto.c:278`), a byte that begins no packet is thrown away, and nothing bounds how often:
on a line that never comes to rest `receive_mm_packet` does not return.

| code | actions |
|---|---|
| loop over `read_serial`, a byte that is thrown away | `ReadNoise` |
| loop over `read_serial`, no byte | `ReadNothing` |
| end of `receive_mm_packet`, and the step of `MMProto` that follows | `Returns` |
| the clients of the link layer; the line | `Calls`; `Noise` |

`noise` says that such a byte is in the port.  The bytes of the packet that is returned are read
in `Returns`; `MMFraming` has them one by one.  `LineSettles`, from some time on there is no
more noise, is what `CallsReturn` assumes: it is an assumption about the line, which the code
cannot enforce and does not need to know when.

### MMLink

The payphone is not part of the repository.  It is modelled from what the code expects of
it: it acknowledges and drops a data packet with the sequence of the last it accepted,
NACKs a damaged packet, repeats its unacknowledged packet when asked, and sends
DLOG_MT_TABLE_UPD_ACK once it has a table whole.  Two assumptions are made in its favour:
it is prompt, so that the manager's eleven-second time-out happens only when nothing is on
the line, and it never repeats a packet unasked.  Queues are at most two packets long in
either direction as a consequence, which `LinkTypeOK` checks.

`MaxFaults` bounds the packets the line loses or damages between two packets the manager
is done with.  The abstract specification `MMTransfer` is implemented with
`MaxFaults = PKT_MAX_RETRIES - 1 = 4` and not with 5: see the findings.

### MMSession

The thread again, one level up: `main`'s loop over calls, `process_mm_table` and the loops of
`mm_download_tables` and `wait_for_table_ack`.  A link operation is one step that ends in any
of the ways `MMProto` derives: it delivered or not, and the call is up or down afterwards.

| code | actions |
|---|---|
| `signal_handler` | `Interrupt`, at any moment |
| `mm_connection_wait` | `Call`, `ModemError`, `NoCall` |
| `main` | `NextTable`, `EndCall` |
| `process_mm_table`, receiving | `Received`, `ReceivedPartly`, `ReceivedDamaged`, `ReceivedShort`, `NotReceived` |
| `process_mm_table`, its loop | `SaveCDR`, `BeginUpload`, `EndUpload`, `RequestTables`, `OtherTable` |
| `process_mm_table`, its end | `Reply` |
| `mm_download_tables` | `NotAwaited`, `Sent`, `EndDownload` |
| `wait_for_table_ack` | `TableAckEnds`, `AskRetry`, `RetryAnswered` |

Of the tables a terminal sends, five kinds touch the state of the session; all others are
`OtherTable`, which adds to the reply or does not.  A packet holds one or two tables.
`ReceivedPartly` is the partial packet that the truncated status lets through; it ends
between two tables, or within a call record behind its number and start time.  `ReceivedDamaged` is
the packet whose bad checksum the answer to the NACK lets through; a call record in it is damaged
behind these fields.  `SpoiltCdr` is such a record, cut off or damaged.  One spoilt in those
fields is filed under a number or a time of its own and is nobody's, so it is left out, and so is
damage to the other kinds of table, which would be taken for a different table: `MMProto` has every
damaged packet, with what becomes of it and without its contents.

Assumed of the terminal, which is not part of the repository: it uploads its records between
DLOG_MT_ATN_REQ_CDR_UPL (or a call-in, or a call-back) and DLOG_MT_END_DATA, in any order and
as often as it likes until they are acknowledged; outside an upload it sends single records
and requests; and it drops a record when a reply acknowledges its number.  The database is
assumed here to save what it is given (a statement may fail in `MMAccounting`); a record that it has already is ignored (TCDR has a
uniqueness rule by terminal, start time and number), so `saved` is a set.  `spoilt` are the rows in
it that a spoilt record made: the whole record that comes later does not replace them.

`MMShutdown` adds `noise`, as in `MMReceive`, wherever the thread may be in `receive_mm_packet`
(`InReceive`): receiving a table, waiting for an acknowledgement of one, or sending a reply or a
table, which waits for an ACK.  While there is noise in the port the thread reads it and does
nothing else (`ReadNoise`), even when SIGINT has come; `Proceeds` is any step of `MMSession`.

### MMDownload

`mm_download_tables` again, for what it sends.  `mtime` is the time each file was written in
the directory of a terminal, of a model, or in the default one; `log` the time of each
terminal's `table_update.log`; `has` the file whose contents a terminal has for a table.  Files
and logs outlive the program; `model`, which stands for `terminal_type`, is lost in a restart and
otherwise stays that of whichever terminal sent its software version last.

| code | definitions |
|---|---|
| `load_mm_table` (directories) | `Loaded` |
| `check_mm_table_is_newer` | `Checked`, `Older` |
| `DLOG_MT_ATN_REQ_TAB_UPD`, start of `mm_download_tables` | `Request`, `Skipping` |
| its loop | `SkipUnsuited`, `SkipOlder`, `Deliver`, `Fail`, `SendEndData` |
| its end, `update_terminal_download_time` | `EndDownload`, `LogDownload` |
| `signal_handler`, a new start of the program | `Interrupt`, `Restart` |
| operator, clock, terminal | `Write`, `Tick`, `SoftwareVersion`, `LoseMemory` |

A turn of the loop is one step: the file is read into memory before it is sent, so that a write
falls before or after it.  Files are created and rewritten, with the time of the writing; they
are not removed or given other times.  A terminal that lost its memory, or power in a download,
says so in its requests until DLOG_MT_END_DATA has reached it.

`LogProves` says what the log is worth.  The log is written whenever the call is still up at
the end, though tables failed, or SIGINT broke the download off, or a file was written after it
was sent: the history variable `doubtful` collects those tables, and a table served from the
directory of a model is the other exception.  For all others, what a forced download skips the
terminal has.  `CompleteIsDelivered` is the same for the tables of the terminal's model without
either exception, which is what the text of the log says; it fails (finding 5).

### MMAccounting

Each report of a terminal is a record that names its kind (the database table it belongs to),
its terminal, the terminal's own time or number where the table has one, and what it says.
`rows` is all tables but TCASHST, `cashst` the row of each terminal there; `held` are the
reports a terminal still has, `refused` those a statement failed for (a history variable), and
`day` the server's date.  Rows and dates outlive the program.

| code | definitions |
|---|---|
| `mm_open_database`, `mm_shutdown` or a crash at any step | `Open`, `Stop` |
| `receive_mm_table`, which acknowledges before anything is saved | `Receive` |
| `mm_acct_save_*` | `SaveTALARM` ... `SaveTSWVERS`, by `Inserts`, `Insert`, `Fails` |
| `CREATE TABLE ... UNIQUE(...)` | `TALARM_Key` ..., `Clash` |
| `mm_acct_load_TCASHST`, `mm_sql_load_TCASHST` | `LoadTCASHST`, `Columns`, `Loaded` |
| end of `process_mm_table` | `Reply` |

`mm_sql_exec` counts a violated constraint as success and its callers ignore its result, so a
report is answered whether it was inserted, was there already, or failed.  A terminal repeats a
report until it is answered; the kinds without an answer it drops with the acknowledgement of
the link, before they are saved, so that a crash loses them.  That is why `AnsweredIsFiled` and
`MMLedger` speak of the answered kinds only, and `TAUTH`, whose key holds the date of receipt
and a number but not the card, is the exception in the property.  `TOPCODE` has no uniqueness
rule: a repeated one is filed again.  Cents are lost when a box is saved (`Dollars`), and status
and percentage of a box change places, since `mm_acct_save_TCASHST` and `mm_acct_save_TCOLLST`
give their values in another order than the columns: `CashBoxIsLast` is about the time and the
amount.  A collection is filed, and leaves the status of the box as it is.

### MMModem and MMLifecycle

A read of the port waits a second.  A line from the modem comes whole or in two pieces with a
longer pause between them (`Pieces`); each try of `wait_for_modem_response` ends with a line, a
piece, a second of silence or an error.  The modem answers a command at any time, while it is
waited for or later; RING, CONNECT, NO CARRIER and noise come unasked.  `-m` is given or not:
without it the port is a test file, which may hold any responses and has no pauses.

| code | actions |
|---|---|
| options of `main` and their error exits | `OptionLog`, `OptionPcap`, `OptionUdp`, `OptionModem`, `OptionsEnd`, `OptionsLeave`, `OptionsDone` |
| `mm_open_database`, `mm_config_create_tables` | `OpenDatabase`, `DatabaseFails` |
| `mm_connection_open` and `init_modem` | `ConnectFails`, `Connect`, `CommandOK`, `CommandWaits`, `CommandTries`, `CommandEnds` |
| `mm_connection_wait` | `WaitForCall`, `Waits`, `NoCall`, `CallConnects`, `CarrierLost`, `ModemError` |
| `proto_disconnect`, `hangup_modem` | `HangUp` |
| `mm_shutdown`, `mm_connection_close` | `Shutdown`, `MainEnds` |
| end of a test file | `EndOfFile` |
| `signal_handler`, SIGKILL | `Interrupt`, `Kill` |

`objects` is what has been opened, with the number of times it was closed, and `cur` which of it
each variable of the program means: the error paths of `mm_connection_open` close what
`mm_shutdown` closes again, because `mm_connection_close` forgets the serial port only.
`ClosedOnce` says that this, and the socket of a second `-u`, are the only double closes;
`EndsClosed`, that only what a repeated option replaced is left open.  An end that is not
`mm_shutdown` (a baud rate below 1200, the end of a test file, SIGKILL) leaves the closing to
the system.  A call is one state, left at any time: what happens in it is `MMSession`.

`termtyp` outlives the program, and the file it is filled from is read at every start.  An
edition that has a row keeps it, whatever the file says later (`TypesKept`).

### MMCodec, MMTables, MMFraming and MMContents

The bytes.  The situations to look at are a constant, `Setups`: what the terminal packs into its
packets, whether they come over a disturbed line or have arrived, its type, the options, the
date, and which table files there are.

`MMFraming` is the receiver of `receive_mm_packet` byte by byte, one action per state, on a line
that changes, loses or adds one byte of the first frame and may pause after it.  The parser of
`mm_dlog2pcap` sees the same bytes and no pauses.  (In a transcript written by the manager a read
that times out adds a zero or a copy of the byte before; they lie in the pauses, and where a pause
falls into a frame nothing is claimed of the transcript.)  The receiver returns a packet when its STOP
byte was due, whatever came instead.  A damaged packet's fate is that of `MMProto`.

`MMContents` takes an intact packet and walks over its tables, one action per case of the switch
in `process_mm_table` (cases that differ in what they print are one action); `Size` holds by how
much each case moves on, summed from the layouts in `MMTables`, and an unknown table is one byte.
`Reply` sends the answers, and a download follows, one table a step, with the packets
`send_mm_table` makes of it.

| code | definitions |
|---|---|
| `crc16`, `phone_num_to_string`, `string_to_bcd_a`, `callscrn_num_to_string`, `term_type_to_mtr`, `term_type_to_model` | operators of those names |
| `receive_mm_packet`, its switch | `SearchForStart` ... `GetStop`, `Timeout` |
| `mm_parse_byte`, loop of `mm_dlog2pcap` | `mm_parse_byte`, `Transcribed` |
| switch of `process_mm_table` | `TimeSyncReq` ... `TableUpdAck`, `Unhandled` |
| `send_mm_table`, `send_mm_packet` | operators of those names, `Frame` |
| `mm_download_tables` | `table_list`, `Skips`, `Mandatory`, `TableFor`, `OfModelSent` |
| `generate_*`, `load_mm_table` | operators of those names |

What the terminal sends in a field is one byte repeated, chosen so that it looks like the number
of another table; characters are numbers, their distance from '0'.

The history variable `handled` lists the tables of a packet handled so far and where, `queued` is
`cdr_ack_buffer` as it was when the packet came.  `Read` is how a terminal takes a reply apart:
answer after answer, by their sizes.  `AcksOnce` compares what it reads with what the tables of
the packet asked for (`Answers`, `Due`).

`SetupsAssumption` says which situations there are: a terminal number of ten digits, no packet
longer than its length byte can tell, a line that disturbs the first frame in one place at most,
options of digits as the usage asks for them, a date before 2155 (the year goes out as one
byte, and so does the next), table files with any number of bytes.  TLC evaluates it for the
situations of the run; the theorems have it for all of them.

## Runs

| run | bounds | shows |
|---|---|---|
| `proto` (`MMReceive.cfg`) | two terminals, one table of one or two packets, five packets a call, a time-out after two reads (the code's after eleven) | type invariant and four safety invariants of the link operations, and that they return once the line settles |
| `link` (`MMLink.cfg`) | two tables of two packets, one-packet replies, five packets a call, four faults | queue bounds; the refinement of `MMTransfer` |
| `session` (`MMShutdown.cfg`) | two terminals with one record each, room for two acknowledgements, two tables to download | type invariant with the bound of the buffer, two invariants of the acknowledgements, and that once the line settles a shutdown is delayed by `wait_for_table_ack` only |
| `download` (`MMDownload.cfg`) | two terminals of two models, one table in the default directory, in that of one model and in that of one terminal; two ticks | type invariant, and what the log proves |
| `accounting` (`MMAccounting.cfg`) | two terminals, the number of one beginning with a zero; two times, numbers, cards, status words, boxes and editions; two reports of one kind, three rows, two days | type invariant, four invariants of what is filed and told, and the refinement of `MMLedger` |
| `lifecycle` (`MMLifecycle.cfg`) | two starts, two options that open something, one edit of the file of types; two lines in the port, two things said unasked, one torn line; two tries for the code's three and five | type invariant, four safety invariants, an action property, and that SIGINT ends the program |
| `codec` (`MMContents.cfg`) | two short packets, every byte of the first changed to or preceded by one of six values, or lost; packets of every pair of tables and every triple of eight that are answered, with 0, 47 or 81 acknowledgements waiting; downloads to all 61 types and one that is not, with no, some or all files, all lengths of numbers in options and rate requests, all hours | type invariant, three invariants of the framing, nine of replies and downloads |
| `delivered` (`MMLink_delivered.cfg`) | as `link`, five faults | counterexample to `SuccessMeansDelivered` |
| `session_lost` (`MMSession_lost.cfg`) | `MMSession`, two terminals with two records each, room for two acknowledgements | counterexample to `NoRecordLost` |
| `session_spoilt` (`MMSession_spoilt.cfg`) | as `session_lost` | counterexample to `FiledWhole` |
| `shutdown_awaiting` (`MMShutdown_awaiting.cfg`) | as `session`, one terminal, room for one acknowledgement | counterexample to `ShutdownHappens` |
| `download_complete` (`MMDownload_complete.cfg`) | as `download`, one terminal | counterexample to `CompleteIsDelivered` |

Why the bounds are enough: two terminals make one call follow another's; two packets make
a first and a last packet of a table; five packets in a call are more than the four
sequence numbers, so that they wrap; the retry limit is the code's own.  The bound on
packets guards `StartSend` only, so a started table always runs to its end.  In `MMSession`
two terminals let one inherit what the other left behind, and a record that is sent again and
again fills the buffer (the code has room for 81); nothing else is bounded.  The theorems about
`MMProto` and `MMSession` hold for any numbers of these.  In `MMReceive` and `MMShutdown` noise
comes as often as it likes; how many reads the time-out takes and which records wait does not
change which loops end.
`MMDownload` treats each table
apart from the others, so one is enough; two ticks tell a file older than the log from one
written in the same tick (three ticks, 12.6 million states, hold as well but take minutes).  It
stops when the clock has run out and the manager is down.  `MMSession` may stop: after
`mm_shutdown` the program has ended.

In `MMAccounting` two reports are enough for one to be repeated, or to clash with the other, and
the third row is the second copy of one without a uniqueness rule.  All kinds at once
(`Mixed = TRUE`, one sequence number, 2.05 million states) hold as well but take minutes.  In
`MMLifecycle` two starts let one inherit the database and the modem of the other; two objects
show one option after another or given twice; a line that waits, one that comes and one torn line
are all that a try can confuse.  Three lines in the port, and the code's own three and five tries
with one start and no options, hold as well.  The modem speaks unasked only in the first start
without options (`Mixed = FALSE`): the options do not touch it.  The situations of `MMContents`
put file sizes next to the multiples of 245 bytes (with the number of the table: 1 to 491 bytes,
and a call screening list of 3,061), fill the queue with the 47 acknowledgements a terminal of 50
records leaves for a packet of three and with the 81 it holds at most, and give numbers of up to 15 digits.  A packet holds at most three tables,
a frame is disturbed once.

`MMSession`, `MMShutdown`, `MMDownload`, `MMLifecycle` and `MMContents` come to an end (the program is down or
everything has been received), so their runs do not look for deadlocks.

Fairness: what the tty driver guarantees is that a single read ends, with a byte or after a
second (VTIME).  In `MMReceive` that is weak fairness of `Reads`, in `MMShutdown` of `Thread`; it
says nothing of a loop over reads, of what a read brings, or of the client.  That the loop of
`receive_mm_packet` ends takes an assumption about the line in addition, `LineSettles`: from some
time on there is nothing on it but whole packets, or silence.  The code does not guarantee it: the
loop resets its time-out at every byte.  `CallsReturn`, `ShutdownUnlessAwaiting` and
`ShutdownHappens` have it as their premise, and say nothing of a line that does not settle.
`LineSettles` allows any noise before, also after SIGINT.  Neither a call nor SIGINT need ever come.

In `MMLifecycle` fairness is that of the thread outside a call, `Options \/ Main`: a read of the
port ends after a second, and `wait_for_modem_response` bounds both the reads without a byte and
the bytes it takes, so noise does not hold it.  Nothing is asked of the modem, the session or the
operator; `InterruptStops` therefore speaks of a SIGINT outside of a call, and
`ShutdownUnlessAwaiting` of one in it.

## Findings

1. **Spoilt records are filed for whole ones** (`session_spoilt`).  `receive_mm_table` overwrites the
   error of a damaged table with the result of `wait_for_mm_ack` for its NACK.  A terminal that
   sends the table again, or an ACK, makes that success: `process_mm_table` then works on the
   damaged packet, and the retransmission, consumed as an acknowledgement, is lost.  The comment on
   the line says "Retry unless the terminal disconnected".  In the trace a call record, damaged
   behind its number and start time, is filed and acknowledged, and the terminal drops the whole
   one.  `process_mm_table` adds a second way there: it keeps the result of `receive_mm_table` in a
   `uint8_t`, which loses a lost carrier and a failed read, and processes what had come of the
   packet.  The record is saved with zeros for duration, type and authorization; when the whole
   one comes in the next call, INSERT OR IGNORE leaves the row as it is, and it is acknowledged.
2. **Success without delivery** (`delivered`).  `wait_for_mm_ack` accepts any packet with a
   payload.  When five attempts at the last packet of a table fail though the terminal
   accepted it, `mm_download_tables` goes on with the next table while the
   DLOG_MT_TABLE_UPD_ACK of this one is still unread: it passes for the acknowledgement of
   the next packet, which may have been lost.
3. **Records lost after a dropped upload** (`session_lost`).  Only DLOG_MT_END_DATA resets
   `trans_data_in_progress` and empties `cdr_ack_buffer`.  When a call drops in the middle of
   an upload, its acknowledgements stay queued, and the next terminal that ends an upload gets
   them with its own.  They name records by number only, so that terminal drops records that
   were never saved.  From the same cause a single record of a card call is not acknowledged
   "immediately", as the comment at `src/mm_manager.c:799` has it, but queued.
4. **Shutdown that does not come** (`shutdown_awaiting`).  `wait_for_table_ack` sets
   `retries = 2`, loops while it is positive and never counts it down; nor does it look at
   `manager_running`.  As long as the line is up and the terminal silent it asks for a retry and
   waits again, and a SIGINT ("Received ^C, wait for shutdown.") is not obeyed.  On a
   line that settles it is the only loop that does not: that is `ShutdownUnlessAwaiting`.
5. **A complete download that is not** (`download_complete`).  `mm_download_tables` writes "Terminal
   ... download complete." into the log whenever the call is still up at its end.  The trace breaks
   the loop off by SIGINT; a table that cannot be loaded, or is not acknowledged, does the same.
   The next forced download takes the log at its word and skips what was never sent.  It also skips
   what changed in the directory of a model: `load_mm_table` looks for a file in the directory of
   the terminal, of its model, and in the default one, and `check_mm_table_is_newer` leaves out the
   second.  The README of the repository has it that a forced download "will download only the
   table that changed".

Other things the models show that no run is needed for:

* `receive_mm_packet` sets `timeout` back to 0 at every byte, throws bytes away until one is a START,
  and looks neither at `manager_running` nor at a clock.  As long as such bytes come and the carrier
  stays (or is not monitored), no link operation returns and a SIGINT is not obeyed, in any call:
  the properties about both assume `LineSettles`.
* Status and percentage of a cash box change places between saving and loading, as
  `mm_acct_save_TCASHST` names their columns in one order and gives their values in the other: a
  terminal is told the percentage for the status.
* A report whose statement the database refuses is answered like any other, and its terminal drops
  it: `AnsweredIsFiled` and `MMLedger` have `refused` as their exception.
* `mm_connection_open` closes the streams on its error paths, and `mm_shutdown` closes them again:
  `ClosedOnce` has that as its exception.
* Cents of a cash box are lost between saving and loading (`Dollars`).
* `rx_seq` is incremented after NACKs and retry requests too (`NextSeq`): the ACK that
  `wait_for_table_ack` sends after a retry request carries the incremented value, where the
  repository's README, on the flags of a packet, has that of the last packet received.
* A number of the manager of 13 to 15 digits, which the README of the repository allows, is cut
  to 12 for the terminals of the first versions (`NumbersKept` says so).
* `-r` charges digits 7 to 10 of the number dialed, which are its last four only if it has ten
  (`RatedAsDialed`); behind a shorter number it computes with the end of the string.
* Call-in parameters generated on a 29 February expire on a day that does not exist
  (`CallsTwiceDaily` excepts it).
* A table the manager does not know is skipped by one byte, so that its contents are handled as
  tables; `TablesInOrder` holds up to the first such table.
* A modem response that is torn by more than a second is not understood, and CONNECT while the
  modem is being initialized is discarded: the manager then waits with the modem in a call
  (`missed`).

## Proofs

`MMLink_proofs` proves of `MMProto`, for any sets of tables and terminals, either setting of
`MonitorCarrier` and any bounds, that `Spec` keeps `TypeOK`, `TxSeqNumbersPackets`,
`SendStatusHonest`, `RepliesAddressCaller` and `SilentWhenDown`.  They assume
`ConstantsAssumption`: `None` is neither a table nor a terminal, the bounds are natural
numbers and a table has at least one packet.

None of the five is inductive.  `IInv` adds what the code relies on without saying it: an
operation blocked in a read has a live call, so that `tx_seq` still counts; a send has
answered `chunk - 1` packets and counted fewer than all it may start; the buffer is "good"
only after a table that named its sender.  The proof has one lemma per action, each with
one step per conjunct the action can disturb; `Silence` and `AfterPacket` carry what the
actions that send nothing, or end a packet, have in common.

`MMSession_proofs` proves `TypeOK`, `SavedBeforeAcked` and `UploadAcksWait` for any sets of
terminals and records, any room and any number of tables, from `SessionAssumption` (`None` is
neither a terminal nor a record, there is a table to download).  `IInv` adds that outside
`process_mm_table` there is neither a reply nor a table left over (`Scopes`), and that the
manager knows that a terminal uploads or has the start of the upload as its only table
(`UploadKnown`); without the second, `UploadAcksWait` is not inductive.  `ControlStep`,
`StartStep` and `NoAckStep` carry what the actions of main, of receiving and of answering
have in common.

`OneTerminalLosesNothing` is the other side of the third finding: where there is one terminal
only, `NoRecordLost` follows from `SavedBeforeAcked`, because a queued acknowledgement can
only come back to the terminal it belongs to.  The row may still be a spoilt record (finding 1).

`MMDownload_proofs` proves `TypeOK` and `LogProves` from `DownloadAssumption` (types of the
constants; DLOG_MT_END_DATA is not a table in a file), for any models, lists and files, with
and without `-c`.  `IInv` adds `DoneIsAtTerminal`: of the tables a download in progress is done
with, those not in doubt are at the terminal, which is what makes the log true when it is
written.  The lemma `OtherFiles` carries the argument about time: a file that is written is not
older than any log.

`MMAccounting_proofs` proves `TypeOK`, `AnsweredIsFiled`, `FiledOnce`, `StatusChanges`,
`CashBoxIsLast` and the refinement `ImplementsLedger`, from `AccountingAssumption` (types of the
constants; no status word is the one of all ones) and `NoneAssumption`.  `IInv` adds that
the table in work is one its terminal has sent and, if it is answered, still holds (`InWork`);
that a table about to be answered is in the database, refused, or an authorization whose number
is taken (`Worked`); that the rows are reports of terminals and dated reports have a stamp of
their own (`Known`, `Stamped`); that TCASHST has the last box saved (`BoxesKept`) and the status
rows of a terminal a last one (`LastExists`).  The refinement maps each `Save` to filing,
refusing or nothing, and `Reply` to settling, which is allowed because of `Worked`.

`MMLifecycle_proofs` proves `TypeOK`, `ClosedOnce`, `EndsClosed`, `InitMeansConfigured`,
`ConnectNoticed` and `TypesKept`, for any numbers of tries and any bounds, with and without
`Mixed`, from `ModemAssumption` (at least one try; `None` is not a word, a response or a
command) and `LifecycleAssumption` (types of the constants).  `IInv` has two parts.
`ObjectInv` adds what `mm_shutdown` relies on: while the program runs nothing is closed, every
name means an object of its kind, and an option not given twice has its object under its name
(`Running`); `Closing` computes what closing a set of names does to the objects, and
`ShutdownEnds` what an object must be like for `mm_shutdown` to leave it closed, and once.
`ModemInv` adds what `send_at_command` relies on: the pieces of a line come one behind the other
(`Paired`); only the last command may still be answered, and the one OK that can be read is the
answer to it (`Current`, unless `late`); a CONNECT is where it can be heard, or known to be
missed (`Noticed`).  `TypesKept` needs no invariant.

Of `MMLink`, it proves `LinkTypeOK`, `SuccessMeansDelivered` and the refinement
`ImplementsTransfer`, for any tables, any lengths of tables and of calls, from `LinkAssumption`
and one hypothesis, `FewFaults`: the line harms fewer packets than `send_mm_table` makes attempts.
That is the exact boundary: run `delivered` has one fault more, and `SuccessMeansDelivered` fails.
The manager takes any packet for the acknowledgement it waits for, so the proof has to say why
the packet that comes is the right one.  The inductive invariant `LinkIInv`
does: a dead line carries nothing (`Calm`); the terminal has the packets up to the one that is
being sent, with or without it (`Progress`); the data packets on the line are all that one
(`Current`); before the terminal accepts it nothing on its way back acknowledges it
(`Unaccepted`), and from then on there is nothing on the line but repetitions and answers to them
(`Answered`); each attempt that failed was paid for by a fault (`Paid`), so that attempts do not
run out; and what is left between two packets cannot be taken for an answer to the next
(`Between`). `LinkImplementsProto` says that the manager of `MMLink` is the one
of `MMProto`, whose theorems therefore hold of it.

`MMCodec_proofs` has what the codec operators compute, for all arguments: `crc16` stays in 16 bits
and can be taken over a sequence in parts (`CrcInParts`), packing and unpacking digits are
inverse, `string_to_bcd_a` fills its buffer.  `MMContents_proofs` builds on it, from
`SetupsAssumption`:

* `FramingInvariant`.  Receiver and transcript parser go through a frame in step, unless a pause
  fell into one (`Lockstep`), and the buffer has as many bytes as the state says (`PacketAt`).
  `TranscriptsAgree` follows, for any frames, disturbances and pauses, with no further hypothesis.
* `ContentsInvariant`.  The packet at hand is one that the terminal sent, hence begins with its
  number, and what the walk reads are bytes (`WalkInv`, `ContextInv`); what is being sent is a
  reply or a table of the download, in packets for the caller (`SendInv`).  `TypeOK`,
  `ReplyToCaller`, `ChunksRebuild`, `CallsTwiceDaily`, `NumbersKept` and `FormsMatch` follow.
  They are stated of behaviours with `[]IntactIsSent`, and need it: 16 bits of checksum do not
  tell all damaged frames from sent ones, and behind a frame that passed by collision with fewer
  than five bytes of payload the manager would take the number of the terminal from what an earlier
  packet left.  The run `codec` finds no collision among its disturbances.
* `RequiredTablesSent` needs no such hypothesis: whoever asked for it, a download that is over
  has sent every required table once.  The invariant `DownloadInv` says which part of the list is
  done.

`MMPackets_proofs` goes on from there:

* `UndamagedPacketsArrive` is `UndamagedArrives` for any frames, and any disturbance of the first.
  `ArrivalInvariant` says which frame the receiver is in, and where: what it has is the beginning
  of that frame, and the rest of it, pauses and the frames behind it are still on the line.  That
  holds from the start if no frame is disturbed, and from the pause on if the terminal pauses behind
  the one that is: however far the receiver was off by then, its time-out makes it start afresh.
* `CleanLine`: on a line that disturbs nothing, `IntactIsSent` follows from the same invariant.
* `TablesHandledInOrder` is `TablesInOrder` for any packets.  `OrderInv` says that the tables
  handled are the first of the packet, at their places, and that `ppayload` stands where the next
  begins (`InOrder`), as long as the manager knows them all (`Known`).  `Placed` says where the
  terminal put the bytes of each table, `NextTable` that `ppayload` therefore points to the number
  of a table and never into one.
* `AcknowledgedOnce` is `AcksOnce`, and `ChargedAsDialed` is `RatedAsDialed`, for any packets, any
  records that wait and any number dialed.  Three invariants lead there.  `QueueInv`: what waits in
  `cdr_ack_buffer` are whole acknowledgements of call records, and nothing waits when there is no
  upload; without the second half, an acknowledgement sent at once could overtake one that waits.
  `OrderInv`, from above: the table in hand is the one whose bytes the walk reads, so that the
  number it acknowledges is that of this table.  `ReplyInv`: as long as the manager knows all
  tables of the packet, the reply so far is the answers to the tables handled so far, and what it
  acknowledges, with what waits now, is what waited when the packet came and the records since
  (`Answering`).  `RoomFor`, that there is room for all of these, is a hypothesis of that last
  part alone: `append_to_cdr_ack_buffer` drops what does not fit.  The invariant speaks of a reply
  as a sequence of answers (`Answered`); `ReadIs` shows that a terminal that takes the bytes apart
  by their sizes finds this very sequence, for every reply.
* `CleanCall` puts the two modules together: with no disturbance the properties above need no
  hypothesis.

Recursion in these modules is written as recursive functions, and what they compute is proved
by induction in the form of sets: a set of numbers that has 0 and is closed under successors
has them all (`NatInduction` of the library needs an operator for a parameter, which the provers
cannot instantiate; a set they can).

Only model-checked:

* `CallsReturn`, `ShutdownUnlessAwaiting`, `InterruptStops`: liveness, out of the prover's reach.
* `IntactIsSent` with a disturbed frame: it depends on which frames collide in the checksum, hence
  on the frames of the run.
* The counterexamples of the findings.

## Left to do

`MMSession` driven by the packets of `MMContents`; the offline table converters against the
layouts in `MMTables`.

## Not modelled

* Formatting: what is printed of packets, tables and reports, the text of SQL statements and AT
  commands, the headers of a packet capture and of the UDP mirror, the Wireshark dissector.
* The settings of the tty and the Windows serial port; the operating system, whose answers are
  inputs.  Undefined behaviour of `fclose` on a closed stream is reported by `ClosedOnce`, not
  followed further.
* `mm_tables.c`: it creates a table of the database that nothing in the manager fills or reads.
* The stand-alone tools that print or write one table file, the converters, the table cutter and
  the card check (`mm_luhn.c`), and the Python generators: one file or argument in, one out, no
  state and nothing shared with the manager.
* Vendored code.
