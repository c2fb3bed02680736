---------------------------- MODULE MMAccounting ----------------------------
(***************************************************************************)
(* The accounting of mm_manager: what process_mm_table saves of each table *)
(* a terminal sends, the SQLite database it is saved in, and the cash box  *)
(* status that is read back.                                               *)
(*                                                                         *)
(* The database outlives the program, which may be killed between any two  *)
(* steps; it may refuse any statement (another process has it locked, the  *)
(* disk is full), and mm_sql_exec counts a violated constraint as success. *)
(* The terminal sends a report again until it is answered, or, for the     *)
(* reports that get no answer, until the link has acknowledged it.         *)
(*                                                                         *)
(* pc says where the thread is:                                            *)
(*   down      not running                                                 *)
(*   idle      between two tables                                          *)
(*   save      process_mm_table, in the case of the table                  *)
(*   answer    process_mm_table, about to send the reply                   *)
(***************************************************************************)
EXTENDS Naturals, Sequences, FiniteSets

CONSTANTS
    Terminals,      \* the payphones, by phone number
    Plain,          \* those whose phone number does not begin with a zero
    None,           \* no report, no field
    Times,          \* what the clocks of the terminals read
    Seqs,           \* sequence numbers of records, alarm numbers, op codes
    Cards,          \* the cards and calls that authorizations are asked for
    StatusWords,    \* terminal status words; 0 is a terminal without a fault
    AllOnes,        \* the status word that no terminal has
    Boxes,          \* contents of cash boxes
    Editions,       \* control ROM editions
    MaxDay,         \* bound: days the manager runs
    MaxReports,     \* bound: different reports of the terminals
    MaxRows,        \* bound: rows of the database
    Mixed           \* bound: are there reports of different kinds in one behaviour?

\* CASHBOX_STATUS_NORMAL to CASHBOX_STATUS_FULL, percent, cents.
MaxByte == 255
MaxWord == 65535
BoxContents == [status : 0..4, percent : 0..100, value : 0..MaxWord]

ASSUME AccountingAssumption ==
    /\ Plain \subseteq Terminals
    /\ StatusWords \subseteq Nat /\ AllOnes \notin Nat
    /\ Boxes \subseteq BoxContents
    /\ MaxDay \in Nat /\ MaxReports \in Nat /\ MaxRows \in Nat
    /\ Mixed \in BOOLEAN

NoStatus == 0           \* what mm_sql_read_uint64 reads where there is no row

\* A report is named after the table of the database it belongs to.
Kinds == {"TALARM", "TAUTH", "TCDR", "TCALLST", "TCASHST", "TCOLLST", "TOPCODE",
          "TPERFST", "TSTATUS", "TSWVERS"}
Dated == {"TALARM", "TCDR", "TCALLST", "TCASHST", "TCOLLST", "TPERFST"}
Numbered == {"TALARM", "TAUTH", "TCDR", "TOPCODE"}

Says(k) ==
    CASE k = "TAUTH" -> Cards
      [] k = "TCASHST" -> Boxes
      [] k = "TSTATUS" -> StatusWords
      [] k = "TSWVERS" -> Editions
      [] OTHER -> {None}

ReportsOf(k) ==
    [kind : {k}, from : Terminals,
     time : IF k \in Dated THEN Times ELSE {None},
     seq : IF k \in Numbered THEN Seqs ELSE {None},
     says : Says(k)]
Reports == UNION {ReportsOf(k) : k \in Kinds}

ASSUME NoneAssumption == None \notin Terminals \cup Times \cup Reports

\* The kinds process_mm_table answers; the terminal is content with the link's
\* acknowledgement of the others, which comes before they are saved.
Answered == {"TALARM", "TAUTH", "TCDR", "TCOLLST", "TOPCODE"}

----------------------------------------------------------------------------
(* The tables of the database.  A row is a report and the day it came. *)

Rows == [msg : Reports, day : 0..MaxDay]
Row(m, d) == [msg |-> m, day |-> d]

Stamp(r) == <<r.msg.from, r.msg.time, r.msg.seq>>

TALARM_Key(r) == Stamp(r)
TAUTH_Key(r) == <<r.msg.from, r.day, r.msg.seq>>
TCDR_Key_Received(r) == <<r.msg.from, r.day, r.msg.seq>>
TCDR_Key(r) == Stamp(r)
TCALLST_Key(r) == Stamp(r)
TCOLLST_Key(r) == Stamp(r)
TPERFST_Key(r) == Stamp(r)
TSWVERS_Key(r) == r.msg.says

Both(k, r, s) == r.msg.kind = k /\ s.msg.kind = k

\* The uniqueness rules; TOPCODE and TSTATUS have none.
Clash_AlarmsRepeat(r, s) ==
    \/ Both("TAUTH", r, s) /\ TAUTH_Key(r) = TAUTH_Key(s)
    \/ Both("TCDR", r, s) /\ TCDR_Key(r) = TCDR_Key(s)
Clash(r, s) ==
    \/ Both("TALARM", r, s) /\ TALARM_Key(r) = TALARM_Key(s)
    \/ Both("TAUTH", r, s) /\ TAUTH_Key(r) = TAUTH_Key(s)
    \/ Both("TCDR", r, s) /\ TCDR_Key(r) = TCDR_Key(s)
    \/ Both("TCALLST", r, s) /\ TCALLST_Key(r) = TCALLST_Key(s)
    \/ Both("TCOLLST", r, s) /\ TCOLLST_Key(r) = TCOLLST_Key(s)
    \/ Both("TPERFST", r, s) /\ TPERFST_Key(r) = TPERFST_Key(s)
    \/ Both("TSWVERS", r, s) /\ TSWVERS_Key(r) = TSWVERS_Key(s)

\* The columns of TCASHST: mm_acct_save_TCASHST gives percent_full for the first and
\* status for the second, so that its CHECK (PERCENT_FULL <= 100) never refuses a row.
NoBox == [CASH_BOX_STATUS |-> None, PERCENT_FULL |-> None, CURRENCY_VALUE |-> None,
          START |-> None]
Columns(m) ==
    [CASH_BOX_STATUS |-> m.says.percent, PERCENT_FULL |-> m.says.status,
     CURRENCY_VALUE |-> m.says.value, START |-> m.time]
BoxRows == {Columns(m) : m \in ReportsOf("TCASHST")}

\* mm_sql_load_TCASHST: the columns by their names, and (uint16_t)dollars * 100.
Dollars_Up(value) == ((value + 99) \div 100) * 100
Dollars(value) == (value \div 100) * 100
Loaded(c) ==
    [status |-> c.CASH_BOX_STATUS, percent |-> c.PERCENT_FULL,
     value |-> Dollars(c.CURRENCY_VALUE), time |-> c.START]
EmptyBox == [status |-> 0, percent |-> 0, value |-> 0, time |-> None]
SentBoxes ==
    [status : 0..MaxByte, percent : 0..MaxByte, value : 0..MaxWord, time : Times \cup {None}]
NoReply == [to |-> None, box |-> EmptyBox, failed |-> FALSE]

VARIABLES
    \* the program
    pc, table, told,
    \* the database file: the tables rows are added to, and TCASHST
    rows, cashst,
    \* the server's date
    day,
    \* the terminals: what they have reported, and what they still have to deliver
    reported, held,
    \* history: reports of which a statement failed; the last cash box saved
    refused, lastBox

dbVars == <<rows, cashst>>
progVars == <<pc, table, told>>
termVars == <<reported, held>>
vars == <<progVars, dbVars, day, termVars, refused, lastBox>>

TypeOK ==
    /\ pc \in {"down", "idle", "save", "answer"}
    /\ table \in Reports \cup {None}
    /\ told \in [to : Terminals \cup {None}, box : SentBoxes, failed : BOOLEAN]
    /\ rows \in Seq(Rows)
    /\ cashst \in [Terminals -> BoxRows \cup {NoBox}]
    /\ day \in 0..MaxDay
    /\ reported \subseteq Reports /\ held \subseteq reported
    /\ refused \subseteq reported
    /\ lastBox \in [Terminals -> Reports \cup {None}]

Init ==
    /\ pc = "down" /\ table = None /\ told = NoReply
    /\ rows = <<>> /\ cashst = [t \in Terminals |-> NoBox]
    /\ day = 0
    /\ reported = {} /\ held = {}
    /\ refused = {} /\ lastBox = [t \in Terminals |-> None]

----------------------------------------------------------------------------
(* The terminals and the operator. *)

\* The clock of a terminal and its numbers tell dated reports of a kind apart.
SameStamp(m, n) ==
    m.kind = n.kind /\ m.from = n.from /\ m.time = n.time /\ m.seq = n.seq

InScope(k) == Mixed \/ \A n \in reported : n.kind = k

Occurs(m) ==
    /\ m \notin held
    /\ m.kind \in Dated => \A n \in reported : ~SameStamp(m, n)
    /\ m \in reported \/ Cardinality(reported) < MaxReports
    /\ InScope(m.kind)
    /\ reported' = reported \cup {m}
    /\ held' = held \cup {m}
    /\ UNCHANGED <<progVars, dbVars, day, refused, lastBox>>

Midnight ==
    /\ day < MaxDay
    /\ day' = day + 1
    /\ UNCHANGED <<progVars, dbVars, termVars, refused, lastBox>>

----------------------------------------------------------------------------
(* Starting and stopping. *)

\* mm_open_database finds the tables of an earlier start, or creates them.  When it fails
\* the program ends at once.
Open ==
    /\ pc = "down"
    /\ pc' = "idle"
    /\ UNCHANGED <<table, told, dbVars, day, termVars, refused, lastBox>>

\* mm_shutdown, a kill, or a loss of power: what was saved is in the file.
Stop ==
    /\ pc # "down"
    /\ pc' = "down" /\ table' = None /\ told' = NoReply
    /\ UNCHANGED <<dbVars, day, termVars, refused, lastBox>>

----------------------------------------------------------------------------
(* process_mm_table: one table of a packet. *)

\* The link's acknowledgement precedes the processing.
Receive_Settles(m) ==
    /\ pc = "idle" /\ m \in held /\ Len(rows) < MaxRows
    /\ pc' = "save" /\ table' = m
    /\ held' \in {held, held \ {m}}
    /\ UNCHANGED <<told, dbVars, day, reported, refused, lastBox>>
Receive(m) ==
    /\ pc = "idle" /\ m \in held /\ Len(rows) < MaxRows
    /\ pc' = "save" /\ table' = m
    /\ \/ held' = held
       \/ m.kind \notin Answered /\ held' = held \ {m}
    /\ UNCHANGED <<told, dbVars, day, reported, refused, lastBox>>

Saving(k) ==
    /\ pc = "save" /\ table.kind = k
    /\ pc' = "answer"
    /\ UNCHANGED <<table, told, day, termVars>>

Fails == refused' = refused \cup {table}

Taken(m) == \E i \in 1..Len(rows) : Clash(rows[i], Row(m, day))

\* mm_sql_exec of an INSERT: done, ignored for a constraint, or failed; the results of all
\* are ignored by process_mm_table.
Insert ==
    \/ ~Taken(table) /\ rows' = Append(rows, Row(table, day)) /\ UNCHANGED refused
    \/ Taken(table) /\ UNCHANGED <<rows, refused>>
    \/ Fails /\ UNCHANGED rows

Inserts(k) == Saving(k) /\ Insert /\ UNCHANGED <<cashst, lastBox>>

SaveTALARM == Inserts("TALARM")
SaveTAUTH == Inserts("TAUTH")
SaveTCDR == Inserts("TCDR")
SaveTCALLST == Inserts("TCALLST")
SaveTCOLLST == Inserts("TCOLLST")
SaveTOPCODE == Inserts("TOPCODE")
SaveTPERFST == Inserts("TPERFST")

\* REPLACE INTO: the row of this terminal goes, whatever is in it.
SaveTCASHST_Insert ==
    /\ Saving("TCASHST")
    /\ cashst' = [cashst EXCEPT ![table.from] = IF @ = NoBox THEN Columns(table) ELSE @]
    /\ lastBox' = [lastBox EXCEPT ![table.from] = table]
    /\ UNCHANGED <<refused, rows>>
SaveTCASHST ==
    /\ Saving("TCASHST")
    /\ \/ /\ cashst' = [cashst EXCEPT ![table.from] = Columns(table)]
          /\ lastBox' = [lastBox EXCEPT ![table.from] = table]
          /\ UNCHANGED refused
       \/ Fails /\ UNCHANGED <<cashst, lastBox>>
    /\ UNCHANGED rows

StatusRow(i, t) == rows[i].msg.kind = "TSTATUS" /\ rows[i].msg.from = t

\* The SELECT compares TERMINAL_ID with the phone number as a number: the zeros it begins
\* with are lost, and no row is found.
LastStatus_Any(t, w) ==
    \/ \E i \in 1..Len(rows) :
          /\ t \in Plain /\ rows[i].msg.kind = "TSTATUS"
          /\ \A j \in (i + 1)..Len(rows) : rows[j].msg.kind # "TSTATUS"
          /\ w = rows[i].msg.says
    \/ (t \notin Plain \/ \A i \in 1..Len(rows) : rows[i].msg.kind # "TSTATUS") /\ w = NoStatus
LastStatus(t, w) ==
    \/ \E i \in 1..Len(rows) :
          /\ t \in Plain /\ StatusRow(i, t)
          /\ \A j \in (i + 1)..Len(rows) : ~StatusRow(j, t)
          /\ w = rows[i].msg.says
    \/ (t \notin Plain \/ \A i \in 1..Len(rows) : ~StatusRow(i, t)) /\ w = NoStatus

\* Saved only if it differs from the last; a SELECT that fails reads no status or all ones.
SaveTSTATUS ==
    /\ Saving("TSTATUS")
    /\ \/ LastStatus(table.from, table.says) /\ UNCHANGED <<rows, refused>>
       \/ ~LastStatus(table.from, table.says) /\ Insert
       \/ \E w \in {NoStatus, AllOnes} :
             /\ Fails
             /\ \/ rows' = rows
                \/ w # table.says /\ rows' = Append(rows, Row(table, day))
    /\ UNCHANGED <<cashst, lastBox>>

\* The terminal's type is looked up first (MMLifecycle), and does not go into the row.
SaveTSWVERS == Inserts("TSWVERS")

\* DLOG_MT_ATN_REQ_TAB_UPD with TTBLREQ_CASHBOX_STATUS: mm_acct_load_TCASHST.  When there
\* is no row, or it cannot be read, the box counts as empty.
LoadTCASHST(t) ==
    /\ pc = "idle"
    /\ pc' = "answer"
    /\ told' \in {[to |-> t, failed |-> FALSE,
                    box |-> IF cashst[t] = NoBox THEN EmptyBox ELSE Loaded(cashst[t])],
                  [to |-> t, failed |-> TRUE, box |-> EmptyBox]}
    /\ UNCHANGED <<table, dbVars, day, termVars, refused, lastBox>>

\* The end of process_mm_table: the reply is sent, and may be lost.
Reply ==
    /\ pc = "answer"
    /\ pc' = "idle" /\ table' = None /\ told' = NoReply
    /\ \/ held' = held
       \/ table # None /\ table.kind \in Answered /\ held' = held \ {table}
    /\ UNCHANGED <<dbVars, day, reported, refused, lastBox>>

----------------------------------------------------------------------------
Save ==
    \/ SaveTALARM \/ SaveTAUTH \/ SaveTCDR \/ SaveTCALLST \/ SaveTCASHST \/ SaveTCOLLST
    \/ SaveTOPCODE \/ SaveTPERFST \/ SaveTSTATUS \/ SaveTSWVERS

Next ==
    \/ \E m \in Reports : Occurs(m) \/ Receive(m)
    \/ Midnight \/ Open \/ Stop \/ Save \/ Reply
    \/ \E t \in Terminals : LoadTCASHST(t)

Spec == Init /\ [][Next]_vars

----------------------------------------------------------------------------
(* Properties *)

OnFile == {rows[i].msg : i \in 1..Len(rows)}

SeqTaken(m) ==
    \E i \in 1..Len(rows) :
        /\ Both("TAUTH", rows[i], Row(m, day))
        /\ rows[i].msg.from = m.from /\ rows[i].msg.seq = m.seq

\* A report that its terminal has dropped because process_mm_table answered it is in the
\* database with all it says, unless a statement failed; a card authorization (TAUTH) may
\* instead have found its number used by another one of the same day.
AnsweredIsFiled ==
    \A m \in reported \ held : m.kind \in Answered => m \in refused \cup OnFile \/ SeqTaken(m)

\* However often a report is sent, over restarts and midnights, the tables that are unique
\* by the terminal's own clock have it once.
FiledOnce ==
    \A i, j \in 1..Len(rows) : rows[i].msg = rows[j].msg /\ rows[i].msg.kind \in Dated => i = j

\* "Retrieve the most recent terminal status, and update only if changed"
\* (mm_acct_save_TSTATUS): a status row differs from the row before it of that terminal, and
\* the first is of a fault, unless a statement failed or the phone number begins with a zero.
StatusChanges ==
    \A j \in 1..Len(rows) : \A t \in Plain :
        StatusRow(j, t) /\ rows[j].msg \notin refused =>
            \/ \E i \in 1..(j - 1) :
                  /\ StatusRow(i, t) /\ rows[i].msg.says # rows[j].msg.says
                  /\ \A k \in (i + 1)..(j - 1) : ~StatusRow(k, t)
            \/ rows[j].msg.says # NoStatus /\ \A i \in 1..(j - 1) : ~StatusRow(i, t)

\* A terminal that asks for its cash box is told of its own last report that was saved: the
\* time, and the amount to the dollar.
CashBoxIsLast ==
    told.to # None /\ ~told.failed =>
        IF lastBox[told.to] = None THEN told.box = EmptyBox
        ELSE /\ told.box.time = lastBox[told.to].time
             /\ told.box.value = 100 * (lastBox[told.to].says.value \div 100)

\* The reports that are answered and are known in the database by themselves.
LedgerKinds == Answered \ {"TAUTH"}
LedgerReports == UNION {ReportsOf(k) : k \in LedgerKinds}
Ledgered(ms) == {m \in ms : m.kind \in LedgerKinds}
Ledger == INSTANCE MMLedger WITH
    Reports <- LedgerReports,
    open <- Ledgered(held),
    filed <- Ledgered(OnFile),
    refused <- Ledgered(refused)

\* The accounting keeps its promise to the terminals (MMLedger).
ImplementsLedger == Ledger!Spec
=============================================================================
